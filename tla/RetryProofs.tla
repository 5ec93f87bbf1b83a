---------------------------- MODULE RetryProofs ----------------------------
(***************************************************************************)
(* Proofs about module Retry: its safety properties, and that it keeps     *)
(* what module Waiting promises, but for the promise that the call returns.*)
(***************************************************************************)
EXTENDS Retry, TLAPS

\* The poller has not found anything yet and may go on.
Polling == {"check", "probe", "report", "sleep", "expired"}

\* Where everybody is when: who has closed done, and what has been found.
\* done can be closed without a success only by the timer; a success closes
\* it, unless the timer has.
Agree ==
  /\ retrier \in Polling => ~found
  /\ retrier \in {"succeeded", "closing"} => found /\ (done => timer = "closed")
  /\ retrier = "expired" => done
  /\ retrier \in {"leaving", "ended"} => done
  /\ timer = "closed" => done
  /\ timer = "stopped" => done
  /\ done /\ ~found => timer = "closed"
  /\ waiter = "failed" => retrier \in {"leaving", "ended"} /\ ~found
  /\ waiter = "ok" => retrier \in {"closing", "leaving", "ended"}
  /\ crashed => found /\ timer \in {"fired", "closed"}

IInv == TypeOK /\ Agree

\* The variables keep their types.
THEOREM TypeCorrect == Spec => []TypeOK
<1>1. Init => TypeOK
  BY DEF Init, TypeOK
<1>2. TypeOK /\ [Next]_vars => TypeOK'
  <2> SUFFICES ASSUME TypeOK, [Next]_vars PROVE TypeOK'
    OBVIOUS
  <2> USE DEF TypeOK
  <2>1. CASE Change \/ UNCHANGED vars
    BY <2>1 DEF Change, vars
  <2>2. CASE Check \/ Probe \/ Wake \/ Leave
    BY <2>2 DEF Check, Probe, Wake, Leave
  <2>3. CASE Report \/ Succeed \/ TimeOut
    BY <2>3 DEF Report, Succeed, TimeOut, Send
  <2>4. CASE Close \/ CloseFired
    BY <2>4 DEF Close, CloseFired, CloseDone
  <2>5. CASE Fire \/ Cancel
    BY <2>5 DEF Fire, Cancel
  <2>6. CASE Receive \/ Exhausted
    BY <2>6 DEF Receive, Exhausted
  <2> QED BY <2>1, <2>2, <2>3, <2>4, <2>5, <2>6 DEF Next, Operator, Retrier, Timer, Waiter
<1> QED BY <1>1, <1>2, PTL DEF Spec

\* Every step keeps the poller, the timer and the caller in agreement.
LEMMA AgreeInductive == IInv /\ [Next]_vars => Agree'
<1> SUFFICES ASSUME IInv, [Next]_vars PROVE Agree'
  OBVIOUS
<1> USE DEF IInv, TypeOK, Agree, Polling
<1>1. CASE Change
  BY <1>1 DEF Change
<1>2. CASE Check \/ Wake \/ Leave
  BY <1>2 DEF Check, Wake, Leave
<1>3. CASE Probe
  BY <1>3 DEF Probe
<1>4. CASE Report
  BY <1>4 DEF Report, Send
<1>5. CASE Succeed
  BY <1>5 DEF Succeed, Send
<1>6. CASE Close
  BY <1>6 DEF Close, CloseDone
<1>7. CASE TimeOut
  BY <1>7 DEF TimeOut, Send
<1>8. CASE Fire \/ Cancel
  BY <1>8 DEF Fire, Cancel
<1>9. CASE CloseFired
  BY <1>9 DEF CloseFired, CloseDone
<1>10. CASE Receive \/ Exhausted
  BY <1>10 DEF Receive, Exhausted
<1>11. CASE UNCHANGED vars
  BY <1>11 DEF vars
<1> QED
  BY <1>1, <1>2, <1>3, <1>4, <1>5, <1>6, <1>7, <1>8, <1>9, <1>10, <1>11
     DEF Next, Operator, Retrier, Timer, Waiter

LEMMA Invariant == Spec => []IInv
<1>1. Init => Agree
  BY DEF Init, Agree, Polling
<1>2. Spec => []TypeOK
  BY TypeCorrect
<1>3. TypeOK /\ Agree /\ [Next]_vars => Agree'
  BY AgreeInductive DEF IInv
<1> QED BY <1>1, <1>2, <1>3, PTL DEF Spec, IInv

\* A call fails only when the minute is over and nothing was found.
THEOREM Failures == Spec => []FailureIsTimeout
<1>1. IInv => FailureIsTimeout
  BY DEF IInv, Agree, FailureIsTimeout
<1> QED BY <1>1, Invariant, PTL

\* The process panics only when the minute ends while a success is reported.
THEOREM Crashes == Spec => []CrashIsTie
<1>1. IInv => CrashIsTie
  BY DEF IInv, Agree, CrashIsTie
<1> QED BY <1>1, Invariant, PTL

\* Every step of the three goroutines is a step of Waiting or changes nothing
\* that Waiting knows of.
LEMMA StepImplements == IInv /\ IInv' /\ [Next]_vars => [Abstract!Next]_(Abstract!vars)
<1> SUFFICES ASSUME IInv, IInv', [Next]_vars
             PROVE  Abstract!Next \/ UNCHANGED Abstract!vars
  OBVIOUS
<1> USE DEF IInv, TypeOK, Agree, Polling, Outcome, Abstract!Next, Abstract!vars
<1>1. CASE Change
  BY <1>1 DEF Change, Abstract!Change
<1>2. CASE ~crashed /\ (Check \/ Wake \/ Leave \/ Report)
  BY <1>2 DEF Check, Wake, Leave, Report, Send
<1>3. CASE ~crashed /\ Probe
  BY <1>3 DEF Probe, Abstract!See
<1>4. CASE ~crashed /\ (Succeed \/ TimeOut)
  BY <1>4 DEF Succeed, TimeOut, Send, Abstract!Return
<1>5. CASE ~crashed /\ (Close \/ CloseFired)
  BY <1>5 DEF Close, CloseFired, CloseDone, Abstract!Crash
<1>6. CASE ~crashed /\ (Fire \/ Cancel)
  BY <1>6 DEF Fire, Cancel, Abstract!Expire
<1>7. CASE ~crashed /\ (Receive \/ Exhausted)
  BY <1>7 DEF Receive, Exhausted, Abstract!Return
<1>8. CASE UNCHANGED vars
  BY <1>8 DEF vars
<1> QED
  BY <1>1, <1>2, <1>3, <1>4, <1>5, <1>6, <1>7, <1>8
     DEF Next, Operator, Retrier, Timer, Waiter

\* The goroutines do no more than module Waiting allows.
THEOREM Refinement == Spec => Abstract!Safe
<1>1. Init => Abstract!Init
  BY DEF Init, Abstract!Init, Outcome
<1>2. IInv /\ IInv' /\ [Next]_vars => [Abstract!Next]_(Abstract!vars)
  BY StepImplements
<1> QED BY <1>1, <1>2, Invariant, PTL DEF Spec, Abstract!Safe
=============================================================================
