------------------------------- MODULE Retry -------------------------------
(***************************************************************************)
(* WaitForStatefulSet, WaitForStatefulSetDeleted and                       *)
(* WaitForIngressTLSSecret: the goroutine that waits, the goroutine of     *)
(* retry.Retry that polls for it and the goroutine of retry.Timeout that   *)
(* bounds them.  They share an unbuffered channel of messages, to which    *)
(* nothing is sent unless somebody is receiving, and the channel done,     *)
(* which the poller closes on success and the timer when the minute ends.  *)
(*                                                                         *)
(* Time is not modelled: the sleep between two polls and the minute may    *)
(* end at any point.  The backoff is constant and never gives up.          *)
(***************************************************************************)

VARIABLES ready,    \* what the lister says: whether the condition holds
          found,    \* whether a poll has found that it does
          retrier,  \* where the goroutine of Retry is
          timer,    \* where the goroutine of Timeout is
          waiter,   \* where the caller is: busy with something else,
                    \* receiving, or returned with "ok" or "failed"
          done,     \* whether the channel done is closed
          crashed   \* a channel was closed twice: the process has panicked

vars == <<ready, found, retrier, timer, waiter, done, crashed>>

Init == /\ ready \in BOOLEAN
        /\ found = FALSE
        /\ retrier = "check"
        /\ timer = "armed"
        /\ waiter = "busy"
        /\ done = FALSE
        /\ crashed = FALSE

Change == ready' = ~ready /\ UNCHANGED <<found, retrier, timer, waiter, done, crashed>>

CloseDone == IF done THEN crashed' = TRUE /\ UNCHANGED done
             ELSE done' = TRUE /\ UNCHANGED crashed
-----------------------------------------------------------------------------
(* Retry *)

\* Non-blocking: a message is lost when its receiver is busy.
Send(reaction) ==
  waiter' = IF waiter = "receiving" THEN reaction ELSE waiter

\* Mutant: done is not looked at.
CheckNothing == /\ retrier = "check"
                /\ retrier' = "probe"
                /\ UNCHANGED <<ready, found, timer, waiter, done, crashed>>

Check == /\ retrier = "check"
         /\ retrier' = IF done THEN "expired" ELSE "probe"
         /\ UNCHANGED <<ready, found, timer, waiter, done, crashed>>

\* The function that is retried: a look into a lister.
Probe == /\ retrier = "probe"
         /\ retrier' = IF ready THEN "succeeded" ELSE "report"
         /\ found' = ready
         /\ UNCHANGED <<ready, timer, waiter, done, crashed>>

Report == /\ retrier = "report"
          /\ Send("busy")
          /\ retrier' = "sleep"
          /\ UNCHANGED <<ready, found, timer, done, crashed>>

\* The time is over or done is closed.
Wake == /\ retrier = "sleep"
        /\ retrier' = "check"
        /\ UNCHANGED <<ready, found, timer, waiter, done, crashed>>

Succeed == /\ retrier = "succeeded"
           /\ Send("ok")
           /\ retrier' = "closing"
           /\ UNCHANGED <<ready, found, timer, done, crashed>>

\* Mutant: the return is missing.
CloseAndGoOn == /\ retrier = "closing"
                /\ CloseDone
                /\ retrier' = "check"
                /\ UNCHANGED <<ready, found, timer, waiter>>

Close == /\ retrier = "closing"
         /\ CloseDone
         /\ retrier' = "leaving"
         /\ UNCHANGED <<ready, found, timer, waiter>>

\* Mutant: done is closed here too.
TimeOutAndClose == /\ retrier = "expired"
                   /\ Send("failed")
                   /\ CloseDone
                   /\ retrier' = "leaving"
                   /\ UNCHANGED <<ready, found, timer>>

TimeOut == /\ retrier = "expired"
           /\ Send("failed")
           /\ retrier' = "leaving"
           /\ UNCHANGED <<ready, found, timer, done, crashed>>

\* Mutant: the messages are only closed after a success.
LeaveFound == /\ retrier = "leaving"
              /\ found
              /\ retrier' = "ended"
              /\ UNCHANGED <<ready, found, timer, waiter, done, crashed>>

\* The deferred close of the channel of messages.
Leave == /\ retrier = "leaving"
         /\ retrier' = "ended"
         /\ UNCHANGED <<ready, found, timer, waiter, done, crashed>>

Retrier == Check \/ Probe \/ Report \/ Wake \/ Succeed \/ Close \/ TimeOut \/ Leave
-----------------------------------------------------------------------------
(* Timeout: select takes either case when both are possible *)

Fire == /\ timer = "armed"
        /\ timer' = "fired"
        /\ UNCHANGED <<ready, found, retrier, waiter, done, crashed>>

CloseFired == /\ timer = "fired"
              /\ CloseDone
              /\ timer' = "closed"
              /\ UNCHANGED <<ready, found, retrier, waiter>>

Cancel == /\ timer = "armed"
          /\ done
          /\ timer' = "stopped"
          /\ UNCHANGED <<ready, found, retrier, waiter, done, crashed>>

Timer == Fire \/ CloseFired \/ Cancel
-----------------------------------------------------------------------------
(* The caller *)

\* It has written to the log, and receives again.
Receive == /\ waiter = "busy"
           /\ waiter' = "receiving"
           /\ UNCHANGED <<ready, found, retrier, timer, done, crashed>>

\* The range over the messages ends when their channel is closed.
Exhausted == /\ waiter = "receiving"
             /\ retrier = "ended"
             /\ waiter' = "ok"
             /\ UNCHANGED <<ready, found, retrier, timer, done, crashed>>

Waiter == Receive \/ Exhausted
-----------------------------------------------------------------------------
Operator == ~crashed /\ (Retrier \/ Timer \/ Waiter)

Next == Change \/ Operator

\* Goroutines are scheduled and timers fire.  The condition may never hold.
Fairness == /\ WF_vars(~crashed /\ Retrier)
            /\ WF_vars(~crashed /\ Timer)
            /\ WF_vars(~crashed /\ Waiter)

Spec == Init /\ [][Next]_vars /\ Fairness
-----------------------------------------------------------------------------
(* Properties *)

TypeOK == /\ ready \in BOOLEAN
          /\ found \in BOOLEAN
          /\ retrier \in {"check", "probe", "report", "sleep", "succeeded",
                          "closing", "expired", "leaving", "ended"}
          /\ timer \in {"armed", "fired", "closed", "stopped"}
          /\ waiter \in {"busy", "receiving", "ok", "failed"}
          /\ done \in BOOLEAN
          /\ crashed \in BOOLEAN

\* An error is only returned when the minute is over and no poll ever found
\* what it was waiting for, although the message of a success can be lost and
\* both goroutines may be about to close done.
FailureIsTimeout ==
  waiter = "failed" => ~found /\ timer = "closed"

\* The process only panics when the minute ends while a success is reported.
CrashIsTie ==
  crashed => found /\ timer \in {"fired", "closed"}

Outcome == IF waiter \in {"busy", "receiving"} THEN "waiting" ELSE waiter

Abstract == INSTANCE Waiting WITH seen <- found,
                                  expired <- timer \in {"fired", "closed"},
                                  outcome <- Outcome

\* The calls keep what module Waiting promises of them, and return.
ImplementsWaiting == Abstract!Spec

\* No goroutine is left behind by a wait that is over.
NothingLeft == <>[](crashed \/ (retrier = "ended" /\ timer # "armed" /\ timer # "fired"))
=============================================================================
