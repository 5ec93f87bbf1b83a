-------------------------- MODULE WorkQueueProofs --------------------------
(***************************************************************************)
(* Proofs about module WorkQueue, for any keys, workers and capacity: its  *)
(* types, what the queue holds, that a key has one worker at a time, that  *)
(* nobody sleeps while there is work, and that the queue does no more than *)
(* module KeyedWork allows.                                                *)
(***************************************************************************)
EXTENDS WorkQueue, FiniteSetTheorems, TLAPS

\* What the queue holds, element by element.
Queued ==
  /\ \A i \in 1..Len(queue) : queue[i] \in dirty \ processing
  /\ \A key \in dirty \ processing : \E i \in 1..Len(queue) : queue[i] = key
  /\ \A i, j \in 1..Len(queue) : queue[i] = queue[j] => i = j

\* What the workers hold, worker by worker.
Held ==
  /\ \A w \in Workers : Busy(w) => holds[w] \in processing
  /\ \A key \in processing : \E w \in Workers : Busy(w) /\ holds[w] = key
  /\ \A v, w \in Workers : Busy(v) /\ Busy(w) /\ holds[v] = holds[w] => v = w

IInv == TypeOK /\ Queued /\ Held /\ (stopped => shuttingDown)

-----------------------------------------------------------------------------
(* Types *)

\* A signal moves at most one worker, from where it is parked to where it
\* looks for work.
LEMMA SignalWakes ==
  ASSUME NEW places \in [Workers -> Places], NEW woken \in Signalled(places)
  PROVE  /\ woken \in [Workers -> Places]
         /\ \A w \in Workers : \/ woken[w] = places[w]
                               \/ places[w] = "parked" /\ woken[w] = "get"
BY DEF Signalled, Parked, Places

LEMMA AddTypes ==
  ASSUME TypeOK, NEW key \in Keys, Add(key)
  PROVE  /\ queue' \in Seq(Keys) /\ dirty' \subseteq Keys /\ processing' \subseteq Keys
         /\ at' \in [Workers -> Places]
<1>1. \/ queue' = queue /\ dirty' = dirty
      \/ queue' \in {queue, Append(queue, key)} /\ dirty' = dirty \cup {key}
  BY DEF Add, work
<1>2. processing' = processing
  BY DEF Add, work
<1>3. at' = at \/ at' \in Signalled(at)
  BY DEF Add, work
<1>4. at' \in [Workers -> Places]
  BY <1>3, SignalWakes DEF TypeOK
<1>5. queue' \in Seq(Keys)
  BY <1>1 DEF TypeOK
<1>6. dirty' \subseteq Keys /\ processing' \subseteq Keys
  BY <1>1, <1>2 DEF TypeOK
<1> QED BY <1>4, <1>5, <1>6

LEMMA HeldKey ==
  ASSUME IInv, NEW w \in Workers, Busy(w)
  PROVE  holds[w] \in Keys
BY DEF IInv, Held, TypeOK

LEMMA TypeInductive == IInv /\ [Next]_vars => TypeOK'
<1> SUFFICES ASSUME IInv, [Next]_vars PROVE TypeOK'
  OBVIOUS
<1> USE DEF TypeOK, Places
<1>1. ASSUME NEW key \in Keys, Enqueue(key) PROVE TypeOK'
  BY <1>1, AddTypes DEF IInv, Enqueue, delays
<1>2. ASSUME NEW w \in Workers, Get(w) PROVE TypeOK'
  BY <1>2 DEF IInv, Get, delays
<1>3. ASSUME NEW w \in Workers, Park(w) \/ SyncEnds(w) \/ AddAfter(w) PROVE TypeOK'
  BY <1>3 DEF IInv, Park, SyncEnds, AddAfter, delays, work
<1>4. ASSUME NEW w \in Workers, SendDelayed(w) PROVE TypeOK'
  <2>1. holds[w] \in Keys
    BY <1>4, HeldKey DEF SendDelayed, Busy
  <2>2. channel' = channel \/ channel' = Append(channel, holds[w])
    BY <1>4 DEF SendDelayed
  <2>3. channel' \in Seq(Keys)
    <3>1. channel \in Seq(Keys)
      BY DEF IInv
    <3>2. Append(channel, holds[w]) \in Seq(Keys)
      BY <2>1, <3>1
    <3> QED BY <2>2, <3>1, <3>2
  <2>4. at' \in [Workers -> Places]
    BY <1>4 DEF IInv, SendDelayed
  <2> QED BY <1>4, <2>3, <2>4 DEF IInv, SendDelayed, work
<1>5. ASSUME NEW w \in Workers, Done(w) PROVE TypeOK'
  <2>1. holds[w] \in Keys
    BY <1>5, HeldKey DEF Done, Busy
  <2> DEFINE places == [at EXCEPT ![w] = "get"]
  <2>2. places \in [Workers -> Places]
    BY DEF IInv
  <2>3. at' \in [Workers -> Places]
    BY <1>5, <2>2, SignalWakes DEF Done
  <2>4. queue' = queue \/ queue' = Append(queue, holds[w])
    BY <1>5 DEF Done
  <2>5. queue' \in Seq(Keys)
    BY <2>1, <2>4 DEF IInv
  <2>6. holds' \in [Workers -> Keys \cup {NoKey}]
    BY <1>5 DEF IInv, Done
  <2>7. UNCHANGED <<dirty, shuttingDown, stopped, channel, waiting, looping>>
        /\ processing' \subseteq Keys
    BY <1>5 DEF IInv, Done, delays
  <2> QED BY <2>3, <2>5, <2>6, <2>7 DEF IInv
<1>6. ASSUME NEW key \in Keys, AddReady(key) PROVE TypeOK'
  BY <1>6, AddTypes DEF IInv, AddReady
<1>7. CASE ReceiveDelayed
  <2>1. Head(channel) \in Keys /\ Tail(channel) \in Seq(Keys)
    BY <1>7 DEF IInv, ReceiveDelayed
  <2> QED BY <1>7, <2>1, AddTypes DEF IInv, ReceiveDelayed, work
<1>8. CASE EndLoop \/ CloseStopCh
  BY <1>8 DEF IInv, EndLoop, CloseStopCh, delays, work
<1>9. CASE ShutDown
  BY <1>9 DEF IInv, ShutDown, Broadcast, delays, work
<1>10. CASE UNCHANGED vars
  BY <1>10 DEF IInv, vars, delays, work
<1> QED BY <1>1, <1>2, <1>3, <1>4, <1>5, <1>6, <1>7, <1>8, <1>9, <1>10
           DEF Next, Worker, WaitingLoop
-----------------------------------------------------------------------------
(* What the queue holds *)

LEMMA QueuedSame ==
  ASSUME Queued, UNCHANGED queue, dirty' \ processing' = dirty \ processing
  PROVE  Queued'
BY DEF Queued

\* A key that is put at the end of the queue was not in it.
LEMMA QueuedAppend ==
  ASSUME TypeOK, Queued, NEW key \in Keys, key \notin dirty \ processing,
         queue' = Append(queue, key),
         dirty' \ processing' = (dirty \ processing) \cup {key}
  PROVE  Queued'
<1> DEFINE last == Len(queue) + 1
<1>1. /\ Len(queue') = last
      /\ queue'[last] = key
      /\ \A i \in 1..Len(queue) : queue'[i] = queue[i]
      /\ Len(queue) \in Nat
  BY DEF TypeOK
<1>2. \A i \in 1..last : i \in 1..Len(queue) \/ i = last
  BY <1>1
<1>3. \A i \in 1..last : queue'[i] \in dirty' \ processing'
  BY <1>1, <1>2 DEF Queued
<1>4. \A other \in dirty' \ processing' : \E i \in 1..last : queue'[i] = other
  <2> TAKE other \in dirty' \ processing'
  <2>1. CASE other = key
    BY <2>1, <1>1
  <2>2. CASE other \in dirty \ processing
    <3>1. PICK i \in 1..Len(queue) : queue[i] = other
      BY <2>2 DEF Queued
    <3> QED BY <3>1, <1>1
  <2> QED BY <2>1, <2>2
<1>5. \A i, j \in 1..last : queue'[i] = queue'[j] => i = j
  <2> TAKE i, j \in 1..last
  <2>1. \A l \in 1..Len(queue) : queue'[l] # key
    BY <1>1 DEF Queued
  <2> QED BY <2>1, <1>1, <1>2 DEF Queued
<1> QED BY <1>1, <1>3, <1>4, <1>5 DEF Queued

LEMMA QueuedAdd ==
  ASSUME TypeOK, Queued, NEW key \in Keys, Add(key)
  PROVE  Queued'
<1>1. CASE UNCHANGED <<queue, dirty, processing>>
  BY <1>1, QueuedSame
<1>2. CASE /\ key \notin dirty
           /\ dirty' = dirty \cup {key}
           /\ UNCHANGED <<queue, processing>>
           /\ key \in processing
  <2>1. dirty' \ processing' = dirty \ processing
    BY <1>2
  <2> QED BY <1>2, <2>1, QueuedSame
<1>3. CASE /\ key \notin dirty
           /\ dirty' = dirty \cup {key}
           /\ UNCHANGED processing
           /\ key \notin processing
           /\ queue' = Append(queue, key)
  <2>1. dirty' \ processing' = (dirty \ processing) \cup {key}
    BY <1>3
  <2> QED BY <1>3, <2>1, QueuedAppend
<1> QED BY <1>1, <1>2, <1>3 DEF Add, work

\* The head of the queue is taken by a worker: the others stay.
LEMMA QueuedGet ==
  ASSUME TypeOK, Queued, NEW w \in Workers, Get(w)
  PROVE  Queued'
<1>1. /\ queue # <<>> /\ Len(queue) \in Nat \ {0}
      /\ queue' = Tail(queue)
      /\ Len(queue') = Len(queue) - 1
      /\ \A i \in 1..Len(queue') : queue'[i] = queue[i + 1]
      /\ Head(queue) = queue[1]
  BY DEF Get, TypeOK
<1>2. dirty' = dirty \ {queue[1]} /\ processing' = processing \cup {queue[1]}
  BY <1>1 DEF Get
<1>3. \A i \in 1..Len(queue') : i + 1 \in 1..Len(queue) /\ i + 1 # 1
  BY <1>1
<1>4. \A i \in 1..Len(queue') : queue'[i] \in dirty' \ processing'
  <2> TAKE i \in 1..Len(queue')
  <2>1. i + 1 \in 1..Len(queue) /\ 1 \in 1..Len(queue) /\ i + 1 # 1
    BY <1>1, <1>3
  <2>2. queue[i + 1] # queue[1]
    BY <2>1 DEF Queued
  <2>3. queue[i + 1] \in dirty \ processing
    BY <2>1 DEF Queued
  <2> QED BY <1>1, <1>2, <2>2, <2>3
<1>5. \A key \in dirty' \ processing' : \E i \in 1..Len(queue') : queue'[i] = key
  <2> TAKE key \in dirty' \ processing'
  <2>1. key \in dirty \ processing /\ key # queue[1]
    BY <1>2
  <2>2. PICK i \in 1..Len(queue) : queue[i] = key
    BY <2>1 DEF Queued
  <2>3. i - 1 \in 1..Len(queue') /\ queue'[i - 1] = queue[(i - 1) + 1] /\ (i - 1) + 1 = i
    BY <1>1, <2>1, <2>2
  <2> QED BY <2>2, <2>3
<1>6. \A i, j \in 1..Len(queue') : queue'[i] = queue'[j] => i = j
  <2> TAKE i, j \in 1..Len(queue')
  <2>1. queue[i + 1] = queue[j + 1] => i + 1 = j + 1
    BY <1>3 DEF Queued
  <2> QED BY <1>1, <2>1
<1> QED BY <1>4, <1>5, <1>6 DEF Queued

\* A key that is given back is queued if it was added meanwhile.
LEMMA QueuedDone ==
  ASSUME IInv, NEW w \in Workers, Done(w)
  PROVE  Queued'
<1>1. holds[w] \in Keys /\ holds[w] \in processing
  BY HeldKey DEF IInv, Held, Done, Busy
<1>2. processing' = processing \ {holds[w]} /\ dirty' = dirty
  BY DEF Done
<1>3. CASE holds[w] \in dirty
  <2>1. dirty' \ processing' = (dirty \ processing) \cup {holds[w]}
    BY <1>2, <1>3
  <2>2. queue' = Append(queue, holds[w])
    BY <1>3 DEF Done
  <2> QED BY <1>1, <2>1, <2>2, QueuedAppend DEF IInv
<1>4. CASE holds[w] \notin dirty
  <2>1. dirty' \ processing' = dirty \ processing
    BY <1>2, <1>4
  <2>2. queue' = queue
    BY <1>4 DEF Done
  <2> QED BY <2>1, <2>2, QueuedSame DEF IInv
<1> QED BY <1>3, <1>4

LEMMA QueuedInductive == IInv /\ [Next]_vars => Queued'
<1> SUFFICES ASSUME IInv, [Next]_vars PROVE Queued'
  OBVIOUS
<1>1. ASSUME NEW key \in Keys, Add(key) PROVE Queued'
  BY <1>1, QueuedAdd DEF IInv
<1>2. CASE UNCHANGED work
  BY <1>2, QueuedSame DEF IInv, work
<1>3. ASSUME NEW w \in Workers, Worker(w) PROVE Queued'
  <2>1. CASE Get(w)
    BY <2>1, QueuedGet DEF IInv
  <2>2. CASE Done(w)
    BY <2>2, QueuedDone
  <2>3. CASE UNCHANGED work
    BY <2>3, <1>2
  <2> QED BY <1>3, <2>1, <2>2, <2>3 DEF Worker, Park, SyncEnds, AddAfter, SendDelayed
<1>4. CASE ReceiveDelayed
  <2>1. Head(channel) \in Keys
    BY <1>4 DEF ReceiveDelayed, IInv, TypeOK
  <2> QED BY <1>4, <2>1, <1>1, <1>2 DEF ReceiveDelayed, work
<1>5. CASE EndLoop \/ ShutDown \/ CloseStopCh
  BY <1>5, <1>2 DEF EndLoop, ShutDown, CloseStopCh
<1>6. CASE \E key \in Keys : Enqueue(key) \/ AddReady(key)
  BY <1>6, <1>1 DEF Enqueue, AddReady
<1>7. CASE UNCHANGED vars
  BY <1>7, <1>2 DEF vars
<1> QED BY <1>3, <1>4, <1>5, <1>6, <1>7 DEF Next, WaitingLoop
-----------------------------------------------------------------------------
(* What the workers hold *)

\* Nobody takes a key or gives one back.
LEMMA HeldSame ==
  ASSUME Held, UNCHANGED <<processing, holds>>, \A w \in Workers : Busy(w)' <=> Busy(w)
  PROVE  Held'
BY DEF Held

\* Where a signal moves a worker from and to, it is not busy.
LEMMA AddBusy ==
  ASSUME TypeOK, NEW key \in Keys, Add(key), NEW w \in Workers
  PROVE  Busy(w)' <=> Busy(w)
<1>1. CASE at' \in Signalled(at)
  <2>1. at'[w] = at[w] \/ (at[w] = "parked" /\ at'[w] = "get")
    BY <1>1, SignalWakes DEF TypeOK
  <2> QED BY <2>1 DEF Busy
<1>2. CASE at' = at
  BY <1>2 DEF Busy
<1> QED BY <1>1, <1>2 DEF Add

LEMMA HeldAdd ==
  ASSUME TypeOK, Held, NEW key \in Keys, Add(key), UNCHANGED holds
  PROVE  Held'
<1>1. UNCHANGED processing
  BY DEF Add, work
<1> QED BY <1>1, AddBusy, HeldSame

LEMMA HeldGet ==
  ASSUME TypeOK, Queued, Held, NEW w \in Workers, Get(w)
  PROVE  Held'
<1>1. Head(queue) \in dirty \ processing
  <2>1. Head(queue) = queue[1] /\ 1 \in 1..Len(queue)
    BY DEF Get, TypeOK
  <2> QED BY <2>1 DEF Queued
<1>2. /\ Busy(w)' /\ ~Busy(w) /\ holds'[w] = Head(queue)
      /\ \A v \in Workers \ {w} : (Busy(v)' <=> Busy(v)) /\ holds'[v] = holds[v]
      /\ processing' = processing \cup {Head(queue)}
  BY DEF Get, TypeOK, Busy
<1> QED BY <1>1, <1>2 DEF Held

LEMMA HeldDone ==
  ASSUME TypeOK, Held, NEW w \in Workers, Done(w)
  PROVE  Held'
<1> DEFINE places == [at EXCEPT ![w] = "get"]
<1>1. places \in [Workers -> Places]
  BY DEF TypeOK, Places
<1>2. \A v \in Workers : \/ at'[v] = places[v]
                         \/ places[v] = "parked" /\ at'[v] = "get"
  <2>1. CASE at' \in Signalled(places)
    BY <1>1, <2>1, SignalWakes
  <2>2. CASE at' = places
    BY <2>2
  <2> QED BY <2>1, <2>2 DEF Done
<1>3. /\ Busy(w) /\ ~Busy(w)'
      /\ \A v \in Workers \ {w} : Busy(v)' <=> Busy(v)
  BY <1>2 DEF Busy, Done, TypeOK
<1>4. /\ \A v \in Workers \ {w} : holds'[v] = holds[v]
      /\ processing' = processing \ {holds[w]}
  BY DEF Done, TypeOK
<1> QED BY <1>3, <1>4 DEF Held

LEMMA HeldInductive == IInv /\ [Next]_vars => Held'
<1> SUFFICES ASSUME IInv, [Next]_vars PROVE Held'
  OBVIOUS
<1>1. ASSUME NEW key \in Keys, Add(key), UNCHANGED holds PROVE Held'
  BY <1>1, HeldAdd DEF IInv
<1>2. CASE UNCHANGED <<work, at, holds>>
  <2>1. \A w \in Workers : Busy(w)' <=> Busy(w)
    BY <1>2 DEF Busy
  <2> QED BY <1>2, <2>1, HeldSame DEF IInv, work
<1>3. ASSUME NEW w \in Workers, Worker(w) PROVE Held'
  <2>1. CASE Get(w)
    BY <2>1, HeldGet DEF IInv
  <2>2. CASE Done(w)
    BY <2>2, HeldDone DEF IInv
  <2>3. CASE Park(w) \/ SyncEnds(w) \/ AddAfter(w) \/ SendDelayed(w)
    <3>1. \A v \in Workers : Busy(v)' <=> Busy(v)
      BY <2>3 DEF Busy, Park, SyncEnds, AddAfter, SendDelayed, IInv, TypeOK
    <3>2. UNCHANGED <<processing, holds>>
      BY <2>3 DEF Park, SyncEnds, AddAfter, SendDelayed, work
    <3> QED BY <3>1, <3>2, HeldSame DEF IInv
  <2> QED BY <1>3, <2>1, <2>2, <2>3 DEF Worker
<1>4. CASE ReceiveDelayed
  <2>1. Head(channel) \in Keys
    BY <1>4 DEF ReceiveDelayed, IInv, TypeOK
  <2> QED BY <1>4, <2>1, <1>1, <1>2 DEF ReceiveDelayed
<1>5. CASE EndLoop \/ CloseStopCh
  BY <1>5, <1>2 DEF EndLoop, CloseStopCh
<1>6. CASE ShutDown
  <2>1. \A w \in Workers : Busy(w)' <=> Busy(w)
    BY <1>6 DEF ShutDown, Broadcast, Busy
  <2> QED BY <1>6, <2>1, HeldSame DEF IInv, ShutDown, work
<1>7. CASE \E key \in Keys : Enqueue(key) \/ AddReady(key)
  BY <1>7, <1>1 DEF Enqueue, AddReady
<1>8. CASE UNCHANGED vars
  BY <1>8, <1>2 DEF vars
<1> QED BY <1>3, <1>4, <1>5, <1>6, <1>7, <1>8 DEF Next, WaitingLoop
-----------------------------------------------------------------------------
(* The invariant *)

LEMMA Invariant == Spec => []IInv
<1>1. Init => IInv
  <2> SUFFICES ASSUME Init PROVE IInv
    OBVIOUS
  <2>1. TypeOK
    <3>1. queue \in Seq(Keys) /\ channel \in Seq(Keys)
      BY DEF Init
    <3>2. at \in [Workers -> Places] /\ holds \in [Workers -> Keys \cup {NoKey}]
      BY DEF Init, Places
    <3> QED BY <3>1, <3>2 DEF Init, TypeOK
  <2>2. Queued
    BY DEF Init, Queued
  <2>3. Held
    BY DEF Init, Held, Busy
  <2> QED BY <2>1, <2>2, <2>3 DEF Init, IInv
<1>2. IInv /\ [Next]_vars => IInv'
  <2> SUFFICES ASSUME IInv, [Next]_vars PROVE IInv'
    OBVIOUS
  <2>1. (stopped => shuttingDown)'
    BY DEF IInv, Next, vars, delays, Enqueue, Worker, Get, Park, SyncEnds, AddAfter,
           SendDelayed, Done, WaitingLoop, AddReady, ReceiveDelayed, EndLoop,
           ShutDown, CloseStopCh
  <2> QED BY <2>1, TypeInductive, QueuedInductive, HeldInductive DEF IInv
<1> QED BY <1>1, <1>2, PTL DEF Spec

\* The variables keep their types.
THEOREM TypeCorrect == Spec => []TypeOK
<1>1. IInv => TypeOK
  BY DEF IInv
<1> QED BY <1>1, Invariant, PTL

\* The queue holds what is dirty and not worked on, without duplicates: no key
\* is lost and none is handed out twice, whatever the workers are doing.
THEOREM QueueCorrect == Spec => []QueueHoldsWork
<1>1. IInv => QueueHoldsWork
  <2> SUFFICES ASSUME IInv PROVE QueueHoldsWork
    OBVIOUS
  <2>1. {queue[i] : i \in 1..Len(queue)} = dirty \ processing
    BY DEF IInv, Queued
  <2> QED BY <2>1 DEF IInv, Queued, QueueHoldsWork
<1> QED BY <1>1, Invariant, PTL

\* Two workers never sync the same notebook at the same time.
THEOREM OneWorker == Spec => []OneWorkerPerKey
<1>1. IInv => OneWorkerPerKey
  BY DEF IInv, Held, OneWorkerPerKey
<1> QED BY <1>1, Invariant, PTL
-----------------------------------------------------------------------------
(* Who sleeps and who looks for work *)

Looking(places) == {w \in Workers : places[w] = "get"}

\* NoLostWakeup, of given places and a given number of keys in the queue.
Covered(places, keys) ==
  Parked(places) # {} => keys <= Cardinality(Looking(places)) /\ ~shuttingDown

LEMMA Counted ==
  ASSUME NEW places
  PROVE  IsFiniteSet(Looking(places)) /\ Cardinality(Looking(places)) \in Nat
<1>1. IsFiniteSet(Looking(places))
  BY WorkQueueAssumption, FS_Subset DEF Looking
<1> QED BY <1>1, FS_CardinalityType

LEMMA OneMoreLooks ==
  ASSUME NEW old, NEW new, NEW w, w \notin Looking(old),
         Looking(new) = Looking(old) \cup {w}
  PROVE  Cardinality(Looking(new)) = Cardinality(Looking(old)) + 1
BY Counted, FS_AddElement

\* Only where the sleepers and those who look are matters.
LEMMA CoveredSame ==
  ASSUME NEW old, NEW new, NEW keys, Covered(old, keys),
         Parked(new) = Parked(old), Looking(new) = Looking(old)
  PROVE  Covered(new, keys)
BY DEF Covered

\* Another key needs another worker who looks, and a signal wakes one unless
\* nobody sleeps.
LEMMA SignalCovers ==
  ASSUME NEW old \in [Workers -> Places], NEW keys \in Nat, Covered(old, keys),
         NEW new \in Signalled(old)
  PROVE  Covered(new, keys + 1)
<1>1. CASE Parked(old) = {}
  BY <1>1 DEF Signalled, Covered
<1>2. CASE Parked(old) # {}
  <2>1. PICK w \in Parked(old) : new = [old EXCEPT ![w] = "get"]
    BY <1>2 DEF Signalled
  <2>2. w \notin Looking(old) /\ Looking(new) = Looking(old) \cup {w}
    BY <2>1 DEF Looking, Parked
  <2>3. Cardinality(Looking(new)) = Cardinality(Looking(old)) + 1
    BY <2>2, OneMoreLooks
  <2> QED BY <1>2, <2>3, Counted DEF Covered
<1> QED BY <1>1, <1>2

LEMMA WakeupAdd ==
  ASSUME TypeOK, Covered(at, Len(queue)), NEW key \in Keys, Add(key),
         UNCHANGED shuttingDown
  PROVE  Covered(at, Len(queue))'
<1>1. CASE UNCHANGED <<queue, at>>
  BY <1>1 DEF Covered, Parked, Looking
<1>2. CASE queue' = Append(queue, key) /\ at' \in Signalled(at)
  <2>1. Len(queue) \in Nat /\ Len(queue') = Len(queue) + 1
    BY <1>2 DEF TypeOK
  <2>2. Covered(at', Len(queue) + 1)
    BY <1>2, <2>1, SignalCovers DEF TypeOK
  <2> QED BY <2>1, <2>2 DEF Covered, Parked, Looking
<1> QED BY <1>1, <1>2 DEF Add, work

LEMMA WakeupGet ==
  ASSUME TypeOK, Covered(at, Len(queue)), NEW w \in Workers, Get(w)
  PROVE  Covered(at, Len(queue))'
<1>1. Len(queue) \in Nat /\ Len(queue') = Len(queue) - 1
  BY DEF TypeOK, Get
<1>2. w \notin Looking(at') /\ Looking(at) = Looking(at') \cup {w}
  BY DEF TypeOK, Get, Looking
<1>3. Cardinality(Looking(at)) = Cardinality(Looking(at')) + 1
  BY <1>2, OneMoreLooks
<1>4. Parked(at') = Parked(at) /\ shuttingDown' = shuttingDown
  BY DEF TypeOK, Get, Parked
<1>5. Covered(at', Len(queue'))
  BY <1>1, <1>3, <1>4, Counted DEF Covered
<1> QED BY <1>4, <1>5 DEF Covered, Parked, Looking

LEMMA WakeupDone ==
  ASSUME IInv, Covered(at, Len(queue)), NEW w \in Workers, Done(w)
  PROVE  Covered(at, Len(queue))'
<1> DEFINE places == [at EXCEPT ![w] = "get"]
<1>1. places \in [Workers -> Places] /\ Len(queue) \in Nat
  BY DEF IInv, TypeOK, Places
<1>2. w \notin Looking(at) /\ Looking(places) = Looking(at) \cup {w}
      /\ Parked(places) = Parked(at)
  BY DEF IInv, TypeOK, Done, Looking, Parked
<1>3. Cardinality(Looking(places)) = Cardinality(Looking(at)) + 1
  BY <1>2, OneMoreLooks
<1>4. Covered(places, Len(queue))
  <2>1. Cardinality(Looking(at)) \in Nat
    BY Counted
  <2> HIDE DEF places
  <2> QED BY <1>1, <1>2, <1>3, <2>1 DEF Covered
<1>5. shuttingDown' = shuttingDown
  BY DEF Done
<1>6. CASE holds[w] \in dirty
  <2>1. queue' = Append(queue, holds[w]) /\ at' \in Signalled(places)
    BY <1>6 DEF Done
  <2>2. Len(queue') = Len(queue) + 1
    BY <2>1, HeldKey DEF IInv, TypeOK, Done, Busy
  <2>3. Covered(at', Len(queue) + 1)
    BY <1>1, <1>4, <2>1, SignalCovers
  <2> QED BY <1>5, <2>2, <2>3 DEF Covered, Parked, Looking
<1>7. CASE holds[w] \notin dirty
  <2>1. queue' = queue /\ at' = places
    BY <1>7 DEF Done
  <2> QED BY <1>4, <1>5, <2>1 DEF Covered, Parked, Looking
<1> QED BY <1>6, <1>7

LEMMA WakeupInductive ==
  IInv /\ Covered(at, Len(queue)) /\ [Next]_vars => Covered(at, Len(queue))'
<1> SUFFICES ASSUME IInv, Covered(at, Len(queue)), [Next]_vars
             PROVE  Covered(at, Len(queue))'
  OBVIOUS
<1>1. ASSUME NEW key \in Keys, Add(key), UNCHANGED shuttingDown
      PROVE  Covered(at, Len(queue))'
  BY <1>1, WakeupAdd DEF IInv
<1>2. ASSUME Parked(at') = Parked(at), Looking(at') = Looking(at),
             UNCHANGED <<queue, shuttingDown>>
      PROVE  Covered(at, Len(queue))'
  <2>1. Covered(at', Len(queue))
    BY <1>2, CoveredSame
  <2> QED BY <1>2, <2>1 DEF Covered, Parked, Looking
<1>3. CASE UNCHANGED <<queue, shuttingDown, at>>
  BY <1>2, <1>3 DEF Parked, Looking
<1>4. ASSUME NEW w \in Workers, Worker(w) PROVE Covered(at, Len(queue))'
  <2>1. CASE Get(w)
    BY <2>1, WakeupGet DEF IInv
  <2>2. CASE Park(w)
    <3>1. CASE shuttingDown
      <4>1. Parked(at') = Parked(at) /\ shuttingDown'
        BY <2>2, <3>1 DEF Park, Parked, IInv, TypeOK
      <4>2. Parked(at') = {}
        BY <3>1, <4>1 DEF Covered
      <4> QED BY <4>2 DEF Covered, Parked
    <3>2. CASE ~shuttingDown
      <4>1. Len(queue') = 0 /\ ~shuttingDown'
        BY <2>2, <3>2 DEF Park, work
      <4>2. Cardinality(Looking(at')) \in Nat
        BY Counted
      <4> QED BY <4>1, <4>2 DEF Covered, Looking
    <3> QED BY <3>1, <3>2
  <2>3. CASE SyncEnds(w) \/ AddAfter(w) \/ SendDelayed(w)
    <3>1. Parked(at') = Parked(at) /\ Looking(at') = Looking(at)
      BY <2>3 DEF SyncEnds, AddAfter, SendDelayed, Parked, Looking, IInv, TypeOK
    <3>2. UNCHANGED <<queue, shuttingDown>>
      BY <2>3 DEF SyncEnds, AddAfter, SendDelayed, work
    <3> QED BY <1>2, <3>1, <3>2
  <2>4. CASE Done(w)
    BY <2>4, WakeupDone
  <2> QED BY <1>4, <2>1, <2>2, <2>3, <2>4 DEF Worker
<1>5. CASE ReceiveDelayed
  <2>1. Head(channel) \in Keys
    BY <1>5 DEF ReceiveDelayed, IInv, TypeOK
  <2> QED BY <1>1, <1>3, <1>5, <2>1 DEF ReceiveDelayed, work
<1>6. CASE EndLoop \/ CloseStopCh \/ UNCHANGED vars
  BY <1>3, <1>6 DEF EndLoop, CloseStopCh, vars, work
<1>7. CASE ShutDown
  <2>1. Parked(at') = {}
    BY <1>7 DEF ShutDown, Broadcast, Parked
  <2> QED BY <2>1 DEF Covered, Parked
<1>8. CASE \E key \in Keys : Enqueue(key) \/ AddReady(key)
  BY <1>1, <1>8 DEF Enqueue, AddReady
<1> QED BY <1>4, <1>5, <1>6, <1>7, <1>8 DEF Next, WaitingLoop

\* No worker sleeps on the condition variable while there are more keys in the
\* queue than workers who are awake and about to look, nor once the queue is
\* shutting down, although Signal wakes only one and who comes first takes the
\* key of the one who was woken.
THEOREM NobodySleepsOverWork == Spec => []NoLostWakeup
<1>1. Init => Covered(at, Len(queue))
  BY DEF Init, Covered, Parked
<1>2. Covered(at, Len(queue)) => NoLostWakeup
  BY DEF Covered, NoLostWakeup, Looking
<1> QED BY <1>1, <1>2, WakeupInductive, Invariant, PTL DEF Spec
-----------------------------------------------------------------------------
(* The abstract queue *)

\* Somebody who would add the key does it, or forgets it because the queue is
\* shutting down; others may still be going to add it.
LEMMA DueImplements ==
  ASSUME NEW key \in Keys, key \in Delayed,
         Delayed' = Delayed \/ Delayed' = Delayed \ {key},
         dirty' = IF shuttingDown THEN dirty ELSE dirty \cup {key},
         UNCHANGED <<processing, shuttingDown>>
  PROVE  Abstract!Next \/ UNCHANGED Abstract!vars
<1>1. CASE Delayed' = Delayed
  <2>1. CASE shuttingDown
    BY <1>1, <2>1 DEF Abstract!vars
  <2>2. CASE ~shuttingDown
    <3>1. Abstract!Ask(key)
      BY <1>1, <2>2 DEF Abstract!Ask
    <3> QED BY <3>1 DEF Abstract!Next
  <2> QED BY <2>1, <2>2
<1>2. CASE Delayed' = Delayed \ {key}
  <2>1. Abstract!Due(key)
    BY <1>2 DEF Abstract!Due
  <2> QED BY <2>1 DEF Abstract!Next
<1> QED BY <1>1, <1>2

\* Whom a signal wakes was not about to send a key.
LEMMA AddDelays ==
  ASSUME TypeOK, NEW key \in Keys, Add(key)
  PROVE  /\ \A w \in Workers : at'[w] \in {"failed", "send"} <=> at[w] \in {"failed", "send"}
         /\ dirty' = IF shuttingDown THEN dirty ELSE dirty \cup {key}
         /\ UNCHANGED processing
<1>1. CASE at' \in Signalled(at)
  BY <1>1, SignalWakes DEF TypeOK, Add, work
<1>2. CASE at' = at
  BY <1>2 DEF Add, work
<1> QED BY <1>1, <1>2 DEF Add

LEMMA EnqueueImplements ==
  ASSUME IInv, NEW key \in Keys, Enqueue(key)
  PROVE  Abstract!Next \/ UNCHANGED Abstract!vars
<1>1. Delayed' = Delayed
  BY AddDelays DEF IInv, Enqueue, Delayed, delays
<1>2. CASE shuttingDown
  BY <1>1, <1>2, AddDelays DEF IInv, Enqueue, Abstract!vars
<1>3. CASE ~shuttingDown
  <2>1. Abstract!Ask(key)
    BY <1>1, <1>3, AddDelays DEF IInv, Enqueue, Abstract!Ask
  <2> QED BY <2>1 DEF Abstract!Next
<1> QED BY <1>2, <1>3

LEMMA WorkerImplements ==
  ASSUME IInv, NEW w \in Workers, Worker(w)
  PROVE  Abstract!Next \/ UNCHANGED Abstract!vars
<1> USE DEF IInv, TypeOK, Places
<1>1. CASE Get(w)
  <2>1. Head(queue) = queue[1] /\ 1 \in 1..Len(queue)
    BY <1>1 DEF Get
  <2>2. Head(queue) \in dirty \ processing /\ Head(queue) \in Keys
    BY <2>1 DEF Queued
  <2>3. Delayed' = Delayed
    BY <1>1 DEF Get, Delayed, delays
  <2>4. Abstract!Start(Head(queue))
    BY <1>1, <2>2, <2>3 DEF Get, Abstract!Start
  <2> QED BY <2>2, <2>4 DEF Abstract!Next
<1>2. CASE Park(w)
  <2>1. Delayed' = Delayed
    BY <1>2 DEF Park, Delayed, delays
  <2> QED BY <1>2, <2>1 DEF Park, work, Abstract!vars
<1>3. CASE SyncEnds(w)
  <2>1. holds[w] \in Keys /\ holds[w] \in processing
    BY <1>3, HeldKey DEF SyncEnds, Busy, Held
  <2>2. CASE at'[w] = "done"
    <3>1. Delayed' = Delayed
      BY <1>3, <2>2 DEF SyncEnds, Delayed, delays
    <3> QED BY <1>3, <3>1 DEF SyncEnds, work, Abstract!vars
  <2>3. CASE at'[w] = "failed"
    <3>1. /\ \A v \in Workers : at'[v] \in {"failed", "send"} <=>
               at[v] \in {"failed", "send"} \/ v = w
          /\ UNCHANGED <<holds, channel, waiting>>
      BY <1>3, <2>3 DEF SyncEnds, delays
    <3>2. Delayed' = Delayed \cup {holds[w]}
      BY <3>1 DEF Delayed
    <3>3. Abstract!Fail(holds[w])
      BY <1>3, <2>1, <3>2 DEF SyncEnds, work, Abstract!Fail
    <3> QED BY <2>1, <3>3 DEF Abstract!Next
  <2> QED BY <1>3, <2>2, <2>3 DEF SyncEnds
<1>4. ASSUME at[w] \in {"failed", "send"}, shuttingDown, at' = [at EXCEPT ![w] = "done"],
             UNCHANGED <<work, shuttingDown, channel, waiting, holds>>
      PROVE  Abstract!Next \/ UNCHANGED Abstract!vars
  <2>1. holds[w] \in Keys
    BY <1>4, HeldKey DEF Busy
  <2>2. holds[w] \in Delayed
    BY <1>4 DEF Delayed
  <2>3. \A v \in Workers : at'[v] \in {"failed", "send"} <=>
          at[v] \in {"failed", "send"} /\ v # w
    BY <1>4
  <2>4. \A key : key \in Delayed' => key \in Delayed
    BY <1>4, <2>3 DEF Delayed
  <2>5. \A key : key \in Delayed /\ key # holds[w] => key \in Delayed'
    BY <1>4, <2>3 DEF Delayed
  <2>6. Delayed' = Delayed \/ Delayed' = Delayed \ {holds[w]}
    BY <2>2, <2>4, <2>5
  <2> QED BY <1>4, <2>1, <2>2, <2>6, DueImplements DEF work
<1>5. CASE AddAfter(w)
  <2>1. CASE shuttingDown
    BY <1>4, <1>5, <2>1 DEF AddAfter, delays
  <2>2. CASE ~shuttingDown
    <3>1. \A v \in Workers : at'[v] \in {"failed", "send"} <=> at[v] \in {"failed", "send"}
      BY <1>5, <2>2 DEF AddAfter
    <3>2. Delayed' = Delayed
      BY <1>5, <3>1 DEF AddAfter, Delayed, delays
    <3> QED BY <1>5, <3>2 DEF AddAfter, work, Abstract!vars
  <2> QED BY <2>1, <2>2
<1>6. CASE SendDelayed(w)
  <2>1. CASE stopped /\ UNCHANGED channel
    BY <1>4, <1>6, <2>1 DEF SendDelayed
  <2>2. CASE channel' = Append(channel, holds[w])
    <3>1. holds[w] \in Keys
      BY <1>6, HeldKey DEF SendDelayed, Busy
    <3>2. /\ Len(channel') = Len(channel) + 1 /\ Len(channel) \in Nat
          /\ channel'[Len(channel) + 1] = holds[w]
          /\ \A i \in 1..Len(channel) : channel'[i] = channel[i]
      BY <2>2, <3>1
    <3>3. /\ \A v \in Workers : at'[v] \in {"failed", "send"} <=>
               at[v] \in {"failed", "send"} /\ v # w
          /\ at[w] = "send" /\ UNCHANGED <<waiting, holds>>
      BY <1>6 DEF SendDelayed
    <3>4. {channel'[i] : i \in 1..Len(channel')}
            = {channel[i] : i \in 1..Len(channel)} \cup {holds[w]}
      <4>1. \A i \in 1..Len(channel') : i \in 1..Len(channel) \/ i = Len(channel) + 1
        BY <3>2
      <4>2. 1..Len(channel) \subseteq 1..Len(channel') /\ Len(channel) + 1 \in 1..Len(channel')
        BY <3>2
      <4> QED BY <3>2, <4>1, <4>2
    <3>5. {holds[v] : v \in {u \in Workers : at[u] \in {"failed", "send"}}}
            = {holds'[v] : v \in {u \in Workers : at'[u] \in {"failed", "send"}}}
                \cup {holds[w]}
      BY <3>3
    <3>6. Delayed' = Delayed
      BY <3>3, <3>4, <3>5 DEF Delayed
    <3> QED BY <1>6, <3>6 DEF SendDelayed, work, Abstract!vars
  <2> QED BY <1>6, <2>1, <2>2 DEF SendDelayed
<1>7. CASE Done(w)
  <2>1. holds[w] \in Keys /\ holds[w] \in processing
    BY <1>7, HeldKey DEF Done, Busy, Held
  <2> DEFINE places == [at EXCEPT ![w] = "get"]
  <2>2. places \in [Workers -> Places]
    OBVIOUS
  <2>3. \A v \in Workers : \/ at'[v] = places[v]
                           \/ places[v] = "parked" /\ at'[v] = "get"
    <3>1. CASE at' \in Signalled(places)
      BY <2>2, <3>1, SignalWakes
    <3>2. CASE at' = places
      BY <3>2
    <3> QED BY <1>7, <3>1, <3>2 DEF Done
  <2>4. \A v \in Workers : at'[v] \in {"failed", "send"} <=> at[v] \in {"failed", "send"}
    BY <1>7, <2>3 DEF Done
  <2>5. \A v \in Workers : at[v] \in {"failed", "send"} => holds'[v] = holds[v]
    BY <1>7 DEF Done
  <2>6. UNCHANGED <<channel, waiting>>
    BY <1>7 DEF Done, delays
  <2>7. Delayed' = Delayed
    BY <2>4, <2>5, <2>6 DEF Delayed
  <2>8. Abstract!Finish(holds[w])
    BY <1>7, <2>1, <2>7 DEF Done, Abstract!Finish
  <2> QED BY <2>1, <2>8 DEF Abstract!Next
<1> QED BY <1>1, <1>2, <1>3, <1>5, <1>6, <1>7 DEF Worker

\* The waiting loop adds a key, or keeps what it receives.
LEMMA LoopImplements ==
  ASSUME IInv, WaitingLoop
  PROVE  Abstract!Next \/ UNCHANGED Abstract!vars
<1> USE DEF IInv, TypeOK
<1>1. ASSUME NEW key \in Keys, AddReady(key)
      PROVE  Abstract!Next \/ UNCHANGED Abstract!vars
  <2>1. Add(key) /\ key \in waiting /\ waiting' = waiting \ {key}
        /\ UNCHANGED <<channel, holds, shuttingDown>>
    BY <1>1 DEF AddReady
  <2>2. key \in Delayed
    BY <2>1 DEF Delayed
  <2>3. \A other : other \in Delayed' => other \in Delayed
    BY <2>1, AddDelays DEF Delayed
  <2>4. \A other : other \in Delayed /\ other # key => other \in Delayed'
    BY <2>1, AddDelays DEF Delayed
  <2>5. Delayed' = Delayed \/ Delayed' = Delayed \ {key}
    BY <2>2, <2>3, <2>4
  <2> QED BY <2>1, <2>2, <2>5, AddDelays, DueImplements
<1>2. CASE ReceiveDelayed
  <2> DEFINE key == Head(channel)
  <2>1. /\ key \in Keys /\ key = channel[1] /\ 1 \in 1..Len(channel)
        /\ Len(channel) \in Nat \ {0}
        /\ Len(channel') = Len(channel) - 1
        /\ \A i \in 1..Len(channel') : i + 1 \in 1..Len(channel) /\ channel'[i] = channel[i + 1]
    BY <1>2 DEF ReceiveDelayed
  <2>2. \A i \in 1..Len(channel) : i = 1 \/ (i - 1 \in 1..Len(channel') /\ channel'[i - 1] = channel[i])
    <3> TAKE i \in 1..Len(channel)
    <3>1. CASE i # 1
      <4>1. i - 1 \in 1..Len(channel') /\ (i - 1) + 1 = i
        BY <2>1, <3>1
      <4> QED BY <2>1, <4>1
    <3> QED BY <3>1
  <2>3. {channel[i] : i \in 1..Len(channel)} = {channel'[i] : i \in 1..Len(channel')} \cup {key}
    <3>1. \A i \in 1..Len(channel) :
            channel[i] \in {channel'[j] : j \in 1..Len(channel')} \cup {key}
      BY <2>1, <2>2
    <3>2. \A i \in 1..Len(channel') : channel'[i] \in {channel[j] : j \in 1..Len(channel)}
      BY <2>1
    <3>3. key \in {channel[i] : i \in 1..Len(channel)}
      BY <2>1
    <3> QED BY <3>1, <3>2, <3>3
  <2>4. CASE waiting' = waiting \cup {key} /\ UNCHANGED <<work, at>>
    <3>1. UNCHANGED <<at, holds>>
      BY <1>2, <2>4 DEF ReceiveDelayed
    <3>2. Delayed' = Delayed
      BY <2>3, <2>4, <3>1 DEF Delayed
    <3> QED BY <1>2, <2>4, <3>2 DEF ReceiveDelayed, work, Abstract!vars
  <2>5. CASE Add(key) /\ UNCHANGED waiting
    <3>1. UNCHANGED <<holds, shuttingDown>>
      BY <1>2 DEF ReceiveDelayed
    <3>2. key \in Delayed
      BY <2>3 DEF Delayed
    <3>3. \A other : other \in Delayed' => other \in Delayed
      BY <2>1, <2>3, <2>5, <3>1, AddDelays DEF Delayed
    <3>4. \A other : other \in Delayed /\ other # key => other \in Delayed'
      <4> TAKE other
      <4>1. HAVE other \in Delayed /\ other # key
      <4>2. \A w \in Workers : at'[w] \in {"failed", "send"} <=> at[w] \in {"failed", "send"}
        BY <2>1, <2>5, AddDelays
      <4>3. CASE other \in {channel[i] : i \in 1..Len(channel)}
        BY <2>3, <4>1, <4>3 DEF Delayed
      <4>4. CASE other \in waiting
        BY <2>5, <4>4 DEF Delayed
      <4>5. CASE other \in {holds[w] : w \in {v \in Workers : at[v] \in {"failed", "send"}}}
        BY <3>1, <4>2, <4>5 DEF Delayed
      <4> QED BY <4>1, <4>3, <4>4, <4>5 DEF Delayed
    <3>5. Delayed' = Delayed \/ Delayed' = Delayed \ {key}
      BY <3>2, <3>3, <3>4
    <3> QED BY <2>1, <2>5, <3>1, <3>2, <3>5, AddDelays, DueImplements
  <2> QED BY <1>2, <2>4, <2>5 DEF ReceiveDelayed
<1>3. CASE EndLoop
  <2>1. Delayed' = Delayed
    BY <1>3 DEF EndLoop, Delayed
  <2> QED BY <1>3, <2>1 DEF EndLoop, work, Abstract!vars
<1> QED BY <1>1, <1>2, <1>3 DEF WaitingLoop

LEMMA StepImplements == IInv /\ [Next]_vars => [Abstract!Next]_(Abstract!vars)
<1> SUFFICES ASSUME IInv, [Next]_vars
             PROVE  Abstract!Next \/ UNCHANGED Abstract!vars
  OBVIOUS
<1>1. CASE \E key \in Keys : Enqueue(key)
  BY <1>1, EnqueueImplements
<1>2. CASE \E w \in Workers : Worker(w)
  BY <1>2, WorkerImplements
<1>3. CASE WaitingLoop
  BY <1>3, LoopImplements
<1>4. CASE ShutDown
  <2>1. \A w \in Workers : at'[w] \in {"failed", "send"} <=> at[w] \in {"failed", "send"}
    BY <1>4 DEF ShutDown, Broadcast
  <2>2. Delayed' = Delayed
    BY <1>4, <2>1 DEF ShutDown, Delayed, delays
  <2>3. Abstract!Stop
    BY <1>4, <2>2 DEF ShutDown, work, Abstract!Stop
  <2> QED BY <2>3 DEF Abstract!Next
<1>5. CASE CloseStopCh
  <2>1. Delayed' = Delayed
    BY <1>5 DEF CloseStopCh, Delayed, delays
  <2> QED BY <1>5, <2>1 DEF CloseStopCh, work, Abstract!vars
<1>6. CASE UNCHANGED vars
  <2>1. Delayed' = Delayed
    BY <1>6 DEF vars, Delayed, delays
  <2> QED BY <1>6, <2>1 DEF vars, work, Abstract!vars
<1> QED BY <1>1, <1>2, <1>3, <1>4, <1>5, <1>6 DEF Next

\* The queue, its workers and its waiting loop do no more than module
\* KeyedWork allows.
THEOREM Refinement == Spec => Abstract!Safe
<1>1. Init => Abstract!Init
  BY DEF Init, Abstract!Init, Delayed
<1>2. IInv /\ [Next]_vars => [Abstract!Next]_(Abstract!vars)
  BY StepImplements
<1> QED BY <1>1, <1>2, Invariant, PTL DEF Spec, Abstract!Safe
=============================================================================
