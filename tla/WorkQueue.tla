----------------------------- MODULE WorkQueue -----------------------------
(***************************************************************************)
(* The rate limiting work queue that the controller's informers and        *)
(* workers share (client-go/util/workqueue), and the workers' loop around  *)
(* it (worker and processNextWorkItem).                                    *)
(*                                                                         *)
(* The operations of Type hold its mutex, so that each is one action; a    *)
(* worker that Get puts to sleep waits for the condition variable and      *)
(* looks again when it is woken.  AddAfter hands a key to the goroutine of *)
(* waitingLoop through a channel that may be full.  Time is not modelled:  *)
(* a delay, which is never zero, may be over at any point.                 *)
(***************************************************************************)
EXTENDS Naturals, Sequences, FiniteSets

CONSTANTS Keys,      \* the keys of the notebooks
          Workers,   \* the workers that Run starts
          Capacity,  \* of the channel waitingForAddCh
          NoKey      \* what a worker holds when it holds no key

ASSUME WorkQueueAssumption ==
         /\ Capacity \in Nat \ {0}
         /\ NoKey \notin Keys
         /\ IsFiniteSet(Workers)

VARIABLES
  queue,        \* the keys to be worked on, in their order
  dirty,        \* the keys that need to be worked on
  processing,   \* the keys that are worked on
  shuttingDown, \* whether keys are still accepted
  stopped,      \* whether stopCh is closed
  channel,      \* the keys in waitingForAddCh
  waiting,      \* the keys in the waiting loop's priority queue
  looping,      \* whether the waiting loop runs
  at,           \* where each worker is
  holds         \* the key each worker works on

work == <<queue, dirty, processing>>
delays == <<channel, waiting, looping>>
vars == <<work, shuttingDown, stopped, delays, at, holds>>

Init == /\ queue = <<>>
        /\ dirty = {}
        /\ processing = {}
        /\ shuttingDown = FALSE
        /\ stopped = FALSE
        /\ channel = <<>>
        /\ waiting = {}
        /\ looping = TRUE
        /\ at = [w \in Workers |-> "get"]
        /\ holds = [w \in Workers |-> NoKey]
-----------------------------------------------------------------------------
(* The condition variable *)

Parked(places) == {w \in Workers : places[w] = "parked"}

\* The places the workers may be at after a Signal.
Signalled(places) ==
  IF Parked(places) = {} THEN {places}
  ELSE {[places EXCEPT ![w] = "get"] : w \in Parked(places)}

Broadcast(places) ==
  [w \in Workers |-> IF places[w] = "parked" THEN "get" ELSE places[w]]
-----------------------------------------------------------------------------
(* Type *)

\* Mutant: a key that is worked on is not even marked.
AddIdle(key) ==
  IF shuttingDown \/ key \in dirty \cup processing
  THEN UNCHANGED <<work, at>>
  ELSE /\ dirty' = dirty \cup {key}
       /\ queue' = Append(queue, key)
       /\ at' \in Signalled(at)
       /\ UNCHANGED processing
\* Mutant: nobody is woken.
AddSilently(key) ==
  IF shuttingDown \/ key \in dirty
  THEN UNCHANGED <<work, at>>
  ELSE /\ dirty' = dirty \cup {key}
       /\ queue' = IF key \in processing THEN queue ELSE Append(queue, key)
       /\ UNCHANGED <<processing, at>>

\* A key that is worked on is only marked: Done will queue it.
Add(key) ==
  IF shuttingDown \/ key \in dirty
  THEN UNCHANGED <<work, at>>
  ELSE /\ dirty' = dirty \cup {key}
       /\ UNCHANGED processing
       /\ IF key \in processing
          THEN UNCHANGED <<queue, at>>
          ELSE queue' = Append(queue, key) /\ at' \in Signalled(at)

\* Mutant: the key is not marked as worked on.
GetUnmarked(w) ==
  /\ at[w] = "get"
  /\ queue # <<>>
  /\ queue' = Tail(queue)
  /\ dirty' = dirty \ {Head(queue)}
  /\ holds' = [holds EXCEPT ![w] = Head(queue)]
  /\ at' = [at EXCEPT ![w] = "sync"]
  /\ UNCHANGED <<processing, shuttingDown, stopped, delays>>

Get(w) ==
  /\ at[w] = "get"
  /\ queue # <<>>
  /\ queue' = Tail(queue)
  /\ processing' = processing \cup {Head(queue)}
  /\ dirty' = dirty \ {Head(queue)}
  /\ holds' = [holds EXCEPT ![w] = Head(queue)]
  /\ at' = [at EXCEPT ![w] = "sync"]
  /\ UNCHANGED <<shuttingDown, stopped, delays>>

Park(w) ==
  /\ at[w] = "get"
  /\ queue = <<>>
  /\ at' = [at EXCEPT ![w] = IF shuttingDown THEN "ended" ELSE "parked"]
  /\ UNCHANGED <<work, shuttingDown, stopped, delays, holds>>

\* Mutant: a key that was added meanwhile is not queued.
DoneAndForgotten(w) ==
  /\ at[w] = "done"
  /\ processing' = processing \ {holds[w]}
  /\ holds' = [holds EXCEPT ![w] = NoKey]
  /\ at' = [at EXCEPT ![w] = "get"]
  /\ UNCHANGED <<queue, dirty, shuttingDown, stopped, delays>>

Done(w) ==
  /\ at[w] = "done"
  /\ processing' = processing \ {holds[w]}
  /\ holds' = [holds EXCEPT ![w] = NoKey]
  /\ LET places == [at EXCEPT ![w] = "get"] IN
     IF holds[w] \in dirty
     THEN queue' = Append(queue, holds[w]) /\ at' \in Signalled(places)
     ELSE at' = places /\ UNCHANGED queue
  /\ UNCHANGED <<dirty, shuttingDown, stopped, delays>>

ShutDown ==
  /\ ~shuttingDown
  /\ shuttingDown' = TRUE
  /\ at' = Broadcast(at)
  /\ UNCHANGED <<work, stopped, delays, holds>>

CloseStopCh ==
  /\ shuttingDown
  /\ ~stopped
  /\ stopped' = TRUE
  /\ UNCHANGED <<work, shuttingDown, delays, at, holds>>
-----------------------------------------------------------------------------
(* processNextWorkItem: the sync, and AddRateLimited when it fails *)

SyncEnds(w) ==
  /\ at[w] = "sync"
  /\ \E place \in {"done", "failed"} : at' = [at EXCEPT ![w] = place]
  /\ UNCHANGED <<work, shuttingDown, stopped, delays, holds>>

\* AddAfter looks whether the queue is shutting down, and later sends.
AddAfter(w) ==
  /\ at[w] = "failed"
  /\ at' = [at EXCEPT ![w] = IF shuttingDown THEN "done" ELSE "send"]
  /\ UNCHANGED <<work, shuttingDown, stopped, delays, holds>>

\* Mutant: stopCh is not looked at.
SendOnly(w) ==
  /\ at[w] = "send"
  /\ Len(channel) < Capacity
  /\ channel' = Append(channel, holds[w])
  /\ at' = [at EXCEPT ![w] = "done"]
  /\ UNCHANGED <<work, shuttingDown, stopped, waiting, looping, holds>>

SendDelayed(w) ==
  /\ at[w] = "send"
  /\ \/ stopped /\ UNCHANGED channel
     \/ Len(channel) < Capacity /\ channel' = Append(channel, holds[w])
  /\ at' = [at EXCEPT ![w] = "done"]
  /\ UNCHANGED <<work, shuttingDown, stopped, waiting, looping, holds>>

Worker(w) == Get(w) \/ Park(w) \/ SyncEnds(w) \/ AddAfter(w) \/ SendDelayed(w) \/ Done(w)
-----------------------------------------------------------------------------
(* waitingLoop *)

AddReady(key) ==
  /\ looping
  /\ key \in waiting
  /\ waiting' = waiting \ {key}
  /\ Add(key)
  /\ UNCHANGED <<shuttingDown, stopped, channel, looping, holds>>

\* A key that waits already waits for the earlier of the two times.
ReceiveDelayed ==
  /\ looping
  /\ channel # <<>>
  /\ channel' = Tail(channel)
  /\ \/ waiting' = waiting \cup {Head(channel)} /\ UNCHANGED <<work, at>>
     \/ Add(Head(channel)) /\ UNCHANGED waiting
  /\ UNCHANGED <<shuttingDown, stopped, looping, holds>>

EndLoop ==
  /\ looping
  /\ shuttingDown
  /\ looping' = FALSE
  /\ UNCHANGED <<work, shuttingDown, stopped, channel, waiting, at, holds>>

WaitingLoop == (\E key \in Keys : AddReady(key)) \/ ReceiveDelayed \/ EndLoop
-----------------------------------------------------------------------------
\* An informer's handler enqueues a notebook.
Enqueue(key) == Add(key) /\ UNCHANGED <<shuttingDown, stopped, delays, holds>>

Next ==
  \/ \E key \in Keys : Enqueue(key)
  \/ \E w \in Workers : Worker(w)
  \/ WaitingLoop
  \/ ShutDown
  \/ CloseStopCh

\* Goroutines run, those that wait to send to a channel are served in turn,
\* syncs end, since all that they wait for ends within a minute, and delays
\* end.  The operator need not be stopped.
Fairness == /\ \A w \in Workers : WF_vars(Worker(w)) /\ SF_vars(SendDelayed(w))
            /\ \A key \in Keys : WF_vars(AddReady(key))
            /\ WF_vars(ReceiveDelayed)
            /\ WF_vars(EndLoop)
            /\ WF_vars(CloseStopCh)

Spec == Init /\ [][Next]_vars /\ Fairness
-----------------------------------------------------------------------------
(* Properties *)

Places == {"get", "parked", "sync", "failed", "send", "done", "ended"}

Busy(w) == at[w] \in {"sync", "failed", "send", "done"}

TypeOK == /\ queue \in Seq(Keys)
          /\ dirty \subseteq Keys
          /\ processing \subseteq Keys
          /\ shuttingDown \in BOOLEAN
          /\ stopped \in BOOLEAN
          /\ channel \in Seq(Keys)
          /\ waiting \subseteq Keys
          /\ looping \in BOOLEAN
          /\ at \in [Workers -> Places]
          /\ holds \in [Workers -> Keys \cup {NoKey}]

\* "Every element of queue should be in the dirty set and not in the
\* processing set", once, and every such key is in the queue.
QueueHoldsWork ==
  /\ {queue[i] : i \in 1..Len(queue)} = dirty \ processing
  /\ \A i, j \in 1..Len(queue) : queue[i] = queue[j] => i = j

\* A notebook is never synced by two workers at once; and a key that is
\* marked as worked on is worked on, so that it will be given back.
OneWorkerPerKey ==
  /\ processing = {holds[w] : w \in {v \in Workers : Busy(v)}}
  /\ \A v, w \in Workers : Busy(v) /\ Busy(w) /\ holds[v] = holds[w] => v = w

\* Nobody sleeps while there is work that no awake worker will look for.
NoLostWakeup ==
  Parked(at) # {} => /\ Len(queue) <= Cardinality({w \in Workers : at[w] = "get"})
                     /\ ~shuttingDown

\* The keys that somebody will still add: they are in the channel or wait, or
\* their worker is about to send them.
Delayed == {channel[i] : i \in 1..Len(channel)} \cup waiting
             \cup {holds[w] : w \in {v \in Workers : at[v] \in {"failed", "send"}}}

Abstract == INSTANCE KeyedWork WITH pending <- dirty,
                                    active <- processing,
                                    delayed <- Delayed,
                                    stopped <- shuttingDown

\* The queue is what module KeyedWork says: a key that is enqueued while it
\* is synced is synced once more, one whose sync fails is synced again, and
\* none is starved by the others.
ImplementsKeyedWork == Abstract!Spec

\* Stopping the operator ends its workers and the waiting loop, even one that
\* was about to send to a full channel; and the workers finish what was queued.
ShutsDown ==
  shuttingDown ~> /\ \A w \in Workers : at[w] = "ended"
                  /\ ~looping
                  /\ queue = <<>> /\ dirty = {}
=============================================================================
