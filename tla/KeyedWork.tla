----------------------------- MODULE KeyedWork -----------------------------
(***************************************************************************)
(* What the controller expects of its work queue.  Keys are asked for; one *)
(* that is asked for is worked on, by nobody else at the same time, and    *)
(* once more if it was asked for while it was worked on; one that failed   *)
(* is asked for again after a delay.  Until the queue is stopped nothing   *)
(* is lost, and what was accepted by then is still worked on.              *)
(*                                                                         *)
(* Module Controller follows one key through this; module WorkQueue shows  *)
(* how the queue does it.                                                  *)
(***************************************************************************)

CONSTANT Keys

VARIABLES pending,  \* the keys that must be worked on
          active,   \* the keys that are worked on
          delayed,  \* the keys that will be asked for again
          stopped   \* whether the queue accepts no more keys

vars == <<pending, active, delayed, stopped>>

Init == /\ pending = {}
        /\ active = {}
        /\ delayed = {}
        /\ stopped = FALSE

Ask(key) == /\ ~stopped
            /\ pending' = pending \cup {key}
            /\ UNCHANGED <<active, delayed, stopped>>

Start(key) == /\ key \in pending \ active
              /\ pending' = pending \ {key}
              /\ active' = active \cup {key}
              /\ UNCHANGED <<delayed, stopped>>

Fail(key) == /\ key \in active
             /\ delayed' = delayed \cup {key}
             /\ UNCHANGED <<pending, active, stopped>>

Finish(key) == /\ key \in active
               /\ active' = active \ {key}
               /\ UNCHANGED <<pending, delayed, stopped>>

\* The delay is over.  A queue that is stopped forgets the key.
Due(key) == /\ key \in delayed
            /\ delayed' = delayed \ {key}
            /\ pending' = IF stopped THEN pending ELSE pending \cup {key}
            /\ UNCHANGED <<active, stopped>>

Stop == /\ ~stopped
        /\ stopped' = TRUE
        /\ UNCHANGED <<pending, active, delayed>>

Next == \/ \E key \in Keys : Ask(key) \/ Start(key) \/ Fail(key) \/ Finish(key) \/ Due(key)
        \/ Stop

Safe == Init /\ [][Next]_vars

NothingLost ==
  \A key \in Keys : /\ key \in pending ~> key \in active
                    /\ key \in delayed ~> key \in pending \/ stopped

Spec == Safe /\ NothingLost
=============================================================================
