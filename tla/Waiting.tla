------------------------------ MODULE Waiting ------------------------------
(***************************************************************************)
(* What a sync may rely on when it waits for a StatefulSet or for a        *)
(* certificate: the call returns, an error is only returned when the       *)
(* minute is over and the condition was never seen to hold, and a minute   *)
(* that ends at the moment the condition is seen may crash the process.    *)
(*                                                                         *)
(* Module Controller waits in this way; module Retry shows how it is done. *)
(***************************************************************************)

VARIABLES ready,    \* whether the condition holds now
          seen,     \* whether a probe has found that it holds
          expired,  \* whether the minute is over
          outcome,  \* "waiting", or what the call returned: "ok", "failed"
          crashed   \* whether the process is dead

vars == <<ready, seen, expired, outcome, crashed>>

Init == /\ ready \in BOOLEAN
        /\ seen = FALSE
        /\ expired = FALSE
        /\ outcome = "waiting"
        /\ crashed = FALSE

Change == ready' = ~ready /\ UNCHANGED <<seen, expired, outcome, crashed>>

See == /\ ~crashed
       /\ outcome = "waiting"
       /\ ready
       /\ seen' = TRUE
       /\ UNCHANGED <<ready, expired, outcome, crashed>>

Expire == /\ ~crashed
          /\ expired' = TRUE
          /\ UNCHANGED <<ready, seen, outcome, crashed>>

\* A call that times out should fail, but may succeed.
Return == /\ ~crashed
          /\ outcome = "waiting"
          /\ \/ seen /\ outcome' = "ok"
             \/ expired /\ ~seen /\ outcome' \in {"ok", "failed"}
          /\ UNCHANGED <<ready, seen, expired, crashed>>

Crash == /\ seen
         /\ expired
         /\ crashed' = TRUE
         /\ UNCHANGED <<ready, seen, expired, outcome>>

Next == Change \/ See \/ Expire \/ Return \/ Crash

Safe == Init /\ [][Next]_vars

Ends == <>(outcome # "waiting" \/ crashed)

Spec == Safe /\ Ends
=============================================================================
