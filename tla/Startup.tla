------------------------------ MODULE Startup -------------------------------
(***************************************************************************)
(* The operator's process from main to os.Exit: the goroutine that waits   *)
(* for a signal, the definition of the notebook resource in the API        *)
(* server, the informers that fill their caches, the handlers that are     *)
(* added once they are full, the workers, and the end.                     *)
(*                                                                         *)
(* Unlike in Controller there are several notebooks, and of an object it   *)
(* matters only whether it exists; the requests of a sync succeed.         *)
(***************************************************************************)
EXTENDS Naturals, FiniteSets

CONSTANTS Notebooks,  \* the names of notebooks
          Kinds,      \* the kinds of resources that every notebook has
          Workers,    \* the workers
          None,       \* no notebook
          MaxChanges  \* how often users change what is in the API server

ASSUME StartupAssumption ==
         /\ None \notin Notebooks
         /\ "Notebook" \notin Kinds
         /\ MaxChanges \in Nat

VARIABLES
  definition, \* the custom resource definition in the API server
  server,     \* of each type, the notebooks that have an object of it
  before,     \* those of these that were there before the process
  fresh,      \* the names that no notebook had yet
  changes,    \* how often users may still act
  handler,    \* where the goroutine that waits for a signal is
  stop,       \* whether the channel stop is closed
  deadline,   \* whether the stopable timer's channel is closed
  main,       \* where main is, in Run and the functions it calls
  left,       \* the informers a loop of Run has not come to yet
  failed,     \* whether a cache did not sync
  reflector,  \* what each informer's reflector does
  initial,    \* the objects of the first list that are not in the cache yet
  cache,      \* what the listers return
  handled,    \* the informers that have a handler
  notices,    \* the notebooks that each handler has still to look at
  dirty,      \* the keys in the work queue
  worker,     \* where each worker is
  holds,      \* the key a worker syncs
  deleting,   \* whether it takes its notebook for deleted
  todo        \* the resources it has still to look at

api == <<definition, server, before, fresh, changes>>
process == <<handler, stop, deadline, main, left, failed>>
informers == <<reflector, initial, cache, handled, notices>>
syncs == <<dirty, worker, holds, deleting, todo>>
vars == <<api, process, informers, syncs>>

Informers == Kinds \cup {"Notebook"}
Sets == [Informers -> SUBSET Notebooks]

Init ==
  /\ definition \in {"absent", "created", "established"}
  /\ server \in Sets
  /\ definition # "established" => server["Notebook"] = {}
  /\ before = server
  /\ fresh = Notebooks \ server["Notebook"]
  /\ changes = MaxChanges
  /\ handler = "starting"
  /\ stop = FALSE
  /\ deadline = FALSE
  /\ main = "creating"
  /\ left = {}
  /\ failed = FALSE
  /\ reflector = [t \in Informers |-> "off"]
  /\ initial = [t \in Informers |-> {}]
  /\ cache = [t \in Informers |-> {}]
  /\ handled = {}
  /\ notices = [t \in Informers |-> {}]
  /\ dirty = {}
  /\ worker = [w \in Workers |-> "off"]
  /\ holds = [w \in Workers |-> None]
  /\ deleting = [w \in Workers |-> FALSE]
  /\ todo = [w \in Workers |-> {}]

Alive == main \notin {"exited", "killed"}
-----------------------------------------------------------------------------
(* main: the goroutine that waits for a signal.  The channel it gives to    *)
(* signal.Notify has no room: a signal for which it does not wait is lost.  *)

HandlerStep ==
  /\ Alive
  /\ \/ handler = "starting" /\ handler' = "notified"
     \/ handler = "notified" /\ handler' = "waiting"
  /\ UNCHANGED <<api, informers, syncs, stop, deadline, main, left, failed>>

\* Before signal.Notify a signal has its default effect.
SignalKills ==
  /\ Alive
  /\ handler = "starting"
  /\ main' = "killed"
  /\ UNCHANGED <<api, informers, syncs, handler, stop, deadline, left, failed>>

Signal ==
  /\ Alive
  /\ handler = "waiting"
  /\ handler' = "ended"
  /\ stop' = TRUE
  /\ UNCHANGED <<api, informers, syncs, deadline, main, left, failed>>
-----------------------------------------------------------------------------
(* initCRD: two polls, each with a stopable timer of its own.  A poll calls  *)
(* its condition at every tick and once more when the timer's channel is    *)
(* closed, by time or by stop; after a tick both may be due.                *)

Polls == {"creating", "establishing"}

\* Mutant: the timer is only stopped.
OnlyStopped == main \in Polls /\ stop

TimerRuns == main \in Polls

Expire ==
  /\ TimerRuns
  /\ ~deadline
  /\ deadline' = TRUE
  /\ UNCHANGED <<api, informers, syncs, handler, stop, main, left, failed>>

\* Run returns: its deferred ShutDown, and main's os.Exit follows.
Return == main' = "returned" /\ UNCHANGED <<left, deadline>>

\* createCRD: that the definition exists is as good as to have created it.
CreateDefinition(last) ==
  /\ main = "creating"
  /\ last => deadline
  /\ \/ /\ definition' = IF definition = "absent" THEN "created" ELSE definition
        /\ main' = "establishing"
        /\ deadline' = FALSE
        /\ UNCHANGED left
     \/ /\ definition' \in {definition, IF definition = "absent" THEN "created" ELSE definition}
        /\ IF last THEN Return ELSE UNCHANGED <<main, left, deadline>>
  /\ UNCHANGED <<server, before, fresh, changes, informers, syncs, handler, stop, failed>>

AwaitEstablished(last) ==
  /\ main = "establishing"
  /\ last => deadline
  /\ \/ /\ definition = "established"
        /\ main' = "starting"
        /\ UNCHANGED <<left, deadline>>
     \/ last /\ Return
  /\ UNCHANGED <<api, informers, syncs, handler, stop, failed>>
-----------------------------------------------------------------------------
(* Run: the informers are started, wait waits for their caches, handlers are *)
(* added, workers are started.                                              *)

StartInformers ==
  /\ main = "starting"
  /\ main' = "waiting"
  /\ left' = Informers
  /\ reflector' = [t \in Informers |-> "listing"]
  /\ UNCHANGED <<api, syncs, initial, cache, handled, notices, handler, stop, deadline,
                 failed>>

HasSynced(t) == reflector[t] \notin {"off", "listing", "aborted"} /\ initial[t] = {}

\* Mutant: the cache of notebooks is enough.
NotebooksSynced(t) == t = "Notebook" => HasSynced(t)
\* Mutant: a stop does not end the wait.
NeverStopped(t) == FALSE

CacheSynced(t) == HasSynced(t)
CacheGivenUp(t) == stop /\ ~HasSynced(t)

\* WaitForCacheSync for one informer after the other: it asks once more after
\* a stop, so that a cache may have synced in spite of it.
WaitForCache(t) ==
  /\ main = "waiting"
  /\ t \in left
  /\ \/ CacheSynced(t) /\ UNCHANGED failed
     \/ CacheGivenUp(t) /\ failed' = TRUE
  /\ left' = left \ {t}
  /\ UNCHANGED <<api, informers, syncs, handler, stop, deadline, main>>

CachesWaited ==
  /\ main = "waiting"
  /\ left = {}
  /\ IF failed THEN Return ELSE main' = "handling" /\ left' = Informers /\ UNCHANGED deadline
  /\ UNCHANGED <<api, informers, syncs, handler, stop, failed>>

\* Mutant: a handler that is added hears only of what happens from then on.
NothingAdded(t) == {}

SyntheticAdds(t) == cache[t]

\* AddEventHandler while the informer runs: the deltas are blocked, and the
\* handler is told of every object in the cache.
AddHandler(t) ==
  /\ main = "handling"
  /\ t \in left
  /\ left' = left \ {t}
  /\ IF reflector[t] \in {"stopped", "aborted"}
     THEN UNCHANGED <<handled, notices>>
     ELSE /\ handled' = handled \cup {t}
          /\ notices' = [notices EXCEPT ![t] = SyntheticAdds(t)]
  /\ UNCHANGED <<api, syncs, reflector, initial, cache, handler, stop, deadline, main, failed>>

StartWorkers ==
  /\ main = "handling"
  /\ left = {}
  /\ main' = "running"
  /\ worker' = [w \in Workers |-> "starting"]
  /\ UNCHANGED <<api, informers, dirty, holds, deleting, todo, handler, stop, deadline, left,
                 failed>>

Stopped ==
  /\ main = "running"
  /\ stop
  /\ Return
  /\ UNCHANGED <<api, informers, syncs, handler, stop, failed>>

\* os.Exit waits for nothing: what the workers do is cut off.
Exit ==
  /\ main = "returned"
  /\ main' = "exited"
  /\ UNCHANGED <<api, informers, syncs, handler, stop, deadline, left, failed>>
-----------------------------------------------------------------------------
(* The informers *)

\* What comes of the first list is in the cache when every object of it was
\* popped.  The list is repeated every second until it succeeds.
List(t) ==
  /\ Alive
  /\ reflector[t] = "listing"
  /\ reflector' = [reflector EXCEPT ![t] = "watching"]
  /\ initial' = [initial EXCEPT ![t] = server[t]]
  /\ UNCHANGED <<api, process, syncs, cache, handled, notices>>

\* HandleDeltas for an object of the list, or for one that came or went since.
Deliver(t, name) ==
  /\ Alive
  /\ reflector[t] = "watching"
  /\ name \in initial[t] \/ (name \in server[t] <=> name \notin cache[t])
  /\ initial' = [initial EXCEPT ![t] = @ \ {name}]
  /\ cache' = [cache EXCEPT ![t] =
       IF name \in initial[t] \cup server[t] THEN @ \cup {name} ELSE @ \ {name}]
  /\ notices' = [notices EXCEPT ![t] = IF t \in handled THEN @ \cup {name} ELSE @]
  /\ UNCHANGED <<api, process, syncs, reflector, handled>>

StopInformer(t) ==
  /\ Alive
  /\ stop
  /\ \/ reflector[t] = "listing" /\ reflector' = [reflector EXCEPT ![t] = "aborted"]
     \/ reflector[t] = "watching" /\ reflector' = [reflector EXCEPT ![t] = "stopped"]
  /\ UNCHANGED <<api, process, syncs, initial, cache, handled, notices>>

\* A notebook is enqueued, a resource's owner if the cache has it; a queue that
\* was shut down takes nothing.
Handle(t, name) ==
  /\ Alive
  /\ name \in notices[t]
  /\ notices' = [notices EXCEPT ![t] = @ \ {name}]
  /\ dirty' = IF (t = "Notebook" \/ name \in cache["Notebook"]) /\ main # "returned"
              THEN dirty \cup {name} ELSE dirty
  /\ UNCHANGED <<api, process, reflector, initial, cache, handled, worker, holds, deleting,
                 todo>>
-----------------------------------------------------------------------------
(* The workers *)

\* Mutant: there is a reconciler for notebooks, too.
Everything == Informers

Reconcilers == Kinds

\* wait.Until looks at stop before it calls worker.
Begin(w) ==
  /\ Alive
  /\ worker[w] = "starting"
  /\ worker' = [worker EXCEPT ![w] = IF stop THEN "ended" ELSE "idle"]
  /\ UNCHANGED <<api, process, informers, dirty, holds, deleting, todo>>

Take(w, name) ==
  /\ Alive
  /\ worker[w] = "idle"
  /\ name \in dirty
  /\ \A v \in Workers : holds[v] # name
  /\ dirty' = dirty \ {name}
  /\ worker' = [worker EXCEPT ![w] = "syncing"]
  /\ holds' = [holds EXCEPT ![w] = name]
  /\ deleting' = [deleting EXCEPT ![w] = name \notin cache["Notebook"]]
  /\ todo' = [todo EXCEPT ![w] = Reconcilers]
  /\ UNCHANGED <<api, process, informers>>

\* A resource is deleted; or created if the lister misses it; or, which
\* matters not here, updated.
Reconcile(w, t) ==
  LET name == holds[w] IN
  /\ Alive
  /\ worker[w] = "syncing"
  /\ t \in todo[w]
  /\ todo' = [todo EXCEPT ![w] = @ \ {t}]
  /\ \/ /\ deleting[w]
        /\ server' = [server EXCEPT ![t] = @ \ {name}]
        /\ before' = [before EXCEPT ![t] = @ \ {name}]
     \/ /\ ~deleting[w]
        /\ server' = IF name \in cache[t] THEN server
                     ELSE [server EXCEPT ![t] = @ \cup {name}]
        /\ UNCHANGED before
  /\ UNCHANGED <<definition, fresh, changes, process, informers, dirty, worker, holds, deleting>>

Done(w) ==
  /\ Alive
  /\ worker[w] = "syncing"
  /\ todo[w] = {}
  /\ worker' = [worker EXCEPT ![w] = "idle"]
  /\ holds' = [holds EXCEPT ![w] = None]
  /\ UNCHANGED <<api, process, informers, dirty, deleting, todo>>
-----------------------------------------------------------------------------
(* The API server and its users *)

Establish ==
  /\ definition = "created"
  /\ definition' = "established"
  /\ UNCHANGED <<server, before, fresh, changes, process, informers, syncs>>

Change == changes > 0 /\ changes' = changes - 1

CreateNotebook(name) ==
  /\ definition = "established"
  /\ name \in fresh
  /\ Change
  /\ fresh' = fresh \ {name}
  /\ server' = [server EXCEPT !["Notebook"] = @ \cup {name}]
  /\ UNCHANGED <<definition, before, process, informers, syncs>>

DeleteNotebook(name) ==
  /\ name \in server["Notebook"]
  /\ Change
  /\ server' = [server EXCEPT !["Notebook"] = @ \ {name}]
  /\ before' = [before EXCEPT !["Notebook"] = @ \ {name}]
  /\ UNCHANGED <<definition, fresh, process, informers, syncs>>

\* Somebody deletes one of the resources that were there before.
Drop(t, name) ==
  /\ name \in before[t]
  /\ Change
  /\ server' = [server EXCEPT ![t] = @ \ {name}]
  /\ before' = [before EXCEPT ![t] = @ \ {name}]
  /\ UNCHANGED <<definition, fresh, process, informers, syncs>>
-----------------------------------------------------------------------------
Run ==
  \/ CreateDefinition(TRUE) \/ AwaitEstablished(TRUE)
  \/ StartInformers
  \/ \E t \in Informers : WaitForCache(t)
  \/ CachesWaited
  \/ \E t \in Informers : AddHandler(t)
  \/ StartWorkers
  \/ Stopped
  \/ Exit

Worker(w) ==
  \/ Begin(w)
  \/ \E name \in Notebooks : Take(w, name)
  \/ \E t \in Kinds : Reconcile(w, t)
  \/ Done(w)

User ==
  \E name \in Notebooks :
    \/ CreateNotebook(name) \/ DeleteNotebook(name)
    \/ \E t \in Kinds : Drop(t, name)

Next ==
  \/ Run \/ CreateDefinition(FALSE) \/ AwaitEstablished(FALSE)
  \/ Expire
  \/ HandlerStep \/ SignalKills \/ Signal
  \/ \E t \in Informers :
       \/ List(t) \/ StopInformer(t)
       \/ \E name \in Notebooks : Deliver(t, name) \/ Handle(t, name)
  \/ \E w \in Workers : Worker(w)
  \/ Establish
  \/ User

\* The goroutines are scheduled, the timer fires, lists succeed in the end and
\* events arrive.  No request for the definition need ever succeed, it need
\* never be established, and no signal need come.
Fairness ==
  /\ WF_vars(Run)
  /\ WF_vars(Expire)
  /\ \A t \in Informers :
       /\ WF_vars(List(t))
       /\ WF_vars(\E name \in Notebooks : Deliver(t, name))
       /\ WF_vars(\E name \in Notebooks : Handle(t, name))
  /\ \A w \in Workers : WF_vars(Worker(w))

Spec == Init /\ [][Next]_vars /\ Fairness
-----------------------------------------------------------------------------
(* Properties *)

TypeOK ==
  /\ definition \in {"absent", "created", "established"}
  /\ server \in Sets
  /\ before \in Sets
  /\ fresh \subseteq Notebooks
  /\ changes \in Nat
  /\ handler \in {"starting", "notified", "waiting", "ended"}
  /\ stop \in BOOLEAN
  /\ deadline \in BOOLEAN
  /\ main \in Polls \cup {"starting", "waiting", "handling", "running", "returned", "exited",
                          "killed"}
  /\ left \subseteq Informers
  /\ failed \in BOOLEAN
  /\ reflector \in [Informers -> {"off", "listing", "watching", "aborted", "stopped"}]
  /\ initial \in Sets
  /\ cache \in Sets
  /\ handled \subseteq Informers
  /\ notices \in Sets
  /\ dirty \subseteq Notebooks
  /\ worker \in [Workers -> {"off", "starting", "idle", "syncing", "ended"}]
  /\ holds \in [Workers -> Notebooks \cup {None}]
  /\ deleting \in [Workers -> BOOLEAN]
  /\ todo \in [Workers -> SUBSET Kinds]

\* A sync sees everything that was there before the process and still is: a
\* notebook of the time before is never taken for deleted, which would cost
\* it its resources, and a resource of the time before is never taken for
\* missing, which would leave it as it is, since AlreadyExists is no error
\* (Run: informers, wait, addHandlers and workers in this order).
SyncsSeeWhatWasThere ==
  (\E w \in Workers : worker[w] = "syncing") => \A t \in Informers : before[t] \subseteq cache[t]

\* Run gets through its start, or gives it up: the polls for the definition
\* last a minute each, whatever the API server answers (initCRD).
StartEnds == <>(main \in {"running", "returned", "exited", "killed"})

\* Once a signal is received, the process ends wherever it is.
StopExits == stop ~> main = "exited"

\* A notebook that is there before the process, or comes while it starts, comes
\* to have its resources, unless the process ends: that the handlers come
\* after the caches loses no event.
EveryNotebookServed ==
  \A name \in Notebooks :
    name \in server["Notebook"] ~>
      \/ name \notin server["Notebook"]
      \/ main \in {"returned", "exited", "killed"}
      \/ \A t \in Kinds : name \in server[t]
=============================================================================
