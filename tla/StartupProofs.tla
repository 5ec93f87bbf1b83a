--------------------------- MODULE StartupProofs ----------------------------
(***************************************************************************)
(* What holds of the start of the process for every set of notebooks,      *)
(* kinds and workers: the types, and that a sync sees everything that was  *)
(* there before.                                                           *)
(***************************************************************************)
EXTENDS Startup, TLAPS

\* A worker that syncs has a notebook to sync.
Held == \A w \in Workers : worker[w] = "syncing" => holds[w] \in Notebooks

Typed == TypeOK /\ Held

\* The poll, the handlers and what else moves main along touch nothing that a
\* worker holds.
LEMMA RunTyped ==
  ASSUME Typed, Run \/ CreateDefinition(FALSE) \/ AwaitEstablished(FALSE)
  PROVE  Typed'
<1> USE DEF Typed
<1>1. ASSUME NEW last \in BOOLEAN, CreateDefinition(last)
      PROVE  Typed'
  <2>1. UNCHANGED <<server, before, fresh, changes, informers, syncs, handler, stop, failed>>
    BY <1>1 DEF CreateDefinition
  <2>2. /\ definition' \in {"absent", "created", "established"}
        /\ main' \in Polls \cup {"returned"}
        /\ deadline' \in BOOLEAN
        /\ left' = left
    BY <1>1 DEF CreateDefinition, Return, TypeOK, Polls
  <2> QED BY <2>1, <2>2 DEF TypeOK, Held, informers, syncs
<1>2. ASSUME NEW last \in BOOLEAN, AwaitEstablished(last)
      PROVE  Typed'
  BY <1>2 DEF AwaitEstablished, Return, TypeOK, Held, api, informers, syncs
<1>3. CASE StartInformers
  BY <1>3 DEF StartInformers, TypeOK, Held, api, syncs
<1>4. ASSUME NEW t \in Informers, WaitForCache(t)
      PROVE  Typed'
  BY <1>4 DEF WaitForCache, TypeOK, Held, api, informers, syncs
<1>5. CASE CachesWaited
  BY <1>5 DEF CachesWaited, Return, TypeOK, Held, api, informers, syncs
<1>6. ASSUME NEW t \in Informers, AddHandler(t)
      PROVE  Typed'
  <2>1. SyntheticAdds(t) \subseteq Notebooks
    BY DEF SyntheticAdds, TypeOK, Sets
  <2>2. handled' \subseteq Informers /\ notices' \in Sets
    BY <1>6, <2>1 DEF AddHandler, TypeOK, Sets
  <2> QED BY <1>6, <2>2 DEF AddHandler, TypeOK, Held, api, syncs
<1>7. CASE StartWorkers
  BY <1>7 DEF StartWorkers, TypeOK, Held, api, informers
<1>8. CASE Stopped
  BY <1>8 DEF Stopped, Return, TypeOK, Held, api, informers, syncs
<1>9. CASE Exit
  BY <1>9 DEF Exit, TypeOK, Held, api, informers, syncs
<1> QED BY <1>1, <1>2, <1>3, <1>4, <1>5, <1>6, <1>7, <1>8, <1>9 DEF Run

LEMMA SignalTyped ==
  ASSUME Typed, Expire \/ HandlerStep \/ SignalKills \/ Signal
  PROVE  Typed'
BY DEF Typed, Expire, HandlerStep, SignalKills, Signal, TypeOK, Held, api, informers, syncs

LEMMA InformerTyped ==
  ASSUME Typed, NEW t \in Informers,
         \/ List(t) \/ StopInformer(t)
         \/ \E name \in Notebooks : Deliver(t, name) \/ Handle(t, name)
  PROVE  Typed'
<1> USE DEF Typed
<1>1. CASE List(t)
  <2>1. initial' \in Sets
    BY <1>1 DEF List, TypeOK, Sets
  <2> QED BY <1>1, <2>1 DEF List, TypeOK, Held, api, process, syncs
<1>2. CASE StopInformer(t)
  BY <1>2 DEF StopInformer, TypeOK, Held, api, process, syncs
<1>3. ASSUME NEW name \in Notebooks, Deliver(t, name)
      PROVE  Typed'
  <2>1. initial' \in Sets /\ cache' \in Sets /\ notices' \in Sets
    BY <1>3 DEF Deliver, TypeOK, Sets
  <2> QED BY <1>3, <2>1 DEF Deliver, TypeOK, Held, api, process, syncs
<1>4. ASSUME NEW name \in Notebooks, Handle(t, name)
      PROVE  Typed'
  <2>1. notices' \in Sets /\ dirty' \subseteq Notebooks
    BY <1>4 DEF Handle, TypeOK, Sets
  <2> QED BY <1>4, <2>1 DEF Handle, TypeOK, Held, api, process
<1> QED BY <1>1, <1>2, <1>3, <1>4

LEMMA WorkerTyped ==
  ASSUME Typed, NEW w \in Workers, Worker(w)
  PROVE  Typed'
<1> USE DEF Typed
<1>1. CASE Begin(w)
  BY <1>1 DEF Begin, TypeOK, Held, api, process, informers
<1>2. ASSUME NEW name \in Notebooks, Take(w, name)
      PROVE  Typed'
  BY <1>2 DEF Take, Reconcilers, TypeOK, Held, api, process, informers
<1>3. ASSUME NEW t \in Kinds, Reconcile(w, t)
      PROVE  Typed'
  <2>1. holds[w] \in Notebooks /\ t \in Informers
    BY <1>3 DEF Reconcile, Held, Informers
  <2>2. server' \in Sets /\ before' \in Sets
    BY <1>3, <2>1 DEF Reconcile, TypeOK, Sets
  <2>3. todo' \in [Workers -> SUBSET Kinds]
    BY <1>3 DEF Reconcile, TypeOK
  <2> QED BY <1>3, <2>2, <2>3 DEF Reconcile, TypeOK, Held, process, informers
<1>4. CASE Done(w)
  BY <1>4 DEF Done, TypeOK, Held, api, process, informers
<1> QED BY <1>1, <1>2, <1>3, <1>4 DEF Worker

LEMMA UserTyped ==
  ASSUME Typed, User \/ Establish
  PROVE  Typed'
<1> USE DEF Typed
<1>1. ASSUME NEW name \in Notebooks,
             \/ CreateNotebook(name) \/ DeleteNotebook(name)
             \/ \E t \in Kinds : Drop(t, name)
      PROVE  Typed'
  <2>1. server' \in Sets /\ before' \in Sets /\ fresh' \subseteq Notebooks /\ changes' \in Nat
    BY <1>1 DEF CreateNotebook, DeleteNotebook, Drop, Change, TypeOK, Sets
  <2>2. UNCHANGED <<definition, process, informers, syncs>>
    BY <1>1 DEF CreateNotebook, DeleteNotebook, Drop
  <2> QED BY <2>1, <2>2 DEF TypeOK, Held, process, informers, syncs
<1>2. CASE Establish
  BY <1>2 DEF Establish, TypeOK, Held, process, informers, syncs
<1> QED BY <1>1, <1>2 DEF User

LEMMA TypedStep == Typed /\ [Next]_vars => Typed'
<1>1. CASE UNCHANGED vars
  BY <1>1 DEF Typed, TypeOK, Held, vars, api, process, informers, syncs
<1> QED BY <1>1, RunTyped, SignalTyped, InformerTyped, WorkerTyped, UserTyped DEF Next

LEMMA TypedInit == Init => Typed
<1> SUFFICES ASSUME Init PROVE Typed
  OBVIOUS
<1>1. TypeOK
  BY StartupAssumption DEF Init, TypeOK, Sets, Polls
<1>2. Held
  BY DEF Init, Held
<1> QED BY <1>1, <1>2 DEF Typed

LEMMA AlwaysTyped == Spec => []Typed
BY TypedInit, TypedStep, PTL DEF Spec

\* Every variable keeps its type; a sync has a notebook of the notebooks.
THEOREM TypeCorrect == Spec => []TypeOK
BY AlwaysTyped, PTL DEF Typed
-----------------------------------------------------------------------------
(* What a sync sees *)

\* What was there before is there; what a reflector has listed is in the cache
\* or on its way there; every cache has synced when handlers are added, and
\* still when workers run, which none does before.
Remains == \A t \in Informers : before[t] \subseteq server[t]

Listed ==
  \A t \in Informers :
    reflector[t] \in {"watching", "stopped"} => before[t] \subseteq cache[t] \cup initial[t]

AllSynced == \A t \in Informers : HasSynced(t)

InOrder ==
  /\ main = "waiting" /\ ~failed => \A t \in Informers \ left : HasSynced(t)
  /\ main = "handling" => AllSynced
  /\ (\E w \in Workers : worker[w] # "off") => AllSynced
  /\ main \in Polls \cup {"starting", "waiting", "handling"}
       => \A w \in Workers : worker[w] = "off"

Seen == Remains /\ Listed /\ InOrder

\* A cache that has synced stays synced.
LEMMA StaysSynced ==
  ASSUME Typed, NEW t \in Informers, HasSynced(t),
         \/ UNCHANGED <<reflector, initial>>
         \/ \E u \in Informers :
              \/ List(u) \/ StopInformer(u)
              \/ \E name \in Notebooks : Deliver(u, name) \/ Handle(u, name)
  PROVE  HasSynced(t)'
<1> USE DEF Typed, HasSynced
<1>1. CASE UNCHANGED <<reflector, initial>>
  BY <1>1
<1>2. ASSUME NEW u \in Informers, List(u) \/ StopInformer(u)
      PROVE  HasSynced(t)'
  BY <1>2 DEF List, StopInformer, TypeOK, Sets
<1>3. ASSUME NEW u \in Informers, NEW name \in Notebooks, Deliver(u, name) \/ Handle(u, name)
      PROVE  HasSynced(t)'
  BY <1>3 DEF Deliver, Handle, TypeOK, Sets
<1> QED BY <1>1, <1>2, <1>3

LEMMA RunSeen ==
  ASSUME Typed, Seen, Run \/ CreateDefinition(FALSE) \/ AwaitEstablished(FALSE)
  PROVE  Seen'
<1> USE DEF Typed, Seen
<1>1. ASSUME NEW last \in BOOLEAN, CreateDefinition(last) \/ AwaitEstablished(last)
      PROVE  Seen'
  <2>1. UNCHANGED <<server, before, informers, syncs>>
    BY <1>1 DEF CreateDefinition, AwaitEstablished, api
  <2>2. main \in Polls /\ main' \in Polls \cup {"starting", "returned"}
    BY <1>1 DEF CreateDefinition, AwaitEstablished, Return, Polls
  <2> QED BY <2>1, <2>2 DEF Remains, Listed, InOrder, AllSynced, HasSynced, informers, syncs,
                            Polls
<1>2. CASE StartInformers
  <2>1. /\ UNCHANGED <<server, before, worker>>
        /\ main = "starting"
        /\ main' = "waiting"
        /\ left' = Informers
        /\ \A t \in Informers : reflector'[t] = "listing"
    BY <1>2 DEF StartInformers, api, syncs
  <2> QED BY <2>1 DEF Remains, Listed, InOrder, Polls
<1>3. ASSUME NEW t \in Informers, WaitForCache(t)
      PROVE  Seen'
  <2>1. UNCHANGED <<server, before, informers, syncs, main>> /\ main = "waiting"
    BY <1>3 DEF WaitForCache, api
  <2>2. ~failed' => ~failed /\ HasSynced(t)
    BY <1>3 DEF WaitForCache, CacheSynced
  <2>3. left' = left \ {t}
    BY <1>3 DEF WaitForCache
  <2> QED BY <2>1, <2>2, <2>3 DEF Remains, Listed, InOrder, AllSynced, HasSynced, informers,
                                  syncs, Polls
<1>4. CASE CachesWaited
  <2>1. UNCHANGED <<server, before, informers, syncs>> /\ main = "waiting" /\ left = {}
    BY <1>4 DEF CachesWaited, api
  <2>2. \/ main' = "returned"
        \/ main' = "handling" /\ ~failed
    BY <1>4 DEF CachesWaited, Return
  <2> QED BY <2>1, <2>2 DEF Remains, Listed, InOrder, AllSynced, HasSynced, informers, syncs,
                            Polls
<1>5. ASSUME NEW t \in Informers, AddHandler(t)
      PROVE  Seen'
  BY <1>5 DEF AddHandler, Remains, Listed, InOrder, AllSynced, HasSynced, api, syncs, Polls
<1>6. CASE StartWorkers
  <2>1. UNCHANGED <<server, before, informers>> /\ main = "handling" /\ main' = "running"
    BY <1>6 DEF StartWorkers, api
  <2>2. AllSynced'
    BY <2>1 DEF InOrder, AllSynced, HasSynced, informers
  <2> QED BY <2>1, <2>2 DEF Remains, Listed, InOrder, informers, Polls
<1>7. CASE Stopped \/ Exit
  <2>1. UNCHANGED <<server, before, informers, syncs>> /\ main' \in {"returned", "exited"}
    BY <1>7 DEF Stopped, Exit, Return, api
  <2> QED BY <2>1 DEF Remains, Listed, InOrder, AllSynced, HasSynced, informers, syncs, Polls
<1> QED BY <1>1, <1>2, <1>3, <1>4, <1>5, <1>6, <1>7 DEF Run

LEMMA SignalSeen ==
  ASSUME Typed, Seen, Expire \/ HandlerStep \/ SignalKills \/ Signal
  PROVE  Seen'
BY DEF Typed, Seen, Expire, HandlerStep, SignalKills, Signal, Remains, Listed, InOrder,
       AllSynced, HasSynced, api, informers, syncs, Polls

LEMMA InformerSeen ==
  ASSUME Typed, Seen, NEW u \in Informers,
         \/ List(u) \/ StopInformer(u)
         \/ \E name \in Notebooks : Deliver(u, name) \/ Handle(u, name)
  PROVE  Seen'
<1> USE DEF Typed, Seen
<1>1. UNCHANGED <<api, process, worker>>
  BY DEF List, StopInformer, Deliver, Handle, syncs
<1>2. \A t \in Informers : HasSynced(t) => HasSynced(t)'
  BY StaysSynced
<1>3. Remains' /\ InOrder'
  BY <1>1, <1>2 DEF Remains, InOrder, AllSynced, api, process
<1>4. ASSUME List(u) PROVE Listed'
  BY <1>1, <1>4 DEF List, Listed, Remains, TypeOK, Sets, api
<1>5. ASSUME StopInformer(u) PROVE Listed'
  BY <1>1, <1>5 DEF StopInformer, Listed, TypeOK, api
<1>6. ASSUME NEW name \in Notebooks, Deliver(u, name)
      PROVE  Listed'
  <2>1. UNCHANGED <<before, server, reflector>>
    BY <1>1, <1>6 DEF Deliver, api
  <2>2. \A t \in Informers \ {u} : cache'[t] = cache[t] /\ initial'[t] = initial[t]
    BY <1>6 DEF Deliver, TypeOK, Sets
  <2>3. /\ initial'[u] = initial[u] \ {name}
        /\ cache'[u] = IF name \in initial[u] \cup server[u]
                       THEN cache[u] \cup {name} ELSE cache[u] \ {name}
    BY <1>6 DEF Deliver, TypeOK, Sets
  <2>4. before[u] \subseteq server[u]
    BY DEF Remains
  <2>5. before[u] \subseteq cache[u] \cup initial[u]
          => before[u] \subseteq cache'[u] \cup initial'[u]
    BY <2>3, <2>4
  <2> QED BY <2>1, <2>2, <2>5 DEF Listed
<1>7. ASSUME NEW name \in Notebooks, Handle(u, name)
      PROVE  Listed'
  BY <1>1, <1>7 DEF Handle, Listed, api
<1> QED BY <1>3, <1>4, <1>5, <1>6, <1>7

LEMMA WorkerSeen ==
  ASSUME Typed, Seen, NEW w \in Workers, Worker(w)
  PROVE  Seen'
<1> USE DEF Typed, Seen
<1>1. worker[w] # "off"
  BY DEF Worker, Begin, Take, Reconcile, Done
<1>2. UNCHANGED <<process, informers>>
  BY DEF Worker, Begin, Take, Reconcile, Done
<1>3. InOrder'
  BY <1>1, <1>2 DEF InOrder, AllSynced, HasSynced, process, informers
<1>4. CASE UNCHANGED <<server, before>>
  BY <1>2, <1>3, <1>4 DEF Remains, Listed, informers
<1>5. ASSUME NEW t \in Kinds, Reconcile(w, t)
      PROVE  Remains' /\ Listed'
  <2>1. t \in Informers
    BY DEF Informers
  <2>2. \A u \in Informers : before'[u] \subseteq before[u]
    BY <1>5, <2>1 DEF Reconcile, TypeOK, Sets
  <2>3. \A u \in Informers : before'[u] \subseteq server'[u]
    BY <1>5, <2>1 DEF Reconcile, TypeOK, Sets, Remains
  <2> QED BY <1>2, <2>2, <2>3 DEF Remains, Listed, informers
<1> QED BY <1>3, <1>4, <1>5 DEF Worker, Begin, Take, Done, api

LEMMA UserSeen ==
  ASSUME Typed, Seen, User \/ Establish
  PROVE  Seen'
<1> USE DEF Typed, Seen
<1>1. ASSUME NEW name \in Notebooks,
             \/ CreateNotebook(name) \/ DeleteNotebook(name)
             \/ \E t \in Kinds : Drop(t, name)
      PROVE  Seen'
  <2>1. UNCHANGED <<process, informers, syncs>>
    BY <1>1 DEF CreateNotebook, DeleteNotebook, Drop
  <2>2. \A u \in Informers : before'[u] \subseteq before[u] /\ before'[u] \subseteq server'[u]
    BY <1>1 DEF CreateNotebook, DeleteNotebook, Drop, TypeOK, Sets, Remains, Informers
  <2> QED BY <2>1, <2>2 DEF Remains, Listed, InOrder, AllSynced, HasSynced, process, informers,
                            syncs
<1>2. CASE Establish
  BY <1>2 DEF Establish, Remains, Listed, InOrder, AllSynced, HasSynced, process, informers,
              syncs
<1> QED BY <1>1, <1>2 DEF User

LEMMA SeenStep == Typed /\ Seen /\ [Next]_vars => Seen'
<1>1. CASE UNCHANGED vars
  BY <1>1 DEF Seen, Remains, Listed, InOrder, AllSynced, HasSynced, vars, api, process,
              informers, syncs
<1> QED BY <1>1, RunSeen, SignalSeen, InformerSeen, WorkerSeen, UserSeen DEF Next

LEMMA SeenInit == Init => Seen
BY DEF Init, Seen, Remains, Listed, InOrder, Polls

\* No notebook of the time before is ever taken for deleted, and no resource
\* for missing, however many there are and however a stop comes in between.
THEOREM NothingOverlooked == Spec => []SyncsSeeWhatWasThere
<1>1. Typed /\ Seen => SyncsSeeWhatWasThere
  <2> SUFFICES ASSUME Typed, Seen, NEW w \in Workers, worker[w] = "syncing", NEW t \in Informers
               PROVE  before[t] \subseteq cache[t]
    BY DEF SyncsSeeWhatWasThere
  <2>1. HasSynced(t)
    BY DEF Seen, InOrder, AllSynced
  <2>2. reflector[t] \in {"watching", "stopped"}
    BY <2>1 DEF HasSynced, Typed, TypeOK
  <2>3. before[t] \subseteq cache[t] \cup initial[t]
    BY <2>2 DEF Seen, Listed
  <2> QED BY <2>1, <2>3 DEF HasSynced
<1> QED BY <1>1, TypedInit, TypedStep, SeenInit, SeenStep, PTL DEF Spec
=============================================================================
