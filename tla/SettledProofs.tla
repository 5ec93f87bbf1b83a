---------------------------- MODULE SettledProofs ----------------------------
(***************************************************************************)
(* The proof that module Controller keeps SettledMeansDone: whatever the   *)
(* order of events and syncs, the operator does not come to rest before    *)
(* the notebook has what it asks for, or a deleted one has left nothing.   *)
(*                                                                         *)
(* It is a proof that no wakeup is lost.  A sync decides on caches that    *)
(* lag behind.  What makes up for it is that whatever a cache has missed   *)
(* when a sync ends is still on its way to the queue, and that what comes  *)
(* gets there: its objects belong to the notebook in the cache.            *)
(***************************************************************************)
EXTENDS ControllerProofs

\* What the theorem needs of the surroundings.  Where one of these is left out,
\* the operator may come to rest too early: AlreadyExists is taken for success
\* and what is refused is somebody else's; the failure to write the phase is
\* only logged, and so is the end of a minute that is lost; a notebook that was
\* made again has another UID; a tombstone is no notebook; and nothing tells of
\* a deletion that happens while the operator is down.
Undisturbed ==
  /\ Limits.create <= 1
  /\ Limits.foreign = 0
  /\ Limits.fault = 0
  /\ Limits.lost = 0
  /\ Limits.relist = 0
  /\ Limits.delete = 0 \/ Limits.restart = 0

-----------------------------------------------------------------------------
(* The invariant *)

\* The notebook's state, or what the queue knows of it, will lead to a sync.
Told == \/ watch["Notebook"] # <<>>
        \/ notices["Notebook"] # {}
        \/ queue.dirty
        \/ queue.waiting

\* Something will.
Pending == Told \/ \E k \in Kinds : watch[k] # <<>> \/ notices[k] # {}

\* An informer has seen the last of an object, or it is on its way.
Tracked ==
  \A t \in Informers :
    IF watch[t] = <<>> THEN cache[t] = server[t] ELSE watch[t][Len(watch[t])] = server[t]

\* A handler can tell new from old.
Differ(old, new) == /\ old # Nil \/ new # Nil
                    /\ old # Nil /\ new # Nil => old.rv # new.rv

Preceding(t, i) == IF i = 1 THEN cache[t] ELSE watch[t][i - 1]

Changing ==
  \A t \in Informers : \A i \in 1..Len(watch[t]) : Differ(Preceding(t, i), watch[t][i])

\* There is one notebook, whose UID is 1, and every resource is its own.
\* A stored template has a parsed quantity.
Ours(t, obj) ==
  IF t = "Notebook" THEN obj.uid = 1
  ELSE /\ obj.managed
       /\ obj.owner = 1
       /\ t = "StatefulSet" => obj.content.gpu # "DecimalExponent"

Owned ==
  /\ \A t \in Informers :
       /\ server[t] # Nil => Ours(t, server[t])
       /\ cache[t] # Nil => Ours(t, cache[t])
       /\ \A i \in 1..Len(watch[t]) : watch[t][i] # Nil => Ours(t, watch[t][i])
       /\ notices[t] \subseteq {1}
  /\ n # Nil => n.uid \in {1, Nil}

\* The notebook is made once.  Before, nothing happens; and once the informer
\* has seen its end, nothing more comes.
Once ==
  /\ budget.create > 0 => ver["Notebook"] = 0
  /\ ver["Notebook"] = 0 => /\ server["Notebook"] = Nil
                            /\ cache["Notebook"] = Nil
                            /\ ~Told
                            /\ n = Nil
  /\ \A i \in 1..Len(watch["Notebook"]) :
       watch["Notebook"][i] = Nil => i = Len(watch["Notebook"])
  /\ /\ cache["Notebook"] = Nil
     /\ notices["Notebook"] # {} \/ queue.dirty \/ queue.waiting \/ n # Nil
     => watch["Notebook"] = <<>>
  /\ Limits.delete = 0 => IF server["Notebook"] = Nil THEN ver["Notebook"] = 0
                          ELSE ~server["Notebook"].deleting

\* The sync works on a notebook, or on one that it made up for a deleted one.
Real == n # Nil /\ n.uid # Nil
MadeUp == n # Nil /\ n.uid = Nil

\* The copy that a sync works on is current, or the key will come again.
Matches ==
  LET m == server["Notebook"] IN
  /\ m # Nil
  /\ m.rv = n.rv
  /\ m.spec = n.spec
  /\ m.deleting = n.deleting
  /\ m.phase = n.phase

Copied == Real => /\ Validate(n.spec)
                  /\ SetDefaults(n.spec) = n.spec
                  /\ Told \/ Matches

\* The API server holds what the notebook asks for, ready or not.
Made(k, m) ==
  IF ~ShouldExist(k, m) THEN Absent(k)
  ELSE /\ server[k] # Nil
       /\ server[k].managed
       /\ server[k].owner = m.uid
       /\ ~server[k].deleting
       /\ CASE k = "Service" -> server[k].content = ServiceContent
            [] k = "Ingress" -> server[k].content = IngressContent(m.spec)
            [] k = "Secret" ->
                 /\ server[k].content = SecretContent(m.spec, server[k].content.cert)
                 /\ ShouldHaveCerts(m.spec) => /\ server[k].content.cert # Nil
                                               /\ server[k].content.cert.ca = ca
            [] k = "StatefulSet" -> SameTemplate(Stored(Template(m.spec)), server[k].content)

\* What the goroutines have found done is done, or something will lead to
\* another sync.
Reconciled ==
  /\ queue.processing <=> n # Nil
  /\ MadeUp => /\ server["Notebook"] = Nil
               /\ \A k \in Kinds : task[k] = "ok" => Absent(k)
  /\ Real /\ ~Pending =>
       \A k \in Kinds : /\ task[k] = "recreate" => server[k] = Nil
                        /\ task[k] \in {"poll", "wait"} => Made(k, n)
                        /\ task[k] = "ok" => Fulfilled(k, n)

\* So is what there is between two syncs.
Rested ==
  n = Nil => IF server["Notebook"] = Nil THEN Told \/ \A k \in Kinds : Absent(k)
             ELSE Pending \/ Done

Settling == /\ Bounded /\ Tracked /\ Changing /\ Owned /\ Once
            /\ Copied /\ Reconciled /\ Rested

-----------------------------------------------------------------------------
(* The surroundings *)

\* What may not happen does not.
LEMMA NeverSpent ==
  ASSUME Undisturbed, IInv, Bounded
  PROVE  /\ ~Spend("foreign") /\ ~Spend("fault") /\ ~Spend("lost") /\ ~Spend("relist")
         /\ budget.create \in {0, 1}
         /\ ~Spend("delete") \/ ~Spend("restart")
<1>1. \A d \in Disturbances : budget[d] \in Nat /\ budget[d] <= Limits[d] /\ Limits[d] \in Nat
  BY ControllerAssumption DEF IInv, RestOK, Bounded
<1>2. {"foreign", "fault", "lost", "relist", "create", "delete", "restart"} \subseteq Disturbances
  BY DEF Disturbances
<1> QED BY <1>1, <1>2 DEF Undisturbed, Spend

\* Then every request has its result and its effect.
LEMMA Answered ==
  ASSUME Undisturbed, IInv, Bounded, NEW t, NEW answer, NEW result, Request(t, answer, result)
  PROVE  result = answer.result /\ Put(t, answer.object)
BY NeverSpent DEF Request
-----------------------------------------------------------------------------
(* What is on its way *)

\* A write is the last thing on its way, and differs from the one before it.
LEMMA ServedTracked ==
  ASSUME IInv, Versioned, Tracked, Changing, Served, UNCHANGED cache
  PROVE  Tracked' /\ Changing'
<1> USE DEF IInv
<1> SUFFICES ASSUME NEW t \in Informers
             PROVE  /\ IF watch'[t] = <<>> THEN cache'[t] = server'[t]
                       ELSE watch'[t][Len(watch'[t])] = server'[t]
                    /\ \A i \in 1..Len(watch'[t]) :
                         Differ(Preceding(t, i)', watch'[t][i])
  BY DEF Tracked, Changing, Preceding, Differ
<1>1. watch[t] \in Seq(Optional(Objects(t))) /\ Len(watch[t]) \in Nat
  BY DEF ClusterOK
<1>2. CASE server'[t] = server[t] /\ watch'[t] = watch[t]
  BY <1>2 DEF Tracked, Changing, Preceding
<1>3. CASE /\ server'[t] # Nil => server'[t].rv = ver[t] + 1
           /\ server'[t] \in Optional(Objects(t))
           /\ server[t] # Nil \/ server'[t] # Nil
           /\ watch'[t] = Append(watch[t], server'[t])
  <2>1. /\ Len(watch'[t]) = Len(watch[t]) + 1 /\ watch'[t] # <<>>
        /\ watch'[t][Len(watch[t]) + 1] = server'[t]
        /\ \A j \in 1..Len(watch[t]) : watch'[t][j] = watch[t][j]
    BY <1>1, <1>3
  <2>2. Differ(server[t], server'[t])
    <3>1. server[t] # Nil => server[t].rv <= ver[t] /\ server[t].rv \in Nat
      BY RvTyped DEF Versioned, ReadCurrent, ClusterOK, Optional
    <3> QED BY <1>3, <3>1 DEF Differ, ClusterOK
  <2>3. server[t] = IF Len(watch[t]) + 1 = 1 THEN cache[t] ELSE watch[t][Len(watch[t])]
    BY <1>1 DEF Tracked
  <2>4. ASSUME NEW i \in 1..Len(watch'[t])
        PROVE  Differ(Preceding(t, i)', watch'[t][i])
    <3>1. CASE i \in 1..Len(watch[t])
      <4>1. Preceding(t, i)' = Preceding(t, i)
        BY <1>1, <2>1, <3>1 DEF Preceding
      <4> QED BY <2>1, <3>1, <4>1 DEF Changing
    <3>2. CASE i = Len(watch[t]) + 1
      <4>1. Preceding(t, i)' = server[t]
        BY <1>1, <2>1, <2>3, <3>2 DEF Preceding
      <4> QED BY <2>1, <2>2, <3>2, <4>1
    <3> QED BY <1>1, <2>1, <3>1, <3>2
  <2> QED BY <2>1, <2>4
<1> QED BY <1>2, <1>3, ServedVersions

LEMMA DeliverTracked ==
  ASSUME IInv, Tracked, Changing, NEW t \in Informers, Deliver(t)
  PROVE  Tracked' /\ Changing'
<1> USE DEF IInv
<1>1. watch[t] \in Seq(Optional(Objects(t))) /\ watch[t] # <<>> /\ Len(watch[t]) \in Nat
  BY DEF ClusterOK, Deliver
<1>2. /\ Head(watch[t]) = watch[t][1] /\ 1 \in 1..Len(watch[t])
      /\ Len(Tail(watch[t])) = Len(watch[t]) - 1
      /\ \A i \in 1..Len(Tail(watch[t])) :
           i + 1 \in 1..Len(watch[t]) /\ Tail(watch[t])[i] = watch[t][i + 1]
  BY <1>1
<1> SUFFICES ASSUME NEW u \in Informers
             PROVE  /\ IF watch'[u] = <<>> THEN cache'[u] = server[u]
                       ELSE watch'[u][Len(watch'[u])] = server[u]
                    /\ \A i \in 1..Len(watch'[u]) :
                         Differ(Preceding(u, i)', watch'[u][i])
  BY DEF Tracked, Changing, Preceding, Differ, Deliver
<1>3. CASE u # t
  <2>1. cache'[u] = cache[u] /\ watch'[u] = watch[u]
    BY <1>3 DEF Deliver, CacheOK, ClusterOK
  <2> QED BY <2>1 DEF Tracked, Changing, Preceding
<1>4. CASE u = t
  <2>1. cache'[u] = watch[t][1] /\ watch'[u] = Tail(watch[t])
    BY <1>2, <1>4 DEF Deliver, CacheOK, ClusterOK
  <2>2. watch[t][Len(watch[t])] = server[t]
    BY <1>1 DEF Tracked
  <2>3. IF watch'[u] = <<>> THEN cache'[u] = server[u]
        ELSE watch'[u][Len(watch'[u])] = server[u]
    <3>1. CASE Tail(watch[t]) = <<>>
      <4>1. PICK tail : tail = Tail(watch[t])
        OBVIOUS
      <4>2. Len(tail) = 0
        BY <3>1, <4>1
      <4>3. Len(tail) = Len(watch[t]) - 1
        BY <1>2, <4>1
      <4> QED BY <1>1, <1>2, <1>4, <2>1, <2>2, <3>1, <4>2, <4>3
    <3>2. CASE Tail(watch[t]) # <<>>
      <4>1. Tail(watch[t]) \in Seq(Optional(Objects(t)))
        BY <1>1
      <4>2. Len(Tail(watch[t])) \in 1..Len(Tail(watch[t]))
        BY <1>1, <1>2, <3>2, <4>1
      <4> QED BY <1>1, <1>2, <1>4, <2>1, <2>2, <3>2, <4>2
    <3> QED BY <3>1, <3>2
  <2>4. ASSUME NEW i \in 1..Len(watch'[u])
        PROVE  Differ(Preceding(u, i)', watch'[u][i])
    <3>1. i + 1 \in 1..Len(watch[t]) /\ watch'[u][i] = watch[t][i + 1]
      BY <1>2, <2>1
    <3>2. Preceding(u, i)' = watch[t][i]
      <4>1. CASE i = 1
        BY <2>1, <4>1 DEF Preceding
      <4>2. CASE i # 1
        <5>1. i - 1 \in 1..Len(Tail(watch[t])) /\ (i - 1) + 1 = i
          BY <1>1, <1>2, <2>1, <4>2
        <5> QED BY <1>2, <2>1, <4>2, <5>1 DEF Preceding
      <4> QED BY <4>1, <4>2
    <3>3. Preceding(t, i + 1) = watch[t][i]
      BY <1>1, <3>1 DEF Preceding
    <3> QED BY <3>1, <3>2, <3>3 DEF Changing
  <2> QED BY <2>3, <2>4
<1> QED BY <1>3, <1>4

-----------------------------------------------------------------------------
(* The steps *)

\* What the theorem has to go on.
Calm == Undisturbed /\ IInv /\ Versioned /\ Settling

LEMMA Steps ==
  ASSUME Calm, [Next]_vars
  PROVE  \/ Writer \/ Resync \/ RetryDue \/ Restart \/ UNCHANGED vars
         \/ \E t \in Informers : Deliver(t) \/ Handle(t)
<1>1. ASSUME NEW t \in Informers PROVE ~Relist(t)
  BY NeverSpent DEF Calm, Settling, Relist
<1> QED BY <1>1 DEF Next, Writer

LEMMA TrackedStep ==
  ASSUME Calm, [Next]_vars
  PROVE  Tracked' /\ Changing'
<1> USE DEF Calm, Settling
<1>1. ASSUME UNCHANGED <<server, watch, cache>> PROVE Tracked' /\ Changing'
  BY <1>1 DEF Tracked, Changing, Preceding
<1>2. CASE Resync \/ RetryDue \/ UNCHANGED vars \/ \E t \in Informers : Handle(t)
  BY <1>1, <1>2 DEF Resync, RetryDue, vars, Handle
<1>3. CASE Restart
  <2>1. \A t \in Informers : watch'[t] = <<>> /\ cache'[t] = server'[t]
    BY <1>3 DEF Restart
  <2> QED BY <2>1 DEF Tracked, Changing
<1> QED BY <1>2, <1>3, Steps, WriterServed, ServedTracked, DeliverTracked

-----------------------------------------------------------------------------
(* What the steps write *)

\* The answers of the API server, when no request is lost.
LEMMA UpdateAnswered ==
  ASSUME Calm, NEW t \in Informers, NEW rv, NEW obj, NEW result,
         Request(t, Update(t, rv, obj), result)
  PROVE  \/ result = "ok" /\ server[t] # Nil /\ server[t].rv = rv /\ Put(t, obj)
         \/ /\ result \in {"Conflict", "NotFound"}
            /\ result = "NotFound" => server[t] = Nil
            /\ server[t] # Nil => server[t].rv # rv
            /\ UNCHANGED cluster
<1>1. result = Update(t, rv, obj).result /\ Put(t, Update(t, rv, obj).object)
  BY Answered DEF Calm, Settling
<1>2. Put(t, server[t]) => UNCHANGED cluster
  BY DEF Put
<1> QED BY <1>1, <1>2 DEF Update, Answer

LEMMA CreationAnswered ==
  ASSUME Calm, NEW t \in Informers, NEW obj, NEW result,
         Request(t, Creation(t, obj), result)
  PROVE  \/ result = "ok" /\ server[t] = Nil /\ Put(t, obj)
         \/ result = "AlreadyExists" /\ server[t] # Nil /\ UNCHANGED cluster
<1>1. result = Creation(t, obj).result /\ Put(t, Creation(t, obj).object)
  BY Answered DEF Calm, Settling
<1>2. Put(t, server[t]) => UNCHANGED cluster
  BY DEF Put
<1> QED BY <1>1, <1>2 DEF Creation, Answer

LEMMA DeletionAnswered ==
  ASSUME Calm, NEW t \in Informers, NEW obj, NEW result,
         Request(t, Deletion(t, obj), result)
  PROVE  \/ result = "ok" /\ server[t] # Nil /\ Put(t, obj)
         \/ result = "NotFound" /\ server[t] = Nil /\ UNCHANGED cluster
<1>1. result = Deletion(t, obj).result /\ Put(t, Deletion(t, obj).object)
  BY Answered DEF Calm, Settling
<1>2. Put(t, server[t]) => UNCHANGED cluster
  BY DEF Put
<1> QED BY <1>1, <1>2 DEF Deletion, Answer

LEMMA PhaseAnswered ==
  ASSUME Calm, NEW m, NEW phase \in Phases, NEW result, SetNotebookPhase(m, phase, result)
  PROVE  \/ m.phase = phase /\ result = "ok" /\ UNCHANGED cluster
         \/ /\ m.phase # phase /\ result = "ok"
            /\ server["Notebook"] # Nil /\ server["Notebook"].rv = m.rv
            /\ Put("Notebook", [server["Notebook"] EXCEPT !.phase = phase])
         \/ /\ m.phase # phase /\ result \in {"Conflict", "NotFound"}
            /\ server["Notebook"] # Nil => server["Notebook"].rv # m.rv
            /\ UNCHANGED cluster
BY UpdateAnswered, NotebookInformer DEF SetNotebookPhase

\* The notebook is made, or it changes and remains the same notebook.  Where it
\* may not be deleted, it stays.
NotebookMoves ==
  LET old == server["Notebook"]
      new == server'["Notebook"]
  IN \/ Same("Notebook")
     \/ /\ Grows("Notebook")
        /\ old = Nil
        /\ Spend("create")
        /\ new # Nil
        /\ new.uid = ver["Notebook"] + 1
        /\ ~new.deleting
     \/ /\ Grows("Notebook")
        /\ old # Nil
        /\ new # Nil => new.uid = old.uid
        /\ Limits.delete = 0 /\ ~old.deleting => new # Nil /\ ~new.deleting

\* An object other than the notebook does not matter here.
LEMMA OtherPut ==
  ASSUME IInv, Versioned, NEW k \in Kinds, NEW obj \in Optional(Objects(k)), Put(k, obj)
  PROVE  NotebookMoves
BY PutMoves, NotebookInformer, NotebookIsNoKind DEF NotebookMoves, Informers

\* The notebook in the API server, with one field changed.
LEMMA NotebookPut ==
  ASSUME IInv, Versioned, NEW obj \in Notebooks, server["Notebook"] # Nil,
         obj.uid = server["Notebook"].uid, Put("Notebook", obj),
         ~obj.deleting \/ server["Notebook"].deleting \/ Limits.delete # 0
  PROVE  NotebookMoves
<1>1. obj \in Optional(Objects("Notebook")) /\ obj # Nil
  BY NoObject, NotebookInformer DEF Optional, Objects
<1>2. \/ Same("Notebook")
      \/ Grows("Notebook") /\ server'["Notebook"] = Written("Notebook", obj)
  BY <1>1, PutMoves, NotebookInformer
<1>3. ver["Notebook"] + 1 \in Nat
  BY NotebookInformer DEF IInv, ClusterOK
<1>4. PICK new \in Notebooks : new = [obj EXCEPT !.rv = ver["Notebook"] + 1]
  BY <1>3 DEF Notebooks
<1>5. new.uid = obj.uid /\ new.deleting = obj.deleting /\ new # Nil
  BY <1>4, NoObject, NotebookInformer DEF Notebooks, Objects
<1> QED BY <1>1, <1>2, <1>4, <1>5 DEF NotebookMoves, Written

LEMMA SyncNotebook ==
  ASSUME Calm, Sync
  PROVE  /\ NotebookMoves
         /\ \A k \in Kinds : Same(k)
<1> USE DEF Calm, Settling
<1>0. Kinds \subseteq Informers \ {"Notebook"} /\ "Notebook" \in Informers
  BY NotebookIsNoKind DEF Informers
<1>1. CASE UNCHANGED cluster
  BY <1>0, <1>1, ClusterSame DEF NotebookMoves
<1>2. ASSUME NEW obj \in Notebooks, server["Notebook"] # Nil,
             obj.uid = server["Notebook"].uid, obj.deleting = server["Notebook"].deleting,
             Put("Notebook", obj)
      PROVE  NotebookMoves /\ \A k \in Kinds : Same(k)
  <2>1. NotebookMoves
    <3>1. obj.deleting \in BOOLEAN
      BY DEF Notebooks
    <3> QED BY <1>2, <3>1, NotebookPut
  <2>2. obj \in Optional(Objects("Notebook"))
    BY DEF Optional, Objects
  <2> QED BY <1>0, <1>2, <2>1, <2>2, PutMoves
<1>3. ASSUME NEW m, NEW phase \in Phases, NEW result, SetNotebookPhase(m, phase, result)
      PROVE  NotebookMoves /\ \A k \in Kinds : Same(k)
  <2>1. CASE /\ server["Notebook"] # Nil
             /\ Put("Notebook", [server["Notebook"] EXCEPT !.phase = phase])
    <3>1. PICK old \in Notebooks : old = server["Notebook"]
      BY <2>1, ServedNotebook
    <3>2. PICK obj \in Notebooks : obj = [old EXCEPT !.phase = phase]
      BY PhaseTyped
    <3>3. obj.uid = old.uid /\ obj.deleting = old.deleting
      BY <3>2 DEF Notebooks
    <3> QED BY <1>2, <2>1, <3>1, <3>2, <3>3
  <2> QED BY <1>1, <1>3, <2>1, PhaseAnswered
<1>4. CASE SyncInvalid \/ SyncReconcile \/ FinishSync
  <2>1. UNCHANGED cluster
        \/ \E m : \E phase \in Phases : \E result : SetNotebookPhase(m, phase, result)
    <3>1. CASE SyncInvalid
      BY <3>1 DEF SyncInvalid, Phases
    <3>2. CASE SyncReconcile
      BY <3>2 DEF SyncReconcile, Phases
    <3>3. CASE FinishSync
      BY <3>3 DEF FinishSync, Phases
    <3> QED BY <1>4, <3>1, <3>2, <3>3
  <2> QED BY <1>1, <1>3, <2>1
<1>5. CASE SyncDefaults
  <2> DEFINE m == cache["Notebook"]
  <2>1. m \in Notebooks /\ SetDefaults(m.spec) \in NotebookSpecs
    BY <1>5, CachedNotebook, DefaultsTyped DEF SyncDefaults, Notebooks, IInv
  <2>2. PICK result : Request("Notebook", DefaultsUpdate(m), result)
    BY <1>5 DEF SyncDefaults
  <2>3. CASE /\ server["Notebook"] # Nil
             /\ Put("Notebook", [server["Notebook"] EXCEPT !.spec = SetDefaults(m.spec)])
    <3>1. PICK old \in Notebooks : old = server["Notebook"]
      BY <2>3, ServedNotebook
    <3>2. PICK obj \in Notebooks : obj = [old EXCEPT !.spec = SetDefaults(m.spec)]
      BY <2>1, SpecTyped
    <3>3. obj.uid = old.uid /\ obj.deleting = old.deleting
      BY <3>2 DEF Notebooks
    <3> QED BY <1>2, <2>3, <3>1, <3>2, <3>3
  <2> QED BY <1>0, <1>1, <2>2, <2>3, UpdateAnswered DEF DefaultsUpdate
<1>6. CASE SyncDeleted
  BY <1>1, <1>6 DEF SyncDeleted
<1> QED BY <1>4, <1>5, <1>6 DEF Sync

LEMMA OthersMoves ==
  ASSUME Calm, Outsider \/ FinalizeNotebook \/ \E k \in Kinds : Helps(k) \/ PodsUnready(k)
  PROVE  /\ NotebookMoves
         /\ \A k \in Kinds : OthersMove(k)
<1> USE DEF Calm, Settling
<1>0. Kinds = Informers \ {"Notebook"} /\ "Notebook" \in Informers
  BY NotebookIsNoKind DEF Informers
<1>1. ASSUME \A u \in Informers \ {"Notebook"} : Same(u)
      PROVE  \A k \in Kinds : OthersMove(k)
  BY <1>0, <1>1 DEF OthersMove
<1>2. ASSUME NEW j \in Kinds, OthersMove(j), \A u \in Informers \ {j} : Same(u)
      PROVE  NotebookMoves /\ \A k \in Kinds : OthersMove(k)
  <2>1. Same("Notebook")
    BY <1>0, <1>2
  <2>2. \A k \in Kinds \ {j} : Same(k)
    BY <1>0, <1>2
  <2> QED BY <1>2, <2>1, <2>2 DEF OthersMove, NotebookMoves
<1>3. ASSUME NEW spec \in UserSpecs, CreateNotebook(spec)
      PROVE  NotebookMoves /\ \A k \in Kinds : OthersMove(k)
  <2>1. ver["Notebook"] + 1 \in Nat
    BY <1>0 DEF IInv, ClusterOK
  <2>2. PICK obj \in Notebooks :
          obj = [uid |-> ver["Notebook"] + 1, rv |-> 0, spec |-> spec, phase |-> "",
                 deleting |-> FALSE]
    BY <2>1, ControllerAssumption DEF Notebooks, Phases
  <2>3. PICK new \in Notebooks : new = [obj EXCEPT !.rv = ver["Notebook"] + 1]
    BY <2>1 DEF Notebooks
  <2>4. new.uid = ver["Notebook"] + 1 /\ new.deleting = FALSE
    BY <2>2, <2>3
  <2>5. obj \in Optional(Objects("Notebook")) /\ obj # Nil /\ new # Nil
    BY <1>0, NoObject DEF Optional, Objects
  <2>6. Put("Notebook", obj) /\ server["Notebook"] = Nil /\ Spend("create")
    BY <1>3, <2>2 DEF CreateNotebook
  <2>7. /\ \A u \in Informers \ {"Notebook"} : Same(u)
        /\ Grows("Notebook") /\ server'["Notebook"] = new
    BY <1>0, <2>3, <2>5, <2>6, PutMoves DEF Written
  <2> QED BY <1>1, <2>4, <2>5, <2>6, <2>7 DEF NotebookMoves
<1>4. ASSUME NEW obj \in Notebooks, server["Notebook"] # Nil,
             obj.uid = server["Notebook"].uid, Put("Notebook", obj),
             ~obj.deleting \/ server["Notebook"].deleting \/ Limits.delete # 0
      PROVE  NotebookMoves /\ \A k \in Kinds : OthersMove(k)
  <2>1. obj \in Optional(Objects("Notebook"))
    BY DEF Optional, Objects
  <2> QED BY <1>0, <1>1, <1>4, <2>1, NotebookPut, PutMoves
<1>5. ASSUME NEW spec \in UserSpecs, EditNotebook(spec)
      PROVE  NotebookMoves /\ \A k \in Kinds : OthersMove(k)
  <2>1. PICK old \in Notebooks : old = server["Notebook"]
    BY <1>5, ServedNotebook DEF EditNotebook
  <2>2. PICK obj \in Notebooks : obj = [old EXCEPT !.spec = spec]
    BY SpecTyped, ControllerAssumption
  <2>3. /\ obj.uid = old.uid /\ obj.deleting = old.deleting /\ old.deleting \in BOOLEAN
    BY <2>1, <2>2 DEF Notebooks
  <2> QED BY <1>4, <1>5, <2>1, <2>2, <2>3 DEF EditNotebook
<1>6. CASE DeleteNotebook
  <2>1. Limits.delete # 0
    <3>1. budget.delete > 0 /\ budget.delete <= Limits.delete
      BY <1>6 DEF DeleteNotebook, Spend, Bounded, Disturbances
    <3>2. budget.delete \in Nat
      BY DEF IInv, RestOK, Disturbances
    <3> QED BY <3>1, <3>2
  <2>2. CASE Put("Notebook", Nil)
    BY <1>0, <1>1, <1>6, <2>1, <2>2, NilPut DEF NotebookMoves, DeleteNotebook
  <2>3. CASE Put("Notebook", [server["Notebook"] EXCEPT !.deleting = TRUE])
    <3>1. PICK old \in Notebooks : old = server["Notebook"]
      BY <1>6, ServedNotebook DEF DeleteNotebook
    <3>2. PICK obj \in Notebooks : obj = [old EXCEPT !.deleting = TRUE]
      BY DEF Notebooks
    <3>3. obj.uid = old.uid
      BY <3>1, <3>2 DEF Notebooks
    <3> QED BY <1>4, <1>6, <2>1, <2>3, <3>1, <3>2, <3>3 DEF DeleteNotebook
  <2> QED BY <1>6, <2>2, <2>3 DEF DeleteNotebook
<1>7. ASSUME NEW j \in Kinds, Drop(j) \/ Terminate(j) \/ Collect(j)
      PROVE  NotebookMoves /\ \A k \in Kinds : OthersMove(k)
  <2>1. Put(j, Nil)
    BY <1>7 DEF Drop, Terminate, Collect
  <2> QED BY <1>0, <1>2, <2>1, NilPut DEF OthersMove
<1>8. ASSUME NEW j \in Kinds, PodsReady(j) \/ PodsUnready(j)
      PROVE  NotebookMoves /\ \A k \in Kinds : OthersMove(k)
  <2>1. server[j] # Nil
    BY <1>8 DEF PodsReady, PodsUnready
  <2>2. PICK ready \in BOOLEAN : Put(j, [server[j] EXCEPT !.ready = ready])
    BY <1>8 DEF PodsReady, PodsUnready
  <2> QED BY <1>2, <2>1, <2>2, ReadyPut
<1>9. ASSUME NEW j \in Kinds, IssueCertificate(j)
      PROVE  NotebookMoves /\ \A k \in Kinds : OthersMove(k)
  BY <1>0, <1>1, <1>9, ClusterSame DEF IssueCertificate, NotebookMoves
<1>10. CASE Rival
  <2>1. "Secret" \in Kinds
    BY <1>10 DEF Rival
  <2> QED BY <1>2, <1>10, <2>1, RivalMoves
<1>11. CASE FinalizeNotebook
  <2>1. Put("Notebook", Nil) /\ server["Notebook"] # Nil /\ server["Notebook"].deleting
    BY <1>11 DEF FinalizeNotebook
  <2> QED BY <1>0, <1>1, <2>1, NilPut DEF NotebookMoves
<1>12. ASSUME NEW j \in Kinds PROVE ~CreateForeign(j)
  BY NeverSpent DEF CreateForeign
<1> QED BY <1>3, <1>5, <1>6, <1>7, <1>8, <1>9, <1>10, <1>11, <1>12 DEF Outsider, Helps

\* What a goroutine writes belongs to the notebook.
LEMMA NotebookUID ==
  ASSUME Calm, n # Nil, NEW k, ShouldExist(k, n)
  PROVE  n.uid = 1 /\ n.uid # Nil
BY OwnerHasUID DEF Calm, Settling, Owned, IInv

LEMMA CreateMoves ==
  ASSUME Calm, NEW k \in Kinds, n # Nil, ShouldExist(k, n), NEW result,
         Request(k, Creation(k, NewObject(k)), result)
  PROVE  /\ \A u \in Informers \ {k} : Same(u)
         /\ \/ result = "ok" /\ Grows(k) /\ server'[k] # Nil /\ Ours(k, server'[k])
            \/ result = "AlreadyExists" /\ server[k] # Nil /\ Same(k)
<1> USE DEF Calm, IInv
<1>0. k \in Informers /\ ver[k] + 1 \in Nat
  BY DEF Informers, ClusterOK
<1>1. CASE result = "ok" /\ server[k] = Nil /\ Put(k, NewObject(k))
  <2>1. PICK obj \in Managed(k) : obj = NewObject(k)
    <3>1. n.uid \in Nat
      BY NotebookUID
    <3> QED BY <3>1, DesiredTyped DEF NewObject, Managed
  <2>2. PICK new \in Managed(k) : new = [obj EXCEPT !.rv = ver[k] + 1]
    BY <1>0 DEF Managed
  <2>3. obj \in Optional(Objects(k)) /\ obj # Nil /\ new # Nil
    <3>1. Managed(k) \subseteq Objects(k)
      BY NotebookIsNoKind DEF Objects
    <3> QED BY <1>0, <3>1, NoObject DEF Optional
  <2>4. /\ \A u \in Informers \ {k} : Same(u)
        /\ Grows(k) /\ server'[k] = new
    BY <1>0, <1>1, <2>1, <2>2, <2>3, PutMoves DEF Written
  <2>5. /\ new.managed /\ new.owner = n.uid /\ new.content = AsStored(k)
    BY <2>1, <2>2 DEF NewObject
  <2>6. k = "StatefulSet" => AsStored(k).gpu # "DecimalExponent"
    BY DEF AsStored, Desired, Stored, Template
  <2>7. n.uid = 1
    BY NotebookUID
  <2>8. Ours(k, new)
    BY <2>5, <2>6, <2>7, NotebookIsNoKind DEF Ours
  <2> QED BY <1>1, <2>3, <2>4, <2>8
<1>2. CASE result = "AlreadyExists" /\ server[k] # Nil /\ UNCHANGED cluster
  BY <1>0, <1>2, ClusterSame
<1> QED BY <1>0, <1>1, <1>2, CreationAnswered

LEMMA OverwriteMoves ==
  ASSUME Calm, NEW k \in Kinds, n # Nil, ShouldExist(k, n), cache[k] # Nil,
         NEW content \in Contents(k), k = "StatefulSet" => content.gpu # "DecimalExponent",
         NEW result, Request(k, Update(k, cache[k].rv, Overwritten(k, content)), result)
  PROVE  /\ \A u \in Informers \ {k} : Same(u)
         /\ \/ Grows(k) /\ (server'[k] = Nil \/ Ours(k, server'[k]))
            \/ Same(k) /\ server[k] # cache[k]
            \/ /\ Same(k)
               /\ server[k] # Nil
               /\ server[k].managed
               /\ server[k].owner = n.uid
               /\ ~server[k].deleting
               /\ server[k].content = content
<1> USE DEF Calm, IInv
<1>0. k \in Informers /\ ver[k] + 1 \in Nat
  BY DEF Informers, ClusterOK
<1>1. CASE /\ server[k] # Nil
           /\ Put(k, Overwritten(k, content))
  <2>1. n.uid = 1 /\ n.uid # Nil /\ n.uid \in Nat
    BY NotebookUID
  <2>2. PICK obj \in Optional(Objects(k)) : obj = Overwritten(k, content)
    BY <1>1, <2>1, OverwrittenTyped
  <2>3. /\ \A u \in Informers \ {k} : Same(u)
        /\ \/ obj = server[k] /\ Same(k)
           \/ obj # server[k] /\ Grows(k) /\ server'[k] = Written(k, obj)
    BY <1>0, <1>1, <2>2, PutMoves
  <2>4. PICK old \in Managed(k) \cup Foreign : old = server[k] /\ old # Nil
    BY <1>0, <1>1, NotebookIsNoKind DEF ClusterOK, Optional, Objects
  <2>5. CASE old.deleting
    <3>1. obj = Nil
      BY <2>2, <2>4, <2>5 DEF Overwritten
    <3> QED BY <2>3, <2>4, <3>1 DEF Written
  <2>6. CASE ~old.deleting
    <3>1. obj = [old EXCEPT !.owner = n.uid, !.managed = TRUE, !.content = content]
      BY <2>2, <2>4, <2>6 DEF Overwritten
    <3>2. obj \in Managed(k)
      BY <2>1, <2>4, <3>1 DEF Managed, Foreign
    <3>3. obj.managed /\ obj.owner = n.uid /\ ~obj.deleting /\ obj.content = content
      BY <2>1, <2>4, <2>6, <3>1 DEF Managed, Foreign
    <3>4. PICK new \in Managed(k) : new = [obj EXCEPT !.rv = ver[k] + 1]
      BY <1>0, <3>2 DEF Managed
    <3>5. new.managed /\ new.owner = n.uid /\ new.content = content
      BY <3>2, <3>3, <3>4 DEF Managed
    <3>6. Ours(k, new)
      BY <2>1, <3>5, NotebookIsNoKind DEF Ours
    <3>7. obj # Nil
      <4>1. Managed(k) \subseteq Objects(k)
        BY NotebookIsNoKind DEF Objects
      <4> QED BY <1>0, <3>2, <4>1, NoObject
    <3> QED BY <2>3, <2>4, <3>3, <3>4, <3>6, <3>7 DEF Written
  <2> QED BY <2>5, <2>6
<1>2. CASE /\ server[k] # Nil => server[k].rv # cache[k].rv
           /\ UNCHANGED cluster
  BY <1>0, <1>2, ClusterSame
<1> QED BY <1>0, <1>1, <1>2, UpdateAnswered

LEMMA DeleteMoves ==
  ASSUME Calm, NEW k \in Kinds, DeleteResource(k)
  PROVE  /\ \A u \in Informers \ {k} : Same(u)
         /\ Same(k) \/ (Grows(k) /\ server'[k] = Nil)
         /\ Absent(k)'
<1> USE DEF Calm, IInv
<1>0. k \in Informers
  BY DEF Informers
<1> DEFINE obj == IF server[k] # Nil /\ server[k].deleting THEN server[k] ELSE Nil
<1>1. PICK result : Request(k, Deletion(k, obj), result)
  BY DEF DeleteResource
<1>2. CASE server[k] = Nil /\ UNCHANGED cluster
  BY <1>0, <1>2, ClusterSame DEF Same, Absent
<1>3. CASE Put(k, obj) /\ obj = Nil
  <2>1. server'[k] = Nil
    BY <1>0, <1>3, PutNil
  <2> QED BY <1>0, <1>3, <2>1, NilPut DEF Absent
<1>4. CASE Put(k, obj) /\ obj = server[k] /\ server[k] # Nil /\ server[k].deleting
  <2>1. UNCHANGED cluster
    BY <1>4 DEF Put
  <2> QED BY <1>0, <1>4, <2>1, ClusterSame DEF Same, Absent
<1> QED BY <1>0, <1>1, <1>2, <1>3, <1>4, DeletionAnswered

LEMMA DeleteOldMoves ==
  ASSUME Calm, NEW k \in Kinds, DeleteOldStatefulSet(k)
  PROVE  /\ \A u \in Informers \ {k} : Same(u)
         /\ Same(k) \/ (Grows(k) /\ Ours(k, server'[k]))
<1> USE DEF Calm, IInv
<1>0. k \in Informers /\ ver[k] + 1 \in Nat
  BY DEF Informers, ClusterOK
<1> DEFINE marked == [server[k] EXCEPT !.deleting = TRUE]
<1>1. PICK result : Request(k, Deletion(k, marked), result)
  BY DEF DeleteOldStatefulSet
<1>2. CASE UNCHANGED cluster
  BY <1>0, <1>2, ClusterSame
<1>3. CASE server[k] # Nil /\ Put(k, marked)
  <2>1. PICK old \in Managed(k) \cup Foreign : old = server[k] /\ old # Nil
    BY <1>0, <1>3, NotebookIsNoKind DEF ClusterOK, Optional, Objects
  <2>2. PICK obj \in Managed(k) \cup Foreign : obj = [old EXCEPT !.deleting = TRUE]
    BY <2>1 DEF Managed, Foreign
  <2>3. PICK new \in Managed(k) \cup Foreign : new = [obj EXCEPT !.rv = ver[k] + 1]
    BY <1>0 DEF Managed, Foreign
  <2>4. new.managed = old.managed /\ new.owner = old.owner /\ new.content = old.content
    BY <2>1, <2>2, <2>3 DEF Managed, Foreign
  <2>5. obj \in Optional(Objects(k)) /\ obj # Nil /\ new # Nil
    <3>1. Objects(k) = Managed(k) \cup Foreign
      BY NotebookIsNoKind DEF Objects
    <3> QED BY <1>0, <3>1, NoObject DEF Optional
  <2>6. Ours(k, old)
    BY <1>0, <2>1 DEF Settling, Owned
  <2>7. Ours(k, new)
    BY <2>4, <2>6, NotebookIsNoKind DEF Ours
  <2>8. Put(k, obj)
    BY <1>3, <2>1, <2>2
  <2> QED BY <1>0, <2>3, <2>5, <2>7, <2>8, PutMoves DEF Written
<1> QED BY <1>0, <1>1, <1>2, <1>3, DeletionAnswered

LEMMA TaskMoves ==
  ASSUME Calm, NEW k \in Kinds, TaskStep(k)
  PROVE  /\ \A u \in Informers \ {k} : Same(u)
         /\ Same(k) \/ (Grows(k) /\ (server'[k] = Nil \/ Ours(k, server'[k])))
<1> k \in Informers
  BY DEF Informers
<1>1. CASE CreateResource(k) \/ RecreateStatefulSet(k)
  <2>1. n # Nil /\ ShouldExist(k, n)
    BY <1>1 DEF CreateResource, RecreateStatefulSet, At, Calm, IInv, Underway
  <2>2. \E result : Request(k, Creation(k, NewObject(k)), result)
    BY <1>1 DEF CreateResource, RecreateStatefulSet
  <2> QED BY <2>1, <2>2, CreateMoves
<1>2. CASE UpdateResource(k) \/ AdoptStatefulSet(k)
  <2>1. n # Nil /\ ShouldExist(k, n) /\ Adoptable(k) /\ cache[k] # Nil
    BY <1>2 DEF UpdateResource, AdoptStatefulSet, At, Adoptable
  <2>2. PICK content \in Contents(k) :
          /\ k = "StatefulSet" => content.gpu # "DecimalExponent"
          /\ \E result : Request(k, Update(k, cache[k].rv, Overwritten(k, content)), result)
    <3>1. CASE UpdateResource(k)
      BY <2>1, <3>1, KeptTyped DEF UpdateResource, Calm, IInv
    <3>2. CASE AdoptStatefulSet(k)
      <4>1. cache[k].content \in Contents(k)
        BY <2>1, ManagedTyped DEF Adoptable, Calm, IInv, CacheOK, Optional, Managed
      <4>2. k = "StatefulSet" => cache[k].content.gpu # "DecimalExponent"
        BY <2>1, NotebookIsNoKind DEF Calm, Settling, Owned, Ours
      <4> QED BY <3>2, <4>1, <4>2 DEF AdoptStatefulSet
    <3> QED BY <1>2, <3>1, <3>2
  <2> QED BY <2>1, <2>2, OverwriteMoves
<1>3. CASE DeleteResource(k)
  BY <1>3, DeleteMoves
<1>4. CASE DeleteOldStatefulSet(k)
  BY <1>4, DeleteOldMoves
<1>5. CASE RefuseResource(k) \/ StatefulSetGone(k) \/ Poll(k) \/ TimeOutGone(k) \/ TimeOutWait(k)
  BY <1>5, ClusterSame DEF RefuseResource, StatefulSetGone, Poll, TimeOutGone, TimeOutWait
<1> QED BY <1>1, <1>2, <1>3, <1>4, <1>5 DEF TaskStep

LEMMA WriterMoves ==
  ASSUME Calm, Writer
  PROVE  /\ NotebookMoves
         /\ \A k \in Kinds :
              Same(k) \/ (Grows(k) /\ (server'[k] = Nil \/ Ours(k, server'[k])))
<1>0. Kinds = Informers \ {"Notebook"} /\ "Notebook" \in Informers
  BY NotebookIsNoKind DEF Informers
<1>1. CASE Sync
  BY <1>1, SyncNotebook
<1>2. ASSUME NEW j \in Kinds, TaskStep(j)
      PROVE  /\ NotebookMoves
             /\ \A k \in Kinds :
                  Same(k) \/ (Grows(k) /\ (server'[k] = Nil \/ Ours(k, server'[k])))
  BY <1>0, <1>2, TaskMoves DEF NotebookMoves
<1>3. CASE Outsider \/ FinalizeNotebook \/ \E k \in Kinds : Helps(k) \/ PodsUnready(k)
  <2>1. NotebookMoves /\ \A k \in Kinds : OthersMove(k)
    BY <1>3, OthersMoves
  <2>2. ASSUME NEW k \in Kinds
        PROVE  Same(k) \/ (Grows(k) /\ (server'[k] = Nil \/ Ours(k, server'[k])))
    <3>1. server[k] # Nil => Ours(k, server[k])
      BY <1>0 DEF Calm, Settling, Owned
    <3> QED BY <1>0, <2>1, <3>1 DEF OthersMove, Ours
  <2> QED BY <2>1, <2>2
<1> QED BY <1>1, <1>2, <1>3 DEF Writer

-----------------------------------------------------------------------------
(* The notebook is made once, and everything is its own *)

LEMMA ServedOwned ==
  ASSUME IInv, Versioned, Owned, Served, UNCHANGED <<cache, notices>>,
         \A t \in Informers : Same(t) \/ server'[t] = Nil \/ Ours(t, server'[t]),
         n' # Nil => n'.uid \in {1, Nil}
  PROVE  Owned'
<1> SUFFICES ASSUME NEW t \in Informers
             PROVE  /\ server'[t] # Nil => Ours(t, server'[t])
                    /\ \A i \in 1..Len(watch'[t]) :
                         watch'[t][i] # Nil => Ours(t, watch'[t][i])
  BY DEF Owned, Ours
<1>1. server'[t] # Nil => Ours(t, server'[t])
  BY DEF Owned, Same
<1>2. watch[t] \in Seq(Optional(Objects(t))) /\ Len(watch[t]) \in Nat
  BY DEF IInv, ClusterOK
<1>3. CASE Same(t)
  BY <1>1, <1>3 DEF Owned, Same
<1>4. CASE Grows(t)
  <2>1. server'[t] \in Optional(Objects(t))
    BY PutTyped DEF IInv, ClusterOK
  <2>2. /\ Len(watch'[t]) = Len(watch[t]) + 1
        /\ watch'[t][Len(watch[t]) + 1] = server'[t]
        /\ \A j \in 1..Len(watch[t]) : watch'[t][j] = watch[t][j]
    BY <1>2, <1>4, <2>1 DEF Grows
  <2>3. \A i \in 1..Len(watch'[t]) : i \in 1..Len(watch[t]) \/ i = Len(watch[t]) + 1
    BY <1>2, <2>2
  <2> QED BY <1>1, <2>2, <2>3 DEF Owned
<1> QED BY <1>3, <1>4, ServedMoves

\* Whatever a handler tells of is the notebook's.
LEMMA NoticeOwned ==
  ASSUME NEW t \in Informers, NEW old, NEW new,
         old # Nil => Ours(t, old), new # Nil => Ours(t, new)
  PROVE  Notice(t, old, new) \subseteq {1}
<1>1. CASE t = "Notebook"
  BY <1>1 DEF Notice, Ours
<1>2. CASE t # "Notebook"
  <2>1. Owners(old, new) \subseteq {1}
    BY <1>2 DEF Owners, Ours
  <2> QED BY <1>2, <2>1 DEF Notice
<1> QED BY <1>1, <1>2

LEMMA DeliverOwned ==
  ASSUME IInv, Owned, NEW t \in Informers, Deliver(t)
  PROVE  Owned'
<1> USE DEF IInv
<1>1. watch[t] \in Seq(Optional(Objects(t))) /\ watch[t] # <<>> /\ Len(watch[t]) \in Nat
  BY DEF ClusterOK, Deliver
<1>2. /\ Head(watch[t]) = watch[t][1] /\ 1 \in 1..Len(watch[t])
      /\ \A i \in 1..Len(Tail(watch[t])) :
           i + 1 \in 1..Len(watch[t]) /\ Tail(watch[t])[i] = watch[t][i + 1]
  BY <1>1
<1>3. Notice(t, cache[t], Head(watch[t])) \subseteq {1}
  BY <1>2, NoticeOwned DEF Owned
<1>4. UNCHANGED <<server, n>>
  BY DEF Deliver
<1> SUFFICES ASSUME NEW u \in Informers
             PROVE  /\ server[u] # Nil => Ours(u, server[u])
                    /\ cache'[u] # Nil => Ours(u, cache'[u])
                    /\ \A i \in 1..Len(watch'[u]) :
                         watch'[u][i] # Nil => Ours(u, watch'[u][i])
                    /\ notices'[u] \subseteq {1}
  BY <1>4 DEF Owned, Ours
<1>5. CASE u # t
  <2>1. cache'[u] = cache[u] /\ watch'[u] = watch[u] /\ notices'[u] = notices[u]
    BY <1>5 DEF Deliver, CacheOK, ClusterOK, OperatorOK
  <2> QED BY <2>1 DEF Owned
<1>6. CASE u = t
  <2>1. /\ cache'[u] = watch[t][1] /\ watch'[u] = Tail(watch[t])
        /\ notices'[u] = notices[t] \cup Notice(t, cache[t], Head(watch[t]))
    BY <1>2, <1>6 DEF Deliver, CacheOK, ClusterOK, OperatorOK
  <2>2. \A i \in 1..Len(watch'[u]) : watch'[u][i] # Nil => Ours(t, watch'[u][i])
    BY <1>2, <2>1 DEF Owned
  <2>3. notices'[u] \subseteq {1}
    BY <1>3, <1>6, <2>1 DEF Owned
  <2> QED BY <1>2, <1>6, <2>1, <2>2, <2>3 DEF Owned
<1> QED BY <1>5, <1>6

\* What a sync may make the goroutines work on.
LEMMA SyncCopies ==
  ASSUME Calm, Sync
  PROVE  n' = n \/ n' = Nil \/ n'.uid = Nil \/ (cache["Notebook"] # Nil /\ n'.uid = 1)
<1> USE DEF Calm, Settling
<1>1. CASE SyncReconcile
  <2>1. cache["Notebook"] # Nil /\ cache["Notebook"] \in Notebooks
    BY <1>1, CachedNotebook DEF SyncReconcile, IInv
  <2>2. cache["Notebook"].uid = 1
    BY <2>1, NotebookInformer DEF Owned, Ours
  <2>3. n'.uid = cache["Notebook"].uid
    BY <1>1, <2>1 DEF SyncReconcile, StartTasks, DeepCopy, Notebooks
  <2> QED BY <2>1, <2>2, <2>3
<1>2. CASE SyncDeleted
  BY <1>2 DEF SyncDeleted, StartTasks, DeepCopy
<1>3. CASE SyncInvalid \/ SyncDefaults \/ FinishSync
  BY <1>3 DEF SyncInvalid, SyncDefaults, FinishSync
<1> QED BY <1>1, <1>2, <1>3 DEF Sync

LEMMA WriterOwned ==
  ASSUME Calm, Writer
  PROVE  Owned'
<1> USE DEF Calm, Settling
<1>1. n' # Nil => n'.uid \in {1, Nil}
  <2>1. CASE Sync
    BY <2>1, SyncCopies DEF Owned
  <2>2. CASE Outsider \/ FinalizeNotebook \/ \E k \in Kinds : Helps(k) \/ PodsUnready(k)
    BY <2>2, UserServed, FinalizeServed, ClusterServed DEF operator, Owned
  <2>3. ASSUME NEW k \in Kinds, TaskStep(k) PROVE n' # Nil => n'.uid \in {1, Nil}
    BY <2>3, TaskServed DEF local, Owned
  <2> QED BY <2>1, <2>2, <2>3 DEF Writer
<1>2. ASSUME NEW t \in Informers
      PROVE  Same(t) \/ server'[t] = Nil \/ Ours(t, server'[t])
  <2>1. CASE t \in Kinds
    BY <2>1, WriterMoves
  <2>2. CASE t = "Notebook"
    <3>1. NotebookMoves
      BY WriterMoves
    <3>2. Spend("create") => ver["Notebook"] = 0
      BY DEF Spend, Once
    <3>3. server["Notebook"] # Nil => server["Notebook"].uid = 1
      BY NotebookInformer DEF Owned, Ours
    <3> QED BY <2>2, <3>1, <3>2, <3>3 DEF NotebookMoves, Ours
  <2> QED BY <2>1, <2>2 DEF Informers
<1> QED BY <1>1, <1>2, WriterServed, ServedOwned

LEMMA OwnedStep ==
  ASSUME Calm, [Next]_vars
  PROVE  Owned'
<1> USE DEF Calm, Settling
<1>1. CASE Writer
  BY <1>1, WriterOwned
<1>2. ASSUME NEW t \in Informers, Deliver(t) PROVE Owned'
  BY <1>2, DeliverOwned
<1>3. CASE Resync \/ RetryDue \/ UNCHANGED vars \/ \E t \in Informers : Handle(t)
  <2>1. UNCHANGED <<server, watch, cache, n>>
    BY <1>3 DEF Resync, RetryDue, vars, Handle
  <2>2. \A t \in Informers : notices'[t] \subseteq notices[t]
    BY <1>3 DEF Resync, RetryDue, vars, Handle, IInv, OperatorOK
  <2> QED BY <2>1, <2>2 DEF Owned, Ours
<1>4. CASE Restart
  <2>1. /\ server' = server /\ n' = Nil
        /\ \A t \in Informers : /\ cache'[t] = server[t]
                                /\ watch'[t] = <<>>
                                /\ notices'[t] = Notice(t, Nil, server[t])
    BY <1>4 DEF Restart
  <2>2. \A t \in Informers : Notice(t, Nil, server[t]) \subseteq {1}
    BY NoticeOwned DEF Owned
  <2> QED BY <2>1, <2>2 DEF Owned, Ours
<1> QED BY <1>1, <1>2, <1>3, <1>4, Steps

\* Before there is a notebook, and after it has gone, nothing changes it.
LEMMA Unborn ==
  ASSUME Calm, Writer, server["Notebook"] = Nil
  PROVE  Same("Notebook") \/ (ver["Notebook"] = 0 /\ Grows("Notebook"))
<1>1. Spend("create") => ver["Notebook"] = 0
  BY DEF Spend, Calm, Settling, Once
<1> QED BY <1>1, WriterMoves DEF NotebookMoves

LEMMA WriterOnce ==
  ASSUME Calm, Writer
  PROVE  Once'
<1> USE DEF Calm, Settling
<1>0. /\ "Notebook" \in Informers
      /\ watch["Notebook"] \in Seq(Optional(Objects("Notebook")))
      /\ Len(watch["Notebook"]) \in Nat /\ ver["Notebook"] \in Nat
  BY NotebookInformer DEF IInv, ClusterOK
<1>1. UNCHANGED <<cache, notices>>
  BY WriterServed
<1>2. Same("Notebook") \/ Grows("Notebook")
  BY <1>0, WriterServed, ServedMoves
<1>3. NotebookMoves
  BY WriterMoves
<1>4. budget'.create > 0 => ver'["Notebook"] = 0
  <2>1. budget'.create <= budget.create /\ budget.create \in Nat /\ budget'.create \in Nat
    <3>1. [Next]_vars
      BY DEF Writer, Next
    <3>2. "create" \in Disturbances
      BY DEF Disturbances
    <3> QED BY <3>1, <3>2, StepSpends, SpendFalls, InvariantStep DEF Spends, IInv, RestOK
  <2>2. ASSUME budget'.create > 0 PROVE Same("Notebook")
    <3>1. budget.create > 0
      BY <2>1, <2>2
    <3>2. ver["Notebook"] = 0 /\ server["Notebook"] = Nil
      BY <3>1 DEF Once
    <3>3. ~Spend("create")
      BY <2>1, <2>2, NeverSpent DEF Spend, IInv, RestOK, Disturbances
    <3> QED BY <1>3, <3>2, <3>3 DEF NotebookMoves
  <2> QED BY <2>1, <2>2 DEF Once, Same
<1>5. ver["Notebook"] = 0 => ~Sync /\ n = Nil
  BY DEF Once, Told, Sync, SyncInvalid, SyncDefaults, SyncReconcile, SyncDeleted, FinishSync,
         Dequeued
<1>6. Sync \/ (queue' = queue /\ n' = n)
  <2>1. ASSUME NEW k \in Kinds, TaskStep(k) PROVE queue' = queue /\ n' = n
    BY <2>1, TaskServed DEF local
  <2>2. CASE Outsider \/ FinalizeNotebook \/ \E k \in Kinds : Helps(k) \/ PodsUnready(k)
    BY <2>2, UserServed, FinalizeServed, ClusterServed DEF operator
  <2> QED BY <2>1, <2>2 DEF Writer
<1>7. ver'["Notebook"] = 0 => /\ server'["Notebook"] = Nil
                              /\ cache'["Notebook"] = Nil
                              /\ ~Told'
                              /\ n' = Nil
  <2> SUFFICES ASSUME ver'["Notebook"] = 0
               PROVE  /\ server'["Notebook"] = Nil
                      /\ cache'["Notebook"] = Nil
                      /\ ~Told'
                      /\ n' = Nil
    OBVIOUS
  <2>1. Same("Notebook") /\ ver["Notebook"] = 0
    BY <1>0, <1>2 DEF Same, Grows
  <2> QED BY <1>1, <1>5, <1>6, <2>1 DEF Once, Same, Told
<1>8. server["Notebook"] = Nil /\ ver["Notebook"] # 0 => Same("Notebook")
  BY Unborn
<1>9. ASSUME NEW i \in 1..Len(watch'["Notebook"]), watch'["Notebook"][i] = Nil
      PROVE  i = Len(watch'["Notebook"])
  <2>1. CASE Same("Notebook")
    BY <1>9, <2>1 DEF Once, Same
  <2>2. CASE Grows("Notebook")
    <3>1. server'["Notebook"] \in Optional(Objects("Notebook"))
      BY <1>0, WriterServed, PutTyped DEF IInv, ClusterOK
    <3>2. /\ Len(watch'["Notebook"]) = Len(watch["Notebook"]) + 1
          /\ \A j \in 1..Len(watch["Notebook"]) : watch'["Notebook"][j] = watch["Notebook"][j]
      BY <1>0, <2>2, <3>1 DEF Grows
    <3>3. ASSUME i \in 1..Len(watch["Notebook"]) PROVE FALSE
      <4>1. i = Len(watch["Notebook"]) /\ watch["Notebook"] # <<>>
        BY <1>0, <1>9, <3>2, <3>3 DEF Once
      <4>2. server["Notebook"] = Nil
        BY <1>0, <1>9, <3>2, <3>3, <4>1 DEF Tracked
      <4>3. ver["Notebook"] # 0
        BY <4>1 DEF Once, Told
      <4>4. Same("Notebook")
        BY <1>8, <4>2, <4>3
      <4> QED BY <1>0, <2>2, <4>4 DEF Same, Grows
    <3> QED BY <1>0, <3>2, <3>3
  <2> QED BY <1>2, <2>1, <2>2
<1>10. ASSUME cache'["Notebook"] = Nil,
              notices'["Notebook"] # {} \/ queue'.dirty \/ queue'.waiting \/ n' # Nil
       PROVE  watch'["Notebook"] = <<>>
  <2>1. notices["Notebook"] # {} \/ queue.dirty \/ queue.waiting \/ n # Nil
    BY <1>1, <1>6, <1>10 DEF Sync, SyncInvalid, SyncDefaults, SyncReconcile, SyncDeleted,
                             FinishSync, Dequeued
  <2>2. watch["Notebook"] = <<>> /\ ver["Notebook"] # 0
    BY <1>1, <1>10, <2>1 DEF Once, Told
  <2>3. server["Notebook"] = Nil
    BY <1>0, <1>1, <1>10, <2>2 DEF Tracked
  <2> QED BY <1>8, <2>2, <2>3 DEF Same
<1>11. Limits.delete = 0 => IF server'["Notebook"] = Nil THEN ver'["Notebook"] = 0
                            ELSE ~server'["Notebook"].deleting
  BY <1>3 DEF NotebookMoves, Once, Same
<1> QED BY <1>4, <1>7, <1>9, <1>10, <1>11 DEF Once

LEMMA DeliverOnce ==
  ASSUME Calm, NEW t \in Informers, Deliver(t)
  PROVE  Once'
<1> USE DEF Calm, Settling, IInv
<1>1. UNCHANGED <<server, ver, queue, n, budget>>
  BY DEF Deliver
<1>2. CASE t # "Notebook"
  <2>1. /\ cache'["Notebook"] = cache["Notebook"] /\ watch'["Notebook"] = watch["Notebook"]
        /\ notices'["Notebook"] = notices["Notebook"]
    BY <1>2, NotebookInformer DEF Deliver, CacheOK, ClusterOK, OperatorOK
  <2> QED BY <1>1, <2>1 DEF Once, Told
<1>3. CASE t = "Notebook"
  <2>1. /\ watch[t] \in Seq(Optional(Objects(t))) /\ watch[t] # <<>>
        /\ Len(watch[t]) \in Nat
    BY DEF ClusterOK, Deliver
  <2>2. /\ cache'[t] = watch[t][1] /\ watch'[t] = Tail(watch[t]) /\ 1 \in 1..Len(watch[t])
        /\ Len(watch'[t]) = Len(watch[t]) - 1
        /\ \A i \in 1..Len(watch'[t]) :
             i + 1 \in 1..Len(watch[t]) /\ watch'[t][i] = watch[t][i + 1]
    BY <2>1 DEF Deliver, CacheOK, ClusterOK
  <2>3. ver["Notebook"] # 0
    BY <1>3, <2>1 DEF Once, Told
  <2>4. ASSUME NEW i \in 1..Len(watch'[t]), watch'[t][i] = Nil
        PROVE  i = Len(watch'[t])
    <3>1. i + 1 \in 1..Len(watch[t]) /\ watch[t][i + 1] = Nil
      BY <2>2, <2>4
    <3>2. i + 1 = Len(watch[t])
      BY <1>3, <3>1 DEF Once
    <3>3. PICK length : length = Len(watch'[t])
      OBVIOUS
    <3>4. length = Len(watch[t]) - 1 /\ i \in 1..length
      BY <2>2, <3>3
    <3> QED BY <2>1, <3>2, <3>3, <3>4
  <2>5. watch[t][1] = Nil => watch'[t] = <<>>
    <3>1. watch[t][1] = Nil => Len(watch[t]) = 1
      BY <1>3, <2>2 DEF Once
    <3>2. Tail(watch[t]) \in Seq(Optional(Objects(t)))
      BY <2>1
    <3>3. PICK tail \in Seq(Optional(Objects(t))) : tail = watch'[t]
      BY <2>2, <3>2
    <3>4. Len(tail) = Len(watch[t]) - 1
      BY <2>2, <3>3
    <3> QED BY <2>1, <3>1, <3>3, <3>4
  <2> QED BY <1>1, <1>3, <2>2, <2>3, <2>4, <2>5 DEF Once
<1> QED BY <1>2, <1>3

LEMMA OnceStep ==
  ASSUME Calm, [Next]_vars
  PROVE  Once'
<1> USE DEF Calm, Settling
<1>1. CASE Resync \/ RetryDue
  BY <1>1 DEF Resync, RetryDue, Enqueue, Once, Told
<1>2. ASSUME NEW t \in Informers, Handle(t) PROVE Once'
  <2>1. UNCHANGED <<server, ver, watch, cache, n, budget>>
    BY <1>2 DEF Handle
  <2>2. notices'["Notebook"] \subseteq notices["Notebook"]
    BY <1>2, NotebookInformer DEF Handle, IInv, OperatorOK
  <2>3. \/ queue' = queue
        \/ t = "Notebook" /\ notices["Notebook"] # {}
        \/ cache["Notebook"] # Nil
    BY <1>2 DEF Handle, ResolvesTo
  <2> QED BY <2>1, <2>2, <2>3 DEF Once, Told
<1>3. CASE Restart
  <2>1. /\ UNCHANGED <<server, ver>> /\ n' = Nil /\ queue' = InitialQueue
        /\ cache'["Notebook"] = server["Notebook"]
        /\ watch'["Notebook"] = <<>>
        /\ notices'["Notebook"] = Notice("Notebook", Nil, server["Notebook"])
        /\ budget'.create = budget.create
    BY <1>3, NotebookInformer DEF Restart, Spend, IInv, RestOK, Disturbances
  <2>2. server["Notebook"] = Nil => notices'["Notebook"] = {}
    BY <2>1 DEF Notice
  <2> QED BY <2>1, <2>2 DEF Once, Told, InitialQueue
<1>4. CASE UNCHANGED vars
  BY <1>4 DEF vars, Once, Told
<1> QED BY <1>1, <1>2, <1>3, <1>4, Steps, WriterOnce, DeliverOnce

-----------------------------------------------------------------------------
(* No wakeup is lost *)

\* Of two states of a notebook's object that differ, its handler takes notice.
LEMMA NoticeTaken ==
  ASSUME NEW t \in Informers, NEW old, NEW new, Differ(old, new),
         old # Nil => Ours(t, old), new # Nil => Ours(t, new)
  PROVE  1 \in Notice(t, old, new)
<1> PICK obj \in {old, new} : obj # Nil
  BY DEF Differ
<1>1. CASE t = "Notebook"
  BY <1>1 DEF Notice, Ours
<1>2. CASE t # "Notebook"
  <2>1. obj.owner = 1
    BY <1>2 DEF Ours
  <2>2. 1 \in Owners(old, new)
    BY <2>1, ControllerAssumption DEF Owners
  <2> QED BY <1>2, <2>2 DEF Notice, Differ
<1> QED BY <1>1, <1>2

\* What is delivered is handled.
LEMMA DeliverTold ==
  ASSUME Calm, NEW t \in Informers, Deliver(t)
  PROVE  notices'[t] # {}
<1> USE DEF Calm, Settling
<1>1. watch[t] \in Seq(Optional(Objects(t))) /\ watch[t] # <<>> /\ Len(watch[t]) \in Nat
  BY DEF IInv, ClusterOK, Deliver
<1>2. Head(watch[t]) = watch[t][1] /\ 1 \in 1..Len(watch[t])
  BY <1>1
<1>3. Differ(cache[t], Head(watch[t]))
  <2>1. Preceding(t, 1) = cache[t]
    BY DEF Preceding
  <2> QED BY <1>2, <2>1 DEF Changing
<1>4. 1 \in Notice(t, cache[t], Head(watch[t]))
  BY <1>2, <1>3, NoticeTaken DEF Owned
<1> QED BY <1>4 DEF Deliver, IInv, OperatorOK

\* The queue forgets the key when it starts a sync and not before.
LEMMA DefaultsTold ==
  ASSUME Calm, SyncDefaults
  PROVE  Told'
<1> USE DEF Calm, Settling
<1> DEFINE m == cache["Notebook"]
<1>1. m # Nil /\ m \in Notebooks /\ SetDefaults(m.spec) \in NotebookSpecs
  BY CachedNotebook, DefaultsTyped DEF SyncDefaults, Notebooks, IInv
<1>2. PICK result :
        /\ Request("Notebook", DefaultsUpdate(m), result)
        /\ queue' = IF result = "ok" THEN Forgotten ELSE RateLimited
  BY DEF SyncDefaults
<1>3. CASE result # "ok"
  BY <1>2, <1>3 DEF RateLimited, Told, IInv, OperatorOK
<1>4. CASE result = "ok"
  <2>1. /\ server["Notebook"] # Nil /\ server["Notebook"].rv = m.rv
        /\ Put("Notebook", [server["Notebook"] EXCEPT !.spec = SetDefaults(m.spec)])
    BY <1>2, <1>4, UpdateAnswered, NotebookInformer DEF DefaultsUpdate
  <2>2. server["Notebook"] = m
    BY <1>1, <2>1, NotebookInformer DEF Versioned, ReadCurrent, Current
  <2>3. PICK obj \in Notebooks : obj = [m EXCEPT !.spec = SetDefaults(m.spec)]
    BY <1>1, SpecTyped
  <2>4. obj.spec = SetDefaults(m.spec) /\ SetDefaults(m.spec) # m.spec
    BY <1>1, <2>3 DEF Notebooks, SyncDefaults
  <2>5. obj \in Optional(Objects("Notebook")) /\ obj # m
    BY <2>4 DEF Optional, Objects
  <2>6. Put("Notebook", obj)
    BY <2>1, <2>2, <2>3
  <2>7. Grows("Notebook")
    BY <2>2, <2>5, <2>6, PutMoves, NotebookInformer
  <2> QED BY <2>7 DEF Grows, Told
<1> QED BY <1>3, <1>4

LEMMA ToldStays ==
  ASSUME Calm, [Next]_vars, Told, ~Restart, ~SyncReconcile, ~SyncDeleted
  PROVE  Told'
<1> USE DEF Calm, Settling
<1>1. CASE Writer
  <2>1. UNCHANGED notices
    BY <1>1, WriterServed
  <2>2. watch["Notebook"] # <<>> => watch'["Notebook"] # <<>>
    BY <1>1, StaysUnread, NotebookInformer
  <2>3. CASE SyncDefaults
    BY <2>3, DefaultsTold
  <2>4. CASE SyncInvalid
    BY <2>4 DEF SyncInvalid, RateLimited, Told, IInv, OperatorOK
  <2>5. CASE FinishSync
    <3>1. queue'.dirty = queue.dirty /\ (queue.waiting => queue'.waiting)
      BY <2>5 DEF FinishSync, Processed, IInv, OperatorOK
    <3> QED BY <2>1, <2>2, <3>1 DEF Told
  <2>6. ASSUME UNCHANGED queue PROVE Told'
    BY <2>1, <2>2, <2>6 DEF Told
  <2>7. ASSUME NEW k \in Kinds, TaskStep(k) PROVE UNCHANGED queue
    BY <2>7, TaskServed DEF local
  <2>8. CASE Outsider \/ FinalizeNotebook \/ \E k \in Kinds : Helps(k) \/ PodsUnready(k)
    BY <2>6, <2>8, UserServed, FinalizeServed, ClusterServed DEF operator
  <2> QED BY <1>1, <2>3, <2>4, <2>5, <2>6, <2>7, <2>8 DEF Writer, Sync
<1>2. ASSUME NEW t \in Informers, Deliver(t) PROVE Told'
  <2>1. CASE t = "Notebook"
    BY <1>2, <2>1, DeliverTold DEF Told
  <2>2. CASE t # "Notebook"
    <3>1. /\ watch'["Notebook"] = watch["Notebook"] /\ queue' = queue
          /\ notices'["Notebook"] = notices["Notebook"]
      BY <1>2, <2>2, NotebookInformer DEF Deliver, IInv, ClusterOK, OperatorOK
    <3> QED BY <3>1 DEF Told
  <2> QED BY <2>1, <2>2
<1>3. ASSUME NEW t \in Informers, Handle(t) PROVE Told'
  <2>1. watch' = watch
    BY <1>3 DEF Handle
  <2>2. CASE Enqueue
    BY <2>2 DEF Enqueue, Told, IInv, OperatorOK
  <2>3. CASE t # "Notebook" /\ UNCHANGED queue
    <3>1. notices'["Notebook"] = notices["Notebook"]
      BY <1>3, <2>3, NotebookInformer DEF Handle, IInv, OperatorOK
    <3> QED BY <2>1, <2>3, <3>1 DEF Told
  <2> QED BY <1>3, <2>2, <2>3 DEF Handle
<1>4. CASE Resync \/ RetryDue
  BY <1>4 DEF Resync, RetryDue, Enqueue, Told, IInv, OperatorOK
<1>5. CASE UNCHANGED vars
  BY <1>5 DEF vars, Told
<1> QED BY <1>1, <1>2, <1>3, <1>4, <1>5, Steps

LEMMA Resolved ==
  ASSUME Calm, ~Told, server["Notebook"] # Nil
  PROVE  /\ cache["Notebook"] = server["Notebook"]
         /\ ResolvesTo(1)
BY NotebookInformer DEF Calm, Settling, Told, Tracked, Owned, Ours, ResolvesTo

\* What a cache has missed leads to a sync: what is on its way arrives, the
\* handler that is told finds that its owner is the notebook, and enqueues it.
LEMMA PendingStays ==
  ASSUME Calm, [Next]_vars, Pending, ~Restart, ~SyncReconcile, ~SyncDeleted,
         server["Notebook"] # Nil
  PROVE  Pending'
<1> USE DEF Calm, Settling
<1>1. CASE Told
  BY <1>1, ToldStays DEF Pending
<1>2. CASE ~Told
  <2>0. Kinds \subseteq Informers
    BY DEF Informers
  <2>1. PICK k \in Kinds : watch[k] # <<>> \/ notices[k] # {}
    BY <1>2 DEF Pending
  <2>2. CASE Writer
    BY <2>0, <2>1, <2>2, StaysUnread, WriterServed DEF Pending
  <2>3. ASSUME NEW t \in Informers, Deliver(t) PROVE Pending'
    <3>1. t # "Notebook"
      BY <1>2, <2>3 DEF Told, Deliver
    <3>2. notices'[t] # {}
      BY <2>3, DeliverTold
    <3> QED BY <3>1, <3>2 DEF Pending, Informers
  <2>4. ASSUME NEW t \in Informers, Handle(t) PROVE Pending'
    <3>1. PICK uid \in notices[t] : t = "Notebook" \/ ResolvesTo(uid) => Enqueue
      BY <2>4 DEF Handle
    <3>2. uid = 1
      BY DEF Owned
    <3>3. Enqueue
      BY <1>2, <3>1, <3>2, Resolved
    <3> QED BY <3>3 DEF Enqueue, Pending, Told, IInv, OperatorOK
  <2>5. CASE Resync \/ RetryDue
    BY <2>5 DEF Resync, RetryDue, Enqueue, Pending, Told, IInv, OperatorOK
  <2>6. CASE UNCHANGED vars
    BY <2>1, <2>6 DEF vars, Pending
  <2> QED BY <2>2, <2>3, <2>4, <2>5, <2>6, Steps
<1> QED BY <1>1, <1>2

\* A change is on its way.
LEMMA GrowthPending ==
  ASSUME NEW t \in Informers, Grows(t)
  PROVE  /\ t = "Notebook" => Told'
         /\ Pending'
BY DEF Grows, Told, Pending, Informers

LEMMA RestartTold ==
  ASSUME IInv, Restart, server["Notebook"] # Nil
  PROVE  Told'
<1>1. notices'["Notebook"] = Notice("Notebook", Nil, server["Notebook"])
  BY NotebookInformer DEF Restart
<1>2. server["Notebook"].uid \in Notice("Notebook", Nil, server["Notebook"])
  BY DEF Notice
<1> QED BY <1>1, <1>2 DEF Told

\* Before a notebook is made there is nothing to do; and where there are
\* restarts, it is not deleted.
LEMMA RestartUnborn ==
  ASSUME Calm, Restart, server["Notebook"] = Nil
  PROVE  ~Told /\ n = Nil
<1>1. Limits.delete = 0
  <2>1. budget.restart > 0 /\ budget.restart <= Limits.restart /\ budget.restart \in Nat
    BY DEF Calm, Settling, Restart, Spend, Bounded, Disturbances, IInv, RestOK
  <2> QED BY <2>1 DEF Calm, Undisturbed
<1> QED BY <1>1 DEF Calm, Settling, Once

\* Unless something has been written, and will be told, nothing changes.
LEMMA QuietStep ==
  ASSUME Calm, [Next]_vars, ~Pending'
  PROVE  server' = server
<1> USE DEF Calm, Settling
<1>1. CASE Writer
  <2>1. \A t \in Informers : Same(t)
    BY <1>1, WriterServed, ServedMoves, GrowthPending
  <2>2. server \in [Informers -> Optional(AllObjects)]
        /\ server' \in [Informers -> Optional(AllObjects)]
    BY InvariantStep DEF IInv, ClusterOK
  <2> QED BY <2>1, <2>2 DEF Same
<1>2. CASE ~Writer
  BY <1>2, Steps DEF Resync, RetryDue, Restart, vars, Deliver, Handle
<1> QED BY <1>1, <1>2

-----------------------------------------------------------------------------
(* What a sync works on *)

LEMMA DeepCopyIsThere ==
  ASSUME IInv, NEW m, StartTasks(m),
         m.uid \in Optional(Nat), m.rv \in Nat, m.spec \in NotebookSpecs,
         m.phase \in Phases, m.deleting \in BOOLEAN, m.uid = Nil => m.deleting
  PROVE  n' # Nil
BY StartTyped, NilAssumption

LEMMA SyncStarts ==
  ASSUME Calm, SyncReconcile \/ SyncDeleted
  PROVE  n' # Nil /\ n = Nil /\ queue'.processing
<1> USE DEF Calm, Settling, IInv
<1>1. n = Nil
  BY DEF SyncReconcile, SyncDeleted, Dequeued, Reconciled
<1>2. CASE SyncReconcile
  <2>1. PICK m \in Notebooks : m = cache["Notebook"]
    BY <1>2, CachedNotebook DEF SyncReconcile
  <2>2. PICK phase \in Phases : StartTasks([m EXCEPT !.phase = phase])
    BY <1>2, <2>1 DEF SyncReconcile, Phases
  <2>3. PICK c \in Notebooks : c = [m EXCEPT !.phase = phase]
    BY PhaseTyped
  <2>4. /\ c.uid \in Nat /\ c.rv \in Nat /\ c.spec \in NotebookSpecs
        /\ c.phase \in Phases /\ c.deleting \in BOOLEAN
    BY DEF Notebooks
  <2>5. n' # Nil
    BY <2>2, <2>3, <2>4, DeepCopyIsThere, ControllerAssumption DEF Optional
  <2> QED BY <1>1, <1>2, <2>5 DEF SyncReconcile, StartTasks, OperatorOK
<1>3. CASE SyncDeleted
  <2> DEFINE madeUp == [uid |-> Nil, rv |-> 0, spec |-> EmptySpec, phase |-> "",
                        deleting |-> TRUE]
  <2>1. EmptySpec \in NotebookSpecs
    BY DEF EmptySpec, NotebookSpecs, Optional
  <2>2. StartTasks(madeUp)
    BY <1>3 DEF SyncDeleted
  <2>3. n' # Nil
    BY <2>1, <2>2, DeepCopyIsThere DEF Optional, Phases
  <2> QED BY <1>1, <1>3, <2>3 DEF SyncDeleted, StartTasks, OperatorOK
<1> QED BY <1>2, <1>3

\* The copy and the queue's mark change together.
LEMMA CopySteps ==
  ASSUME Calm, [Next]_vars
  PROVE  \/ SyncReconcile \/ SyncDeleted
         \/ FinishSync
         \/ Restart
         \/ n' = n /\ queue'.processing = queue.processing
<1> USE DEF Calm, Settling
<1>1. CASE SyncInvalid \/ SyncDefaults
  BY <1>1 DEF SyncInvalid, SyncDefaults, Forgotten, RateLimited, IInv, OperatorOK
<1>2. CASE Outsider \/ FinalizeNotebook \/ \E k \in Kinds : Helps(k) \/ PodsUnready(k)
  BY <1>2, UserServed, FinalizeServed, ClusterServed DEF operator
<1>3. ASSUME NEW k \in Kinds, TaskStep(k) PROVE n' = n /\ queue'.processing = queue.processing
  BY <1>3, TaskServed DEF local
<1>4. CASE Resync \/ RetryDue \/ UNCHANGED vars \/ \E t \in Informers : Deliver(t) \/ Handle(t)
  BY <1>4 DEF Resync, RetryDue, vars, Deliver, Handle, Enqueue, IInv, OperatorOK
<1> QED BY <1>1, <1>2, <1>3, <1>4, Steps DEF Writer, Sync

\* A sync starts with what is current, or with what will bring the key back.
LEMMA StartsMatching ==
  ASSUME Calm, SyncReconcile, ~Told'
  PROVE  Matches'
<1> USE DEF Calm, Settling, IInv
<1> DEFINE phase == IF cache["Notebook"].phase \in {"Running", "Failed"}
                    THEN cache["Notebook"].phase ELSE "Pending"
<1>1. PICK m \in Notebooks : m = cache["Notebook"] /\ m # Nil
  BY CachedNotebook DEF SyncReconcile
<1>2. PICK result : SetNotebookPhase(m, phase, result)
  BY <1>1 DEF SyncReconcile
<1>3. phase \in Phases
  BY <1>1 DEF Phases, Notebooks
<1>4. n' = DeepCopy([m EXCEPT !.phase = phase])
  BY <1>1 DEF SyncReconcile, StartTasks
<1> HIDE DEF phase
<1>5. watch["Notebook"] = <<>>
  <2>1. watch["Notebook"] # <<>> => watch'["Notebook"] # <<>>
    BY StaysUnread, NotebookInformer DEF Writer, Sync
  <2> QED BY <2>1 DEF Told
<1>6. server["Notebook"] = m
  BY <1>1, <1>5, NotebookInformer DEF Tracked
<1>7. CASE m.phase = phase /\ UNCHANGED cluster
  <2>1. [m EXCEPT !.phase = phase] = m
    BY <1>7 DEF Notebooks
  <2>2. n' = DeepCopy(m)
    BY <1>4, <2>1
  <2>3. server'["Notebook"] = m
    BY <1>6, <1>7 DEF cluster
  <2> QED BY <1>1, <2>2, <2>3 DEF Matches, DeepCopy
<1>8. CASE m.phase # phase /\ Put("Notebook", [server["Notebook"] EXCEPT !.phase = phase])
  <2>1. PICK obj \in Notebooks : obj = [m EXCEPT !.phase = phase]
    BY <1>3, PhaseTyped
  <2>2. obj # m /\ obj \in Optional(Objects("Notebook"))
    BY <1>8, <2>1 DEF Notebooks, Optional, Objects
  <2>3. Grows("Notebook")
    BY <1>6, <1>8, <2>1, <2>2, PutMoves, NotebookInformer
  <2> QED BY <2>3 DEF Grows, Told
<1> QED BY <1>1, <1>2, <1>3, <1>6, <1>7, <1>8, PhaseAnswered

LEMMA CopiedStep ==
  ASSUME Calm, [Next]_vars
  PROVE  Copied'
<1> USE DEF Calm, Settling
<1>1. CASE n' = Nil
  BY <1>1 DEF Copied, Real
<1>2. CASE SyncReconcile
  <2>1. PICK m \in Notebooks : m = cache["Notebook"]
    BY <1>2, CachedNotebook DEF SyncReconcile, IInv
  <2>2. n'.spec = m.spec
    BY <1>2, <2>1 DEF SyncReconcile, StartTasks, DeepCopy, Notebooks
  <2> QED BY <1>2, <2>1, <2>2, StartsMatching DEF Copied, SyncReconcile
<1>3. CASE SyncDeleted
  BY <1>3 DEF SyncDeleted, StartTasks, DeepCopy, Copied, Real
<1>4. CASE FinishSync \/ Restart
  BY <1>1, <1>4 DEF FinishSync, Restart
<1>5. CASE n' = n /\ n # Nil
  <2>1. ~SyncReconcile /\ ~SyncDeleted
    BY <1>5, SyncStarts
  <2>2. ~Restart
    BY <1>5 DEF Restart
  <2>3. ASSUME Real, Told PROVE Told'
    BY <2>1, <2>2, <2>3, ToldStays
  <2>4. ASSUME Real, Matches, ~Told' PROVE Matches'
    <3>1. server'["Notebook"] = server["Notebook"]
      <4>1. CASE Writer
        BY <2>4, <4>1, WriterServed, ServedMoves, NotebookInformer, GrowthPending DEF Same
      <4>2. CASE ~Writer
        BY <4>2, Steps DEF Resync, RetryDue, Restart, vars, Deliver, Handle
      <4> QED BY <4>1, <4>2
    <3> QED BY <1>5, <2>4, <3>1 DEF Matches
  <2> QED BY <1>5, <2>3, <2>4 DEF Copied, Real
<1> QED BY <1>1, <1>2, <1>3, <1>4, <1>5, CopySteps

-----------------------------------------------------------------------------
(* What the goroutines have done *)

\* What nobody but a goroutine makes stays absent.
LEMMA AbsentStays ==
  ASSUME Calm, [Next]_vars, NEW k \in Kinds, ~TaskStep(k), Absent(k)
  PROVE  Absent(k)'
<1> USE DEF Calm, Settling
<1> k \in Informers
  BY DEF Informers
<1>1. CASE server'[k] = server[k]
  BY <1>1 DEF Absent
<1>2. CASE Outsider \/ FinalizeNotebook \/ \E j \in Kinds : Helps(j) \/ PodsUnready(j)
  <2>1. OthersMove(k)
    BY <1>2, OthersMoves
  <2> QED BY <1>1, <2>1 DEF OthersMove, Same, Absent
<1>3. CASE Sync
  BY <1>1, <1>3, SyncNotebook DEF Same
<1>4. ASSUME NEW j \in Kinds, TaskStep(j) PROVE Absent(k)'
  BY <1>1, <1>4, TaskMoves DEF Same
<1>5. CASE ~Writer
  BY <1>1, <1>5, Steps DEF Resync, RetryDue, Restart, vars, Deliver, Handle
<1> QED BY <1>2, <1>3, <1>4, <1>5 DEF Writer

\* What Calculate computes for a secret that keeps its certificate or gets one.
LEMMA SecretMade ==
  ASSUME IInv, n # Nil, Adoptable("Secret"), "Secret" \in Kinds,
         server["Secret"].content = Kept("Secret")
  PROVE  LET content == server["Secret"].content IN
         /\ content = SecretContent(n.spec, content.cert)
         /\ ShouldHaveCerts(n.spec) => content.cert # Nil /\ content.cert.ca = ca
<1> USE DEF IInv
<1>1. Desired("Secret") = SecretContent(n.spec, Minted)
  BY DEF Desired
<1>2. Minted # Nil /\ Minted.ca = ca
  <2>1. n.serial \in Nat /\ n.spec \in NotebookSpecs
    BY DEF OperatorOK, Optional, Copies
  <2>2. n.spec.host \in Optional(Text)
    BY <2>1 DEF NotebookSpecs
  <2>3. Minted \in Certificates
    BY <2>1, <2>2 DEF Minted, Certificates, Optional, OperatorOK
  <2> QED BY <2>3, NilAssumption DEF Minted
<1>3. CASE Kept("Secret") = Desired("Secret")
  BY <1>1, <1>2, <1>3 DEF SecretContent
<1>4. CASE Kept("Secret") # Desired("Secret")
  <2>1. /\ cache["Secret"].content.cert # Nil
        /\ cache["Secret"].content.cert.ca = ca
        /\ Desired("Secret").cert # Nil
        /\ Kept("Secret") = [Desired("Secret") EXCEPT !.cert = cache["Secret"].content.cert]
    BY <1>4 DEF Kept
  <2>2. ShouldHaveCerts(n.spec)
    BY <1>1, <2>1 DEF SecretContent
  <2> QED BY <1>1, <2>1, <2>2 DEF SecretContent
<1> QED BY <1>3, <1>4

\* A template without a limit on GPUs is stored as it was computed.
LEMMA SameStored ==
  ASSUME NEW s, NEW content, content.gpu # "DecimalExponent",
         content \in Templates, SameTemplate(Template(s), content)
  PROVE  SameTemplate(Stored(Template(s)), content)
<1>1. Template(s).gpu \in {"off", "DecimalExponent"}
  BY DEF Template
<1>2. Template(s).gpu = content.gpu
  <2>1. [Template(s) EXCEPT !.packages = <<>>] = [content EXCEPT !.packages = <<>>]
    BY DEF SameTemplate
  <2>2. [Template(s) EXCEPT !.packages = <<>>].gpu = Template(s).gpu
    BY DEF Template
  <2>3. [content EXCEPT !.packages = <<>>].gpu = content.gpu
    BY DEF Templates
  <2> QED BY <2>1, <2>2, <2>3
<1>3. Template(s).gpu = "off"
  BY <1>1, <1>2
<1>4. Stored(Template(s)) = Template(s)
  BY <1>3 DEF Stored, Template
<1> QED BY <1>4

LEMMA MadeFulfilled ==
  ASSUME NEW k \in Kinds, Made(k, n), ~Waits(k) \/ (Ready(k) /\ cache[k] = server[k])
  PROVE  Fulfilled(k, n)
<1>1. CASE ~ShouldExist(k, n)
  BY <1>1 DEF Made, Fulfilled
<1>2. CASE ShouldExist(k, n)
  <2>1. k \in {"Service", "Ingress", "Secret", "StatefulSet"}
    BY ControllerAssumption DEF Kind
  <2>2. CASE k = "Service"
    BY <1>2, <2>2 DEF Made, Fulfilled
  <2>3. CASE k = "Secret"
    BY <1>2, <2>3 DEF Made, Fulfilled
  <2>4. CASE k = "Ingress"
    <3>1. server[k].content = IngressContent(n.spec)
      BY <1>2, <2>4 DEF Made
    <3>2. server[k].content.tls = "acme" => issued
      BY <2>4, <3>1 DEF IngressContent, Waits, Ready, ShouldHaveCerts, Acme, NoTLS
    <3> QED BY <1>2, <2>4, <3>1, <3>2 DEF Made, Fulfilled
  <2>5. CASE k = "StatefulSet"
    <3>1. server[k].ready
      BY <2>5 DEF Waits, Ready
    <3> QED BY <1>2, <2>5, <3>1 DEF Made, Fulfilled
  <2> QED BY <2>1, <2>2, <2>3, <2>4, <2>5
<1> QED BY <1>1, <1>2

\* An update that changes nothing has found what it would have made.
LEMMA UpdateMade ==
  ASSUME Calm, NEW k \in Kinds, UpdateResource(k) \/ AdoptStatefulSet(k),
         cache[k] = server[k], ~Pending'
  PROVE  Made(k, n)
<1> USE DEF Calm, Settling, IInv
<1>0. k \in Informers
  BY DEF Informers
<1>1. n # Nil /\ ShouldExist(k, n) /\ Adoptable(k) /\ cache[k] # Nil
  BY DEF UpdateResource, AdoptStatefulSet, At, Adoptable
<1>2. ~Grows(k)
  BY <1>0, GrowthPending
<1>3. ASSUME NEW content \in Contents(k), k = "StatefulSet" => content.gpu # "DecimalExponent",
             NEW result, Request(k, Update(k, cache[k].rv, Overwritten(k, content)), result)
      PROVE  /\ server[k] # Nil /\ server[k].managed /\ server[k].owner = n.uid
             /\ ~server[k].deleting /\ server[k].content = content
  BY <1>1, <1>2, <1>3, OverwriteMoves
<1>4. k \in {"Service", "Ingress", "Secret", "StatefulSet"}
  BY ControllerAssumption DEF Kind
<1>5. CASE UpdateResource(k)
  <2>1. k # "StatefulSet" /\ Kept(k) \in Contents(k)
    BY <1>1, <1>5, KeptTyped DEF UpdateResource
  <2>2. /\ server[k] # Nil /\ server[k].managed /\ server[k].owner = n.uid
        /\ ~server[k].deleting /\ server[k].content = Kept(k)
    BY <1>3, <1>5, <2>1 DEF UpdateResource
  <2>3. CASE k = "Secret"
    BY <1>1, <2>2, <2>3, SecretMade DEF Made
  <2>4. CASE k # "Secret"
    BY <1>1, <1>4, <2>1, <2>2, <2>4 DEF Made, Kept, Desired
  <2> QED BY <2>3, <2>4
<1>6. CASE AdoptStatefulSet(k)
  <2>1. k = "StatefulSet" /\ SameTemplate(Template(n.spec), cache[k].content)
    BY <1>6 DEF AdoptStatefulSet, Desired
  <2>2. cache[k].content \in Contents(k)
    BY <1>0, <1>1, ManagedTyped DEF Adoptable, CacheOK, Optional, Managed
  <2>3. cache[k].content.gpu # "DecimalExponent"
    BY <1>0, <1>1, <2>1 DEF Owned, Ours
  <2>4. /\ server[k] # Nil /\ server[k].managed /\ server[k].owner = n.uid
        /\ ~server[k].deleting /\ server[k].content = cache[k].content
    BY <1>3, <1>6, <2>2, <2>3 DEF AdoptStatefulSet
  <2>5. SameTemplate(Stored(Template(n.spec)), cache[k].content)
    BY <2>1, <2>2, <2>3, SameStored DEF Contents
  <2> QED BY <1>1, <2>1, <2>4, <2>5 DEF Made
<1> QED BY <1>5, <1>6

LEMMA OutcomeStates ==
  ASSUME NEW k, NEW result
  PROVE  Outcome(k, result) = "failed" \/ (Outcome(k, result) = IF Waits(k) THEN "poll" ELSE "ok")
BY DEF Outcome

\* When nothing is pending, a goroutine finds everything as it is.
LEMMA TaskReconciled ==
  ASSUME Calm, Real, NEW k \in Kinds, TaskStep(k), ~Pending, ~Pending'
  PROVE  /\ task'[k] = "recreate" => server[k] = Nil
         /\ task'[k] \in {"poll", "wait"} => Made(k, n)
         /\ task'[k] = "ok" => Fulfilled(k, n)
<1> USE DEF Calm, Settling, IInv
<1>0. k \in Informers /\ task \in [Kinds -> TaskStates]
  BY DEF Informers, OperatorOK
<1>1. cache[k] = server[k]
  BY <1>0 DEF Pending, Tracked
<1>2. ~Grows(k)
  BY <1>0, GrowthPending
<1>3. /\ task[k] = "recreate" => server[k] = Nil
      /\ task[k] \in {"poll", "wait"} => Made(k, n)
  BY DEF Reconciled
<1>4. ASSUME NEW result, Made(k, n), Goto(k, Outcome(k, result))
      PROVE  /\ task'[k] = "recreate" => server[k] = Nil
             /\ task'[k] \in {"poll", "wait"} => Made(k, n)
             /\ task'[k] = "ok" => Fulfilled(k, n)
  <2>1. task'[k] = Outcome(k, result)
    BY <1>0, <1>4 DEF Goto
  <2> QED BY <1>4, <2>1, OutcomeStates, MadeFulfilled
<1>5. CASE UpdateResource(k) \/ AdoptStatefulSet(k)
  <2>1. Made(k, n)
    BY <1>1, <1>5, UpdateMade
  <2> QED BY <1>4, <1>5, <2>1 DEF UpdateResource, AdoptStatefulSet
<1>6. CASE CreateResource(k) \/ RecreateStatefulSet(k)
  <2>1. n # Nil /\ ShouldExist(k, n)
    BY <1>6 DEF CreateResource, RecreateStatefulSet, At, Underway
  <2>2. server[k] = Nil
    BY <1>1, <1>3, <1>6 DEF CreateResource, RecreateStatefulSet, At
  <2>3. PICK result : Request(k, Creation(k, NewObject(k)), result)
    BY <1>6 DEF CreateResource, RecreateStatefulSet
  <2> QED BY <1>2, <2>1, <2>2, <2>3, CreateMoves
<1>7. CASE DeleteResource(k)
  <2>1. Absent(k)' /\ ~ShouldExist(k, n)
    BY <1>7, DeleteMoves DEF DeleteResource
  <2>2. server' = server
    BY QuietStep DEF Next
  <2>3. Fulfilled(k, n)
    BY <2>1, <2>2 DEF Absent, Fulfilled
  <2>4. task'[k] \in {"ok", "failed"}
    BY <1>0, <1>7 DEF DeleteResource, Goto
  <2> QED BY <2>3, <2>4
<1>8. CASE Poll(k)
  <2>1. Made(k, n)
    BY <1>3, <1>8 DEF Poll, At
  <2>2. (task'[k] = "ok" /\ Ready(k)) \/ task'[k] = "wait"
    BY <1>0, <1>8 DEF Poll, Goto
  <2> QED BY <1>1, <2>1, <2>2, MadeFulfilled
<1>9. CASE StatefulSetGone(k)
  BY <1>0, <1>1, <1>9 DEF StatefulSetGone, Goto
<1>10. CASE RefuseResource(k) \/ DeleteOldStatefulSet(k) \/ TimeOutGone(k) \/ TimeOutWait(k)
  <2>1. ~Spend("lost")
    BY NeverSpent
  <2>2. task'[k] \in {"failed", "gone"}
    BY <1>0, <1>10, <2>1 DEF RefuseResource, DeleteOldStatefulSet, TimeOutGone, TimeOutWait, Goto
  <2> QED BY <2>2
<1> QED BY <1>5, <1>6, <1>7, <1>8, <1>9, <1>10 DEF TaskStep

\* What there is, is there whatever else happens.
LEMMA FulfilledStays ==
  ASSUME Calm, [Next]_vars, server' = server, ~Restart, NEW k \in Kinds, NEW m, NEW c,
         c.uid = m.uid, c.spec = m.spec, c.deleting = m.deleting
  PROVE  /\ Made(k, m) => Made(k, c)'
         /\ Fulfilled(k, m) => Fulfilled(k, c)'
<1>1. ca' = ca
  <2>1. CASE Sync
    BY <2>1 DEF Sync, SyncInvalid, SyncDefaults, SyncReconcile, SyncDeleted, FinishSync
  <2>2. CASE Outsider \/ FinalizeNotebook \/ \E j \in Kinds : Helps(j) \/ PodsUnready(j)
    BY <2>2, UserServed, FinalizeServed, ClusterServed DEF operator, Calm
  <2>3. ASSUME NEW j \in Kinds, TaskStep(j) PROVE ca' = ca
    BY <2>3, TaskServed DEF local, Calm
  <2>4. CASE ~Writer
    BY <2>4, Steps DEF Resync, RetryDue, vars, Deliver, Handle
  <2> QED BY <2>1, <2>2, <2>3, <2>4 DEF Writer
<1>2. issued => issued'
  <2>1. CASE Sync
    BY <2>1 DEF Sync, SyncInvalid, SyncDefaults, SyncReconcile, SyncDeleted, FinishSync
  <2>2. CASE Outsider \/ FinalizeNotebook \/ \E j \in Kinds : Helps(j) \/ PodsUnready(j)
    BY <2>2 DEF Outsider, CreateNotebook, EditNotebook, DeleteNotebook, CreateForeign, Drop,
                Rival, FinalizeNotebook, Helps, PodsReady, Terminate, Collect,
                IssueCertificate, PodsUnready
  <2>3. ASSUME NEW j \in Kinds, TaskStep(j) PROVE issued' = issued
    BY <2>3, TaskServed DEF local, Calm
  <2>4. CASE ~Writer
    BY <2>4, Steps DEF Resync, RetryDue, vars, Deliver, Handle
  <2> QED BY <2>1, <2>2, <2>3, <2>4 DEF Writer
<1>3. /\ Absent(k)' <=> Absent(k)
      /\ ShouldExist(k, c) <=> ShouldExist(k, m)
  BY DEF Absent, ShouldExist
<1>4. CASE ~ShouldExist(k, m)
  BY <1>3, <1>4 DEF Made, Fulfilled
<1>5. CASE ShouldExist(k, m)
  <2>1. k \in {"Service", "Ingress", "Secret", "StatefulSet"}
    BY ControllerAssumption DEF Kind
  <2>2. CASE k = "Service"
    BY <1>3, <1>5, <2>2 DEF Made, Fulfilled
  <2>3. CASE k = "Ingress"
    BY <1>2, <1>3, <1>5, <2>3 DEF Made, Fulfilled
  <2>4. CASE k = "Secret"
    BY <1>1, <1>3, <1>5, <2>4 DEF Made, Fulfilled
  <2>5. CASE k = "StatefulSet"
    BY <1>3, <1>5, <2>5 DEF Made, Fulfilled
  <2> QED BY <2>1, <2>2, <2>3, <2>4, <2>5
<1> QED BY <1>4, <1>5

\* While a sync runs, only the goroutines move.
LEMMA TasksStay ==
  ASSUME Calm, [Next]_vars, n # Nil, n' # Nil
  PROVE  /\ n' = n /\ queue'.processing = queue.processing
         /\ ~SyncReconcile /\ ~SyncDeleted /\ ~Restart /\ ~FinishSync
         /\ (\E k \in Kinds : TaskStep(k)) \/ task' = task
<1> USE DEF Calm
<1>1. ~SyncReconcile /\ ~SyncDeleted /\ ~Restart /\ ~FinishSync
  BY SyncStarts DEF Restart, FinishSync
<1>2. n' = n /\ queue'.processing = queue.processing
  BY <1>1, CopySteps
<1>3. ASSUME SyncInvalid \/ SyncDefaults PROVE task' = task
  BY <1>3 DEF SyncInvalid, SyncDefaults
<1>4. ASSUME Outsider \/ FinalizeNotebook \/ \E j \in Kinds : Helps(j) \/ PodsUnready(j)
      PROVE  task' = task
  BY <1>4, UserServed, FinalizeServed, ClusterServed DEF operator
<1>5. ASSUME ~Writer PROVE task' = task
  BY <1>1, <1>5, Steps DEF Resync, RetryDue, vars, Deliver, Handle
<1> QED BY <1>1, <1>2, <1>3, <1>4, <1>5 DEF Writer, Sync

LEMMA MadeUpStays ==
  ASSUME Calm, [Next]_vars, MadeUp, n' # Nil
  PROVE  /\ server'["Notebook"] = Nil
         /\ \A k \in Kinds : task'[k] = "ok" => Absent(k)'
<1> USE DEF Calm, Settling, IInv
<1>1. server'["Notebook"] = Nil
  <2>1. server["Notebook"] = Nil /\ ver["Notebook"] # 0
    BY DEF Reconciled, Once, MadeUp
  <2>2. CASE Writer
    BY <2>1, <2>2, Unborn DEF Same
  <2>3. CASE ~Writer
    BY <2>1, <2>3, Steps DEF Resync, RetryDue, Restart, vars, Deliver, Handle
  <2> QED BY <2>2, <2>3
<1>2. \A k \in Kinds : task[k] = "ok" => Absent(k)
  BY DEF Reconciled
<1>3. \A k \in Kinds : ~ShouldExist(k, n) /\ task[k] \notin {"gone", "recreate", "poll", "wait"}
  BY DEF MadeUp, OperatorOK, Optional, Copies, ShouldExist, Underway
<1>4. ASSUME NEW k \in Kinds, TaskStep(k) PROVE DeleteResource(k)
  BY <1>3, <1>4 DEF TaskStep, CreateResource, RefuseResource, UpdateResource,
                    AdoptStatefulSet, DeleteOldStatefulSet, StatefulSetGone, TimeOutGone,
                    RecreateStatefulSet, Poll, TimeOutWait, At
<1>5. ASSUME NEW k \in Kinds, task'[k] = "ok" PROVE Absent(k)'
  <2>1. CASE TaskStep(k)
    BY <1>4, <2>1, DeleteMoves
  <2>2. CASE ~TaskStep(k)
    <3>1. task[k] = "ok"
      BY <1>5, <2>2, TasksStay, TaskAlone DEF MadeUp
    <3> QED BY <1>2, <2>2, <3>1, AbsentStays
  <2> QED BY <2>1, <2>2
<1> QED BY <1>1, <1>5

LEMMA RealStays ==
  ASSUME Calm, [Next]_vars, Real, n' # Nil, ~Pending', NEW k \in Kinds
  PROVE  /\ task'[k] = "recreate" => server'[k] = Nil
         /\ task'[k] \in {"poll", "wait"} => Made(k, n)'
         /\ task'[k] = "ok" => Fulfilled(k, n)'
<1> USE DEF Calm, Settling
<1>1. /\ n' = n /\ ~SyncReconcile /\ ~SyncDeleted /\ ~Restart
      /\ (\E j \in Kinds : TaskStep(j)) \/ task' = task
  BY TasksStay DEF Real
<1>2. ~Pending
  <2>1. CASE server["Notebook"] # Nil
    BY <1>1, <2>1, PendingStays
  <2>2. CASE server["Notebook"] = Nil
    <3>1. Told
      BY <2>2 DEF Copied, Matches
    <3> QED BY <1>1, <3>1, ToldStays DEF Pending
  <2> QED BY <2>1, <2>2
<1>3. server' = server
  BY QuietStep
<1>4. /\ task'[k] = "recreate" => server[k] = Nil
      /\ task'[k] \in {"poll", "wait"} => Made(k, n)
      /\ task'[k] = "ok" => Fulfilled(k, n)
  <2>1. CASE TaskStep(k)
    BY <1>2, <2>1, TaskReconciled
  <2>2. CASE ~TaskStep(k)
    <3>1. task'[k] = task[k]
      BY <1>1, <2>2, TaskAlone
    <3> QED BY <1>2, <3>1 DEF Reconciled
  <2> QED BY <2>1, <2>2
<1>5. PICK m : m = n
  OBVIOUS
<1>6. /\ Made(k, m) => Made(k, m)'
      /\ Fulfilled(k, m) => Fulfilled(k, m)'
  BY <1>1, <1>3, FulfilledStays
<1>7. /\ Made(k, n) => Made(k, n)'
      /\ Fulfilled(k, n) => Fulfilled(k, n)'
  BY <1>1, <1>5, <1>6 DEF Made, Fulfilled, ShouldExist, Absent
<1> QED BY <1>3, <1>4, <1>7

LEMMA ReconciledStep ==
  ASSUME Calm, [Next]_vars
  PROVE  Reconciled'
<1> USE DEF Calm, Settling
<1>1. queue'.processing <=> n' # Nil
  <2>1. CASE SyncReconcile \/ SyncDeleted
    BY <2>1, SyncStarts
  <2>2. CASE FinishSync
    BY <2>2 DEF FinishSync, Processed, IInv, OperatorOK
  <2>3. CASE Restart
    BY <2>3 DEF Restart, InitialQueue
  <2> QED BY <2>1, <2>2, <2>3, CopySteps DEF Reconciled
<1>2. ASSUME MadeUp'
      PROVE  /\ server'["Notebook"] = Nil
             /\ \A k \in Kinds : task'[k] = "ok" => Absent(k)'
  <2>1. CASE n # Nil
    <3>1. n' = n
      BY <1>2, <2>1, TasksStay DEF MadeUp
    <3> QED BY <1>2, <2>1, <3>1, MadeUpStays DEF MadeUp
  <2>2. CASE n = Nil
    <3>1. SyncReconcile \/ SyncDeleted
      BY <1>2, <2>2, CopySteps DEF MadeUp, FinishSync, Restart
    <3>2. ~SyncReconcile
      <4>1. SyncReconcile => n'.uid = cache["Notebook"].uid /\ cache["Notebook"].uid = 1
        BY CachedNotebook, NotebookInformer
           DEF SyncReconcile, StartTasks, DeepCopy, Notebooks, Owned, Ours, IInv
      <4> QED BY <1>2, <4>1, ControllerAssumption DEF MadeUp
    <3>3. server["Notebook"] = Nil /\ server' = server
      BY <3>1, <3>2, NotebookInformer DEF SyncDeleted, Dequeued, Once, Tracked, cluster
    <3>4. \A k \in Kinds : task'[k] = "reconcile"
      BY <3>1, <3>2 DEF SyncDeleted, StartTasks
    <3> QED BY <3>3, <3>4
  <2> QED BY <2>1, <2>2
<1>3. ASSUME Real', ~Pending', NEW k \in Kinds
      PROVE  /\ task'[k] = "recreate" => server'[k] = Nil
             /\ task'[k] \in {"poll", "wait"} => Made(k, n)'
             /\ task'[k] = "ok" => Fulfilled(k, n)'
  <2>1. CASE n # Nil
    <3>1. n' = n /\ Real
      BY <1>3, <2>1, TasksStay DEF Real
    <3> QED BY <1>3, <2>1, <3>1, RealStays DEF Real
  <2>2. CASE n = Nil
    <3>1. SyncReconcile \/ SyncDeleted
      BY <1>3, <2>2, CopySteps DEF Real, FinishSync, Restart
    <3>2. task'[k] = "reconcile"
      BY <3>1 DEF SyncReconcile, SyncDeleted, StartTasks
    <3> QED BY <3>2
  <2> QED BY <2>1, <2>2
<1> QED BY <1>1, <1>2, <1>3 DEF Reconciled, Made, Fulfilled, Absent

-----------------------------------------------------------------------------
(* What there is between two syncs *)

\* A sync that ends without an error, and without another on its way, has found
\* the notebook running and has changed nothing.
LEMMA FinishRested ==
  ASSUME Calm, FinishSync, ~Restart, Real, server["Notebook"] # Nil, ~Pending'
  PROVE  Done'
<1> USE DEF Calm, Settling
<1>0. [Next]_vars /\ ~SyncReconcile /\ ~SyncDeleted
  BY SyncStarts DEF Real, Next, Sync
<1>1. ~Pending /\ server' = server
  BY <1>0, PendingStays, QuietStep
<1>2. \A k \in Kinds : task[k] = "ok"
  <2>1. ~(\E k \in Kinds : task[k] = "failed")
    <3>1. (\E k \in Kinds : task[k] = "failed") => queue'.waiting
      BY DEF FinishSync, Processed, IInv, OperatorOK
    <3> QED BY <3>1 DEF Pending, Told
  <2> QED BY <2>1 DEF FinishSync
<1>3. PICK m \in Notebooks : m = server["Notebook"] /\ m # Nil
  BY ServedNotebook
<1>4. /\ m.rv = n.rv /\ m.spec = n.spec /\ m.deleting = n.deleting /\ m.phase = n.phase
      /\ Validate(m.spec) /\ SetDefaults(m.spec) = m.spec
  BY <1>1, <1>3 DEF Pending, Copied, Matches
<1>5. n.uid = 1 /\ m.uid = 1
  BY <1>3, NotebookInformer DEF Owned, Ours, Real
<1>6. m.phase = "Running"
  <2>1. PICK result : SetNotebookPhase(n, "Running", result)
    BY <1>2 DEF FinishSync, Real
  <2>2. SUFFICES ASSUME m.phase # "Running" PROVE FALSE
    OBVIOUS
  <2>3. "Running" \in Phases
    BY DEF Phases
  <2>4. Put("Notebook", [server["Notebook"] EXCEPT !.phase = "Running"])
    BY <1>3, <1>4, <2>1, <2>2, <2>3, PhaseAnswered
  <2>5. PICK obj \in Notebooks : obj = [m EXCEPT !.phase = "Running"]
    BY <2>3, PhaseTyped
  <2>6. obj # m /\ obj \in Optional(Objects("Notebook"))
    BY <2>2, <2>5 DEF Notebooks, Optional, Objects
  <2>7. Grows("Notebook")
    BY <1>3, <2>4, <2>5, <2>6, PutMoves, NotebookInformer
  <2> QED BY <2>7, GrowthPending, NotebookInformer
<1>7. ASSUME NEW k \in Kinds PROVE Fulfilled(k, m)'
  <2>1. Fulfilled(k, n)
    BY <1>1, <1>2 DEF Reconciled
  <2>2. PICK c : c = n
    OBVIOUS
  <2>3. Fulfilled(k, c) => Fulfilled(k, m)'
    BY <1>0, <1>1, <1>4, <1>5, <2>2, FulfilledStays
  <2> QED BY <2>1, <2>2, <2>3
<1>8. server'["Notebook"] = m
  BY <1>1, <1>3
<1>9. ASSUME NEW k \in Kinds PROVE Fulfilled(k, server["Notebook"])'
  BY <1>7, <1>8 DEF Fulfilled, Absent, ShouldExist
<1> QED BY <1>3, <1>4, <1>6, <1>8, <1>9 DEF Done

LEMMA RestedStep ==
  ASSUME Calm, [Next]_vars
  PROVE  Rested'
<1> USE DEF Calm, Settling
<1> SUFFICES ASSUME n' = Nil
             PROVE  IF server'["Notebook"] = Nil
                    THEN Told' \/ \A k \in Kinds : Absent(k)'
                    ELSE Pending' \/ Done'
  BY DEF Rested, Absent
<1>1. ~SyncReconcile /\ ~SyncDeleted
  BY SyncStarts
<1>2. ASSUME server'["Notebook"] # server["Notebook"] PROVE Told' /\ Pending'
  <2>1. Writer
    BY <1>2, Steps DEF Resync, RetryDue, Restart, vars, Deliver, Handle
  <2> QED BY <1>2, <2>1, WriterServed, ServedMoves, GrowthPending, NotebookInformer DEF Same
<1>3. CASE server'["Notebook"] = server["Notebook"] /\ server["Notebook"] = Nil
  <2>1. ASSUME Told, ~Restart PROVE Told'
    BY <1>1, <2>1, ToldStays
  <2>2. ~Restart \/ (~Told /\ n = Nil)
    BY <1>3, RestartUnborn
  <2>3. ASSUME n = Nil, ~Told, NEW k \in Kinds PROVE Absent(k)'
    <3>1. Absent(k) /\ ~TaskStep(k)
      BY <1>3, <2>3, TaskAt DEF Rested
    <3> QED BY <3>1, AbsentStays
  <2>4. ASSUME n # Nil, ~Told PROVE Told' \/ \A k \in Kinds : Absent(k)'
    <3>1. FinishSync
      BY <1>1, <2>2, <2>4, CopySteps
    <3>2. MadeUp
      BY <1>3, <2>4 DEF MadeUp, Copied, Real, Matches
    <3>3. CASE \E k \in Kinds : task[k] = "failed"
      BY <3>1, <3>3 DEF FinishSync, Processed, Told, IInv, OperatorOK
    <3>4. CASE ~ \E k \in Kinds : task[k] = "failed"
      <4>1. \A k \in Kinds : Absent(k)
        BY <3>1, <3>2, <3>4 DEF FinishSync, Reconciled
      <4>2. \A k \in Kinds : ~TaskStep(k)
        BY <3>1, <3>4, TaskAt DEF FinishSync
      <4> QED BY <4>1, <4>2, AbsentStays
    <3> QED BY <3>3, <3>4
  <2> QED BY <1>3, <2>1, <2>2, <2>3, <2>4
<1>4. CASE server'["Notebook"] = server["Notebook"] /\ server["Notebook"] # Nil
  <2>1. CASE Restart
    BY <1>4, <2>1, RestartTold DEF Pending
  <2>2. CASE ~Restart /\ n = Nil
    <3>1. CASE Pending
      BY <1>1, <1>4, <2>2, <3>1, PendingStays
    <3>2. CASE Done /\ ~Pending'
      <4>1. server' = server
        BY <3>2, QuietStep
      <4>2. PICK m : m = server["Notebook"]
        OBVIOUS
      <4>3. \A k \in Kinds : Fulfilled(k, m) => Fulfilled(k, m)'
        BY <2>2, <4>1, FulfilledStays
      <4> QED BY <1>4, <3>2, <4>1, <4>2, <4>3 DEF Done
    <3> QED BY <1>4, <2>2, <3>1, <3>2 DEF Rested
  <2>3. CASE ~Restart /\ n # Nil
    <3>1. FinishSync
      BY <1>1, <2>3, CopySteps
    <3>2. Real
      BY <1>4, <2>3 DEF Real, Reconciled, MadeUp
    <3> QED BY <1>4, <2>3, <3>1, <3>2, FinishRested
  <2> QED BY <2>1, <2>2, <2>3
<1> QED BY <1>2, <1>3, <1>4

-----------------------------------------------------------------------------
(* The theorem *)

LEMMA SettlingStep == Calm /\ [Next]_vars => Settling'
<1> SUFFICES ASSUME Calm, [Next]_vars PROVE Settling'
  OBVIOUS
<1>1. Bounded'
  BY BoundedStep DEF Calm, Settling
<1> QED BY <1>1, TrackedStep, OwnedStep, OnceStep, CopiedStep, ReconciledStep, RestedStep
        DEF Settling

LEMMA SettlingInit == Init => Settling
<1> SUFFICES ASSUME Init PROVE Settling
  OBVIOUS
<1>1. Bounded /\ Tracked /\ Changing /\ Owned
  BY ControllerAssumption DEF Init, Bounded, Tracked, Changing, Owned
<1>2. Once /\ Copied /\ Reconciled /\ Rested
  BY NotebookInformer
     DEF Init, InitialQueue, Once, Told, Copied, Real, MadeUp, Reconciled, Rested, Absent,
         Informers
<1> QED BY <1>1, <1>2 DEF Settling

\* When nothing is on its way and the operator has nothing to do, nothing is
\* left to be done: no order of edits, deliveries, handlers, syncs, restarts and
\* deletions of resources or pods makes the operator miss what it should have
\* seen (sync, enqueueNotebook, resolveOwnerRef, handleDeltas).
THEOREM SettledCorrect == ASSUME Undisturbed PROVE Spec => []SettledMeansDone
<1>1. Settling => SettledMeansDone
  <2> SUFFICES ASSUME Settling, Settled PROVE Done
    BY DEF SettledMeansDone
  <2>1. ~Pending /\ n = Nil
    BY DEF Settled, Pending, Told, InitialQueue, Informers, Settling, Reconciled
  <2> QED BY <2>1 DEF Settling, Rested, Pending, Done
<1>2. Spec => []Settling
  <2>1. IInv /\ Versioned /\ Settling /\ [Next]_vars => Settling'
    BY SettlingStep DEF Calm
  <2> QED BY <2>1, SettlingInit, Invariant, VersionedInvariant, PTL DEF Spec
<1> QED BY <1>1, <1>2, PTL
=============================================================================
