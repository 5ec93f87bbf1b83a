---------------------------- MODULE TeardownProofs ----------------------------
(***************************************************************************)
(* The proof that module Controller keeps TearsDownOnlyToChange: the pods  *)
(* of a StatefulSet are not torn down to make it what it already is, when  *)
(* nobody but the operator deletes anything.                               *)
(*                                                                         *)
(* The operator compares what it computes with the StatefulSet in its      *)
(* cache and deletes the one in the API server by its name.  These may be  *)
(* two different ones, and it takes the history of the object, as far as   *)
(* the informer has not seen it, to show that they have one template: a    *)
(* StatefulSet of the operator's appears only after the informer has seen  *)
(* the end of the one before.                                              *)
(***************************************************************************)
EXTENDS ControllerProofs

\* What the theorem needs of the surroundings.  Somebody else who deletes the
\* StatefulSet or the notebook, or a minute whose end is not heard of, has the
\* operator make another StatefulSet while its cache still holds the old one;
\* and a template with a GPU never compares as equal.
Lasting ==
  /\ Limits.drop = 0
  /\ Limits.delete = 0
  /\ Limits.lost = 0
  /\ \A s \in UserSpecs : ~s.gpu

-----------------------------------------------------------------------------
(* The invariant *)

\* The notebook, in any of its states.
Standing(m) == m.uid = 1 /\ ~m.deleting /\ ~m.spec.gpu

\* Once the informer has seen the notebook, it is there for good; and until
\* then the operator does nothing.
Stays ==
  LET m == server["Notebook"] IN
  /\ IF m = Nil THEN ver["Notebook"] = 0 ELSE Standing(m)
  /\ cache["Notebook"] # Nil => m # Nil /\ Standing(cache["Notebook"])
  /\ \A i \in 1..Len(watch["Notebook"]) :
       m # Nil /\ watch["Notebook"][i] # Nil /\ Standing(watch["Notebook"][i])
  /\ notices["Notebook"] # {} \/ queue.dirty \/ queue.waiting \/ n # Nil
       => cache["Notebook"] # Nil
  /\ n # Nil => Standing(n)

\* An object that the operator made.
Its(obj) == obj # Nil /\ obj.managed

\* The states of a resource that are or will be in the cache.
Seen(k) == {server[k], cache[k]} \cup {watch[k][i] : i \in 1..Len(watch[k])}

\* They have one template.
One(k) == \A a, b \in Seen(k) : Its(a) /\ Its(b) => a.content = b.content

\* An object of the operator's that the informer has not seen is there to stay.
Rising(k) ==
  ~Its(cache[k]) =>
    /\ Its(server[k]) => ~server[k].deleting
    /\ \A i \in 1..Len(watch[k]) :
         Its(watch[k][i]) => /\ Its(server[k])
                             /\ \A j \in i..Len(watch[k]) : Its(watch[k][j])

\* After the end of one that it has seen, and before it has seen the end,
\* there is no other.
Falling(k) ==
  Its(cache[k]) =>
    \A i \in 1..Len(watch[k]) :
      ~Its(watch[k][i]) => /\ ~Its(server[k])
                           /\ \A j \in i..Len(watch[k]) : ~Its(watch[k][j])

\* So the garbage collector leaves it.
Belongs(k) == Its(server[k]) => server[k].owner = 1 /\ server["Notebook"] # Nil

\* A goroutine that has seen the end of one makes another only once.
Again(k) ==
  task[k] = "recreate" => ~Its(cache[k]) \/ (Its(server[k]) /\ ~server[k].deleting)

Lineage(k) == One(k) /\ Rising(k) /\ Falling(k) /\ Belongs(k) /\ Again(k)

Enduring == /\ Bounded /\ Stays
            /\ "StatefulSet" \in Kinds => Lineage("StatefulSet")

\* What the theorem has to go on.
Steady == Lasting /\ IInv /\ Versioned /\ Enduring

LEMMA NeverSpent ==
  ASSUME Steady
  PROVE  ~Spend("drop") /\ ~Spend("delete") /\ ~Spend("lost")
<1>1. \A d \in Disturbances : budget[d] \in Nat /\ budget[d] <= Limits[d] /\ Limits[d] \in Nat
  BY ControllerAssumption DEF Steady, Enduring, IInv, RestOK, Bounded
<1>2. {"drop", "delete", "lost"} \subseteq Disturbances
  BY DEF Disturbances
<1> QED BY <1>1, <1>2 DEF Steady, Lasting, Spend

-----------------------------------------------------------------------------
(* The notebook *)

\* The notebook changes to another state of the same notebook.
NotebookStands ==
  \/ Same("Notebook")
  \/ Grows("Notebook") /\ server'["Notebook"] # Nil /\ Standing(server'["Notebook"])

LEMMA StandingPut ==
  ASSUME IInv, Versioned, NEW obj \in Notebooks, Standing(obj), Put("Notebook", obj)
  PROVE  NotebookStands
<1>1. obj \in Optional(Objects("Notebook")) /\ obj # Nil
  BY NoObject, NotebookInformer DEF Optional, Objects
<1>2. \/ Same("Notebook")
      \/ Grows("Notebook") /\ server'["Notebook"] = Written("Notebook", obj)
  BY <1>1, PutMoves, NotebookInformer
<1>3. ver["Notebook"] + 1 \in Nat
  BY NotebookInformer DEF IInv, ClusterOK
<1>4. PICK new \in Notebooks : new = [obj EXCEPT !.rv = ver["Notebook"] + 1]
  BY <1>3 DEF Notebooks
<1>5. Standing(new) /\ new # Nil
  BY <1>4, NoObject, NotebookInformer DEF Notebooks, Objects, Standing
<1> QED BY <1>1, <1>2, <1>4, <1>5 DEF NotebookStands, Written

LEMMA ServedStanding ==
  ASSUME Steady, server["Notebook"] # Nil
  PROVE  server["Notebook"] \in Notebooks /\ Standing(server["Notebook"])
BY ServedNotebook DEF Steady, Enduring, Stays

LEMMA CachedStanding ==
  ASSUME Steady, cache["Notebook"] # Nil
  PROVE  cache["Notebook"] \in Notebooks /\ Standing(cache["Notebook"])
BY CachedNotebook DEF Steady, Enduring, Stays, IInv

LEMMA SyncStands ==
  ASSUME Steady, Sync
  PROVE  NotebookStands
<1> USE DEF Steady
<1>1. CASE UNCHANGED cluster
  BY <1>1, ClusterSame, NotebookInformer DEF NotebookStands
<1>2. ASSUME NEW m, NEW phase \in Phases, NEW result, SetNotebookPhase(m, phase, result)
      PROVE  NotebookStands
  <2>1. CASE /\ server["Notebook"] # Nil
             /\ Put("Notebook", [server["Notebook"] EXCEPT !.phase = phase])
    <3>1. PICK old \in Notebooks : old = server["Notebook"] /\ Standing(old)
      BY <2>1, ServedStanding
    <3>2. PICK obj \in Notebooks : obj = [old EXCEPT !.phase = phase]
      BY PhaseTyped
    <3>3. Standing(obj)
      BY <3>1, <3>2 DEF Notebooks, Standing
    <3> QED BY <2>1, <3>1, <3>2, <3>3, StandingPut
  <2> QED BY <1>1, <1>2, <2>1, UpdateWrites, NotebookInformer DEF SetNotebookPhase
<1>3. CASE SyncInvalid \/ SyncReconcile \/ FinishSync
  <2>1. UNCHANGED cluster
        \/ \E m : \E phase \in Phases : \E result : SetNotebookPhase(m, phase, result)
    <3>1. CASE SyncInvalid
      BY <3>1 DEF SyncInvalid, Phases
    <3>2. CASE SyncReconcile
      BY <3>2 DEF SyncReconcile, Phases
    <3>3. CASE FinishSync
      BY <3>3 DEF FinishSync, Phases
    <3> QED BY <1>3, <3>1, <3>2, <3>3
  <2> QED BY <1>1, <1>2, <2>1
<1>4. CASE SyncDefaults
  <2>1. PICK m \in Notebooks : m = cache["Notebook"] /\ Standing(m)
    BY <1>4, CachedStanding DEF SyncDefaults
  <2>2. PICK spec \in NotebookSpecs : spec = SetDefaults(m.spec)
    BY DefaultsTyped DEF Notebooks
  <2>3. ~spec.gpu
    BY <2>1, <2>2 DEF SetDefaults, Notebooks, NotebookSpecs, Standing
  <2>4. PICK result : Request("Notebook", DefaultsUpdate(m), result)
    BY <1>4, <2>1 DEF SyncDefaults
  <2>5. CASE /\ server["Notebook"] # Nil
             /\ Put("Notebook", [server["Notebook"] EXCEPT !.spec = spec])
    <3>1. PICK old \in Notebooks : old = server["Notebook"] /\ Standing(old)
      BY <2>5, ServedStanding
    <3>2. PICK obj \in Notebooks : obj = [old EXCEPT !.spec = spec]
      BY SpecTyped
    <3>3. Standing(obj)
      BY <2>3, <3>1, <3>2 DEF Notebooks, Standing
    <3> QED BY <2>5, <3>1, <3>2, <3>3, StandingPut
  <2> QED BY <1>1, <2>2, <2>4, <2>5, UpdateWrites, NotebookInformer DEF DefaultsUpdate
<1>5. CASE SyncDeleted
  BY <1>1, <1>5 DEF SyncDeleted
<1> QED BY <1>3, <1>4, <1>5 DEF Sync

LEMMA UserStands ==
  ASSUME Steady, NEW spec \in UserSpecs, CreateNotebook(spec) \/ EditNotebook(spec)
  PROVE  NotebookStands
<1> USE DEF Steady
<1>1. spec \in NotebookSpecs /\ ~spec.gpu
  BY ControllerAssumption DEF Lasting
<1>2. CASE CreateNotebook(spec)
  <2>1. ver["Notebook"] + 1 = 1
    <3>1. ver["Notebook"] = 0
      BY <1>2 DEF CreateNotebook, Enduring, Stays
    <3> QED BY <3>1
  <2>2. PICK obj \in Notebooks :
          obj = [uid |-> 1, rv |-> 0, spec |-> spec, phase |-> "", deleting |-> FALSE]
    BY <1>1 DEF Notebooks, Phases
  <2>3. Standing(obj)
    BY <1>1, <2>2 DEF Standing
  <2>4. Put("Notebook", obj)
    BY <1>2, <2>1, <2>2 DEF CreateNotebook
  <2> QED BY <2>3, <2>4, StandingPut
<1>3. CASE EditNotebook(spec)
  <2>1. PICK old \in Notebooks : old = server["Notebook"] /\ Standing(old)
    BY <1>3, ServedStanding DEF EditNotebook
  <2>2. PICK obj \in Notebooks : obj = [old EXCEPT !.spec = spec]
    BY <1>1, SpecTyped
  <2>3. Standing(obj)
    BY <1>1, <2>1, <2>2 DEF Notebooks, Standing
  <2> QED BY <1>3, <2>1, <2>2, <2>3, StandingPut DEF EditNotebook
<1> QED BY <1>2, <1>3

\* Of what else is done, nothing touches the notebook.
LEMMA NotebookStays ==
  ASSUME Steady, Writer
  PROVE  NotebookStands
<1> USE DEF Steady
<1>1. ASSUME server'["Notebook"] = server["Notebook"] PROVE NotebookStands
  BY <1>1, Unwritten, NotebookInformer DEF NotebookStands
<1>2. ASSUME NEW k \in Kinds, TaskStep(k) PROVE NotebookStands
  BY <1>1, <1>2, TaskEffect, NotebookInformer, NotebookIsNoKind
<1>3. ASSUME NEW k \in Kinds, CreateForeign(k) \/ Drop(k) \/ Helps(k) \/ PodsUnready(k)
      PROVE  NotebookStands
  <2>1. UNCHANGED cluster \/ \E obj : Put(k, obj)
    BY <1>3 DEF CreateForeign, Drop, Helps, PodsReady, Terminate, Collect,
                IssueCertificate, PodsUnready
  <2>2. k \in Informers /\ k # "Notebook" /\ "Notebook" \in Informers
    BY NotebookIsNoKind DEF Informers
  <2>3. server'["Notebook"] = server["Notebook"]
    BY <2>1, <2>2, PutEffect DEF cluster, IInv
  <2> QED BY <1>1, <2>3
<1>4. CASE Rival
  <2>1. "Secret" \in Informers /\ "Secret" # "Notebook" /\ "Notebook" \in Informers
    BY <1>4 DEF Rival, Informers
  <2>2. server'["Notebook"] = server["Notebook"]
    BY <1>4, <2>1, PutEffect DEF Rival, IInv
  <2> QED BY <1>1, <2>2
<1>5. ~DeleteNotebook
  BY NeverSpent DEF DeleteNotebook
<1>6. ~FinalizeNotebook
  BY ServedStanding DEF FinalizeNotebook, Standing
<1> QED BY <1>2, <1>3, <1>4, <1>5, <1>6, SyncStands, UserStands DEF Writer, Outsider

LEMMA WriterStays ==
  ASSUME Steady, Writer
  PROVE  Stays'
<1> USE DEF Steady, Enduring, IInv
<1>1. UNCHANGED <<cache, notices>> /\ NotebookStands
  BY WriterServed, NotebookStays
<1>2. cache["Notebook"] # Nil => server["Notebook"] # Nil
  BY DEF Stays
<1>3. IF server'["Notebook"] = Nil THEN ver'["Notebook"] = 0 ELSE Standing(server'["Notebook"])
  BY <1>1 DEF NotebookStands, Same, Stays
<1>4. server["Notebook"] # Nil => server'["Notebook"] # Nil
  BY <1>1 DEF NotebookStands, Same
<1>5. ASSUME NEW i \in 1..Len(watch'["Notebook"])
      PROVE  /\ server'["Notebook"] # Nil /\ watch'["Notebook"][i] # Nil
             /\ Standing(watch'["Notebook"][i])
  <2>1. CASE Same("Notebook")
    BY <1>5, <2>1 DEF Same, Stays
  <2>2. CASE /\ Grows("Notebook") /\ server'["Notebook"] # Nil
             /\ Standing(server'["Notebook"])
    <3>1. watch["Notebook"] \in Seq(Optional(Objects("Notebook")))
      BY NotebookInformer DEF ClusterOK
    <3>2. \/ i \in 1..Len(watch["Notebook"]) /\ watch'["Notebook"][i] = watch["Notebook"][i]
          \/ watch'["Notebook"][i] = server'["Notebook"]
      BY <1>5, <2>2, <3>1 DEF Grows
    <3> QED BY <2>2, <3>2 DEF Stays
  <2> QED BY <1>1, <2>1, <2>2 DEF NotebookStands
<1>6. /\ queue'.dirty \/ queue'.waiting \/ n' # Nil => cache["Notebook"] # Nil
      /\ n' # Nil => Standing(n')
  <2>1. CASE UNCHANGED <<queue, n>>
    BY <2>1 DEF Stays
  <2>2. ASSUME NEW k \in Kinds, TaskStep(k) PROVE UNCHANGED <<queue, n>>
    BY <2>2, TaskServed DEF local
  <2>3. CASE Outsider \/ FinalizeNotebook \/ \E k \in Kinds : Helps(k) \/ PodsUnready(k)
    BY <2>1, <2>3, UserServed, FinalizeServed, ClusterServed DEF operator
  <2>4. CASE SyncInvalid \/ SyncDefaults
    BY <2>4 DEF SyncInvalid, SyncDefaults, Stays
  <2>5. CASE SyncReconcile
    <3>1. PICK m \in Notebooks : m = cache["Notebook"] /\ Standing(m) /\ m # Nil
      BY <2>5, CachedStanding DEF SyncReconcile
    <3>2. PICK phase \in Phases : n' = DeepCopy([m EXCEPT !.phase = phase])
      BY <2>5, <3>1 DEF SyncReconcile, StartTasks, Phases
    <3>3. Standing(n')
      BY <3>1, <3>2 DEF DeepCopy, Standing, Notebooks
    <3> QED BY <3>1, <3>3
  <2>6. ~SyncDeleted
    BY DEF SyncDeleted, Dequeued, Stays
  <2>7. CASE FinishSync
    BY <2>7 DEF FinishSync, Stays
  <2> QED BY <2>1, <2>2, <2>3, <2>4, <2>5, <2>6, <2>7 DEF Writer, Sync
<1>7. notices'["Notebook"] # {} => cache'["Notebook"] # Nil
  BY <1>1 DEF Stays
<1> QED BY <1>1, <1>2, <1>3, <1>4, <1>5, <1>6, <1>7 DEF Stays

LEMMA ReadStays ==
  ASSUME Steady, NEW t \in Informers, Deliver(t) \/ Relist(t)
  PROVE  Stays'
<1> USE DEF Steady, Enduring, IInv
<1>1. UNCHANGED <<server, ver, queue, n>>
  BY DEF Deliver, Relist
<1>2. CASE t # "Notebook"
  <2>1. /\ cache'["Notebook"] = cache["Notebook"] /\ watch'["Notebook"] = watch["Notebook"]
        /\ notices'["Notebook"] = notices["Notebook"]
    BY <1>2, NotebookInformer DEF Deliver, Relist, ClusterOK, CacheOK, OperatorOK
  <2> QED BY <1>1, <2>1 DEF Stays
<1>3. CASE t = "Notebook"
  <2>1. watch["Notebook"] \in Seq(Optional(Objects("Notebook"))) /\ watch["Notebook"] # <<>>
    BY <1>3, NotebookInformer DEF ClusterOK, Deliver, Relist
  <2>2. 1 \in 1..Len(watch["Notebook"]) /\ Head(watch["Notebook"]) = watch["Notebook"][1]
    BY <2>1
  <2>3. server["Notebook"] # Nil
    BY <2>2 DEF Stays
  <2>4. cache'["Notebook"] \in {Head(watch["Notebook"]), server["Notebook"]}
    BY <1>3, NotebookInformer DEF Deliver, Relist, CacheOK
  <2>5. cache'["Notebook"] # Nil /\ Standing(cache'["Notebook"])
    BY <2>2, <2>3, <2>4 DEF Stays
  <2>6. watch'["Notebook"] \in {Tail(watch["Notebook"]), <<>>}
    BY <1>3, NotebookInformer DEF Deliver, Relist, ClusterOK
  <2>7. ASSUME NEW i \in 1..Len(watch'["Notebook"])
        PROVE  watch'["Notebook"][i] # Nil /\ Standing(watch'["Notebook"][i])
    <3>1. i + 1 \in 1..Len(watch["Notebook"])
          /\ watch'["Notebook"][i] = watch["Notebook"][i + 1]
      BY <2>1, <2>6, <2>7
    <3> QED BY <3>1 DEF Stays
  <2> QED BY <1>1, <2>3, <2>5, <2>7 DEF Stays
<1> QED BY <1>2, <1>3

LEMMA StaysStep ==
  ASSUME Steady, [Next]_vars
  PROVE  Stays'
<1> USE DEF Steady, Enduring, IInv
<1>1. CASE UNCHANGED vars
  BY <1>1 DEF vars, Stays
<1>2. CASE Resync \/ RetryDue
  BY <1>2 DEF Resync, RetryDue, Enqueue, OperatorOK, Stays
<1>3. ASSUME NEW t \in Informers, Handle(t) PROVE Stays'
  <2>1. UNCHANGED <<server, ver, watch, cache, n>>
    BY <1>3 DEF Handle
  <2>2. notices'["Notebook"] # {} => notices["Notebook"] # {}
    BY <1>3, NotebookInformer DEF Handle, OperatorOK
  <2>3. CASE UNCHANGED queue
    BY <2>1, <2>2, <2>3 DEF Stays
  <2>4. CASE cache["Notebook"] # Nil
    BY <2>1, <2>4 DEF Stays
  <2>5. UNCHANGED queue \/ cache["Notebook"] # Nil
    BY <1>3 DEF Handle, ResolvesTo, Stays
  <2> QED BY <2>3, <2>4, <2>5
<1>4. CASE Restart
  <2>1. /\ cache' = server /\ watch'["Notebook"] = <<>> /\ queue' = InitialQueue
        /\ n' = Nil /\ UNCHANGED <<server, ver>>
        /\ notices'["Notebook"] = Notice("Notebook", Nil, server["Notebook"])
    BY <1>4, NotebookInformer DEF Restart
  <2>2. notices'["Notebook"] # {} => server["Notebook"] # Nil
    BY <2>1 DEF Notice
  <2> QED BY <2>1, <2>2 DEF Stays, InitialQueue
<1> QED BY <1>1, <1>2, <1>3, <1>4, WriterStays, ReadStays DEF Next, Writer

-----------------------------------------------------------------------------
(* A resource's history *)

\* The object is marked as being deleted.
Marks(k) == /\ server[k] # Nil /\ ~server[k].deleting
            /\ server'[k] # Nil /\ server'[k].deleting

\* What may happen to the StatefulSet: somebody else's comes and goes; the
\* operator's changes, but not in its template; it is marked by a goroutine
\* that compared it and found it different; it ends when it is marked; and one
\* is made when the informer has seen the end of the one before.
SetMoves(k) ==
  LET old == server[k]
      new == server'[k]
  IN \/ Same(k)
     \/ Grows(k) /\ ~Its(old) /\ ~Its(new) /\ (Marks(k) => n # Nil)
     \/ /\ Grows(k) /\ Its(old) /\ Its(new)
        /\ new.content = old.content
        /\ new.owner = old.owner
        /\ \/ new.deleting = old.deleting
           \/ /\ n # Nil
              /\ task[k] = "reconcile"
              /\ Its(cache[k])
              /\ ~SameTemplate(Desired(k), cache[k].content)
     \/ Grows(k) /\ Its(old) /\ old.deleting /\ new = Nil
     \/ /\ Grows(k) /\ old = Nil /\ Its(new)
        /\ ~new.deleting
        /\ new.owner = 1
        /\ server["Notebook"] # Nil
        /\ ~Its(cache[k])

\* What an informer has not seen grows at its end.
LEMMA Appended ==
  ASSUME ClusterOK, NEW k \in Informers, Grows(k)
  PROVE  /\ Len(watch[k]) \in Nat
         /\ Len(watch'[k]) = Len(watch[k]) + 1
         /\ watch'[k][Len(watch[k]) + 1] = server'[k]
         /\ \A i \in 1..Len(watch[k]) : watch'[k][i] = watch[k][i]
<1>1. watch[k] \in Seq(Optional(Objects(k)))
  BY DEF ClusterOK
<1> QED BY <1>1 DEF Grows

LEMMA NothingIts == ~Its(Nil)
BY DEF Its

LEMMA SetOne ==
  ASSUME ClusterOK, NEW k \in Informers, SetMoves(k), cache'[k] = cache[k],
         One(k), Rising(k)
  PROVE  One(k)'
<1>1. CASE Same(k)
  BY <1>1 DEF Same, One, Seen
<1>2. CASE Grows(k)
  <2>1. Seen(k)' \subseteq Seen(k) \cup {server'[k]}
    BY <1>2, Appended DEF Seen
  <2>2. ASSUME ~Its(server'[k]) PROVE One(k)'
    BY <2>1, <2>2 DEF One
  <2>3. CASE Its(server[k]) /\ Its(server'[k]) /\ server'[k].content = server[k].content
    <3>1. server[k] \in Seen(k)
      BY DEF Seen
    <3> QED BY <2>1, <2>3, <3>1 DEF One
  <2>4. CASE server[k] = Nil /\ Its(server'[k]) /\ ~Its(cache[k])
    <3>1. \A a \in Seen(k) : ~Its(a)
      BY <2>4, NothingIts DEF Seen, Rising
    <3> QED BY <2>1, <3>1 DEF One
  <2> QED BY <1>2, <2>2, <2>3, <2>4, NothingIts DEF SetMoves, Same, Grows
<1> QED BY <1>1, <1>2 DEF SetMoves

LEMMA SetRising ==
  ASSUME ClusterOK, NEW k \in Informers, SetMoves(k), cache'[k] = cache[k], Rising(k)
  PROVE  Rising(k)'
<1>1. CASE Same(k)
  BY <1>1 DEF Same, Rising
<1>2. CASE Grows(k) /\ ~Its(cache[k])
  <2>1. /\ Len(watch[k]) \in Nat
        /\ Len(watch'[k]) = Len(watch[k]) + 1
        /\ watch'[k][Len(watch[k]) + 1] = server'[k]
        /\ \A i \in 1..Len(watch[k]) : watch'[k][i] = watch[k][i]
    BY <1>2, Appended
  <2>2. Its(server[k]) => Its(server'[k]) /\ server'[k].deleting = server[k].deleting
    BY <1>2, NothingIts DEF SetMoves, Same, Grows, Rising
  <2>3. Its(server'[k]) => ~server'[k].deleting
    BY <1>2, <2>2, NothingIts DEF SetMoves, Same, Grows, Rising
  <2>4. ASSUME NEW i \in 1..Len(watch'[k]), Its(watch'[k][i])
        PROVE  /\ Its(server'[k])
               /\ \A j \in i..Len(watch'[k]) : Its(watch'[k][j])
    <3>1. CASE i = Len(watch[k]) + 1
      BY <2>1, <2>4, <3>1
    <3>2. CASE i \in 1..Len(watch[k])
      <4>1. Its(server[k]) /\ \A j \in i..Len(watch[k]) : Its(watch[k][j])
        BY <1>2, <2>1, <2>4, <3>2 DEF Rising
      <4>2. Its(server'[k])
        BY <2>2, <4>1
      <4>3. ASSUME NEW j \in i..Len(watch'[k]) PROVE Its(watch'[k][j])
        <5>1. j = Len(watch[k]) + 1 \/ (j \in i..Len(watch[k]) /\ j \in 1..Len(watch[k]))
          BY <2>1, <3>2
        <5> QED BY <2>1, <4>1, <4>2, <5>1
      <4> QED BY <4>2, <4>3
    <3> QED BY <2>1, <3>1, <3>2
  <2> QED BY <2>3, <2>4 DEF Rising
<1>3. CASE Its(cache[k])
  BY <1>3 DEF Rising
<1> QED BY <1>1, <1>2, <1>3 DEF SetMoves

LEMMA SetFalling ==
  ASSUME ClusterOK, NEW k \in Informers, SetMoves(k), cache'[k] = cache[k], Falling(k)
  PROVE  Falling(k)'
<1>1. CASE Same(k)
  BY <1>1 DEF Same, Falling
<1>2. CASE Grows(k) /\ Its(cache[k])
  <2>1. /\ Len(watch[k]) \in Nat
        /\ Len(watch'[k]) = Len(watch[k]) + 1
        /\ watch'[k][Len(watch[k]) + 1] = server'[k]
        /\ \A i \in 1..Len(watch[k]) : watch'[k][i] = watch[k][i]
    BY <1>2, Appended
  <2>2. ~Its(server[k]) => ~Its(server'[k])
    BY <1>2 DEF SetMoves, Same, Grows
  <2>3. ASSUME NEW i \in 1..Len(watch'[k]), ~Its(watch'[k][i])
        PROVE  /\ ~Its(server'[k])
               /\ \A j \in i..Len(watch'[k]) : ~Its(watch'[k][j])
    <3>1. CASE i = Len(watch[k]) + 1
      BY <2>1, <2>3, <3>1
    <3>2. CASE i \in 1..Len(watch[k])
      <4>1. ~Its(server[k]) /\ \A j \in i..Len(watch[k]) : ~Its(watch[k][j])
        BY <1>2, <2>1, <2>3, <3>2 DEF Falling
      <4>2. ~Its(server'[k])
        BY <2>2, <4>1
      <4>3. ASSUME NEW j \in i..Len(watch'[k]) PROVE ~Its(watch'[k][j])
        <5>1. j = Len(watch[k]) + 1 \/ (j \in i..Len(watch[k]) /\ j \in 1..Len(watch[k]))
          BY <2>1, <3>2
        <5> QED BY <2>1, <4>1, <4>2, <5>1
      <4> QED BY <4>2, <4>3
    <3> QED BY <2>1, <3>1, <3>2
  <2> QED BY <2>3 DEF Falling
<1>3. CASE ~Its(cache[k])
  BY <1>3 DEF Falling
<1> QED BY <1>1, <1>2, <1>3 DEF SetMoves

\* The informer goes one step on in the history.
LEMMA DeliverLineage ==
  ASSUME IInv, NEW k \in Kinds, Deliver(k), Lineage(k)
  PROVE  Lineage(k)'
<1> USE DEF IInv, Lineage
<1>1. k \in Informers
  BY DEF Informers
<1>2. watch[k] \in Seq(Optional(Objects(k))) /\ watch[k] # <<>> /\ Len(watch[k]) \in Nat
  BY <1>1 DEF ClusterOK, Deliver
<1>3. 1 \in 1..Len(watch[k]) /\ Head(watch[k]) = watch[k][1]
  BY <1>2
<1>4. /\ UNCHANGED <<server, n, task>>
      /\ cache'[k] = watch[k][1]
      /\ watch'[k] = Tail(watch[k])
  BY <1>1, <1>3 DEF Deliver, CacheOK, ClusterOK
<1>5. /\ Len(watch'[k]) = Len(watch[k]) - 1
      /\ \A i \in 1..Len(watch'[k]) :
           i + 1 \in 1..Len(watch[k]) /\ watch'[k][i] = watch[k][i + 1]
  BY <1>2, <1>4
<1>6. One(k)'
  <2>1. Seen(k)' \subseteq Seen(k)
    BY <1>3, <1>4, <1>5 DEF Seen
  <2> QED BY <2>1 DEF One
<1>7. ASSUME NEW i \in 1..Len(watch'[k]), NEW j \in i..Len(watch'[k])
      PROVE  /\ i + 1 \in 1..Len(watch[k]) /\ j + 1 \in (i + 1)..Len(watch[k])
             /\ watch'[k][i] = watch[k][i + 1] /\ watch'[k][j] = watch[k][j + 1]
             /\ i + 1 \in 1..Len(watch[k]) /\ j + 1 \in 1..Len(watch[k])
  <2>1. i \in Nat /\ j \in Nat /\ i >= 1 /\ j >= i /\ j <= Len(watch'[k])
        /\ Len(watch'[k]) = Len(watch[k]) - 1 /\ Len(watch[k]) \in Nat
    BY <1>2, <1>5, <1>7
  <2>2. j \in 1..Len(watch'[k])
    BY <2>1
  <2>3. /\ i + 1 \in 1..Len(watch[k]) /\ watch'[k][i] = watch[k][i + 1]
        /\ j + 1 \in 1..Len(watch[k]) /\ watch'[k][j] = watch[k][j + 1]
    BY <1>5, <1>7, <2>2
  <2> QED BY <1>2, <2>1, <2>3
<1>8. Rising(k)'
  <2>1. CASE Its(cache[k]) /\ ~Its(watch[k][1])
    <3>1. ~Its(server[k]) /\ \A j \in 1..Len(watch[k]) : ~Its(watch[k][j])
      BY <1>3, <2>1 DEF Falling
    <3> QED BY <1>4, <1>5, <3>1 DEF Rising
  <2>2. CASE ~Its(cache[k])
    BY <1>4, <1>5, <1>7, <2>2 DEF Rising
  <2> QED BY <1>4, <2>1, <2>2 DEF Rising
<1>9. Falling(k)'
  <2>1. CASE ~Its(cache[k]) /\ Its(watch[k][1])
    <3>1. \A j \in 1..Len(watch[k]) : Its(watch[k][j])
      BY <1>3, <2>1 DEF Rising
    <3> QED BY <1>4, <1>5, <3>1 DEF Falling
  <2>2. CASE Its(cache[k])
    BY <1>4, <1>5, <1>7, <2>2 DEF Falling
  <2> QED BY <1>4, <2>1, <2>2 DEF Falling
<1>10. Belongs(k)'
  BY <1>4 DEF Belongs
<1>11. Again(k)'
  BY <1>3, <1>4 DEF Again, Rising
<1> QED BY <1>6, <1>8, <1>9, <1>10, <1>11

\* Or to its end, when the watch breaks or the operator is started again.
LEMMA RelistLineage ==
  ASSUME IInv, NEW k \in Kinds, UNCHANGED server, cache'[k] = server[k],
         watch'[k] = <<>>, task'[k] = "recreate" => task[k] = "recreate", Lineage(k)
  PROVE  Lineage(k)'
<1> USE DEF Lineage
<1>1. One(k)'
  <2>1. Seen(k)' \subseteq Seen(k)
    BY DEF Seen
  <2> QED BY <2>1 DEF One
<1>2. Rising(k)' /\ Falling(k)' /\ Belongs(k)'
  BY DEF Rising, Falling, Belongs
<1>3. Again(k)'
  BY DEF Again, Rising
<1> QED BY <1>1, <1>2, <1>3

-----------------------------------------------------------------------------
(* What happens to the StatefulSet *)

LEMMA ServedObject ==
  ASSUME IInv, NEW k \in Kinds, server[k] # Nil
  PROVE  server[k] \in Managed(k) \cup Foreign
BY NotebookIsNoKind DEF IInv, ClusterOK, Optional, Objects, Informers

LEMMA KindObjects ==
  ASSUME NEW k \in Kinds, NEW obj \in Managed(k) \cup Foreign
  PROVE  obj \in Optional(Objects(k)) /\ obj # Nil
BY NotebookIsNoKind, NoObject DEF Optional, Objects, Informers

\* The sync copies a notebook that stays, and so do its goroutines.
LEMMA CopyStanding ==
  ASSUME Steady, n # Nil
  PROVE  /\ n.uid = 1 /\ ~n.deleting /\ ~n.spec.gpu
         /\ n.spec \in NotebookSpecs
         /\ server["Notebook"] # Nil
BY DEF Steady, Enduring, Stays, Standing, IInv, OperatorOK, Optional, Copies

\* A StatefulSet is made in the place of none.
LEMMA MadeAnew ==
  ASSUME Steady, NEW k \in Kinds, k = "StatefulSet", n # Nil, ~Its(cache[k]), NEW result,
         Request(k, Creation(k, NewObject(k)), result)
  PROVE  SetMoves(k)
<1> USE DEF Steady, IInv
<1>0. k \in Informers /\ ver[k] + 1 \in Nat
  BY DEF Informers, ClusterOK
<1>1. n.uid = 1 /\ n.uid # Nil /\ server["Notebook"] # Nil
  BY CopyStanding, ControllerAssumption
<1>2. PICK obj \in Managed(k) : obj = NewObject(k)
  <2>1. AsStored(k) \in Contents(k)
    BY DesiredTyped
  <2>2. NewObject(k) \in Managed(k)
    BY <1>1, <2>1 DEF NewObject, Managed
  <2> QED BY <2>2
<1>3. PICK new \in Managed(k) : new = [obj EXCEPT !.rv = ver[k] + 1]
  BY <1>0 DEF Managed
<1>4. new.managed /\ ~new.deleting /\ new.owner = 1
  BY <1>1, <1>2, <1>3 DEF NewObject, Managed
<1>5. /\ obj \in Optional(Objects(k)) /\ obj # Nil
      /\ new \in Optional(Objects(k)) /\ new # Nil
  BY KindObjects
<1>6. CASE UNCHANGED cluster
  BY <1>0, <1>6, ClusterSame DEF SetMoves
<1>7. CASE server[k] = Nil /\ Put(k, obj)
  <2>1. Grows(k) /\ server'[k] = new
    BY <1>0, <1>3, <1>5, <1>7, PutMoves DEF Written
  <2> QED BY <1>1, <1>4, <1>5, <1>7, <2>1 DEF SetMoves, Its
<1> QED BY <1>0, <1>2, <1>6, <1>7, CreationWrites

\* What is adopted is what was read; if it was marked, that is its end.
LEMMA AdoptMoves ==
  ASSUME Steady, NEW k \in Kinds, k = "StatefulSet", Lineage(k), AdoptStatefulSet(k)
  PROVE  SetMoves(k)
<1> USE DEF Steady, IInv
<1>0. k \in Informers /\ ver[k] + 1 \in Nat
  BY DEF Informers, ClusterOK
<1>1. n # Nil /\ cache[k] # Nil /\ cache[k].managed
  BY DEF AdoptStatefulSet, At, Adoptable
<1>2. PICK result :
        Request(k, Update(k, cache[k].rv, Overwritten(k, cache[k].content)), result)
  BY DEF AdoptStatefulSet
<1>3. CASE UNCHANGED cluster
  BY <1>0, <1>3, ClusterSame DEF SetMoves
<1>4. CASE /\ server[k] # Nil /\ server[k].rv = cache[k].rv
           /\ Put(k, Overwritten(k, cache[k].content))
  <2>1. PICK old \in Managed(k) : old = server[k] /\ old = cache[k]
    <3>1. server[k] = cache[k]
      BY <1>0, <1>1, <1>4 DEF Versioned, ReadCurrent, Current
    <3> QED BY <1>1, <3>1, ServedObject DEF Foreign
  <2>2. old # Nil /\ Its(old)
    BY <1>1, <2>1 DEF Its
  <2>3. CASE old.deleting
    <3>1. Put(k, Nil)
      BY <1>4, <2>1, <2>3 DEF Overwritten
    <3>2. Same(k) \/ (Grows(k) /\ server'[k] = Nil)
      BY <1>0, <3>1, NilPut
    <3> QED BY <2>1, <2>2, <2>3, <3>2 DEF SetMoves
  <2>4. CASE ~old.deleting
    <3>1. n.uid = 1 /\ old.owner = 1
      <4>1. n.uid = 1
        BY <1>1, CopyStanding
      <4>2. server[k].owner = 1
        BY <2>1, <2>2 DEF Lineage, Belongs
      <4> QED BY <2>1, <4>1, <4>2
    <3>2. PICK obj \in Managed(k) :
            obj = [old EXCEPT !.owner = n.uid, !.managed = TRUE, !.content = old.content]
      BY <3>1, CopyStanding DEF Managed
    <3>3. PICK new \in Managed(k) : new = [obj EXCEPT !.rv = ver[k] + 1]
      BY <1>0 DEF Managed
    <3>4. /\ new.managed /\ new.content = old.content /\ new.owner = old.owner
          /\ new.deleting = old.deleting
      BY <3>1, <3>2, <3>3 DEF Managed
    <3>5. Put(k, obj)
      BY <1>4, <2>1, <2>4, <3>2 DEF Overwritten
    <3>6. obj \in Optional(Objects(k)) /\ obj # Nil /\ new # Nil
      BY KindObjects
    <3>7. Same(k) \/ (Grows(k) /\ server'[k] = new)
      BY <1>0, <3>3, <3>5, <3>6, PutMoves DEF Written
    <3> QED BY <2>1, <2>2, <3>4, <3>6, <3>7 DEF SetMoves, Its
  <2> QED BY <2>3, <2>4
<1> QED BY <1>0, <1>2, <1>3, <1>4, UpdateWrites

\* What is in the API server is marked, whatever it is.
LEMMA DeleteOldMoves ==
  ASSUME Steady, NEW k \in Kinds, DeleteOldStatefulSet(k)
  PROVE  SetMoves(k)
<1> USE DEF Steady, IInv
<1>0. k \in Informers /\ ver[k] + 1 \in Nat
  BY DEF Informers, ClusterOK
<1>1. /\ n # Nil /\ task[k] = "reconcile" /\ Its(cache[k])
      /\ ~SameTemplate(Desired(k), cache[k].content)
  BY DEF DeleteOldStatefulSet, At, Adoptable, Its
<1>2. PICK result : Request(k, Deletion(k, [server[k] EXCEPT !.deleting = TRUE]), result)
  BY DEF DeleteOldStatefulSet
<1>3. CASE UNCHANGED cluster
  BY <1>0, <1>3, ClusterSame DEF SetMoves
<1>4. CASE server[k] # Nil /\ Put(k, [server[k] EXCEPT !.deleting = TRUE])
  <2>1. PICK old \in Managed(k) \cup Foreign : old = server[k] /\ old # Nil
    BY <1>4, ServedObject
  <2>2. PICK obj \in Managed(k) \cup Foreign : obj = [old EXCEPT !.deleting = TRUE]
    BY DEF Managed, Foreign
  <2>3. PICK new \in Managed(k) \cup Foreign : new = [obj EXCEPT !.rv = ver[k] + 1]
    BY <1>0 DEF Managed, Foreign
  <2>4. /\ new.managed = old.managed /\ new.content = old.content /\ new.owner = old.owner
    BY <2>2, <2>3 DEF Managed, Foreign
  <2>5. obj \in Optional(Objects(k)) /\ obj # Nil /\ new # Nil
    BY KindObjects
  <2>6. Same(k) \/ (Grows(k) /\ server'[k] = new)
    BY <1>0, <1>4, <2>1, <2>2, <2>3, <2>5, PutMoves DEF Written
  <2> QED BY <1>1, <2>1, <2>4, <2>5, <2>6 DEF SetMoves, Its
<1> QED BY <1>0, <1>2, <1>3, <1>4, DeletionWrites

LEMMA TaskMoves ==
  ASSUME Steady, NEW k \in Kinds, k = "StatefulSet", Lineage(k), TaskStep(k)
  PROVE  SetMoves(k)
<1> USE DEF Steady
<1>1. CASE RefuseResource(k) \/ StatefulSetGone(k) \/ Poll(k) \/ TimeOutGone(k) \/ TimeOutWait(k)
  BY <1>1, ClusterSame DEF RefuseResource, StatefulSetGone, Poll, TimeOutGone, TimeOutWait,
                           SetMoves, Informers
<1>2. ~DeleteResource(k)
  BY CopyStanding DEF DeleteResource, At, ShouldExist
<1>3. ~UpdateResource(k)
  BY DEF UpdateResource
<1>4. CASE CreateResource(k)
  BY <1>4, MadeAnew, NothingIts DEF CreateResource, At
<1>5. CASE RecreateStatefulSet(k)
  <2>1. PICK result : Request(k, Creation(k, NewObject(k)), result)
    BY <1>5 DEF RecreateStatefulSet
  <2>2. n # Nil /\ task[k] = "recreate"
    BY <1>5 DEF RecreateStatefulSet, At
  <2>3. CASE ~Its(cache[k])
    BY <2>1, <2>2, <2>3, MadeAnew
  <2>4. CASE server[k] # Nil
    <3>1. k \in Informers
      BY DEF Informers
    <3> QED BY <2>1, <2>4, <3>1, CreationWrites, ClusterSame DEF SetMoves
  <2> QED BY <2>2, <2>3, <2>4, NothingIts DEF Lineage, Again
<1> QED BY <1>1, <1>2, <1>3, <1>4, <1>5, AdoptMoves, DeleteOldMoves DEF TaskStep

LEMMA ForeignMoves ==
  ASSUME Steady, NEW k \in Kinds, CreateForeign(k)
  PROVE  SetMoves(k)
<1> USE DEF Steady, IInv
<1>0. k \in Informers /\ ver[k] + 1 \in Nat
  BY DEF Informers, ClusterOK
<1>1. PICK obj \in Foreign : Put(k, obj) /\ ~obj.deleting
  <2>1. PICK ready \in BOOLEAN :
          Put(k, [rv |-> 0, owner |-> Nil, managed |-> FALSE, content |-> Nil,
                  deleting |-> FALSE, ready |-> ready])
    BY DEF CreateForeign
  <2> DEFINE obj == [rv |-> 0, owner |-> Nil, managed |-> FALSE, content |-> Nil,
                     deleting |-> FALSE, ready |-> ready]
  <2>2. obj \in Foreign /\ ~obj.deleting
    BY DEF Foreign
  <2> QED BY <2>1, <2>2
<1>2. PICK new \in Foreign : new = [obj EXCEPT !.rv = ver[k] + 1]
  BY <1>0 DEF Foreign
<1>3. ~new.managed /\ ~new.deleting
  BY <1>1, <1>2 DEF Foreign
<1>4. obj \in Optional(Objects(k)) /\ obj # Nil
  BY KindObjects
<1>5. Same(k) \/ (Grows(k) /\ server'[k] = new)
  BY <1>0, <1>1, <1>2, <1>4, PutMoves DEF Written
<1> QED BY <1>3, <1>5, NothingIts DEF CreateForeign, SetMoves, Its, Marks

\* Neither the pods nor the garbage collector end what is not marked.
LEMMA ClusterMoves ==
  ASSUME Steady, NEW k \in Kinds, k = "StatefulSet", Lineage(k),
         PodsReady(k) \/ PodsUnready(k) \/ Terminate(k) \/ Collect(k)
  PROVE  SetMoves(k)
<1> USE DEF Steady
<1>0. k \in Informers /\ server[k] # Nil
  BY DEF Informers, PodsReady, PodsUnready, Terminate, Collect, Orphan
<1>1. CASE PodsReady(k) \/ PodsUnready(k)
  <2>1. PICK ready \in BOOLEAN : Put(k, [server[k] EXCEPT !.ready = ready])
    BY <1>1 DEF PodsReady, PodsUnready
  <2>2. OthersMove(k) /\ server'[k] # Nil
    BY <1>0, <2>1, ReadyPut
  <2> QED BY <1>0, <2>2 DEF OthersMove, SetMoves, Its, Marks
<1>2. CASE Terminate(k)
  <2>1. Same(k) \/ (Grows(k) /\ server'[k] = Nil)
    BY <1>0, <1>2, NilPut DEF Terminate
  <2> QED BY <1>2, <2>1, NothingIts DEF Terminate, SetMoves, Marks
<1>3. ~Collect(k)
  <2> SUFFICES ASSUME Orphan(k) PROVE FALSE
    BY DEF Collect
  <2>1. Its(server[k])
    <3>1. server[k] \in Managed(k)
      BY <1>0, ServedObject DEF Orphan, Foreign
    <3> QED BY <1>0, <3>1 DEF Managed, Its
  <2> QED BY <2>1, ServedStanding DEF Lineage, Belongs, Orphan, Standing
<1> QED BY <1>1, <1>2, <1>3

LEMMA WriterMoves ==
  ASSUME Steady, NEW k \in Kinds, k = "StatefulSet", Lineage(k), Writer
  PROVE  SetMoves(k)
<1> USE DEF Steady
<1>0. k \in Informers /\ k # "Notebook"
  BY NotebookIsNoKind DEF Informers
<1>1. ASSUME server'[k] = server[k] PROVE SetMoves(k)
  BY <1>0, <1>1, Unwritten DEF SetMoves
<1>2. CASE Sync
  BY <1>1, <1>2, SyncEffect
<1>3. ASSUME NEW j \in Kinds, TaskStep(j) PROVE SetMoves(k)
  BY <1>0, <1>1, <1>3, TaskEffect, TaskMoves
<1>4. ASSUME NEW spec \in UserSpecs, CreateNotebook(spec) \/ EditNotebook(spec)
      PROVE  SetMoves(k)
  <2>1. server'[k] = server[k]
    BY <1>0, <1>4, PutEffect, NotebookInformer DEF CreateNotebook, EditNotebook, IInv
  <2> QED BY <1>1, <2>1
<1>5. ~DeleteNotebook /\ (\A j \in Kinds : ~Drop(j))
  BY NeverSpent DEF DeleteNotebook, Drop
<1>6. ~FinalizeNotebook
  BY ServedStanding DEF FinalizeNotebook, Standing
<1>7. ASSUME NEW j \in Kinds, j # k, CreateForeign(j) \/ Helps(j) \/ PodsUnready(j)
      PROVE  SetMoves(k)
  <2>1. UNCHANGED cluster \/ \E obj : Put(j, obj)
    BY <1>7 DEF CreateForeign, Helps, PodsReady, Terminate, Collect, IssueCertificate,
                PodsUnready
  <2>2. server'[k] = server[k]
    BY <1>0, <1>7, <2>1, PutEffect DEF cluster, IInv, Informers
  <2> QED BY <1>1, <2>2
<1>8. ~IssueCertificate(k)
  BY DEF IssueCertificate
<1>9. CASE Rival
  <2>1. PICK obj : "Secret" \in Kinds /\ Put("Secret", obj)
    BY <1>9 DEF Rival
  <2>2. "Secret" \in Informers /\ k # "Secret"
    BY <2>1 DEF Informers
  <2>3. server'[k] = server[k]
    BY <1>0, <2>1, <2>2, PutEffect DEF IInv
  <2> QED BY <1>1, <2>3
<1> QED BY <1>2, <1>3, <1>4, <1>5, <1>6, <1>7, <1>8, <1>9, ForeignMoves, ClusterMoves
        DEF Writer, Outsider, Helps

-----------------------------------------------------------------------------
(* The theorem *)

LEMMA Recreating ==
  ASSUME Steady, NEW k \in Kinds, TaskStep(k), task'[k] = "recreate"
  PROVE  cache[k] = Nil
<1> USE DEF Steady, IInv
<1>1. ASSUME NEW state, Goto(k, state) PROVE state = "recreate"
  BY <1>1 DEF Goto, OperatorOK
<1>2. ~DeleteResource(k) /\ ~DeleteOldStatefulSet(k) /\ ~RefuseResource(k)
      /\ ~Poll(k) /\ ~TimeOutWait(k)
  BY <1>1 DEF DeleteResource, DeleteOldStatefulSet, RefuseResource, Poll, TimeOutWait
<1>3. \A result : Outcome(k, result) # "recreate"
  BY DEF Outcome
<1>4. ~UpdateResource(k) /\ ~AdoptStatefulSet(k) /\ ~RecreateStatefulSet(k)
  BY <1>1, <1>3 DEF UpdateResource, AdoptStatefulSet, RecreateStatefulSet
<1>5. ~TimeOutGone(k)
  BY <1>1, NeverSpent DEF TimeOutGone
<1> QED BY <1>2, <1>4, <1>5 DEF TaskStep, CreateResource, StatefulSetGone

\* A goroutine comes to this by a step of its own.
LEMMA RecreateStays ==
  ASSUME Steady, [Next]_vars, NEW k \in Kinds, ~TaskStep(k), task'[k] = "recreate"
  PROVE  task[k] = "recreate"
<1> USE DEF Steady
<1>1. CASE Sync \/ Restart
  BY <1>1 DEF Sync, SyncInvalid, SyncDefaults, SyncReconcile, SyncDeleted, StartTasks,
              FinishSync, Restart
<1>2. ASSUME NEW j \in Kinds, TaskStep(j) PROVE task[k] = "recreate"
  BY <1>2, TaskAlone
<1>3. CASE Outsider \/ FinalizeNotebook \/ \E j \in Kinds : Helps(j) \/ PodsUnready(j)
  BY <1>3, UserServed, FinalizeServed, ClusterServed DEF operator
<1>4. CASE Resync \/ RetryDue \/ UNCHANGED vars
           \/ \E t \in Informers : Deliver(t) \/ Relist(t) \/ Handle(t)
  BY <1>4 DEF Resync, RetryDue, vars, Deliver, Relist, Handle
<1> QED BY <1>1, <1>2, <1>3, <1>4 DEF Next

LEMMA WriterLineage ==
  ASSUME Steady, [Next]_vars, NEW k \in Kinds, k = "StatefulSet", Lineage(k), Writer
  PROVE  Lineage(k)'
<1> USE DEF Steady, IInv
<1>1. k \in Informers /\ cache' = cache /\ SetMoves(k)
  BY WriterServed, WriterMoves DEF Informers
<1>2. One(k)' /\ Rising(k)' /\ Falling(k)'
  BY <1>1, SetOne, SetRising, SetFalling DEF Lineage
<1>3. Belongs(k)'
  <2>1. server["Notebook"] # Nil => server'["Notebook"] # Nil
    BY NotebookStays DEF NotebookStands, Same
  <2>2. Its(server[k]) => server[k].owner = 1 /\ server["Notebook"] # Nil
    BY DEF Lineage, Belongs
  <2> QED BY <1>1, <2>1, <2>2, NothingIts DEF SetMoves, Same, Belongs
<1>4. Again(k)'
  <2>1. CASE TaskStep(k)
    BY <1>1, <2>1, Recreating, NothingIts DEF Again
  <2>2. CASE ~TaskStep(k)
    <3> SUFFICES ASSUME task'[k] = "recreate", Its(cache'[k])
                 PROVE  Its(server'[k]) /\ ~server'[k].deleting
      BY DEF Again
    <3>1. task[k] = "recreate" /\ Its(cache[k])
      BY <1>1, <2>2, RecreateStays
    <3>2. Its(server[k]) /\ ~server[k].deleting
      BY <3>1 DEF Lineage, Again
    <3> QED BY <1>1, <3>1, <3>2, NothingIts DEF SetMoves, Same
  <2> QED BY <2>1, <2>2
<1> QED BY <1>2, <1>3, <1>4 DEF Lineage

LEMMA LineageStep ==
  ASSUME Steady, [Next]_vars, NEW k \in Kinds, k = "StatefulSet", Lineage(k)
  PROVE  Lineage(k)'
<1> USE DEF Steady, IInv
<1>0. k \in Informers
  BY DEF Informers
<1>1. ASSUME /\ server' = server /\ cache'[k] = cache[k] /\ watch'[k] = watch[k]
             /\ task' = task
      PROVE  Lineage(k)'
  BY <1>1 DEF Lineage, One, Seen, Rising, Falling, Belongs, Again
<1>2. CASE Resync \/ RetryDue \/ UNCHANGED vars \/ \E t \in Informers : Handle(t)
  BY <1>1, <1>2 DEF Resync, RetryDue, vars, Handle
<1>3. ASSUME NEW t \in Informers, Deliver(t) PROVE Lineage(k)'
  <2>1. CASE t = k
    BY <1>3, <2>1, DeliverLineage
  <2>2. CASE t # k
    BY <1>0, <1>1, <1>3, <2>2 DEF Deliver, CacheOK, ClusterOK
  <2> QED BY <2>1, <2>2
<1>4. ASSUME NEW t \in Informers, Relist(t) PROVE Lineage(k)'
  <2>1. CASE t = k
    <3>1. UNCHANGED <<server, task>> /\ cache'[k] = server[k] /\ watch'[k] = <<>>
      BY <1>0, <1>4, <2>1 DEF Relist, CacheOK, ClusterOK
    <3> QED BY <3>1, RelistLineage
  <2>2. CASE t # k
    BY <1>0, <1>1, <1>4, <2>2 DEF Relist, CacheOK, ClusterOK
  <2> QED BY <2>1, <2>2
<1>5. CASE Restart
  <2>1. /\ UNCHANGED server /\ cache'[k] = server[k] /\ watch'[k] = <<>>
        /\ task'[k] # "recreate"
    BY <1>0, <1>5 DEF Restart
  <2> QED BY <2>1, RelistLineage
<1> QED BY <1>2, <1>3, <1>4, <1>5, WriterLineage DEF Next, Writer

LEMMA EnduringStep == Steady /\ [Next]_vars => Enduring'
<1> SUFFICES ASSUME Steady, [Next]_vars PROVE Enduring'
  OBVIOUS
<1>1. Bounded'
  BY BoundedStep DEF Steady, Enduring
<1>2. ASSUME "StatefulSet" \in Kinds PROVE Lineage("StatefulSet")'
  <2>1. Lineage("StatefulSet")
    BY <1>2 DEF Steady, Enduring
  <2> QED BY <1>2, <2>1, LineageStep
<1> QED BY <1>1, <1>2, StaysStep DEF Enduring

LEMMA EnduringInit == Init => Enduring
<1> SUFFICES ASSUME Init PROVE Enduring
  OBVIOUS
<1>1. Bounded
  BY ControllerAssumption DEF Init, Bounded
<1>2. Stays
  BY NotebookInformer DEF Init, InitialQueue, Stays
<1>3. ASSUME "StatefulSet" \in Kinds PROVE Lineage("StatefulSet")
  BY <1>3, NothingIts
     DEF Init, Informers, Lineage, One, Seen, Rising, Falling, Belongs, Again
<1> QED BY <1>1, <1>2, <1>3 DEF Enduring

\* A template that asks for no GPU is read back as it was written.
LEMMA StoredAsItIs ==
  ASSUME NEW s \in NotebookSpecs, ~s.gpu
  PROVE  Stored(Template(s)) = Template(s)
BY DEF Stored, Template

\* What is marked differs from what the notebook asks for.
LEMMA MarkedDiffers ==
  ASSUME Steady, [Next]_vars, "StatefulSet" \in Kinds, Marks("StatefulSet")
  PROVE  server["StatefulSet"].content # Stored(Template(n.spec))
<1> DEFINE k == "StatefulSet"
<1> USE DEF Steady
<1>1. PICK old \in Managed(k) \cup Foreign : old = server[k] /\ old # Nil
  BY ServedObject DEF Marks
<1>2. SetMoves(k)
  <2>1. Lineage(k)
    BY DEF Enduring
  <2>2. server' # server
    BY DEF Marks
  <2>3. Writer
    BY <2>2 DEF Next, Writer, Resync, RetryDue, Restart, vars, Deliver, Relist, Handle
  <2> QED BY <2>1, <2>3, WriterMoves
<1>3. n # Nil
  BY <1>2 DEF SetMoves, Same, Marks
<1>4. n.spec \in NotebookSpecs /\ ~n.spec.gpu
  BY <1>3, CopyStanding
<1>5. Stored(Template(n.spec)) = Template(n.spec) /\ Template(n.spec) \in Templates
  BY <1>4, StoredAsItIs, TemplateTyped
<1>6. CASE ~Its(server[k])
  <2>1. old.content = Nil
    BY <1>1, <1>6 DEF Its, Managed, Foreign
  <2> QED BY <1>1, <1>5, <2>1, NilAssumption
<1>7. CASE Its(server[k])
  <2>1. Its(cache[k]) /\ ~SameTemplate(Desired(k), cache[k].content)
    BY <1>2, <1>7 DEF SetMoves, Same, Marks
  <2>2. server[k].content = cache[k].content
    BY <1>7, <2>1 DEF Enduring, Lineage, One, Seen
  <2>3. \A template : SameTemplate(template, template)
    BY DEF SameTemplate
  <2> QED BY <1>5, <2>1, <2>2, <2>3 DEF Desired
<1> QED BY <1>6, <1>7

\* No pods are torn down to make a StatefulSet what it is, in whatever order
\* edits, lost answers, broken watches, restarts and failing pods come: where
\* the operator deletes and makes anew (CreateOrUpdateStatefulSet), it has seen
\* of what it deletes no other template than the one it has.
THEOREM TeardownCorrect == ASSUME Lasting PROVE Spec => TearsDownOnlyToChange
<1> DEFINE Step == LET old == server["StatefulSet"]
                       new == server'["StatefulSet"]
                   IN /\ "StatefulSet" \in Kinds
                      /\ old # Nil /\ new # Nil
                      /\ ~old.deleting /\ new.deleting
                      => old.content # Stored(Template(n.spec))
<1>1. IInv /\ Versioned /\ Enduring /\ [Next]_vars => [Step]_vars
  BY MarkedDiffers DEF Steady, Marks
<1>2. IInv /\ Versioned /\ Enduring /\ [Next]_vars => Enduring'
  BY EnduringStep DEF Steady
<1>3. Init => Enduring
  BY EnduringInit
<1> QED BY <1>1, <1>2, <1>3, Invariant, VersionedInvariant, PTL
        DEF Spec, TearsDownOnlyToChange
=============================================================================
