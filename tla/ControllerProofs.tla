-------------------------- MODULE ControllerProofs --------------------------
(***************************************************************************)
(* Proofs about module Controller, for any resources, specifications and   *)
(* number of disturbances: its types, that a resource version names one    *)
(* state of an object, and what follows from that: no edit of the user is  *)
(* lost, nothing of somebody else is taken over, and a certificate of the  *)
(* running authority is kept.                                              *)
(***************************************************************************)
EXTENDS Controller, TLAPS

\* The parts of TypeOK: the API server, the operator's copies, and the rest.
ClusterOK ==
  /\ server \in [Informers -> Optional(AllObjects)]
  /\ ver \in [Informers -> Nat]
  /\ watch \in [Informers -> Seq(Optional(AllObjects))]
  /\ \A t \in Informers : /\ server[t] \in Optional(Objects(t))
                          /\ watch[t] \in Seq(Optional(Objects(t)))

CacheOK ==
  /\ cache \in [Informers -> Optional(AllObjects)]
  /\ \A t \in Informers : cache[t] \in Optional(Objects(t))

OperatorOK ==
  /\ notices \in [Informers -> SUBSET Nat]
  /\ queue \in [dirty : BOOLEAN, processing : BOOLEAN, waiting : BOOLEAN]
  /\ n \in Optional(Copies)
  /\ task \in [Kinds -> TaskStates]
  /\ ca \in Nat

RestOK == issued \in BOOLEAN /\ budget \in [Disturbances -> Nat]

\* Past its first request, a goroutine is making a resource that should exist.
\* This is not part of TypeOK, but what it makes is an object only if it is so.
Underway ==
  \A k \in Kinds : task[k] \in {"gone", "recreate", "poll", "wait"}
                    => n # Nil /\ ShouldExist(k, n)

IInv == ClusterOK /\ CacheOK /\ OperatorOK /\ RestOK /\ Underway

LEMMA TypeParts == TypeOK <=> ClusterOK /\ CacheOK /\ OperatorOK /\ RestOK
BY DEF TypeOK, ClusterOK, CacheOK, OperatorOK, RestOK

-----------------------------------------------------------------------------
(* Objects *)

LEMMA NotebookIsNoKind == "Notebook" \notin Kinds
BY ControllerAssumption DEF Kind

LEMMA ObjectsAmongAll ==
  ASSUME NEW t \in Informers
  PROVE  Objects(t) \subseteq AllObjects
<1>1. t \in {"Notebook", "Service", "Ingress", "Secret", "StatefulSet"}
  BY ControllerAssumption DEF Informers, Kind
<1> QED BY <1>1 DEF Objects, AllObjects

\* An object in a new version is an object.
LEMMA VersionTyped ==
  ASSUME NEW t \in Informers, NEW obj \in Objects(t), NEW rv \in Nat
  PROVE  [obj EXCEPT !.rv = rv] \in Objects(t) /\ [obj EXCEPT !.rv = rv].rv = rv
BY DEF Objects, Notebooks, Managed, Foreign

LEMMA DefaultsTyped ==
  ASSUME NEW s \in NotebookSpecs
  PROVE  SetDefaults(s) \in NotebookSpecs
<1>1. OrDefault(s.flavor, DefaultFlavor) \in Optional(Text)
  BY TextAssumption DEF NotebookSpecs, OrDefault, Optional
<1>2. /\ OrDefault(s.host, "") \in Optional(Text)
      /\ OrDefault(s.password, "") \in Optional(Text)
      /\ OrDefault(s.serviceAccountName, "") \in Optional(Text)
  BY TextAssumption DEF NotebookSpecs, OrDefault, Optional
<1>3. OrDefault(s.tls, SelfSigned) \in Optional(Text)
  BY TextAssumption DEF NotebookSpecs, OrDefault, Optional
<1> QED BY <1>1, <1>2, <1>3 DEF NotebookSpecs, SetDefaults

LEMMA PhaseTyped ==
  ASSUME NEW m \in Notebooks, NEW phase \in Phases
  PROVE  [m EXCEPT !.phase = phase] \in Notebooks
BY DEF Notebooks

LEMMA SpecTyped ==
  ASSUME NEW m \in Notebooks, NEW spec \in NotebookSpecs
  PROVE  [m EXCEPT !.spec = spec] \in Notebooks
BY DEF Notebooks

\* Only what is managed has contents.
LEMMA ManagedTyped ==
  ASSUME NEW k \in Kinds, NEW obj \in Objects(k), obj.managed
  PROVE  obj \in Managed(k)
BY NotebookIsNoKind DEF Objects, Foreign

LEMMA TemplateTyped ==
  ASSUME NEW s \in NotebookSpecs
  PROVE  Template(s) \in Templates /\ Stored(Template(s)) \in Templates
BY DEF NotebookSpecs, Template, Templates, Stored, IsSet, ShouldHaveCerts

LEMMA IngressTyped ==
  ASSUME NEW s \in NotebookSpecs
  PROVE  IngressContent(s) \in Contents("Ingress")
BY DEF NotebookSpecs, IngressContent, Contents, OrDefault, Optional, DefaultBackend,
       Backends

LEMMA SecretTyped ==
  ASSUME NEW s \in NotebookSpecs, NEW cert \in Optional(Certificates)
  PROVE  SecretContent(s, cert) \in Contents("Secret")
BY DEF NotebookSpecs, SecretContent, Contents, Optional

\* What the Calculate functions compute, and what is stored of it.
LEMMA DesiredTyped ==
  ASSUME OperatorOK, n # Nil, NEW k \in Kinds
  PROVE  Desired(k) \in Contents(k) /\ AsStored(k) \in Contents(k)
<1>1. n.spec \in NotebookSpecs /\ n.serial \in Nat
  BY DEF OperatorOK, Optional, Copies
<1>2. n.spec.host \in Optional(Text)
  BY <1>1 DEF NotebookSpecs
<1>3. Minted \in Optional(Certificates)
  BY <1>1, <1>2 DEF Minted, Certificates, Optional, OperatorOK
<1>4. k \in {"Service", "Ingress", "Secret", "StatefulSet"}
  BY ControllerAssumption DEF Kind
<1>5. CASE k = "Service"
  BY <1>5 DEF Desired, AsStored, Contents
<1>6. CASE k = "Ingress"
  BY <1>1, <1>6, IngressTyped DEF Desired, AsStored
<1>7. CASE k = "Secret"
  BY <1>1, <1>3, <1>7, SecretTyped DEF Desired, AsStored
<1>8. CASE k = "StatefulSet"
  BY <1>1, <1>8, TemplateTyped DEF Desired, AsStored, Contents
<1> QED BY <1>4, <1>5, <1>6, <1>7, <1>8

LEMMA NewObjectTyped ==
  ASSUME OperatorOK, n # Nil, n.uid # Nil, NEW k \in Kinds
  PROVE  NewObject(k) \in Objects(k)
<1>1. n.uid \in Nat
  BY DEF OperatorOK, Optional, Copies
<1> QED BY <1>1, DesiredTyped, NotebookIsNoKind DEF NewObject, Objects, Managed

\* The update of a secret keeps its certificate, the others are as computed.
LEMMA KeptTyped ==
  ASSUME OperatorOK, CacheOK, n # Nil, NEW k \in Kinds, Adoptable(k)
  PROVE  Kept(k) \in Contents(k)
<1>1. cache[k] \in Managed(k)
  BY ManagedTyped DEF CacheOK, Adoptable, Optional, Informers
<1>2. CASE k = "Secret"
  <2>1. cache[k].content.cert \in Optional(Certificates)
    BY <1>1, <1>2 DEF Managed, Contents
  <2>2. Desired(k) \in [cert : Optional(Certificates), password : Optional(Text)]
    BY <1>2, DesiredTyped DEF Contents
  <2>3. [Desired(k) EXCEPT !.cert = cache[k].content.cert]
          \in [cert : Optional(Certificates), password : Optional(Text)]
    BY <2>1, <2>2
  <2> QED BY <1>2, <2>2, <2>3 DEF Kept, Contents
<1>3. CASE k # "Secret"
  BY <1>3, DesiredTyped DEF Kept
<1> QED BY <1>2, <1>3

LEMMA OverwrittenTyped ==
  ASSUME ClusterOK, OperatorOK, n # Nil, n.uid # Nil, NEW k \in Kinds,
         server[k] # Nil, NEW content \in Contents(k)
  PROVE  Overwritten(k, content) \in Optional(Objects(k))
<1>1. n.uid \in Nat
  BY DEF OperatorOK, Optional, Copies
<1>2. server[k] \in Managed(k) \cup Foreign
  BY NotebookIsNoKind DEF ClusterOK, Optional, Objects, Informers
<1>3. CASE server[k].deleting
  BY <1>3 DEF Overwritten, Optional
<1>4. CASE ~server[k].deleting
  <2>1. [server[k] EXCEPT !.owner = n.uid, !.managed = TRUE, !.content = content]
          \in Managed(k)
    BY <1>1, <1>2 DEF Managed, Foreign
  <2> QED BY <1>4, <2>1, NotebookIsNoKind DEF Overwritten, Optional, Objects
<1> QED BY <1>3, <1>4
-----------------------------------------------------------------------------
(* The API server *)

\* Some object of its kind, or none, is put in the place of one.
Writes(t) == \E obj \in Optional(Objects(t)) : Put(t, obj)

\* What a step of the operator, of a user or of the cluster may do to the API
\* server.
Served == UNCHANGED cluster \/ \E t \in Informers : Writes(t)

LEMMA PutTyped ==
  ASSUME ClusterOK, Served
  PROVE  ClusterOK'
<1>1. ASSUME NEW t \in Informers, NEW obj \in Optional(Objects(t)), Put(t, obj)
      PROVE  ClusterOK'
  <2>1. CASE UNCHANGED cluster
    BY <2>1 DEF ClusterOK, cluster
  <2>2. CASE obj # server[t]
    <3> DEFINE written == IF obj = Nil THEN Nil ELSE [obj EXCEPT !.rv = ver[t] + 1]
    <3>1. ver[t] + 1 \in Nat
      BY DEF ClusterOK
    <3>2. written \in Optional(Objects(t)) /\ written \in Optional(AllObjects)
      BY <3>1, VersionTyped, ObjectsAmongAll DEF Optional
    <3>3. /\ server' = [server EXCEPT ![t] = written]
          /\ ver' = [ver EXCEPT ![t] = @ + 1]
          /\ watch' = [watch EXCEPT ![t] = Append(@, written)]
      BY <1>1, <2>2 DEF Put
    <3> HIDE DEF written
    <3>4. server' \in [Informers -> Optional(AllObjects)] /\ ver' \in [Informers -> Nat]
      BY <3>2, <3>3 DEF ClusterOK
    <3>5. /\ Append(watch[t], written) \in Seq(Optional(Objects(t)))
          /\ Append(watch[t], written) \in Seq(Optional(AllObjects))
      BY <3>2 DEF ClusterOK
    <3>6. watch' \in [Informers -> Seq(Optional(AllObjects))]
      BY <3>3, <3>5 DEF ClusterOK
    <3>7. \A u \in Informers : /\ server'[u] \in Optional(Objects(u))
                               /\ watch'[u] \in Seq(Optional(Objects(u)))
      BY <3>2, <3>3, <3>5 DEF ClusterOK
    <3> QED BY <3>4, <3>6, <3>7 DEF ClusterOK
  <2> QED BY <1>1, <2>1, <2>2 DEF Put
<1>2. CASE UNCHANGED cluster
  BY <1>2 DEF ClusterOK, cluster
<1> QED BY <1>1, <1>2 DEF Served, Writes

LEMMA SpendTyped ==
  ASSUME RestOK, NEW disturbance \in Disturbances, Spend(disturbance)
  PROVE  budget' \in [Disturbances -> Nat]
<1>1. budget[disturbance] - 1 \in Nat
  BY DEF RestOK, Spend
<1> QED BY <1>1 DEF RestOK, Spend

\* The object of an answer is the one that was asked for, the one that was
\* there, or none.
LEMMA UpdateTyped ==
  ASSUME ClusterOK, NEW t \in Informers, NEW rv, NEW obj,
         server[t] # Nil => obj \in Optional(Objects(t))
  PROVE  Update(t, rv, obj).object \in Optional(Objects(t))
BY DEF Update, Answer, ClusterOK, Optional

LEMMA CreationTyped ==
  ASSUME ClusterOK, NEW t \in Informers, NEW obj \in Objects(t)
  PROVE  Creation(t, obj).object \in Optional(Objects(t))
BY DEF Creation, Answer, ClusterOK, Optional

LEMMA DeletionTyped ==
  ASSUME ClusterOK, NEW t \in Informers, NEW obj,
         server[t] # Nil => obj \in Optional(Objects(t))
  PROVE  Deletion(t, obj).object \in Optional(Objects(t))
BY DEF Deletion, Answer, ClusterOK, Optional

\* A request writes at most once, and an error costs a fault.
LEMMA RequestServed ==
  ASSUME RestOK, NEW t \in Informers, NEW answer, NEW result,
         answer.object \in Optional(Objects(t)), Request(t, answer, result)
  PROVE  Served /\ budget' \in [Disturbances -> Nat]
<1>1. CASE UNCHANGED budget /\ Put(t, answer.object)
  BY <1>1 DEF RestOK, Served, Writes
<1>2. CASE Spend("fault") /\ (Put(t, answer.object) \/ UNCHANGED cluster)
  BY <1>2, SpendTyped DEF Disturbances, Served, Writes
<1> QED BY <1>1, <1>2 DEF Request

LEMMA PhaseServed ==
  ASSUME ClusterOK, RestOK, NEW m, NEW phase \in Phases, NEW result,
         SetNotebookPhase(m, phase, result)
  PROVE  Served /\ budget' \in [Disturbances -> Nat]
<1>1. CASE UNCHANGED <<cluster, budget>>
  BY <1>1 DEF Served, RestOK
<1>2. CASE Request("Notebook",
                   Update("Notebook", m.rv, [server["Notebook"] EXCEPT !.phase = phase]),
                   result)
  <2>1. server["Notebook"] # Nil =>
          [server["Notebook"] EXCEPT !.phase = phase] \in Optional(Objects("Notebook"))
    BY PhaseTyped DEF ClusterOK, Optional, Objects, Informers
  <2>2. "Notebook" \in Informers
    BY DEF Informers
  <2> QED BY <1>2, <2>1, <2>2, UpdateTyped, RequestServed
<1> QED BY <1>1, <1>2 DEF SetNotebookPhase
-----------------------------------------------------------------------------
(* Steps that write: the goroutines of the resources *)

LEMMA GotoTyped ==
  ASSUME OperatorOK, NEW k \in Kinds, NEW state \in TaskStates, Goto(k, state)
  PROVE  task' \in [Kinds -> TaskStates]
BY DEF OperatorOK, Goto

LEMMA OutcomeTyped ==
  ASSUME NEW k, NEW result
  PROVE  Outcome(k, result) \in TaskStates
BY DEF Outcome, TaskStates

\* A resource that should exist belongs to a notebook with a UID.
LEMMA OwnerHasUID ==
  ASSUME OperatorOK, n # Nil, NEW k, ShouldExist(k, n)
  PROVE  n.uid # Nil
BY DEF OperatorOK, Optional, Copies, ShouldExist

LEMMA TaskServed ==
  ASSUME IInv, NEW k \in Kinds, TaskStep(k)
  PROVE  /\ Served /\ UNCHANGED local
         /\ task' \in [Kinds -> TaskStates]
         /\ budget' \in [Disturbances -> Nat]
<1> k \in Informers
  BY DEF Informers
<1> USE DEF IInv
<1>1. CASE DeleteResource(k)
  <2> DEFINE obj == IF server[k] # Nil /\ server[k].deleting THEN server[k] ELSE Nil
  <2>1. obj \in Optional(Objects(k))
    BY DEF ClusterOK, Optional
  <2>2. PICK result \in Results :
          /\ Request(k, Deletion(k, obj), result)
          /\ Goto(k, IF result = "Error" THEN "failed" ELSE "ok")
    BY <1>1 DEF DeleteResource
  <2>3. Deletion(k, obj).object \in Optional(Objects(k))
    BY <2>1, DeletionTyped
  <2>4. Served /\ budget' \in [Disturbances -> Nat]
    BY <2>2, <2>3, RequestServed
  <2>5. task' \in [Kinds -> TaskStates]
    BY <2>2, GotoTyped DEF TaskStates
  <2> QED BY <1>1, <2>4, <2>5 DEF DeleteResource
<1>2. ASSUME n # Nil, ShouldExist(k, n), NEW result \in Results,
             Request(k, Creation(k, NewObject(k)), result), Goto(k, Outcome(k, result))
      PROVE  /\ Served /\ task' \in [Kinds -> TaskStates]
             /\ budget' \in [Disturbances -> Nat]
  <2>1. Creation(k, NewObject(k)).object \in Optional(Objects(k))
    BY <1>2, OwnerHasUID, NewObjectTyped, CreationTyped
  <2> QED BY <1>2, <2>1, RequestServed, GotoTyped, OutcomeTyped
<1>3. CASE CreateResource(k)
  BY <1>2, <1>3 DEF CreateResource, At
<1>4. ASSUME n # Nil, ShouldExist(k, n), NEW content \in Contents(k), NEW result \in Results,
             Request(k, Update(k, cache[k].rv, Overwritten(k, content)), result),
             Goto(k, Outcome(k, result))
      PROVE  /\ Served /\ task' \in [Kinds -> TaskStates]
             /\ budget' \in [Disturbances -> Nat]
  <2>1. server[k] # Nil => Overwritten(k, content) \in Optional(Objects(k))
    BY <1>4, OwnerHasUID, OverwrittenTyped
  <2>2. Update(k, cache[k].rv, Overwritten(k, content)).object \in Optional(Objects(k))
    BY <2>1, UpdateTyped
  <2> QED BY <1>4, <2>2, RequestServed, GotoTyped, OutcomeTyped
<1>5. CASE UpdateResource(k)
  BY <1>4, <1>5, KeptTyped DEF UpdateResource, At
<1>6. CASE AdoptStatefulSet(k)
  <2>1. cache[k].content \in Contents(k)
    BY <1>6, ManagedTyped DEF AdoptStatefulSet, Adoptable, CacheOK, Optional, Managed
  <2> QED BY <1>4, <1>6, <2>1 DEF AdoptStatefulSet, At
<1>7. CASE DeleteOldStatefulSet(k)
  <2>1. server[k] # Nil => [server[k] EXCEPT !.deleting = TRUE] \in Optional(Objects(k))
    BY NotebookIsNoKind DEF ClusterOK, Optional, Objects, Managed, Foreign
  <2>2. PICK result \in Results :
          /\ Request(k, Deletion(k, [server[k] EXCEPT !.deleting = TRUE]), result)
          /\ Goto(k, IF result = "ok" THEN "gone" ELSE "failed")
    BY <1>7 DEF DeleteOldStatefulSet
  <2>3. Deletion(k, [server[k] EXCEPT !.deleting = TRUE]).object \in Optional(Objects(k))
    BY <2>1, DeletionTyped
  <2>4. task' \in [Kinds -> TaskStates]
    BY <2>2, GotoTyped DEF TaskStates
  <2> QED BY <1>7, <2>2, <2>3, <2>4, RequestServed DEF DeleteOldStatefulSet
<1>8. CASE RecreateStatefulSet(k)
  <2>1. ShouldExist(k, n)
    BY <1>8 DEF RecreateStatefulSet, At, Underway
  <2> QED BY <1>2, <1>8, <2>1 DEF RecreateStatefulSet, At
<1>9. CASE RefuseResource(k) \/ StatefulSetGone(k) \/ Poll(k)
  <2>1. UNCHANGED <<cluster, budget, local>>
    BY <1>9 DEF RefuseResource, StatefulSetGone, Poll
  <2>2. task' \in [Kinds -> TaskStates]
    BY <1>9, GotoTyped DEF RefuseResource, StatefulSetGone, Poll, TaskStates
  <2> QED BY <2>1, <2>2 DEF Served, RestOK
<1>10. CASE TimeOutGone(k) \/ TimeOutWait(k)
  <2>1. UNCHANGED <<cluster, local>>
    BY <1>10 DEF TimeOutGone, TimeOutWait
  <2>2. task' \in [Kinds -> TaskStates]
    BY <1>10, GotoTyped DEF TimeOutGone, TimeOutWait, TaskStates
  <2>3. budget' \in [Disturbances -> Nat]
    BY <1>10, SpendTyped DEF TimeOutGone, TimeOutWait, Disturbances, RestOK
  <2> QED BY <2>1, <2>2, <2>3 DEF Served
<1> QED BY <1>1, <1>3, <1>5, <1>6, <1>7, <1>8, <1>9, <1>10 DEF TaskStep

LEMMA TaskUnderway ==
  ASSUME IInv, NEW k \in Kinds, TaskStep(k)
  PROVE  Underway'
<1> USE DEF IInv
<1>1. UNCHANGED n
  BY TaskServed DEF local
<1>2. /\ \A j \in Kinds \ {k} : task'[j] = task[j]
      /\ task'[k] \in {"gone", "recreate", "poll", "wait"} => n # Nil /\ ShouldExist(k, n)
  <2>1. CASE DeleteResource(k) \/ RefuseResource(k) \/ StatefulSetGone(k) \/ Poll(k)
             \/ TimeOutGone(k) \/ TimeOutWait(k)
    BY <2>1 DEF DeleteResource, RefuseResource, StatefulSetGone, Poll, TimeOutGone,
                TimeOutWait, Goto, At, Underway, OperatorOK
  <2>2. CASE CreateResource(k) \/ UpdateResource(k) \/ AdoptStatefulSet(k)
             \/ DeleteOldStatefulSet(k) \/ RecreateStatefulSet(k)
    <3>1. n # Nil /\ ShouldExist(k, n)
      BY <2>2 DEF CreateResource, UpdateResource, AdoptStatefulSet, DeleteOldStatefulSet,
                  RecreateStatefulSet, At, Underway
    <3>2. \E state : Goto(k, state)
      BY <2>2 DEF CreateResource, UpdateResource, AdoptStatefulSet, DeleteOldStatefulSet,
                  RecreateStatefulSet
    <3> QED BY <3>1, <3>2 DEF Goto, OperatorOK
  <2> QED BY <2>1, <2>2 DEF TaskStep
<1> QED BY <1>1, <1>2 DEF Underway, ShouldExist
-----------------------------------------------------------------------------
(* Steps that write: sync *)

LEMMA NotebookInformer == "Notebook" \in Informers
BY DEF Informers

\* The notebook in the cache, when there is one.
LEMMA CachedNotebook ==
  ASSUME CacheOK, cache["Notebook"] # Nil
  PROVE  cache["Notebook"] \in Notebooks
BY NotebookInformer DEF CacheOK, Optional, Objects

LEMMA StartTyped ==
  ASSUME IInv, NEW m, StartTasks(m),
         m.uid \in Optional(Nat), m.rv \in Nat, m.spec \in NotebookSpecs,
         m.phase \in Phases, m.deleting \in BOOLEAN, m.uid = Nil => m.deleting
  PROVE  /\ n' \in Copies
         /\ queue' \in [dirty : BOOLEAN, processing : BOOLEAN, waiting : BOOLEAN]
         /\ task' \in [Kinds -> TaskStates]
         /\ Underway'
<1>1. Serial \in Nat
  BY DEF Serial, IInv, ClusterOK, Informers
<1>2. n' \in Copies
  BY <1>1 DEF StartTasks, DeepCopy, Copies
<1>3. task' = [k \in Kinds |-> "reconcile"]
  BY DEF StartTasks
<1>4. task' \in [Kinds -> TaskStates] /\ Underway'
  BY <1>3 DEF TaskStates, Underway
<1>5. queue' \in [dirty : BOOLEAN, processing : BOOLEAN, waiting : BOOLEAN]
  BY DEF StartTasks, IInv, OperatorOK
<1> QED BY <1>2, <1>4, <1>5

LEMMA SyncServed ==
  ASSUME IInv, Sync
  PROVE  /\ Served /\ CacheOK' /\ OperatorOK' /\ RestOK' /\ Underway'
<1> DEFINE m == cache["Notebook"]
<1> USE DEF IInv
<1>1. CASE SyncInvalid
  <2>1. PICK result \in Results : SetNotebookPhase(m, "Failed", result)
    BY <1>1 DEF SyncInvalid
  <2>2. Served /\ budget' \in [Disturbances -> Nat]
    BY <2>1, PhaseServed DEF Phases
  <2>3. queue' \in [dirty : BOOLEAN, processing : BOOLEAN, waiting : BOOLEAN]
    BY <1>1 DEF SyncInvalid, RateLimited, OperatorOK
  <2> QED BY <1>1, <2>2, <2>3 DEF SyncInvalid, CacheOK, OperatorOK, RestOK, Underway
<1>2. CASE SyncDefaults
  <2>1. m \in Notebooks /\ SetDefaults(m.spec) \in NotebookSpecs
    BY <1>2, CachedNotebook, DefaultsTyped DEF SyncDefaults, Notebooks
  <2>2. server["Notebook"] # Nil =>
          [server["Notebook"] EXCEPT !.spec = SetDefaults(m.spec)]
            \in Optional(Objects("Notebook"))
    BY <2>1, SpecTyped, NotebookInformer DEF ClusterOK, Optional, Objects
  <2>3. DefaultsUpdate(m).object \in Optional(Objects("Notebook"))
    BY <2>2, UpdateTyped, NotebookInformer DEF DefaultsUpdate
  <2>4. PICK result \in Results :
          /\ Request("Notebook", DefaultsUpdate(m), result)
          /\ queue' = IF result = "ok" THEN Forgotten ELSE RateLimited
    BY <1>2 DEF SyncDefaults
  <2>5. Served /\ budget' \in [Disturbances -> Nat]
    BY <2>3, <2>4, RequestServed, NotebookInformer
  <2>6. queue' \in [dirty : BOOLEAN, processing : BOOLEAN, waiting : BOOLEAN]
    BY <2>4 DEF Forgotten, RateLimited, OperatorOK
  <2> QED BY <1>2, <2>5, <2>6 DEF SyncDefaults, CacheOK, OperatorOK, RestOK, Underway
<1>3. CASE SyncReconcile
  <2> DEFINE phase == IF m.phase \in {"Running", "Failed"} THEN m.phase ELSE "Pending"
  <2>1. m \in Notebooks /\ phase \in Phases
    BY <1>3, CachedNotebook DEF SyncReconcile, Phases
  <2>2. PICK result \in Results : SetNotebookPhase(m, phase, result)
    BY <1>3 DEF SyncReconcile
  <2>3. Served /\ budget' \in [Disturbances -> Nat]
    BY <2>1, <2>2, PhaseServed
  <2>4. [m EXCEPT !.phase = phase] \in Notebooks
    BY <2>1, PhaseTyped
  <2>5. StartTasks([m EXCEPT !.phase = phase])
    BY <1>3 DEF SyncReconcile
  <2> HIDE DEF phase
  <2>6. /\ [m EXCEPT !.phase = phase].uid \in Optional(Nat)
        /\ [m EXCEPT !.phase = phase].uid # Nil
        /\ [m EXCEPT !.phase = phase].rv \in Nat
        /\ [m EXCEPT !.phase = phase].spec \in NotebookSpecs
        /\ [m EXCEPT !.phase = phase].phase \in Phases
        /\ [m EXCEPT !.phase = phase].deleting \in BOOLEAN
    BY <2>4, ControllerAssumption DEF Notebooks, Optional
  <2>7. /\ n' \in Copies
        /\ queue' \in [dirty : BOOLEAN, processing : BOOLEAN, waiting : BOOLEAN]
        /\ task' \in [Kinds -> TaskStates]
        /\ Underway'
    BY <2>5, <2>6, StartTyped
  <2> QED BY <1>3, <2>3, <2>7 DEF SyncReconcile, CacheOK, OperatorOK, RestOK, Optional
<1>4. CASE SyncDeleted
  <2> DEFINE madeUp == [uid |-> Nil, rv |-> 0, spec |-> EmptySpec, phase |-> "",
                        deleting |-> TRUE]
  <2>1. EmptySpec \in NotebookSpecs
    BY DEF EmptySpec, NotebookSpecs, Optional
  <2>2. StartTasks(madeUp)
    BY <1>4 DEF SyncDeleted
  <2>3. /\ madeUp.uid \in Optional(Nat) /\ madeUp.rv \in Nat
        /\ madeUp.spec \in NotebookSpecs /\ madeUp.phase \in Phases
        /\ madeUp.deleting = TRUE
    BY <2>1 DEF Optional, Phases
  <2>4. /\ n' \in Copies
        /\ queue' \in [dirty : BOOLEAN, processing : BOOLEAN, waiting : BOOLEAN]
        /\ task' \in [Kinds -> TaskStates]
        /\ Underway'
    BY <2>2, <2>3, StartTyped
  <2>5. Served
    BY <1>4 DEF SyncDeleted, Served
  <2> QED BY <1>4, <2>4, <2>5 DEF SyncDeleted, CacheOK, OperatorOK, RestOK, Optional
<1>5. CASE FinishSync
  <2> DEFINE failed == \E k \in Kinds : task[k] = "failed"
  <2>1. Served /\ budget' \in [Disturbances -> Nat]
    <3>1. CASE UNCHANGED <<cluster, budget>>
      BY <3>1 DEF Served, RestOK
    <3>2. CASE \E result \in Results :
                 SetNotebookPhase(n, IF failed THEN "Failed" ELSE "Running", result)
      <4>1. (IF failed THEN "Failed" ELSE "Running") \in Phases
        BY DEF Phases
      <4> HIDE DEF failed
      <4> QED BY <3>2, <4>1, PhaseServed
    <3> QED BY <1>5, <3>1, <3>2 DEF FinishSync
  <2>2. queue' \in [dirty : BOOLEAN, processing : BOOLEAN, waiting : BOOLEAN]
    <3>1. PICK again \in BOOLEAN :
            queue' = [queue EXCEPT !.processing = FALSE, !.waiting = again]
      BY <1>5, Zenon DEF FinishSync, Processed
    <3> QED BY <3>1 DEF OperatorOK
  <2>3. n' = Nil /\ task' = [k \in Kinds |-> "idle"]
    BY <1>5 DEF FinishSync
  <2>4. task' \in [Kinds -> TaskStates] /\ Underway'
    BY <2>3 DEF TaskStates, Underway
  <2> QED BY <1>5, <2>1, <2>2, <2>3, <2>4
          DEF FinishSync, CacheOK, OperatorOK, RestOK, Optional
<1> QED BY <1>1, <1>2, <1>3, <1>4, <1>5 DEF Sync
-----------------------------------------------------------------------------
(* Steps that write: users and the cluster *)

\* Nothing of the operator changes.
LEMMA OperatorSame ==
  ASSUME IInv, UNCHANGED operator
  PROVE  CacheOK' /\ OperatorOK' /\ Underway'
BY DEF IInv, operator, CacheOK, OperatorOK, Underway

LEMMA UserServed ==
  ASSUME IInv, Outsider
  PROVE  Served /\ RestOK' /\ UNCHANGED operator
<1> USE DEF IInv
<1>1. ASSUME NEW spec \in UserSpecs, CreateNotebook(spec)
      PROVE  Served /\ RestOK' /\ UNCHANGED operator
  <2>1. [uid |-> ver["Notebook"] + 1, rv |-> 0, spec |-> spec, phase |-> "",
         deleting |-> FALSE] \in Optional(Objects("Notebook"))
    <3>1. ver["Notebook"] + 1 \in Nat
      BY NotebookInformer DEF ClusterOK
    <3>2. spec \in NotebookSpecs
      BY ControllerAssumption
    <3> QED BY <3>1, <3>2 DEF Optional, Objects, Notebooks, Phases
  <2> QED BY <1>1, <2>1, NotebookInformer, SpendTyped
          DEF CreateNotebook, Served, Writes, RestOK, Disturbances
<1>2. ASSUME NEW spec \in UserSpecs, EditNotebook(spec)
      PROVE  Served /\ RestOK' /\ UNCHANGED operator
  <2>1. [server["Notebook"] EXCEPT !.spec = spec] \in Optional(Objects("Notebook"))
    BY <1>2, ControllerAssumption, NotebookInformer, SpecTyped
       DEF EditNotebook, ClusterOK, Optional, Objects
  <2> QED BY <1>2, <2>1, NotebookInformer, SpendTyped
          DEF EditNotebook, Served, Writes, RestOK, Disturbances
<1>3. CASE DeleteNotebook
  <2>1. [server["Notebook"] EXCEPT !.deleting = TRUE] \in Optional(Objects("Notebook"))
    BY <1>3, NotebookInformer DEF DeleteNotebook, ClusterOK, Optional, Objects, Notebooks
  <2>2. Nil \in Optional(Objects("Notebook"))
    BY DEF Optional
  <2> QED BY <1>3, <2>1, <2>2, NotebookInformer, SpendTyped
          DEF DeleteNotebook, Served, Writes, RestOK, Disturbances
<1>4. ASSUME NEW k \in Kinds, CreateForeign(k)
      PROVE  Served /\ RestOK' /\ UNCHANGED operator
  <2>1. k \in Informers
    BY DEF Informers
  <2>2. \A ready \in BOOLEAN :
          [rv |-> 0, owner |-> Nil, managed |-> FALSE, content |-> Nil,
           deleting |-> FALSE, ready |-> ready] \in Optional(Objects(k))
    BY NotebookIsNoKind DEF Optional, Objects, Foreign
  <2>3. PICK ready \in BOOLEAN :
          Put(k, [rv |-> 0, owner |-> Nil, managed |-> FALSE, content |-> Nil,
                  deleting |-> FALSE, ready |-> ready])
    BY <1>4 DEF CreateForeign
  <2>4. Writes(k)
    BY <2>2, <2>3 DEF Writes
  <2> QED BY <1>4, <2>1, <2>4, SpendTyped DEF CreateForeign, Served, RestOK, Disturbances
<1>5. ASSUME NEW k \in Kinds, Drop(k)
      PROVE  Served /\ RestOK' /\ UNCHANGED operator
  <2>1. k \in Informers /\ Nil \in Optional(Objects(k))
    BY DEF Informers, Optional
  <2> QED BY <1>5, <2>1, SpendTyped DEF Drop, Served, Writes, RestOK, Disturbances
<1>6. ASSUME Rival
      PROVE  Served /\ RestOK' /\ UNCHANGED operator
  <2> DEFINE secret == server["Secret"]
             cert == [ca |-> Nil, host |-> secret.content.cert.host, serial |-> ver["Secret"]]
             obj == [secret EXCEPT !.content.cert = cert]
  <2>1. "Secret" \in Kinds /\ "Secret" \in Informers
    BY <1>6 DEF Rival, Informers
  <2>2. secret \in Managed("Secret")
    BY <1>6, <2>1, ManagedTyped DEF Rival, ClusterOK, Optional
  <2>3. secret.content.cert \in Certificates
    BY <1>6, <2>2 DEF Rival, Managed, Contents, Optional
  <2>4. cert \in Certificates
    <3>1. ver["Secret"] \in Nat
      BY <2>1 DEF ClusterOK
    <3>2. secret.content.cert.host \in Optional(Text)
      BY <2>3 DEF Certificates
    <3> QED BY <3>1, <3>2 DEF Certificates, Optional
  <2>5. [secret.content EXCEPT !.cert = cert] \in Contents("Secret")
    BY <2>2, <2>4 DEF Managed, Contents, Optional
  <2>6. obj \in Managed("Secret")
    BY <2>2, <2>5 DEF Managed
  <2>7. obj \in Optional(Objects("Secret"))
    BY <2>6 DEF Objects, Optional
  <2>8. Put("Secret", obj)
    BY <1>6 DEF Rival
  <2>9. Writes("Secret")
    BY <2>7, <2>8 DEF Writes
  <2> QED BY <1>6, <2>1, <2>9, SpendTyped DEF Rival, Served, RestOK, Disturbances
<1> QED BY <1>1, <1>2, <1>3, <1>4, <1>5, <1>6 DEF Outsider

LEMMA ClusterServed ==
  ASSUME IInv, NEW k \in Kinds, Helps(k) \/ PodsUnready(k)
  PROVE  Served /\ RestOK' /\ UNCHANGED operator
<1> USE DEF IInv
<1>1. k \in Informers /\ Nil \in Optional(Objects(k))
  BY DEF Informers, Optional
<1>2. ASSUME NEW ready \in BOOLEAN, server[k] # Nil
      PROVE  [server[k] EXCEPT !.ready = ready] \in Optional(Objects(k))
  BY <1>1, <1>2, NotebookIsNoKind DEF ClusterOK, Optional, Objects, Managed, Foreign
<1>3. CASE PodsReady(k)
  BY <1>1, <1>2, <1>3 DEF PodsReady, Served, Writes, RestOK
<1>4. CASE PodsUnready(k)
  BY <1>1, <1>2, <1>4, SpendTyped DEF PodsUnready, Served, Writes, RestOK, Disturbances
<1>5. CASE Terminate(k) \/ Collect(k)
  BY <1>1, <1>5 DEF Terminate, Collect, Served, Writes, RestOK
<1>6. CASE IssueCertificate(k)
  BY <1>6 DEF IssueCertificate, Served, RestOK
<1> QED BY <1>3, <1>4, <1>5, <1>6 DEF Helps

LEMMA FinalizeServed ==
  ASSUME IInv, FinalizeNotebook
  PROVE  Served /\ RestOK' /\ UNCHANGED operator
BY NotebookInformer DEF IInv, FinalizeNotebook, Served, Writes, RestOK, Optional
-----------------------------------------------------------------------------
(* Steps of the informers, and restarts *)

\* Whom a notice names is known by a number.
LEMMA NoticeTyped ==
  ASSUME NEW t \in Informers, NEW old \in Optional(Objects(t)), NEW new \in Optional(Objects(t))
  PROVE  Notice(t, old, new) \subseteq Nat
<1>1. CASE t = "Notebook"
  BY <1>1 DEF Notice, Optional, Objects, Notebooks
<1>2. CASE t # "Notebook"
  <2>1. \A obj \in {old, new} \ {Nil} : obj.owner \in Nat \/ obj.owner = Nil
    BY <1>2 DEF Optional, Objects, Managed, Foreign
  <2>2. Owners(old, new) \subseteq Nat
    BY <2>1 DEF Owners
  <2> QED BY <1>2, <2>2 DEF Notice
<1> QED BY <1>1, <1>2

LEMMA DeliverTyped ==
  ASSUME IInv, NEW t \in Informers, Deliver(t)
  PROVE  IInv'
<1> USE DEF IInv
<1>1. /\ Head(watch[t]) \in Optional(Objects(t)) /\ Head(watch[t]) \in Optional(AllObjects)
      /\ Tail(watch[t]) \in Seq(Optional(Objects(t)))
      /\ Tail(watch[t]) \in Seq(Optional(AllObjects))
  <2>1. watch[t] \in Seq(Optional(Objects(t))) /\ watch[t] \in Seq(Optional(AllObjects))
    BY DEF ClusterOK
  <2> QED BY <2>1 DEF Deliver
<1>2. Notice(t, cache[t], Head(watch[t])) \subseteq Nat
  BY <1>1, NoticeTyped DEF CacheOK
<1>3. ClusterOK'
  BY <1>1 DEF Deliver, ClusterOK
<1>4. CacheOK'
  BY <1>1 DEF Deliver, CacheOK
<1>5. OperatorOK' /\ RestOK' /\ Underway'
  BY <1>2 DEF Deliver, OperatorOK, RestOK, Underway
<1> QED BY <1>3, <1>4, <1>5

LEMMA RelistTyped ==
  ASSUME IInv, NEW t \in Informers, Relist(t)
  PROVE  IInv'
<1> USE DEF IInv
<1>1. server[t] \in Optional(Objects(t)) /\ server[t] \in Optional(AllObjects)
  BY DEF ClusterOK
<1>2. Notice(t, cache[t], server[t]) \subseteq Nat
  BY <1>1, NoticeTyped DEF CacheOK
<1>3. ClusterOK'
  BY DEF Relist, ClusterOK
<1>4. CacheOK'
  BY <1>1 DEF Relist, CacheOK
<1>5. OperatorOK' /\ Underway'
  BY <1>2 DEF Relist, OperatorOK, Underway
<1>6. RestOK'
  BY SpendTyped DEF Relist, RestOK, Disturbances
<1> QED BY <1>3, <1>4, <1>5, <1>6

\* The steps that only make the work queue know of the key.
LEMMA EnqueueTyped ==
  ASSUME IInv, Resync \/ RetryDue \/ \E t \in Informers : Handle(t)
  PROVE  IInv'
<1> USE DEF IInv
<1>1. UNCHANGED <<server, ver, watch, cache, n, task, ca, issued, budget>>
  BY DEF Resync, RetryDue, Handle
<1>2. queue' \in [dirty : BOOLEAN, processing : BOOLEAN, waiting : BOOLEAN]
  BY DEF Resync, RetryDue, Handle, Enqueue, OperatorOK
<1>3. notices' \in [Informers -> SUBSET Nat]
  BY DEF Resync, RetryDue, Handle, OperatorOK
<1>4. ClusterOK' /\ CacheOK' /\ RestOK' /\ Underway'
  BY <1>1 DEF ClusterOK, CacheOK, RestOK, Underway
<1> QED BY <1>1, <1>2, <1>3, <1>4 DEF OperatorOK

LEMMA RestartTyped ==
  ASSUME IInv, Restart
  PROVE  IInv'
<1> USE DEF IInv
<1>1. ClusterOK' /\ CacheOK'
  BY DEF Restart, ClusterOK, CacheOK
<1>2. \A t \in Informers : Notice(t, Nil, server[t]) \subseteq Nat
  <2> TAKE t \in Informers
  <2>1. Nil \in Optional(Objects(t)) /\ server[t] \in Optional(Objects(t))
    BY DEF ClusterOK, Optional
  <2> QED BY <2>1, NoticeTyped
<1>3. notices' \in [Informers -> SUBSET Nat]
  BY <1>2 DEF Restart
<1>4. OperatorOK' /\ Underway'
  BY <1>3 DEF Restart, OperatorOK, Underway, InitialQueue, Optional, TaskStates
<1>5. RestOK'
  BY SpendTyped DEF Restart, RestOK, Disturbances
<1> QED BY <1>1, <1>4, <1>5
-----------------------------------------------------------------------------
(* Type correctness *)

LEMMA InvariantStep == IInv /\ [Next]_vars => IInv'
<1> SUFFICES ASSUME IInv, [Next]_vars PROVE IInv'
  OBVIOUS
<1>1. ASSUME NEW t \in Informers, Deliver(t) \/ Relist(t) \/ Handle(t) PROVE IInv'
  BY <1>1, DeliverTyped, RelistTyped, EnqueueTyped
<1>2. CASE Resync \/ RetryDue
  BY <1>2, EnqueueTyped
<1>3. CASE Sync
  BY <1>3, SyncServed, PutTyped DEF IInv
<1>4. ASSUME NEW k \in Kinds, TaskStep(k) PROVE IInv'
  <2>1. issued' = issued /\ CacheOK' /\ UNCHANGED <<notices, queue, n, ca>>
    BY <1>4, TaskServed DEF local, IInv, CacheOK
  <2> QED BY <1>4, <2>1, TaskServed, TaskUnderway, PutTyped DEF IInv, OperatorOK, RestOK
<1>5. CASE Restart
  BY <1>5, RestartTyped
<1>6. CASE Outsider \/ FinalizeNotebook \/ \E k \in Kinds : Helps(k) \/ PodsUnready(k)
  <2>1. Served /\ RestOK' /\ UNCHANGED operator
    BY <1>6, UserServed, FinalizeServed, ClusterServed
  <2> QED BY <2>1, OperatorSame, PutTyped DEF IInv
<1>7. CASE UNCHANGED vars
  BY <1>7 DEF vars, IInv, ClusterOK, CacheOK, OperatorOK, RestOK, Underway
<1> QED BY <1>1, <1>2, <1>3, <1>4, <1>5, <1>6, <1>7 DEF Next

LEMMA InvariantInit == Init => IInv
<1> SUFFICES ASSUME Init PROVE IInv
  OBVIOUS
<1>1. ClusterOK
  BY DEF Init, ClusterOK, Optional
<1>2. CacheOK
  BY DEF Init, CacheOK, Optional
<1>3. OperatorOK /\ Underway
  BY DEF Init, OperatorOK, Underway, InitialQueue, Optional, TaskStates
<1>4. RestOK
  BY ControllerAssumption DEF Init, RestOK
<1> QED BY <1>1, <1>2, <1>3, <1>4 DEF IInv

LEMMA Invariant == Spec => []IInv
BY InvariantInit, InvariantStep, PTL DEF Spec

\* Whatever users, other controllers and failures do, every object and every
\* copy of one keeps the form of its kind.
THEOREM TypeCorrect == Spec => []TypeOK
<1>1. IInv => TypeOK
  BY TypeParts DEF IInv
<1> QED BY <1>1, Invariant, PTL
-----------------------------------------------------------------------------
(* Versions *)

\* What the API server once had under the version it has now, it has now.
Current(t, obj) == /\ obj.rv <= ver[t]
                   /\ server[t] # Nil /\ obj.rv = server[t].rv => obj = server[t]

ReadCurrent ==
  \A t \in Informers :
    /\ server[t] # Nil => server[t].rv <= ver[t]
    /\ cache[t] # Nil => Current(t, cache[t])
    /\ \A i \in 1..Len(watch[t]) : watch[t][i] # Nil => Current(t, watch[t][i])

\* The same of the copy that a sync works on, of which it changes the phase.
CopyAgrees(c) ==
  c # Nil /\ c.uid # Nil =>
    /\ c.rv <= ver["Notebook"]
    /\ server["Notebook"] # Nil /\ c.rv = server["Notebook"].rv =>
         c.spec = server["Notebook"].spec /\ c.uid = server["Notebook"].uid

Versioned == ReadCurrent /\ CopyAgrees(n)

\* Every write has a version of its own, and is told to the informer.
LEMMA ServedVersions ==
  ASSUME ClusterOK, Served, NEW t \in Informers
  PROVE  \/ server'[t] = server[t] /\ ver'[t] = ver[t] /\ watch'[t] = watch[t]
         \/ /\ ver'[t] = ver[t] + 1
            /\ server'[t] # Nil => server'[t].rv = ver[t] + 1
            /\ server'[t] \in Optional(Objects(t))
            /\ server[t] # Nil \/ server'[t] # Nil
            /\ watch'[t] = Append(watch[t], server'[t])
<1>1. CASE UNCHANGED cluster
  BY <1>1 DEF cluster
<1>2. ASSUME NEW u \in Informers, NEW obj \in Optional(Objects(u)), Put(u, obj),
             obj # server[u]
      PROVE  \/ server'[t] = server[t] /\ ver'[t] = ver[t] /\ watch'[t] = watch[t]
             \/ /\ ver'[t] = ver[t] + 1
                /\ server'[t] # Nil => server'[t].rv = ver[t] + 1
                /\ server'[t] \in Optional(Objects(t))
                /\ server[t] # Nil \/ server'[t] # Nil
                /\ watch'[t] = Append(watch[t], server'[t])
  <2> DEFINE written == IF obj = Nil THEN Nil ELSE [obj EXCEPT !.rv = ver[u] + 1]
  <2>1. ver[u] + 1 \in Nat
    BY DEF ClusterOK
  <2>2. /\ written \in Optional(Objects(u))
        /\ written # Nil => written.rv = ver[u] + 1
        /\ server[u] # Nil \/ written # Nil
    <3>1. Nil \notin Objects(u)
      BY ObjectsAmongAll, NilAssumption
    <3> QED BY <1>2, <2>1, <3>1, VersionTyped DEF Optional
  <2>3. /\ server' = [server EXCEPT ![u] = written]
        /\ ver' = [ver EXCEPT ![u] = @ + 1]
        /\ watch' = [watch EXCEPT ![u] = Append(@, written)]
    BY <1>2 DEF Put
  <2> HIDE DEF written
  <2> QED BY <2>2, <2>3 DEF ClusterOK
<1>3. ASSUME NEW u \in Informers, Put(u, server[u]) PROVE UNCHANGED cluster
  BY <1>3 DEF Put
<1> QED BY <1>1, <1>2, <1>3 DEF Served, Writes

LEMMA RvTyped ==
  ASSUME NEW t \in Informers, NEW obj \in Objects(t)
  PROVE  obj.rv \in Nat
BY DEF Objects, Notebooks, Managed, Foreign

\* A copy that was current before a write is current after it.
LEMMA StaysCurrent ==
  ASSUME ClusterOK, Served, NEW t \in Informers, NEW obj \in Objects(t), Current(t, obj)
  PROVE  Current(t, obj)'
<1>1. obj.rv \in Nat /\ ver[t] \in Nat
  BY RvTyped DEF ClusterOK
<1> QED BY <1>1, ServedVersions DEF Current

LEMMA ServedCurrent ==
  ASSUME IInv, ReadCurrent, Served, UNCHANGED cache
  PROVE  ReadCurrent'
<1> USE DEF IInv
<1> SUFFICES ASSUME NEW t \in Informers
             PROVE  /\ server'[t] # Nil => server'[t].rv <= ver'[t]
                    /\ cache'[t] # Nil => Current(t, cache[t])'
                    /\ \A i \in 1..Len(watch'[t]) :
                         watch'[t][i] # Nil => Current(t, watch[t][i])'
  BY DEF ReadCurrent
<1>1. ver[t] \in Nat /\ watch[t] \in Seq(Optional(Objects(t)))
  BY DEF ClusterOK
<1>2. server'[t] # Nil => server'[t].rv <= ver'[t]
  BY <1>1, ServedVersions DEF ReadCurrent
<1>3. cache[t] # Nil => Current(t, cache[t])'
  <2>1. PICK obj : obj = cache[t]
    OBVIOUS
  <2>2. obj # Nil => obj \in Objects(t) /\ Current(t, obj)
    BY <2>1 DEF CacheOK, Optional, ReadCurrent
  <2>3. obj # Nil => Current(t, obj)'
    BY <2>2, StaysCurrent
  <2> QED BY <2>1, <2>3 DEF Current
<1>4. ASSUME NEW i \in 1..Len(watch'[t]), watch'[t][i] # Nil
      PROVE  Current(t, watch[t][i])'
  <2>1. CASE i \in 1..Len(watch[t]) /\ watch'[t][i] = watch[t][i]
    <3>1. PICK obj : obj = watch[t][i]
      OBVIOUS
    <3>2. obj \in Objects(t) /\ Current(t, obj)
      BY <1>1, <1>4, <2>1, <3>1 DEF Optional, ReadCurrent
    <3>3. Current(t, obj)'
      BY <3>2, StaysCurrent
    <3> QED BY <2>1, <3>1, <3>3 DEF Current
  <2>2. CASE watch'[t][i] = server'[t]
    BY <1>2, <1>4, <2>2 DEF Current
  <2>3. CASE watch'[t] = Append(watch[t], server'[t]) /\ server'[t] \in Optional(Objects(t))
    <3>1. /\ Len(watch'[t]) = Len(watch[t]) + 1 /\ Len(watch[t]) \in Nat
          /\ watch'[t][Len(watch[t]) + 1] = server'[t]
          /\ \A j \in 1..Len(watch[t]) : watch'[t][j] = watch[t][j]
      BY <1>1, <2>3
    <3>2. i \in 1..Len(watch[t]) \/ i = Len(watch[t]) + 1
      BY <3>1
    <3> QED BY <2>1, <2>2, <3>1, <3>2
  <2>4. CASE watch'[t] = watch[t]
    BY <1>4, <2>1, <2>4
  <2> QED BY <2>3, <2>4, ServedVersions
<1> QED BY <1>2, <1>3, <1>4

LEMMA CopyStaysAgreed ==
  ASSUME ClusterOK, Served, NEW c \in Optional(Copies), CopyAgrees(c)
  PROVE  CopyAgrees(c)'
<1>1. ver["Notebook"] \in Nat /\ (c # Nil => c.rv \in Nat)
  BY NotebookInformer DEF ClusterOK, Optional, Copies
<1> QED BY <1>1, ServedVersions, NotebookInformer DEF CopyAgrees

\* A sync that starts copies what the lister returned.
LEMMA CopyStarts ==
  ASSUME IInv, Versioned, Served, Sync
  PROVE  CopyAgrees(n)'
<1> USE DEF IInv, Versioned
<1> DEFINE m == cache["Notebook"]
<1>1. CASE SyncReconcile
  <2>1. m \in Notebooks /\ m # Nil /\ Current("Notebook", m)
    BY <1>1, CachedNotebook, NotebookInformer DEF SyncReconcile, ReadCurrent
  <2>2. PICK c : c = n'
    OBVIOUS
  <2>3. c.rv = m.rv /\ c.spec = m.spec /\ c.uid = m.uid
    BY <1>1, <2>1, <2>2 DEF SyncReconcile, StartTasks, DeepCopy, Notebooks
  <2>4. c \in Optional(Copies)
    BY <1>1, <2>2, SyncServed DEF Sync, OperatorOK
  <2>5. CopyAgrees(c)
    BY <2>1, <2>3 DEF CopyAgrees, Current
  <2>6. CopyAgrees(c)'
    BY <2>4, <2>5, CopyStaysAgreed
  <2> QED BY <2>2, <2>6 DEF CopyAgrees
<1>2. CASE SyncDeleted
  BY <1>2 DEF SyncDeleted, StartTasks, DeepCopy, CopyAgrees
<1>3. CASE FinishSync
  BY <1>3 DEF FinishSync, CopyAgrees
<1>4. ASSUME UNCHANGED n PROVE CopyAgrees(n)'
  <2>1. PICK c : c = n
    OBVIOUS
  <2>2. CopyAgrees(c)'
    BY <1>4, <2>1, CopyStaysAgreed DEF OperatorOK
  <2> QED BY <1>4, <2>1, <2>2 DEF CopyAgrees
<1> QED BY <1>1, <1>2, <1>3, <1>4 DEF Sync, SyncInvalid, SyncDefaults

LEMMA DeliverCurrent ==
  ASSUME IInv, ReadCurrent, NEW t \in Informers, Deliver(t)
  PROVE  ReadCurrent'
<1> USE DEF IInv
<1>1. watch[t] \in Seq(Optional(Objects(t))) /\ watch[t] # <<>>
  BY DEF ClusterOK, Deliver
<1>2. /\ Head(watch[t]) = watch[t][1] /\ 1 \in 1..Len(watch[t])
      /\ \A i \in 1..Len(Tail(watch[t])) :
           i + 1 \in 1..Len(watch[t]) /\ Tail(watch[t])[i] = watch[t][i + 1]
  BY <1>1
<1>3. UNCHANGED <<server, ver>>
  BY DEF Deliver
<1> SUFFICES ASSUME NEW u \in Informers
             PROVE  /\ server[u] # Nil => server[u].rv <= ver[u]
                    /\ cache'[u] # Nil => Current(u, cache'[u])
                    /\ \A i \in 1..Len(watch'[u]) :
                         watch'[u][i] # Nil => Current(u, watch'[u][i])
  BY <1>3 DEF ReadCurrent, Current
<1>4. CASE u # t
  <2>1. cache'[u] = cache[u] /\ watch'[u] = watch[u]
    BY <1>4 DEF Deliver, CacheOK, ClusterOK
  <2> QED BY <2>1 DEF ReadCurrent
<1>5. CASE u = t
  <2>1. cache'[u] = watch[t][1] /\ watch'[u] = Tail(watch[t])
    BY <1>2, <1>5 DEF Deliver, CacheOK, ClusterOK
  <2>2. watch[t][1] # Nil => Current(t, watch[t][1])
    BY <1>2 DEF ReadCurrent
  <2>3. \A i \in 1..Len(watch'[u]) : watch'[u][i] # Nil => Current(u, watch'[u][i])
    BY <1>2, <1>5, <2>1 DEF ReadCurrent
  <2> QED BY <1>5, <2>1, <2>2, <2>3 DEF ReadCurrent
<1> QED BY <1>4, <1>5

\* The lister is filled with what the API server has.
LEMMA ReadAgain ==
  ASSUME IInv, ReadCurrent, UNCHANGED <<server, ver>>,
         \A t \in Informers : \/ cache'[t] = cache[t] /\ watch'[t] = watch[t]
                              \/ cache'[t] = server[t] /\ watch'[t] = <<>>
  PROVE  ReadCurrent'
BY DEF ReadCurrent, Current

LEMMA VersionedStep == IInv /\ Versioned /\ [Next]_vars => Versioned'
<1> SUFFICES ASSUME IInv, Versioned, [Next]_vars PROVE Versioned'
  OBVIOUS
<1> USE DEF IInv, Versioned
<1>1. ASSUME Served, UNCHANGED <<cache, n>> PROVE Versioned'
  <2>1. PICK c : c = n
    OBVIOUS
  <2>2. CopyAgrees(c)'
    BY <1>1, <2>1, CopyStaysAgreed DEF OperatorOK
  <2>3. CopyAgrees(n)'
    BY <1>1, <2>1, <2>2 DEF CopyAgrees
  <2> QED BY <1>1, <2>3, ServedCurrent
<1>2. ASSUME UNCHANGED <<server, ver, watch, cache, n>> PROVE Versioned'
  BY <1>1, <1>2 DEF Served, cluster
<1>3. ASSUME NEW t \in Informers, Deliver(t) PROVE Versioned'
  <2>1. UNCHANGED <<server, ver, n>>
    BY <1>3 DEF Deliver
  <2> QED BY <1>3, <2>1, DeliverCurrent DEF CopyAgrees
<1>4. ASSUME NEW t \in Informers, Relist(t) PROVE Versioned'
  <2>1. UNCHANGED <<server, ver, n>>
    BY <1>4 DEF Relist
  <2>2. \A u \in Informers : \/ cache'[u] = cache[u] /\ watch'[u] = watch[u]
                             \/ cache'[u] = server[u] /\ watch'[u] = <<>>
    BY <1>4 DEF Relist, CacheOK, ClusterOK
  <2> QED BY <2>1, <2>2, ReadAgain DEF CopyAgrees
<1>5. CASE Restart
  <2>1. UNCHANGED <<server, ver>> /\ n' = Nil
    BY <1>5 DEF Restart
  <2>2. \A u \in Informers : cache'[u] = server[u] /\ watch'[u] = <<>>
    BY <1>5 DEF Restart
  <2> QED BY <2>1, <2>2, ReadAgain DEF CopyAgrees
<1>6. CASE Resync \/ RetryDue \/ \E t \in Informers : Handle(t)
  BY <1>2, <1>6 DEF Resync, RetryDue, Handle
<1>7. CASE Sync
  <2>1. Served
    BY <1>7, SyncServed
  <2>2. UNCHANGED cache
    BY <1>7 DEF Sync, SyncInvalid, SyncDefaults, SyncReconcile, SyncDeleted, FinishSync
  <2> QED BY <1>7, <2>1, <2>2, CopyStarts, ServedCurrent
<1>8. ASSUME NEW k \in Kinds, TaskStep(k) PROVE Versioned'
  BY <1>1, <1>8, TaskServed DEF local
<1>9. CASE Outsider \/ FinalizeNotebook \/ \E k \in Kinds : Helps(k) \/ PodsUnready(k)
  BY <1>1, <1>9, UserServed, FinalizeServed, ClusterServed DEF operator
<1>10. CASE UNCHANGED vars
  BY <1>2, <1>10 DEF vars
<1> QED BY <1>3, <1>4, <1>5, <1>6, <1>7, <1>8, <1>9, <1>10 DEF Next

LEMMA VersionedInvariant == Spec => []Versioned
<1>1. Init => Versioned
  BY DEF Init, Versioned, ReadCurrent, CopyAgrees
<1> QED BY <1>1, Invariant, VersionedStep, PTL DEF Spec

\* A resource version names one state of an object: whatever has the version
\* that the API server has is what the API server has, so that an update that
\* is accepted replaces what it was computed from.
THEOREM VersionsCorrect == Spec => []VersionsAgree
<1>1. Versioned => VersionsAgree
  <2> SUFFICES ASSUME Versioned PROVE VersionsAgree
    OBVIOUS
  <2>1. \A t \in Informers : server[t] # Nil =>
          \A obj \in {cache[t]} \cup {watch[t][i] : i \in 1..Len(watch[t])} :
            obj # Nil /\ obj.rv = server[t].rv => obj = server[t]
    BY DEF Versioned, ReadCurrent, Current
  <2> QED BY <2>1 DEF Versioned, CopyAgrees, VersionsAgree
<1> QED BY <1>1, VersionedInvariant, PTL
-----------------------------------------------------------------------------
(* What single steps do to what is in the API server *)

\* A write puts nothing, or the object in its new version.
LEMMA PutEffect ==
  ASSUME ClusterOK, NEW t \in Informers, NEW obj, Put(t, obj)
  PROVE  /\ \A u \in Informers \ {t} : server'[u] = server[u]
         /\ \/ server'[t] = server[t]
            \/ obj = Nil /\ server'[t] = Nil
            \/ server'[t] = [obj EXCEPT !.rv = ver[t] + 1]
BY DEF Put, ClusterOK, cluster

LEMMA PutNil ==
  ASSUME ClusterOK, NEW t \in Informers, Put(t, Nil)
  PROVE  server'[t] = Nil
BY DEF Put, ClusterOK, cluster

\* A request has the effect of its answer or none.
LEMMA RequestEffect ==
  ASSUME ClusterOK, NEW t \in Informers, NEW answer, NEW result, Request(t, answer, result)
  PROVE  Put(t, answer.object) \/ UNCHANGED server
BY DEF Request, cluster

\* An update has an effect only on the version that it names.
LEMMA UpdateEffect ==
  ASSUME ClusterOK, NEW t \in Informers, NEW rv, NEW obj, NEW result,
         Request(t, Update(t, rv, obj), result)
  PROVE  /\ \A u \in Informers \ {t} : server'[u] = server[u]
         /\ \/ server'[t] = server[t]
            \/ server'[t] = Nil
            \/ /\ server[t] # Nil /\ server[t].rv = rv
               /\ server'[t] = [obj EXCEPT !.rv = ver[t] + 1]
<1>1. CASE UNCHANGED server
  BY <1>1
<1>2. CASE server[t] # Nil /\ server[t].rv = rv /\ Put(t, obj)
  BY <1>2, PutEffect
<1>3. ASSUME Put(t, server[t]) PROVE UNCHANGED server
  BY <1>3 DEF Put, cluster
<1>4. CASE server[t] = Nil /\ Put(t, Nil)
  BY <1>3, <1>4
<1> QED BY <1>1, <1>2, <1>3, <1>4, RequestEffect DEF Update, Answer

\* What a goroutine may do to its resource: make it, remove it, mark it as
\* being deleted, or update what it read to what it computed.
TaskEffects(k) ==
  \/ server'[k] = server[k]
  \/ server[k] = Nil
  \/ server'[k] = Nil
  \/ server'[k] = [[server[k] EXCEPT !.deleting = TRUE] EXCEPT !.rv = ver[k] + 1]
  \/ /\ Adoptable(k)
     /\ server[k] = cache[k]
     /\ server'[k].content = IF k = "StatefulSet" THEN cache[k].content ELSE Kept(k)

LEMMA TaskEffect ==
  ASSUME IInv, Versioned, NEW k \in Kinds, TaskStep(k)
  PROVE  /\ \A t \in Informers \ {k} : server'[t] = server[t]
         /\ TaskEffects(k)
<1> k \in Informers
  BY DEF Informers
<1> USE DEF IInv
<1>1. ASSUME NEW obj, NEW result, Request(k, Creation(k, obj), result)
      PROVE  /\ \A t \in Informers \ {k} : server'[t] = server[t]
             /\ server'[k] = server[k] \/ server[k] = Nil
  <2>1. ASSUME Put(k, server[k]) PROVE UNCHANGED server
    BY <2>1 DEF Put, cluster
  <2>2. CASE server[k] = Nil
    BY <1>1, <2>2, RequestEffect, PutEffect
  <2>3. CASE server[k] # Nil
    BY <1>1, <2>1, <2>3, RequestEffect DEF Creation, Answer
  <2> QED BY <2>2, <2>3
<1>2. ASSUME NEW obj, NEW result, Request(k, Deletion(k, obj), result)
      PROVE  Put(k, obj) \/ UNCHANGED server
  <2>1. ASSUME Put(k, server[k]) PROVE UNCHANGED server
    BY <2>1 DEF Put, cluster
  <2> QED BY <1>2, <2>1, RequestEffect DEF Deletion, Answer
<1>3. ASSUME NEW content, NEW result, cache[k] # Nil,
             Request(k, Update(k, cache[k].rv, Overwritten(k, content)), result)
      PROVE  /\ \A t \in Informers \ {k} : server'[t] = server[t]
             /\ \/ server'[k] = server[k]
                \/ server'[k] = Nil
                \/ server[k] = cache[k] /\ server'[k].content = content
  <2>1. CASE server'[k] = server[k] \/ server'[k] = Nil
    BY <1>3, <2>1, UpdateEffect
  <2>2. CASE /\ server[k] # Nil /\ server[k].rv = cache[k].rv
             /\ server'[k] = [Overwritten(k, content) EXCEPT !.rv = ver[k] + 1]
             /\ server'[k] # Nil
    <3>1. server[k] = cache[k]
      BY <1>3, <2>2 DEF Versioned, ReadCurrent, Current
    <3>2. server[k] \in Managed(k) \cup Foreign
      BY <2>2, NotebookIsNoKind DEF ClusterOK, Optional, Objects
    <3>3. CASE ~server[k].deleting
      <4>1. Overwritten(k, content)
              = [server[k] EXCEPT !.owner = n.uid, !.managed = TRUE, !.content = content]
        BY <3>3 DEF Overwritten
      <4>2. server'[k].content = content
        BY <2>2, <3>2, <4>1 DEF Managed, Foreign
      <4> QED BY <1>3, <3>1, <4>2, UpdateEffect
    <3>4. CASE server[k].deleting
      <4>1. Overwritten(k, content) = Nil
        BY <3>4 DEF Overwritten
      <4>2. server'[k] = server[k] \/ server'[k] = Nil
        <5>1. Put(k, Nil) \/ Put(k, server[k]) \/ UNCHANGED server
          BY <1>3, <4>1, RequestEffect DEF Update, Answer
        <5> QED BY <5>1 DEF Put, ClusterOK, cluster
      <4> QED BY <1>3, <4>2, UpdateEffect
    <3> QED BY <3>3, <3>4
  <2> QED BY <1>3, <2>1, <2>2, UpdateEffect
<1>4. CASE DeleteResource(k)
  <2> DEFINE obj == IF server[k] # Nil /\ server[k].deleting THEN server[k] ELSE Nil
  <2>1. Put(k, obj) \/ UNCHANGED server
    BY <1>2, <1>4 DEF DeleteResource
  <2>2. obj = Nil \/ obj = server[k]
    OBVIOUS
  <2> HIDE DEF obj
  <2>3. CASE Put(k, server[k])
    BY <2>3 DEF Put, cluster, TaskEffects
  <2>4. CASE Put(k, Nil)
    BY <2>4, PutNil, PutEffect DEF TaskEffects
  <2> QED BY <2>1, <2>2, <2>3, <2>4 DEF TaskEffects
<1>5. CASE CreateResource(k) \/ RecreateStatefulSet(k)
  BY <1>1, <1>5 DEF CreateResource, RecreateStatefulSet, TaskEffects
<1>6. CASE UpdateResource(k)
  <2>1. Adoptable(k) /\ cache[k] # Nil /\ k # "StatefulSet"
    BY <1>6 DEF UpdateResource, Adoptable
  <2> QED BY <1>3, <1>6, <2>1 DEF UpdateResource, TaskEffects
<1>7. CASE AdoptStatefulSet(k)
  <2>1. Adoptable(k) /\ cache[k] # Nil /\ k = "StatefulSet"
    BY <1>7 DEF AdoptStatefulSet, Adoptable
  <2> QED BY <1>3, <1>7, <2>1 DEF AdoptStatefulSet, TaskEffects
<1>8. CASE DeleteOldStatefulSet(k)
  <2> DEFINE obj == [server[k] EXCEPT !.deleting = TRUE]
  <2>1. Put(k, obj) \/ UNCHANGED server
    BY <1>2, <1>8 DEF DeleteOldStatefulSet
  <2>2. CASE Put(k, obj)
    BY <2>2, PutEffect DEF TaskEffects
  <2> QED BY <2>1, <2>2, <1>8 DEF TaskEffects
<1>9. CASE RefuseResource(k) \/ StatefulSetGone(k) \/ Poll(k) \/ TimeOutGone(k) \/ TimeOutWait(k)
  BY <1>9 DEF RefuseResource, StatefulSetGone, Poll, TimeOutGone, TimeOutWait, cluster,
              TaskEffects
<1> QED BY <1>4, <1>5, <1>6, <1>7, <1>8, <1>9 DEF TaskStep

\* Of the resources, sync itself touches none.
LEMMA SyncEffect ==
  ASSUME IInv, Sync, NEW k \in Kinds
  PROVE  server'[k] = server[k]
<1> k \in Informers /\ k # "Notebook" /\ "Notebook" \in Informers
  BY NotebookIsNoKind DEF Informers
<1> USE DEF IInv
<1>1. ASSUME NEW m, NEW phase, NEW result, SetNotebookPhase(m, phase, result)
      PROVE  server'[k] = server[k]
  BY <1>1, UpdateEffect DEF SetNotebookPhase, cluster
<1>2. CASE SyncDefaults
  BY <1>2, UpdateEffect DEF SyncDefaults, DefaultsUpdate
<1>3. CASE SyncInvalid \/ SyncReconcile \/ SyncDeleted
  BY <1>1, <1>3 DEF SyncInvalid, SyncReconcile, SyncDeleted, cluster
<1>4. CASE FinishSync
  BY <1>1, <1>4 DEF FinishSync, cluster
<1> QED BY <1>2, <1>3, <1>4 DEF Sync

\* Nor do users and the cluster change what is in a resource, but for the
\* certificate that another operator puts into a managed secret.
OtherEffects(k) ==
  \/ server'[k] = server[k]
  \/ server[k] = Nil
  \/ server'[k] = Nil
  \/ \E ready \in BOOLEAN :
       server'[k] = [[server[k] EXCEPT !.ready = ready] EXCEPT !.rv = ver[k] + 1]
  \/ server[k].managed /\ budget'.rival # budget.rival

LEMMA OthersEffect ==
  ASSUME IInv, Outsider \/ FinalizeNotebook \/ \E j \in Kinds : Helps(j) \/ PodsUnready(j),
         NEW k \in Kinds
  PROVE  OtherEffects(k)
<1> k \in Informers /\ k # "Notebook" /\ "Notebook" \in Informers
  BY NotebookIsNoKind DEF Informers
<1> USE DEF IInv
<1>1. ASSUME NEW obj, Put("Notebook", obj) PROVE OtherEffects(k)
  BY <1>1, PutEffect DEF OtherEffects
<1>2. CASE FinalizeNotebook \/ DeleteNotebook
           \/ \E spec \in UserSpecs : CreateNotebook(spec) \/ EditNotebook(spec)
  BY <1>1, <1>2 DEF FinalizeNotebook, DeleteNotebook, CreateNotebook, EditNotebook
<1>3. ASSUME NEW j \in Kinds, CreateForeign(j) \/ Drop(j) \/ Terminate(j) \/ Collect(j)
      PROVE  OtherEffects(k)
  <2>1. j \in Informers
    BY DEF Informers
  <2>2. \E obj : Put(j, obj) /\ (obj = Nil \/ server[j] = Nil)
    BY <1>3 DEF CreateForeign, Drop, Terminate, Collect
  <2>3. CASE j # k
    BY <2>1, <2>2, <2>3, PutEffect DEF OtherEffects
  <2>4. CASE j = k /\ server[k] = Nil
    BY <2>4 DEF OtherEffects
  <2>5. CASE j = k /\ Put(k, Nil)
    BY <2>5, PutNil DEF OtherEffects
  <2> QED BY <2>2, <2>3, <2>4, <2>5
<1>4. ASSUME NEW j \in Kinds, PodsReady(j) \/ PodsUnready(j)
      PROVE  OtherEffects(k)
  <2>1. j \in Informers
    BY DEF Informers
  <2>2. PICK ready \in BOOLEAN : Put(j, [server[j] EXCEPT !.ready = ready])
    BY <1>4 DEF PodsReady, PodsUnready
  <2>3. server'[k] = server[k] \/ j = k
    BY <2>1, <2>2, PutEffect
  <2>4. CASE j = k
    <3> DEFINE obj == [server[k] EXCEPT !.ready = ready]
    <3>1. \/ server'[k] = server[k] \/ server'[k] = Nil
          \/ server'[k] = [obj EXCEPT !.rv = ver[k] + 1]
      BY <2>1, <2>2, <2>4, PutEffect
    <3> QED BY <3>1 DEF OtherEffects
  <2> QED BY <2>3, <2>4 DEF OtherEffects
<1>5. ASSUME NEW j \in Kinds, IssueCertificate(j) PROVE OtherEffects(k)
  BY <1>5 DEF IssueCertificate, cluster, OtherEffects
<1>6. CASE Rival
  <2>1. k = "Secret" \/ server'[k] = server[k]
    BY <1>6, PutEffect DEF Rival, Informers
  <2>2. server["Secret"].managed
    BY <1>6 DEF Rival
  <2>3. budget'.rival # budget.rival
    BY <1>6 DEF Rival, Spend, RestOK, Disturbances
  <2> QED BY <2>1, <2>2, <2>3 DEF OtherEffects
<1> QED BY <1>2, <1>3, <1>4, <1>5, <1>6 DEF Outsider, Helps
-----------------------------------------------------------------------------
(* What never happens in a step *)

\* A resource changes by what a goroutine or somebody else does to it, or not.
LEMMA ResourceEffect ==
  ASSUME IInv, Versioned, [Next]_vars, NEW k \in Kinds
  PROVE  TaskEffects(k) \/ OtherEffects(k)
<1>1. CASE UNCHANGED server
  BY <1>1 DEF TaskEffects
<1>2. CASE \/ UNCHANGED vars \/ Resync \/ RetryDue \/ Restart
           \/ \E t \in Informers : Deliver(t) \/ Relist(t) \/ Handle(t)
  BY <1>1, <1>2 DEF vars, Resync, RetryDue, Restart, Deliver, Relist, Handle
<1>3. CASE Sync
  BY <1>3, SyncEffect DEF TaskEffects
<1>4. ASSUME NEW j \in Kinds, TaskStep(j)
      PROVE  TaskEffects(k)
  <2>1. CASE j = k
    BY <1>4, <2>1, TaskEffect
  <2>2. CASE j # k
    BY <1>4, <2>2, TaskEffect DEF TaskEffects, Informers
  <2> QED BY <2>1, <2>2
<1>5. CASE Outsider \/ FinalizeNotebook \/ \E j \in Kinds : Helps(j) \/ PodsUnready(j)
  BY <1>5, OthersEffect
<1> QED BY <1>2, <1>3, <1>4, <1>5 DEF Next

\* What somebody else made under the name of a resource is never changed but
\* for being deleted: every path to an update goes through isManagedByOperator,
\* and what was read is what is overwritten.
THEOREM ForeignSafe == Spec => ForeignNotAdopted
<1>1. ASSUME IInv, Versioned, [Next]_vars, NEW k \in Kinds,
             server[k] # Nil, ~server[k].managed, server'[k] # Nil
      PROVE  [server'[k] EXCEPT !.deleting = FALSE, !.rv = 0, !.ready = FALSE]
               = [server[k] EXCEPT !.deleting = FALSE, !.rv = 0, !.ready = FALSE]
  <2>1. server[k] \in Foreign
    BY <1>1, NotebookIsNoKind DEF IInv, ClusterOK, Optional, Objects, Managed, Informers
  <2>2. ~(Adoptable(k) /\ server[k] = cache[k])
    BY <1>1 DEF Adoptable
  <2>3. \/ server'[k] = server[k]
        \/ server'[k] = [[server[k] EXCEPT !.deleting = TRUE] EXCEPT !.rv = ver[k] + 1]
        \/ \E ready \in BOOLEAN :
             server'[k] = [[server[k] EXCEPT !.ready = ready] EXCEPT !.rv = ver[k] + 1]
    BY <1>1, <2>2, ResourceEffect DEF TaskEffects, OtherEffects
  <2> QED BY <2>1, <2>3 DEF Foreign
<1>2. IInv /\ Versioned /\ [Next]_vars =>
        [\A k \in Kinds :
           server[k] # Nil /\ ~server[k].managed /\ server'[k] # Nil
             => [server'[k] EXCEPT !.deleting = FALSE, !.rv = 0, !.ready = FALSE]
                  = [server[k] EXCEPT !.deleting = FALSE, !.rv = 0, !.ready = FALSE]]_vars
  BY <1>1
<1> QED BY <1>2, Invariant, VersionedInvariant, PTL DEF Spec, ForeignNotAdopted

\* A certificate that the running authority signed stays in its secret: it is
\* found in what is overwritten, or the new secret has none.
THEOREM CertificatesKept == Spec => CertificateKept
<1> DEFINE Step == LET old == server["Secret"]
                       new == server'["Secret"]
                   IN /\ "Secret" \in Kinds
                      /\ old # Nil /\ new # Nil
                      /\ old.managed /\ new.managed
                      /\ old.content.cert # Nil /\ new.content.cert # Nil
                      /\ old.content.cert.ca = ca
                      /\ budget'.rival = budget.rival
                      => new.content.cert = old.content.cert
<1>1. ASSUME IInv, Versioned, [Next]_vars PROVE Step
  <2> SUFFICES ASSUME "Secret" \in Kinds,
                      server["Secret"] # Nil, server'["Secret"] # Nil,
                      server["Secret"].managed,
                      server["Secret"].content.cert # Nil,
                      server'["Secret"].content.cert # Nil,
                      server["Secret"].content.cert.ca = ca,
                      budget'.rival = budget.rival
               PROVE  server'["Secret"].content.cert = server["Secret"].content.cert
    OBVIOUS
  <2>1. server["Secret"] \in Managed("Secret")
    BY <1>1, ManagedTyped DEF IInv, ClusterOK, Optional, Informers
  <2>2. CASE /\ server["Secret"] = cache["Secret"]
             /\ server'["Secret"].content = Kept("Secret")
    <3>1. Desired("Secret") = [cert |-> Desired("Secret").cert,
                               password |-> Desired("Secret").password]
      BY DEF Desired, SecretContent
    <3>2. CASE Desired("Secret").cert # Nil
      <4>1. Kept("Secret") = [Desired("Secret") EXCEPT !.cert = cache["Secret"].content.cert]
        BY <2>2, <3>2 DEF Kept
      <4> QED BY <2>2, <3>1, <4>1
    <3>3. CASE Desired("Secret").cert = Nil
      BY <2>2, <3>3 DEF Kept
    <3> QED BY <3>2, <3>3
  <2>3. CASE \/ server'["Secret"] = server["Secret"]
             \/ server'["Secret"] = [[server["Secret"] EXCEPT !.deleting = TRUE]
                                       EXCEPT !.rv = ver["Secret"] + 1]
             \/ \E ready \in BOOLEAN :
                  server'["Secret"] = [[server["Secret"] EXCEPT !.ready = ready]
                                        EXCEPT !.rv = ver["Secret"] + 1]
    BY <2>1, <2>3 DEF Managed
  <2> QED BY <1>1, <2>2, <2>3, ResourceEffect DEF TaskEffects, OtherEffects
<1>2. IInv /\ Versioned /\ [Next]_vars => [Step]_vars
  BY <1>1
<1> QED BY <1>2, Invariant, VersionedInvariant, PTL DEF Spec, CertificateKept

\* What a step may do to the notebook's specification.
NotebookEffects ==
  LET old == server["Notebook"]
      new == server'["Notebook"]
  IN \/ old = Nil
     \/ new = Nil
     \/ new.spec = old.spec
     \/ new.spec = SetDefaults(old.spec)
     \/ budget'.edit # budget.edit

LEMMA SyncKeepsSpec ==
  ASSUME IInv, Versioned, Sync
  PROVE  NotebookEffects
<1> USE DEF IInv
<1> USE NotebookInformer
<1>1. server["Notebook"] # Nil => server["Notebook"] \in Notebooks
  BY DEF ClusterOK, Optional, Objects
<1>2. ASSUME NEW m, NEW phase, NEW result, SetNotebookPhase(m, phase, result)
      PROVE  NotebookEffects
  <2>1. CASE UNCHANGED cluster
    BY <2>1 DEF NotebookEffects, cluster
  <2>2. CASE Request("Notebook",
                     Update("Notebook", m.rv, [server["Notebook"] EXCEPT !.phase = phase]),
                     result)
    <3>1. \/ server'["Notebook"] = server["Notebook"]
          \/ server'["Notebook"] = Nil
          \/ /\ server["Notebook"] # Nil
             /\ server'["Notebook"] = [[server["Notebook"] EXCEPT !.phase = phase]
                                        EXCEPT !.rv = ver["Notebook"] + 1]
      BY <2>2, UpdateEffect
    <3>2. CASE server["Notebook"] # Nil
      <4>1. PICK o \in Notebooks : o = server["Notebook"]
        BY <1>1, <3>2
      <4>2. [[o EXCEPT !.phase = phase] EXCEPT !.rv = ver["Notebook"] + 1].spec = o.spec
        BY DEF Notebooks
      <4> QED BY <3>1, <4>1, <4>2 DEF NotebookEffects
    <3> QED BY <3>2 DEF NotebookEffects
  <2> QED BY <1>2, <2>1, <2>2 DEF SetNotebookPhase
<1>3. CASE SyncDefaults
  <2> DEFINE m == cache["Notebook"]
  <2>1. PICK result \in Results :
          Request("Notebook",
                  Update("Notebook", m.rv,
                         [server["Notebook"] EXCEPT !.spec = SetDefaults(m.spec)]),
                  result)
    BY <1>3 DEF SyncDefaults, DefaultsUpdate
  <2>2. \/ server'["Notebook"] = server["Notebook"]
        \/ server'["Notebook"] = Nil
        \/ /\ server["Notebook"] # Nil /\ server["Notebook"].rv = m.rv
           /\ server'["Notebook"]
                = [[server["Notebook"] EXCEPT !.spec = SetDefaults(m.spec)]
                    EXCEPT !.rv = ver["Notebook"] + 1]
    BY <2>1, UpdateEffect
  <2>3. m # Nil
    BY <1>3 DEF SyncDefaults
  <2>4. server["Notebook"] # Nil /\ server["Notebook"].rv = m.rv => server["Notebook"] = m
    BY <2>3 DEF Versioned, ReadCurrent, Current
  <2> QED BY <1>1, <2>2, <2>4 DEF NotebookEffects, Notebooks
<1>4. CASE SyncDeleted
  BY <1>4 DEF SyncDeleted, cluster, NotebookEffects
<1>5. CASE SyncInvalid \/ SyncReconcile \/ FinishSync
  <2>1. UNCHANGED cluster \/ \E m, phase, result : SetNotebookPhase(m, phase, result)
    BY <1>5 DEF SyncInvalid, SyncReconcile, FinishSync
  <2> QED BY <1>2, <2>1 DEF NotebookEffects, cluster
<1> QED BY <1>3, <1>4, <1>5 DEF Sync

LEMMA UserKeepsSpec ==
  ASSUME IInv, Outsider \/ FinalizeNotebook \/ \E j \in Kinds : Helps(j) \/ PodsUnready(j)
  PROVE  NotebookEffects
<1> USE DEF IInv
<1> USE NotebookInformer
<1>1. server["Notebook"] # Nil => server["Notebook"] \in Notebooks
  BY DEF ClusterOK, Optional, Objects
<1>2. ASSUME NEW spec \in UserSpecs, CreateNotebook(spec) PROVE NotebookEffects
  BY <1>2 DEF CreateNotebook, NotebookEffects
<1>3. ASSUME NEW spec \in UserSpecs, EditNotebook(spec) PROVE NotebookEffects
  BY <1>3 DEF EditNotebook, Spend, RestOK, Disturbances, NotebookEffects
<1>4. ASSUME Put("Notebook", Nil) PROVE NotebookEffects
  BY <1>4, PutNil DEF NotebookEffects
<1>5. CASE DeleteNotebook
  <2>1. CASE Put("Notebook", [server["Notebook"] EXCEPT !.deleting = TRUE])
    <3>1. \/ server'["Notebook"] = server["Notebook"]
          \/ server'["Notebook"] = Nil
          \/ server'["Notebook"] = [[server["Notebook"] EXCEPT !.deleting = TRUE]
                                     EXCEPT !.rv = ver["Notebook"] + 1]
      BY <2>1, PutEffect
    <3>2. CASE server["Notebook"] # Nil
      <4>1. PICK m \in Notebooks : m = server["Notebook"]
        BY <1>1, <3>2
      <4>2. [[m EXCEPT !.deleting = TRUE] EXCEPT !.rv = ver["Notebook"] + 1].spec = m.spec
        BY DEF Notebooks
      <4> QED BY <3>1, <4>1, <4>2 DEF NotebookEffects
    <3> QED BY <3>2 DEF NotebookEffects
  <2> QED BY <1>4, <1>5, <2>1 DEF DeleteNotebook
<1>6. CASE FinalizeNotebook
  BY <1>4, <1>6 DEF FinalizeNotebook
<1>7. ASSUME NEW j \in Kinds, CreateForeign(j) \/ Drop(j) \/ Helps(j) \/ PodsUnready(j)
      PROVE  NotebookEffects
  <2>1. UNCHANGED cluster \/ \E obj : Put(j, obj)
    BY <1>7 DEF CreateForeign, Drop, Helps, PodsReady, Terminate, Collect,
                IssueCertificate, PodsUnready
  <2>2. j \in Informers /\ j # "Notebook"
    BY NotebookIsNoKind DEF Informers
  <2> QED BY <2>1, <2>2, PutEffect DEF cluster, NotebookEffects
<1>8. CASE Rival
  <2>1. "Secret" \in Informers /\ "Secret" # "Notebook"
    BY <1>8 DEF Rival, Informers
  <2> QED BY <1>8, <2>1, PutEffect DEF Rival, NotebookEffects
<1> QED BY <1>2, <1>3, <1>5, <1>6, <1>7, <1>8 DEF Outsider

\* No edit is lost: the only update that the operator computes from its copy
\* is accepted only if the copy is what it replaces.
THEOREM EditsKept == Spec => NoLostEdit
<1> DEFINE Step == LET old == server["Notebook"]
                       new == server'["Notebook"]
                   IN old # Nil /\ new # Nil /\ new.spec # old.spec /\ budget'.edit = budget.edit
                        => new.spec = SetDefaults(old.spec)
<1>1. ASSUME IInv, Versioned, [Next]_vars PROVE NotebookEffects
  <2>1. CASE UNCHANGED server
    BY <2>1 DEF NotebookEffects
  <2>2. CASE \/ UNCHANGED vars \/ Resync \/ RetryDue \/ Restart
             \/ \E t \in Informers : Deliver(t) \/ Relist(t) \/ Handle(t)
    BY <2>1, <2>2 DEF vars, Resync, RetryDue, Restart, Deliver, Relist, Handle
  <2>3. ASSUME NEW k \in Kinds, TaskStep(k) PROVE NotebookEffects
    BY <1>1, <2>3, TaskEffect, NotebookInformer, NotebookIsNoKind DEF NotebookEffects
  <2> QED BY <1>1, <2>2, <2>3, SyncKeepsSpec, UserKeepsSpec DEF Next
<1>2. IInv /\ Versioned /\ [Next]_vars => [Step]_vars
  BY <1>1 DEF NotebookEffects
<1> QED BY <1>2, Invariant, VersionedInvariant, PTL DEF Spec, NoLostEdit
-----------------------------------------------------------------------------
(* Budgets *)

\* No disturbance happens more often than it may.
Bounded == \A d \in Disturbances : budget[d] <= Limits[d]

LEMMA SpendFalls ==
  ASSUME RestOK, NEW d \in Disturbances, Spend(d)
  PROVE  \A e \in Disturbances : budget'[e] <= budget[e]
BY DEF RestOK, Spend

\* A step spends at most one disturbance.
Spends == UNCHANGED budget \/ \E d \in Disturbances : Spend(d)

LEMMA RequestSpends ==
  ASSUME NEW t, NEW answer, NEW result, Request(t, answer, result)
  PROVE  Spends
BY DEF Request, Spends, Disturbances

LEMMA SyncSpends ==
  ASSUME Sync
  PROVE  Spends
<1>1. ASSUME NEW m, NEW phase, NEW result, SetNotebookPhase(m, phase, result)
      PROVE  Spends
  BY <1>1, RequestSpends DEF SetNotebookPhase, Spends
<1>2. CASE SyncInvalid \/ SyncReconcile
  BY <1>1, <1>2 DEF SyncInvalid, SyncReconcile
<1>3. CASE SyncDefaults
  BY <1>3, RequestSpends DEF SyncDefaults
<1>4. CASE SyncDeleted
  BY <1>4 DEF SyncDeleted, Spends
<1>5. CASE FinishSync
  BY <1>1, <1>5 DEF FinishSync, Spends
<1> QED BY <1>2, <1>3, <1>4, <1>5 DEF Sync

LEMMA TaskSpends ==
  ASSUME NEW k, TaskStep(k)
  PROVE  Spends
<1>1. CASE DeleteResource(k) \/ CreateResource(k) \/ UpdateResource(k)
           \/ AdoptStatefulSet(k) \/ DeleteOldStatefulSet(k) \/ RecreateStatefulSet(k)
  <2>1. \E answer, result : Request(k, answer, result)
    BY <1>1 DEF DeleteResource, CreateResource, UpdateResource, AdoptStatefulSet,
                DeleteOldStatefulSet, RecreateStatefulSet
  <2> QED BY <2>1, RequestSpends
<1>2. CASE RefuseResource(k) \/ StatefulSetGone(k) \/ Poll(k) \/ TimeOutGone(k) \/ TimeOutWait(k)
  BY <1>2 DEF RefuseResource, StatefulSetGone, Poll, TimeOutGone, TimeOutWait, Spends,
              Disturbances
<1> QED BY <1>1, <1>2 DEF TaskStep

LEMMA OutsiderSpends ==
  ASSUME Outsider \/ FinalizeNotebook \/ \E k \in Kinds : Helps(k) \/ PodsUnready(k)
  PROVE  Spends
BY DEF Outsider, CreateNotebook, EditNotebook, DeleteNotebook, CreateForeign, Drop, Rival,
       FinalizeNotebook, Helps, PodsReady, Terminate, Collect, IssueCertificate,
       PodsUnready, Spends, Disturbances

LEMMA StepSpends == [Next]_vars => Spends
<1>1. CASE UNCHANGED vars \/ Resync \/ RetryDue \/ Restart
           \/ \E t \in Informers : Deliver(t) \/ Relist(t) \/ Handle(t)
  BY <1>1 DEF vars, Resync, RetryDue, Restart, Deliver, Relist, Handle, Spends, Disturbances
<1> QED BY <1>1, SyncSpends, TaskSpends, OutsiderSpends DEF Next

LEMMA BoundedStep == IInv /\ Bounded /\ [Next]_vars => Bounded'
<1> SUFFICES ASSUME IInv, Bounded, [Next]_vars PROVE Bounded'
  OBVIOUS
<1>1. \A e \in Disturbances : budget'[e] <= budget[e]
  BY StepSpends, SpendFalls DEF Spends, IInv, RestOK
<1>2. \A e \in Disturbances : budget[e] \in Nat /\ budget'[e] \in Nat /\ Limits[e] \in Nat
  BY InvariantStep, ControllerAssumption DEF IInv, RestOK
<1> QED BY <1>1, <1>2 DEF Bounded
-----------------------------------------------------------------------------
(* What the steps write *)

\* The steps that write to the API server.
Writer == \/ Sync \/ Outsider \/ FinalizeNotebook
          \/ \E k \in Kinds : TaskStep(k) \/ Helps(k) \/ PodsUnready(k)

LEMMA WriterServed ==
  ASSUME IInv, Writer
  PROVE  Served /\ UNCHANGED <<cache, notices>>
<1>1. CASE Sync
  BY <1>1, SyncServed DEF Sync, SyncInvalid, SyncDefaults, SyncReconcile, SyncDeleted,
                          FinishSync
<1>2. CASE Outsider \/ FinalizeNotebook \/ \E k \in Kinds : Helps(k) \/ PodsUnready(k)
  BY <1>2, UserServed, FinalizeServed, ClusterServed DEF operator
<1>3. ASSUME NEW k \in Kinds, TaskStep(k) PROVE Served /\ UNCHANGED <<cache, notices>>
  BY <1>3, TaskServed DEF local
<1> QED BY <1>1, <1>2, <1>3 DEF Writer

\* An object stays as it is, or changes and is told about.
Same(t) == server'[t] = server[t] /\ ver'[t] = ver[t] /\ watch'[t] = watch[t]
Grows(t) == /\ ver'[t] = ver[t] + 1
            /\ watch'[t] = Append(watch[t], server'[t])
            /\ server'[t] # server[t]
            /\ watch'[t] # <<>>

Written(t, obj) == IF obj = Nil THEN Nil ELSE [obj EXCEPT !.rv = ver[t] + 1]

LEMMA NoObject ==
  ASSUME NEW t \in Informers
  PROVE  Nil \notin Objects(t)
BY ObjectsAmongAll, NilAssumption

LEMMA ServedMoves ==
  ASSUME IInv, Versioned, Served, NEW t \in Informers
  PROVE  Same(t) \/ Grows(t)
<1> USE DEF IInv
<1>1. CASE server'[t] = server[t] /\ ver'[t] = ver[t] /\ watch'[t] = watch[t]
  BY <1>1 DEF Same
<1>2. CASE /\ ver'[t] = ver[t] + 1
           /\ server'[t] # Nil => server'[t].rv = ver[t] + 1
           /\ server'[t] \in Optional(Objects(t))
           /\ server[t] # Nil \/ server'[t] # Nil
           /\ watch'[t] = Append(watch[t], server'[t])
  <2>1. ver[t] \in Nat /\ watch[t] \in Seq(Optional(Objects(t)))
    BY DEF ClusterOK
  <2>2. server[t] # Nil => server[t].rv <= ver[t] /\ server[t].rv \in Nat
    BY RvTyped DEF Versioned, ReadCurrent, ClusterOK, Optional
  <2>3. server'[t] # server[t]
    BY <1>2, <2>1, <2>2
  <2>4. watch'[t] # <<>>
    BY <1>2, <2>1
  <2> QED BY <1>2, <2>3, <2>4 DEF Grows
<1> QED BY <1>1, <1>2, ServedVersions

LEMMA PutMoves ==
  ASSUME IInv, Versioned, NEW t \in Informers, NEW obj \in Optional(Objects(t)), Put(t, obj)
  PROVE  /\ \A u \in Informers \ {t} : Same(u)
         /\ \/ obj = server[t] /\ Same(t)
            \/ obj # server[t] /\ Grows(t) /\ server'[t] = Written(t, obj)
<1> USE DEF IInv
<1>1. Served
  BY DEF Served, Writes
<1>2. CASE obj = server[t]
  BY <1>2 DEF Put, Same, cluster
<1>3. CASE obj # server[t]
  <2>1. /\ server' = [server EXCEPT ![t] = Written(t, obj)]
        /\ ver' = [ver EXCEPT ![t] = @ + 1]
        /\ watch' = [watch EXCEPT ![t] = Append(@, Written(t, obj))]
    BY <1>3 DEF Put, Written
  <2>2. \A u \in Informers \ {t} : Same(u)
    BY <2>1 DEF Same, ClusterOK
  <2>3. ver'[t] = ver[t] + 1 /\ ver[t] \in Nat /\ server'[t] = Written(t, obj)
    BY <2>1 DEF ClusterOK
  <2>4. ~Same(t)
    BY <2>3 DEF Same
  <2> QED BY <1>1, <1>3, <2>2, <2>3, <2>4, ServedMoves
<1> QED BY <1>2, <1>3

LEMMA ClusterSame == UNCHANGED cluster => \A t \in Informers : Same(t)
BY DEF cluster, Same

LEMMA NilPut ==
  ASSUME IInv, Versioned, NEW t \in Informers, Put(t, Nil)
  PROVE  /\ \A u \in Informers \ {t} : Same(u)
         /\ Same(t) \/ (Grows(t) /\ server'[t] = Nil)
<1>1. Nil \in Optional(Objects(t))
  BY DEF Optional
<1> QED BY <1>1, PutMoves DEF Written

LEMMA ServedNotebook ==
  ASSUME IInv
  PROVE  server["Notebook"] # Nil => server["Notebook"] \in Notebooks
BY NotebookInformer DEF IInv, ClusterOK, Optional, Objects

\* What an informer has coming, a writer only adds to.
LEMMA StaysUnread ==
  ASSUME IInv, Versioned, Writer, NEW t \in Informers, watch[t] # <<>>
  PROVE  watch'[t] # <<>>
BY WriterServed, ServedMoves DEF Same, Grows

\* Whatever becomes of a request, it has no effect but the one it asks for, and
\* that only if the object is there, or is not, as the request supposes.
LEMMA UpdateWrites ==
  ASSUME NEW t \in Informers, NEW rv, NEW obj, NEW result,
         Request(t, Update(t, rv, obj), result)
  PROVE  \/ server[t] # Nil /\ server[t].rv = rv /\ Put(t, obj)
         \/ UNCHANGED cluster
<1>1. Put(t, Update(t, rv, obj).object) \/ UNCHANGED cluster
  BY DEF Request
<1>2. Put(t, server[t]) => UNCHANGED cluster
  BY DEF Put
<1> QED BY <1>1, <1>2 DEF Update, Answer

LEMMA CreationWrites ==
  ASSUME NEW t \in Informers, NEW obj, NEW result, Request(t, Creation(t, obj), result)
  PROVE  (server[t] = Nil /\ Put(t, obj)) \/ UNCHANGED cluster
<1>1. Put(t, Creation(t, obj).object) \/ UNCHANGED cluster
  BY DEF Request
<1>2. Put(t, server[t]) => UNCHANGED cluster
  BY DEF Put
<1> QED BY <1>1, <1>2 DEF Creation, Answer

LEMMA DeletionWrites ==
  ASSUME NEW t \in Informers, NEW obj, NEW result, Request(t, Deletion(t, obj), result)
  PROVE  (server[t] # Nil /\ Put(t, obj)) \/ UNCHANGED cluster
<1>1. Put(t, Deletion(t, obj).object) \/ UNCHANGED cluster
  BY DEF Request
<1>2. Put(t, server[t]) => UNCHANGED cluster
  BY DEF Put
<1> QED BY <1>1, <1>2 DEF Deletion, Answer

\* A writer that leaves an object as it is leaves its version and history.
LEMMA Unwritten ==
  ASSUME IInv, Versioned, Writer, NEW t \in Informers, server'[t] = server[t]
  PROVE  Same(t)
BY WriterServed, ServedMoves DEF Grows
-----------------------------------------------------------------------------
(* What others write *)

\* Others remove a resource, or change what is said of its state or signed.
OthersMove(k) ==
  LET old == server[k]
      new == server'[k]
  IN \/ Same(k)
     \/ Grows(k) /\ new = Nil
     \/ /\ Grows(k)
        /\ old # Nil
        /\ new # Nil
        /\ new.managed = old.managed
        /\ new.owner = old.owner
        /\ new.deleting = old.deleting
        /\ k = "Secret" \/ new.content = old.content

LEMMA ReadyPut ==
  ASSUME IInv, Versioned, NEW k \in Kinds, server[k] # Nil, NEW ready \in BOOLEAN,
         Put(k, [server[k] EXCEPT !.ready = ready])
  PROVE  /\ \A u \in Informers \ {k} : Same(u)
         /\ OthersMove(k)
         /\ server'[k] # Nil
<1> USE DEF IInv
<1>1. k \in Informers /\ ver[k] + 1 \in Nat
  BY DEF Informers, ClusterOK
<1>2. PICK old : old = server[k]
  OBVIOUS
<1>3. old \in Managed(k) \cup Foreign
  BY <1>1, <1>2, NotebookIsNoKind DEF ClusterOK, Optional, Objects
<1>4. PICK obj \in Managed(k) \cup Foreign : obj = [old EXCEPT !.ready = ready]
  BY <1>3 DEF Managed, Foreign
<1>5. PICK new \in Managed(k) \cup Foreign : new = [obj EXCEPT !.rv = ver[k] + 1]
  BY <1>1 DEF Managed, Foreign
<1>6. /\ new.managed = old.managed /\ new.owner = old.owner
      /\ new.deleting = old.deleting /\ new.content = old.content
  BY <1>3, <1>4, <1>5 DEF Managed, Foreign
<1>7. obj \in Optional(Objects(k)) /\ obj # Nil /\ new # Nil
  <2>1. Objects(k) = Managed(k) \cup Foreign
    BY NotebookIsNoKind DEF Objects
  <2> QED BY <1>1, <2>1, NoObject DEF Optional
<1>8. Put(k, obj)
  BY <1>2, <1>4
<1> QED BY <1>1, <1>2, <1>5, <1>6, <1>7, <1>8, PutMoves DEF Written, OthersMove, Same

LEMMA RivalMoves ==
  ASSUME IInv, Versioned, Rival
  PROVE  /\ \A u \in Informers \ {"Secret"} : Same(u)
         /\ OthersMove("Secret")
<1> USE DEF IInv
<1>1. "Secret" \in Kinds /\ "Secret" \in Informers
  BY DEF Rival, Informers
<1>2. ver["Secret"] \in Nat /\ ver["Secret"] + 1 \in Nat
  BY <1>1 DEF ClusterOK
<1>3. PICK old \in Managed("Secret") : old = server["Secret"] /\ old # Nil
  BY <1>1, ManagedTyped DEF Rival, ClusterOK, Optional
<1>4. old.content.cert \in Certificates
  BY <1>3 DEF Rival, Managed, Contents, Optional
<1>5. PICK cert \in Certificates :
        cert = [ca |-> Nil, host |-> old.content.cert.host, serial |-> ver["Secret"]]
  <2>1. old.content.cert.host \in Optional(Text)
    BY <1>4 DEF Certificates
  <2> QED BY <1>2, <2>1 DEF Certificates, Optional
<1>6. PICK content \in Contents("Secret") : content = [old.content EXCEPT !.cert = cert]
  BY <1>3 DEF Managed, Contents, Optional
<1>7. PICK obj \in Managed("Secret") : obj = [old EXCEPT !.content = content]
  BY <1>3 DEF Managed
<1>8. PICK new \in Managed("Secret") : new = [obj EXCEPT !.rv = ver["Secret"] + 1]
  BY <1>2 DEF Managed
<1>9. /\ new.managed = old.managed /\ new.owner = old.owner /\ new.deleting = old.deleting
  BY <1>3, <1>7, <1>8 DEF Managed
<1>10. obj \in Optional(Objects("Secret")) /\ obj # Nil /\ new # Nil
  <2>1. Managed("Secret") \subseteq Objects("Secret")
    BY DEF Objects
  <2> QED BY <1>1, <2>1, NoObject DEF Optional
<1>11. Put("Secret", obj)
  <2>1. obj = [old EXCEPT !.content.cert = cert]
    BY <1>3, <1>6, <1>7 DEF Managed
  <2> QED BY <1>3, <1>5, <2>1 DEF Rival
<1>12. /\ \A u \in Informers \ {"Secret"} : Same(u)
       /\ Same("Secret") \/ (Grows("Secret") /\ server'["Secret"] = Written("Secret", obj))
  BY <1>1, <1>10, <1>11, PutMoves
<1>13. Written("Secret", obj) = new
  BY <1>8, <1>10 DEF Written
<1> QED BY <1>3, <1>9, <1>10, <1>12, <1>13 DEF OthersMove
-----------------------------------------------------------------------------
(* The goroutines of the resources, one by one *)

\* A goroutine changes the state of none but its own.
LEMMA TaskAlone ==
  ASSUME IInv, NEW k \in Kinds, TaskStep(k)
  PROVE  \A j \in Kinds \ {k} : task'[j] = task[j]
<1>1. \E state : Goto(k, state)
  BY DEF TaskStep, DeleteResource, CreateResource, RefuseResource, UpdateResource,
         AdoptStatefulSet, DeleteOldStatefulSet, StatefulSetGone, TimeOutGone,
         RecreateStatefulSet, Poll, TimeOutWait
<1> QED BY <1>1 DEF Goto, IInv, OperatorOK

LEMMA TaskAt ==
  ASSUME NEW k \in Kinds, TaskStep(k)
  PROVE  n # Nil /\ task[k] \notin {"idle", "ok", "failed"}
BY DEF TaskStep, DeleteResource, CreateResource, RefuseResource, UpdateResource,
       AdoptStatefulSet, DeleteOldStatefulSet, StatefulSetGone, TimeOutGone,
       RecreateStatefulSet, Poll, TimeOutWait, At
=============================================================================
