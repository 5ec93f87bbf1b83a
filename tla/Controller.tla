----------------------------- MODULE Controller -----------------------------
(***************************************************************************)
(* The notebook controller: one notebook key, the API server's objects for *)
(* it, the informers that bring them into the caches the listers read, the *)
(* work queue, the sync of the key and the goroutine per resource that a   *)
(* sync starts.  Users, other controllers and the cluster act in between.  *)
(*                                                                         *)
(* A key is never processed by two workers at once (module WorkQueue), and *)
(* different keys share no object, so one key shows what a sync can meet.  *)
(*                                                                         *)
(* Reading a lister and the API call that follows are one action: the only *)
(* step another process could take in between that the call's arguments    *)
(* depend on is the delivery of an event to that informer's cache, and the *)
(* model can always make the delivery later.                               *)
(***************************************************************************)
EXTENDS NotebookSpec

CONSTANTS Kinds,      \* the kinds of resources under consideration
          UserSpecs,  \* the specifications that users write
          GC,         \* whether the cluster collects the dependents of a
                      \* deleted notebook
          Limits,     \* how often each disturbance may happen
          CollectBound \* the version of an object up to which it may be
                      \* collected before the operator hears of the deletion

Disturbances == {"create", "edit", "delete", "foreign", "drop", "unready",
                 "fault", "lost", "relist", "restart", "rival"}

ASSUME ControllerAssumption ==
         /\ Nil \notin Nat
         /\ Kinds \subseteq Kind
         /\ UserSpecs \subseteq NotebookSpecs
         /\ GC \in BOOLEAN
         /\ Limits \in [Disturbances -> Nat]
         /\ CollectBound \in Nat

VARIABLES
  server,   \* the objects of the API server, Nil for none
  ver,      \* how often each object changed: its resource versions
  watch,    \* the states an informer has not received yet, oldest first
  cache,    \* the objects the listers return
  notices,  \* the owners an informer's handler has still to look up;
            \* two notices of the same owner are one, because their only
            \* effect is to put the key in the queue
  queue,    \* the work queue's state for the key
  n,        \* the notebook that a sync reconciles, Nil when none does
  task,     \* where the goroutine of each resource is
  ca,       \* the certificate authority the running operator made
  issued,   \* whether the secret with the ingress's ACME certificate exists
  budget    \* the disturbances that may still happen

cluster == <<server, ver, watch>>
vars == <<server, ver, watch, cache, notices, queue, n, task, ca, issued, budget>>

Informers == Kinds \cup {"Notebook"}

Phases == {"", "Pending", "Running", "Failed"}

Notebooks == [uid : Nat, rv : Nat, spec : NotebookSpecs, phase : Phases,
              deleting : BOOLEAN]

\* The authority is Nil when another operator signed.
Certificates == [ca : Optional(Nat), host : Optional(Text), serial : Nat]

Templates == [flavor : Optional(Text), gpu : {"off", "DecimalSI", "DecimalExponent"},
              packages : Seq(Seq(Text) \ {<<>>}), password : BOOLEAN,
              certs : BOOLEAN, serviceAccountName : Optional(Text)]

Contents(k) ==
  CASE k = "Service" -> {ServiceContent}
    [] k = "Ingress" -> [host : Optional(Text), backend : Backends,
                         tls : {"off", "acme", "passthrough"}]
    [] k = "Secret" -> [cert : Optional(Certificates), password : Optional(Text)]
    [] k = "StatefulSet" -> Templates

\* Only the presence of the managed-by label and of the owner's UID matter.
\* An object that is not managed by the operator is somebody else's.
Managed(k) == [rv : Nat, owner : Nat, managed : {TRUE}, content : Contents(k),
               deleting : BOOLEAN, ready : BOOLEAN]
Foreign == [rv : Nat, owner : {Nil}, managed : {FALSE}, content : {Nil},
            deleting : BOOLEAN, ready : BOOLEAN]

Objects(t) == IF t = "Notebook" THEN Notebooks ELSE Managed(t) \cup Foreign
AllObjects == Notebooks \cup Foreign \cup Managed("Service") \cup Managed("Ingress")
                \cup Managed("Secret") \cup Managed("StatefulSet")

TaskStates == {"idle", "reconcile", "gone", "recreate", "poll", "wait", "ok", "failed"}

InitialQueue == [dirty |-> FALSE, processing |-> FALSE, waiting |-> FALSE]

Init == /\ server = [t \in Informers |-> Nil]
        /\ ver = [t \in Informers |-> 0]
        /\ watch = [t \in Informers |-> <<>>]
        /\ cache = [t \in Informers |-> Nil]
        /\ notices = [t \in Informers |-> {}]
        /\ queue = InitialQueue
        /\ n = Nil
        /\ task = [k \in Kinds |-> "idle"]
        /\ ca = 0
        /\ issued = FALSE
        /\ budget = Limits
-----------------------------------------------------------------------------
(* The API server *)

Spend(disturbance) ==
  /\ budget[disturbance] > 0
  /\ budget' = [budget EXCEPT ![disturbance] = @ - 1]

\* The object becomes obj.  An update that changes nothing is not written.
Put(t, obj) ==
  IF obj = server[t]
  THEN UNCHANGED cluster
  ELSE LET written == IF obj = Nil THEN Nil ELSE [obj EXCEPT !.rv = ver[t] + 1]
       IN /\ server' = [server EXCEPT ![t] = written]
          /\ ver' = [ver EXCEPT ![t] = @ + 1]
          /\ watch' = [watch EXCEPT ![t] = Append(@, written)]

Answer(result, obj) == [result |-> result, object |-> obj]

Creation(t, obj) ==
  IF server[t] = Nil THEN Answer("ok", obj) ELSE Answer("AlreadyExists", server[t])

\* An update names the resource version it was computed from.
Update(t, rv, obj) ==
  IF server[t] = Nil THEN Answer("NotFound", Nil)
  ELSE IF server[t].rv # rv THEN Answer("Conflict", server[t])
  ELSE Answer("ok", obj)

Deletion(t, obj) ==
  IF server[t] = Nil THEN Answer("NotFound", Nil) ELSE Answer("ok", obj)

Results == {"ok", "NotFound", "AlreadyExists", "Conflict", "Error"}

\* A request and its outcome.  At worst the request or the answer is lost.
Request(t, answer, result) ==
  \/ /\ result = answer.result
     /\ Put(t, answer.object)
     /\ UNCHANGED budget
  \/ /\ result = "Error"
     /\ Spend("fault")
     /\ Put(t, answer.object) \/ UNCHANGED cluster
-----------------------------------------------------------------------------
(* The informers and their handlers *)

Owners(old, new) == {obj.owner : obj \in {old, new} \ {Nil}} \ {Nil}

\* What the handler will look at when the cache goes from old to new: for a
\* notebook, which it enqueues, its UID; for a resource the UIDs of the owners
\* it resolves, none when the resource version did not change.
Notice(t, old, new) ==
  IF t = "Notebook" THEN {obj.uid : obj \in {old, new} \ {Nil}}
  ELSE IF old # Nil /\ new # Nil /\ old.rv = new.rv THEN {}
  ELSE Owners(old, new)

\* HandleDeltas: the indexer is updated, then the listener is told.
Deliver(t) ==
  /\ watch[t] # <<>>
  /\ cache' = [cache EXCEPT ![t] = Head(watch[t])]
  /\ watch' = [watch EXCEPT ![t] = Tail(@)]
  /\ notices' = [notices EXCEPT ![t] = @ \cup Notice(t, cache[t], Head(watch[t]))]
  /\ UNCHANGED <<server, ver, queue, n, task, ca, issued, budget>>

\* The watch breaks and the reflector lists again: what happened since is seen
\* as one update.  A deletion comes as a DeletedFinalStateUnknown, which
\* neither onDeleteNotebook nor onDeleteObject takes for an object.
Relist(t) ==
  /\ watch[t] # <<>>
  /\ Spend("relist")
  /\ cache' = [cache EXCEPT ![t] = server[t]]
  /\ watch' = [watch EXCEPT ![t] = <<>>]
  /\ notices' = [notices EXCEPT ![t] =
       IF server[t] = Nil THEN @ ELSE @ \cup Notice(t, cache[t], server[t])]
  /\ UNCHANGED <<server, ver, queue, n, task, ca, issued>>

\* resolveOwnerRef: the notebook in the cache, if it is the one referred to.
ResolvesTo(uid) == cache["Notebook"] # Nil /\ cache["Notebook"].uid = uid

Enqueue == queue' = [queue EXCEPT !.dirty = TRUE]

Handle(t) ==
  /\ \E uid \in notices[t] :
       /\ notices' = [notices EXCEPT ![t] = @ \ {uid}]
       /\ IF t = "Notebook" \/ ResolvesTo(uid) THEN Enqueue ELSE UNCHANGED queue
  /\ UNCHANGED <<server, ver, watch, cache, n, task, ca, issued, budget>>

\* Mutant: a notebook whose resource version has not changed is passed over.
ResyncUnchanged == cache["Notebook"] # Nil /\ UNCHANGED vars

\* Every resyncPeriod the cached notebook is handed to onUpdateNotebook again;
\* the resources are too, but their resource versions have not changed.
Resync ==
  /\ cache["Notebook"] # Nil
  /\ Enqueue
  /\ UNCHANGED <<server, ver, watch, cache, notices, n, task, ca, issued, budget>>
-----------------------------------------------------------------------------
(* sync *)

Dequeued == queue.dirty /\ ~queue.processing

Forgotten == [queue EXCEPT !.dirty = FALSE]
RateLimited == [queue EXCEPT !.dirty = FALSE, !.waiting = TRUE]

SetNotebookPhase(m, phase, result) ==
  IF m.phase = phase
  THEN result = "ok" /\ UNCHANGED <<cluster, budget>>
  ELSE Request("Notebook",
               Update("Notebook", m.rv, [server["Notebook"] EXCEPT !.phase = phase]),
               result)

\* The specification is refused: the phase is set to Failed as well as that
\* can be done, and the key is tried again later.
SyncInvalid ==
  LET m == cache["Notebook"] IN
  /\ Dequeued
  /\ m # Nil
  /\ ~Validate(m.spec)
  /\ \E result \in Results : SetNotebookPhase(m, "Failed", result)
  /\ queue' = RateLimited
  /\ UNCHANGED <<cache, notices, n, task, ca, issued>>

\* Mutant: the update names no resource version.
DefaultsForced(m) ==
  Update("Notebook", server["Notebook"].rv,
         [server["Notebook"] EXCEPT !.spec = SetDefaults(m.spec)])

DefaultsUpdate(m) ==
  Update("Notebook", m.rv, [server["Notebook"] EXCEPT !.spec = SetDefaults(m.spec)])

\* The defaults are written and nothing else is done: the update that this
\* causes will bring the key back.
SyncDefaults ==
  LET m == cache["Notebook"] IN
  /\ Dequeued
  /\ m # Nil
  /\ Validate(m.spec)
  /\ SetDefaults(m.spec) # m.spec
  /\ \E result \in Results :
       /\ Request("Notebook", DefaultsUpdate(m), result)
       /\ queue' = IF result = "ok" THEN Forgotten ELSE RateLimited
  /\ UNCHANGED <<cache, notices, n, task, ca, issued>>

\* The secret's new certificate is made before the goroutines start; serial
\* tells it from all others.
Serial == IF "Secret" \in Kinds THEN ver["Secret"] ELSE 0

\* Mutant: the copy takes the resource version that is current by now.
CurrentCopy(m) == [uid |-> m.uid, rv |-> ver["Notebook"], spec |-> m.spec,
                   phase |-> m.phase, deleting |-> m.deleting, serial |-> Serial]

\* The DeepCopy that the sync works on.
DeepCopy(m) == [uid |-> m.uid, rv |-> m.rv, spec |-> m.spec, phase |-> m.phase,
                deleting |-> m.deleting, serial |-> Serial]

\* reconcileNotebookResources: a goroutine per resource.
StartTasks(m) ==
  /\ n' = DeepCopy(m)
  /\ task' = [k \in Kinds |-> "reconcile"]
  /\ queue' = [queue EXCEPT !.dirty = FALSE, !.processing = TRUE]

SyncReconcile ==
  LET m == cache["Notebook"]
      phase == IF m.phase \in {"Running", "Failed"} THEN m.phase ELSE "Pending"
  IN /\ Dequeued
     /\ m # Nil
     /\ Validate(m.spec)
     /\ SetDefaults(m.spec) = m.spec
     /\ \E result \in Results : SetNotebookPhase(m, phase, result)
     /\ StartTasks([m EXCEPT !.phase = phase])
     /\ UNCHANGED <<cache, notices, ca, issued>>

EmptySpec == [flavor |-> Nil, gpu |-> FALSE, host |-> Nil, ingress |-> Nil,
              packages |-> <<>>, password |-> Nil, serviceAccountName |-> Nil,
              tls |-> Nil]

\* The notebook is not in the cache: a notebook made up for the purpose, with
\* no UID and a deletion timestamp, is reconciled in its place.
SyncDeleted ==
  /\ Dequeued
  /\ cache["Notebook"] = Nil
  /\ StartTasks([uid |-> Nil, rv |-> 0, spec |-> EmptySpec, phase |-> "",
                 deleting |-> TRUE])
  /\ UNCHANGED <<cluster, cache, notices, ca, issued, budget>>

\* Mutant: the error is not returned.
GivenBack(failed) == [queue EXCEPT !.processing = FALSE]

\* processNextWorkItem: AddRateLimited when the sync failed, and Done.
Processed(failed) == [queue EXCEPT !.processing = FALSE, !.waiting = @ \/ failed]

\* wg.Wait returns.  Only the notebook that is still there has its phase set.
FinishSync ==
  LET failed == \E k \in Kinds : task[k] = "failed" IN
  /\ n # Nil
  /\ \A k \in Kinds : task[k] \in {"ok", "failed"}
  /\ IF n.uid = Nil
     THEN UNCHANGED <<cluster, budget>>
     ELSE \E result \in Results :
            SetNotebookPhase(n, IF failed THEN "Failed" ELSE "Running", result)
  /\ n' = Nil
  /\ task' = [k \in Kinds |-> "idle"]
  /\ queue' = Processed(failed)
  /\ UNCHANGED <<cache, notices, ca, issued>>

\* The delay of AddRateLimited is over.
RetryDue ==
  /\ queue.waiting
  /\ queue' = [queue EXCEPT !.waiting = FALSE, !.dirty = TRUE]
  /\ UNCHANGED <<server, ver, watch, cache, notices, n, task, ca, issued, budget>>
-----------------------------------------------------------------------------
(* The goroutine of each resource *)

At(k, state) == k \in Kinds /\ n # Nil /\ task[k] = state

Goto(k, state) == task' = [task EXCEPT ![k] = state]

local == <<cache, notices, queue, n, ca, issued>>

\* An ACME notebook waits for its ingress's certificate, every notebook for
\* its pod.
Waits(k) == k = "StatefulSet" \/ (k = "Ingress" /\ n.spec.tls = Acme)

\* Mutant: isManagedByOperator is not asked.
ExistsAtAll(k) == cache[k] # Nil

\* What is there may be adopted.
Adoptable(k) == cache[k] # Nil /\ cache[k].managed

\* NotFound and AlreadyExists are taken to mean that the resource is already
\* reconciled.
Outcome(k, result) ==
  IF result \in {"Conflict", "Error"} THEN "failed"
  ELSE IF Waits(k) THEN "poll" ELSE "ok"

Minted == [ca |-> ca, host |-> n.spec.host, serial |-> n.serial]

\* What the Calculate functions return for the notebook under reconciliation.
Desired(k) ==
  CASE k = "Service" -> ServiceContent
    [] k = "Ingress" -> IngressContent(n.spec)
    [] k = "Secret" -> SecretContent(n.spec, Minted)
    [] k = "StatefulSet" -> Template(n.spec)

\* What the API server stores of it.
AsStored(k) == IF k = "StatefulSet" THEN Stored(Desired(k)) ELSE Desired(k)

NewObject(k) == [rv |-> 0, owner |-> n.uid, managed |-> TRUE, content |-> AsStored(k),
                 deleting |-> FALSE, ready |-> FALSE]

\* An update replaces the metadata and with it the finalizers, so that it
\* removes an object that is only kept by them.
Overwritten(k, content) ==
  IF server[k].deleting THEN Nil
  ELSE [server[k] EXCEPT !.owner = n.uid, !.managed = TRUE, !.content = content]

\* Delete by name alone; what is being deleted in the foreground stays so.
DeleteResource(k) ==
  /\ At(k, "reconcile")
  /\ ~ShouldExist(k, n)
  /\ \E result \in Results :
       /\ Request(k, Deletion(k, IF server[k] # Nil /\ server[k].deleting
                                 THEN server[k] ELSE Nil), result)
       /\ Goto(k, IF result = "Error" THEN "failed" ELSE "ok")
  /\ UNCHANGED local

CreateResource(k) ==
  /\ At(k, "reconcile")
  /\ ShouldExist(k, n)
  /\ cache[k] = Nil
  /\ \E result \in Results : /\ Request(k, Creation(k, NewObject(k)), result)
                             /\ Goto(k, Outcome(k, result))
  /\ UNCHANGED local

\* "refusing to adopt existing ...: not managed by this operator"
RefuseResource(k) ==
  /\ At(k, "reconcile")
  /\ ShouldExist(k, n)
  /\ cache[k] # Nil
  /\ ~Adoptable(k)
  /\ Goto(k, "failed")
  /\ UNCHANGED <<cluster, budget, local>>

\* Mutant: whoever signed the certificate, it is kept.
KeptFromAnybody(k) ==
  IF k = "Secret" /\ cache[k].content.cert # Nil /\ Desired(k).cert # Nil
  THEN [Desired(k) EXCEPT !.cert = cache[k].content.cert] ELSE Desired(k)
\* Mutant: the new certificate is always written.
NeverKept(k) == Desired(k)

\* A certificate that this operator's authority signed is kept.
Kept(k) ==
  IF /\ k = "Secret"
     /\ cache[k].content.cert # Nil
     /\ cache[k].content.cert.ca = ca
     /\ Desired(k).cert # Nil
  THEN [Desired(k) EXCEPT !.cert = cache[k].content.cert]
  ELSE Desired(k)

UpdateResource(k) ==
  /\ At(k, "reconcile")
  /\ ShouldExist(k, n)
  /\ k # "StatefulSet"
  /\ Adoptable(k)
  /\ \E result \in Results :
       /\ Request(k, Update(k, cache[k].rv, Overwritten(k, Kept(k))), result)
       /\ Goto(k, Outcome(k, result))
  /\ UNCHANGED local

\* The templates are the same: the spec that is there is kept.
AdoptStatefulSet(k) ==
  /\ At(k, "reconcile")
  /\ ShouldExist(k, n)
  /\ k = "StatefulSet"
  /\ Adoptable(k)
  /\ SameTemplate(Desired(k), cache[k].content)
  /\ \E result \in Results :
       /\ Request(k, Update(k, cache[k].rv, Overwritten(k, cache[k].content)), result)
       /\ Goto(k, Outcome(k, result))
  /\ UNCHANGED local

\* They differ: the one that is there is deleted in the foreground.  The error
\* of this request is wrapped, so that NotFound is a failure here.
DeleteOldStatefulSet(k) ==
  /\ At(k, "reconcile")
  /\ ShouldExist(k, n)
  /\ k = "StatefulSet"
  /\ Adoptable(k)
  /\ ~SameTemplate(Desired(k), cache[k].content)
  /\ \E result \in Results :
       /\ Request(k, Deletion(k, [server[k] EXCEPT !.deleting = TRUE]), result)
       /\ Goto(k, IF result = "ok" THEN "gone" ELSE "failed")
  /\ UNCHANGED local

\* WaitForStatefulSetDeleted ends: the lister has it no more; or the minute is
\* over, and that is an error, unless the message that says so is lost.
StatefulSetGone(k) ==
  /\ At(k, "gone")
  /\ cache[k] = Nil
  /\ Goto(k, "recreate")
  /\ UNCHANGED <<cluster, budget, local>>

TimeOutGone(k) ==
  /\ At(k, "gone")
  /\ \/ Goto(k, "failed") /\ UNCHANGED budget
     \/ Goto(k, "recreate") /\ Spend("lost")
  /\ UNCHANGED <<cluster, local>>

RecreateStatefulSet(k) ==
  /\ At(k, "recreate")
  /\ \E result \in Results : /\ Request(k, Creation(k, NewObject(k)), result)
                             /\ Goto(k, Outcome(k, result))
  /\ UNCHANGED local

\* WaitForStatefulSet and WaitForIngressTLSSecret: a first poll, then one every
\* five seconds until it succeeds or the minute is over.
Ready(k) ==
  IF k = "StatefulSet" THEN cache[k] # Nil /\ cache[k].ready ELSE issued

Poll(k) ==
  /\ At(k, "poll") \/ At(k, "wait")
  /\ \/ Ready(k) /\ Goto(k, "ok")
     \/ ~Ready(k) /\ At(k, "poll") /\ Goto(k, "wait")
  /\ UNCHANGED <<cluster, budget, local>>

TimeOutWait(k) ==
  /\ At(k, "wait")
  /\ \/ Goto(k, "failed") /\ UNCHANGED budget
     \/ Goto(k, "ok") /\ Spend("lost")
  /\ UNCHANGED <<cluster, local>>

TaskStep(k) ==
  \/ DeleteResource(k) \/ CreateResource(k) \/ RefuseResource(k)
  \/ UpdateResource(k) \/ AdoptStatefulSet(k) \/ DeleteOldStatefulSet(k)
  \/ StatefulSetGone(k) \/ TimeOutGone(k) \/ RecreateStatefulSet(k)
  \/ Poll(k) \/ TimeOutWait(k)
-----------------------------------------------------------------------------
(* The process: main makes a new certificate authority, the caches are      *)
(* filled before the handlers are added, and these then see every object    *)
(* as added.  The step the process was killed in is not finished.           *)

Restart ==
  /\ Spend("restart")
  /\ cache' = server
  /\ watch' = [t \in Informers |-> <<>>]
  /\ notices' = [t \in Informers |-> Notice(t, Nil, server[t])]
  /\ queue' = InitialQueue
  /\ n' = Nil
  /\ task' = [k \in Kinds |-> "idle"]
  /\ ca' = ca + 1
  /\ UNCHANGED <<server, ver, issued>>
-----------------------------------------------------------------------------
(* Users *)

operator == <<cache, notices, queue, n, task, ca>>

CreateNotebook(spec) ==
  /\ Spend("create")
  /\ server["Notebook"] = Nil
  /\ Put("Notebook", [uid |-> ver["Notebook"] + 1, rv |-> 0, spec |-> spec,
                      phase |-> "", deleting |-> FALSE])
  /\ UNCHANGED <<operator, issued>>

EditNotebook(spec) ==
  /\ Spend("edit")
  /\ server["Notebook"] # Nil
  /\ server["Notebook"].spec # spec
  /\ Put("Notebook", [server["Notebook"] EXCEPT !.spec = spec])
  /\ UNCHANGED <<operator, issued>>

\* In the background; or, where there is garbage collection, in the foreground.
DeleteNotebook ==
  /\ Spend("delete")
  /\ server["Notebook"] # Nil
  /\ \/ Put("Notebook", Nil)
     \/ GC /\ Put("Notebook", [server["Notebook"] EXCEPT !.deleting = TRUE])
  /\ UNCHANGED <<operator, issued>>

\* Somebody makes an object that has the name of one of the resources.
CreateForeign(k) ==
  /\ Spend("foreign")
  /\ server[k] = Nil
  /\ \E ready \in IF k = "StatefulSet" THEN BOOLEAN ELSE {FALSE} :
       Put(k, [rv |-> 0, owner |-> Nil, managed |-> FALSE, content |-> Nil,
               deleting |-> FALSE, ready |-> ready])
  /\ UNCHANGED <<operator, issued>>

Drop(k) ==
  /\ Spend("drop")
  /\ server[k] # Nil
  /\ Put(k, Nil)
  /\ UNCHANGED <<operator, issued>>
-----------------------------------------------------------------------------
(* During a rollout the operator that is being replaced still runs.  What it  *)
(* writes is what this one would, but for the certificate: it has an authority *)
(* of its own, for which this one's certificate is somebody else's.           *)

Rival ==
  LET secret == server["Secret"] IN
  /\ "Secret" \in Kinds
  /\ Spend("rival")
  /\ secret # Nil
  /\ secret.managed
  /\ secret.content.cert # Nil
  /\ secret.content.cert.ca # Nil
  /\ Put("Secret", [secret EXCEPT !.content.cert =
            [ca |-> Nil, host |-> secret.content.cert.host, serial |-> ver["Secret"]]])
  /\ UNCHANGED <<operator, issued>>
-----------------------------------------------------------------------------
(* The cluster's own controllers *)

\* A pod starts when the keys of the secret that it mounts are there.
PodsCanStart(template) ==
  "Secret" \in Kinds /\ (template.certs \/ template.password) =>
    /\ server["Secret"] # Nil
    /\ server["Secret"].managed
    /\ template.certs => server["Secret"].content.cert # Nil
    /\ template.password => server["Secret"].content.password # Nil

PodsReady(k) ==
  /\ k = "StatefulSet"
  /\ server[k] # Nil
  /\ server[k].managed
  /\ ~server[k].deleting
  /\ ~server[k].ready
  /\ PodsCanStart(server[k].content)
  /\ Put(k, [server[k] EXCEPT !.ready = TRUE])
  /\ UNCHANGED <<operator, issued, budget>>

PodsUnready(k) ==
  /\ k = "StatefulSet"
  /\ Spend("unready")
  /\ server[k] # Nil
  /\ server[k].ready
  /\ Put(k, [server[k] EXCEPT !.ready = FALSE])
  /\ UNCHANGED <<operator, issued>>

\* The pods of what is deleted in the foreground are gone.
Terminate(k) ==
  /\ server[k] # Nil
  /\ server[k].deleting
  /\ Put(k, Nil)
  /\ UNCHANGED <<operator, issued, budget>>

Orphan(k) ==
  /\ server[k] # Nil
  /\ server[k].owner # Nil
  /\ server["Notebook"] # Nil =>
       server["Notebook"].uid # server[k].owner \/ server["Notebook"].deleting

\* An operator that has not heard of the deletion may make again what was
\* collected, again and again: CollectBound ends this.
Collect(k) ==
  /\ GC
  /\ ver[k] < CollectBound \/ watch["Notebook"] = <<>>
  /\ Orphan(k)
  /\ Put(k, Nil)
  /\ UNCHANGED <<operator, issued, budget>>

FinalizeNotebook ==
  LET m == server["Notebook"] IN
  /\ m # Nil
  /\ m.deleting
  /\ \A k \in Kinds : server[k] # Nil => server[k].owner # m.uid
  /\ Put("Notebook", Nil)
  /\ UNCHANGED <<operator, issued, budget>>

IssueCertificate(k) ==
  /\ k = "Ingress"
  /\ ~issued
  /\ server[k] # Nil
  /\ server[k].managed
  /\ server[k].content.tls = "acme"
  /\ issued' = TRUE
  /\ UNCHANGED <<cluster, operator, budget>>
-----------------------------------------------------------------------------
Sync == SyncInvalid \/ SyncDefaults \/ SyncReconcile \/ SyncDeleted \/ FinishSync

\* Those who write to the API server for reasons of their own.
Outsider ==
  \/ \E spec \in UserSpecs : CreateNotebook(spec) \/ EditNotebook(spec)
  \/ DeleteNotebook
  \/ \E k \in Kinds : CreateForeign(k) \/ Drop(k)
  \/ Rival

Helps(k) == PodsReady(k) \/ Terminate(k) \/ Collect(k) \/ IssueCertificate(k)

Next ==
  \/ \E t \in Informers : Deliver(t) \/ Relist(t) \/ Handle(t)
  \/ Resync
  \/ Sync
  \/ RetryDue
  \/ \E k \in Kinds : TaskStep(k) \/ Helps(k) \/ PodsUnready(k)
  \/ Restart
  \/ Outsider
  \/ FinalizeNotebook

\* The operator's goroutines are scheduled, watch events arrive, timers fire,
\* and the cluster's controllers do what they are asked for.  Nothing is
\* assumed of users and of disturbances.
Fairness ==
  /\ \A t \in Informers : WF_vars(Deliver(t)) /\ WF_vars(Handle(t))
  /\ WF_vars(Sync)
  /\ WF_vars(RetryDue)
  /\ WF_vars(Resync)
  /\ \A k \in Kinds : WF_vars(TaskStep(k)) /\ WF_vars(Helps(k))
  /\ WF_vars(FinalizeNotebook)

Spec == Init /\ [][Next]_vars /\ Fairness
-----------------------------------------------------------------------------
(* Properties *)

\* Only a notebook that was made up has no UID.
Copies == {m \in [uid : Optional(Nat), rv : Nat, spec : NotebookSpecs, phase : Phases,
                  deleting : BOOLEAN, serial : Nat] : m.uid = Nil => m.deleting}

\* Nothing that is there is Nil.
ASSUME NilAssumption == Nil \notin AllObjects \cup Copies \cup Certificates \cup Templates

\* The type invariant: every object, and every copy of one in a cache or on
\* its way to one, is an object of its kind.
TypeOK ==
  /\ server \in [Informers -> Optional(AllObjects)]
  /\ cache \in [Informers -> Optional(AllObjects)]
  /\ \A t \in Informers : /\ server[t] \in Optional(Objects(t))
                          /\ cache[t] \in Optional(Objects(t))
                          /\ watch[t] \in Seq(Optional(Objects(t)))
  /\ ver \in [Informers -> Nat]
  /\ watch \in [Informers -> Seq(Optional(AllObjects))]
  /\ notices \in [Informers -> SUBSET Nat]
  /\ queue \in [dirty : BOOLEAN, processing : BOOLEAN, waiting : BOOLEAN]
  /\ n \in Optional(Copies)
  /\ task \in [Kinds -> TaskStates]
  /\ ca \in Nat
  /\ issued \in BOOLEAN
  /\ budget \in [Disturbances -> Nat]

\* An object that a lister returns, or will return, with the resource version
\* of the one in the API server is that object; so an update that is accepted
\* was computed from what it replaces (ResourceVersion, in sync and in all of
\* the CreateOrUpdate functions).
VersionsAgree ==
  /\ \A t \in Informers : server[t] # Nil =>
       \A obj \in {cache[t]} \cup {watch[t][i] : i \in 1..Len(watch[t])} :
         obj # Nil /\ obj.rv = server[t].rv => obj = server[t]
  /\ n # Nil /\ n.uid # Nil /\ server["Notebook"] # Nil =>
       (n.rv = server["Notebook"].rv =>
          n.spec = server["Notebook"].spec /\ n.uid = server["Notebook"].uid)

\* The operator never writes a specification that loses an edit: between two
\* edits of the user, the specification changes only by being given its
\* defaults (sync, "setting defaults").
NoLostEdit ==
  [][LET old == server["Notebook"]
         new == server'["Notebook"]
     IN old # Nil /\ new # Nil /\ new.spec # old.spec /\ budget'.edit = budget.edit
          => new.spec = SetDefaults(old.spec)]_vars

\* An object of somebody else that has the name of a resource is never taken
\* over: it stays as it is until it is deleted ("refusing to adopt").
ForeignNotAdopted ==
  [][\A k \in Kinds :
       server[k] # Nil /\ ~server[k].managed /\ server'[k] # Nil
         => [server'[k] EXCEPT !.deleting = FALSE, !.rv = 0, !.ready = FALSE]
              = [server[k] EXCEPT !.deleting = FALSE, !.rv = 0, !.ready = FALSE]]_vars

\* A certificate that the running operator signed is not replaced by another
\* while its secret exists, although every sync makes a new one
\* (CreateOrUpdateSecret): the pod that mounts it need not notice a change.
\* Only the operator that is being replaced does not know better.
CertificateKept ==
  [][LET old == server["Secret"]
         new == server'["Secret"]
     IN /\ "Secret" \in Kinds
        /\ old # Nil /\ new # Nil
        /\ old.managed /\ new.managed
        /\ old.content.cert # Nil /\ new.content.cert # Nil
        /\ old.content.cert.ca = ca
        /\ budget'.rival = budget.rival
        => new.content.cert = old.content.cert]_vars

\* The pods of a StatefulSet are not torn down to make it what it already is
\* ("If the templates are the same, then adopt this StatefulSet").
TearsDownOnlyToChange ==
  [][LET old == server["StatefulSet"]
         new == server'["StatefulSet"]
     IN /\ "StatefulSet" \in Kinds
        /\ old # Nil /\ new # Nil
        /\ ~old.deleting /\ new.deleting
        => old.content # Stored(Template(n.spec))]_vars

Absent(k) == server[k] # Nil => ~server[k].managed \/ server[k].deleting

\* The API server holds what the notebook asks for.
Fulfilled(k, m) ==
  IF ~ShouldExist(k, m) THEN Absent(k)
  ELSE /\ server[k] # Nil
       /\ server[k].managed
       /\ server[k].owner = m.uid
       /\ ~server[k].deleting
       /\ CASE k = "Service" -> server[k].content = ServiceContent
            [] k = "Ingress" -> /\ server[k].content = IngressContent(m.spec)
                                /\ server[k].content.tls = "acme" => issued
            [] k = "Secret" ->
                 /\ server[k].content = SecretContent(m.spec, server[k].content.cert)
                 /\ ShouldHaveCerts(m.spec) => /\ server[k].content.cert # Nil
                                               /\ server[k].content.cert.ca = ca
            [] k = "StatefulSet" -> /\ server[k].ready
                                    /\ SameTemplate(Stored(Template(m.spec)),
                                                    server[k].content)

Done ==
  LET m == server["Notebook"] IN
  IF m = Nil THEN \A k \in Kinds : Absent(k)
  ELSE IF ~Validate(m.spec) THEN m.phase = "Failed"
  ELSE /\ m.phase = "Running"
       /\ SetDefaults(m.spec) = m.spec
       /\ \A k \in Kinds : Fulfilled(k, m)

\* No event is on its way, the key is neither queued nor processed nor due for
\* a retry: but for the resync, the operator will not act again.
Settled ==
  /\ \A t \in Informers : watch[t] = <<>> /\ notices[t] = {}
  /\ queue = InitialQueue

\* When the operator has nothing left to do, nothing is left to be done:
\* the notebook runs, every resource is as it asks for, and a deleted notebook
\* has left nothing behind, however the events were interleaved with the syncs.
SettledMeansDone == Settled => Done

\* Whatever happens, once it has stopped happening the cluster comes to hold
\* what the notebook asks for, and the phase to say so, or says that the
\* specification is refused; what a deleted notebook had is removed.
Converges == <>[]Done
-----------------------------------------------------------------------------
(* What the documentation says and the code does not do.  Each of these is  *)
(* violated.                                                                *)

\* "Packages is a list of additional packages that should be installed": once
\* the operator has settled, the pod installs those that the notebook lists.
PackagesInstalled ==
  LET m == server["Notebook"] IN
  Settled /\ m # Nil /\ "StatefulSet" \in Kinds /\ server["StatefulSet"] # Nil
    => server["StatefulSet"].content.packages = m.spec.packages

\* "If no host is provided, no ingress will be created": and otherwise the
\* notebook runs like any other.
HostlessRuns ==
  server["Notebook"] # Nil /\ server["Notebook"].spec.host = Nil
    ~> server["Notebook"] # Nil /\ server["Notebook"].phase = "Running"
=============================================================================
