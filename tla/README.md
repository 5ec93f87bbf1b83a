# A verification of jupyter-operator in TLA+

jupyter-operator is a Kubernetes operator: it watches `Notebook` objects and keeps, for each of them, a
StatefulSet, a Service, a Secret and an Ingress as the notebook asks for. This directory holds TLA+ modules
that model the operator as its Go source has it, TLC configurations that check them on small instances, and
proofs that TLAPS checks for every value of the parameters. `PROJECT.json` maps every definition to the lines
of the source it stands for. The modules are:

| module | what it is | lines it stands for |
|---|---|---|
| `NotebookSpec` | the pure functions: validation, defaults, what each resource contains, the comparison of templates | `pkg/apis/jupyter/v1/types.go`, the `Calculate` functions of `pkg/k8sutil`, `go-test/deep` |
| `Controller` | one notebook key: API server, informers, sync, a goroutine per resource, restarts, users, the cluster | `pkg/controller`, `pkg/k8sutil`, `cmd/jupyter-operator` |
| `Startup` | the process from `main` to `os.Exit`: signal, definition, informers, handlers, workers | `cmd/jupyter-operator`, `Run`, `initCRD`, `wait`, `addHandlers`, `stopableTimer` |
| `Resources` | the four resources in full, and what the API server makes of a pod template | the `Calculate` functions, `k8s.go` |
| `OpenAPI` | the schemas that a notebook, a pod template, a Service and a Secret refer to | `openapi_generated.go` |
| `Documents` | a notebook as a JSON document: the schema's validation, decoding, the operator's writes, the resources that come of it | `createCRD`, `crd-validation`, the JSON tags of `types.go`, `sync` |
| `Deep` | the comparison of two values, level by level | `go-test/deep` |
| `MCDocuments` | the documents of the run of `Documents` | |
| `MCController` | the strings, specifications and disturbances of the runs of `Controller` | |
| `KeyedWork` | what the controller expects of its work queue (abstract) | |
| `WorkQueue` | how the queue and the workers' loop do it | `client-go/util/workqueue`, `Controller.worker` |
| `Waiting` | what a sync expects of its waits (abstract) | |
| `Retry` | how `WaitFor...` does it with `retry.Retry` and `retry.Timeout` | `squat/retry`, the three `WaitFor` functions |
| `ControllerProofs`, `WorkQueueProofs`, `RetryProofs`, `StartupProofs` | the theorems of these modules | |
| `SettledProofs`, `TeardownProofs` | the theorems `SettledMeansDone` and `TearsDownOnlyToChange` of `Controller` | |
| `DocumentsProofs` | the theorems of `Documents` on what is written and read back, and that the resources fit together | |
| `ResourceProofs` | the theorems of `Documents` on resources in full: the comparison of templates, the schemas | |

## Inventory

### The components

**Notebook type** (`pkg/apis/jupyter/v1/types.go`). No state. `Validate` decides whether a specification is
accepted, `SetDefaults` fills in what the user left out. Correct when defaults never make a valid specification
invalid and are stable, so that a sync ends.

**Resource calculation** (`pkg/k8sutil`, the `Calculate` functions). No state. A notebook's specification becomes
a Service, an Ingress, a Secret and a StatefulSet, each with an owner reference and the label that marks what the
operator manages. Correct when the contents follow the specification and survive the way through the API server.

**Resource reconciliation** (`CreateOrUpdate`, `Delete` and `WaitFor` functions of `pkg/k8sutil`, chosen in
`pkg/controller/reconcilers.go`). State: none but the listers' caches and the objects in the API server. Creates
what the lister misses, refuses to adopt what is not managed, keeps a certificate that its authority signed,
updates Services, Ingresses and Secrets in place, deletes a StatefulSet whose template differs in the foreground,
waits until it is gone, makes it again and waits for the pod; waits for the secret of an ACME ingress. Correct when it
overwrites nothing of anybody else, tears pods down only to change them, and ends with what the notebook asks for.

**Sync of a notebook** (`sync`, `processNextWorkItem`, `handlers.go:16-63`). State: a copy of the notebook. Refuses
an invalid specification, writes defaults, or sets the phase, runs one goroutine per resource, joins
their errors, sets the phase, and hands the key back. Correct when the phase tells the truth, an edit is never
undone and a failure comes back.

**Informers, listers and handlers** (`handlers.go:84-195`, `client-go/tools/cache`). State: a cache per type and
the notifications under way. An event about a resource is resolved to its owner by UID; notebooks are
enqueued. Correct when every change that needs a sync leads to one.

**Work queue** (`client-go/util/workqueue`, `Controller.worker`, `enqueue`). State: `queue`, `dirty`, `processing`,
the channel and the heap of delayed keys. Correct when no key is lost or worked on twice at once, and shutdown ends
every goroutine.

**Retry and timeout** (`squat/retry`, the `WaitFor` functions). State: two goroutines, a channel of messages, a
channel `done`. Correct when a wait ends, tells success from timeout and leaves no goroutine behind.

**Certificates** (`pkg/tls`, `k8sutil/secret.go`). State: an authority per run of the process. Correct when each
certificate is signed by the running authority and is not replaced needlessly.

**Comparison of templates** (`go-test/deep`). No state. Correct when equal templates are told from different ones.

**Startup and shutdown** (`cmd/jupyter-operator/main.go`, `Controller.Run`, `initCRD`, `wait`, `addHandlers`). State:
the goroutine that waits for a signal, the channel `stop`, the timers of the polls, where `Run` is. Correct when no key is synced
before all caches are filled, no event is lost between the caches and the handlers, and a stop ends it anywhere.

**Custom resource definition** (`createCRD`, `crd-validation`, `openapi_generated.go`). No state of its own: a schema, made once and
sent to the API server, which keeps it. Correct when what it admits can be decoded and what the operator writes is admitted.

**API clients** (`pkg/client`), **generated code** (`pkg/clientset`, `pkg/informers`, `pkg/listers`,
`zz_generated.deepcopy.go`), **manifests and build**: no state of their own.

### How they interact

Users and the cluster's controllers write objects to the API server; it sends watch events to the informers, which
update the caches that listers read and then tell the handlers; the handlers put keys in the queue; workers take
them and sync; a sync reads the listers, writes to the API server, and waits on the listers through `Retry`; its error
puts the key into the queue again after a delay. The loop closes with the events that its own writes cause. All
communication is by shared caches, the queue and the API server; there are no direct calls back.

### What is hard

- **Stale reads.** A sync decides on caches that lag behind the API server by any number of events, and works for
  up to minutes on a copy of the notebook. Only resource versions and later events save it.
- **Interleaving.** Handlers, workers, the waiting loop and the four goroutines of a sync run at once; a pod needs the
  secret that another goroutine is making.
- **Ordering.** The informers are independent of each other: an event about a resource may come before or after
  the event about its notebook, even about the next notebook of the same name.
- **Partial failure.** One of the four fails; a request takes effect but its answer is lost; the phase
  cannot be written, which is only logged.
- **Restart.** Nothing is stored but the objects; the new process has a new certificate authority.
- **Startup.** Caches, handlers and workers come up in an order that is all that keeps a notebook from being taken for
  deleted, while the API server may answer late, or never, and a stop may come anywhere.
- **Round trips.** What is computed goes through an API server that validates, fills in defaults and stores it in another form,
  and comes back to be compared.
- **Timeouts.** A wait of a minute races with its success, in code that sends without blocking and closes a
  channel from two goroutines.

`PROJECT.json` lists 40 such hazards at their lines, with the properties that cover them.

## How the modules correspond to the code

### Controller

The module follows **one key**. `WorkQueue` shows that two workers never hold the same key and that no key is
lost, so that the record `queue` (`dirty`, `processing`, `waiting`) is all of the queue that a key sees: it is
`KeyedWork` for one key, with `processing` true exactly while a sync runs its goroutines. Different notebooks
share no object; the certificate authority they share is never written. There is one replica of the operator, as
`manifests/deployment.yaml` asks for, but during a rollout its predecessor may still run (`Rival`): what that one writes is the same but for
the certificate, which it signs with an authority of its own. The phase is written through the status subresource that the definition has
(`createCRD`): this request changes nothing but the phase, the one with the defaults nothing but the specification, and both name
the resource version of the copy.

| variable | in the program |
|---|---|
| `server`, `ver` | the notebook and its resources in the API server, with their resource versions |
| `watch` | per informer, the changes it has not received yet |
| `cache` | per informer, the indexer that the lister reads |
| `notices` | per informer, the owners its handler has still to look up |
| `queue` | the key in the work queue |
| `n` | the notebook a sync works on: the deep copy, or the one made up for a deleted key |
| `task` | per resource, where the goroutine of `reconcileNotebookResources` is |
| `ca` | the authority that `main` made |
| `issued` | whether the secret of the ACME ingress exists, made by kube-lego or an equivalent |
| `budget` | how many disturbances may still happen |

An action is one atomic effect: a request to the API server with the lister read before it, one delivery to a cache,
one handler call, one dequeue with the branch of `sync` it takes up to its next request. A lister read and the
request that follows are merged because the request's effect depends only on what was read; what could come between is
the delivery of a later event to that one cache, and the model can deliver it after the request as well. Every
request may have its result or an error, and with an error it may have taken effect or not (`Request`). The rest of
the order is the code's: the phase is written before the goroutines start, a goroutine whose error
is `NotFound` or `AlreadyExists` goes on, the wrapped `NotFound` of the foreground deletion does not, the
phase is written after all goroutines are done, and `Done` follows.

What surrounds the operator is modelled by what the code can see of it. The API server stores, versions,
sends events and refuses stale updates. A StatefulSet's pod becomes ready when the keys that it mounts are in
its secret. Foreground deletion keeps an object until its pods are gone. With `GC = TRUE` the garbage collector
deletes what belongs to a deleted notebook; with `GC = FALSE` there is none, which is the case that the
comment at `controller.go:279` gives for deleting the resources in a sync. `Relist` is a broken
watch, after which a deletion arrives as a tombstone that the handlers ignore.

`notices` is a set: two calls of the same handler with the same owner have the same effect, which is to mark the key
dirty; the order of calls is free, which includes the order of the code. Strings are members of `Text`; names, ports,
labels and mounts that depend on the notebook's name only are left out.

### NotebookSpec

`SameTemplate` is what `deep.Equal` sees of two templates that `CalculateStatefulSet` makes: it stops at depth 10, and
the words of the `postStart` command, where the packages are, lie at depth 11, so that only their number counts
(it changes the length of a slice that is above the limit); a GPU quantity differs in its exported field `Format`.
`Stored` is what comes back of a template: a parsed quantity has the format `DecimalSI`.

### Resources, OpenAPI, Documents and Deep

`Resources` writes the objects out as Go has them: a value is a record with one field that says what it is (`string`, `ptr`,
`object`, `array`, `map`, ...), an embedded struct is the field `inline`, zero values are left out as the encoding leaves them out.
`StoredTemplate` is a template after the API server filled in its defaults (external, from what the code anticipates of them) and
after its quantities were parsed. `Deep` is the recursion of `cmp.equals`. As `MaxDepth` ends it, it is written out: `Compare` is one level
(`Alike` whether two values are of one kind, `Pairs` what of them is compared one level further down),
`EqualAt0` to `EqualAt10` apply it to the next, and beyond them nothing differs; a struct, a pointer and an embedded struct each
cost a level. `OpenAPI` has one definition per `schema_` function, with the references replaced as
`SchemaPropsToJSONProps` replaces them; one that the file lacks, the `IngressBackend` of a notebook among them, allows everything.
`NotebookSpec` with its small template and `Resources` with the large one describe the same code for two purposes;
`ComparisonFindsEdits` checks that they agree.

`Documents` has one document in the API server and a user who replaces it, in between the operator's `sync` with its three
outcomes: refused, defaults written, reconciled. `Admits` is what one level of a schema asks, of the value (`Fits`) and of
what is in it (`Contents`), and `Admitted` applies it to the four levels of
a notebook; what the schema does not know it lets through, because `crd-validation` leaves out `additionalProperties`. `Conforms` applies it to the nine levels of
the deepest resource, the template, where nothing unknown may be (`Known`).
`Decodes` says whether `json.Unmarshal` takes a document, `Decode` and `Encode` are
what the struct tags of `NotebookSpec` make of it (`omitempty` on all but `gpu`), with the `IntOrString` of the ingress's port, which is
the number 0 if it is missing.

### Startup

| variable | in the program |
|---|---|
| `definition`, `server` | the custom resource definition; per type, the notebooks that have an object of it |
| `before` | what of it was there before the process and still is |
| `handler`, `stop` | the goroutine of `main` that waits for a signal; whether it closed `stop` |
| `deadline` | whether the channel of the current poll's `stopableTimer` is closed |
| `main`, `left`, `failed` | where `main` and `Run` are, and in which round of their loops over the informers |
| `reflector`, `initial`, `cache` | per informer: not started, listing, watching or stopped; what of the first list is not in the cache yet; the indexer |
| `handled`, `notices` | which informers have a handler; the objects it has still to look at |
| `dirty`, `worker`, `holds`, `deleting`, `todo` | the queue and the syncs |

Of an object it only matters here whether it exists, and a sync's requests succeed: what may go wrong in a sync is
`Controller`'s part. The loops over the map of informers take them in any order. `PollUntil` calls its condition at ticks and a last time when
its channel is closed, so that a poll may succeed after a stop. `Restart` of `Controller` is what `SyncsSeeWhatWasThere` and `EveryNotebookServed` justify:
caches that are full and handlers that are told of everything.

### WorkQueue and KeyedWork

Each operation of `Type` holds the mutex and is one action. `Get` is two: `Park` puts a worker to sleep or ends it, `Get`
takes a key; a worker that is woken looks again. `AddAfter` is two, the test of `ShuttingDown` and the send, between
which `ShutDown` may come, which is itself two (`ShutDown`, then `CloseStopCh`). The waiting loop may see the
shutdown at any point of its own. Delays may be over at any point. The refinement mapping is `pending <- dirty`,
`active <- processing`, `stopped <- shuttingDown`, and `delayed` is what is in the channel, in the heap or about to be sent.

### Retry and Waiting

The channel of messages is unbuffered and sent to without blocking, so that a message arrives exactly when the waiter is
receiving (`Send`). Both goroutines may close `done`; the second to do so panics (`crashed`). `Waiting` is what
`Controller` uses of it: `Poll` is `See` and `Return`, `TimeOutWait` and `TimeOutGone` are `Expire` and `Return`, with the
disturbance `lost` for the failure that is reported as a success, and `Crash` is a `Restart`.

## The runs

Every run of `Controller` uses the complete `Next`; the constants choose the kinds of resources, what users write, and how
often each disturbance may happen. The disturbances are bounded, the operator's own steps are not: syncs, resyncs,
retries and timeouts happen as often as they may.

| run | instance | shows |
|---|---|---|
| `Crash` | StatefulSet and Secret; a notebook is created without defaults, then edited to have a password; a restart | `SettledMeansDone`, `CertificateKept`, `TearsDownOnlyToChange` |
| `ForeignObjects` | Ingress; an edit to ACME, a foreign ingress, a deletion by somebody, a faulty request, a broken watch | types, `VersionsAgree`, `ForeignNotAdopted`, `NoLostEdit` |
| `Faults` | StatefulSet without garbage collection; valid and refused specifications, a deletion, a faulty request, an unready pod, a lost timeout | `Converges` |
| `Again` | Service with garbage collection; a notebook is deleted, in either way, and created again | `Converges` |
| `Rollout` | Secret with garbage collection; a restart, a write of the predecessor, a deletion | `Converges` |
| `WorkQueue` | three keys, two workers, a channel that one key fills | the queue's invariants, that it implements `KeyedWork`, and that it shuts down |
| `Retry` | one wait | the wait's invariants, that it implements `Waiting`, and that it leaves nothing behind |
| `Startup` | two notebooks, Secret, one worker, one change by users; a definition that may not exist and may never be established, objects of any kind there before | types, `SyncsSeeWhatWasThere`, `StartEnds`, `StopExits`, `EveryNotebookServed` |
| `Documents` | every document that differs in up to two fields from the usual one, an unknown field among them, submitted twice | the properties of `Documents` |
| `Packages`, `GPU`, `Hostless` | see below | a promise of the repository that the code breaks |

**The properties.** `SettledMeansDone`: when no event is under way and the key is in no part of the queue, the phase is `Running` and every
resource is as the specification asks (or the phase is `Failed` for a refused one, or nothing is left of a deleted notebook). This
is the property that a lost wakeup anywhere in the loop breaks. `Converges` is its counterpart in time:
whatever happened, `<>[]Done`. `VersionsAgree`: no cached copy has the version of the current object and another content, so that
an accepted update was computed from what it replaces. `NoLostEdit`, `ForeignNotAdopted`, `CertificateKept` and
`TearsDownOnlyToChange` say what a step of the operator may never do.

`SyncsSeeWhatWasThere`: while a key is synced, every cache holds all that was there before the process. `EveryNotebookServed`: a notebook
that exists gets its resources, whenever in the start it came. `StartEnds` and `StopExits`: neither an API server that never answers nor a
cache that never fills keeps `Run` from getting on or ending.

`AdmittedDecodes`: what the schema admits, the client can decode, but for the ingress; a document that it could not decode would fail the list of
all notebooks. `WritesAdmitted` and `WritesReadBack`: the operator's own writes pass the schema and come back as they were meant.
`ComparisonFindsEdits`: on full templates, stored and read back, `deep.Equal` to its tenth level finds what `SameTemplate` says. `ResourcesConform`: the
resources have what their schemas require, also if the lister left out the notebook's kind. `ResourcesFit`: keys, volumes, selectors, ports
and names by which the four resources refer to each other are there.

**Bounds.** One edit, one restart, one fault, one relist each reach every place of a sync, because they may come at any point of
any of them. One write of the predecessor is enough to put a certificate into the secret that the operator must find and replace, at any point of any sync.
Two creations are what it takes for a deleted notebook and its successor to meet. Two kinds, StatefulSet and Secret, are the pair
that depends on each other; Service and Ingress go through the same actions (`CreateResource`, `UpdateResource`, `DeleteResource`).
Three keys with two workers and a channel of one are the least with which a worker waits for the channel while the
other works and a third key is queued. `CollectBound` only ends a loop: an operator that has not heard of a deletion can make again what is
collected as often as it is collected, so that the collector takes an object in its first `CollectBound` versions at any
time and later ones when the deletion was delivered. Two fields at a time reach every pair of fields that a condition of the
code combines (TLS and host, password and TLS, ingress and host), and two documents every edit between them. In `Startup` there is a second notebook
on its way while the one worker syncs the first.
`CHECK_DEADLOCK FALSE` is set for the runs of `Controller`, where everything may be settled with no notebook to resync, for `Documents`, where users
may have submitted their last document, and for `Startup`, where the process exits. `WorkQueue` and `Retry`
check for deadlock: after a shutdown handlers may still call `Add`, and a condition may still change.

**Fairness.** Weak fairness of each informer's delivery and handler, of the sync, of each goroutine and of the retry
says that goroutines are scheduled, that requests are answered, and that timers fire. It is taken per
resource, because each has its goroutine. `Resync` is weakly fair because the informer's resync timer fires every `resyncPeriod`. The cluster's
controllers (pods, garbage collection, certificates) are weakly fair because no operator can converge without them. Nothing is assumed of
users and disturbances. In `WorkQueue`, `SendDelayed` is strongly fair: a channel serves blocked senders in the order they came,
so that a worker whose turn is taken by others is served in the end. A shutdown, and the end of a wait's
condition, are never assumed. In `Startup`, `Run`, the timer, the workers and each informer are weakly fair; within `Run` only the last call of a poll's
condition is fair, so that no earlier one need succeed; the establishment of the definition and signals are not.

### What the code does not keep

Each of these runs shows a behaviour that contradicts a comment of the repository; `PROJECT.json` quotes it.

1. `GPU`: the GPU limit is computed with the format `DecimalExponent` and read back as `DecimalSI`. Every sync of a notebook with a
   GPU takes its StatefulSet for different, deletes it, and makes the same again (`statefulset.go:105` and `:172`).
2. `Packages`: exchanging one package for another is not seen by the comparison, and the pod keeps the old one (`statefulset.go:172`).
3. `Hostless`: `SetDefaults` turns a missing host into `""`, which `Validate` refuses at the next sync (`types.go:228`, `:189`): a notebook without a host,
   which the documentation offers, ends `Failed`.

Some limits of the properties follow from the code as well. `SettledMeansDone` does not hold if a request for the phase is lost, since the
error is logged and not returned; nor with a foreign object that is gone later; nor with a second creation, because `AlreadyExists` counts as
success (`handlers.go:29`): a notebook that is created again while the cache still misses its predecessor's Service may be `Running` with a Service
that the collector will take, whose events do not resolve to the new notebook. These end with the resync of every five minutes
(`controller.go`, `resyncPeriod`), and `Converges` is checked for them instead. A wait can return success without having found anything: the message that it timed out is sent
without blocking and lost when the waiter is still logging (`retry.go:143`). `Waiting` and `Controller` (`lost`) take that into account.
What the schema admits may fail to decode in the ingress, for which the generated file has no schema. `TearsDownOnlyToChange` does not hold if somebody deletes
the StatefulSet or the notebook while the cache lags: the decision is taken on the cached template and the deletion is by name. No document
promises more.

## What is proved

The theorems hold for every value of the constants that satisfies the named assumptions: `TextAssumption` (the strings that the
code names are strings, and `Nil` is none), `ControllerAssumption` (the kinds are kinds, users write specifications, `Limits` are
numbers), `NilAssumption` (no object, copy, certificate or template is `Nil`) `WorkQueueAssumption` (the channel has room for a key, `NoKey` is no key, the workers are finitely many), and for `Documents`
`PackagesAssumption` (`UserPackages` has what `strings.Split` makes of each package that users write), `NameAssumption` (a notebook has a name, and a name with a prefix is not empty),
`ListsAssumption` (a list that users write is a sequence), `FlavorsAssumption` (a flavor that users write is a text, and two flavors make two images) and `EditsAssumption`.
That a prefix leaves nothing empty and keeps texts apart is assumed because TLAPS knows nothing of the concatenation of strings; TLC evaluates both on the texts of the run. Nothing bounds the number of
disturbances, specifications, keys or workers.

**Controller.** `TypeCorrect` is `TypeOK`. It is not inductive: a goroutine that recreates its StatefulSet writes a notebook's owner
reference, and is only right because it got there for a notebook with a UID. `IInv` adds `Underway`: past its first request, a
goroutine works for a notebook whose resource should exist. The proof goes by what a step does to the API server: `PutTyped`
and `RequestServed` say that any accepted request keeps the objects well formed, and each action then shows that its
request is one.

`VersionsCorrect` is `VersionsAgree`. It is not inductive either, since what the caches will hold is in the events under way. `Versioned`
strengthens it by `ReadCurrent` (every state in a cache or under way has a version no newer than the counter, and is the
current object if it has its version) and `CopyAgrees` (so is the copy a sync works on). From it follow the theorems on single steps: `EditsKept`
(`NoLostEdit`) because an accepted update of the notebook was computed from the current specification; `ForeignSafe`
(`ForeignNotAdopted`) because an accepted update of a resource was computed from what is there, and that was managed;
`CertificatesKept` (`CertificateKept`) because the certificate that is kept is the one in the secret.

**No wakeup is lost.** `SettledCorrect` is `SettledMeansDone` under the assumption `Undisturbed`: the notebook is made once, there are
no foreign objects, no request and no timeout is lost, no watch breaks, and nothing is deleted in a run with restarts. Edits, dropped resources,
pods that fail, writes of the predecessor, and either deletions or restarts happen any number of times. Each part of `Undisturbed` is needed: with any
one of them left out TLC finds a run that settles too early. The invariant is `Settling`. Its first half says that the system remembers: an informer has
seen the last of an object or it is on its way (`Tracked`), every event on its way differs in its version from the one before, so that no handler
passes it over (`Changing`), and what it tells of belongs to the one notebook, so that its owner resolves (`Owned`, `Once`).
Hence whatever has changed will lead to a sync: `Pending`. The second half says that of a sync which nothing will follow all is true: its copy is the notebook
(`Copied`), the goroutines that are done have done what it asks for (`Reconciled`), and what it leaves is `Done` (`Rested`). Each is kept because a step
that disturbs it writes an object, and a write makes `Pending` true; `Pending` in turn ends only with a sync that starts on caches that are up to date, or
on a notebook that will still be told of.

**Pods are torn down only to change them.** `TeardownCorrect` is `TearsDownOnlyToChange` under the assumption `Lasting`: nobody but the operator deletes the
notebook or its StatefulSet, no timeout is lost, and no GPU is asked for. Everything else is allowed, faulty requests, broken watches, restarts and foreign objects
among them; again each part is needed. The comparison is with the cached StatefulSet, the deletion hits the one in the API server, and the two may be
different objects. The invariant `Lineage` is about what the informer has and will see of it: all of it that is the operator's has one template (`One`),
which is so because a new one is made only after the informer has seen the end of the one before (`Falling`, `Rising`, `Again`), and that in turn because
only the operator ends it, after it has read it, the garbage collector finding its owner (`Belongs`, `Stays`).

**Startup.** `TypeCorrect` is `TypeOK`, which is inductive but for what a worker holds: `Typed` adds that a worker that syncs holds a notebook.
`NothingOverlooked` is `SyncsSeeWhatWasThere`. Why it holds is the order of `Run`, so that the invariant `Seen` says how far that has got: what was there before and still is (`Remains`) is, once an informer has listed, in its cache or still to come of its first list
(`Listed`); the informers that `Run` no longer waits for have synced, and none is missing when it registers the handlers and runs the workers
(`InOrder`). Objects leave `before` with their deletion, which reaches the cache later than the server.

**WorkQueue.** `QueueCorrect` and `OneWorker` from `IInv`, which is `TypeOK` with `Queued` (the queue is `dirty \ processing` without
repetition) and `Held` (the keys processed are those that busy workers hold, one each). Both are needed for either: a key is put in the queue by `Done`
only because it was not there, and taken by `Get` only because nobody holds it. `NobodySleepsOverWork` (`NoLostWakeup`) adds `Covered`, by
counting: a key that is queued and a worker that is woken come together, a key that is taken and a worker that looks go together,
and a worker only lies down at an empty queue. `Refinement`: every step is a step of `KeyedWork` or a stutter.

**Retry.** `Agree` says who may have closed `done` at each place of the poller and the timer; `Failures`, `Crashes` and `Refinement`
(steps of `Waiting`) follow from it.

**Documents.** Documents are whatever users submit: nothing is assumed of them but that packages, lists and flavors are what they are in JSON. `Intact` says that the stored
document is admitted (`SpecAdmitted` spells out, level by level, what that means) and that the operator was never refused; it is inductive
because users' documents pass the schema, and the operator's pass it whatever they were made from (`EncodeAdmitted`). `DecodesAdmitted`
and `NothingRefused` follow. `WritesKept` rests on three lemmas: a specification with all its texts comes back from its encoding field by field (`ReadBack`);
after `SetDefaults` it has them all, and a text that was set to the empty string is not dropped, since only nil is (`Completed`); the packages that
were cut from words are cut from the same words again (`Decoded`). `ResourcesAlwaysFit` needs no invariant: it holds of the resources of
any specification, one lemma for each resource (`SecretParts`, `ContainerParts`, ...) and one for each way in which they refer to each other. For these proofs
`Resources` defines `:>` and `@@` itself, as the module `TLC` has them, because the provers do not know that module.

**Templates and schemas** (`ResourceProofs`). `EditsAlwaysFound` is `ComparisonFindsEdits`: for any two specifications that follow each other, the
comparison of the full templates finds exactly what the small template of `NotebookSpec` says, on which `Controller` rests. The invariant `Comparable` adds to
`Intact` that what the document stands for and what the StatefulSet was made from have a list of packages and, for the latter, a flavor; both are what
decoding and defaults leave. Then the proof goes in three parts. What the API server adds to a pod is in it from the start (`PodKept`), because each default names a field
that is never zero; what it reads back differs in the format of a quantity (`TemplateStored`). The comparison is taken apart level by level (`ObjectsEqual`,
`PointersEqual`, `ListsEqual`): two objects are equal at a level if all their fields are at the next. And so the fields that vary are followed down to where they
differ: the flavor in the image, the password in the container's variables, the service account in its field, TLS in the volumes, a GPU that only one asks for in the tolerations, a GPU
that both ask for in the format of its quantity, always (`QuantitiesDiffer`), and the packages in the length of a slice at level 10, whose elements are beyond (`HooksEqual`).

`ResourcesAlwaysConform` is `ResourcesConform`. A resource is built from the bottom up: what conforms at one level does so at those above (`Rises`), a struct
conforms one level above its fields if it has no others than its schema knows and all that are required are there and not zero (`StructConforms`,
and `SplicedConforms` for the two that embed another), a list one above its elements, a map one above its values. Then there is one lemma for each struct that the operator
fills in, `OwnerConforms` to `TemplateConforms`; for the owner's kind it is `Typed`, which fills in what the lister leaves out, that makes it non-empty. The invariant is needed
only for the list of packages.

**Only model-checked.** Everything about time: `Converges`, `ShutsDown`, `NothingLeft`, `StartEnds`, `StopExits`, `EveryNotebookServed`, and the liveness parts of
`ImplementsKeyedWork` and `ImplementsWaiting`, which are out of the prover's reach.
Every invariant and every property of single steps that a run checks is stated by a theorem.

## What is not modelled

- The OpenAPI definitions that neither a notebook nor a pod template, a Service or a Secret refers to; the file has none for StatefulSets
  and Ingresses, so that of these only the metadata, the selector and the template are validated. The metadata of a
  notebook and formats such as `int32` are left out.
- Of `go-test/deep`: floats, arrays, errors, the `Equal` method (no type in a template has one) and the texts of differences.
- The listener buffers and the DeltaFIFO of the informers: modelled by what arrives. The rate limiter's delays: any delay.
- Cryptography, key sizes and expiry of certificates; expiry is years away and nothing in the code looks at it.
- The second operator of a rollout as a whole: it is what it writes to the secret. Its other writes are the same as this one's.
- The REST clients, the generated clientset, factories, listers and deep copies, metrics, logging, manifests: no behaviour that a property is about.

## Plan

The order was: the controller first, since all that the operator promises is there; then the queue and the waits that it rests on; then
the proofs from the type invariant to the versions and to what a step may never do; then the process around the controller, and the data that
goes through the API server. What would come next:

1. A second operator with caches and a sync of its own in `Controller`, in place of `Rival`.
2. The processor listener's buffer and the DeltaFIFO, with the set of notices as their abstraction.

## Running

    tlc -workers 2 -config Crash.cfg MCController
    tlc -workers 2 -config WorkQueue.cfg WorkQueue
    tlapm ControllerProofs.tla
