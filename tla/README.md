# A TLA+ verification project for xgql

xgql is a GraphQL server in front of Kubernetes and Crossplane. It builds one
Kubernetes client per set of credentials, backs each client by informer caches,
can keep cold objects of those caches in a bolt database, resolves queries over
them with a goroutine per resource, and can keep a query *live*: the client
gets a JSON patch whenever something the query has read changes. This directory
models those parts in TLA+, checks them with TLC and proves their main
invariants with TLAPS. Paths below are relative to `src/`.

## 1. The system

| Component | State | Operations | Interacts with |
|---|---|---|---|
| Process, `cmd/xgql/main.go`, `internal/options.go` | flags | builds the stack and serves HTTP | everything; it fixes the order of the cache layers: bolt cache inside, live query cache outside |
| Client cache, `internal/clients/clients.go` | `active`: id to session (client, cancel, ticker) | `Get`, `remove`, two goroutines per session | resolvers call `Get`; a session starts a controller-runtime cache |
| Cleaner, `internal/cache/cleaner.go` | sorted slice `exps`, map `refs` with a generation per key, signal channel, timer | `Schedule`, `Start`, `add`, `collect` | the bolt cache schedules objects, and is called back through `cleanFn` |
| BBolt cache, `internal/cache/bbolt_cache.go`, `bbolt_wrapper.go` | the database, a read transaction per request, the cleaner | `Get`, `List`, `putObject` (an informer transform), `cleanup`, `Start` | informers, the cleaner, the middleware that gives a request its transaction |
| Live query cache, `internal/cache/live_query.go`, `set.go` | kinds that have a handler, a tracker per live query: objects or whole kinds | `Get`, `List`, `OnAdd`, `OnUpdate`, `OnDelete` | informer events; calls `Trigger` of live queries |
| Live query runtime and extension, `internal/live_query/runtime.go`, `extension.go` | `armed`, `fired`, the throttle timer, two channels; previous data and revision per path | `Trigger`, `Reset`, `Ready`, `debounce`, the response handler | the live query cache triggers it, the GraphQL transport pulls responses |
| JSON patch, `internal/live_query/json_patch.go` | none | `CreateJSONPatch` | the extension |
| Query resolvers, `internal/graph/resolvers` | lists that the goroutines of a field share, the errors that the fields of a response share | the resource tree, lists of resources, revisions, definitions, compositions, lookups of definitions, events | client cache, model |
| Mutations, `internal/graph/resolvers/mutation.go` | none | create, update, delete, each retried | the API server |
| GraphQL model, `internal/graph/model`; wrappers, `internal/unstructured` | none | what an object is taken for; reference ids; the order of connections | resolvers |
| Error presenter `internal/graph/present`, authentication `internal/auth`, telemetry `internal/opentelemetry`, request log, health server, version | none that outlives a call | | middleware |
| Generated server, code generation | generated | | |

`PROJECT.json` lists each of them with its status.

### What is hard in it

* **Interleavings.** `Schedule` reads the clock before it takes the mutex; an
  object is read before it is registered for tracking; two requests build a
  session for the same credentials; the readers of one request share a counter
  and a transaction; `setZero` writes objects that readers copy without a lock;
  a resolver decides whether its callees have failed by looking at the errors
  of the whole response; a definition is looked up in two reads.
* **Waiting.** Event handlers call `Trigger` while they hold the lock that
  resolvers need; `debounce` does not receive while it sends; `db.Close` waits
  for read transactions; a level of the resource tree waits for the one below.
* **Loss.** The cleaner's signal is dropped unless `Start` is in its select;
  triggers come while a query is being resolved; informers miss deletions; the
  answer to a request is lost though the request was carried out.
* **Time.** A throttle timer of an earlier round, a session that expires while
  in use, a cleanup that runs during a read, a request that arrives after its
  retry.
* **Failure of one step of several.** A cleanup that fails after it has zeroed
  some objects, a cache that crashes while `Get` waits for it to sync, a
  response with errors in a sequence of patches, one resource of a tree or of a
  list that cannot be read or converted.
* **Order.** An informer lists a Go map and goroutines append as they finish,
  but live queries compare answers.

The `hazards` of `PROJECT.json` give each with its line and the properties
that would catch it going wrong.

### What makes each part correct

* Cleaner: what is scheduled has exactly the entry that will collect it; only
  the last schedule of a key counts; an armed timer drains what it holds.
* Live query: no trigger is lost, and no change of something registered; the
  transport never waits for a refresh nobody will send, nobody who calls
  `Trigger` waits for a resolver, patches add up on the client, refreshes are
  throttled, everything ends with the request.
* Client cache: a session in the map is alive; one outside it has been
  cancelled; a request gets a client of its own credentials; `Get` returns.
* Live query cache: a change of something registered triggers the query; what
  is tracked stays tracked; a live query ends up fresh.
* BBolt cache: what was zeroed in memory is in the database; a read finds it,
  also while others read and while other objects are cleaned; a reader never
  loses the shared transaction and the last one rolls it back; `Start` returns.
* Resource tree: the whole tree in an order that does not depend on the
  goroutines, or nothing in a response that has errors.
* Other queries: what is missing is reported, fields that answer about the same
  objects agree, the same objects give the same answer, an id leads back to its
  object, a definition that is there is found.
* Mutations: success is the call's own, a read-modify-write loses nobody's
  update, and every effect beyond the first goes back to an attempt that ended
  in doubt.
* JSON patch: the coalesced patch does what the one it was made from did.

## 2. The modules

Each component has a specification, an `MC` module with small constants and
`.cfg` files; `...Proofs` modules extend the specification with theorems. One
action stands for one step that other goroutines can observe: code under a
mutex, or between two channel operations, is one action; a send and a receive
on an unbuffered channel are one action of both. Operators whose comment starts
with "Mutant" are plausible wrong versions of the definition below them; they
are not part of any specification.

```
LiveQueryPromise <- LiveQuery <- LiveQueryProofs      (LiveQuery includes the lock of LiveQueryCache)
Cleaner <- CleanerProofs                ClientCache <- ClientCacheProofs
LiveQueryCache <- LiveQueryCacheProofs  Mutation <- MutationProofs
BBoltCache <- BBoltCacheProofs          (the cleaner reduced to the map sched)
JSONPatch <- JSONPatchProofs
ResourceModel <- Resolvers; ResourceTree, Resolvers <- QueryProofs
```

### Cleaner (`Cleaner.tla`)

`exps` is the slice, `refs` the map with generation and object, `wakeup` the
timer that `Start` waits on, `pc`, `cnow`, `objs`, `exp` its locals and
`call[c]` a `Schedule` call in progress. `ScheduleNow` (reads the clock),
`ScheduleAdd` (`add` under the mutex: generation, binary search, duplicate
test, insertion) and `ScheduleSignal` (non-blocking send) are separate, because
the mutex covers only `add`. `Wakeup`, `Done`, `ReadClock`, `Collect`, `Clean`,
`CleanFails` and `Arm` are the loop of `Start`. `Collect` is `collect` whole:
drop the expired prefix, take out refs whose generation matches, report the
next expiry. `SearchIndex` states what `sort.Search` returns on a sorted slice;
that the slice is sorted is `ExpsSorted`. Two history variables: `due` is the
time that the last `add` of a key asked for, `lowered` the keys that were
scheduled again at a lower time, or may still be cleaned early because of that:
the comment of `expKey` (`cleaner.go:81-86`) says that this is the one case in
which a cleanup is unexpected. `Start` runs once: a second call is refused by
its `CompareAndSwap` and changes nothing.

### LiveQuery (`LiveQuery.tla`), with the lock of the live query cache

`deb`, `armed`, `fired` and `timer` are the debounce goroutine, `trig[t]` an
informer goroutine with an event, `h` the place of the transport in the
response handler. `RecvFire`, `RecvRearm`, `TimerFires`, `Deliver` and
`DebounceDone` are the cases of the two selects of `debounce`. `Respond` is the
handler's whole treatment of a response: compare with the previous one, send
it, send a patch, or send nothing and go on to the next. A GraphQL operation
has several paths (the root and its deferred fragments); `Resolve(p)` reads the
data of a path at some moment of the resolution, and `Track(p)` registers it
afterwards (`registered`, which lasts for the later resolutions). `client` is
what a client has rebuilt from the messages: a patch that is applied to
anything but the data it was computed from leaves it with something else
(`ApplyPatch`). The content of a patch is `JSONPatch`'s subject. The revision
number of a response is left out.

The module composes the query with `liveQueryCache.lock`, through which the two
packages could block each other. `Change` puts an event on its way. Its handler
takes the lock, and if the tracker of the query has the object (`OnEvent`)
calls `Trigger` and releases the lock when `Trigger` returns (`Triggered`, part
of `RecvFire` and of `TriggerDone`); if it has not, or the query is done, the
event triggers nothing (`Ignore`). A resolver needs the same lock in
`trackObject` (`Track`; `SkipTracking` for a query that is done), and only then
can its path be in a response (`idx \in tracked` in `Respond`). So a change
between `Resolve` and the first `Track` of a path is lost, unless its event
comes late enough; the history variable `missed` remembers these paths. If
`debounce` ever waited for the transport while the transport waits for a
resolver, all of them would stand still.

### LiveQueryPromise (`LiveQueryPromise.tla`)

The abstract specification of a live query: whether a refresh is owed, whether
the query resolves, waits or has ended, and how long ago the last refresh was.
A change makes it owe; it refreshes only if it owes and a throttle interval has
passed; what it owes it does not forget. `LiveQuery` implements it under the
mapping `owed <- RefreshOwed` (a `Trigger` call, `fired`, the timer or the send
under way) and `phase <- Phase` (from `h`): `KeepsPromise`.

### ClientCache (`ClientCache.tla`)

Sessions are numbered in the order in which `Get` builds them. `GetHit` and
`GetMiss` are the lookup under the read lock, `GetBuild` and `GetBuildFails`
what is done without a lock, `GetPublish` and `GetLoses` the second look under
the write lock, `GetSynced`, `GetNotSynced` and `GetDrop` the wait for the
cache. `CacheStops`/`CacheStopped` is the goroutine that runs the cache and
`Expires`/`ContextDone`/`ExpirationDone` the one that waits for the ticker:
each first wakes up and then, in a step of its own, calls `remove` with the id.

### LiveQueryCache (`LiveQueryCache.tla`)

`Read` is the call of the underlying cache, and `Register` or `SkipTracking`
or `TrackingFails` what `trackObject` then does under `c.lock`: between them
anything can happen. An informer's event goes through a queue per kind
(`Dequeue`), waits for the lock (`OnEvent`) and visits the trackers one after
the other with the lock held (`VisitLive`, `VisitDone`, `EndEvent`). `tracked`
follows the Go code in that a nil set stands for the whole kind. The shared
informer is external: `Create`, `Update`, `Delete`, and `Replace` for an update
between objects of the same name and different uid. `Refresh` stands for the
live query runtime: a trigger makes the query read again.

### BBoltCache (`BBoltCache.tla`)

Objects are memory cells: the cells of the informer's store and those that
callers pass to `Get` and `List`. The underlying cache copies the stored struct
into the caller's without a deep copy. A cell holds a version, or is `Empty`
(zeroed, only its uid left), `Blank` (zeroed, between `SetZeroValue` and the
deferred `SetUID`) or `Torn` (copied meanwhile; the data race is a choice
between the two). `cleanup` is `CleanBegin`, then `CleanPut`, `SetZeroValue`,
`SetUID` for each object in key order, then `CleanCommit`, with `CleanFails`
wherever the code returns an error. A read is `Read`, `txOnce`,
`rehydrateObject` for each item, `SharedBucket` or `NewBucket` or `NoDB`,
`Value`, `NoKey` or `UnmarshalFails`, `AllItems` and `done`. Cleanups and reads
interleave at every step. `leaked` are the transactions that a request has
forgotten. `spoilt` is a history variable: an object is in it once it was read
while a cleanup of it was under way, or once a request has read it that has a
transaction older than what the database has of it, or once its value could not
be unmarshalled. The cleaner is the map `sched`, which Cleaner details. Its
interval of a minute appears as `young`: an object is not collected before the
reads that were running when it was scheduled have returned.

### ResourceTree (`ResourceTree.tla`)

`CrossplaneResourceTree`, `getAllDescendant` and the two resolvers it calls,
`compositeResourceSpec.Resources` and `compositeResourceClaimSpec.Resource`. A
call is known by its path, the indexes of the references that lead to it, so
the recursion is a set of frames that run at the same time. `get[q]` is the
goroutine that reads the resource at `q` (`RefFound`, `RefMissing`, `RefFails`,
or `NoClient` for all references of a call), `nodes[p]` the slice that those
goroutines append to, `frame[p]` the call of `getAllDescendant`: it waits for
the reads, sorts, looks whether the response has errors and starts the calls
below (`ReadDone`), waits for them and puts their lists behind its own node
(`Collected`). `errs` is the error list of the response, which any other field
can extend at any moment (`OtherFails`). `Node` is
`CrossplaneResourceTreeNode` with its `ParentID`. `StableSort` has the one
arrangement that a stable sort by `Less` leads to. References are finite: a
chain of them from the root has at most `Depth` links, since the code has no
guard against a cycle.

### Mutation (`Mutation.tla`)

`CreateKubernetesResource`, `UpdateKubernetesResource` and
`DeleteKubernetesResource` share their shape and are one specification with
`op[c]`; a create with `generateName` and an update without a resource version
are operations of their own because the server treats them differently. `Try`
sends a request, which stays in `net` until the server carries it out
(`CarryOut`) or refuses it (`Refuse`); the caller does not wait for that: at
any moment its attempt may end in one of the errors of `IsRetriable`
(`InDoubt`), so a request may be carried out after its retry, or both. `Failed`
is `retry.OnError` with `IsRetriable` and, for a delete, `IgnoreNotFound`.
`Convert` and `ConvertFails` are `GetKubernetesResource` behind the retries.
`took`, `replaced` and `doubts` are history: the revisions that the call's
requests have made, those they have overwritten, and the attempts in doubt.

### ResourceModel and Resolvers

`ResourceModel.tla` has the pure part: the `Probably` predicates, the type that
`GetKubernetesResource` takes an object for (`TypeOf`, the order of the switch),
the id that type gives it (`ReferenceID`), the string of an id and its parser.
`Resolvers.tla` is about what a client sees: `world` are the objects of one
kind, `page` the answers that a client has got to fields since they last
changed. A field reads a list that comes in any order (`Lists`), keeps the
elements of a set (`Kept`), sorts what it has kept by a rank (`Sorted`, which
puts each element at the `Place` that the elements before it leave) and counts
(`Connection`), or takes the first that fits (`FirstOf`). The names of the
specification (`QuerySpec`, `QueryInit`, `QueryTypeOK`, ...) differ from those of
ResourceTree, because one module has the proofs about both.
The actions are the fields: package revisions in their three ways,
definitions and compositions, the resources of a kind, those of a CRD or an
XRD, all events (`Limit`) and those of an object, the definition of a composite
resource or a claim, and `AskBack`, a client that returns an id it was given.
The definition of a managed resource or provider config is three steps
(`AskDefinition`, `GetDefinition` or `NoSuchDefinition`, `ListDefinitions`),
between which definitions come and go. `Owners`, and `Objects` of a package
revision, start a goroutine for each reference (`AskReferents`), which finds it
or not at a moment of its own (`ReadReferent`, `ReferentMissing`), until
`wg.Wait` returns (`ReferentsRead`); `AskReferent` stands for `Controller` and
for the fields that read one named object, of which some are lenient about an
object that is not there and others are not. `AskFails` is any error of a client
or a read. Twins in the code are one operator: `configuration.go` and
`provider.go`; `Compositions`, `CompositeResourceDefinitions` and
`CustomResourceDefinitions` (which has no `dangling`); `providerConfig` and
`managedResource`.

### JSONPatch (`JSONPatch.tla`)

`Differ` and `Insert` build the patch that the jd library renders (external);
`Coalesce`, `Continue` and `Return` are the loop of `CreateJSONPatch`, with its
index and the slice that it shortens. `Apply` is what a client does with a
patch (RFC 6902, external): items of an array move when one is added or
removed, and an operation that does not fit (`Applies`) breaks the document.
`Members` are the members that `json.Marshal` writes.

## 3. The runs

A passing run checks the properties of a component; a violating run checks one
sentence of the repository's comments or schema that the code does not keep, and
the passing runs check what is true instead.

| Run | Shows |
|---|---|
| `cleaner` | With two concurrent callers the slice stays strictly ordered (`ExpsSorted`) and whatever is held has its entry (`RefHasExp`); once a timer is armed everything held is cleaned (`TimerDrains`); an object is cleaned before the time its last `Schedule` asked for only if its key was rescheduled at a lower time (`OnlyLoweredEarly`). |
| `live_query` | `RefreshMatchesWaiter` (debounce has a refresh in hand exactly while the transport waits for one), `NoLostChange`, `ClientInSync`, the refinement `KeepsPromise`; and under fairness `Convergence` and `AllReturn`: nobody waits for ever for the lock, for `Trigger` or for a query that has ended. `NoLostChange` and `Convergence` except a path that changed between its read and its first registration. |
| `live_query_window` | Violates `UpdatedWhenDataChanges`, which is `Convergence` without that exception. |
| `client_cache` | `ActiveIffLive`, `OwnClient`; and under fairness `AllReturn`: sessions end and `Get` returns. |
| `live_query_cache` | `TrackedIsNotified`, `TrackingKept`; and under fairness `EventuallyFresh`. All three exclude a change between a read and its registration (section 6). |
| `bbolt_cache` | Two readers, cleanups and a failing database in any interleaving: `TxMatchesReaders` (no reader loses the transaction, and the last one rolls back the one that the request has), `ReadsAreRight` and `UnspoiltIsPersisted` (objects that are not spoilt are found as they are, and what was zeroed is in the database). |
| `bbolt_cache_start` | `StartReturns`, under fairness. |
| `bbolt_cache_persisted` | Violates `ZeroedIsPersisted`: a read during a cleanup fails, and makes the next cleanup overwrite the stored object with an empty one. |
| `resource_tree` | `WholeTree`: every order of goroutines and errors gives the whole tree in its order, or nothing and an error; `Answered` under fairness. |
| `mutation` | `SuccessIsOwn`, `NoLostUpdate`, `EffectsAccounted`, with requests that are lost, late and doubled. |
| `resolvers` | `QueryTypeOK`, `MissingIsReported`, `AnswersAgree`, `WarningsShown`, `IdLeadsBack`; and as action properties `SameAnswer` and `FoundIfKept` (what is there from the first read of a lookup to the last is found). |
| `json_patch` | `PatchIsRight`: at every step of the loop the patch leads from the one document to the other, and the loop misses no pair. |

More configurations stand beside the runs: each takes one question further than
a run, and is checked by hand with TLC. All but the first end with a
counterexample, to a property that a reader might expect to hold.

| Configuration | Shows |
|---|---|
| `MCBBoltCacheKeys.cfg` | The invariants of `bbolt_cache` with two objects, three versions and one reader: batches and lists of two items, and an object that is spoilt beside one that is not. |
| `MCBBoltCacheLeak.cfg` | `RolledBackByLast`: while there is no bucket a request forgets transactions, and its last reader does not roll them back. |
| `MCCleanerPremature.cfg` | `LastScheduleRespected`: with a constant interval concurrent calls still lower a time, and an object is cleaned early. |
| `MCResolversNamespace.cfg` | `NamespaceSparesClusterScoped`: with a namespace, cluster scoped resources of a cached kind are missing. |
| `MCResolversDangling.cfg` | `DanglingTakesPrecedence`: with `dangling` and a configuration revision nothing is shown. |
| `MCJSONPatchNull.cfg` | `ValueIsSent`: an operation whose value is null is sent without a value. |
| `MCLiveQueryCacheWindow.cfg` | `ReadIsNotified`: the window of `live_query_window`, in the cache. |
| `MCClientCacheRemoval.cfg`, `MCClientCacheExpiry.cfg` | `RemovedByItself`, `ExpiresOnlyIdle`: a session is removed by another's id, and expires while it is in use. |

Deadlock is checked in the run of Resolvers, which never stops. It is not in
the others: every component may stop (its context ends, its field is answered,
its call returns), and the bounds below end the rest. That nothing stops too
early is what the liveness properties say.

### Bounds

* Cleaner: `Horizon` bounds the clock. With an interval (`Durations`) of 2
  and the shortest timer (`TickInterval`) 1, 3 ticks let a key be scheduled,
  scheduled again at a later and at a lower time, and collected with an entry
  that is not its last one. Two callers and two keys are what a reversed order
  of `add` and an order between keys need. `MCCleanerPremature.cfg` needs one
  key and 6 ticks: the key has to be collected and scheduled again.
* LiveQuery: two changes (`MaxChanges`) by two informers, so that one can come
  while the other is being resolved and one can hold the lock while the other
  wants it; two paths, so that a change can fall between the reads of one
  resolution, and one can be registered while the other is not; `Throttle` 2,
  so that a timer can be half through. Data has two values and, after an error,
  null. The values of a path are interchangeable, so that one start (`Worlds`)
  stands for all; the proofs are for any.
* ClientCache: two requests, two ids, `MaxSessions` 2 so that a session can
  replace another. `Expiry` is in ticks; `UpTo` bounds the clocks of the
  model, not anything that the code counts.
* LiveQueryCache: one object of one kind, read by one query and read and listed
  by another, two changes. Versions and uids are numbered by the change that
  made them. `MissedDeletes` and `Unstructured` switch on two behaviours that
  section 6 describes; the passing run has them off.
* BBoltCache: `bbolt_cache` has two readers of one request and two versions of
  one object: an object can be replaced while it is cleaned and read, and the
  readers share a transaction, replace it and leave it in any order.
  `MCBBoltCacheKeys.cfg` has three versions of two objects and one reader, so that
  batches and lists have two items; its database does not fail, which
  `bbolt_cache` covers. It takes longer than a run should; the proofs are for
  any objects and versions. One version is enough for the liveness of `Start`.
  `Failures` says whether the database, marshalling and unmarshalling may fail.
* ResourceTree: a claim, its composite, two composites below it and three
  resources; one resource is referred to twice, one reference has no name, and
  two resources have ids that `join` does not tell apart. `Depth` 3 is the
  longest chain in it.
* Mutation: one call with the 4 attempts (`Steps`) of `retry.DefaultBackoff`,
  of every operation, and 3 writes (`MaxOthers`) of other clients, which are
  what another call is to it: enough to delete, create again and update between
  attempts.
* Resolvers: four or five objects of each kind, any subset of which exists and,
  for referents, two references and two objects of each name, chosen so that
  each condition of a field tells two of them apart: a package that was deleted
  and created again, a kind whose guessed plural belongs to another kind,
  objects whose joined ids tie, one that does not convert, a name with a
  separator, a cluster scoped kind that is not cached (`Uncached`) beside one
  that is, events of one object at two API versions, events of one time.
  `Target` 2 and `Cap` 3, so that either limit comes first. `MaxAsked` 2:
  properties relate two answers.
* JSONPatch: documents of one field and an array of at most 2 items, patches of
  at most 7 operations, which have two pairs next to each other and something
  on both sides of them.

### Fairness

Goroutines that can go on do, and clocks advance: weak fairness of each
goroutine's steps and of `Tick`. Strong fairness is used only where Go or bolt
gives it: a Go mutex does not starve (`OnEvent` and `Register` of
LiveQueryCache); a select chooses among ready cases at random (`CleanerDone`);
`db.Close` takes a lock that later transactions queue behind (`Close`).
LiveQuery needs none: its changes are bounded, so that weak fairness of
`OnEvent`, `Track` and `RecvFire` already has everyone served.
ResourceTree assumes that reads return, which the deadline of a request sees
to, with any outcome. Mutation and Resolvers state safety only. Nothing is
assumed of the environment: no client has to leave, no data has to change, no
cache has to sync or to crash, no reader has to come. `StartReturns` therefore
says what it needs: that a request does not have a reader at all times, and
that no transaction was leaked.

## 4. The proofs

All are for any value of the constants that the `ASSUME` of the module allows.

* **Cleaner** (`CleanerProofs`). `TypeCorrect`; `SliceSorted`; `HeldIsPending`;
  `LastScheduleCounts`. The lemmas `SearchIndexFact`, `ExpiredLenFact` and
  `InsertExpFact` say what the binary search, the loop of `collect` and the
  insertion do. `ExpsSorted` and `RefHasExp` are inductive with `TypeOK`. The
  last theorem, `OnlyLoweredEarly`, is for any number of callers, keys and
  durations: what it excepts is the case that the comment of the type names, a
  key that was rescheduled at a lower time. It needs `NoDangling`: of every
  other key an entry belongs to a live ref, is not due later than the last
  schedule and, if it has the ref's generation, is that last schedule. The
  exception cannot be dropped, as `MCCleanerPremature.cfg` shows.
* **LiveQuery** (`LiveQueryProofs`). `TypeCorrect`, `WaitersMatched`,
  `ChangesAreNotLost`, `PatchesAddUp`, `RefreshesThrottled`, `PromiseKept`.
  `WaitersMatched` follows from `Handshake`, which joins the two halves of
  `RefreshMatchesWaiter` with what `debounce` guarantees at its channels: it
  has closed `changesCh` only when the query is done, and when it sends it has
  cleared `armed`, `fired` and the timer. `NoLostChange` says that out of date
  data has a refresh under way, or that this resolution will still return it, or
  that the path is in `missed`; it is not an invariant without the last, as
  `live_query_window` shows. It is inductive together with `RegisteredFirst` (a
  path is registered before it is returned) and `StaleReadPending`: a registered
  path that was read before it changed has a trigger under way or is in
  `missed`. `Throttled` follows from `TimerCounts`: the timer and the time
  since the last refresh add up to at least the interval. `PromiseKept` is the
  refinement for any number of triggers, paths, values and changes and any
  interval: the initial states map to initial ones, and `PromiseStep` maps each
  step to one of LiveQueryPromise or to none, with `Handshake` and
  `TimerCounts` telling that a delivery is owed and not too early.
* **ClientCache** (`ClientCacheProofs`). `TypeCorrect`, `SessionsAreLive`,
  `ClientsAreOwn`, from one inductive invariant `IInv`: types, what the locals
  of a `Get` call hold (`GetLocals`), which goroutines a session has
  (`Goroutines`), that sessions not yet numbered are untouched (`Numbered`) and
  that two calls never build the same one (`Building`). `RemoveSafe` is the
  heart: `remove` by id keeps the invariant although it may hit a session of
  another call.
* **Mutation** (`MutationProofs`). `TypeCorrect`, `SuccessIsTheCalls`,
  `UpdatesAreSafe`, `EffectsAreAccountedFor`, for any calls, attempts and
  writes of others. `SuccessIsOwn` needs `Told`: whatever the server tells a
  call is in the call's history. `NoLostUpdate` needs `OnTheWay` (each request
  carries the version that the caller has read, however old the request is)
  and `Once`: after an update has been carried out, the object is never at the
  version that the call has seen, so none of its other requests can be. The
  bound of `EffectsAccounted` becomes inductive as `Budget`, in which the
  attempt in progress counts until it has been refused.
* **LiveQueryCache** (`LiveQueryCacheProofs`). `TypeCorrect`,
  `TrackersAreKept` (an action property), `RegisteredIsTracked`,
  `ChangesReachQueries`. `DeletedStayGone` is what lets the handlers forget a
  uid: one whose deletion is on its way never comes back. `Registered` says
  that `handles`, `c.queries` and the trackers agree about every read that was
  registered, and `ReadIsCurrent` that until then only `raced` remembers a
  change. `ChangesReachQueries` is stated with the hypotheses
  `MissedDeletes = FALSE` and `Unstructured = {}`: section 6 tells what happens
  without each of them, so they cannot be dropped. The other three theorems do
  not need them.
* **BBoltCache** (`BBoltCacheProofs`). `TypeCorrect`,
  `TransactionsMatchReaders`, `ReadsAreRightAlways` and `UnspoiltPersisted`, all
  of them however informers, requests and cleanups interleave and whatever
  fails; none has a hypothesis. The first two rest on `TxInv`, with `Counted`
  (the counter of a request is the number of its readers between `txOnce` and
  `done`) and `OpenBeforeClose`. The other two rest on `DataInv`, which follows
  each version from the informer's update to memory, the cleaner's batch and the
  database, for every object that is not spoilt: what readers schedule is or
  will be what the informer stores (`SchedCopies`), what cleanup holds may
  replace what is in the database (`HeldUpToDate`), `Persisted` says what the
  write transaction or the database then has, and `InHand` that a reader has, or
  will find in the snapshot of its request, what was stored when it began. That
  an object which is being read is not in the hands of cleanup (`Quiet`) is not
  assumed of the schedule: it is what not being spoilt means, and the lemmas
  show that a cleanup of other objects, in the same batch or not, does no harm.
  `bbolt_cache_persisted` shows that spoilt objects have to be excepted.
* **JSONPatch** (`JSONPatchProofs`). `TypeCorrect`, `PatchLeadsToData`, for
  any fields, values, items and lengths. A patch is applied one operation after
  the other; `ApplyFact` describes that by the chain of the documents in
  between, and `ApplyParts` cuts a patch in two. `ReplaceFact` is why the loop
  is right: a remove and an add at one place do what one replace does.
  `DifferFact` says that what jd renders leads to the new document, and
  `NoneBehind` that no pair is left behind the index, also after the slice was
  shortened and the index stays.
* **ResourceTree** (`QueryProofs`, first part). `TypeCorrect` and
  `WholeTreeOrNothing`, for any resources, references and depth.
  `ReturnedIsWhole` is the heart: a call that has returned a list, or that has
  returned in a response without errors, has returned the tree at its path
  (`IsTree`), and all below is `Settled`. A call decides by the errors of the
  whole response, so it needs `FailuresAreErrors`, and it knows its callees by
  the resources that were found, so it needs `NodesAreFound` and `Lineage`
  (nothing is found below what was not). `TreeFact` puts the lists of the
  callees behind the node of the call; the order follows from `SideBySide`
  (everything below a resource comes before everything below the next one) and
  from `SortFact`. The theorem about `Complete` counts through a bijection
  between the list and what was found.
* **Resolvers** (`QueryProofs`, second part). `QueryInvariant`, and from it every
  property of the run: `AnswersAreTyped`, `NothingIsMissingUnreported`,
  `DifferentAnswersAgree`, `EnoughWarningsAreShown`, `IdsLeadBack`, and the
  action properties `AnswersAreRepeated` and `KeptIsFound`; for any finite sets
  of objects, any references, owners, kinds and guessed names, and any `Target`
  and `Cap`. The inductive invariant `QueryInv` says what the page remembers and
  the properties do not: each answer is what its field gives for some order of a
  list of the objects that exist now (`IsAnswer`), which stays true because a
  change empties the page (`AnswerStays`). `LookupIsFaithful` is needed for the
  lookup of a definition in two reads, `GatherIsFaithful` for `Owners` and
  `Objects`: what was there from the start and whose goroutine is done is among
  the nodes, and without an error every goroutine that is done has a node. The
  other half of the work is about the operators. `PlaceFact` shows that places
  are a bijection to 1..n, by counting who comes before whom; so `SortedFact`
  holds (everything kept is there, once, in order), and `SortedSame` (with
  distinct ranks the result does not depend on the list), which is why
  `AnswersAreRepeated` is a statement about two answers and not about a step.
  `LimitFact` is about the loop of `limit`. `ParseFact` says that the parser
  undoes `String` for parts of any length, by where the separators are, and
  `NamespaceKept` that the types whose id has no namespace have none.
  What is assumed of the objects is `ResolversAssumption`: they are finitely
  many, keys and times are integers and tie exactly where the joined parts do,
  the separator occurs in names only, kinds that are cluster scoped have no
  namespace, events of one uid are about one kind, namespace and name (but
  perhaps several API versions), and no two references of an object have one
  name. `KeptIsFound` and `GatherIsFaithful` need the last of these, `EventsAgree`
  the one before it. Two statements are about less than the schema promises, and
  `MCResolversNamespace.cfg` and `MCResolversDangling.cfg` show why:
  `NothingIsMissingUnreported` makes no claim about cluster scoped resources
  of a cached kind if a namespace is given, and `DifferentAnswersAgree` none
  about `dangling` and `revision` set together.

The library's induction rules take an operator as parameter and cannot be used
with the provers here. Where a fact about a sequence or a path of any length is
needed, `JSONPatchProofs` and `QueryProofs` take the least length at
which it fails (`LeastNat`, from the well-foundedness of `<`) and refute it;
recursive functions are shown to exist in the same way (`ChainExists`,
`WalkExists`, `JoinedExists`).

Only model-checked: all liveness (`TimerDrains`, `Convergence`, `AllReturn`,
`EventuallyFresh`, `StartReturns`, `Answered`), which the prover does not
reach. Every safety invariant and every action property of a passing run is
stated by a theorem.

## 5. Findings

The two violating runs, with the comments they contradict, are under `findings`
in `PROJECT.json`.

* `live_query_window`: a change between a read and its registration triggers
  nothing (`live_query.go:71`); the client keeps the old data until something
  else of the query changes.
* `bbolt_cache_persisted`: a read during a cleanup can lose the object
  (`bbolt_cache.go:368`).

## 6. Behaviour seen while modelling that no run states

* Cleaner: an object can be cleaned early although the interval is constant
  (`cleaner.go:142`, `210`, `234`; `MCCleanerPremature.cfg`). Two calls of
  `Schedule` read the clock in one order and reach `add` in the other, which
  lowers the time of the key; the entry of the later time has the smaller
  generation, stays behind when the ref is collected, and matches a new ref
  because generations start again at 1.
* Cleaner: a signal that is sent while `Start` is between `collect` and its
  select is dropped (`cleaner.go:143`). If nothing else is scheduled no timer
  is set, and the object stays until another `Schedule` comes first in the
  slice. `TimerDrains` therefore presumes an armed timer, and says nothing of
  an object whose only signal is dropped.
* BBolt cache: while the bucket does not exist, each call of `getBucket` of a
  request begins a transaction and forgets the one before
  (`bbolt_cache.go:323`; the variable `leaked`; `MCBBoltCacheLeak.cfg`), for
  which `db.Close` then waits for ever. The comment at `bbolt_cache.go:297-298`
  says that the last reader rolls it back.
* A cluster scoped resource of a cached kind disappears from
  `kubernetesResources` if the client gives a namespace (`query.go:165`;
  `MCResolversNamespace.cfg`), which by `schema/queries.gql:39-43` "Has no effect
  on cluster scoped resources". xgql hands the namespace on whatever the scope
  of the kind; that the cache then answers from the index of the namespace is
  taken from controller-runtime.
* `dangling` does not take precedence over `revision` (`query.go:471`, `513`;
  `MCResolversDangling.cfg`), as `schema/queries.gql:136-137` and `154` say it
  does: with both set nothing is shown.
* A patch that sets something to null has no value (`json_patch.go:42`;
  `MCJSONPatchNull.cfg`) although `json_patch.go:27` and `31` say that `add` and
  `replace` have one; a client that follows RFC 6902 refuses it.
* Client cache: `remove(id)` may cancel the session that has replaced the
  caller's own (`clients.go:339`; `RemovedByItself` with
  `MCClientCacheRemoval.cfg`). No invariant breaks, as `SessionsAreLive`
  proves: the price is a session that ends early. Sessions expire at a fixed
  age because the ticker is never reset (`clients.go:285`; `ExpiresOnlyIdle`
  with `MCClientCacheExpiry.cfg`). A `Get` that comes second leaves the ticker,
  the context and the database of the session it built (`clients.go:292-299`).
* Live query cache: the gap between a read and its registration (section 5) can
  be seen here too (`ReadIsNotified` with `MCLiveQueryCacheWindow.cfg`); the
  properties of the run except such reads (`raced`). `OnDelete` ignores the
  tombstone of a deletion that the informer missed (`live_query.go:179`;
  `MissedDeletes = TRUE` makes `TrackedIsNotified` fail). `OnUpdate` takes the
  kind from the old object, and an unstructured one that the bolt cache has
  zeroed has none (`live_query.go:209`; a nonempty `Unstructured` makes it
  fail). So the run and the theorem, which have both switched off, say nothing
  of missed deletions and of zeroed unstructured objects.
* BBolt cache: besides, a request that keeps its transaction
  while other requests and cleanups go on reads old versions of what was
  replaced and cleaned meanwhile, or fails on what was zeroed since
  (`bbolt_cache.go:317-326`); the objects that this happens to are spoilt, and
  `ReadsAreRight` and `UnspoiltIsPersisted` except them. `deepCopy` is always
  false, because the option it is read from is set just before
  (`bbolt_cache.go:125-127`): the object a caller has is zeroed a minute later.
* Mutations: a create that was carried out but whose answer was lost is
  retried and reports `AlreadyExists`; with `generateName` it makes a second
  object; a delete that is retried may remove an object that was created again
  meanwhile, because it has no precondition; an update without a resource
  version overwrites whatever is there. `EffectsAccounted` bounds how often.
* Resource tree: an error of any other field of the same response empties the
  tree, or not, depending on when it comes (`query.go:63`).
* `DefinedResources` keeps a nil in the list for a resource that cannot be
  modelled, and sorting a list of more than one panics (`common.go:148`).
* `limit` appends before it tests, so that a cap of 0 gives one event, and it
  keeps the oldest events (`event.go:203`).
* An event that was recorded about an object at another API version than that
  of an id is shown with the resource, which is asked by its UID, and not with
  the id (`event.go:125`); with an id the events of earlier objects of the name
  are shown too, as the comment at `event.go:117-120` says. `EventsAgree` states
  what the two have in common.
* `Definition` returns nothing if the guessed name belongs to a definition of
  another kind: the list is then not read (`managed.go:88`).
* `ActiveRevision` takes the first that fits in the order of a map, and ids are
  compared joined, without a separator (`sort.go:18`): where two tie, the order
  is the map's. `Owners` and `Objects` do not sort at all: their order is that
  in which goroutines finish, so a live query may get a patch although nothing
  has changed (`objectmeta.go:81`). `SameAnswer` names these cases (`Ordered`).
* A composed resource, a claim or a composition that is not found is left out
  in silence, an owner, an object of a revision or the connection secret of a
  managed resource is an error.

## 7. What the models take from outside src/

controller-runtime and client-go: with deep copies disabled `Get` and `List`
copy the stored struct; a list has the order of a map; a list of a namespace
comes from the index of that namespace and has nothing that is cluster scoped,
while the API server, which is asked for the kinds in `noCache`
(`cmd/xgql/main.go:93`), ignores the namespace for kinds that are; the store
changes before handlers are called; events of a kind come in order; a new
handler gets the store as an initial list; a deletion found by relisting comes
as `DeletedFinalStateUnknown`; the kind of an unstructured object is in its
content; `retry.OnError` makes at most 4 attempts. The API server: a create
fails if the name is taken, an update if the resource version is not the
current one, a request whose answer is lost may be carried out, at any later
time. bbolt: a read transaction is a snapshot, a write is visible when
committed, `Close` waits for open transactions, an empty key is an error.
gqlgen: the transport calls the response handler until it returns nil;
`GetErrors` has the errors of the whole response; a panic of a resolver becomes
an error. jd: a patch tests and removes what was there and adds what comes, one
place after the other. RFC 6902 on the client. go-pluralize: some name for each
kind (`Guess`). smaz and base64 lose nothing, so an id is its string.
`sort.Stable` is stable. Time: ticks; a minute is longer than a read (`young`
in BBoltCache).

## 8. Not modelled, and the plan

Not modelled:

* In the query resolvers: `pickXRDVersion`, the options that are deprecated,
  and fields that return a part of what they have been given
  (`CompositionRef`, `ClaimRef`, `ResourceRefs`). In the event resolvers:
  `InvolvedObject`, one read with an error path.
* In the model and the wrappers: the conversion of fields. Each copies what it
  reads.
* Error presenter, authentication, resolver configuration: functions of one
  argument without state. Authentication appears as the id of ClientCache.
* Telemetry, logs, health, version, flags, code generation: they keep no state
  that another step reads.
* The generated server and the generated model are 80% of the lines of the
  repository's Go code; they are outputs of gqlgen and have no logic of their
  own to model. The part of the code that the modules map is therefore small
  next to all lines, and large next to those that were written by hand.
* The leftovers of a losing `Get` (nothing ever releases them), the file names
  of `WithBBoltCache` (they rest on random suffixes), and whether a caller still
  uses an object a minute after it was returned.

The plan has been carried out for what the modules model. What could follow:
`pickXRDVersion` as a pure function in ResourceModel, and a composition of the
client cache with the resolvers, so that a session may end while a field reads.
