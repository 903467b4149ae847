# TLA+ models of the Argo CD sync engine

This directory holds TLA+ models of the application-sync core of Argo CD
(`src/controller/sync.go`), the TLC configurations that check them, and
`PROJECT.json`, which maps every model definition to the source lines it
translates. The file also lists the runs, the mutants, the findings and the
hazards.

## The system

`SyncAppState` (sync.go:44) runs one step of a sync operation each time the
application controller calls it. It resolves the revision to sync. On the
first invocation it asks `CompareAppState` to resolve a symbolic revision
(`HEAD`, a branch) to a SHA. It pins that SHA in `SyncResult.Revision`
(sync.go:99), and later invocations read it back (sync.go:62). After the
comparison it builds a `syncContext` and calls `sync()` or, when the phase is
`Terminating`, `terminate()`. When a non-dry-run, full sync succeeds, it also
records a deployment in the application's history (sync.go:153). The caller
writes the whole `OperationState` back to the Application after
`SyncAppState` returns.

`sync()` (sync.go:171) has no explicit progress counter. It infers where it
is from the resource and hook records that earlier invocations left:

* `startedPreSyncPhase` is true when any record exists.
* `startedSyncPhase` is true when a resource or a Sync hook is recorded.
* `startedPostSyncPhase` is true when a PostSync hook is recorded.

On the first step it dry-runs every task. A dry-run failure fails the
operation. Next comes the strategy:

* **Apply** applies every task and stays `Running`. The next invocation
  sees the recorded resources and finishes with `Succeeded` or `Failed`.
* **Hook** (`doHookSync`) runs PreSync hooks, then applies the resources
  and runs the Sync hooks, then runs the PostSync hooks. It waits for the
  hooks of each phase to finish.

`generateSyncTasks` (sync.go:237) turns the comparison into tasks. It keeps
only the selected resources when `syncOp.Resources` is non-nil. It then
sorts the tasks with `kindSorter` (sync.go:508-586): kinds in the order of
`resourceOrder`, unknown kinds after known ones, prunes last.
`doApplySync` (sync.go:380) prunes every prune task in its own goroutine. It
groups the create tasks into runs of the same kind, and runs each group's
tasks concurrently after a discovery lookup and a project-permission check.
It records each result with `setResourceDetails`.

`CompareAppState` decides whether an Application is Synced. It normalizes
each desired object and its live object and diffs them (specification 4.1
to 4.3). The diff package is not in this snapshot, only its tests
(`src/unnamed/part_001`, diff_test.go). When the live object carries the
`last-applied-configuration` annotation that `kubectl apply` writes, the
diff is three-way. Recorded fields changed in Git or in the cluster count,
and fields only the cluster added count as defaults. Without the
annotation the diff is two-way, and fields only in live are ignored.

## Modules

| Module | Models | State | Actions |
|---|---|---|---|
| `SortOrder` | the `resourceOrder` table | none | none |
| `KindSorter` | `syncTask`, `newKindSorter`, `kindSorter.Less`/`Swap`, the `sort.Sort` of `generateSyncTasks` | `tasks` (the list built), `sorted` (its sort) | `AppendSyncTask`, `NewSyncOperation` |
| `SyncOperation` | `SyncAppState`, `sync()`, `startedXxxPhase`, `generateSyncTasks`, `doApplySync` (one atomic wave), `applyObject`/`pruneObject`, `setResourceDetails`, `setOperationPhase`, and, from the specification, `doHookSync`, `terminate` and the controller's write-back | the cluster (`head`, `live`, `hookRun`), the persisted `opState` and `history`, the Application's `appOverrides`, and the invocation in progress (`pc`, `work`, `manifestRev`) | `BeginSyncAppState`, `SyncTasksStep`, `ApplyStrategyStep`, `HookStrategyStep`, `TerminateStep`, `PersistDeploymentInfo`, `WriteBackOperationState`; environment: `StartOperation`, `RequestTermination`, `PushCommit`, `HookJobEnds`, `EditOverrides`, `ControllerRestart` |
| `Operation` | what an operation promises through the Application status (data model and invariants of the specification): it starts Running, pins its revision once, is never revived after a termination request, ends in a terminal phase, and adds at most one deployment to history, only when it ends Succeeded at that revision | `phase`, `revision`, `history`, `recorded`, `ops` | `Start`, `Cancel`, `Record`, `Advance` |
| `AutoSync` | `autoSync`'s decision table (from the specification and the controller tests, not in this snapshot) composed with `SyncOperation`: a reconciliation compares the cluster with the branch tip and the Application's parameter overrides and starts the auto-sync operation | `SyncOperation`'s state (it `EXTENDS SyncOperation`) | `Reconcile`, plus every action of `SyncOperation` |
| `Differ` | `Normalize`, `TwoWayDiff`, `ThreeWayDiff`, `Diff` and the Comparator's verdict, from the specification and diff_test.go (not in this snapshot), for one resource through Git edits, syncs by `kubectl apply` and edits of the live object | `config` (desired object), `live` (live object with its last-applied annotation), `lastSync`, `edits`, `drifts` | `Sync`, `SyncRejected`; environment: `EditConfig`, `Drift` |
| `ApplyWave` | `doApplySync` in detail (prune goroutines and `wg.Wait`, grouping by adjacent Kind, `processCreateTasks` with discovery, `hasCRDOfGroupKind`, `IsResourcePermitted`, apply goroutines, `createWg.Wait`), `applyObject`, `pruneObject`, `setResourceDetails`, and the two calls of it in `sync()`'s Apply path; the sort is `KindSorter`'s, through `INSTANCE` | `tasks`, `syncOp`, `wave` (dry/real), `pc`, `gi` (current group), `gor` (each goroutine's step), `outcome`, `successful`, `details` (`SyncResult.Resources`), the cluster (`live`, `served`, `pending` CRDs, `applied`) | goroutines: `Call`, `SkipHook`, `Record`; controller: `PruneWait`, `ProcessCreateTasks`, `GroupWait`, `Return`, `AfterDryRun`, `AfterApply`; environment: `EstablishCRD` |

`MC_KindSorter`, `MC_SyncOperation`, `MC_AutoSync`, `MC_ApplyWave` and `MC_Differ` give
the constants values.

**KindSorter.**

* `Less` is a line-by-line translation of `kindSorter.Less`. A Go map
  lookup of a missing kind yields 0.
* Go's `sort.Sort` on lists of fewer than 12 elements is an insertion sort,
  so `InsertionSort` is the algorithm the controller runs on the lengths
  checked here.
* A task is abstracted to what `Less` reads: whether it has a target, its
  kind, and its name. Names are naturals in byte order.
* `SpecKey` is the reference order of the specification.

**SyncOperation.** One invocation of `SyncAppState` is split into the steps
between which the real code touches the cluster. `pc` records which step
is next:

1. `BeginSyncAppState` covers the Sync check, revision resolution, the
   comparison and the lookup errors.
2. `SyncTasksStep` covers task generation and the dry run.
3. `ApplyStrategyStep` or `HookStrategyStep` runs the strategy.
4. `PersistDeploymentInfo` runs `persistDeploymentInfo`, which writes
   `status.history` at once and may fail (phase Error).
5. `WriteBackOperationState` is the caller writing the whole in-memory
   `OperationState` back. It is a separate step, so a restart or a
   termination request can fall between the history write and it.

`opRecords` counts the history entries the current operation has added.
`TerminateMidInvocation` says whether the API may set `Terminating` while
an invocation is in progress (it can in the real system).

**Refinement.** `SyncOperation` defines `Op == INSTANCE Operation WITH`
phase and revision taken from the persisted `opState`, `recorded` as the
last history entry when `opRecords > 0`, and `ops` as `opCount`.
`OperationRefinement == Op!Spec`, including its weak fairness on ending an
active operation, is checked as a property.

`ControllerRestart` drops the in-memory invocation at any point. It also
drops `manifestRev`, the SHA pinned in memory at sync.go:99. Cluster
changes made before the restart stay.

**AutoSync.**

* `AutoSyncDecision` is the decision table of specification 4.5. It skips
  when automation is off or the comparison is Synced. When the last
  `OperationState` resolved the compared revision with the Application's
  overrides (`SameAttempt`), it skips if that operation succeeded and
  reports a degraded condition otherwise. In every other case it syncs,
  so new overrides at an attempted revision start a new operation
  (scenario 8, `TestAutoSyncParameterOverrides`).
* Following the no-thrash property of section 8 and `TestSkipAutoSync`,
  the previous attempt is read from the persisted `OperationState`, and
  any phase but Succeeded counts as failed.
* `Reconcile` runs only when no operation is in progress. It starts
  `AutoSyncOp(head, appOverrides)`: the compared SHA with the
  Application's overrides, no prune, the default strategy
  and all resources (scenario 6). It goes through the same
  `NewOperation` as a manual sync.
* `InSync` is `CompareAppState`'s status: every desired object is live as
  rendered from the commit with the Application's overrides, and nothing
  else is live.
* `EditOverrides` (in `SyncOperation`'s environment, so that every run
  shares one state) is a user changing `componentParameterOverrides`.
  `SyncOperation` renders with the operation's own overrides (sync.go:59),
  so `live` and `history` hold (commit, overrides) pairs (`Renderings`; an
  object not in the cluster is `NotLive`). History stores the overrides
  where the code stores the parameters the manifest service resolved
  from them.
* Left out: the Application conditions (output only), and the
  order-insensitive comparison of override lists: an override list is one
  value (`OverrideLists`).

**ApplyWave.**

* Each goroutine has two steps: the kubectl call (`Call`), then the
  unlocked `syncSuccessful = false` together with `setResourceDetails`
  under `sc.lock` (`Record`). A `Record` step is atomic because the lock
  is held for the whole of `setResourceDetails`.
* The failure loops of `processCreateTasks` run with no other goroutine
  alive, so each is one step.
* Objects are model values described by `Obj` (group, Kind, name,
  namespace, hook, the group-kind a CRD defines).
* Messages are reduced to their cause (`kubectl`, `notFound`, `denied`,
  ...).
* Namespaced-ness is left out of the policy check.
* A prune deletes `DeleteTarget`: the live object of the same group-kind
  and name in `sc.namespace`, as `DeleteResource(sc.config, liveObj,
  sc.namespace)` is called. When there is none, the call may also fail
  (NotFound).
* A created CRD is served only after the environment's `EstablishCRD`,
  as the API server establishes CRDs asynchronously.

**Differ.**

* An object is a record: a kind, one value per field path, and its
  last-applied annotation (`NoObj` when absent).
* The field paths are those the normalizer or the differ treats apart:
  `namespace`, the annotations map and one annotation `foo`, `replicas`
  (a number), `default` (defaulted by the API server), `status`, and one
  Secret key under `data` and `stringData`.
* Values are strings. A number is its JSON text, with or without `.0`.
  Base64 is a tagged string, so an encoded value never equals its source.
* `Normalize` follows specification 4.1:
  * it strips the namespace of cluster-scoped kinds;
  * it merges `stringData` into `data`, with data winning;
  * it strips `status`;
  * it drops an empty annotations map.
* `Canon` compares numbers through their integer text.
* `ThreeWayDiff` computes P1 (recorded to desired) and P2 (recorded to
  live) over the normalized objects. It is modified if P1 is non-empty, or
  if P2 touches a path that P1 or the recorded object claims.
* `TwoWayDiff` ignores fields that only live holds. Specification 4.2 says
  "any structural inequality", but TestThreeWayDiff step 5 and the
  degraded case of ThreeWayDiff ignore such fields, and the model follows
  the test.
* The cluster is the environment:
  * `Patched` is kubectl apply's three-way merge patch: it sets the fields
    config sets, deletes the fields the last apply set and config no longer
    sets, and keeps the others.
  * `Stored` is what the API server keeps. It fills in the `-n` namespace
    or drops it for a cluster-scoped kind, writes `stringData` over `data`,
    defaults `default`, stores numbers as integers, and sets `status`.
  * Edits of the live object (`Drift`) go through `Stored` too.
* `SyncRejected` is the dry run refusing a malformed Secret, which has a
  numeric `stringData` value.

Other SyncOperation abstractions:

* Manifests are a map from SHA to a set of objects.
* `doApplySync` is one step in which every task gets any outcome allowed
  by `applyObject`/`pruneObject`. `Failures` switches failures on.
* `syncOp.Resources` is `[isNil, objs]`, so nil and empty stay distinct.

## Runs

| Run | Expect | What it shows |
|---|---|---|
| `kind_sort` | pass | With built-in kinds, every list of up to 3 tasks is sorted into the reference order (known kinds by `resourceOrder`, prunes last). |
| `kind_sort_custom_order` | violation | With a custom kind, a custom resource can sort before a Namespace, and a Namespace after a Deployment (finding: code bug at sync.go:570). |
| `sync_operation` | pass | With no restarts and termination requested between invocations, an operation keeps its pinned revision and deploys one commit. History records only live deployments, every operation ends, and the model refines `Operation`. |
| `auto_sync` | pass | Auto-sync runs beside a manual sync, with users editing the parameter overrides, a restart at any step and termination requested at any time. The persisted revision is still write-once, history stays truthful, every operation ends, and every commit the branch moves to, with every override list the Application is given, is eventually in sync or attempted. |
| `apply_wave` | pass | Under every goroutine interleaving and kubectl or discovery failure: only permitted objects are applied; the returned flag matches the outcomes; and `sync()` returns. |
| `apply_wave_moved_object` | violation | A ConfigMap moved from another namespace into the application's is pruned with `sc.namespace`, so the old object stays live. |
| `apply_wave_same_kind` | violation | `a.io/Foo` and `c.io/Foo` form one group checked with `a.io`, so a forbidden object is applied. |
| `sync_empty_selection` | violation | A present but empty `Resources` list applies nothing, yet it is recorded in history as a deployment. |
| `sync_restart` | violation | A restart while an operation is in progress makes the resumed operation repeat work. It re-resolves `HEAD` and deploys a second commit, or, after `persistDeploymentInfo`, records the same deployment again. TLC's shortest trace shows the second commit. |
| `sync_lost_termination` | violation | A termination request during an invocation is overwritten by the write-back of the phase read at its start, `Running`. |
| `differ` | pass | A Deployment, a Secret and a cluster-scoped `Foo` go through Git edits, syncs, and edits or deletion of the live object (and of its annotation). Right after a sync the resource compares Synced. Whenever a sync would change the live object, it compares OutOfSync. |
| `differ_secret_collision` | violation | A Secret setting one key under both `data` and `stringData` compares OutOfSync right after it was applied. |

### Properties

* `SortedByResourceOrder` is stated on the sorted list: it is the
  specification's order (creates before prunes, known kinds by
  `resourceOrder`, unknown kinds after them by name).
* `SingleRevisionPerOperation`: every object applied for real within one
  operation comes from one commit.
* `RevisionWriteOnce` (action): once the persisted revision is set, it
  never changes within the operation.
* `HistoryMatchesCluster` (action): a history entry is added only when the
  cluster holds that commit's manifests.
* `OperationEnds`: a Running or Terminating operation reaches a terminal
  phase.
* `CrashSafeResume`: across restarts, one operation deploys one commit and
  adds at most one history entry.
* `TerminationNotLost` (action): a persisted `Terminating` never turns back
  into `Running` within the operation.
* `AutoSyncFollowsHead` (liveness): while a commit is the branch tip and
  the Application keeps an override list, that pair is eventually in sync
  or attempted by some operation, unless the bound on operations is used
  up. A decision that compares revisions only breaks it: after a failed
  attempt, new overrides at the same commit are never tried. Breaking it
  takes the comparison, the decision, the invocations and the write-back of the pinned revision together.
* `OperationRefinement`: every behaviour of the controller, seen through
  the status, is a behaviour of `Operation`. It combines the
  specification's invariants: revision write-once, terminal phases not
  mutated, cancellation honoured, at most one deployment recorded and only
  for a Succeeded operation at its pinned revision, and every operation
  ends.

* `PermittedOnly`: every object applied has a permitted group-kind.
* `ResultReflectsOutcomes`: the returned `syncSuccessful` is false exactly
  when a task failed.
* `SyncReturns`: `sync()` returns, so every WaitGroup wait is released.
* `PrunedObjectsDeleted`: a real sync with prune enabled, in which the
  cluster accepts every call, leaves no pruned object live.

* `AppliedIsInSync`: after a sync applied the desired object, and until Git
  or the live object changes, the Comparator reports Synced. Everything the
  API server converted (namespace, defaults, numbers, stringData) must
  normalize and diff away, and it must do so with and without a recorded
  annotation.
* `DiffSeesEveryChange`: whenever applying the desired object again would
  change the live object, the Comparator reports OutOfSync. This covers
  drift of a recorded field, a field removed from Git, a deleted live
  object, and a removed annotation.

Every property of a passing run has a mutant of the mapped code that TLC
kills. The mutants are listed in `PROJECT.json`.

### Bounds

**KindSorter**

* Two names and lists of up to 3 tasks. Three tasks are enough for the
  violations shown (`[Ns 1, Bar 1, Ns 2]`).
* Built-in kinds: CustomResourceDefinition, Namespace, Service, Deployment.
  These cover the first, second and a later entry of `resourceOrder`.
* The custom configurations add the unknown kinds `Bar` and `Foo`, one on
  each side of `Namespace` in byte order.

**SyncOperation**

* Two commits `A` and `B`. `A` deploys `{o1, o2}` with PreSync and SyncFail
  hooks; `B` deploys `{o1}` with Sync and PostSync hooks.
* At most one push of `HEAD`, at most two operations, and at most one
  restart (none in `sync_operation`). Two operations are enough for
  auto-sync to follow one push: one for the first tip, one for the next.
  `auto_sync` offers two manual requests (a full apply sync with prune
  and a dry run) beside the auto-sync operations, one per commit and
  override list. The
  Application starts without overrides and a user may set one list
  (`a=1`) once (`MaxOverrideEdits = 1`). That is enough for scenario 8:
  a failed attempt at a commit, then new overrides at the same commit.
  The other manual requests are checked in `sync_operation`, where
  `Overrides = {}` and `MaxOverrideEdits = 0`.
* The sync operations offered:
  * `HEAD` with prune on/off and strategy nil or apply;
  * a dry-run hook sync;
  * a selective sync of `o2` at `B`, which is not in `B`'s manifests;
  * an empty-strategy sync;
  * an operation with no Sync field.

**ApplyWave**

* Two plans:
  * a custom resource `a.io/Foo` listed before its CRD, a Deployment and
    a pruned Service in another namespace;
  * a hook Pod, a forbidden `b.io/Bar` (the project permits `a.io/Bar`)
    and a Deployment.
* Both values of `syncOp.prune` and `syncOp.dryRun`, and kubectl and
  discovery failures.
* This covers:
  * the CRD special case in the dry run;
  * both outcomes of the real-wave lookup;
  * a denied group;
  * the hook skip;
  * every prune outcome;
  * every path of `sync()` after the dry run.
* The violation configs each replace the plan with the two objects of
  their scenario.
* ApplyWave also sets `CHECK_DEADLOCK FALSE`: the model ends when `sync()`
  returns, and `SyncReturns` checks that it always does.

**Differ**

* Three Deployments:
  * without a namespace, with `foo`;
  * with `foo` removed and a `status`;
  * in `argocd`, with replicas `2.0` and the defaulted field set.
* Four Secrets: stringData only, data only, numeric stringData, and
  numeric stringData next to data.
* Two `Foo` objects, one with and one without a namespace.
* Two edits of Git and two edits of the live object. That is enough to
  remove a field from Git after a sync and to drift a recorded field, and
  to combine either with deleting the annotation.
* The violation config adds the colliding Secret.

`CHECK_DEADLOCK FALSE` is set because the model stops once `MaxOps`
operations have ended. `OperationEnds` still catches an operation stuck in
Running.

### Fairness

* `WF(ControllerStep)`: the controller reprocesses an application with an
  operation in progress on every refresh.
* `WF(HookJobEnds)`: hook Jobs run to completion in the cluster. Nothing in
  this code times them out, so this is an assumption about the cluster,
  noted as a hazard.

* In ApplyWave, each goroutine and the controller's own steps are weakly
  fair: the Go scheduler runs runnable goroutines and the kubectl client
  calls return. `EstablishCRD` is not fair, since nothing in the code
  waits for it.

* `WF(Reconcile)`: the refresh queue reconciles every Application each
  resync period.

Pushes, restarts, termination requests and manual operations are not
fair. `Differ` checks only invariants and assumes no fairness.

## Findings

1. **sync.go:570 (code bug).** An unknown kind and `Namespace` both read
   ordering 0, so `Less` orders them by name. The order is not a strict
   weak order and contradicts "unknown kinds after known". As a result,
   `doApplySync`'s adjacency grouping (sync.go:468) differs from grouping
   by kind once a custom kind is present: the tasks of one kind need not be
   contiguous.
2. **sync.go:99 and :154 (spec gap).** Progress reaches the Application
   only at the caller's write-back, while the cluster and history change
   before it. A restart can redeploy a different commit within the same
   operation, or record the same deployment twice. Both contradict the
   specification's claim that progress inferred from data makes
   operations crash-safe.
3. **sync.go:250 vs :153 (spec vs. code).** `nil` and empty `Resources` are
   told apart by the filter but not by the history check.
4. **sync.go:468 (code bug).** Tasks are grouped by Kind only, and the
   policy is checked with the first task's group, so a forbidden
   same-named Kind of another API group is applied.
5. **sync.go:342 (code bug).** `pruneObject` deletes the live object's
   name in `sc.namespace`, not in its own namespace. A pruned object
   elsewhere stays live, and a same-named object in the destination
   namespace would be deleted instead. The prune is reported
   `SyncedAndPruned` if the client treats the NotFound as success and
   `SyncFailed` if it returns it; the client is outside this snapshot and
   the model allows both. In the same scenario, `setResourceDetails` keys
   by (Kind, name) (sync.go:486), so the prune and apply outcomes of the
   moved object write one entry. No run checks that collision: the
   `apply_wave` plans have no two objects with one (Kind, name).
6. **sync.go:147 (spec gap).** The phase is read once per invocation, and
   the whole state is written back. A cancellation that arrives meanwhile
   is lost, and the operation continues as Running.
7. **Normalizer, diff_test.go:391 (spec gap).** Specification 4.1 lets
   `data` win over `stringData` on a shared key, but the API server lets
   `stringData` win. A Secret setting a key both ways stays OutOfSync after
   a successful sync, and auto-sync does not retry that revision.

The refinement therefore holds only without restarts and without
mid-invocation cancellation: findings 2 and 6 are exactly the ways each
of those breaks it.

The CRD special case of the dry run (sync.go:415) is still modelled in
`ApplyWave`. The real wave can fail a custom resource whose CRD the API
server has not established yet. The specification's design note already
records that race, so no run checks it.

Under the Apply strategy the apply goroutines skip hook objects without
recording them (sync.go:450). If every task of an operation were a hook,
nothing would be recorded, `startedSyncPhase` would stay false, and the
operation would dry-run, apply and stay Running on every invocation.
Whether hooks reach the task list is decided by `CompareAppState`, which
is not in this snapshot. `SyncOperation` keeps hooks out of the tasks, so
this is listed as a hazard without a run.

## Plan (further work)

1. The order-insensitive comparison of override lists (specification
   4.5) in `AutoSync`.
2. Whether an Error attempt should be retried (hazard at sync.go:101):
   the specification's error table and its no-thrash property disagree.
3. `DiffArray` and the Comparator's orphan check over several resources.

## Not modelled

* The finalizer is a stub.
* The StatefulSet YAML is test data.
* Logging, event emission and kubectl output formatting are left out.
* Health assessment of resources between hook phases is not modelled.
* The repository server and Git are reduced to `head` and the manifest map.
* In the Differ: `DiffArray` (an any-of over the pairs), array alignment
  by merge key, labels (which are normalized like annotations), and the
  ASCII rendering of a diff.
