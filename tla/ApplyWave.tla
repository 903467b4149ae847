----------------------------- MODULE ApplyWave ------------------------------
(***************************************************************************)
(* doApplySync (controller/sync.go) in detail, as the first invocation of  *)
(* sync() with the Apply strategy runs it: a dry-run wave over every task, *)
(* then, if it succeeded and the operation is not a dry run, the real      *)
(* wave.  Within a wave: one goroutine per prune task, a WaitGroup wait,   *)
(* then the create tasks in groups of adjacent tasks of one Kind; for each *)
(* group a discovery lookup and a project-policy check with the GVK of the *)
(* group's first task, then one goroutine per task and a WaitGroup wait.   *)
(* Every goroutine calls kubectl, then clears syncSuccessful on failure    *)
(* and calls setResourceDetails under sc.lock.                             *)
(*                                                                         *)
(* The task list is the one generateSyncTasks sorts; the sort is the one   *)
(* of the KindSorter module.  Objects are model values described by the    *)
(* constant Obj; messages are abstracted to their cause.                   *)
(***************************************************************************)
EXTENDS Naturals, Sequences, SequencesExt, FiniteSets

CONSTANTS
  ResourceOrder, Kinds, KindsByBytes, Names,  \* as in KindSorter
  Objs,       \* the objects of the application, model values
  Obj,        \* [Objs -> [group, kind, name, ns, hook, defines]]
  AppNs,      \* sc.namespace
  Plans,      \* the comparisons a sync may start from: sequences of
              \*   [obj, target] in CompareAppState's order
  Served,     \* the group-kinds the API server serves at the start
  Permitted,  \* the group-kinds the AppProject permits
  Failures,   \* whether kubectl and discovery calls may fail
  MaxTasks    \* bound: the longest plan

None == "None"

(* The absence of a group-kind or of a task outcome.                      *)
NoGroupKind == [group |-> "", kind |-> ""]
NotRun == [status |-> None, cause |-> None]

KS == INSTANCE KindSorter WITH tasks <- <<>>, sorted <- <<>>

GK(o) == [group |-> Obj[o].group, kind |-> Obj[o].kind]

VARIABLES
  tasks,        \* the sorted syncTasks of this sync
  syncOp,       \* [prune, dryRun]: the fields of sc.syncOp read here
  wave,         \* "dry" or "real"
  pc,           \* "Prune", "Group", "Apply", "Returned", "Finished"
  gi,           \* the index of the group being processed
  gor,          \* [task index -> "idle", "running", "called", "done"]
  outcome,      \* [task index -> resDetails of this wave, or None]
  successful,   \* syncSuccessful
  details,      \* sc.syncRes.Resources: a sequence of ResourceDetails
  live,         \* the objects present in the cluster
  served,       \* the group-kinds discovery reports
  pending,      \* group-kinds of applied CRDs not yet established
  applied       \* objects the real wave has applied

vars == <<tasks, syncOp, wave, pc, gi, gor, outcome, successful, details,
          live, served, pending, applied>>

Statuses == {"Synced", "SyncedAndPruned", "SyncFailed", "PruningRequired"}
Causes   == {"kubectl", "dryRun", "ignored", "notFound", "discovery", "denied"}

-----------------------------------------------------------------------------
Idx == DOMAIN tasks
DryRun == wave = "dry"
Update == IF DryRun THEN syncOp.dryRun ELSE TRUE
IsCreate(i) == tasks[i].target

(* syncTask with the fields kindSorter.Less reads.                         *)
SyncTask(t) == [obj |-> t.obj, target |-> t.target,
                kind |-> Obj[t.obj].kind, name |-> Obj[t.obj].name]

(* The create tasks in list order, grouped as the loop at sync.go:465      *)
(* does: a task joins the current group when its Kind equals the Kind of   *)
(* the group's first task.                                                 *)
JoinGroup(groups, i) ==
  IF groups # <<>> /\ tasks[Last(groups)[1]].kind = tasks[i].kind
  THEN [groups EXCEPT ![Len(groups)] = Append(@, i)]
  ELSE Append(groups, <<i>>)

Groups == FoldLeft(JoinGroup, <<>>, SelectSeq([i \in Idx |-> i], IsCreate))

Group(g) == ToSet(Groups[g])

(* hasCRDOfGroupKind over all create tasks.                                *)
HasCRDOfGroupKind(gk) == \E i \in Idx : IsCreate(i) /\ Obj[tasks[i].obj].defines = gk

(* Mutant: the policy compares Kinds only.                                 *)
IsResourcePermittedKindOnly(gk) == \E p \in Permitted : p.kind = gk.kind

(* sc.proj.IsResourcePermitted, namespaced-ness abstracted.                *)
IsResourcePermitted(gk) == gk \in Permitted

(* A ResourceDetails entry: applies are recorded in sc.namespace, prunes  *)
(* in the live object's namespace.                                         *)
Detail(i, status, cause) ==
  [kind |-> Obj[tasks[i].obj].kind, name |-> Obj[tasks[i].obj].name,
   ns |-> IF IsCreate(i) THEN AppNs ELSE Obj[tasks[i].obj].ns,
   status |-> status, cause |-> cause]

(* setResourceDetails: replace the entry of the same Kind and name, else   *)
(* append.                                                                 *)
SetResourceDetails(ds, d) ==
  LET same == {k \in DOMAIN ds : ds[k].kind = d.kind /\ ds[k].name = d.name}
  IN IF same = {} THEN Append(ds, d)
     ELSE [ds EXCEPT ![CHOOSE k \in same : TRUE] = d]

RECURSIVE SetAll(_, _, _, _)
SetAll(ds, is, status, cause) ==
  IF is = {} THEN ds
  ELSE LET i == CHOOSE j \in is : \A k \in is : j <= k
       IN SetAll(SetResourceDetails(ds, Detail(i, status, cause)),
                 is \ {i}, status, cause)

Successful(d) == d.status # "SyncFailed"

(* Whether a goroutine records its result (sync.go:404 and 457).           *)
Records(d) == Update \/ ~Successful(d)

(* pruneObject, when the DeleteResource call returns ok.                   *)
PruneObject(prune, ok) ==
  CASE ~prune -> [status |-> "PruningRequired", cause |-> "ignored"]
    [] DryRun -> [status |-> "SyncedAndPruned", cause |-> "dryRun"]
    [] ok     -> [status |-> "SyncedAndPruned", cause |-> "kubectl"]
    [] OTHER  -> [status |-> "SyncFailed", cause |-> "kubectl"]

(* What kubectl.DeleteResource(sc.config, liveObj, sc.namespace) deletes: *)
(* the live object of liveObj's group-kind and name in sc.namespace, not   *)
(* in liveObj's namespace; a cluster-scoped object ("" namespace) as is.   *)
(* When there is none the API answers NotFound, which DeleteResource may   *)
(* return as an error (the client is outside this snapshot).               *)
DeleteTarget(o) ==
  {x \in live : GK(x) = GK(o) /\ Obj[x].name = Obj[o].name
                /\ Obj[x].ns = IF Obj[o].ns = "" THEN "" ELSE AppNs}

(* applyObject, when the ApplyResource call returns ok.                    *)
ApplyObject(ok) ==
  [status |-> IF ok THEN "Synced" ELSE "SyncFailed", cause |-> "kubectl"]

OkValues == IF Failures THEN BOOLEAN ELSE {TRUE}

(* wg.Add and go func for every prune task: the prune wave starts.        *)
PruneWave == [i \in Idx |-> IF IsCreate(i) THEN "idle" ELSE "running"]

NoOutcome == [i \in Idx |-> NotRun]

-----------------------------------------------------------------------------
(* A sync with the Apply strategy starts on a fresh operation: nothing is  *)
(* recorded, the live objects are the ones the comparison will prune.      *)
Init ==
  /\ \E p \in Plans : tasks = KS!InsertionSort([k \in DOMAIN p |-> SyncTask(p[k])])
  /\ syncOp \in [prune : BOOLEAN, dryRun : BOOLEAN]
  /\ wave = "dry"
  /\ pc = "Prune"
  /\ gi = 1
  /\ gor = PruneWave
  /\ outcome = NoOutcome
  /\ successful = TRUE
  /\ details = <<>>
  /\ live = {tasks[i].obj : i \in {j \in Idx : ~IsCreate(j)}}
  /\ served = Served
  /\ pending = {}
  /\ applied = {}

(* Mutant: every applied object is taken for a CRD.                        *)
NewKindsAnyObject(o) ==
  IF Obj[o].defines \notin served THEN {Obj[o].defines} ELSE {}

(* The kind a created CRD (kube.IsCRD) introduces, if not yet served.     *)
NewKinds(o) ==
  IF Obj[o].defines # NoGroupKind /\ Obj[o].defines \notin served
  THEN {Obj[o].defines} ELSE {}

(* A goroutine's kubectl call: DeleteResource in pruneObject (only when    *)
(* pruning for real) or ApplyResource in applyObject.  A CRD that is       *)
(* created is served only once the API server establishes it.              *)
Call(i) ==
  /\ gor[i] = "running"
  /\ ~(IsCreate(i) /\ Obj[tasks[i].obj].hook)
  /\ LET o == tasks[i].obj
         notFound == ~IsCreate(i) /\ DeleteTarget(o) = {}
     IN \E ok \in OkValues \cup (IF notFound THEN {FALSE} ELSE {}) :
       LET d == IF IsCreate(i) THEN ApplyObject(ok) ELSE PruneObject(syncOp.prune, ok)
           real == ~DryRun /\ Successful(d) /\ d.cause = "kubectl"
       IN /\ outcome' = [outcome EXCEPT ![i] = d]
          /\ live' = IF ~real THEN live
                     ELSE IF IsCreate(i) THEN live \cup {o} ELSE live \ DeleteTarget(o)
          /\ applied' = IF real /\ IsCreate(i) THEN applied \cup {o} ELSE applied
          /\ pending' = IF real /\ IsCreate(i) THEN pending \cup NewKinds(o) ELSE pending
  /\ gor' = [gor EXCEPT ![i] = "called"]
  /\ UNCHANGED <<tasks, syncOp, wave, pc, gi, successful, details, served>>

(* The apply goroutine of a hook returns at once (sync.go:449).            *)
SkipHook(i) ==
  /\ gor[i] = "running"
  /\ IsCreate(i) /\ Obj[tasks[i].obj].hook
  /\ gor' = [gor EXCEPT ![i] = "done"]
  /\ UNCHANGED <<tasks, syncOp, wave, pc, gi, outcome, successful, details,
                 live, served, pending, applied>>

(* The rest of the goroutine: syncSuccessful = false on failure, then      *)
(* setResourceDetails under sc.lock when update is set or the call failed. *)
Record(i) ==
  /\ gor[i] = "called"
  /\ LET d == outcome[i] IN
       /\ successful' = (successful /\ Successful(d))
       /\ details' = IF Records(d)
                     THEN SetResourceDetails(details, Detail(i, d.status, d.cause))
                     ELSE details
  /\ gor' = [gor EXCEPT ![i] = "done"]
  /\ UNCHANGED <<tasks, syncOp, wave, pc, gi, outcome, live, served, pending,
                 applied>>

(* wg.Wait after the prune goroutines.                                     *)
PruneWait ==
  /\ pc = "Prune"
  /\ \A i \in Idx : ~IsCreate(i) => gor[i] = "done"
  /\ pc' = "Group"
  /\ gi' = 1
  /\ UNCHANGED <<tasks, syncOp, wave, gor, outcome, successful, details, live,
                 served, pending, applied>>
(* Mutant: a failed group does not clear syncSuccessful.                  *)
FailTasksKeepsResult(g, cause) ==
  /\ details' = SetAll(details, g, "SyncFailed", cause)
  /\ outcome' = [i \in Idx |-> IF i \in g
                   THEN [status |-> "SyncFailed", cause |-> cause] ELSE outcome[i]]
  /\ UNCHANGED successful

(* A failed group: syncSuccessful = false and a SyncFailed ResourceDetails *)
(* for every task of the group, set one after the other.                   *)
FailTasks(g, cause) ==
  /\ successful' = FALSE
  /\ details' = SetAll(details, g, "SyncFailed", cause)
  /\ outcome' = [i \in Idx |-> IF i \in g
                   THEN [status |-> "SyncFailed", cause |-> cause] ELSE outcome[i]]

(* processCreateTasks(tasksGroup, tasksGroup[0].GroupVersionKind()): the  *)
(* discovery lookup and the policy check use the first task's group and   *)
(* Kind for the whole group.  A Kind the server does not serve is skipped  *)
(* in the dry run when a CRD of the sync defines it; any other discovery   *)
(* error, or a group-kind the project does not permit, fails every task of *)
(* the group; otherwise one goroutine per task starts.                     *)
ProcessCreateTasks ==
  /\ pc = "Group"
  /\ gi <= Len(Groups)
  /\ LET g  == Group(gi)
         gk == GK(tasks[Groups[gi][1]].obj)
     IN \/ /\ gk \notin served
           /\ DryRun /\ HasCRDOfGroupKind(gk)
           /\ gi' = gi + 1
           /\ UNCHANGED <<pc, gor, outcome, successful, details>>
        \/ /\ gk \notin served
           /\ ~(DryRun /\ HasCRDOfGroupKind(gk))
           /\ FailTasks(g, "notFound")
           /\ gi' = gi + 1 /\ UNCHANGED <<pc, gor>>
        \/ /\ gk \in served
           /\ Failures
           /\ FailTasks(g, "discovery")
           /\ gi' = gi + 1 /\ UNCHANGED <<pc, gor>>
        \/ /\ gk \in served
           /\ ~IsResourcePermitted(gk)
           /\ FailTasks(g, "denied")
           /\ gi' = gi + 1 /\ UNCHANGED <<pc, gor>>
        \/ /\ gk \in served
           /\ IsResourcePermitted(gk)
           /\ gor' = [i \in Idx |-> IF i \in g THEN "running" ELSE gor[i]]
           /\ pc' = "Apply"
           /\ UNCHANGED <<gi, outcome, successful, details>>
  /\ UNCHANGED <<tasks, syncOp, wave, live, served, pending, applied>>

(* Mutant: the group is waited for through its recorded results.          *)
GroupDoneByResults(g) == \A i \in Group(g) : outcome[i] # NotRun

(* createWg.Wait: every goroutine of the group has returned.               *)
GroupDone(g) == \A i \in Group(g) : gor[i] = "done"

GroupWait ==
  /\ pc = "Apply"
  /\ GroupDone(gi)
  /\ pc' = "Group"
  /\ gi' = gi + 1
  /\ UNCHANGED <<tasks, syncOp, wave, gor, outcome, successful, details, live,
                 served, pending, applied>>

(* doApplySync returns syncSuccessful after the last group.                *)
Return ==
  /\ pc = "Group"
  /\ gi > Len(Groups)
  /\ pc' = "Returned"
  /\ UNCHANGED <<tasks, syncOp, wave, gi, gor, outcome, successful, details,
                 live, served, pending, applied>>

(* sync() after the dry run: fail, stop for a dry-run operation, or run    *)
(* the real wave (doApplySync(syncTasks, false, force, true)).             *)
AfterDryRun ==
  /\ pc = "Returned"
  /\ wave = "dry"
  /\ \/ /\ successful /\ ~syncOp.dryRun
        /\ wave' = "real"
        /\ pc' = "Prune"
        /\ gi' = 1
        /\ gor' = PruneWave
        /\ outcome' = NoOutcome
        /\ successful' = TRUE
     \/ /\ ~(successful /\ ~syncOp.dryRun)
        /\ pc' = "Finished"
        /\ UNCHANGED <<wave, gi, gor, outcome, successful>>
  /\ UNCHANGED <<tasks, syncOp, details, live, served, pending, applied>>

(* sync() after the real wave: the operation fails or stays Running.       *)
AfterApply ==
  /\ pc = "Returned"
  /\ wave = "real"
  /\ pc' = "Finished"
  /\ UNCHANGED <<tasks, syncOp, wave, gi, gor, outcome, successful, details,
                 live, served, pending, applied>>

(* The API server establishes a new CRD and discovery starts serving it.   *)
EstablishCRD ==
  /\ \E gk \in pending :
       /\ served' = served \cup {gk}
       /\ pending' = pending \ {gk}
  /\ UNCHANGED <<tasks, syncOp, wave, pc, gi, gor, outcome, successful,
                 details, live, applied>>

Goroutine(i) == Call(i) \/ SkipHook(i) \/ Record(i)

Controller ==
  PruneWait \/ ProcessCreateTasks \/ GroupWait \/ Return \/ AfterDryRun \/ AfterApply

Next ==
  \/ \E i \in Idx : Goroutine(i)
  \/ Controller
  \/ EstablishCRD

(* The Go scheduler runs every runnable goroutine and the kubectl calls    *)
(* return; the API server's establishment of a CRD is not assumed.        *)
Fairness ==
  /\ \A i \in 1..MaxTasks : WF_vars(i \in Idx /\ Goroutine(i))
  /\ WF_vars(Controller)

Spec == Init /\ [][Next]_vars /\ Fairness
-----------------------------------------------------------------------------
TypeOK ==
  /\ tasks \in Seq([obj : Objs, target : BOOLEAN, kind : Kinds, name : Names])
  /\ Len(tasks) <= MaxTasks
  /\ syncOp \in [prune : BOOLEAN, dryRun : BOOLEAN]
  /\ wave \in {"dry", "real"}
  /\ pc \in {"Prune", "Group", "Apply", "Returned", "Finished"}
  /\ gi \in 1..(Len(tasks) + 1)
  /\ gor \in [Idx -> {"idle", "running", "called", "done"}]
  /\ outcome \in [Idx -> [status : Statuses, cause : Causes] \cup {NotRun}]
  /\ successful \in BOOLEAN
  /\ details \in Seq([kind : Kinds, name : Names, ns : {Obj[o].ns : o \in Objs} \cup {AppNs},
                      status : Statuses, cause : Causes])
  /\ live \subseteq Objs /\ applied \subseteq Objs
  /\ served \cup pending \subseteq Served \cup ({Obj[o].defines : o \in Objs} \ {NoGroupKind})

(* The project's policy is enforced on every object the sync applies:      *)
(* no object of a group-kind the AppProject does not permit reaches the    *)
(* cluster, whichever group of adjacent same-Kind tasks it is applied in.  *)
PermittedOnly == \A o \in applied : GK(o) \in Permitted

(* The syncSuccessful that doApplySync returns, written without the lock   *)
(* by the goroutines and by failed groups, is false exactly when some task *)
(* of the wave failed.                                                     *)
ResultReflectsOutcomes ==
  pc = "Returned" =>
    (successful <=> \A i \in Idx : outcome[i].status # "SyncFailed")

(* A real sync with prune enabled, in a cluster that accepts every call,  *)
(* leaves none of the objects it prunes live: pruneObject deletes the live *)
(* object when prune is set and dryRun is not (specification 4.4).         *)
PrunedObjectsDeleted ==
  pc = "Finished" /\ wave = "real" /\ syncOp.prune /\ ~syncOp.dryRun /\ ~Failures
    => \A i \in Idx : ~IsCreate(i) => tasks[i].obj \notin live

(* Every sync() call returns: the goroutines of each wave finish and the   *)
(* WaitGroup waits are released.                                           *)
SyncReturns == <>(pc = "Finished")
=============================================================================
