---------------------------- MODULE SyncOperation ----------------------------
(***************************************************************************)
(* One Application's sync operation as the controller drives it across     *)
(* many invocations of appStateManager.SyncAppState (controller/sync.go).  *)
(*                                                                         *)
(* The durable state is the Application status: the OperationState (phase,*)
(* the SyncOperation requested, and the SyncResult with the resolved       *)
(* revision and the per-resource and per-hook statuses) and the deployment *)
(* history.  An invocation copies the OperationState into memory, works on *)
(* it in several steps that talk to the manifest service and the cluster,  *)
(* and the caller writes it back when SyncAppState returns.  A controller  *)
(* restart between those steps loses the copy but not what was already     *)
(* done to the cluster.  The git branch the operation names may move       *)
(* between invocations.                                                    *)
(*                                                                         *)
(* Messages are left out: setOperationPhase is modelled by the phase it    *)
(* sets.  doApplySync is one atomic step here, with a free outcome for     *)
(* every task; ApplyWave models its goroutines, groups and policy checks.  *)
(***************************************************************************)
EXTENDS Naturals, Sequences, FiniteSets

CONSTANTS
  SHAs,          \* concrete commit SHAs of the source repository
  Objs,          \* cluster objects (group/kind/namespace/name) in play
  Manifests,     \* [SHAs -> SUBSET Objs]: the desired objects at a commit
  HooksAt,       \* [SHAs -> SUBSET HookTypes]: the hooks at a commit
  SyncOps,       \* the SyncOperation requests a user or auto-sync may make
  Overrides,     \* parameter override lists other than the empty one
  Failures,      \* BOOLEAN: calls to the cluster and services may fail
  MaxOps,        \* bound: number of sync operations started
  MaxPushes,     \* bound: number of times the branch moves
  MaxCrashes,    \* bound: number of controller restarts
  TerminateMidInvocation, \* BOOLEAN: a termination request may arrive while
                          \* an invocation is in progress
  MaxOverrideEdits        \* bound: edits of the Application's overrides

HookTypes   == {"PreSync", "Sync", "PostSync", "SyncFail"}
Phases      == {"Running", "Terminating", "Failed", "Error", "Succeeded"}
Terminal    == {"Failed", "Error", "Succeeded"}
ResStatuses == {"Synced", "SyncedAndPruned", "SyncFailed", "PruningRequired"}
HookStates  == {"Running", "Succeeded", "Failed"}
None        == "None"
HEAD        == "HEAD"      \* a symbolic revision, resolved to the branch tip
NoOverrides == "NoOverrides"  \* an empty ParameterOverrides list

(* An override list is one value: lists that hold the same (name, value)   *)
(* pairs are not told apart.  Objects are rendered from a commit and the  *)
(* overrides; a rendering is that pair.                                    *)
OverrideLists == Overrides \cup {NoOverrides}
Renderings    == SHAs \X OverrideLists
NotLive       == <<>>   \* no such object in the cluster

(* A SyncOperation: revision requested, dryRun, prune, the strategy        *)
(* ("nil" when SyncStrategy is unset, "empty" when it is set with neither  *)
(* Apply nor Hook), the Resources selection, whose nil-ness matters, and  *)
(* the ParameterOverrides the manifests are rendered with.                 *)
SyncOpType ==
  [revision : SHAs \cup {HEAD}, overrides : OverrideLists,
   dryRun : BOOLEAN, prune : BOOLEAN,
   strategy : {"nil", "apply", "hook", "empty"},
   resources : [isNil : BOOLEAN, objs : SUBSET Objs]]

(* Operation.Sync == nil: an operation without a sync request, read as    *)
(* the zero SyncOperation.                                                 *)
NoSync ==
  [revision |-> "", overrides |-> NoOverrides, dryRun |-> FALSE, prune |-> FALSE, strategy |-> "nil",
   resources |-> [isNil |-> TRUE, objs |-> {}]]

ASSUME /\ Manifests \in [SHAs -> SUBSET Objs]
       /\ HooksAt \in [SHAs -> SUBSET HookTypes]
       /\ SyncOps \subseteq SyncOpType \cup {NoSync}
       /\ Failures \in BOOLEAN

OpStateType ==
  [phase : Phases \cup {None}, sync : SyncOpType \cup {NoSync},
   revision : SHAs \cup {""},
   resources : [Objs -> ResStatuses \cup {None}],
   hooks : [HookTypes -> HookStates \cup {None}]]

VARIABLES
  head,         \* the commit the branch points to
  live,         \* [Objs -> Renderings \cup {NotLive}]: what each live object is
  hookRun,      \* [HookTypes -> HookStates \cup {None}]: hook jobs in the cluster
  opState,      \* status.operationState as persisted
  history,      \* status.history: the (revision, params) of deployments
  pc,           \* where the running SyncAppState invocation is
  work,         \* its in-memory OperationState
  manifestRev,  \* its manifestInfo.Revision
  applied,      \* SHAs the current operation has put into the cluster
  opCount, pushes, crashes,
  opRecords,    \* history entries the current operation has added
  appOverrides, \* the Application's spec.source.componentParameterOverrides
  overrideEdits \* edits of them made

vars == <<head, live, hookRun, opState, history, pc, work, manifestRev,
          applied, opCount, pushes, crashes, opRecords,
          appOverrides, overrideEdits>>

appVars == <<appOverrides, overrideEdits>>

NoResources == [o \in Objs |-> None]
NoHooks     == [t \in HookTypes |-> None]

-----------------------------------------------------------------------------
(* The manifest service resolves a symbolic revision to the branch tip and *)
(* a SHA to itself.                                                        *)
Resolve(rev) == IF rev = HEAD THEN head ELSE rev

(* startedPreSyncPhase, startedSyncPhase, startedPostSyncPhase: progress   *)
(* read back from the recorded SyncResult.                                 *)
StartedPreSyncPhase(s) ==
  (\E o \in Objs : s.resources[o] # None) \/ (\E t \in HookTypes : s.hooks[t] # None)

(* Mutant: progress read from the hook list only.                          *)
StartedSyncPhaseHooksOnly(s) == s.hooks["Sync"] # None \/ s.hooks["PostSync"] # None

StartedSyncPhase(s) ==
  (\E o \in Objs : s.resources[o] # None)
    \/ s.hooks["Sync"] # None \/ s.hooks["PostSync"] # None

StartedPostSyncPhase(s) == s.hooks["PostSync"] # None

(* CompareAppState pairs desired and live objects; generateSyncTasks keeps *)
(* a pair when Resources is nil or names it (argo.ContainsSyncResource).  *)
GenerateSyncTasks(rev, sel) ==
  {o \in Manifests[rev] \cup {x \in Objs : live[x] # NotLive} :
     sel.isNil \/ o \in sel.objs}

IsPrune(o, rev) == o \notin Manifests[rev]

(* pruneObject and applyObject: the ResourceDetails status of a task,      *)
(* given whether the kubectl call succeeded.                               *)
PruneStatus(prune, dryRun, ok) ==
  CASE ~prune -> "PruningRequired"
    [] dryRun \/ ok -> "SyncedAndPruned"
    [] OTHER -> "SyncFailed"

ApplyStatus(ok) == IF ok THEN "Synced" ELSE "SyncFailed"

TaskStatus(o, rev, prune, dryRun, ok) ==
  IF IsPrune(o, rev) THEN PruneStatus(prune, dryRun, ok) ELSE ApplyStatus(ok)

(* setResourceDetails for every task whose details doApplySync records:    *)
(* all of them when update is set, the failed ones otherwise.              *)
RecordDetails(res, tasks, status, update) ==
  [o \in Objs |-> IF o \in tasks /\ (update \/ status[o] = "SyncFailed")
                  THEN status[o] ELSE res[o]]

(* The cluster after a non-dry-run doApplySync: applied objects are those *)
(* rendered from rev with the overrides ov, pruned objects are gone.       *)
AfterApply(tasks, rev, ov, prune, ok) ==
  [o \in Objs |->
     CASE o \notin tasks \/ ~ok[o] -> live[o]
       [] ~IsPrune(o, rev) -> <<rev, ov>>
       [] prune -> NotLive
       [] OTHER -> live[o]]

(* The outcomes the cluster may give the kubectl calls of a wave.         *)
Outcomes == [Objs -> IF Failures THEN BOOLEAN ELSE {TRUE}]

(* doApplySync(tasks, dryRun, force, update) when kubectl call o returns   *)
(* ok[o]: the SyncResult afterwards, whether no task failed (the returned  *)
(* syncSuccessful), and the cluster afterwards.                            *)
DoApplySync(w, tasks, dryRun, update, ok) ==
  LET rev    == manifestRev
      prune  == w.sync.prune
      status == [o \in Objs |-> TaskStatus(o, rev, prune, dryRun, ok[o])]
  IN [work |-> [w EXCEPT !.resources =
                  RecordDetails(w.resources, tasks, status, update)],
      good |-> \A o \in tasks : status[o] # "SyncFailed",
      live |-> IF dryRun THEN live ELSE AfterApply(tasks, rev, w.sync.overrides, prune, ok)]

(* The commits this operation has deployed, after a wave that created or  *)
(* updated some object.                                                    *)
Deployed(before, after) ==
  IF \E o \in Objs : after[o] # before[o] /\ after[o] # NotLive
  THEN applied \cup {manifestRev} ELSE applied

SetPhase(w, phase) == [w EXCEPT !.phase = phase]

NoWork == [phase |-> None, sync |-> NoSync, revision |-> "",
           resources |-> NoResources, hooks |-> NoHooks]

(* Mutant: the remembered revision is not read back.                       *)
RequestedRevisionIgnoresResult(w) == w.sync.revision

(* The revision SyncAppState asks CompareAppState for: the one remembered  *)
(* in SyncResult if any, else the one the operation requested.             *)
RequestedRevision(w) == IF w.revision # "" THEN w.revision ELSE w.sync.revision

(* Mutant: dry runs are recorded too.                                      *)
RecordsHistoryDryRunToo(w) ==
  /\ w.sync # NoSync
  /\ w.sync.resources.objs = {}
  /\ w.phase = "Succeeded"

(* Mutant: the phase is not checked before recording.                      *)
RecordsHistoryAnyPhase(w) ==
  /\ w.sync # NoSync
  /\ ~w.sync.dryRun
  /\ w.sync.resources.objs = {}

(* The condition under which SyncAppState records the sync in history.     *)
RecordsHistory(w) ==
  /\ w.sync # NoSync
  /\ ~w.sync.dryRun
  /\ w.sync.resources.objs = {}
  /\ w.phase = "Succeeded"

(* Mutant: the requested revision is remembered instead of the resolved   *)
(* one.                                                                    *)
PinRequestedRevision(w, rev) == [w EXCEPT !.revision = w.sync.revision]

(* syncRes.Revision = manifestInfo.Revision: the SHA CompareAppState       *)
(* resolved is remembered in SyncResult for later invocations.             *)
PinRevision(w, rev) == [w EXCEPT !.revision = rev]

-----------------------------------------------------------------------------
(* SyncAppState, from reading the OperationState up to the dispatch to     *)
(* terminate() or sync(): an operation without a Sync is failed; the       *)
(* revision is resolved by CompareAppState and remembered in SyncResult;   *)
(* a failing CompareAppState, cluster lookup, client construction or       *)
(* project lookup ends the operation in Error.                             *)
BeginSyncAppState ==
  /\ pc = "Idle"
  /\ opState.phase \in {"Running", "Terminating"}
  /\ LET w == opState IN
       \/ /\ w.sync = NoSync
          /\ work' = SetPhase(w, "Failed")
          /\ pc' = "Persist"
          /\ UNCHANGED manifestRev
       \/ /\ w.sync # NoSync
          /\ Failures
          /\ work' = SetPhase(w, "Error")
          /\ pc' = "Persist"
          /\ UNCHANGED manifestRev
       \/ /\ w.sync # NoSync
          /\ manifestRev' = Resolve(RequestedRevision(w))
          /\ LET pinned == PinRevision(w, manifestRev') IN
               \/ /\ Failures
                  /\ work' = SetPhase(pinned, "Error")
                  /\ pc' = "Persist"
               \/ /\ work' = pinned
                  /\ pc' = IF w.phase = "Terminating" THEN "Terminate" ELSE "Sync"
  /\ UNCHANGED <<head, live, hookRun, opState, history, applied,
                 opCount, pushes, crashes, opRecords>>
  /\ UNCHANGED appVars

(* sync() up to the strategy: generate the tasks; succeed when there are   *)
(* none; on the first entry (nothing recorded yet) dry-run every task,     *)
(* recording all results for a dry-run operation and only failures         *)
(* otherwise, and stop there on failure or for a dry-run operation.        *)
SyncTasksStep ==
  /\ pc = "Sync"
  /\ LET tasks  == GenerateSyncTasks(manifestRev, work.sync.resources)
         dryRun == work.sync.dryRun
     IN \/ /\ Failures      \* a live or target object fails to unmarshal
           /\ work' = SetPhase(work, "Error")
           /\ pc' = "Persist"
        \/ /\ tasks = {}
           /\ work' = SetPhase(work, "Succeeded")
           /\ pc' = "Persist"
        \/ /\ tasks # {}
           /\ StartedPreSyncPhase(work)
           /\ pc' = "Strategy"
           /\ UNCHANGED work
        \/ /\ tasks # {}
           /\ ~StartedPreSyncPhase(work)
           /\ \E ok \in Outcomes :
                LET r == DoApplySync(work, tasks, TRUE, dryRun, ok) IN
                  /\ work' = CASE ~r.good -> SetPhase(r.work, "Failed")
                               [] dryRun  -> SetPhase(r.work, "Succeeded")
                               [] OTHER   -> r.work
                  /\ pc' = IF r.good /\ ~dryRun THEN "Strategy" ELSE "Persist"
  /\ UNCHANGED <<head, live, hookRun, opState, history, manifestRev, applied,
                 opCount, pushes, crashes, opRecords>>
  /\ UNCHANGED appVars

(* sync() with the Apply strategy: apply every task once, then leave the   *)
(* operation Running so the next invocation, which finds the resources     *)
(* recorded, marks it Succeeded.  A strategy with neither Apply nor Hook   *)
(* fails.                                                                  *)
ApplyStrategyStep ==
  /\ pc = "Strategy"
  /\ work.sync.strategy \in {"apply", "empty"}
  /\ LET tasks == GenerateSyncTasks(manifestRev, work.sync.resources) IN
       \/ /\ work.sync.strategy = "empty"
          /\ work' = SetPhase(work, "Failed")
          /\ UNCHANGED <<live, applied>>
       \/ /\ work.sync.strategy = "apply"
          /\ StartedSyncPhase(work)
          /\ work' = SetPhase(work, "Succeeded")
          /\ UNCHANGED <<live, applied>>
       \/ /\ work.sync.strategy = "apply"
          /\ ~StartedSyncPhase(work)
          /\ \E ok \in Outcomes :
               LET r == DoApplySync(work, tasks, FALSE, TRUE, ok) IN
                 /\ work' = IF r.good THEN r.work ELSE SetPhase(r.work, "Failed")
                 /\ live' = r.live
                 /\ applied' = Deployed(live, r.live)
  /\ pc' = "Persist"
  /\ UNCHANGED <<head, hookRun, opState, history, manifestRev,
                 opCount, pushes, crashes, opRecords>>
  /\ UNCHANGED appVars

(* sync() with the Hook strategy (also the default when SyncStrategy is   *)
(* unset): doHookSync, whose code is not in this repository snapshot, is   *)
(* modelled from the phase table of the specification.  Recorded hook      *)
(* statuses are refreshed from the hook jobs in the cluster; a failed hook *)
(* runs the SyncFail hooks and fails the operation; otherwise the PreSync  *)
(* hooks run, then the tasks are applied and the Sync hooks run, then the  *)
(* PostSync hooks run, each phase waiting for the previous one.            *)
Launch(w, T) ==
  [w EXCEPT !.hooks = [t \in HookTypes |-> IF t \in T THEN "Running" ELSE w.hooks[t]]]

LaunchJobs(T) ==
  hookRun' = [t \in HookTypes |-> IF t \in T THEN "Running" ELSE hookRun[t]]

HookStrategyStep ==
  /\ pc = "Strategy"
  /\ work.sync.strategy \in {"nil", "hook"}
  /\ LET tasks   == GenerateSyncTasks(manifestRev, work.sync.resources)
         hooks   == HooksAt[manifestRev]
         w       == [work EXCEPT !.hooks = [t \in HookTypes |->
                       IF work.hooks[t] = None THEN None ELSE hookRun[t]]]
         Done(t) == t \notin hooks \/ w.hooks[t] = "Succeeded"
         failed  == \E t \in {"PreSync", "Sync", "PostSync"} : w.hooks[t] = "Failed"
         waiting == \E t \in HookTypes : w.hooks[t] = "Running"
         onFail  == (hooks \cap {"SyncFail"}) \ {t \in HookTypes : w.hooks[t] # None}
     IN \/ /\ Failures      \* getHooks fails
           /\ work' = SetPhase(work, "Error")
           /\ UNCHANGED <<live, hookRun, applied>>
        \/ /\ failed
           /\ work' = SetPhase(Launch(w, onFail), "Failed")
           /\ LaunchJobs(onFail)
           /\ UNCHANGED <<live, applied>>
        \/ /\ ~failed /\ waiting
           /\ work' = w
           /\ UNCHANGED <<live, hookRun, applied>>
        \/ /\ ~failed /\ ~waiting
           /\ "PreSync" \in hooks /\ w.hooks["PreSync"] = None
           /\ work' = Launch(w, {"PreSync"})
           /\ LaunchJobs({"PreSync"})
           /\ applied' = applied \cup {manifestRev}
           /\ UNCHANGED live
        \/ /\ ~failed /\ ~waiting /\ Done("PreSync")
           /\ ~StartedSyncPhase(w)
           /\ \E ok \in Outcomes :
                LET r    == DoApplySync(w, tasks, FALSE, TRUE, ok)
                    sync == hooks \cap {"Sync"}
                IN /\ work' = IF r.good THEN Launch(r.work, sync)
                              ELSE SetPhase(r.work, "Failed")
                   /\ IF r.good THEN LaunchJobs(sync) ELSE UNCHANGED hookRun
                   /\ live' = r.live
                   /\ applied' = Deployed(live, r.live)
        \/ /\ ~failed /\ ~waiting /\ StartedSyncPhase(w) /\ Done("Sync")
           /\ "PostSync" \in hooks /\ ~StartedPostSyncPhase(w)
           /\ work' = Launch(w, {"PostSync"})
           /\ LaunchJobs({"PostSync"})
           /\ applied' = applied \cup {manifestRev}
           /\ UNCHANGED live
        \/ /\ ~failed /\ ~waiting /\ StartedSyncPhase(w) /\ Done("Sync")
           /\ Done("PostSync")
           /\ work' = SetPhase(w, "Succeeded")
           /\ UNCHANGED <<live, hookRun, applied>>
  /\ pc' = "Persist"
  /\ UNCHANGED <<head, opState, history, manifestRev, opCount, pushes, crashes,
                 opRecords>>
  /\ UNCHANGED appVars

(* terminate(), also not in this snapshot, modelled from the specification:*)
(* delete the hook jobs still running, best effort, and fail the operation.*)
TerminateStep ==
  /\ pc = "Terminate"
  /\ \E deleted \in SUBSET {t \in HookTypes : hookRun[t] = "Running"} :
       /\ Failures \/ deleted = {t \in HookTypes : hookRun[t] = "Running"}
       /\ hookRun' = [t \in HookTypes |-> IF t \in deleted THEN None ELSE hookRun[t]]
  /\ work' = SetPhase(work, "Failed")
  /\ pc' = "Persist"
  /\ UNCHANGED <<head, live, opState, history, manifestRev, applied,
                 opCount, pushes, crashes, opRecords>>
  /\ UNCHANGED appVars

(* The end of SyncAppState: a successful full sync is recorded in history  *)
(* (persistDeploymentInfo, which writes status.history at once and may     *)
(* fail, turning the phase to Error).                                       *)
PersistDeploymentInfo ==
  /\ pc = "Persist"
  /\ \/ /\ RecordsHistory(work)
        /\ history' = Append(history, <<manifestRev, work.sync.overrides>>)
        /\ opRecords' = opRecords + 1
        /\ UNCHANGED work
     \/ /\ RecordsHistory(work)
        /\ Failures
        /\ work' = SetPhase(work, "Error")
        /\ UNCHANGED <<history, opRecords>>
     \/ /\ ~RecordsHistory(work)
        /\ UNCHANGED <<history, work, opRecords>>
  /\ pc' = "WriteBack"
  /\ UNCHANGED <<head, live, hookRun, opState, manifestRev, applied, opCount,
                 pushes, crashes>>
  /\ UNCHANGED appVars

(* After SyncAppState returns, the controller writes the whole in-memory   *)
(* OperationState back to the Application (not in this snapshot; from the *)
(* specification).                                                         *)
WriteBackOperationState ==
  /\ pc = "WriteBack"
  /\ opState' = work
  /\ pc' = "Idle"
  /\ work' = NoWork
  /\ manifestRev' = ""
  /\ UNCHANGED <<head, live, hookRun, history, applied, opCount, pushes,
                 crashes, opRecords>>
  /\ UNCHANGED appVars

-----------------------------------------------------------------------------
(* The environment.                                                        *)

(* The controller starts a new OperationState for the sync request s once *)
(* the previous operation has ended.                                        *)
NewOperation(s) ==
  /\ pc = "Idle"
  /\ opState.phase \in Terminal \cup {None}
  /\ opCount < MaxOps
  /\ opState' = [NoWork EXCEPT !.phase = "Running", !.sync = s]
  /\ hookRun' = [t \in HookTypes |-> None]
  /\ applied' = {}
  /\ opCount' = opCount + 1
  /\ opRecords' = 0
  /\ UNCHANGED <<head, live, history, pc, work, manifestRev, pushes, crashes>>
  /\ UNCHANGED appVars

(* A user (or an auto-sync, see AutoSync) sets app.operation.              *)
StartOperation == \E s \in SyncOps : NewOperation(s)

(* A user asks to terminate the running operation: the API server sets the *)
(* persisted phase to Terminating, whether or not the controller is in the *)
(* middle of an invocation.                                                *)
RequestTermination ==
  /\ opState.phase = "Running"
  /\ TerminateMidInvocation \/ pc = "Idle"
  /\ opState' = SetPhase(opState, "Terminating")
  /\ UNCHANGED <<head, live, hookRun, history, pc, work, manifestRev, applied,
                 opCount, pushes, crashes, opRecords>>
  /\ UNCHANGED appVars

(* A commit is pushed to the branch.                                       *)
PushCommit ==
  /\ pushes < MaxPushes
  /\ \E c \in SHAs \ {head} : head' = c
  /\ pushes' = pushes + 1
  /\ UNCHANGED <<live, hookRun, opState, history, pc, work, manifestRev,
                 applied, opCount, crashes, opRecords>>
  /\ UNCHANGED appVars

(* A user edits the Application's parameter overrides.                     *)
EditOverrides ==
  /\ overrideEdits < MaxOverrideEdits
  /\ \E ov \in OverrideLists \ {appOverrides} : appOverrides' = ov
  /\ overrideEdits' = overrideEdits + 1
  /\ UNCHANGED <<head, live, hookRun, opState, history, pc, work, manifestRev,
                 applied, opCount, pushes, crashes, opRecords>>

(* A hook job runs to completion in the cluster.                           *)
HookJobEnds ==
  /\ \E t \in HookTypes :
       /\ hookRun[t] = "Running"
       /\ \E e \in IF Failures THEN {"Succeeded", "Failed"} ELSE {"Succeeded"} :
            hookRun' = [hookRun EXCEPT ![t] = e]
  /\ UNCHANGED <<head, live, opState, history, pc, work, manifestRev, applied,
                 opCount, pushes, crashes, opRecords>>
  /\ UNCHANGED appVars

(* The controller restarts in the middle of an invocation: what it did to  *)
(* the cluster stays, its in-memory OperationState is lost.                *)
ControllerRestart ==
  /\ pc # "Idle"
  /\ crashes < MaxCrashes
  /\ pc' = "Idle"
  /\ work' = NoWork
  /\ manifestRev' = ""
  /\ crashes' = crashes + 1
  /\ UNCHANGED <<head, live, hookRun, opState, history, applied, opCount, pushes,
                 opRecords>>
  /\ UNCHANGED appVars

-----------------------------------------------------------------------------
Init ==
  /\ head \in SHAs
  /\ live = [o \in Objs |-> NotLive]
  /\ hookRun = [t \in HookTypes |-> None]
  /\ opState = NoWork
  /\ history = <<>>
  /\ pc = "Idle"
  /\ work = NoWork
  /\ manifestRev = ""
  /\ applied = {}
  /\ opCount = 0 /\ pushes = 0 /\ crashes = 0
  /\ opRecords = 0
  /\ appOverrides = NoOverrides
  /\ overrideEdits = 0

ControllerStep ==
  \/ BeginSyncAppState \/ SyncTasksStep \/ ApplyStrategyStep
  \/ HookStrategyStep \/ TerminateStep \/ PersistDeploymentInfo
  \/ WriteBackOperationState

Next ==
  \/ ControllerStep
  \/ StartOperation \/ RequestTermination \/ PushCommit \/ HookJobEnds
  \/ EditOverrides \/ ControllerRestart

(* The work queue re-enqueues the Application on every resync period and   *)
(* after every status change, so a controller step that stays enabled is   *)
(* taken; hook jobs are assumed to run to completion.                      *)
Fairness ==
  /\ WF_vars(ControllerStep)
  /\ WF_vars(HookJobEnds)

Spec == Init /\ [][Next]_vars /\ Fairness

-----------------------------------------------------------------------------
TypeOK ==
  /\ head \in SHAs
  /\ live \in [Objs -> Renderings \cup {NotLive}]
  /\ hookRun \in [HookTypes -> HookStates \cup {None}]
  /\ opState \in OpStateType
  /\ history \in Seq(Renderings)
  /\ pc \in {"Idle", "Sync", "Strategy", "Terminate", "Persist", "WriteBack"}
  /\ work \in OpStateType
  /\ manifestRev \in SHAs \cup {""}
  /\ applied \subseteq SHAs
  /\ opCount \in 0..MaxOps /\ pushes \in 0..MaxPushes /\ crashes \in 0..MaxCrashes
  /\ opRecords \in 0..(MaxCrashes + 1)
  /\ appOverrides \in OverrideLists
  /\ overrideEdits \in 0..MaxOverrideEdits

(* Once an operation's SyncResult holds a resolved revision, later         *)
(* invocations of the same operation never replace it, however the branch *)
(* moves (SyncAppState reads it back before calling CompareAppState).      *)
RevisionWriteOnce ==
  [][opState.revision # "" /\ opCount' = opCount
       => opState'.revision = opState.revision]_<<opState, opCount>>

(* An operation resumed across invocations (hook phases, the Apply         *)
(* strategy's second pass) deploys objects and hooks of one commit only.   *)
SingleRevisionPerOperation == Cardinality(applied) <= 1

(* A deployment is recorded in history only when every object of that     *)
(* commit is live as rendered from that commit with those overrides:       *)
(* history never claims a sync that did not happen.                       *)
HistoryMatchesCluster ==
  [][Len(history') > Len(history)
       => LET r == history'[Len(history')]
          IN \A o \in Manifests[r[1]] : live'[o] = r]_<<history, live>>

(* A controller restart between two steps of an operation is meant to be  *)
(* invisible: the resumed operation reads its progress back from the       *)
(* persisted SyncResult and repeats nothing, so it deploys objects of one  *)
(* commit only and adds at most one entry to the deployment history,      *)
(* however many invocations and restarts it takes.                         *)
CrashSafeResume == SingleRevisionPerOperation /\ opRecords <= 1

(* A termination request is never undone: once the persisted phase is      *)
(* Terminating, the same operation does not go back to Running (the write- *)
(* back of an invocation that read the phase before the request).         *)
TerminationNotLost ==
  [][opState.phase = "Terminating" /\ opCount' = opCount
       => opState'.phase # "Running"]_<<opState, opCount>>

(* Every operation that is started reaches a terminal phase.               *)
OperationEnds ==
  opState.phase \in {"Running", "Terminating"} ~> opState.phase \in Terminal

-----------------------------------------------------------------------------
(* Refinement of the abstract Operation: the persisted phase and revision,*)
(* the history, the entry this operation added, and the operation count.  *)
Op == INSTANCE Operation WITH
        phase    <- opState.phase,
        revision <- opState.revision,
        history  <- [i \in DOMAIN history |-> history[i][1]],
        recorded <- IF opRecords > 0 THEN history[Len(history)][1] ELSE "",
        ops      <- opCount

(* The controller implements the promise of an operation: seen only through*)
(* the Application status, its invocations, hooks and write-backs pin the  *)
(* revision once, never revive a terminated operation, record at most one *)
(* deployment per operation and only one that ends Succeeded at that       *)
(* revision, and end every operation.                                      *)
OperationRefinement == Op!Spec
=============================================================================
