------------------------------ MODULE AutoSync -------------------------------
(***************************************************************************)
(* The auto-sync policy composed with the sync operation it starts.        *)
(*                                                                         *)
(* On every reconciliation the controller compares the Application with    *)
(* the branch tip and, when no operation is in progress, asks autoSync     *)
(* whether to enqueue a new sync operation or to surface a condition.      *)
(* autoSync is not in this repository snapshot: its decision table is      *)
(* taken from the specification (4.5, the no-thrash property of 8) and the *)
(* controller tests (TestAutoSync, TestSkipAutoSync): the previous attempt *)
(* is the persisted OperationState, compared by its resolved revision, and *)
(* any phase other than Succeeded counts as failed.  The attempt is the    *)
(* revision together with the parameter overrides the Application carries *)
(* (scenario 8, TestAutoSyncParameterOverrides), which users may edit     *)
(* (SyncOperation's EditOverrides).                                         *)
(***************************************************************************)
EXTENDS SyncOperation

CONSTANT
  Automated   \* BOOLEAN: spec.syncPolicy.automated is set

(* The operation autoSync enqueues: the compared revision with the         *)
(* Application's overrides, no pruning, the default strategy and every     *)
(* resource (specification scenario 6).                                    *)
AutoSyncOp(rev, ov) ==
  [revision |-> rev, overrides |-> ov, dryRun |-> FALSE, prune |-> FALSE,
   strategy |-> "nil", resources |-> [isNil |-> TRUE, objs |-> {}]]

(* CompareAppState at commit rev with overrides ov: Synced when every      *)
(* desired object is live as rendered so and no other object is live.      *)
InSync(rev, ov) ==
  \A o \in Objs : live[o] = IF o \in Manifests[rev] THEN <<rev, ov>> ELSE NotLive

(* The last attempt was of revision rev with overrides ov.                  *)
SameAttempt(last, rev, ov) ==
  last.sync # NoSync /\ last.revision = rev /\ last.sync.overrides = ov

(* Mutant: the overrides are not compared (the check of revisions only).   *)
AutoSyncDecisionIgnoresOverrides(status, rev, ov, last) ==
  CASE ~Automated -> "skip"
    [] status = "Synced" -> "skip"
    [] last.sync # NoSync /\ last.revision = rev /\ last.phase = "Succeeded" -> "skip"
    [] last.sync # NoSync /\ last.revision = rev -> "degraded"
    [] OTHER -> "sync"

(* Mutant: a previous success skips auto-sync whatever its revision.       *)
AutoSyncDecisionIgnoresRevision(status, rev, ov, last) ==
  CASE ~Automated -> "skip"
    [] status = "Synced" -> "skip"
    [] last.sync # NoSync /\ last.phase = "Succeeded" -> "skip"
    [] SameAttempt(last, rev, ov) -> "degraded"
    [] OTHER -> "sync"

(* autoSync's decision table, given the comparison status, the compared    *)
(* revision, the Application's overrides and the last OperationState.     *)
AutoSyncDecision(status, rev, ov, last) ==
  CASE ~Automated -> "skip"
    [] status = "Synced" -> "skip"
    [] SameAttempt(last, rev, ov) /\ last.phase = "Succeeded" -> "skip"
    [] SameAttempt(last, rev, ov) -> "degraded"
    [] OTHER -> "sync"

(* A reconciliation while no operation is in progress: compare with the    *)
(* branch tip and start the auto-sync operation when autoSync decides so. *)
(* A skip changes nothing but the Application's conditions, which are      *)
(* output and left out, like the messages.                                 *)
Reconcile ==
  /\ opState.phase \in Terminal \cup {None}
  /\ LET status == IF InSync(head, appOverrides) THEN "Synced" ELSE "OutOfSync" IN
       AutoSyncDecision(status, head, appOverrides, opState) = "sync"
  /\ NewOperation(AutoSyncOp(head, appOverrides))

AutoNext == Next \/ Reconcile

(* The refresh queue reconciles every Application each resync period.      *)
AutoSpec == Init /\ [][AutoNext]_vars /\ Fairness /\ WF_vars(Reconcile)

-----------------------------------------------------------------------------

(* Every commit the branch moves to, with every override list the          *)
(* Application is given, is, while both stay, eventually in sync or        *)
(* attempted by some operation (which may have ended in any phase): the    *)
(* comparison, the decision table, the operation's invocations and the     *)
(* write-back of its resolved revision together make auto-sync follow the *)
(* branch and the overrides (as long as the bound on operations leaves    *)
(* room for one more).                                                     *)
AutoSyncFollowsHead ==
  \A r \in SHAs, ov \in OverrideLists :
    head = r /\ appOverrides = ov
      ~> \/ head # r \/ appOverrides # ov \/ InSync(r, ov)
         \/ SameAttempt(opState, r, ov) \/ opCount = MaxOps
=============================================================================
