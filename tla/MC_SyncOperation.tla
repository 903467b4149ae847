-------------------------- MODULE MC_SyncOperation --------------------------
(* Two commits: A deploys o1 and o2 with a PreSync and a SyncFail hook, B  *)
(* drops o2 (so syncing B prunes it) and adds a Sync and a PostSync hook.  *)
EXTENDS SyncOperation

CONSTANTS A, B, o1, o2

MCSHAs == {A, B}

MCObjs == {o1, o2}

MCManifests == [c \in MCSHAs |-> IF c = A THEN {o1, o2} ELSE {o1}]

MCHooksAt == [c \in MCSHAs |->
                IF c = A THEN {"PreSync", "SyncFail"} ELSE {"Sync", "PostSync"}]

AllObjs == [isNil |-> TRUE, objs |-> {}]

(* A sync a user requests, with the Application's (empty) overrides.       *)
ManualOp(rev, dry, prune, st, sel) ==
  [revision |-> rev, overrides |-> NoOverrides, dryRun |-> dry, prune |-> prune,
   strategy |-> st, resources |-> sel]

(* Full syncs of the branch with the default (hook) and the apply strategy,*)
(* with and without pruning; a dry run; a selective sync of o2 at B (which *)
(* has no task unless o2 is still live); an operation whose SyncStrategy   *)
(* names no strategy; and an operation without a sync request.            *)
MCSyncOps ==
  {ManualOp(HEAD, FALSE, p, st, AllObjs) : p \in BOOLEAN, st \in {"nil", "apply"}}
  \cup {ManualOp(HEAD, TRUE, TRUE, "hook", AllObjs),
        ManualOp(B, FALSE, FALSE, "apply", [isNil |-> FALSE, objs |-> {o2}]),
        ManualOp(A, FALSE, FALSE, "empty", AllObjs),
        NoSync}

(* A full sync whose Resources list is present but empty, as decoding      *)
(* `resources: []` from the Application resource yields.                   *)
EmptySelectionSyncOps ==
  {ManualOp(HEAD, FALSE, FALSE, "apply", [isNil |-> FALSE, objs |-> {}])}
=============================================================================
