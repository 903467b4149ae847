----------------------------- MODULE MC_AutoSync -----------------------------
(* The commits, objects and hooks of MC_SyncOperation.  Beside the         *)
(* operations auto-sync enqueues, a user may request a manual full sync    *)
(* with pruning or a dry run; the other manual requests are checked in     *)
(* MC_SyncOperation.                                                       *)
EXTENDS AutoSync, MC_SyncOperation

MCManualOps ==
  {ManualOp(HEAD, FALSE, TRUE, "apply", AllObjs),
   ManualOp(HEAD, TRUE, TRUE, "hook", AllObjs)}
=============================================================================
