CONSTANTS
  A = A
  B = B
  o1 = o1
  o2 = o2
  SHAs <- MCSHAs
  Objs <- MCObjs
  Manifests <- MCManifests
  HooksAt <- MCHooksAt
  SyncOps <- MCManualOps
  Overrides = {"a=1"}
  Failures = TRUE
  MaxOps = 2
  MaxPushes = 1
  MaxCrashes = 1
  TerminateMidInvocation = TRUE
  Automated = TRUE
  MaxOverrideEdits = 1
SPECIFICATION AutoSpec
CHECK_DEADLOCK FALSE
PROPERTY RevisionWriteOnce
PROPERTY HistoryMatchesCluster
PROPERTY OperationEnds
PROPERTY AutoSyncFollowsHead
