CONSTANTS
  A = A
  B = B
  o1 = o1
  o2 = o2
  SHAs <- MCSHAs
  Objs <- MCObjs
  Manifests <- MCManifests
  HooksAt <- MCHooksAt
  SyncOps <- MCSyncOps
  Overrides = {}
  Failures = TRUE
  MaxOps = 2
  MaxPushes = 1
  MaxCrashes = 0
  TerminateMidInvocation = FALSE
  MaxOverrideEdits = 0
SPECIFICATION Spec
CHECK_DEADLOCK FALSE
INVARIANT TypeOK
INVARIANT SingleRevisionPerOperation
 
PROPERTY HistoryMatchesCluster
 
PROPERTY OperationRefinement
