\* A termination request arriving while an invocation is in progress, no restarts.
CONSTANTS
  A = A
  B = B
  o1 = o1
  o2 = o2
  SHAs <- MCSHAs
  Objs <- MCObjs
  Manifests <- MCManifests
  HooksAt <- MCHooksAt
  SyncOps <- MCSyncOps
  Overrides = {}
  Failures = TRUE
  MaxOps = 2
  MaxPushes = 1
  MaxCrashes = 0
  TerminateMidInvocation = TRUE
  MaxOverrideEdits = 0
SPECIFICATION Spec
CHECK_DEADLOCK FALSE
PROPERTY TerminationNotLost
