\* A controller restart while an operation is in progress (before its write-back, or between persistDeploymentInfo and the write-back).
CONSTANTS
  A = A
  B = B
  o1 = o1
  o2 = o2
  SHAs <- MCSHAs
  Objs <- MCObjs
  Manifests <- MCManifests
  HooksAt <- MCHooksAt
  SyncOps <- MCSyncOps
  Overrides = {}
  Failures = TRUE
  MaxOps = 2
  MaxPushes = 1
  MaxCrashes = 1
  TerminateMidInvocation = TRUE
  MaxOverrideEdits = 0
SPECIFICATION Spec
CHECK_DEADLOCK FALSE
INVARIANT CrashSafeResume
