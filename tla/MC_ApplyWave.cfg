\* A custom resource with its CRD, a forbidden kind, a hook, and a prune.
CONSTANTS
  crd = crd  foo = foo  bar = bar  dep = dep  hook = hook  svc = svc
  cm = cm  cmOld = cmOld  fooC = fooC
  ResourceOrder <- MCResourceOrder
  Kinds <- MCKinds
  KindsByBytes <- MCKindsByBytes
  Names = {1, 2}
  Objs <- MCObjs
  Obj <- MCObj
  AppNs = "app"
  Plans <- MCPlans
  Served <- MCServed
  Permitted <- MCPermitted
  Failures = TRUE
  MaxTasks = 4
SPECIFICATION Spec
CHECK_DEADLOCK FALSE
INVARIANT TypeOK
INVARIANT PermittedOnly
INVARIANT ResultReflectsOutcomes
PROPERTY SyncReturns
