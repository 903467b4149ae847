\* A ConfigMap moved from another namespace to the application's: one create and one prune of the same Kind and name.
CONSTANTS
  crd = crd  foo = foo  bar = bar  dep = dep  hook = hook  svc = svc
  cm = cm  cmOld = cmOld  fooC = fooC
  ResourceOrder <- MCResourceOrder
  Kinds <- MCKinds
  KindsByBytes <- MCKindsByBytes
  Names = {1, 2}
  Objs <- MovedObjs
  Obj <- MCObj
  AppNs = "app"
  Plans <- MovedPlans
  Served <- MCServed
  Permitted <- MCPermitted
  Failures = FALSE
  MaxTasks = 4
SPECIFICATION Spec
CHECK_DEADLOCK FALSE
INVARIANT PrunedObjectsDeleted
