\* Two kinds named Foo in different API groups, one of them not permitted by the project.
CONSTANTS
  crd = crd  foo = foo  bar = bar  dep = dep  hook = hook  svc = svc
  cm = cm  cmOld = cmOld  fooC = fooC
  ResourceOrder <- MCResourceOrder
  Kinds <- MCKinds
  KindsByBytes <- MCKindsByBytes
  Names = {1, 2}
  Objs <- SameKindObjs
  Obj <- MCObj
  AppNs = "app"
  Plans <- SameKindPlans
  Served <- SameKindServed
  Permitted <- MCPermitted
  Failures = TRUE
  MaxTasks = 4
SPECIFICATION Spec
CHECK_DEADLOCK FALSE
INVARIANT PermittedOnly
