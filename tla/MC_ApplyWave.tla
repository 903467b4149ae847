---------------------------- MODULE MC_ApplyWave -----------------------------
EXTENDS ApplyWave, SortOrder

CONSTANTS crd, foo, bar, dep, hook, svc, cm, cmOld, fooC

MCResourceOrder == resourceOrder

MCKindsByBytes ==
  <<"Bar", "ConfigMap", "CustomResourceDefinition", "Deployment", "Foo", "Pod",
    "Service">>

MCKinds == ToSet(MCKindsByBytes)

CRDKind  == [group |-> "apiextensions.k8s.io", kind |-> "CustomResourceDefinition"]
FooKind  == [group |-> "a.io", kind |-> "Foo"]
FooCKind == [group |-> "c.io", kind |-> "Foo"]
BarKind  == [group |-> "b.io", kind |-> "Bar"]
DepKind  == [group |-> "apps", kind |-> "Deployment"]
PodKind  == [group |-> "", kind |-> "Pod"]
SvcKind  == [group |-> "", kind |-> "Service"]
CMKind   == [group |-> "", kind |-> "ConfigMap"]

Object(gk, name, ns, isHook, defines) ==
  [group |-> gk.group, kind |-> gk.kind, name |-> name, ns |-> ns,
   hook |-> isHook, defines |-> defines]

MCObj ==
  [o \in {crd, foo, bar, dep, hook, svc, cm, cmOld, fooC} |->
     CASE o = crd   -> Object(CRDKind, 1, "", FALSE, FooKind)
       [] o = foo   -> Object(FooKind, 1, "app", FALSE, NoGroupKind)
       [] o = fooC  -> Object(FooCKind, 2, "app", FALSE, NoGroupKind)
       [] o = bar   -> Object(BarKind, 1, "app", FALSE, NoGroupKind)
       [] o = dep   -> Object(DepKind, 1, "app", FALSE, NoGroupKind)
       [] o = hook  -> Object(PodKind, 2, "app", TRUE, NoGroupKind)
       [] o = svc   -> Object(SvcKind, 2, "old", FALSE, NoGroupKind)
       [] o = cm    -> Object(CMKind, 1, "app", FALSE, NoGroupKind)
       [] o = cmOld -> Object(CMKind, 1, "old", FALSE, NoGroupKind)]

Create(o) == [obj |-> o, target |-> TRUE]
Prune(o)  == [obj |-> o, target |-> FALSE]

\* A custom resource with its CRD, a Deployment and a pruned Service; a
\* forbidden kind next to a hook and a Deployment.
MCObjs  == {crd, foo, bar, dep, hook, svc}
MCPlans == { <<Create(foo), Create(dep), Prune(svc), Create(crd)>>,
             <<Create(hook), Create(bar), Create(dep)>> }
MCServed    == {CRDKind, BarKind, DepKind, PodKind, SvcKind, CMKind}
\* a.io/Bar is permitted, b.io/Bar is not.
MCPermitted == {CRDKind, FooKind, DepKind, PodKind, SvcKind, CMKind,
                [group |-> "a.io", kind |-> "Bar"]}

\* A ConfigMap moved from namespace "old" to the application's namespace.
MovedObjs  == {cm, cmOld}
MovedPlans == { <<Create(cm), Prune(cmOld)>> }

\* Two custom kinds named Foo in two API groups, only one of them permitted.
SameKindObjs  == {foo, fooC}
SameKindPlans == { <<Create(fooC), Create(foo)>> }
SameKindServed == {FooKind, FooCKind}
=============================================================================
