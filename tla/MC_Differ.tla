------------------------------ MODULE MC_Differ ------------------------------
EXTENDS Differ, TLC

(* An object of a kind with the given fields set.                          *)
Obj(kind, g) ==
  [kind |-> kind, f |-> [p \in Paths |-> IF p \in DOMAIN g THEN g[p] ELSE Absent],
   lastApplied |-> NoObj]

(* A Deployment without namespace and with the foo annotation (diff_test  *)
(* TestThreeWayDiff), the same with foo removed and a status, and one in   *)
(* the destination namespace with a float replica count and the defaulted  *)
(* field set; Secrets with stringData, with data, and with a numeric       *)
(* stringData value, alone and next to data; a cluster-scoped Foo with    *)
(* and without a namespace.                                               *)
MCDeployments ==
  { Obj("Deployment", ("annotations" :> "map") @@ ("ann.foo" :> "a") @@ ("replicas" :> Num(1, FALSE))),
    Obj("Deployment", ("annotations" :> "map") @@ ("status" :> "b") @@ ("replicas" :> Num(1, FALSE))),
    Obj("Deployment", ("namespace" :> "argocd") @@ ("annotations" :> "map") @@ ("ann.foo" :> "a")
                      @@ ("replicas" :> Num(2, TRUE)) @@ ("default" :> "a")) }
MCSecrets ==
  { Obj("Secret", "stringData.k" :> "a"),
    Obj("Secret", "data.k" :> Enc("a")),
    Obj("Secret", "stringData.k" :> Num(1, FALSE)),
    Obj("Secret", ("data.k" :> Enc("a")) @@ ("stringData.k" :> Num(1, FALSE))) }
MCFoos ==
  { Obj("Foo", ("namespace" :> "kube-system") @@ ("annotations" :> "map") @@ ("ann.foo" :> "a")),
    Obj("Foo", "ann.foo" :> "b") }
MCConfigs == MCDeployments \cup MCSecrets \cup MCFoos

(* A Secret that sets one key under both data and stringData.              *)
MCCollidingSecret == Obj("Secret", ("data.k" :> Enc("b")) @@ ("stringData.k" :> "a"))
MCConfigsColliding == MCConfigs \cup {MCCollidingSecret}
=============================================================================
