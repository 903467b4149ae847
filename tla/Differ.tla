------------------------------- MODULE Differ --------------------------------
(***************************************************************************)
(* The Normalizer and the Differ, and the comparison the Comparator makes *)
(* of one desired object with its live object, in the lifecycle that       *)
(* gives them their inputs: Git changes the desired object, a sync applies *)
(* it with kubectl apply (which records the last-applied-configuration     *)
(* annotation and lets the API server default, convert and re-encode       *)
(* fields), and users or controllers change the live object.               *)
(*                                                                         *)
(* The diff package is not in this repository snapshot: Normalize,         *)
(* TwoWayDiff, ThreeWayDiff and Diff are modelled from the specification   *)
(* (4.1 to 4.3) and its tests (diff_test.go).  An object is abstracted to  *)
(* one value per field path that the normalizer or the differ treats       *)
(* differently: namespace, the annotations map and one annotation, a       *)
(* numeric field, a field the API server defaults, status, and one Secret *)
(* key under data and under stringData.                                    *)
(***************************************************************************)
EXTENDS Naturals, Sequences, TLC

CONSTANTS
  Configs,       \* the desired objects Git may hold for this resource
  Strings,       \* string field values
  Counts,        \* integral values of numeric fields
  AppNs,         \* the Application's destination namespace
  DefaultValue,  \* the value the API server defaults the "default" field to
  MaxEdits,      \* bound: commits changing the desired object
  MaxDrifts,     \* bound: changes made to the live object outside Argo CD
  NoObj          \* model value: no object (no live object, no annotation)

Absent   == "Absent"
None     == "None"
Observed == "observed"   \* status written by the resource's controller

Paths == {"namespace", "annotations", "ann.foo", "replicas", "default",
          "status", "data.k", "stringData.k"}

ClusterScoped  == {"Foo"}          \* kind Foo of group foo.io (scenario 5)
DefaultedKinds == {"Deployment"}

(* A JSON number as written, integral or with a fraction part of zero.    *)
Num(n, isFloat) == IF isFloat THEN ToString(n) \o ".0" ELSE ToString(n)
Numbers == {Num(n, b) : n \in Counts, b \in BOOLEAN}
IntOf(v) == CHOOSE n \in Counts : v \in {Num(n, FALSE), Num(n, TRUE)}

(* The base64 encoding of a value, as data holds it.                       *)
Enc(v) == "b64:" \o v

Values == Strings \cup Numbers \cup {Enc(s) : s \in Strings}
          \cup {AppNs, "kube-system", "map", Observed, DefaultValue}

VARIABLES
  config,   \* the desired object of the compared revision
  live,     \* the live object, or NoObj
  lastSync, \* outcome of the last sync since config or live changed
  edits,    \* commits made
  drifts    \* live changes made

vars == <<config, live, lastSync, edits, drifts>>

-----------------------------------------------------------------------------
(* Normalizer (specification 4.1).                                         *)

(* Mutant: only a Secret without data is checked.                          *)
MalformedWithoutData(o) ==
  o.kind = "Secret" /\ o.f["data.k"] = Absent /\ o.f["stringData.k"] \in Numbers

(* A Secret whose stringData holds a non-string is malformed.              *)
Malformed(o) ==
  o.kind = "Secret" /\ o.f["stringData.k"] \in Numbers

(* stringData base64-encoded and merged into data, data winning.           *)
MergeStringData(f) ==
  [f EXCEPT !["data.k"] = IF f["data.k"] # Absent THEN f["data.k"]
                          ELSE IF f["stringData.k"] # Absent
                               THEN Enc(f["stringData.k"]) ELSE Absent,
            !["stringData.k"] = Absent]

(* The annotations map is empty when it holds neither the one annotation   *)
(* nor the last-applied-configuration annotation.                         *)
DropEmptyAnnotations(f, lastApplied) ==
  IF f["ann.foo"] = Absent /\ lastApplied = NoObj
  THEN [f EXCEPT !["annotations"] = Absent] ELSE f

Normalize(o) ==
  LET f1 == IF o.kind \in ClusterScoped
            THEN [o.f EXCEPT !["namespace"] = Absent] ELSE o.f
      f2 == IF o.kind = "Secret" THEN MergeStringData(f1) ELSE f1
      f3 == [f2 EXCEPT !["status"] = Absent]
  IN DropEmptyAnnotations(f3, o.lastApplied)

-----------------------------------------------------------------------------
(* Differ (specification 4.2).                                             *)

(* Mutant: numbers compared as decoded, integer and float apart.           *)
CanonAsDecoded(v) == v

(* The canonical form numbers are compared through.                        *)
Canon(v) == IF v \in Numbers THEN Num(IntOf(v), FALSE) ELSE v

(* The normalized object with canonical numbers, as the differ sees it.   *)
View(o) == LET f == Normalize(o) IN [p \in Paths |-> Canon(f[p])]

(* A missing desired object is no difference, a missing live object is;   *)
(* otherwise a field the desired object sets and live does not hold as set *)
(* is one.  Fields only live holds are not (diff_test.go TestThreeWayDiff,  *)
(* step 5, and the degraded case of ThreeWayDiff).                         *)
TwoWayDiff(d, l) ==
  CASE d = NoObj -> FALSE
    [] l = NoObj -> TRUE
    [] OTHER -> \E p \in Paths : View(d)[p] # Absent /\ View(d)[p] # View(l)[p]

(* Mutant: the cluster's drift is not looked at.                           *)
ThreeWayDiffIntentOnly(d, l) ==
  IF l.lastApplied = NoObj THEN TwoWayDiff(d, l)
  ELSE \E p \in Paths : View(l.lastApplied)[p] # View(d)[p]

(* With the last-applied annotation as the recorded desired object: P1 is  *)
(* recorded -> desired, P2 recorded -> live; modified iff P1 is non-empty  *)
(* or P2 changes a path P1 or the recorded object claims.                  *)
ThreeWayDiff(d, l) ==
  IF l.lastApplied = NoObj THEN TwoWayDiff(d, l)
  ELSE LET R  == View(l.lastApplied)
           P1 == {p \in Paths : R[p] # View(d)[p]}
           P2 == {p \in Paths : R[p] # View(l)[p]}
       IN P1 # {} \/ \E p \in P2 : p \in P1 \/ R[p] # Absent

Diff(d, l) ==
  CASE d = NoObj -> FALSE
    [] l = NoObj -> TRUE
    [] OTHER -> ThreeWayDiff(d, l)

(* The Comparator's verdict: a malformed desired object is OutOfSync.      *)
OutOfSync == Malformed(config) \/ Diff(config, live)

-----------------------------------------------------------------------------
(* The cluster side: kubectl apply and the API server.                     *)

(* kubectl apply's three-way merge patch applied to live: fields config    *)
(* sets are set, fields the last applied config set and config no longer   *)
(* sets are deleted, and other fields are kept.                            *)
Patched(d, l) ==
  [p \in Paths |->
     CASE d.f[p] # Absent -> d.f[p]
       [] l = NoObj -> Absent
       [] l.lastApplied # NoObj /\ l.lastApplied.f[p] # Absent -> Absent
       [] OTHER -> l.f[p]]

(* What the API server stores: the -n namespace for a namespaced object    *)
(* without one, none for a cluster-scoped one; stringData written over     *)
(* data and never stored; defaults; numbers as integers; its own status;   *)
(* and the annotations map, which holds last-applied-configuration.       *)
Stored(kind, f) ==
  [p \in Paths |->
     CASE p = "namespace" ->
            IF kind \in ClusterScoped THEN Absent
            ELSE IF f[p] = Absent THEN AppNs ELSE f[p]
       [] p = "data.k" ->
            IF f["stringData.k"] # Absent THEN Enc(f["stringData.k"]) ELSE f[p]
       [] p = "stringData.k" -> Absent
       [] p = "annotations" -> "map"
       [] p = "default" /\ kind \in DefaultedKinds /\ f[p] = Absent -> DefaultValue
       [] p = "status" -> IF kind \in DefaultedKinds THEN Observed ELSE Absent
       [] p = "replicas" /\ f[p] \in Numbers -> Num(IntOf(f[p]), FALSE)
       [] OTHER -> f[p]]

Apply(d, l) == [kind |-> d.kind, f |-> Stored(d.kind, Patched(d, l)), lastApplied |-> d]

(* What an object holds apart from status and the annotation bookkeeping.  *)
Material(o) == IF o = NoObj THEN NoObj ELSE [p \in Paths \ {"status"} |-> Canon(o.f[p])]

(* Applying config again would change the live object.                    *)
ApplyChanges(d, l) == Material(Apply(d, l)) # Material(l)

(* Fields of a live object a user or a controller may edit, and the values *)
(* they may write.                                                         *)
DriftPaths == {"ann.foo", "replicas", "default", "data.k"}
DriftValues(p) ==
  CASE p = "replicas" -> {Num(n, FALSE) : n \in Counts}
    [] p = "data.k"   -> {Enc(s) : s \in Strings}
    [] OTHER          -> Strings

-----------------------------------------------------------------------------

Init ==
  /\ config \in Configs
  /\ live = NoObj
  /\ lastSync = None
  /\ edits = 0
  /\ drifts = 0

(* A sync applies the desired object (ApplyResource with kubectl apply).   *)
Sync ==
  /\ ~Malformed(config)
  /\ live' = Apply(config, live)
  /\ lastSync' = "Applied"
  /\ UNCHANGED <<config, edits, drifts>>

(* The dry run rejects a malformed Secret and nothing is applied: the API *)
(* server's validation refuses the non-string values the normalizer flags. *)
SyncRejected ==
  /\ Malformed(config)
  /\ lastSync' = "Rejected"
  /\ UNCHANGED <<config, live, edits, drifts>>

(* A commit changes the desired object.                                    *)
EditConfig ==
  /\ edits < MaxEdits
  /\ \E c \in Configs : c.kind = config.kind /\ c # config /\ config' = c
  /\ lastSync' = None
  /\ edits' = edits + 1
  /\ UNCHANGED <<live, drifts>>

(* A user or a controller edits or removes a field of the live object (a  *)
(* write the API server stores as it stores any), removes its last-applied *)
(* annotation, or deletes it.                                              *)
Drift ==
  /\ drifts < MaxDrifts
  /\ live # NoObj
  /\ \/ live' = NoObj
     \/ live.lastApplied # NoObj /\ live' = [live EXCEPT !.lastApplied = NoObj]
     \/ \E p \in DriftPaths : \E v \in DriftValues(p) \cup {Absent} :
          /\ live.f[p] # Absent
          /\ v # live.f[p]
          /\ live' = [live EXCEPT !.f = Stored(live.kind, [@ EXCEPT ![p] = v])]
  /\ lastSync' = None
  /\ drifts' = drifts + 1
  /\ UNCHANGED <<config, edits>>

Next == Sync \/ SyncRejected \/ EditConfig \/ Drift

Spec == Init /\ [][Next]_vars

-----------------------------------------------------------------------------

Object == [kind : {"Deployment", "Secret", "Foo"},
           f : [Paths -> Values \cup {Absent}],
           lastApplied : Configs \cup {NoObj}]

TypeOK ==
  /\ config \in Configs
  /\ live \in Object \cup {NoObj}
  /\ lastSync \in {None, "Applied", "Rejected"}
  /\ edits \in 0..MaxEdits
  /\ drifts \in 0..MaxDrifts

(* After a sync has applied the desired object, and until Git or the live *)
(* object changes, the Comparator reports Synced: whatever the API server *)
(* defaulted, converted or re-encoded, normalization and the three-way     *)
(* diff against last-applied-configuration do not report it as a change,  *)
(* so an automated Application does not stay OutOfSync after a sync.      *)
AppliedIsInSync == lastSync = "Applied" => ~OutOfSync

(* Whenever syncing again would change the live object (a field Git sets   *)
(* was changed or removed in the cluster, or Git changed or removed a      *)
(* field), the Comparator reports OutOfSync: the diff never hides a change *)
(* a sync would make.                                                      *)
DiffSeesEveryChange == ApplyChanges(config, live) /\ ~Malformed(config) => OutOfSync
=============================================================================
