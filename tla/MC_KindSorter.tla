--------------------------- MODULE MC_KindSorter ---------------------------
(* Instantiates KindSorter with the real resourceOrder table.  Namespace   *)
(* (index 0) and Deployment are the pair the specification names; the     *)
(* custom configuration adds two kinds that are not in the table.          *)
EXTENDS KindSorter

MCResourceOrder == resourceOrder

\* built-in kinds only, in byte order
BuiltinKindsByBytes ==
  <<"CustomResourceDefinition", "Deployment", "Namespace", "Service">>

\* built-in kinds and two custom resource kinds, in byte order
CustomKindsByBytes ==
  <<"Bar", "CustomResourceDefinition", "Deployment", "Foo", "Namespace">>

BuiltinKinds == ToSet(BuiltinKindsByBytes)

CustomKinds == ToSet(CustomKindsByBytes)
=============================================================================
