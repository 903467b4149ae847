\* Applications whose manifests contain built-in kinds only.
CONSTANTS
  ResourceOrder <- MCResourceOrder
  Kinds <- BuiltinKinds
  KindsByBytes <- BuiltinKindsByBytes
  Names = {1, 2}
  MaxTasks = 3
SPECIFICATION Spec
INVARIANT TypeOK
INVARIANT SortedByResourceOrder
