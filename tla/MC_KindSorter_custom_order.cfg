\* Applications whose manifests also contain custom resource kinds.
CONSTANTS
  ResourceOrder <- MCResourceOrder
  Kinds <- CustomKinds
  KindsByBytes <- CustomKindsByBytes
  Names = {1, 2}
  MaxTasks = 3
SPECIFICATION Spec
INVARIANT SortedByResourceOrder
