\* A Secret setting one key under data and under stringData, synced once.
CONSTANTS
  Configs <- MCConfigsColliding
  Strings = {"a", "b"}
  Counts = {1, 2}
  AppNs = "argocd"
  DefaultValue = "b"
  MaxEdits = 2
  MaxDrifts = 2
  NoObj = NoObj
SPECIFICATION Spec
INVARIANT AppliedIsInSync
