\* Deployments, Secrets and a cluster-scoped kind through edits, syncs and drift.
CONSTANTS
  Configs <- MCConfigs
  Strings = {"a", "b"}
  Counts = {1, 2}
  AppNs = "argocd"
  DefaultValue = "b"
  MaxEdits = 2
  MaxDrifts = 2
  NoObj = NoObj
SPECIFICATION Spec
INVARIANT TypeOK
INVARIANT AppliedIsInSync
INVARIANT DiffSeesEveryChange
