------------------------------ MODULE SortOrder ------------------------------
(* The sortOrder table of controller/sync.go, from Helm's kind_sorter.go.  *)

(* resourceOrder: the sortOrder generateSyncTasks passes to newKindSorter. *)
resourceOrder ==
  <<"Namespace", "ResourceQuota", "LimitRange", "PodSecurityPolicy",
    "Secret", "ConfigMap", "StorageClass", "PersistentVolume",
    "PersistentVolumeClaim", "ServiceAccount", "CustomResourceDefinition",
    "ClusterRole", "ClusterRoleBinding", "Role", "RoleBinding", "Service",
    "DaemonSet", "Pod", "ReplicationController", "ReplicaSet", "Deployment",
    "StatefulSet", "Job", "CronJob", "Ingress", "APIService">>
=============================================================================
