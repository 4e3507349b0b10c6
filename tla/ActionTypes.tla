------------------------------ MODULE ActionTypes ------------------------------
(***************************************************************************)
(* The vocabulary of actions: what the canvas offers for each kind of node *)
(* (NodeDetailPanel.tsx, LogsPanel.tsx), which of it the hub lets through  *)
(* in read-only mode (server.go), how the agent renames and routes it      *)
(* (mapFrontendActionType) and what the executors of pkg/actions know.     *)
(***************************************************************************)
EXTENDS Naturals, Sequences, FiniteSets, TLC

Workload == {"k8s_rollout_undo", "k8s_update_image", "k8s_set_env", "k8s_get_events", "k8s_get_yaml"}

\* What a client may ask of a node of each kind.
OfContainers ==
  [container |-> {"docker_restart_container", "docker_stop_container", "docker_start_container",
                  "docker_update_container_image", "docker_rename_container",
                  "docker_inspect_container", "docker_remove_container", "docker_logs"},
   image |-> {"docker_pull_image", "docker_remove_image"},
   lxd |-> {"lxd_restart_container", "lxd_stop_container", "lxd_start_container"}]
OfWorkloads ==
  [deployment |-> Workload \cup {"k8s_scale_deployment", "k8s_restart_deployment",
                                 "k8s_delete_deployment"},
   statefulset |-> Workload \cup {"k8s_scale_statefulset", "k8s_restart_statefulset"},
   daemonset |-> (Workload \ {"k8s_rollout_undo"}) \cup {"k8s_restart_daemonset"},
   pod |-> {"k8s_get_events", "k8s_get_yaml", "k8s_delete_pod", "k8s_port_forward", "k8s_logs",
            "k8s_stop_port_forward"},
   node |-> {"k8s_get_events", "k8s_get_yaml", "k8s_cordon_node", "k8s_uncordon_node",
             "k8s_drain_node"},
   job |-> {"k8s_delete_job"}]
OfOthers ==
  [configmap |-> {"k8s_get_configmap", "k8s_apply_manifest", "k8s_update_configmap"},
   secret |-> {"k8s_get_secret", "k8s_apply_manifest", "k8s_update_secret"},
   cluster |-> {"k8s_create_deployment", "k8s_apply_manifest", "k8s_delete_resource"},
   k8s_service |-> {"k8s_get_yaml", "k8s_delete_service"},
   host |-> {"docker_create_container", "host_disk_usage", "host_top_processes",
             "host_run_command", "host_logs", "host_journalctl", "update_agent"},
   service |-> {"service_restart", "service_stop", "service_start", "host_service_status",
                "host_logs"},
   process |-> {"process_kill"}]
AsksOf(offered) == UNION {{<<kind, type>> : type \in offered[kind]} : kind \in DOMAIN offered}
Asks == AsksOf(OfContainers) \cup AsksOf(OfWorkloads) \cup AsksOf(OfOthers)

\* The actions let through in read-only mode; they are not audited either.
readOnlySafeActions == {"docker_logs", "k8s_logs", "host_logs"}

\* The agent's name for an action: an unknown one keeps its own.
mapFrontendActionType(type) ==
  CASE type \in {"docker_restart_container", "lxd_restart_container"} -> "restart_container"
    [] type \in {"docker_stop_container", "lxd_stop_container"} -> "stop_container"
    [] type \in {"docker_start_container", "lxd_start_container"} -> "start_container"
    [] type = "docker_update_container_image" -> "docker_update_image"
    [] type \in {"k8s_restart_deployment", "k8s_restart_statefulset", "k8s_restart_daemonset"} ->
         "k8s_rollout_restart"
    [] type = "service_restart" -> "restart_service"
    [] type = "service_stop" -> "stop_service"
    [] type = "service_start" -> "start_service"
    [] type = "process_kill" -> "kill_process"
    [] OTHER -> type

DockerKnows == {"restart_container", "stop_container", "start_container", "docker_update_image",
                "docker_pull_image", "docker_remove_image"}
LXDKnows == {"restart_container", "stop_container", "start_container"}
HostKnows == {"restart_service", "stop_service", "start_service", "kill_process", "update_agent",
              "host_disk_usage", "host_top_processes", "host_service_status", "host_journalctl"}
KubernetesKnows == {
  "k8s_update_image", "k8s_rollout_restart", "k8s_rollout_undo", "k8s_scale_deployment",
  "k8s_scale_statefulset", "k8s_delete_pod", "k8s_delete_job", "k8s_delete_deployment",
  "k8s_delete_service", "k8s_cordon_node", "k8s_uncordon_node", "k8s_drain_node",
  "k8s_get_configmap", "k8s_update_configmap", "k8s_get_secret", "k8s_update_secret",
  "k8s_apply_manifest", "k8s_delete_resource"}

\* The executor that ExecuteAction routes a node's actions to knows this one.
Known(kind, type) ==
  LET t == mapFrontendActionType(type) IN
    CASE kind \in {"container", "image"} -> t \in DockerKnows
      [] kind = "lxd" -> t \in LXDKnows
      [] kind \in {"host", "service", "process"} -> t \in HostKnows
      [] OTHER -> t \in KubernetesKnows

\* The kind of object an edit changes, and its field; image, restart and undo always
\* mean a deployment, whatever workload was asked for.
DeploymentEdits == {"k8s_update_image", "k8s_rollout_restart", "k8s_rollout_undo", "k8s_scale_deployment"}
NodeEdits == {"k8s_cordon_node", "k8s_uncordon_node", "k8s_drain_node"}
Edits == DeploymentEdits \cup NodeEdits
         \cup {"k8s_scale_statefulset", "k8s_update_configmap", "k8s_update_secret"}

EditedKind ==
  [t \in Edits |-> CASE t \in DeploymentEdits -> "deployment"
                     [] t \in NodeEdits -> "node"
                     [] t = "k8s_scale_statefulset" -> "statefulset"
                     [] t = "k8s_update_configmap" -> "configmap"
                     [] t = "k8s_update_secret" -> "secret"]

\* An undo sets two fields: see Changed.
EditedField ==
  [t \in Edits \ {"k8s_rollout_undo"} |->
     CASE t = "k8s_update_image" -> "image"
       [] t = "k8s_rollout_restart" -> "restartedAt"
       [] t \in {"k8s_scale_deployment", "k8s_scale_statefulset"} -> "replicas"
       [] t \in NodeEdits -> "unschedulable"
       [] OTHER -> "data"]

\* How many calls a plain action makes, one after the other; the first that
\* fails ends it.  A service is looked up, restarted and looked at again; an
\* LXD instance's change of state is waited for; a kind is looked up first.
HostCalls == "service_restart" :> 3 @@ "service_stop" :> 2 @@ "service_start" :> 2
LXDCalls == "lxd_restart_container" :> 2 @@ "lxd_stop_container" :> 2 @@ "lxd_start_container" :> 2
KubernetesCalls == "k8s_delete_resource" :> 2
Calls(type) ==
  LET longer == HostCalls @@ LXDCalls @@ KubernetesCalls
  IN IF type \in DOMAIN longer THEN longer[type] ELSE 1

\* Revisions are compared as the decimal strings they are annotated with.
Digits(n) == IF n < 10 THEN <<n>> ELSE <<n \div 10, n % 10>>
StringLess(m, n) ==
  LET a == Digits(m)  b == Digits(n) IN
    \/ a[1] < b[1]
    \/ a[1] = b[1] /\ Len(a) < Len(b)
    \/ a[1] = b[1] /\ Len(a) = 2 /\ Len(b) = 2 /\ a[2] < b[2]
=============================================================================
