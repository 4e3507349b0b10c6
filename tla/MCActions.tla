------------------------------- MODULE MCActions -------------------------------
(***************************************************************************)
(* The instances of Actions that TLC checks: everything a client may ask   *)
(* for next to one plain request (a manifest, whatever it is of, next to a *)
(* change of the scale), and the pairs of requests that work on one thing  *)
(* or that a restart of the agent cuts off.                                *)
(***************************************************************************)
EXTENDS Actions

CONSTANTS r1, r2

Image == <<"container", "docker_update_container_image">>
Deploy == <<"deployment", "k8s_update_image">>
Scale == <<"deployment", "k8s_scale_deployment">>
Undo == <<"deployment", "k8s_rollout_undo">>
Forward == <<"pod", "k8s_port_forward">>
Unforward == <<"pod", "k8s_stop_port_forward">>
Drain == <<"node", "k8s_drain_node">>
Update == <<"host", "update_agent">>
Manifest == <<"cluster", "k8s_apply_manifest">>
Restart == <<"container", "docker_restart_container">>

Pair(a, b) == r1 :> a @@ r2 :> b
Sweep == {Pair(ask, <<"job", "k8s_delete_job">>) : ask \in {a \in Asks : a[2] # "k8s_apply_manifest"}}
Pairs ==
  Sweep \cup
  {Pair(Image, Image), Pair(Deploy, Deploy), Pair(Deploy, Scale), Pair(Deploy, Undo),
   Pair(Forward, Unforward), Pair(Drain, <<"node", "k8s_uncordon_node">>),
   Pair(Manifest, Scale), Pair(Manifest, Deploy), Pair(Image, Restart), Pair(Update, Image),
   Pair(Update, Deploy), Pair(Update, Update)}
=============================================================================
