------------------------------ MODULE MCDiscovery ------------------------------
(***************************************************************************)
(* Small instances of Discovery: a host with Docker and LXD, a cluster on  *)
(* its own, and a single-node cluster on Docker.                           *)
(***************************************************************************)
EXTENDS Discovery, TLC

\* The order in which DiscoverAll lists the types of Kubernetes.
AllKubeKinds ==
  <<"node", "namespace", "deployment", "statefulset", "daemonset", "job", "cronjob", "pod",
    "k8s_service", "ingress", "configmap", "secret", "pvc", "pv", "storageclass", "event">>

---------------------------------------------------------------------------
\* A host: nginx and postgres as units, an application that dials both, and a
\* worker of nginx that outlived its master and still listens.
Host == [type |-> "host", ns |-> "", name |-> "box", loaded |-> FALSE]

Proc(pid, parent, listens, dials) ==
  [type |-> "process", ns |-> "", name |-> pid, parent |-> parent, listens |-> listens, dials |-> dials]
Unit(name, mainPID, active, sub, critical) ==
  [type |-> "service", ns |-> "", name |-> name, mainPID |-> mainPID, load |-> "loaded",
   active |-> active, sub |-> sub, critical |-> critical, userManager |-> FALSE]

App == Proc("30", "1", {"3000"}, {"80", "5432"})
Orphan == Proc("12", "1", {"80"}, {})
Processes == {Proc("10", "1", {"80"}, {}), Proc("11", "10", {"80"}, {"3000"}),
              Proc("20", "1", {"5432"}, {}), Proc("40", "1", {}, {}), App}
Nginx == Unit("nginx", "10", "active", "running", FALSE)
NginxFailed == [Nginx EXCEPT !.mainPID = None, !.active = "failed", !.sub = "failed"]
Units == {Nginx,
          Unit("postgres", "20", "active", "running", FALSE),
          Unit("sshd", None, "activating", "auto-restart", TRUE),
          Unit("backup", None, "failed", "failed", FALSE), Unit("timer", None, "inactive", "dead", FALSE),
          [Unit("plymouth", None, "inactive", "dead", FALSE) EXCEPT !.load = "not-found"],
          [Unit("user@1000", "1", "active", "running", FALSE) EXCEPT !.userManager = TRUE]}

---------------------------------------------------------------------------
\* Docker: two containers of one image, a dangling image, a volume, a network.
Engines(name) ==
  [type |-> "container_runtime", ns |-> IF name = "lxd" THEN name ELSE "", name |-> name]
Name(parts, tag) == [parts |-> parts, tag |-> tag]
Image(name, tags) ==
  [type |-> "image", ns |-> "", name |-> name, imageID |-> name, tags |-> tags, digests |-> <<>>]
Container(ns, name, imageID, state) ==
  [type |-> "container", ns |-> ns, name |-> name, imageID |-> imageID, state |-> state,
   failsCheck |-> FALSE, networkMode |-> IF ns = "lxd" THEN "" ELSE "bridge", networks |-> {},
   mounts |-> IF ns = "lxd" THEN {}
              ELSE {[type |-> "volume", source |-> "/var/lib/docker/volumes/data/_data",
                     destination |-> "/data"]}]
Named(type, name) == [type |-> type, ns |-> "", name |-> name]

Web(state) == Container("", "web", "sha-nginx", state)
Docker == {Engines("docker"), Web("running"), Image("sha-nginx", <<Name(<<"nginx">>, "1.25")>>),
           Image("sha-old", <<>>), Named("volume", "data"), Named("network", "bridge")}
LXD == {Engines("lxd"), Container("lxd", "ct", "", "running")}

---------------------------------------------------------------------------
\* A cluster: a Deployment with a pod behind a Service and an Ingress, a claim and
\* its volume, a CronJob with a Job, and events.
Kube(type, ns, name) == [type |-> type, ns |-> ns, name |-> name]
Workload(type, name, want, have) ==
  [type |-> type, ns |-> "shop", name |-> name, want |-> want, have |-> have]
Owner(kind, name, hash) == [kind |-> kind, name |-> name, hash |-> hash]
Pod(name, owners, ready) ==
  [type |-> "pod", ns |-> "shop", name |-> name, node |-> "n1", labels |-> {"app=web"}, hash |-> "abc",
   owners |-> owners, configMaps |-> {"conf"}, secrets |-> {"tls"}, pvcs |-> {"data"},
   containers |-> {[name |-> "web", image |-> Name(<<"ghcr.io", "acme", "web">>, "v1"),
                    ready |-> ready],
                   [name |-> "sidecar", image |-> Name(<<"ghcr.io", "acme", "web">>, "v1"),
                    ready |-> TRUE]},
   phase |-> "Running", reasons |-> {}]
Event(name, type, object, critical) ==
  [type |-> "event", ns |-> "shop", name |-> name, reason |-> "BackOff", critical |-> critical,
   warning |-> TRUE, about |-> [type |-> type, ns |-> "shop", name |-> object]]

OwnedByWeb == <<Owner("replicaset", "web", "abc")>>
Replica == Pod("web-1", OwnedByWeb, TRUE)
Sick == Pod("web-1", OwnedByWeb, FALSE)
WebDeployment == Workload("deployment", "web", 1, 1)

Workloads == {WebDeployment, Replica, Named("node", "n1") @@ [ready |-> TRUE], Named("namespace", "shop")}
Cluster ==
  Workloads \cup
  {Kube("k8s_service", "shop", "web") @@ [selector |-> {"app=web"}, external |-> FALSE],
   Kube("k8s_service", "shop", "mail") @@ [selector |-> {}, external |-> TRUE],
   Kube("ingress", "shop", "web") @@ [routes |-> {[service |-> "web", path |-> "/"],
                                                  [service |-> "web", path |-> "/api"]}],
   Kube("pvc", "shop", "data") @@ [volume |-> "pv1", bound |-> TRUE],
   Kube("pvc", "shop", "new") @@ [volume |-> "", bound |-> FALSE], Named("pv", "pv1") @@ [class |-> "fast"],
   Named("storageclass", "fast"), Kube("configmap", "shop", "conf"), Kube("secret", "shop", "tls"),
   Kube("cronjob", "shop", "backup") @@ [suspended |-> FALSE],
   Kube("job", "shop", "backup-1") @@ [owner |-> Owner("cronjob", "backup", ""),
                                        active |-> TRUE, failed |-> FALSE],
   Workload("statefulset", "db", 2, 1), Workload("daemonset", "logs", 1, 0),
   Event("e1", "pod", "web-1", TRUE), Event("e2", "replicaset", "web-abc", TRUE),
   Event("e3", "node", "n1", FALSE)}

---------------------------------------------------------------------------
\* A second image that other registries know by the name of the first.
AcmeWeb == Image("sha-acme", <<Name(<<"ghcr.io", "acme", "web">>, "v1")>>)
AcmeCopy == Image("sha-copy", <<Name(<<"quay.io", "acme", "web">>, "v1")>>)

MCSettings ==
  { [scope |-> {"host", "docker"},
     things |-> {Host, Orphan} \cup Processes \cup Units \cup Docker, forbidden |-> {}],
    [scope |-> {"host", "docker", "lxd"}, things |-> {Host} \cup Docker \cup LXD, forbidden |-> {}],
    [scope |-> {"host", "lxd"}, things |-> {Host} \cup Processes \cup Units, forbidden |-> {}],
    [scope |-> {"kubernetes"}, things |-> Cluster, forbidden |-> {}],
    [scope |-> {"kubernetes"}, things |-> Cluster, forbidden |-> {"node", "pv", "secret"}],
    [scope |-> {"kubernetes"}, things |-> Workloads, forbidden |-> {"deployment", "pod"}],
    [scope |-> {"docker", "kubernetes"},
     things |-> Workloads \cup {Engines("docker"), AcmeWeb}, forbidden |-> {}] }

\* A container stops; Docker stops; LXD is installed or stops; an application ends; a
\* unit fails; a pod stops being ready, is replaced, goes with its Deployment; an image is
\* pulled.
MCChanges ==
  { [drop |-> {Web("running")}, add |-> {Web("exited")}],
    [drop |-> {Engines("docker")}, add |-> {}],
    [drop |-> {}, add |-> LXD],
    [drop |-> LXD, add |-> {}],
    [drop |-> {App}, add |-> {}],
    [drop |-> {Nginx}, add |-> {NginxFailed}],
    [drop |-> {Replica}, add |-> {Sick}],
    [drop |-> {Replica}, add |-> {Pod("web-2", OwnedByWeb, TRUE)}],
    [drop |-> {WebDeployment, Replica}, add |-> {}],
    [drop |-> {}, add |-> {AcmeCopy}] }
==============================================================================
