----------------------------- MODULE Relationships -----------------------------
(***************************************************************************)
(* What one pass of discovery computes from the entities it has collected: *)
(* their relations (pkg/relationships) and their health (pkg/health).      *)
(*                                                                         *)
(* Entities are kept by ID, as in the snapshot of the code; an ID is       *)
(* <<type, namespace or engine, name>>.  An entity is a record with the    *)
(* fields that relations, health and the canvas depend on.                 *)
(*                                                                         *)
(* The builder ranges over a Go map, whose order differs from one pass to  *)
(* the next.  Where the outcome depends on that order it is a parameter,   *)
(* a member of Picks; every other search has at most one match, because    *)
(* the engines and the API keep the names it searches for unique.          *)
(***************************************************************************)
EXTENDS Naturals, Sequences, FiniteSets

CONSTANT None

\* The IDs of the entities of one type.
OfType(ents, type) == {i \in DOMAIN ents : ents[i].type = type}

\* A relation from each source to each target.  A search that finds nothing gives none.
Relation(sources, targets, type, note) ==
  {[source |-> s, target |-> t, type |-> type, note |-> note] : s \in sources, t \in targets}

---------------------------------------------------------------------------
\* Searches.

FindImageByID(ents, imageID) ==
  {i \in OfType(ents, "image") : ents[i].imageID = imageID}

FindByName(ents, type, name) == {i \in OfType(ents, type) : ents[i].name = name}

FindInNamespace(ents, type, ns, name) ==
  {i \in OfType(ents, type) : ents[i].ns = ns /\ ents[i].name = name}

\* A ReplicaSet is no entity: its owner is not found.
WorkloadTypes == {"deployment", "statefulset", "daemonset", "job", "cronjob"}

FindWorkload(ents, ns, name, kind) ==
  {i \in UNION {OfType(ents, t) : t \in WorkloadTypes \cap {kind}} :
     ents[i].ns = ns /\ ents[i].name = name}

\* An empty selector selects nothing.
FindPodsByLabels(ents, ns, selector) ==
  {i \in OfType(ents, "pod") :
     selector # {} /\ ents[i].ns = ns /\ selector \subseteq ents[i].labels}

EventTargetTypes ==
  {"pod", "deployment", "statefulset", "daemonset", "job", "cronjob", "k8s_service", "pvc", "node"}

\* The target of an event is looked up by the ID made of its type and name;
\* nodes have no namespace.
FindEventTarget(ents, event) ==
  LET ns == IF event.about.type = "node" THEN "" ELSE event.about.ns
  IN  {<<event.about.type, ns, event.about.name>>} \cap DOMAIN ents
      \cap {i \in DOMAIN ents : event.about.type \in EventTargetTypes}

---------------------------------------------------------------------------
\* Image names: [parts |-> the path between slashes, tag |-> ...].

KnownRegistries == {"docker.io", "ghcr.io", "quay.io", "registry.k8s.io", "gcr.io", "mcr.microsoft.com"}

Without(parts, heads) ==
  IF Len(parts) > 1 /\ Head(parts) \in heads THEN Tail(parts) ELSE parts

\* The name that images and pods are matched by when the exact names differ: no
\* digest, no known registry and no "library/".
NormalizeImageName(name) ==
  [parts |-> Without(Without(name.parts, KnownRegistries), {"library"}), tag |-> name.tag]

ImageName(image) == [parts |-> image.repository, tag |-> image.tag]

NamedImages(ents) ==
  {i \in OfType(ents, "image") : ents[i].repository # <<"<none>">> /\ ents[i].tag # "<none>"}

---------------------------------------------------------------------------
\* What is left to the order of the map.

Services(ents) == OfType(ents, "service")

\* Processes that stand for themselves: no systemd unit has them in its tree.
FreeProcesses(ents) == {i \in OfType(ents, "process") : ents[i].unit = None}

\* All ways to settle f, which gives each key its candidates: a function that
\* chooses for the keys that have more than one.
Choices(f) ==
  LET open == {x \in DOMAIN f : Cardinality(f[x]) > 1}
  IN  {g \in [open -> UNION {f[x] : x \in open}] : \A x \in open : g[x] \in f[x]}

Settled(f, g, x) == IF x \in DOMAIN g THEN g[x] ELSE CHOOSE y \in f[x] : TRUE

\* Mutant: first come, first served.
PortClaimantsInOrder(ents, port) ==
  {i \in Services(ents) \cup FreeProcesses(ents) : port \in ents[i].ports}

\* A service takes a port from any process, whichever comes first; between two
\* services the later wins, between two processes the earlier.
PortClaimants(ents, port) ==
  LET services == {i \in Services(ents) : port \in ents[i].ports}
      processes == {i \in FreeProcesses(ents) : port \in ents[i].ports}
  IN  IF services # {} THEN services ELSE processes

PortOwners(ents) ==
  [port \in UNION {ents[i].ports : i \in Services(ents) \cup FreeProcesses(ents)} |->
     PortClaimants(ents, port)]

ImageIndex(ents) ==
  [k \in {ImageName(ents[i]) : i \in NamedImages(ents)} |->
     {i \in NamedImages(ents) : ImageName(ents[i]) = k}]

ImageIndexNorm(ents) ==
  [k \in {NormalizeImageName(n) : n \in DOMAIN ImageIndex(ents)} |->
     {i \in NamedImages(ents) : NormalizeImageName(ImageName(ents[i])) = k}]

Runtimes(ents) == OfType(ents, "container_runtime")

\* The choices of one pass: the runtime that gets the images, volumes and
\* networks, the owner of each port, and the image behind each name.  An image
\* enters both indexes at once, so the last of all like it has its exact name too.
Picks(ents) ==
  {p \in [runtime : IF Runtimes(ents) = {} THEN {None} ELSE Runtimes(ents),
          owner   : Choices(PortOwners(ents)),
          exact   : Choices(ImageIndex(ents)),
          like    : Choices(ImageIndexNorm(ents))] :
     \A k \in DOMAIN p.like :
       LET name == ImageName(ents[p.like[k]])
       IN  name \in DOMAIN p.exact => p.exact[name] = p.like[k]}

---------------------------------------------------------------------------
\* Docker and LXD.

ContainerRelations(ents, c) ==
  LET e == ents[c]
      networks == IF e.networks = {} THEN {e.networkMode} ELSE e.networks
  IN  Relation({c}, FindImageByID(ents, e.imageID), "USES", "")
      \cup (UNION {Relation({c}, FindByName(ents, "volume", m.source), "MOUNTS", m.destination) :
                     m \in {x \in e.mounts : x.type = "volume"}})
      \cup UNION {Relation({c}, FindByName(ents, "network", n), "CONNECTS_TO", "") : n \in networks}

BuildDockerRelationships(ents, pick) ==
  (UNION {ContainerRelations(ents, c) : c \in OfType(ents, "container")})
  \cup Relation(OfType(ents, "container") \cup Runtimes(ents), OfType(ents, "host"), "RUNS_ON", "")
  \cup Relation({pick.runtime} \ {None},
                NamedImages(ents) \cup OfType(ents, "volume") \cup OfType(ents, "network"), "CONTAINS", "")

---------------------------------------------------------------------------
\* Kubernetes.

\* The name of a ReplicaSet is that of its Deployment and the hash its pods carry.
PodOwner(ents, pod) ==
  LET direct == FindWorkload(ents, pod.ns, pod.owner.name, pod.owner.kind)
  IN  CASE pod.owner = None -> {}
        [] pod.owner # None /\ pod.owner.kind = "replicaset" ->
             IF pod.hash # "" /\ pod.owner.hash = pod.hash
             THEN FindWorkload(ents, pod.ns, pod.owner.name, "deployment") ELSE {}
        [] OTHER -> direct

PodRelations(ents, p) ==
  LET pod == ents[p]
      InPodNamespace(type, names) == UNION {FindInNamespace(ents, type, pod.ns, n) : n \in names}
  IN  Relation({p}, FindByName(ents, "node", pod.node), "RUNS_ON", "")
      \cup Relation(PodOwner(ents, pod), {p}, "OWNS", "")
      \cup Relation({p}, InPodNamespace("configmap", pod.configMaps)
                         \cup InPodNamespace("secret", pod.secrets), "REFERENCES", "")
      \cup Relation({p}, InPodNamespace("pvc", pod.pvcs), "MOUNTS", "")

PodImages(ents, pick, p) ==
  LET ImageOf(name) ==
        LET like == NormalizeImageName(name)
        IN  IF name \in DOMAIN ImageIndex(ents)
            THEN {Settled(ImageIndex(ents), pick.exact, name)}
            ELSE IF like \in DOMAIN ImageIndexNorm(ents)
                 THEN {Settled(ImageIndexNorm(ents), pick.like, like)} ELSE {}
  IN  UNION {Relation({p}, ImageOf(c.image), "USES", c.name) : c \in ents[p].containers}

\* Each service and each path of an ingress.
TrafficRelations(ents) ==
  (UNION {Relation({s}, FindPodsByLabels(ents, ents[s].ns, ents[s].selector), "TARGETS", "") :
            s \in OfType(ents, "k8s_service")})
  \cup UNION {UNION {Relation({i}, FindInNamespace(ents, "k8s_service", ents[i].ns, r.service),
                              "ROUTES_TO", r.path) : r \in ents[i].routes} :
                i \in OfType(ents, "ingress")}

StorageRelations(ents) ==
  (UNION {Relation({c}, FindByName(ents, "pv", ents[c].volume), "BINDS_TO", "") :
            c \in OfType(ents, "pvc")})
  \cup UNION {Relation(FindByName(ents, "storageclass", ents[v].class), {v}, "PROVISIONS", "") :
                v \in OfType(ents, "pv")}

ClusterRelations(ents) ==
  Relation(OfType(ents, "cluster"), OfType(ents, "node"), "CONTAINS", "")

CronJobRelations(ents) ==
  UNION {Relation(FindWorkload(ents, ents[j].ns, ents[j].owner.name, "cronjob"), {j}, "OWNS", "") :
           j \in {i \in OfType(ents, "job") : ents[i].owner # None /\ ents[i].owner.kind = "cronjob"}}

\* Pods, configmaps, secrets and events are left to the entities that own them.
InNamespaceTypes == WorkloadTypes \cup {"k8s_service", "ingress", "pvc"}

NamespaceRelations(ents) ==
  UNION {Relation(FindByName(ents, "namespace", ents[i].ns), {i}, "CONTAINS", "") :
           i \in {x \in DOMAIN ents : ents[x].type \in InNamespaceTypes}}

EventRelations(ents) ==
  UNION {Relation({e}, FindEventTarget(ents, ents[e]), "RELATES_TO", "") : e \in OfType(ents, "event")}

BuildKubernetesRelationships(ents, pick) ==
  (UNION {PodRelations(ents, p) \cup PodImages(ents, pick, p) : p \in OfType(ents, "pod")})
  \cup TrafficRelations(ents) \cup StorageRelations(ents) \cup ClusterRelations(ents)
  \cup CronJobRelations(ents) \cup NamespaceRelations(ents) \cup EventRelations(ents)

---------------------------------------------------------------------------
\* Services and processes of the host.

\* A service always stands on the host; a process only when it listens and no
\* service stands for it.
BuildHostServiceRelationships(ents, pick) ==
  LET standing == Services(ents) \cup {i \in FreeProcesses(ents) : ents[i].ports # {}}
      Connect(i) ==
        UNION {Relation({i}, {Settled(PortOwners(ents), pick.owner, port)} \ {i}, "CONNECTS_TO", port) :
                 port \in ents[i].outbound \cap DOMAIN PortOwners(ents)}
  IN  Relation(standing, OfType(ents, "host"), "RUNS_ON", "")
      \cup UNION {Connect(i) : i \in standing}

---------------------------------------------------------------------------
\* One relation of a type is kept between two entities.
Deduplicate(raw) ==
  LET Same(r) == {x \in raw : x.source = r.source /\ x.target = r.target /\ x.type = r.type}
  IN  {CHOOSE x \in Same(r) : TRUE : r \in raw}

BuildRelationships(ents, pick) ==
  Deduplicate(BuildDockerRelationships(ents, pick)
              \cup BuildKubernetesRelationships(ents, pick)
              \cup BuildHostServiceRelationships(ents, pick))

---------------------------------------------------------------------------
\* Health.

Replicated(have, want) ==
  IF have = 0 /\ want > 0 THEN "unhealthy" ELSE IF have < want THEN "degraded" ELSE "healthy"

ContainerHealth(c) ==
  CASE c.state = "running" -> IF c.failsCheck THEN "unhealthy" ELSE "healthy"
    [] c.state \in {"exited", "dead"} -> "unhealthy"
    [] c.state = "paused" -> "degraded"
    [] OTHER -> "unknown"

\* The pod's status and the reasons of its conditions are searched for
\* CrashLoopBackOff; that a container waits with that reason is not read.
PodHealth(p) ==
  CASE p.phase \in {"Failed", "Unknown"} \/ "CrashLoopBackOff" \in p.reasons -> "unhealthy"
    [] p.phase = "Running" /\ "CrashLoopBackOff" \notin p.reasons ->
         IF p.containers # {} /\ \A c \in p.containers : c.ready THEN "healthy" ELSE "degraded"
    [] p.phase = "Pending" /\ "CrashLoopBackOff" \notin p.reasons -> "degraded"
    [] p.phase = "Succeeded" /\ "CrashLoopBackOff" \notin p.reasons -> "healthy"
    [] OTHER -> "unknown"

\* The types whose health is calculated from the snapshot; the others keep what
\* their adapter found.
CalculateHealth(e) ==
  CASE e.type = "host" -> IF e.loaded THEN "degraded" ELSE "healthy"
    [] e.type = "container" -> ContainerHealth(e)
    [] e.type \in {"deployment", "statefulset", "daemonset"} -> Replicated(e.have, e.want)
    [] e.type = "pod" -> PodHealth(e)
    [] e.type = "node" -> IF e.ready THEN "healthy" ELSE "unhealthy"
    [] OTHER -> e.health

CalculateHealthForAll(ents) ==
  [i \in DOMAIN ents |-> [ents[i] EXCEPT !.health = CalculateHealth(ents[i])]]
==============================================================================
