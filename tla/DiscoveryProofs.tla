---------------------------- MODULE DiscoveryProofs ----------------------------
(***************************************************************************)
(* Proofs about Discovery for any entities, any changes of them, any       *)
(* number of calls that fail and any order of the code's maps: that the    *)
(* canvas is a well-formed graph, that the book-keeping of a pass is       *)
(* sound, that what existed throughout a pass is found or its absence is   *)
(* told, and that a second look at what has not changed draws the same     *)
(* canvas.                                                                 *)
(*                                                                         *)
(* An edge ID names the two ends of an edge and not its type.  IDs are     *)
(* unique because the types of the two ends settle the type of the         *)
(* relation (EdgeType): no rule of the builder relates what another rule   *)
(* relates in another way.                                                 *)
(***************************************************************************)
EXTENDS Discovery, FiniteSetTheorems, TLAPS

-----------------------------------------------------------------------------
\* The type of a relation follows from the types of its ends.

EdgeType(source, target) ==
  CASE source = "event" -> "RELATES_TO"
    [] source \in {"container", "container_runtime", "service", "process"} /\ target = "host" -> "RUNS_ON"
    [] source \in {"container", "pod"} /\ target = "image" -> "USES"
    [] source = "container" /\ target = "volume" -> "MOUNTS"
    [] source = "container" /\ target = "network" -> "CONNECTS_TO"
    [] source \in {"service", "process"} /\ target \in {"service", "process"} -> "CONNECTS_TO"
    [] source = "pod" /\ target = "node" -> "RUNS_ON"
    [] source = "pod" /\ target = "pvc" -> "MOUNTS"
    [] source = "pod" /\ target \in {"configmap", "secret"} -> "REFERENCES"
    [] source \in WorkloadTypes /\ target \in {"pod", "job"} -> "OWNS"
    [] source = "k8s_service" /\ target = "pod" -> "TARGETS"
    [] source = "ingress" /\ target = "k8s_service" -> "ROUTES_TO"
    [] source = "pvc" /\ target = "pv" -> "BINDS_TO"
    [] source = "storageclass" /\ target = "pv" -> "PROVISIONS"
    [] source \in {"container_runtime", "cluster", "namespace"} /\ target # "host" -> "CONTAINS"
    [] OTHER -> "none"

Typed(ents, relations) ==
  \A r \in relations : r.type = EdgeType(ents[r.source].type, ents[r.target].type)

\* The relations from sources to targets are typed if their type suits the ends.
LEMMA RelationTyped ==
  ASSUME NEW ents, NEW sources, NEW targets, NEW type, NEW note,
         \A s \in sources, t \in targets : type = EdgeType(ents[s].type, ents[t].type)
  PROVE  Typed(ents, Relation(sources, targets, type, note))
<1> SUFFICES ASSUME NEW r \in Relation(sources, targets, type, note)
             PROVE  r.type = EdgeType(ents[r.source].type, ents[r.target].type)
  BY DEF Typed
<1> PICK s \in sources, t \in targets :
      r = [source |-> s, target |-> t, type |-> type, note |-> note]
  BY DEF Relation
<1> QED OBVIOUS

\* So are relations of many origins.
LEMMA TypedUnion ==
  ASSUME NEW ents, NEW sets, \A a \in sets : Typed(ents, a)
  PROVE  Typed(ents, UNION sets)
BY DEF Typed

\* A candidate that a pass settles on is a candidate.
LEMMA SettledIsCandidate ==
  ASSUME NEW f, NEW g \in Choices(f), NEW x \in DOMAIN f, f[x] # {}
  PROVE  Settled(f, g, x) \in f[x]
BY DEF Choices, Settled

\* A port that is owned is owned by a service or a process.
LEMMA OwnerOfPort ==
  ASSUME NEW ents, NEW pick \in Picks(ents), NEW port \in DOMAIN PortOwners(ents)
  PROVE  ents[Settled(PortOwners(ents), pick.owner, port)].type \in {"service", "process"}
<1>1. PICK i \in Services(ents) \cup FreeProcesses(ents) : port \in ents[i].ports
  BY DEF PortOwners
<1>2. PortOwners(ents)[port] = PortClaimants(ents, port)
  BY DEF PortOwners
<1>3. PortClaimants(ents, port) # {}
  BY <1>1 DEF PortClaimants
<1>4. pick.owner \in Choices(PortOwners(ents))
  BY DEF Picks
<1>5. Settled(PortOwners(ents), pick.owner, port) \in PortClaimants(ents, port)
  BY <1>2, <1>3, <1>4, SettledIsCandidate
<1> QED BY <1>5 DEF PortClaimants, Services, FreeProcesses, OfType

\* What a name leads to is an image.
LEMMA ImageOfName ==
  ASSUME NEW ents, NEW pick \in Picks(ents), NEW name
  PROVE  /\ name \in DOMAIN ImageIndex(ents) =>
              ents[Settled(ImageIndex(ents), pick.exact, name)].type = "image"
         /\ name \in DOMAIN ImageIndexNorm(ents) =>
              ents[Settled(ImageIndexNorm(ents), pick.like, name)].type = "image"
<1>1. ASSUME name \in DOMAIN ImageIndex(ents)
      PROVE  ents[Settled(ImageIndex(ents), pick.exact, name)].type = "image"
  <2>1. PICK i \in NamedImages(ents) : name = ImageName(ents[i])
    BY <1>1 DEF ImageIndex
  <2>2. i \in ImageIndex(ents)[name] /\ ImageIndex(ents)[name] \subseteq NamedImages(ents)
    BY <1>1, <2>1 DEF ImageIndex
  <2>3. pick.exact \in Choices(ImageIndex(ents))
    BY DEF Picks
  <2>4. Settled(ImageIndex(ents), pick.exact, name) \in NamedImages(ents)
    BY <1>1, <2>2, <2>3, SettledIsCandidate
  <2> QED BY <2>4 DEF NamedImages, OfType
<1>2. ASSUME name \in DOMAIN ImageIndexNorm(ents)
      PROVE  ents[Settled(ImageIndexNorm(ents), pick.like, name)].type = "image"
  <2>1. PICK n \in DOMAIN ImageIndex(ents) : name = NormalizeImageName(n)
    BY <1>2 DEF ImageIndexNorm
  <2>2. PICK i \in NamedImages(ents) : n = ImageName(ents[i])
    BY <2>1 DEF ImageIndex
  <2>3. /\ i \in ImageIndexNorm(ents)[name]
        /\ ImageIndexNorm(ents)[name] \subseteq NamedImages(ents)
    BY <1>2, <2>1, <2>2 DEF ImageIndexNorm
  <2>4. pick.like \in Choices(ImageIndexNorm(ents))
    BY DEF Picks
  <2>5. Settled(ImageIndexNorm(ents), pick.like, name) \in NamedImages(ents)
    BY <1>2, <2>3, <2>4, SettledIsCandidate
  <2> QED BY <2>5 DEF NamedImages, OfType
<1> QED BY <1>1, <1>2

-----------------------------------------------------------------------------
\* The builders.

LEMMA DockerTyped ==
  ASSUME NEW ents, NEW pick \in Picks(ents)
  PROVE  Typed(ents, BuildDockerRelationships(ents, pick))
<1>1. ASSUME NEW c \in OfType(ents, "container")
      PROVE  Typed(ents, ContainerRelations(ents, c))
  <2> DEFINE e == ents[c]
             networks == IF e.networks = {} THEN {e.networkMode} ELSE e.networks
             Mounts == {x \in e.mounts : x.type = "volume"}
  <2>0. ents[c].type = "container"
    BY DEF OfType
  <2>1. Typed(ents, Relation({c}, FindImageByID(ents, e.imageID), "USES", ""))
    <3>1. \A t \in FindImageByID(ents, e.imageID) : ents[t].type = "image"
      BY DEF FindImageByID, OfType
    <3> HIDE DEF e
    <3> QED BY <2>0, <3>1, RelationTyped DEF EdgeType
  <2>2. ASSUME NEW m \in Mounts
        PROVE  Typed(ents, Relation({c}, FindByName(ents, "volume", m.source), "MOUNTS", m.destination))
    <3>1. \A t \in FindByName(ents, "volume", m.source) : ents[t].type = "volume"
      BY DEF FindByName, OfType
    <3> HIDE DEF e, Mounts
    <3> QED BY <2>0, <3>1, RelationTyped DEF EdgeType
  <2>3. ASSUME NEW n \in networks
        PROVE  Typed(ents, Relation({c}, FindByName(ents, "network", n), "CONNECTS_TO", ""))
    <3>1. \A t \in FindByName(ents, "network", n) : ents[t].type = "network"
      BY DEF FindByName, OfType
    <3> HIDE DEF e, networks
    <3> QED BY <2>0, <3>1, RelationTyped DEF EdgeType
  <2>4. Typed(ents, UNION {Relation({c}, FindByName(ents, "volume", m.source), "MOUNTS", m.destination) :
                             m \in Mounts})
    <3> HIDE DEF e, Mounts
    <3> QED BY <2>2, TypedUnion
  <2>5. Typed(ents, UNION {Relation({c}, FindByName(ents, "network", n), "CONNECTS_TO", "") : n \in networks})
    <3> HIDE DEF e, networks
    <3> QED BY <2>3, TypedUnion
  <2> QED BY <2>1, <2>4, <2>5 DEF ContainerRelations, Typed
<1>2. Typed(ents, UNION {ContainerRelations(ents, c) : c \in OfType(ents, "container")})
  BY <1>1, TypedUnion
<1>3. Typed(ents, Relation(OfType(ents, "container") \cup Runtimes(ents), OfType(ents, "host"), "RUNS_ON", ""))
  <2>1. /\ \A s \in OfType(ents, "container") \cup Runtimes(ents) :
              ents[s].type \in {"container", "container_runtime"}
        /\ \A t \in OfType(ents, "host") : ents[t].type = "host"
    BY DEF OfType, Runtimes
  <2> QED BY <2>1, RelationTyped DEF EdgeType
<1>4. Typed(ents, Relation({pick.runtime} \ {None},
                 NamedImages(ents) \cup OfType(ents, "volume") \cup OfType(ents, "network"), "CONTAINS", ""))
  <2>1. \A s \in {pick.runtime} \ {None} : ents[s].type = "container_runtime"
    BY DEF Picks, Runtimes, OfType
  <2>2. \A t \in NamedImages(ents) \cup OfType(ents, "volume") \cup OfType(ents, "network") :
           ents[t].type \in {"image", "volume", "network"}
    BY DEF NamedImages, OfType
  <2> QED BY <2>1, <2>2, RelationTyped DEF EdgeType, WorkloadTypes
<1> QED BY <1>2, <1>3, <1>4 DEF BuildDockerRelationships, Typed

\* Candidates of the searches, by type.
LEMMA WorkloadType ==
  ASSUME NEW ents, NEW ns, NEW name, NEW kind
  PROVE  \A i \in FindWorkload(ents, ns, name, kind) : ents[i].type \in WorkloadTypes
BY DEF FindWorkload, OfType

LEMMA PodOwnerType ==
  ASSUME NEW ents, NEW pod
  PROVE  \A i \in PodOwner(ents, pod) : ents[i].type \in WorkloadTypes
BY WorkloadType DEF PodOwner

LEMMA FoundType ==
  ASSUME NEW ents, NEW type, NEW ns, NEW name
  PROVE  /\ \A i \in FindByName(ents, type, name) : ents[i].type = type
         /\ \A i \in FindInNamespace(ents, type, ns, name) : ents[i].type = type
BY DEF FindByName, FindInNamespace, OfType

\* A pod's relations, its images apart.
LEMMA PodTyped ==
  ASSUME NEW ents, NEW p \in OfType(ents, "pod")
  PROVE  Typed(ents, PodRelations(ents, p))
<1> DEFINE pod == ents[p]
           Found(type, names) == UNION {FindInNamespace(ents, type, pod.ns, n) : n \in names}
<1>0. ents[p].type = "pod"
  BY DEF OfType
<1>1. Typed(ents, Relation({p}, FindByName(ents, "node", pod.node), "RUNS_ON", ""))
  <2>1. \A t \in FindByName(ents, "node", pod.node) : ents[t].type = "node"
    BY FoundType
  <2> HIDE DEF pod
  <2> QED BY <1>0, <2>1, RelationTyped DEF EdgeType, WorkloadTypes
<1>2. Typed(ents, Relation(PodOwner(ents, pod), {p}, "OWNS", ""))
  <2>1. \A s \in PodOwner(ents, pod) : ents[s].type \in WorkloadTypes
    BY PodOwnerType
  <2> HIDE DEF pod
  <2> QED BY <1>0, <2>1, RelationTyped DEF EdgeType, WorkloadTypes
<1>3. ASSUME NEW type, NEW names
      PROVE  \A t \in Found(type, names) : ents[t].type = type
  BY FoundType
<1>4. Typed(ents, Relation({p}, Found("configmap", pod.configMaps) \cup Found("secret", pod.secrets),
                           "REFERENCES", ""))
  <2>1. \A t \in Found("configmap", pod.configMaps) \cup Found("secret", pod.secrets) :
           ents[t].type \in {"configmap", "secret"}
    BY <1>3
  <2> HIDE DEF pod, Found
  <2> QED BY <1>0, <2>1, RelationTyped DEF EdgeType, WorkloadTypes
<1>5. Typed(ents, Relation({p}, Found("pvc", pod.pvcs), "MOUNTS", ""))
  <2>1. \A t \in Found("pvc", pod.pvcs) : ents[t].type = "pvc"
    BY <1>3
  <2> HIDE DEF pod, Found
  <2> QED BY <1>0, <2>1, RelationTyped DEF EdgeType, WorkloadTypes
<1> QED BY <1>1, <1>2, <1>4, <1>5 DEF PodRelations, Typed

\* A pod's images.
LEMMA PodImagesTyped ==
  ASSUME NEW ents, NEW pick \in Picks(ents), NEW p \in OfType(ents, "pod")
  PROVE  Typed(ents, PodImages(ents, pick, p))
<1> DEFINE ImageOf(name) ==
             LET like == NormalizeImageName(name)
             IN  IF name \in DOMAIN ImageIndex(ents)
                 THEN {Settled(ImageIndex(ents), pick.exact, name)}
                 ELSE IF like \in DOMAIN ImageIndexNorm(ents)
                      THEN {Settled(ImageIndexNorm(ents), pick.like, like)} ELSE {}
<1>0. ents[p].type = "pod"
  BY DEF OfType
<1>1. ASSUME NEW name
      PROVE  \A t \in ImageOf(name) : ents[t].type = "image"
  BY ImageOfName
<1> HIDE DEF ImageOf
<1>2. ASSUME NEW c \in ents[p].containers
      PROVE  Typed(ents, Relation({p}, ImageOf(c.image), "USES", c.name))
  BY <1>0, <1>1, RelationTyped DEF EdgeType
<1>3. Typed(ents, UNION {Relation({p}, ImageOf(c.image), "USES", c.name) : c \in ents[p].containers})
  BY <1>2, TypedUnion
<1> QED BY <1>3 DEF PodImages, ImageOf

LEMMA TrafficTyped ==
  ASSUME NEW ents
  PROVE  Typed(ents, TrafficRelations(ents))
<1>1. ASSUME NEW s \in OfType(ents, "k8s_service")
      PROVE  Typed(ents, Relation({s}, FindPodsByLabels(ents, ents[s].ns, ents[s].selector), "TARGETS", ""))
  <2>1. /\ ents[s].type = "k8s_service"
        /\ \A t \in FindPodsByLabels(ents, ents[s].ns, ents[s].selector) : ents[t].type = "pod"
    BY DEF OfType, FindPodsByLabels
  <2> QED BY <2>1, RelationTyped DEF EdgeType, WorkloadTypes
<1>2. ASSUME NEW i \in OfType(ents, "ingress"), NEW r \in ents[i].routes
      PROVE  Typed(ents, Relation({i}, FindInNamespace(ents, "k8s_service", ents[i].ns, r.service),
                                  "ROUTES_TO", r.path))
  <2>1. /\ ents[i].type = "ingress"
        /\ \A t \in FindInNamespace(ents, "k8s_service", ents[i].ns, r.service) :
              ents[t].type = "k8s_service"
    BY FoundType DEF OfType
  <2> QED BY <2>1, RelationTyped DEF EdgeType, WorkloadTypes
<1>3. ASSUME NEW i \in OfType(ents, "ingress")
      PROVE  Typed(ents, UNION {Relation({i}, FindInNamespace(ents, "k8s_service", ents[i].ns, r.service),
                                         "ROUTES_TO", r.path) : r \in ents[i].routes})
  BY <1>2 DEF Typed
<1> QED BY <1>1, <1>3 DEF TrafficRelations, Typed

LEMMA StorageTyped ==
  ASSUME NEW ents
  PROVE  Typed(ents, StorageRelations(ents))
<1>1. ASSUME NEW c \in OfType(ents, "pvc")
      PROVE  Typed(ents, Relation({c}, FindByName(ents, "pv", ents[c].volume), "BINDS_TO", ""))
  <2>1. /\ ents[c].type = "pvc"
        /\ \A t \in FindByName(ents, "pv", ents[c].volume) : ents[t].type = "pv"
    BY FoundType DEF OfType
  <2> QED BY <2>1, RelationTyped DEF EdgeType, WorkloadTypes
<1>2. ASSUME NEW v \in OfType(ents, "pv")
      PROVE  Typed(ents, Relation(FindByName(ents, "storageclass", ents[v].class), {v}, "PROVISIONS", ""))
  <2>1. /\ ents[v].type = "pv"
        /\ \A s \in FindByName(ents, "storageclass", ents[v].class) : ents[s].type = "storageclass"
    BY FoundType DEF OfType
  <2> QED BY <2>1, RelationTyped DEF EdgeType, WorkloadTypes
<1> QED BY <1>1, <1>2 DEF StorageRelations, Typed

LEMMA KubernetesTyped ==
  ASSUME NEW ents, NEW pick \in Picks(ents)
  PROVE  Typed(ents, BuildKubernetesRelationships(ents, pick))
<1>1. Typed(ents, ClusterRelations(ents))
  <2>1. /\ \A s \in OfType(ents, "cluster") : ents[s].type = "cluster"
        /\ \A t \in OfType(ents, "node") : ents[t].type = "node"
    BY DEF OfType
  <2> QED BY <2>1, RelationTyped DEF EdgeType, WorkloadTypes, ClusterRelations
<1>2. Typed(ents, CronJobRelations(ents))
  <2>1. ASSUME NEW j \in OfType(ents, "job")
        PROVE  Typed(ents, Relation(FindWorkload(ents, ents[j].ns, ents[j].owner.name, "cronjob"), {j}, "OWNS", ""))
    <3>1. /\ ents[j].type = "job"
          /\ \A s \in FindWorkload(ents, ents[j].ns, ents[j].owner.name, "cronjob") :
                ents[s].type \in WorkloadTypes
      BY WorkloadType DEF OfType
    <3> QED BY <3>1, RelationTyped DEF EdgeType, WorkloadTypes
  <2> QED BY <2>1 DEF CronJobRelations, Typed
<1>3. Typed(ents, NamespaceRelations(ents))
  <2>1. ASSUME NEW i \in {x \in DOMAIN ents : ents[x].type \in InNamespaceTypes}
        PROVE  Typed(ents, Relation(FindByName(ents, "namespace", ents[i].ns), {i}, "CONTAINS", ""))
    <3>1. \A s \in FindByName(ents, "namespace", ents[i].ns) : ents[s].type = "namespace"
      BY FoundType
    <3>2. \A t \in InNamespaceTypes : EdgeType("namespace", t) = "CONTAINS"
      BY DEF EdgeType, WorkloadTypes, InNamespaceTypes
    <3> QED BY <3>1, <3>2, RelationTyped
  <2> QED BY <2>1 DEF NamespaceRelations, Typed
<1>4. Typed(ents, EventRelations(ents))
  <2>1. ASSUME NEW e \in OfType(ents, "event")
        PROVE  Typed(ents, Relation({e}, FindEventTarget(ents, ents[e]), "RELATES_TO", ""))
    <3>1. ents[e].type = "event"
      BY DEF OfType
    <3> QED BY <3>1, RelationTyped DEF EdgeType, WorkloadTypes
  <2> QED BY <2>1 DEF EventRelations, Typed
<1>5. ASSUME NEW p \in OfType(ents, "pod")
      PROVE  Typed(ents, PodRelations(ents, p)) /\ Typed(ents, PodImages(ents, pick, p))
  BY PodTyped, PodImagesTyped
<1> QED BY <1>1, <1>2, <1>3, <1>4, <1>5, TrafficTyped, StorageTyped DEF BuildKubernetesRelationships, Typed

LEMMA HostServicesTyped ==
  ASSUME NEW ents, NEW pick \in Picks(ents)
  PROVE  Typed(ents, BuildHostServiceRelationships(ents, pick))
<1> DEFINE standing == Services(ents) \cup {i \in FreeProcesses(ents) : ents[i].ports # {}}
           Dialled(i, port) ==
             Relation({i}, {Settled(PortOwners(ents), pick.owner, port)} \ {i}, "CONNECTS_TO", port)
<1>0. \A i \in standing : ents[i].type \in {"service", "process"}
  BY DEF Services, FreeProcesses, OfType
<1>1. Typed(ents, Relation(standing, OfType(ents, "host"), "RUNS_ON", ""))
  <2>1. \A t \in OfType(ents, "host") : ents[t].type = "host"
    BY DEF OfType
  <2> HIDE DEF standing
  <2> QED BY <1>0, <2>1, RelationTyped DEF EdgeType
<1>2. ASSUME NEW i \in standing, NEW port \in DOMAIN PortOwners(ents)
      PROVE  Typed(ents, Dialled(i, port))
  <2>1. ents[Settled(PortOwners(ents), pick.owner, port)].type \in {"service", "process"}
    BY OwnerOfPort
  <2> HIDE DEF standing
  <2> QED BY <1>0, <2>1, RelationTyped DEF EdgeType
<1>3. ASSUME NEW i \in standing
      PROVE  Typed(ents, UNION {Dialled(i, port) : port \in ents[i].outbound \cap DOMAIN PortOwners(ents)})
  <2> HIDE DEF standing, Dialled
  <2> QED BY <1>2 DEF Typed
<1> QED BY <1>1, <1>3 DEF BuildHostServiceRelationships, Typed

-----------------------------------------------------------------------------
\* The canvas.

\* Relations are kept once for a pair of entities: after Deduplicate, two
\* relations between the same ends are one.
LEMMA OneRelationPerPair ==
  ASSUME NEW ents, NEW raw, Typed(ents, raw),
         NEW d \in Deduplicate(raw), NEW e \in Deduplicate(raw),
         d.source = e.source, d.target = e.target
  PROVE  d = e
<1> DEFINE Same(r) == {x \in raw : x.source = r.source /\ x.target = r.target /\ x.type = r.type}
<1>1. PICK r \in raw : d = CHOOSE x \in Same(r) : TRUE
  BY DEF Deduplicate
<1>2. PICK q \in raw : e = CHOOSE x \in Same(q) : TRUE
  BY DEF Deduplicate
<1>3. d \in Same(r) /\ e \in Same(q)
  <2>1. r \in Same(r) /\ q \in Same(q)
    OBVIOUS
  <2> QED BY <1>1, <1>2, <2>1
<1>4. r.source = q.source /\ r.target = q.target
  BY <1>3
<1>5. r.type = q.type
  BY <1>4 DEF Typed
<1>6. Same(r) = Same(q)
  BY <1>4, <1>5
<1> QED BY <1>1, <1>2, <1>6

\* The canvas made of any entities and their relations is well formed.
WellFormed(g) ==
  /\ \A e \in g.edges : {e.source, e.target} \subseteq {n.id : n \in g.nodes}
  /\ \A e, f \in g.edges : e.id = f.id => e = f
  /\ \A n \in g.nodes : n.type \in AlwaysKept \/ \E e \in g.edges : n.id \in {e.source, e.target}
  /\ \A n \in g.nodes : n.type \notin HiddenTypes

LEMMA FormatWellFormed ==
  ASSUME NEW ents, NEW relations,
         \A d, e \in relations : d.source = e.source /\ d.target = e.target => d = e
  PROVE  WellFormed(Format(ents, relations))
<1> DEFINE edges == EdgesOf(ents, relations)
           nodes == Connected(NodesOf(ents), edges)
<1>1. Format(ents, relations) = [nodes |-> nodes, edges |-> edges]
  BY DEF Format
<1>2. ASSUME NEW e \in edges
      PROVE  \E r \in relations : e = EdgeOf(r) /\ ~IsFiltered(r.source, ents) /\ ~IsFiltered(r.target, ents)
  BY DEF EdgesOf
<1>3. ASSUME NEW e \in edges, NEW i \in {e.source, e.target}
      PROVE  \E n \in nodes : n.id = i
  <2>1. i \in DOMAIN ents /\ ~ShouldFilter(ents[i])
    BY <1>2 DEF EdgeOf, IsFiltered
  <2>2. EntityToNode(i, ents[i]) \in NodesOf(ents) /\ EntityToNode(i, ents[i]).id = i
    BY <2>1 DEF NodesOf, EntityToNode
  <2> QED BY <2>2 DEF Connected
<1>4. ASSUME NEW e \in edges, NEW f \in edges, e.id = f.id
      PROVE  e = f
  <2>1. PICK d \in relations : e = EdgeOf(d)
    BY <1>2
  <2>2. PICK r \in relations : f = EdgeOf(r)
    BY <1>2
  <2>3. d.source = r.source /\ d.target = r.target
    BY <1>4, <2>1, <2>2 DEF EdgeOf
  <2> QED BY <2>1, <2>2, <2>3
<1>5. ASSUME NEW n \in nodes
      PROVE  n.type \in AlwaysKept \/ \E e \in edges : n.id \in {e.source, e.target}
  BY DEF Connected
<1>6. ASSUME NEW n \in nodes
      PROVE  n.type \notin HiddenTypes
  <2>1. n \in NodesOf(ents)
    BY DEF Connected
  <2>2. CASE n = DanglingGroup
    BY <2>2 DEF DanglingGroup, HiddenTypes
  <2>3. CASE n # DanglingGroup
    <3>1. PICK i \in DOMAIN ents : ~ShouldFilter(ents[i]) /\ n = EntityToNode(i, ents[i])
      BY <2>1, <2>3 DEF NodesOf
    <3>2. n.type = ents[i].type
      BY <3>1 DEF EntityToNode
    <3>3. ents[i].type \notin HiddenTypes
      BY <3>1 DEF ShouldFilter
    <3> QED BY <3>2, <3>3
  <2> QED BY <2>2, <2>3
<1> HIDE DEF nodes, edges
<1> QED BY <1>1, <1>3, <1>4, <1>5, <1>6 DEF WellFormed

LEMMA PassWellFormed ==
  ASSUME NEW ents, NEW pick \in Picks(ents), NEW judged
  PROVE  WellFormed(Format(judged, BuildRelationships(ents, pick)))
<1> DEFINE raw == BuildDockerRelationships(ents, pick) \cup BuildKubernetesRelationships(ents, pick)
                  \cup BuildHostServiceRelationships(ents, pick)
<1>1. Typed(ents, raw)
  BY DockerTyped, KubernetesTyped, HostServicesTyped DEF Typed
<1>2. BuildRelationships(ents, pick) = Deduplicate(raw)
  BY DEF BuildRelationships
<1> HIDE DEF raw
<1>3. \A d, e \in Deduplicate(raw) : d.source = e.source /\ d.target = e.target => d = e
  BY <1>1, OneRelationPerPair
<1> QED BY <1>2, <1>3, FormatWellFormed

\* Only the end of a pass touches the canvas.
LEMMA GraphSteps ==
  ASSUME Next
  PROVE  UNCHANGED graph \/ EndPass
BY DEF Next, BeginPass, HostInfo, HostList, HostCommit, DockerStart, DockerList, DockerCommit, LXDStart,
       LXDCommit, KubeStart, Turn, KubeHit, KubeList, KubeForbidden, KubeBreaks, KubeCommit, WorldChanges,
       AllPassesDone, PassFrame, vars

\* pkg/output/graph.go: the canvas that a pass draws is a graph.  Its edges join
\* nodes that are drawn, no two edges have one ID, every node but a root has an
\* edge, and nothing of a hidden type is drawn.
THEOREM GraphAlwaysWellFormed == Spec => []GraphIsWellFormed
<1>1. Init => WellFormed(graph)
  BY DEF Init, WellFormed
<1>2. WellFormed(graph) /\ [Next]_vars => WellFormed(graph)'
  <2> SUFFICES ASSUME WellFormed(graph), [Next]_vars
               PROVE  WellFormed(graph')
    BY DEF WellFormed
  <2>1. CASE EndPass
    BY <2>1, PassWellFormed DEF EndPass
  <2>2. CASE UNCHANGED graph
    BY <2>2
  <2> QED BY <2>1, <2>2, GraphSteps DEF vars
<1>3. WellFormed(graph) => GraphIsWellFormed
  BY DEF WellFormed, GraphIsWellFormed, EdgesHaveEnds, EdgeIDsAreUnique, NoneIsLoose, NoneIsHidden
<1> QED BY <1>1, <1>2, <1>3, PTL DEF Spec

-----------------------------------------------------------------------------
\* The book-keeping of a pass.

Counted ==
  /\ scope \subseteq Layers /\ forbidden \subseteq KubeTypes
  /\ running \in BOOLEAN /\ passes \in 0..MaxPasses
  /\ changes \in 0..MaxChanges /\ faults \in 0..MaxFaults

Staged ==
  /\ stage \in [Layers -> {"start", "lists", "broken", "done"}]
  /\ \A l \in Layers \ scope : stage[l] = "done"

Listed ==
  /\ DOMAIN got = ListedTypes /\ next \in 0..Len(KubeKinds)
  /\ lxdClient \in {None} \cup BOOLEAN /\ kubeClient \in BOOLEAN
  /\ DOMAIN cache = KubeTypes /\ cache["ingress"] = None

Filed ==
  /\ DOMAIN snapshot = {"entities", "errors", "issues"}
  /\ \A i \in DOMAIN snapshot.entities : IdOf(snapshot.entities[i]) = i
  /\ snapshot.errors \subseteq scope

\* A pass has no issues before its Kubernetes layer has ended.  Without this a
\* layer that starts over, and forgets what it skipped, would leave issues that
\* nothing was skipped for.
Noted ==
  /\ snapshot.issues \subseteq skipped /\ skipped \subseteq forbidden
  /\ stage["kubernetes"] # "done" => snapshot.issues = {}

Books == Counted /\ Staged /\ Listed /\ Filed /\ Noted

\* The initial state is well typed.
LEMMA BooksInit == Init => Books
<1> SUFFICES ASSUME Init PROVE Books
  OBVIOUS
<1>1. Counted
  <2>1. \E s \in Settings : scope = s.scope /\ world = s.things /\ forbidden = s.forbidden
    BY DEF Init
  <2>2. scope \subseteq Layers /\ forbidden \subseteq KubeTypes
    BY <2>1, DiscoveryAssumption
  <2>3. running \in BOOLEAN
    BY DEF Init
  <2>4. passes = 0 /\ changes = 0 /\ faults = 0
    BY DEF Init
  <2>5. MaxPasses \in Nat /\ MaxChanges \in Nat /\ MaxFaults \in Nat
    BY DiscoveryAssumption
  <2>6. passes \in 0..MaxPasses /\ changes \in 0..MaxChanges /\ faults \in 0..MaxFaults
    BY <2>4, <2>5
  <2> QED BY <2>2, <2>3, <2>6 DEF Counted
<1>2. Staged
  BY DEF Init, Staged
<1>3. Listed
  <2>1. Len(KubeKinds) \in Nat /\ "ingress" \in KubeTypes
    BY DiscoveryAssumption
  <2>2. DOMAIN got = ListedTypes /\ next \in 0..Len(KubeKinds)
    BY <2>1 DEF Init
  <2>3. lxdClient = None /\ kubeClient = FALSE
    BY DEF Init
  <2>4. DOMAIN cache = KubeTypes /\ cache["ingress"] = None
    BY <2>1 DEF Init
  <2> QED BY <2>2, <2>3, <2>4 DEF Listed
<1>4. Filed
  BY DEF Init, Filed, Nothing
<1>5. Noted
  BY DEF Init, Noted
<1> QED BY <1>1, <1>2, <1>3, <1>4, <1>5 DEF Books

\* Entities stay filed under their IDs when others are added.
LEMMA FiledUnderID ==
  ASSUME NEW ents, NEW things, \A i \in DOMAIN ents : IdOf(ents[i]) = i
  PROVE  \A i \in DOMAIN Added(ents, things) : IdOf(Added(ents, things)[i]) = i
<1> SUFFICES ASSUME NEW i \in DOMAIN ents \cup Ids(things)
             PROVE  IdOf(Added(ents, things)[i]) = i
  BY DEF Added
<1>1. CASE i \in Ids(things)
  <2>1. \E x \in things : IdOf(x) = i
    BY <1>1 DEF Ids
  <2>2. IdOf(CHOOSE x \in things : IdOf(x) = i) = i
    BY <2>1
  <2> QED BY <1>1, <2>2 DEF Added
<1>2. CASE i \notin Ids(things)
  BY <1>2 DEF Added
<1> QED BY <1>1, <1>2

\* A step of a pass counts at most one fault.
LEMMA CountedStep ==
  ASSUME Counted, PassFrame, faults' = faults \/ Fault
  PROVE  Counted'
BY DiscoveryAssumption DEF Counted, PassFrame, Fault

\* A layer fails, reaches its next stage, or hands over what it found.
LEMMA FailsStep ==
  ASSUME Staged, Filed, Noted, NEW l \in Layers, stage[l] # "done", Fails(l),
         scope' = scope, forbidden' = forbidden
  PROVE  /\ Staged' /\ Filed'
         /\ skipped' = skipped => Noted'
         /\ l = "kubernetes" => snapshot'.issues = {}
BY DEF Staged, Filed, Noted, Fails

LEMMA ReachesStep ==
  ASSUME Staged, Filed, Noted, NEW l \in Layers, stage[l] # "done", Reaches(l, "lists"),
         scope' = scope, forbidden' = forbidden
  PROVE  /\ Staged' /\ Filed'
         /\ skipped' = skipped => Noted'
         /\ l = "kubernetes" => snapshot'.issues = {}
BY DEF Staged, Filed, Noted, Reaches

LEMMA CommitsStep ==
  ASSUME Staged, Filed, Noted, NEW l \in Layers, NEW things, stage[l] # "done", Commits(l, things),
         scope' = scope, forbidden' = forbidden, skipped' = skipped
  PROVE  Staged' /\ Filed' /\ Noted'
<1>1. Staged'
  BY DEF Staged, Commits
<1>2. /\ DOMAIN snapshot' = DOMAIN snapshot
      /\ snapshot'.errors = snapshot.errors /\ snapshot'.issues = snapshot.issues
  BY DEF Filed, Commits
<1>3. snapshot'.entities = Added(snapshot.entities, things)
  BY DEF Filed, Commits
<1>4. Filed'
  BY <1>2, <1>3, FiledUnderID DEF Filed
<1>5. Noted'
  BY <1>2 DEF Staged, Noted, Commits
<1> QED BY <1>1, <1>4, <1>5

\* The host's steps keep the books.
LEMMA HostBooks ==
  ASSUME Books, HostInfo \/ (\E t \in HostTypes : HostList(t)) \/ HostCommit
  PROVE  Books'
<1> USE DEF Books
<1> "host" \in Layers /\ HostTypes \subseteq ListedTypes
  BY DEF Layers, ListedTypes
<1>1. CASE HostInfo
  <2>1. Counted' /\ Listed'
    BY <1>1, CountedStep DEF HostInfo, Listed, Hurt, Unhurt
  <2>2. Staged' /\ Filed' /\ Noted'
    BY <1>1, FailsStep, ReachesStep DEF HostInfo, PassFrame
  <2> QED BY <2>1, <2>2
<1>2. ASSUME NEW t \in HostTypes, HostList(t)
      PROVE  Books'
  <2>1. Counted'
    BY <1>2, CountedStep DEF HostList, Hurt, Unhurt
  <2>2. Listed'
    BY <1>2 DEF HostList, Listed
  <2>3. Staged' /\ Filed' /\ Noted'
    BY <1>2 DEF HostList, PassFrame, Staged, Filed, Noted
  <2> QED BY <2>1, <2>2, <2>3
<1>3. CASE HostCommit
  <2>1. Counted' /\ Listed'
    BY <1>3, CountedStep DEF HostCommit, Listed, Hurt, Unhurt
  <2>2. Staged' /\ Filed' /\ Noted'
    BY <1>3, CommitsStep DEF HostCommit, PassFrame
  <2> QED BY <2>1, <2>2
<1> QED BY <1>1, <1>2, <1>3

\* Docker's steps keep the books.
LEMMA DockerBooks ==
  ASSUME Books, DockerStart \/ (\E t \in DockerTypes : DockerList(t)) \/ DockerCommit
  PROVE  Books'
<1> USE DEF Books
<1> "docker" \in Layers /\ DockerTypes \subseteq ListedTypes
  BY DEF Layers, ListedTypes
<1>1. CASE DockerStart
  <2>1. Counted' /\ Listed'
    BY <1>1, CountedStep DEF DockerStart, Listed, Hurt, Unhurt
  <2>2. Staged' /\ Filed' /\ Noted'
    BY <1>1, FailsStep, ReachesStep DEF DockerStart, PassFrame
  <2> QED BY <2>1, <2>2
<1>2. ASSUME NEW t \in DockerTypes, DockerList(t)
      PROVE  Books'
  <2>1. Counted'
    BY <1>2, CountedStep DEF DockerList, Hurt, Unhurt
  <2>2. Listed'
    BY <1>2 DEF DockerList, Listed
  <2>3. Staged' /\ Filed' /\ Noted'
    <3>1. CASE UNCHANGED <<stage, snapshot>>
      BY <1>2, <3>1 DEF DockerList, PassFrame, Staged, Filed, Noted
    <3>2. CASE Fails("docker")
      BY <1>2, <3>2, FailsStep DEF DockerList, PassFrame
    <3> QED BY <1>2, <3>1, <3>2 DEF DockerList
  <2> QED BY <2>1, <2>2, <2>3
<1>3. CASE DockerCommit
  <2>1. Counted' /\ Listed'
    BY <1>3, CountedStep DEF DockerCommit, Listed, Unhurt
  <2>2. Staged' /\ Filed' /\ Noted'
    BY <1>3, CommitsStep DEF DockerCommit, PassFrame
  <2> QED BY <2>1, <2>2
<1> QED BY <1>1, <1>2, <1>3

\* LXD's steps keep the books.
LEMMA LXDBooks ==
  ASSUME Books, LXDStart \/ LXDCommit
  PROVE  Books'
<1> USE DEF Books
<1> "lxd" \in Layers
  BY DEF Layers
<1>1. CASE LXDStart
  <2>1. Counted' /\ Listed'
    BY <1>1, CountedStep DEF LXDStart, Listed, Hurt, Unhurt
  <2>2. Staged' /\ Filed' /\ Noted'
    BY <1>1, FailsStep, ReachesStep DEF LXDStart, PassFrame
  <2> QED BY <2>1, <2>2
<1>2. CASE LXDCommit
  <2>1. Counted' /\ Listed'
    BY <1>2, CountedStep DEF LXDCommit, Listed, Hurt, Unhurt
  <2>2. Staged' /\ Filed' /\ Noted'
    <3>1. CASE Fails("lxd")
      BY <1>2, <3>1, FailsStep DEF LXDCommit, PassFrame
    <3>2. CASE ~Fails("lxd")
      BY <1>2, <3>2, CommitsStep DEF LXDCommit, PassFrame
    <3> QED BY <3>1, <3>2
  <2> QED BY <2>1, <2>2
<1> QED BY <1>1, <1>2

\* Kubernetes' steps keep the books.
LEMMA KubeBooks ==
  ASSUME Books,
         \/ KubeStart \/ KubeCommit
         \/ \E t \in KubeTypes : KubeHit(t) \/ KubeList(t) \/ KubeForbidden(t) \/ KubeBreaks(t)
  PROVE  Books'
<1> USE DEF Books
<1> "kubernetes" \in Layers /\ KubeTypes \subseteq ListedTypes
  BY DEF Layers, ListedTypes
<1> Len(KubeKinds) \in Nat
  BY DiscoveryAssumption
<1>1. CASE KubeStart
  <2>1. Counted'
    <3>1. faults' = faults \/ Fault
      BY <1>1 DEF KubeStart, Hurt, Unhurt
    <3> QED BY <1>1, <3>1, CountedStep DEF KubeStart
  <2>0. Listed'
    <3>1. next' = 0 /\ UNCHANGED <<got, lxdClient, cache>>
      BY <1>1 DEF KubeStart
    <3>2. kubeClient' = TRUE \/ kubeClient' = kubeClient
      BY <1>1 DEF KubeStart
    <3>3. kubeClient' \in BOOLEAN
      BY <3>2 DEF Listed
    <3>4. next' \in 0..Len(KubeKinds)
      BY <3>1
    <3> QED BY <3>1, <3>3, <3>4 DEF Listed
  <2>2. Staged' /\ Filed' /\ snapshot'.issues = {}
    BY <1>1, FailsStep, ReachesStep DEF KubeStart, PassFrame
  <2>3. Noted'
    BY <1>1, <2>2 DEF KubeStart, Noted
  <2> QED BY <2>1, <2>0, <2>2, <2>3
<1>2. ASSUME NEW t \in KubeTypes, KubeHit(t) \/ KubeList(t) \/ KubeForbidden(t) \/ KubeBreaks(t)
      PROVE  Books'
  <2>1. Turn(t)
    BY <1>2 DEF KubeHit, KubeList, KubeForbidden, KubeBreaks
  <2>2. Counted'
    <3>1. faults' = faults \/ Fault
      BY <1>2 DEF KubeHit, KubeList, KubeForbidden, KubeBreaks, Hurt, Unhurt
    <3> QED BY <2>1, <3>1, CountedStep DEF Turn
  <2>3. Listed'
    <3>1. DOMAIN got' = ListedTypes
      BY <1>2 DEF KubeHit, KubeList, KubeForbidden, KubeBreaks, Listed
    <3>2. next' \in 0..Len(KubeKinds)
      BY <2>1 DEF Turn, Listed
    <3>3. UNCHANGED <<lxdClient, kubeClient>>
      BY <1>2 DEF KubeHit, KubeList, KubeForbidden, KubeBreaks
    <3>4. DOMAIN cache' = KubeTypes /\ cache'["ingress"] = None
      <4>1. CASE cache' = cache
        BY <4>1 DEF Listed
      <4>2. CASE t # "ingress" /\ \E entry : cache' = [cache EXCEPT ![t] = entry]
        BY <4>2 DEF Listed
      <4>3. CASE KubeList(t)
        <5> DEFINE things == Things("kubernetes", t)
                   items(a) == {Parse(x, x \notin a) : x \in things}
        <5> HIDE DEF things, items
        <5>1. PICK a \in IF t = "k8s_service" THEN SUBSET things ELSE {{}} :
                cache' = IF t = "ingress" THEN cache
                         ELSE [cache EXCEPT ![t] = [items |-> items(a), ids |-> Ids(things)]]
          BY <4>3 DEF KubeList, things, items
        <5> QED BY <4>1, <4>2, <5>1
      <4>4. CASE ~KubeList(t)
        <5>1. cache' = cache
          BY <1>2, <4>4 DEF KubeHit, KubeForbidden, KubeBreaks
        <5> QED BY <4>1, <5>1
      <4> QED BY <4>3, <4>4
    <3> QED BY <3>1, <3>2, <3>3, <3>4 DEF Listed
  <2>4. Staged' /\ stage["kubernetes"] # "done" /\ stage'["kubernetes"] # "done"
    BY <1>2, <2>1 DEF KubeHit, KubeList, KubeForbidden, KubeBreaks, Turn, PassFrame, Staged
  <2>5. snapshot' = snapshot
    BY <1>2 DEF KubeHit, KubeList, KubeForbidden, KubeBreaks
  <2>6. Filed'
    BY <2>1, <2>5 DEF Turn, PassFrame, Filed
  <2>7. skipped' \subseteq forbidden'
    BY <1>2, <2>1 DEF KubeHit, KubeList, KubeForbidden, KubeBreaks, Turn, PassFrame, Noted
  <2>8. Noted'
    BY <2>4, <2>5, <2>7 DEF Noted
  <2> QED BY <2>2, <2>3, <2>4, <2>6, <2>8
<1>3. CASE KubeCommit
  <2> DEFINE things == {ClusterEntity} \cup UNION {got[t] : t \in KubeTypes}
  <2> HIDE DEF things
  <2>1. Counted' /\ Listed'
    BY <1>3, CountedStep DEF KubeCommit, Listed, Unhurt
  <2>2. CASE Fails("kubernetes")
    <3>1. Staged' /\ Filed' /\ Noted'
      BY <1>3, <2>2, FailsStep DEF KubeCommit, PassFrame
    <3> QED BY <2>1, <3>1
  <2>3. CASE ~Fails("kubernetes")
    <3>1. /\ stage' = [stage EXCEPT !["kubernetes"] = "done"]
          /\ snapshot' = [snapshot EXCEPT !.entities = Added(@, things), !.issues = @ \cup skipped]
      BY <1>3, <2>3 DEF KubeCommit, things
    <3>2. Staged'
      BY <1>3, <3>1 DEF KubeCommit, PassFrame, Staged
    <3>3. /\ DOMAIN snapshot' = DOMAIN snapshot /\ snapshot'.errors = snapshot.errors
          /\ snapshot'.entities = Added(snapshot.entities, things)
          /\ snapshot'.issues = snapshot.issues \cup skipped
      BY <3>1 DEF Filed
    <3>4. Filed'
      BY <1>3, <3>3, FiledUnderID DEF KubeCommit, PassFrame, Filed
    <3>5. Noted'
      BY <1>3, <3>1, <3>3 DEF KubeCommit, PassFrame, Noted, Staged
    <3> QED BY <2>1, <3>2, <3>4, <3>5
  <2> QED BY <2>2, <2>3
<1> QED BY <1>1, <1>2, <1>3

\* So do the steps that begin and end a pass, and those of the world.
LEMMA PassBooks ==
  ASSUME Books, BeginPass \/ EndPass \/ WorldChanges \/ UNCHANGED vars
  PROVE  Books'
<1> USE DEF Books
<1>1. CASE BeginPass
  <2>1. Counted'
    BY <1>1, DiscoveryAssumption DEF BeginPass, Counted
  <2>2. Staged'
    BY <1>1 DEF BeginPass, Staged
  <2>3. Listed'
    BY <1>1 DEF BeginPass, Listed
  <2>4. snapshot' = [entities |-> Nothing, errors |-> {}, issues |-> {}]
    BY <1>1 DEF BeginPass
  <2>5. Filed' /\ Noted'
    BY <1>1, <2>4 DEF BeginPass, Filed, Noted, Nothing
  <2> QED BY <2>1, <2>2, <2>3, <2>5
<1>2. CASE EndPass \/ WorldChanges
  <2>1. Counted'
    <3>1. CASE EndPass
      <4>1. running' = FALSE /\ UNCHANGED <<scope, forbidden, passes, changes, faults>>
        BY <3>1 DEF EndPass
      <4> QED BY <4>1 DEF Counted
    <3>2. CASE WorldChanges
      <4>1. /\ changes < MaxChanges /\ changes' = changes + 1
            /\ UNCHANGED <<scope, forbidden, running, passes, faults>>
        BY <3>2 DEF WorldChanges
      <4> QED BY <4>1, DiscoveryAssumption DEF Counted
    <3> QED BY <1>2, <3>1, <3>2
  <2>2. UNCHANGED <<layerVars, scope, forbidden>>
    BY <1>2 DEF EndPass, WorldChanges
  <2> QED BY <2>1, <2>2 DEF layerVars, Staged, Listed, Filed, Noted
<1>3. CASE UNCHANGED vars
  BY <1>3 DEF vars, layerVars, Counted, Staged, Listed, Filed, Noted
<1> QED BY <1>1, <1>2, <1>3

LEMMA BooksStep == Books /\ [Next]_vars => Books'
BY HostBooks, DockerBooks, LXDBooks, KubeBooks, PassBooks DEF Next, AllPassesDone

\* Every variable of discovery has its type: entities are filed under their own
\* IDs, a pass blames only layers of its scope (errors), and it reports as
\* forbidden only types it skipped for lack of permission (issues).
THEOREM TypeCorrect == Spec => []TypeOK
<1>1. Books => TypeOK
  BY DEF Books, Counted, Staged, Listed, Filed, Noted, TypeOK
<1> QED BY BooksInit, BooksStep, <1>1, PTL DEF Spec

-----------------------------------------------------------------------------
\* What existed throughout a pass is found or its absence is told.

Identified(x) == {"type", "ns", "name"} \subseteq DOMAIN x

\* What an adapter adds to what it read leaves its identity alone.
LEMMA WithKeepsIdentity ==
  ASSUME NEW x, Identified(x), NEW field, field \notin {"type", "ns", "name"}, NEW value
  PROVE  Identified(With(x, field, value)) /\ IdOf(With(x, field, value)) = IdOf(x)
<1>1. DOMAIN With(x, field, value) = DOMAIN x \cup {field}
  BY DEF With
<1>2. \A f \in {"type", "ns", "name"} : With(x, field, value)[f] = x[f]
  BY DEF With, Identified
<1>3. IdOf(With(x, field, value)) = IdOf(x)
  BY <1>2 DEF IdOf
<1> QED BY <1>1, <1>3 DEF Identified

LEMMA ParseKeepsIdentity ==
  ASSUME NEW x, Identified(x), NEW answered
  PROVE  IdOf(Parse(x, answered)) = IdOf(x)
<1>1. \A value : IdOf(With(x, "health", value)) = IdOf(x)
  BY WithKeepsIdentity
<1>2. x.type = "image" => IdOf(ParseImage(x)) = IdOf(x)
  BY DEF ParseImage, IdOf
<1>3. x.type = "pod" => IdOf(ParsePod(x)) = IdOf(x)
  BY DEF ParsePod, IdOf
<1>4. /\ IdOf(ParseServiceLine(x)) = IdOf(x)
      /\ IdOf(ParseService(x, answered)) = IdOf(x)
      /\ IdOf(ParseJob(x)) = IdOf(x)
      /\ IdOf(ParseCronJob(x)) = IdOf(x)
      /\ IdOf(ParsePVC(x)) = IdOf(x)
      /\ IdOf(ParseEvent(x)) = IdOf(x)
  BY <1>1 DEF ParseServiceLine, ParseService, ParseJob, ParseCronJob, ParsePVC, ParseEvent
<1>5. \/ Parse(x, answered) \in {ParseServiceLine(x), ParseService(x, answered), ParseJob(x),
                                 ParseCronJob(x), ParsePVC(x), ParseEvent(x), With(x, "health", "healthy")}
      \/ x.type = "image" /\ Parse(x, answered) = ParseImage(x)
      \/ x.type = "pod" /\ Parse(x, answered) = ParsePod(x)
  BY DEF Parse
<1> QED BY <1>1, <1>2, <1>3, <1>4, <1>5

LEMMA ParsedIds ==
  ASSUME NEW things, \A x \in things : Identified(x), NEW answered
  PROVE  Ids({Parse(x, answered) : x \in things}) = Ids(things)
BY ParseKeepsIdentity DEF Ids

LEMMA EachParsedIds ==
  ASSUME NEW things, \A x \in things : Identified(x), NEW unanswered
  PROVE  Ids({Parse(x, x \notin unanswered) : x \in things}) = Ids(things)
BY ParseKeepsIdentity DEF Ids

LEMMA UnitKeepsIdentity ==
  ASSUME NEW s, Identified(s)
  PROVE  Identified(Undetailed(s)) /\ IdOf(Undetailed(s)) = IdOf(s)
BY DEF Identified, Undetailed, IdOf

\* A line without a bullet says what its unit is; one with a bullet is still a unit's.
LEMMA LineIdentified ==
  ASSUME NEW x, Identified(x)
  PROVE  /\ Identified(ServiceLine(x)) /\ ServiceLine(x).type = x.type
         /\ ~Bulleted(x) => IdOf(ServiceLine(x)) = IdOf(x)
BY DEF Identified, ServiceLine

\* A list of lines has all that was not passed over and has no bullet.
LEMMA LinesHave ==
  ASSUME NEW things, \A x \in things : Identified(x), NEW missed,
         NEW items, items = {ServiceLine(x) : x \in things \ missed}
  PROVE  /\ \A x \in items : Identified(x)
         /\ \A i \in Ids(things) :
              \/ i \in Ids(missed) \/ i \in Ids(items)
              \/ \E x \in things : Bulleted(x) /\ IdOf(x) = i
<1>1. \A x \in items : Identified(x)
  BY LineIdentified
<1>2. ASSUME NEW i \in Ids(things), i \notin Ids(missed),
             ~\E x \in things : Bulleted(x) /\ IdOf(x) = i
      PROVE  i \in Ids(items)
  <2>1. PICK x \in things : IdOf(x) = i
    BY DEF Ids
  <2>2. x \notin missed /\ ~Bulleted(x)
    BY <1>2, <2>1 DEF Ids
  <2>3. ServiceLine(x) \in items /\ IdOf(ServiceLine(x)) = i
    BY <2>1, <2>2, LineIdentified
  <2> QED BY <2>3 DEF Ids
<1> QED BY <1>1, <1>2

\* Sockets, or the lack of them, cost no process and no service.
LEMMA EnrichedIds ==
  ASSUME NEW processes, NEW services, NEW readable,
         \A x \in processes \cup services : Identified(x)
  PROVE  /\ \A y \in EnrichWithSockets(processes, services, readable) : Identified(y)
         /\ Ids(EnrichWithSockets(processes, services, readable)) = Ids(processes \cup services)
<1> DEFINE trees == [s \in services |-> IF readable THEN TreeOf(s, processes) ELSE {}]
           Owner(p) == {s \in services : p \in trees[s]}
           Own(p, field) == IF readable THEN Sockets(p, field) ELSE {}
           unit(p) == IF Owner(p) = {} THEN None ELSE (CHOOSE s \in Owner(p) : TRUE).name
           P(p) == With(With(With(p, "unit", unit(p)), "ports", Own(p, "listens")), "outbound", Own(p, "dials"))
           ports(s) == UNION {Own(p, "listens") : p \in trees[s]}
           outbound(s) == UNION {Own(p, "dials") : p \in trees[s]}
           S(s) == With(With(s, "ports", ports(s)), "outbound", outbound(s))
           all == EnrichWithSockets(processes, services, readable)
<1>1. all = {P(p) : p \in processes} \cup {S(s) : s \in services}
  BY DEF EnrichWithSockets
<1> HIDE DEF unit, Own, ports, outbound, all
<1>2. \A p \in processes : Identified(P(p)) /\ IdOf(P(p)) = IdOf(p)
  BY WithKeepsIdentity
<1>3. \A s \in services : Identified(S(s)) /\ IdOf(S(s)) = IdOf(s)
  BY WithKeepsIdentity
<1> HIDE DEF P, S
<1>4. \A y \in all : Identified(y)
  BY <1>1, <1>2, <1>3
<1>5. Ids(all) = Ids(processes \cup services)
  BY <1>1, <1>2, <1>3 DEF Ids
<1> QED BY <1>4, <1>5 DEF all

\* What the layers of a pass leave of the history, and the form of it.
Recorded == DOMAIN history = {"lasting", "silent", "tainted", "quiet"}

\* What exists belongs to the scope; what lasts, exists.
Existing ==
  /\ \A x \in world : Discoverable(x, scope)
  /\ history.lasting \subseteq Ids(world)

\* No layer is at work between passes.
Resting == ~running => \A l \in Layers : stage[l] = "done"

\* The processes and units of the host are read with their identity, and a cached
\* listing has an entity for everything that it listed.
Legible ==
  /\ \A t \in HostTypes : got[t] # None => \A x \in got[t] : Identified(x)
  /\ \A t \in KubeTypes : cache[t] # None => cache[t].ids \subseteq Ids(cache[t].items)

\* A layer that has ended has an entity for it, or an error, or an issue.
Reported(i) ==
  \/ i \in DOMAIN snapshot.entities
  \/ LayerOf(i) \in snapshot.errors
  \/ i[1] \in snapshot.issues

Told == \A i \in history.lasting \ history.silent : stage[LayerOf(i)] = "done" => Reported(i)

\* A list that the host or Docker returned has it ...
Held ==
  \A i \in history.lasting \ history.silent :
    LayerOf(i) \in {"host", "docker"} /\ i[1] \in HostTypes \cup DockerTypes
      => (got[i[1]] # None => i \in Ids(got[i[1]]))

\* ... and so has a list that the API returned or that was cached, unless its type
\* was skipped.
Turned ==
  stage["kubernetes"] = "lists" =>
    \A i \in history.lasting \ history.silent, n \in 1..next :
      LayerOf(i) = "kubernetes" /\ i[1] = KubeKinds[n] =>
        i \in Ids(got[i[1]]) \/ i[1] \in skipped

Accounted == Recorded /\ Existing /\ Resting /\ Legible /\ Told /\ Held /\ Turned

LEMMA AccountedInit == Init => Accounted
<1> SUFFICES ASSUME Init PROVE Accounted
  OBVIOUS
<1>1. PICK s \in Settings : scope = s.scope /\ world = s.things
  BY DEF Init
<1>2. \A x \in world : Discoverable(x, scope)
  BY <1>1, ThingsAssumption
<1>3. /\ history = [lasting |-> {}, silent |-> {}, tainted |-> FALSE, quiet |-> 0]
      /\ stage = [l \in Layers |-> "done"] /\ got = [t \in ListedTypes |-> None]
      /\ cache = [t \in KubeTypes |-> None]
  BY DEF Init
<1>4. Recorded /\ Existing /\ Told /\ Held /\ Turned
  BY <1>2, <1>3 DEF Recorded, Existing, Told, Held, Turned
<1>5. Resting /\ Legible
  BY <1>3 DEF Resting, Legible, ListedTypes
<1> QED BY <1>4, <1>5 DEF Accounted

-----------------------------------------------------------------------------
\* What a step does to what is lasting and what is silent.

\* A step tells only of failures: nothing that lasts is added, nothing silent is
\* forgotten.
Fewer ==
  /\ DOMAIN history' = DOMAIN history
  /\ history'.lasting \subseteq history.lasting /\ history.silent \subseteq history'.silent

LEMMA HurtIsFewer ==
  ASSUME Recorded, NEW silent, Hurt(silent)
  PROVE  Fewer /\ history'.lasting = history.lasting /\ history'.silent = history.silent \cup silent
BY DEF Recorded, Hurt, Fewer

LEMMA UnhurtIsFewer ==
  ASSUME Unhurt
  PROVE  Fewer /\ history' = history
BY DEF Unhurt, Fewer

\* What a pass leaves: the parts of the account that only the world can upset.
LEMMA PassKeeps ==
  ASSUME Recorded, Existing, PassFrame, Fewer
  PROVE  Recorded' /\ Existing'
<1>1. UNCHANGED <<scope, world, running>>
  BY DEF PassFrame
<1>2. Recorded'
  BY DEF Recorded, Fewer
<1>3. Existing'
  BY <1>1 DEF Existing, Fewer
<1> QED BY <1>2, <1>3

\* What lasts is something that exists, of a layer of the scope.
LEMMA LastingExists ==
  ASSUME Existing, NEW i \in history.lasting
  PROVE  \E x \in world : IdOf(x) = i /\ i[1] = x.type /\ Discoverable(x, scope)
<1>1. PICK x \in world : IdOf(x) = i
  BY DEF Existing, Ids
<1>2. i[1] = x.type
  BY <1>1 DEF IdOf
<1> QED BY <1>1, <1>2 DEF Existing

\* What a list of its layer and type returns has what lasts.
LEMMA ThingsHaveIt ==
  ASSUME Existing, NEW i \in history.lasting
  PROVE  i \in Ids(Things(LayerOf(i), i[1]))
<1>1. PICK x \in world : IdOf(x) = i /\ i[1] = x.type
  BY LastingExists
<1> QED BY <1>1 DEF Things, Ids

LEMMA ThingsIdentified ==
  ASSUME Existing, NEW l, NEW t
  PROVE  \A x \in Things(l, t) : Identified(x)
BY DEF Existing, Things, Discoverable, Identified

\* The layer and the type of what lasts go together.
LEMMA LayerAndType ==
  ASSUME Existing, NEW i \in history.lasting
  PROVE  /\ LayerOf(i) \in scope
         /\ LayerOf(i) = "host" => i[1] \in HostTypes \cup {"host"}
         /\ LayerOf(i) = "docker" => i[1] \in DockerTypes \/ i = IdOf(DockerRuntime)
         /\ LayerOf(i) = "lxd" => i[1] \in {"container", "container_runtime"}
         /\ LayerOf(i) = "kubernetes" => i[1] \in KubeTypes
<1>1. PICK x \in world : IdOf(x) = i /\ i[1] = x.type /\ Discoverable(x, scope)
  BY LastingExists
<1>2. LayerOf(i) \in scope
  BY <1>1 DEF Discoverable
<1>3. LayerOf(i) = "host" => i[1] \in HostTypes \cup {"host"}
  BY DEF LayerOf
<1>4. LayerOf(i) = "lxd" => i[1] \in {"container", "container_runtime"}
  BY DEF LayerOf
<1>5. LayerOf(i) = "kubernetes" => i[1] \in KubeTypes
  BY <1>1 DEF Discoverable
<1>6. LayerOf(i) = "docker" => i[1] \in DockerTypes \cup {"container_runtime"}
  BY DEF LayerOf, DockerTypes
<1>7. LayerOf(i) = "docker" /\ i[1] = "container_runtime" => i = IdOf(DockerRuntime)
  BY <1>1 DEF Discoverable, DockerRuntime, IdOf
<1> QED BY <1>2, <1>3, <1>4, <1>5, <1>6, <1>7

-----------------------------------------------------------------------------
\* What a step of a layer does to each part of the account.

LEMMA ALayerOfIt == \A i : LayerOf(i) \in Layers
BY DEF LayerOf, Layers

LEMMA RestingStep ==
  ASSUME Resting, PassFrame, NEW l \in Layers, stage[l] # "done"
  PROVE  Resting'
BY DEF Resting, PassFrame

\* A layer that ends must have found what lasts, or fail; one that does not end may
\* say nothing.
LEMMA FailsTold ==
  ASSUME Told, Staged, Filed, Fewer, NEW l \in Layers, Fails(l)
  PROVE  Told'
<1> SUFFICES ASSUME NEW i \in history'.lasting \ history'.silent, stage'[LayerOf(i)] = "done"
             PROVE  Reported(i)'
  BY DEF Told
<1>1. i \in history.lasting \ history.silent
  BY DEF Fewer
<1>2. /\ snapshot'.errors = snapshot.errors \cup {l}
      /\ snapshot'.entities = snapshot.entities /\ snapshot'.issues = snapshot.issues
  BY DEF Fails, Filed
<1>3. LayerOf(i) = l \/ stage[LayerOf(i)] = "done"
  BY ALayerOfIt DEF Fails, Staged
<1> QED BY <1>1, <1>2, <1>3 DEF Told, Reported

LEMMA GoesOnTold ==
  ASSUME Told, Staged, Fewer, snapshot' = snapshot, NEW l \in Layers, NEW to, to # "done",
         stage' = stage \/ stage' = [stage EXCEPT ![l] = to]
  PROVE  Told'
<1> SUFFICES ASSUME NEW i \in history'.lasting \ history'.silent, stage'[LayerOf(i)] = "done"
             PROVE  Reported(i)'
  BY DEF Told
<1>1. i \in history.lasting \ history.silent
  BY DEF Fewer
<1>2. stage[LayerOf(i)] = "done"
  BY ALayerOfIt DEF Staged
<1> QED BY <1>1, <1>2 DEF Told, Reported

\* Entities, errors and issues are only added.
LEMMA EndsTold ==
  ASSUME Told, Staged, Fewer, NEW l \in Layers, NEW things, stage' = [stage EXCEPT ![l] = "done"],
         snapshot'.entities = Added(snapshot.entities, things),
         snapshot'.errors = snapshot.errors, snapshot.issues \subseteq snapshot'.issues,
         \A i \in history'.lasting \ history'.silent :
           LayerOf(i) = l => i \in Ids(things) \/ i[1] \in snapshot'.issues
  PROVE  Told'
<1> SUFFICES ASSUME NEW i \in history'.lasting \ history'.silent, stage'[LayerOf(i)] = "done"
             PROVE  Reported(i)'
  BY DEF Told
<1>1. i \in history.lasting \ history.silent
  BY DEF Fewer
<1>2. DOMAIN snapshot'.entities = DOMAIN snapshot.entities \cup Ids(things)
  BY DEF Added
<1>3. CASE LayerOf(i) = l
  BY <1>2, <1>3 DEF Reported
<1>4. CASE LayerOf(i) # l
  <2>1. stage[LayerOf(i)] = "done"
    BY <1>4, ALayerOfIt DEF Staged
  <2>2. Reported(i)
    BY <1>1, <2>1 DEF Told
  <2> QED BY <1>2, <2>2 DEF Reported
<1> QED BY <1>3, <1>4

LEMMA CommitsTold ==
  ASSUME Told, Staged, Filed, Fewer, NEW l \in Layers, NEW things, Commits(l, things),
         \A i \in history'.lasting \ history'.silent : LayerOf(i) = l => i \in Ids(things)
  PROVE  Told'
<1>1. /\ snapshot'.entities = Added(snapshot.entities, things)
      /\ snapshot'.errors = snapshot.errors /\ snapshot'.issues = snapshot.issues
  BY DEF Commits, Filed
<1>2. stage' = [stage EXCEPT ![l] = "done"]
  BY DEF Commits
<1> QED BY <1>1, <1>2, EndsTold

\* A step that lists nothing leaves the lists as they are.
LEMMA SameLists ==
  ASSUME Legible, Held, Fewer, UNCHANGED <<got, cache>>
  PROVE  Legible' /\ Held'
BY DEF Legible, Held, Fewer

\* A list of the host or of Docker, or one of Kubernetes.
LEMMA ListHeld ==
  ASSUME Listed, Held, Fewer, NEW t \in ListedTypes, NEW items, got' = [got EXCEPT ![t] = items],
         \A i \in history'.lasting \ history'.silent :
           LayerOf(i) \in {"host", "docker"} /\ i[1] = t /\ t \in HostTypes \cup DockerTypes => i \in Ids(items)
  PROVE  Held'
<1> SUFFICES ASSUME NEW i \in history'.lasting \ history'.silent,
                    LayerOf(i) \in {"host", "docker"}, i[1] \in HostTypes \cup DockerTypes, got'[i[1]] # None
             PROVE  i \in Ids(got'[i[1]])
  BY DEF Held
<1>1. i \in history.lasting \ history.silent
  BY DEF Fewer
<1>2. i[1] \in DOMAIN got
  BY DEF Listed, ListedTypes
<1>3. CASE i[1] = t
  BY <1>2, <1>3
<1>4. CASE i[1] # t
  BY <1>1, <1>2, <1>4 DEF Held
<1> QED BY <1>3, <1>4

\* Kubernetes' turn is not disturbed by the other layers.
LEMMA OthersTurned ==
  ASSUME Turned, Staged, Listed, Fewer, UNCHANGED <<next, skipped>>, \A t \in KubeTypes : got'[t] = got[t],
         NEW l \in Layers, l # "kubernetes", NEW to, stage' = stage \/ stage' = [stage EXCEPT ![l] = to]
  PROVE  Turned'
<1> SUFFICES ASSUME stage'["kubernetes"] = "lists",
                    NEW i \in history'.lasting \ history'.silent, NEW n \in 1..next',
                    LayerOf(i) = "kubernetes", i[1] = KubeKinds[n]
             PROVE  i \in Ids(got'[i[1]]) \/ i[1] \in skipped'
  BY DEF Turned
<1>1. i \in history.lasting \ history.silent /\ n \in 1..next
  BY DEF Fewer
<1>2. stage["kubernetes"] = "lists"
  BY DEF Staged, Layers
<1>3. CASE i[1] \in KubeTypes
  BY <1>1, <1>2, <1>3 DEF Turned
<1>4. n \in DOMAIN KubeKinds
  BY <1>1, DiscoveryAssumption DEF Listed
<1> QED BY <1>3, <1>4 DEF KubeTypes

\* What a step that fails or reaches its lists needs, for every layer but Kubernetes.
LEMMA FailsOrReaches ==
  ASSUME Accounted, Books, NEW l \in Layers, l # "kubernetes", stage[l] # "done", PassFrame, Fewer,
         UNCHANGED <<got, next, cache, skipped>>, Fails(l) \/ Reaches(l, "lists")
  PROVE  Accounted'
<1> USE DEF Accounted, Books
<1>1. Recorded' /\ Existing' /\ Resting' /\ Legible' /\ Held'
  BY PassKeeps, RestingStep, SameLists
<1>2. CASE Fails(l)
  <2>1. Told'
    BY <1>2, FailsTold
  <2>2. Turned'
    BY <1>2, OthersTurned DEF Fails
  <2> QED BY <1>1, <2>1, <2>2
<1>3. CASE Reaches(l, "lists")
  <2>1. Told'
    BY <1>3, GoesOnTold DEF Reaches
  <2>2. Turned'
    BY <1>3, OthersTurned DEF Reaches
  <2> QED BY <1>1, <2>1, <2>2
<1> QED BY <1>2, <1>3

\* And what one that commits needs.
LEMMA CommitsAll ==
  ASSUME Accounted, Books, NEW l \in Layers, l # "kubernetes", stage[l] # "done", PassFrame, Fewer,
         UNCHANGED <<got, next, cache, skipped>>, NEW things, Commits(l, things),
         \A i \in history'.lasting \ history'.silent : LayerOf(i) = l => i \in Ids(things)
  PROVE  Accounted'
<1> USE DEF Accounted, Books
<1>1. Recorded' /\ Existing' /\ Resting' /\ Legible' /\ Held'
  BY PassKeeps, RestingStep, SameLists
<1>2. Told'
  BY CommitsTold
<1>3. Turned'
  BY OthersTurned DEF Commits
<1> QED BY <1>1, <1>2, <1>3

-----------------------------------------------------------------------------
\* The host.

LEMMA HostAccounted ==
  ASSUME Accounted, Books, HostInfo \/ (\E t \in HostTypes : HostList(t)) \/ HostCommit
  PROVE  Accounted'
<1> USE DEF Accounted, Books
<1> "host" \in Layers /\ HostTypes \subseteq ListedTypes
  BY DEF Layers, ListedTypes
<1>1. CASE HostInfo
  <2>1. Fewer
    BY <1>1, HurtIsFewer, UnhurtIsFewer DEF HostInfo
  <2>2. Fails("host") \/ Reaches("host", "lists")
    BY <1>1 DEF HostInfo
  <2>3. PassFrame /\ UNCHANGED <<got, next, cache, skipped>> /\ stage["host"] # "done"
    BY <1>1 DEF HostInfo
  <2> QED BY <2>1, <2>2, <2>3, FailsOrReaches
<1>2. ASSUME NEW t \in HostTypes, HostList(t)
      PROVE  Accounted'
  <2> DEFINE things == Things("host", t)
  <2>0. \A x \in things : Identified(x)
    BY ThingsIdentified
  <2> HIDE DEF things
  <2> DEFINE misfiled == Ids({x \in things : Bulleted(x)})
  <2>11. \A x \in things : Bulleted(x) => IdOf(x) \in misfiled
    BY DEF Ids
  <2> HIDE DEF misfiled
  <2>1. PICK items :
          /\ got' = [got EXCEPT ![t] = items]
          /\ \A x \in items : Identified(x)
          /\ Fewer
          /\ \A i \in Ids(things) : i \notin history'.silent => i \in Ids(items)
    <3>1. ASSUME NEW missed \in Losses(things),
                 got' = [got EXCEPT ![t] = {ServiceLine(x) : x \in things \ missed}],
                 IF missed = {}
                 THEN history' = [history EXCEPT !.silent = @ \cup misfiled]
                 ELSE Hurt(Ids(missed) \cup misfiled)
          PROVE  \E items :
                   /\ got' = [got EXCEPT ![t] = items]
                   /\ \A x \in items : Identified(x)
                   /\ Fewer
                   /\ \A i \in Ids(things) : i \notin history'.silent => i \in Ids(items)
      <4>1. PICK items : items = {ServiceLine(x) : x \in things \ missed}
        OBVIOUS
      <4>2. /\ \A x \in items : Identified(x)
            /\ \A i \in Ids(things) : i \in Ids(missed) \/ i \in misfiled \/ i \in Ids(items)
        BY <2>0, <2>11, <4>1, LinesHave
      <4>3. Fewer /\ Ids(missed) \cup misfiled \subseteq history'.silent
        <5>1. CASE missed = {}
          <6>1. Fewer /\ history'.silent = history.silent \cup misfiled
            BY <3>1, <5>1 DEF Recorded, Fewer
          <6>2. Ids(missed) = {}
            BY <5>1 DEF Ids
          <6> QED BY <6>1, <6>2
        <5>2. CASE missed # {}
          BY <3>1, <5>2, HurtIsFewer
        <5> QED BY <5>1, <5>2
      <4> QED BY <3>1, <4>1, <4>2, <4>3
    <3>2. ASSUME NEW s \in things,
                 got' = [got EXCEPT ![t] = {ServiceLine(x) : x \in things \ {s}}
                                           \cup {Undetailed(ServiceLine(s))}],
                 Hurt(misfiled)
          PROVE  \E items :
                   /\ got' = [got EXCEPT ![t] = items]
                   /\ \A x \in items : Identified(x)
                   /\ Fewer
                   /\ \A i \in Ids(things) : i \notin history'.silent => i \in Ids(items)
      <4>1. PICK others : others = {ServiceLine(x) : x \in things \ {s}}
        OBVIOUS
      <4>2. /\ \A x \in others : Identified(x)
            /\ \A i \in Ids(things) : i \in Ids({s}) \/ i \in misfiled \/ i \in Ids(others)
        BY <2>0, <2>11, <4>1, LinesHave
      <4>3. PICK line : line = Undetailed(ServiceLine(s))
        OBVIOUS
      <4>4. Identified(line) /\ (~Bulleted(s) => IdOf(line) = IdOf(s))
        BY <2>0, <4>3, LineIdentified, UnitKeepsIdentity
      <4>5. Fewer /\ misfiled \subseteq history'.silent
        BY <3>2, HurtIsFewer
      <4>6. ASSUME NEW i \in Ids(things), i \notin misfiled
            PROVE  i \in Ids(others \cup {line})
        <5>1. CASE i \in Ids({s})
          <6>1. i = IdOf(s)
            BY <5>1 DEF Ids
          <6>2. ~Bulleted(s)
            BY <2>11, <4>6, <6>1
          <6> QED BY <4>4, <6>1, <6>2 DEF Ids
        <5>2. CASE i \notin Ids({s})
          BY <4>2, <4>6, <5>2 DEF Ids
        <5> QED BY <5>1, <5>2
      <4>7. got' = [got EXCEPT ![t] = others \cup {line}]
        BY <3>2, <4>1, <4>3
      <4>8. \A x \in others \cup {line} : Identified(x)
        BY <4>2, <4>4
      <4>9. \A i \in Ids(things) : i \notin history'.silent => i \in Ids(others \cup {line})
        BY <4>5, <4>6
      <4> QED BY <4>5, <4>7, <4>8, <4>9
    <3>3. \/ \E missed \in Losses(things) :
               /\ got' = [got EXCEPT ![t] = {ServiceLine(x) : x \in things \ missed}]
               /\ IF missed = {}
                  THEN history' = [history EXCEPT !.silent = @ \cup misfiled]
                  ELSE Hurt(Ids(missed) \cup misfiled)
          \/ \E s \in things :
               /\ got' = [got EXCEPT ![t] = {ServiceLine(x) : x \in things \ {s}}
                                            \cup {Undetailed(ServiceLine(s))}]
               /\ Hurt(misfiled)
      BY <1>2 DEF HostList, things, misfiled
    <3> QED BY <3>1, <3>2, <3>3
  <2>2. Fewer
    BY <2>1
  <2>3. PassFrame /\ UNCHANGED <<stage, next, cache, skipped, snapshot>> /\ stage["host"] # "done"
    BY <1>2 DEF HostList
  <2>4. Recorded' /\ Existing' /\ Resting'
    BY <2>2, <2>3, PassKeeps, RestingStep
  <2>5. Told'
    BY <2>2, <2>3, GoesOnTold
  <2>6. \A i \in history'.lasting \ history'.silent :
          LayerOf(i) \in {"host", "docker"} /\ i[1] = t => i \in Ids(items)
    <3> SUFFICES ASSUME NEW i \in history'.lasting \ history'.silent,
                        LayerOf(i) \in {"host", "docker"}, i[1] = t
                 PROVE  i \in Ids(items)
      OBVIOUS
    <3>1. i \in history.lasting
      BY <2>2 DEF Fewer
    <3>2. LayerOf(i) = "host"
      BY <1>2 DEF LayerOf, HostTypes
    <3>3. i \in Ids(things)
      BY <3>1, <3>2, ThingsHaveIt DEF things
    <3> QED BY <2>1, <3>3
  <2>7. Held'
    BY <2>1, <2>2, <2>6, ListHeld
  <2>8. Legible'
    BY <1>2, <2>1, <2>3 DEF Legible, Listed
  <2>9. \A u \in KubeTypes : got'[u] = got[u]
    <3>1. \A u \in KubeTypes : u # t
      BY DiscoveryAssumption
    <3> QED BY <2>1, <3>1 DEF Listed, ListedTypes
  <2>10. Turned'
    BY <2>2, <2>3, <2>9, OthersTurned
  <2> QED BY <2>4, <2>5, <2>7, <2>8, <2>10
<1>3. CASE HostCommit
  <2>1. PICK readable \in BOOLEAN :
          Commits("host", {Parse(x, TRUE) : x \in Things("host", "host") \cup
                                               EnrichWithSockets(got["process"], got["service"], readable)})
    BY <1>3 DEF HostCommit
  <2>2. Fewer
    BY <1>3, HurtIsFewer, UnhurtIsFewer DEF HostCommit
  <2>3. PassFrame /\ UNCHANGED <<got, next, cache, skipped>> /\ stage["host"] # "done"
    BY <1>3 DEF HostCommit
  <2> DEFINE enriched == EnrichWithSockets(got["process"], got["service"], readable)
             read == Things("host", "host") \cup enriched
  <2>5. \A x \in got["process"] \cup got["service"] : Identified(x)
    BY <1>3 DEF HostCommit, Legible, HostTypes
  <2>6. (\A x \in enriched : Identified(x)) /\ Ids(enriched) = Ids(got["process"] \cup got["service"])
    BY <2>5, EnrichedIds
  <2> HIDE DEF enriched
  <2>7. \A x \in read : Identified(x)
    BY <2>6, ThingsIdentified
  <2>8. Ids(read) = Ids(Things("host", "host")) \cup Ids(got["process"]) \cup Ids(got["service"])
    BY <2>6 DEF Ids
  <2> HIDE DEF read
  <2>9. Ids({Parse(x, TRUE) : x \in read}) = Ids(read)
    BY <2>7, ParsedIds
  <2>10. \A i \in history'.lasting \ history'.silent : LayerOf(i) = "host" => i \in Ids(read)
    <3> SUFFICES ASSUME NEW i \in history'.lasting \ history'.silent, LayerOf(i) = "host"
                 PROVE  i \in Ids(read)
      OBVIOUS
    <3>1. i \in history.lasting \ history.silent
      BY <2>2 DEF Fewer
    <3>2. CASE i[1] = "host"
      BY <2>8, <3>1, <3>2, ThingsHaveIt
    <3>3. CASE i[1] \in HostTypes
      <4>1. got[i[1]] # None
        BY <1>3, <3>3 DEF HostCommit
      <4>2. i \in Ids(got[i[1]])
        BY <3>1, <3>3, <4>1 DEF Held
      <4> QED BY <2>8, <3>3, <4>2 DEF HostTypes
    <3> QED BY <3>1, <3>2, <3>3, LayerAndType
  <2>11. PICK things : things = {Parse(x, TRUE) : x \in read}
    OBVIOUS
  <2>12. Commits("host", things)
    BY <2>1, <2>11 DEF read, enriched
  <2>13. \A i \in history'.lasting \ history'.silent : LayerOf(i) = "host" => i \in Ids(things)
    BY <2>9, <2>10, <2>11
  <2> QED BY <2>2, <2>3, <2>12, <2>13, CommitsAll
<1> QED BY <1>1, <1>2, <1>3

-----------------------------------------------------------------------------
\* Docker.

LEMMA DockerAccounted ==
  ASSUME Accounted, Books, DockerStart \/ (\E t \in DockerTypes : DockerList(t)) \/ DockerCommit
  PROVE  Accounted'
<1> Recorded /\ "docker" \in Layers
  BY DEF Accounted, Layers
<1>1. CASE DockerStart
  <2>1. Fewer
    BY <1>1, HurtIsFewer, UnhurtIsFewer DEF DockerStart
  <2>2. Fails("docker") \/ Reaches("docker", "lists")
    BY <1>1 DEF DockerStart
  <2>3. PassFrame /\ UNCHANGED <<got, next, cache, skipped>> /\ stage["docker"] # "done"
    BY <1>1 DEF DockerStart
  <2> QED BY <2>1, <2>2, <2>3, FailsOrReaches
<1>2. ASSUME NEW t \in DockerTypes, DockerList(t)
      PROVE  Accounted'
  <2> USE DEF Accounted, Books
  <2> t \in ListedTypes
    BY DEF ListedTypes
  <2>1. PassFrame /\ UNCHANGED <<next, cache, skipped>> /\ stage["docker"] # "done"
    BY <1>2 DEF DockerList
  <2>2. CASE Fails("docker") /\ UNCHANGED got
    <3>1. Fewer
      BY <1>2, HurtIsFewer, UnhurtIsFewer DEF DockerList
    <3> QED BY <2>1, <2>2, <3>1, FailsOrReaches
  <2>3. CASE ~(Fails("docker") /\ UNCHANGED got)
    <3> DEFINE things == Things("docker", t)
    <3>0. \A x \in things : Identified(x)
      BY ThingsIdentified
    <3>1. PICK silent :
            /\ got' = [got EXCEPT ![t] = {Parse(x, TRUE) : x \in things \ silent}]
            /\ IF silent = {} THEN Unhurt ELSE Hurt(Ids(silent))
            /\ UNCHANGED <<stage, snapshot>>
      BY <1>2, <2>3 DEF DockerList
    <3>2. Fewer
      BY <3>1, HurtIsFewer, UnhurtIsFewer
    <3>3. Ids(silent) \subseteq history'.silent
      BY <3>1, HurtIsFewer DEF Ids
    <3>4. PICK items : items = {Parse(x, TRUE) : x \in things \ silent}
      OBVIOUS
    <3>5. Ids(items) = Ids(things \ silent)
      BY <3>0, <3>4, ParsedIds
    <3>6. got' = [got EXCEPT ![t] = items]
      BY <3>1, <3>4
    <3>7. \A i \in history'.lasting \ history'.silent :
            LayerOf(i) \in {"host", "docker"} /\ i[1] = t => i \in Ids(items)
      <4> SUFFICES ASSUME NEW i \in history'.lasting \ history'.silent,
                          LayerOf(i) \in {"host", "docker"}, i[1] = t
                   PROVE  i \in Ids(items)
        OBVIOUS
      <4>1. i \in history.lasting
        BY <3>2 DEF Fewer
      <4>2. LayerOf(i) = "docker"
        BY DEF LayerOf, HostTypes, DockerTypes
      <4>3. i \in Ids(things)
        BY <4>1, <4>2, ThingsHaveIt
      <4> QED BY <3>3, <3>5, <4>3 DEF Ids
    <3>8. Recorded' /\ Existing' /\ Resting'
      BY <2>1, <3>2, PassKeeps, RestingStep
    <3>9. Told'
      BY <3>1, <3>2, GoesOnTold
    <3>10. Held'
      BY <3>2, <3>6, <3>7, ListHeld
    <3>11. t \notin KubeTypes /\ t \notin HostTypes
      BY DiscoveryAssumption DEF HostTypes, DockerTypes
    <3>12. \A u \in KubeTypes \cup HostTypes : got'[u] = got[u]
      BY <3>6, <3>11 DEF Listed, ListedTypes
    <3>13. Legible'
      BY <2>1, <3>12 DEF Legible
    <3>14. Turned'
      BY <2>1, <3>1, <3>2, <3>12, OthersTurned
    <3> QED BY <3>8, <3>9, <3>10, <3>13, <3>14
  <2> QED BY <2>2, <2>3
<1>3. CASE DockerCommit
  <2>1. PICK things : things = {DockerRuntime} \cup UNION {got[t] : t \in DockerTypes}
    OBVIOUS
  <2>2. Commits("docker", things)
    BY <1>3, <2>1 DEF DockerCommit
  <2>3. Fewer
    BY <1>3, UnhurtIsFewer DEF DockerCommit
  <2>4. PassFrame /\ UNCHANGED <<got, next, cache, skipped>> /\ stage["docker"] # "done"
    BY <1>3 DEF DockerCommit
  <2>5. ASSUME NEW i \in history'.lasting \ history'.silent, LayerOf(i) = "docker"
        PROVE  i \in Ids(things)
    <3>1. i \in history.lasting \ history.silent
      BY <2>3 DEF Fewer
    <3>2. CASE i = IdOf(DockerRuntime)
      BY <2>1, <3>2 DEF Ids
    <3>3. CASE i[1] \in DockerTypes
      <4>1. got[i[1]] # None
        BY <1>3, <3>3 DEF DockerCommit
      <4>2. i \in Ids(got[i[1]])
        BY <2>5, <3>1, <3>3, <4>1 DEF Accounted, Held
      <4> QED BY <2>1, <3>3, <4>2 DEF Ids
    <3> QED BY <2>5, <3>1, <3>2, <3>3, LayerAndType DEF Accounted
  <2> QED BY <2>2, <2>3, <2>4, <2>5, CommitsAll
<1> QED BY <1>1, <1>2, <1>3

-----------------------------------------------------------------------------
\* LXD.

LEMMA LXDAccounted ==
  ASSUME Accounted, Books, LXDStart \/ LXDCommit
  PROVE  Accounted'
<1> Recorded /\ Existing /\ "lxd" \in Layers
  BY DEF Accounted, Layers
<1>1. CASE LXDStart
  <2>1. Fewer
    BY <1>1, HurtIsFewer, UnhurtIsFewer DEF LXDStart
  <2>2. Fails("lxd") \/ Reaches("lxd", "lists")
    BY <1>1 DEF LXDStart
  <2>3. PassFrame /\ UNCHANGED <<got, next, cache, skipped>> /\ stage["lxd"] # "done"
    BY <1>1 DEF LXDStart
  <2> QED BY <2>1, <2>2, <2>3, FailsOrReaches
<1>2. CASE LXDCommit
  <2>1. Fewer
    BY <1>2, HurtIsFewer, UnhurtIsFewer DEF LXDCommit
  <2>2. PassFrame /\ UNCHANGED <<got, next, cache, skipped>> /\ stage["lxd"] # "done"
    BY <1>2 DEF LXDCommit
  <2>3. CASE Fails("lxd")
    BY <2>1, <2>2, <2>3, FailsOrReaches
  <2>4. CASE ~Fails("lxd")
    <3> DEFINE instances == Engine("lxd") \cup Things("lxd", "container")
    <3>1. PICK things : things = {With(x, "health", "unknown") : x \in instances}
      OBVIOUS
    <3>2. Commits("lxd", things)
      BY <1>2, <2>4, <3>1 DEF LXDCommit
    <3>3. \A x \in instances : Identified(x)
      BY ThingsIdentified DEF Engine
    <3>4. \A x \in instances : IdOf(With(x, "health", "unknown")) = IdOf(x)
      BY <3>3, WithKeepsIdentity
    <3>5. Ids(things) = Ids(instances)
      BY <3>1, <3>4 DEF Ids
    <3>6. ASSUME NEW i \in history'.lasting \ history'.silent, LayerOf(i) = "lxd"
          PROVE  i \in Ids(things)
      <4>1. i \in history.lasting
        BY <2>1 DEF Fewer
      <4>2. i[1] \in {"container", "container_runtime"}
        BY <3>6, <4>1, LayerAndType
      <4>3. i \in Ids(Things("lxd", i[1]))
        BY <3>6, <4>1, ThingsHaveIt
      <4>4. i \in Ids(instances)
        BY <4>2, <4>3 DEF Ids, Engine
      <4> QED BY <3>5, <4>4
    <3> QED BY <2>1, <2>2, <3>2, <3>6, CommitsAll
  <2> QED BY <2>3, <2>4
<1> QED BY <1>1, <1>2

-----------------------------------------------------------------------------
\* Kubernetes.

\* A step of Kubernetes that does not end the layer leaves what other layers said.
LEMMA KubeStartAccounted ==
  ASSUME Accounted, Books, KubeStart
  PROVE  Accounted'
<1> USE DEF Accounted, Books
<1> "kubernetes" \in Layers
  BY DEF Layers
<1>1. Fewer
  BY HurtIsFewer, UnhurtIsFewer DEF KubeStart
<1>2. PassFrame /\ UNCHANGED <<got, cache>> /\ stage["kubernetes"] # "done" /\ next' = 0
  BY DEF KubeStart
<1>3. Recorded' /\ Existing' /\ Resting' /\ Legible' /\ Held'
  BY <1>1, <1>2, PassKeeps, RestingStep, SameLists
<1>4. Turned'
  BY <1>2 DEF Turned
<1>5. CASE Fails("kubernetes")
  BY <1>1, <1>3, <1>4, <1>5, FailsTold
<1>6. CASE Reaches("kubernetes", "lists")
  <2>1. Told'
    BY <1>1, <1>6, GoesOnTold DEF Reaches
  <2> QED BY <1>3, <1>4, <2>1
<1> QED BY <1>5, <1>6 DEF KubeStart

\* After the turn of a type its list has what lasts, or it was skipped, or the
\* layer will fail.
LEMMA TurnTaken ==
  ASSUME Turned, Listed, Fewer, NEW t \in KubeTypes, Turn(t), NEW items,
         got' = [got EXCEPT ![t] = items], skipped \subseteq skipped',
         stage'["kubernetes"] = "lists" => stage["kubernetes"] = "lists",
         stage'["kubernetes"] = "lists" =>
           \A i \in history'.lasting \ history'.silent :
             LayerOf(i) = "kubernetes" /\ i[1] = t => i \in Ids(items) \/ t \in skipped'
  PROVE  Turned'
<1> SUFFICES ASSUME stage'["kubernetes"] = "lists",
                    NEW i \in history'.lasting \ history'.silent, NEW n \in 1..next',
                    LayerOf(i) = "kubernetes", i[1] = KubeKinds[n]
             PROVE  i \in Ids(got'[i[1]]) \/ i[1] \in skipped'
  BY DEF Turned
<1>1. i \in history.lasting \ history.silent
  BY DEF Fewer
<1>2. next \in Nat /\ next' = next + 1 /\ KubeKinds[next + 1] = t
  BY DiscoveryAssumption DEF Turn, Listed
<1>3. t \in DOMAIN got
  BY DEF Listed, ListedTypes
<1>4. CASE i[1] = t
  BY <1>3, <1>4
<1>5. CASE i[1] # t
  <2>1. n \in 1..next
    BY <1>2, <1>5
  <2>2. i \in Ids(got[i[1]]) \/ i[1] \in skipped
    BY <1>1, <2>1 DEF Turned
  <2>3. got'[i[1]] = got[i[1]]
    <3>1. n <= Len(KubeKinds)
      BY <2>1, DiscoveryAssumption DEF Listed
    <3>2. n \in DOMAIN KubeKinds
      BY <3>1, DiscoveryAssumption
    <3>3. i[1] \in DOMAIN got
      BY <3>2 DEF Listed, ListedTypes, KubeTypes
    <3> QED BY <1>5, <3>3
  <2> QED BY <2>2, <2>3
<1> QED BY <1>4, <1>5

\* Of a turn, all but the cache and Turned.
LEMMA TurnKeeps ==
  ASSUME Accounted, Books, Fewer, NEW t \in KubeTypes, Turn(t), NEW items,
         got' = [got EXCEPT ![t] = items], snapshot' = snapshot,
         stage' = stage \/ stage' = [stage EXCEPT !["kubernetes"] = "broken"]
  PROVE  /\ Recorded' /\ Existing' /\ Resting' /\ Told' /\ Held'
         /\ \A u \in HostTypes : got'[u] = got[u]
<1> USE DEF Accounted, Books
<1> "kubernetes" \in Layers /\ t \in ListedTypes
  BY DEF Layers, ListedTypes
<1>1. PassFrame /\ stage["kubernetes"] # "done"
  BY DEF Turn
<1>2. Recorded' /\ Existing' /\ Resting'
  BY <1>1, PassKeeps, RestingStep
<1>3. Told'
  BY GoesOnTold
<1>4. t \notin HostTypes \cup DockerTypes
  BY DiscoveryAssumption
<1>5. Held'
  BY <1>4, ListHeld
<1>6. \A u \in HostTypes : got'[u] = got[u]
  BY <1>4 DEF Listed, ListedTypes
<1> QED BY <1>2, <1>3, <1>5, <1>6

LEMMA KubeTurnAccounted ==
  ASSUME Accounted, Books, NEW t \in KubeTypes,
         KubeHit(t) \/ KubeList(t) \/ KubeForbidden(t) \/ KubeBreaks(t)
  PROVE  Accounted'
<1> USE DEF Accounted, Books
<1> "kubernetes" \in Layers /\ t \in ListedTypes
  BY DEF Layers, ListedTypes
<1>1. CASE KubeHit(t)
  <2>1. Turn(t) /\ UNCHANGED <<stage, cache, skipped, snapshot>> /\ cache[t] # None
    BY <1>1 DEF KubeHit
  <2>2. PICK items : items = cache[t].items
    OBVIOUS
  <2>3. got' = [got EXCEPT ![t] = items]
    BY <1>1, <2>2 DEF KubeHit
  <2>4. /\ DOMAIN history' = DOMAIN history /\ history'.silent = history.silent
        /\ history'.lasting = {i \in history.lasting : i[1] = t => i \in cache[t].ids}
    BY <1>1 DEF KubeHit, Recorded
  <2>5. Fewer
    BY <2>4 DEF Fewer
  <2>6. \A i \in history'.lasting : i[1] = t => i \in Ids(items)
    BY <2>1, <2>2, <2>4 DEF Legible
  <2>7. Turned'
    BY <2>1, <2>3, <2>5, <2>6, TurnTaken
  <2>8. /\ Recorded' /\ Existing' /\ Resting' /\ Told' /\ Held'
        /\ \A u \in HostTypes : got'[u] = got[u]
    BY <2>1, <2>3, <2>5, TurnKeeps
  <2>9. Legible'
    BY <2>1, <2>8 DEF Legible
  <2> QED BY <2>7, <2>8, <2>9
<1>2. CASE KubeList(t)
  <2> DEFINE things == Things("kubernetes", t)
  <2>0. \A x \in things : Identified(x)
    BY ThingsIdentified
  <2>1. PICK unanswered \in IF t = "k8s_service" THEN SUBSET things ELSE {{}} :
          LET listed == {Parse(x, x \notin unanswered) : x \in things} IN
          /\ got' = [got EXCEPT ![t] = listed]
          /\ cache' = IF t = "ingress" THEN cache
                      ELSE [cache EXCEPT ![t] = [items |-> listed, ids |-> Ids(things)]]
          /\ IF unanswered = {} THEN Unhurt ELSE Hurt({})
    BY <1>2 DEF KubeList
  <2>2. Turn(t) /\ UNCHANGED <<stage, skipped, snapshot>>
    BY <1>2 DEF KubeList
  <2>3. PICK items : items = {Parse(x, x \notin unanswered) : x \in things}
    OBVIOUS
  <2>4. Ids(items) = Ids(things)
    BY <2>0, <2>3, EachParsedIds
  <2>5. Fewer
    BY <2>1, HurtIsFewer, UnhurtIsFewer
  <2>6. got' = [got EXCEPT ![t] = items]
    BY <2>1, <2>3
  <2>7. \A i \in history'.lasting : LayerOf(i) = "kubernetes" /\ i[1] = t => i \in Ids(items)
    BY <2>4, <2>5, ThingsHaveIt DEF Fewer
  <2>8. Turned'
    BY <2>2, <2>5, <2>6, <2>7, TurnTaken
  <2>9. /\ Recorded' /\ Existing' /\ Resting' /\ Told' /\ Held'
        /\ \A u \in HostTypes : got'[u] = got[u]
    BY <2>2, <2>5, <2>6, TurnKeeps
  <2>10. Legible'
    <3>1. PICK entry : entry = [items |-> items, ids |-> Ids(things)]
      OBVIOUS
    <3>2. cache' = cache \/ cache' = [cache EXCEPT ![t] = entry]
      BY <2>1, <2>3, <3>1
    <3>3. entry.ids \subseteq Ids(entry.items)
      BY <2>4, <3>1
    <3>4. \A u \in KubeTypes : cache'[u] = cache[u] \/ cache'[u] = entry
      BY <3>2 DEF Listed
    <3> QED BY <2>9, <3>3, <3>4 DEF Legible
  <2> QED BY <2>8, <2>9, <2>10
<1>3. CASE KubeForbidden(t) \/ KubeBreaks(t)
  <2>1. Fewer
    BY <1>3, HurtIsFewer, UnhurtIsFewer DEF KubeForbidden, KubeBreaks
  <2>2. /\ Turn(t) /\ snapshot' = snapshot /\ cache' = cache /\ skipped \subseteq skipped'
        /\ stage' = stage \/ stage' = [stage EXCEPT !["kubernetes"] = "broken"]
    BY <1>3 DEF KubeForbidden, KubeBreaks
  <2>3. PICK items : got' = [got EXCEPT ![t] = items]
    BY <1>3 DEF KubeForbidden, KubeBreaks
  <2>4. stage'["kubernetes"] = "lists" => stage["kubernetes"] = "lists" /\ t \in skipped'
    BY <1>3 DEF KubeForbidden, KubeBreaks, Staged
  <2>5. Turned'
    BY <2>1, <2>2, <2>3, <2>4, TurnTaken
  <2>6. /\ Recorded' /\ Existing' /\ Resting' /\ Told' /\ Held'
        /\ \A u \in HostTypes : got'[u] = got[u]
    BY <2>1, <2>2, <2>3, TurnKeeps
  <2>7. Legible'
    BY <2>2, <2>6 DEF Legible
  <2> QED BY <2>5, <2>6, <2>7
<1> QED BY <1>1, <1>2, <1>3

\* When every type has had its turn, what lasts was listed, or its type skipped.
LEMMA KubeCommitAccounted ==
  ASSUME Accounted, Books, KubeCommit
  PROVE  Accounted'
<1> USE DEF Accounted, Books
<1> "kubernetes" \in Layers
  BY DEF Layers
<1>1. Fewer /\ history' = history
  BY UnhurtIsFewer DEF KubeCommit
<1>2. PassFrame /\ UNCHANGED <<got, next, cache, skipped>> /\ stage["kubernetes"] # "done"
  BY DEF KubeCommit
<1>3. Recorded' /\ Existing' /\ Resting' /\ Legible' /\ Held'
  BY <1>1, <1>2, PassKeeps, RestingStep, SameLists
<1>4. Turned'
  BY DEF KubeCommit, Fails, Staged, Turned
<1>5. CASE Fails("kubernetes")
  BY <1>1, <1>3, <1>4, <1>5, FailsTold
<1>6. CASE ~Fails("kubernetes")
  <2>1. PICK things : things = {ClusterEntity} \cup UNION {got[t] : t \in KubeTypes}
    OBVIOUS
  <2>2. /\ stage["kubernetes"] = "lists" /\ next = Len(KubeKinds)
        /\ stage' = [stage EXCEPT !["kubernetes"] = "done"]
        /\ snapshot' = [snapshot EXCEPT !.entities = Added(@, things), !.issues = @ \cup skipped]
    BY <1>6, <2>1 DEF KubeCommit
  <2>3. /\ snapshot'.entities = Added(snapshot.entities, things)
        /\ snapshot'.errors = snapshot.errors /\ snapshot'.issues = snapshot.issues \cup skipped
    BY <2>2 DEF Filed
  <2>4. ASSUME NEW i \in history'.lasting \ history'.silent, LayerOf(i) = "kubernetes"
        PROVE  i \in Ids(things) \/ i[1] \in snapshot'.issues
    <3>1. i[1] \in KubeTypes
      BY <1>1, <2>4, LayerAndType
    <3>2. PICK n \in DOMAIN KubeKinds : i[1] = KubeKinds[n]
      BY <3>1 DEF KubeTypes
    <3>3. n \in 1..next
      BY <2>2, DiscoveryAssumption
    <3>4. i \in Ids(got[i[1]]) \/ i[1] \in skipped
      BY <1>1, <2>2, <2>4, <3>2, <3>3 DEF Turned
    <3>5. Ids(got[i[1]]) \subseteq Ids(things)
      BY <2>1, <3>1 DEF Ids
    <3> QED BY <2>3, <3>4, <3>5
  <2>5. Told'
    BY <1>1, <2>2, <2>3, <2>4, EndsTold
  <2> QED BY <1>3, <1>4, <2>5
<1> QED BY <1>5, <1>6

-----------------------------------------------------------------------------
\* Passes begin and end, and what exists changes.

LEMMA BeginPassAccounted ==
  ASSUME Accounted, Books, BeginPass
  PROVE  Accounted'
<1> USE DEF Accounted, Books
<1>1. /\ running' = TRUE /\ UNCHANGED <<scope, world, cache>>
      /\ stage' = [l \in Layers |-> IF l \in scope THEN "start" ELSE "done"]
      /\ got' = [t \in ListedTypes |-> None]
  BY DEF BeginPass
<1>2. DOMAIN history' = DOMAIN history /\ history'.lasting = Ids(world)
  BY DEF BeginPass, Recorded
<1>3. Recorded' /\ Existing' /\ Resting'
  BY <1>1, <1>2 DEF Recorded, Existing, Resting
<1>4. Legible' /\ Held'
  BY <1>1 DEF Legible, Held, ListedTypes
<1>5. Told'
  <2>1. \A i \in Ids(world) : LayerOf(i) \in scope
    BY DEF Existing, Discoverable, Ids
  <2>2. \A i \in Ids(world) : stage'[LayerOf(i)] = "start"
    BY <1>1, <2>1, ALayerOfIt
  <2> QED BY <1>2, <2>2 DEF Told
<1>6. Turned'
  BY <1>1 DEF Turned, Layers
<1> QED BY <1>3, <1>4, <1>5, <1>6

LEMMA WorldAccounted ==
  ASSUME Accounted, Books, WorldChanges
  PROVE  Accounted'
<1> USE DEF Accounted, Books
<1>1. UNCHANGED <<scope, running, layerVars>>
  BY DEF WorldChanges
<1>2. PICK c \in Changes :
        /\ \A x \in c.add : LayerOf(IdOf(x)) \in scope
        /\ world' = (world \ c.drop) \cup c.add
        /\ history' = [history EXCEPT !.tainted = TRUE, !.quiet = 0,
                         !.lasting = @ \cap Ids((world \ c.drop) \cup c.add)]
  BY DEF WorldChanges
<1>3. /\ DOMAIN history' = DOMAIN history /\ history'.silent = history.silent
      /\ history'.lasting = history.lasting \cap Ids(world')
  BY <1>2 DEF Recorded
<1>4. Fewer
  BY <1>3 DEF Fewer
<1>5. Existing'
  <2>1. \A x \in c.add : Discoverable(x, scope)
    BY <1>2, ThingsAssumption DEF Discoverable
  <2> QED BY <1>1, <1>2, <1>3, <2>1 DEF Existing
<1>6. Recorded' /\ Resting'
  BY <1>1, <1>3 DEF Recorded, Resting, layerVars
<1>7. Legible' /\ Held'
  BY <1>1, <1>4, SameLists DEF layerVars
<1>8. Told'
  BY <1>1, <1>4 DEF Told, Fewer, Reported, layerVars
<1>9. Turned'
  BY <1>1, <1>4 DEF Turned, Fewer, layerVars
<1> QED BY <1>5, <1>6, <1>7, <1>8, <1>9

LEMMA EndPassAccounted ==
  ASSUME Accounted, Books, EndPass \/ UNCHANGED vars
  PROVE  Accounted'
<1> USE DEF Accounted, Books
<1>1. UNCHANGED <<scope, world, layerVars>>
  BY DEF EndPass, vars
<1>2. /\ DOMAIN history' = DOMAIN history
      /\ history'.lasting = history.lasting /\ history'.silent = history.silent
  BY DEF EndPass, vars, Recorded
<1>3. Resting'
  BY <1>1 DEF EndPass, vars, layerVars, Resting
<1>4. Recorded' /\ Existing'
  BY <1>1, <1>2 DEF Recorded, Existing
<1>5. Legible' /\ Held' /\ Told' /\ Turned'
  BY <1>1, <1>2 DEF Legible, Held, Told, Turned, Reported, layerVars
<1> QED BY <1>3, <1>4, <1>5

LEMMA AccountedStep == Accounted /\ Books /\ [Next]_vars => Accounted'
BY HostAccounted, DockerAccounted, LXDAccounted, KubeStartAccounted, KubeTurnAccounted,
   KubeCommitAccounted, BeginPassAccounted, WorldAccounted, EndPassAccounted DEF Next, AllPassesDone

\* Between two passes, whatever existed throughout the last one is in its snapshot,
\* or the pass has an error for its layer or an issue for its type; but for what a
\* failing call lost in silence or a cached listing was too old for.
THEOREM NothingIsMissedInSilence == Spec => []MissingIsReported
<1>1. Accounted => MissingIsReported
  BY ALayerOfIt DEF Accounted, Resting, Told, Reported, MissingIsReported
<1> QED BY BooksInit, BooksStep, AccountedInit, AccountedStep, <1>1, PTL DEF Spec

-----------------------------------------------------------------------------
\* A second look at what has not changed draws the same canvas.

\* Nothing is left to choose where every key has one candidate.
LEMMA NothingToChoose ==
  ASSUME NEW f, \A x \in DOMAIN f : \A y, z \in f[x] : y = z, NEW g \in Choices(f), NEW h \in Choices(f)
  PROVE  g = h
<1> DEFINE open == {x \in DOMAIN f : Cardinality(f[x]) > 1}
<1>1. ASSUME NEW x \in open
      PROVE  FALSE
  <2>1. CASE f[x] = {}
    BY <1>1, <2>1, FS_EmptySet
  <2>2. CASE f[x] # {}
    <3>1. PICK y \in f[x] : TRUE
      BY <2>2
    <3>2. f[x] = {y}
      BY <1>1, <3>1
    <3> QED BY <1>1, <3>2, FS_Singleton
  <2> QED BY <2>1, <2>2
<1>2. open = {}
  BY <1>1
<1>3. PICK all : all = UNION {f[x] : x \in open}
  OBVIOUS
<1>4. g \in [open -> all] /\ h \in [open -> all]
  BY <1>3 DEF Choices
<1> HIDE DEF open
<1>5. g = [x \in {} |-> g[x]] /\ h = [x \in {} |-> h[x]]
  BY <1>2, <1>4
<1>6. [x \in {} |-> g[x]] = [x \in {} |-> h[x]]
  OBVIOUS
<1> QED BY <1>5, <1>6

\* A pass over entities that contest nothing has one outcome.
LEMMA OnePick ==
  ASSUME NEW ents, ~Contested(ents), NEW p \in Picks(ents), NEW q \in Picks(ents)
  PROVE  p = q
<1> DEFINE Common(i, j) == IF i = j THEN {} ELSE ents[i].ports \cap ents[j].ports
           Served == UNION {ents[s].ports : s \in Services(ents)}
<1>0. /\ \A i, j \in Runtimes(ents) : i = j
      /\ \A i, j \in Services(ents) : Common(i, j) = {}
      /\ \A i, j \in FreeProcesses(ents) : Common(i, j) \subseteq Served
      /\ \A i, j \in NamedImages(ents) :
           NormalizeImageName(ImageName(ents[i])) = NormalizeImageName(ImageName(ents[j])) => i = j
  BY Zenon DEF Contested
<1>1. p.runtime = q.runtime
  BY <1>0 DEF Picks
<1>2. ASSUME NEW port, NEW i \in PortClaimants(ents, port), NEW j \in PortClaimants(ents, port)
      PROVE  i = j
  <2>1. CASE i \in Services(ents) /\ j \in Services(ents)
    <3>1. port \in ents[i].ports /\ port \in ents[j].ports
      BY <1>2 DEF PortClaimants
    <3> QED BY <1>0, <2>1, <3>1
  <2>2. CASE {s \in Services(ents) : port \in ents[s].ports} = {}
    <3>1. /\ i \in FreeProcesses(ents) /\ j \in FreeProcesses(ents)
          /\ port \in ents[i].ports /\ port \in ents[j].ports
      BY <1>2, <2>2 DEF PortClaimants
    <3>2. port \notin Served
      BY <2>2
    <3> QED BY <1>0, <3>1, <3>2
  <2> QED BY <1>2, <2>1, <2>2 DEF PortClaimants
<1>3. p.owner = q.owner
  <2>1. \A port \in DOMAIN PortOwners(ents) : PortOwners(ents)[port] = PortClaimants(ents, port)
    BY DEF PortOwners
  <2>2. \A port \in DOMAIN PortOwners(ents) : \A i, j \in PortOwners(ents)[port] : i = j
    BY <1>2, <2>1
  <2>3. p.owner \in Choices(PortOwners(ents)) /\ q.owner \in Choices(PortOwners(ents))
    BY DEF Picks
  <2> QED BY <2>2, <2>3, NothingToChoose
<1>4. p.exact = q.exact
  <2>1. \A k \in DOMAIN ImageIndex(ents) : \A i, j \in ImageIndex(ents)[k] : i = j
    BY <1>0 DEF ImageIndex
  <2>2. p.exact \in Choices(ImageIndex(ents)) /\ q.exact \in Choices(ImageIndex(ents))
    BY DEF Picks
  <2> QED BY <2>1, <2>2, NothingToChoose
<1>5. p.like = q.like
  <2>1. \A k \in DOMAIN ImageIndexNorm(ents) : \A i, j \in ImageIndexNorm(ents)[k] : i = j
    BY <1>0 DEF ImageIndexNorm
  <2>2. p.like \in Choices(ImageIndexNorm(ents)) /\ q.like \in Choices(ImageIndexNorm(ents))
    BY DEF Picks
  <2> QED BY <2>1, <2>2, NothingToChoose
<1> DEFINE All == [runtime : IF Runtimes(ents) = {} THEN {None} ELSE Runtimes(ents),
                   owner   : Choices(PortOwners(ents)),
                   exact   : Choices(ImageIndex(ents)),
                   like    : Choices(ImageIndexNorm(ents))]
<1>6. p \in All /\ q \in All
  BY DEF Picks
<1> QED BY <1>1, <1>3, <1>4, <1>5, <1>6

-----------------------------------------------------------------------------
\* What a pass over an unchanged world, in which no call fails, ends with.

Ready(l) ==
  CASE l = "docker" -> Engine("docker") # {}
    [] l = "lxd" -> /\ IF lxdClient = None THEN Engine("lxd") # {} ELSE lxdClient
                    /\ Engine("lxd") # {}
    [] l = "kubernetes" -> ~({"pod", "deployment"} \subseteq forbidden)
    [] OTHER -> TRUE

\* The lists that its layers ask for, and the entities that they make of them.
Listing(t) ==
  IF t \in HostTypes THEN {ServiceLine(x) : x \in Things("host", t)}
  ELSE IF t \in DockerTypes THEN {Parse(x, TRUE) : x \in Things("docker", t)}
  ELSE IF t \in forbidden THEN {} ELSE {Parse(x, TRUE) : x \in Things("kubernetes", t)}

Lists(l) ==
  CASE l = "host" -> {Parse(x, TRUE) : x \in Things("host", "host") \cup
                        EnrichWithSockets(Listing("process"), Listing("service"), TRUE)}
    [] l = "docker" -> {DockerRuntime} \cup UNION {Listing(t) : t \in DockerTypes}
    [] l = "lxd" -> {With(x, "health", "unknown") : x \in Engine("lxd") \cup Things("lxd", "container")}
    [] OTHER -> {ClusterEntity} \cup UNION {Listing(t) : t \in KubeTypes}

Finds(l) == IF Ready(l) THEN Lists(l) ELSE {}

EntitiesOf(layers) ==
  [i \in UNION {Ids(Finds(l)) : l \in layers} |-> CHOOSE x \in Finds(LayerOf(i)) : IdOf(x) = i]

Ended == {l \in scope : stage[l] = "done"}
Asked == {KubeKinds[n] : n \in 1..next}

\* So far the pass has what it would end with: the entities of the layers that have
\* ended; layers at work that are ready; the lists of the host and of Docker; and
\* the list of each type that had its turn, but for those that were skipped.
Found == snapshot.entities = EntitiesOf(Ended)

AtWork ==
  /\ stage["kubernetes"] # "broken"
  /\ \A l \in {"docker", "lxd"} : stage[l] = "lists" => Ready(l)

Read == \A t \in HostTypes \cup DockerTypes : got[t] # None => got[t] = Listing(t)

Heard ==
  stage["kubernetes"] = "lists" =>
    skipped = Asked \cap forbidden /\ \A t \in Asked : got[t] = Listing(t)

Course == Found /\ AtWork /\ Read /\ Heard
OnCourse == running /\ ~history.tainted => Course

\* Only what may be listed is cached.
Allowed == \A t \in KubeTypes : cache[t] # None => t \notin forbidden

Drawn(ents, g) ==
  \E pick \in Picks(ents) : g = Format(CalculateHealthForAll(ents), BuildRelationships(ents, pick))

\* The canvas of a pass that was not disturbed is that of what it ends with.
Still == history.quiet > 0 => Drawn(EntitiesOf(scope), graph)

Steady == OnCourse /\ Allowed /\ Still

-----------------------------------------------------------------------------
\* Each entity is found by the layer of its ID.

LEMMA HostListing ==
  ASSUME Existing, NEW t \in HostTypes, NEW x \in Listing(t)
  PROVE  Identified(x) /\ LayerOf(IdOf(x)) = "host"
<1>1. PICK y \in Things("host", t) : x = ServiceLine(y)
  BY DEF Listing
<1>2. Identified(y) /\ y.type = t
  BY <1>1, ThingsIdentified DEF Things
<1>3. Identified(x) /\ x.type = t
  BY <1>1, <1>2, LineIdentified
<1> QED BY <1>3 DEF LayerOf, IdOf, HostTypes

LEMMA ListingOfLayer ==
  ASSUME Existing, NEW t \in ListedTypes, NEW x \in Listing(t)
  PROVE  LayerOf(IdOf(x)) = IF t \in HostTypes THEN "host" ELSE IF t \in DockerTypes THEN "docker" ELSE "kubernetes"
<1>1. CASE t \in HostTypes
  BY <1>1, HostListing
<1>2. CASE t \in DockerTypes
  <2>1. t \notin HostTypes
    BY <1>2 DEF HostTypes, DockerTypes
  <2>2. PICK y \in Things("docker", t) : x = Parse(y, TRUE)
    BY <1>2, <2>1 DEF Listing
  <2>3. IdOf(x) = IdOf(y)
    BY <2>2, ThingsIdentified, ParseKeepsIdentity
  <2> QED BY <1>2, <2>1, <2>2, <2>3 DEF Things
<1>3. CASE t \notin HostTypes \cup DockerTypes
  <2>2. PICK y \in Things("kubernetes", t) : x = Parse(y, TRUE)
    BY <1>3 DEF Listing
  <2>3. IdOf(x) = IdOf(y)
    BY <2>2, ThingsIdentified, ParseKeepsIdentity
  <2> QED BY <1>3, <2>2, <2>3 DEF Things
<1> QED BY <1>1, <1>2, <1>3

LEMMA FindsOfLayer ==
  ASSUME Existing, NEW l \in Layers, NEW x \in Finds(l)
  PROVE  LayerOf(IdOf(x)) = l
<1>0. x \in Lists(l)
  BY DEF Finds
<1>1. CASE l = "host"
  <2> DEFINE enriched == EnrichWithSockets(Listing("process"), Listing("service"), TRUE)
             read == Things("host", "host") \cup enriched
  <2>1. PICK y \in read : x = Parse(y, TRUE)
    BY <1>0, <1>1 DEF Lists
  <2>3. \A z \in Listing("process") \cup Listing("service") : Identified(z) /\ LayerOf(IdOf(z)) = "host"
    BY HostListing DEF HostTypes
  <2>4. (\A z \in enriched : Identified(z)) /\ Ids(enriched) = Ids(Listing("process") \cup Listing("service"))
    BY <2>3, EnrichedIds
  <2> HIDE DEF enriched
  <2>5. \A z \in enriched : LayerOf(IdOf(z)) = "host"
    BY <2>3, <2>4 DEF Ids
  <2>6. Identified(y) /\ LayerOf(IdOf(y)) = "host"
    BY <2>1, <2>4, <2>5, ThingsIdentified DEF Things
  <2>7. IdOf(x) = IdOf(y)
    BY <2>1, <2>6, ParseKeepsIdentity
  <2> QED BY <1>1, <2>6, <2>7
<1>2. CASE l = "docker"
  <2>1. x = DockerRuntime \/ \E t \in DockerTypes : x \in Listing(t)
    BY <1>0, <1>2 DEF Lists
  <2>2. LayerOf(IdOf(DockerRuntime)) = "docker"
    BY DEF LayerOf, IdOf, DockerRuntime, HostTypes
  <2>3. ASSUME NEW t \in DockerTypes, x \in Listing(t)
        PROVE  LayerOf(IdOf(x)) = "docker"
    <3>1. t \notin HostTypes
      BY DEF HostTypes, DockerTypes
    <3> QED BY <2>3, <3>1, ListingOfLayer DEF ListedTypes
  <2> QED BY <1>2, <2>1, <2>2, <2>3
<1>3. CASE l = "lxd"
  <2>1. PICK y \in Engine("lxd") \cup Things("lxd", "container") : x = With(y, "health", "unknown")
    BY <1>0, <1>3 DEF Lists
  <2>2. Identified(y) /\ LayerOf(IdOf(y)) = "lxd"
    BY <2>1, ThingsIdentified DEF Engine, Things
  <2>3. IdOf(x) = IdOf(y)
    BY <2>1, <2>2, WithKeepsIdentity
  <2> QED BY <1>3, <2>2, <2>3
<1>4. CASE l = "kubernetes"
  <2>1. x = ClusterEntity \/ \E t \in KubeTypes : x \in Listing(t)
    BY <1>0, <1>4 DEF Lists
  <2>2. LayerOf(IdOf(ClusterEntity)) = "kubernetes"
    BY DEF LayerOf, IdOf, ClusterEntity, HostTypes
  <2>3. ASSUME NEW t \in KubeTypes, x \in Listing(t)
        PROVE  LayerOf(IdOf(x)) = "kubernetes"
    <3>1. t \notin HostTypes /\ t \notin DockerTypes
      BY DiscoveryAssumption
    <3> QED BY <2>3, <3>1, ListingOfLayer DEF ListedTypes
  <2> QED BY <1>4, <2>1, <2>2, <2>3
<1> QED BY <1>1, <1>2, <1>3, <1>4 DEF Layers

\* A layer that commits what it finds adds to what the others have, in any order.
LEMMA OneLayerMore ==
  ASSUME Existing, NEW layers \in SUBSET Layers, NEW l \in Layers, l \notin layers
  PROVE  EntitiesOf(layers \cup {l}) = Added(EntitiesOf(layers), Finds(l))
<1> DEFINE ids(ls) == UNION {Ids(Finds(k)) : k \in ls}
           more == EntitiesOf(layers \cup {l})
           added == Added(EntitiesOf(layers), Finds(l))
<1>1. /\ DOMAIN EntitiesOf(layers) = ids(layers) /\ DOMAIN more = ids(layers \cup {l})
      /\ DOMAIN added = DOMAIN EntitiesOf(layers) \cup Ids(Finds(l))
  BY DEF EntitiesOf, Added
<1>2. DOMAIN more = DOMAIN added
  BY <1>1
<1>3. ASSUME NEW i \in DOMAIN more
      PROVE  more[i] = added[i]
  <2>1. more[i] = CHOOSE x \in Finds(LayerOf(i)) : IdOf(x) = i
    BY <1>1 DEF EntitiesOf
  <2>2. CASE i \in Ids(Finds(l))
    <3>1. LayerOf(i) = l
      BY <2>2, FindsOfLayer DEF Ids
    <3>2. added[i] = CHOOSE x \in Finds(l) : IdOf(x) = i
      BY <2>2 DEF Added
    <3> QED BY <2>1, <3>1, <3>2
  <2>3. CASE i \notin Ids(Finds(l))
    <3>1. i \in ids(layers)
      BY <1>1, <2>3
    <3>2. added[i] = EntitiesOf(layers)[i]
      BY <1>1, <2>3, <3>1 DEF Added
    <3>3. EntitiesOf(layers)[i] = CHOOSE x \in Finds(LayerOf(i)) : IdOf(x) = i
      BY <3>1 DEF EntitiesOf
    <3> QED BY <2>1, <3>2, <3>3
  <2> QED BY <2>2, <2>3
<1>4. more = [i \in DOMAIN more |-> more[i]] /\ added = [i \in DOMAIN added |-> added[i]]
  BY DEF EntitiesOf, Added
<1> HIDE DEF more, added
<1>5. more = added
  BY <1>2, <1>3, <1>4
<1> QED BY <1>5 DEF more, added

\* A layer that is not ready adds nothing.
LEMMA NoneFound ==
  ASSUME NEW layers, NEW l, ~Ready(l)
  PROVE  EntitiesOf(layers \cup {l}) = EntitiesOf(layers)
<1>1. Finds(l) = {}
  BY DEF Finds
<1>2. UNION {Ids(Finds(k)) : k \in layers \cup {l}} = UNION {Ids(Finds(k)) : k \in layers}
  BY <1>1 DEF Ids
<1> QED BY <1>2 DEF EntitiesOf

\* What is found depends on what exists and on whether LXD was looked for.
LEMMA SameFinds ==
  ASSUME UNCHANGED <<world, forbidden>>, \A l : Ready(l)' = Ready(l)
  PROVE  /\ \A t : Listing(t)' = Listing(t)
         /\ \A layers : EntitiesOf(layers)' = EntitiesOf(layers)
<1>1. \A l, t : Things(l, t)' = Things(l, t)
  BY DEF Things
<1>2. \A x : Parse(x, TRUE)' = Parse(x, TRUE)
  <2>1. \A x : Endpoints(x)' = Endpoints(x)
    BY <1>1 DEF Endpoints
  <2>2. \A x : ParseService(x, TRUE)' = ParseService(x, TRUE)
    BY <2>1 DEF ParseService
  <2> QED BY <2>2 DEF Parse
<1>3. \A t : Listing(t)' = Listing(t)
  BY <1>1, <1>2 DEF Listing
<1>4. \A processes, services :
        EnrichWithSockets(processes, services, TRUE)' = EnrichWithSockets(processes, services, TRUE)
  <2>1. \A p, field : Sockets(p, field)' = Sockets(p, field)
    BY <1>1 DEF Sockets
  <2> SUFFICES ASSUME NEW processes, NEW services
               PROVE  EnrichWithSockets(processes, services, TRUE)' = EnrichWithSockets(processes, services, TRUE)
    OBVIOUS
  <2> DEFINE trees == [s \in services |-> TreeOf(s, processes)]
             Owner(p) == {s \in services : p \in trees[s]}
             unit(p) == IF Owner(p) = {} THEN None ELSE (CHOOSE s \in Owner(p) : TRUE).name
             P(p) == With(With(With(p, "unit", unit(p)), "ports", Sockets(p, "listens")),
                          "outbound", Sockets(p, "dials"))
             ports(s) == UNION {Sockets(p, "listens") : p \in trees[s]}
             outbound(s) == UNION {Sockets(p, "dials") : p \in trees[s]}
             S(s) == With(With(s, "ports", ports(s)), "outbound", outbound(s))
  <2>2. EnrichWithSockets(processes, services, TRUE) = {P(p) : p \in processes} \cup {S(s) : s \in services}
    BY DEF EnrichWithSockets
  <2>3. EnrichWithSockets(processes, services, TRUE)' = {P(p)' : p \in processes} \cup {S(s)' : s \in services}
    BY DEF EnrichWithSockets
  <2> HIDE DEF trees
  <2>4. \A p : P(p)' = P(p)
    BY <2>1
  <2>5. \A s : S(s)' = S(s)
    BY <2>1
  <2> HIDE DEF P, S
  <2> QED BY <2>2, <2>3, <2>4, <2>5
<1>5. \A l : Lists(l)' = Lists(l)
  BY <1>1, <1>2, <1>3, <1>4 DEF Lists, Engine
<1>6. \A l : Finds(l)' = Finds(l)
  BY <1>5 DEF Finds
<1>7. \A layers : EntitiesOf(layers)' = EntitiesOf(layers)
  BY <1>6 DEF EntitiesOf
<1> QED BY <1>3, <1>7

-----------------------------------------------------------------------------
\* What a step of a layer does to the course of a pass.

LookedFor == IF lxdClient = None THEN Engine("lxd") # {} ELSE lxdClient

LEMMA SameReady ==
  ASSUME UNCHANGED <<world, forbidden>>, lxdClient' = lxdClient \/ lxdClient' = LookedFor
  PROVE  \A l : Ready(l)' = Ready(l)
<1>1. \A l : Engine(l)' = Engine(l)
  BY DEF Engine, Things
<1>2. CASE lxdClient' = lxdClient
  BY <1>1, <1>2, Zenon DEF Ready
<1>3. CASE lxdClient' = LookedFor /\ lxdClient # None
  BY <1>1, <1>3, Zenon DEF Ready, LookedFor
<1>4. CASE lxdClient' = LookedFor /\ lxdClient = None
  <2>1. lxdClient' = (Engine("lxd") # {})
    BY <1>4, Zenon DEF LookedFor
  <2>2. Ready("lxd")' = Ready("lxd")
    BY <1>1, <1>4, <2>1, Zenon DEF Ready
  <2>3. \A l : l # "lxd" => Ready(l)' = Ready(l)
    BY <1>1, Zenon DEF Ready
  <2> QED BY <2>2, <2>3
<1> QED BY <1>2, <1>3, <1>4

\* A step that asks for no list leaves what was read.
LEMMA SameReadings ==
  ASSUME Read, Heard, \A t : Listing(t)' = Listing(t), UNCHANGED <<got, next, skipped, forbidden>>,
         stage'["kubernetes"] = "lists" => stage["kubernetes"] = "lists"
  PROVE  Read' /\ Heard'
BY DEF Read, Heard, Asked

LEMMA EndedMore ==
  ASSUME Counted, Staged, scope' = scope, NEW l \in Layers, stage[l] # "done", stage' = [stage EXCEPT ![l] = "done"]
  PROVE  Ended' = Ended \cup {l} /\ l \notin Ended /\ Ended \subseteq Layers
BY DEF Counted, Staged, Ended

LEMMA EndedSame ==
  ASSUME Counted, Staged, scope' = scope, NEW l \in Layers, NEW to, stage[l] # "done", to # "done",
         stage' = [stage EXCEPT ![l] = to]
  PROVE  Ended' = Ended
BY DEF Counted, Staged, Ended

\* A layer that is not ready fails, one that is goes on and hands over what it finds.
LEMMA CourseFails ==
  ASSUME Course, Books, UNCHANGED <<scope, world, forbidden>>, \A k : Ready(k)' = Ready(k),
         UNCHANGED <<got, next, skipped>>, NEW l \in Layers, stage[l] # "done", Fails(l), ~Ready(l)
  PROVE  Course'
<1> USE DEF Course, Books
<1>1. (\A t : Listing(t)' = Listing(t)) /\ \A layers : EntitiesOf(layers)' = EntitiesOf(layers)
  BY SameFinds
<1>2. stage' = [stage EXCEPT ![l] = "done"] /\ snapshot'.entities = snapshot.entities
  BY DEF Fails, Filed
<1>3. Found'
  <2>1. Ended' = Ended \cup {l}
    BY <1>2, EndedMore
  <2>2. EntitiesOf(Ended \cup {l}) = EntitiesOf(Ended)
    BY NoneFound
  <2>3. EntitiesOf(Ended)' = EntitiesOf(Ended \cup {l})
    BY <1>1, <2>1
  <2> QED BY <1>2, <2>2, <2>3 DEF Found
<1>4. AtWork'
  BY <1>2 DEF AtWork, Staged
<1>5. Read' /\ Heard'
  BY <1>1, <1>2, SameReadings DEF Staged
<1> QED BY <1>3, <1>4, <1>5

LEMMA CourseReaches ==
  ASSUME Course, Books, UNCHANGED <<scope, world, forbidden>>, \A k : Ready(k)' = Ready(k),
         UNCHANGED <<got, next, skipped>>, NEW l \in Layers, l # "kubernetes", stage[l] # "done",
         Reaches(l, "lists"), Ready(l)
  PROVE  Course'
<1> USE DEF Course, Books
<1>1. (\A t : Listing(t)' = Listing(t)) /\ \A layers : EntitiesOf(layers)' = EntitiesOf(layers)
  BY SameFinds
<1>2. stage' = [stage EXCEPT ![l] = "lists"] /\ snapshot' = snapshot
  BY DEF Reaches
<1>3. Found'
  <2>1. Ended' = Ended
    BY <1>2, EndedSame
  <2>2. EntitiesOf(Ended)' = EntitiesOf(Ended)
    BY <1>1, <2>1
  <2> QED BY <1>2, <2>2 DEF Found
<1>4. AtWork'
  BY <1>2 DEF AtWork, Staged
<1>5. Read' /\ Heard'
  BY <1>1, <1>2, SameReadings DEF Staged
<1> QED BY <1>3, <1>4, <1>5

LEMMA CourseEnds ==
  ASSUME Course, Books, Existing, UNCHANGED <<scope, world, forbidden>>, \A k : Ready(k)' = Ready(k),
         UNCHANGED <<got, next, skipped>>, NEW l \in Layers, stage[l] # "done",
         stage' = [stage EXCEPT ![l] = "done"], NEW things, things = Finds(l),
         snapshot'.entities = Added(snapshot.entities, things)
  PROVE  Course'
<1> USE DEF Course, Books
<1>1. (\A t : Listing(t)' = Listing(t)) /\ \A layers : EntitiesOf(layers)' = EntitiesOf(layers)
  BY SameFinds
<1>3. Found'
  <2>1. Ended' = Ended \cup {l} /\ l \notin Ended /\ Ended \subseteq Layers
    BY EndedMore
  <2>2. EntitiesOf(Ended \cup {l}) = Added(EntitiesOf(Ended), Finds(l))
    BY <2>1, OneLayerMore
  <2>3. EntitiesOf(Ended)' = EntitiesOf(Ended \cup {l})
    BY <1>1, <2>1
  <2> QED BY <2>2, <2>3 DEF Found
<1>4. AtWork'
  BY DEF AtWork, Staged
<1>5. Read' /\ Heard'
  BY <1>1, SameReadings DEF Staged
<1> QED BY <1>3, <1>4, <1>5

\* A list of the host or of Docker.
LEMMA CourseReads ==
  ASSUME Course, Books, UNCHANGED <<scope, world, forbidden>>, \A k : Ready(k)' = Ready(k),
         UNCHANGED <<stage, snapshot, next, skipped>>, NEW t \in HostTypes \cup DockerTypes,
         NEW items, items = Listing(t), got' = [got EXCEPT ![t] = items]
  PROVE  Course'
<1> USE DEF Course, Books
<1>1. (\A u : Listing(u)' = Listing(u)) /\ \A layers : EntitiesOf(layers)' = EntitiesOf(layers)
  BY SameFinds
<1>2. Found'
  <2>1. Ended' = Ended
    BY DEF Ended
  <2>2. EntitiesOf(Ended)' = EntitiesOf(Ended)
    BY <1>1, <2>1
  <2> QED BY <2>2 DEF Found
<1>3. AtWork'
  BY DEF AtWork
<1>4. Read'
  BY <1>1 DEF Read, Listed, ListedTypes
<1>5. Heard'
  <2>1. Asked \subseteq KubeTypes
    BY DiscoveryAssumption DEF Asked, KubeTypes, Listed
  <2>2. t \notin Asked
    BY <2>1, DiscoveryAssumption
  <2>3. Asked' = Asked
    BY DEF Asked
  <2>4. \A u \in Asked : got'[u] = got[u]
    BY <2>2
  <2> QED BY <1>1, <2>3, <2>4 DEF Heard
<1> QED BY <1>2, <1>3, <1>4, <1>5

\* The turn of a type of Kubernetes.
LEMMA CourseTurns ==
  ASSUME Course, Books, \A k : Ready(k)' = Ready(k), UNCHANGED <<stage, snapshot>>,
         NEW t \in KubeTypes, Turn(t), NEW items, items = Listing(t), got' = [got EXCEPT ![t] = items],
         skipped' = IF t \in forbidden THEN skipped \cup {t} ELSE skipped
  PROVE  Course'
<1> USE DEF Course, Books
<1>0. UNCHANGED <<scope, world, forbidden>> /\ stage["kubernetes"] = "lists"
  BY DEF Turn, PassFrame, AtWork
<1>1. (\A u : Listing(u)' = Listing(u)) /\ \A layers : EntitiesOf(layers)' = EntitiesOf(layers)
  BY <1>0, SameFinds
<1>2. Found'
  <2>1. Ended' = Ended
    BY <1>0 DEF Ended
  <2>2. EntitiesOf(Ended)' = EntitiesOf(Ended)
    BY <1>1, <2>1
  <2> QED BY <2>2 DEF Found
<1>3. AtWork'
  BY DEF AtWork
<1>4. t \notin HostTypes \cup DockerTypes /\ t \in DOMAIN got
  BY DiscoveryAssumption DEF Listed, ListedTypes
<1>5. Read'
  BY <1>1, <1>4 DEF Read
<1>6. Heard'
  <2>1. Asked' = Asked \cup {t}
    <3>1. next \in Nat /\ next' = next + 1 /\ KubeKinds[next + 1] = t
      BY DiscoveryAssumption DEF Turn, Listed
    <3>2. 1..next' = (1..next) \cup {next + 1}
      BY <3>1
    <3> QED BY <3>1, <3>2 DEF Asked
  <2>2. skipped = Asked \cap forbidden /\ \A u \in Asked : got[u] = Listing(u)
    BY <1>0 DEF Heard
  <2>3. skipped' = Asked' \cap forbidden'
    BY <1>0, <2>1, <2>2
  <2>4. \A u \in Asked' : got'[u] = Listing(u)
    <3>1. Asked \subseteq DOMAIN got
      BY DiscoveryAssumption DEF Asked, KubeTypes, Listed, ListedTypes
    <3> QED BY <1>4, <2>1, <2>2, <3>1
  <2> QED BY <1>1, <2>3, <2>4 DEF Heard
<1> QED BY <1>2, <1>3, <1>5, <1>6

-----------------------------------------------------------------------------
\* The steps keep it.

\* While the graph and what would be found are left alone, the canvas stays right.
LEMMA StillStays ==
  ASSUME Still, UNCHANGED <<scope, world, forbidden, graph>>, \A l : Ready(l)' = Ready(l),
         history'.quiet = history.quiet
  PROVE  Still'
<1>1. EntitiesOf(scope)' = EntitiesOf(scope)
  BY SameFinds
<1> QED BY <1>1 DEF Still, Drawn

\* A call that fails tells nothing of the canvas and leaves the course.
LEMMA HurtSteady ==
  ASSUME Steady, Recorded, PassFrame, NEW silent, Hurt(silent), \A l : Ready(l)' = Ready(l), Allowed'
  PROVE  Steady'
<1>1. history'.tainted = TRUE /\ history'.quiet = history.quiet
  BY DEF Hurt, Recorded
<1>2. OnCourse'
  BY <1>1 DEF OnCourse
<1>3. Still'
  BY <1>1, StillStays DEF Steady, PassFrame
<1> QED BY <1>2, <1>3 DEF Steady

\* One that does not must keep the course.
LEMMA UnhurtSteady ==
  ASSUME Steady, PassFrame, history'.tainted \/ (running /\ ~history.tainted => Course'),
         history'.quiet = history.quiet, history.tainted => history'.tainted,
         \A l : Ready(l)' = Ready(l), Allowed'
  PROVE  Steady'
<1>1. OnCourse'
  BY DEF OnCourse, PassFrame
<1>2. Still'
  BY StillStays DEF Steady, PassFrame
<1> QED BY <1>1, <1>2 DEF Steady

LEMMA SameCache ==
  ASSUME Allowed, cache' = cache, forbidden' = forbidden
  PROVE  Allowed'
BY DEF Allowed

LEMMA HostSteady ==
  ASSUME Steady, Accounted, Books, HostInfo \/ (\E t \in HostTypes : HostList(t)) \/ HostCommit
  PROVE  Steady'
<1> "host" \in Layers /\ Recorded /\ Existing
  BY DEF Layers, Accounted
<1>0. PassFrame /\ UNCHANGED <<scope, world, forbidden, running, next, lxdClient, cache, skipped>>
  BY DEF HostInfo, HostList, HostCommit, PassFrame
<1>1. (\A l : Ready(l)' = Ready(l)) /\ Allowed'
  BY <1>0, SameReady, SameCache DEF Steady
<1>2. ASSUME NEW silent, Hurt(silent)
      PROVE  Steady'
  BY <1>0, <1>1, <1>2, HurtSteady
<1>3. ASSUME Unhurt, Course => Course'
      PROVE  Steady'
  BY <1>0, <1>1, <1>3, UnhurtSteady DEF Unhurt, Steady, OnCourse
<1>4. CASE HostInfo
  <2>1. Ready("host")
    BY DEF Ready
  <2>2. CASE Reaches("host", "lists") /\ Unhurt
    BY <1>0, <1>1, <1>3, <1>4, <2>1, <2>2, CourseReaches DEF HostInfo
  <2> QED BY <1>2, <1>4, <2>2 DEF HostInfo
<1>5. ASSUME NEW t \in HostTypes, HostList(t)
      PROVE  Steady'
  <2>1. CASE \E silent : Hurt(silent)
    BY <1>2, <2>1
  <2>2. CASE /\ got' = [got EXCEPT ![t] = {ServiceLine(x) : x \in Things("host", t)}]
             /\ \E silent : history' = [history EXCEPT !.silent = silent]
    <3>1. got' = [got EXCEPT ![t] = Listing(t)]
      BY <1>5, <2>2 DEF Listing
    <3>2. UNCHANGED <<stage, snapshot>>
      BY <1>5 DEF HostList
    <3>3. Course => Course'
      BY <1>0, <1>1, <1>5, <3>1, <3>2, CourseReads DEF Steady
    <3>4. history'.tainted = history.tainted /\ history'.quiet = history.quiet
      BY <2>2 DEF Recorded
    <3> QED BY <1>0, <1>1, <3>3, <3>4, UnhurtSteady DEF Steady, OnCourse
  <2>3. ASSUME NEW missed, missed = {},
               got' = [got EXCEPT ![t] = {ServiceLine(x) : x \in Things("host", t) \ missed}]
        PROVE  got' = [got EXCEPT ![t] = {ServiceLine(x) : x \in Things("host", t)}]
    <3>1. Things("host", t) \ missed = Things("host", t)
      BY <2>3
    <3> QED BY <2>3, <3>1
  <2> QED BY <1>5, <2>1, <2>2, <2>3 DEF HostList
<1>7. CASE HostCommit
  <2>1. PICK readable \in BOOLEAN :
          /\ Commits("host", {Parse(x, TRUE) : x \in Things("host", "host") \cup
                                               EnrichWithSockets(got["process"], got["service"], readable)})
          /\ IF readable THEN Unhurt ELSE Hurt({})
    BY <1>7 DEF HostCommit
  <2>2. CASE ~readable
    BY <1>2, <2>1, <2>2
  <2>3. CASE readable
    <3>1. readable = TRUE /\ Unhurt
      BY <2>1, <2>3
    <3>2. PICK things : things = {Parse(x, TRUE) : x \in Things("host", "host") \cup
                                               EnrichWithSockets(got["process"], got["service"], readable)}
      OBVIOUS
    <3>3. Commits("host", things)
      BY <2>1, <3>2
    <3>4. /\ stage["host"] # "done" /\ UNCHANGED <<got, next, skipped>>
          /\ got["process"] # None /\ got["service"] # None
      BY <1>7 DEF HostCommit, HostTypes
    <3>5. ASSUME Course
          PROVE  Course'
      <4>1. got["process"] = Listing("process") /\ got["service"] = Listing("service")
        BY <3>4, <3>5 DEF Course, Read, HostTypes
      <4>2. things = Lists("host")
        BY <3>1, <3>2, <4>1 DEF Lists
      <4>3. things = Finds("host")
        BY <4>2 DEF Finds, Ready
      <4>4. stage' = [stage EXCEPT !["host"] = "done"] /\ snapshot'.entities = Added(snapshot.entities, things)
        BY <3>3 DEF Commits, Books, Filed
      <4> QED BY <1>0, <1>1, <3>4, <3>5, <4>3, <4>4, CourseEnds
    <3> QED BY <1>3, <3>1, <3>5
  <2> QED BY <2>2, <2>3
<1> QED BY <1>4, <1>5, <1>7

LEMMA DockerSteady ==
  ASSUME Steady, Accounted, Books, DockerStart \/ (\E t \in DockerTypes : DockerList(t)) \/ DockerCommit
  PROVE  Steady'
<1> "docker" \in Layers /\ Recorded /\ Existing
  BY DEF Layers, Accounted
<1>0. PassFrame /\ UNCHANGED <<scope, world, forbidden, running, next, lxdClient, cache, skipped>>
  BY DEF DockerStart, DockerList, DockerCommit, PassFrame
<1>1. (\A l : Ready(l)' = Ready(l)) /\ Allowed'
  BY <1>0, SameReady, SameCache DEF Steady
<1>2. ASSUME NEW silent, Hurt(silent)
      PROVE  Steady'
  BY <1>0, <1>1, <1>2, HurtSteady
<1>3. ASSUME Unhurt, Course => Course'
      PROVE  Steady'
  BY <1>0, <1>1, <1>3, UnhurtSteady DEF Unhurt, Steady, OnCourse
<1>4. Ready("docker") <=> Engine("docker") # {}
  BY DEF Ready
<1>5. CASE DockerStart
  <2>0. stage["docker"] # "done" /\ UNCHANGED got
    BY <1>5 DEF DockerStart
  <2>1. CASE Engine("docker") # {} /\ Reaches("docker", "lists") /\ Unhurt
    BY <1>0, <1>1, <1>3, <1>4, <2>0, <2>1, CourseReaches
  <2>2. CASE Engine("docker") = {} /\ Fails("docker") /\ Unhurt
    BY <1>0, <1>1, <1>3, <1>4, <2>0, <2>2, CourseFails
  <2> QED BY <1>2, <1>5, <2>1, <2>2 DEF DockerStart
<1>6. ASSUME NEW t \in DockerTypes, DockerList(t)
      PROVE  Steady'
  <2>0. stage["docker"] # "done"
    BY <1>6 DEF DockerList
  <2>1. CASE Engine("docker") = {} /\ Fails("docker") /\ Unhurt /\ UNCHANGED got
    BY <1>0, <1>1, <1>3, <1>4, <2>0, <2>1, CourseFails
  <2>2. CASE Hurt({})
    BY <1>2, <2>2
  <2>3. ASSUME NEW silent,
               got' = [got EXCEPT ![t] = {Parse(x, TRUE) : x \in Things("docker", t) \ silent}],
               IF silent = {} THEN Unhurt ELSE Hurt(Ids(silent)), UNCHANGED <<stage, snapshot>>
        PROVE  Steady'
    <3>1. CASE silent # {}
      BY <1>2, <2>3, <3>1
    <3>2. CASE silent = {}
      <4>1. Things("docker", t) \ silent = Things("docker", t)
        BY <3>2
      <4>2. t \notin HostTypes
        BY DEF HostTypes, DockerTypes
      <4>3. got' = [got EXCEPT ![t] = Listing(t)]
        BY <1>6, <2>3, <4>1, <4>2 DEF Listing
      <4>4. Course => Course'
        BY <1>0, <1>1, <1>6, <2>3, <4>3, CourseReads
      <4> QED BY <1>3, <2>3, <3>2, <4>4
    <3> QED BY <3>1, <3>2
  <2> QED BY <1>6, <2>1, <2>2, <2>3 DEF DockerList
<1>7. CASE DockerCommit
  <2>1. PICK things : things = {DockerRuntime} \cup UNION {got[t] : t \in DockerTypes}
    OBVIOUS
  <2>2. Commits("docker", things) /\ Unhurt
    BY <1>7, <2>1 DEF DockerCommit
  <2>3. /\ stage["docker"] = "lists" /\ UNCHANGED <<got, next, skipped>>
        /\ \A t \in DockerTypes : got[t] # None
    BY <1>7 DEF DockerCommit
  <2>4. ASSUME Course
        PROVE  Course'
    <3>1. \A t \in DockerTypes : got[t] = Listing(t)
      BY <2>3, <2>4 DEF Course, Read
    <3>2. things = Lists("docker")
      BY <2>1, <3>1 DEF Lists
    <3>3. Ready("docker")
      BY <2>3, <2>4 DEF Course, AtWork
    <3>4. things = Finds("docker")
      BY <3>2, <3>3 DEF Finds
    <3>5. stage' = [stage EXCEPT !["docker"] = "done"] /\ snapshot'.entities = Added(snapshot.entities, things)
      BY <2>2 DEF Commits, Books, Filed
    <3> QED BY <1>0, <1>1, <2>3, <2>4, <3>4, <3>5, CourseEnds
  <2> QED BY <1>3, <2>2, <2>4
<1> QED BY <1>5, <1>6, <1>7

LEMMA LXDSteady ==
  ASSUME Steady, Accounted, Books, LXDStart \/ LXDCommit
  PROVE  Steady'
<1> "lxd" \in Layers /\ Recorded /\ Existing
  BY DEF Layers, Accounted
<1>0. /\ PassFrame /\ UNCHANGED <<scope, world, forbidden, running, got, next, cache, skipped>>
      /\ stage["lxd"] # "done"
  BY DEF LXDStart, LXDCommit, PassFrame
<1>1. (\A l : Ready(l)' = Ready(l)) /\ Allowed'
  <2>1. lxdClient' = lxdClient \/ lxdClient' = LookedFor
    BY Zenon DEF LXDStart, LXDCommit, LookedFor
  <2> QED BY <1>0, <2>1, SameReady, SameCache DEF Steady
<1>2. ASSUME NEW silent, Hurt(silent)
      PROVE  Steady'
  BY <1>0, <1>1, <1>2, HurtSteady
<1>3. ASSUME Unhurt, Course => Course'
      PROVE  Steady'
  BY <1>0, <1>1, <1>3, UnhurtSteady DEF Unhurt, Steady, OnCourse
<1>4. Ready("lxd") <=> LookedFor /\ Engine("lxd") # {}
  BY Zenon DEF Ready, LookedFor
<1>5. CASE LXDStart
  <2>1. lxdClient' <=> LookedFor
    BY <1>5, Zenon DEF LXDStart, LookedFor
  <2>2. CASE lxdClient' /\ Engine("lxd") # {} /\ Reaches("lxd", "lists") /\ Unhurt
    <3>1. Ready("lxd")
      BY <1>4, <2>1, <2>2, Zenon
    <3> QED BY <1>0, <1>1, <1>3, <2>2, <3>1, CourseReaches
  <2>3. CASE (~lxdClient' \/ Engine("lxd") = {}) /\ Fails("lxd") /\ Unhurt
    <3>1. ~Ready("lxd")
      BY <1>4, <2>1, <2>3, Zenon
    <3> QED BY <1>0, <1>1, <1>3, <2>3, <3>1, CourseFails
  <2> QED BY <1>2, <1>5, <2>2, <2>3, Zenon DEF LXDStart
<1>6. CASE LXDCommit
  <2>1. CASE Engine("lxd") = {} /\ Fails("lxd") /\ Unhurt
    <3>1. ~Ready("lxd")
      BY <1>4, <2>1, Zenon
    <3> QED BY <1>0, <1>1, <1>3, <2>1, <3>1, CourseFails
  <2>2. PICK things : things = {With(x, "health", "unknown") : x \in Engine("lxd") \cup Things("lxd", "container")}
    OBVIOUS
  <2>3. CASE Commits("lxd", things) /\ Unhurt
    <3>1. things = Lists("lxd")
      BY <2>2 DEF Lists
    <3>2. ASSUME Course
          PROVE  Course'
      <4>1. Ready("lxd")
        BY <1>6, <3>2 DEF LXDCommit, Course, AtWork
      <4>2. things = Finds("lxd")
        BY <3>1, <4>1 DEF Finds
      <4>3. stage' = [stage EXCEPT !["lxd"] = "done"] /\ snapshot'.entities = Added(snapshot.entities, things)
        BY <2>3 DEF Commits, Books, Filed
      <4> QED BY <1>0, <1>1, <3>2, <4>2, <4>3, CourseEnds
    <3> QED BY <1>3, <2>3, <3>2
  <2> QED BY <1>2, <1>6, <2>1, <2>2, <2>3 DEF LXDCommit
<1> QED BY <1>5, <1>6

LEMMA KubeStartSteady ==
  ASSUME Steady, Accounted, Books, KubeStart
  PROVE  Steady'
<1> "kubernetes" \in Layers /\ Recorded /\ Existing
  BY DEF Layers, Accounted
<1>0. /\ PassFrame /\ UNCHANGED <<scope, world, forbidden, running, got, lxdClient, cache>>
      /\ stage["kubernetes"] # "done" /\ next' = 0 /\ skipped' = {}
  BY DEF KubeStart, PassFrame
<1>1. (\A l : Ready(l)' = Ready(l)) /\ Allowed'
  BY <1>0, SameReady, SameCache DEF Steady
<1>2. ASSUME NEW silent, Hurt(silent)
      PROVE  Steady'
  BY <1>0, <1>1, <1>2, HurtSteady
<1>3. CASE Reaches("kubernetes", "lists") /\ Unhurt
  <2>1. ASSUME Course
        PROVE  Course'
    <3> USE DEF Course, Books
    <3>1. (\A t : Listing(t)' = Listing(t)) /\ \A layers : EntitiesOf(layers)' = EntitiesOf(layers)
      BY <1>0, <1>1, SameFinds
    <3>2. stage' = [stage EXCEPT !["kubernetes"] = "lists"] /\ snapshot' = snapshot
      BY <1>3 DEF Reaches
    <3>3. Found'
      <4>1. Ended' = Ended
        BY <1>0, <3>2, EndedSame
      <4>2. EntitiesOf(Ended)' = EntitiesOf(Ended)
        BY <3>1, <4>1
      <4> QED BY <2>1, <3>2, <4>2 DEF Found
    <3>4. AtWork'
      BY <1>1, <2>1, <3>2 DEF AtWork, Staged
    <3>5. Read'
      BY <1>0, <2>1, <3>1 DEF Read
    <3>6. Asked' = {}
      BY <1>0 DEF Asked
    <3>7. Heard'
      BY <1>0, <3>6 DEF Heard
    <3> QED BY <3>3, <3>4, <3>5, <3>7
  <2> QED BY <1>0, <1>1, <1>3, <2>1, UnhurtSteady DEF Unhurt, Steady, OnCourse
<1> QED BY <1>2, <1>3 DEF KubeStart

LEMMA KubeTurnSteady ==
  ASSUME Steady, Accounted, Books, NEW t \in KubeTypes,
         KubeHit(t) \/ KubeList(t) \/ KubeForbidden(t) \/ KubeBreaks(t)
  PROVE  Steady'
<1> Recorded
  BY DEF Accounted
<1>0. Turn(t) /\ PassFrame /\ UNCHANGED <<scope, world, forbidden, running, lxdClient, graph>>
  BY DEF KubeHit, KubeList, KubeForbidden, KubeBreaks, Turn, PassFrame
<1>1. \A l : Ready(l)' = Ready(l)
  BY <1>0, SameReady
<1>2. ASSUME NEW silent, Hurt(silent), Allowed'
      PROVE  Steady'
  BY <1>0, <1>1, <1>2, HurtSteady
<1> DEFINE asked == {Parse(x, TRUE) : x \in Things("kubernetes", t)}
<1>3. Listing(t) = IF t \in forbidden THEN {} ELSE asked
  BY DiscoveryAssumption DEF Listing
<1>4. CASE KubeHit(t)
  <2>1. /\ history'.tainted = (history.tainted \/ cache[t].items # asked)
        /\ history'.quiet = history.quiet
    BY <1>4 DEF KubeHit, Recorded
  <2>2. UNCHANGED <<stage, snapshot, cache, skipped>> /\ cache[t] # None
    BY <1>4 DEF KubeHit
  <2>3. t \notin forbidden /\ Allowed'
    BY <1>0, <2>2, SameCache DEF Steady, Allowed
  <2>4. ASSUME cache[t].items = asked, Course
        PROVE  Course'
    <3>1. PICK items : items = cache[t].items
      OBVIOUS
    <3>2. items = Listing(t) /\ got' = [got EXCEPT ![t] = items]
      BY <1>3, <1>4, <2>3, <2>4, <3>1 DEF KubeHit
    <3> QED BY <1>0, <1>1, <2>2, <2>3, <2>4, <3>2, CourseTurns
  <2>5. history.tainted => history'.tainted
    BY <2>1
  <2>6. history'.tainted \/ cache[t].items = asked
    BY <2>1
  <2>7. history'.tainted \/ (running /\ ~history.tainted => Course')
    BY <2>4, <2>6 DEF Steady, OnCourse
  <2> QED BY <1>0, <1>1, <2>1, <2>3, <2>5, <2>7, UnhurtSteady
<1>5. CASE KubeList(t)
  <2>1. t \notin forbidden /\ UNCHANGED <<stage, skipped, snapshot>>
    BY <1>5 DEF KubeList
  <2>2. Allowed'
    <3>1. \A u \in KubeTypes : u # t => cache'[u] = cache[u]
      BY <1>5 DEF KubeList
    <3> QED BY <1>0, <2>1, <3>1 DEF Steady, Allowed
  <2>3. PICK unanswered :
          /\ got' = [got EXCEPT ![t] = {Parse(x, x \notin unanswered) : x \in Things("kubernetes", t)}]
          /\ IF unanswered = {} THEN Unhurt ELSE Hurt({})
    BY <1>5 DEF KubeList
  <2>4. CASE unanswered # {}
    BY <1>2, <2>2, <2>3, <2>4
  <2>5. CASE unanswered = {}
    <3>1. \A x : (x \notin unanswered) = TRUE
      BY <2>5
    <3>5. {Parse(x, x \notin unanswered) : x \in Things("kubernetes", t)} = asked
      BY <3>1
    <3>2. got' = [got EXCEPT ![t] = Listing(t)]
      BY <1>3, <2>1, <2>3, <3>5
    <3>3. history'.tainted = history.tainted /\ history'.quiet = history.quiet
      BY <2>3, <2>5 DEF Unhurt
    <3>4. Course => Course'
      BY <1>0, <1>1, <2>1, <3>2, CourseTurns
    <3> QED BY <1>0, <1>1, <2>2, <3>3, <3>4, UnhurtSteady DEF Steady, OnCourse
  <2> QED BY <2>4, <2>5
<1>6. CASE KubeForbidden(t)
  <2>1. UNCHANGED <<stage, snapshot, cache, history>> /\ got' = [got EXCEPT ![t] = {}] /\ t \in forbidden
    BY <1>6 DEF KubeForbidden, Unhurt
  <2>2. Allowed'
    BY <1>0, <2>1, SameCache DEF Steady
  <2>3. ASSUME Course
        PROVE  Course'
    <3>1. stage["kubernetes"] # "broken"
      BY <2>3 DEF Course, AtWork
    <3>2. skipped' = skipped \cup {t}
      BY <1>6, <3>1 DEF KubeForbidden
    <3> QED BY <1>0, <1>1, <1>3, <2>1, <2>3, <3>2, CourseTurns
  <2> QED BY <1>0, <1>1, <2>1, <2>2, <2>3, UnhurtSteady DEF Steady, OnCourse
<1>7. CASE KubeBreaks(t)
  <2>1. Allowed' /\ Hurt({})
    BY <1>0, <1>7, SameCache DEF KubeBreaks, Steady
  <2> QED BY <1>2, <2>1
<1> QED BY <1>4, <1>5, <1>6, <1>7

LEMMA KubeCommitSteady ==
  ASSUME Steady, Accounted, Books, KubeCommit
  PROVE  Steady'
<1> "kubernetes" \in Layers /\ Recorded /\ Existing
  BY DEF Layers, Accounted
<1>0. /\ PassFrame
      /\ UNCHANGED <<scope, world, forbidden, running, got, next, lxdClient, cache, skipped, history>>
  BY DEF KubeCommit, PassFrame, Unhurt
<1>1. (\A l : Ready(l)' = Ready(l)) /\ Allowed'
  BY <1>0, SameReady, SameCache DEF Steady
<1>2. ASSUME Course
      PROVE  Course'
  <2>1. stage["kubernetes"] = "lists" /\ next = Len(KubeKinds)
    BY <1>2 DEF KubeCommit, Course, AtWork
  <2>2. Asked = KubeTypes
    BY <2>1, DiscoveryAssumption DEF Asked, KubeTypes
  <2>3. skipped = forbidden /\ \A t \in KubeTypes : got[t] = Listing(t)
    BY <1>2, <2>1, <2>2 DEF Course, Heard, Books, Counted
  <2>4. Ready("kubernetes") <=> ~({"pod", "deployment"} \subseteq skipped)
    BY <2>3 DEF Ready
  <2>5. CASE ~Ready("kubernetes")
    <3>1. Fails("kubernetes")
      BY <2>4, <2>5 DEF KubeCommit
    <3> QED BY <1>0, <1>1, <1>2, <2>1, <2>5, <3>1, CourseFails
  <2>6. CASE Ready("kubernetes")
    <3>1. PICK things : things = {ClusterEntity} \cup UNION {got[t] : t \in KubeTypes}
      OBVIOUS
    <3>2. /\ stage' = [stage EXCEPT !["kubernetes"] = "done"]
          /\ snapshot' = [snapshot EXCEPT !.entities = Added(@, things), !.issues = @ \cup skipped]
      BY <2>1, <2>4, <2>6, <3>1 DEF KubeCommit
    <3>3. snapshot'.entities = Added(snapshot.entities, things)
      BY <3>2 DEF Books, Filed
    <3>4. things = Lists("kubernetes")
      BY <2>3, <3>1 DEF Lists
    <3>5. things = Finds("kubernetes")
      BY <2>6, <3>4 DEF Finds
    <3> QED BY <1>0, <1>1, <1>2, <2>1, <3>2, <3>3, <3>5, CourseEnds
  <2> QED BY <2>5, <2>6
<1> QED BY <1>0, <1>1, <1>2, UnhurtSteady DEF Steady, OnCourse

\* A pass begins with nothing found; one that ends undisturbed draws what it found.
LEMMA PassSteady ==
  ASSUME Steady, Accounted, Books, BeginPass \/ EndPass \/ WorldChanges \/ UNCHANGED vars
  PROVE  Steady'
<1> Recorded
  BY DEF Accounted
<1>1. CASE BeginPass
  <2>1. UNCHANGED <<scope, world, forbidden, lxdClient, cache, graph>> /\ history'.quiet = history.quiet
    BY <1>1 DEF BeginPass, Recorded
  <2>2. (\A l : Ready(l)' = Ready(l)) /\ Allowed'
    BY <2>1, SameReady, SameCache DEF Steady
  <2>3. /\ stage' = [l \in Layers |-> IF l \in scope THEN "start" ELSE "done"]
        /\ got' = [t \in ListedTypes |-> None]
        /\ snapshot' = [entities |-> Nothing, errors |-> {}, issues |-> {}]
    BY <1>1 DEF BeginPass
  <2>4. Ended' = {}
    BY <2>1, <2>3 DEF Ended, Books, Counted
  <2>5. EntitiesOf({})' = Nothing
    BY DEF EntitiesOf, Nothing
  <2>6. Found'
    BY <2>3, <2>4, <2>5 DEF Found
  <2>7. AtWork' /\ Read' /\ Heard'
    BY <2>3 DEF AtWork, Read, Heard, Layers, ListedTypes
  <2>8. Still'
    BY <2>1, <2>2, StillStays DEF Steady
  <2> QED BY <2>2, <2>6, <2>7, <2>8 DEF Steady, OnCourse, Course
<1>2. CASE EndPass
  <2>1. /\ UNCHANGED <<scope, world, forbidden, lxdClient, cache>> /\ running' = FALSE
        /\ running /\ \A l \in Layers : stage[l] = "done"
        /\ Drawn(snapshot.entities, graph')
        /\ history'.quiet = IF history.tainted THEN 0 ELSE history.quiet + 1
    BY <1>2 DEF EndPass, Recorded, Drawn, layerVars
  <2>2. (\A l : Ready(l)' = Ready(l)) /\ Allowed'
    BY <2>1, SameReady, SameCache DEF Steady
  <2>3. EntitiesOf(scope)' = EntitiesOf(scope)
    BY <2>1, <2>2, SameFinds
  <2>4. ASSUME ~history.tainted
        PROVE  Drawn(EntitiesOf(scope), graph')
    <3>1. Ended = scope
      BY <2>1 DEF Ended, Books, Counted
    <3>2. snapshot.entities = EntitiesOf(scope)
      BY <2>1, <2>4, <3>1 DEF Steady, OnCourse, Course, Found
    <3> QED BY <2>1, <3>2
  <2>5. Still'
    <3>1. CASE history.tainted
      BY <2>1, <3>1 DEF Still
    <3>2. CASE ~history.tainted
      BY <2>3, <2>4, <3>2 DEF Still, Drawn
    <3> QED BY <3>1, <3>2
  <2>6. OnCourse'
    BY <2>1 DEF OnCourse
  <2> QED BY <2>2, <2>5, <2>6 DEF Steady
<1>3. CASE WorldChanges
  <2>1. UNCHANGED <<forbidden, cache>> /\ history'.tainted = TRUE /\ history'.quiet = 0
    BY <1>3 DEF WorldChanges, Recorded, layerVars
  <2>2. Allowed'
    BY <2>1, SameCache DEF Steady
  <2>3. OnCourse' /\ Still'
    BY <2>1 DEF OnCourse, Still
  <2> QED BY <2>2, <2>3 DEF Steady
<1>4. CASE UNCHANGED vars
  <2>1. UNCHANGED <<scope, world, forbidden, running, layerVars, graph, history>>
    BY <1>4 DEF vars
  <2>2. UNCHANGED <<stage, got, next, lxdClient, cache, skipped, snapshot>>
    BY <2>1 DEF layerVars
  <2>3. (\A l : Ready(l)' = Ready(l)) /\ Allowed'
    BY <2>1, <2>2, SameReady, SameCache DEF Steady
  <2>4. Still'
    BY <2>1, <2>3, StillStays DEF Steady
  <2>5. (\A t : Listing(t)' = Listing(t)) /\ \A layers : EntitiesOf(layers)' = EntitiesOf(layers)
    BY <2>1, <2>3, SameFinds
  <2>6. Ended' = Ended /\ Asked' = Asked
    BY <2>1, <2>2 DEF Ended, Asked
  <2>7. EntitiesOf(Ended)' = EntitiesOf(Ended)
    BY <2>5, <2>6
  <2>8. Course => Course'
    BY <2>1, <2>2, <2>3, <2>5, <2>6, <2>7 DEF Course, Found, AtWork, Read, Heard
  <2> QED BY <2>1, <2>3, <2>4, <2>8 DEF Steady, OnCourse
<1> QED BY <1>1, <1>2, <1>3, <1>4

LEMMA SteadyInit == Init => Steady
BY DEF Init, Steady, OnCourse, Allowed, Still

\* A pass in which no call fails, over what has not changed since a pass in which
\* none failed, draws the same canvas, unless two entities contest what only one can
\* have.
THEOREM SecondLookIsSteady == Spec => SteadyGraph
<1>1. Steady /\ Accounted /\ Books /\ [Next]_vars => Steady'
  BY HostSteady, DockerSteady, LXDSteady, KubeStartSteady, KubeTurnSteady, KubeCommitSteady,
     PassSteady DEF Next, AllPassesDone
<1>2. ASSUME Steady, Books, [Next]_vars, running, ~running', ~history.tainted, history.quiet > 0,
             ~Contested(snapshot.entities)
      PROVE  graph' = graph
  <2>1. EndPass
    BY <1>2 DEF Next, AllPassesDone, vars, BeginPass, HostInfo, HostList, HostCommit, DockerStart,
       DockerList, DockerCommit, LXDStart, LXDCommit, KubeStart, KubeHit, KubeList, KubeForbidden,
       KubeBreaks, Turn, KubeCommit, WorldChanges, PassFrame
  <2>2. Drawn(snapshot.entities, graph') /\ \A l \in Layers : stage[l] = "done"
    BY <2>1 DEF EndPass, Drawn
  <2>3. Ended = scope
    BY <1>2, <2>2 DEF Ended, Books, Counted
  <2>4. snapshot.entities = EntitiesOf(scope)
    BY <1>2, <2>3 DEF Steady, OnCourse, Course, Found
  <2>5. Drawn(snapshot.entities, graph)
    BY <1>2, <2>4 DEF Steady, Still
  <2>6. PICK ents : ents = snapshot.entities
    OBVIOUS
  <2>7. PICK p \in Picks(ents) : graph' = Format(CalculateHealthForAll(ents), BuildRelationships(ents, p))
    BY <2>2, <2>6 DEF Drawn
  <2>8. PICK q \in Picks(ents) : graph = Format(CalculateHealthForAll(ents), BuildRelationships(ents, q))
    BY <2>5, <2>6 DEF Drawn
  <2>9. p = q
    BY <1>2, <2>6, <2>7, <2>8, OnePick
  <2> QED BY <2>7, <2>8, <2>9
<1>3. Steady /\ Books /\ [Next]_vars =>
        [running /\ ~running' /\ ~history.tainted /\ history.quiet > 0
           /\ ~Contested(snapshot.entities) => graph' = graph]_vars
  BY <1>2
<1> QED BY BooksInit, BooksStep, AccountedInit, AccountedStep, SteadyInit, <1>1, <1>3, PTL
        DEF Spec, SteadyGraph
===============================================================================
