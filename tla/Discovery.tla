------------------------------- MODULE Discovery -------------------------------
(***************************************************************************)
(* Discovery: pass after pass, the orchestrator (pkg/orchestrator) reads   *)
(* the layers of its scope in parallel through their adapters              *)
(* (pkg/discovery/host, docker, lxd, kubernetes), while what they read     *)
(* changes under them; then it relates what it got, judges its health and  *)
(* makes the canvas of it.  Passes do not overlap: the agent runs them     *)
(* under one mutex (ws_agent.go).                                          *)
(***************************************************************************)
EXTENDS GraphFormat

CONSTANTS
  Settings,    \* initial situations: a scope, what exists, what may not be listed
  Changes,     \* changes of what exists: what goes and what comes
  KubeKinds,   \* the types of Kubernetes, in the order they are listed
  MaxPasses,   \* bound on passes
  MaxChanges,  \* bound on changes
  MaxFaults    \* bound on calls that fail

Layers == {"host", "docker", "lxd", "kubernetes"}
HostTypes == {"process", "service"}
DockerTypes == {"container", "image", "volume", "network"}
KubeTypes == {KubeKinds[n] : n \in DOMAIN KubeKinds}
ListedTypes == HostTypes \cup DockerTypes \cup KubeTypes

ASSUME DiscoveryAssumption ==
  /\ \A s \in Settings : s.scope \subseteq Layers /\ s.forbidden \subseteq KubeTypes
  /\ KubeKinds \in Seq(STRING) /\ {"pod", "deployment", "ingress"} \subseteq KubeTypes
  /\ KubeTypes \cap (HostTypes \cup DockerTypes) = {}
  /\ MaxPasses \in Nat /\ MaxChanges \in Nat /\ MaxFaults \in Nat

VARIABLES
  scope,      \* the layers to discover
  world,      \* what exists, as the kernel, the engines and the API tell it
  forbidden,  \* the types the credential may not list
  running,    \* a pass is under way
  passes,     \* passes begun
  stage,      \* stage[l]: how far the pass is in layer l
  got,        \* got[t]: what a listing of this pass returned, None before it
  next,       \* how many types of Kubernetes have been listed in this pass
  lxdClient,  \* None, or whether LXD's socket was there when first looked for
  kubeClient, \* the API server of the cluster has been resolved
  cache,      \* cache[t]: the last listing of a type, and when it was made
  skipped,    \* the types the pass could not list for lack of permission
  snapshot,   \* the entities, and the errors and permission issues of the pass
  graph,      \* the canvas made of the last pass that ended
  changes, faults,
  history     \* what the properties compare: see below

layerVars == <<stage, got, next, lxdClient, kubeClient, cache, skipped, snapshot>>
vars == <<scope, world, forbidden, running, passes, layerVars, graph, changes, faults, history>>

---------------------------------------------------------------------------
\* Identities.

IdOf(x) == <<x.type, x.ns, x.name>>
Ids(things) == {IdOf(x) : x \in things}

\* The layer that finds a thing; containers and runtimes are told apart by engine.
LayerOf(id) ==
  CASE id[1] \in HostTypes \cup {"host"} -> "host"
    [] id[1] \in {"container", "container_runtime"} -> IF id[2] = "lxd" THEN "lxd" ELSE "docker"
    [] id[1] \in {"image", "volume", "network"} -> "docker"
    [] OTHER -> "kubernetes"

\* What exists has an identity and belongs to a layer of the scope, which lists its
\* type.  Docker's engine is found under one name.
Discoverable(x, layers) ==
  /\ {"type", "ns", "name"} \subseteq DOMAIN x
  /\ LayerOf(IdOf(x)) \in layers
  /\ LayerOf(IdOf(x)) = "kubernetes" => x.type \in KubeTypes
  /\ LayerOf(IdOf(x)) = "docker" /\ x.type = "container_runtime" => x.ns = "" /\ x.name = "docker"

ASSUME ThingsAssumption ==
  /\ \A s \in Settings : \A x \in s.things : Discoverable(x, s.scope)
  /\ \A c \in Changes : \A x \in c.add : Discoverable(x, Layers)

Things(layer, type) == {x \in world : x.type = type /\ LayerOf(IdOf(x)) = layer}
Engine(layer) == Things(layer, "container_runtime")

---------------------------------------------------------------------------
\* Adapters: what they make of a thing they read.

With(x, field, value) ==
  [f \in DOMAIN x \cup {field} |-> IF f = field THEN value ELSE x[f]]

\* Registries have a dot or a port in their name.
ParseImageName(name, registries) ==
  LET first == Head(name.parts)
      Untagged == IF name.tag = "" THEN "latest" ELSE name.tag
  IN  [tag |-> Untagged,
       repository |-> CASE Len(name.parts) = 1 -> <<"library", first>>
                        [] Len(name.parts) = 2 -> IF first \in registries THEN Tail(name.parts) ELSE name.parts
                        [] OTHER -> Tail(name.parts)]

\* The first tag names an image; without one its digest gives the repository.
ParseImage(x) ==
  LET named == CASE x.tags # <<>> -> ParseImageName(Head(x.tags), KnownRegistries)
                 [] x.tags = <<>> /\ x.digests # <<>> ->
                      [ParseImageName(Head(x.digests), KnownRegistries) EXCEPT !.tag = "<none>"]
                 [] OTHER -> [repository |-> <<"<none>">>, tag |-> "<none>"]
  IN  [type |-> "image", ns |-> x.ns, name |-> x.name, imageID |-> x.imageID,
       repository |-> named.repository, tag |-> named.tag, health |-> "healthy"]

\* The first owner counts.  Of a container's state only readiness is kept, not
\* the reason it waits for.
ParsePod(x) ==
  [type |-> "pod", ns |-> x.ns, name |-> x.name, node |-> x.node, labels |-> x.labels,
   hash |-> x.hash, owner |-> IF x.owners = <<>> THEN None ELSE Head(x.owners),
   configMaps |-> x.configMaps, secrets |-> x.secrets, pvcs |-> x.pvcs,
   containers |-> {[name |-> c.name, image |-> c.image, ready |-> c.ready] : c \in x.containers},
   phase |-> x.phase, reasons |-> x.reasons, health |-> "unknown"]

\* Each service is looked up again for its endpoints: the ready pods it selects.
\* Without an answer it counts as a service without endpoints; a name for something
\* outside the cluster needs none.
Endpoints(x) ==
  {p \in Things("kubernetes", "pod") :
     p.ns = x.ns /\ x.selector \subseteq p.labels /\ \A c \in p.containers : c.ready}

ParseService(x, answered) ==
  LET hasEndpoints == answered /\ x.selector # {} /\ Endpoints(x) # {}
  IN  With(x, "health", IF hasEndpoints \/ x.external THEN "healthy" ELSE "degraded")

ParseJob(x) ==
  With(x, "health", IF x.failed THEN "unhealthy" ELSE IF x.active THEN "degraded" ELSE "healthy")

ParseCronJob(x) == With(x, "health", IF x.suspended THEN "degraded" ELSE "healthy")

\* A claim without a volume waits for one.
ParsePVC(x) == With(x, "health", IF x.bound THEN "healthy" ELSE "degraded")

ParseEvent(x) ==
  With(x, "health", IF x.critical THEN "unhealthy" ELSE IF x.warning THEN "degraded" ELSE "healthy")

\* The health of a unit is its active state; a unit that starts, or is active
\* without a process that runs, is degraded.
ParseServiceLine(x) ==
  With(x, "health", CASE x.active = "active" /\ x.sub = "running" -> "healthy"
                      [] x.active = "failed" -> "unhealthy"
                      [] x.active = "inactive" -> "unknown"
                      [] OTHER -> "degraded")

Parse(x, answered) ==
  CASE x.type = "service" -> ParseServiceLine(x)
    [] x.type = "image" -> ParseImage(x)
    [] x.type = "pod" -> ParsePod(x)
    [] x.type = "k8s_service" -> ParseService(x, answered)
    [] x.type = "job" -> ParseJob(x)
    [] x.type = "cronjob" -> ParseCronJob(x)
    [] x.type = "pvc" -> ParsePVC(x)
    [] x.type = "event" -> ParseEvent(x)
    [] OTHER -> With(x, "health", "healthy")

\* Entities by ID: what is added replaces what has the same ID.
Added(ents, things) ==
  [i \in DOMAIN ents \cup Ids(things) |->
     IF i \in Ids(things) THEN CHOOSE x \in things : IdOf(x) = i ELSE ents[i]]

\* What a process listens on and dials, if it still runs when sockets are read.
Sockets(p, field) == UNION {x[field] : x \in {y \in Things("host", "process") : y.name = p.name}}

\* The processes below the main process of a service, by parent.
Descendants(processes, root) ==
  LET below[n \in 0..Cardinality(processes)] ==
        IF n = 0 THEN {root}
        ELSE LET above == below[n - 1]
             IN  above \cup {p.name : p \in {x \in processes : x.parent \in above}}
  IN  below[Cardinality(processes)]

\* The processes of a service, the manager of a user's session having none: those
\* below its main process.  Trees do not overlap: systemd starts each on its own.
TreeOf(s, processes) ==
  IF s.mainPID = None \/ s.userManager THEN {}
  ELSE LET below == Descendants(processes, s.mainPID) IN {p \in processes : p.name \in below}

\* Processes with their ports and units, services with the ports of their trees;
\* without socket data none of it.
EnrichWithSockets(processes, services, readable) ==
  LET trees == [s \in services |-> IF readable THEN TreeOf(s, processes) ELSE {}]
      Unit(p) == {s \in services : p \in trees[s]}
      Own(p, field) == IF readable THEN Sockets(p, field) ELSE {}
  IN  {With(With(With(p, "unit", IF Unit(p) = {} THEN None ELSE (CHOOSE s \in Unit(p) : TRUE).name),
                 "ports", Own(p, "listens")), "outbound", Own(p, "dials")) : p \in processes}
      \cup {With(With(s, "ports", UNION {Own(p, "listens") : p \in trees[s]}),
                 "outbound", UNION {Own(p, "dials") : p \in trees[s]}) : s \in services}

---------------------------------------------------------------------------
Nothing == [i \in {} |-> None]

Init ==
  /\ \E s \in Settings : scope = s.scope /\ world = s.things /\ forbidden = s.forbidden
  /\ running = FALSE /\ passes = 0
  /\ stage = [l \in Layers |-> "done"]
  /\ got = [t \in ListedTypes |-> None]
  /\ next = 0
  /\ lxdClient = None /\ kubeClient = FALSE
  /\ cache = [t \in KubeTypes |-> None]
  /\ skipped = {}
  /\ snapshot = [entities |-> Nothing, errors |-> {}, issues |-> {}]
  /\ graph = [nodes |-> {}, edges |-> {}]
  /\ changes = 0 /\ faults = 0
  /\ history = [lasting |-> {}, silent |-> {}, tainted |-> FALSE, quiet |-> 0]

\* One failed call: the properties are told, and the budget is used.
Fault ==
  /\ faults < MaxFaults
  /\ faults' = faults + 1

Unhurt == UNCHANGED <<faults, history>>

Hurt(silent) ==
  /\ Fault
  /\ history' = [history EXCEPT !.tainted = TRUE, !.silent = @ \cup silent]

\* Layer l ends without its entities and with an error of its own.
Fails(l) ==
  /\ stage' = [stage EXCEPT ![l] = "done"]
  /\ snapshot' = [snapshot EXCEPT !.errors = @ \cup {l}]

Commits(l, things) ==
  /\ stage' = [stage EXCEPT ![l] = "done"]
  /\ snapshot' = [snapshot EXCEPT !.entities = Added(@, things)]

Reaches(l, to) == stage' = [stage EXCEPT ![l] = to] /\ UNCHANGED snapshot

PassFrame == UNCHANGED <<scope, world, forbidden, running, passes, graph, changes>>

---------------------------------------------------------------------------
\* Mutant: a pass begins with every layer, in its scope or not.
BeginPassAll ==
  /\ ~running /\ passes < MaxPasses
  /\ running' = TRUE
  /\ passes' = passes + 1
  /\ stage' = [l \in Layers |-> "start"]
  /\ got' = [t \in ListedTypes |-> None]
  /\ snapshot' = [entities |-> Nothing, errors |-> {}, issues |-> {}]
  /\ history' = [history EXCEPT !.lasting = Ids(world), !.silent = {}, !.tainted = FALSE]
  /\ UNCHANGED <<scope, world, forbidden, next, lxdClient, kubeClient, cache, skipped, graph,
                 changes, faults>>

\* A pass begins with every layer of its scope at once.
BeginPass ==
  /\ ~running /\ passes < MaxPasses
  /\ running' = TRUE
  /\ passes' = passes + 1
  /\ stage' = [l \in Layers |-> IF l \in scope THEN "start" ELSE "done"]
  /\ got' = [t \in ListedTypes |-> None]
  /\ snapshot' = [entities |-> Nothing, errors |-> {}, issues |-> {}]
  /\ history' = [history EXCEPT !.lasting = Ids(world), !.silent = {}, !.tainted = FALSE]
  /\ UNCHANGED <<scope, world, forbidden, next, lxdClient, kubeClient, cache, skipped, graph,
                 changes, faults>>

\* The host itself must be readable.
HostInfo ==
  /\ stage["host"] = "start"
  /\ \/ Reaches("host", "lists") /\ Unhurt
     \/ Fails("host") /\ Hurt({})
  /\ UNCHANGED <<got, next, lxdClient, kubeClient, cache, skipped>>
  /\ PassFrame

\* systemctl puts a bullet before the line of a unit that failed or was not loaded,
\* and the words of a line are taken by their place: the bullet becomes the name, and
\* each state the one before it.  No unit of that name has a process.
Bulleted(x) == x.type = "service" /\ (x.active = "failed" \/ x.load # "loaded")

ServiceLine(x) ==
  IF Bulleted(x)
  THEN [x EXCEPT !.name = "bullet", !.active = x.load, !.sub = x.active, !.mainPID = None,
                 !.critical = FALSE, !.userManager = FALSE]
  ELSE x

\* What a list may pass over: nothing, one process or line, or all when it cannot be had.
Losses(things) == {{}, things} \cup {{x} : x \in things}

\* A unit that systemctl does not show keeps what its line in the list says.
Undetailed(s) == [s EXCEPT !.mainPID = None]

\* Its processes and its services are listed in parallel; what is passed over is not
\* missed, a unit that cannot be shown has no main process, and neither is an error.
HostList(t) ==
  LET things == Things("host", t)
      misfiled == Ids({x \in things : Bulleted(x)})
  IN  /\ stage["host"] = "lists" /\ got[t] = None
      /\ \/ \E missed \in Losses(things) :
              /\ got' = [got EXCEPT ![t] = {ServiceLine(x) : x \in things \ missed}]
              /\ IF missed = {}
                 THEN /\ history' = [history EXCEPT !.silent = @ \cup misfiled]
                      /\ UNCHANGED faults
                 ELSE Hurt(Ids(missed) \cup misfiled)
         \/ /\ t = "service"
            /\ \E s \in {x \in things : x.mainPID # None} :
                 got' = [got EXCEPT ![t] = {ServiceLine(x) : x \in things \ {s}}
                                           \cup {Undetailed(ServiceLine(s))}]
            /\ Hurt(misfiled)
  /\ UNCHANGED <<stage, next, lxdClient, kubeClient, cache, skipped, snapshot>>
  /\ PassFrame

\* Sockets are read last; then all of the host enters the snapshot.
HostCommit ==
  /\ stage["host"] = "lists" /\ \A t \in HostTypes : got[t] # None
  /\ \E readable \in BOOLEAN :
       /\ Commits("host", {Parse(x, TRUE) :
                             x \in Things("host", "host") \cup
                                   EnrichWithSockets(got["process"], got["service"], readable)})
       /\ IF readable THEN Unhurt ELSE Hurt({})
  /\ UNCHANGED <<got, next, lxdClient, kubeClient, cache, skipped>>
  /\ PassFrame

---------------------------------------------------------------------------
\* Docker answers or the layer fails.
DockerStart ==
  /\ stage["docker"] = "start"
  /\ \/ Engine("docker") # {} /\ Reaches("docker", "lists") /\ Unhurt
     \/ Engine("docker") = {} /\ Fails("docker") /\ Unhurt
     \/ Fails("docker") /\ Hurt({})
  /\ UNCHANGED <<got, next, lxdClient, kubeClient, cache, skipped>>
  /\ PassFrame

\* Four lists in parallel.  A list that fails fails the layer; a container that
\* cannot be inspected is left out and is no error.
DockerList(t) ==
  /\ stage["docker"] = "lists" /\ got[t] = None
  /\ \/ /\ Engine("docker") # {}
        /\ \E silent \in {{}} \cup (IF t = "container" THEN {{x} : x \in Things("docker", t)} ELSE {}) :
             /\ got' = [got EXCEPT ![t] = {Parse(x, TRUE) : x \in Things("docker", t) \ silent}]
             /\ IF silent = {} THEN Unhurt ELSE Hurt(Ids(silent))
        /\ UNCHANGED <<stage, snapshot>>
     \/ Engine("docker") = {} /\ Fails("docker") /\ Unhurt /\ UNCHANGED got
     \/ Fails("docker") /\ Hurt({}) /\ UNCHANGED got
  /\ UNCHANGED <<next, lxdClient, kubeClient, cache, skipped>>
  /\ PassFrame

DockerRuntime == [type |-> "container_runtime", ns |-> "", name |-> "docker", health |-> "unknown"]

DockerCommit ==
  /\ stage["docker"] = "lists" /\ \A t \in DockerTypes : got[t] # None
  /\ Commits("docker", {DockerRuntime} \cup UNION {got[t] : t \in DockerTypes})
  /\ Unhurt
  /\ UNCHANGED <<got, next, lxdClient, kubeClient, cache, skipped>>
  /\ PassFrame

---------------------------------------------------------------------------
\* The socket of LXD or Incus is looked for once in the life of the agent.
LXDStart ==
  /\ stage["lxd"] = "start"
  /\ lxdClient' = IF lxdClient = None THEN Engine("lxd") # {} ELSE lxdClient
  /\ \/ lxdClient' /\ Engine("lxd") # {} /\ Reaches("lxd", "lists") /\ Unhurt
     \/ (~lxdClient' \/ Engine("lxd") = {}) /\ Fails("lxd") /\ Unhurt
     \/ Fails("lxd") /\ Hurt({})
  /\ UNCHANGED <<got, next, kubeClient, cache, skipped>>
  /\ PassFrame

\* One request returns every instance with its state.
LXDCommit ==
  /\ stage["lxd"] = "lists"
  /\ \/ /\ Engine("lxd") # {}
        /\ Commits("lxd", {With(x, "health", "unknown") :
                             x \in Engine("lxd") \cup Things("lxd", "container")})
        /\ Unhurt
     \/ Engine("lxd") = {} /\ Fails("lxd") /\ Unhurt
     \/ Fails("lxd") /\ Hurt({})
  /\ UNCHANGED <<got, next, lxdClient, kubeClient, cache, skipped>>
  /\ PassFrame

---------------------------------------------------------------------------
\* The client is made once the credentials resolve; then the API server must
\* answer, and give its version unless that is cached.
KubeStart ==
  /\ stage["kubernetes"] = "start"
  /\ \/ kubeClient' = TRUE /\ Reaches("kubernetes", "lists") /\ Unhurt
     \/ kubeClient' \in {kubeClient, TRUE} /\ Fails("kubernetes") /\ Hurt({})
  /\ next' = 0
  /\ skipped' = {}
  /\ UNCHANGED <<got, lxdClient, cache>>
  /\ PassFrame

Turn(t) ==
  /\ stage["kubernetes"] \in {"lists", "broken"}
  /\ next < Len(KubeKinds) /\ KubeKinds[next + 1] = t
  /\ next' = next + 1
  /\ PassFrame

\* A listing that has not expired is used again.  Ingresses are not cached.
KubeHit(t) ==
  /\ Turn(t)
  /\ cache[t] # None
  /\ got' = [got EXCEPT ![t] = cache[t].items]
  /\ history' = [history EXCEPT
       !.tainted = @ \/ cache[t].items # {Parse(x, TRUE) : x \in Things("kubernetes", t)},
       !.lasting = {i \in @ : i[1] = t => i \in cache[t].ids}]
  /\ UNCHANGED <<stage, lxdClient, kubeClient, cache, skipped, snapshot, faults>>

\* The API lists the type, and the list is cached.  The endpoints of each service are
\* asked for by themselves.
KubeList(t) ==
  /\ Turn(t)
  /\ t \notin forbidden
  /\ LET things == Things("kubernetes", t) IN
     \E unanswered \in IF t = "k8s_service" THEN SUBSET things ELSE {{}} :
       LET items == {Parse(x, x \notin unanswered) : x \in things} IN
       /\ got' = [got EXCEPT ![t] = items]
       /\ cache' = IF t = "ingress" THEN cache
                   ELSE [cache EXCEPT ![t] = [items |-> items, ids |-> Ids(things)]]
       /\ IF unanswered = {} THEN Unhurt ELSE Hurt({})
  /\ UNCHANGED <<stage, lxdClient, kubeClient, skipped, snapshot>>

\* A type that may not be listed is skipped and noted, unless a list failed before.
KubeForbidden(t) ==
  /\ Turn(t)
  /\ t \in forbidden
  /\ got' = [got EXCEPT ![t] = {}]
  /\ skipped' = IF stage["kubernetes"] = "broken" THEN skipped ELSE skipped \cup {t}
  /\ UNCHANGED <<stage, lxdClient, kubeClient, cache, snapshot>>
  /\ Unhurt

\* Any other error will fail the layer, when the other types have been listed.
KubeBreaks(t) ==
  /\ Turn(t)
  /\ Hurt({})
  /\ got' = [got EXCEPT ![t] = {}]
  /\ stage' = [stage EXCEPT !["kubernetes"] = "broken"]
  /\ UNCHANGED <<lxdClient, kubeClient, cache, skipped, snapshot>>

ClusterEntity == [type |-> "cluster", ns |-> "", name |-> "cluster", health |-> "healthy"]

\* Mutant: the lists that could be had are kept, and no error is returned.
KubeCommitPartly ==
  /\ stage["kubernetes"] \in {"lists", "broken"} /\ next = Len(KubeKinds)
  /\ stage' = [stage EXCEPT !["kubernetes"] = "done"]
  /\ snapshot' = [snapshot EXCEPT
       !.entities = Added(@, {ClusterEntity} \cup UNION {got[t] : t \in KubeTypes}),
       !.issues = @ \cup skipped]
  /\ UNCHANGED <<got, next, lxdClient, kubeClient, cache, skipped>>
  /\ Unhurt
  /\ PassFrame

\* A list that failed fails the layer, and so does a credential that may list
\* neither pods nor deployments.
KubeCommit ==
  /\ stage["kubernetes"] \in {"lists", "broken"} /\ next = Len(KubeKinds)
  /\ IF stage["kubernetes"] = "broken" \/ {"pod", "deployment"} \subseteq skipped
     THEN Fails("kubernetes")
     ELSE /\ stage' = [stage EXCEPT !["kubernetes"] = "done"]
          /\ snapshot' = [snapshot EXCEPT
               !.entities = Added(@, {ClusterEntity} \cup UNION {got[t] : t \in KubeTypes}),
               !.issues = @ \cup skipped]
  /\ UNCHANGED <<got, next, lxdClient, kubeClient, cache, skipped>>
  /\ Unhurt
  /\ PassFrame

---------------------------------------------------------------------------
\* When every layer has ended, relations and health are made of the snapshot,
\* whatever the order of its map, and the canvas of both.
EndPass ==
  /\ running /\ \A l \in Layers : stage[l] = "done"
  /\ running' = FALSE
  /\ \E pick \in Picks(snapshot.entities) :
       LET relations == BuildRelationships(snapshot.entities, pick)
       IN  graph' = Format(CalculateHealthForAll(snapshot.entities), relations)
  /\ history' = [history EXCEPT !.quiet = IF history.tainted THEN 0 ELSE @ + 1]
  /\ UNCHANGED <<scope, world, forbidden, passes, layerVars, changes, faults>>

\* What exists changes at any time: something goes, something comes.
WorldChanges ==
  /\ changes < MaxChanges
  /\ \E c \in Changes :
       /\ c.drop \subseteq world /\ c.add \cap world = {}
       /\ \A x \in c.add : LayerOf(IdOf(x)) \in scope
       /\ world' = (world \ c.drop) \cup c.add
       /\ history' = [history EXCEPT !.tainted = TRUE, !.quiet = 0,
                                     !.lasting = @ \cap Ids((world \ c.drop) \cup c.add)]
  /\ changes' = changes + 1
  /\ UNCHANGED <<scope, forbidden, running, passes, layerVars, graph, faults>>

\* The bound on passes is reached.
AllPassesDone == passes = MaxPasses /\ ~running /\ UNCHANGED vars

Next ==
  \/ BeginPass
  \/ HostInfo \/ (\E t \in HostTypes : HostList(t)) \/ HostCommit
  \/ DockerStart \/ (\E t \in DockerTypes : DockerList(t)) \/ DockerCommit
  \/ LXDStart \/ LXDCommit
  \/ KubeStart
  \/ \E t \in KubeTypes : KubeHit(t) \/ KubeList(t) \/ KubeForbidden(t) \/ KubeBreaks(t)
  \/ KubeCommit
  \/ EndPass \/ WorldChanges \/ AllPassesDone

Spec == Init /\ [][Next]_vars

---------------------------------------------------------------------------
\* Properties.

TypeOK ==
  /\ scope \subseteq Layers /\ forbidden \subseteq KubeTypes
  /\ running \in BOOLEAN /\ passes \in 0..MaxPasses
  /\ stage \in [Layers -> {"start", "lists", "broken", "done"}]
  /\ \A l \in Layers \ scope : stage[l] = "done"
  /\ DOMAIN got = ListedTypes /\ next \in 0..Len(KubeKinds)
  /\ lxdClient \in {None} \cup BOOLEAN /\ kubeClient \in BOOLEAN
  /\ DOMAIN cache = KubeTypes /\ cache["ingress"] = None /\ skipped \subseteq forbidden
  /\ \A i \in DOMAIN snapshot.entities : IdOf(snapshot.entities[i]) = i
  /\ snapshot.errors \subseteq scope /\ snapshot.issues \subseteq skipped
  /\ changes \in 0..MaxChanges /\ faults \in 0..MaxFaults

\* What is drawn is a graph: every edge joins two nodes, no two edges have one ID
\* although IDs leave out the type, every node but a root has an edge, and nothing
\* of a hidden type is drawn.  The browser and the differ key nodes and edges by ID.
EdgesHaveEnds == \A e \in graph.edges : {e.source, e.target} \subseteq {n.id : n \in graph.nodes}
EdgeIDsAreUnique == \A e, f \in graph.edges : e.id = f.id => e = f
NoneIsLoose ==
  \A n \in graph.nodes : n.type \in AlwaysKept \/ \E e \in graph.edges : n.id \in {e.source, e.target}
NoneIsHidden == \A n \in graph.nodes : n.type \notin HiddenTypes

GraphIsWellFormed == EdgesHaveEnds /\ EdgeIDsAreUnique /\ NoneIsLoose /\ NoneIsHidden

\* After a pass, whatever existed throughout it is in the snapshot, or the pass
\* says that its layer failed or that its type may not be listed.  Left out: what
\* is newer than the cached list of its type, and what is lost without a word: a
\* container that cannot be inspected (containers.go:51), a process or a unit's line
\* that cannot be parsed (host.go:285, services.go:42), all of them when /proc or
\* systemd cannot be read (host/discovery.go:79), and the units that systemctl marks
\* with a bullet (services.go:65).
MissingIsReported ==
  ~running =>
    \A i \in history.lasting \ history.silent :
      \/ i \in DOMAIN snapshot.entities
      \/ LayerOf(i) \in snapshot.errors
      \/ i[1] \in snapshot.issues

\* Two services claim one port, two processes one that no service has, two images
\* one name, or two runtimes what Docker holds: the order of the map decides, and
\* the canvas may flap.
Contested(ents) ==
  LET Common(i, j) == IF i = j THEN {} ELSE ents[i].ports \cap ents[j].ports
      Served == UNION {ents[s].ports : s \in Services(ents)}
  IN  \/ \E i, j \in Runtimes(ents) : i # j
      \/ \E i, j \in Services(ents) : Common(i, j) # {}
      \/ \E i, j \in FreeProcesses(ents) : ~(Common(i, j) \subseteq Served)
      \/ \E i, j \in NamedImages(ents) :
           i # j /\ NormalizeImageName(ImageName(ents[i])) = NormalizeImageName(ImageName(ents[j]))

\* A second pass over what has not changed, in which no call fails, draws the
\* same canvas: the agent sends a diff only when something did change.
SteadyGraph ==
  [][running /\ ~running' /\ ~history.tainted /\ history.quiet > 0
       /\ ~Contested(snapshot.entities) => graph' = graph]_vars
==============================================================================
