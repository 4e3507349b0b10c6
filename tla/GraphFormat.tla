------------------------------ MODULE GraphFormat ------------------------------
(***************************************************************************)
(* pkg/output/graph.go: the canvas made of a snapshot.  The agent always   *)
(* formats with FilterNoise set.                                           *)
(***************************************************************************)
EXTENDS Relationships

\* Types that are never drawn.
HiddenTypes == {"configmap", "secret", "pv", "storageclass"}

\* A dangling image has neither repository nor tag.
Dangling(e) == e.type = "image" /\ e.repository = <<"<none>">> /\ e.tag = "<none>"

\* Noise: what serves nothing, is already drawn as its service, or is no news.
\* The status of a unit starts with its active state.
ShouldFilter(e) ==
  \/ e.type \in HiddenTypes
  \/ Dangling(e)
  \/ e.type = "process" /\ (e.ports = {} \/ e.unit # None)
  \/ e.type = "service" /\ e.ports = {} /\ e.active # "failed" /\ ~e.critical
  \/ e.type = "event" /\ ~e.critical

\* An image is labelled by the last part of its repository, an event
\* by its reason; the rest of a node's data is left out.
Label(e) ==
  CASE e.type = "image" -> IF e.repository # <<"<none>">> /\ e.tag # "<none>"
                           THEN e.repository[Len(e.repository)] ELSE "unnamed-image"
    [] e.type = "event" -> e.reason
    [] OTHER -> e.name

EntityToNode(id, e) == [id |-> id, type |-> e.type, label |-> Label(e), health |-> e.health]

\* The build cache, drawn as one node in place of the dangling images.
DanglingGroup ==
  [id |-> <<"image_group", "", "dangling-images">>, type |-> "image_group",
   label |-> "Build Cache", health |-> "unknown"]

IsFiltered(id, ents) == IF id \in DOMAIN ents THEN ShouldFilter(ents[id]) ELSE TRUE

\* The ID of an edge does not name its type.
EdgeOf(r) ==
  [id |-> <<r.source, r.target>>, source |-> r.source, target |-> r.target,
   type |-> r.type, note |-> r.note]

AlwaysKept == {"host", "cluster", "container_runtime"}

NodesOf(ents) ==
  {EntityToNode(i, ents[i]) : i \in {x \in DOMAIN ents : ~ShouldFilter(ents[x])}}
  \cup (IF \E i \in DOMAIN ents : Dangling(ents[i]) THEN {DanglingGroup} ELSE {})

\* Mutant: only the source of an edge is looked up.
EdgesOfSources(ents, relations) == {EdgeOf(r) : r \in {x \in relations : ~IsFiltered(x.source, ents)}}

EdgesOf(ents, relations) ==
  {EdgeOf(r) : r \in {x \in relations : ~IsFiltered(x.source, ents) /\ ~IsFiltered(x.target, ents)}}

\* A node without an edge is dropped unless it is a root.
Connected(nodes, edges) ==
  {n \in nodes : n.type \in AlwaysKept \/ \E e \in edges : n.id \in {e.source, e.target}}

Format(ents, relations) ==
  LET edges == EdgesOf(ents, relations)
  IN  [nodes |-> Connected(NodesOf(ents), edges), edges |-> edges]
==============================================================================
