--------------------------- MODULE GraphStreamProofs ---------------------------
(* Theorems about GraphStream: what a diff does to a graph, the type         *)
(* invariant, that a diff never goes without a base, and that browsers stay  *)
(* in step with what the agent published.                                    *)
EXTENDS GraphStream, SequenceTheorems, TLAPS

\* A graph is a function from some of the items to their content.
LEMMA GraphForm ==
  ASSUME NEW g
  PROVE  g \in Graphs <=> DOMAIN g \subseteq Items /\ g \in [DOMAIN g -> Content]
<1>1. ASSUME g \in Graphs
      PROVE  DOMAIN g \subseteq Items /\ g \in [DOMAIN g -> Content]
  <2>1. PICK S \in SUBSET Items : g \in [S -> Content]
    BY <1>1 DEF Graphs
  <2>2. QED
    BY <2>1
<1>2. ASSUME DOMAIN g \subseteq Items, g \in [DOMAIN g -> Content]
      PROVE  g \in Graphs
  BY <1>2 DEF Graphs
<1>3. QED
  BY <1>1, <1>2

\* Applying a diff of graphs to a graph yields a graph.
LEMMA PatchedGraph ==
  ASSUME NEW g \in Graphs, NEW from \in Graphs, NEW to \in Graphs
  PROVE  Patched(g, from, to) \in Graphs
<1> DEFINE D == (DOMAIN g \cup Put(from, to)) \ Removed(from, to)
<1>1. /\ DOMAIN g \subseteq Items /\ g \in [DOMAIN g -> Content]
      /\ DOMAIN to \subseteq Items /\ to \in [DOMAIN to -> Content]
  BY GraphForm
<1>2. Put(from, to) \subseteq DOMAIN to
  BY DEF Put
<1>3. D \subseteq Items
  BY <1>1, <1>2
<1>4. \A i \in D : (IF i \in Put(from, to) THEN to[i] ELSE g[i]) \in Content
  <2> TAKE i \in D
  <2>1. CASE i \in Put(from, to)
    BY <2>1, <1>1, <1>2
  <2>2. CASE i \notin Put(from, to)
    BY <2>2, <1>1
  <2>3. QED
    BY <2>1, <2>2
<1>5. Patched(g, from, to) \in [D -> Content]
  BY <1>4 DEF Patched
<1>6. QED
  BY <1>3, <1>5, GraphForm

\* A diff takes a graph that looks like the one it starts from to one that looks
\* like the one it leads to, whatever else the graph holds.
THEOREM DiffReachesTarget ==
  ASSUME NEW g \in Graphs, NEW from \in Graphs, NEW to \in Graphs,
         LookOf(g) = LookOf(from)
  PROVE  LookOf(Patched(g, from, to)) = LookOf(to)
<1> DEFINE P == Patched(g, from, to)
<1>1. DOMAIN g = DOMAIN from /\ \A i \in DOMAIN g : g[i].look = from[i].look
  <2>1. DOMAIN LookOf(g) = DOMAIN g /\ DOMAIN LookOf(from) = DOMAIN from
    BY DEF LookOf
  <2>2. \A i \in DOMAIN g : LookOf(g)[i] = g[i].look
    BY DEF LookOf
  <2>3. \A i \in DOMAIN from : LookOf(from)[i] = from[i].look
    BY DEF LookOf
  <2>4. QED
    BY <2>1, <2>2, <2>3
<1>2. DOMAIN P = DOMAIN to
  <2>1. DOMAIN P = (DOMAIN g \cup Put(from, to)) \ Removed(from, to)
    BY DEF Patched
  <2>2. QED
    BY <2>1, <1>1 DEF Put, Removed
<1>3. \A i \in DOMAIN to : P[i].look = to[i].look
  <2> TAKE i \in DOMAIN to
  <2>1. P[i] = IF i \in Put(from, to) THEN to[i] ELSE g[i]
    BY <1>2 DEF Patched
  <2>2. CASE i \in Put(from, to)
    BY <2>1, <2>2
  <2>3. CASE i \notin Put(from, to)
    <3>1. i \in DOMAIN from /\ from[i].look = to[i].look
      BY <2>3 DEF Put
    <3>2. QED
      BY <2>1, <2>3, <3>1, <1>1
  <2>4. QED
    BY <2>2, <2>3
<1>4. LookOf(P) = [i \in DOMAIN to |-> P[i].look]
  BY <1>2 DEF LookOf
<1>5. QED
  BY <1>3, <1>4 DEF LookOf

\* computeDiff sends nothing only if the graphs look alike.
LEMMA UnchangedLooks ==
  ASSUME NEW from \in Graphs, NEW to \in Graphs, Unchanged(from, to)
  PROVE  LookOf(from) = LookOf(to)
<1>1. DOMAIN from = DOMAIN to /\ \A i \in DOMAIN to : from[i].look = to[i].look
  BY DEF Unchanged, Put, Removed
<1>2. QED
  BY <1>1 DEF LookOf

\* What a browser shows after a message is a graph, or still nothing.
LEMMA ShownType ==
  ASSUME NEW v \in OptGraph, NEW msg \in Messages
  PROVE  Shown(v, msg) \in OptGraph
<1>1. CASE msg.type = "snapshot"
  BY <1>1 DEF Shown, Messages, OptGraph, NoMessage, DiscoveryError
<1>2. CASE msg.type = "diff" /\ v # None
  <2>1. v \in Graphs /\ msg.from \in Graphs /\ msg.to \in Graphs
    BY <1>2 DEF Messages, OptGraph, NoMessage, DiscoveryError
  <2>2. QED
    BY <1>2, <2>1, PatchedGraph DEF Shown, OptGraph
<1>3. CASE msg.type # "snapshot" /\ ~(msg.type = "diff" /\ v # None)
  BY <1>3 DEF Shown
<1>4. QED
  BY <1>1, <1>2, <1>3

-----------------------------------------------------------------------------
\* A publisher that has something to send holds the graphs it sends, and only
\* the ticker sends diffs.
HoldsGraph ==
  \A p \in Publishers :
    /\ pub[p].pc \in {"collected", "full", "diff", "sent"} => pub[p].graph \in Graphs
    /\ pub[p].pc = "diff" => pub[p].from \in Graphs

TypeInv == TypeOK /\ HoldsGraph

PubRecord ==
  [pc : {"unused", "idle", "collecting", "collected", "failed", "full", "diff", "sent",
         "done"},
   from : OptGraph, graph : OptGraph]

\* Changing one publisher keeps the publishers well formed.
LEMMA PubUpdate ==
  ASSUME TypeInv, NEW p \in Publishers, NEW r \in PubRecord,
         r.pc \in {"collected", "full", "diff", "sent"} => r.graph \in Graphs,
         r.pc = "diff" => r.from \in Graphs,
         pub' = [pub EXCEPT ![p] = r]
  PROVE  pub' \in [Publishers -> PubRecord] /\ HoldsGraph'
<1>1. pub \in [Publishers -> PubRecord]
  BY DEF TypeInv, TypeOK, PubRecord
<1>2. pub' \in [Publishers -> PubRecord]
  BY <1>1
<1>3. \A q \in Publishers : pub'[q] = IF q = p THEN r ELSE pub[q]
  BY <1>1
<1>4. HoldsGraph'
  BY <1>3 DEF TypeInv, HoldsGraph
<1>5. QED
  BY <1>2, <1>4

\* What is sent extends the wire with a message, or is lost.
LEMMA SendsType ==
  ASSUME TypeInv, NEW msg \in Messages, Sends(msg)
  PROVE  wire' \in Seq(Messages)
<1>1. wire \in Seq(Messages)
  BY DEF TypeInv, TypeOK
<1>2. QED
  BY <1>1 DEF Sends

LEMMA SentMessages ==
  ASSUME NEW f \in Graphs, NEW g \in Graphs
  PROVE  /\ Snapshot(g) \in Messages
         /\ GraphDiff(f, g) \in Messages
         /\ DiscoveryError \in Messages
         /\ NoMessage \in Messages
BY DEF Snapshot, GraphDiff, DiscoveryError, NoMessage, Messages

LEMMA InitTyped == Init => TypeInv
<1> SUFFICES ASSUME Init PROVE TypeInv
  OBVIOUS
<1>1. NoMessage \in Messages
  BY DEF Messages
<1>2. pub \in [Publishers -> PubRecord]
  BY DEF Init, PubRecord, OptGraph, Idle, Unused
<1>3. HoldsGraph
  BY DEF Init, HoldsGraph, Idle, Unused
<1>4. bh \in [Browsers -> [pc : {"away", "attached", "notified", "replaying", "reading"},
                           cached : Messages]]
  BY <1>1 DEF Init
<1>5. route \in [pc : {"idle", "routing", "casting"}, msg : Messages, to : SUBSET Browsers]
  BY <1>1 DEF Init, NoRoute
<1>6. spent \in [changes : 0..MaxChanges, troubles : 0..MaxTroubles]
  BY BoundsAssumption DEF Init
<1>7. view \in [Browsers -> OptGraph] /\ last \in OptGraph
  BY DEF Init, OptGraph
<1>8. world \in Graphs /\ booted \in BOOLEAN /\ link \in BOOLEAN /\ overlap \in BOOLEAN
  BY DEF Init
<1>9. pending \in SUBSET (Refreshes \cup Browsers) /\ rewound \in SUBSET Browsers
  BY DEF Init
<1>10. wire \in Seq(Messages) /\ cached \in Messages
  BY <1>1 DEF Init
<1>11. TypeOK
  BY <1>2, <1>4, <1>5, <1>6, <1>7, <1>8, <1>9, <1>10 DEF TypeOK, PubRecord
<1>12. QED
  BY <1>3, <1>11 DEF TypeInv

\* The environment's steps keep the types.
LEMMA EnvironmentTyped == TypeInv /\ Environment => TypeInv'
<1> SUFFICES ASSUME TypeInv, Environment PROVE TypeInv'
  OBVIOUS
<1> USE DEF TypeInv, HoldsGraph
<1>1. CASE WorldChanges
  <2>1. spent' \in [changes : 0..MaxChanges, troubles : 0..MaxTroubles]
    BY <1>1, BoundsAssumption DEF WorldChanges, TypeOK
  <2>2. QED
    BY <1>1, <2>1 DEF WorldChanges, TypeOK, agentVars, hubVars, shown
<1>2. CASE LinkBreaks
  <2>1. wire' \in Seq(Messages)
    <3>1. PICK n \in 0..Len(wire) : wire' = SubSeq(wire, 1, n)
      BY <1>2 DEF LinkBreaks
    <3>2. wire \in Seq(Messages)
      BY DEF TypeOK
    <3>3. \A i \in 1..n : wire[i] \in Messages
      BY <3>2
    <3>4. QED
      BY <3>1, <3>2, <3>3, SubSeqProperties
  <2>2. QED
    BY <1>2, <2>1 DEF LinkBreaks, TypeOK, agentVars, hubVars, shown
<1>3. CASE AgentRestarts
  <2>1. spent' \in [changes : 0..MaxChanges, troubles : 0..MaxTroubles]
    BY <1>3, BoundsAssumption DEF AgentRestarts, TypeOK
  <2>2. pub' \in [Publishers -> PubRecord]
    BY <1>3 DEF AgentRestarts, PubRecord, OptGraph, Idle, Unused, Done
  <2>3. HoldsGraph'
    BY <1>3 DEF AgentRestarts, Idle, Unused, Done
  <2>4. last' \in OptGraph /\ booted' \in BOOLEAN /\ link' \in BOOLEAN /\ pending' = {}
    BY <1>3 DEF AgentRestarts, OptGraph
  <2>5. wire' \in Seq(Messages)
    BY <1>3 DEF AgentRestarts
  <2>6. QED
    BY <1>3, <2>1, <2>2, <2>3, <2>4, <2>5
    DEF AgentRestarts, TypeOK, PubRecord, hubVars, shown
<1>4. QED
  BY <1>1, <1>2, <1>3 DEF Environment

\* So do the steps of the publishers and of the command loop.
LEMMA PublishersTyped ==
  TypeInv /\ ((\E p \in Publishers : Publish(p)) \/ CommandLoop) => TypeInv'
<1> SUFFICES ASSUME TypeInv, (\E p \in Publishers : Publish(p)) \/ CommandLoop
             PROVE  TypeInv'
  OBVIOUS
<1>a. TypeOK /\ HoldsGraph /\ pub \in [Publishers -> PubRecord]
  BY DEF TypeInv, TypeOK, PubRecord
<1>b. Idle \in PubRecord /\ Done \in PubRecord
  BY DEF Idle, Done, PubRecord, OptGraph
<1>1. ASSUME NEW p \in Publishers, Collect(p) PROVE TypeInv'
  <2> DEFINE r == [pub[p] EXCEPT !.pc = IF p = Ticker THEN "collected" ELSE "full",
                                 !.graph = world]
  <2>1. pub' = [pub EXCEPT ![p] = r]
    BY <1>1, <1>a DEF Collect
  <2>2. r \in PubRecord /\ r.graph \in Graphs /\ r.pc # "diff"
    <3>1. world \in Graphs
      BY <1>a DEF TypeOK
    <3>2. pub[p] \in PubRecord
      BY <1>a
    <3>3. QED
      BY <3>1, <3>2 DEF PubRecord, OptGraph
  <2>3. pub' \in [Publishers -> PubRecord] /\ HoldsGraph'
    BY <2>1, <2>2, PubUpdate
  <2>4. overlap' \in BOOLEAN
    BY <1>1, <1>a DEF Collect, TypeOK
  <2>5. QED
    BY <1>1, <1>a, <2>3, <2>4 DEF Collect, TypeInv, TypeOK, PubRecord, hubVars, shown
<1>2. ASSUME NEW p \in Publishers, CollectFails(p) PROVE TypeInv'
  <2>1. PICK r \in {[pub[p] EXCEPT !.pc = "failed"], Done} : pub' = [pub EXCEPT ![p] = r]
    BY <1>2, <1>a DEF CollectFails
  <2>2. r \in PubRecord /\ r.pc \notin {"collected", "full", "diff", "sent"}
    BY <1>a, <1>b, <2>1 DEF PubRecord, Done
  <2>3. pub' \in [Publishers -> PubRecord] /\ HoldsGraph'
    BY <2>1, <2>2, PubUpdate
  <2>4. overlap' \in BOOLEAN
    BY <1>2, <1>a DEF CollectFails, TypeOK
  <2>5. spent' \in [changes : 0..MaxChanges, troubles : 0..MaxTroubles]
    BY <1>2, <1>a, BoundsAssumption DEF CollectFails, TypeOK
  <2>6. QED
    BY <1>2, <1>a, <2>3, <2>4, <2>5 DEF CollectFails, TypeInv, TypeOK, PubRecord, hubVars, shown
<1>3. CASE Decide
  <2> DEFINE r == [pub[Ticker] EXCEPT
                    !.from = last,
                    !.pc = IF last = None THEN "full"
                           ELSE IF Unchanged(last, pub[Ticker].graph) THEN "sent" ELSE "diff"]
  <2>1. Ticker \in Publishers
    BY DEF Publishers
  <2>2. pub' = [pub EXCEPT ![Ticker] = r]
    BY <1>3, <1>a, <2>1 DEF Decide
  <2>3. r \in PubRecord /\ r.graph \in Graphs /\ (r.pc = "diff" => r.from \in Graphs)
    BY <1>3, <1>a, <2>1 DEF Decide, PubRecord, OptGraph, TypeOK, HoldsGraph
  <2>4. pub' \in [Publishers -> PubRecord] /\ HoldsGraph'
    BY <2>1, <2>2, <2>3, PubUpdate
  <2>5. QED
    BY <1>3, <1>a, <2>4 DEF Decide, TypeInv, TypeOK, PubRecord, hubVars, shown
<1>4. CASE ReportFailure
  <2>1. Ticker \in Publishers
    BY DEF Publishers
  <2>2. pub' \in [Publishers -> PubRecord] /\ HoldsGraph'
    BY <1>4, <1>b, <2>1, PubUpdate DEF ReportFailure, Idle
  <2>3. wire' \in Seq(Messages)
    <3>1. CASE last = None
      <4>1. DiscoveryError \in Messages
        BY DEF Messages
      <4>2. QED
        BY <1>4, <3>1, <4>1, SendsType DEF ReportFailure
    <3>2. CASE last # None
      BY <1>4, <1>a, <3>2 DEF ReportFailure, TypeOK
    <3>3. QED
      BY <3>1, <3>2
  <2>4. QED
    BY <1>4, <1>a, <2>2, <2>3 DEF ReportFailure, TypeInv, TypeOK, PubRecord, hubVars, shown
<1>5. ASSUME NEW p \in Publishers, Send(p) PROVE TypeInv'
  <2> DEFINE r == IF p \in Browsers THEN Done ELSE [pub[p] EXCEPT !.pc = "sent"]
  <2>1. pub' = [pub EXCEPT ![p] = r]
    BY <1>5, <1>a DEF Send
  <2>2. r \in PubRecord /\ (r.pc = "sent" => r.graph \in Graphs)
        /\ r.pc \notin {"collected", "full", "diff"}
    BY <1>5, <1>a, <1>b DEF Send, PubRecord, Done, HoldsGraph
  <2>3. pub' \in [Publishers -> PubRecord] /\ HoldsGraph'
    BY <2>1, <2>2, PubUpdate
  <2>4. wire' \in Seq(Messages)
    <3>1. CASE pub[p].pc = "full"
      <4>1. Snapshot(pub[p].graph) \in Messages
        BY <3>1, <1>a, SentMessages DEF HoldsGraph
      <4>2. QED
        BY <1>5, <3>1, <4>1, SendsType DEF Send
    <3>2. CASE pub[p].pc = "diff"
      <4>1. GraphDiff(pub[p].from, pub[p].graph) \in Messages
        BY <3>2, <1>a, SentMessages DEF HoldsGraph
      <4>2. QED
        BY <1>5, <3>2, <4>1, SendsType DEF Send
    <3>3. QED
      BY <1>5, <3>1, <3>2 DEF Send
  <2>5. QED
    BY <1>5, <1>a, <2>3, <2>4 DEF Send, TypeInv, TypeOK, PubRecord, hubVars, shown
<1>6. ASSUME NEW p \in Publishers, SetLastGraph(p) PROVE TypeInv'
  <2>1. \E r \in {Idle, Done} : pub' = [pub EXCEPT ![p] = r]
    BY <1>6, <1>a DEF SetLastGraph
  <2>2. pub' \in [Publishers -> PubRecord] /\ HoldsGraph'
    BY <1>b, <2>1, PubUpdate DEF Idle, Done
  <2>3. last' \in OptGraph /\ booted' \in BOOLEAN
    BY <1>6, <1>a DEF SetLastGraph, HoldsGraph, OptGraph, TypeOK
  <2>4. QED
    BY <1>6, <1>a, <2>2, <2>3 DEF SetLastGraph, TypeInv, TypeOK, PubRecord, hubVars, shown
<1>7. ASSUME NEW b \in Browsers, HandlePaired(b) PROVE TypeInv'
  <2> DEFINE r == IF last = None THEN Done
                  ELSE [pc |-> "full", from |-> None, graph |-> last]
  <2>1. b \in Publishers /\ pub' = [pub EXCEPT ![b] = r]
    BY <1>7, <1>a DEF HandlePaired, Publishers
  <2>2. r \in PubRecord /\ (r.pc = "full" => r.graph \in Graphs)
        /\ r.pc \notin {"collected", "diff", "sent"}
    BY <1>a, <1>b DEF PubRecord, Done, OptGraph, TypeOK
  <2>3. pub' \in [Publishers -> PubRecord] /\ HoldsGraph'
    BY <2>1, <2>2, PubUpdate
  <2>4. overlap' \in BOOLEAN /\ pending' \in SUBSET (Refreshes \cup Browsers)
    BY <1>7, <1>a DEF HandlePaired, TypeOK
  <2>5. QED
    BY <1>7, <1>a, <2>3, <2>4 DEF HandlePaired, TypeInv, TypeOK, PubRecord, hubVars, shown
<1>8. ASSUME NEW r \in Refreshes, HandleRefresh(r) PROVE TypeInv'
  <2> DEFINE q == [pub[r] EXCEPT !.pc = "collecting"]
  <2>1. r \in Publishers /\ pub' = [pub EXCEPT ![r] = q]
    BY <1>8, <1>a DEF HandleRefresh, Publishers
  <2>2. q \in PubRecord /\ q.pc = "collecting"
    BY <1>a, <2>1 DEF PubRecord
  <2>3. pub' \in [Publishers -> PubRecord] /\ HoldsGraph'
    BY <2>1, <2>2, PubUpdate
  <2>4. pending' \in SUBSET (Refreshes \cup Browsers)
    BY <1>8, <1>a DEF HandleRefresh, TypeOK
  <2>5. QED
    BY <1>8, <1>a, <2>3, <2>4 DEF HandleRefresh, TypeInv, TypeOK, PubRecord, hubVars, shown
<1>9. QED
  BY <1>1, <1>2, <1>3, <1>4, <1>5, <1>6, <1>7, <1>8 DEF Publish, Pass, CommandLoop

\* And those of the hub and its browser handlers.
LEMMA HubTyped ==
  TypeInv /\ (Hub \/ \E b \in Browsers : BrowserHandler(b) \/ BrowserActs(b)) => TypeInv'
<1> SUFFICES ASSUME TypeInv, Hub \/ \E b \in Browsers : BrowserHandler(b) \/ BrowserActs(b)
             PROVE  TypeInv'
  OBVIOUS
<1> USE DEF TypeInv, HoldsGraph
<1>a. TypeOK
  OBVIOUS
<1>1. CASE RouteMessage
  <2>1. Head(wire) \in Messages /\ wire' \in Seq(Messages)
    <3>1. wire \in Seq(Messages) /\ wire # <<>> /\ wire' = Tail(wire)
      BY <1>1, <1>a DEF RouteMessage, TypeOK
    <3>2. QED
      BY <3>1
  <2>2. route' \in [pc : {"idle", "routing", "casting"}, msg : Messages, to : SUBSET Browsers]
        /\ cached' \in Messages
    BY <1>1, <1>a, <2>1 DEF RouteMessage, TypeOK
  <2>3. QED
    BY <1>1, <1>a, <2>1, <2>2 DEF RouteMessage, TypeOK, agentVars, shown
<1>2. CASE CopyBrowsers
  <2>1. route' \in [pc : {"idle", "routing", "casting"}, msg : Messages, to : SUBSET Browsers]
    BY <1>2, <1>a DEF CopyBrowsers, TypeOK, Attached
  <2>2. QED
    BY <1>2, <1>a, <2>1 DEF CopyBrowsers, TypeOK, agentVars, shown
<1>3. CASE Deliver
  <2>1. NoRoute \in [pc : {"idle", "routing", "casting"}, msg : Messages, to : SUBSET Browsers]
    BY DEF NoRoute, Messages
  <2>2. view' \in [Browsers -> OptGraph]
    <3>1. route.msg \in Messages /\ \A b \in Browsers : view[b] \in OptGraph
      BY <1>a DEF TypeOK
    <3>2. \A b \in Browsers : Shown(view[b], route.msg) \in OptGraph
      BY <3>1, ShownType
    <3>3. QED
      BY <1>3, <3>1, <3>2 DEF Deliver
  <2>3. rewound' \in SUBSET Browsers
    BY <1>3, <1>a DEF Deliver, TypeOK
  <2>4. QED
    BY <1>3, <1>a, <2>1, <2>2, <2>3 DEF Deliver, TypeOK, agentVars
<1>4. ASSUME NEW b \in Browsers, Attach(b) \/ NotifyAgent(b) \/ ReadCache(b) PROVE TypeInv'
  <2>1. bh' \in [Browsers -> [pc : {"away", "attached", "notified", "replaying", "reading"},
                              cached : Messages]]
    BY <1>4, <1>a DEF Attach, NotifyAgent, ReadCache, TypeOK
  <2>2. pending' \in SUBSET (Refreshes \cup Browsers)
    BY <1>4, <1>a DEF Attach, NotifyAgent, ReadCache, TypeOK
  <2>3. QED
    BY <1>4, <1>a, <2>1, <2>2 DEF Attach, NotifyAgent, ReadCache, TypeOK, agentVars, shown
<1>5. ASSUME NEW b \in Browsers, ReplayCache(b) PROVE TypeInv'
  <2>1. bh' \in [Browsers -> [pc : {"away", "attached", "notified", "replaying", "reading"},
                              cached : Messages]]
    <3>1. NoMessage \in Messages
      BY DEF Messages
    <3>2. QED
      BY <1>5, <1>a, <3>1 DEF ReplayCache, TypeOK
  <2>2. view' \in [Browsers -> OptGraph]
    <3>1. view[b] \in OptGraph /\ bh[b].cached \in Messages
      BY <1>a DEF TypeOK
    <3>2. Shown(view[b], bh[b].cached) \in OptGraph
      BY <3>1, ShownType
    <3>3. QED
      BY <1>5, <1>a, <3>2 DEF ReplayCache, TypeOK
  <2>3. rewound' \in SUBSET Browsers
    BY <1>5, <1>a DEF ReplayCache, TypeOK
  <2>4. QED
    BY <1>5, <1>a, <2>1, <2>2, <2>3 DEF ReplayCache, TypeOK, agentVars
<1>6. ASSUME NEW b \in Browsers, NEW r \in Refreshes, RequestRefresh(b, r) PROVE TypeInv'
  <2>1. pending' \in SUBSET (Refreshes \cup Browsers)
    BY <1>6, <1>a DEF RequestRefresh, TypeOK
  <2>2. QED
    BY <1>6, <1>a, <2>1 DEF RequestRefresh, TypeOK, agentVars, hubVars, shown
<1>7. QED
  BY <1>1, <1>2, <1>3, <1>4, <1>5, <1>6 DEF Hub, BrowserHandler, BrowserActs

LEMMA StepTyped == TypeInv /\ [Next]_vars => TypeInv'
<1> SUFFICES ASSUME TypeInv, [Next]_vars PROVE TypeInv'
  OBVIOUS
<1>1. CASE UNCHANGED vars
  BY <1>1 DEF vars, agentVars, hubVars, shown, TypeInv, TypeOK, HoldsGraph
<1>2. CASE Next
  BY <1>2, EnvironmentTyped, PublishersTyped, HubTyped DEF Next
<1>3. QED
  BY <1>1, <1>2

\* The type invariant, with what publishers hold, in every reachable state.
LEMMA AlwaysTyped == Spec => []TypeInv
BY InitTyped, StepTyped, PTL DEF Spec

\* Every variable keeps its type: no null graph is ever sent or shown as one.
THEOREM TypeCorrect == Spec => []TypeOK
<1>1. TypeInv => TypeOK
  BY DEF TypeInv
<1>2. QED
  BY <1>1, AlwaysTyped, PTL

-----------------------------------------------------------------------------
\* While the agent is connected and counts a graph as published, the hub has a
\* snapshot or will read one; and every diff on the wire comes after one.
BaseComing ==
  cached.type = "snapshot" \/ \E i \in 1..Len(wire) : wire[i].type = "snapshot"

Published == last # None \/ \E p \in Publishers : pub[p].pc \in {"diff", "sent"}

DiffsFollow ==
  \A j \in 1..Len(wire) :
    wire[j].type = "diff" =>
      cached.type = "snapshot" \/ \E i \in 1..(j - 1) : wire[i].type = "snapshot"

BaseInv ==
  /\ link /\ Published => BaseComing
  /\ DiffsFollow
  /\ DiffHasBase

\* Steps that send nothing, route nothing and publish nothing new.
LEMMA BaseKept ==
  ASSUME BaseInv, UNCHANGED <<wire, cached>>,
         route'.msg = route.msg \/ route'.msg.type # "diff",
         link' /\ Published' => link /\ Published
  PROVE  BaseInv'
<1>1. BaseComing' <=> BaseComing
  BY DEF BaseComing
<1>2. DiffsFollow'
  BY DEF BaseInv, DiffsFollow
<1>3. DiffHasBase'
  BY DEF BaseInv, DiffHasBase
<1>4. QED
  BY <1>1, <1>2, <1>3 DEF BaseInv

\* Steps that put a message on the wire: a snapshot, an error before anything
\* was published, or a diff after that.
LEMMA BaseSent ==
  ASSUME TypeInv, BaseInv, NEW msg \in Messages, Sends(msg), UNCHANGED <<cached, route, link>>,
         link /\ msg.type = "diff" => Published,
         link /\ Published' => Published \/ msg.type = "snapshot"
  PROVE  BaseInv'
<1>1. wire \in Seq(Messages)
  BY DEF TypeInv, TypeOK
<1>2. CASE ~link
  <2>1. UNCHANGED wire
    BY <1>2 DEF Sends
  <2>2. QED
    BY <1>2, <2>1, BaseKept
<1>3. CASE link
  <2>1. /\ wire' = Append(wire, msg)
        /\ Len(wire') = Len(wire) + 1
        /\ \A i \in 1..Len(wire) : wire'[i] = wire[i]
        /\ wire'[Len(wire) + 1] = msg
        /\ Len(wire) \in Nat
    BY <1>1, <1>3 DEF Sends
  <2>2. BaseComing => BaseComing'
    BY <2>1 DEF BaseComing
  <2>3. msg.type = "snapshot" => BaseComing'
    <3>1. Len(wire) + 1 \in 1..Len(wire')
      BY <2>1
    <3>2. QED
      BY <2>1, <3>1 DEF BaseComing
  <2>4. link' /\ Published' => BaseComing'
    BY <1>3, <2>2, <2>3 DEF BaseInv
  <2>5. DiffsFollow'
    <3> SUFFICES ASSUME NEW j \in 1..Len(wire'), wire'[j].type = "diff"
                 PROVE  cached.type = "snapshot"
                        \/ \E i \in 1..(j - 1) : wire'[i].type = "snapshot"
      BY DEF DiffsFollow
    <3>1. CASE j \in 1..Len(wire)
      <4>1. cached.type = "snapshot" \/ \E i \in 1..(j - 1) : wire[i].type = "snapshot"
        BY <2>1, <3>1 DEF BaseInv, DiffsFollow
      <4>2. \A i \in 1..(j - 1) : wire'[i] = wire[i]
        BY <2>1, <3>1
      <4>3. QED
        BY <4>1, <4>2
    <3>2. CASE j = Len(wire) + 1
      <4>1. BaseComing
        BY <1>3, <2>1, <3>2 DEF BaseInv
      <4>2. 1..(j - 1) = 1..Len(wire)
        BY <2>1, <3>2
      <4>3. QED
        BY <2>1, <4>1, <4>2 DEF BaseComing
    <3>3. QED
      BY <2>1, <3>1, <3>2
  <2>6. DiffHasBase'
    BY DEF BaseInv, DiffHasBase
  <2>7. QED
    BY <2>4, <2>5, <2>6 DEF BaseInv
<1>4. QED
  BY <1>2, <1>3

\* The hub reads the next message.
LEMMA BaseRouted ==
  ASSUME TypeInv, BaseInv, RouteMessage
  PROVE  BaseInv'
<1>1. /\ wire \in Seq(Messages)
      /\ wire # <<>>
      /\ wire' = Tail(wire)
      /\ Head(wire) = wire[1]
  BY DEF TypeInv, TypeOK, RouteMessage
<1>2. /\ Len(wire) \in Nat \ {0}
      /\ Len(wire') = Len(wire) - 1
      /\ \A i \in 1..(Len(wire) - 1) : wire'[i] = wire[i + 1]
  BY <1>1
<1>3. cached.type = "snapshot" \/ wire[1].type = "snapshot" <=> cached'.type = "snapshot"
  BY <1>1 DEF RouteMessage
<1>4. BaseComing => BaseComing'
  <2> SUFFICES ASSUME NEW i \in 1..Len(wire), wire[i].type = "snapshot", i # 1
               PROVE  BaseComing'
    BY <1>3 DEF BaseComing
  <2>1. i - 1 \in 1..Len(wire') /\ wire'[i - 1] = wire[i]
    BY <1>2
  <2>2. QED
    BY <2>1 DEF BaseComing
<1>5. Published' <=> Published
  BY DEF RouteMessage, Published, agentVars
<1>6. DiffsFollow'
  <2> SUFFICES ASSUME NEW j \in 1..Len(wire'), wire'[j].type = "diff",
                      cached'.type # "snapshot"
               PROVE  \E i \in 1..(j - 1) : wire'[i].type = "snapshot"
    BY DEF DiffsFollow
  <2>1. j + 1 \in 1..Len(wire) /\ wire[j + 1].type = "diff"
    BY <1>2
  <2>2. PICK i \in 1..((j + 1) - 1) : wire[i].type = "snapshot"
    BY <1>3, <2>1 DEF BaseInv, DiffsFollow
  <2>3. i # 1
    BY <1>3, <2>2
  <2>4. i - 1 \in 1..(j - 1) /\ wire'[i - 1] = wire[i]
    BY <1>2, <2>2, <2>3
  <2>5. QED
    BY <2>2, <2>4
<1>7. DiffHasBase'
  <2>1. route'.msg = wire[1]
    BY <1>1 DEF RouteMessage
  <2>2. wire[1].type = "diff" => cached.type = "snapshot"
    <3>1. 1 \in 1..Len(wire) /\ 1..(1 - 1) = {}
      BY <1>2
    <3>2. QED
      BY <3>1 DEF BaseInv, DiffsFollow
  <2>3. QED
    BY <1>3, <2>1, <2>2 DEF DiffHasBase
<1>8. QED
  BY <1>4, <1>5, <1>6, <1>7 DEF BaseInv, RouteMessage

LEMMA InitBase == Init => BaseInv
<1> SUFFICES ASSUME Init PROVE BaseInv
  OBVIOUS
<1>1. ~Published
  BY DEF Init, Published, Idle, Unused
<1>2. DiffsFollow
  BY DEF Init, DiffsFollow
<1>3. DiffHasBase
  BY DEF Init, DiffHasBase, NoRoute, NoMessage
<1>4. QED
  BY <1>1, <1>2, <1>3 DEF BaseInv

\* Steps of the publishers and of the command loop.
LEMMA BasePublished ==
  ASSUME TypeInv, BaseInv, (\E p \in Publishers : Publish(p)) \/ CommandLoop
  PROVE  BaseInv'
<1>a. pub \in [Publishers -> PubRecord] /\ HoldsGraph
  BY DEF TypeInv, TypeOK, PubRecord
<1>1. ASSUME NEW p \in Publishers, Collect(p) \/ CollectFails(p) PROVE BaseInv'
  <2>0. \A q \in Publishers :
          pub'[q] = pub[q] \/ pub'[q].pc \in {"collected", "full", "failed", "done"}
    <3>1. CASE Collect(p)
      BY <3>1, <1>a DEF Collect, PubRecord
    <3>2. CASE CollectFails(p)
      BY <3>2, <1>a DEF CollectFails, Done, PubRecord
    <3>3. QED
      BY <1>1, <3>1, <3>2
  <2>1. Published' => Published
    BY <1>1, <2>0 DEF Collect, CollectFails, Published
  <2>2. QED
    BY <1>1, <2>1, BaseKept DEF Collect, CollectFails, hubVars
<1>2. CASE Decide
  <2>1. pub[Ticker].pc = "collected" /\ Ticker \in Publishers
    BY <1>2 DEF Decide, Publishers
  <2>2. \A p \in Publishers \ {Ticker} : pub'[p] = pub[p]
    BY <1>2, <1>a DEF Decide
  <2>3. last = None => pub'[Ticker].pc = "full"
    BY <1>2, <1>a, <2>1 DEF Decide
  <2>4. Published' => Published
    BY <1>2, <2>2, <2>3 DEF Decide, Published
  <2>5. QED
    BY <1>2, <2>4, BaseKept DEF Decide, hubVars
<1>3. CASE ReportFailure
  <2>1. \A p \in Publishers : pub'[p] = pub[p] \/ pub'[p] = Idle
    BY <1>3, <1>a DEF ReportFailure
  <2>2. Published' => Published
    BY <1>3, <2>1 DEF ReportFailure, Published, Idle
  <2>3. CASE last = None
    <3>1. DiscoveryError \in Messages /\ DiscoveryError.type = "error"
      BY DEF DiscoveryError, Messages
    <3>2. Sends(DiscoveryError) /\ UNCHANGED <<cached, route, link>>
      BY <1>3, <2>3 DEF ReportFailure, hubVars
    <3>3. QED
      BY <2>2, <3>1, <3>2, BaseSent
  <2>4. CASE last # None
    BY <1>3, <2>2, <2>4, BaseKept DEF ReportFailure, hubVars
  <2>5. QED
    BY <2>3, <2>4
<1>4. ASSUME NEW p \in Publishers, Send(p) PROVE BaseInv'
  <2>0. UNCHANGED <<cached, route, link>>
    BY <1>4 DEF Send, hubVars
  <2>1. CASE pub[p].pc = "full"
    <3>1. Snapshot(pub[p].graph) \in Messages /\ Snapshot(pub[p].graph).type = "snapshot"
      BY <1>a, <2>1, SentMessages DEF HoldsGraph, Snapshot
    <3>2. Sends(Snapshot(pub[p].graph))
      BY <1>4, <2>1 DEF Send
    <3>3. QED
      BY <2>0, <3>1, <3>2, BaseSent
  <2>2. CASE pub[p].pc = "diff"
    <3>1. /\ GraphDiff(pub[p].from, pub[p].graph) \in Messages
          /\ GraphDiff(pub[p].from, pub[p].graph).type = "diff"
      BY <1>a, <2>2, SentMessages DEF HoldsGraph, GraphDiff
    <3>2. Sends(GraphDiff(pub[p].from, pub[p].graph))
      BY <1>4, <2>2 DEF Send
    <3>3. Published
      BY <2>2 DEF Published
    <3>4. QED
      BY <2>0, <3>1, <3>2, <3>3, BaseSent
  <2>3. QED
    BY <1>4, <2>1, <2>2 DEF Send
<1>5. ASSUME NEW p \in Publishers, SetLastGraph(p) PROVE BaseInv'
  <2>1. Published
    BY <1>5 DEF SetLastGraph, Published
  <2>2. QED
    BY <1>5, <2>1, BaseKept DEF SetLastGraph, hubVars
<1>6. ASSUME NEW b \in Browsers, HandlePaired(b) PROVE BaseInv'
  <2>1. \A p \in Publishers : pub'[p] = pub[p] \/ pub'[p].pc \in {"done", "full"}
    BY <1>6, <1>a DEF HandlePaired, Done
  <2>2. Published' => Published
    BY <1>6, <2>1 DEF HandlePaired, Published
  <2>3. QED
    BY <1>6, <2>2, BaseKept DEF HandlePaired, hubVars
<1>7. ASSUME NEW r \in Refreshes, HandleRefresh(r) PROVE BaseInv'
  <2>1. \A p \in Publishers : pub'[p] = pub[p] \/ pub'[p].pc = "collecting"
    BY <1>7, <1>a DEF HandleRefresh
  <2>2. Published' => Published
    BY <1>7, <2>1 DEF HandleRefresh, Published
  <2>3. QED
    BY <1>7, <2>2, BaseKept DEF HandleRefresh, hubVars
<1>8. QED
  BY <1>1, <1>2, <1>3, <1>4, <1>5, <1>6, <1>7 DEF Publish, Pass, CommandLoop

\* Steps of the environment.
LEMMA BaseEnvironment ==
  ASSUME TypeInv, BaseInv, Environment
  PROVE  BaseInv'
<1>1. CASE WorldChanges
  <2>1. Published' <=> Published
    BY <1>1 DEF WorldChanges, Published, agentVars
  <2>2. QED
    BY <1>1, <2>1, BaseKept DEF WorldChanges, hubVars
<1>2. CASE LinkBreaks
  <2>1. PICK n \in 0..Len(wire) : wire' = SubSeq(wire, 1, n)
    BY <1>2 DEF LinkBreaks
  <2>2. wire \in Seq(Messages)
    BY DEF TypeInv, TypeOK
  <2>3. Len(wire') = n /\ \A i \in 1..n : wire'[i] = wire[i]
    BY <2>1, <2>2
  <2>4. DiffsFollow'
    <3> SUFFICES ASSUME NEW j \in 1..Len(wire'), wire'[j].type = "diff"
                 PROVE  cached'.type = "snapshot"
                        \/ \E i \in 1..(j - 1) : wire'[i].type = "snapshot"
      BY DEF DiffsFollow
    <3>1. j \in 1..Len(wire) /\ wire[j].type = "diff"
      BY <2>1, <2>2, <2>3
    <3>2. cached.type = "snapshot" \/ \E i \in 1..(j - 1) : wire[i].type = "snapshot"
      BY <3>1 DEF BaseInv, DiffsFollow
    <3>3. \A i \in 1..(j - 1) : wire'[i] = wire[i]
      BY <2>1, <2>2, <2>3
    <3>4. QED
      BY <1>2, <3>2, <3>3 DEF LinkBreaks, hubVars
  <2>5. QED
    BY <1>2, <2>4 DEF LinkBreaks, BaseInv, DiffHasBase, hubVars
<1>3. CASE AgentRestarts
  <2>1. ~Published'
    BY <1>3 DEF AgentRestarts, Published, Idle, Unused, Done
  <2>2. DiffsFollow'
    BY <1>3 DEF AgentRestarts, DiffsFollow
  <2>3. QED
    BY <1>3, <2>1, <2>2 DEF AgentRestarts, BaseInv, DiffHasBase, hubVars
<1>4. QED
  BY <1>1, <1>2, <1>3 DEF Environment

LEMMA StepBase == TypeInv /\ BaseInv /\ [Next]_vars => BaseInv'
<1> SUFFICES ASSUME TypeInv, BaseInv, [Next]_vars PROVE BaseInv'
  OBVIOUS
<1>1. CASE UNCHANGED vars
  BY <1>1, BaseKept DEF vars, agentVars, hubVars, Published
<1>2. CASE CopyBrowsers \/ Deliver
  <2>1. Published' <=> Published
    BY <1>2 DEF CopyBrowsers, Deliver, Published, agentVars
  <2>2. route'.msg = route.msg \/ route'.msg.type # "diff"
    <3>1. CASE CopyBrowsers
      <4>1. route \in [pc : {"idle", "routing", "casting"}, msg : Messages, to : SUBSET Browsers]
        BY DEF TypeInv, TypeOK
      <4>2. QED
        BY <3>1, <4>1 DEF CopyBrowsers
    <3>2. CASE Deliver
      BY <3>2 DEF Deliver, NoRoute, NoMessage
    <3>3. QED
      BY <1>2, <3>1, <3>2
  <2>3. QED
    BY <1>2, <2>1, <2>2, BaseKept DEF CopyBrowsers, Deliver
<1>3. ASSUME NEW b \in Browsers, BrowserHandler(b) \/ BrowserActs(b) PROVE BaseInv'
  <2>1. /\ UNCHANGED <<wire, cached, route, link>>
        /\ Published' <=> Published
    BY <1>3 DEF BrowserHandler, BrowserActs, NotifyAgent, ReadCache, ReplayCache, Attach,
                RequestRefresh, Published, agentVars, hubVars
  <2>2. QED
    BY <2>1, BaseKept
<1>4. QED
  BY <1>1, <1>2, <1>3, BaseEnvironment, BasePublished, BaseRouted DEF Next, Hub

\* Whatever the three publishers do at once, and through lost connections and
\* restarts, the hub has cached a snapshot before it routes a diff.
THEOREM DiffsHaveBase == Spec => []DiffHasBase
<1>1. BaseInv => DiffHasBase
  BY DEF BaseInv
<1>2. QED
  BY <1>1, InitBase, StepBase, AlwaysTyped, PTL DEF Spec

-----------------------------------------------------------------------------
\* Views keep in step.

\* Two graphs that look alike, or none twice.
Alike(g, h) == (g = None <=> h = None) /\ (g # None => LookOf(g) = LookOf(h))

\* What browsers that show a graph like g show after a message: one like h.
Follows(g, msg, h) ==
  CASE msg.type = "snapshot" -> h = msg.to
    [] msg.type = "diff" -> g # None /\ LookOf(g) = LookOf(msg.from) /\ h = msg.to
    [] OTHER -> h = g

\* The publishers that make graphs; the others send lastGraph again.
Makers == {Ticker} \cup Refreshes

\* Where each publisher can be.
Places ==
  /\ pub[Ticker].pc \in {"idle", "collected", "failed", "full", "diff", "sent"}
  /\ \A r \in Refreshes : pub[r].pc \in {"unused", "collecting", "full", "sent", "done"}
  /\ \A b \in Browsers : pub[b].pc \in {"unused", "full", "done"}

\* As long as publications do not overlap, a re-sent graph and the base of a diff are
\* the last graph.
Single ==
  ~overlap =>
    /\ ~Conflict
    /\ \A b \in Browsers : pub[b].pc = "full" => pub[b].graph = last
    /\ pub[Ticker].pc = "diff" => pub[Ticker].from = last /\ last # None

\* A refresh that waits to be read has not begun.
Waiting == \A r \in Refreshes \cap pending : pub[r] = Unused

\* Diffs are not cached.
NoDiffCached == cached.type # "diff" /\ \A b \in Browsers : bh[b].cached.type # "diff"

\* The graph sent last: the one about to become lastGraph, or lastGraph.
SentLast(g) ==
  /\ \A p \in Makers : pub[p].pc = "sent" => Alike(g, pub[p].graph)
  /\ (\A p \in Makers : pub[p].pc # "sent") => Alike(g, last)

\* Those that get the message in the hub's hands, and what they show then.
Audience == IF route.pc = "routing" THEN Attached ELSE IF route.pc = "casting" THEN route.to ELSE {}
After(b) == IF b \in Audience THEN Shown(view[b], route.msg) ELSE view[b]

\* A snapshot is on its way to b.
Coming(b) ==
  b \in pending \/ pub[b].pc = "full" \/ \E i \in 1..Len(wire) : wire[i].type = "snapshot"

\* Once the agent was told of b, b shows a graph like g or a snapshot is to come.
Notified(b) == bh[b].pc \in {"notified", "replaying", "reading"} /\ b \notin rewound
Tuned(b, g) ==
  g = None \/ Coming(b) \/ (After(b) # None /\ LookOf(After(b)) = LookOf(g))

\* s[i] is like what browsers show after i messages of the wire.
Links(s) ==
  /\ s \in [0..Len(wire) -> OptGraph]
  /\ \A i \in 1..Len(wire) : Follows(s[i - 1], wire[i], s[i])
  /\ \A i \in 0..Len(wire) : s[i] # None => s[Len(wire)] # None
  /\ SentLast(s[Len(wire)])

\* g fits the message in the hub's hands and what the browsers show.
Joins(g) ==
  /\ route.pc # "idle" /\ route.msg.type = "snapshot" => Alike(g, route.msg.to)
  /\ \A b \in Browsers : Notified(b) => Tuned(b, g)

\* A chain of graphs leads from what browsers show, along the wire, to what was sent
\* last.
Chained == link /\ ~overlap => \E s \in [0..Len(wire) -> OptGraph] : Links(s) /\ Joins(s[0])
StepInv == Waiting /\ Places /\ Single /\ NoDiffCached /\ Chained

\* The bookkeeping of the publishers.
LEMMA InitPlaces == Init => Places /\ Single /\ NoDiffCached
<1> SUFFICES ASSUME Init PROVE Places /\ Single /\ NoDiffCached
  OBVIOUS
<1>1. pub[Ticker].pc = "idle" /\ \A p \in Publishers \ {Ticker} : pub[p].pc = "unused"
  BY DEF Init, Idle, Unused, Publishers
<1>2. \A p \in Refreshes \cup Browsers : p \in Publishers \ {Ticker}
  BY PublishersAssumption DEF Publishers
<1>3. Places /\ Single
  BY <1>1, <1>2 DEF Places, Single, Conflict, Busy
<1>4. NoDiffCached
  BY DEF Init, NoDiffCached, NoMessage
<1> QED BY <1>3, <1>4

\* and wherever they are, it stays so.
LEMMA StepPlaces == TypeInv /\ Places /\ [Next]_vars => Places'
<1> SUFFICES ASSUME TypeInv, Places, [Next]_vars PROVE Places'
  OBVIOUS
<1>1. pub \in [Publishers -> PubRecord] /\ Ticker \notin Refreshes \cup Browsers
      /\ Refreshes \cap Browsers = {} /\ Publishers = {Ticker} \cup Refreshes \cup Browsers
  BY PublishersAssumption DEF TypeInv, TypeOK, PubRecord, Publishers
<1>2. ASSUME UNCHANGED pub PROVE Places'
  BY <1>2 DEF Places
<1>3. CASE AgentRestarts
  BY <1>1, <1>3 DEF AgentRestarts, Places, Idle, Unused, Done
<1>4. ASSUME NEW p \in Publishers, Collect(p) \/ CollectFails(p) \/ SetLastGraph(p)
      PROVE  Places'
  BY <1>1, <1>4 DEF Collect, CollectFails, SetLastGraph, Places, Idle, Done, PubRecord
<1>5. ASSUME NEW p \in Publishers, Send(p)
      PROVE  Places'
  BY <1>1, <1>5 DEF Send, Places, Done, PubRecord
<1>6. CASE Decide \/ ReportFailure
  BY <1>1, <1>6 DEF Decide, ReportFailure, Places, Idle, PubRecord
<1>7. ASSUME NEW b \in Browsers, HandlePaired(b)
      PROVE  Places'
  BY <1>1, <1>7 DEF HandlePaired, Places, Done, PubRecord
<1>8. ASSUME NEW r \in Refreshes, HandleRefresh(r)
      PROVE  Places'
  BY <1>1, <1>8 DEF HandleRefresh, Places, PubRecord
<1>9. CASE Hub \/ (\E b \in Browsers : BrowserHandler(b) \/ BrowserActs(b))
  <2>1. UNCHANGED pub
    BY <1>9 DEF Hub, RouteMessage, CopyBrowsers, Deliver, BrowserHandler, BrowserActs, Attach,
       NotifyAgent, ReadCache, ReplayCache, RequestRefresh, agentVars
  <2> QED BY <1>2, <2>1
<1>10. CASE WorldChanges \/ LinkBreaks \/ UNCHANGED vars
  BY <1>2, <1>10 DEF WorldChanges, LinkBreaks, agentVars, vars
<1> QED BY <1>3, <1>4, <1>5, <1>6, <1>7, <1>8, <1>9, <1>10
        DEF Next, Environment, Publish, Pass, CommandLoop

\* A publisher alone: while a ticker's or a refresh's publication is under way,
\* nothing else is.
LEMMA OneBusy ==
  ASSUME Single, ~overlap, NEW p \in Publishers, NEW q \in Publishers, p # q,
         Busy(p), Busy(q)
  PROVE  p \in Browsers /\ q \in Browsers
BY DEF Single, Conflict, Publishers

\* As long as nothing overlaps, who is busy keeps it.
LEMMA StepSingle == TypeInv /\ Places /\ Single /\ [Next]_vars => Single'
<1> SUFFICES ASSUME TypeInv, Places, Single, [Next]_vars, ~overlap'
             PROVE  /\ ~Conflict'
                    /\ \A b \in Browsers : pub'[b].pc = "full" => pub'[b].graph = last'
                    /\ pub'[Ticker].pc = "diff" => pub'[Ticker].from = last' /\ last' # None
  BY DEF Single
<1> DEFINE Kept == \A b \in Browsers : pub'[b].pc = "full" => pub'[b].graph = last'
           Based == pub'[Ticker].pc = "diff" => pub'[Ticker].from = last' /\ last' # None
<1>1. /\ pub \in [Publishers -> PubRecord] /\ Ticker \notin Refreshes \cup Browsers
      /\ Refreshes \cap Browsers = {} /\ Publishers = {Ticker} \cup Refreshes \cup Browsers
  BY PublishersAssumption DEF TypeInv, TypeOK, PubRecord, Publishers
<1>2. ~overlap
  BY DEF Next, Environment, WorldChanges, LinkBreaks, AgentRestarts, Publish, Pass, Collect,
     CollectFails, Send, SetLastGraph, Decide, ReportFailure, CommandLoop, HandlePaired,
     HandleRefresh, Hub, RouteMessage, CopyBrowsers, Deliver, BrowserHandler, BrowserActs, Attach,
     NotifyAgent, ReadCache, ReplayCache, RequestRefresh, vars
<1>3. /\ ~Conflict
      /\ \A b \in Browsers : pub[b].pc = "full" => pub[b].graph = last
      /\ pub[Ticker].pc = "diff" => pub[Ticker].from = last /\ last # None
  BY <1>2 DEF Single
<1>4. ASSUME \A p \in Publishers : Busy(p)' => Busy(p)
      PROVE  ~Conflict'
  BY <1>1, <1>3, <1>4 DEF Conflict
<1>5. ASSUME UNCHANGED <<pub, last>> PROVE ~Conflict' /\ Kept /\ Based
  BY <1>3, <1>4, <1>5 DEF Busy
<1>6. CASE AgentRestarts
  <2>1. \A p \in Publishers : pub'[p].pc \in {"idle", "unused", "done"}
    BY <1>1, <1>6 DEF AgentRestarts, Idle, Unused, Done
  <2> QED BY <1>1, <1>4, <2>1 DEF Busy
<1>7. ASSUME NEW p \in Publishers, Collect(p) \/ CollectFails(p)
      PROVE  ~Conflict' /\ Kept /\ Based
  <2>1. ~Conflict'
    BY <1>7 DEF Collect, CollectFails
  <2>2. last' = last /\ (\A q \in Publishers \ {p} : pub'[q] = pub[q]) /\ p \notin Browsers
    BY <1>1, <1>7 DEF Collect, CollectFails
  <2>3. pub'[p].pc \in {"collected", "full", "failed", "done"} /\ (p = Ticker => pub'[p].pc # "diff")
    BY <1>1, <1>7 DEF Collect, CollectFails, Done, PubRecord
  <2> QED BY <1>1, <1>3, <2>1, <2>2, <2>3
<1>8. ASSUME NEW p \in Publishers, Send(p)
      PROVE  ~Conflict' /\ Kept /\ Based
  <2>1. last' = last /\ (\A q \in Publishers \ {p} : pub'[q] = pub[q])
    BY <1>1, <1>8 DEF Send
  <2>2. Busy(p) /\ pub'[p].pc \in {"done", "sent"}
    BY <1>1, <1>8 DEF Send, Busy, Done, PubRecord
  <2>3. \A q \in Publishers : Busy(q)' => Busy(q)
    BY <2>1, <2>2 DEF Busy
  <2> QED BY <1>1, <1>3, <1>4, <2>1, <2>2, <2>3
<1>9. ASSUME NEW p \in Publishers, SetLastGraph(p)
      PROVE  ~Conflict' /\ Kept /\ Based
  <2>1. (\A q \in Publishers \ {p} : pub'[q] = pub[q]) /\ pub'[p].pc \in {"idle", "done"}
    BY <1>1, <1>9 DEF SetLastGraph, Idle, Done
  <2>2. Busy(p) /\ p \notin Browsers
    BY <1>9 DEF SetLastGraph, Busy, Places
  <2>3. \A q \in Publishers \ {p} : ~Busy(q)
    BY <1>2, <2>2, OneBusy
  <2>4. ~Conflict'
    BY <1>4, <2>1, <2>2 DEF Busy
  <2> QED BY <1>1, <2>1, <2>2, <2>3, <2>4 DEF Busy
<1>10. CASE Decide \/ ReportFailure
  <2>1. last' = last /\ \A q \in Publishers \ {Ticker} : pub'[q] = pub[q]
    BY <1>1, <1>10 DEF Decide, ReportFailure
  <2>2. /\ Busy(Ticker) /\ pub'[Ticker].pc \in {"full", "sent", "diff", "idle"}
        /\ pub'[Ticker].pc = "diff" => pub'[Ticker].from = last /\ last # None
    BY <1>1, <1>10 DEF Decide, ReportFailure, Busy, Idle, PubRecord
  <2>3. \A q \in Publishers : Busy(q)' => Busy(q)
    BY <2>1, <2>2 DEF Busy
  <2> QED BY <1>1, <1>3, <1>4, <2>1, <2>2, <2>3
<1>11. ASSUME NEW b \in Browsers, HandlePaired(b)
       PROVE  ~Conflict' /\ Kept /\ Based
  <2>1. last' = last /\ \A q \in Publishers \ {b} : pub'[q] = pub[q]
    BY <1>1, <1>11 DEF HandlePaired
  <2>2. pub'[b].pc = "done" \/ (pub'[b].pc = "full" /\ pub'[b].graph = last)
    BY <1>1, <1>11 DEF HandlePaired, Done
  <2>3. \A p \in {Ticker} \cup Refreshes : ~Busy(p) /\ pub'[p] = pub[p]
    BY <1>1, <1>11, <2>1 DEF HandlePaired
  <2>4. ~Conflict'
    BY <2>3 DEF Conflict, Busy
  <2> QED BY <1>1, <1>3, <2>1, <2>2, <2>4
<1>12. ASSUME NEW r \in Refreshes, HandleRefresh(r)
       PROVE  ~Conflict' /\ Kept /\ Based
  <2>1. /\ last' = last /\ (\A q \in Publishers \ {r} : pub'[q] = pub[q])
        /\ pub'[r].pc = "collecting"
    BY <1>1, <1>12 DEF HandleRefresh, PubRecord
  <2>2. \A q \in Publishers : Busy(q)' => Busy(q)
    BY <2>1 DEF Busy
  <2> QED BY <1>1, <1>3, <1>4, <2>1, <2>2
<1>13. CASE Hub \/ (\E b \in Browsers : BrowserHandler(b) \/ BrowserActs(b))
  <2>1. UNCHANGED <<pub, last>>
    BY <1>13 DEF Hub, RouteMessage, CopyBrowsers, Deliver, BrowserHandler, BrowserActs, Attach,
       NotifyAgent, ReadCache, ReplayCache, RequestRefresh, agentVars
  <2> QED BY <1>5, <2>1
<1>14. CASE WorldChanges \/ LinkBreaks \/ UNCHANGED vars
  BY <1>5, <1>14 DEF WorldChanges, LinkBreaks, agentVars, vars
<1> QED BY <1>6, <1>7, <1>8, <1>9, <1>10, <1>11, <1>12, <1>13, <1>14
        DEF Next, Environment, Publish, Pass, CommandLoop

\* Diffs are relayed, never cached.
LEMMA StepNoDiffCached == NoDiffCached /\ TypeInv /\ [Next]_vars => NoDiffCached'
<1> SUFFICES ASSUME NoDiffCached, TypeInv, [Next]_vars PROVE NoDiffCached'
  OBVIOUS
<1>1. CASE RouteMessage
  BY <1>1 DEF RouteMessage, NoDiffCached
<1>2. ASSUME NEW b \in Browsers, Attach(b) \/ NotifyAgent(b) \/ ReadCache(b) \/ ReplayCache(b)
      PROVE  NoDiffCached'
  BY <1>2 DEF Attach, NotifyAgent, ReadCache, ReplayCache, NoDiffCached, NoMessage, TypeInv, TypeOK
<1>3. CASE UNCHANGED <<cached, bh>>
  BY <1>3 DEF NoDiffCached
<1> QED BY <1>1, <1>2, <1>3 DEF Next, Environment, WorldChanges, LinkBreaks, AgentRestarts, Publish,
     Pass, Collect, CollectFails, Send, SetLastGraph, Decide, ReportFailure, CommandLoop,
     HandlePaired, HandleRefresh, Hub, CopyBrowsers, Deliver, BrowserHandler, BrowserActs,
     RequestRefresh, hubVars, vars

-----------------------------------------------------------------------------
\* The chain of graphs from what browsers show to what was sent last.

\* A step that leaves the wire alone keeps the chain if it keeps its two ends.
LEMMA ChainKept ==
  ASSUME Chained, UNCHANGED wire, link' /\ ~overlap' => link /\ ~overlap,
         link' /\ ~overlap' =>
           \A g \in OptGraph, h \in OptGraph :
             SentLast(h) /\ (g # None => h # None) /\ Joins(g) => SentLast(h)' /\ Joins(g)'
  PROVE  Chained'
<1> SUFFICES ASSUME link', ~overlap'
             PROVE  (\E s \in [0..Len(wire) -> OptGraph] : Links(s) /\ Joins(s[0]))'
  BY DEF Chained
<1>1. PICK s \in [0..Len(wire) -> OptGraph] : Links(s) /\ Joins(s[0])
  BY DEF Chained
<1>2. 0 \in 0..Len(wire) /\ Len(wire) \in 0..Len(wire)
  <2>1. CASE Len(wire) \in Nat
    BY <2>1
  <2> QED BY <2>1
<1>3. SentLast(s[Len(wire)])' /\ Joins(s[0])'
  BY <1>1, <1>2 DEF Links
<1>4. Links(s)'
  BY <1>1, <1>3 DEF Links
<1> QED BY <1>3, <1>4

\* What is not about the hub, its browsers or a snapshot that is to come keeps
\* the near end.
LEMMA JoinsKept ==
  ASSUME UNCHANGED <<route, view, bh, rewound>>, pending \cap Browsers \subseteq pending',
         NEW g \in OptGraph, Joins(g),
         \A b \in Browsers : pub[b].pc = "full" =>
           pub'[b].pc = "full" \/ \E i \in 1..Len(wire') : wire'[i].type = "snapshot",
         (\E i \in 1..Len(wire) : wire[i].type = "snapshot") =>
           \E i \in 1..Len(wire') : wire'[i].type = "snapshot"
  PROVE  Joins(g)'
<1>1. ASSUME NEW b \in Browsers, Notified(b)'
      PROVE  Tuned(b, g)'
  <2>1. Notified(b) /\ Tuned(b, g) /\ After(b)' = After(b)
    BY <1>1 DEF Joins, Notified, After, Audience, Attached
  <2>2. Coming(b) => Coming(b)'
    BY DEF Coming
  <2> QED BY <2>1, <2>2 DEF Tuned
<1> QED BY <1>1 DEF Joins

\* A message that is sent extends the chain, or is lost with the link.
LEMMA ChainSends ==
  ASSUME TypeInv, Chained, NEW msg \in Messages, Sends(msg),
         UNCHANGED <<link, overlap, route, view, bh, rewound, pending>>,
         link /\ ~overlap =>
           \A g \in OptGraph : SentLast(g) =>
             \E h \in OptGraph : Follows(g, msg, h) /\ (g # None => h # None) /\ SentLast(h)',
         \A b \in Browsers : pub[b].pc = "full" => pub'[b].pc = "full" \/ msg.type = "snapshot"
  PROVE  Chained'
<1> SUFFICES ASSUME link, ~overlap
             PROVE  (\E s \in [0..Len(wire) -> OptGraph] : Links(s) /\ Joins(s[0]))'
  BY DEF Chained
<1>0. PICK n \in Nat : n = Len(wire)
  BY DEF TypeInv, TypeOK
<1>1. /\ wire \in Seq(Messages) /\ wire' = Append(wire, msg)
      /\ Len(wire') = n + 1 /\ wire'[n + 1] = msg /\ \A i \in 1..n : wire'[i] = wire[i]
  <2>1. wire \in Seq(Messages)
    BY DEF TypeInv, TypeOK
  <2>2. wire' = Append(wire, msg)
    BY DEF Sends
  <2> QED BY <1>0, <2>1, <2>2
<1>2. PICK s \in [0..n -> OptGraph] : Links(s) /\ Joins(s[0])
  BY <1>0 DEF Chained
<1>3. PICK h \in OptGraph : Follows(s[n], msg, h) /\ (s[n] # None => h # None) /\ SentLast(h)'
  BY <1>0, <1>2 DEF Links
<1>4. PICK t \in [0..Len(wire') -> OptGraph] : t[n + 1] = h /\ \A i \in 0..n : t[i] = s[i]
  <2> DEFINE u == [i \in 0..(n + 1) |-> IF i = n + 1 THEN h ELSE s[i]]
  <2>1. n \in Nat /\ n + 1 \in 0..(n + 1)
    OBVIOUS
  <2>2. \A i \in 0..(n + 1) : i = n + 1 \/ i \in 0..n
    BY <2>1
  <2>3. \A i \in 0..n : i \in 0..(n + 1) /\ i # n + 1
    BY <2>1
  <2>4. u \in [0..(n + 1) -> OptGraph]
    BY <1>2, <1>3, <2>2
  <2>5. u[n + 1] = h /\ \A i \in 0..n : u[i] = s[i]
    BY <2>1, <2>3
  <2> HIDE DEF u
  <2> QED BY <1>1, <2>4, <2>5
<1>5. Links(t)'
  <2>1. ASSUME NEW i \in 1..(n + 1)
        PROVE  Follows(t[i - 1], wire'[i], t[i])
    <3>1. CASE i = n + 1
      <4>1. i - 1 = n
        BY <1>1, <3>1
      <4> QED BY <1>1, <1>3, <1>4, <3>1, <4>1
    <3>2. CASE i # n + 1
      <4>1. i \in 1..n /\ i \in 0..n /\ i - 1 \in 0..n
        BY <1>1, <3>2
      <4> QED BY <1>0, <1>1, <1>2, <1>4, <4>1 DEF Links
    <3> QED BY <3>1, <3>2
  <2>2. ASSUME NEW i \in 0..(n + 1), t[i] # None
        PROVE  t[n + 1] # None
    <3>1. CASE i = n + 1
      BY <2>2, <3>1
    <3>2. CASE i # n + 1
      <4>1. i \in 0..n
        BY <1>1, <3>2
      <4> QED BY <1>0, <1>2, <1>3, <1>4, <2>2, <4>1 DEF Links
    <3> QED BY <3>1, <3>2
  <2>3. SentLast(t[n + 1])'
    BY <1>3, <1>4
  <2> QED BY <1>1, <1>4, <2>1, <2>2, <2>3 DEF Links, Follows
<1>6. Joins(t[0])'
  <2>1. t[0] = s[0] /\ s[0] \in OptGraph /\ Joins(s[0])
    <3>1. 0 \in 0..n
      BY <1>1
    <3> QED BY <1>2, <1>4, <3>1
  <2>2. \A i \in 1..n : i \in 1..(n + 1)
    BY <1>1
  <2>3. (\E i \in 1..n : wire[i].type = "snapshot") => \E i \in 1..(n + 1) : wire'[i].type = "snapshot"
    BY <1>1, <2>2
  <2>4. msg.type = "snapshot" => \E i \in 1..(n + 1) : wire'[i].type = "snapshot"
    <3>1. n + 1 \in 1..(n + 1)
      BY <1>1
    <3> QED BY <1>1, <3>1
  <2>5. \A b \in Browsers : pub[b].pc = "full" =>
          pub'[b].pc = "full" \/ \E i \in 1..Len(wire') : wire'[i].type = "snapshot"
    BY <1>1, <2>4
  <2>6. (\E i \in 1..Len(wire) : wire[i].type = "snapshot") =>
          \E i \in 1..Len(wire') : wire'[i].type = "snapshot"
    BY <1>0, <1>1, <2>3
  <2>7. Joins(s[0])'
    BY <2>1, <2>5, <2>6, JoinsKept
  <2> QED BY <2>1, <2>7
<1> QED BY <1>4, <1>5, <1>6

\* An empty wire after a restart: nothing was sent yet.
LEMMA ChainStarts ==
  ASSUME wire' = <<>>, last' = None, route'.pc = "idle",
         \A p \in Makers : pub'[p].pc # "sent"
  PROVE  Chained'
<1> DEFINE s == [i \in 0..0 |-> None]
<1>1. Len(wire') = 0 /\ s \in [0..Len(wire') -> OptGraph] /\ s[0] = None
  BY DEF OptGraph
<1> HIDE DEF s
<1>2. Links(s)'
  BY <1>1 DEF Links, SentLast, Alike
<1>3. Joins(s[0])'
  BY <1>1 DEF Joins, Tuned
<1> QED BY <1>1, <1>2, <1>3 DEF Chained

\* Nothing was sent and nobody shows anything at the start.
LEMMA InitChained == Init => Chained
<1> SUFFICES ASSUME Init PROVE \E s \in [0..Len(wire) -> OptGraph] : Links(s) /\ Joins(s[0])
  BY DEF Chained
<1> DEFINE s == [i \in 0..0 |-> None]
<1>1. Len(wire) = 0 /\ s \in [0..Len(wire) -> OptGraph] /\ s[0] = None
  BY DEF OptGraph, Init
<1> HIDE DEF s
<1>2. last = None /\ route.pc = "idle" /\ \A p \in Makers : pub[p].pc # "sent"
  BY DEF Init, NoRoute, Makers, Publishers, Idle, Unused
<1>3. Links(s)
  BY <1>1, <1>2 DEF Links, SentLast, Alike
<1>4. Joins(s[0])
  BY <1>1, <1>2 DEF Joins, Tuned
<1> QED BY <1>1, <1>3, <1>4

\* A step that neither sends, nor publishes, nor shows.
LEMMA ChainStays ==
  ASSUME Chained, UNCHANGED <<wire, last, route, view, bh, rewound>>,
         pending \cap Browsers \subseteq pending',
         link' /\ ~overlap' => link /\ ~overlap,
         \A p \in Makers : pub'[p].pc = "sent" <=> pub[p].pc = "sent",
         \A p \in Makers : pub[p].pc = "sent" => pub'[p].graph = pub[p].graph,
         \A b \in Browsers : pub[b].pc = "full" => pub'[b].pc = "full"
  PROVE  Chained'
<1>1. ASSUME NEW h \in OptGraph, SentLast(h)
      PROVE  SentLast(h)'
  BY <1>1 DEF SentLast
<1>2. ASSUME NEW g \in OptGraph, Joins(g)
      PROVE  Joins(g)'
  BY <1>2, JoinsKept
<1> QED BY <1>1, <1>2, ChainKept

\* The pass of one publisher, up to what it sends.
LEMMA ChainPass ==
  ASSUME TypeInv, Places, Chained, NEW p \in Publishers, Collect(p) \/ CollectFails(p)
  PROVE  Chained'
<1>1. /\ pub \in [Publishers -> PubRecord] /\ Ticker \notin Refreshes \cup Browsers
      /\ Refreshes \cap Browsers = {} /\ Publishers = {Ticker} \cup Refreshes \cup Browsers
  BY PublishersAssumption DEF TypeInv, TypeOK, PubRecord, Publishers
<1>2. /\ UNCHANGED <<wire, last, route, view, bh, rewound, pending, link>>
      /\ ~overlap' => ~overlap
      /\ p \in Makers
  BY DEF Collect, CollectFails, hubVars, shown, Makers
<1>3. pub[p].pc # "sent" /\ pub'[p].pc # "sent" /\ \A q \in Publishers \ {p} : pub'[q] = pub[q]
  BY <1>1 DEF Collect, CollectFails, Done, PubRecord
<1>4. p \notin Browsers
  BY <1>1, <1>2 DEF Makers
<1> QED BY <1>1, <1>2, <1>3, <1>4, ChainStays DEF Makers

\* The ticker has nothing new to tell only if its graph looks like the last one.
LEMMA ChainDecides ==
  ASSUME TypeInv, Places, Single, Chained, Decide
  PROVE  Chained'
<1>1. /\ pub \in [Publishers -> PubRecord] /\ Ticker \notin Refreshes \cup Browsers
      /\ Refreshes \cap Browsers = {} /\ Publishers = {Ticker} \cup Refreshes \cup Browsers
  BY PublishersAssumption DEF TypeInv, TypeOK, PubRecord, Publishers
<1>2. UNCHANGED <<wire, last, route, view, bh, rewound, pending, link, overlap>>
  BY DEF Decide, hubVars, shown
<1>3. /\ Busy(Ticker) /\ pub[Ticker].graph \in Graphs /\ pub'[Ticker].graph = pub[Ticker].graph
      /\ \A q \in Publishers \ {Ticker} : pub'[q] = pub[q]
  BY <1>1 DEF Decide, Busy, TypeInv, HoldsGraph
<1>4. pub[Ticker].pc # "sent"
  BY DEF Decide
<1>5. pub'[Ticker].pc = "sent" => last # None /\ Unchanged(last, pub[Ticker].graph)
  BY <1>1 DEF Decide
<1>6. ASSUME link, ~overlap, NEW h \in OptGraph, SentLast(h)
      PROVE  SentLast(h)'
  <2>1. \A q \in Makers : q # Ticker => ~Busy(q)
    BY <1>1, <1>3, <1>6, OneBusy DEF Makers
  <2>2. \A q \in Makers : pub[q].pc # "sent"
    BY <1>4, <2>1 DEF Busy
  <2>3. Alike(h, last)
    BY <1>6, <2>2 DEF SentLast
  <2>4. \A q \in Makers : q # Ticker => pub'[q].pc # "sent"
    BY <1>1, <1>3, <2>2 DEF Makers
  <2>5. CASE pub'[Ticker].pc = "sent"
    <3>1. last \in Graphs /\ LookOf(last) = LookOf(pub[Ticker].graph)
      BY <1>3, <1>5, <2>5, UnchangedLooks DEF TypeInv, TypeOK, OptGraph
    <3>2. Alike(h, pub'[Ticker].graph)
      BY <1>3, <2>3, <3>1, NoneAssumption DEF Alike
    <3> QED BY <2>4, <2>5, <3>2 DEF SentLast, Makers
  <2>6. CASE pub'[Ticker].pc # "sent"
    BY <1>2, <2>3, <2>4, <2>6 DEF SentLast
  <2> QED BY <2>5, <2>6
<1>7. ASSUME NEW g \in OptGraph, Joins(g)
      PROVE  Joins(g)'
  BY <1>1, <1>2, <1>3, <1>7, JoinsKept
<1> QED BY <1>2, <1>6, <1>7, ChainKept

\* What becomes lastGraph is what was sent.
LEMMA ChainSets ==
  ASSUME TypeInv, Places, Single, Chained, NEW p \in Publishers, SetLastGraph(p)
  PROVE  Chained'
<1>1. /\ pub \in [Publishers -> PubRecord] /\ Ticker \notin Refreshes \cup Browsers
      /\ Refreshes \cap Browsers = {} /\ Publishers = {Ticker} \cup Refreshes \cup Browsers
  BY PublishersAssumption DEF TypeInv, TypeOK, PubRecord, Publishers
<1>2. UNCHANGED <<wire, route, view, bh, rewound, pending, link, overlap>>
  BY DEF SetLastGraph, hubVars, shown
<1>3. /\ Busy(p) /\ pub[p].pc = "sent" /\ p \notin Browsers /\ last' = pub[p].graph
      /\ pub'[p].pc \in {"idle", "done"} /\ \A q \in Publishers \ {p} : pub'[q] = pub[q]
  BY <1>1 DEF SetLastGraph, Busy, Places, Idle, Done
<1>4. ASSUME link, ~overlap, NEW h \in OptGraph, SentLast(h)
      PROVE  SentLast(h)'
  <2>1. \A q \in Publishers : q # p => ~Busy(q)
    BY <1>3, <1>4, OneBusy
  <2>2. \A q \in Makers : pub'[q].pc # "sent"
    BY <1>1, <1>3, <2>1 DEF Busy, Makers
  <2>3. Alike(h, last')
    BY <1>1, <1>3, <1>4 DEF SentLast, Makers
  <2> QED BY <2>2, <2>3 DEF SentLast
<1>5. ASSUME NEW g \in OptGraph, Joins(g)
      PROVE  Joins(g)'
  BY <1>1, <1>2, <1>3, <1>5, JoinsKept
<1> QED BY <1>2, <1>4, <1>5, ChainKept

\* Who is paired is sent the last graph, unless there is none to be behind of.
LEMMA ChainPairs ==
  ASSUME TypeInv, Places, Single, Chained, NEW b \in Browsers, HandlePaired(b)
  PROVE  Chained'
<1>1. /\ pub \in [Publishers -> PubRecord] /\ Ticker \notin Refreshes \cup Browsers
      /\ Refreshes \cap Browsers = {} /\ Publishers = {Ticker} \cup Refreshes \cup Browsers
  BY PublishersAssumption DEF TypeInv, TypeOK, PubRecord, Publishers
<1>2. /\ UNCHANGED <<wire, last, route, view, bh, rewound, link>>
      /\ pending' = pending \ {b} /\ \A q \in Publishers \ {b} : pub'[q] = pub[q]
  BY <1>1 DEF HandlePaired, hubVars, shown
<1>3. last # None => pub'[b].pc = "full"
  BY <1>1 DEF HandlePaired
<1>4. ~overlap' => ~overlap /\ \A p \in Makers : ~Busy(p)
  BY DEF HandlePaired, Makers
<1>5. ASSUME link, ~overlap', NEW g \in OptGraph, NEW h \in OptGraph,
             SentLast(h), g # None => h # None, Joins(g)
      PROVE  SentLast(h)' /\ Joins(g)'
  <2>1. \A p \in Makers : pub'[p] = pub[p] /\ pub[p].pc # "sent"
    BY <1>1, <1>2, <1>4, <1>5 DEF Makers, Busy
  <2>2. Alike(h, last) /\ SentLast(h)'
    BY <1>2, <1>5, <2>1 DEF SentLast
  <2>3. ASSUME NEW c \in Browsers, Notified(c)'
        PROVE  Tuned(c, g)'
    <3>1. Tuned(c, g) /\ After(c)' = After(c)
      BY <1>2, <1>5, <2>3 DEF Joins, Notified, After, Audience, Attached
    <3>2. CASE g = None
      BY <3>2 DEF Tuned
    <3>3. CASE g # None
      <4>1. last # None
        BY <1>5, <2>2, <3>3 DEF Alike
      <4>2. Coming(c) => Coming(c)'
        BY <1>1, <1>2, <1>3, <4>1 DEF Coming
      <4> QED BY <3>1, <4>2 DEF Tuned
    <3> QED BY <3>2, <3>3
  <2> QED BY <1>2, <1>5, <2>2, <2>3 DEF Joins
<1> QED BY <1>2, <1>4, <1>5, ChainKept

\* An error is not a graph.
LEMMA ChainReports ==
  ASSUME TypeInv, Places, Chained, ReportFailure
  PROVE  Chained'
<1>1. /\ pub \in [Publishers -> PubRecord] /\ Ticker \notin Refreshes \cup Browsers
      /\ Refreshes \cap Browsers = {} /\ Publishers = {Ticker} \cup Refreshes \cup Browsers
  BY PublishersAssumption DEF TypeInv, TypeOK, PubRecord, Publishers
<1>2. /\ UNCHANGED <<last, route, view, bh, rewound, pending, link, overlap>>
      /\ pub[Ticker].pc # "sent" /\ pub'[Ticker].pc # "sent"
      /\ \A q \in Publishers \ {Ticker} : pub'[q] = pub[q]
  BY <1>1 DEF ReportFailure, hubVars, shown, Idle
<1>3. CASE last = None
  <2>1. Sends(DiscoveryError) /\ DiscoveryError \in Messages
    BY <1>3 DEF ReportFailure, Messages
  <2>2. ASSUME NEW g \in OptGraph, SentLast(g)
        PROVE  Follows(g, DiscoveryError, g) /\ SentLast(g)'
    BY <1>1, <1>2, <2>2 DEF Follows, DiscoveryError, SentLast, Makers
  <2>3. link /\ ~overlap =>
          \A g \in OptGraph : SentLast(g) =>
            \E h \in OptGraph : Follows(g, DiscoveryError, h) /\ (g # None => h # None) /\ SentLast(h)'
    BY <2>2
  <2>4. \A b \in Browsers : pub[b].pc = "full" => pub'[b].pc = "full"
    BY <1>1, <1>2
  <2> QED BY <1>2, <2>1, <2>3, <2>4, ChainSends
<1>4. CASE last # None
  <2>1. UNCHANGED wire
    BY <1>4 DEF ReportFailure
  <2> QED BY <1>1, <1>2, <2>1, ChainStays DEF Makers
<1> QED BY <1>3, <1>4

\* What a publisher sends is what it will set, or what was set.
LEMMA ChainSendsGraph ==
  ASSUME TypeInv, Places, Single, Chained, NEW p \in Publishers, Send(p)
  PROVE  Chained'
<1>1. /\ pub \in [Publishers -> PubRecord] /\ Ticker \notin Refreshes \cup Browsers
      /\ Refreshes \cap Browsers = {} /\ Publishers = {Ticker} \cup Refreshes \cup Browsers
  BY PublishersAssumption DEF TypeInv, TypeOK, PubRecord, Publishers
<1>2. /\ UNCHANGED <<last, route, view, bh, rewound, pending, link, overlap>>
      /\ pub[p].pc \in {"full", "diff"} /\ pub[p].graph \in Graphs
      /\ \A q \in Publishers \ {p} : pub'[q] = pub[q]
  BY <1>1 DEF Send, hubVars, shown, TypeInv, HoldsGraph
<1>3. /\ p \in Browsers => pub'[p].pc = "done"
      /\ p \notin Browsers => pub'[p].pc = "sent" /\ pub'[p].graph = pub[p].graph
  BY <1>1 DEF Send, Done
<1>4. last \in OptGraph /\ pub[p].graph # None
  BY <1>2, NoneAssumption DEF TypeInv, TypeOK
<1>5. ASSUME link, ~overlap
      PROVE  /\ \A q \in Makers : pub[q].pc # "sent"
             /\ p \in Browsers => pub[p].graph = last /\ \A q \in Makers : pub'[q].pc # "sent"
             /\ p \notin Browsers => p \in Makers /\ \A q \in Makers \ {p} : pub'[q].pc # "sent"
             /\ pub[p].pc = "diff" => pub[p].from = last /\ last # None /\ p \notin Browsers
  <2>1. Busy(p)
    BY <1>2 DEF Busy
  <2>2. \A q \in Makers : q # p => ~Busy(q)
    BY <1>1, <1>5, <2>1, OneBusy DEF Makers
  <2>3. \A q \in Makers : pub[q].pc # "sent"
    BY <1>2, <2>2 DEF Busy
  <2>4. \A q \in Makers \ {p} : pub'[q].pc # "sent"
    BY <1>1, <1>2, <2>3 DEF Makers
  <2>5. p \in Browsers => p \notin Makers /\ pub[p].pc = "full"
    BY <1>1, <1>2 DEF Makers, Places
  <2>6. p \in Browsers => pub[p].graph = last
    BY <1>5, <2>5 DEF Single
  <2>7. pub[p].pc = "diff" => p = Ticker
    BY <1>1 DEF Places
  <2>8. pub[p].pc = "diff" => pub[p].from = last /\ last # None
    BY <1>5, <2>7 DEF Single
  <2> QED BY <1>1, <2>3, <2>4, <2>5, <2>6, <2>7, <2>8 DEF Makers
<1>7. \A b \in Browsers : pub[b].pc = "full" /\ b # p => pub'[b].pc = "full"
  BY <1>1, <1>2
<1>8. CASE pub[p].pc = "full"
  <2>1. Snapshot(pub[p].graph) \in Messages /\ Sends(Snapshot(pub[p].graph))
    BY <1>2, <1>8, SentMessages DEF Send
  <2>2. PICK k \in Graphs : k = pub[p].graph
    BY <1>2
  <2>3. ASSUME link, ~overlap, NEW g \in OptGraph, SentLast(g)
        PROVE  Follows(g, Snapshot(k), k) /\ SentLast(k)'
    <3>1. Follows(g, Snapshot(k), k)
      BY DEF Follows, Snapshot
    <3>2. CASE p \in Browsers
      <4>1. k = last' /\ \A q \in Makers : pub'[q].pc # "sent"
        BY <1>2, <1>5, <2>2, <2>3, <3>2
      <4> QED BY <3>1, <4>1 DEF SentLast, Alike
    <3>3. CASE p \notin Browsers
      <4>1. /\ p \in Makers /\ (\A q \in Makers \ {p} : pub'[q].pc # "sent")
            /\ pub'[p].pc = "sent" /\ pub'[p].graph = k
        BY <1>3, <1>5, <2>2, <2>3, <3>3
      <4> QED BY <3>1, <4>1 DEF SentLast, Alike
    <3> QED BY <3>1, <3>2, <3>3
  <2>4. k # None /\ k \in OptGraph
    BY <1>4, <2>2 DEF OptGraph
  <2>5. link /\ ~overlap =>
          \A g \in OptGraph : SentLast(g) =>
            \E h \in OptGraph : Follows(g, Snapshot(k), h) /\ (g # None => h # None) /\ SentLast(h)'
    BY <2>3, <2>4
  <2>6. Snapshot(k).type = "snapshot" /\ Sends(Snapshot(k)) /\ Snapshot(k) \in Messages
    BY <2>1, <2>2 DEF Snapshot
  <2> QED BY <1>2, <2>5, <2>6, ChainSends
<1>9. CASE pub[p].pc = "diff"
  <2>1. PICK f \in Graphs, k \in Graphs : f = pub[p].from /\ k = pub[p].graph
    BY <1>2, <1>9 DEF TypeInv, HoldsGraph
  <2>2. GraphDiff(f, k) \in Messages /\ Sends(GraphDiff(f, k))
    BY <1>9, <2>1, SentMessages DEF Send
  <2>3. k # None /\ k \in OptGraph
    BY <1>4, <2>1 DEF OptGraph
  <2>4. ASSUME link, ~overlap, NEW g \in OptGraph, SentLast(g)
        PROVE  Follows(g, GraphDiff(f, k), k) /\ SentLast(k)'
    <3>1. f = last /\ last # None /\ p \notin Browsers
      BY <1>5, <1>9, <2>1, <2>4
    <3>2. g # None /\ LookOf(g) = LookOf(f)
      BY <1>5, <2>4, <3>1 DEF SentLast, Alike
    <3>3. Follows(g, GraphDiff(f, k), k)
      BY <3>2 DEF Follows, GraphDiff
    <3>4. SentLast(k)'
      BY <1>2, <1>3, <1>5, <2>1, <2>4, <3>1 DEF SentLast, Alike
    <3> QED BY <3>3, <3>4
  <2>5. link /\ ~overlap =>
          \A g \in OptGraph : SentLast(g) =>
            \E h \in OptGraph : Follows(g, GraphDiff(f, k), h) /\ (g # None => h # None) /\ SentLast(h)'
    BY <2>3, <2>4
  <2>6. \A b \in Browsers : pub[b].pc = "full" => pub'[b].pc = "full"
    BY <1>7, <1>9
  <2> QED BY <1>2, <2>2, <2>5, <2>6, ChainSends
<1> QED BY <1>2, <1>8, <1>9

\* What a browser shows of a message of the wire, if it showed what came before.
LEMMA ShowsNext ==
  ASSUME NEW v \in OptGraph, NEW g \in OptGraph, NEW h \in OptGraph, NEW msg \in Messages,
         Follows(g, msg, h), g = None \/ (v # None /\ LookOf(v) = LookOf(g))
  PROVE  h = None \/ (Shown(v, msg) # None /\ LookOf(Shown(v, msg)) = LookOf(h))
<1>1. CASE msg.type = "snapshot"
  BY <1>1 DEF Follows, Shown
<1>2. CASE msg.type = "diff"
  <2>1. /\ g # None /\ LookOf(g) = LookOf(msg.from) /\ h = msg.to /\ v # None
        /\ v \in Graphs /\ msg.from \in Graphs /\ msg.to \in Graphs
    BY <1>2 DEF Follows, Messages, NoMessage, DiscoveryError, OptGraph
  <2>2. Shown(v, msg) = Patched(v, msg.from, msg.to)
    BY <1>2, <2>1 DEF Shown
  <2>3. Patched(v, msg.from, msg.to) \in Graphs
        /\ LookOf(Patched(v, msg.from, msg.to)) = LookOf(msg.to)
    <3>1. LookOf(v) = LookOf(msg.from)
      BY <1>2, <2>1
    <3> QED BY <2>1, <3>1, PatchedGraph, DiffReachesTarget
  <2> QED BY <2>1, <2>2, <2>3, NoneAssumption
<1>3. CASE msg.type \notin {"snapshot", "diff"}
  BY <1>3 DEF Follows, Shown
<1> QED BY <1>1, <1>2, <1>3

\* The hub takes the first message of the wire: the chain is one link shorter.
LEMMA ChainRoutes ==
  ASSUME TypeInv, Chained, RouteMessage
  PROVE  Chained'
<1> SUFFICES ASSUME link, ~overlap
             PROVE  (\E s \in [0..Len(wire) -> OptGraph] : Links(s) /\ Joins(s[0]))'
  BY DEF Chained, RouteMessage
<1>1. UNCHANGED <<pub, last, pending, link, bh, view, rewound>>
  BY DEF RouteMessage, agentVars, shown
<1>2. PICK n \in Nat : n + 1 = Len(wire)
  <2>1. wire \in Seq(Messages) /\ wire # <<>>
    BY DEF TypeInv, TypeOK, RouteMessage
  <2>2. Len(wire) \in Nat /\ Len(wire) # 0
    BY <2>1
  <2>3. Len(wire) - 1 \in Nat
    BY <2>2
  <2> QED BY <2>2, <2>3
<1>3. PICK msg \in Messages : msg = wire[1]
  BY <1>2 DEF TypeInv, TypeOK
<1>4. /\ Len(wire') = n /\ \A i \in 1..n : wire'[i] = wire[i + 1]
      /\ route'.pc = "routing" /\ route'.msg = msg
  BY <1>2, <1>3 DEF TypeInv, TypeOK, RouteMessage
<1>5. PICK s \in [0..(n + 1) -> OptGraph] : Links(s) /\ Joins(s[0])
  BY <1>2 DEF Chained
<1>6. PICK t \in [0..n -> OptGraph] : \A i \in 0..n : t[i] = s[i + 1]
  <2> DEFINE u == [i \in 0..n |-> s[i + 1]]
  <2>1. \A i \in 0..n : i + 1 \in 0..(n + 1)
    BY <1>2
  <2>2. u \in [0..n -> OptGraph]
    BY <1>5, <2>1
  <2> QED BY <2>2
<1>7. Links(t)'
  <2>1. ASSUME NEW i \in 1..n
        PROVE  Follows(t[i - 1], wire'[i], t[i])
    <3>1. i + 1 \in 1..(n + 1) /\ i - 1 \in 0..n /\ i \in 0..n /\ (i + 1) - 1 = i /\ (i - 1) + 1 = i
      BY <1>2
    <3>2. Follows(s[i], wire[i + 1], s[i + 1])
      BY <1>2, <1>5, <3>1 DEF Links
    <3> QED BY <1>4, <1>6, <3>1, <3>2
  <2>2. n \in 0..n
    BY <1>2
  <2>3. ASSUME NEW i \in 0..n, t[i] # None
        PROVE  t[n] # None
    <3>1. i + 1 \in 0..(n + 1)
      BY <1>2
    <3> QED BY <1>2, <1>5, <1>6, <2>2, <2>3, <3>1 DEF Links
  <2>4. SentLast(t[n])'
    <3>1. SentLast(s[n + 1]) /\ t[n] = s[n + 1]
      BY <1>2, <1>5, <1>6, <2>2 DEF Links
    <3>2. SentLast(t[n])
      BY <3>1
    <3> QED BY <1>1, <3>2 DEF SentLast
  <2> QED BY <1>4, <1>6, <2>1, <2>3, <2>4 DEF Links, Follows
<1>8. Joins(t[0])'
  <2>1. PICK g \in OptGraph, h \in OptGraph : g = s[0] /\ h = t[0]
    <3>1. 0 \in 0..(n + 1) /\ 0 \in 0..n
      BY <1>2
    <3> QED BY <1>5, <1>6, <3>1
  <2>2. Follows(g, msg, h) /\ Joins(g)
    <3>1. 0 \in 0..n /\ 0 + 1 = 1 /\ 1 - 1 = 0 /\ 1 \in 1..(n + 1)
      BY <1>2
    <3> QED BY <1>2, <1>3, <1>5, <1>6, <2>1, <3>1 DEF Links
  <2>3. msg.type = "snapshot" => Alike(h, msg.to)
    BY <2>2 DEF Follows, Alike
  <2>4. ASSUME NEW b \in Browsers, Notified(b)'
        PROVE  Tuned(b, h)'
    <3>1. Notified(b) /\ b \in Attached'
      BY <1>1, <2>4 DEF Notified, Attached
    <3>2. Tuned(b, g) /\ After(b) = view[b]
      BY <2>2, <3>1 DEF Joins, After, Audience, RouteMessage
    <3>3. After(b)' = Shown(view[b], msg)
      BY <1>1, <1>4, <3>1 DEF After, Audience
    <3>4. view[b] \in OptGraph
      BY DEF TypeInv, TypeOK
    <3>5. CASE msg.type = "snapshot"
      <4>1. h = None \/ (Shown(view[b], msg) # None /\ LookOf(Shown(view[b], msg)) = LookOf(h))
        BY <2>2, <3>5 DEF Follows, Shown
      <4> QED BY <3>3, <4>1 DEF Tuned
    <3>6. CASE msg.type # "snapshot" /\ Coming(b)
      <4>1. ASSUME NEW i \in 1..Len(wire), wire[i].type = "snapshot"
            PROVE  \E j \in 1..n : wire'[j].type = "snapshot"
        <5>1. i # 1
          BY <1>3, <3>6, <4>1
        <5>2. i - 1 \in 1..n /\ (i - 1) + 1 = i
          BY <1>2, <5>1
        <5>3. wire'[i - 1] = wire[i]
          BY <1>4, <5>2
        <5> QED BY <4>1, <5>2, <5>3
      <4>2. Coming(b)'
        BY <1>1, <1>4, <3>6, <4>1 DEF Coming
      <4> QED BY <4>2 DEF Tuned
    <3>7. CASE ~Coming(b)
      <4>1. g = None \/ (view[b] # None /\ LookOf(view[b]) = LookOf(g))
        BY <3>2, <3>7 DEF Tuned
      <4>2. h = None \/ (Shown(view[b], msg) # None /\ LookOf(Shown(view[b], msg)) = LookOf(h))
        BY <2>2, <3>4, <4>1, ShowsNext
      <4> QED BY <3>3, <4>2 DEF Tuned
    <3> QED BY <3>5, <3>6, <3>7
  <2>5. Joins(h)'
    BY <1>4, <2>3, <2>4 DEF Joins
  <2> QED BY <2>1, <2>5
<1> QED BY <1>4, <1>6, <1>7, <1>8

\* The hub delivers: what was to be shown is shown.
LEMMA ChainDelivers ==
  ASSUME TypeInv, Chained, CopyBrowsers \/ Deliver
  PROVE  Chained'
<1>1. UNCHANGED <<wire, last, pub, pending, link, overlap, bh>>
  BY DEF CopyBrowsers, Deliver, agentVars
<1>2. ASSUME NEW h \in OptGraph, SentLast(h)
      PROVE  SentLast(h)'
  BY <1>1, <1>2 DEF SentLast
<1>3. ASSUME NEW b \in Browsers
      PROVE  Coming(b)' <=> Coming(b)
  BY <1>1 DEF Coming
<1>4. ASSUME NEW g \in OptGraph, Joins(g)
      PROVE  Joins(g)'
  <2>1. CASE CopyBrowsers
    <3>1. /\ route.pc = "routing" /\ route'.pc = "casting" /\ route'.msg = route.msg
          /\ route'.to = Attached /\ UNCHANGED <<view, rewound>>
      BY <2>1 DEF CopyBrowsers, TypeInv, TypeOK, shown
    <3>2. ASSUME NEW b \in Browsers, Notified(b)'
          PROVE  Tuned(b, g)'
      <4>1. Notified(b) /\ After(b)' = After(b)
        BY <1>1, <3>1, <3>2 DEF Notified, After, Audience
      <4> QED BY <1>3, <1>4, <4>1 DEF Joins, Tuned
    <3> QED BY <1>4, <3>1, <3>2 DEF Joins
  <2>2. CASE Deliver
    <3>1. /\ route.pc = "casting" /\ route'.pc = "idle"
          /\ \A b \in Browsers : view'[b] = After(b)
          /\ rewound' = IF route.msg.type = "snapshot" THEN rewound \ route.to ELSE rewound
      BY <2>2 DEF Deliver, NoRoute, After, Audience
    <3>2. ASSUME NEW b \in Browsers, Notified(b)'
          PROVE  Tuned(b, g)'
      <4>1. After(b)' = After(b)
        BY <3>1 DEF After, Audience
      <4>2. CASE Notified(b)
        BY <1>3, <1>4, <4>1, <4>2 DEF Joins, Tuned
      <4>3. CASE ~Notified(b)
        <5>1. b \in route.to /\ route.msg.type = "snapshot"
          BY <1>1, <3>1, <3>2, <4>3 DEF Notified
        <5>2. After(b) = route.msg.to /\ Alike(g, route.msg.to)
          BY <1>4, <3>1, <5>1 DEF After, Audience, Shown, Joins
        <5> QED BY <4>1, <5>2 DEF Tuned, Alike
      <4> QED BY <4>2, <4>3
    <3> QED BY <3>1, <3>2 DEF Joins
  <2> QED BY <2>1, <2>2
<1> QED BY <1>1, <1>2, <1>4, ChainKept

\* A browser comes; its replay shows it the snapshot it would be shown next, or
\* leaves it behind.
LEMMA ChainGreets ==
  ASSUME TypeInv, NoDiffCached, Chained, NEW b \in Browsers,
         Attach(b) \/ NotifyAgent(b) \/ ReadCache(b) \/ ReplayCache(b)
  PROVE  Chained'
<1>1. /\ UNCHANGED <<wire, last, pub, link, overlap, route>>
      /\ bh \in [Browsers -> [pc : {"away", "attached", "notified", "replaying", "reading"},
                              cached : Messages]]
      /\ view \in [Browsers -> OptGraph]
      /\ \A c \in Browsers \ {b} : bh'[c] = bh[c] /\ view'[c] = view[c]
      /\ rewound' \in {rewound, rewound \cup {b}}
      /\ pending \subseteq pending'
  BY DEF Attach, NotifyAgent, ReadCache, ReplayCache, agentVars, hubVars, shown, TypeInv, TypeOK
<1>2. ASSUME NEW h \in OptGraph, SentLast(h)
      PROVE  SentLast(h)'
  BY <1>1, <1>2 DEF SentLast
<1>3. ASSUME NEW c \in Browsers, Coming(c)
      PROVE  Coming(c)'
  BY <1>1, <1>3 DEF Coming
<1>4. ASSUME link, NEW g \in OptGraph, Joins(g)
      PROVE  Joins(g)'
  <2>1. ASSUME NEW c \in Browsers, c # b, Notified(c)'
        PROVE  Tuned(c, g)'
    <3>1. Notified(c)
      BY <1>1, <2>1 DEF Notified
    <3>2. After(c)' = After(c)
      BY <1>1, <2>1 DEF After, Audience, Attached
    <3> QED BY <1>3, <1>4, <3>1, <3>2 DEF Joins, Tuned
  <2>2. CASE Attach(b)
    <3>1. ~Notified(b)'
      BY <1>1, <2>2 DEF Attach, Notified
    <3> QED BY <1>1, <1>4, <2>1, <3>1 DEF Joins
  <2>3. CASE NotifyAgent(b)
    <3>1. Coming(b)'
      BY <1>4, <2>3 DEF NotifyAgent, Coming
    <3>2. Tuned(b, g)'
      BY <3>1 DEF Tuned
    <3> QED BY <1>1, <1>4, <2>1, <3>2 DEF Joins
  <2>4. CASE ReadCache(b)
    <3>1. /\ bh[b].pc = "notified" /\ bh'[b].pc = "replaying" /\ view' = view /\ rewound' = rewound
      BY <1>1, <2>4 DEF ReadCache, shown
    <3>2. Notified(b)' => Notified(b)
      BY <3>1 DEF Notified
    <3>3. After(b)' = After(b)
      BY <1>1, <3>1 DEF After, Audience, Attached
    <3>4. Notified(b)' => Tuned(b, g)'
      BY <1>3, <1>4, <3>2, <3>3 DEF Joins, Tuned
    <3> QED BY <1>1, <1>4, <2>1, <3>4 DEF Joins
  <2>5. CASE ReplayCache(b)
    <3>1. /\ bh[b].pc = "replaying" /\ bh'[b].pc = "reading" /\ bh[b].cached.type # "diff"
          /\ view'[b] = Shown(view[b], bh[b].cached)
          /\ rewound' = IF view[b] # None /\ bh[b].cached.type = "snapshot"
                        THEN rewound \cup {b} ELSE rewound
      BY <1>1, <2>5 DEF ReplayCache, NoDiffCached
    <3>2. b \in Audience' <=> b \in Audience
      BY <1>1, <3>1 DEF Audience, Attached
    <3>3. ASSUME Notified(b)'
          PROVE  Tuned(b, g)'
      <4>1. Notified(b) /\ Tuned(b, g) /\ ~(view[b] # None /\ bh[b].cached.type = "snapshot")
        BY <1>4, <3>1, <3>3 DEF Notified, Joins
      <4>2. CASE bh[b].cached.type # "snapshot"
        <5>1. view'[b] = view[b]
          BY <3>1, <4>2 DEF Shown
        <5>2. After(b)' = After(b)
          BY <1>1, <3>2, <5>1 DEF After
        <5> QED BY <1>3, <4>1, <5>2 DEF Tuned
      <4>3. CASE g = None \/ Coming(b)
        BY <1>3, <4>3 DEF Tuned
      <4>4. CASE bh[b].cached.type = "snapshot" /\ After(b) # None /\ LookOf(After(b)) = LookOf(g)
        <5>1. view[b] = None
          BY <4>1, <4>4
        <5>2. b \in Audience /\ route.msg.type = "snapshot"
          BY <4>4, <5>1 DEF After, Shown
        <5>3. After(b)' = route.msg.to /\ After(b) = route.msg.to
          BY <1>1, <3>2, <5>2 DEF After, Shown
        <5> QED BY <4>4, <5>3 DEF Tuned
      <4> QED BY <4>1, <4>2, <4>3, <4>4 DEF Tuned
    <3> QED BY <1>1, <1>4, <2>1, <3>3 DEF Joins
  <2> QED BY <2>2, <2>3, <2>4, <2>5
<1>5. link' /\ ~overlap' => link /\ ~overlap
  BY <1>1
<1> QED BY <1>1, <1>2, <1>4, <1>5, ChainKept

\* A refresh that waits to be read has not begun.
LEMMA StepWaiting == TypeInv /\ Waiting /\ [Next]_vars => Waiting'
<1> SUFFICES ASSUME TypeInv, Waiting, [Next]_vars PROVE Waiting'
  OBVIOUS
<1>1. /\ pub \in [Publishers -> PubRecord] /\ Ticker \notin Refreshes
      /\ Refreshes \subseteq Publishers
  BY PublishersAssumption DEF TypeInv, TypeOK, PubRecord, Publishers
<1>2. ASSUME pending' \subseteq pending,
             \A r \in Refreshes : pub[r] = Unused => pub'[r] = Unused
      PROVE  Waiting'
  BY <1>2 DEF Waiting
<1>3. CASE AgentRestarts
  BY <1>3 DEF AgentRestarts, Waiting
<1>4. ASSUME NEW p \in Publishers, Publish(p)
      PROVE  Waiting'
  <2>1. pending' = pending
    BY <1>4 DEF Publish, Pass, Collect, CollectFails, Send, SetLastGraph, Decide, ReportFailure
  <2>2. p = Ticker \/ pub[p].pc # "unused"
    BY <1>4 DEF Publish, Pass, Collect, CollectFails, Send, SetLastGraph
  <2>3. \A q \in Publishers \ {p} : pub'[q] = pub[q]
    BY <1>1, <1>4 DEF Publish, Pass, Collect, CollectFails, Send, SetLastGraph, Decide, ReportFailure
  <2>4. \A r \in Refreshes : pub[r] = Unused => pub'[r] = Unused
    BY <1>1, <2>2, <2>3 DEF Unused
  <2> QED BY <1>2, <2>1, <2>4
<1>5. ASSUME NEW b \in Browsers, HandlePaired(b)
      PROVE  Waiting'
  <2>1. pending' \subseteq pending /\ \A r \in Refreshes : pub'[r] = pub[r]
    BY <1>1, <1>5, PublishersAssumption DEF HandlePaired
  <2> QED BY <1>2, <2>1
<1>6. ASSUME NEW r \in Refreshes, HandleRefresh(r)
      PROVE  Waiting'
  BY <1>1, <1>6 DEF HandleRefresh, Waiting
<1>7. CASE Hub \/ WorldChanges \/ LinkBreaks \/ UNCHANGED vars
  <2>1. pending' \subseteq pending /\ pub' = pub
    BY <1>7 DEF Hub, RouteMessage, CopyBrowsers, Deliver, WorldChanges, LinkBreaks, vars, agentVars
  <2> QED BY <1>2, <2>1
<1>8. ASSUME NEW b \in Browsers, BrowserHandler(b) \/ Attach(b)
      PROVE  Waiting'
  <2>1. pub' = pub /\ pending' \subseteq pending \cup {b} /\ b \notin Refreshes
    BY <1>8, PublishersAssumption
       DEF BrowserHandler, Attach, NotifyAgent, ReadCache, ReplayCache, agentVars
  <2> QED BY <2>1 DEF Waiting
<1>9. ASSUME NEW b \in Browsers, NEW r \in Refreshes, RequestRefresh(b, r)
      PROVE  Waiting'
  BY <1>9 DEF RequestRefresh, Waiting, agentVars
<1> QED BY <1>3, <1>4, <1>5, <1>6, <1>7, <1>8, <1>9
        DEF Next, Environment, CommandLoop, BrowserActs

LEMMA StepChained ==
  TypeInv /\ Waiting /\ Places /\ Single /\ NoDiffCached /\ Chained /\ [Next]_vars => Chained'
<1> SUFFICES ASSUME TypeInv, Waiting, Places, Single, NoDiffCached, Chained, [Next]_vars
             PROVE  Chained'
  OBVIOUS
<1>1. CASE WorldChanges \/ UNCHANGED vars
  <2>1. UNCHANGED <<wire, last, route, view, bh, rewound, pending, link, overlap, pub>>
    BY <1>1 DEF WorldChanges, vars, agentVars, hubVars, shown
  <2> QED BY <2>1, ChainStays
<1>2. CASE LinkBreaks
  BY <1>2 DEF LinkBreaks, Chained
<1>3. CASE AgentRestarts
  <2>1. wire' = <<>> /\ last' = None /\ route'.pc = "idle"
    BY <1>3 DEF AgentRestarts, hubVars
  <2>2. \A p \in Makers : pub'[p].pc # "sent"
    BY <1>3 DEF AgentRestarts, Makers, Publishers, Idle, Unused, Done
  <2> QED BY <2>1, <2>2, ChainStarts
<1>4. ASSUME NEW p \in Publishers, Publish(p) PROVE Chained'
  BY <1>4, ChainPass, ChainSendsGraph, ChainSets, ChainDecides, ChainReports DEF Publish, Pass
<1>5. ASSUME NEW b \in Browsers, HandlePaired(b) PROVE Chained'
  BY <1>5, ChainPairs
<1>6. ASSUME NEW r \in Refreshes, HandleRefresh(r) PROVE Chained'
  <2>1. /\ pub \in [Publishers -> PubRecord] /\ r \in Publishers /\ r \notin Browsers /\ r # Ticker
        /\ \A b \in Browsers : b # r /\ b \in Publishers
        /\ \A p \in Makers : p \in Publishers
    BY PublishersAssumption DEF TypeInv, TypeOK, PubRecord, Publishers, Makers
  <2>2. /\ UNCHANGED <<wire, last, route, view, bh, rewound, link, overlap>>
        /\ pending' = pending \ {r}
    BY <1>6 DEF HandleRefresh, hubVars, shown
  <2>3. pub'[r].pc # "sent" /\ \A p \in Publishers : p # r => pub'[p] = pub[p]
    BY <1>6, <2>1 DEF HandleRefresh, PubRecord
  <2>4. pub[r].pc # "sent" /\ pub[r].pc # "full"
    BY <1>6 DEF HandleRefresh, Waiting, Unused
  <2> QED BY <2>1, <2>2, <2>3, <2>4, ChainStays
<1>7. CASE RouteMessage
  BY <1>7, ChainRoutes
<1>8. CASE CopyBrowsers \/ Deliver
  BY <1>8, ChainDelivers
<1>9. ASSUME NEW b \in Browsers, BrowserHandler(b) \/ Attach(b) PROVE Chained'
  BY <1>9, ChainGreets DEF BrowserHandler
<1>10. ASSUME NEW b \in Browsers, NEW r \in Refreshes, RequestRefresh(b, r) PROVE Chained'
  <2>1. /\ UNCHANGED <<wire, last, route, view, bh, rewound, link, overlap, pub>>
        /\ pending \subseteq pending'
    BY <1>10 DEF RequestRefresh, agentVars, hubVars, shown
  <2> QED BY <2>1, ChainStays
<1> QED BY <1>1, <1>2, <1>3, <1>4, <1>5, <1>6, <1>7, <1>8, <1>9, <1>10
        DEF Next, Environment, CommandLoop, Hub, BrowserActs

LEMMA StepStays == TypeInv /\ StepInv /\ [Next]_vars => StepInv'
BY StepWaiting, StepPlaces, StepSingle, StepNoDiffCached, StepChained DEF StepInv

LEMMA ChainedInStep == TypeInv /\ StepInv => InStep
<1> SUFFICES ASSUME TypeInv, StepInv, Quiet, ~overlap, NEW b \in Browsers \ rewound,
                    bh[b].pc = "reading", last # None
             PROVE  view[b] # None /\ LookOf(view[b]) = LookOf(last)
  BY DEF InStep, UpToDate
<1>1. PICK s \in [0..Len(wire) -> OptGraph] : Links(s) /\ Joins(s[0])
  BY DEF StepInv, Chained, Quiet
<1>2. Len(wire) = 0
  BY DEF Quiet
<1>3. \A p \in Makers : pub[p].pc # "sent"
  BY DEF Quiet, Busy, Makers, Publishers
<1>4. Alike(s[0], last)
  BY <1>1, <1>2, <1>3 DEF Links, SentLast
<1>5. Tuned(b, s[0])
  BY <1>1 DEF Joins, Notified
<1>6. ~Coming(b) /\ After(b) = view[b]
  BY <1>2 DEF Quiet, Coming, Busy, Publishers, After, Audience
<1> QED BY <1>4, <1>5, <1>6 DEF Tuned, Alike

\* However changes, passes, replays, restarts and broken connections interleave: as
\* long as no two publications of the agent have overlapped, a browser that no replay
\* put back shows, once all is delivered, what the agent published last.
THEOREM ViewsInStep == Spec => []InStep
<1>1. Init => StepInv
  BY InitPlaces, InitChained DEF StepInv, Init, Waiting
<1> QED BY <1>1, StepStays, ChainedInStep, AlwaysTyped, PTL DEF Spec

=============================================================================
