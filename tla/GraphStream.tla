------------------------------ MODULE GraphStream ------------------------------
(***************************************************************************)
(* How a graph gets from an agent to the browsers: the agent's discovery   *)
(* passes and the three goroutines that publish their results              *)
(* (pkg/agent/ws_agent.go), the hub's cache and broadcast                  *)
(* (pkg/server/server.go) and the browser's store (frontend/store).        *)
(*                                                                         *)
(* A graph maps its items (nodes and edges) to their content: what         *)
(* nodeChanged compares (look: health and label) and everything it does    *)
(* not (rest; an edge is all rest).  A diff is named by the two graphs it  *)
(* was computed from.  The relay's handlers are those of module Relay,     *)
(* reduced to what graphs depend on; one agent and one session.            *)
(***************************************************************************)
EXTENDS Naturals, Sequences, FiniteSets

CONSTANTS
  Items, Looks, Rests, \* what graphs are made of
  Ticker,              \* the goroutine of Run's first pass and of refreshLoop
  Refreshes,           \* COMMAND "refresh" requests of browsers, each used once
  Browsers,            \* browser connections, each used once
  MaxWire,             \* messages between the agent and the hub before send blocks
  MaxChanges,          \* bound on changes of what discovery finds
  MaxTroubles,         \* bound on failed passes and restarts of the agent
  None

ASSUME PublishersAssumption ==
  /\ Ticker \notin Refreshes \cup Browsers
  /\ Refreshes \cap Browsers = {}
ASSUME BoundsAssumption ==
  MaxWire \in Nat \ {0} /\ MaxChanges \in Nat /\ MaxTroubles \in Nat

Publishers == {Ticker} \cup Refreshes \cup Browsers

VARIABLES
  world,               \* what discovery would find
  last,                \* the agent's lastGraph, or None
  booted,              \* whether Run has reached its command loop
  pub,                 \* pub[p]: a goroutine that collects and publishes a graph
  pending,             \* PAIRED and COMMAND messages the command loop will read
  link,                \* whether the agent's connection works
  wire,                \* what the agent sent and the hub has not read
  cached,              \* the session's LastSnapshot or LastDiscoveryError
  route,               \* the hub's routing of one message
  bh,                  \* bh[b]: the browser handler of connection b
  view,                \* view[b]: the graph browser b shows, or None
  overlap,             \* history: two publications of the agent have overlapped
  rewound,             \* history: browsers whose replay came after a live graph
  spent                \* how much of the environment's bounds is used

agentVars == <<last, booted, pub>>
hubVars == <<cached, route, bh>>
shown == <<view, rewound>>
vars == <<world, agentVars, pending, link, wire, hubVars, shown, overlap, spent>>

-----------------------------------------------------------------------------
\* Graphs and diffs.

Content == [look : Looks, rest : Rests]
Graphs == UNION {[S -> Content] : S \in SUBSET Items}

ASSUME NoneAssumption == None \notin Graphs

LookOf(g) == [i \in DOMAIN g |-> g[i].look]

\* Mutant: modified items are left out of a diff.
PutAdded(from, to) == DOMAIN to \ DOMAIN from

\* computeDiff: addedNodes, modifiedNodes and addedEdges.
Put(from, to) ==
  {i \in DOMAIN to : i \notin DOMAIN from \/ from[i].look # to[i].look}

Removed(from, to) == DOMAIN from \ DOMAIN to

Unchanged(from, to) == Put(from, to) = {} /\ Removed(from, to) = {}

\* applyVMDiff: a diff of from and to, applied to graph g.
Patched(g, from, to) ==
  [i \in (DOMAIN g \cup Put(from, to)) \ Removed(from, to) |->
    IF i \in Put(from, to) THEN to[i] ELSE g[i]]

Snapshot(g) == [type |-> "snapshot", from |-> None, to |-> g]
GraphDiff(f, g) == [type |-> "diff", from |-> f, to |-> g]
DiscoveryError == [type |-> "error", from |-> None, to |-> None]
NoMessage == [type |-> "none", from |-> None, to |-> None]

\* What a browser that shows v shows after a message.
Shown(v, msg) ==
  CASE msg.type = "snapshot" -> msg.to
    [] msg.type = "diff" /\ v # None -> Patched(v, msg.from, msg.to)
    [] OTHER -> v

-----------------------------------------------------------------------------
Idle == [pc |-> "idle", from |-> None, graph |-> None]
Unused == [pc |-> "unused", from |-> None, graph |-> None]
Done == [pc |-> "done", from |-> None, graph |-> None]
NoRoute == [pc |-> "idle", msg |-> NoMessage, to |-> {}]

Init ==
  /\ world \in Graphs
  /\ last = None
  /\ booted = FALSE
  /\ pub = [p \in Publishers |-> IF p = Ticker THEN Idle ELSE Unused]
  /\ pending = {}
  /\ link = TRUE
  /\ wire = <<>>
  /\ cached = NoMessage
  /\ route = NoRoute
  /\ bh = [b \in Browsers |-> [pc |-> "away", cached |-> NoMessage]]
  /\ view = [b \in Browsers |-> None]
  /\ overlap = FALSE
  /\ rewound = {}
  /\ spent = [changes |-> 0, troubles |-> 0]

-----------------------------------------------------------------------------
\* The environment.

WorldChanges ==
  /\ spent.changes < MaxChanges
  /\ world' \in Graphs \ {world}
  /\ spent' = [spent EXCEPT !.changes = @ + 1]
  /\ UNCHANGED <<agentVars, pending, link, wire, hubVars, shown, overlap>>

\* The connection breaks; a part of what was sent may still arrive.  readLoop
\* returns; Run, its goroutines and their sends go on.
LinkBreaks ==
  /\ link
  /\ link' = FALSE
  /\ pending' = {}
  /\ \E n \in 0..Len(wire) : wire' = SubSeq(wire, 1, n)
  /\ UNCHANGED <<world, agentVars, hubVars, shown, overlap, spent>>

\* The agent process ends and is started again, after the hub has seen the end
\* of its connection.
AgentRestarts ==
  /\ spent.troubles < MaxTroubles
  /\ route.pc = "idle"
  /\ spent' = [spent EXCEPT !.troubles = @ + 1]
  /\ last' = None
  /\ booted' = FALSE
  /\ pub' = [p \in Publishers |->
              IF p = Ticker THEN Idle ELSE IF pub[p] = Unused THEN Unused ELSE Done]
  /\ pending' = {}
  /\ link' = TRUE
  /\ wire' = <<>>
  /\ UNCHANGED <<world, hubVars, shown, overlap>>

-----------------------------------------------------------------------------
\* Publishing.  A publisher is busy from the end of its pass to the moment it has
\* reported the error or set lastGraph; two are in each other's way unless both
\* only re-send lastGraph.

Busy(p) == pub[p].pc \in {"collected", "failed", "full", "diff", "sent"}

Conflict ==
  \E p \in {Ticker} \cup Refreshes, q \in Publishers : p # q /\ Busy(p) /\ Busy(q)

\* collectAndFormatGraph, under discoverMu.
Collect(p) ==
  /\ \/ p = Ticker /\ pub[p].pc = "idle"
     \/ p \in Refreshes /\ pub[p].pc = "collecting"
  /\ pub' = [pub EXCEPT ![p].pc = IF p = Ticker THEN "collected" ELSE "full",
                        ![p].graph = world]
  /\ overlap' = (overlap \/ Conflict')
  /\ UNCHANGED <<world, last, booted, pending, link, wire, hubVars, shown, spent>>

\* A pass fails: refresh gives up, the ticker goes on to hasLastGraph.
CollectFails(p) ==
  /\ spent.troubles < MaxTroubles
  /\ spent' = [spent EXCEPT !.troubles = @ + 1]
  /\ \/ p = Ticker /\ pub[p].pc = "idle" /\ pub' = [pub EXCEPT ![p].pc = "failed"]
     \/ p \in Refreshes /\ pub[p].pc = "collecting" /\ pub' = [pub EXCEPT ![p] = Done]
  /\ overlap' = (overlap \/ Conflict')
  /\ UNCHANGED <<world, last, booted, pending, link, wire, hubVars, shown>>

\* Mutant: only the first pass sends a snapshot, even if it failed.
DecideFirstOnly ==
  /\ pub[Ticker].pc = "collected"
  /\ pub' = [pub EXCEPT
       ![Ticker].from = last,
       ![Ticker].pc = IF ~booted THEN "full"
                      ELSE IF last = None THEN "sent"
                      ELSE IF Unchanged(last, pub[Ticker].graph) THEN "sent" ELSE "diff"]
  /\ UNCHANGED <<world, last, booted, pending, link, wire, hubVars, shown, overlap, spent>>

\* hasLastGraph and computeDiff: a snapshot if nothing was published yet, a
\* diff if something changed.  (lastGraph never goes back to nil, so its two
\* reads are one.)  Run's first pass finds nothing published.
Decide ==
  /\ pub[Ticker].pc = "collected"
  /\ pub' = [pub EXCEPT
       ![Ticker].from = last,
       ![Ticker].pc = IF last = None THEN "full"
                      ELSE IF Unchanged(last, pub[Ticker].graph) THEN "sent" ELSE "diff"]
  /\ UNCHANGED <<world, last, booted, pending, link, wire, hubVars, shown, overlap, spent>>

\* send and sendRaw: under connMu, blocking while the connection is full; an
\* error is only logged.
Sends(msg) ==
  IF link THEN Len(wire) < MaxWire /\ wire' = Append(wire, msg) ELSE UNCHANGED wire

ReportFailure ==
  /\ pub[Ticker].pc = "failed"
  /\ IF last = None THEN Sends(DiscoveryError) ELSE UNCHANGED wire
  /\ pub' = [pub EXCEPT ![Ticker] = Idle]
  /\ booted' = TRUE
  /\ UNCHANGED <<world, last, pending, link, hubVars, shown, overlap, spent>>

Send(p) ==
  /\ \/ pub[p].pc = "full" /\ Sends(Snapshot(pub[p].graph))
     \/ pub[p].pc = "diff" /\ Sends(GraphDiff(pub[p].from, pub[p].graph))
  /\ pub' = IF p \in Browsers THEN [pub EXCEPT ![p] = Done]
                              ELSE [pub EXCEPT ![p].pc = "sent"]
  /\ UNCHANGED <<world, last, booted, pending, link, hubVars, shown, overlap, spent>>

SetLastGraph(p) ==
  /\ pub[p].pc = "sent"
  /\ last' = pub[p].graph
  /\ pub' = [pub EXCEPT ![p] = IF p = Ticker THEN Idle ELSE Done]
  /\ booted' = (booted \/ p = Ticker)
  /\ UNCHANGED <<world, pending, link, wire, hubVars, shown, overlap, spent>>

\* Mutant: PAIRED sends lastGraph even when there is none.
HandlePairedAlways(b) ==
  /\ booted
  /\ b \in pending
  /\ pending' = pending \ {b}
  /\ pub' = [pub EXCEPT ![b] = [pc |-> "full", from |-> None, graph |-> last]]
  /\ UNCHANGED <<world, last, booted, link, wire, hubVars, shown, overlap, spent>>

\* handleServerCommand: PAIRED re-sends what was published last, COMMAND starts
\* a pass; both in a goroutine of their own.
HandlePaired(b) ==
  /\ booted
  /\ b \in pending
  /\ pending' = pending \ {b}
  /\ pub' = [pub EXCEPT ![b] = IF last = None THEN Done ELSE
                               [pc |-> "full", from |-> None, graph |-> last]]
  /\ overlap' = (overlap \/ \E p \in {Ticker} \cup Refreshes : Busy(p))
  /\ UNCHANGED <<world, last, booted, link, wire, hubVars, shown, spent>>

HandleRefresh(r) ==
  /\ booted
  /\ r \in pending
  /\ pending' = pending \ {r}
  /\ pub' = [pub EXCEPT ![r].pc = "collecting"]
  /\ UNCHANGED <<world, last, booted, link, wire, hubVars, shown, overlap, spent>>

-----------------------------------------------------------------------------
\* The hub (see Relay).

Attached == {b \in Browsers : bh[b].pc # "away"}

\* Mutant: snapshots are relayed but not cached.
RouteUncached ==
  /\ route.pc = "idle"
  /\ wire # <<>>
  /\ route' = [pc |-> "routing", msg |-> Head(wire), to |-> {}]
  /\ wire' = Tail(wire)
  /\ UNCHANGED <<world, agentVars, pending, link, cached, bh, shown, overlap, spent>>

\* routeAgentMessage: update the session.
RouteMessage ==
  /\ route.pc = "idle"
  /\ wire # <<>>
  /\ LET msg == Head(wire) IN
     /\ route' = [pc |-> "routing", msg |-> msg, to |-> {}]
     /\ cached' = IF \/ msg.type = "snapshot"
                     \/ msg.type = "error" /\ cached.type # "snapshot"
                  THEN msg ELSE cached
  /\ wire' = Tail(wire)
  /\ UNCHANGED <<world, agentVars, pending, link, bh, shown, overlap, spent>>

\* broadcastToBrowsers: copy the browsers under the lock, then send to each.
CopyBrowsers ==
  /\ route.pc = "routing"
  /\ route' = [route EXCEPT !.pc = "casting", !.to = Attached]
  /\ UNCHANGED <<world, agentVars, pending, link, wire, cached, bh, shown, overlap, spent>>

Deliver ==
  /\ route.pc = "casting"
  /\ route' = NoRoute
  /\ view' = [b \in Browsers |->
               IF b \in route.to THEN Shown(view[b], route.msg) ELSE view[b]]
  /\ rewound' = IF route.msg.type = "snapshot" THEN rewound \ route.to ELSE rewound
  /\ UNCHANGED <<world, agentVars, pending, link, wire, cached, bh, overlap, spent>>

\* handleBrowserWS
Attach(b) ==
  /\ bh[b].pc = "away"
  /\ bh' = [bh EXCEPT ![b].pc = "attached"]
  /\ UNCHANGED <<world, agentVars, pending, link, wire, cached, route, shown, overlap, spent>>

\* Mutant: the agent is not told of a new browser.
NotifyNobody(b) ==
  /\ bh[b].pc = "attached"
  /\ bh' = [bh EXCEPT ![b].pc = "notified"]
  /\ UNCHANGED <<world, agentVars, pending, link, wire, cached, route, shown, overlap, spent>>

\* PAIRED goes to the agent if it is connected.
NotifyAgent(b) ==
  /\ bh[b].pc = "attached"
  /\ bh' = [bh EXCEPT ![b].pc = "notified"]
  /\ pending' = IF link THEN pending \cup {b} ELSE pending
  /\ UNCHANGED <<world, agentVars, link, wire, cached, route, shown, overlap, spent>>

ReadCache(b) ==
  /\ bh[b].pc = "notified"
  /\ bh' = [bh EXCEPT ![b].pc = "replaying", ![b].cached = cached]
  /\ UNCHANGED <<world, agentVars, pending, link, wire, cached, route, shown, overlap, spent>>

\* A replay that comes after a live graph puts the browser back.
ReplayCache(b) ==
  /\ bh[b].pc = "replaying"
  /\ bh' = [bh EXCEPT ![b] = [pc |-> "reading", cached |-> NoMessage]]
  /\ view' = [view EXCEPT ![b] = Shown(@, bh[b].cached)]
  /\ rewound' = IF view[b] # None /\ bh[b].cached.type = "snapshot"
                THEN rewound \cup {b} ELSE rewound
  /\ UNCHANGED <<world, agentVars, pending, link, wire, cached, route, overlap, spent>>

RequestRefresh(b, r) ==
  /\ bh[b].pc = "reading"
  /\ link
  /\ r \notin pending /\ pub[r] = Unused
  /\ pending' = pending \cup {r}
  /\ UNCHANGED <<world, agentVars, link, wire, hubVars, shown, overlap, spent>>

-----------------------------------------------------------------------------
Environment == WorldChanges \/ LinkBreaks \/ AgentRestarts

Pass(p) == Collect(p) \/ CollectFails(p) \/ Send(p) \/ SetLastGraph(p)

Publish(p) == Pass(p) \/ (p = Ticker /\ (Decide \/ ReportFailure))

CommandLoop ==
  \/ \E b \in Browsers : HandlePaired(b)
  \/ \E r \in Refreshes : HandleRefresh(r)

Hub == RouteMessage \/ CopyBrowsers \/ Deliver

BrowserHandler(b) == NotifyAgent(b) \/ ReadCache(b) \/ ReplayCache(b)

BrowserActs(b) == Attach(b) \/ \E r \in Refreshes : RequestRefresh(b, r)

Next ==
  \/ Environment
  \/ \E p \in Publishers : Publish(p)
  \/ CommandLoop
  \/ Hub
  \/ \E b \in Browsers : BrowserHandler(b) \/ BrowserActs(b)

Spec == Init /\ [][Next]_vars

\* Go's scheduler and tickers run every goroutine; a mutex that is waited for is
\* handed over in order, hence strong fairness of a send.
Fairness ==
  /\ \A p \in Publishers : WF_vars(Publish(p)) /\ SF_vars(Send(p))
  /\ WF_vars(CommandLoop)
  /\ WF_vars(Hub)
  /\ \A b \in Browsers : WF_vars(BrowserHandler(b))

FairSpec == Spec /\ Fairness

-----------------------------------------------------------------------------
OptGraph == Graphs \cup {None}
Messages ==
  {NoMessage, DiscoveryError} \cup [type : {"snapshot"}, from : {None}, to : Graphs]
    \cup [type : {"diff"}, from : Graphs, to : Graphs]

TypeOK ==
  /\ world \in Graphs
  /\ last \in OptGraph
  /\ booted \in BOOLEAN
  /\ pub \in [Publishers -> [pc : {"unused", "idle", "collecting", "collected", "failed",
                                   "full", "diff", "sent", "done"},
                             from : OptGraph, graph : OptGraph]]
  /\ pending \in SUBSET (Refreshes \cup Browsers)
  /\ link \in BOOLEAN
  /\ wire \in Seq(Messages)
  /\ cached \in Messages
  /\ route \in [pc : {"idle", "routing", "casting"}, msg : Messages, to : SUBSET Browsers]
  /\ bh \in [Browsers -> [pc : {"away", "attached", "notified", "replaying", "reading"},
                          cached : Messages]]
  /\ view \in [Browsers -> OptGraph]
  /\ overlap \in BOOLEAN
  /\ rewound \in SUBSET Browsers
  /\ spent \in [changes : 0..MaxChanges, troubles : 0..MaxTroubles]

\* Whatever publishers do at once, a diff never reaches the hub before a
\* snapshot it can be applied to: browsers that attach later find one cached.
DiffHasBase ==
  route.msg.type = "diff" => cached.type = "snapshot"

\* With nothing on its way, a browser shows what the agent published last, as
\* far as a diff tells (health and label): as long as no two publications have
\* overlapped, and no replay has put this browser back, diffs never drift.
Quiet ==
  /\ link
  /\ wire = <<>>
  /\ route.pc = "idle"
  /\ pending \cap Browsers = {}
  /\ \A p \in Publishers : ~Busy(p)

UpToDate(b) ==
  bh[b].pc = "reading" /\ last # None => view[b] # None /\ LookOf(view[b]) = LookOf(last)

InStep == Quiet /\ ~overlap => \A b \in Browsers \ rewound : UpToDate(b)

\* A browser that opens a reachable machine gets a graph, whatever overlaps and
\* whichever passes fail: a diff alone would leave it waiting.
EventuallyGraph ==
  \A b \in Browsers :
    bh[b].pc = "reading" ~> (view[b] # None \/ ~link)

\* When the machine stops changing, its browsers end up showing it as it is,
\* with the same two exceptions.
Settled ==
  overlap \/ ~link \/
    \A b \in Browsers \ rewound :
      bh[b].pc = "reading" => view[b] # None /\ LookOf(view[b]) = LookOf(world)

Settles == <>[]Settled

-----------------------------------------------------------------------------
\* A statement of the documentation that the model refutes.

\* docs/multi-machine.md: "Agents reconnect on their own".
Reconnects == ~link ~> link
=============================================================================
