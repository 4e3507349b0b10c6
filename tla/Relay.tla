-------------------------------- MODULE Relay --------------------------------
(***************************************************************************)
(* The hub's session relay (pkg/server: session.go, server.go): the store  *)
(* of sessions, one goroutine per agent connection (handleAgentWS), one    *)
(* per browser connection (handleBrowserWS), and the DELETE request that   *)
(* removes a cluster (handleClusterByID).                                  *)
(*                                                                         *)
(* Each action is one critical section of the code, so what a handler read *)
(* under a lock may be stale when it uses it.  Messages to a browser are   *)
(* folded into what that browser shows when they are enqueued: SafeConn    *)
(* delivers them in that order.  Contents of graphs, diffs, terminals and  *)
(* actions pass through the relay unchanged and are left out.              *)
(*                                                                         *)
(* A connection opens at most one session, so the session created on       *)
(* connection c is called c, and the resume secret issued with it too.     *)
(***************************************************************************)
EXTENDS Naturals

CONSTANTS
  Machines,            \* machine IDs: joined VMs and connected clusters
  Clusters,            \* those that are clusters ("cluster-" IDs)
  LocalMachine,        \* the hub's own machine ID, or None
  Conns,               \* agent connections, each used once
  Browsers,            \* browser connections, each used once
  Deleters,            \* DELETE /api/clusters/{id} requests
  Legacy,              \* whether agents without a machine ID dial in too
  MaxPayloads,         \* bound on snapshots and discovery errors routed
  None

ASSUME ClustersAssumption == Clusters \subseteq Machines
ASSUME LocalAssumption == LocalMachine \in (Machines \ Clusters) \cup {None}
ASSUME NoneAssumption == None \notin Machines \cup Conns
ASSUME LegacyAssumption == Legacy \in BOOLEAN
ASSUME MaxPayloadsAssumption == MaxPayloads \in Nat

VARIABLES
  held,                \* held[m]: the resume secret machine m has saved, or None
  dialed,              \* dialed[m]: the connection m's agent process uses, or None
  conn,                \* conn[c]: an agent connection as the hub sees it
  stored,              \* sessions in the store (byID and byCode: always the same)
  byMachine,           \* byMachine[m]: the session indexed under m, or None
  localSession,        \* the session the browser key "local" stands for, or None
  sess,                \* sess[s]: the Session objects
  ah,                  \* ah[c]: the agent handler of connection c
  bh,                  \* bh[b]: the browser handler of connection b
  view,                \* view[b]: what browser b has been told
  dh,                  \* dh[d]: the DELETE request d
  removed,             \* clusters whose entry DELETE has removed
  payloads             \* number of snapshots and errors routed so far

agentVars == <<held, dialed>>
storeVars == <<stored, byMachine, localSession>>
browserVars == <<bh, view>>
deleteVars == <<dh, removed>>
vars == <<agentVars, conn, storeVars, sess, ah, browserVars, deleteVars, payloads>>

Sessions == Conns

-----------------------------------------------------------------------------
\* Messages the relay sends to browsers.

Connected == [type |-> "connected", n |-> 0]         \* AGENT_CONNECTED
Disconnected == [type |-> "disconnected", n |-> 0]   \* AGENT_DISCONNECTED
NoPayload == [type |-> "none", n |-> 0]

Snapshots == [type : {"snapshot"}, n : 1..MaxPayloads]
Errors == [type : {"error"}, n : 1..MaxPayloads]
Payloads == Snapshots \cup Errors
Messages == Payloads \cup {Connected, Disconnected}

\* wsManager.handleMessage: the status badge a message leaves behind.
StatusAfter(msg, status) ==
  IF msg = Disconnected THEN "disconnected"
  ELSE IF msg = Connected \/ msg \in Snapshots THEN "connected"
  ELSE status

Told(v, msg) ==
  [status |-> StatusAfter(msg, v.status),
   got |-> IF msg \in Payloads THEN v.got \cup {msg} ELSE v.got]

NoSession ==
  [made |-> FALSE, machine |-> None, conn |-> None, online |-> FALSE,
   named |-> FALSE, cached |-> NoPayload, browsers |-> {}]

Init ==
  /\ held = [m \in Machines |-> None]
  /\ dialed = [m \in Machines |-> None]
  /\ conn = [c \in Conns |-> [by |-> None, shows |-> None, up |-> FALSE, issued |-> None]]
  /\ stored = {}
  /\ byMachine = [m \in Machines |-> None]
  /\ localSession = None
  /\ sess = [s \in Sessions |-> NoSession]
  /\ ah = [c \in Conns |-> [pc |-> "none", sess |-> None, secret |-> None,
                            msg |-> Connected, to |-> {}]]
  /\ bh = [b \in Browsers |-> [pc |-> "none", sess |-> None, online |-> FALSE,
                               cached |-> NoPayload]]
  /\ view = [b \in Browsers |-> [status |-> "paired", got |-> {}]]
  /\ dh = [d \in Deleters |-> [pc |-> "none", machine |-> None, sess |-> None]]
  /\ removed = {}
  /\ payloads = 0

-----------------------------------------------------------------------------
\* Agent processes and the network (ws_agent.go, clustermgr.go).

\* A process connects and sends HELLO.
Dial(c, m, secret) ==
  /\ ah[c].pc = "none"
  /\ conn' = [conn EXCEPT ![c] = [by |-> m, shows |-> secret, up |-> TRUE, issued |-> None]]
  /\ ah' = [ah EXCEPT ![c].pc = "hello"]
  /\ UNCHANGED <<held, storeVars, sess, browserVars, deleteVars, payloads>>

\* It presents the secret it has saved.
AgentDial(m, c) ==
  /\ dialed[m] = None
  /\ m \notin removed
  /\ dialed' = [dialed EXCEPT ![m] = c]
  /\ Dial(c, m, held[m])

\* An agent without a machine ID has none.
LegacyDial(c) ==
  /\ Legacy
  /\ Dial(c, None, None)
  /\ UNCHANGED dialed

\* The process crashes, restarts or is cancelled.  The hub may notice much
\* later (ConnLost), and goes on reading what was already sent.
AgentStops(m) ==
  /\ dialed[m] # None
  /\ dialed' = [dialed EXCEPT ![m] = None]
  /\ UNCHANGED <<held, conn, storeVars, sess, ah, browserVars, deleteVars, payloads>>

ConnLost(c) ==
  /\ conn[c].up
  /\ conn' = [conn EXCEPT ![c].up = FALSE]
  /\ UNCHANGED <<agentVars, storeVars, sess, ah, browserVars, deleteVars, payloads>>

\* waitForPairCode: a PAIR_CODE with a fresh secret reaches the process, which
\* saves it.  A VM's agent saves it to a file, best effort (saveResumeSecret
\* ignores its error); the cluster manager keeps a cluster's in memory.
ReceivePairCode(c) ==
  LET m == conn[c].by IN
  /\ conn[c].issued # None
  /\ conn[c].up
  /\ m # None
  /\ dialed[m] = c
  /\ \/ held' = [held EXCEPT ![m] = conn[c].issued]
     \/ m \notin Clusters /\ UNCHANGED held
  /\ conn' = [conn EXCEPT ![c].issued = None]
  /\ UNCHANGED <<dialed, storeVars, sess, ah, browserVars, deleteVars, payloads>>

-----------------------------------------------------------------------------
\* handleAgentWS up to the read loop.

\* The first read fails or times out.
NoHello(c) ==
  /\ ah[c].pc = "hello"
  /\ ~conn[c].up
  /\ ah' = [ah EXCEPT ![c].pc = "done"]
  /\ UNCHANGED <<agentVars, conn, storeVars, sess, browserVars, deleteVars, payloads>>

\* SessionStore.Create, or UpsertByMachine for a machine ID not seen before.
CreateSession(c) ==
  LET m == conn[c].by IN
  /\ ah[c].pc = "hello"
  /\ m # None => byMachine[m] = None
  /\ sess' = [sess EXCEPT ![c] = [NoSession EXCEPT !.made = TRUE, !.machine = m,
                                                   !.conn = c, !.online = TRUE]]
  /\ stored' = stored \cup {c}
  /\ byMachine' = IF m = None THEN byMachine ELSE [byMachine EXCEPT ![m] = c]
  /\ ah' = [ah EXCEPT ![c].pc = "registered", ![c].sess = c,
                      ![c].secret = IF m = None THEN None ELSE c]
  /\ UNCHANGED <<agentVars, conn, localSession, browserVars, deleteVars, payloads>>

\* UpsertByMachine for a known machine ID, with the right secret: the session
\* gets this connection.  The one it had before is not closed.
ResumeSession(c) ==
  LET m == conn[c].by
      s == byMachine[m]
  IN
  /\ ah[c].pc = "hello"
  /\ m # None
  /\ s # None
  /\ conn[c].shows = s
  /\ sess' = [sess EXCEPT ![s].conn = c, ![s].online = TRUE]
  /\ ah' = [ah EXCEPT ![c].pc = "registered", ![c].sess = s]
  /\ UNCHANGED <<agentVars, conn, storeVars, browserVars, deleteVars, payloads>>

RejectHello(c) ==
  LET m == conn[c].by IN
  /\ ah[c].pc = "hello"
  /\ m # None
  /\ byMachine[m] # None
  /\ conn[c].shows # byMachine[m]
  /\ ah' = [ah EXCEPT ![c].pc = "rejected"]
  /\ conn' = [conn EXCEPT ![c].up = FALSE]
  /\ UNCHANGED <<agentVars, storeVars, sess, browserVars, deleteVars, payloads>>

\* Mutant: whoever connects first is taken for this machine's own agent.
IsLocalFirst(c) == localSession \in {None, ah[c].sess}

IsLocal(c) ==
  IF LocalMachine # None
  THEN conn[c].by = LocalMachine
  ELSE localSession \in {None, ah[c].sess}

BindLocal(c) ==
  /\ ah[c].pc = "registered"
  /\ localSession' = IF IsLocal(c) THEN ah[c].sess ELSE localSession
  /\ ah' = [ah EXCEPT ![c].pc = "bound"]
  /\ UNCHANGED <<agentVars, conn, stored, byMachine, sess, browserVars, deleteVars,
                 payloads>>

\* Mutant: PAIR_CODE carries the machine ID where the secret belongs.
SendPairCodeSwapped(c) ==
  /\ ah[c].pc = "bound"
  /\ conn' = [conn EXCEPT ![c].issued = conn[c].by]
  /\ ah' = [ah EXCEPT ![c].pc = "paired"]
  /\ UNCHANGED <<agentVars, storeVars, sess, browserVars, deleteVars, payloads>>

SendPairCode(c) ==
  /\ ah[c].pc = "bound"
  /\ conn' = [conn EXCEPT ![c].issued = ah[c].secret]
  /\ ah' = [ah EXCEPT ![c].pc = "paired"]
  /\ UNCHANGED <<agentVars, storeVars, sess, browserVars, deleteVars, payloads>>

\* Mutant: the handler returns without dropAgentConn.
PairCodeFailsReturns(c) ==
  /\ ah[c].pc = "bound"
  /\ ah[c].sess # c
  /\ conn' = [conn EXCEPT ![c].up = FALSE]
  /\ ah' = [ah EXCEPT ![c].pc = "done"]
  /\ UNCHANGED <<agentVars, storeVars, sess, browserVars, deleteVars, payloads>>

\* The enqueue is refused: the handler closes the connection and drops it.
\* Only the browsers of a resumed session can have filled the outbox by now.
PairCodeFails(c) ==
  /\ ah[c].pc = "bound"
  /\ ah[c].sess # c
  /\ conn' = [conn EXCEPT ![c].up = FALSE]
  /\ ah' = [ah EXCEPT ![c].pc = "closing"]
  /\ UNCHANGED <<agentVars, storeVars, sess, browserVars, deleteVars, payloads>>

-----------------------------------------------------------------------------
\* routeAgentMessage and broadcastToBrowsers.  State is updated under the
\* session's lock, then the browsers are copied under it, then each is sent
\* the message with no lock held.

Broadcast(c, msg) == ah' = [ah EXCEPT ![c].pc = "copying", ![c].msg = msg]

\* The HELLO already read: hostname and scope, and the agent is announced.
RouteHello(c) ==
  /\ ah[c].pc = "paired"
  /\ sess' = [sess EXCEPT ![ah[c].sess].named = TRUE]
  /\ Broadcast(c, Connected)
  /\ UNCHANGED <<agentVars, conn, storeVars, browserVars, deleteVars, payloads>>

RouteSnapshot(c) ==
  LET p == [type |-> "snapshot", n |-> payloads + 1] IN
  /\ ah[c].pc = "reading"
  /\ payloads < MaxPayloads
  /\ payloads' = payloads + 1
  /\ sess' = [sess EXCEPT ![ah[c].sess].cached = p]
  /\ Broadcast(c, p)
  /\ UNCHANGED <<agentVars, conn, storeVars, browserVars, deleteVars>>

\* Cached only while the session has never had a snapshot.
RouteDiscoveryError(c) ==
  LET p == [type |-> "error", n |-> payloads + 1] IN
  /\ ah[c].pc = "reading"
  /\ payloads < MaxPayloads
  /\ payloads' = payloads + 1
  /\ sess' = [sess EXCEPT ![ah[c].sess].cached = IF @ \in Snapshots THEN @ ELSE p]
  /\ Broadcast(c, p)
  /\ UNCHANGED <<agentVars, conn, storeVars, browserVars, deleteVars>>

\* The last message sent, the handler reads on, or ends if that message was
\* its farewell.
Casting(c, browsers) ==
  ah' = [ah EXCEPT ![c].to = browsers,
                   ![c].pc = IF browsers # {} THEN "casting"
                             ELSE IF ah[c].msg = Disconnected THEN "done" ELSE "reading"]

\* Mutant: browsers whose replay is still under way are skipped.
CopyReadingBrowsers(c) ==
  /\ ah[c].pc = "copying"
  /\ Casting(c, {b \in sess[ah[c].sess].browsers : bh[b].pc = "reading"})
  /\ UNCHANGED <<agentVars, conn, storeVars, sess, browserVars, deleteVars, payloads>>

CopyBrowsers(c) ==
  /\ ah[c].pc = "copying"
  /\ Casting(c, sess[ah[c].sess].browsers)
  /\ UNCHANGED <<agentVars, conn, storeVars, sess, browserVars, deleteVars, payloads>>

\* To a browser that has gone meanwhile the enqueue fails, unnoticed.
SendTo(c, b) ==
  /\ ah[c].pc = "casting"
  /\ b \in ah[c].to
  /\ Casting(c, ah[c].to \ {b})
  /\ view' = IF bh[b].pc = "done" THEN view
             ELSE [view EXCEPT ![b] = Told(@, ah[c].msg)]
  /\ UNCHANGED <<agentVars, conn, storeVars, sess, bh, deleteVars, payloads>>

-----------------------------------------------------------------------------
\* The end of an agent connection: the read loop fails, then dropAgentConn.

ReadFails(c) ==
  /\ ah[c].pc = "reading"
  /\ ~conn[c].up
  /\ ah' = [ah EXCEPT ![c].pc = "closing"]
  /\ UNCHANGED <<agentVars, conn, storeVars, sess, browserVars, deleteVars, payloads>>

\* A newer connection has taken the session over: nothing to do.
DropSuperseded(c) ==
  /\ ah[c].pc = "closing"
  /\ sess[ah[c].sess].conn # c
  /\ ah' = [ah EXCEPT ![c].pc = "done"]
  /\ UNCHANGED <<agentVars, conn, storeVars, sess, browserVars, deleteVars, payloads>>

\* Mutants: the session is taken offline whoever owns it now; its browsers are
\* not told.
DropAgentUnchecked(c) ==
  LET s == ah[c].sess IN
  /\ ah[c].pc = "closing"
  /\ sess' = [sess EXCEPT ![s].conn = None, ![s].online = FALSE]
  /\ ah' = IF sess[s].machine # None
           THEN [ah EXCEPT ![c].pc = "copying", ![c].msg = Disconnected]
           ELSE [ah EXCEPT ![c].pc = "dropped"]
  /\ UNCHANGED <<agentVars, conn, storeVars, browserVars, deleteVars, payloads>>

DropAgentSilently(c) ==
  LET s == ah[c].sess IN
  /\ ah[c].pc = "closing"
  /\ sess[s].conn = c
  /\ sess' = [sess EXCEPT ![s].conn = None, ![s].online = FALSE]
  /\ ah' = [ah EXCEPT ![c].pc = IF sess[s].machine # None THEN "done" ELSE "dropped"]
  /\ UNCHANGED <<agentVars, conn, storeVars, browserVars, deleteVars, payloads>>

\* The session of a machine is kept, offline, and its browsers are told; a
\* session without a machine ID is deleted first.
DropAgent(c) ==
  LET s == ah[c].sess IN
  /\ ah[c].pc = "closing"
  /\ sess[s].conn = c
  /\ sess' = [sess EXCEPT ![s].conn = None, ![s].online = FALSE]
  /\ ah' = IF sess[s].machine # None
           THEN [ah EXCEPT ![c].pc = "copying", ![c].msg = Disconnected]
           ELSE [ah EXCEPT ![c].pc = "dropped"]
  /\ UNCHANGED <<agentVars, conn, storeVars, browserVars, deleteVars, payloads>>

DeleteLegacy(c) ==
  /\ ah[c].pc = "dropped"
  /\ stored' = stored \ {ah[c].sess}
  /\ ah' = [ah EXCEPT ![c].pc = "unlink"]
  /\ UNCHANGED <<agentVars, conn, byMachine, localSession, sess, browserVars, deleteVars,
                 payloads>>

UnbindLocal(c) ==
  /\ ah[c].pc = "unlink"
  /\ localSession' = IF localSession = ah[c].sess THEN None ELSE localSession
  /\ Broadcast(c, Disconnected)
  /\ UNCHANGED <<agentVars, conn, stored, byMachine, sess, browserVars, deleteVars,
                 payloads>>

-----------------------------------------------------------------------------
\* handleBrowserWS

\* PAIR with "local", or with a session ID, machine ID or pair code.
\* FindByAny tries the session indexes; every session byMachine names is
\* stored, so any stored session may be the one found.
PairTo(b, s) ==
  /\ bh[b].pc = "none"
  /\ bh' = [bh EXCEPT ![b].pc = "resolved", ![b].sess = s]
  /\ UNCHANGED <<agentVars, conn, storeVars, sess, ah, view, deleteVars, payloads>>

PairLocal(b) == localSession # None /\ PairTo(b, localSession)

PairByKey(b) == \E s \in stored : PairTo(b, s)

Attach(b) ==
  /\ bh[b].pc = "resolved"
  /\ sess' = [sess EXCEPT ![bh[b].sess].browsers = @ \cup {b}]
  /\ bh' = [bh EXCEPT ![b].pc = "attached"]
  /\ UNCHANGED <<agentVars, conn, storeVars, ah, view, deleteVars, payloads>>

\* Reads AgentConn and Online together.  (PAIRED, which asks a connected
\* agent for a fresh snapshot, changes nothing in the relay.)
ReadOnline(b) ==
  /\ bh[b].pc = "attached"
  /\ bh' = [bh EXCEPT ![b].pc = "queried", ![b].online = sess[bh[b].sess].online]
  /\ UNCHANGED <<agentVars, conn, storeVars, sess, ah, view, deleteVars, payloads>>

\* Replays the agent's identity if it is known.  A hostname once set stays
\* set, so reading it and sending it are one step.
ReplayHello(b) ==
  /\ bh[b].pc = "queried"
  /\ bh' = [bh EXCEPT ![b].pc = "greeted"]
  /\ view' = IF sess[bh[b].sess].named
             THEN [view EXCEPT ![b] = Told(@, Connected)] ELSE view
  /\ UNCHANGED <<agentVars, conn, storeVars, sess, ah, deleteVars, payloads>>

ReadCache(b) ==
  /\ bh[b].pc = "greeted"
  /\ bh' = [bh EXCEPT ![b].pc = "replaying", ![b].cached = sess[bh[b].sess].cached]
  /\ UNCHANGED <<agentVars, conn, storeVars, sess, ah, view, deleteVars, payloads>>

ReplayCache(b) ==
  /\ bh[b].pc = "replaying"
  /\ bh' = [bh EXCEPT ![b].pc = "replayed"]
  /\ view' = IF bh[b].cached # NoPayload
             THEN [view EXCEPT ![b] = Told(@, bh[b].cached)] ELSE view
  /\ UNCHANGED <<agentVars, conn, storeVars, sess, ah, deleteVars, payloads>>

\* Uses the Online it read before the replay.
ReplayOffline(b) ==
  /\ bh[b].pc = "replayed"
  /\ bh' = [bh EXCEPT ![b].pc = "reading"]
  /\ view' = IF ~bh[b].online
             THEN [view EXCEPT ![b] = Told(@, Disconnected)] ELSE view
  /\ UNCHANGED <<agentVars, conn, storeVars, sess, ah, deleteVars, payloads>>

\* The browser's connection ends; the deferred RemoveBrowser runs.
Detach(b) ==
  /\ bh[b].pc = "reading"
  /\ bh' = [bh EXCEPT ![b].pc = "done"]
  /\ sess' = [sess EXCEPT ![bh[b].sess].browsers = @ \ {b}]
  /\ UNCHANGED <<agentVars, conn, storeVars, ah, view, deleteVars, payloads>>

-----------------------------------------------------------------------------
\* DELETE /api/clusters/{id}: Manager.Remove, then FindByAny, then Delete.

RemoveCluster(d, m) ==
  /\ dh[d].pc = "none"
  /\ dh' = [dh EXCEPT ![d].pc = "removed", ![d].machine = m]
  /\ removed' = removed \cup {m}
  /\ held' = [held EXCEPT ![m] = None]
  /\ UNCHANGED <<dialed, conn, storeVars, sess, ah, browserVars, payloads>>

\* The state file cannot be written: DELETE answers with an error, with the
\* agent cancelled and its secret forgotten already.  Adding the cluster again
\* keeps its ID and starts a new agent.
RemoveFails(d, m) ==
  /\ dh[d].pc = "none"
  /\ dh' = [dh EXCEPT ![d].pc = "done", ![d].machine = m]
  /\ held' = [held EXCEPT ![m] = None]
  /\ UNCHANGED <<dialed, conn, storeVars, sess, ah, browserVars, removed, payloads>>

FindRemoved(d) ==
  LET s == byMachine[dh[d].machine] IN
  /\ dh[d].pc = "removed"
  /\ dh' = [dh EXCEPT ![d].pc = IF s = None THEN "done" ELSE "found", ![d].sess = s]
  /\ UNCHANGED <<agentVars, conn, storeVars, sess, ah, browserVars, removed, payloads>>

\* Mutant: the machine index keeps the deleted session.
DeleteSessionIndexed(d) ==
  /\ dh[d].pc = "found"
  /\ dh' = [dh EXCEPT ![d].pc = "done"]
  /\ stored' = stored \ {dh[d].sess}
  /\ UNCHANGED <<agentVars, conn, byMachine, localSession, sess, ah, browserVars, removed,
                 payloads>>

DeleteSession(d) ==
  /\ dh[d].pc = "found"
  /\ dh' = [dh EXCEPT ![d].pc = "done"]
  /\ stored' = stored \ {dh[d].sess}
  /\ byMachine' = [byMachine EXCEPT ![sess[dh[d].sess].machine] = None]
  /\ UNCHANGED <<agentVars, conn, localSession, sess, ah, browserVars, removed, payloads>>

-----------------------------------------------------------------------------
Agents ==
  \/ \E m \in Machines, c \in Conns : AgentDial(m, c)
  \/ \E m \in Machines : AgentStops(m)
  \/ \E c \in Conns : LegacyDial(c) \/ ConnLost(c) \/ ReceivePairCode(c)

\* What the handler of connection c does on its own, without waiting for the
\* agent to say something.
AgentHandler(c) ==
  \/ NoHello(c) \/ CreateSession(c) \/ ResumeSession(c) \/ RejectHello(c)
  \/ BindLocal(c) \/ SendPairCode(c) \/ RouteHello(c)
  \/ CopyBrowsers(c) \/ (\E b \in Browsers : SendTo(c, b))
  \/ ReadFails(c) \/ DropSuperseded(c) \/ DropAgent(c)
  \/ DeleteLegacy(c) \/ UnbindLocal(c)

AgentMessages(c) == RouteSnapshot(c) \/ RouteDiscoveryError(c) \/ PairCodeFails(c)

BrowserHandler(b) ==
  \/ Attach(b) \/ ReadOnline(b) \/ ReplayHello(b) \/ ReadCache(b)
  \/ ReplayCache(b) \/ ReplayOffline(b)

BrowserActs(b) == PairLocal(b) \/ PairByKey(b) \/ Detach(b)

DeleteHandler(d) == FindRemoved(d) \/ DeleteSession(d)

Next ==
  \/ Agents
  \/ \E c \in Conns : AgentHandler(c) \/ AgentMessages(c)
  \/ \E b \in Browsers : BrowserHandler(b) \/ BrowserActs(b)
  \/ \E d \in Deleters : DeleteHandler(d)
  \/ \E d \in Deleters, m \in Clusters : RemoveCluster(d, m) \/ RemoveFails(d, m)

Spec == Init /\ [][Next]_vars

\* The Go scheduler keeps running a handler that has something to do.  When
\* agents and browsers come, speak and go is up to them.
Fairness ==
  /\ \A c \in Conns : WF_vars(AgentHandler(c))
  /\ \A b \in Browsers : WF_vars(BrowserHandler(b))
  /\ \A d \in Deleters : WF_vars(DeleteHandler(d))

FairSpec == Spec /\ Fairness

-----------------------------------------------------------------------------
AgentPC == {"none", "hello", "registered", "bound", "paired", "copying", "casting",
            "reading", "closing", "dropped", "unlink", "done", "rejected"}
BrowserPC == {"none", "resolved", "attached", "queried", "greeted", "replaying",
              "replayed", "reading", "done"}
DeletePC == {"none", "removed", "found", "done"}
Status == {"paired", "connected", "disconnected"}
Cached == Payloads \cup {NoPayload}
OptSession == Sessions \cup {None}
OptMachine == Machines \cup {None}

ConnRecord == [by : OptMachine, shows : OptSession, up : BOOLEAN, issued : OptSession]
SessionRecord == [made : BOOLEAN, machine : OptMachine, conn : Conns \cup {None},
                  online : BOOLEAN, named : BOOLEAN, cached : Cached,
                  browsers : SUBSET Browsers]
AgentHandlerRecord == [pc : AgentPC, sess : OptSession, secret : OptSession,
                       msg : Messages, to : SUBSET Browsers]
BrowserHandlerRecord == [pc : BrowserPC, sess : OptSession, online : BOOLEAN,
                         cached : Cached]
ViewRecord == [status : Status, got : SUBSET Payloads]
DeleteHandlerRecord == [pc : DeletePC, machine : Clusters \cup {None}, sess : OptSession]

TypeOK ==
  /\ held \in [Machines -> OptSession]
  /\ dialed \in [Machines -> Conns \cup {None}]
  /\ conn \in [Conns -> ConnRecord]
  /\ stored \in SUBSET Sessions
  /\ byMachine \in [Machines -> OptSession]
  /\ localSession \in OptSession
  /\ sess \in [Sessions -> SessionRecord]
  /\ ah \in [Conns -> AgentHandlerRecord]
  /\ bh \in [Browsers -> BrowserHandlerRecord]
  /\ view \in [Browsers -> ViewRecord]
  /\ dh \in [Deleters -> DeleteHandlerRecord]
  /\ removed \in SUBSET Clusters
  /\ payloads \in 0..MaxPayloads

\* The indexes agree: byMachine[m] is a stored session of machine m, and a
\* machine nobody has removed has at most one stored session.  An agent that
\* reconnects thus finds its own session and never a second one.
StoreConsistent ==
  /\ \A m \in Machines :
       byMachine[m] # None => byMachine[m] \in stored /\ sess[byMachine[m]].machine = m
  /\ \A s \in stored :
       sess[s].machine \in Machines \ removed => byMachine[sess[s].machine] = s

\* Where the handler of c is after it was given a session and before its
\* dropAgentConn.
Live(c) ==
  \/ ah[c].pc \in {"registered", "bound", "paired", "reading", "closing"}
  \/ ah[c].pc \in {"copying", "casting"} /\ ah[c].msg # Disconnected

\* A session shown online has a connection whose handler is still there to
\* take it offline: no exit of handleAgentWS leaves a machine online for ever.
NoGhostOnline ==
  \A s \in Sessions :
    /\ sess[s].online <=> sess[s].conn # None
    /\ sess[s].conn # None => ah[sess[s].conn].sess = s /\ Live(sess[s].conn)

\* The browser key "local" never leads to another machine's session, nor to
\* one that is no longer in the store.
LocalSessionIsLocal ==
  localSession # None /\ LocalMachine # None =>
    localSession \in stored /\ sess[localSession].machine = LocalMachine

\* A browser never misses what the relay has cached for its session: once it
\* has read the cache, the cached snapshot (or discovery error) was sent to
\* it, or its own replay or some handler's broadcast still will.
OnItsWay(b, p) ==
  \/ p \in view[b].got
  \/ bh[b].pc = "replaying" /\ bh[b].cached = p
  \/ \E c \in Conns :
       /\ ah[c].sess = bh[b].sess
       /\ ah[c].msg = p
       /\ ah[c].pc = "copying" \/ (ah[c].pc = "casting" /\ b \in ah[c].to)

NoMissedPayload ==
  \A b \in Browsers :
    bh[b].pc \in {"replaying", "replayed", "reading"} =>
      LET p == sess[bh[b].sess].cached IN p # NoPayload => OnItsWay(b, p)

\* Ownership of sessions: taken over only with the secret, given up only when
\* the owner's own connection ends.
Ended(c) ==
  \/ ah[c].pc \in {"closing", "dropped", "unlink", "done", "rejected"}
  \/ ah[c].pc \in {"copying", "casting"} /\ ah[c].msg = Disconnected

Ownership == INSTANCE SessionOwnership
  WITH made <- {s \in Sessions : sess[s].made},
       owner <- [s \in Sessions |-> sess[s].conn],
       presents <- [c \in Conns |-> conn[c].shows],
       used <- {c \in Conns : ah[c].sess # None},
       ended <- {c \in Conns : Ended(c)}

ImplementsOwnership == Ownership!Spec

\* Connection c is the agent's in the session browser b is attached to.
Owns(c, b) == bh[b].sess # None /\ sess[bh[b].sess].conn = c

\* When an agent's connection is lost, a browser that was attached by then is
\* told, unless another connection takes the session over first.
LossIsShown ==
  \A b \in Browsers, c \in Conns :
    (bh[b].pc = "reading" /\ Owns(c, b) /\ ~conn[c].up)
      ~> (view[b].status = "disconnected" \/ bh[b].pc = "done"
          \/ \E c2 \in Conns \ {c} : Owns(c2, b))

-----------------------------------------------------------------------------
\* Statements of the code's comments that the model refutes.

\* "the cluster is gone for good, so drop the session too or it lingers in the
\* sidebar forever as a dead 'disconnected' row": after DELETE has answered, no
\* offline session of the removed cluster is left in the store.
NoDeadRow ==
  (\A d \in Deleters : dh[d].pc \in {"none", "done"}) =>
    \A s \in stored : sess[s].machine \in removed => sess[s].conn # None

\* saveResumeSecret: if saving fails, "the server will treat it as a new
\* machine and issue a fresh secret then".  Then an agent that has no secret to
\* show is never turned away.
NeverLockedOut == \A c \in Conns : ah[c].pc = "rejected" => conn[c].shows # None
=============================================================================
