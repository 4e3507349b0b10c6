# A TLA+ verification of InfraCanvas

InfraCanvas shows infrastructure (VMs, containers, Kubernetes clusters) on a
live canvas. A *hub* accepts WebSocket connections from *agents*, which discover
a machine or a cluster, and from *browsers*, which show what the agents report
and send actions and keystrokes back. This directory holds TLA+ modules for the
parts where concurrency, failure and ordering matter and for what discovery
computes, TLC configurations that check them on small instances, and TLAPS proofs
about them.

Everything here is read from the source under `src/`; `PROJECT.json` maps each
definition to its lines.

## The system

| Part | State | Operations | What is hard | Module |
|---|---|---|---|---|
| Hub connection (`SafeConn`, `pkg/server/server.go`) | bounded outbox, closed channel, socket | WriteJSON/WriteMessage, drain, Close | many writers, full outbox, close racing a blocked write | `SafeConn` |
| Session store and relay (`pkg/server`) | sessions indexed by ID, code and machine; agent connection, online flag, browsers, cached snapshot of each; the local session | HELLO, resume, drop, route, attach, replay, delete | handlers interleave between critical sections; connections replaced, lost and late; values used after the unlock | `Relay` |
| HTTP API (`server.go`) | tokens, rate limiter | sessions, clusters, audit | concurrent changes of clusters; DELETE races a connecting agent | `Serve`, `Relay` |
| Agent, graph stream (`pkg/agent/ws_agent.go`) | last graph, resume secret, connection | discovery passes, snapshot, diff, PAIRED, refresh | three goroutines send graphs and set the last one | `GraphStream` |
| Agent, terminals (`ws_agent.go`, `kubernetes_advanced.go`) | sessions, input queues | start, input, resize, end, output | a goroutine per message, ordering, full queues | `Terminals` |
| Agent, actions (`pkg/actions`, `ws_agent.go`) | port-forwards, the agent's binary | actions, logs | long sequences of calls, one of which fails or meets another request | `Actions` |
| Cluster manager (`pkg/clustermgr`) and run state (`pkg/runstate`) | entries in state.json, kubeconfigs, cancel functions | add, remove, rename, read-only, boot | read-modify-write without a common lock | `Serve` |
| serve (`cmd/infracanvas`) and tunnel (`pkg/tunnel`) | URL, child processes | boot, supervise, restart | time-out racing a late URL, ends of the process | `Serve` |
| Audit (`pkg/audit`) | ring of 500, file | log, recent | logged before it is done | `Actions` |
| Browser client (`frontend/lib/wsManager.ts`, `store/vmStore.ts`, panels) | socket per machine, graphs, panels | connect, messages, diffs, actions | answers meant for another request, timers | `Relay`, `GraphStream`, `Actions`, `Terminals` |
| Orchestrator and adapters (`pkg/orchestrator`, `pkg/discovery`) | Kubernetes cache, clients | a pass over host, Docker, LXD, Kubernetes | a world that changes under the pass, partial failures, stale lists | `Discovery` |
| Relationships, health (`pkg/relationships`, `pkg/health`) | none | snapshot to relations and health | case analysis, order of Go maps | `Relationships` |
| Graph output (`pkg/output/graph.go`) | none | snapshot to canvas | nodes and edges filter each other | `GraphFormat` |
| Older agent, image tracker, table output, permissions, environment, retry, layout | - | - | - | not modelled |

An agent dials the hub, says HELLO with its machine ID and resume secret, and is
given a session: a new one with a new secret (PAIR_CODE), or, with the right
secret, the one it had. Every `RefreshSeconds` (30 by default) it runs a pass of discovery,
makes a canvas of it, and sends a snapshot or a diff. Everything the agent sends is
routed to the browsers attached to the session; the last snapshot, or an early
discovery error, is cached for those that attach later. A browser names its
session with PAIR, is attached, and is replayed what the hub knows. It sends
actions and terminal input, which the hub filters (read-only mode), audits and
forwards. When an agent goes, a machine's session stays, offline; a session
without a machine ID is deleted. The cluster manager runs one agent per cluster
inside the hub's process and keeps its list in the state file it shares with
`serve` and the tunnel; deleting a cluster stops that agent and deletes its
session.

What makes each part correct: a connection delivers in order or not at all
(SafeConn); a machine is spoken for by one connection, changed only with the
secret, and online only while it has one (relay); browsers end up showing what
the hub knows (relay, graph stream); keystrokes and output keep their order, and
shells end (terminals); a request touches only what it may, is answered, and
leaves things whole when a call fails (actions); a cluster is saved, running and
removable exactly while it is listed, and the URL on record is the tunnel's
(serve); a canvas is a graph, says what it could not see, and stays put when
nothing changed (discovery).

## Modules

| Module | What it is |
|---|---|
| `OrderedChannel` | abstract: a channel that delivers in order and without gaps what it accepted, until it breaks |
| `SafeConn` | one hub connection: enqueue's select, writeLoop, Close |
| `SessionOwnership` | abstract: who may speak for a session, and when it changes hands |
| `Relay` | session store, agent handlers, browser handlers, DELETE |
| `GraphStream` | from the agent's discovery passes to what a browser shows |
| `Terminals` | from a terminal tab to a shell and back |
| `ActionTypes` | what can be asked, and its names in panel, hub, agent and executor |
| `Actions` | a request on its way from the panel to an executor and back |
| `Serve` | the state file and everyone who writes it, over restarts of the process |
| `Relationships` | relations and health of a snapshot, as operators |
| `GraphFormat` | the canvas of a snapshot, as operators |
| `Discovery` | passes of discovery over a world that changes |
| `SafeConnProofs`, `RelayProofs`, `GraphStreamProofs`, `TerminalsProofs`, `ActionsProofs`, `ServeProofs`, `DiscoveryProofs` | theorems about the modules they are named for |
| `SequenceLemmas` | facts about `Tail` and `Append` the proofs share |
| `MC...` | the instances TLC checks |

### SafeConn

Each call of WriteMessage or WriteJSON is one select, so it is one action with
three outcomes: `EnqueueAccepted`, `EnqueueClosed`, `EnqueueFull`. When several
cases of a Go select are ready any one is taken, hence `EnqueueAccepted` stays
possible on a closed connection and `LoopExit` competes with `TakeFrame`.
writeLoop takes a frame and writes it in two steps, so closing can fall between
them. `Close` is two steps (the closed channel, then the socket); an overflow
only *asks* for it (`go sc.Close()`). A frame stands for its writer and number;
`accepted` and `sent` are history. The `wmu` mutex has one user and is left out.

### Relay

A handler's `pc` is its place in `handleAgentWS` / `dropAgentConn` (`ah`),
`handleBrowserWS` (`bh`) or `handleClusterByID` (`dh`). One action is one critical
section of `SessionStore.mu`, `Session.mu` or `Server.localMu`, or one enqueue on a
browser's connection. So `routeAgentMessage` is three kinds of step: update the
session under its lock (`RouteSnapshot`, ...), copy its browsers under the lock
(`CopyBrowsers`), send to each (`SendTo`, in any order: the order of the copy
carries no meaning). What a handler read and uses later (`Online`, the cached
snapshot, a copied browser list) is kept in the handler's record.

Abstractions:
- A message to a browser is folded into `view[b]` when it is enqueued, with the
  effect `wsManager.handleMessage` gives it. SafeConn delivers in that order;
  an overflowing browser connection is closed, which is the browser leaving.
- A session is named by the connection that created it (a connection creates at
  most one); its resume secret by the session. The indexes byID and byCode are
  always written together and are one set, `stored`.
- LastSeen, NodeCount, PairedAt, scope and the hostname's text are left out;
  `named` says whether a hostname is known.
- Diffs, exec data, logs and action results are forwarded and leave no trace in
  the relay. What browsers send to agents is in `Terminals` and `Actions`.
- A PAIR with "local" that finds no local session keeps polling and may end in
  an error: `PairLocal` simply waits.
- The hub keeps sessions in memory only; a hub restart is `Init`.
- The shared relay (not `serve`) has no local session: its behaviours are those
  without `BindLocal` and `PairLocal`.
- `RemoveFails` is a DELETE whose write of the state file fails: it answers with an
  error, but the agent is cancelled and its secret forgotten by then, so the
  cluster's next agent shows none.

The agent's side is in `AgentDial`, `AgentStops`, `ReceivePairCode`: a process dials
once and shows the secret it has saved; `serve`'s restart loop and the cluster
manager's retry loop start it again after it stops. The hub may learn of a lost
connection late (`ConnLost`) and still read what was sent before. `ReceivePairCode`
may fail to save the secret of a VM's agent, since saveResumeSecret ignores
its errors, but not a cluster's, which stays in memory.

### GraphStream

Three goroutines of the agent publish graphs: Run's first pass and then
refreshLoop (`Ticker`), a `COMMAND` refresh, and the answer to `PAIRED`, which
re-sends lastGraph. `pub[p]` is where goroutine p is and what it holds. Passes
exclude each other (discoverMu), sends do (connMu), and lastGraph has its lock, but
a publication takes all three in turn, so publications interleave: `Collect`,
`Decide` (reading lastGraph), `Send`, `SetLastGraph`. The first pass is a tick that
finds lastGraph nil; the command loop starts after it (`booted`).

The hub caches snapshots, and errors before the first, copies the browsers and
sends to them, in the order the agent sent; a browser handler attaches, has
PAIRED sent to the agent, reads the cache and replays it. Diffs are not applied
to the cache. What `Relay` says about several connections and sessions is left
out here: one agent, one session. `Deliver` sends to all browsers at once, since
what one browser does until then does not depend on another's view.

Abstractions:
- A graph maps items to a look (health and label, which nodeChanged compares) and a
  rest (which it does not). Edges, compared by ID only, are items that are all
  rest. A diff is the pair of graphs computeDiff got; `Put` and `Removed` are what
  it carries, `Patched` what applyVMDiff makes of it.
- PAIRED and COMMAND wait in a set: PAIREDs are sent by a goroutine each, in any order.
- When the connection breaks, a prefix of what was sent still arrives. A restarted
  agent speaks only after the hub has finished with its old connection; the
  races between the two are `Relay`'s.
- An error changes nothing a browser with a graph shows, so `view` does not hold it.

`overlap` and `rewound` are history. `overlap` says that two publications have been
under way at once (two re-sends of the same graph excepted). `rewound` holds the
browsers whose replay of the cache came after a live graph.

### Terminals

`wire` is the order in which the hub forwards a browser's messages (SafeConn keeps
it). Run's command loop takes them one at a time: `LoopStart`, `LoopResize` and
`LoopEnd` start a goroutine and go on; `LoopInput` puts a keystroke into the
session's queue, and while that is full the loop is `blocked` and takes nothing,
for any session. A queue's `worker` takes a keystroke, waits up to two seconds for
the session (`loadExecSession`), and writes it. `ShellPrints` feeds the chunk
channel; the coalescer holds chunks back until it has enough or its timer fires,
and `Cleanup` sends EXEC_END when the reader is done or the session is cancelled.

Abstractions:
- Keystrokes, sizes and chunks are numbers, in the order they are made; `FlushSize`
  counts chunks, not bytes. A message is one keystroke, as xterm sends it.
- A PTY, a Docker attachment, an LXD console and a pod exec differ in two ways, in
  `pod`: a pod exec is not resized, and nobody closes its pipe when it ends.
- The two seconds of `loadExecSession` are a choice to give up while the session is
  not registered. A session that registers after that is what `gaveUp` stands for.
- `hung` is a shell that stopped reading. A tab can also be lost with its socket,
  which sends no END.

- `ResizeFails` is a Docker or LXD resize that is refused or takes more than five
  seconds: its error is discarded and the old size stays.

`lapsed` is history: the sizes whose resize overlapped another's, gave up or failed.

### ActionTypes and Actions

`ActionTypes` lists what the canvas offers per kind of node, `readOnlySafeActions`,
the renaming of `mapFrontendActionType`, what each executor knows (`Known`) and how
many calls a plain action makes (`Calls`). Some of what the panel offers no executor
knows (`docker_rename_container`, `k8s_create_deployment`, ...): it is answered
with a failure.

In `Actions` a request has a `stage` (panel, hub, agent, answered, shown) and, at the
agent, a `step`. Every handler is a goroutine, so requests interleave at each call
to Docker, the Kubernetes API or the file system. One action is one call:
updateContainerImage is `Inspect`, `Pull`, `Stop`, `Rename`, `Create`, `Start`,
`RemoveOld`, and its rollback `RemoveNew`, `RenameBack`, `StartBack`; an edit of a
Kubernetes object is `Read`, for an undo `List`, and `Put`; updateAgent is `Sums`,
`Open`, `Download`, `Install`. `SwitchReturns` starts, stops or restarts a container, and
`Applies` sets fields of an object in a manifest by a forced server-side apply, whatever
its version. `CallFails` is a call that fails and ends the action, `CallHangs` one that
never returns: only the pull of an image and the wait for a rollout (5 minutes each), the
logs (30 seconds) and the download of the agent (30 seconds and 5 minutes) have a
time-out; all others run on the agent's own context (`UntimedSteps`).

Abstractions:
- Docker's side is `box`: names count their "_old" suffixes, an image is the request
  that installed it, and `ports` says that containers publish one port, so that two
  cannot run. Kubernetes' side is `objects`, with a version the API compares (the
  executors write the object they read, with its resourceVersion, but for the
  manifest), and for the
  deployment its controller: a new template gets a new revision, an old one gets a
  new number. Undo compares revisions as decimal strings (`StringLess`).
- The file system is the agent's binary and its temporary file; a file opened
  before it was renamed is still the same file (`req[r].target`).
- Port-forwards are sets: the live ones and the one registered under the key.
- A failed call has had no effect. Texts of logs and results are left out.
- Hub and browser connections stay up; a session without agent connection drops
  the request, as `forwardToAgent` does.

`touched` and `lastPut` are history, and so is `crossed`: two updates of one
container, or of the agent, overlapped.

### Serve

Requests to the clusters API (`req`), the main goroutine (`main`) and the supervisor of
cloudflared (`tunnel`) all change the state file through `runstate.Update`, which is
two steps, `Reads` and `Writes`: it has no lock its callers share. A failed read is
taken as an empty state, as in the code. Virtual agents are named by who started
them; `cancels` is the manager's map, so an agent that is overwritten there without
being cancelled runs on. The end of the process, whether it crashes or `serve` gives
up, keeps the files alone.

Abstractions:
- A cluster entry is its key (API server and context), its flag and the request
  that wrote it; a rename is a PATCH of another field.
- The URL of a cloudflared process is its number. The first URL is handed to the
  main goroutine (`offer`), later ones are published by the supervisor. A process
  that only was slow stays alive (`live`) beside its successor.
- Parsing a kubeconfig and reaching its cluster come before the first shared state
  and are left out, and so are ports, tokens and the errors kept for the list.
- `Restarts` stands for the service manager (systemd's Restart=always).

A kubeconfig is written over in place, without a temporary file, so a write that fails
(`Spoil`, in `AddLooksUp`; the end of the process, in `Ends`) may leave less than a
kubeconfig, also that of a saved cluster that is added again. An agent that cannot read
or parse its kubeconfig ends for good (`AgentEnds`), and its cancel function stays.

`acked`, `excused` and `broken` are history: what the API answered; whether two writers
overlapped, a read failed, or the write of a tunnel's URL, which is only logged; and the
clusters whose kubeconfig is cut or could not be read, until they are added again or
the process starts with the file in order.

### Relationships, GraphFormat, Discovery

`Relationships` and `GraphFormat` are operators over a snapshot: entities by ID, an ID
being a type, a namespace (or engine) and a name. They hold `BuildRelationships` with
its three builders and searches, `CalculateHealth`, and `Format` with the noise
filter, the dangling group, the edges and the removal of what has no edge.
The builder ranges over a Go map. Where its result depends on the order, the choice
is a parameter, a member of `Picks`: the runtime that gets the images, the owner of
a contested port, and the image behind a name; the last one put into the map wins,
except between two processes.

`Discovery` runs passes. A pass begins all layers of its scope at once, and each layer
makes its calls in the order of the code: for Docker an answer and four lists,
any failure of which fails the layer; for Kubernetes the sixteen lists one after
the other, each from the cache (`KubeHit`), from the API (`KubeList`), forbidden
(`KubeForbidden`: skipped and noted) or failed (`KubeBreaks`: the rest is still listed, and
the layer fails at the end). What exists (`world`) may change before, between and after
these calls. `EndPass` relates, judges and draws.

Abstractions:
- An entity has the fields that relations, health and the canvas depend on; a node
  is its identity, type, label and health. Its other data, redaction, usage figures
  and the text that is parsed are left out.
- `HostList` lists all processes or units, passes over one of them, or has none; an error
  of these is an empty list or a missing entry to the code. A unit that failed or was not
  loaded is misread (`ServiceLine`), since its line begins with a bullet.
- A Kubernetes Service's endpoints are looked up one by one; a failing call is one for all
  of a list, which can only change the health of more Services at once.
- Whether the 30 seconds of a cached list are over is a choice at each Get.
- Things are world-unique by ID, which Docker, LXD, systemd and the API ensure;
  process trees of systemd units do not overlap.
- The agent serialises passes (discoverMu), so passes do not overlap here.
- What exists is only what the layers of the scope list (`ThingsAssumption`): a kind of
  thing no adapter asks for is not missed by anybody.

`history` holds what the properties compare: what existed throughout the pass
(`lasting`), what was lost without a word (`silent`), whether the pass saw a
change or a failure (`tainted`) and for how many passes nothing changed (`quiet`).

## Runs

| Run | Question | Result |
|---|---|---|
| `safe_conn` | Is a connection an ordered channel, and does closing it finish? | holds |
| `relay_sessions` | Do the indexes agree, is nobody online for ever, does a session change hands only as it may? | holds |
| `relay_views` | Does a browser get every cached payload and every loss? | holds |
| `relay_dead_row` | Does DELETE leave no offline row (comment in `handleClusterByID`)? | violated |
| `relay_lockout` | Is an agent without a secret never rejected (comment on `saveResumeSecret`)? | violated |
| `graph_stream` | Does every browser get a graph, and end up in step with the machine? | holds, overlaps apart |
| `graph_reconnect` | Does an agent reconnect (docs/multi-machine.md)? | violated |
| `terminals` | Do keystrokes, sizes and output arrive as they were made, and do shells and tabs end together? | holds, with the exceptions below |
| `terminal_stall` | Does the command loop never wait on a slow write (comment on `execInputQueues`)? | violated |
| `actions` | Does read-only mode hold, do updates roll back, do writes lose nothing, does every path of an executor answer? | holds, with the exceptions below |
| `serve` | Do agents match the saved clusters, is what was answered kept, is the recorded URL the tunnel's? | holds, with the exceptions below |
| `discovery` | Is every canvas a graph, is what is missing reported, does an unchanged world draw the same canvas? | holds, with the exceptions below |

The violated runs state what a comment or a document says, quoted in
`PROJECT.json`:

- *Dead row.* The virtual agent's HELLO is sent, DELETE cancels the agent and
  finds nothing to delete (or the old session), and the HELLO then creates a
  session for the removed cluster, which goes offline and is never deleted.
- *Lockout.* The hub issues the secret once. If the connection breaks before
  PAIR_CODE arrives, or the secret is not saved, the next HELLO shows none and
  is rejected, and so is every later one until the hub restarts.
- *Reconnect.* readLoop ends on the read error, and nothing else of the agent does.
- *Stall.* A worker hangs in a write to a shell that does not read, its queue fills, and
  the command loop waits to put in one more.

### Known exceptions

Some properties hold only with an exception, which is written into them or kept
in a history variable. Each one is something the code does:

- `InStep`, `Settles`: two publications that overlap can leave browsers on an older
  graph (refreshLoop sends the diff from G1 to G2; before it sets lastGraph, the answer
  to PAIRED reads G1 and sends it after the diff; no later diff mentions what is
  lacking). A browser whose replay of the cache comes after a live graph stays on the
  cached one until the next change.
- `NothingLostWhileOpen`: what was accepted is delivered without a gap, but a
  *refused* frame is a gap for its readers: the caller's error is ignored by
  broadcastToBrowsers, and frames accepted until `go sc.Close()` runs go out after it.
- `LossIsShown` is about browsers whose attach is over. One that read `Online` before the
  agent dropped is replayed AGENT_CONNECTED after AGENT_DISCONNECTED, and shows the
  machine as connected until it comes back.
- `ClosedTabsEnd`: a shell survives its tab if it took more than two seconds to start,
  or if the command loop waits on a full input queue of a shell that does not read;
  a pod's exec stays when its stream ended. A tab lost without an END leaves its shell.
- `EndIsTold` leaves out pods: nobody closes the pipe a pod's reader waits on.
- `SizeSettles`: two resizes under way at once may be applied in either order; one that
  waited two seconds for its session, was refused, or timed out is lost (`lapsed`).
- `KeysHaveNoGap` allows a prefix to be lost: what was typed before the session was there.
- `ContainerKept`, `InstalledIsVerified`: two updates of one container, or of the
  agent, are not serialised; overlapping, they can lose the container, or install a
  file that was not verified.
  One that is cut off or hangs leaves what it had done. A stop or a restart of the
  container by hand is not undone by anybody (`Switches`).
- `UndoGoesBack` excepts revisions of which an older one is the greater string.
- `RequestsAreAnswered` is about requests an agent holds. A call without a time-out may
  hang, and a restart of the agent cuts requests off; a request for an offline agent is
  dropped without an answer. Only the panel's timer ends those. A panel also takes any
  answer for its own.
- `AgentsMatchClusters`, `AcknowledgedKept`, `URLIsKnown`: of two overlapping updates of
  the state file one is lost, and a failed read empties the file. A removal whose
  write failed leaves a listed cluster without an agent, and so does a kubeconfig that
  was cut short, or could not be read, until the cluster is added again or the process
  restarts with the file in order (`broken`).
- `MissingIsReported` excepts what is lost without an error, call by call (`silent`): all
  processes or units when their list cannot be had, a process or a unit's line that
  cannot be parsed, units under a bullet, containers that cannot be inspected. What is
  newer than the cached list of its type is missing until that expires.
- `SteadyGraph`: when two runtimes, two services that listen on one port, two processes
  on one that no service has, or two images of one normalised name compete
  (`Contested`), the order of a Go map decides and the canvas may flap.

**Bounds.** `safe_conn`: two writers, three calls each, an outbox of two frames (2048
in the code), so that either writer can be the one refused and a refusal can be
followed by an acceptance. `relay_sessions`: two machines, one of them a cluster,
agents without a machine ID, two connections and two DELETEs. Two connections
are the least with which a connection is replaced while its handler still runs,
an agent comes back after a loss, a wrong secret is shown, or a session is made
again after DELETE; the proofs cover any number. No browser: ownership does not
depend on them. `relay_views`: one machine, two connections, one browser, two
payloads (snapshots or discovery errors in any order): a replay can be overtaken
by a live payload, and an agent can drop and come back during the replay.
`graph_stream`: one item with two looks (so it is added, modified and removed), one
browser, one refresh command, one change of the machine and one failed pass or
restart: all three publishers can be at work at once, with a message being sent,
one on the wire and one being routed; `MaxWire` makes senders wait, as a full socket
does. `graph_reconnect` needs no browser.

`terminals`: one session, of a pod or not, with a queue and a chunk channel of one
(256 and 64 in the code), three keystrokes, two resizes and two chunks: a keystroke in
hand, one queued and one the command loop waits with; two resizes that cross, or of which
either one fails; output flushed by size and by timer, and held back at the end.
`terminal_stall` needs the keystrokes alone. Sessions share nothing but
the command loop, and a loop blocked by the session's own queue shows what another
would meet. `actions`: two requests: each of the 69 things a client may ask next to
a plain one, and twelve pairs that meet on one container, deployment, node, port-forward or
binary; two blocks of a download, one object of a manifest, revisions 8 and 9 before
10, so that strings and numbers disagree; one failing or hanging call, after which every
rollback step still runs. Each request reads and writes at most two things, so a
third one adds no new overlap. `serve`: two requests, on one cluster or on the one
a boot starts, with one failure (an end of the process, a file that cannot be read or
written, a cloudflared that exits or says nothing) at any point. `discovery`: seven
settings (a host with units, processes and Docker; with Docker and LXD; with LXD not
installed; a cluster, also with a credential that may not list everything or not
the workloads; a cluster on a Docker host), ten changes, one of them at any point,
one failed call, three passes: one before, one with, and one after the change or the
failure, which is what the caches and `SteadyGraph` need.

`Symmetry` permutes connections in `relay_sessions` only, which has no liveness
property.

**Deadlock** is checked in the graph runs and the discovery runs, where passes go on
or the bound on them is a named stutter (`AllPassesDone`), and not in the others:
writers, connections, browsers, terminals and requests are used once, so every
behaviour of an instance ends.

**Fairness.** Handlers are goroutines, which Go's scheduler keeps running: weak
fairness of each handler's own steps. A browser's or agent's coming, speaking
and leaving is not fair, nor is writing to a peer that may have stopped reading.
In `GraphStream` tickers keep ticking, and a send is strongly fair, as Go hands a
contended mutex over in order; passes fail, links break and processes restart as
they please, within the bounds, so `Settles` speaks of machines that stop changing.
In `SafeConn` a blocked write returns once the socket is closed, which is the only
fairness of `WriteFails`. In `Terminals` the command loop, the starters, workers,
resizers, enders and coalescers are weakly fair; tabs and shells are not, and a
write to a shell that hangs is not enabled. In `Actions` the hub, the executors and
the panels' timers are weakly fair, and so is the deployment controller; that a call may
never return is not a lack of fairness but the step `CallHangs`, open to every call
without a time-out. In `Serve` handlers, the main goroutine and the
supervisor are, cloudflared shows a URL in the end unless a fault prevents it, and
the service manager restarts the process. `Discovery` states no fairness: its
properties are about what a pass did, not about whether it ends.

## Proofs

TLAPS checks every theorem for all values of the constants, under the named
assumptions of the modules (`CapAssumption`, `ClustersAssumption`, ...).

`SafeConnProofs`: `TypeCorrect`, `NothingLost`, `WriterOrder`, `Refinement`. The inductive
invariant adds two facts. The wire is a prefix of what was accepted, before and
after a failure (`WirePrefix`): `NothingLostWhileOpen` says nothing once a write has
failed, and order must hold still. And the accepted frames of one writer are
increasing and bounded by its call counter (`Issued`), so a prefix of them is in
order. The refinement maps the channel to `accepted`, `wire` and `~failed`: a write
is the channel's Deliver because the frame in hand is the next accepted one.

`RelayProofs`: `TypeCorrect`, `Consistency`, `OnlineIsLive`, `LocalIsLocal`,
`NothingMissed`, `OwnershipRefinement`. `StoreConsistent` is not inductive by itself: that a handler
deletes a session whose machine index is its own needs facts about which
sessions exist, who made them and what each place in a handler implies (a
handler past registration has a session that was made; one about to delete has
a session without a machine; DELETE found a session of its machine). These are
the conjuncts of the inductive invariant, each proved action by action.
`OwnershipRefinement` needs `NoGhostOnline`: a session loses its owner only in
`DropAgent`, whose handler is past its end. `NothingMissed` is another invariant
(`Delivered`): a browser that listens is on the list of its session, and what its
session has cached was sent to it or is carried by a handler that will send it.

`GraphStreamProofs`: `DiffReachesTarget` is the fact about computeDiff and applyVMDiff
that keeps diffs in step: applied to *any* graph that looks like the one it starts
from, a diff gives one that looks like its target. `TypeCorrect` needs that a
publisher past its pass holds a graph (`HoldsGraph`). `DiffsHaveBase` needs that while
the agent is connected and counts a graph as published, a snapshot is cached or
on the wire, and that each diff on the wire has one before it (`BaseInv`).
`ViewsInStep` proves `InStep`: what browsers show, the message in the hub's hands, the
messages on the wire and the graph sent last form a chain (`Chained`), each link of which
is a snapshot, or a diff that starts from a graph that looks like the one before it; and
a browser is on the chain, or a snapshot is on its way to it.

`TerminalsProofs`: `TypeCorrect`, `KeysInOrder`, `LastSizeInForce`, `OutputInOrder`. Where
a session can be (`Living`: only a registered one has a shell, only a queue has a
worker) carries three invariants. Keystrokes (`KeyLines`): what the shell got, what its
worker holds, what is queued, what the command loop waits with and what is on the wire
are consecutive, up to the last one typed. Sizes (`Sizes`): of those the loop has
taken, each one after the size in force is under way or lapsed, and each one after a
resize that is under way has overlapped it. Output (`Flowing`): what was
sent, what the coalescer holds and what the channel holds are all that was printed.

`ActionsProofs`: `ReadOnlyTouchesNothing` (`Clearance`: a request that got past the hub was
audited, and is one for logs if the session is read-only). `AcceptedChangesStick`
(`Versions`): the version of an object counts its changes; a writer whose version is
still current has read the field values that are there, so that a put that is accepted
changes its own field only. `InstalledBinaryIsVerified` (`Verified`): until two updates
overlap, at most one request has the temporary file open, and what is complete in it
was compared. `RolloutReportedIsComplete` (`Rolled`): what the controller has observed is
never ahead of the object, and once it is up to date its current revision is the
object's template, so that "observed and done" speaks of what the object says now.
`UndoGoesToTheLast` (`Rolled`, `Versions`, `RightChoices`): what an undo is about to write is the
revision its listing picked, unless its version is no longer current; then the put is
refused. `TypeCorrect` collects what these invariants say of types.

`OneFailureCostsNoContainer` proves `ContainerKept` under the hypothesis `faults <= 1`. That is
no weakening of what the run checks (its `MaxFaults` is 1), and it is needed: a rollback
is itself a sequence of calls, and when one of those fails as well, nothing takes the
rest back. The invariant (`Safe`) says, as long as updates neither overlap nor are cut
off or hang and nobody switches a container (`Calm`), what each call of an update finds when it is
its turn (`Here`): which of the old and the new container are there, under which name, and
whether they run; an update of another container than the one that runs under the name
is `Elsewhere`. Between updates one container runs under the name (`Rest`), and a container
with a new image runs only if its update succeeded or is about to (`Proven`). What is true
of containers in general (`Boxed`: no two have one name or ID, only one can hold the
port) does not depend on calm.

`ServeProofs`: `TypeCorrect`, `AnswersAreKept`, `AgentsMatch`, `URLIsRecorded`, for runs in
which the writers of the state file did not overlap and none failed to read it or to write
the URL (`excused`, in the statements themselves). One at a time (`Serial`), a writer changes
the file it has read (`Copies`). Then `Kept` says of each cluster that the file has what was
answered, or a request was cut off, or one has written what it is about to answer;
`Saved` that each cluster in the file has a kubeconfig (or is `broken`) and a key of its own,
also against what an add is about to write; `Fit` that the registered agent of a cluster is
the one that runs, and which cluster may be without one: while a request or the boot is
at it, after a failed removal, or when it is `broken`; `Routed` how far a URL has come from the supervisor over the main
goroutine to the file. Restarts keep all of them, since each speaks of the files or of what
a process that ended no longer has.

`DiscoveryProofs`: `GraphAlwaysWellFormed`, for any snapshot and any order of the code's
maps. An edge ID names the two ends and not the type; IDs are unique because the
types of the ends settle the type of the relation (`EdgeType`): no rule of the
builder relates what another rule relates in another way. `TypeCorrect` says that
entities are filed under their own IDs and that a pass blames only layers of its
scope, and types it skipped.

`NothingIsMissedInSilence` (`Accounted`) follows what lasts through a pass. It exists, so a
list of its type made at any point of the pass has it; a list that was returned still
has it, or a call lost it in silence (`Held`), and for Kubernetes the type was skipped or a
cached list was too old (`Turned`); a layer that ended has its entity, an error, or an
issue (`Told`). Adapters keep identities (`ParseKeepsIdentity`, `EnrichedIds`).

`SecondLookIsSteady` (`Steady`): `EntitiesOf(scope)` is what a pass over the present world ends
with when no call fails. While nothing disturbs a pass it has the part of that which
belongs to the layers that have ended (`OnCourse`), whatever their order, because the
layer of an entity can be told from its ID (`OneLayerMore`); and as long as nothing has
changed since an undisturbed pass, the canvas is one of those that can be drawn from it
(`Still`). If nothing is contested only one can (`OnePick`). This proof showed the first
form of `Contested` to be too narrow: it overlooked two processes that share a port no
service has while one of them shares another port with a service. TLC confirmed that
the canvas may flap there, and `Contested` now goes port by port.

Both use `ThingsAssumption`: things have an identity, belong to a layer of the scope which
lists their type, and Docker's engine is called docker.

Every invariant and every action property of the passing runs is proved. Only
model-checked are the liveness properties: `CloseCompletes`, `LossIsShown`,
`EventuallyGraph`, `Settles`, `ClosedTabsEnd`, `EndIsTold`, `RequestsAreAnswered`,
`TunnelComesBack` (liveness under fairness is outside the prover's reach). The statements
that fail are refuted by TLC, with nothing to prove.

## Noticed while reading

Not stated by a property, or excepted from one, and worth knowing:

- `RolloutUndo` compares revisions as strings: from 11, with 9 and 10 there, it goes to 9
  (`kubernetes_advanced.go:210`).
- An agent that cannot read or parse its kubeconfig once ends for good, while its cluster
  stays listed (`clustermgr.go:468`), although the comment says it is restarted on failure.
- The boot, or an Add, may start an agent between the stop and the write of a Remove
  (`clustermgr.go:426`): it runs on for a cluster that is gone.
- Of two overlapping updates of `state.json` one is lost, and one that cannot read the file
  writes it empty but for its own change (`state.go:95`).
- systemctl marks failed and not-found units with a bullet, which is taken for their name
  (`services.go:77`): they share one node, and none is drawn under its own.
- `parsePod` drops the reason a container waits (`pods.go:118`), so that a pod in
  CrashLoopBackOff is drawn as degraded, not as unhealthy (`calculator.go:159`).
- On a host with Docker and LXD the edges of images, volumes and networks go to
  either runtime, whichever the map yields (`builder.go:137`).
- A container's MOUNTS edge never matches a volume: the adapter keeps the path of the
  mount as its source (`containers.go:213`), the builder looks for the volume's name
  (`builder.go:75`).
- The node of the dangling images has no edge and is removed with the other orphans
  (`graph.go:109`, `graph.go:146`). Images of tag `<none>` get no CONTAINS edge.
- Critical events of ReplicaSets and of deleted pods have no target, hence no edge,
  and are dropped.
- An LXD socket that appears after the agent started is never found
  (`orchestrator.go:264`).
- The 30-second Kubernetes cache is not invalidated by actions, so the refresh after an
  action may show the state before it. A failed layer takes all its nodes off the canvas.
- applyManifest succeeds when one of its objects was applied, and a drain when all its
  pods could not be evicted.
- restart, image update and undo of a StatefulSet or DaemonSet act on the Deployment of
  that name (`ws_agent.go:1571`).
- A second port-forward of one port takes the key of the first, which then cannot be
  stopped (`ws_agent.go:1022`).
- `NodeDetailPanel` shows whichever answer arrives (`NodeDetailPanel.tsx:629`).
- A renamed cluster keeps its old name in HELLO until its agent restarts
  (`clustermgr.go:492`), and a cluster whose state cannot be read is not read-only.

## Not modelled

- Tokens, the limiter of failed logins, file serving, the other endpoints: comparisons
  and reads of one value under one lock.
- The audit log's ring and file: an append under one mutex. That a request is logged
  before it is forwarded is in `Actions`.
- Reconnect timers of `wsManager`: browsers are modelled from attach to leaving.
- Backoffs, heartbeats and the time-out of waitForPairCode: they only stamp or delay.
- The older `agent` command (`pkg/agent/agent.go`, `backend_client.go`), which posts to a
  backend that is not this hub, and the retry loop it uses.
- The image tracker, whose results reach nobody; environment detection, permission
  and validation checks, redaction: independent calls that keep nothing.
- Table, JSON and progress output, canvas layout and React components: wording and
  geometry. Hardware, cloud metadata and usage figures of the adapters: I/O and parsing.

## Plan

Done: `SafeConn`, `Relay`, `GraphStream`, `Terminals`, `Actions`, `Serve` and `Discovery`
with their runs and proofs.

Next, in this order:

1. The reconnects of `wsManager`: one live socket per machine, whatever timer or
   `onclose` of an earlier socket fires.
2. What `ContainerKept` keeps when a rollback's own calls fail: at least one container,
   under some name.
