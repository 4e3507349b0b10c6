------------------------------- MODULE Terminals -------------------------------
(***************************************************************************)
(* The terminals of one agent (pkg/agent/ws_agent.go): Run's command loop, *)
(* the goroutines that start, resize and end a session, the queue that     *)
(* feeds its keystrokes and the coalescer that sends its output; at the    *)
(* other end, the terminal tab of a browser                                *)
(* (frontend/components/canvas/TerminalPanel.tsx).                         *)
(*                                                                         *)
(* Keystrokes, sizes and output chunks are numbered in the order they are  *)
(* made.  The stream of a session stands for its PTY, Docker or LXD        *)
(* attachment, or pod exec pipes, and the shell behind it.                 *)
(***************************************************************************)
EXTENDS Naturals, Sequences

CONSTANTS
  Sessions,      \* terminal sessions, each opened once
  QueueCap,      \* capacity of an input queue (256)
  ChunkCap,      \* capacity of the chunk channel (64)
  FlushSize,     \* chunks at which the coalescer flushes at once (32 KB)
  MaxKeys, MaxResizes, MaxOutput,  \* bounds on what one session is sent and prints
  None

ASSUME BoundsAssumption ==
  /\ QueueCap \in Nat \ {0} /\ ChunkCap \in Nat \ {0} /\ FlushSize \in Nat \ {0}
  /\ MaxKeys \in Nat /\ MaxResizes \in Nat /\ MaxOutput \in Nat

VARIABLES
  pod,         \* pod[s]: s is a pod exec and not a host, Docker or LXD terminal
  tab,         \* tab[s]: the browser's tab: unopened, open, gone (END sent), lost
  typed,       \* typed[s]: keystrokes sent
  asked,       \* asked[s]: resizes sent
  wire,        \* messages on their way to the command loop
  blocked,     \* the input message the command loop waits to enqueue, or None
  queue,       \* queue[s]: the input queue
  worker,      \* worker[s]: the goroutine that empties it
  starter,     \* starter[s]: handleExecStart: idle, spawning, done
  resizers,    \* resizers[s]: sizes whose handleExecResize has not run yet
  ender,       \* ender[s]: handleExecEnd: idle, loading, ended, gaveUp
  registered,  \* registered[s]: execSessions holds s
  stream,      \* stream[s]: none, open, eof (the shell exited), closed
  hung,        \* hung[s]: the shell has stopped reading its input
  size,        \* size[s]: the terminal size in force
  written,     \* written[s]: the keystrokes the shell was given
  cancelled,   \* cancelled[s]: the session's context is cancelled
  printed,     \* printed[s]: chunks the shell printed
  chunks,      \* chunks[s]: the channel from the reader to the coalescer
  readerDone,  \* readerDone[s]: the reader has closed that channel
  pending,     \* pending[s]: what the coalescer holds back
  coalescer,   \* coalescer[s]: idle, running, cleanup, done
  sent,        \* sent[s]: the chunks sent to the browsers as EXEC_DATA
  ended,       \* ended[s]: EXEC_END was sent
  lapsed       \* history: lapsed[s]: sizes whose resize overlapped another's, failed or timed out

input == <<typed, asked, wire, blocked, queue, worker, resizers>>
output == <<printed, chunks, readerDone, pending, coalescer, sent, ended>>
session == <<starter, ender, registered, stream, hung, size, written, cancelled>>
vars == <<pod, tab, input, session, output, lapsed>>

\* The numbers 1..n as a sequence.
UpTo(n) == [i \in 1..n |-> i]

Message(type, s, n) == [type |-> type, session |-> s, n |-> n]
Messages == [type : {"EXEC_START", "EXEC_INPUT", "EXEC_RESIZE", "EXEC_END"},
             session : Sessions, n : Nat]

ASSUME NoneAssumption == None \notin Messages

Idle == [at |-> "idle", key |-> 0]

Init ==
  /\ pod \in [Sessions -> BOOLEAN]
  /\ tab = [s \in Sessions |-> "unopened"]
  /\ typed = [s \in Sessions |-> 0]
  /\ asked = [s \in Sessions |-> 0]
  /\ wire = <<>>
  /\ blocked = None
  /\ queue = [s \in Sessions |-> <<>>]
  /\ worker = [s \in Sessions |-> Idle]
  /\ starter = [s \in Sessions |-> "idle"]
  /\ resizers = [s \in Sessions |-> {}]
  /\ ender = [s \in Sessions |-> "idle"]
  /\ registered = [s \in Sessions |-> FALSE]
  /\ stream = [s \in Sessions |-> "none"]
  /\ hung = [s \in Sessions |-> FALSE]
  /\ size = [s \in Sessions |-> 0]
  /\ written = [s \in Sessions |-> <<>>]
  /\ cancelled = [s \in Sessions |-> FALSE]
  /\ printed = [s \in Sessions |-> 0]
  /\ chunks = [s \in Sessions |-> <<>>]
  /\ readerDone = [s \in Sessions |-> FALSE]
  /\ pending = [s \in Sessions |-> <<>>]
  /\ coalescer = [s \in Sessions |-> "idle"]
  /\ sent = [s \in Sessions |-> <<>>]
  /\ ended = [s \in Sessions |-> FALSE]
  /\ lapsed = [s \in Sessions |-> {}]

-----------------------------------------------------------------------------
\* The browser's tab.  The hub forwards its messages in order (SafeConn).

OpenTab(s) ==
  /\ tab[s] = "unopened"
  /\ tab' = [tab EXCEPT ![s] = "open"]
  /\ wire' = Append(wire, Message("EXEC_START", s, 0))
  /\ UNCHANGED <<pod, typed, asked, blocked, queue, worker, resizers, session, output, lapsed>>

TypeKey(s) ==
  /\ tab[s] = "open" /\ typed[s] < MaxKeys
  /\ typed' = [typed EXCEPT ![s] = @ + 1]
  /\ wire' = Append(wire, Message("EXEC_INPUT", s, typed'[s]))
  /\ UNCHANGED <<pod, tab, asked, blocked, queue, worker, resizers, session, output, lapsed>>

\* refit: sends only a size that differs from the last one sent.
ResizeTab(s) ==
  /\ tab[s] = "open" /\ asked[s] < MaxResizes
  /\ asked' = [asked EXCEPT ![s] = @ + 1]
  /\ wire' = Append(wire, Message("EXEC_RESIZE", s, asked'[s]))
  /\ UNCHANGED <<pod, tab, typed, blocked, queue, worker, resizers, session, output, lapsed>>

\* cleanup; with the tab's socket down sendExecEnd sends nothing.
CloseTab(s) ==
  /\ tab[s] = "open"
  /\ \/ /\ tab' = [tab EXCEPT ![s] = "gone"]
        /\ wire' = Append(wire, Message("EXEC_END", s, 0))
     \/ /\ tab' = [tab EXCEPT ![s] = "lost"]
        /\ UNCHANGED wire
  /\ UNCHANGED <<pod, typed, asked, blocked, queue, worker, resizers, session, output, lapsed>>

-----------------------------------------------------------------------------
\* The command loop.

\* The loop takes the next message, when it is not waiting on a queue.
Takes(type, s) ==
  /\ blocked = None
  /\ wire # <<>> /\ Head(wire).type = type /\ Head(wire).session = s
  /\ wire' = Tail(wire)

LoopStart(s) ==
  /\ Takes("EXEC_START", s)
  /\ starter' = [starter EXCEPT ![s] = "spawning"]
  /\ UNCHANGED <<pod, tab, typed, asked, blocked, queue, worker, resizers, ender, registered,
                 stream, hung, size, written, cancelled, output, lapsed>>

\* Mutant: a full queue drops the keystroke instead of making the loop wait.
LoopInputDrops(s) ==
  /\ Takes("EXEC_INPUT", s)
  /\ queue' = [queue EXCEPT ![s] = IF Len(@) < QueueCap THEN Append(@, Head(wire).n) ELSE @]
  /\ UNCHANGED <<pod, tab, typed, asked, blocked, worker, resizers, session, output, lapsed>>

\* enqueue: the channel send blocks the loop while the queue is full.
LoopInput(s) ==
  /\ Takes("EXEC_INPUT", s)
  /\ IF Len(queue[s]) < QueueCap
       THEN queue' = [queue EXCEPT ![s] = Append(@, Head(wire).n)] /\ UNCHANGED blocked
       ELSE blocked' = Head(wire) /\ UNCHANGED queue
  /\ UNCHANGED <<pod, tab, typed, asked, worker, resizers, session, output, lapsed>>

\* Mutant: the waiting keystroke is enqueued whatever the queue holds.
LoopForces(s) ==
  /\ blocked # None /\ blocked.session = s
  /\ queue' = [queue EXCEPT ![s] = Append(@, blocked.n)]
  /\ blocked' = None
  /\ UNCHANGED <<pod, tab, typed, asked, wire, worker, resizers, session, output, lapsed>>

LoopUnblocks(s) ==
  /\ blocked # None /\ blocked.session = s
  /\ Len(queue[s]) < QueueCap
  /\ queue' = [queue EXCEPT ![s] = Append(@, blocked.n)]
  /\ blocked' = None
  /\ UNCHANGED <<pod, tab, typed, asked, wire, worker, resizers, session, output, lapsed>>

LoopResize(s) ==
  /\ Takes("EXEC_RESIZE", s)
  /\ resizers' = [resizers EXCEPT ![s] = @ \cup {Head(wire).n}]
  /\ lapsed' = [lapsed EXCEPT ![s] = IF resizers[s] = {} THEN @ ELSE @ \cup resizers'[s]]
  /\ UNCHANGED <<pod, tab, typed, asked, blocked, queue, worker, session, output>>

\* The queue is closed: its worker goes on to what is left in it.
LoopEnd(s) ==
  /\ Takes("EXEC_END", s)
  /\ ender' = [ender EXCEPT ![s] = "loading"]
  /\ UNCHANGED <<pod, tab, typed, asked, blocked, queue, worker, resizers, starter, registered,
                 stream, hung, size, written, cancelled, output, lapsed>>

-----------------------------------------------------------------------------
\* handleExecStart, handleExecInput, handleExecResize and handleExecEnd.  Each
\* of the last three waits up to two seconds for the session (loadExecSession).

SpawnSucceeds(s) ==
  /\ starter[s] = "spawning"
  /\ starter' = [starter EXCEPT ![s] = "done"]
  /\ registered' = [registered EXCEPT ![s] = TRUE]
  /\ stream' = [stream EXCEPT ![s] = "open"]
  /\ coalescer' = [coalescer EXCEPT ![s] = "running"]
  /\ UNCHANGED <<pod, tab, input, ender, hung, size, written, cancelled, printed, chunks,
                 readerDone, pending, sent, ended, lapsed>>

\* The browser is sent an EXEC_DATA with an error, which closes its terminal.
SpawnFails(s) ==
  /\ starter[s] = "spawning"
  /\ starter' = [starter EXCEPT ![s] = "done"]
  /\ cancelled' = [cancelled EXCEPT ![s] = TRUE]
  /\ UNCHANGED <<pod, tab, input, ender, registered, stream, hung, size, written, output, lapsed>>

WorkerTakes(s) ==
  /\ worker[s].at = "idle" /\ queue[s] # <<>>
  /\ worker' = [worker EXCEPT ![s] = [at |-> "loading", key |-> Head(queue[s])]]
  /\ queue' = [queue EXCEPT ![s] = Tail(@)]
  /\ UNCHANGED <<pod, tab, typed, asked, wire, blocked, resizers, session, output, lapsed>>

WorkerLoads(s) ==
  /\ worker[s].at = "loading" /\ registered[s]
  /\ worker' = [worker EXCEPT ![s].at = "writing"]
  /\ UNCHANGED <<pod, tab, typed, asked, wire, blocked, queue, resizers, session, output, lapsed>>

WorkerGivesUp(s) ==
  /\ worker[s].at = "loading" /\ ~registered[s]
  /\ worker' = [worker EXCEPT ![s] = Idle]
  /\ UNCHANGED <<pod, tab, typed, asked, wire, blocked, queue, resizers, session, output, lapsed>>

\* A write to a shell that does not read blocks until its stream is closed.
WorkerWrites(s) ==
  /\ worker[s].at = "writing" /\ stream[s] = "open" /\ ~hung[s]
  /\ written' = [written EXCEPT ![s] = Append(@, worker[s].key)]
  /\ worker' = [worker EXCEPT ![s] = Idle]
  /\ UNCHANGED <<pod, tab, typed, asked, wire, blocked, queue, resizers, starter, ender,
                 registered, stream, hung, size, cancelled, output, lapsed>>

WorkerWriteFails(s) ==
  /\ worker[s].at = "writing" /\ stream[s] # "open"
  /\ worker' = [worker EXCEPT ![s] = Idle]
  /\ UNCHANGED <<pod, tab, typed, asked, wire, blocked, queue, resizers, session, output, lapsed>>

\* A pod exec is never resized.
ResizeApplies(s, n) ==
  /\ n \in resizers[s] /\ registered[s]
  /\ size' = [size EXCEPT ![s] = IF pod[s] THEN @ ELSE n]
  /\ resizers' = [resizers EXCEPT ![s] = @ \ {n}]
  /\ UNCHANGED <<pod, tab, typed, asked, wire, blocked, queue, worker, starter, ender,
                 registered, stream, hung, written, cancelled, output, lapsed>>

\* Docker, LXD or the PTY refuses, or does not answer in five seconds: nobody is told,
\* and the tab does not ask again.
ResizeFails(s, n) ==
  /\ n \in resizers[s] /\ registered[s] /\ ~pod[s]
  /\ resizers' = [resizers EXCEPT ![s] = @ \ {n}]
  /\ lapsed' = [lapsed EXCEPT ![s] = @ \cup {n}]
  /\ UNCHANGED <<pod, tab, typed, asked, wire, blocked, queue, worker, session, output>>

\* Mutant: a resize that finds no session yet is given up at once, unnoticed.
ResizeForgets(s, n) ==
  /\ n \in resizers[s] /\ ~registered[s]
  /\ resizers' = [resizers EXCEPT ![s] = @ \ {n}]
  /\ UNCHANGED <<pod, tab, typed, asked, wire, blocked, queue, worker, session, output, lapsed>>

ResizeGivesUp(s, n) ==
  /\ n \in resizers[s] /\ ~registered[s]
  /\ resizers' = [resizers EXCEPT ![s] = @ \ {n}]
  /\ lapsed' = [lapsed EXCEPT ![s] = @ \cup {n}]
  /\ UNCHANGED <<pod, tab, typed, asked, wire, blocked, queue, worker, session, output>>

\* Mutant: the session is forgotten but neither cancelled nor closed.
EndForgets(s) ==
  /\ ender[s] = "loading" /\ registered[s]
  /\ ender' = [ender EXCEPT ![s] = "ended"]
  /\ registered' = [registered EXCEPT ![s] = FALSE]
  /\ UNCHANGED <<pod, tab, input, starter, stream, hung, size, written, cancelled, output, lapsed>>

EndCloses(s) ==
  /\ ender[s] = "loading" /\ registered[s]
  /\ ender' = [ender EXCEPT ![s] = "ended"]
  /\ cancelled' = [cancelled EXCEPT ![s] = TRUE]
  /\ stream' = [stream EXCEPT ![s] = "closed"]
  /\ registered' = [registered EXCEPT ![s] = FALSE]
  /\ UNCHANGED <<pod, tab, input, starter, hung, size, written, output, lapsed>>

EndGivesUp(s) ==
  /\ ender[s] = "loading" /\ ~registered[s]
  /\ ender' = [ender EXCEPT ![s] = "gaveUp"]
  /\ UNCHANGED <<pod, tab, input, starter, registered, stream, hung, size, written, cancelled,
                 output, lapsed>>

-----------------------------------------------------------------------------
\* The shell and its output.

ShellPrints(s) ==
  /\ stream[s] = "open" /\ printed[s] < MaxOutput
  /\ Len(chunks[s]) < ChunkCap
  /\ printed' = [printed EXCEPT ![s] = @ + 1]
  /\ chunks' = [chunks EXCEPT ![s] = Append(@, printed'[s])]
  /\ UNCHANGED <<pod, tab, input, session, readerDone, pending, coalescer, sent, ended, lapsed>>

ShellHangs(s) ==
  /\ stream[s] = "open" /\ ~hung[s]
  /\ hung' = [hung EXCEPT ![s] = TRUE]
  /\ UNCHANGED <<pod, tab, input, starter, ender, registered, stream, size, written, cancelled,
                 output, lapsed>>

ShellExits(s) ==
  /\ stream[s] = "open"
  /\ stream' = [stream EXCEPT ![s] = "eof"]
  /\ UNCHANGED <<pod, tab, input, starter, ender, registered, hung, size, written, cancelled,
                 output, lapsed>>

\* The reader's read fails.  Nobody closes the pipe it reads from when a pod's
\* exec stream ends: only the session's own cleanup would.
ReaderStops(s) ==
  /\ ~readerDone[s] /\ ~pod[s]
  /\ stream[s] \in {"eof", "closed"}
  /\ readerDone' = [readerDone EXCEPT ![s] = TRUE]
  /\ UNCHANGED <<pod, tab, input, session, printed, chunks, pending, coalescer, sent, ended,
                 lapsed>>

\* A chunk is held back, or everything held back is sent when it is enough.
CoalescerTakes(s) ==
  /\ coalescer[s] = "running" /\ chunks[s] # <<>>
  /\ chunks' = [chunks EXCEPT ![s] = Tail(@)]
  /\ LET held == Append(pending[s], Head(chunks[s])) IN
       IF Len(held) >= FlushSize
         THEN /\ sent' = [sent EXCEPT ![s] = @ \o held]
              /\ pending' = [pending EXCEPT ![s] = <<>>]
         ELSE pending' = [pending EXCEPT ![s] = held] /\ UNCHANGED sent
  /\ UNCHANGED <<pod, tab, input, session, printed, readerDone, coalescer, ended, lapsed>>

\* The timer fires.
CoalescerFlushes(s) ==
  /\ coalescer[s] = "running" /\ pending[s] # <<>>
  /\ sent' = [sent EXCEPT ![s] = @ \o pending[s]]
  /\ pending' = [pending EXCEPT ![s] = <<>>]
  /\ UNCHANGED <<pod, tab, input, session, printed, chunks, readerDone, coalescer, ended, lapsed>>

\* Mutant: the end of the output is not flushed.
CoalescerLeaves(s) ==
  /\ coalescer[s] = "running" /\ chunks[s] = <<>> /\ readerDone[s]
  /\ coalescer' = [coalescer EXCEPT ![s] = "cleanup"]
  /\ UNCHANGED <<pod, tab, input, session, printed, chunks, readerDone, pending, sent, ended,
                 lapsed>>

CoalescerDrained(s) ==
  /\ coalescer[s] = "running" /\ chunks[s] = <<>> /\ readerDone[s]
  /\ sent' = [sent EXCEPT ![s] = @ \o pending[s]]
  /\ pending' = [pending EXCEPT ![s] = <<>>]
  /\ coalescer' = [coalescer EXCEPT ![s] = "cleanup"]
  /\ UNCHANGED <<pod, tab, input, session, printed, chunks, readerDone, ended, lapsed>>

\* ctx.Done: what is held back is dropped.
CoalescerCancelled(s) ==
  /\ coalescer[s] = "running" /\ cancelled[s]
  /\ coalescer' = [coalescer EXCEPT ![s] = "cleanup"]
  /\ UNCHANGED <<pod, tab, input, session, printed, chunks, readerDone, pending, sent, ended,
                 lapsed>>

\* Mutant: EXEC_END is sent only for a session that was cancelled.
CleanupSilent(s) ==
  /\ coalescer[s] = "cleanup"
  /\ coalescer' = [coalescer EXCEPT ![s] = "done"]
  /\ stream' = [stream EXCEPT ![s] = "closed"]
  /\ registered' = [registered EXCEPT ![s] = FALSE]
  /\ ended' = [ended EXCEPT ![s] = cancelled[s]]
  /\ UNCHANGED <<pod, tab, input, starter, ender, hung, size, written, cancelled, printed,
                 chunks, readerDone, pending, sent, lapsed>>

Cleanup(s) ==
  /\ coalescer[s] = "cleanup"
  /\ coalescer' = [coalescer EXCEPT ![s] = "done"]
  /\ stream' = [stream EXCEPT ![s] = "closed"]
  /\ registered' = [registered EXCEPT ![s] = FALSE]
  /\ ended' = [ended EXCEPT ![s] = TRUE]
  /\ UNCHANGED <<pod, tab, input, starter, ender, hung, size, written, cancelled, printed,
                 chunks, readerDone, pending, sent, lapsed>>

-----------------------------------------------------------------------------
Tab(s) == OpenTab(s) \/ TypeKey(s) \/ ResizeTab(s) \/ CloseTab(s)
CommandLoop ==
  \E s \in Sessions : LoopStart(s) \/ LoopInput(s) \/ LoopUnblocks(s) \/ LoopResize(s) \/ LoopEnd(s)
Spawn(s) == SpawnSucceeds(s) \/ SpawnFails(s)
Worker(s) ==
  WorkerTakes(s) \/ WorkerLoads(s) \/ WorkerGivesUp(s) \/ WorkerWrites(s) \/ WorkerWriteFails(s)
Resizer(s) ==
  \E n \in resizers[s] : ResizeApplies(s, n) \/ ResizeFails(s, n) \/ ResizeGivesUp(s, n)
Ender(s) == EndCloses(s) \/ EndGivesUp(s)
Shell(s) == ShellPrints(s) \/ ShellHangs(s) \/ ShellExits(s)
Coalescer(s) ==
  \/ ReaderStops(s) \/ CoalescerTakes(s) \/ CoalescerFlushes(s)
  \/ CoalescerDrained(s) \/ CoalescerCancelled(s) \/ Cleanup(s)

Next ==
  \/ CommandLoop
  \/ \E s \in Sessions :
       Tab(s) \/ Spawn(s) \/ Worker(s) \/ Resizer(s) \/ Ender(s) \/ Shell(s) \/ Coalescer(s)

\* The agent's goroutines keep running.  A tab and a shell do as they please.
Fairness ==
  /\ WF_vars(CommandLoop)
  /\ \A s \in Sessions :
       /\ WF_vars(Spawn(s)) /\ WF_vars(Worker(s)) /\ WF_vars(Resizer(s))
       /\ WF_vars(Ender(s)) /\ WF_vars(Coalescer(s))

Spec == Init /\ [][Next]_vars /\ Fairness

-----------------------------------------------------------------------------
\* Type invariant: every variable stays in its domain, and neither an input
\* queue nor a chunk channel exceeds its capacity.
TypeOK ==
  /\ pod \in [Sessions -> BOOLEAN]
  /\ tab \in [Sessions -> {"unopened", "open", "gone", "lost"}]
  /\ typed \in [Sessions -> Nat]
  /\ asked \in [Sessions -> Nat]
  /\ wire \in Seq(Messages)
  /\ blocked \in Messages \cup {None}
  /\ queue \in [Sessions -> Seq(Nat)]
  /\ worker \in [Sessions -> [at : {"idle", "loading", "writing"}, key : Nat]]
  /\ starter \in [Sessions -> {"idle", "spawning", "done"}]
  /\ resizers \in [Sessions -> SUBSET Nat]
  /\ ender \in [Sessions -> {"idle", "loading", "ended", "gaveUp"}]
  /\ registered \in [Sessions -> BOOLEAN]
  /\ stream \in [Sessions -> {"none", "open", "eof", "closed"}]
  /\ hung \in [Sessions -> BOOLEAN]
  /\ size \in [Sessions -> Nat]
  /\ written \in [Sessions -> Seq(Nat)]
  /\ cancelled \in [Sessions -> BOOLEAN]
  /\ printed \in [Sessions -> Nat]
  /\ chunks \in [Sessions -> Seq(Nat)]
  /\ readerDone \in [Sessions -> BOOLEAN]
  /\ pending \in [Sessions -> Seq(Nat)]
  /\ coalescer \in [Sessions -> {"idle", "running", "cleanup", "done"}]
  /\ sent \in [Sessions -> Seq(Nat)]
  /\ ended \in [Sessions -> BOOLEAN]
  /\ lapsed \in [Sessions -> SUBSET Nat]
  /\ \A s \in Sessions : Len(queue[s]) <= QueueCap /\ Len(chunks[s]) <= ChunkCap

\* The shell gets keystrokes in the order they were typed and without a gap:
\* those typed before the session was there may be lost, and those typed after
\* it ended, but none in between (execInputQueues, loadExecSession).
KeysHaveNoGap ==
  \A s \in Sessions : \A i \in 1..Len(written[s]) : written[s][i] = written[s][1] + i - 1

\* Unless somebody ended the terminal, what the shell printed is sent in order
\* and complete, and EXEC_END only after all of it (coalesceExecOutput).
OutputComplete ==
  \A s \in Sessions : ~cancelled[s] =>
    /\ sent[s] \o pending[s] \o chunks[s] = UpTo(printed[s])
    /\ ended[s] => sent[s] = UpTo(printed[s])

\* No size is forgotten: each one the tab asked for after the one in force is
\* still on its way, or its resize overlapped another's, failed or timed out.  So
\* a resize that ran alone and succeeded is in force until a later one is
\* (handleExecResize; a pod is never resized).
SizeSettles ==
  \A s \in Sessions : ~pod[s] =>
    \A n \in (size[s] + 1)..asked[s] :
      \/ n \in resizers[s] \cup lapsed[s]
      \/ \E i \in 1..Len(wire) : wire[i] = Message("EXEC_RESIZE", s, n)

\* The shell of a closed tab is ended, unless it took more than two seconds to
\* start, or the command loop waits on a shell that does not read.
ClosedTabsEnd ==
  \A s \in Sessions :
    tab[s] = "gone" ~>
      \/ starter[s] = "done" /\ stream[s] \in {"none", "closed"}
      \/ ender[s] = "gaveUp"
      \/ blocked # None /\ hung[blocked.session]
      \/ pod[s] /\ stream[s] = "eof"

\* The comment on execInputQueues: keystrokes reach the PTY "without the read loop
\* waiting on a slow write".  It does wait, once a queue is full behind that write.
LoopNeverWaits == blocked # None => worker[blocked.session].at # "writing"

\* A tab is told of the end of its shell, pods' apart: nobody watches for the
\* end of a pod's exec stream.
EndIsTold == \A s \in Sessions : ~pod[s] /\ stream[s] = "eof" ~> ended[s]
=============================================================================
