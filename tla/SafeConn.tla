------------------------------ MODULE SafeConn ------------------------------
(***************************************************************************)
(* The outbound half of one hub WebSocket connection (SafeConn in          *)
(* pkg/server/server.go).  Any number of goroutines (Writers) call         *)
(* WriteMessage or WriteJSON; each call is one non-blocking select on a    *)
(* bounded channel, and one goroutine, writeLoop, drains that channel into *)
(* the socket.                                                             *)
(*                                                                         *)
(* A frame is <<writer, n>> for the n-th call of that writer: its payload  *)
(* does not matter.  The peer may stall (WriteFrame then never happens) or *)
(* go away (WriteFails).  sent and accepted are history variables.         *)
(***************************************************************************)
EXTENDS Naturals, Sequences

CONSTANTS
  Writers,             \* goroutines that write to this connection
  Cap,                 \* capacity of the outbox channel (2048 in the code)
  MaxSends             \* bound on the calls of one writer

ASSUME CapAssumption == Cap \in Nat \ {0}
ASSUME MaxSendsAssumption == MaxSends \in Nat

VARIABLES
  sent,                \* calls made so far, per writer
  accepted,            \* frames whose enqueue returned nil, in channel order
  outbox,              \* the buffered channel
  loop,                \* where writeLoop is: "select", "writing" or "exited"
  hand,                \* the frame writeLoop took and has not written: <<>> or <<f>>
  wire,                \* frames written to the socket, in order
  failed,              \* a socket write failed (gorilla then fails all later ones)
  closeAsked,          \* some goroutine is to run, or has run, Close
  closed,              \* the closed channel is closed
  sockClosed           \* conn.Close has been called

vars == <<sent, accepted, outbox, loop, hand, wire, failed, closeAsked, closed,
          sockClosed>>

Frame == Writers \X (1..MaxSends)

Init ==
  /\ sent = [w \in Writers |-> 0]
  /\ accepted = <<>>
  /\ outbox = <<>>
  /\ loop = "select"
  /\ hand = <<>>
  /\ wire = <<>>
  /\ failed = FALSE
  /\ closeAsked = FALSE
  /\ closed = FALSE
  /\ sockClosed = FALSE

-----------------------------------------------------------------------------
\* enqueue: the three outcomes of the select.  When the channel has room and
\* the connection is closed, Go picks either ready case.

Call(w) ==
  /\ sent[w] < MaxSends
  /\ sent' = [sent EXCEPT ![w] = @ + 1]

\* Mutant: the channel is not bounded.
EnqueueUnbounded(w) ==
  /\ Call(w)
  /\ outbox' = Append(outbox, <<w, sent[w] + 1>>)
  /\ accepted' = Append(accepted, <<w, sent[w] + 1>>)
  /\ UNCHANGED <<loop, hand, wire, failed, closeAsked, closed, sockClosed>>

EnqueueAccepted(w) ==
  /\ Call(w)
  /\ Len(outbox) < Cap
  /\ outbox' = Append(outbox, <<w, sent[w] + 1>>)
  /\ accepted' = Append(accepted, <<w, sent[w] + 1>>)
  /\ UNCHANGED <<loop, hand, wire, failed, closeAsked, closed, sockClosed>>

EnqueueClosed(w) ==
  /\ Call(w)
  /\ closed
  /\ UNCHANGED <<accepted, outbox, loop, hand, wire, failed, closeAsked, closed,
                 sockClosed>>

\* Mutant: a full outbox drops its oldest frame to take the new one.
EnqueueDropOldest(w) ==
  /\ Call(w)
  /\ Len(outbox) = Cap
  /\ ~closed
  /\ outbox' = Append(Tail(outbox), <<w, sent[w] + 1>>)
  /\ accepted' = Append(accepted, <<w, sent[w] + 1>>)
  /\ UNCHANGED <<loop, hand, wire, failed, closeAsked, closed, sockClosed>>

\* default case: the frame is dropped and a goroutine is started to run Close.
EnqueueFull(w) ==
  /\ Call(w)
  /\ Len(outbox) = Cap
  /\ ~closed
  /\ closeAsked' = TRUE
  /\ UNCHANGED <<accepted, outbox, loop, hand, wire, failed, closed, sockClosed>>

-----------------------------------------------------------------------------
\* writeLoop

\* Mutant: the newest frame goes first.
TakeNewest ==
  /\ loop = "select"
  /\ outbox # <<>>
  /\ hand' = <<outbox[Len(outbox)]>>
  /\ outbox' = SubSeq(outbox, 1, Len(outbox) - 1)
  /\ loop' = "writing"
  /\ UNCHANGED <<sent, accepted, wire, failed, closeAsked, closed, sockClosed>>

TakeFrame ==
  /\ loop = "select"
  /\ outbox # <<>>
  /\ hand' = <<Head(outbox)>>
  /\ outbox' = Tail(outbox)
  /\ loop' = "writing"
  /\ UNCHANGED <<sent, accepted, wire, failed, closeAsked, closed, sockClosed>>

WriteFrame ==
  /\ loop = "writing"
  /\ ~failed
  /\ ~sockClosed
  /\ wire' = wire \o hand
  /\ hand' = <<>>
  /\ loop' = "select"
  /\ UNCHANGED <<sent, accepted, outbox, failed, closeAsked, closed, sockClosed>>

\* Mutant: a write error does not stick to the connection.
WriteFailsOnce ==
  /\ loop = "writing"
  /\ hand' = <<>>
  /\ loop' = "select"
  /\ UNCHANGED <<sent, accepted, outbox, wire, failed, closeAsked, closed, sockClosed>>

\* The write's error is ignored and the loop goes on; the frame is lost.
WriteFails ==
  /\ loop = "writing"
  /\ failed' = TRUE
  /\ hand' = <<>>
  /\ loop' = "select"
  /\ UNCHANGED <<sent, accepted, outbox, wire, closeAsked, closed, sockClosed>>

LoopExit ==
  /\ loop = "select"
  /\ closed
  /\ loop' = "exited"
  /\ UNCHANGED <<sent, accepted, outbox, hand, wire, failed, closeAsked, closed,
                 sockClosed>>

-----------------------------------------------------------------------------
\* Close: the connection's handler calls it when its read loop ends (or it
\* rejects the peer), an overflow starts a goroutine that calls it.  The once
\* makes repeated calls harmless, so one pending call stands for all.

HandlerClose ==
  /\ ~closeAsked
  /\ closeAsked' = TRUE
  /\ UNCHANGED <<sent, accepted, outbox, loop, hand, wire, failed, closed, sockClosed>>

CloseSignal ==
  /\ closeAsked
  /\ ~closed
  /\ closed' = TRUE
  /\ UNCHANGED <<sent, accepted, outbox, loop, hand, wire, failed, closeAsked, sockClosed>>

\* Mutant: the socket is closed only after writeLoop has ended.
CloseSocketLast ==
  /\ closed
  /\ loop = "exited"
  /\ ~sockClosed
  /\ sockClosed' = TRUE
  /\ UNCHANGED <<sent, accepted, outbox, loop, hand, wire, failed, closeAsked, closed>>

CloseSocket ==
  /\ closed
  /\ ~sockClosed
  /\ sockClosed' = TRUE
  /\ UNCHANGED <<sent, accepted, outbox, loop, hand, wire, failed, closeAsked, closed>>

Next ==
  \/ \E w \in Writers : EnqueueAccepted(w) \/ EnqueueClosed(w) \/ EnqueueFull(w)
  \/ TakeFrame \/ WriteFrame \/ WriteFails \/ LoopExit
  \/ HandlerClose \/ CloseSignal \/ CloseSocket

Spec == Init /\ [][Next]_vars

\* The Go scheduler runs runnable goroutines, and a write blocked on a socket
\* returns once that socket is closed.  Nothing forces a stalled peer to read,
\* so WriteFrame is not fair.
Fairness ==
  /\ WF_vars(TakeFrame)
  /\ WF_vars(sockClosed /\ WriteFails)
  /\ WF_vars(LoopExit)
  /\ WF_vars(CloseSignal)
  /\ WF_vars(CloseSocket)

FairSpec == Spec /\ Fairness

-----------------------------------------------------------------------------
TypeOK ==
  /\ sent \in [Writers -> Nat]
  /\ accepted \in Seq(Frame)
  /\ outbox \in Seq(Frame)
  /\ Len(outbox) <= Cap
  /\ loop \in {"select", "writing", "exited"}
  /\ hand \in Seq(Frame)
  /\ (loop = "writing") <=> (Len(hand) = 1)
  /\ (loop # "writing") <=> (hand = <<>>)
  /\ wire \in Seq(Frame)
  /\ failed \in BOOLEAN
  /\ closeAsked \in BOOLEAN
  /\ closed \in BOOLEAN
  /\ sockClosed \in BOOLEAN

\* As long as no socket write has failed, every frame that enqueue accepted is
\* on the wire, in writeLoop's hand or in the outbox, in the order it was
\* accepted: the single drain goroutine neither drops nor reorders.
NothingLostWhileOpen == ~failed => accepted = (wire \o hand) \o outbox

\* What reaches the socket from one goroutine is in the order that goroutine
\* issued it, whatever the other writers do and even when the connection is
\* overflowing or closing (keystroke echo, logs and diffs depend on it).
PerWriterOrder ==
  \A i, j \in 1..Len(wire) :
    i < j /\ wire[i][1] = wire[j][1] => wire[i][2] < wire[j][2]

\* SafeConn is an ordered channel to those who use it.
Channel == INSTANCE OrderedChannel
  WITH Msg <- Frame, delivered <- wire, open <- ~failed

ImplementsChannel == Channel!Spec

\* Once a connection overflows, or its handler closes it, its socket is closed
\* and the drain goroutine ends: neither a full outbox nor a peer that stopped
\* reading leaks them.
CloseCompletes == closeAsked ~> (sockClosed /\ loop = "exited")
=============================================================================
