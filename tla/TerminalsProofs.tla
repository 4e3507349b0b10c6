---------------------------- MODULE TerminalsProofs ----------------------------
(***************************************************************************)
(* Proofs about Terminals for any number of sessions, any capacities and   *)
(* any number of keystrokes, resizes and chunks: type correctness, that    *)
(* keystrokes reach a shell in order and without a gap, that output is     *)
(* sent in order and complete, and that the last resize is the one in      *)
(* force.                                                                  *)
(***************************************************************************)
EXTENDS Terminals, SequenceLemmas, TLAPS

-----------------------------------------------------------------------------
\* Types.

\* A message is a message whatever it is made of.
LEMMA MessageType ==
  ASSUME NEW s \in Sessions, NEW n \in Nat,
         NEW type \in {"EXEC_START", "EXEC_INPUT", "EXEC_RESIZE", "EXEC_END"}
  PROVE  /\ Message(type, s, n) \in Messages
         /\ Message(type, s, n).type = type /\ Message(type, s, n).session = s
         /\ Message(type, s, n).n = n
BY DEF Message, Messages

\* The initial state is well typed.
LEMMA TypeInit == Init => TypeOK
BY BoundsAssumption DEF Init, TypeOK, Idle

\* The tab's steps keep the types.
LEMMA TypeTab ==
  ASSUME TypeOK, NEW s \in Sessions, Tab(s)
  PROVE  TypeOK'
<1> wire \in Seq(Messages)
  BY DEF TypeOK
<1>1. CASE OpenTab(s)
  <2>1. Message("EXEC_START", s, 0) \in Messages
    BY MessageType
  <2>2. wire' \in Seq(Messages)
    BY <1>1, <2>1 DEF OpenTab
  <2>3. tab' \in [Sessions -> {"unopened", "open", "gone", "lost"}]
    BY <1>1 DEF TypeOK, OpenTab
  <2> QED BY <1>1, <2>2, <2>3 DEF TypeOK, OpenTab, session, output
<1>2. CASE TypeKey(s)
  <2>1. typed' \in [Sessions -> Nat] /\ typed'[s] \in Nat
    BY <1>2 DEF TypeOK, TypeKey
  <2>2. wire' \in Seq(Messages)
    <3>1. Message("EXEC_INPUT", s, typed'[s]) \in Messages
      BY <2>1, MessageType
    <3> QED BY <1>2, <3>1 DEF TypeKey
  <2> QED BY <1>2, <2>1, <2>2 DEF TypeOK, TypeKey, session, output
<1>3. CASE ResizeTab(s)
  <2>1. asked' \in [Sessions -> Nat] /\ asked'[s] \in Nat
    BY <1>3 DEF TypeOK, ResizeTab
  <2>2. wire' \in Seq(Messages)
    <3>1. Message("EXEC_RESIZE", s, asked'[s]) \in Messages
      BY <2>1, MessageType
    <3> QED BY <1>3, <3>1 DEF ResizeTab
  <2> QED BY <1>3, <2>1, <2>2 DEF TypeOK, ResizeTab, session, output
<1>4. CASE CloseTab(s)
  <2>1. wire' \in Seq(Messages)
    <3>1. Message("EXEC_END", s, 0) \in Messages
      BY MessageType
    <3>2. wire' = Append(wire, Message("EXEC_END", s, 0)) \/ wire' = wire
      BY <1>4 DEF CloseTab
    <3> QED BY <3>1, <3>2
  <2>2. tab' \in [Sessions -> {"unopened", "open", "gone", "lost"}]
    <3>1. tab \in [Sessions -> {"unopened", "open", "gone", "lost"}]
      BY DEF TypeOK
    <3>2. tab' = [tab EXCEPT ![s] = "gone"] \/ tab' = [tab EXCEPT ![s] = "lost"]
      BY <1>4 DEF CloseTab
    <3>3. CASE tab' = [tab EXCEPT ![s] = "gone"]
      BY <3>1, <3>3
    <3>4. CASE tab' = [tab EXCEPT ![s] = "lost"]
      BY <3>1, <3>4
    <3> QED BY <3>2, <3>3, <3>4
  <2> QED BY <1>4, <2>1, <2>2 DEF TypeOK, CloseTab, session, output
<1> QED BY <1>1, <1>2, <1>3, <1>4 DEF Tab

\* What the command loop takes is a message, and a sequence of messages is left.
LEMMA TakenType ==
  ASSUME TypeOK, NEW s \in Sessions, NEW type, Takes(type, s)
  PROVE  /\ Head(wire) \in Messages /\ Head(wire).n \in Nat
         /\ Head(wire).type = type /\ Head(wire).session = s
         /\ wire' \in Seq(Messages)
<1>1. wire \in Seq(Messages) /\ wire # <<>>
  BY DEF TypeOK, Takes
<1>2. Head(wire) \in Messages /\ Tail(wire) \in Seq(Messages)
  BY <1>1, HeadTailProperties
<1>3. Head(wire).n \in Nat
  BY <1>2 DEF Messages
<1> QED BY <1>2, <1>3 DEF Takes

\* The command loop's steps keep the types and the capacity of the queues.
LEMMA TypeLoop ==
  ASSUME TypeOK, CommandLoop
  PROVE  TypeOK'
<1>1. PICK s \in Sessions :
        LoopStart(s) \/ LoopInput(s) \/ LoopUnblocks(s) \/ LoopResize(s) \/ LoopEnd(s)
  BY DEF CommandLoop
<1>2. CASE LoopStart(s)
  <2>1. wire' \in Seq(Messages)
    BY <1>2, TakenType DEF LoopStart
  <2> QED BY <1>2, <2>1 DEF TypeOK, LoopStart, output
<1>3. CASE LoopInput(s)
  <2>1. Head(wire) \in Messages /\ Head(wire).n \in Nat /\ wire' \in Seq(Messages)
    BY <1>3, TakenType DEF LoopInput
  <2>2. /\ queue' \in [Sessions -> Seq(Nat)] /\ blocked' \in Messages \cup {None}
        /\ \A t \in Sessions : Len(queue'[t]) <= QueueCap
    <3>1. CASE Len(queue[s]) < QueueCap
      <4>1. Append(queue[s], Head(wire).n) \in Seq(Nat)
            /\ Len(Append(queue[s], Head(wire).n)) = Len(queue[s]) + 1
            /\ Len(queue[s]) \in Nat
        BY <2>1 DEF TypeOK
      <4>2. queue' = [queue EXCEPT ![s] = Append(@, Head(wire).n)] /\ blocked' = blocked
        BY <1>3, <3>1 DEF LoopInput
      <4>3. queue' \in [Sessions -> Seq(Nat)] /\ blocked' \in Messages \cup {None}
        BY <4>1, <4>2 DEF TypeOK
      <4>4. ASSUME NEW t \in Sessions PROVE Len(queue'[t]) <= QueueCap
        <5>1. queue'[t] = IF t = s THEN Append(queue[s], Head(wire).n) ELSE queue[t]
          BY <4>2 DEF TypeOK
        <5>2. Len(queue[t]) <= QueueCap
          BY DEF TypeOK
        <5> QED BY <3>1, <4>1, <5>1, <5>2, BoundsAssumption
      <4> QED BY <4>3, <4>4
    <3>2. CASE ~(Len(queue[s]) < QueueCap)
      BY <1>3, <2>1, <3>2 DEF TypeOK, LoopInput
    <3> QED BY <3>1, <3>2
  <2> QED BY <1>3, <2>1, <2>2 DEF TypeOK, LoopInput, session, output
<1>4. CASE LoopUnblocks(s)
  <2>1. Append(queue[s], blocked.n) \in Seq(Nat)
        /\ Len(Append(queue[s], blocked.n)) = Len(queue[s]) + 1 /\ Len(queue[s]) \in Nat
    BY <1>4 DEF TypeOK, LoopUnblocks, Messages
  <2>2. queue' = [queue EXCEPT ![s] = Append(@, blocked.n)] /\ blocked' = None
    BY <1>4 DEF LoopUnblocks
  <2>3. queue' \in [Sessions -> Seq(Nat)] /\ blocked' \in Messages \cup {None}
    BY <2>1, <2>2 DEF TypeOK
  <2>4. ASSUME NEW t \in Sessions PROVE Len(queue'[t]) <= QueueCap
    <3>1. queue'[t] = IF t = s THEN Append(queue[s], blocked.n) ELSE queue[t]
      BY <2>2 DEF TypeOK
    <3>2. Len(queue[t]) <= QueueCap /\ Len(queue[s]) < QueueCap
      BY <1>4 DEF TypeOK, LoopUnblocks
    <3> QED BY <2>1, <3>1, <3>2, BoundsAssumption
  <2> QED BY <1>4, <2>3, <2>4 DEF TypeOK, LoopUnblocks, session, output
<1>5. CASE LoopResize(s)
  <2>1. Head(wire).n \in Nat /\ wire' \in Seq(Messages)
    BY <1>5, TakenType DEF LoopResize
  <2>2. resizers' \in [Sessions -> SUBSET Nat]
    BY <1>5, <2>1 DEF TypeOK, LoopResize
  <2>3. lapsed' \in [Sessions -> SUBSET Nat]
    <3>1. resizers'[s] \subseteq Nat /\ lapsed[s] \subseteq Nat /\ lapsed \in [Sessions -> SUBSET Nat]
      BY <2>2 DEF TypeOK
    <3>2. lapsed' = [lapsed EXCEPT ![s] = IF resizers[s] = {} THEN @ ELSE @ \cup resizers'[s]]
      BY <1>5 DEF LoopResize
    <3> QED BY <3>1, <3>2
  <2> QED BY <1>5, <2>1, <2>2, <2>3 DEF TypeOK, LoopResize, session, output
<1>6. CASE LoopEnd(s)
  <2>1. wire' \in Seq(Messages)
    BY <1>6, TakenType DEF LoopEnd
  <2> QED BY <1>6, <2>1 DEF TypeOK, LoopEnd, output
<1> QED BY <1>1, <1>2, <1>3, <1>4, <1>5, <1>6

\* The handlers' steps keep the types.
LEMMA TypeHandlers ==
  ASSUME TypeOK, NEW s \in Sessions, Spawn(s) \/ Worker(s) \/ Resizer(s) \/ Ender(s)
  PROVE  TypeOK'
<1>1. CASE SpawnSucceeds(s)
  BY <1>1 DEF TypeOK, SpawnSucceeds, input
<1>2. CASE SpawnFails(s)
  BY <1>2 DEF TypeOK, SpawnFails, input, output
<1>3. CASE WorkerTakes(s)
  <2>1. /\ Head(queue[s]) \in Nat /\ Tail(queue[s]) \in Seq(Nat)
        /\ Len(Tail(queue[s])) = Len(queue[s]) - 1
    BY <1>3, HeadTailProperties DEF TypeOK, WorkerTakes
  <2>2. /\ queue' \in [Sessions -> Seq(Nat)]
        /\ worker' \in [Sessions -> [at : {"idle", "loading", "writing"}, key : Nat]]
    BY <1>3, <2>1 DEF TypeOK, WorkerTakes
  <2>3. ASSUME NEW t \in Sessions PROVE Len(queue'[t]) <= QueueCap
    <3>1. Len(queue[t]) <= QueueCap /\ Len(queue[s]) <= QueueCap /\ Len(queue[s]) \in Nat
      BY DEF TypeOK
    <3>2. queue'[t] = IF t = s THEN Tail(queue[s]) ELSE queue[t]
      BY <1>3 DEF TypeOK, WorkerTakes
    <3> QED BY <2>1, <3>1, <3>2, BoundsAssumption
  <2> QED BY <1>3, <2>2, <2>3 DEF TypeOK, WorkerTakes, session, output
<1>4. CASE WorkerLoads(s) \/ WorkerGivesUp(s) \/ WorkerWriteFails(s)
  <2>1. worker' \in [Sessions -> [at : {"idle", "loading", "writing"}, key : Nat]]
    <3>1. worker \in [Sessions -> [at : {"idle", "loading", "writing"}, key : Nat]]
      BY DEF TypeOK
    <3>2. CASE worker' = [worker EXCEPT ![s] = Idle]
      BY <3>1, <3>2 DEF Idle
    <3>3. CASE worker' = [worker EXCEPT ![s].at = "writing"]
      BY <3>1, <3>3
    <3> QED BY <1>4, <3>2, <3>3 DEF WorkerLoads, WorkerGivesUp, WorkerWriteFails
  <2>2. CASE WorkerLoads(s)
    BY <2>1, <2>2 DEF TypeOK, WorkerLoads, session, output
  <2>3. CASE WorkerGivesUp(s)
    BY <2>1, <2>3 DEF TypeOK, WorkerGivesUp, session, output
  <2>4. CASE WorkerWriteFails(s)
    BY <2>1, <2>4 DEF TypeOK, WorkerWriteFails, session, output
  <2> QED BY <1>4, <2>2, <2>3, <2>4
<1>5. CASE WorkerWrites(s)
  <2>1. /\ worker' \in [Sessions -> [at : {"idle", "loading", "writing"}, key : Nat]]
        /\ written' \in [Sessions -> Seq(Nat)]
    <3>1. worker[s].key \in Nat /\ written \in [Sessions -> Seq(Nat)]
      BY DEF TypeOK
    <3>2. Append(written[s], worker[s].key) \in Seq(Nat)
      BY <3>1
    <3>3. worker \in [Sessions -> [at : {"idle", "loading", "writing"}, key : Nat]]
      BY DEF TypeOK
    <3>4. worker' = [worker EXCEPT ![s] = Idle]
          /\ written' = [written EXCEPT ![s] = Append(@, worker[s].key)]
      BY <1>5 DEF WorkerWrites
    <3> QED BY <3>1, <3>2, <3>3, <3>4 DEF Idle
  <2> QED BY <1>5, <2>1 DEF TypeOK, WorkerWrites, output
<1>6. CASE Resizer(s)
  <2>1. PICK n \in resizers[s] :
          ResizeApplies(s, n) \/ ResizeFails(s, n) \/ ResizeGivesUp(s, n)
    BY <1>6 DEF Resizer
  <2>2. /\ n \in Nat /\ size \in [Sessions -> Nat] /\ resizers \in [Sessions -> SUBSET Nat]
        /\ lapsed \in [Sessions -> SUBSET Nat]
    BY <2>1 DEF TypeOK
  <2>3. resizers' \in [Sessions -> SUBSET Nat]
    <3>1. resizers' = [resizers EXCEPT ![s] = @ \ {n}]
      BY <2>1 DEF ResizeApplies, ResizeFails, ResizeGivesUp
    <3> QED BY <2>2, <3>1
  <2>4. CASE ResizeApplies(s, n)
    <3>1. size' \in [Sessions -> Nat]
      BY <2>2, <2>4 DEF ResizeApplies
    <3> QED BY <2>3, <2>4, <3>1 DEF TypeOK, ResizeApplies, output
  <2>5. CASE ResizeFails(s, n) \/ ResizeGivesUp(s, n)
    <3>1. lapsed' \in [Sessions -> SUBSET Nat]
      BY <2>2, <2>5 DEF ResizeFails, ResizeGivesUp
    <3>2. /\ UNCHANGED <<pod, tab, typed, asked, wire, blocked, queue, worker>>
          /\ UNCHANGED session /\ UNCHANGED output
      BY <2>5 DEF ResizeFails, ResizeGivesUp
    <3> QED BY <2>3, <3>1, <3>2 DEF TypeOK, session, output
  <2> QED BY <2>1, <2>4, <2>5
<1>7. CASE EndCloses(s)
  BY <1>7 DEF TypeOK, EndCloses, input, output
<1>8. CASE EndGivesUp(s)
  BY <1>8 DEF TypeOK, EndGivesUp, input, output
<1> QED BY <1>1, <1>2, <1>3, <1>4, <1>5, <1>6, <1>7, <1>8 DEF Spawn, Worker, Ender

\* The shell's and the coalescer's steps keep the types and the capacity of the
\* chunk channel.
LEMMA TypeOutput ==
  ASSUME TypeOK, NEW s \in Sessions, Shell(s) \/ Coalescer(s)
  PROVE  TypeOK'
<1>1. CASE ShellPrints(s)
  <2>1. /\ printed' \in [Sessions -> Nat] /\ printed'[s] \in Nat
        /\ Append(chunks[s], printed'[s]) \in Seq(Nat)
        /\ Len(Append(chunks[s], printed'[s])) = Len(chunks[s]) + 1 /\ Len(chunks[s]) \in Nat
    BY <1>1 DEF TypeOK, ShellPrints
  <2>2. chunks' = [chunks EXCEPT ![s] = Append(@, printed'[s])] /\ Len(chunks[s]) < ChunkCap
    BY <1>1 DEF ShellPrints
  <2>3. chunks' \in [Sessions -> Seq(Nat)]
    BY <2>1, <2>2 DEF TypeOK
  <2>4. ASSUME NEW t \in Sessions PROVE Len(chunks'[t]) <= ChunkCap
    <3>1. chunks'[t] = IF t = s THEN Append(chunks[s], printed'[s]) ELSE chunks[t]
      BY <2>2 DEF TypeOK
    <3>2. Len(chunks[t]) <= ChunkCap
      BY DEF TypeOK
    <3> QED BY <2>1, <2>2, <3>1, <3>2, BoundsAssumption
  <2> QED BY <1>1, <2>1, <2>3, <2>4 DEF TypeOK, ShellPrints, input, session
<1>2. CASE ShellHangs(s)
  BY <1>2 DEF TypeOK, ShellHangs, input, output
<1>3. CASE ShellExits(s)
  BY <1>3 DEF TypeOK, ShellExits, input, output
<1>6. CASE ReaderStops(s)
  BY <1>6 DEF TypeOK, ReaderStops, input, session
<1>7. CASE CoalescerCancelled(s)
  BY <1>7 DEF TypeOK, CoalescerCancelled, input, session
<1>8. CASE Cleanup(s)
  BY <1>8 DEF TypeOK, Cleanup, input
<1>4. CASE CoalescerTakes(s)
  <2> DEFINE held == Append(pending[s], Head(chunks[s]))
  <2>1. /\ Head(chunks[s]) \in Nat /\ Tail(chunks[s]) \in Seq(Nat)
        /\ Len(Tail(chunks[s])) = Len(chunks[s]) - 1 /\ Len(chunks[s]) \in Nat
    BY <1>4, HeadTailProperties DEF TypeOK, CoalescerTakes
  <2>2. held \in Seq(Nat) /\ sent[s] \o held \in Seq(Nat)
    BY <2>1 DEF TypeOK
  <2>3. /\ chunks' = [chunks EXCEPT ![s] = Tail(@)]
        /\ sent' \in {sent, [sent EXCEPT ![s] = @ \o held]}
        /\ pending' \in {[pending EXCEPT ![s] = <<>>], [pending EXCEPT ![s] = held]}
    BY <1>4 DEF CoalescerTakes
  <2>4. /\ chunks' \in [Sessions -> Seq(Nat)] /\ sent' \in [Sessions -> Seq(Nat)]
        /\ pending' \in [Sessions -> Seq(Nat)]
    <3>1. /\ chunks \in [Sessions -> Seq(Nat)] /\ sent \in [Sessions -> Seq(Nat)]
          /\ pending \in [Sessions -> Seq(Nat)] /\ <<>> \in Seq(Nat)
      BY EmptySeq DEF TypeOK
    <3>2. chunks' \in [Sessions -> Seq(Nat)]
      BY <2>1, <2>3, <3>1
    <3>3. sent' \in [Sessions -> Seq(Nat)]
      BY <2>2, <2>3, <3>1
    <3>4. pending' \in [Sessions -> Seq(Nat)]
      BY <2>2, <2>3, <3>1
    <3> QED BY <3>2, <3>3, <3>4
  <2>5. ASSUME NEW t \in Sessions PROVE Len(chunks'[t]) <= ChunkCap
    <3>1. Len(chunks[t]) <= ChunkCap /\ Len(chunks[s]) <= ChunkCap
      BY DEF TypeOK
    <3>2. chunks'[t] = IF t = s THEN Tail(chunks[s]) ELSE chunks[t]
      BY <2>3 DEF TypeOK
    <3> QED BY <2>1, <3>1, <3>2, BoundsAssumption
  <2> QED BY <1>4, <2>4, <2>5 DEF TypeOK, CoalescerTakes, input, session
<1>5. CASE CoalescerFlushes(s) \/ CoalescerDrained(s)
  <2>1. sent' \in [Sessions -> Seq(Nat)] /\ pending' \in [Sessions -> Seq(Nat)]
    <3>1. /\ sent \in [Sessions -> Seq(Nat)] /\ pending \in [Sessions -> Seq(Nat)]
          /\ <<>> \in Seq(Nat)
      BY EmptySeq DEF TypeOK
    <3>2. sent[s] \o pending[s] \in Seq(Nat)
      BY <3>1
    <3>3. /\ sent' = [sent EXCEPT ![s] = @ \o pending[s]]
          /\ pending' = [pending EXCEPT ![s] = <<>>]
      BY <1>5 DEF CoalescerFlushes, CoalescerDrained
    <3>4. sent' \in [Sessions -> Seq(Nat)]
      BY <3>1, <3>2, <3>3
    <3>5. pending' \in [Sessions -> Seq(Nat)]
      BY <3>1, <3>3
    <3> QED BY <3>4, <3>5
  <2>2. CASE CoalescerFlushes(s)
    BY <2>1, <2>2 DEF TypeOK, CoalescerFlushes, input, session
  <2>3. CASE CoalescerDrained(s)
    BY <2>1, <2>3 DEF TypeOK, CoalescerDrained, input, session
  <2> QED BY <1>5, <2>2, <2>3
<1> QED BY <1>1, <1>2, <1>3, <1>4, <1>5, <1>6, <1>7, <1>8 DEF Shell, Coalescer

\* Every variable keeps its type, and queues and channels their capacity.
LEMMA TypeStep ==
  ASSUME TypeOK, [Next]_vars
  PROVE  TypeOK'
<1>1. CASE UNCHANGED vars
  BY <1>1 DEF TypeOK, vars, input, session, output
<1>2. CASE Next
  BY <1>2, TypeTab, TypeLoop, TypeHandlers, TypeOutput DEF Next
<1> QED BY <1>1, <1>2

THEOREM TypeCorrect == Spec => []TypeOK
<1>1. TypeOK /\ [Next]_vars => TypeOK'
  BY TypeStep
<1> QED BY <1>1, TypeInit, PTL DEF Spec

-----------------------------------------------------------------------------
\* Numbered messages.

Is(m, type, s) == m.type = type /\ m.session = s

\* The messages of one type for one session in q are numbered from + 1 to to, in
\* this order and without a gap.
Carried(q, type, s, from, to) ==
  /\ \A i \in 1..Len(q) : Is(q[i], type, s) => q[i].n \in (from + 1)..to
  /\ \A k \in (from + 1)..to : \E i \in 1..Len(q) : Is(q[i], type, s) /\ q[i].n = k
  /\ \A i, j \in 1..Len(q) : i < j /\ Is(q[i], type, s) /\ Is(q[j], type, s) => q[i].n < q[j].n

\* A message of that type takes the next number.
LEMMA CarriedNext ==
  ASSUME NEW q \in Seq(Messages), NEW m \in Messages, NEW type, NEW s, NEW from \in Nat,
         NEW to \in Nat, from <= to, Carried(q, type, s, from, to),
         Is(m, type, s), m.n = to + 1
  PROVE  Carried(Append(q, m), type, s, from, to + 1)
<1> DEFINE r == Append(q, m)
<1>1. /\ Len(r) = Len(q) + 1 /\ Len(q) \in Nat /\ r[Len(q) + 1] = m
      /\ \A i \in 1..Len(q) : r[i] = q[i]
  BY AppendProperties, LenProperties
<1> HIDE DEF r
<1>2. ASSUME NEW i \in 1..Len(r), Is(r[i], type, s) PROVE r[i].n \in (from + 1)..(to + 1)
  <2>1. CASE i = Len(q) + 1
    BY <1>1, <2>1
  <2>2. CASE i \in 1..Len(q)
    BY <1>1, <1>2, <2>2 DEF Carried
  <2> QED BY <1>1, <2>1, <2>2
<1>3. ASSUME NEW k \in (from + 1)..(to + 1) PROVE \E i \in 1..Len(r) : Is(r[i], type, s) /\ r[i].n = k
  <2>1. CASE k = to + 1
    BY <1>1, <2>1
  <2>2. CASE k \in (from + 1)..to
    <3>1. PICK i \in 1..Len(q) : Is(q[i], type, s) /\ q[i].n = k
      BY <2>2 DEF Carried
    <3> QED BY <1>1, <3>1
  <2> QED BY <2>1, <2>2
<1>4. ASSUME NEW i \in 1..Len(r), NEW j \in 1..Len(r), i < j, Is(r[i], type, s), Is(r[j], type, s)
      PROVE  r[i].n < r[j].n
  <2>1. i \in 1..Len(q) /\ r[i] = q[i] /\ r[i].n \in (from + 1)..to
    BY <1>1, <1>4 DEF Carried
  <2>2. CASE j = Len(q) + 1
    BY <1>1, <2>1, <2>2
  <2>3. CASE j \in 1..Len(q)
    BY <1>1, <1>4, <2>1, <2>3 DEF Carried
  <2> QED BY <1>1, <2>2, <2>3
<1> QED BY <1>2, <1>3, <1>4 DEF Carried, r

\* Another message changes nothing.
LEMMA CarriedOther ==
  ASSUME NEW q \in Seq(Messages), NEW m \in Messages, NEW type, NEW s, NEW from, NEW to,
         Carried(q, type, s, from, to), ~Is(m, type, s)
  PROVE  Carried(Append(q, m), type, s, from, to)
<1> DEFINE r == Append(q, m)
<1>1. /\ Len(r) = Len(q) + 1 /\ Len(q) \in Nat /\ r[Len(q) + 1] = m
      /\ \A i \in 1..Len(q) : r[i] = q[i]
  BY AppendProperties, LenProperties
<1> HIDE DEF r
<1>2. \A i \in 1..Len(r) : Is(r[i], type, s) => i \in 1..Len(q) /\ r[i] = q[i]
  BY <1>1
<1>3. \A i \in 1..Len(q) : i \in 1..Len(r) /\ r[i] = q[i]
  BY <1>1
<1> QED BY <1>2, <1>3 DEF Carried, r

\* The first one taken has the first number.
LEMMA CarriedTaken ==
  ASSUME NEW q \in Seq(Messages), q # <<>>, NEW type, NEW s, NEW from \in Nat, NEW to \in Nat,
         Carried(q, type, s, from, to), Is(Head(q), type, s)
  PROVE  /\ Head(q).n = from + 1 /\ from + 1 <= to
         /\ Carried(Tail(q), type, s, from + 1, to)
<1> DEFINE r == Tail(q)
<1>1. /\ Len(r) = Len(q) - 1 /\ Len(q) \in Nat \ {0} /\ Head(q) = q[1]
      /\ \A i \in 1..Len(r) : r[i] = q[i + 1]
  BY HeadTailProperties, EmptySeq
<1> HIDE DEF r
<1>2. q[1].n \in (from + 1)..to
  BY <1>1 DEF Carried
<1>3. q[1].n = from + 1
  <2>1. PICK i \in 1..Len(q) : Is(q[i], type, s) /\ q[i].n = from + 1
    BY <1>2 DEF Carried
  <2>2. CASE i = 1
    BY <2>1, <2>2
  <2>3. CASE i # 1
    <3>1. q[1].n < q[i].n
      BY <1>1, <2>1, <2>3 DEF Carried
    <3> QED BY <1>2, <2>1, <3>1
  <2> QED BY <2>2, <2>3
<1>4. ASSUME NEW i \in 1..Len(r), Is(r[i], type, s) PROVE r[i].n \in (from + 1 + 1)..to
  <2>1. i + 1 \in 1..Len(q) /\ 1 \in 1..Len(q) /\ 1 < i + 1 /\ r[i] = q[i + 1]
    BY <1>1
  <2>2. q[i + 1].n \in (from + 1)..to /\ q[1].n < q[i + 1].n
    BY <1>1, <1>4, <2>1 DEF Carried
  <2> QED BY <1>3, <2>1, <2>2
<1>5. ASSUME NEW k \in (from + 1 + 1)..to PROVE \E i \in 1..Len(r) : Is(r[i], type, s) /\ r[i].n = k
  <2>1. PICK i \in 1..Len(q) : Is(q[i], type, s) /\ q[i].n = k
    BY DEF Carried
  <2>2. i # 1
    BY <1>3, <2>1
  <2>3. i - 1 \in 1..Len(r) /\ r[i - 1] = q[i]
    BY <1>1, <2>2
  <2> QED BY <2>1, <2>3
<1>6. ASSUME NEW i \in 1..Len(r), NEW j \in 1..Len(r), i < j, Is(r[i], type, s), Is(r[j], type, s)
      PROVE  r[i].n < r[j].n
  <2>1. i + 1 \in 1..Len(q) /\ j + 1 \in 1..Len(q) /\ i + 1 < j + 1
        /\ r[i] = q[i + 1] /\ r[j] = q[j + 1]
    BY <1>1, <1>6
  <2> QED BY <1>6, <2>1 DEF Carried
<1>7. Carried(r, type, s, from + 1, to)
  BY <1>4, <1>5, <1>6 DEF Carried
<1> QED BY <1>1, <1>2, <1>3, <1>7 DEF r

\* Taking another message changes nothing.
LEMMA CarriedPassed ==
  ASSUME NEW q \in Seq(Messages), q # <<>>, NEW type, NEW s, NEW from, NEW to,
         Carried(q, type, s, from, to), ~Is(Head(q), type, s)
  PROVE  Carried(Tail(q), type, s, from, to)
<1> DEFINE r == Tail(q)
<1>1. /\ Len(r) = Len(q) - 1 /\ Len(q) \in Nat \ {0} /\ Head(q) = q[1]
      /\ \A i \in 1..Len(r) : r[i] = q[i + 1]
  BY HeadTailProperties, EmptySeq
<1> HIDE DEF r
<1>2. \A i \in 1..Len(r) : i + 1 \in 1..Len(q) /\ r[i] = q[i + 1]
  BY <1>1
<1>3. \A i \in 1..Len(q) : Is(q[i], type, s) => i - 1 \in 1..Len(r) /\ r[i - 1] = q[i]
  <2> SUFFICES ASSUME NEW i \in 1..Len(q), Is(q[i], type, s)
               PROVE  i - 1 \in 1..Len(r) /\ r[i - 1] = q[i]
    OBVIOUS
  <2>1. i # 1
    BY <1>1
  <2>2. i - 1 \in 1..Len(r) /\ (i - 1) + 1 = i
    BY <1>1, <2>1
  <2> QED BY <1>1, <2>2
<1>4. ASSUME NEW i \in 1..Len(r), NEW j \in 1..Len(r), i < j, Is(r[i], type, s), Is(r[j], type, s)
      PROVE  r[i].n < r[j].n
  <2>1. i + 1 < j + 1 /\ i + 1 \in 1..Len(q) /\ j + 1 \in 1..Len(q)
        /\ r[i] = q[i + 1] /\ r[j] = q[j + 1]
    BY <1>1, <1>2, <1>4
  <2> QED BY <1>4, <2>1 DEF Carried
<1>5. \A i \in 1..Len(r) : Is(r[i], type, s) => r[i].n \in (from + 1)..to
  BY <1>2 DEF Carried
<1>6. ASSUME NEW k \in (from + 1)..to PROVE \E i \in 1..Len(r) : Is(r[i], type, s) /\ r[i].n = k
  <2>1. PICK i \in 1..Len(q) : Is(q[i], type, s) /\ q[i].n = k
    BY DEF Carried
  <2> QED BY <1>3, <2>1
<1> QED BY <1>4, <1>5, <1>6 DEF Carried, r

-----------------------------------------------------------------------------
\* The life of a session.

\* A terminal is started at most once.
Opened(s) ==
  LET Starts(i) == Is(wire[i], "EXEC_START", s) IN
  /\ tab[s] = "unopened" => starter[s] = "idle" /\ \A i \in 1..Len(wire) : ~Starts(i)
  /\ \A i \in 1..Len(wire) : Starts(i) => starter[s] = "idle"
  /\ \A i, j \in 1..Len(wire) : Starts(i) /\ Starts(j) => i = j

\* Its stream opens once, when it is started, and is registered while it is open.
Lived(s) ==
  /\ starter[s] # "done" =>
       /\ stream[s] = "none" /\ coalescer[s] = "idle" /\ ~registered[s]
       /\ ~readerDone[s] /\ ~ended[s]
  /\ stream[s] = "open" => registered[s]
  /\ stream[s] = "none" => written[s] = <<>>
  /\ readerDone[s] => stream[s] \in {"eof", "closed"}

Living == \A s \in Sessions : Opened(s) /\ Lived(s)

LEMMA LivingInit == Init => Living
<1> SUFFICES ASSUME Init, NEW s \in Sessions PROVE Opened(s) /\ Lived(s)
  BY DEF Living
<1>1. 1..Len(wire) = {} /\ starter[s] = "idle"
  BY EmptySeq DEF Init
<1>2. Opened(s)
  BY <1>1 DEF Opened
<1>3. /\ stream[s] = "none" /\ coalescer[s] = "idle" /\ written[s] = <<>>
      /\ ~registered[s] /\ ~readerDone[s] /\ ~ended[s]
  BY DEF Init
<1> QED BY <1>2, <1>3 DEF Lived

\* A message that is appended adds its own place.
LEMMA AppendedMessage ==
  ASSUME NEW q \in Seq(Messages), NEW m \in Messages
  PROVE  /\ Len(q) \in Nat /\ Len(Append(q, m)) = Len(q) + 1
         /\ \A i \in 1..Len(Append(q, m)) :
              \/ i \in 1..Len(q) /\ Append(q, m)[i] = q[i]
              \/ i = Len(q) + 1 /\ Append(q, m)[i] = m
<1>1. /\ Len(q) \in Nat /\ Len(Append(q, m)) = Len(q) + 1 /\ Append(q, m)[Len(q) + 1] = m
      /\ \A i \in 1..Len(q) : Append(q, m)[i] = q[i]
  BY AppendProperties, LenProperties
<1>2. ASSUME NEW i \in 1..Len(Append(q, m))
      PROVE  i \in 1..Len(q) \/ i = Len(q) + 1
  BY <1>1
<1> QED BY <1>1, <1>2

\* What is left when the first is taken was there before.
LEMMA TakenMessage ==
  ASSUME NEW q \in Seq(Messages), q # <<>>
  PROVE  /\ 1 \in 1..Len(q) /\ Head(q) = q[1]
         /\ \A i \in 1..Len(Tail(q)) : i + 1 \in 2..Len(q) /\ Tail(q)[i] = q[i + 1]
<1>1. /\ Len(Tail(q)) = Len(q) - 1 /\ Len(q) \in Nat \ {0} /\ Head(q) = q[1]
      /\ \A i \in 1..Len(Tail(q)) : Tail(q)[i] = q[i + 1]
  BY HeadTailProperties, EmptySeq
<1>2. ASSUME NEW i \in 1..Len(Tail(q))
      PROVE  i + 1 \in 2..Len(q)
  BY <1>1
<1> QED BY <1>1, <1>2

\* A key, or a resize, takes the next number.
LEMMA NextKey ==
  ASSUME TypeOK, NEW s \in Sessions, TypeKey(s)
  PROVE  /\ typed' \in [Sessions -> Nat] /\ typed'[s] \in Nat
         /\ \A t \in Sessions : typed'[t] = IF s = t THEN typed[t] + 1 ELSE typed[t]
         /\ wire' = Append(wire, Message("EXEC_INPUT", s, typed'[s]))
<1>1. typed \in [Sessions -> Nat]
  BY DEF TypeOK
<1>2. typed' = [typed EXCEPT ![s] = @ + 1]
  BY DEF TypeKey
<1>3. wire' = Append(wire, Message("EXEC_INPUT", s, typed'[s]))
  BY DEF TypeKey
<1>4. typed' \in [Sessions -> Nat] /\ typed'[s] \in Nat
  BY <1>1, <1>2
<1>5. \A t \in Sessions : typed'[t] = IF s = t THEN typed[t] + 1 ELSE typed[t]
  BY <1>1, <1>2
<1> QED BY <1>3, <1>4, <1>5

LEMMA NextResize ==
  ASSUME TypeOK, NEW s \in Sessions, ResizeTab(s)
  PROVE  /\ asked' \in [Sessions -> Nat] /\ asked'[s] \in Nat
         /\ \A t \in Sessions : asked'[t] = IF s = t THEN asked[t] + 1 ELSE asked[t]
         /\ wire' = Append(wire, Message("EXEC_RESIZE", s, asked'[s]))
<1>1. asked \in [Sessions -> Nat]
  BY DEF TypeOK
<1>2. asked' = [asked EXCEPT ![s] = @ + 1]
  BY DEF ResizeTab
<1>3. wire' = Append(wire, Message("EXEC_RESIZE", s, asked'[s]))
  BY DEF ResizeTab
<1>4. asked' \in [Sessions -> Nat] /\ asked'[s] \in Nat
  BY <1>1, <1>2
<1>5. \A t \in Sessions : asked'[t] = IF s = t THEN asked[t] + 1 ELSE asked[t]
  BY <1>1, <1>2
<1> QED BY <1>3, <1>4, <1>5

\* No step starts a terminal twice.
LEMMA OpenedStep ==
  ASSUME TypeOK, NEW t \in Sessions, Opened(t), [Next]_vars
  PROVE  Opened(t)'
<1> wire \in Seq(Messages)
  BY DEF TypeOK
<1>1. ASSUME NEW s \in Sessions, OpenTab(s) PROVE Opened(t)'
  <2> DEFINE m == Message("EXEC_START", s, 0)
  <2>1. m \in Messages /\ (s # t => ~Is(m, "EXEC_START", t))
    BY MessageType DEF Is
  <2>2. wire' = Append(wire, m) /\ starter' = starter /\ tab' = [tab EXCEPT ![s] = "open"]
        /\ tab[s] = "unopened"
    BY <1>1 DEF OpenTab, session
  <2> HIDE DEF m
  <2>3. tab'[t] = IF s = t THEN "open" ELSE tab[t]
    BY <2>2 DEF TypeOK
  <2> QED BY <2>1, <2>2, <2>3, AppendedMessage DEF Opened
<1>2. ASSUME NEW s \in Sessions, TypeKey(s) \/ ResizeTab(s) \/ CloseTab(s) PROVE Opened(t)'
  <2>1. starter' = starter /\ tab'[t] \in {tab[t], "gone", "lost"}
    BY <1>2 DEF TypeOK, TypeKey, ResizeTab, CloseTab, session
  <2>2. CASE wire' = wire
    BY <2>1, <2>2 DEF Opened
  <2>3. ASSUME NEW type \in {"EXEC_INPUT", "EXEC_RESIZE", "EXEC_END"}, NEW n \in Nat,
               wire' = Append(wire, Message(type, s, n))
        PROVE  Opened(t)'
    <3> DEFINE m == Message(type, s, n)
    <3>1. m \in Messages /\ ~Is(m, "EXEC_START", t) /\ wire' = Append(wire, m)
      BY <2>3, MessageType DEF Is
    <3> HIDE DEF m
    <3> QED BY <2>1, <3>1, AppendedMessage DEF Opened
  <2>4. CASE TypeKey(s)
    BY <2>3, <2>4, NextKey
  <2>5. CASE ResizeTab(s)
    BY <2>3, <2>5, NextResize
  <2>6. CASE CloseTab(s)
    <3>1. wire' = wire \/ wire' = Append(wire, Message("EXEC_END", s, 0))
      BY <2>6 DEF CloseTab
    <3> QED BY <2>2, <2>3, <3>1
  <2> QED BY <1>2, <2>4, <2>5, <2>6
<1>3. ASSUME NEW s \in Sessions, LoopStart(s) PROVE Opened(t)'
  <2>1. /\ wire # <<>> /\ Is(Head(wire), "EXEC_START", s) /\ wire' = Tail(wire)
        /\ starter' = [starter EXCEPT ![s] = "spawning"] /\ tab' = tab
    BY <1>3 DEF LoopStart, Takes, Is
  <2>2. starter'[t] = IF s = t THEN "spawning" ELSE starter[t]
    BY <2>1 DEF TypeOK
  <2>3. CASE s = t
    <3>1. Is(wire[1], "EXEC_START", t) /\ 1 \in 1..Len(wire)
      BY <2>1, <2>3, TakenMessage
    <3>2. \A i \in 1..Len(wire') : ~Is(wire'[i], "EXEC_START", t)
      <4> SUFFICES ASSUME NEW i \in 1..Len(wire'), Is(wire'[i], "EXEC_START", t) PROVE FALSE
        OBVIOUS
      <4>1. i + 1 \in 2..Len(wire) /\ Is(wire[i + 1], "EXEC_START", t)
        BY <2>1, TakenMessage
      <4>2. i + 1 = 1
        BY <3>1, <4>1 DEF Opened
      <4> QED BY <4>1, <4>2
    <3>3. tab[t] # "unopened"
      BY <3>1 DEF Opened
    <3> QED BY <2>1, <3>2, <3>3 DEF Opened
  <2>4. CASE s # t
    BY <2>1, <2>2, <2>4, TakenMessage DEF Opened
  <2> QED BY <2>3, <2>4
<1>4. ASSUME NEW s \in Sessions, LoopInput(s) \/ LoopResize(s) \/ LoopEnd(s) PROVE Opened(t)'
  <2>1. wire # <<>> /\ wire' = Tail(wire) /\ starter' = starter /\ tab' = tab
    BY <1>4 DEF LoopInput, LoopResize, LoopEnd, Takes, session
  <2> QED BY <2>1, TakenMessage DEF Opened
<1>5. ASSUME NEW s \in Sessions, Spawn(s) PROVE Opened(t)'
  <2>1. wire' = wire /\ tab' = tab /\ starter[s] = "spawning"
        /\ starter' = [starter EXCEPT ![s] = "done"]
    BY <1>5 DEF Spawn, SpawnSucceeds, SpawnFails, input
  <2>2. starter'[t] = IF s = t THEN "done" ELSE starter[t]
    BY <2>1 DEF TypeOK
  <2> QED BY <2>1, <2>2 DEF Opened
<1>6. CASE wire' = wire /\ tab' = tab /\ starter' = starter
  BY <1>6 DEF Opened
<1>7. ASSUME NEW s \in Sessions, Worker(s) \/ Resizer(s) \/ Ender(s) \/ Shell(s) \/ Coalescer(s)
      PROVE  wire' = wire /\ tab' = tab /\ starter' = starter
  <2>1. CASE Worker(s)
    BY <2>1 DEF Worker, WorkerTakes, WorkerLoads, WorkerGivesUp, WorkerWrites, WorkerWriteFails,
                session
  <2>2. CASE Resizer(s)
    BY <2>2 DEF Resizer, ResizeApplies, ResizeFails, ResizeGivesUp, session
  <2>3. CASE Ender(s)
    BY <2>3 DEF Ender, EndCloses, EndGivesUp, input
  <2>4. CASE Shell(s)
    BY <2>4 DEF Shell, ShellPrints, ShellHangs, ShellExits, input, session
  <2>5. CASE Coalescer(s)
    BY <2>5 DEF Coalescer, ReaderStops, CoalescerTakes, CoalescerFlushes, CoalescerDrained,
                CoalescerCancelled, Cleanup, input, session
  <2> QED BY <1>7, <2>1, <2>2, <2>3, <2>4, <2>5
<1>8. ASSUME NEW s \in Sessions, LoopUnblocks(s) PROVE wire' = wire /\ tab' = tab /\ starter' = starter
  BY <1>8 DEF LoopUnblocks, session
<1>9. CASE UNCHANGED vars
  BY <1>6, <1>9 DEF vars, input, session
<1> QED BY <1>1, <1>2, <1>3, <1>4, <1>5, <1>6, <1>7, <1>8, <1>9 DEF Next, CommandLoop, Tab


\* A session's stream is opened by its start alone, and no step opens it again.
LEMMA LivedStep ==
  ASSUME TypeOK, NEW t \in Sessions, Opened(t), Lived(t), [Next]_vars
  PROVE  Lived(t)'
<1> DEFINE Same == /\ starter' = starter /\ stream' = stream /\ coalescer' = coalescer
                   /\ readerDone' = readerDone /\ ended' = ended /\ registered' = registered
                   /\ written' = written
<1>1. CASE Same
  BY <1>1 DEF Lived
<1>2. ASSUME NEW s \in Sessions, Tab(s) PROVE Same
  BY <1>2 DEF Tab, OpenTab, TypeKey, ResizeTab, CloseTab, session, output
<1>3. ASSUME NEW s \in Sessions, LoopStart(s) PROVE Lived(t)'
  <2>1. /\ starter'[t] \in {starter[t], "spawning"} /\ (s # t => starter'[t] = starter[t])
        /\ stream' = stream /\ coalescer' = coalescer /\ readerDone' = readerDone
        /\ ended' = ended /\ registered' = registered /\ written' = written
    BY <1>3 DEF TypeOK, LoopStart, output
  <2>2. s = t => starter[t] = "idle"
    <3>1. wire # <<>> /\ Is(Head(wire), "EXEC_START", s) /\ wire \in Seq(Messages)
      BY <1>3 DEF TypeOK, LoopStart, Takes, Is
    <3> QED BY <3>1, TakenMessage DEF Opened
  <2> QED BY <2>1, <2>2 DEF Lived
<1>4. ASSUME NEW s \in Sessions,
             LoopInput(s) \/ LoopUnblocks(s) \/ LoopResize(s) \/ LoopEnd(s)
      PROVE  Same
  BY <1>4 DEF LoopInput, LoopUnblocks, LoopResize, LoopEnd, session, output
<1>5. ASSUME NEW s \in Sessions, SpawnSucceeds(s) PROVE Lived(t)'
  <2>1. CASE s = t
    <3>1. /\ starter'[t] = "done" /\ registered'[t] /\ stream'[t] = "open"
          /\ starter[t] # "done" /\ readerDone' = readerDone
      BY <1>5, <2>1 DEF TypeOK, SpawnSucceeds
    <3> QED BY <3>1 DEF Lived
  <2>2. CASE s # t
    <3>1. /\ starter'[t] = starter[t] /\ registered'[t] = registered[t] /\ stream'[t] = stream[t]
          /\ coalescer'[t] = coalescer[t] /\ readerDone' = readerDone /\ ended' = ended
          /\ written' = written
      BY <1>5, <2>2 DEF TypeOK, SpawnSucceeds
    <3> QED BY <3>1 DEF Lived
  <2> QED BY <2>1, <2>2
<1>6. ASSUME NEW s \in Sessions, SpawnFails(s) PROVE Lived(t)'
  <2>1. /\ starter'[t] \in {starter[t], "done"} /\ registered' = registered /\ stream' = stream
        /\ coalescer' = coalescer /\ readerDone' = readerDone /\ ended' = ended
        /\ written' = written
    BY <1>6 DEF TypeOK, SpawnFails, output
  <2> QED BY <2>1 DEF Lived
<1>7. ASSUME NEW s \in Sessions,
             WorkerTakes(s) \/ WorkerLoads(s) \/ WorkerGivesUp(s) \/ WorkerWriteFails(s)
      PROVE  Same
  BY <1>7 DEF WorkerTakes, WorkerLoads, WorkerGivesUp, WorkerWriteFails, session, output
<1>8. ASSUME NEW s \in Sessions, WorkerWrites(s) PROVE Lived(t)'
  <2>1. /\ starter' = starter /\ registered' = registered /\ stream' = stream
        /\ coalescer' = coalescer /\ readerDone' = readerDone /\ ended' = ended
        /\ stream[s] = "open" /\ (s # t => written'[t] = written[t])
    BY <1>8 DEF TypeOK, WorkerWrites, output
  <2> QED BY <2>1 DEF Lived
<1>9. ASSUME NEW s \in Sessions, Resizer(s) \/ EndGivesUp(s) PROVE Same
  BY <1>9 DEF Resizer, ResizeApplies, ResizeFails, ResizeGivesUp, EndGivesUp, session, output
<1>10. ASSUME NEW s \in Sessions, EndCloses(s) PROVE Lived(t)'
  <2>1. /\ starter' = starter /\ coalescer' = coalescer /\ readerDone' = readerDone
        /\ ended' = ended /\ written' = written
        /\ IF s = t THEN registered[s] /\ stream'[t] = "closed"
           ELSE stream'[t] = stream[t] /\ registered'[t] = registered[t]
    BY <1>10 DEF TypeOK, EndCloses, output
  <2>2. CASE s = t
    <3>1. starter[t] = "done"
      BY <1>10, <2>2 DEF Lived, EndCloses
    <3> QED BY <2>1, <2>2, <3>1 DEF Lived
  <2>3. CASE s # t
    BY <2>1, <2>3 DEF Lived
  <2> QED BY <2>2, <2>3
<1>11. ASSUME NEW s \in Sessions, ShellPrints(s) \/ ShellHangs(s) PROVE Same
  BY <1>11 DEF ShellPrints, ShellHangs, session, output
<1>12. ASSUME NEW s \in Sessions, ShellExits(s) PROVE Lived(t)'
  <2>1. /\ starter' = starter /\ coalescer' = coalescer /\ readerDone' = readerDone
        /\ ended' = ended /\ written' = written /\ registered' = registered
        /\ stream[s] = "open"
        /\ stream'[t] = IF s = t THEN "eof" ELSE stream[t]
    BY <1>12 DEF TypeOK, ShellExits, output
  <2> QED BY <2>1 DEF Lived
<1>13. ASSUME NEW s \in Sessions, ReaderStops(s) PROVE Lived(t)'
  <2>1. /\ starter' = starter /\ coalescer' = coalescer /\ stream' = stream
        /\ ended' = ended /\ written' = written /\ registered' = registered
        /\ stream[s] \in {"eof", "closed"}
        /\ readerDone'[t] = IF s = t THEN TRUE ELSE readerDone[t]
    BY <1>13 DEF TypeOK, ReaderStops, session
  <2> QED BY <2>1 DEF Lived
<1>14. ASSUME NEW s \in Sessions, CoalescerTakes(s) \/ CoalescerFlushes(s) PROVE Same
  BY <1>14 DEF CoalescerTakes, CoalescerFlushes, session
<1>15. ASSUME NEW s \in Sessions, CoalescerDrained(s) \/ CoalescerCancelled(s) PROVE Lived(t)'
  <2>1. /\ starter' = starter /\ stream' = stream /\ readerDone' = readerDone
        /\ ended' = ended /\ written' = written /\ registered' = registered
        /\ coalescer[s] = "running" /\ coalescer' = [coalescer EXCEPT ![s] = "cleanup"]
    BY <1>15 DEF CoalescerDrained, CoalescerCancelled, session
  <2>2. s # t => coalescer'[t] = coalescer[t]
    BY <2>1 DEF TypeOK
  <2>3. s = t => starter[t] = "done"
    BY <2>1 DEF TypeOK, Lived
  <2> QED BY <2>1, <2>2, <2>3 DEF Lived
<1>16. ASSUME NEW s \in Sessions, Cleanup(s) PROVE Lived(t)'
  <2>1. /\ starter' = starter /\ readerDone' = readerDone /\ written' = written
        /\ coalescer[s] = "cleanup"
        /\ IF s = t THEN stream'[t] = "closed"
           ELSE /\ coalescer'[t] = coalescer[t] /\ stream'[t] = stream[t]
                /\ registered'[t] = registered[t] /\ ended'[t] = ended[t]
    BY <1>16 DEF TypeOK, Cleanup
  <2>2. s = t => starter[t] = "done"
    BY <2>1 DEF TypeOK, Lived
  <2> QED BY <2>1, <2>2 DEF Lived
<1>17. CASE UNCHANGED vars
  BY <1>1, <1>17 DEF vars, session, output
<1> HIDE DEF Same
<1>18. ASSUME NEW s \in Sessions, Spawn(s) \/ Worker(s) \/ Resizer(s) \/ Ender(s) PROVE Lived(t)'
  BY <1>1, <1>5, <1>6, <1>7, <1>8, <1>9, <1>10, <1>18 DEF Spawn, Worker, Ender
<1>19. ASSUME NEW s \in Sessions, Shell(s) \/ Coalescer(s) PROVE Lived(t)'
  BY <1>1, <1>11, <1>12, <1>13, <1>14, <1>15, <1>16, <1>19 DEF Shell, Coalescer
<1>20. CASE CommandLoop
  BY <1>1, <1>3, <1>4, <1>20 DEF CommandLoop
<1> QED BY <1>1, <1>2, <1>17, <1>18, <1>19, <1>20 DEF Next

LEMMA LivingStep ==
  ASSUME TypeOK, Living, [Next]_vars
  PROVE  Living'
BY OpenedStep, LivedStep DEF Living

-----------------------------------------------------------------------------
\* Keystrokes.

\* The number of the last key that entered the queue of s, when the loop has
\* taken the keys up to n.
Queued(s, n) == IF blocked # None /\ blocked.session = s THEN n - 1 ELSE n

\* Numbers that follow one another up to last.
EndsAt(q, last) == \A i \in 1..Len(q) : q[i] = last - Len(q) + i

\* Numbers that follow one another.
Gapless(q) == \A i \in 1..Len(q) : q[i] = q[1] + i - 1

\* A worker w has taken the keys up to k, and written them while the stream is open.
Front(w, out, at, k) ==
  /\ w.at # "idle" => w.key = k
  /\ at = "open" /\ out # <<>> => out[Len(out)] = k - (IF w.at = "idle" THEN 0 ELSE 1)
  /\ Gapless(out)

\* The keys of s are in one line, which nothing overtakes: those written, the one
\* in the worker's hand, those queued, the one the loop waits with, those on the wire.
KeyLine(s, n) ==
  /\ n \in 0..typed[s]
  /\ Carried(wire, "EXEC_INPUT", s, n, typed[s])
  /\ blocked # None /\ blocked.session = s => blocked.n = n
  /\ EndsAt(queue[s], Queued(s, n))
  /\ Front(worker[s], written[s], stream[s], Queued(s, n) - Len(queue[s]))

KeyLines == \A s \in Sessions : \E n \in Nat : KeyLine(s, n)

\* The next number goes to the end.
LEMMA EndsAtNext ==
  ASSUME NEW q \in Seq(Nat), NEW k \in Nat, EndsAt(q, k - 1)
  PROVE  EndsAt(Append(q, k), k) /\ k - Len(Append(q, k)) = (k - 1) - Len(q)
<1> DEFINE r == Append(q, k)
<1>1. /\ Len(r) = Len(q) + 1 /\ Len(q) \in Nat /\ r[Len(q) + 1] = k
      /\ \A i \in 1..Len(q) : r[i] = q[i]
  BY AppendProperties, LenProperties
<1> HIDE DEF r
<1>2. ASSUME NEW i \in 1..Len(r) PROVE r[i] = k - Len(r) + i
  <2>1. CASE i = Len(q) + 1
    BY <1>1, <2>1
  <2>2. CASE i \in 1..Len(q)
    <3>1. r[i] = (k - 1) - Len(q) + i
      BY <1>1, <2>2 DEF EndsAt
    <3> QED BY <1>1, <3>1
  <2> QED BY <1>1, <2>1, <2>2
<1>3. k - Len(r) = (k - 1) - Len(q)
  BY <1>1
<1> QED BY <1>2, <1>3 DEF EndsAt, r

\* What follows the first ends at the same number.
LEMMA EndsAtTail ==
  ASSUME NEW q \in Seq(Nat), q # <<>>, NEW last \in Int, EndsAt(q, last)
  PROVE  /\ EndsAt(Tail(q), last) /\ Head(q) = last - Len(Tail(q))
         /\ last - Len(q) = last - Len(Tail(q)) - 1
<1> DEFINE r == Tail(q)
<1>1. /\ Len(r) = Len(q) - 1 /\ Len(q) \in Nat \ {0} /\ Head(q) = q[1]
      /\ \A i \in 1..Len(r) : r[i] = q[i + 1]
  BY HeadTailProperties, EmptySeq
<1> HIDE DEF r
<1>2. ASSUME NEW i \in 1..Len(r) PROVE r[i] = last - Len(r) + i
  <2>1. i + 1 \in 1..Len(q) /\ r[i] = q[i + 1]
    BY <1>1
  <2>2. q[i + 1] = last - Len(q) + (i + 1)
    BY <2>1 DEF EndsAt
  <2> QED BY <1>1, <2>1, <2>2
<1>3. q[1] = last - Len(q) + 1
  BY <1>1 DEF EndsAt
<1>4. q[1] = last - Len(r) /\ last - Len(q) = last - Len(r) - 1
  BY <1>1, <1>3
<1> QED BY <1>1, <1>2, <1>4 DEF EndsAt, r

\* The number after the last one leaves no gap.
LEMMA GaplessNext ==
  ASSUME NEW q \in Seq(Nat), NEW k \in Nat, Gapless(q), q # <<>> => q[Len(q)] = k - 1
  PROVE  Gapless(Append(q, k)) /\ Append(q, k)[Len(Append(q, k))] = k
<1> DEFINE r == Append(q, k)
<1>1. /\ Len(r) = Len(q) + 1 /\ Len(q) \in Nat /\ r[Len(q) + 1] = k
      /\ \A i \in 1..Len(q) : r[i] = q[i]
  BY AppendProperties, LenProperties
<1> HIDE DEF r
<1>2. CASE q = <<>>
  <2>1. Len(r) = 1 /\ r[1] = k
    BY <1>1, <1>2
  <2> QED BY <2>1 DEF Gapless, r
<1>3. CASE q # <<>>
  <2>1. Len(q) \in Nat \ {0}
    BY <1>1, <1>3, EmptySeq
  <2>2. q[1] \in Nat /\ r[1] = q[1] /\ q[Len(q)] = q[1] + Len(q) - 1
    BY <1>1, <2>1, ElementOfSeq DEF Gapless
  <2>3. k = q[1] + Len(q)
    BY <1>3, <2>1, <2>2
  <2>4. ASSUME NEW i \in 1..Len(r) PROVE r[i] = r[1] + i - 1
    <3>1. CASE i = Len(q) + 1
      BY <1>1, <2>1, <2>2, <2>3, <3>1
    <3>2. CASE i \in 1..Len(q)
      BY <1>1, <2>2, <3>2 DEF Gapless
    <3> QED BY <1>1, <3>1, <3>2
  <2> QED BY <1>1, <2>4 DEF Gapless, r
<1> QED BY <1>2, <1>3

\* What the steps of other sessions, and those that have nothing to do with keys,
\* leave alone.
LEMMA KeyLineSame ==
  ASSUME NEW t \in Sessions, NEW n \in Nat, KeyLine(t, n),
         Carried(wire', "EXEC_INPUT", t, n, typed'[t]), typed'[t] = typed[t],
         Queued(t, n)' = Queued(t, n), blocked' # None /\ blocked'.session = t => blocked' = blocked,
         queue'[t] = queue[t], worker'[t] = worker[t], written'[t] = written[t],
         stream'[t] = "open" => stream[t] = "open" \/ written[t] = <<>>
  PROVE  KeyLine(t, n)'
BY DEF KeyLine, Front

\* The tab's steps: a key goes to the end of the line.
LEMMA KeyLineTab ==
  ASSUME TypeOK, NEW t \in Sessions, NEW n \in Nat, KeyLine(t, n), NEW s \in Sessions, Tab(s)
  PROVE  KeyLine(t, n)'
<1>1. /\ blocked' = blocked /\ queue' = queue /\ worker' = worker /\ written' = written
      /\ stream' = stream
  BY DEF Tab, OpenTab, TypeKey, ResizeTab, CloseTab, session
<1>2. Queued(t, n)' = Queued(t, n)
  BY <1>1 DEF Queued
<1>3. wire \in Seq(Messages) /\ typed[t] \in Nat /\ n <= typed[t]
      /\ Carried(wire, "EXEC_INPUT", t, n, typed[t])
  BY DEF TypeOK, KeyLine
<1>4. CASE TypeKey(s)
  <2>1. typed' \in [Sessions -> Nat] /\ typed'[s] \in Nat
        /\ typed'[t] = IF s = t THEN typed[t] + 1 ELSE typed[t]
    BY <1>4, NextKey
  <2> DEFINE m == Message("EXEC_INPUT", s, typed'[s])
  <2>2. m \in Messages /\ m.type = "EXEC_INPUT" /\ m.session = s /\ m.n = typed'[s]
    BY <2>1, MessageType
  <2>3. wire' = Append(wire, m)
    BY <1>4, NextKey
  <2> HIDE DEF m
  <2>4. Carried(wire', "EXEC_INPUT", t, n, typed'[t])
    <3>1. CASE s = t
      <4>1. Is(m, "EXEC_INPUT", t) /\ m.n = typed[t] + 1
        BY <2>1, <2>2, <3>1 DEF Is
      <4> QED BY <1>3, <2>1, <2>2, <2>3, <3>1, <4>1, CarriedNext
    <3>2. CASE s # t
      <4>1. ~Is(m, "EXEC_INPUT", t)
        BY <2>2, <3>2 DEF Is
      <4> QED BY <1>3, <2>1, <2>2, <2>3, <3>2, <4>1, CarriedOther
    <3> QED BY <3>1, <3>2
  <2>5. n \in 0..typed'[t]
    BY <1>3, <2>1
  <2> QED BY <1>1, <1>2, <2>4, <2>5 DEF KeyLine, Front
<1>5. ASSUME NEW type \in {"EXEC_START", "EXEC_RESIZE", "EXEC_END"}, NEW k \in Nat,
             wire' = Append(wire, Message(type, s, k)), typed' = typed
      PROVE  KeyLine(t, n)'
  <2>1. Message(type, s, k) \in Messages /\ ~Is(Message(type, s, k), "EXEC_INPUT", t)
    BY <1>5, MessageType DEF Is
  <2>2. Carried(wire', "EXEC_INPUT", t, n, typed'[t])
    BY <1>3, <1>5, <2>1, CarriedOther
  <2> QED BY <1>1, <1>2, <1>5, <2>2, KeyLineSame
<1>6. CASE OpenTab(s)
  <2>1. wire' = Append(wire, Message("EXEC_START", s, 0)) /\ typed' = typed
    BY <1>6 DEF OpenTab
  <2> QED BY <1>5, <2>1
<1>7. CASE ResizeTab(s)
  <2>1. typed' = typed
    BY <1>7 DEF ResizeTab
  <2> QED BY <1>5, <1>7, <2>1, NextResize
<1>8. CASE CloseTab(s)
  <2>1. typed' = typed /\ (wire' = wire \/ wire' = Append(wire, Message("EXEC_END", s, 0)))
    BY <1>8 DEF CloseTab
  <2>2. CASE wire' = wire
    BY <1>1, <1>2, <1>3, <2>1, <2>2, KeyLineSame
  <2> QED BY <1>5, <2>1, <2>2
<1> QED BY <1>4, <1>6, <1>7, <1>8 DEF Tab

\* The loop's steps: it takes the next key, puts it in the queue or waits with it.
LEMMA KeyLineLoop ==
  ASSUME TypeOK, NEW t \in Sessions, NEW n \in Nat, KeyLine(t, n), CommandLoop
  PROVE  \E m \in Nat : KeyLine(t, m)'
<1>1. wire \in Seq(Messages) /\ typed[t] \in Nat /\ n <= typed[t]
      /\ Carried(wire, "EXEC_INPUT", t, n, typed[t])
      /\ queue \in [Sessions -> Seq(Nat)] /\ blocked \in Messages \cup {None}
  BY DEF TypeOK, KeyLine
<1>2. ASSUME NEW s \in Sessions, LoopStart(s) \/ LoopResize(s) \/ LoopEnd(s)
      PROVE  KeyLine(t, n)'
  <2>1. /\ typed' = typed /\ blocked' = blocked /\ queue' = queue /\ worker' = worker
        /\ written' = written /\ stream' = stream
        /\ wire # <<>> /\ wire' = Tail(wire) /\ Head(wire).type # "EXEC_INPUT"
    BY <1>2 DEF LoopStart, LoopResize, LoopEnd, Takes, session
  <2>2. Queued(t, n)' = Queued(t, n)
    BY <2>1 DEF Queued
  <2>3. Carried(wire', "EXEC_INPUT", t, n, typed'[t])
    <3>1. ~Is(Head(wire), "EXEC_INPUT", t)
      BY <2>1 DEF Is
    <3> QED BY <1>1, <2>1, <3>1, CarriedPassed
  <2> QED BY <2>1, <2>2, <2>3, KeyLineSame
<1>3. ASSUME NEW s \in Sessions, LoopInput(s)
      PROVE  \E m \in Nat : KeyLine(t, m)'
  <2>1. /\ typed' = typed /\ worker' = worker /\ written' = written /\ stream' = stream
        /\ blocked = None /\ wire # <<>> /\ wire' = Tail(wire) /\ Is(Head(wire), "EXEC_INPUT", s)
    BY <1>3 DEF LoopInput, Takes, session, Is
  <2>2. Queued(t, n) = n
    BY <2>1 DEF Queued
  <2>3. Head(wire) \in Messages /\ Head(wire) # None
    BY <1>1, <2>1, TakenMessage, ElementOfSeq, NoneAssumption
  <2>4. \/ blocked' = None /\ queue' = [queue EXCEPT ![s] = Append(@, Head(wire).n)]
        \/ blocked' = Head(wire) /\ queue' = queue
    BY <1>3, <2>1 DEF LoopInput
  <2>5. CASE s # t
    <3>1. ~Is(Head(wire), "EXEC_INPUT", t) /\ Head(wire).session # t
      BY <2>1, <2>5 DEF Is
    <3>2. Carried(wire', "EXEC_INPUT", t, n, typed'[t])
      BY <1>1, <2>1, <3>1, CarriedPassed
    <3>3. Queued(t, n)' = n
      BY <2>4, <3>1 DEF Queued
    <3>4. queue'[t] = queue[t]
      BY <1>1, <2>4, <2>5
    <3>5. ~(blocked' # None /\ blocked'.session = t)
      BY <2>4, <3>1
    <3>6. KeyLine(t, n)'
      BY <2>1, <2>2, <3>2, <3>3, <3>4, <3>5, KeyLineSame
    <3> QED BY <3>6
  <2>6. CASE s = t
    <3>1. /\ Head(wire).n = n + 1 /\ n + 1 <= typed[t]
          /\ Carried(wire', "EXEC_INPUT", t, n + 1, typed'[t])
      BY <1>1, <2>1, <2>6, CarriedTaken
    <3>2. n + 1 \in 0..typed'[t]
      BY <1>1, <2>1, <3>1
    <3>3. CASE blocked' = Head(wire) /\ queue' = queue
      <4>1. Queued(t, n + 1)' = n /\ blocked'.n = n + 1
        BY <2>1, <2>3, <2>6, <3>1, <3>3 DEF Queued, Is
      <4>2. Front(worker'[t], written'[t], stream'[t], n - Len(queue'[t])) /\ EndsAt(queue'[t], n)
        BY <2>1, <2>2, <3>3 DEF KeyLine, Front
      <4> QED BY <3>1, <3>2, <4>1, <4>2 DEF KeyLine
    <3>4. CASE blocked' = None /\ queue' = [queue EXCEPT ![s] = Append(@, Head(wire).n)]
      <4>1. Queued(t, n + 1)' = n + 1
        BY <3>4 DEF Queued
      <4>2. queue[t] \in Seq(Nat) /\ queue'[t] = Append(queue[t], n + 1)
        BY <1>1, <2>6, <3>1, <3>4
      <4>3. EndsAt(queue[t], (n + 1) - 1) /\ (n + 1) - 1 = n /\ n + 1 \in Nat
        BY <2>2 DEF KeyLine
      <4>4. EndsAt(queue'[t], n + 1) /\ (n + 1) - Len(queue'[t]) = n - Len(queue[t])
        BY <4>2, <4>3, EndsAtNext
      <4>5. Front(worker'[t], written'[t], stream'[t], n - Len(queue[t]))
        BY <2>1, <2>2 DEF KeyLine, Front
      <4>6. Queued(t, n + 1)' - Len(queue'[t]) = n - Len(queue[t])
        BY <4>1, <4>4
      <4>7. Front(worker'[t], written'[t], stream'[t], Queued(t, n + 1)' - Len(queue'[t]))
        BY <4>5, <4>6
      <4>8. EndsAt(queue'[t], Queued(t, n + 1)')
        BY <4>1, <4>4
      <4> QED BY <3>1, <3>2, <3>4, <4>7, <4>8 DEF KeyLine
    <3> QED BY <2>4, <3>3, <3>4
  <2> QED BY <2>5, <2>6
<1>4. ASSUME NEW s \in Sessions, LoopUnblocks(s)
      PROVE  KeyLine(t, n)'
  <2>1. /\ typed' = typed /\ worker' = worker /\ written' = written /\ stream' = stream
        /\ wire' = wire /\ blocked # None /\ blocked.session = s /\ blocked' = None
        /\ queue' = [queue EXCEPT ![s] = Append(@, blocked.n)]
    BY <1>4 DEF LoopUnblocks, session
  <2>2. Queued(t, n)' = n
    BY <2>1 DEF Queued
  <2>3. CASE s # t
    <3>1. Queued(t, n) = n /\ queue'[t] = queue[t]
      BY <1>1, <2>1, <2>3 DEF Queued
    <3> QED BY <1>1, <2>1, <2>2, <3>1, KeyLineSame
  <2>4. CASE s = t
    <3>1. Queued(t, n) = n - 1 /\ blocked.n = n
      BY <2>1, <2>4 DEF Queued, KeyLine
    <3>2. queue[t] \in Seq(Nat) /\ queue'[t] = Append(queue[t], n)
      BY <1>1, <2>1, <2>4, <3>1
    <3>3. EndsAt(queue[t], n - 1)
      BY <3>1 DEF KeyLine
    <3>4. EndsAt(queue'[t], n) /\ n - Len(queue'[t]) = (n - 1) - Len(queue[t])
      BY <3>2, <3>3, EndsAtNext
    <3>5. Front(worker'[t], written'[t], stream'[t], (n - 1) - Len(queue[t]))
      BY <2>1, <3>1 DEF KeyLine, Front
    <3>6. n \in 0..typed'[t] /\ Carried(wire', "EXEC_INPUT", t, n, typed'[t])
      BY <2>1 DEF KeyLine
    <3> QED BY <2>1, <2>2, <3>4, <3>5, <3>6 DEF KeyLine
  <2> QED BY <2>3, <2>4
<1> QED BY <1>2, <1>3, <1>4 DEF CommandLoop

\* The worker's steps: it takes the first key queued, and while the stream is
\* open it writes every key it has taken.
LEMMA KeyLineWorker ==
  ASSUME TypeOK, NEW t \in Sessions, NEW n \in Nat, KeyLine(t, n), Lived(t),
         NEW s \in Sessions, Worker(s)
  PROVE  KeyLine(t, n)'
<1>1. /\ typed' = typed /\ wire' = wire /\ blocked' = blocked /\ stream' = stream
  BY DEF Worker, WorkerTakes, WorkerLoads, WorkerGivesUp, WorkerWrites, WorkerWriteFails, session
<1>2. Queued(t, n)' = Queued(t, n)
  BY <1>1 DEF Queued
<1>3. /\ queue \in [Sessions -> Seq(Nat)] /\ written \in [Sessions -> Seq(Nat)]
      /\ worker \in [Sessions -> [at : {"idle", "loading", "writing"}, key : Nat]]
      /\ Queued(t, n) \in Int
  <2>1. Queued(t, n) \in {n - 1, n}
    BY DEF Queued
  <2>2. /\ queue \in [Sessions -> Seq(Nat)] /\ written \in [Sessions -> Seq(Nat)]
        /\ worker \in [Sessions -> [at : {"idle", "loading", "writing"}, key : Nat]]
    BY DEF TypeOK
  <2> QED BY <2>1, <2>2
<1>4. CASE s # t
  <2>1. queue'[t] = queue[t] /\ worker'[t] = worker[t] /\ written'[t] = written[t]
    <3>1. CASE WorkerTakes(s)
      BY <1>3, <1>4, <3>1 DEF WorkerTakes, session
    <3>2. CASE WorkerLoads(s)
      BY <1>3, <1>4, <3>2 DEF WorkerLoads, session
    <3>3. CASE WorkerGivesUp(s)
      BY <1>3, <1>4, <3>3 DEF WorkerGivesUp, session
    <3>4. CASE WorkerWrites(s)
      BY <1>3, <1>4, <3>4 DEF WorkerWrites
    <3>5. CASE WorkerWriteFails(s)
      BY <1>3, <1>4, <3>5 DEF WorkerWriteFails, session
    <3> QED BY <3>1, <3>2, <3>3, <3>4, <3>5 DEF Worker
  <2>2. Carried(wire', "EXEC_INPUT", t, n, typed'[t])
    BY <1>1 DEF KeyLine
  <2> QED BY <1>1, <1>2, <2>1, <2>2, KeyLineSame
<1>5. CASE WorkerTakes(t)
  <2>1. /\ queue[t] \in Seq(Nat) /\ queue[t] # <<>> /\ worker[t].at = "idle"
        /\ worker' = [worker EXCEPT ![t] = [at |-> "loading", key |-> Head(queue[t])]]
        /\ queue' = [queue EXCEPT ![t] = Tail(@)] /\ written' = written
    BY <1>3, <1>5 DEF WorkerTakes, session
  <2>2. /\ queue'[t] = Tail(queue[t]) /\ worker'[t].at = "loading"
        /\ worker'[t].key = Head(queue[t])
    BY <1>3, <2>1
  <2>3. /\ EndsAt(queue'[t], Queued(t, n))
        /\ worker'[t].key = Queued(t, n) - Len(queue'[t])
        /\ Queued(t, n) - Len(queue[t]) = Queued(t, n) - Len(queue'[t]) - 1
    <3>1. EndsAt(queue[t], Queued(t, n))
      BY DEF KeyLine
    <3> QED BY <1>3, <2>1, <2>2, <3>1, EndsAtTail
  <2>4. Len(queue[t]) \in Nat
    BY <2>1, LenProperties
  <2>5. stream[t] = "open" /\ written[t] # <<>> =>
          written[t][Len(written[t])] = Queued(t, n) - Len(queue'[t]) - 1
    <3>1. stream[t] = "open" /\ written[t] # <<>> =>
            written[t][Len(written[t])] = Queued(t, n) - Len(queue[t]) - 0
      BY <2>1 DEF KeyLine, Front
    <3> QED BY <1>3, <2>3, <2>4, <3>1
  <2>6. Front(worker'[t], written'[t], stream'[t], Queued(t, n) - Len(queue'[t]))
    BY <1>1, <2>1, <2>2, <2>3, <2>5 DEF KeyLine, Front
  <2> QED BY <1>1, <1>2, <2>3, <2>6 DEF KeyLine
<1>6. CASE WorkerLoads(t)
  <2>1. /\ worker'[t].at = "writing" /\ worker'[t].key = worker[t].key /\ worker[t].at = "loading"
        /\ queue' = queue /\ written' = written
    BY <1>3, <1>6 DEF WorkerLoads, session
  <2> QED BY <1>1, <1>2, <2>1 DEF KeyLine, Front
<1>7. CASE WorkerGivesUp(t) \/ WorkerWriteFails(t)
  <2>1. /\ worker'[t].at = "idle" /\ queue' = queue /\ written' = written
    BY <1>3, <1>7 DEF WorkerGivesUp, WorkerWriteFails, session, Idle
  <2>2. stream[t] # "open"
    BY <1>7 DEF WorkerGivesUp, WorkerWriteFails, Lived
  <2> QED BY <1>1, <1>2, <2>1, <2>2 DEF KeyLine, Front
<1>8. CASE WorkerWrites(t)
  <2>1. /\ worker'[t].at = "idle" /\ queue' = queue /\ worker[t].at = "writing"
        /\ stream[t] = "open"
        /\ written'[t] = Append(written[t], worker[t].key)
    BY <1>3, <1>8 DEF WorkerWrites, Idle
  <2>2. worker[t].key = Queued(t, n) - Len(queue[t]) /\ worker[t].key \in Nat
        /\ Len(queue[t]) \in Nat /\ written[t] \in Seq(Nat)
    BY <1>3, <2>1, LenProperties DEF KeyLine, Front
  <2>3. Gapless(written[t]) /\ (written[t] # <<>> => written[t][Len(written[t])] = worker[t].key - 1)
    BY <2>1, <2>2 DEF KeyLine, Front
  <2>4. Gapless(written'[t])
    BY <2>1, <2>2, <2>3, GaplessNext
  <2>5. written'[t][Len(written'[t])] = Queued(t, n) - Len(queue[t]) - 0
    BY <1>3, <2>1, <2>2, <2>3, GaplessNext
  <2> QED BY <1>1, <1>2, <2>1, <2>4, <2>5 DEF KeyLine, Front
<1> QED BY <1>4, <1>5, <1>6, <1>7, <1>8 DEF Worker

\* A session's other steps, of which its start alone opens a stream.
LEMMA KeyLineOther ==
  ASSUME TypeOK, NEW t \in Sessions, NEW n \in Nat, KeyLine(t, n), Lived(t), NEW s \in Sessions,
         Spawn(s) \/ Resizer(s) \/ Ender(s) \/ Shell(s) \/ Coalescer(s)
  PROVE  KeyLine(t, n)'
<1> DEFINE Same == /\ typed' = typed /\ wire' = wire /\ blocked' = blocked /\ queue' = queue
                   /\ worker' = worker /\ written' = written
           Opens == stream'[t] = "open" => stream[t] = "open" \/ written[t] = <<>>
<1>1. ASSUME Same, Opens PROVE KeyLine(t, n)'
  <2>1. Queued(t, n)' = Queued(t, n)
    BY <1>1 DEF Queued
  <2>2. Carried(wire', "EXEC_INPUT", t, n, typed'[t])
    BY <1>1 DEF KeyLine
  <2> QED BY <1>1, <2>1, <2>2, KeyLineSame
<1>2. stream \in [Sessions -> {"none", "open", "eof", "closed"}]
  BY DEF TypeOK
<1>3. CASE Spawn(s)
  <2>1. Same
    BY <1>3 DEF Spawn, SpawnSucceeds, SpawnFails, input
  <2>2. Opens
    <3>1. CASE SpawnFails(s)
      BY <3>1 DEF SpawnFails
    <3>2. CASE SpawnSucceeds(s) /\ s # t
      BY <1>2, <3>2 DEF SpawnSucceeds
    <3>3. CASE SpawnSucceeds(s) /\ s = t
      BY <3>3 DEF SpawnSucceeds, Lived
    <3> QED BY <1>3, <3>1, <3>2, <3>3 DEF Spawn
  <2> QED BY <1>1, <2>1, <2>2
<1>4. CASE Resizer(s)
  BY <1>1, <1>4 DEF Resizer, ResizeApplies, ResizeFails, ResizeGivesUp, session
<1>5. CASE Ender(s)
  <2>1. Same /\ (stream' = stream \/ stream' = [stream EXCEPT ![s] = "closed"])
    BY <1>5 DEF Ender, EndCloses, EndGivesUp, input
  <2>2. Opens
    BY <1>2, <2>1
  <2> QED BY <1>1, <2>1, <2>2
<1>6. CASE Shell(s)
  <2>1. Same /\ (stream' = stream \/ stream' = [stream EXCEPT ![s] = "eof"])
    BY <1>6 DEF Shell, ShellPrints, ShellHangs, ShellExits, input, session
  <2>2. Opens
    BY <1>2, <2>1
  <2> QED BY <1>1, <2>1, <2>2
<1>7. CASE Coalescer(s)
  <2>1. Same /\ (stream' = stream \/ stream' = [stream EXCEPT ![s] = "closed"])
    BY <1>7 DEF Coalescer, ReaderStops, CoalescerTakes, CoalescerFlushes, CoalescerDrained,
                CoalescerCancelled, Cleanup, input, session
  <2>2. Opens
    BY <1>2, <2>1
  <2> QED BY <1>1, <2>1, <2>2
<1> QED BY <1>3, <1>4, <1>5, <1>6, <1>7

\* An empty sequence carries nothing.
LEMMA CarriedNone ==
  ASSUME NEW type, NEW s
  PROVE  Carried(<<>>, type, s, 0, 0)
<1>1. 1..Len(<<>>) = {} /\ (0 + 1)..0 = {}
  BY EmptySeq
<1> QED BY <1>1 DEF Carried

LEMMA KeyLinesInit == Init => KeyLines
<1> SUFFICES ASSUME Init, NEW s \in Sessions PROVE KeyLine(s, 0)
  BY DEF KeyLines
<1>1. /\ typed[s] = 0 /\ wire = <<>> /\ blocked = None /\ queue[s] = <<>> /\ worker[s] = Idle
      /\ written[s] = <<>>
  BY DEF Init
<1>2. 1..Len(<<>>) = {}
  BY EmptySeq
<1>3. EndsAt(queue[s], Queued(s, 0)) /\ Gapless(written[s])
  BY <1>1, <1>2 DEF EndsAt, Gapless
<1> QED BY <1>1, <1>3, CarriedNone DEF KeyLine, Front, Idle

LEMMA KeyLinesStep ==
  ASSUME TypeOK, Living, KeyLines, [Next]_vars
  PROVE  KeyLines'
<1> SUFFICES ASSUME NEW t \in Sessions PROVE \E m \in Nat : KeyLine(t, m)'
  BY DEF KeyLines
<1>1. PICK n \in Nat : KeyLine(t, n)
  BY DEF KeyLines
<1>2. Lived(t)
  BY DEF Living
<1>3. CASE UNCHANGED vars
  <2>1. KeyLine(t, n)'
    BY <1>1, <1>3 DEF vars, input, session, KeyLine, Front, Queued
  <2> QED BY <2>1
<1>4. CASE CommandLoop
  BY <1>1, <1>4, KeyLineLoop
<1>5. ASSUME NEW s \in Sessions, Tab(s) PROVE KeyLine(t, n)'
  BY <1>1, <1>5, KeyLineTab
<1>6. ASSUME NEW s \in Sessions, Worker(s) PROVE KeyLine(t, n)'
  BY <1>1, <1>2, <1>6, KeyLineWorker
<1>7. ASSUME NEW s \in Sessions, Spawn(s) \/ Resizer(s) \/ Ender(s) \/ Shell(s) \/ Coalescer(s)
      PROVE  KeyLine(t, n)'
  BY <1>1, <1>2, <1>7, KeyLineOther
<1> QED BY <1>3, <1>4, <1>5, <1>6, <1>7 DEF Next

\* A shell gets keystrokes in the order they were typed and without a gap, through
\* a full queue, a slow start and the end of its session.
THEOREM KeysInOrder == Spec => []KeysHaveNoGap
<1>1. Init => TypeOK /\ Living /\ KeyLines
  BY TypeInit, LivingInit, KeyLinesInit
<1>2. (TypeOK /\ Living /\ KeyLines) /\ [Next]_vars => (TypeOK /\ Living /\ KeyLines)'
  BY TypeStep, LivingStep, KeyLinesStep
<1>3. KeyLines => KeysHaveNoGap
  BY DEF KeyLines, KeyLine, Front, Gapless, KeysHaveNoGap
<1> QED BY <1>1, <1>2, <1>3, PTL DEF Spec

-----------------------------------------------------------------------------
\* Sizes.

\* The loop has taken the resizes of s up to m.  Each one after the size in force is
\* under way or lapsed, and each one after a resize under way has overlapped it.
Sized(s, m) ==
  /\ m \in 0..asked[s]
  /\ Carried(wire, "EXEC_RESIZE", s, m, asked[s])
  /\ resizers[s] \subseteq 1..m
  /\ ~pod[s] => \A n \in (size[s] + 1)..m : n \in resizers[s] \cup lapsed[s]
  /\ \A n \in resizers[s] : \A k \in (n + 1)..m : k \in lapsed[s]

Sizes == \A s \in Sessions : \E m \in Nat : Sized(s, m)

\* The loop takes the next resize.
LEMMA SizedLoopResize ==
  ASSUME TypeOK, NEW t \in Sessions, NEW m \in Nat, Sized(t, m), NEW s \in Sessions, LoopResize(s)
  PROVE  \E k \in Nat : Sized(t, k)'
<1>1. wire \in Seq(Messages) /\ asked[t] \in Nat /\ m <= asked[t]
      /\ Carried(wire, "EXEC_RESIZE", t, m, asked[t])
      /\ resizers \in [Sessions -> SUBSET Nat] /\ lapsed \in [Sessions -> SUBSET Nat]
      /\ size[t] \in Nat
  <2>1. /\ wire \in Seq(Messages) /\ asked[t] \in Nat /\ size[t] \in Nat
        /\ resizers \in [Sessions -> SUBSET Nat] /\ lapsed \in [Sessions -> SUBSET Nat]
    BY DEF TypeOK
  <2>2. m \in 0..asked[t] /\ Carried(wire, "EXEC_RESIZE", t, m, asked[t])
    BY DEF Sized
  <2> QED BY <2>1, <2>2
<1>2. /\ asked' = asked /\ size' = size /\ pod' = pod
      /\ wire # <<>> /\ wire' = Tail(wire) /\ Is(Head(wire), "EXEC_RESIZE", s)
      /\ resizers' = [resizers EXCEPT ![s] = @ \cup {Head(wire).n}]
      /\ lapsed' = [lapsed EXCEPT ![s] = IF resizers[s] = {} THEN @ ELSE @ \cup resizers'[s]]
  BY DEF LoopResize, Takes, session, Is
<1>3. CASE s = t
  <2>1. /\ Head(wire).n = m + 1 /\ m + 1 <= asked[t]
        /\ Carried(wire', "EXEC_RESIZE", t, m + 1, asked'[t])
    BY <1>1, <1>2, <1>3, CarriedTaken
  <2>2. /\ resizers'[t] = resizers[t] \cup {m + 1} /\ lapsed[t] \subseteq lapsed'[t]
        /\ resizers[t] # {} => m + 1 \in lapsed'[t]
    BY <1>1, <1>2, <1>3, <2>1
  <2>3. m + 1 \in 0..asked'[t]
    BY <1>1, <1>2, <2>1
  <2>4. /\ resizers[t] \subseteq 1..m
        /\ ~pod[t] => \A n \in (size[t] + 1)..m : n \in resizers[t] \cup lapsed[t]
        /\ \A n \in resizers[t] : \A k \in (n + 1)..m : k \in lapsed[t]
    BY DEF Sized
  <2>5. resizers'[t] \subseteq 1..(m + 1)
    BY <2>2, <2>4
  <2>6. ASSUME ~pod'[t], NEW n \in (size'[t] + 1)..(m + 1) PROVE n \in resizers'[t] \cup lapsed'[t]
    <3>1. n = m + 1 \/ n \in (size[t] + 1)..m
      BY <1>1, <1>2, <2>6
    <3> QED BY <1>2, <2>2, <2>4, <2>6, <3>1
  <2>7. ASSUME NEW n \in resizers'[t], NEW k \in (n + 1)..(m + 1) PROVE k \in lapsed'[t]
    <3>1. n \in resizers[t] /\ n \in 1..m
      BY <2>2, <2>4, <2>7
    <3>2. k = m + 1 \/ k \in (n + 1)..m
      BY <2>7, <3>1
    <3> QED BY <2>2, <2>4, <3>1, <3>2
  <2> QED BY <2>1, <2>3, <2>5, <2>6, <2>7 DEF Sized
<1>4. CASE s # t
  <2>1. ~Is(Head(wire), "EXEC_RESIZE", t)
    BY <1>2, <1>4 DEF Is
  <2>2. Carried(wire', "EXEC_RESIZE", t, m, asked'[t])
    BY <1>1, <1>2, <2>1, CarriedPassed
  <2>3. resizers'[t] = resizers[t] /\ lapsed'[t] = lapsed[t]
    BY <1>1, <1>2, <1>4
  <2>4. Sized(t, m)'
    BY <1>2, <2>2, <2>3 DEF Sized
  <2> QED BY <2>4
<1> QED BY <1>3, <1>4

\* A resize runs, fails or gives up.
LEMMA SizedResizer ==
  ASSUME TypeOK, NEW t \in Sessions, NEW m \in Nat, Sized(t, m), NEW s \in Sessions, Resizer(s)
  PROVE  Sized(t, m)'
<1>1. /\ resizers \in [Sessions -> SUBSET Nat] /\ lapsed \in [Sessions -> SUBSET Nat]
      /\ size \in [Sessions -> Nat]
  BY DEF TypeOK
<1>2. wire' = wire /\ asked' = asked /\ pod' = pod
  BY DEF Resizer, ResizeApplies, ResizeFails, ResizeGivesUp, session
<1>3. PICK k \in resizers[s] :
        ResizeApplies(s, k) \/ ResizeFails(s, k) \/ ResizeGivesUp(s, k)
  BY DEF Resizer
<1>4. CASE s # t
  <2>1. resizers'[t] = resizers[t] /\ lapsed'[t] = lapsed[t] /\ size'[t] = size[t]
    <3>1. CASE ResizeApplies(s, k)
      BY <1>1, <1>4, <3>1 DEF ResizeApplies
    <3>2. CASE ResizeFails(s, k) \/ ResizeGivesUp(s, k)
      BY <1>1, <1>4, <3>2 DEF ResizeFails, ResizeGivesUp, session
    <3> QED BY <1>3, <3>1, <3>2
  <2> QED BY <1>2, <2>1 DEF Sized
<1>5. CASE s = t /\ ResizeApplies(t, k)
  <2>1. /\ resizers'[t] = resizers[t] \ {k} /\ lapsed' = lapsed
        /\ (~pod[t] => size'[t] = k)
    BY <1>1, <1>5 DEF ResizeApplies
  <2>2. \A n \in (k + 1)..m : n \in lapsed[t]
    BY <1>3, <1>5 DEF Sized
  <2> QED BY <1>2, <2>1, <2>2 DEF Sized
<1>6. CASE s = t /\ (ResizeFails(t, k) \/ ResizeGivesUp(t, k))
  <2>1. resizers'[t] = resizers[t] \ {k} /\ lapsed'[t] = lapsed[t] \cup {k} /\ size' = size
    BY <1>1, <1>6 DEF ResizeFails, ResizeGivesUp, session
  <2> QED BY <1>2, <2>1 DEF Sized
<1> QED BY <1>3, <1>4, <1>5, <1>6

\* The other steps move no size, and at most append a resize to the wire.
LEMMA SizedOther ==
  ASSUME TypeOK, NEW t \in Sessions, NEW m \in Nat, Sized(t, m), [Next]_vars,
         \A s \in Sessions : ~LoopResize(s) /\ ~Resizer(s)
  PROVE  Sized(t, m)'
<1> DEFINE Still == pod' = pod /\ resizers' = resizers /\ lapsed' = lapsed /\ size' = size
<1>1. wire \in Seq(Messages) /\ asked \in [Sessions -> Nat] /\ asked[t] \in Nat /\ m <= asked[t]
      /\ Carried(wire, "EXEC_RESIZE", t, m, asked[t])
  BY DEF TypeOK, Sized
<1>2. ASSUME Still, asked' = asked, Carried(wire', "EXEC_RESIZE", t, m, asked[t])
      PROVE  Sized(t, m)'
  BY <1>2 DEF Sized
<1>3. ASSUME NEW s \in Sessions, Tab(s) PROVE Sized(t, m)'
  <2>1. Still
    BY <1>3 DEF Tab, OpenTab, TypeKey, ResizeTab, CloseTab, session
  <2>2. CASE ResizeTab(s)
    <3>1. /\ asked'[s] \in Nat /\ asked'[t] = IF s = t THEN asked[t] + 1 ELSE asked[t]
          /\ wire' = Append(wire, Message("EXEC_RESIZE", s, asked'[s]))
      BY <2>2, NextResize
    <3> DEFINE x == Message("EXEC_RESIZE", s, asked'[s])
    <3>2. x \in Messages /\ x.type = "EXEC_RESIZE" /\ x.session = s /\ x.n = asked'[s]
          /\ wire' = Append(wire, x)
      BY <3>1, MessageType
    <3> HIDE DEF x
    <3>3. Carried(wire', "EXEC_RESIZE", t, m, asked'[t])
      <4>1. CASE s = t
        <5>1. Is(x, "EXEC_RESIZE", t) /\ x.n = asked[t] + 1
          BY <3>1, <3>2, <4>1 DEF Is
        <5> QED BY <1>1, <3>1, <3>2, <4>1, <5>1, CarriedNext
      <4>2. CASE s # t
        <5>1. ~Is(x, "EXEC_RESIZE", t)
          BY <3>2, <4>2 DEF Is
        <5> QED BY <1>1, <3>1, <3>2, <4>2, <5>1, CarriedOther
      <4> QED BY <4>1, <4>2
    <3>4. m \in 0..asked'[t]
      BY <1>1, <3>1
    <3> QED BY <2>1, <3>3, <3>4 DEF Sized
  <2>3. ASSUME NEW type \in {"EXEC_START", "EXEC_INPUT", "EXEC_END"}, NEW k \in Nat,
               wire' = Append(wire, Message(type, s, k)), asked' = asked
        PROVE  Sized(t, m)'
    <3>1. Message(type, s, k) \in Messages /\ ~Is(Message(type, s, k), "EXEC_RESIZE", t)
      BY <2>3, MessageType DEF Is
    <3>2. Carried(wire', "EXEC_RESIZE", t, m, asked[t])
      BY <1>1, <2>3, <3>1, CarriedOther
    <3> QED BY <1>2, <2>1, <2>3, <3>2
  <2>4. CASE OpenTab(s)
    <3>1. wire' = Append(wire, Message("EXEC_START", s, 0)) /\ asked' = asked
      BY <2>4 DEF OpenTab
    <3> QED BY <2>3, <3>1
  <2>5. CASE TypeKey(s)
    <3>1. asked' = asked
      BY <2>5 DEF TypeKey
    <3> QED BY <2>3, <2>5, <3>1, NextKey
  <2>6. CASE CloseTab(s)
    <3>1. asked' = asked /\ (wire' = wire \/ wire' = Append(wire, Message("EXEC_END", s, 0)))
      BY <2>6 DEF CloseTab
    <3>2. CASE wire' = wire
      BY <1>1, <1>2, <2>1, <3>1, <3>2
    <3> QED BY <2>3, <3>1, <3>2
  <2> QED BY <1>3, <2>2, <2>4, <2>5, <2>6 DEF Tab
<1>4. ASSUME NEW s \in Sessions, LoopStart(s) \/ LoopInput(s) \/ LoopEnd(s)
      PROVE  Sized(t, m)'
  <2>1. /\ Still /\ asked' = asked
        /\ wire # <<>> /\ wire' = Tail(wire) /\ Head(wire).type # "EXEC_RESIZE"
    BY <1>4 DEF LoopStart, LoopInput, LoopEnd, Takes, session
  <2>2. ~Is(Head(wire), "EXEC_RESIZE", t)
    BY <2>1 DEF Is
  <2>3. Carried(wire', "EXEC_RESIZE", t, m, asked[t])
    BY <1>1, <2>1, <2>2, CarriedPassed
  <2> QED BY <1>2, <2>1, <2>3
<1>5. CASE Still /\ asked' = asked /\ wire' = wire
  BY <1>1, <1>2, <1>5
<1>6. ASSUME NEW s \in Sessions, LoopUnblocks(s) PROVE Still /\ asked' = asked /\ wire' = wire
  BY <1>6 DEF LoopUnblocks, session
<1>7. ASSUME NEW s \in Sessions, Spawn(s) \/ Worker(s) \/ Ender(s) \/ Shell(s) \/ Coalescer(s)
      PROVE  Still /\ asked' = asked /\ wire' = wire
  <2>1. CASE Spawn(s)
    BY <2>1 DEF Spawn, SpawnSucceeds, SpawnFails, input
  <2>2. CASE Worker(s)
    BY <2>2 DEF Worker, WorkerTakes, WorkerLoads, WorkerGivesUp, WorkerWrites, WorkerWriteFails,
                session
  <2>3. CASE Ender(s)
    BY <2>3 DEF Ender, EndCloses, EndGivesUp, input
  <2>4. CASE Shell(s)
    BY <2>4 DEF Shell, ShellPrints, ShellHangs, ShellExits, input, session
  <2>5. CASE Coalescer(s)
    BY <2>5 DEF Coalescer, ReaderStops, CoalescerTakes, CoalescerFlushes, CoalescerDrained,
                CoalescerCancelled, Cleanup, input, session
  <2> QED BY <1>7, <2>1, <2>2, <2>3, <2>4, <2>5
<1>8. CASE UNCHANGED vars
  BY <1>5, <1>8 DEF vars, input, session
<1> HIDE DEF Still
<1>9. CASE CommandLoop
  BY <1>4, <1>5, <1>6, <1>9 DEF CommandLoop
<1> QED BY <1>3, <1>5, <1>7, <1>8, <1>9 DEF Next

LEMMA SizesStep ==
  ASSUME TypeOK, Sizes, [Next]_vars
  PROVE  Sizes'
<1> SUFFICES ASSUME NEW t \in Sessions PROVE \E k \in Nat : Sized(t, k)'
  BY DEF Sizes
<1>1. PICK m \in Nat : Sized(t, m)
  BY DEF Sizes
<1>2. ASSUME NEW s \in Sessions, LoopResize(s) PROVE \E k \in Nat : Sized(t, k)'
  BY <1>1, <1>2, SizedLoopResize
<1>3. ASSUME NEW s \in Sessions, Resizer(s) PROVE Sized(t, m)'
  BY <1>1, <1>3, SizedResizer
<1>4. ASSUME \A s \in Sessions : ~LoopResize(s) /\ ~Resizer(s) PROVE Sized(t, m)'
  BY <1>1, <1>4, SizedOther
<1> QED BY <1>2, <1>3, <1>4

LEMMA SizesInit == Init => Sizes
<1> SUFFICES ASSUME Init, NEW s \in Sessions PROVE Sized(s, 0)
  BY DEF Sizes
<1>1. asked[s] = 0 /\ wire = <<>> /\ resizers[s] = {} /\ size[s] = 0
  BY DEF Init
<1> QED BY <1>1, CarriedNone DEF Sized

\* Each size a tab asked for after the one in force is still on its way or under
\* way, or its resize overlapped another's, failed or timed out: a resize that ran
\* alone and succeeded is in force until a later one is.
THEOREM LastSizeInForce == Spec => []SizeSettles
<1>1. Init => TypeOK /\ Sizes
  BY TypeInit, SizesInit
<1>2. (TypeOK /\ Sizes) /\ [Next]_vars => (TypeOK /\ Sizes)'
  BY TypeStep, SizesStep
<1>3. TypeOK /\ Sizes => SizeSettles
  <2> SUFFICES ASSUME TypeOK, Sizes, NEW s \in Sessions, ~pod[s],
                      NEW n \in (size[s] + 1)..asked[s], n \notin resizers[s] \cup lapsed[s]
               PROVE  \E i \in 1..Len(wire) : wire[i] = Message("EXEC_RESIZE", s, n)
    BY DEF SizeSettles
  <2>1. PICK m \in Nat : Sized(s, m)
    BY DEF Sizes
  <2>2. size[s] \in Nat /\ asked[s] \in Nat /\ wire \in Seq(Messages)
    BY DEF TypeOK
  <2>3. n \notin (size[s] + 1)..m
    BY <2>1 DEF Sized
  <2>4. n \in (m + 1)..asked[s]
    BY <2>2, <2>3
  <2>5. PICK i \in 1..Len(wire) : Is(wire[i], "EXEC_RESIZE", s) /\ wire[i].n = n
    BY <2>1, <2>4 DEF Sized, Carried
  <2>6. wire[i] = Message("EXEC_RESIZE", s, n)
    <3>1. wire[i] \in Messages
      BY <2>2
    <3> QED BY <2>5, <3>1 DEF Messages, Message, Is
  <2> QED BY <2>6
<1> QED BY <1>1, <1>2, <1>3, PTL DEF Spec

-----------------------------------------------------------------------------
\* Output.

\* The next number is appended.
LEMMA UpToNext ==
  ASSUME NEW n \in Nat
  PROVE  UpTo(n) \in Seq(Nat) /\ UpTo(n + 1) = Append(UpTo(n), n + 1)
<1>1. ASSUME NEW k \in Nat
      PROVE  UpTo(k) \in Seq(Nat) /\ Len(UpTo(k)) = k /\ \A i \in 1..k : UpTo(k)[i] = i
  <2>1. UpTo(k) \in [1..k -> Nat]
    BY DEF UpTo
  <2>2. UpTo(k) \in Seq(Nat)
    BY <2>1, SeqDef
  <2>3. Len(UpTo(k)) = k
    BY <2>2, LenProperties DEF UpTo
  <2> QED BY <2>2, <2>3 DEF UpTo
<1>2. /\ UpTo(n) \in Seq(Nat) /\ UpTo(n + 1) \in Seq(Nat) /\ n + 1 \in Nat
      /\ Len(UpTo(n)) = n /\ Len(UpTo(n + 1)) = n + 1
      /\ \A i \in 1..n : UpTo(n)[i] = i
      /\ \A i \in 1..(n + 1) : UpTo(n + 1)[i] = i
  BY <1>1
<1> DEFINE r == Append(UpTo(n), n + 1)
<1>3. /\ r \in Seq(Nat) /\ Len(r) = n + 1 /\ r[n + 1] = n + 1
      /\ \A i \in 1..n : r[i] = UpTo(n)[i]
  BY <1>2, AppendProperties
<1> HIDE DEF r
<1>4. \A i \in 1..(n + 1) : r[i] = UpTo(n + 1)[i]
  BY <1>2, <1>3
<1>5. r = UpTo(n + 1)
  BY <1>2, <1>3, <1>4, SeqEqual
<1> QED BY <1>2, <1>5 DEF r

\* What was printed is what was sent, what the coalescer holds and what waits in
\* its channel; at the end nothing is left, and EXEC_END is sent last.
Flowing(s) ==
  /\ ~cancelled[s] => (sent[s] \o pending[s]) \o chunks[s] = UpTo(printed[s])
  /\ ~cancelled[s] /\ coalescer[s] \in {"cleanup", "done"} =>
       readerDone[s] /\ chunks[s] = <<>> /\ pending[s] = <<>>
  /\ ended[s] => coalescer[s] = "done"

\* The steps that touch no output of t.
LEMMA FlowingSame ==
  ASSUME NEW t \in Sessions, Flowing(t), cancelled'[t] = cancelled[t] \/ cancelled'[t],
         sent'[t] = sent[t], pending'[t] = pending[t], chunks'[t] = chunks[t],
         printed'[t] = printed[t], coalescer'[t] = coalescer[t], readerDone'[t] = readerDone[t],
         ended'[t] = ended[t]
  PROVE  Flowing(t)'
BY DEF Flowing

\* The steps of a session's shell and coalescer.
LEMMA FlowingOutput ==
  ASSUME TypeOK, NEW t \in Sessions, Flowing(t), Lived(t), Shell(t) \/ Coalescer(t)
  PROVE  Flowing(t)'
<1>1. /\ sent \in [Sessions -> Seq(Nat)] /\ pending \in [Sessions -> Seq(Nat)]
      /\ chunks \in [Sessions -> Seq(Nat)] /\ printed \in [Sessions -> Nat]
      /\ sent[t] \in Seq(Nat) /\ pending[t] \in Seq(Nat) /\ chunks[t] \in Seq(Nat)
      /\ printed[t] \in Nat /\ sent[t] \o pending[t] \in Seq(Nat)
  BY ConcatProperties DEF TypeOK
<1>2. /\ coalescer \in [Sessions -> {"idle", "running", "cleanup", "done"}]
      /\ readerDone \in [Sessions -> BOOLEAN] /\ ended \in [Sessions -> BOOLEAN]
  BY DEF TypeOK
<1>3. CASE ShellPrints(t)
  <2>1. /\ stream[t] = "open" /\ cancelled' = cancelled /\ sent' = sent /\ pending' = pending
        /\ coalescer' = coalescer /\ readerDone' = readerDone /\ ended' = ended
        /\ printed' = [printed EXCEPT ![t] = @ + 1]
        /\ chunks' = [chunks EXCEPT ![t] = Append(@, printed'[t])]
    BY <1>3 DEF ShellPrints, session
  <2>2. printed'[t] = printed[t] + 1
    BY <1>1, <2>1
  <2>3. chunks'[t] = Append(chunks[t], printed[t] + 1)
    BY <1>1, <2>1, <2>2
  <2>4. ~readerDone[t]
    BY <2>1 DEF Lived
  <2>5. ~cancelled[t] => (sent[t] \o pending[t]) \o chunks'[t] = UpTo(printed'[t])
    <3>1. printed[t] + 1 \in Nat
      BY <1>1
    <3>2. (sent[t] \o pending[t]) \o chunks'[t]
            = Append((sent[t] \o pending[t]) \o chunks[t], printed[t] + 1)
      BY <1>1, <2>3, <3>1, AppendToConcat
    <3>3. ~cancelled[t] => (sent[t] \o pending[t]) \o chunks[t] = UpTo(printed[t])
      BY DEF Flowing
    <3>4. UpTo(printed[t] + 1) = Append(UpTo(printed[t]), printed[t] + 1)
      BY <1>1, UpToNext
    <3> QED BY <2>2, <3>2, <3>3, <3>4
  <2> QED BY <2>1, <2>4, <2>5 DEF Flowing
<1>4. CASE ShellHangs(t) \/ ShellExits(t)
  <2>1. /\ cancelled' = cancelled /\ sent' = sent /\ pending' = pending /\ chunks' = chunks
        /\ printed' = printed /\ coalescer' = coalescer /\ readerDone' = readerDone
        /\ ended' = ended
    BY <1>4 DEF ShellHangs, ShellExits, output
  <2> QED BY <2>1, FlowingSame
<1>5. CASE ReaderStops(t)
  <2>1. /\ cancelled' = cancelled /\ sent' = sent /\ pending' = pending /\ chunks' = chunks
        /\ printed' = printed /\ coalescer' = coalescer /\ ended' = ended
        /\ readerDone'[t]
    BY <1>2, <1>5 DEF ReaderStops, session
  <2> QED BY <2>1 DEF Flowing
<1>6. CASE CoalescerTakes(t)
  <2> DEFINE held == Append(pending[t], Head(chunks[t]))
  <2>1. /\ cancelled' = cancelled /\ printed' = printed /\ coalescer' = coalescer
        /\ readerDone' = readerDone /\ ended' = ended
        /\ coalescer[t] = "running" /\ chunks[t] # <<>>
        /\ chunks' = [chunks EXCEPT ![t] = Tail(@)]
        /\ \/ /\ sent' = [sent EXCEPT ![t] = @ \o held]
              /\ pending' = [pending EXCEPT ![t] = <<>>]
           \/ sent' = sent /\ pending' = [pending EXCEPT ![t] = held]
    BY <1>6 DEF CoalescerTakes, session
  <2>2. /\ chunks'[t] = Tail(chunks[t])
        /\ \/ sent'[t] = sent[t] \o held /\ pending'[t] = <<>>
           \/ sent'[t] = sent[t] /\ pending'[t] = held
    BY <1>1, <2>1
  <2>3. held \in Seq(Nat) /\ sent[t] \o held \in Seq(Nat) /\ Tail(chunks[t]) \in Seq(Nat)
    BY <1>1, <2>1, HeadTailProperties, AppendProperties, ConcatProperties
  <2>4. (sent[t] \o held) \o Tail(chunks[t]) = (sent[t] \o pending[t]) \o chunks[t]
    <3>1. /\ sent[t] \in Seq(Nat) /\ pending[t] \in Seq(Nat) /\ chunks[t] \in Seq(Nat)
          /\ chunks[t] # <<>>
      BY <1>1, <2>1
    <3>2. /\ Head(chunks[t]) \in Nat /\ Tail(chunks[t]) \in Seq(Nat)
          /\ sent[t] \o pending[t] \in Seq(Nat)
      BY <3>1, HeadTailProperties, ConcatProperties
    <3>3. sent[t] \o held = (sent[t] \o pending[t]) \o <<Head(chunks[t])>>
      <4> DEFINE e == Head(chunks[t])
                 both == sent[t] \o pending[t]
      <4>1. e \in Nat /\ both \in Seq(Nat) /\ held = Append(pending[t], e)
        BY <3>2
      <4> HIDE DEF e, held
      <4>2. sent[t] \o Append(pending[t], e) = Append(both, e)
        <5>1. sent[t] \in Seq(Nat) /\ pending[t] \in Seq(Nat) /\ e \in Nat
          BY <3>1, <4>1
        <5>2. \A a, b \in Seq(Nat) : \A x \in Nat : a \o Append(b, x) = Append(a \o b, x)
          BY AppendToConcat
        <5> QED BY <5>1, <5>2, Zenon
      <4> HIDE DEF both
      <4>3. Append(both, e) = both \o <<e>>
        BY <4>1, AppendIsConcat
      <4> QED BY <4>1, <4>2, <4>3 DEF both, e
    <3>4. (sent[t] \o pending[t]) \o chunks[t]
            = ((sent[t] \o pending[t]) \o <<Head(chunks[t])>>) \o Tail(chunks[t])
      BY <3>1, <3>2, ConcatShift
    <3> QED BY <3>3, <3>4
  <2> HIDE DEF held
  <2>5. (sent'[t] \o pending'[t]) \o chunks'[t] = (sent[t] \o pending[t]) \o chunks[t]
    <3>1. (sent[t] \o held) \o <<>> = sent[t] \o held
      BY <2>3, ConcatEmptySeq
    <3> QED BY <2>2, <2>4, <3>1
  <2> QED BY <2>1, <2>5 DEF Flowing
<1>7. CASE CoalescerFlushes(t) \/ CoalescerDrained(t)
  <2>1. /\ cancelled' = cancelled /\ printed' = printed /\ chunks' = chunks
        /\ readerDone' = readerDone /\ ended' = ended /\ coalescer[t] = "running"
        /\ sent' = [sent EXCEPT ![t] = @ \o pending[t]]
        /\ pending' = [pending EXCEPT ![t] = <<>>]
    BY <1>7 DEF CoalescerFlushes, CoalescerDrained, session
  <2>2. sent'[t] = sent[t] \o pending[t] /\ pending'[t] = <<>>
    BY <1>1, <2>1
  <2>3. (sent'[t] \o pending'[t]) \o chunks'[t] = (sent[t] \o pending[t]) \o chunks[t]
    BY <1>1, <2>1, <2>2, ConcatMiddle
  <2>4. \/ coalescer'[t] = "running"
        \/ coalescer'[t] = "cleanup" /\ chunks[t] = <<>> /\ readerDone[t]
    BY <1>2, <1>7, <2>1 DEF CoalescerFlushes, CoalescerDrained
  <2> QED BY <2>1, <2>2, <2>3, <2>4 DEF Flowing
<1>8. CASE CoalescerCancelled(t)
  <2>1. cancelled'[t] /\ ended' = ended /\ coalescer[t] = "running"
    BY <1>8 DEF CoalescerCancelled, session
  <2> QED BY <2>1 DEF Flowing
<1>9. CASE Cleanup(t)
  <2>1. /\ cancelled' = cancelled /\ sent' = sent /\ pending' = pending /\ chunks' = chunks
        /\ printed' = printed /\ readerDone' = readerDone
        /\ coalescer[t] = "cleanup" /\ coalescer'[t] = "done"
    BY <1>2, <1>9 DEF Cleanup
  <2> QED BY <2>1 DEF Flowing
<1> QED BY <1>3, <1>4, <1>5, <1>6, <1>7, <1>8, <1>9 DEF Shell, Coalescer

\* Every step.
LEMMA FlowingStep ==
  ASSUME TypeOK, NEW t \in Sessions, Flowing(t), Lived(t), [Next]_vars
  PROVE  Flowing(t)'
<1> DEFINE Still == cancelled' = cancelled /\ UNCHANGED output
<1>1. CASE Still
  BY <1>1, FlowingSame DEF output
<1>2. CASE UNCHANGED vars
  BY <1>1, <1>2 DEF vars, session
<1>3. ASSUME NEW s \in Sessions, Tab(s) PROVE Still
  BY <1>3 DEF Tab, OpenTab, TypeKey, ResizeTab, CloseTab, session
<1>4. CASE CommandLoop
  BY <1>1, <1>4 DEF CommandLoop, LoopStart, LoopInput, LoopUnblocks, LoopResize, LoopEnd, session
<1>5. ASSUME NEW s \in Sessions, Worker(s) \/ Resizer(s) PROVE Still
  BY <1>5 DEF Worker, WorkerTakes, WorkerLoads, WorkerGivesUp, WorkerWrites, WorkerWriteFails,
              Resizer, ResizeApplies, ResizeFails, ResizeGivesUp, session
<1>6. ASSUME NEW s \in Sessions, SpawnFails(s) \/ Ender(s) PROVE Flowing(t)'
  <2>1. /\ UNCHANGED output
        /\ cancelled' = cancelled \/ cancelled' = [cancelled EXCEPT ![s] = TRUE]
    BY <1>6 DEF SpawnFails, Ender, EndCloses, EndGivesUp
  <2>2. cancelled'[t] = cancelled[t] \/ cancelled'[t]
    BY <2>1 DEF TypeOK
  <2> QED BY <2>1, <2>2, FlowingSame DEF output
<1>7. ASSUME NEW s \in Sessions, SpawnSucceeds(s) PROVE Flowing(t)'
  <2>1. /\ cancelled' = cancelled /\ sent' = sent /\ pending' = pending /\ chunks' = chunks
        /\ printed' = printed /\ readerDone' = readerDone /\ ended' = ended
        /\ starter[s] = "spawning" /\ coalescer' = [coalescer EXCEPT ![s] = "running"]
    BY <1>7 DEF SpawnSucceeds
  <2>2. coalescer'[t] = IF s = t THEN "running" ELSE coalescer[t]
    BY <2>1 DEF TypeOK
  <2>3. CASE s = t
    <3>1. coalescer'[t] = "running" /\ ~ended[t]
      BY <2>1, <2>2, <2>3 DEF Lived
    <3> QED BY <2>1, <3>1 DEF Flowing
  <2>4. CASE s # t
    <3>1. coalescer'[t] = coalescer[t]
      BY <2>2, <2>4
    <3> QED BY <2>1, <3>1, FlowingSame
  <2> QED BY <2>3, <2>4
<1>8. ASSUME NEW s \in Sessions, s # t, Shell(s) \/ Coalescer(s) PROVE Flowing(t)'
  <2>1. /\ cancelled' = cancelled
        /\ sent'[t] = sent[t] /\ pending'[t] = pending[t] /\ chunks'[t] = chunks[t]
        /\ printed'[t] = printed[t] /\ coalescer'[t] = coalescer[t]
        /\ readerDone'[t] = readerDone[t] /\ ended'[t] = ended[t]
    <3>1. CASE Shell(s)
      <4>1. CASE ShellPrints(s)
        BY <1>8, <4>1 DEF TypeOK, ShellPrints, session
      <4>2. CASE ShellHangs(s) \/ ShellExits(s)
        BY <4>2 DEF ShellHangs, ShellExits, output
      <4> QED BY <3>1, <4>1, <4>2 DEF Shell
    <3>2. CASE ReaderStops(s)
      BY <1>8, <3>2 DEF TypeOK, ReaderStops, session
    <3>3. CASE CoalescerTakes(s)
      BY <1>8, <3>3 DEF TypeOK, CoalescerTakes, session
    <3>4. CASE CoalescerFlushes(s)
      BY <1>8, <3>4 DEF TypeOK, CoalescerFlushes, session
    <3>5. CASE CoalescerDrained(s)
      BY <1>8, <3>5 DEF TypeOK, CoalescerDrained, session
    <3>6. CASE CoalescerCancelled(s)
      BY <1>8, <3>6 DEF TypeOK, CoalescerCancelled, session
    <3>7. CASE Cleanup(s)
      BY <1>8, <3>7 DEF TypeOK, Cleanup
    <3> QED BY <1>8, <3>1, <3>2, <3>3, <3>4, <3>5, <3>6, <3>7 DEF Coalescer
  <2> QED BY <2>1, FlowingSame
<1> HIDE DEF Still
<1>9. ASSUME NEW s \in Sessions, Shell(s) \/ Coalescer(s) PROVE Flowing(t)'
  <2>1. CASE s = t
    BY <1>9, <2>1, FlowingOutput
  <2> QED BY <1>8, <1>9, <2>1
<1> QED BY <1>1, <1>2, <1>3, <1>4, <1>5, <1>6, <1>7, <1>9 DEF Next, Spawn

LEMMA FlowingInit == Init => \A s \in Sessions : Flowing(s)
<1> SUFFICES ASSUME Init, NEW s \in Sessions PROVE Flowing(s)
  OBVIOUS
<1>1. /\ sent[s] = <<>> /\ pending[s] = <<>> /\ chunks[s] = <<>> /\ printed[s] = 0
      /\ coalescer[s] = "idle" /\ ~ended[s]
  BY DEF Init
<1>2. (<<>> \o <<>>) \o <<>> = UpTo(0)
  <2>1. <<>> \in Seq(Nat) /\ (<<>> \o <<>>) \o <<>> = <<>>
    BY EmptySeq, ConcatEmptySeq
  <2> QED BY <2>1 DEF UpTo
<1> QED BY <1>1, <1>2 DEF Flowing

\* Unless somebody ends the terminal, all that its shell printed is sent, in order,
\* and EXEC_END after it.
THEOREM OutputInOrder == Spec => []OutputComplete
<1> DEFINE Flows == \A s \in Sessions : Flowing(s)
<1>1. Init => TypeOK /\ Living /\ Flows
  BY TypeInit, LivingInit, FlowingInit
<1>2. (TypeOK /\ Living /\ Flows) /\ [Next]_vars => (TypeOK /\ Living /\ Flows)'
  BY TypeStep, LivingStep, FlowingStep DEF Living
<1>3. TypeOK /\ Flows => OutputComplete
  <2> SUFFICES ASSUME TypeOK, NEW s \in Sessions, Flowing(s), ~cancelled[s]
               PROVE  /\ (sent[s] \o pending[s]) \o chunks[s] = UpTo(printed[s])
                      /\ ended[s] => sent[s] = UpTo(printed[s])
    BY DEF OutputComplete
  <2>1. (sent[s] \o pending[s]) \o chunks[s] = UpTo(printed[s])
    BY DEF Flowing
  <2>2. sent[s] \in Seq(Nat) /\ (sent[s] \o <<>>) \o <<>> = sent[s]
    BY ConcatEmptySeq DEF TypeOK
  <2>3. ended[s] => pending[s] = <<>> /\ chunks[s] = <<>>
    BY DEF Flowing
  <2> QED BY <2>1, <2>2, <2>3
<1> QED BY <1>1, <1>2, <1>3, PTL DEF Spec

=============================================================================
