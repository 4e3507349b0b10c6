--------------------------- MODULE SafeConnProofs ---------------------------
(***************************************************************************)
(* Proofs about SafeConn for every set of writers, every outbox capacity   *)
(* and every number of calls: type correctness, that the drain goroutine   *)
(* loses and reorders nothing, that each writer's frames stay in order,    *)
(* and that the connection implements OrderedChannel.                      *)
(***************************************************************************)
EXTENDS SafeConn, SequenceLemmas, TLAPS

-----------------------------------------------------------------------------
\* Types.

\* The frame of a call that is made is a frame.
LEMMA CallFrame ==
  ASSUME TypeOK, NEW w \in Writers, Call(w)
  PROVE  /\ <<w, sent[w] + 1>> \in Frame
         /\ sent' \in [Writers -> Nat]
BY MaxSendsAssumption DEF TypeOK, Call, Frame

\* The initial state is well typed.
LEMMA TypeInit == Init => TypeOK
<1> SUFFICES ASSUME Init PROVE TypeOK
  OBVIOUS
<1>1. <<>> \in Seq(Frame) /\ Len(<<>>) = 0
  BY EmptySeq
<1>2. /\ accepted \in Seq(Frame) /\ outbox \in Seq(Frame) /\ hand \in Seq(Frame)
      /\ wire \in Seq(Frame) /\ Len(outbox) = 0 /\ Len(hand) = 0 /\ hand = <<>>
  BY <1>1 DEF Init
<1>3. Len(outbox) <= Cap
  BY <1>2, CapAssumption
<1>4. sent \in [Writers -> Nat] /\ loop = "select"
  BY DEF Init
<1>5. /\ failed \in BOOLEAN /\ closeAsked \in BOOLEAN /\ closed \in BOOLEAN
      /\ sockClosed \in BOOLEAN
  BY DEF Init
<1> QED BY <1>2, <1>3, <1>4, <1>5 DEF TypeOK

\* Every variable keeps its type, and the outbox its capacity: the type
\* invariant is inductive.
THEOREM TypeCorrect == Spec => []TypeOK
<1>1. Init => TypeOK
  BY TypeInit
<1>2. TypeOK /\ [Next]_vars => TypeOK'
  <2> SUFFICES ASSUME TypeOK, [Next]_vars PROVE TypeOK'
    OBVIOUS
  <2>1. ASSUME NEW w \in Writers, EnqueueAccepted(w) PROVE TypeOK'
    <3> DEFINE f == <<w, sent[w] + 1>>
    <3>1. f \in Frame /\ sent' \in [Writers -> Nat]
      BY <2>1, CallFrame DEF EnqueueAccepted
    <3> HIDE DEF f
    <3>2. outbox' = Append(outbox, f) /\ accepted' = Append(accepted, f)
      BY <2>1 DEF EnqueueAccepted, f
    <3>3. outbox' \in Seq(Frame) /\ accepted' \in Seq(Frame)
          /\ Len(outbox') = Len(outbox) + 1
      BY <3>1, <3>2, AppendProperties DEF TypeOK
    <3>4. Len(outbox') <= Cap
      <4>1. Len(outbox) < Cap
        BY <2>1 DEF EnqueueAccepted
      <4>2. Len(outbox) \in Nat
        BY LenProperties DEF TypeOK
      <4> QED BY <4>1, <4>2, <3>3, CapAssumption
    <3> QED BY <2>1, <3>1, <3>3, <3>4 DEF TypeOK, EnqueueAccepted
  <2>2. ASSUME NEW w \in Writers, EnqueueClosed(w) PROVE TypeOK'
    BY <2>2, CallFrame DEF TypeOK, EnqueueClosed
  <2>3. ASSUME NEW w \in Writers, EnqueueFull(w) PROVE TypeOK'
    BY <2>3, CallFrame DEF TypeOK, EnqueueFull
  <2>4. CASE TakeFrame
    <3>1. Head(outbox) \in Frame /\ Tail(outbox) \in Seq(Frame)
          /\ Len(Tail(outbox)) = Len(outbox) - 1
      BY <2>4, HeadTailProperties DEF TakeFrame, TypeOK
    <3>2. hand' \in Seq(Frame) /\ Len(hand') = 1 /\ hand' # <<>>
      BY <2>4, <3>1 DEF TakeFrame
    <3>3. Len(outbox') <= Cap
      <4>1. Len(outbox) \in Nat /\ Len(outbox) <= Cap
        BY LenProperties DEF TypeOK
      <4> QED BY <4>1, <3>1, <2>4, CapAssumption DEF TakeFrame
    <3> QED BY <2>4, <3>1, <3>2, <3>3 DEF TypeOK, TakeFrame
  <2>5. CASE WriteFrame
    <3>1. wire \o hand \in Seq(Frame)
      BY ConcatProperties DEF TypeOK
    <3>2. hand' \in Seq(Frame) /\ Len(hand') = 0
      BY <2>5, EmptySeq DEF WriteFrame
    <3> QED BY <2>5, <3>1, <3>2 DEF TypeOK, WriteFrame
  <2>6. CASE WriteFails
    <3>1. hand' \in Seq(Frame) /\ Len(hand') = 0
      BY <2>6, EmptySeq DEF WriteFails
    <3> QED BY <2>6, <3>1 DEF TypeOK, WriteFails
  <2>7. CASE LoopExit
    BY <2>7 DEF TypeOK, LoopExit
  <2>8. CASE HandlerClose \/ CloseSignal \/ CloseSocket
    BY <2>8 DEF TypeOK, HandlerClose, CloseSignal, CloseSocket
  <2>9. CASE UNCHANGED vars
    BY <2>9 DEF TypeOK, vars
  <2> QED BY <2>1, <2>2, <2>3, <2>4, <2>5, <2>6, <2>7, <2>8, <2>9 DEF Next
<1> QED BY <1>1, <1>2, PTL DEF Spec

-----------------------------------------------------------------------------
\* Nothing is lost.

\* The frames on the wire are the first ones accepted.
WirePrefix ==
  /\ Len(wire) <= Len(accepted)
  /\ \A i \in 1..Len(wire) : wire[i] = accepted[i]

\* Appending to accepted keeps the wire a prefix of it.
LEMMA PrefixAppend ==
  ASSUME NEW s \in Seq(Frame), NEW t \in Seq(Frame), NEW f \in Frame,
         Len(s) <= Len(t), \A i \in 1..Len(s) : s[i] = t[i]
  PROVE  /\ Len(s) <= Len(Append(t, f))
         /\ \A i \in 1..Len(s) : s[i] = Append(t, f)[i]
<1>1. Len(s) \in Nat /\ Len(t) \in Nat
  BY LenProperties
<1>2. Len(Append(t, f)) = Len(t) + 1
      /\ \A i \in 1..Len(t) : Append(t, f)[i] = t[i]
  BY AppendProperties
<1> QED BY <1>1, <1>2

\* The inductive invariant: the types; as long as no write failed, accepted is
\* wire, hand and outbox end to end; and wire is a prefix of accepted, which is
\* what remains true after a failed write.
Kept == TypeOK /\ NothingLostWhileOpen /\ WirePrefix

\* Nothing is lost at the start.
LEMMA KeptInit == Init => Kept
<1> SUFFICES ASSUME Init PROVE Kept
  OBVIOUS
<1>1. <<>> \in Seq(Frame) /\ Len(<<>>) = 0
  BY EmptySeq
<1>2. TypeOK
  BY TypeInit
<1>3. (<<>> \o <<>>) \o <<>> = <<>>
  BY <1>1, ConcatEmptySeq
<1>4. NothingLostWhileOpen
  BY <1>3 DEF Init, NothingLostWhileOpen
<1>5. WirePrefix
  BY <1>1 DEF Init, WirePrefix
<1> QED BY <1>2, <1>4, <1>5 DEF Kept

\* An accepted frame joins the end of the outbox.
LEMMA KeptEnqueue ==
  ASSUME Kept, NEW w \in Writers, EnqueueAccepted(w)
  PROVE  NothingLostWhileOpen' /\ WirePrefix'
<1> DEFINE f == <<w, sent[w] + 1>>
<1>1. f \in Frame
  BY CallFrame DEF Kept, EnqueueAccepted
<1> HIDE DEF f
<1>2. /\ outbox' = Append(outbox, f) /\ accepted' = Append(accepted, f)
      /\ wire' = wire /\ hand' = hand /\ failed' = failed
  BY DEF EnqueueAccepted, f
<1>3. /\ wire \in Seq(Frame) /\ hand \in Seq(Frame) /\ outbox \in Seq(Frame)
      /\ accepted \in Seq(Frame)
  BY DEF Kept, TypeOK
<1>4. wire \o hand \in Seq(Frame)
  BY <1>3, ConcatProperties
<1>5. (wire \o hand) \o Append(outbox, f) = Append((wire \o hand) \o outbox, f)
  BY <1>1, <1>3, <1>4, AppendToConcat
<1>6. NothingLostWhileOpen'
  BY <1>2, <1>5 DEF Kept, NothingLostWhileOpen
<1>7. WirePrefix'
  BY <1>1, <1>2, <1>3, PrefixAppend DEF Kept, WirePrefix
<1> QED BY <1>6, <1>7

\* Taking a frame moves it from the outbox to the hand,
LEMMA KeptTake ==
  ASSUME Kept, TakeFrame
  PROVE  NothingLostWhileOpen' /\ WirePrefix'
<1>1. /\ hand = <<>> /\ outbox # <<>> /\ wire \in Seq(Frame) /\ outbox \in Seq(Frame)
      /\ hand' = <<Head(outbox)>> /\ outbox' = Tail(outbox)
      /\ wire' = wire /\ accepted' = accepted /\ failed' = failed
  BY DEF Kept, TypeOK, TakeFrame
<1>2. wire \o <<>> = wire
  BY <1>1, ConcatEmptySeq
<1>3. wire \o outbox = (wire \o <<Head(outbox)>>) \o Tail(outbox)
  BY <1>1, ConcatShift
<1>4. NothingLostWhileOpen'
  BY <1>1, <1>2, <1>3 DEF Kept, NothingLostWhileOpen
<1>5. WirePrefix'
  BY <1>1 DEF Kept, WirePrefix
<1> QED BY <1>4, <1>5

\* writing it moves it from the hand to the wire.
LEMMA KeptWrite ==
  ASSUME Kept, WriteFrame
  PROVE  /\ NothingLostWhileOpen' /\ WirePrefix'
         /\ Len(wire) < Len(accepted)
         /\ wire' = Append(wire, accepted[Len(wire) + 1])
<1>1. /\ ~failed /\ wire' = wire \o hand /\ hand' = <<>> /\ outbox' = outbox
      /\ accepted' = accepted /\ failed' = failed
      /\ Len(hand) = 1 /\ wire \in Seq(Frame) /\ hand \in Seq(Frame)
      /\ outbox \in Seq(Frame) /\ accepted \in Seq(Frame)
  BY DEF Kept, TypeOK, WriteFrame
<1> DEFINE w == wire \o hand
<1>2. /\ w \in Seq(Frame) /\ Len(w) = Len(wire) + 1
      /\ \A i \in 1..(Len(wire) + 1) :
           w[i] = IF i <= Len(wire) THEN wire[i] ELSE hand[i - Len(wire)]
  <2>1. /\ w \in Seq(Frame) /\ Len(w) = Len(wire) + Len(hand)
        /\ \A i \in 1..(Len(wire) + Len(hand)) :
             w[i] = IF i <= Len(wire) THEN wire[i] ELSE hand[i - Len(wire)]
    BY <1>1, ConcatProperties
  <2> QED BY <2>1, <1>1
<1>3. accepted = w \o outbox
  BY <1>1 DEF Kept, NothingLostWhileOpen
<1>4. w = Append(wire, hand[1])
  BY <1>1, ConcatOne
<1> HIDE DEF w
<1>5. Len(wire) \in Nat /\ Len(outbox) \in Nat
  BY <1>1, LenProperties
<1>6. /\ Len(accepted) = Len(w) + Len(outbox)
      /\ \A i \in 1..(Len(w) + Len(outbox)) :
           accepted[i] = IF i <= Len(w) THEN w[i] ELSE outbox[i - Len(w)]
  BY <1>1, <1>2, <1>3, ConcatProperties
<1>7. \A i \in 1..Len(w) : w[i] = accepted[i]
  BY <1>2, <1>5, <1>6
<1>8. wire' = w
  BY <1>1 DEF w
<1>9. WirePrefix'
  BY <1>1, <1>2, <1>5, <1>6, <1>7, <1>8 DEF WirePrefix
<1>10. NothingLostWhileOpen'
  <2>1. w \o <<>> = w
    BY <1>2, ConcatEmptySeq
  <2> QED BY <2>1, <1>1, <1>3, <1>8 DEF NothingLostWhileOpen
<1>11. Len(wire) < Len(accepted)
  BY <1>2, <1>5, <1>6
<1>12. accepted[Len(wire) + 1] = hand[1]
  <2>1. Len(wire) + 1 \in 1..Len(w)
    BY <1>2, <1>5
  <2>2. w[Len(wire) + 1] = hand[1]
    BY <1>2, <1>5, <2>1
  <2> QED BY <2>1, <2>2, <1>7
<1> QED BY <1>4, <1>8, <1>9, <1>10, <1>11, <1>12

\* Every step keeps it.
LEMMA KeptNext == Kept /\ TypeOK' /\ [Next]_vars => Kept'
<1> SUFFICES ASSUME Kept, TypeOK', [Next]_vars PROVE NothingLostWhileOpen' /\ WirePrefix'
  BY DEF Kept
<1>1. CASE \E w \in Writers : EnqueueAccepted(w)
  BY <1>1, KeptEnqueue
<1>2. CASE \E w \in Writers : EnqueueClosed(w) \/ EnqueueFull(w)
  <2>1. PICK w \in Writers : EnqueueClosed(w) \/ EnqueueFull(w)
    BY <1>2
  <2>2. UNCHANGED <<accepted, outbox, hand, wire, failed>>
    BY <2>1 DEF EnqueueClosed, EnqueueFull
  <2> QED BY <2>2 DEF Kept, NothingLostWhileOpen, WirePrefix
<1>3. CASE TakeFrame
  BY <1>3, KeptTake
<1>4. CASE WriteFrame
  BY <1>4, KeptWrite
<1>5. CASE WriteFails
  BY <1>5 DEF Kept, NothingLostWhileOpen, WirePrefix, WriteFails
<1>6. CASE LoopExit \/ HandlerClose \/ CloseSignal \/ CloseSocket
  BY <1>6 DEF Kept, NothingLostWhileOpen, WirePrefix, LoopExit, HandlerClose,
              CloseSignal, CloseSocket
<1>7. CASE UNCHANGED vars
  BY <1>7 DEF Kept, NothingLostWhileOpen, WirePrefix, vars
<1> QED BY <1>1, <1>2, <1>3, <1>4, <1>5, <1>6, <1>7 DEF Next

\* Nothing is lost, and the wire is a prefix of what was accepted.
LEMMA KeptAlways == Spec => []Kept
<1>1. Kept /\ [Next]_vars /\ TypeOK' => Kept'
  BY KeptNext
<1> QED BY KeptInit, <1>1, TypeCorrect, PTL DEF Spec

\* As long as no socket write failed, every accepted frame is on the wire, in
\* hand or in the outbox, in the order enqueue accepted it.
THEOREM NothingLost == Spec => []NothingLostWhileOpen
<1>1. Kept => NothingLostWhileOpen
  BY DEF Kept
<1> QED BY <1>1, KeptAlways, PTL

-----------------------------------------------------------------------------
\* Order per writer.

\* What is accepted from a writer is numbered upwards, and no higher than the
\* calls it has made.
Issued ==
  /\ \A i \in 1..Len(accepted) : accepted[i][2] <= sent[accepted[i][1]]
  /\ \A i, j \in 1..Len(accepted) :
       i < j /\ accepted[i][1] = accepted[j][1] => accepted[i][2] < accepted[j][2]

\* An accepted frame is the newest of its writer.
LEMMA IssuedEnqueue ==
  ASSUME TypeOK, Issued, NEW w \in Writers, EnqueueAccepted(w)
  PROVE  Issued'
<1> DEFINE f == <<w, sent[w] + 1>>
           n == Len(accepted)
<1>1. f \in Frame
  BY CallFrame DEF EnqueueAccepted
<1>2. /\ accepted' = Append(accepted, f) /\ sent' = [sent EXCEPT ![w] = @ + 1]
      /\ sent \in [Writers -> Nat] /\ accepted \in Seq(Frame) /\ n \in Nat
  BY LenProperties DEF TypeOK, EnqueueAccepted, Call
<1>3. /\ Len(accepted') = n + 1
      /\ \A i \in 1..n : accepted'[i] = accepted[i]
      /\ accepted'[n + 1] = f
  BY <1>1, <1>2, AppendProperties
<1>4. /\ f[1] = w /\ f[2] = sent[w] + 1
  OBVIOUS
<1> HIDE DEF f, n
<1>5. \A i \in 1..n : accepted[i][1] \in Writers /\ accepted[i][2] \in Nat
  BY <1>2, ElementOfSeq DEF n, Frame
<1>6. \A i \in 1..n : accepted[i][2] <= sent[accepted[i][1]]
  BY DEF Issued, n
<1>7. ASSUME NEW i \in 1..(n + 1)
      PROVE  accepted'[i][2] <= sent'[accepted'[i][1]]
  <2>1. CASE i = n + 1
    BY <2>1, <1>2, <1>3, <1>4
  <2>2. CASE i # n + 1
    <3>1. i \in 1..n
      BY <2>2, <1>2
    <3>2. accepted'[i] = accepted[i] /\ accepted[i][2] <= sent[accepted[i][1]]
      BY <3>1, <1>3, <1>6
    <3>3. accepted[i][1] \in Writers /\ accepted[i][2] \in Nat
      BY <3>1, <1>5
    <3> QED BY <3>2, <3>3, <1>2
  <2> QED BY <2>1, <2>2
<1>8. ASSUME NEW i \in 1..(n + 1), NEW j \in 1..(n + 1), i < j,
             accepted'[i][1] = accepted'[j][1]
      PROVE  accepted'[i][2] < accepted'[j][2]
  <2>1. i \in 1..n /\ accepted'[i] = accepted[i]
    BY <1>8, <1>2, <1>3
  <2>2. CASE j = n + 1
    <3>1. accepted[i][1] = w /\ accepted'[j][2] = sent[w] + 1
      BY <2>1, <2>2, <1>3, <1>4, <1>8
    <3>2. accepted[i][2] <= sent[w] /\ accepted[i][2] \in Nat /\ sent[w] \in Nat
      BY <2>1, <3>1, <1>2, <1>5, <1>6
    <3> QED BY <2>1, <3>1, <3>2
  <2>3. CASE j # n + 1
    <3>1. j \in 1..n /\ accepted'[j] = accepted[j]
      BY <2>3, <1>2, <1>3
    <3> QED BY <2>1, <3>1, <1>8 DEF Issued, n
  <2> QED BY <2>2, <2>3
<1> QED BY <1>3, <1>7, <1>8 DEF Issued

\* A refused call only counts up.
LEMMA IssuedCall ==
  ASSUME TypeOK, Issued, NEW w \in Writers, Call(w), UNCHANGED accepted
  PROVE  Issued'
<1>1. /\ sent \in [Writers -> Nat] /\ sent' = [sent EXCEPT ![w] = @ + 1]
      /\ accepted \in Seq(Frame)
  BY DEF TypeOK, Call
<1>2. \A i \in 1..Len(accepted) : accepted[i][1] \in Writers /\ accepted[i][2] \in Nat
  BY <1>1, ElementOfSeq DEF Frame
<1>3. \A v \in Writers : sent[v] \in Nat /\ sent'[v] \in Nat /\ sent[v] <= sent'[v]
  BY <1>1
<1> QED BY <1>2, <1>3 DEF Issued

\* Accepted frames are in their writers' order.
LEMMA IssuedAlways == Spec => []Issued
<1>1. Init => Issued
  <2>1. Len(<<>>) = 0
    BY EmptySeq
  <2> QED BY <2>1 DEF Init, Issued
<1>2. TypeOK /\ Issued /\ [Next]_vars => Issued'
  <2> SUFFICES ASSUME TypeOK, Issued, [Next]_vars PROVE Issued'
    OBVIOUS
  <2>1. CASE \E w \in Writers : EnqueueAccepted(w)
    BY <2>1, IssuedEnqueue
  <2>2. CASE \E w \in Writers : EnqueueClosed(w) \/ EnqueueFull(w)
    BY <2>2, IssuedCall DEF EnqueueClosed, EnqueueFull
  <2>3. CASE UNCHANGED <<sent, accepted>>
    BY <2>3 DEF Issued
  <2> QED BY <2>1, <2>2, <2>3
      DEF Next, TakeFrame, WriteFrame, WriteFails, LoopExit, HandlerClose, CloseSignal,
          CloseSocket, vars
<1> QED BY <1>1, <1>2, TypeCorrect, PTL DEF Spec

\* What reaches the socket from one goroutine is in the order that goroutine
\* issued it, also after an overflow, a failed write or a close.
THEOREM WriterOrder == Spec => []PerWriterOrder
<1>1. Kept /\ Issued => PerWriterOrder
  <2> SUFFICES ASSUME Kept, Issued, NEW i \in 1..Len(wire), NEW j \in 1..Len(wire),
                      i < j, wire[i][1] = wire[j][1]
               PROVE  wire[i][2] < wire[j][2]
    BY DEF PerWriterOrder
  <2>1. Len(wire) \in Nat /\ Len(accepted) \in Nat /\ Len(wire) <= Len(accepted)
    BY LenProperties DEF Kept, TypeOK, WirePrefix
  <2>2. i \in 1..Len(accepted) /\ j \in 1..Len(accepted)
    BY <2>1
  <2>3. wire[i] = accepted[i] /\ wire[j] = accepted[j]
    BY DEF Kept, WirePrefix
  <2> QED BY <2>2, <2>3 DEF Issued
<1> QED BY <1>1, KeptAlways, IssuedAlways, PTL

-----------------------------------------------------------------------------
\* Refinement.

\* A connection is an ordered channel: its enqueue accepts, writeLoop's write
\* delivers the next accepted frame, the first failed write breaks the channel,
\* and every other step changes nothing its users see.
THEOREM Refinement == Spec => ImplementsChannel
<1>1. Init => Channel!Init
  BY DEF Init, Channel!Init
<1>2. Kept /\ [Next]_vars => [Channel!Next]_(Channel!vars)
  <2> SUFFICES ASSUME Kept, [Next]_vars PROVE Channel!Next \/ UNCHANGED Channel!vars
    OBVIOUS
  <2> USE DEF Channel!vars
  <2>1. ASSUME NEW w \in Writers, EnqueueAccepted(w) PROVE Channel!Next
    <3>1. <<w, sent[w] + 1>> \in Frame
      BY <2>1, CallFrame DEF Kept, EnqueueAccepted
    <3>2. Channel!Accept(<<w, sent[w] + 1>>)
      BY <2>1 DEF EnqueueAccepted, Channel!Accept
    <3> QED BY <3>1, <3>2 DEF Channel!Next
  <2>2. CASE WriteFrame
    <3>1. Len(wire) < Len(accepted) /\ wire' = Append(wire, accepted[Len(wire) + 1])
      BY <2>2, KeptWrite
    <3> QED BY <2>2, <3>1 DEF WriteFrame, Channel!Next, Channel!Deliver
  <2>3. CASE WriteFails
    <3>1. CASE failed
      BY <2>3, <3>1 DEF WriteFails
    <3>2. CASE ~failed
      BY <2>3, <3>2 DEF WriteFails, Channel!Next, Channel!Break
    <3> QED BY <3>1, <3>2
  <2>4. CASE UNCHANGED <<accepted, wire, failed>>
    BY <2>4
  <2> QED BY <2>1, <2>2, <2>3, <2>4
      DEF Next, EnqueueClosed, EnqueueFull, TakeFrame, LoopExit, HandlerClose,
          CloseSignal, CloseSocket, vars
<1> QED BY <1>1, <1>2, KeptAlways, PTL DEF Spec, ImplementsChannel, Channel!Spec
=============================================================================
