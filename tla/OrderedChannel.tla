--------------------------- MODULE OrderedChannel ---------------------------
(***************************************************************************)
(* What the hub's handlers and the browsers may rely on when they talk     *)
(* over one WebSocket connection: a channel that delivers, in order and    *)
(* without gaps, the messages it accepted, until it breaks; after that it  *)
(* delivers nothing.  Accepting a message is no promise that it arrives,   *)
(* and a message that was refused never arrives.                           *)
(***************************************************************************)
EXTENDS Naturals, Sequences

CONSTANT Msg           \* the messages callers may hand over

VARIABLES
  accepted,            \* every message ever accepted, oldest first
  delivered,           \* what reached the other end, oldest first
  open                 \* whether the channel still delivers

vars == <<accepted, delivered, open>>

Init ==
  /\ accepted = <<>>
  /\ delivered = <<>>
  /\ open = TRUE

Accept(m) ==
  /\ accepted' = Append(accepted, m)
  /\ UNCHANGED <<delivered, open>>

Deliver ==
  /\ open
  /\ Len(delivered) < Len(accepted)
  /\ delivered' = Append(delivered, accepted[Len(delivered) + 1])
  /\ UNCHANGED <<accepted, open>>

Break ==
  /\ open
  /\ open' = FALSE
  /\ UNCHANGED <<accepted, delivered>>

Next == (\E m \in Msg : Accept(m)) \/ Deliver \/ Break

Spec == Init /\ [][Next]_vars
=============================================================================
