-------------------------- MODULE SessionOwnership --------------------------
(***************************************************************************)
(* What the hub promises about who speaks for a machine: a session is      *)
(* owned by at most one agent connection at a time; another connection     *)
(* takes it over only by presenting the secret issued with that session;   *)
(* and it goes ownerless only because its present owner's connection       *)
(* ended, never because an earlier owner's did.                            *)
(*                                                                         *)
(* A connection opens at most one session, so sessions are named by the    *)
(* connection that opened them, and a session's secret by the session.     *)
(***************************************************************************)
CONSTANTS Conns, None

VARIABLES
  made,                \* sessions opened so far
  owner,               \* owner[s]: the connection session s belongs to, or None
  presents,            \* presents[c]: the secret connection c came with, or None
  used,                \* connections that have been given a session
  ended                \* connections whose end the hub has seen

vars == <<made, owner, presents, used, ended>>

Init ==
  /\ made = {}
  /\ owner = [s \in Conns |-> None]
  /\ presents = [c \in Conns |-> None]
  /\ used = {}
  /\ ended = {}

Arrive(c, k) ==
  /\ c \notin used \cup ended
  /\ presents' = [presents EXCEPT ![c] = k]
  /\ UNCHANGED <<made, owner, used, ended>>

Open(c) ==
  /\ c \notin used \cup ended
  /\ c \notin made
  /\ made' = made \cup {c}
  /\ owner' = [owner EXCEPT ![c] = c]
  /\ used' = used \cup {c}
  /\ UNCHANGED <<presents, ended>>

TakeOver(c, s) ==
  /\ c \notin used \cup ended
  /\ s \in made
  /\ presents[c] = s
  /\ owner' = [owner EXCEPT ![s] = c]
  /\ used' = used \cup {c}
  /\ UNCHANGED <<made, presents, ended>>

End(c) ==
  /\ ended' = ended \cup {c}
  /\ UNCHANGED <<made, owner, presents, used>>

Release(s) ==
  /\ owner[s] \in ended
  /\ owner' = [owner EXCEPT ![s] = None]
  /\ UNCHANGED <<made, presents, used, ended>>

Next ==
  \/ \E c \in Conns, k \in Conns \cup {None} : Arrive(c, k)
  \/ \E c \in Conns : Open(c) \/ End(c)
  \/ \E c, s \in Conns : TakeOver(c, s)
  \/ \E s \in Conns : Release(s)

Spec == Init /\ [][Next]_vars
=============================================================================
