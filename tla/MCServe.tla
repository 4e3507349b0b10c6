------------------------------- MODULE MCServe --------------------------------
(***************************************************************************)
(* The instance of Serve that TLC checks: two requests, the second of      *)
(* which may be for the cluster the first one added.                       *)
(***************************************************************************)
EXTENDS Serve, TLC

CONSTANTS r1, r2, k1, k2

Ask(op, key) == [op |-> op, key |-> key, readOnly |-> FALSE]
Pairs ==
  {r1 :> Ask("add", k1) @@ r2 :> Ask(op, k1) : op \in {"add", "remove", "patch"}} \cup
  {r1 :> Ask("remove", k1) @@ r2 :> Ask("patch", k1)}
=============================================================================
