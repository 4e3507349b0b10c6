------------------------------ MODULE MCRelay ------------------------------
(***************************************************************************)
(* Bounds for model checking Relay.  Two connections let an agent replace  *)
(* itself, come back after a loss, be turned away and race a DELETE; which *)
(* machine a connection belongs to is chosen when it dials.  Connections   *)
(* are interchangeable: nothing orders or names them, so the run without   *)
(* liveness properties may use Symmetry.                                   *)
(***************************************************************************)
EXTENDS Relay, TLC

Symmetry == Permutations(Conns)
=============================================================================
