----------------------------- MODULE MCSafeConn -----------------------------
(***************************************************************************)
(* Bounds for model checking SafeConn: two writers, an outbox of two       *)
(* frames, three calls each.  Six calls against two slots reach a full     *)
(* outbox with either writer as the one refused, and a refusal followed by *)
(* an accepted call.                                                       *)
(***************************************************************************)
EXTENDS SafeConn
=============================================================================
