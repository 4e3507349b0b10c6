---------------------------- MODULE MCGraphStream ----------------------------
(* One item, one refresh command: the smallest instance in which snapshots, *)
(* diffs, failed passes, restarts and late browsers meet.                   *)
EXTENDS GraphStream
=============================================================================
