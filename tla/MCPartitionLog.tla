--------------------------- MODULE MCPartitionLog ---------------------------
(* PartitionLog on small instances: one key, one value. *)
EXTENDS PartitionLog
=============================================================================
