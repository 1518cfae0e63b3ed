--------------------------- MODULE MCReplication ---------------------------
(***************************************************************************)
(* Instances of Replication for TLC.  Brokers are numbers, because the     *)
(* lowest live id is the controller; so there is no symmetry to use.       *)
(***************************************************************************)
EXTENDS Replication

const_2 == {1, 2}
const_3 == {1, 2, 3}
const_replicas_21 == <<2, 1>>
const_replicas_213 == <<2, 1, 3>>
const_replicas_231 == <<2, 3, 1>>
=============================================================================
