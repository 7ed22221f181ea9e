---------------------------- MODULE MCRelationships ----------------------------
(***************************************************************************)
(* An instance of Relationships for TLC.                                   *)
(***************************************************************************)
EXTENDS Relationships

CONSTANTS p1, p2, w1  \* datasets and a worker
=============================================================================
