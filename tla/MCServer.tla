------------------------------ MODULE MCServer -------------------------------
(***************************************************************************)
(* Replicas of one release, on a store that another release has used.      *)
(***************************************************************************)
EXTENDS Server

MCSchemaOf == [p \in Process |-> "s2"]
=============================================================================
