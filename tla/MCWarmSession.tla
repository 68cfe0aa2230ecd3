---------------------------- MODULE MCWarmSession ---------------------------
(* An instance of WarmSession for TLC: three operations on one node. *)
EXTENDS WarmSession
=============================================================================
