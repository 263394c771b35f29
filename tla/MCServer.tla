------------------------------ MODULE MCServer ------------------------------
(* Instances of Server for TLC: the constants are given in the .cfg files. *)
EXTENDS Server
=============================================================================
