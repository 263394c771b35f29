------------------------------ MODULE MCDaemon ------------------------------
(* Instances of Daemon for TLC: the constants are given in the .cfg files. *)
EXTENDS Daemon
=============================================================================
