----------------------------- MODULE MCEventLog -----------------------------
(* Instances of EventLog for TLC: the bounds are given in the .cfg files.  *)
EXTENDS EventLog
=============================================================================
