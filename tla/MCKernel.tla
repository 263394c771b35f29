------------------------------ MODULE MCKernel ------------------------------
(* Instances of Kernel for TLC: the .cfg files give the user messages as   *)
(* model values and bound the turns, the calls of a response, the deaths,  *)
(* the refused appends and the events from outside.                        *)
EXTENDS Kernel
=============================================================================
