------------------------------ MODULE MCReplay ------------------------------
(* A plain session whose model repeats its tool_use_ids, and sessions with *)
(* unique ones whose middleware compacts or fails in the second turn.      *)
EXTENDS Replay

Plain      == [unique |-> FALSE, compact |-> {}, fail |-> {}, attempts |-> 2]
Compacting == [unique |-> TRUE, compact |-> {2}, fail |-> {}, attempts |-> 1]
Failing    == [unique |-> TRUE, compact |-> {}, fail |-> {2}, attempts |-> 1]

MCSetups    == {Plain, Compacting, Failing}
MCResponses == {<<>>, <<"plain">>, <<"job", "ask">>, <<"unknown">>}
=============================================================================
