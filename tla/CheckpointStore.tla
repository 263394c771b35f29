--------------------------- MODULE CheckpointStore ---------------------------
(***************************************************************************)
(* What the event log promises the kernel, without lines, fsync or torn    *)
(* writes (docs/specs/event-schema.md, 1.2 and 6.2: "durability of the     *)
(* last-good state").  A process works from one checkpoint.  A checkpoint  *)
(* whose append was acknowledged is never lost.  One whose append was cut  *)
(* short is in doubt: until the next acknowledgement a later process may   *)
(* find it or not.  Nothing else is ever restored.                         *)
(***************************************************************************)
CONSTANT Checkpoint        \* the identities of checkpoints
CONSTANT None              \* no checkpoint

VARIABLES
    committed,   \* the last acknowledged checkpoint, or None
    doubt,       \* the checkpoints begun since and not acknowledged
    current      \* the checkpoint the running process works from, or None

storeVars == <<committed, doubt, current>>

StoreInit == committed = None /\ doubt = {} /\ current = None

Begin(c) == /\ doubt' = doubt \cup {c}
            /\ UNCHANGED <<committed, current>>

Ack(c) == /\ c \in doubt
          /\ committed' = c
          /\ current' = c
          /\ doubt' = {}

\* A process dies: checkpoints in doubt may be gone.
Lose == /\ doubt' \in SUBSET doubt
        /\ UNCHANGED <<committed, current>>

\* The next process restores the last acknowledged one or one in doubt.
Restart == /\ current' \in {committed} \cup doubt
           /\ current' # None
           /\ UNCHANGED <<committed, doubt>>

StoreNext == (\E c \in Checkpoint : Begin(c) \/ Ack(c)) \/ Lose \/ Restart

StoreSpec == StoreInit /\ [][StoreNext]_storeVars
=============================================================================
