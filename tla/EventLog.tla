------------------------------ MODULE EventLog ------------------------------
(***************************************************************************)
(* The session log of grist-agent's kernel: FileEventLog (log/file.rs),    *)
(* the reader and writer logic it shares with MemoryEventLog (log/mod.rs), *)
(* and the part of Kernel::open (loop_/mod.rs) that decides, from the log  *)
(* alone, whether a session is resumed or recovered.                       *)
(*                                                                         *)
(* A log is a file of lines.  Payloads are abstracted to what the readers  *)
(* look at: the kind of the line, the status inside a checkpoint, the      *)
(* range a `recovered` line voids, and whether the writer's redaction pass *)
(* changed the payload.  Bytes are abstracted to complete lines plus one   *)
(* bit, `torn`: whether bytes without a newline follow the last line.      *)
(***************************************************************************)
EXTENDS Integers, Sequences, FiniteSets, FiniteSetsExt

CONSTANTS
    MaxLines,    \* bound on the lines of a log
    MaxOpens,    \* bound on the processes that work on one log
    MaxFaults    \* bound on the appends that the file system fails

ASSUME LogBounds == MaxLines \in Nat /\ MaxOpens \in Nat /\ MaxFaults \in Nat

VARIABLES
    file,     \* the complete lines of the file
    torn,     \* TRUE iff bytes without a newline follow them
    synced,   \* how many lines have reached the disk for good (fsync)
    lines,    \* FileEventLog.lines: what the process believes the file holds
    ctl,      \* "absent", "down", "opening", "live" or why open refused
    op,       \* the append in progress: the lines it stages and its next step
    opens,    \* processes so far
    faults,   \* failed appends so far
    base,     \* Kernel.checkpoint_hash: the checkpoint (its seq) the process is at
    acked     \* history: the last checkpoint whose append returned Ok, or -1

vars == <<file, torn, synced, lines, ctl, op, opens, faults, base, acked>>

-----------------------------------------------------------------------------
(* Lines *)

NoSeq == -1
NoRange == <<0, -1>>                 \* `discarded_seq: None`

Statuses == {"idle", "busy", "done"} \* busy: created, running, suspended, failed

\* `end` stands for suspended, session_ended and session_failed; `event` for
\* every kind no reader of this module tells apart; `garbage` for a complete
\* line that does not parse.
Kinds == {"log_opened", "event", "warning", "checkpoint", "end",
          "resumed", "recovered", "garbage"}

Line(seq, kind, status, void, late, by) ==
    [seq |-> seq, kind |-> kind, status |-> status, void |-> void,
     late |-> late, by |-> by]

Plain(seq, kind, late) == Line(seq, kind, "busy", NoRange, late, opens)

Garbage == Line(NoSeq, "garbage", "busy", NoRange, FALSE, opens)

IsCheckpoint(l) == l.kind = "checkpoint"

\* Mutant: the checkpoint itself is not synced.
needs_fsync_EndOnly(l) == l.kind = "end"

needs_fsync(l) == l.kind \in {"checkpoint", "end"}

\* Mutant: the warning takes the seq of the line it is about.
stage_SameSeq(l) ==
    IF l.late THEN <<l, Plain(l.seq, "warning", FALSE)>> ELSE <<l>>

\* A writer-side redaction that changed the payload adds a warning line.
stage(l) ==
    IF l.late THEN <<l, Plain(l.seq + 1, "warning", FALSE)>> ELSE <<l>>

-----------------------------------------------------------------------------
(* Readers: operators on a sequence of lines *)

discarded_seqs(s) == {s[i].void : i \in {j \in DOMAIN s : s[j].kind = "recovered"}}

\* Mutant: the end of a range is taken as exclusive.
is_discarded(ranges, seq) == \E r \in ranges : r[1] <= seq /\ seq <= r[2]

\* The positions of `s` that are effective (event-schema.md 6.1).
effective(s) == {i \in DOMAIN s : ~ is_discarded(discarded_seqs(s), s[i].seq)}

\* The position of the latest effective checkpoint, 0 if there is none.
latest_checkpoint(s) ==
    LET c == {i \in effective(s) : IsCheckpoint(s[i])}
    IN  IF c = {} THEN 0 ELSE Max(c)

\* Its seq, -1 if there is none.
LatestSeq(s) ==
    LET c == latest_checkpoint(s) IN IF c = 0 THEN NoSeq ELSE s[c].seq

ends_cleanly(s) ==
    /\ effective(s) # {}
    /\ LET l == s[Max(effective(s))]
       IN  \/ l.kind = "end"
           \/ IsCheckpoint(l) /\ l.status = "idle"

\* parse_log: every complete line parses, is in order, and line 0 opens the
\* log.  A file without a complete line is refused by open.
parse_log(s) ==
    /\ s # <<>>
    /\ s[1].kind = "log_opened"
    /\ \A i \in DOMAIN s : s[i].kind # "garbage" /\ s[i].seq = i - 1

-----------------------------------------------------------------------------
(* FileEventLog::append: lock, stage, write, flush, fsync, extend *)

NoOp == [at |-> "none", staged |-> <<>>]

Idle == op = NoOp

\* The lock is taken and the lines are staged at seq = lines.len().
Stage(l) ==
    /\ Idle
    /\ Len(lines) + Len(stage(l)) <= MaxLines
    /\ op' = [at |-> "write", staged |-> stage(l)]
    /\ UNCHANGED <<file, torn, synced, lines, ctl, opens, faults, base, acked>>

\* What the file holds once the first n staged lines are in it.  The file is
\* opened for appending, so bytes left by an earlier short write become the
\* start of the first line and make it unparsable.
Written(n) ==
    IF n = 0 THEN file
    ELSE file \o (IF torn THEN <<Garbage>> ELSE <<op.staged[1]>>)
              \o SubSeq(op.staged, 2, n)

\* write_all and flush return.
Write ==
    /\ op.at = "write"
    /\ file' = Written(Len(op.staged))
    /\ torn' = FALSE
    /\ op' = [op EXCEPT !.at = IF needs_fsync(op.staged[1]) THEN "sync" ELSE "extend"]
    /\ UNCHANGED <<synced, lines, ctl, opens, faults, base, acked>>

\* Mutant: a line too many is taken for synced.
Sync_OffByOne ==
    /\ op.at = "sync"
    /\ synced' = Len(file) + 1
    /\ op' = [op EXCEPT !.at = "extend"]
    /\ UNCHANGED <<file, torn, lines, ctl, opens, faults, base, acked>>

Sync ==
    /\ op.at = "sync"
    /\ synced' = Len(file)
    /\ op' = [op EXCEPT !.at = "extend"]
    /\ UNCHANGED <<file, torn, lines, ctl, opens, faults, base, acked>>

\* The in-memory lines follow and append returns Ok: a process that was
\* opening the session is live once its resumed or recovered line is in.
Extend ==
    /\ op.at = "extend"
    /\ lines' = lines \o op.staged
    /\ op' = NoOp
    /\ ctl' = "live"
    /\ acked' = IF IsCheckpoint(op.staged[1]) THEN op.staged[1].seq ELSE acked
    /\ base' = IF IsCheckpoint(op.staged[1]) THEN op.staged[1].seq ELSE base
    /\ UNCHANGED <<file, torn, synced, opens, faults>>

\* append returns Err: the caller goes on with the lines it had, except that a
\* process that was still opening the session gives up.
Fail ==
    /\ faults < MaxFaults
    /\ faults' = faults + 1
    /\ op' = NoOp
    /\ ctl' = IF ctl = "live" THEN "live" ELSE "down"
    /\ lines' = IF ctl = "live" THEN lines ELSE <<>>
    /\ UNCHANGED <<synced, opens, base, acked>>

\* write_all fails after some of the bytes.
ShortWrite ==
    /\ op.at = "write"
    /\ \E n \in 0 .. Len(op.staged) - 1 :
          /\ file' = Written(n)
          /\ torn' \in (IF n = 0 THEN {torn, TRUE} ELSE BOOLEAN)
    /\ Fail

\* sync_all fails: the lines are in the file, the process does not know it.
SyncFail ==
    /\ op.at = "sync"
    /\ UNCHANGED <<file, torn>>
    /\ Fail

-----------------------------------------------------------------------------
(* The kernel's appends *)

NextSeq == Len(lines)

\* The last line the kernel itself asked for (a late-redaction warning is the
\* writer's).
LastAsked == LET i == {j \in DOMAIN lines : lines[j].kind # "warning"} IN lines[Max(i)]

Finished == ctl = "live" /\ LastAsked.status = "done"

Live == ctl = "live" /\ ~ Finished

\* FileEventLog::create opens a file that must not exist and writes line 0.
Create ==
    /\ ctl = "absent"
    /\ opens' = opens + 1
    /\ ctl' = "opening"
    /\ op' = [at |-> "write",
              staged |-> <<Line(0, "log_opened", "busy", NoRange, FALSE, opens + 1)>>]
    /\ UNCHANGED <<file, torn, synced, lines, faults, base, acked>>

AppendEvent == Live /\ \E late \in BOOLEAN : Stage(Plain(NextSeq, "event", late))

AppendCheckpoint ==
    /\ Live
    /\ \E st \in Statuses, late \in BOOLEAN :
          Stage(Line(NextSeq, "checkpoint", st, NoRange, late, opens))

\* suspended, session_failed and session_ended are written right after the
\* checkpoint they belong to.
AppendEnd ==
    /\ ctl = "live"
    /\ IsCheckpoint(LastAsked)
    /\ LastAsked.status \in Statuses \ {"idle"}
    /\ Stage(Line(NextSeq, "end", LastAsked.status, NoRange, FALSE, opens))

-----------------------------------------------------------------------------
(* The end of a process, and the next one *)

\* The process dies; `f` and `t` are what it leaves in the file.
Die(f, t) ==
    /\ file' = f
    /\ torn' = t
    /\ lines' = <<>>
    /\ op' = NoOp
    /\ ctl' = "down"
    /\ UNCHANGED <<synced, opens, faults, base, acked>>

\* The process is killed: what it wrote is in the page cache, and a write it
\* was in may be cut anywhere.
Crash ==
    /\ ctl \in {"opening", "live"}
    /\ IF op.at = "write"
       THEN \E n \in 0 .. Len(op.staged) :
               \E t \in (IF n = 0 THEN {torn, TRUE}
                         ELSE IF n = Len(op.staged) THEN {FALSE} ELSE BOOLEAN) :
                  Die(Written(n), t)
       ELSE Die(file, torn)

\* The machine loses power: lines that were never synced may be gone.
PowerLoss ==
    /\ ctl \in {"down", "opening", "live"}
    /\ \E n \in synced .. Len(file), t \in BOOLEAN : Die(SubSeq(file, 1, n), t)

Refuse(why) ==
    /\ ctl' = why
    /\ UNCHANGED <<file, torn, synced, lines, op, opens, faults, base, acked>>

\* Mutants: the range starts at the checkpoint, or misses the last line.
discarded_seq_Inclusive(s) ==
    IF LatestSeq(s) < Len(s) - 1 THEN <<LatestSeq(s), Len(s) - 1>> ELSE NoRange

discarded_seq_Short(s) ==
    IF LatestSeq(s) < Len(s) - 1 THEN <<LatestSeq(s) + 1, Len(s) - 2>> ELSE NoRange

\* The range Kernel::open voids: everything after the restored checkpoint.
discarded_seq(s) ==
    IF LatestSeq(s) < Len(s) - 1 THEN <<LatestSeq(s) + 1, Len(s) - 1>> ELSE NoRange

\* FileEventLog::open parses the file and cuts the torn tail; Kernel::open
\* then restores the latest checkpoint and writes `resumed` if the log ended
\* cleanly and the cause is not recovery, else `recovered`.
Open ==
    /\ ctl = "down"
    /\ opens < MaxOpens
    /\ IF ~ parse_log(file) THEN Refuse("unreadable")
       ELSE IF latest_checkpoint(file) = 0 THEN Refuse("no_checkpoint")
       ELSE IF file[latest_checkpoint(file)].late THEN Refuse("hash_mismatch")
       ELSE IF file[latest_checkpoint(file)].status = "done" THEN Refuse("done")
       ELSE /\ Len(file) + 1 <= MaxLines
            /\ opens' = opens + 1
            /\ torn' = FALSE
            /\ lines' = file
            /\ ctl' = "opening"
            /\ base' = LatestSeq(file)
            /\ \E recovery \in BOOLEAN :
                  op' = [at |-> "write",
                         staged |-> <<IF ends_cleanly(file) /\ ~ recovery
                                      THEN Line(Len(file), "resumed", "busy", NoRange, FALSE, opens + 1)
                                      ELSE Line(Len(file), "recovered", "busy", discarded_seq(file),
                                                FALSE, opens + 1)>>]
            /\ UNCHANGED <<file, synced, faults, acked>>

-----------------------------------------------------------------------------

Init ==
    /\ file = <<>> /\ torn = FALSE /\ synced = 0
    /\ lines = <<>> /\ ctl = "absent" /\ op = NoOp
    /\ opens = 0 /\ faults = 0 /\ base = NoSeq /\ acked = NoSeq

Next ==
    \/ Create \/ AppendEvent \/ AppendCheckpoint \/ AppendEnd
    \/ Write \/ Sync \/ Extend \/ ShortWrite \/ SyncFail
    \/ Crash \/ PowerLoss \/ Open

Spec == Init /\ [][Next]_vars

-----------------------------------------------------------------------------
(* Properties *)

Ctls == {"absent", "down", "opening", "live",
         "unreadable", "no_checkpoint", "hash_mismatch", "done"}

LineType == [seq : Int, kind : Kinds, status : Statuses, void : Int \X Int,
             late : BOOLEAN, by : Nat]

\* Every variable of the log has its type, and no more is taken for synced
\* than the file holds (FileEventLog::append syncs what it has written).
TypeOK ==
    /\ file \in Seq(LineType)
    /\ torn \in BOOLEAN
    /\ synced \in 0 .. Len(file)
    /\ lines \in Seq(LineType)
    /\ ctl \in Ctls
    /\ op \in [at : {"none", "write", "sync", "extend"}, staged : Seq(LineType)]
    /\ opens \in Nat
    /\ faults \in Nat
    /\ base \in Int
    /\ acked \in Int

\* No `recovered` line ever voids a checkpoint (Kernel::open starts the range
\* after the checkpoint it restores): however often processes die, the latest
\* checkpoint of the effective log is the latest one of the file.
NoCheckpointVoided ==
    \A i, j \in DOMAIN file :
        IsCheckpoint(file[i]) /\ file[j].kind = "recovered"
            => ~ is_discarded({file[j].void}, file[i].seq)

\* Why NoCheckpointVoided holds, as an inductive invariant.  Every line that
\* is in the file or about to be written counts; no `recovered` line among them
\* voids a checkpoint; each one voids only what is before itself, and before
\* anything the running process will still write (its seqs start at
\* lines.len()); only a running process appends, and only to a created log.
AllLines == {file[i] : i \in DOMAIN file} \cup {op.staged[i] : i \in DOMAIN op.staged}

Apart(S) ==
    \A c, r \in S : IsCheckpoint(c) /\ r.kind = "recovered"
                       => ~ (r.void[1] <= c.seq /\ c.seq <= r.void[2])

Behind(S) == \A r \in S : r.kind = "recovered" => r.void[2] < r.seq

BehindProcess(S) == \A r \in S : r.kind = "recovered" => r.void[2] < Len(lines)

Running == ctl \in {"opening", "live"}

\* The inductive invariant of the voided ranges (Kernel::open, step 3 of the
\* recovery, against every append that follows it).
VoidsBehind ==
    /\ Apart(AllLines)
    /\ Behind(AllLines)
    /\ Running => BehindProcess(AllLines)
    /\ op.at # "none" => Running /\ op.staged # <<>>
    /\ ctl = "absent" => AllLines = {}

\* A process that works on the log sees, after the checkpoint it restored,
\* no effective event of an earlier process other than the record of a clean
\* end: what a dead process did after its last checkpoint is never replayed
\* as if it were part of the session.
NoStaleTail ==
    ctl = "live" =>
        \A i \in effective(lines) :
            i > latest_checkpoint(lines)
                => lines[i].by = opens \/ lines[i].kind \in {"end", "warning"}

\* Whatever a crash or a power loss leaves of the file, the next process can
\* parse it (parse_log), once line 0 has reached the disk.
Readable == ctl = "unreadable" => file = <<>>

\* The same, as long as no append has failed (FileEventLog::append): crashes
\* and power losses alone never make a log unreadable.
ReadableUnlessFailed == faults = 0 => Readable

\* The refinement mapping: a checkpoint is its seq, the acknowledged one the
\* last whose append returned, the process's one Kernel.checkpoint_hash.
Store == INSTANCE CheckpointStore WITH
    Checkpoint <- 0 .. MaxLines,
    None <- NoSeq,
    committed <- acked,
    doubt <- {l.seq : l \in {m \in {file[i] : i \in DOMAIN file}
                                  \cup {op.staged[i] : i \in DOMAIN op.staged} :
                             IsCheckpoint(m) /\ m.seq > acked}},
    current <- base

\* The log implements the abstract store of checkpoints: what Kernel::open
\* restores is the last acknowledged checkpoint, or one whose append was cut
\* short.
StoreSpec == Store!StoreSpec
=============================================================================
