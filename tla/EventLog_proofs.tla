--------------------------- MODULE EventLog_proofs ---------------------------
(***************************************************************************)
(* Proofs about EventLog, for every bound, however often processes die,    *)
(* the power fails or the file system refuses an append.                   *)
(*                                                                         *)
(* First the type invariant and that no `recovered` line ever voids a      *)
(* checkpoint; the inductive invariant is TypeOK /\ VoidsBehind.           *)
(*                                                                         *)
(* Then, on top of it: the log implements CheckpointStore; the process     *)
(* that resumes a session sees nothing stale behind its checkpoint; and a  *)
(* log that no append failed on stays readable.  The inductive invariant   *)
(* is Inv with Shape, and with Intact for the logs without a failed        *)
(* append.  With failures, what the process holds in memory and what is in *)
(* the file may differ for good, so Shape speaks of the file only as far   *)
(* as it is in order: a reader refuses the rest.                           *)
(***************************************************************************)
EXTENDS EventLog, SequenceTheorems, WellFoundedInduction, TLAPS

Inv == TypeOK /\ VoidsBehind

\* The lines of a sequence, as a set.
Lines(s) == {s[i] : i \in DOMAIN s}

-----------------------------------------------------------------------------
(* Positions *)

\* The least-number principle, for a set of naturals.
LEMMA LeastNatural ==
    ASSUME NEW T \in SUBSET Nat, T # {}
    PROVE  \E m \in T : \A k \in T : m <= k
<1> DEFINE R == {ss \in Nat \X Nat : ss[1] < ss[2]}
<1>1. IsWellFoundedOn(R, Nat)
  BY NatLessThanWellFounded DEF OpToRel
<1>2. PICK m \in T : \A k \in T : <<k, m>> \notin R
  BY <1>1, WFMin
<1>3. ASSUME NEW k \in T
      PROVE  m <= k
  <2>1. k \in Nat /\ m \in Nat /\ <<k, m>> \notin R
    BY <1>2
  <2>2. ~ (k < m)
    BY <2>1
  <2>3. QED
    BY <2>1, <2>2
<1>4. QED
  BY <1>3

\* A non-empty set of positions of a file has a greatest element, and Max
\* (the readers' search from the end) is it.
LEMMA MaxIsGreatest ==
    ASSUME NEW n \in Nat, NEW S \in SUBSET (1 .. n), S # {}
    PROVE  Max(S) \in S /\ \A y \in S : y <= Max(S)
<1> DEFINE T == {n - x : x \in S}
<1>1. T \in SUBSET Nat
  BY SMT
<1>2. T # {}
  <2>1. PICK x \in S : TRUE
    OBVIOUS
  <2>2. n - x \in T
    OBVIOUS
  <2>3. QED
    BY <2>2
<1>3. PICK m \in T : \A k \in T : m <= k
  <2> HIDE DEF T
  <2>1. QED
    BY <1>1, <1>2, LeastNatural
<1>4. PICK x \in S : m = n - x
  OBVIOUS
<1>5. ASSUME NEW y \in S
      PROVE  x >= y
  <2>1. n - y \in T /\ x \in Nat /\ y \in Nat
    OBVIOUS
  <2>2. n - x <= n - y
    BY <2>1, <1>3, <1>4
  <2>3. QED
    BY <2>1, <2>2
<1>6. Max(S) \in S /\ \A y \in S : Max(S) >= y
  BY <1>5 DEF Max
<1>7. QED
  BY <1>6

-----------------------------------------------------------------------------
(* Sequences *)

\* The lines of a concatenation.
LEMMA LinesOfConcat ==
    ASSUME NEW S, NEW s \in Seq(S), NEW t \in Seq(S)
    PROVE  /\ s \o t \in Seq(S)
           /\ Len(s \o t) = Len(s) + Len(t)
           /\ Lines(s \o t) \subseteq Lines(s) \cup Lines(t)
<1>1. s \o t \in Seq(S) /\ Len(s \o t) = Len(s) + Len(t)
  OBVIOUS
<1>2. ASSUME NEW i \in DOMAIN (s \o t)
      PROVE  (s \o t)[i] \in Lines(s) \cup Lines(t)
  <2>1. i \in 1 .. Len(s) + Len(t) /\ Len(s) \in Nat /\ Len(t) \in Nat
    BY <1>1
  <2>2. CASE i <= Len(s)
    <3>1. i \in DOMAIN s /\ (s \o t)[i] = s[i]
      BY <2>1, <2>2
    <3>2. QED
      BY <3>1 DEF Lines
  <2>3. CASE i > Len(s)
    <3>1. i - Len(s) \in DOMAIN t /\ (s \o t)[i] = t[i - Len(s)]
      BY <2>1, <2>3
    <3>2. QED
      BY <3>1 DEF Lines
  <2>4. QED
    BY <2>1, <2>2, <2>3
<1>3. QED
  BY <1>1, <1>2 DEF Lines

\* The lines of a part of a sequence.
LEMMA LinesOfSubSeq ==
    ASSUME NEW S, NEW s \in Seq(S), NEW m \in 1 .. 2, NEW n \in 0 .. Len(s), m <= n + 1
    PROVE  /\ SubSeq(s, m, n) \in Seq(S)
           /\ Len(SubSeq(s, m, n)) = n + 1 - m
           /\ Lines(SubSeq(s, m, n)) \subseteq Lines(s)
<1>1. SubSeq(s, m, n) \in Seq(S) /\ Len(SubSeq(s, m, n)) = n + 1 - m
  OBVIOUS
<1>2. ASSUME NEW i \in DOMAIN SubSeq(s, m, n)
      PROVE  SubSeq(s, m, n)[i] \in Lines(s)
  <2>1. i \in 1 .. n + 1 - m
    BY <1>1
  <2>2. SubSeq(s, m, n)[i] = s[m + i - 1] /\ m + i - 1 \in DOMAIN s
    BY <2>1
  <2>3. QED
    BY <2>2 DEF Lines
<1>3. QED
  BY <1>1, <1>2 DEF Lines

\* The file is only ever appended to, and cut behind what is synced.
LEMMA WrittenProperties ==
    ASSUME TypeOK, op.staged # <<>>, NEW n \in 0 .. Len(op.staged)
    PROVE  /\ Written(n) \in Seq(LineType)
           /\ Len(Written(n)) = Len(file) + n
           /\ Lines(Written(n)) \subseteq AllLines \cup {Garbage}
<1>1. Garbage \in LineType
  BY SMTT(30) DEF TypeOK, Garbage, Line, NoSeq, NoRange, LineType, Kinds, Statuses
<1>2. file \in Seq(LineType) /\ op.staged \in Seq(LineType) /\ op.staged[1] \in LineType
  BY DEF TypeOK
<1>3. AllLines = Lines(file) \cup Lines(op.staged)
  BY DEF AllLines, Lines
<1>4. CASE n = 0
  BY <1>4, <1>2, <1>3 DEF Written
<1>5. CASE n > 0
  <2> DEFINE first == IF torn THEN <<Garbage>> ELSE <<op.staged[1]>>
  <2> DEFINE rest == SubSeq(op.staged, 2, n)
  <2>1. /\ first \in Seq(LineType)
        /\ Len(first) = 1
        /\ Lines(first) \subseteq {Garbage} \cup Lines(op.staged)
    BY <1>1, <1>2 DEF Lines
  <2>2. /\ rest \in Seq(LineType)
        /\ Len(rest) = n - 1
        /\ Lines(rest) \subseteq Lines(op.staged)
    BY <1>2, <1>5, LinesOfSubSeq
  <2>3. Written(n) = (file \o first) \o rest
    BY <1>5 DEF Written
  <2> HIDE DEF first, rest
  <2>4. /\ file \o first \in Seq(LineType)
        /\ Len(file \o first) = Len(file) + 1
        /\ Lines(file \o first) \subseteq Lines(file) \cup Lines(first)
    BY <1>2, <2>1, LinesOfConcat
  <2>5. /\ (file \o first) \o rest \in Seq(LineType)
        /\ Len((file \o first) \o rest) = Len(file \o first) + Len(rest)
        /\ Lines((file \o first) \o rest) \subseteq Lines(file \o first) \cup Lines(rest)
    BY <2>2, <2>4, LinesOfConcat
  <2>6. Len((file \o first) \o rest) = Len(file) + n
    BY <1>2, <2>2, <2>4, <2>5
  <2>7. QED
    BY <1>3, <2>1, <2>2, <2>3, <2>4, <2>5, <2>6
<1>6. QED
  BY <1>4, <1>5

-----------------------------------------------------------------------------
(* Steps *)

\* A step that puts no line but an unparsable one among the lines, and does
\* not start a process, keeps the ranges where they are.
LEMMA NoNewLine ==
    ASSUME Inv, TypeOK',
           AllLines' \subseteq AllLines \cup {Garbage},
           Running' => Running /\ Len(lines) <= Len(lines'),
           op'.at # "none" => Running' /\ op'.staged # <<>>,
           ctl' # "absent"
    PROVE  VoidsBehind'
<1>1. Garbage.kind = "garbage"
  BY DEF Garbage, Line
<1>2. \A r \in AllLines' : IsCheckpoint(r) \/ r.kind = "recovered" => r \in AllLines
  BY <1>1 DEF IsCheckpoint
<1>3. Apart(AllLines')
  BY <1>2 DEF Inv, VoidsBehind, Apart
<1>4. Behind(AllLines')
  BY <1>2 DEF Inv, VoidsBehind, Behind
<1>5. ASSUME Running'
      PROVE  \A r \in AllLines' : r.kind = "recovered" => r.void[2] < Len(lines')
  <2>1. BehindProcess(AllLines) /\ Len(lines) <= Len(lines')
    BY <1>5 DEF Inv, VoidsBehind
  <2>2. lines \in Seq(LineType) /\ lines' \in Seq(LineType)
    BY DEF Inv, TypeOK
  <2>3. ASSUME NEW r \in AllLines', r.kind = "recovered"
        PROVE  r.void[2] < Len(lines')
    <3>1. r \in AllLines
      BY <1>2, <2>3
    <3>2. r \in LineType
      BY <3>1 DEF Inv, TypeOK, AllLines
    <3>3. r.void[2] \in Int
      BY <3>2 DEF LineType
    <3>4. r.void[2] < Len(lines)
      BY <2>1, <2>3, <3>1 DEF BehindProcess
    <3>5. QED
      BY <2>1, <2>2, <3>3, <3>4
  <2>4. QED
    BY <2>3
<1>6. QED
  BY <1>3, <1>4, <1>5 DEF VoidsBehind, Apart, Behind, BehindProcess, Running

\* A line staged by a live process lies behind every range: its seq is
\* lines.len().
LEMMA StageKeepsInv ==
    ASSUME Inv, ctl = "live",
           NEW l \in LineType, l.kind # "recovered", l.seq = Len(lines), Stage(l)
    PROVE  Inv'
<1> DEFINE w == Plain(l.seq + 1, "warning", FALSE)
<1>1. w \in LineType /\ w.kind = "warning"
  BY DEF Inv, TypeOK, Plain, Line, LineType, Kinds, Statuses, NoRange
<1>2. /\ stage(l) \in Seq(LineType)
      /\ stage(l) # <<>>
      /\ Lines(stage(l)) \subseteq {l, w}
  <2>1. CASE l.late
    <3>1. stage(l) = <<l, w>>
      BY <2>1 DEF stage
    <3> HIDE DEF w
    <3>2. <<l, w>> \in Seq(LineType) /\ <<l, w>> # <<>>
      BY <1>1
    <3>3. Lines(<<l, w>>) \subseteq {l, w}
      BY DEF Lines
    <3>4. QED
      BY <3>1, <3>2, <3>3
  <2>2. CASE ~ l.late
    <3>1. stage(l) = <<l>>
      BY <2>2 DEF stage
    <3> HIDE DEF w
    <3>2. <<l>> \in Seq(LineType) /\ <<l>> # <<>> /\ Lines(<<l>>) \subseteq {l}
      BY DEF Lines
    <3>3. QED
      BY <3>1, <3>2
  <2>3. QED
    BY <2>1, <2>2
<1>3. op' = [at |-> "write", staged |-> stage(l)]
  BY DEF Stage
<1> HIDE DEF w
<1>4. TypeOK'
  <2>1. op' \in [at : {"none", "write", "sync", "extend"}, staged : Seq(LineType)]
    BY <1>2, <1>3
  <2>2. QED
    BY <2>1 DEF Inv, TypeOK, Stage
<1>5. AllLines' \subseteq AllLines \cup {l, w}
  BY <1>2, <1>3 DEF AllLines, Lines, Stage
<1>6. Running /\ BehindProcess(AllLines)
  BY DEF Inv, VoidsBehind, Running
<1>7. \A r \in AllLines' : r.kind = "recovered" => r \in AllLines
  BY <1>1, <1>5
<1>8. \A c \in AllLines' : IsCheckpoint(c) => c \in AllLines \/ c = l
  BY <1>1, <1>5 DEF IsCheckpoint
<1>9. ASSUME NEW c \in AllLines', NEW r \in AllLines', IsCheckpoint(c), r.kind = "recovered"
      PROVE  ~ (r.void[1] <= c.seq /\ c.seq <= r.void[2])
  <2>1. CASE c \in AllLines
    BY <1>7, <1>9, <2>1 DEF Inv, VoidsBehind, Apart
  <2>2. CASE c = l
    <3>1. r \in AllLines
      BY <1>7, <1>9
    <3>2. r \in LineType
      BY <3>1 DEF Inv, TypeOK, AllLines
    <3>3. r.void[2] \in Int /\ Len(lines) \in Nat
      BY <3>2 DEF LineType, Inv, TypeOK
    <3>4. r.void[2] < Len(lines)
      BY <1>6, <1>9, <3>1 DEF BehindProcess
    <3>5. QED
      BY <2>2, <3>3, <3>4
  <2>3. QED
    BY <1>8, <1>9, <2>1, <2>2
<1>10. Apart(AllLines') /\ Behind(AllLines')
  BY <1>7, <1>9 DEF Apart, Behind, Inv, VoidsBehind
<1>11. lines' = lines /\ ctl' = ctl
  BY DEF Stage
<1>12. \A r \in AllLines' : r.kind = "recovered" => r.void[2] < Len(lines')
  BY <1>6, <1>7, <1>11 DEF BehindProcess
<1>13. VoidsBehind'
  BY <1>2, <1>3, <1>6, <1>10, <1>11, <1>12 DEF VoidsBehind, Apart, Behind, BehindProcess, Running
<1>14. QED
  BY <1>4, <1>13 DEF Inv

\* Kernel::open finds the last checkpoint of the whole file, since none of
\* them is voided: no checkpoint has a greater seq.
LEMMA LatestIsLast ==
    ASSUME TypeOK, VoidsBehind, parse_log(file), latest_checkpoint(file) # 0
    PROVE  /\ LatestSeq(file) \in Int
           /\ \A c \in Lines(file) : IsCheckpoint(c) => c.seq <= LatestSeq(file)
<1> DEFINE C == {i \in effective(file) : IsCheckpoint(file[i])}
<1>1. file \in Seq(LineType) /\ DOMAIN file = 1 .. Len(file) /\ Len(file) \in Nat
  BY DEF TypeOK
<1>2. ASSUME NEW i \in DOMAIN file, IsCheckpoint(file[i])
      PROVE  i \in C
  <2>1. ASSUME NEW v \in discarded_seqs(file)
        PROVE  ~ (v[1] <= file[i].seq /\ file[i].seq <= v[2])
    <3>1. PICK j \in DOMAIN file : file[j].kind = "recovered" /\ v = file[j].void
      BY DEF discarded_seqs
    <3>2. file[i] \in AllLines /\ file[j] \in AllLines
      BY DEF AllLines
    <3>3. QED
      BY <1>2, <3>1, <3>2 DEF VoidsBehind, Apart
  <2>2. ~ is_discarded(discarded_seqs(file), file[i].seq)
    BY <2>1 DEF is_discarded
  <2>3. QED
    BY <1>2, <2>2 DEF effective
<1>3. C \in SUBSET (1 .. Len(file))
  BY <1>1 DEF effective
<1>4. C # {} /\ latest_checkpoint(file) = Max(C)
  BY DEF latest_checkpoint
<1> HIDE DEF C
<1>5. Max(C) \in C /\ \A y \in C : y <= Max(C)
  BY <1>1, <1>3, <1>4, MaxIsGreatest
<1>6. \A i \in DOMAIN file : file[i].seq = i - 1
  BY DEF parse_log
<1>7. LatestSeq(file) = Max(C) - 1 /\ Max(C) \in 1 .. Len(file)
  BY <1>1, <1>3, <1>4, <1>5, <1>6 DEF LatestSeq
<1>8. ASSUME NEW c \in Lines(file), IsCheckpoint(c)
      PROVE  c.seq <= LatestSeq(file)
  <2>1. PICK i \in DOMAIN file : c = file[i]
    BY DEF Lines
  <2>2. i \in C /\ c.seq = i - 1 /\ i \in Nat
    BY <1>1, <1>2, <1>6, <1>8, <2>1
  <2>3. i <= Max(C)
    BY <1>5, <2>2
  <2>4. QED
    BY <1>7, <2>2, <2>3
<1>9. QED
  BY <1>7, <1>8

\* The range it voids ends before the line that voids it and starts after
\* every checkpoint.
LEMMA DiscardedProperties ==
    ASSUME TypeOK, VoidsBehind, parse_log(file), latest_checkpoint(file) # 0
    PROVE  /\ discarded_seq(file) \in Int \X Int
           /\ discarded_seq(file)[2] < Len(file)
           /\ \A c \in Lines(file) : IsCheckpoint(c)
                 => ~ (discarded_seq(file)[1] <= c.seq /\ c.seq <= discarded_seq(file)[2])
<1>1. file \in Seq(LineType) /\ Len(file) \in Nat
  BY DEF TypeOK
<1>2. LatestSeq(file) \in Int /\ \A c \in Lines(file) : IsCheckpoint(c) => c.seq <= LatestSeq(file)
  BY LatestIsLast
<1>3. ASSUME NEW c \in Lines(file)
      PROVE  c.seq \in Int
  <2>1. c \in LineType
    BY <1>1 DEF Lines
  <2>2. QED
    BY <2>1 DEF LineType
<1>4. CASE LatestSeq(file) < Len(file) - 1
  <2>1. discarded_seq(file) = <<LatestSeq(file) + 1, Len(file) - 1>>
    BY <1>4 DEF discarded_seq
  <2>2. QED
    BY <1>1, <1>2, <1>3, <2>1
<1>5. CASE ~ (LatestSeq(file) < Len(file) - 1)
  <2>1. discarded_seq(file) = <<0, -1>>
    BY <1>5 DEF discarded_seq, NoRange
  <2>2. QED
    BY <1>1, <1>3, <2>1
<1>6. QED
  BY <1>4, <1>5

\* Opening the session stages one line, which keeps the ranges apart from the
\* checkpoints.
LEMMA OpenKeepsInv ==
    ASSUME Inv, Open
    PROVE  Inv'
<1> USE DEF Inv
<1>1. op.at = "none" /\ ctl = "down"
  BY DEF VoidsBehind, Running, Open
<1>2. ASSUME NEW why \in {"unreadable", "no_checkpoint", "hash_mismatch", "done"}, Refuse(why)
      PROVE  Inv'
  <2>1. TypeOK'
    BY <1>2 DEF TypeOK, Refuse, Ctls
  <2>2. AllLines' = AllLines /\ ~ Running' /\ op' = op /\ ctl' # "absent"
    BY <1>2 DEF AllLines, Refuse, Running
  <2>3. VoidsBehind'
    BY <1>1, <2>1, <2>2, NoNewLine
  <2>4. QED
    BY <2>1, <2>3
<1>3. ASSUME parse_log(file), latest_checkpoint(file) # 0,
             opens' = opens + 1, torn' = FALSE, lines' = file, ctl' = "opening",
             base' = LatestSeq(file), UNCHANGED <<file, synced, faults, acked>>,
             NEW l \in {Line(Len(file), "resumed", "busy", NoRange, FALSE, opens + 1),
                        Line(Len(file), "recovered", "busy", discarded_seq(file), FALSE, opens + 1)},
             op' = [at |-> "write", staged |-> <<l>>]
      PROVE  Inv'
  <2>1. file \in Seq(LineType) /\ Len(file) \in Nat /\ opens \in Nat
    BY DEF TypeOK
  <2>2. /\ discarded_seq(file) \in Int \X Int
        /\ discarded_seq(file)[2] < Len(file)
        /\ \A c \in Lines(file) : IsCheckpoint(c)
              => ~ (discarded_seq(file)[1] <= c.seq /\ c.seq <= discarded_seq(file)[2])
    BY <1>3, DiscardedProperties
  <2>3. LatestSeq(file) \in Int
    BY <1>3, LatestIsLast
  <2>4. l \in LineType
    <3>1. CASE l = Line(Len(file), "resumed", "busy", NoRange, FALSE, opens + 1)
      BY <2>1, <3>1 DEF Line, LineType, Kinds, Statuses, NoRange
    <3>2. CASE l = Line(Len(file), "recovered", "busy", discarded_seq(file), FALSE, opens + 1)
      BY <2>1, <2>2, <3>2 DEF Line, LineType, Kinds, Statuses
    <3>3. QED
      BY <1>3, <3>1, <3>2
  <2>5. ~ IsCheckpoint(l) /\ l.seq = Len(file)
    BY <1>3 DEF Line, IsCheckpoint
  <2>6. l.kind = "recovered" => l.void = discarded_seq(file)
    BY <1>3 DEF Line
  <2>7. op' \in [at : {"none", "write", "sync", "extend"}, staged : Seq(LineType)]
    BY <1>3, <2>4
  <2>8. TypeOK'
    <3>1. opens' \in Nat /\ ctl' \in Ctls
      BY <1>3, <2>1 DEF Ctls
    <3>9. torn' \in BOOLEAN
      BY <1>3, Zenon
    <3>2. base' \in Int /\ lines' \in Seq(LineType)
      BY <1>3, <2>1, <2>3
    <3>3. file' \in Seq(LineType) /\ synced' \in 0 .. Len(file') /\ faults' \in Nat /\ acked' \in Int
      BY <1>3 DEF TypeOK
    <3>4. QED
      BY <2>7, <3>1, <3>2, <3>3, <3>9 DEF TypeOK
  <2>9. AllLines' \subseteq Lines(file) \cup {l} /\ Lines(file) \subseteq AllLines
    BY <1>3 DEF AllLines, Lines
  <2>10. ASSUME NEW r \in Lines(file), r.kind = "recovered"
         PROVE  r.void[2] < r.seq /\ r.void[2] < Len(file)
    <3>1. PICK j \in DOMAIN file : r = file[j]
      BY DEF Lines
    <3>2. r \in LineType /\ r.seq = j - 1 /\ j \in 1 .. Len(file)
      BY <1>3, <2>1, <3>1 DEF parse_log
    <3>3. r.void[2] < r.seq
      BY <2>9, <2>10 DEF VoidsBehind, Behind
    <3>4. r.void[2] \in Int
      BY <3>2 DEF LineType
    <3>5. QED
      BY <2>1, <3>2, <3>3, <3>4
  <2>11. ASSUME NEW c \in AllLines', NEW r \in AllLines', IsCheckpoint(c), r.kind = "recovered"
         PROVE  ~ (r.void[1] <= c.seq /\ c.seq <= r.void[2])
    <3>1. c \in Lines(file)
      BY <2>5, <2>9, <2>11
    <3>2. CASE r \in Lines(file)
      BY <2>9, <2>11, <3>1, <3>2 DEF VoidsBehind, Apart
    <3>3. CASE r = l
      BY <2>2, <2>6, <2>11, <3>1, <3>3
    <3>4. QED
      BY <2>9, <3>2, <3>3
  <2>12. ASSUME NEW r \in AllLines', r.kind = "recovered"
         PROVE  r.void[2] < r.seq /\ r.void[2] < Len(lines')
    <3>1. CASE r \in Lines(file)
      BY <1>3, <2>10, <2>12, <3>1
    <3>2. CASE r = l
      BY <1>3, <2>2, <2>5, <2>6, <2>12, <3>2
    <3>3. QED
      BY <2>9, <3>1, <3>2
  <2>13. op'.staged # <<>> /\ ctl' = "opening"
    BY <1>3
  <2>14. VoidsBehind'
    BY <2>11, <2>12, <2>13 DEF VoidsBehind, Apart, Behind, BehindProcess, Running
  <2>15. QED
    BY <2>8, <2>14
<1>4. QED
  BY <1>2, <1>3 DEF Open

\* An append that fails: the process goes on with the lines it had, or gives up.
LEMMA FailKeepsInv ==
    ASSUME Inv, Fail, op.at # "none",
           file' \in Seq(LineType), Len(file) <= Len(file'), torn' \in BOOLEAN,
           Lines(file') \subseteq AllLines \cup {Garbage}
    PROVE  Inv'
<1> USE DEF Inv
<1>1. op' = NoOp /\ NoOp.at = "none" /\ NoOp.staged = <<>>
  BY DEF Fail, NoOp
<1>2. lines' \in Seq(LineType) /\ ctl' \in {"live", "down"} /\ (ctl' = "live" => ctl = "live" /\ lines' = lines)
  BY DEF Fail, TypeOK
<1>3. TypeOK'
  <2>1. op' \in [at : {"none", "write", "sync", "extend"}, staged : Seq(LineType)]
    BY <1>1 DEF NoOp
  <2>2. synced' \in 0 .. Len(file') /\ faults' \in Nat
    BY DEF Fail, TypeOK
  <2>3. QED
    BY <1>2, <2>1, <2>2 DEF TypeOK, Fail, Ctls
<1>4. AllLines' \subseteq AllLines \cup {Garbage}
  BY <1>1 DEF AllLines, Lines
<1>5. Running' => Running /\ Len(lines) <= Len(lines')
  BY <1>2 DEF Running, TypeOK
<1>6. ctl' # "absent"
  BY <1>2
<1>7. QED
  BY <1>1, <1>3, <1>4, <1>5, <1>6, NoNewLine

\* The end of a process: no process runs, and the file holds nothing new.
LEMMA DieKeepsInv ==
    ASSUME Inv, NEW f \in Seq(LineType), NEW t \in BOOLEAN, Die(f, t),
           synced <= Len(f), Lines(f) \subseteq AllLines \cup {Garbage}
    PROVE  Inv'
<1> USE DEF Inv
<1>1. op' = NoOp /\ NoOp.at = "none" /\ NoOp.staged = <<>> /\ file' = f /\ ctl' = "down"
  BY DEF Die, NoOp
<1>2. TypeOK'
  <2>1. op' \in [at : {"none", "write", "sync", "extend"}, staged : Seq(LineType)]
    BY <1>1 DEF NoOp
  <2>2. synced' \in 0 .. Len(file') /\ lines' \in Seq(LineType)
    BY DEF Die, TypeOK
  <2>3. QED
    BY <2>1, <2>2 DEF TypeOK, Die, Ctls
<1>3. AllLines' \subseteq AllLines \cup {Garbage}
  <2>1. (DOMAIN op.staged)' = {}
    BY <1>1
  <2>2. AllLines' = Lines(f)
    BY <1>1, <2>1 DEF AllLines, Lines
  <2>3. QED
    BY <2>2
<1>4. ~ Running'
  BY <1>1 DEF Running
<1>5. QED
  BY <1>1, <1>2, <1>3, <1>4, NoNewLine

\* The first line of a log, staged by Create.
LEMMA CreateKeepsInv ==
    ASSUME Inv, Create
    PROVE  Inv'
<1> USE DEF Inv
<1> DEFINE l == Line(0, "log_opened", "busy", NoRange, FALSE, opens + 1)
<1>1. l \in LineType /\ l.kind = "log_opened"
  BY DEF TypeOK, Line, LineType, Kinds, Statuses, NoRange
<1>2. op' = [at |-> "write", staged |-> <<l>>] /\ file' = file /\ AllLines = {}
  BY DEF Create, VoidsBehind
<1> HIDE DEF l
<1>3. TypeOK'
  <2>1. op' \in [at : {"none", "write", "sync", "extend"}, staged : Seq(LineType)]
    BY <1>1, <1>2
  <2>2. opens' \in Nat /\ ctl' \in Ctls
    BY DEF TypeOK, Create, Ctls
  <2>3. QED
    BY <2>1, <2>2 DEF TypeOK, Create
<1>4. AllLines' \subseteq {l}
  <2>1. \A i \in DOMAIN file : file[i] \in AllLines
    BY DEF AllLines
  <2>2. DOMAIN file = {}
    BY <1>2, <2>1
  <2>3. \A i \in DOMAIN op'.staged : op'.staged[i] = l
    BY <1>2
  <2>4. QED
    BY <1>2, <2>2, <2>3 DEF AllLines
<1>5. \A r \in AllLines' : ~ IsCheckpoint(r) /\ r.kind # "recovered"
  BY <1>1, <1>4 DEF IsCheckpoint
<1>6. op'.staged # <<>> /\ ctl' = "opening"
  BY <1>2 DEF Create
<1>7. VoidsBehind'
  BY <1>5, <1>6 DEF VoidsBehind, Apart, Behind, BehindProcess, Running
<1>8. QED
  BY <1>3, <1>7

-----------------------------------------------------------------------------
(* The invariant *)

\* The invariant holds of a session that has no log yet.
LEMMA InitInv == Init => Inv
<1> SUFFICES ASSUME Init
             PROVE  Inv
  OBVIOUS
<1>1. TypeOK
  <2>1. file \in Seq(LineType) /\ synced \in 0 .. Len(file) /\ lines \in Seq(LineType)
    BY DEF Init
  <2>2. op \in [at : {"none", "write", "sync", "extend"}, staged : Seq(LineType)]
    BY DEF Init, NoOp
  <2>3. base \in Int /\ acked \in Int /\ opens \in Nat /\ faults \in Nat
    BY DEF Init, NoSeq
  <2>4. torn \in BOOLEAN /\ ctl \in Ctls
    BY DEF Init, Ctls
  <2>5. QED
    BY <2>1, <2>2, <2>3, <2>4 DEF TypeOK
<1>2. AllLines = {}
  BY DEF Init, AllLines, NoOp
<1>3. VoidsBehind
  BY <1>2 DEF Init, VoidsBehind, Apart, Behind, BehindProcess, NoOp
<1>4. QED
  BY <1>1, <1>3 DEF Inv

\* Every step of the log keeps the invariant: the kernel's appends, the parts
\* of FileEventLog::append, the ends of a process and Kernel::open.
LEMMA NextInv == Inv /\ [Next]_vars => Inv'
<1> SUFFICES ASSUME Inv, [Next]_vars
             PROVE  Inv'
  OBVIOUS
<1> USE DEF Inv
<1>1. /\ file \in Seq(LineType) /\ op.staged \in Seq(LineType) /\ lines \in Seq(LineType)
      /\ Len(file) \in Nat /\ Len(lines) \in Nat /\ opens \in Nat /\ torn \in BOOLEAN
  BY DEF TypeOK
<1>2. Lines(file) \subseteq AllLines
  BY DEF Lines, AllLines
<1>3. CASE Create
  BY <1>3, CreateKeepsInv
<1>4. CASE AppendEvent
  <2>1. PICK late \in BOOLEAN : Stage(Plain(NextSeq, "event", late))
    BY <1>4 DEF AppendEvent
  <2>2. /\ Plain(NextSeq, "event", late) \in LineType
        /\ Plain(NextSeq, "event", late).kind = "event"
        /\ Plain(NextSeq, "event", late).seq = Len(lines)
    BY <1>1 DEF Plain, Line, NextSeq, LineType, Kinds, Statuses, NoRange
  <2>3. ctl = "live"
    BY <1>4 DEF AppendEvent, Live
  <2>4. QED
    BY <2>1, <2>2, <2>3, StageKeepsInv
<1>5. CASE AppendCheckpoint
  <2>1. PICK st \in Statuses, late \in BOOLEAN :
           Stage(Line(NextSeq, "checkpoint", st, NoRange, late, opens))
    BY <1>5 DEF AppendCheckpoint
  <2> DEFINE l == Line(NextSeq, "checkpoint", st, NoRange, late, opens)
  <2>2. l \in LineType /\ l.kind = "checkpoint" /\ l.seq = Len(lines)
    BY <1>1 DEF Line, NextSeq, LineType, Kinds, Statuses, NoRange
  <2>3. ctl = "live"
    BY <1>5 DEF AppendCheckpoint, Live
  <2>4. QED
    BY <2>1, <2>2, <2>3, StageKeepsInv
<1>6. CASE AppendEnd
  <2> DEFINE l == Line(NextSeq, "end", LastAsked.status, NoRange, FALSE, opens)
  <2>1. ctl = "live" /\ LastAsked.status \in Statuses /\ Stage(l)
    BY <1>6 DEF AppendEnd
  <2>2. l \in LineType /\ l.kind = "end" /\ l.seq = Len(lines)
    BY <1>1, <2>1 DEF Line, NextSeq, LineType, Kinds, NoRange
  <2>3. QED
    BY <2>1, <2>2, StageKeepsInv
<1>7. CASE Write
  <2>1. op.at = "write" /\ op.staged # <<>> /\ Running
    BY <1>7 DEF Write, VoidsBehind
  <2>2. Len(op.staged) \in 0 .. Len(op.staged)
    BY <1>1
  <2>3. /\ file' = Written(Len(op.staged))
        /\ file' \in Seq(LineType)
        /\ Len(file') = Len(file) + Len(op.staged)
        /\ Lines(file') \subseteq AllLines \cup {Garbage}
    BY <1>7, <2>1, <2>2, WrittenProperties DEF Write
  <2>4. op'.staged = op.staged /\ op' \in [at : {"none", "write", "sync", "extend"}, staged : Seq(LineType)]
    BY <1>7 DEF Write, TypeOK
  <2>5. synced' \in 0 .. Len(file')
    BY <1>1, <1>7, <2>3 DEF Write, TypeOK
  <2>6. TypeOK'
    BY <1>7, <2>3, <2>4, <2>5 DEF Write, TypeOK
  <2>7. AllLines' \subseteq AllLines \cup {Garbage}
    BY <2>3, <2>4 DEF AllLines, Lines
  <2>8. lines' = lines /\ ctl' = ctl
    BY <1>7 DEF Write
  <2>9. Running' /\ Running /\ Len(lines) <= Len(lines') /\ ctl' # "absent"
    BY <1>1, <2>1, <2>8 DEF Running
  <2>10. QED
    BY <2>1, <2>4, <2>6, <2>7, <2>9, NoNewLine
<1>8. CASE Sync
  <2>1. op.at = "sync" /\ op.staged # <<>> /\ Running
    BY <1>8 DEF Sync, VoidsBehind
  <2>2. op'.staged = op.staged /\ op' \in [at : {"none", "write", "sync", "extend"}, staged : Seq(LineType)]
    BY <1>8 DEF Sync, TypeOK
  <2>3. TypeOK'
    BY <1>1, <1>8, <2>2 DEF Sync, TypeOK
  <2>4. AllLines' = AllLines /\ lines' = lines /\ ctl' = ctl
    BY <1>8, <2>2 DEF Sync, AllLines
  <2>5. Running' /\ Len(lines) <= Len(lines') /\ ctl' # "absent"
    BY <1>1, <2>1, <2>4 DEF Running
  <2>6. QED
    BY <2>1, <2>2, <2>3, <2>4, <2>5, NoNewLine
<1>9. CASE Extend
  <2>1. op.at = "extend" /\ op.staged # <<>> /\ Running
    BY <1>9 DEF Extend, VoidsBehind
  <2>2. op' = NoOp /\ NoOp.at = "none" /\ NoOp.staged = <<>> /\ ctl' = "live" /\ file' = file
    BY <1>9 DEF Extend, NoOp
  <2>3. lines' \in Seq(LineType) /\ Len(lines) <= Len(lines')
    BY <1>1, <1>9 DEF Extend
  <2>4. op.staged[1] \in LineType
    BY <1>1, <2>1
  <2>5. op.staged[1].seq \in Int
    BY <2>4 DEF LineType
  <2>6. base' \in Int /\ acked' \in Int
    BY <1>9, <2>5 DEF Extend, TypeOK
  <2>7. op' \in [at : {"none", "write", "sync", "extend"}, staged : Seq(LineType)]
    BY <2>2 DEF NoOp
  <2>8. TypeOK'
    BY <1>9, <2>3, <2>6, <2>7 DEF Extend, TypeOK, Ctls
  <2>9. AllLines' \subseteq AllLines
    BY <2>2 DEF AllLines
  <2>10. QED
    BY <2>1, <2>2, <2>3, <2>8, <2>9, NoNewLine DEF Running
<1>10. CASE ShortWrite
  <2>1. op.at = "write" /\ op.staged # <<>> /\ Fail
    BY <1>10 DEF ShortWrite, VoidsBehind
  <2>2. PICK n \in 0 .. Len(op.staged) - 1 :
           /\ file' = Written(n)
           /\ torn' \in (IF n = 0 THEN {torn, TRUE} ELSE BOOLEAN)
    BY <1>10 DEF ShortWrite
  <2>3. n \in 0 .. Len(op.staged)
    BY <1>1
  <2>4. /\ file' \in Seq(LineType)
        /\ Len(file') = Len(file) + n
        /\ Lines(file') \subseteq AllLines \cup {Garbage}
    BY <2>1, <2>2, <2>3, WrittenProperties
  <2>5. torn' \in BOOLEAN
    BY <1>1, <2>2, Zenon
  <2>6. Len(file) <= Len(file')
    BY <1>1, <2>3, <2>4
  <2>7. QED
    BY <2>1, <2>4, <2>5, <2>6, FailKeepsInv
<1>11. CASE SyncFail
  <2>1. op.at # "none" /\ Fail /\ file' = file /\ torn' = torn
    BY <1>11 DEF SyncFail
  <2>2. QED
    BY <1>1, <1>2, <2>1, FailKeepsInv
<1>12. CASE Crash
  <2>1. CASE op.at = "write"
    <3>1. op.staged # <<>>
      BY <2>1 DEF VoidsBehind
    <3>2. PICK n \in 0 .. Len(op.staged) :
             \E t \in (IF n = 0 THEN {torn, TRUE}
                       ELSE IF n = Len(op.staged) THEN {FALSE} ELSE BOOLEAN) :
                Die(Written(n), t)
      BY <1>12, <2>1 DEF Crash
    <3>3. PICK t \in BOOLEAN : Die(Written(n), t)
      BY <1>1, <3>2, Zenon
    <3>4. /\ Written(n) \in Seq(LineType)
          /\ Len(Written(n)) = Len(file) + n
          /\ Lines(Written(n)) \subseteq AllLines \cup {Garbage}
      BY <3>1, WrittenProperties
    <3>5. synced <= Len(Written(n))
      BY <1>1, <3>4 DEF TypeOK
    <3>6. QED
      BY <3>3, <3>4, <3>5, DieKeepsInv
  <2>2. CASE op.at # "write"
    <3>1. Die(file, torn)
      BY <1>12, <2>2 DEF Crash
    <3>2. synced <= Len(file)
      BY <1>1 DEF TypeOK
    <3>3. QED
      BY <1>1, <1>2, <3>1, <3>2, DieKeepsInv
  <2>3. QED
    BY <2>1, <2>2
<1>13. CASE PowerLoss
  <2>1. PICK n \in synced .. Len(file), t \in BOOLEAN : Die(SubSeq(file, 1, n), t)
    BY <1>13 DEF PowerLoss
  <2>2. n \in 0 .. Len(file) /\ 1 <= n + 1 /\ synced <= n
    BY <1>1 DEF TypeOK
  <2>3. /\ SubSeq(file, 1, n) \in Seq(LineType)
        /\ Len(SubSeq(file, 1, n)) = n + 1 - 1
        /\ Lines(SubSeq(file, 1, n)) \subseteq Lines(file)
    BY <1>1, <2>2, LinesOfSubSeq
  <2>4. synced <= Len(SubSeq(file, 1, n))
    BY <1>1, <2>2, <2>3
  <2>5. QED
    BY <1>2, <2>1, <2>3, <2>4, DieKeepsInv
<1>14. CASE Open
  BY <1>14, OpenKeepsInv
<1>15. CASE UNCHANGED vars
  <2>1. TypeOK'
    BY <1>15 DEF TypeOK, vars
  <2>2. AllLines' = AllLines /\ op' = op /\ ctl' = ctl /\ lines' = lines
    BY <1>15 DEF vars, AllLines
  <2>3. VoidsBehind'
    BY <2>2 DEF VoidsBehind, Running, Apart, Behind, BehindProcess
  <2>4. QED
    BY <2>1, <2>3
<1>16. QED
  BY <1>3, <1>4, <1>5, <1>6, <1>7, <1>8, <1>9, <1>10, <1>11, <1>12, <1>13, <1>14, <1>15 DEF Next

\* The inductive invariant holds: TypeOK, and every voided range lies behind
\* the line that voids it, behind what the process will write, and apart from
\* every checkpoint (FileEventLog::append and Kernel::open together).
THEOREM LogInvariant == Spec => [](TypeOK /\ VoidsBehind)
<1>1. Init => Inv
  BY InitInv
<1>2. Inv /\ [Next]_vars => Inv'
  BY NextInv
<1>3. Spec => []Inv
  BY <1>1, <1>2, PTL DEF Spec
<1>4. QED
  BY <1>3, PTL DEF Inv

\* Every variable of the log has its type, in every reachable state.
THEOREM LogTypeCorrect == Spec => []TypeOK
<1>1. TypeOK /\ VoidsBehind => TypeOK
  OBVIOUS
<1>2. QED
  BY <1>1, LogInvariant, PTL

\* No `recovered` line of the file voids a checkpoint (Kernel::open), for any
\* number of lines, processes and refused appends: the last checkpoint whose
\* append returned is never lost to a recovery.
THEOREM CheckpointsNeverVoided == Spec => []NoCheckpointVoided
<1>1. ASSUME TypeOK, VoidsBehind
      PROVE  NoCheckpointVoided
  <2>1. Lines(file) \subseteq AllLines
    BY DEF Lines, AllLines
  <2>2. ASSUME NEW i \in DOMAIN file, NEW j \in DOMAIN file,
               IsCheckpoint(file[i]), file[j].kind = "recovered"
        PROVE  ~ is_discarded({file[j].void}, file[i].seq)
    <3>1. file[i] \in AllLines /\ file[j] \in AllLines
      BY <2>1 DEF Lines
    <3>2. ~ (file[j].void[1] <= file[i].seq /\ file[i].seq <= file[j].void[2])
      BY <1>1, <2>2, <3>1 DEF VoidsBehind, Apart
    <3>3. QED
      BY <3>2 DEF is_discarded
  <2>3. QED
    BY <2>2 DEF NoCheckpointVoided
<1>2. TypeOK /\ VoidsBehind => NoCheckpointVoided
  BY <1>1
<1>3. QED
  BY <1>2, LogInvariant, PTL

-----------------------------------------------------------------------------
(* The log as a store of checkpoints *)

\* The first n lines are what parse_log accepts: parsable and in order.
Ordered(s, n) == \A i \in 1 .. n : s[i].kind # "garbage" /\ s[i].seq = i - 1

\* Nothing but warnings of the writer stands between position e and the
\* checkpoint before it.
FollowsCheckpoint(s, e) ==
    \E p \in 1 .. e - 1 :
        IsCheckpoint(s[p]) /\ \A k \in p + 1 .. e - 1 : s[k].kind = "warning"

\* The record of an end belongs to the checkpoint right before it.
EndsFollow(s) ==
    \A e \in DOMAIN s : s[e].kind = "end" /\ Ordered(s, e) => FollowsCheckpoint(s, e)

\* What NoStaleTail says, of any lines and any process.
FreshTail(s, process) ==
    \A i \in effective(s) :
        i > latest_checkpoint(s) => s[i].by = process \/ s[i].kind \in {"end", "warning"}

\* The staged lines continue the lines in memory; none but the first is more
\* than a warning.
Staged ==
    /\ op.at = "none" => op.staged = <<>>
    /\ op.at # "none" =>
          \A i \in DOMAIN op.staged :
              /\ op.staged[i].seq = Len(lines) + i - 1
              /\ op.staged[i].by = opens
              /\ op.staged[i].kind # "garbage"
              /\ i > 1 => op.staged[i].kind = "warning"
    /\ op.at # "none" =>
          /\ IsCheckpoint(op.staged[1]) => Len(lines) <= MaxLines
          /\ op.staged[1].kind = "end" => FollowsCheckpoint(lines, Len(lines) + 1)
          /\ lines = <<>> => op.staged[1].kind = "log_opened"
    /\ op.at = "extend" /\ needs_fsync(op.staged[1]) => synced = Len(file)

\* What a process holds in memory is in the file, if the file is in order.
Memory ==
    /\ ctl = "live" => lines # <<>>
    /\ ~ Running => lines = <<>>
    /\ Running /\ lines # <<>> => lines[1].kind = "log_opened"
    /\ Running /\ op.at \in {"none", "write"} =>
          /\ Len(lines) <= Len(file)
          /\ Ordered(file, Len(file)) /\ Len(file) = Len(lines) => file = lines
    /\ Running /\ op.at \in {"sync", "extend"} =>
          /\ Len(lines) + Len(op.staged) <= Len(file)
          /\ Ordered(file, Len(file)) => file = lines \o op.staged

\* The acknowledged checkpoint is in the synced part of the file.
Durable ==
    /\ acked >= NoSeq
    /\ acked # NoSeq /\ Ordered(file, synced) =>
          acked < synced /\ IsCheckpoint(file[acked + 1])

\* The next line of the process lies behind every checkpoint there is.
Ahead ==
    Running =>
        /\ acked < Len(lines)
        /\ \A c \in AllLines : IsCheckpoint(c) => c.seq <= Len(lines)

Fresh ==
    /\ ctl = "live" => FreshTail(lines, opens)
    /\ op.at # "none" => FreshTail(lines \o op.staged, opens)

Shape == Staged /\ Memory /\ Durable /\ Ahead /\ EndsFollow(file) /\ Fresh

\* Without a failed append the file is in order, and is what the process
\* holds and what it has written.
Intact ==
    faults = 0 =>
        /\ Ordered(file, Len(file))
        /\ file # <<>> => file[1].kind = "log_opened"
        /\ ctl \in {"absent", "opening", "live"} => ~ torn
        /\ Running => Len(file) = Len(lines) + (IF op.at \in {"sync", "extend"}
                                                THEN Len(op.staged) ELSE 0)
        /\ ctl = "unreadable" => file = <<>>

-----------------------------------------------------------------------------
(* Lines *)

\* What is in order is in order up to every earlier position.
LEMMA OrderedPrefix ==
    ASSUME NEW s, NEW t, NEW n \in Nat, NEW m \in 0 .. n, Ordered(s, n),
           \A i \in 1 .. m : t[i] = s[i]
    PROVE  Ordered(t, m)
<1>1. ASSUME NEW i \in 1 .. m
      PROVE  t[i].kind # "garbage" /\ t[i].seq = i - 1
  <2>1. i \in 1 .. n /\ t[i] = s[i]
    OBVIOUS
  <2>2. QED
    BY <2>1 DEF Ordered
<1>2. QED
  BY <1>1 DEF Ordered

\* The staged lines reach the file one after the other, except that bytes of
\* an earlier write make the first of them unparsable.
LEMMA WrittenLines ==
    ASSUME TypeOK, op.staged # <<>>, NEW n \in 0 .. Len(op.staged)
    PROVE  /\ Written(n) \in Seq(LineType)
           /\ Len(Written(n)) = Len(file) + n
           /\ \A i \in 1 .. Len(file) : Written(n)[i] = file[i]
           /\ \A i \in 1 .. n :
                 Written(n)[Len(file) + i] = IF i = 1 /\ torn THEN Garbage ELSE op.staged[i]
<1>1. file \in Seq(LineType) /\ op.staged \in Seq(LineType) /\ op.staged[1] \in LineType
  BY DEF TypeOK
<1>2. Len(file) \in Nat /\ Len(op.staged) \in Nat /\ n \in Nat
  BY <1>1
<1>3. Written(n) \in Seq(LineType) /\ Len(Written(n)) = Len(file) + n
  BY WrittenProperties
<1>4. CASE n = 0
  BY <1>2, <1>3, <1>4 DEF Written
<1>5. CASE n > 0
  <2> DEFINE line == IF torn THEN Garbage ELSE op.staged[1]
  <2> DEFINE rest == SubSeq(op.staged, 2, n)
  <2>1. line \in LineType
    BY <1>1 DEF TypeOK, Garbage, Line, NoSeq, NoRange, LineType, Kinds, Statuses
  <2>2. /\ rest \in Seq(LineType)
        /\ Len(rest) = n - 1
        /\ \A i \in 1 .. n - 1 : rest[i] = op.staged[i + 1]
    BY <1>1, <1>2, <1>5
  <2>3. Written(n) = (file \o <<line>>) \o rest
    BY <1>5 DEF Written
  <2>4. line = IF torn THEN Garbage ELSE op.staged[1]
    OBVIOUS
  <2> HIDE DEF line, rest
  <2> DEFINE head == file \o <<line>>
  <2>5. /\ head \in Seq(LineType)
        /\ Len(head) = Len(file) + 1
        /\ \A i \in 1 .. Len(file) : head[i] = file[i]
        /\ head[Len(file) + 1] = line
    BY <1>1, <2>1
  <2>6. Written(n) = head \o rest
    BY <2>3
  <2> HIDE DEF head
  <2>7. /\ \A i \in 1 .. Len(head) : Written(n)[i] = head[i]
        /\ \A i \in 1 .. Len(rest) : Written(n)[Len(head) + i] = rest[i]
    BY <2>2, <2>5, <2>6
  <2>8. \A i \in 1 .. Len(file) : Written(n)[i] = file[i]
    BY <1>2, <2>5, <2>7
  <2>9. ASSUME NEW i \in 1 .. n
        PROVE  Written(n)[Len(file) + i] = IF i = 1 /\ torn THEN Garbage ELSE op.staged[i]
    <3>1. CASE i = 1
      <4>1. Written(n)[Len(file) + 1] = head[Len(file) + 1]
        BY <1>2, <2>5, <2>7
      <4>2. QED
        BY <3>1, <4>1, <2>4, <2>5
    <3>2. CASE i # 1
      <4>1. i - 1 \in 1 .. n - 1 /\ Len(file) + i = Len(head) + (i - 1) /\ (i - 1) + 1 = i
        BY <1>2, <2>5, <3>2
      <4>2. Written(n)[Len(head) + (i - 1)] = rest[i - 1] /\ rest[i - 1] = op.staged[(i - 1) + 1]
        BY <2>2, <2>7, <4>1
      <4>3. QED
        BY <3>2, <4>1, <4>2
    <3>3. QED
      BY <3>1, <3>2
  <2>10. QED
    BY <1>3, <2>8, <2>9
<1>6. QED
  BY <1>2, <1>4, <1>5

\* If a file is still in order once something has been written to it, it was
\* before, it is what the process holds, and nothing was torn.
LEMMA OrderedWritten ==
    ASSUME Inv, Shape, op.at = "write", NEW n \in 1 .. Len(op.staged),
           Ordered(Written(n), Len(file) + 1)
    PROVE  ~ torn /\ Ordered(file, Len(file)) /\ Len(file) = Len(lines) /\ file = lines
<1>1. op.staged # <<>> /\ Running /\ TypeOK
  BY DEF Inv, VoidsBehind
<1>2. /\ file \in Seq(LineType) /\ op.staged \in Seq(LineType)
      /\ Len(file) \in Nat /\ Len(lines) \in Nat /\ Len(op.staged) \in Nat
  BY <1>1 DEF TypeOK
<1>3. n \in 0 .. Len(op.staged) /\ 1 \in 1 .. n /\ 1 \in DOMAIN op.staged
  BY <1>2
<1>4. /\ Written(n)[Len(file) + 1] = IF torn THEN Garbage ELSE op.staged[1]
      /\ \A i \in 1 .. Len(file) : Written(n)[i] = file[i]
  BY <1>1, <1>3, WrittenLines
<1>5. /\ Written(n)[Len(file) + 1].kind # "garbage"
      /\ Written(n)[Len(file) + 1].seq = Len(file)
  <2>1. Len(file) + 1 \in 1 .. Len(file) + 1 /\ (Len(file) + 1) - 1 = Len(file)
    BY <1>2
  <2>2. QED
    BY <2>1 DEF Ordered
<1>6. Garbage.kind = "garbage"
  BY DEF Garbage, Line
<1>7. ~ torn
  BY <1>4, <1>5, <1>6
<1>8. op.staged[1].seq = Len(lines) + 1 - 1
  BY <1>3 DEF Shape, Staged
<1>9. Len(file) = Len(lines)
  BY <1>2, <1>4, <1>5, <1>7, <1>8
<1>10. Ordered(file, Len(file))
  <2>1. Len(file) + 1 \in Nat /\ Len(file) \in 0 .. Len(file) + 1
    BY <1>2
  <2>2. \A i \in 1 .. Len(file) : file[i] = Written(n)[i]
    BY <1>4
  <2> DEFINE w == Written(n)
  <2> HIDE DEF w
  <2>3. Ordered(w, Len(file) + 1) /\ \A i \in 1 .. Len(file) : file[i] = w[i]
    BY <2>2 DEF w
  <2>4. QED
    BY <2>1, <2>3, OrderedPrefix
<1>11. QED
  BY <1>1, <1>7, <1>9, <1>10 DEF Shape, Memory

\* The records of an end stay behind their checkpoints when the file changes
\* only behind position m, and what is new there is no stray record of an end.
LEMMA EndsKept ==
    ASSUME NEW s \in Seq(LineType), NEW t \in Seq(LineType), EndsFollow(s),
           NEW m \in 0 .. Len(s), m <= Len(t),
           \A i \in 1 .. m : t[i] = s[i],
           \A e \in m + 1 .. Len(t) :
               t[e].kind = "end" /\ Ordered(t, e) => FollowsCheckpoint(t, e)
    PROVE  EndsFollow(t)
<1>1. ASSUME NEW e \in DOMAIN t, t[e].kind = "end", Ordered(t, e)
      PROVE  FollowsCheckpoint(t, e)
  <2>1. e \in 1 .. Len(t) /\ m \in Nat /\ Len(s) \in Nat
    OBVIOUS
  <2>2. CASE e > m
    BY <1>1, <2>1, <2>2
  <2>3. CASE e <= m
    <3>1. e \in DOMAIN s /\ s[e].kind = "end"
      BY <1>1, <2>1, <2>3
    <3>2. Ordered(s, e)
      <4>1. e \in Nat /\ e \in 0 .. e /\ \A i \in 1 .. e : s[i] = t[i]
        BY <2>1, <2>3
      <4>2. QED
        BY <1>1, <4>1, OrderedPrefix
    <3>3. FollowsCheckpoint(s, e)
      BY <3>1, <3>2 DEF EndsFollow
    <3>4. PICK p \in 1 .. e - 1 :
             IsCheckpoint(s[p]) /\ \A k \in p + 1 .. e - 1 : s[k].kind = "warning"
      BY <3>3 DEF FollowsCheckpoint
    <3>5. t[p] = s[p] /\ \A k \in p + 1 .. e - 1 : t[k] = s[k]
      BY <2>1, <2>3
    <3>6. IsCheckpoint(t[p]) /\ \A k \in p + 1 .. e - 1 : t[k].kind = "warning"
      BY <3>4, <3>5
    <3>7. QED
      BY <3>6 DEF FollowsCheckpoint
  <2>4. QED
    BY <2>1, <2>2, <2>3
<1>2. QED
  BY <1>1 DEF EndsFollow

\* What a write leaves in the file, in full or in part, has no stray record of
\* an end.
LEMMA EndsWritten ==
    ASSUME Inv, Shape, op.at = "write", NEW n \in 0 .. Len(op.staged)
    PROVE  EndsFollow(Written(n))
<1>1. op.staged # <<>> /\ TypeOK
  BY DEF Inv, VoidsBehind
<1>2. /\ file \in Seq(LineType) /\ op.staged \in Seq(LineType) /\ Len(file) \in Nat
      /\ Len(lines) \in Nat /\ Len(op.staged) \in Nat
  BY <1>1 DEF TypeOK
<1> DEFINE w == Written(n)
<1>3. /\ w \in Seq(LineType)
      /\ Len(w) = Len(file) + n
      /\ \A i \in 1 .. Len(file) : w[i] = file[i]
      /\ \A i \in 1 .. n : w[Len(file) + i] = IF i = 1 /\ torn THEN Garbage ELSE op.staged[i]
  BY <1>1, WrittenLines
<1>4. ASSUME NEW e \in Len(file) + 1 .. Len(w), w[e].kind = "end", Ordered(w, e)
      PROVE  FollowsCheckpoint(w, e)
  <2>1. PICK i \in 1 .. n : e = Len(file) + i
    <3>1. e - Len(file) \in 1 .. n /\ e = Len(file) + (e - Len(file))
      BY <1>2, <1>3
    <3>2. QED
      BY <3>1
  <2>2. i \in DOMAIN op.staged /\ n \in 1 .. Len(op.staged) /\ 1 \in 1 .. n
    BY <1>2, <2>1
  <2>3. Ordered(w, Len(file) + 1)
    <3>1. e \in Nat /\ Len(file) + 1 \in 0 .. e
      BY <1>2
    <3> HIDE DEF w
    <3>2. QED
      BY <3>1, <1>4, OrderedPrefix
  <2>4. ~ torn /\ Len(file) = Len(lines) /\ file = lines
    BY <2>2, <2>3, OrderedWritten
  <2>5. w[e] = op.staged[i]
    BY <1>3, <2>1, <2>4
  <2>6. i = 1
    <3>1. i > 1 => op.staged[i].kind = "warning"
      BY <2>2 DEF Shape, Staged
    <3>2. QED
      BY <1>4, <2>1, <2>5, <3>1
  <2>7. FollowsCheckpoint(lines, Len(lines) + 1)
    BY <1>4, <2>5, <2>6 DEF Shape, Staged
  <2>8. e = Len(lines) + 1
    BY <2>1, <2>4, <2>6
  <2>9. PICK p \in 1 .. e - 1 :
           IsCheckpoint(lines[p]) /\ \A k \in p + 1 .. e - 1 : lines[k].kind = "warning"
    BY <2>7, <2>8 DEF FollowsCheckpoint
  <2>10. \A k \in 1 .. e - 1 : w[k] = lines[k]
    BY <1>2, <1>3, <2>4, <2>8
  <2>11. p \in 1 .. e - 1 /\ \A k \in p + 1 .. e - 1 : k \in 1 .. e - 1
    BY <1>2
  <2>12. IsCheckpoint(w[p]) /\ \A k \in p + 1 .. e - 1 : w[k].kind = "warning"
    BY <2>9, <2>10, <2>11
  <2>13. QED
    BY <2>12 DEF FollowsCheckpoint
<1>5. Len(file) \in 0 .. Len(file) /\ Len(file) <= Len(w) /\ EndsFollow(file)
  BY <1>2, <1>3 DEF Shape
<1> HIDE DEF w
<1>6. EndsFollow(w)
  BY <1>2, <1>3, <1>4, <1>5, EndsKept
<1>7. QED
  BY <1>6 DEF w

\* The acknowledged checkpoint stays where it is while the synced lines do.
LEMMA DurableKept ==
    ASSUME Inv, Durable, acked' = acked, synced' = synced,
           \A i \in 1 .. synced : file'[i] = file[i]
    PROVE  Durable'
<1>1. synced \in Nat
  <2>1. file \in Seq(LineType) /\ synced \in 0 .. Len(file)
    BY DEF Inv, TypeOK
  <2>2. QED
    BY <2>1
<1>2. acked \in Int
  BY DEF Inv, TypeOK
<1>3. ASSUME acked' # NoSeq, Ordered(file', synced')
      PROVE  acked' < synced' /\ IsCheckpoint(file'[acked' + 1])
  <2>1. Ordered(file, synced)
    BY <1>1, <1>3 DEF Ordered
  <2>2. acked >= NoSeq /\ acked # NoSeq /\ acked < synced /\ IsCheckpoint(file[acked + 1])
    BY <1>3, <2>1 DEF Durable
  <2>3. acked + 1 \in 1 .. synced
    BY <1>1, <1>2, <2>2 DEF NoSeq
  <2>4. QED
    BY <2>2, <2>3
<1>4. QED
  BY <1>3 DEF Durable

-----------------------------------------------------------------------------
(* The restored checkpoint *)

\* The latest checkpoint of some lines is effective, and no effective one is
\* behind it.
LEMMA LatestProperties ==
    ASSUME NEW s \in Seq(LineType)
    PROVE  /\ latest_checkpoint(s) \in 0 .. Len(s)
           /\ \A i \in effective(s) : IsCheckpoint(s[i]) => i <= latest_checkpoint(s)
           /\ latest_checkpoint(s) # 0 =>
                 /\ latest_checkpoint(s) \in effective(s)
                 /\ IsCheckpoint(s[latest_checkpoint(s)])
<1> DEFINE C == {i \in effective(s) : IsCheckpoint(s[i])}
<1>1. Len(s) \in Nat /\ C \in SUBSET (1 .. Len(s))
  BY DEF effective
<1>2. latest_checkpoint(s) = IF C = {} THEN 0 ELSE Max(C)
  BY DEF latest_checkpoint
<1>3. \A i \in effective(s) : IsCheckpoint(s[i]) <=> i \in C
  OBVIOUS
<1>4. C \subseteq effective(s)
  OBVIOUS
<1> HIDE DEF C
<1>5. CASE C = {}
  BY <1>1, <1>2, <1>3, <1>5
<1>6. CASE C # {}
  <2>1. Max(C) \in C /\ \A y \in C : y <= Max(C)
    BY <1>1, <1>6, MaxIsGreatest
  <2>2. latest_checkpoint(s) \in C /\ \A y \in C : y <= latest_checkpoint(s)
    BY <1>2, <1>6, <2>1
  <2>3. latest_checkpoint(s) \in 1 .. Len(s)
    BY <1>1, <2>2
  <2>4. QED
    BY <1>1, <1>3, <1>4, <2>2, <2>3
<1>7. QED
  BY <1>5, <1>6

\* What a process appends itself never makes an older line effective again,
\* and is not stale.
LEMMA FreshExtended ==
    ASSUME NEW s \in Seq(LineType), NEW t \in Seq(LineType),
           NEW process, FreshTail(s, process),
           \A i \in DOMAIN t : t[i].by = process /\ t[i].kind # "recovered"
    PROVE  FreshTail(s \o t, process)
<1> DEFINE u == s \o t
<1>1. /\ Len(s) \in Nat /\ Len(t) \in Nat
      /\ u \in Seq(LineType)
      /\ Len(u) = Len(s) + Len(t)
      /\ \A i \in 1 .. Len(s) : u[i] = s[i]
      /\ \A i \in Len(s) + 1 .. Len(u) : u[i] = t[i - Len(s)] /\ i - Len(s) \in DOMAIN t
  OBVIOUS
<1> HIDE DEF u
<1>2. \A i \in Len(s) + 1 .. Len(u) : u[i].by = process /\ u[i].kind # "recovered"
  BY <1>1
<1>3. discarded_seqs(u) = discarded_seqs(s)
  <2>1. DOMAIN u = 1 .. Len(u) /\ DOMAIN s = 1 .. Len(s)
    BY <1>1
  <2>2. ASSUME NEW v \in discarded_seqs(u)
        PROVE  v \in discarded_seqs(s)
    <3>1. PICK j \in DOMAIN u : u[j].kind = "recovered" /\ v = u[j].void
      BY DEF discarded_seqs
    <3>2. j \in 1 .. Len(s)
      BY <1>1, <1>2, <2>1, <3>1
    <3>3. s[j].kind = "recovered" /\ v = s[j].void
      BY <1>1, <3>1, <3>2
    <3>4. QED
      BY <2>1, <3>2, <3>3 DEF discarded_seqs
  <2>3. ASSUME NEW v \in discarded_seqs(s)
        PROVE  v \in discarded_seqs(u)
    <3>1. PICK j \in DOMAIN s : s[j].kind = "recovered" /\ v = s[j].void
      BY DEF discarded_seqs
    <3>2. j \in DOMAIN u /\ u[j] = s[j]
      BY <1>1, <2>1
    <3>3. QED
      BY <3>1, <3>2 DEF discarded_seqs
  <2>4. QED
    BY <2>2, <2>3
<1>4. \A i \in 1 .. Len(s) : i \in effective(u) <=> i \in effective(s)
  BY <1>1, <1>3 DEF effective
<1>5. ASSUME NEW i \in effective(u), i > latest_checkpoint(u)
      PROVE  u[i].by = process \/ u[i].kind \in {"end", "warning"}
  <2>1. i \in 1 .. Len(u)
    BY <1>1 DEF effective
  <2>2. CASE i > Len(s)
    BY <1>1, <1>2, <2>1, <2>2
  <2>3. CASE i <= Len(s)
    <3>1. i \in 1 .. Len(s) /\ i \in effective(s) /\ u[i] = s[i]
      BY <1>1, <1>4, <2>1, <2>3
    <3>2. latest_checkpoint(s) \in 0 .. Len(s) /\ latest_checkpoint(u) \in 0 .. Len(u)
      BY <1>1, LatestProperties
    <3>3. CASE latest_checkpoint(s) = 0
      BY <3>1, <3>3 DEF FreshTail
    <3>4. CASE latest_checkpoint(s) # 0
      <4> DEFINE k == latest_checkpoint(s)
      <4>1. k \in effective(s) /\ IsCheckpoint(s[k]) /\ k \in 1 .. Len(s)
        BY <3>2, <3>4, LatestProperties
      <4>2. k \in effective(u) /\ IsCheckpoint(u[k])
        BY <1>1, <1>4, <4>1
      <4>3. k <= latest_checkpoint(u)
        BY <1>1, <4>2, LatestProperties
      <4>4. i > k
        BY <1>5, <3>1, <3>2, <4>1, <4>3
      <4>5. QED
        BY <3>1, <4>4 DEF FreshTail
    <3>5. QED
      BY <3>3, <3>4
  <2>4. QED
    BY <1>1, <2>1, <2>2, <2>3
<1>6. QED
  BY <1>5 DEF FreshTail, u

-----------------------------------------------------------------------------
(* Steps *)

\* No checkpoint comes up, and the process is where it was or gone.
LEMMA AheadKept ==
    ASSUME Ahead, AllLines' \subseteq AllLines \cup {Garbage}, acked' = acked,
           Running' => Running /\ lines' = lines
    PROVE  Ahead'
<1>1. ~ IsCheckpoint(Garbage)
  BY DEF IsCheckpoint, Garbage, Line
<1>2. \A c \in AllLines' : IsCheckpoint(c) => c \in AllLines
  BY <1>1
<1>3. ASSUME Running'
      PROVE  acked' < Len(lines') /\ \A c \in AllLines' : IsCheckpoint(c) => c.seq <= Len(lines')
  BY <1>2, <1>3 DEF Ahead
<1>4. QED
  BY <1>3 DEF Ahead

\* The kernel stages a line of its own behind the lines it holds.
LEMMA StageKeepsShape ==
    ASSUME Inv, Shape, ctl = "live", NEW l \in LineType, Stage(l),
           l.seq = Len(lines), l.by = opens,
           l.kind \notin {"garbage", "recovered"},
           l.kind = "end" => FollowsCheckpoint(lines, Len(lines) + 1)
    PROVE  Shape'
<1> DEFINE w == Plain(l.seq + 1, "warning", FALSE)
<1>1. /\ w \in LineType
      /\ w.kind = "warning" /\ w.seq = Len(lines) + 1 /\ w.by = opens
  BY DEF Inv, TypeOK, Plain, Line, LineType, Kinds, Statuses, NoRange
<1>2. stage(l) = IF l.late THEN <<l, w>> ELSE <<l>>
  BY DEF stage
<1> HIDE DEF w
<1>3. /\ Len(lines) \in Nat /\ lines \in Seq(LineType) /\ MaxLines \in Nat
      /\ Len(stage(l)) \in Nat /\ Len(stage(l)) >= 1
      /\ stage(l) \in Seq(LineType) /\ stage(l)[1] = l
      /\ \A i \in DOMAIN stage(l) : (i = 1 /\ stage(l)[i] = l) \/ (i = 2 /\ stage(l)[i] = w)
  BY <1>1, <1>2, LogBounds DEF Inv, TypeOK
<1>4. /\ op'.at = "write" /\ op'.staged = stage(l) /\ op.at = "none"
      /\ file' = file /\ synced' = synced /\ lines' = lines /\ ctl' = ctl
      /\ opens' = opens /\ acked' = acked
      /\ Len(lines) + Len(stage(l)) <= MaxLines
  BY DEF Stage, Idle, NoOp
<1>5. Staged'
  <2>1. ASSUME NEW i \in DOMAIN stage(l)
        PROVE  /\ stage(l)[i].seq = Len(lines) + i - 1
               /\ stage(l)[i].by = opens
               /\ stage(l)[i].kind # "garbage"
               /\ i > 1 => stage(l)[i].kind = "warning"
    BY <1>1, <1>3
  <2>2. Len(lines) <= MaxLines /\ lines # <<>>
    BY <1>3, <1>4 DEF Shape, Memory
  <2>3. QED
    BY <1>3, <1>4, <2>1, <2>2 DEF Staged
<1>6. Memory'
  BY <1>4 DEF Shape, Memory, Running
<1>7. Durable'
  BY <1>4, DurableKept DEF Shape
<1>8. Ahead'
  <2>1. ASSUME NEW c \in AllLines', IsCheckpoint(c)
        PROVE  c \in AllLines \/ c = l
    <3>1. c \in {file[i] : i \in DOMAIN file} \/ \E i \in DOMAIN stage(l) : c = stage(l)[i]
      BY <1>4 DEF AllLines
    <3>2. c \in AllLines \/ c = l \/ c = w
      BY <1>3, <3>1 DEF AllLines
    <3>3. QED
      BY <1>1, <2>1, <3>2 DEF IsCheckpoint
  <2>2. acked < Len(lines) /\ \A c \in AllLines : IsCheckpoint(c) => c.seq <= Len(lines)
    BY DEF Shape, Ahead, Running
  <2>3. \A c \in AllLines' : IsCheckpoint(c) => c.seq <= Len(lines)
    BY <1>3, <2>1, <2>2
  <2>4. QED
    BY <1>4, <2>2, <2>3 DEF Ahead
<1>9. EndsFollow(file')
  BY <1>4 DEF Shape
<1>10. Fresh'
  <2>1. FreshTail(lines, opens)
    BY DEF Shape, Fresh
  <2>2. \A i \in DOMAIN stage(l) : stage(l)[i].by = opens /\ stage(l)[i].kind # "recovered"
    BY <1>1, <1>3
  <2>3. FreshTail(lines \o stage(l), opens)
    BY <1>3, <2>1, <2>2, FreshExtended
  <2>4. QED
    BY <1>4, <2>1, <2>3 DEF Fresh, FreshTail
<1>11. QED
  BY <1>5, <1>6, <1>7, <1>8, <1>9, <1>10 DEF Shape

\* The staged lines reach the file.
LEMMA WriteKeepsShape ==
    ASSUME Inv, Shape, Write
    PROVE  Shape'
<1>1. /\ op.at = "write" /\ file' = Written(Len(op.staged))
      /\ op'.staged = op.staged
      /\ op'.at = IF needs_fsync(op.staged[1]) THEN "sync" ELSE "extend"
      /\ synced' = synced /\ lines' = lines /\ ctl' = ctl /\ opens' = opens /\ acked' = acked
  BY DEF Write, Inv, TypeOK
<1>2. op.staged # <<>> /\ Running /\ TypeOK
  BY <1>1 DEF Inv, VoidsBehind
<1>3. /\ file \in Seq(LineType) /\ op.staged \in Seq(LineType) /\ lines \in Seq(LineType)
      /\ Len(file) \in Nat /\ Len(lines) \in Nat /\ synced \in 0 .. Len(file)
      /\ Len(op.staged) \in Nat /\ Len(op.staged) \in 1 .. Len(op.staged)
      /\ Len(op.staged) \in 0 .. Len(op.staged)
  BY <1>2 DEF TypeOK
<1>4. /\ file' \in Seq(LineType)
      /\ Len(file') = Len(file) + Len(op.staged)
      /\ \A i \in 1 .. Len(file) : file'[i] = file[i]
      /\ \A i \in 1 .. Len(op.staged) :
            file'[Len(file) + i] = IF i = 1 /\ torn THEN Garbage ELSE op.staged[i]
  BY <1>1, <1>2, <1>3, WrittenLines
<1>5. Staged'
  BY <1>1 DEF Shape, Staged
<1>6. Memory'
  <2>1. Len(lines') + Len(op'.staged) <= Len(file')
    BY <1>1, <1>2, <1>3, <1>4 DEF Shape, Memory
  <2>2. ASSUME Ordered(file', Len(file'))
        PROVE  file' = lines' \o op'.staged
    <3>1. Ordered(file', Len(file) + 1)
      <4>1. Len(file') \in Nat /\ Len(file) + 1 \in 0 .. Len(file')
        BY <1>3, <1>4
      <4>2. QED
        BY <2>2, <4>1, OrderedPrefix
    <3>2. ~ torn /\ Len(file) = Len(lines) /\ file = lines
      BY <1>1, <1>3, <3>1, OrderedWritten
    <3> DEFINE u == lines \o op.staged
    <3>3. /\ u \in Seq(LineType)
          /\ Len(u) = Len(lines) + Len(op.staged)
          /\ \A i \in 1 .. Len(lines) : u[i] = lines[i]
          /\ \A i \in 1 .. Len(op.staged) : u[Len(lines) + i] = op.staged[i]
      BY <1>3
    <3> HIDE DEF u
    <3>4. ASSUME NEW i \in 1 .. Len(u)
          PROVE  file'[i] = u[i]
      <4>1. CASE i <= Len(lines)
        BY <1>3, <1>4, <3>2, <3>3, <4>1
      <4>2. CASE i > Len(lines)
        <5>1. PICK k \in 1 .. Len(op.staged) : i = Len(lines) + k
          <6>1. i - Len(lines) \in 1 .. Len(op.staged) /\ i = Len(lines) + (i - Len(lines))
            BY <1>3, <3>3, <4>2
          <6>2. QED
            BY <6>1
        <5>2. u[i] = op.staged[k]
          BY <3>3, <5>1
        <5>3. file'[i] = op.staged[k]
          BY <1>4, <3>2, <5>1
        <5>4. QED
          BY <5>2, <5>3
      <4>3. QED
        BY <1>3, <3>3, <4>1, <4>2
    <3>5. Len(file') = Len(u)
      BY <1>4, <3>2, <3>3
    <3>6. file' = u
      BY <1>4, <3>3, <3>4, <3>5, SeqEqual
    <3>7. QED
      BY <1>1, <3>6 DEF u
  <2>3. op'.at \in {"sync", "extend"}
    BY <1>1
  <2>4. QED
    BY <1>1, <1>2, <2>1, <2>2, <2>3 DEF Shape, Memory, Running
<1>7. Durable'
  <2>1. \A i \in 1 .. synced : file'[i] = file[i]
    BY <1>3, <1>4
  <2>2. QED
    BY <1>1, <2>1, DurableKept DEF Shape
<1>8. Ahead'
  <2>1. Lines(file') \subseteq AllLines \cup {Garbage}
    BY <1>1, <1>2, <1>3, WrittenProperties
  <2>2. AllLines' \subseteq AllLines \cup {Garbage}
    BY <1>1, <2>1 DEF AllLines, Lines
  <2>3. QED
    BY <1>1, <1>2, <2>2, AheadKept DEF Shape
<1>9. EndsFollow(file')
  BY <1>1, <1>3, EndsWritten
<1>10. Fresh'
  BY <1>1 DEF Shape, Fresh, FreshTail
<1>11. QED
  BY <1>5, <1>6, <1>7, <1>8, <1>9, <1>10 DEF Shape

\* The synced lines are the ones the file has.
LEMMA SyncKeepsShape ==
    ASSUME Inv, Shape, Sync
    PROVE  Shape'
<1>1. /\ op.at = "sync" /\ op'.at = "extend" /\ op'.staged = op.staged
      /\ synced' = Len(file) /\ file' = file
      /\ lines' = lines /\ ctl' = ctl /\ opens' = opens /\ acked' = acked
  BY DEF Sync, Inv, TypeOK
<1>2. /\ file \in Seq(LineType) /\ Len(file) \in Nat /\ synced \in 0 .. Len(file)
      /\ acked \in Int
  BY DEF Inv, TypeOK
<1>3. Staged'
  BY <1>1 DEF Shape, Staged
<1>4. Memory'
  BY <1>1 DEF Shape, Memory, Running
<1>5. Durable'
  <2>1. ASSUME acked # NoSeq, Ordered(file, Len(file))
        PROVE  acked < Len(file) /\ IsCheckpoint(file[acked + 1])
    <3>1. Ordered(file, synced)
      BY <1>2, <2>1, OrderedPrefix
    <3>2. acked < synced /\ IsCheckpoint(file[acked + 1])
      BY <2>1, <3>1 DEF Shape, Durable
    <3>3. QED
      BY <1>2, <3>2
  <2>2. QED
    BY <1>1, <2>1 DEF Shape, Durable
<1>6. Ahead'
  <2>1. AllLines' = AllLines
    BY <1>1 DEF AllLines
  <2>2. QED
    BY <1>1, <2>1, AheadKept DEF Shape, Running
<1>7. EndsFollow(file')
  BY <1>1 DEF Shape
<1>8. Fresh'
  BY <1>1 DEF Shape, Fresh, FreshTail
<1>9. QED
  BY <1>3, <1>4, <1>5, <1>6, <1>7, <1>8 DEF Shape

\* The append returns: the process holds the staged lines, and a checkpoint
\* among them is acknowledged.
LEMMA ExtendKeepsShape ==
    ASSUME Inv, Shape, Extend
    PROVE  Shape'
<1>1. /\ op.at = "extend" /\ op'.at = "none" /\ op'.staged = <<>>
      /\ lines' = lines \o op.staged /\ ctl' = "live"
      /\ acked' = IF IsCheckpoint(op.staged[1]) THEN op.staged[1].seq ELSE acked
      /\ file' = file /\ synced' = synced /\ opens' = opens
  BY DEF Extend, NoOp
<1>2. op.staged # <<>> /\ Running /\ TypeOK
  BY <1>1 DEF Inv, VoidsBehind
<1>3. /\ file \in Seq(LineType) /\ op.staged \in Seq(LineType) /\ lines \in Seq(LineType)
      /\ Len(file) \in Nat /\ Len(lines) \in Nat /\ synced \in 0 .. Len(file)
      /\ Len(op.staged) \in Nat \ {0} /\ 1 \in DOMAIN op.staged /\ acked \in Int
  BY <1>2 DEF TypeOK
<1>4. op.staged[1].seq = Len(lines)
  <2>1. op.staged[1].seq = Len(lines) + 1 - 1
    BY <1>1, <1>3 DEF Shape, Staged
  <2>2. QED
    BY <1>3, <2>1
<1>5. /\ lines' \in Seq(LineType)
      /\ Len(lines') = Len(lines) + Len(op.staged)
      /\ lines'[Len(lines) + 1] = op.staged[1]
      /\ lines # <<>> => lines'[1] = lines[1]
  BY <1>1, <1>3
<1>6. Len(lines) + Len(op.staged) <= Len(file) /\ (Ordered(file, Len(file)) => file = lines')
  BY <1>1, <1>2 DEF Shape, Memory
<1>7. Staged'
  BY <1>1 DEF Staged
<1>8. Memory'
  <2>1. lines' # <<>>
    BY <1>3, <1>5
  <2>2. lines'[1].kind = "log_opened"
    <3>1. CASE lines = <<>>
      <4>1. lines'[1] = op.staged[1]
        BY <1>5, <3>1
      <4>2. QED
        BY <1>1, <3>1, <4>1 DEF Shape, Staged
    <3>2. CASE lines # <<>>
      BY <1>2, <1>5, <3>2 DEF Shape, Memory
    <3>3. QED
      BY <3>1, <3>2
  <2>3. QED
    BY <1>1, <1>5, <1>6, <2>1, <2>2 DEF Memory, Running
<1>9. Durable'
  <2>1. CASE ~ IsCheckpoint(op.staged[1])
    BY <1>1, <2>1, DurableKept DEF Shape
  <2>2. CASE IsCheckpoint(op.staged[1])
    <3>1. synced = Len(file) /\ acked' = Len(lines)
      BY <1>1, <1>4, <2>2 DEF Shape, Staged, needs_fsync, IsCheckpoint
    <3>2. ASSUME Ordered(file, Len(file))
          PROVE  Len(lines) < Len(file) /\ IsCheckpoint(file[Len(lines) + 1])
      BY <1>3, <1>5, <1>6, <2>2, <3>2
    <3>3. QED
      BY <1>1, <1>3, <3>1, <3>2 DEF Durable, NoSeq
  <2>3. QED
    BY <2>1, <2>2
<1>10. Ahead'
  <2>1. acked < Len(lines) /\ \A c \in AllLines : IsCheckpoint(c) => c.seq <= Len(lines)
    BY <1>2 DEF Shape, Ahead
  <2>2. AllLines' \subseteq AllLines
    BY <1>1 DEF AllLines
  <2>3. \A c \in AllLines : c.seq \in Int
    <3>1. AllLines \subseteq LineType
      BY <1>3 DEF AllLines
    <3>2. QED
      BY <3>1 DEF LineType
  <2>4. acked' < Len(lines')
    BY <1>1, <1>3, <1>4, <1>5, <2>1
  <2>5. ASSUME NEW c \in AllLines', IsCheckpoint(c)
        PROVE  c.seq <= Len(lines')
    <3>1. c \in AllLines /\ c.seq <= Len(lines) /\ c.seq \in Int
      BY <2>1, <2>2, <2>3, <2>5
    <3>2. QED
      BY <1>3, <1>5, <3>1
  <2>6. QED
    BY <2>4, <2>5 DEF Ahead
<1>11. EndsFollow(file')
  BY <1>1 DEF Shape
<1>12. Fresh'
  BY <1>1 DEF Shape, Fresh, FreshTail
<1>13. QED
  BY <1>7, <1>8, <1>9, <1>10, <1>11, <1>12 DEF Shape

\* An append that fails: what it wrote stays in the file, and what the process
\* holds is as before, or it gives up.
LEMMA FailKeepsShape ==
    ASSUME Inv, Shape, Fail, op.at # "none",
           file' \in Seq(LineType), Len(file) <= Len(file'),
           \A i \in 1 .. Len(file) : file'[i] = file[i],
           Lines(file') \subseteq AllLines \cup {Garbage},
           EndsFollow(file'),
           op.at # "write" => Len(lines) < Len(file),
           Len(file') = Len(file) => file' = file
    PROVE  Shape'
<1>1. /\ op'.at = "none" /\ op'.staged = <<>>
      /\ ctl' = (IF ctl = "live" THEN "live" ELSE "down")
      /\ lines' = (IF ctl = "live" THEN lines ELSE <<>>)
      /\ synced' = synced /\ opens' = opens /\ acked' = acked
  BY DEF Fail, NoOp
<1>2. /\ file \in Seq(LineType) /\ lines \in Seq(LineType) /\ op.at \in {"write", "sync", "extend"}
      /\ Len(file) \in Nat /\ Len(file') \in Nat /\ Len(lines) \in Nat /\ synced \in 0 .. Len(file)
  BY DEF Inv, TypeOK
<1>3. Running' => ctl = "live" /\ ctl' = ctl /\ lines' = lines
  BY <1>1 DEF Running
<1>4. Staged'
  BY <1>1 DEF Staged
<1>5. Memory'
  <2>1. CASE ctl # "live"
    BY <1>1, <2>1 DEF Memory, Running
  <2>2. CASE ctl = "live"
    <3>1. lines # <<>> /\ lines[1].kind = "log_opened"
      BY <2>2 DEF Shape, Memory, Running
    <3>2. Len(lines) <= Len(file)
      BY <1>2, <2>2 DEF Shape, Memory, Running
    <3>3. ASSUME Ordered(file', Len(file')), Len(file') = Len(lines)
          PROVE  file' = lines
      <4>1. Len(file) = Len(lines) /\ op.at = "write"
        BY <1>2, <3>2, <3>3
      <4>2. file' = file
        BY <3>3, <4>1
      <4>3. QED
        BY <2>2, <3>3, <4>1, <4>2 DEF Shape, Memory, Running
    <3>4. Len(lines) <= Len(file')
      BY <1>2, <3>2
    <3>5. QED
      BY <1>1, <2>2, <3>1, <3>3, <3>4 DEF Memory, Running
  <2>3. QED
    BY <2>1, <2>2
<1>6. Durable'
  <2>1. \A i \in 1 .. synced : file'[i] = file[i]
    BY <1>2
  <2>2. QED
    BY <1>1, <2>1, DurableKept DEF Shape
<1>7. Ahead'
  <2>1. AllLines' \subseteq AllLines \cup {Garbage}
    <3>1. (DOMAIN op.staged)' = {}
      BY <1>1
    <3>2. AllLines' = Lines(file')
      BY <3>1 DEF AllLines, Lines
    <3>3. QED
      BY <3>2
  <2>2. QED
    BY <1>1, <1>3, <2>1, AheadKept DEF Shape, Running
<1>8. Fresh'
  BY <1>1, <1>3 DEF Shape, Fresh, FreshTail
<1>9. QED
  BY <1>4, <1>5, <1>6, <1>7, <1>8 DEF Shape

\* The end of a process: the synced lines are all that must be left.
LEMMA DieKeepsShape ==
    ASSUME Inv, Shape, NEW f \in Seq(LineType), NEW t \in BOOLEAN, Die(f, t),
           \A i \in 1 .. synced : f[i] = file[i],
           Lines(f) \subseteq AllLines \cup {Garbage},
           EndsFollow(f)
    PROVE  Shape'
<1>1. /\ op'.at = "none" /\ op'.staged = <<>> /\ file' = f /\ ctl' = "down"
      /\ synced' = synced /\ acked' = acked /\ lines' = <<>>
  BY DEF Die, NoOp
<1>2. ~ Running'
  BY <1>1 DEF Running
<1>3. Staged' /\ Fresh'
  BY <1>1 DEF Staged, Fresh
<1>4. Memory' /\ Ahead'
  BY <1>1, <1>2 DEF Memory, Ahead
<1>5. Durable'
  BY <1>1, DurableKept DEF Shape
<1>6. QED
  BY <1>1, <1>3, <1>4, <1>5 DEF Shape

\* The first line of a log.
LEMMA CreateKeepsShape ==
    ASSUME Inv, Shape, Create
    PROVE  Shape'
<1> DEFINE l == Line(0, "log_opened", "busy", NoRange, FALSE, opens + 1)
<1>1. /\ l \in LineType /\ l.seq = 0 /\ l.kind = "log_opened" /\ l.by = opens + 1
  BY DEF Inv, TypeOK, Line, LineType, Kinds, Statuses, NoRange
<1>2. /\ ctl = "absent" /\ ctl' = "opening" /\ opens' = opens + 1
      /\ op'.at = "write" /\ op'.staged = <<l>>
      /\ file' = file /\ synced' = synced /\ lines' = lines /\ acked' = acked
  BY DEF Create
<1> HIDE DEF l
<1>3. file \in Seq(LineType) /\ lines = <<>> /\ synced \in 0 .. Len(file) /\ acked \in Int
  BY <1>2 DEF Inv, TypeOK, Shape, Memory, Running
<1>4. file = <<>> /\ synced = 0
  <2>1. DOMAIN file = {}
    BY <1>2 DEF Inv, VoidsBehind, AllLines
  <2>2. file = <<>>
    BY <1>3, <2>1
  <2>3. QED
    BY <1>3, <2>2
<1>5. acked = NoSeq
  <2>1. Ordered(file, synced)
    BY <1>4 DEF Ordered
  <2>2. acked # NoSeq => acked < 0 /\ acked >= NoSeq
    BY <1>4, <2>1 DEF Shape, Durable
  <2>3. QED
    BY <1>3, <2>2 DEF NoSeq
<1>6. Staged'
  <2>1. \A i \in DOMAIN <<l>> : i = 1 /\ <<l>>[i] = l
    OBVIOUS
  <2>2. Len(lines) = 0 /\ ~ IsCheckpoint(l)
    BY <1>1, <1>3 DEF IsCheckpoint
  <2>3. \A i \in DOMAIN op'.staged :
           /\ op'.staged[i].seq = Len(lines') + i - 1
           /\ op'.staged[i].by = opens'
           /\ op'.staged[i].kind # "garbage"
           /\ i > 1 => op'.staged[i].kind = "warning"
    BY <1>1, <1>2, <2>1, <2>2
  <2>4. op'.staged[1] = l
    BY <1>2
  <2>5. QED
    BY <1>1, <1>2, <2>2, <2>3, <2>4 DEF Staged
<1>7. Memory'
  BY <1>2, <1>3, <1>4 DEF Memory, Running
<1>8. Durable'
  BY <1>2, DurableKept DEF Shape
<1>9. Ahead'
  <2>1. AllLines' \subseteq {l}
    BY <1>2, <1>4 DEF AllLines
  <2>2. \A c \in AllLines' : ~ IsCheckpoint(c)
    BY <1>1, <2>1 DEF IsCheckpoint
  <2>3. acked' < Len(lines')
    BY <1>2, <1>3, <1>5 DEF NoSeq
  <2>4. QED
    BY <2>2, <2>3 DEF Ahead
<1>10. EndsFollow(file')
  BY <1>2 DEF Shape
<1>11. Fresh'
  <2>1. lines' \o op'.staged = <<l>>
    BY <1>1, <1>2, <1>3
  <2>2. \A i \in DOMAIN <<l>> : <<l>>[i].by = opens + 1
    BY <1>1
  <2>3. FreshTail(<<l>>, opens + 1)
    BY <2>2 DEF FreshTail, effective
  <2>4. QED
    BY <1>2, <2>1, <2>3 DEF Fresh
<1>12. QED
  BY <1>6, <1>7, <1>8, <1>9, <1>10, <1>11 DEF Shape

\* No checkpoint of the file is voided, as shown above.
LEMMA CheckpointsEffective ==
    ASSUME Inv, NEW i \in DOMAIN file, IsCheckpoint(file[i])
    PROVE  i \in effective(file)
<1>1. ASSUME NEW v \in discarded_seqs(file)
      PROVE  ~ (v[1] <= file[i].seq /\ file[i].seq <= v[2])
  <2>1. PICK j \in DOMAIN file : file[j].kind = "recovered" /\ v = file[j].void
    BY DEF discarded_seqs
  <2>2. file[i] \in AllLines /\ file[j] \in AllLines
    BY DEF AllLines
  <2>3. QED
    BY <2>1, <2>2 DEF Inv, VoidsBehind, Apart
<1>2. QED
  BY <1>1 DEF effective, is_discarded

\* The restored checkpoint is the acknowledged one or a later one.
LEMMA RestoredProperties ==
    ASSUME Inv, Shape, parse_log(file), latest_checkpoint(file) # 0
    PROVE  /\ latest_checkpoint(file) \in 1 .. Len(file)
           /\ LatestSeq(file) = latest_checkpoint(file) - 1
           /\ IsCheckpoint(file[latest_checkpoint(file)])
           /\ file[latest_checkpoint(file)].seq = LatestSeq(file)
           /\ Ordered(file, Len(file))
           /\ acked <= LatestSeq(file)
<1>1. /\ file \in Seq(LineType) /\ Len(file) \in Nat /\ synced \in 0 .. Len(file)
      /\ acked \in Int /\ TypeOK /\ VoidsBehind
  BY DEF Inv, TypeOK
<1>2. Ordered(file, Len(file))
  BY <1>1 DEF parse_log, Ordered
<1>3. /\ latest_checkpoint(file) \in 1 .. Len(file)
      /\ latest_checkpoint(file) \in effective(file)
      /\ IsCheckpoint(file[latest_checkpoint(file)])
  BY <1>1, LatestProperties
<1>4. /\ LatestSeq(file) = file[latest_checkpoint(file)].seq
      /\ file[latest_checkpoint(file)].seq = latest_checkpoint(file) - 1
  BY <1>2, <1>3 DEF LatestSeq, Ordered
<1>5. acked <= LatestSeq(file)
  <2>1. CASE acked = NoSeq
    BY <1>1, <1>3, <1>4, <2>1 DEF NoSeq
  <2>2. CASE acked # NoSeq
    <3>1. Ordered(file, synced)
      BY <1>1, <1>2, OrderedPrefix
    <3>2. acked >= NoSeq /\ acked < synced /\ IsCheckpoint(file[acked + 1])
      BY <2>2, <3>1 DEF Shape, Durable
    <3>3. acked + 1 \in 1 .. Len(file)
      BY <1>1, <2>2, <3>2 DEF NoSeq
    <3>4. acked + 1 \in DOMAIN file
      BY <1>1, <3>3
    <3>5. acked + 1 \in effective(file)
      BY <3>2, <3>4, CheckpointsEffective
    <3>6. acked + 1 <= latest_checkpoint(file)
      BY <1>1, <3>2, <3>5, LatestProperties
    <3>7. QED
      BY <1>1, <1>3, <1>4, <3>6
  <2>3. QED
    BY <2>1, <2>2
<1>6. QED
  BY <1>2, <1>3, <1>4, <1>5

\* A log that ended cleanly has nothing behind its last checkpoint but the
\* record of the end.
LEMMA CleanEndIsFresh ==
    ASSUME Inv, Shape, parse_log(file), latest_checkpoint(file) # 0, ends_cleanly(file),
           NEW process
    PROVE  FreshTail(file, process)
<1> DEFINE E == effective(file)
<1> DEFINE m == Max(E)
<1>1. file \in Seq(LineType) /\ Len(file) \in Nat /\ E \in SUBSET (1 .. Len(file)) /\ E # {}
  BY DEF Inv, TypeOK, effective, ends_cleanly
<1>2. \/ file[m].kind = "end"
      \/ IsCheckpoint(file[m]) /\ file[m].status = "idle"
  BY DEF ends_cleanly
<1>3. \A i \in E : IsCheckpoint(file[i]) => i <= latest_checkpoint(file)
  BY <1>1, LatestProperties
<1>4. latest_checkpoint(file) \in 1 .. Len(file) /\ Ordered(file, Len(file))
  BY RestoredProperties
<1> SUFFICES ASSUME NEW i \in E, i > latest_checkpoint(file)
             PROVE  file[i].kind \in {"end", "warning"}
  BY DEF FreshTail
<1> HIDE DEF E
<1>5. m \in E /\ \A y \in E : y <= m
  BY <1>1, MaxIsGreatest
<1> HIDE DEF m
<1>6. m \in 1 .. Len(file) /\ i \in 1 .. Len(file) /\ i <= m
  BY <1>1, <1>5
<1>7. CASE IsCheckpoint(file[m])
  BY <1>3, <1>4, <1>5, <1>6, <1>7
<1>8. CASE file[m].kind = "end"
  <2>1. Ordered(file, m)
    BY <1>1, <1>4, <1>6, OrderedPrefix
  <2>2. FollowsCheckpoint(file, m)
    BY <1>1, <1>6, <1>8, <2>1 DEF Shape, EndsFollow
  <2>3. PICK p \in 1 .. m - 1 :
           IsCheckpoint(file[p]) /\ \A k \in p + 1 .. m - 1 : file[k].kind = "warning"
    BY <2>2 DEF FollowsCheckpoint
  <2>4. p \in DOMAIN file
    BY <1>1, <1>6
  <2>5. p \in E
    BY <2>3, <2>4, CheckpointsEffective DEF E
  <2>6. p <= latest_checkpoint(file)
    BY <1>3, <2>3, <2>5
  <2>7. i = m \/ i \in p + 1 .. m - 1
    BY <1>4, <1>6, <2>6
  <2>8. QED
    BY <1>8, <2>3, <2>7
<1>9. QED
  BY <1>2, <1>7, <1>8

\* A `recovered` line voids whatever is behind the restored checkpoint.
LEMMA RecoveredIsFresh ==
    ASSUME Inv, Shape, parse_log(file), latest_checkpoint(file) # 0,
           NEW l \in LineType, l.kind = "recovered", l.void = discarded_seq(file)
    PROVE  FreshTail(file \o <<l>>, l.by)
<1> DEFINE u == file \o <<l>>
<1> DEFINE k == latest_checkpoint(file)
<1>1. /\ file \in Seq(LineType) /\ Len(file) \in Nat /\ TypeOK /\ VoidsBehind
      /\ u \in Seq(LineType) /\ Len(u) = Len(file) + 1
      /\ \A i \in 1 .. Len(file) : u[i] = file[i]
      /\ u[Len(file) + 1] = l
  BY DEF Inv, TypeOK
<1> HIDE DEF u
<1>2. /\ k \in 1 .. Len(file) /\ LatestSeq(file) = k - 1
      /\ IsCheckpoint(file[k]) /\ Ordered(file, Len(file))
  BY RestoredProperties
<1>3. DOMAIN u = 1 .. Len(file) + 1 /\ DOMAIN file = 1 .. Len(file)
  BY <1>1
<1>4. \A v \in discarded_seqs(u) : v \in discarded_seqs(file) \/ v = l.void
  <2>1. ASSUME NEW v \in discarded_seqs(u)
        PROVE  v \in discarded_seqs(file) \/ v = l.void
    <3>1. PICK j \in DOMAIN u : u[j].kind = "recovered" /\ v = u[j].void
      BY DEF discarded_seqs
    <3>2. j = Len(file) + 1 \/ (j \in DOMAIN file /\ u[j] = file[j])
      BY <1>1, <1>3
    <3>3. CASE j = Len(file) + 1
      BY <1>1, <3>1, <3>3
    <3>4. CASE j \in DOMAIN file /\ u[j] = file[j]
      BY <3>1, <3>4 DEF discarded_seqs
    <3>5. QED
      BY <3>2, <3>3, <3>4
  <2>2. QED
    BY <2>1
<1>5. l.void \in discarded_seqs(u)
  <2>1. Len(file) + 1 \in DOMAIN u /\ u[Len(file) + 1].kind = "recovered"
    BY <1>1, <1>3
  <2>2. QED
    BY <1>1, <2>1 DEF discarded_seqs
<1> HIDE DEF k
<1>6. k \in effective(u) /\ IsCheckpoint(u[k])
  <2>1. k \in DOMAIN u /\ u[k] = file[k] /\ file[k] \in Lines(file)
    BY <1>1, <1>2, <1>3 DEF Lines
  <2>2. k \in effective(file)
    BY <1>2, <1>3, CheckpointsEffective
  <2>3. ~ is_discarded(discarded_seqs(file), file[k].seq)
    BY <2>2 DEF effective
  <2>4. ~ (l.void[1] <= file[k].seq /\ file[k].seq <= l.void[2])
    BY <1>1, <1>2, <2>1, DiscardedProperties DEF k
  <2>5. ~ is_discarded(discarded_seqs(u), u[k].seq)
    BY <1>4, <2>1, <2>3, <2>4 DEF is_discarded
  <2>6. QED
    BY <1>2, <2>1, <2>5 DEF effective
<1>7. k <= latest_checkpoint(u) /\ latest_checkpoint(u) \in 0 .. Len(u)
  BY <1>1, <1>6, LatestProperties
<1>8. ASSUME NEW i \in effective(u), i > latest_checkpoint(u)
      PROVE  u[i].by = l.by
  <2>1. i \in 1 .. Len(file) + 1 /\ ~ is_discarded(discarded_seqs(u), u[i].seq)
    BY <1>3 DEF effective
  <2>2. CASE i \in 1 .. Len(file)
    <3>1. u[i].seq = i - 1
      BY <1>1, <1>2, <2>2 DEF Ordered
    <3>2. i > k
      BY <1>1, <1>2, <1>7, <1>8, <2>2
    <3>3. LatestSeq(file) < Len(file) - 1
      BY <1>1, <1>2, <2>2, <3>2
    <3>4. l.void = <<LatestSeq(file) + 1, Len(file) - 1>>
      BY <3>3 DEF discarded_seq
    <3>5. l.void[1] <= u[i].seq /\ u[i].seq <= l.void[2]
      BY <1>1, <1>2, <2>2, <3>1, <3>2, <3>4
    <3>6. QED
      BY <1>5, <2>1, <3>5 DEF is_discarded
  <2>3. CASE i = Len(file) + 1
    BY <1>1, <2>3
  <2>4. QED
    BY <1>1, <2>1, <2>2, <2>3
<1>9. QED
  BY <1>8 DEF FreshTail, u

\* Kernel::open resumes or recovers the session from its latest checkpoint.
LEMMA OpenKeepsShape ==
    ASSUME Inv, Shape, Open
    PROVE  Shape'
<1>1. op.at = "none" /\ ctl = "down" /\ ~ Running
  BY DEF Open, Inv, VoidsBehind, Running
<1>2. ASSUME NEW why \in {"unreadable", "no_checkpoint", "hash_mismatch", "done"}, Refuse(why)
      PROVE  Shape'
  <2>1. /\ op' = op /\ file' = file /\ synced' = synced /\ lines' = lines /\ ctl' = why
        /\ opens' = opens /\ acked' = acked
    BY <1>2 DEF Refuse
  <2>2. ~ Running' /\ ctl' # "live"
    BY <1>2, <2>1 DEF Running
  <2>3. Staged' /\ Memory' /\ Ahead' /\ Fresh'
    BY <1>1, <2>1, <2>2 DEF Shape, Staged, Memory, Ahead, Fresh
  <2>4. Durable' /\ EndsFollow(file')
    BY <2>1, DurableKept DEF Shape
  <2>5. QED
    BY <2>3, <2>4 DEF Shape
<1>3. ASSUME parse_log(file), latest_checkpoint(file) # 0,
             opens' = opens + 1, lines' = file, ctl' = "opening",
             \E recovery \in BOOLEAN :
                op' = [at |-> "write",
                       staged |-> <<IF ends_cleanly(file) /\ ~ recovery
                                    THEN Line(Len(file), "resumed", "busy", NoRange, FALSE, opens + 1)
                                    ELSE Line(Len(file), "recovered", "busy", discarded_seq(file),
                                              FALSE, opens + 1)>>],
             UNCHANGED <<file, synced, faults, acked>>
      PROVE  Shape'
  <2>1. /\ file \in Seq(LineType) /\ Len(file) \in Nat /\ synced \in 0 .. Len(file)
        /\ acked \in Int /\ opens \in Nat /\ TypeOK /\ VoidsBehind
    BY DEF Inv, TypeOK
  <2>2. PICK recovery \in BOOLEAN :
           op' = [at |-> "write",
                  staged |-> <<IF ends_cleanly(file) /\ ~ recovery
                               THEN Line(Len(file), "resumed", "busy", NoRange, FALSE, opens + 1)
                               ELSE Line(Len(file), "recovered", "busy", discarded_seq(file),
                                         FALSE, opens + 1)>>]
    BY <1>3
  <2> DEFINE l == IF ends_cleanly(file) /\ ~ recovery
                  THEN Line(Len(file), "resumed", "busy", NoRange, FALSE, opens + 1)
                  ELSE Line(Len(file), "recovered", "busy", discarded_seq(file),
                            FALSE, opens + 1)
  <2>3. op'.at = "write" /\ op'.staged = <<l>>
    BY <2>2
  <2>4. discarded_seq(file) \in Int \X Int
    BY <1>3, <2>1, DiscardedProperties
  <2>5. /\ l \in LineType /\ l.seq = Len(file) /\ l.by = opens + 1
        /\ \/ l.kind = "resumed" /\ ends_cleanly(file)
           \/ l.kind = "recovered" /\ l.void = discarded_seq(file)
    BY <2>1, <2>4 DEF Line, LineType, Kinds, Statuses, NoRange
  <2> HIDE DEF l
  <2>6. ~ IsCheckpoint(l) /\ l.kind \notin {"end", "garbage"}
    BY <2>5 DEF IsCheckpoint
  <2>7. file # <<>> /\ file[1].kind = "log_opened" /\ Ordered(file, Len(file)) /\ op.staged = <<>>
    BY <1>1, <1>3, <2>1 DEF parse_log, Ordered, Shape, Staged
  <2>8. acked < Len(file)
    <3>1. acked <= LatestSeq(file) /\ LatestSeq(file) = latest_checkpoint(file) - 1
      BY <1>3, RestoredProperties
    <3>2. latest_checkpoint(file) \in 1 .. Len(file)
      BY <1>3, RestoredProperties
    <3>3. QED
      BY <2>1, <3>1, <3>2
  <2>9. Staged'
    <3>1. \A i \in DOMAIN <<l>> : i = 1 /\ <<l>>[i] = l
      OBVIOUS
    <3>2. \A i \in DOMAIN op'.staged :
             /\ op'.staged[i].seq = Len(lines') + i - 1
             /\ op'.staged[i].by = opens'
             /\ op'.staged[i].kind # "garbage"
             /\ i > 1 => op'.staged[i].kind = "warning"
      BY <1>3, <2>1, <2>3, <2>5, <2>6, <3>1
    <3>3. op'.staged[1] = l
      BY <2>3
    <3>4. QED
      BY <1>3, <2>3, <2>6, <2>7, <3>2, <3>3 DEF Staged
  <2>10. Memory'
    BY <1>3, <2>1, <2>3, <2>7 DEF Memory, Running
  <2>11. Durable'
    BY <1>3, DurableKept DEF Shape
  <2>12. Ahead'
    <3>1. ASSUME NEW c \in AllLines', IsCheckpoint(c)
          PROVE  c.seq <= Len(lines')
      <4>1. c \in Lines(file) \/ c = l
        BY <1>3, <2>3 DEF AllLines, Lines
      <4>2. PICK i \in DOMAIN file : c = file[i]
        BY <2>6, <3>1, <4>1 DEF Lines
      <4>3. i \in 1 .. Len(file) /\ c.seq = i - 1
        BY <2>1, <2>7, <4>2 DEF Ordered
      <4>4. QED
        BY <1>3, <2>1, <4>3
    <3>2. QED
      BY <1>3, <2>8, <3>1 DEF Ahead
  <2>13. EndsFollow(file')
    BY <1>3 DEF Shape
  <2>14. Fresh'
    <3>1. FreshTail(file \o <<l>>, opens + 1)
      <4>1. CASE l.kind = "recovered" /\ l.void = discarded_seq(file)
        BY <1>3, <2>5, <4>1, RecoveredIsFresh
      <4>2. CASE l.kind = "resumed" /\ ends_cleanly(file)
        <5>1. FreshTail(file, opens + 1)
          BY <1>3, <4>2, CleanEndIsFresh
        <5>2. <<l>> \in Seq(LineType)
          BY <2>5
        <5>3. \A i \in DOMAIN <<l>> : <<l>>[i].by = opens + 1 /\ <<l>>[i].kind # "recovered"
          BY <2>5, <4>2
        <5>4. QED
          BY <2>1, <5>1, <5>2, <5>3, FreshExtended
      <4>3. QED
        BY <2>5, <4>1, <4>2
    <3>2. QED
      BY <1>3, <2>3, <3>1 DEF Fresh
  <2>15. QED
    BY <2>9, <2>10, <2>11, <2>12, <2>13, <2>14 DEF Shape
<1>4. QED
  BY <1>2, <1>3 DEF Open

\* The parts of Shape hold of a session that has no log yet.
LEMMA InitShape == Init => Shape
<1> SUFFICES ASSUME Init
             PROVE  Shape
  OBVIOUS
<1>1. /\ file = <<>> /\ synced = 0 /\ lines = <<>> /\ ctl = "absent" /\ acked = NoSeq
      /\ op.at = "none" /\ op.staged = <<>>
  BY DEF Init, NoOp
<1>2. Staged /\ Memory /\ Ahead /\ Fresh
  BY <1>1 DEF Staged, Memory, Ahead, Fresh, Running
<1>3. Durable /\ EndsFollow(file)
  BY <1>1 DEF Durable, EndsFollow, NoSeq
<1>4. QED
  BY <1>2, <1>3 DEF Shape

\* The kernel writes the record of an end right behind its checkpoint.
LEMMA LastAskedIsBehind ==
    ASSUME Inv, Shape, ctl = "live", IsCheckpoint(LastAsked)
    PROVE  FollowsCheckpoint(lines, Len(lines) + 1)
<1> DEFINE S == {j \in DOMAIN lines : lines[j].kind # "warning"}
<1>1. lines \in Seq(LineType) /\ Len(lines) \in Nat /\ lines # <<>> /\ lines[1].kind = "log_opened"
  BY DEF Inv, TypeOK, Shape, Memory, Running
<1>2. S \in SUBSET (1 .. Len(lines)) /\ 1 \in S /\ LastAsked = lines[Max(S)]
  BY <1>1 DEF LastAsked
<1>3. \A k \in 1 .. Len(lines) : k \notin S => lines[k].kind = "warning"
  BY <1>1
<1> HIDE DEF S
<1>4. Max(S) \in S /\ \A y \in S : y <= Max(S)
  BY <1>1, <1>2, MaxIsGreatest
<1>5. PICK m \in S : m = Max(S) /\ \A y \in S : y <= m
  BY <1>4
<1>6. m \in 1 .. (Len(lines) + 1) - 1 /\ IsCheckpoint(lines[m])
  BY <1>1, <1>2, <1>5
<1>7. \A k \in m + 1 .. (Len(lines) + 1) - 1 : k \in 1 .. Len(lines) /\ k \notin S
  BY <1>1, <1>5, <1>6
<1>8. \A k \in m + 1 .. (Len(lines) + 1) - 1 : lines[k].kind = "warning"
  BY <1>3, <1>7
<1>9. QED
  BY <1>6, <1>8 DEF FollowsCheckpoint

\* What a power loss leaves is a first part of the file.
LEMMA CutProperties ==
    ASSUME Inv, NEW n \in synced .. Len(file)
    PROVE  /\ SubSeq(file, 1, n) \in Seq(LineType)
           /\ Len(SubSeq(file, 1, n)) = n
           /\ n \in 0 .. Len(file) /\ synced \in 0 .. n
           /\ \A i \in 1 .. n : SubSeq(file, 1, n)[i] = file[i]
           /\ Lines(SubSeq(file, 1, n)) \subseteq Lines(file)
           /\ Lines(file) \subseteq AllLines
<1>1. file \in Seq(LineType) /\ Len(file) \in Nat /\ synced \in 0 .. Len(file)
  BY DEF Inv, TypeOK
<1>2. n \in 0 .. Len(file) /\ synced \in 0 .. n
  BY <1>1
<1>3. \A i \in 1 .. n : SubSeq(file, 1, n)[i] = file[i]
  BY <1>1, <1>2
<1>4. /\ SubSeq(file, 1, n) \in Seq(LineType)
      /\ Len(SubSeq(file, 1, n)) = n + 1 - 1
      /\ Lines(SubSeq(file, 1, n)) \subseteq Lines(file)
  BY <1>1, <1>2, LinesOfSubSeq
<1>5. QED
  BY <1>2, <1>3, <1>4 DEF Lines, AllLines

\* A line the kernel asks for, staged by one of its three appends.
LEMMA AppendsStage ==
    ASSUME Inv, Shape, AppendEvent \/ AppendCheckpoint \/ AppendEnd
    PROVE  \E l \in LineType :
              /\ Stage(l) /\ ctl = "live"
              /\ l.seq = Len(lines) /\ l.by = opens
              /\ l.kind \notin {"garbage", "recovered"}
              /\ l.kind = "end" => FollowsCheckpoint(lines, Len(lines) + 1)
<1>1. lines \in Seq(LineType) /\ Len(lines) \in Nat /\ opens \in Nat
  BY DEF Inv, TypeOK
<1>2. CASE AppendEvent
  <2>1. PICK late \in BOOLEAN : Stage(Plain(NextSeq, "event", late))
    BY <1>2 DEF AppendEvent
  <2> DEFINE l == Plain(NextSeq, "event", late)
  <2>2. l \in LineType /\ l.kind = "event" /\ l.seq = Len(lines) /\ l.by = opens
    BY <1>1 DEF Plain, Line, NextSeq, LineType, Kinds, Statuses, NoRange
  <2>3. ctl = "live"
    BY <1>2 DEF AppendEvent, Live
  <2>4. QED
    BY <2>1, <2>2, <2>3
<1>3. CASE AppendCheckpoint
  <2>1. PICK st \in Statuses, late \in BOOLEAN :
           Stage(Line(NextSeq, "checkpoint", st, NoRange, late, opens))
    BY <1>3 DEF AppendCheckpoint
  <2> DEFINE l == Line(NextSeq, "checkpoint", st, NoRange, late, opens)
  <2>2. l \in LineType /\ l.kind = "checkpoint" /\ l.seq = Len(lines) /\ l.by = opens
    BY <1>1 DEF Line, NextSeq, LineType, Kinds, Statuses, NoRange
  <2>3. ctl = "live"
    BY <1>3 DEF AppendCheckpoint, Live
  <2>4. QED
    BY <2>1, <2>2, <2>3
<1>4. CASE AppendEnd
  <2> DEFINE l == Line(NextSeq, "end", LastAsked.status, NoRange, FALSE, opens)
  <2>1. ctl = "live" /\ LastAsked.status \in Statuses /\ Stage(l) /\ IsCheckpoint(LastAsked)
    BY <1>4 DEF AppendEnd
  <2>2. l \in LineType /\ l.kind = "end" /\ l.seq = Len(lines) /\ l.by = opens
    BY <1>1, <2>1 DEF Line, NextSeq, LineType, Kinds, NoRange
  <2>3. FollowsCheckpoint(lines, Len(lines) + 1)
    BY <2>1, LastAskedIsBehind
  <2>4. QED
    BY <2>1, <2>2, <2>3
<1>5. QED
  BY <1>2, <1>3, <1>4

\* A crash in the middle of a write leaves a part of it.
LEMMA CrashWriting ==
    ASSUME Inv, Crash, op.at = "write"
    PROVE  \E n \in 0 .. Len(op.staged), t \in BOOLEAN : Die(Written(n), t)
<1>1. torn \in BOOLEAN
  BY DEF Inv, TypeOK
<1>2. PICK n \in 0 .. Len(op.staged) :
         \E t \in (IF n = 0 THEN {torn, TRUE}
                   ELSE IF n = Len(op.staged) THEN {FALSE} ELSE BOOLEAN) :
            Die(Written(n), t)
  BY DEF Crash
<1>3. PICK t \in BOOLEAN : Die(Written(n), t)
  BY <1>1, <1>2, Zenon
<1>4. QED
  BY <1>3

\* Every step of the log keeps Shape.
LEMMA NextShape == Inv /\ Shape /\ [Next]_vars => Shape'
<1> SUFFICES ASSUME Inv, Shape, [Next]_vars
             PROVE  Shape'
  OBVIOUS
<1>1. /\ file \in Seq(LineType) /\ op.staged \in Seq(LineType) /\ lines \in Seq(LineType)
      /\ Len(file) \in Nat /\ Len(lines) \in Nat /\ Len(op.staged) \in Nat
      /\ synced \in 0 .. Len(file) /\ torn \in BOOLEAN /\ TypeOK
  BY DEF Inv, TypeOK
<1>2. Lines(file) \subseteq AllLines
  BY DEF Lines, AllLines
<1>3. op.at # "none" => op.staged # <<>> /\ Running
  BY DEF Inv, VoidsBehind
<1>4. CASE Create
  BY <1>4, CreateKeepsShape
<1>5. CASE AppendEvent \/ AppendCheckpoint \/ AppendEnd
  <2>1. PICK l \in LineType :
           /\ Stage(l) /\ ctl = "live"
           /\ l.seq = Len(lines) /\ l.by = opens
           /\ l.kind \notin {"garbage", "recovered"}
           /\ l.kind = "end" => FollowsCheckpoint(lines, Len(lines) + 1)
    BY <1>5, AppendsStage
  <2>2. QED
    BY <2>1, StageKeepsShape
<1>6. CASE Write
  BY <1>6, WriteKeepsShape
<1>7. CASE Sync
  BY <1>7, SyncKeepsShape
<1>8. CASE Extend
  BY <1>8, ExtendKeepsShape
<1>9. CASE ShortWrite
  <2>1. op.at = "write" /\ Fail
    BY <1>9 DEF ShortWrite
  <2>2. PICK n \in 0 .. Len(op.staged) - 1 : file' = Written(n)
    BY <1>9 DEF ShortWrite
  <2>3. n \in 0 .. Len(op.staged) /\ op.staged # <<>> /\ n \in Nat
    BY <1>1, <1>3, <2>1
  <2>4. /\ file' \in Seq(LineType) /\ Len(file') = Len(file) + n
        /\ \A i \in 1 .. Len(file) : file'[i] = file[i]
    BY <1>1, <2>2, <2>3, WrittenLines
  <2>5. Lines(file') \subseteq AllLines \cup {Garbage}
    BY <1>1, <2>2, <2>3, WrittenProperties
  <2>6. EndsFollow(file')
    BY <2>1, <2>2, <2>3, EndsWritten
  <2>7. Len(file') = Len(file) => file' = file
    BY <1>1, <2>2, <2>3, <2>4 DEF Written
  <2>8. Len(file) <= Len(file')
    BY <1>1, <2>3, <2>4
  <2>9. QED
    BY <2>1, <2>4, <2>5, <2>6, <2>7, <2>8, FailKeepsShape
<1>10. CASE SyncFail
  <2>1. op.at = "sync" /\ Fail /\ file' = file
    BY <1>10 DEF SyncFail
  <2>2. Len(lines) + Len(op.staged) <= Len(file) /\ Len(op.staged) # 0
    BY <1>1, <1>3, <2>1 DEF Shape, Memory
  <2>3. Len(lines) < Len(file)
    BY <1>1, <2>2
  <2>4. QED
    BY <1>1, <1>2, <2>1, <2>3, FailKeepsShape DEF Shape
<1>11. CASE Crash
  <2>1. CASE op.at = "write"
    <3>1. PICK n \in 0 .. Len(op.staged), t \in BOOLEAN : Die(Written(n), t)
      BY <1>11, <2>1, CrashWriting
    <3>2. /\ Written(n) \in Seq(LineType)
          /\ \A i \in 1 .. synced : Written(n)[i] = file[i]
      BY <1>1, <1>3, <2>1, WrittenLines
    <3>3. Lines(Written(n)) \subseteq AllLines \cup {Garbage}
      BY <1>1, <1>3, <2>1, WrittenProperties
    <3>4. EndsFollow(Written(n))
      BY <2>1, EndsWritten
    <3>5. QED
      BY <3>1, <3>2, <3>3, <3>4, DieKeepsShape
  <2>2. CASE op.at # "write"
    <3>1. Die(file, torn)
      BY <1>11, <2>2 DEF Crash
    <3>2. QED
      BY <1>1, <1>2, <3>1, DieKeepsShape DEF Shape
  <2>3. QED
    BY <2>1, <2>2
<1>12. CASE PowerLoss
  <2>1. PICK n \in synced .. Len(file), t \in BOOLEAN : Die(SubSeq(file, 1, n), t)
    BY <1>12 DEF PowerLoss
  <2> DEFINE f == SubSeq(file, 1, n)
  <2>2. /\ f \in Seq(LineType) /\ Len(f) = n /\ n \in 0 .. Len(file) /\ synced \in 0 .. n
        /\ \A i \in 1 .. n : f[i] = file[i]
        /\ Lines(f) \subseteq AllLines
    BY CutProperties
  <2>3. Die(f, t)
    BY <2>1
  <2> HIDE DEF f
  <2>4. EndsFollow(f)
    <3>1. n <= Len(f) /\ \A e \in n + 1 .. Len(f) : FALSE
      BY <1>1, <2>2
    <3>2. EndsFollow(file)
      BY DEF Shape
    <3>3. QED
      BY <1>1, <2>2, <3>1, <3>2, EndsKept
  <2>5. \A i \in 1 .. synced : f[i] = file[i]
    BY <1>1, <2>2
  <2>6. QED
    BY <2>2, <2>3, <2>4, <2>5, DieKeepsShape
<1>13. CASE Open
  BY <1>13, OpenKeepsShape
<1>14. CASE UNCHANGED vars
  <2>1. /\ file' = file /\ synced' = synced /\ lines' = lines /\ ctl' = ctl /\ op' = op
        /\ opens' = opens /\ acked' = acked
    BY <1>14 DEF vars
  <2>2. AllLines' = AllLines
    BY <2>1 DEF AllLines
  <2>3. Ahead' /\ Durable'
    BY <2>1, <2>2 DEF Shape, Ahead, Durable, Running
  <2>4. Staged' /\ Memory' /\ Fresh' /\ EndsFollow(file')
    BY <2>1 DEF Shape, Staged, Memory, Fresh, Running
  <2>5. QED
    BY <2>3, <2>4 DEF Shape
<1>15. QED
  BY <1>4, <1>5, <1>6, <1>7, <1>8, <1>9, <1>10, <1>11, <1>12, <1>13, <1>14 DEF Next

-----------------------------------------------------------------------------
(* The abstract store *)

\* The checkpoints in doubt: begun and not acknowledged.
Doubt == {l.seq : l \in {m \in AllLines : IsCheckpoint(m) /\ m.seq > acked}}

\* The steps of the abstract store, seen on the log: checkpoints in doubt are
\* lost, or nothing changes.
LEMMA StoreLoses ==
    ASSUME Doubt' \subseteq Doubt, acked' = acked, base' = base
    PROVE  Store!StoreNext
BY DEF Store!StoreNext, Store!Lose, Doubt, AllLines

\* A checkpoint is begun.
LEMMA StoreBegins ==
    ASSUME NEW c \in 0 .. MaxLines, Doubt' = Doubt \cup {c}, acked' = acked, base' = base
    PROVE  Store!StoreNext
<1>1. Store!Begin(c)
  BY DEF Store!Begin, Doubt, AllLines
<1>2. QED
  BY <1>1 DEF Store!StoreNext

\* A checkpoint in doubt is acknowledged, and no other is in doubt any more.
LEMMA StoreAcknowledges ==
    ASSUME NEW c \in 0 .. MaxLines, c \in Doubt, Doubt' = {}, acked' = c, base' = c
    PROVE  Store!StoreNext
<1>1. Store!Ack(c)
  BY DEF Store!Ack, Doubt, AllLines
<1>2. QED
  BY <1>1 DEF Store!StoreNext

\* The next process restores the acknowledged checkpoint or one in doubt.
LEMMA StoreRestarts ==
    ASSUME base' \in {acked} \cup Doubt, base' # NoSeq, Doubt' = Doubt, acked' = acked
    PROVE  Store!StoreNext
<1>1. Store!Restart
  BY DEF Store!Restart, Doubt, AllLines
<1>2. QED
  BY <1>1 DEF Store!StoreNext

\* Without a new checkpoint among the lines, no more are in doubt.
LEMMA DoubtShrinks ==
    ASSUME acked' = acked, \A c \in AllLines' : IsCheckpoint(c) => c \in AllLines
    PROVE  Doubt' \subseteq Doubt
BY DEF Doubt

\* A write that happens, in full or in part, a sync and the end of a process
\* bring no new checkpoint up.
LEMMA NoNewCheckpoint ==
    ASSUME Inv, Write \/ Sync \/ ShortWrite \/ SyncFail \/ Crash \/ PowerLoss
    PROVE  /\ \A c \in AllLines' : IsCheckpoint(c) => c \in AllLines
           /\ acked' = acked /\ base' = base
<1>1. /\ file \in Seq(LineType) /\ op.staged \in Seq(LineType)
      /\ Len(op.staged) \in Nat /\ TypeOK
  BY DEF Inv, TypeOK
<1>2. Lines(file) \subseteq AllLines
  BY DEF Lines, AllLines
<1>3. op.at # "none" => op.staged # <<>>
  BY DEF Inv, VoidsBehind
<1>4. SUFFICES /\ Lines(file') \subseteq AllLines \cup {Garbage}
               /\ op'.staged = <<>> \/ op'.staged = op.staged
               /\ acked' = acked /\ base' = base
  <2>1. ~ IsCheckpoint(Garbage)
    BY DEF IsCheckpoint, Garbage, Line
  <2>2. AllLines' \subseteq AllLines \cup {Garbage}
    <3>1. CASE op'.staged = <<>>
      <4>1. (DOMAIN op.staged)' = {}
        BY <3>1
      <4>2. AllLines' = Lines(file')
        BY <4>1 DEF AllLines, Lines
      <4>3. QED
        BY <4>2, <1>4
    <3>2. CASE op'.staged = op.staged
      BY <1>4, <3>2 DEF AllLines, Lines
    <3>3. QED
      BY <1>4, <3>1, <3>2
  <2>3. QED
    BY <1>4, <2>1, <2>2
<1>5. CASE Write
  <2>1. op.at = "write" /\ file' = Written(Len(op.staged)) /\ Len(op.staged) \in 0 .. Len(op.staged)
    BY <1>1, <1>5 DEF Write
  <2>2. Lines(file') \subseteq AllLines \cup {Garbage}
    BY <1>1, <1>3, <2>1, WrittenProperties
  <2>3. op'.staged = op.staged /\ acked' = acked /\ base' = base
    BY <1>5 DEF Write, Inv, TypeOK
  <2>4. QED
    BY <2>2, <2>3
<1>6. CASE Sync
  <2>1. op'.staged = op.staged /\ acked' = acked /\ base' = base /\ file' = file
    BY <1>6 DEF Sync, Inv, TypeOK
  <2>2. QED
    BY <1>2, <2>1
<1>7. CASE ShortWrite
  <2>1. op.at = "write" /\ Fail
    BY <1>7 DEF ShortWrite
  <2>2. PICK n \in 0 .. Len(op.staged) - 1 : file' = Written(n)
    BY <1>7 DEF ShortWrite
  <2>3. n \in 0 .. Len(op.staged)
    BY <1>1
  <2>4. Lines(file') \subseteq AllLines \cup {Garbage}
    BY <1>1, <1>3, <2>1, <2>2, <2>3, WrittenProperties
  <2>5. op'.staged = <<>> /\ acked' = acked /\ base' = base
    BY <2>1 DEF Fail, NoOp
  <2>6. QED
    BY <2>4, <2>5
<1>8. CASE SyncFail
  <2>1. op'.staged = <<>> /\ acked' = acked /\ base' = base /\ file' = file
    BY <1>8 DEF SyncFail, Fail, NoOp
  <2>2. QED
    BY <1>2, <2>1
<1>9. ASSUME NEW f, NEW t, Die(f, t), Lines(f) \subseteq AllLines \cup {Garbage}
      PROVE  /\ Lines(file') \subseteq AllLines \cup {Garbage}
             /\ op'.staged = <<>> /\ acked' = acked /\ base' = base
  BY <1>9 DEF Die, NoOp
<1>10. CASE Crash
  <2>1. CASE op.at = "write"
    <3>1. PICK n \in 0 .. Len(op.staged), t \in BOOLEAN : Die(Written(n), t)
      BY <1>10, <2>1, CrashWriting
    <3>2. Lines(Written(n)) \subseteq AllLines \cup {Garbage}
      BY <1>1, <1>3, <2>1, WrittenProperties
    <3>3. QED
      BY <1>9, <3>1, <3>2
  <2>2. CASE op.at # "write"
    <3>1. Die(file, torn)
      BY <1>10, <2>2 DEF Crash
    <3>2. QED
      BY <1>2, <1>9, <3>1
  <2>3. QED
    BY <2>1, <2>2
<1>11. CASE PowerLoss
  <2>1. PICK n \in synced .. Len(file), t \in BOOLEAN : Die(SubSeq(file, 1, n), t)
    BY <1>11 DEF PowerLoss
  <2>2. Lines(SubSeq(file, 1, n)) \subseteq AllLines
    BY CutProperties
  <2>3. QED
    BY <1>9, <2>1, <2>2
<1>12. QED
  BY <1>5, <1>6, <1>7, <1>8, <1>10, <1>11

\* A session without a log has acknowledged no checkpoint.
LEMMA InitStore == Init => Store!StoreInit
<1> SUFFICES ASSUME Init
             PROVE  Store!StoreInit
  OBVIOUS
<1>1. file = <<>> /\ op.staged = <<>> /\ acked = NoSeq /\ base = NoSeq
  BY DEF Init, NoOp
<1>2. AllLines = {}
  BY <1>1 DEF AllLines
<1>3. Doubt = {}
  BY <1>2 DEF Doubt
<1>4. QED
  BY <1>1, <1>3 DEF Store!StoreInit, Doubt, AllLines

\* Every step of the log is a step of the abstract store, or none.
LEMMA NextStore == Inv /\ Shape /\ [Next]_vars => [Store!StoreNext]_(Store!storeVars)
<1> SUFFICES ASSUME Inv, Shape, [Next]_vars
             PROVE  Store!StoreNext \/ UNCHANGED Store!storeVars
  OBVIOUS
<1>1. /\ file \in Seq(LineType) /\ op.staged \in Seq(LineType) /\ lines \in Seq(LineType)
      /\ Len(file) \in Nat /\ Len(lines) \in Nat /\ acked \in Int /\ MaxLines \in Nat
  BY LogBounds DEF Inv, TypeOK
<1>2. AllLines \subseteq LineType
  BY <1>1 DEF AllLines
<1>3. \A c \in AllLines : c.seq \in Int
  BY <1>2 DEF LineType
<1>4. CASE Create
  <2> DEFINE l == Line(0, "log_opened", "busy", NoRange, FALSE, opens + 1)
  <2>1. ~ IsCheckpoint(l)
    BY DEF Line, IsCheckpoint
  <2>2. op'.staged = <<l>> /\ file' = file /\ acked' = acked /\ base' = base
    BY <1>4 DEF Create
  <2> HIDE DEF l
  <2>3. AllLines' \subseteq AllLines \cup {l}
    BY <2>2 DEF AllLines
  <2>4. Doubt' \subseteq Doubt
    BY <2>1, <2>2, <2>3, DoubtShrinks
  <2>5. QED
    BY <2>2, <2>4, StoreLoses
<1>5. CASE AppendEvent \/ AppendCheckpoint \/ AppendEnd
  <2>1. PICK l \in LineType :
           /\ Stage(l) /\ ctl = "live"
           /\ l.seq = Len(lines) /\ l.by = opens
           /\ l.kind \notin {"garbage", "recovered"}
           /\ l.kind = "end" => FollowsCheckpoint(lines, Len(lines) + 1)
    BY <1>5, AppendsStage
  <2>2. /\ file' = file /\ acked' = acked /\ base' = base
        /\ op'.staged = stage(l) /\ op.staged = <<>>
        /\ Len(lines) + Len(stage(l)) <= MaxLines
    BY <2>1 DEF Stage, Idle, NoOp
  <2> DEFINE w == Plain(l.seq + 1, "warning", FALSE)
  <2>3. ~ IsCheckpoint(w) /\ stage(l) = IF l.late THEN <<l, w>> ELSE <<l>>
    BY DEF Plain, Line, IsCheckpoint, stage
  <2> HIDE DEF w
  <2>4. Lines(stage(l)) \subseteq {l, w} /\ l \in Lines(stage(l)) /\ Len(stage(l)) \in Nat
    BY <2>3 DEF Lines
  <2>5. AllLines' = AllLines \cup Lines(stage(l))
    BY <2>2 DEF AllLines, Lines
  <2>6. CASE IsCheckpoint(l)
    <3>1. acked < Len(lines)
      BY <2>1 DEF Shape, Ahead, Running
    <3>2. Len(lines) \in 0 .. MaxLines
      BY <1>1, <2>2, <2>4
    <3>3. Doubt' = Doubt \cup {Len(lines)}
      <4>1. \A c \in AllLines' : IsCheckpoint(c) => c \in AllLines \/ c = l
        BY <2>3, <2>4, <2>5
      <4>2. l \in AllLines' /\ AllLines \subseteq AllLines'
        BY <2>4, <2>5
      <4>3. ASSUME NEW x \in Doubt'
            PROVE  x \in Doubt \cup {Len(lines)}
        <5>1. PICK c \in AllLines' : IsCheckpoint(c) /\ c.seq > acked /\ x = c.seq
          BY <2>2 DEF Doubt
        <5>2. QED
          BY <2>1, <4>1, <5>1 DEF Doubt
      <4>4. ASSUME NEW x \in Doubt
            PROVE  x \in Doubt'
        <5>1. PICK c \in AllLines : IsCheckpoint(c) /\ c.seq > acked /\ x = c.seq
          BY DEF Doubt
        <5>2. c \in AllLines'
          BY <4>2
        <5>3. QED
          BY <2>2, <5>1, <5>2 DEF Doubt
      <4>5. Len(lines) \in Doubt'
        <5>1. l.seq > acked'
          BY <1>1, <2>1, <2>2, <3>1
        <5>2. QED
          BY <2>1, <2>6, <4>2, <5>1 DEF Doubt
      <4>6. QED
        BY <4>3, <4>4, <4>5
    <3>4. QED
      BY <2>2, <3>2, <3>3, StoreBegins
  <2>7. CASE ~ IsCheckpoint(l)
    <3>1. Doubt' \subseteq Doubt
      BY <2>2, <2>3, <2>4, <2>5, <2>7, DoubtShrinks
    <3>2. QED
      BY <2>2, <3>1, StoreLoses
  <2>8. QED
    BY <2>6, <2>7
<1>6. CASE Write \/ Sync \/ ShortWrite \/ SyncFail \/ Crash \/ PowerLoss
  BY <1>6, NoNewCheckpoint, DoubtShrinks, StoreLoses
<1>7. CASE Extend
  <2>1. /\ op.at = "extend" /\ file' = file /\ op'.staged = <<>>
        /\ acked' = IF IsCheckpoint(op.staged[1]) THEN op.staged[1].seq ELSE acked
        /\ base' = IF IsCheckpoint(op.staged[1]) THEN op.staged[1].seq ELSE base
    BY <1>7 DEF Extend, NoOp
  <2>2. op.staged # <<>> /\ Running
    BY <2>1 DEF Inv, VoidsBehind
  <2>3. op.staged[1] \in AllLines /\ 1 \in DOMAIN op.staged
    BY <1>1, <2>2 DEF AllLines
  <2>4. AllLines' \subseteq AllLines
    BY <2>1 DEF AllLines
  <2>5. CASE IsCheckpoint(op.staged[1])
    <3>1. op.staged[1].seq = Len(lines) + 1 - 1 /\ Len(lines) <= MaxLines
      BY <2>1, <2>3, <2>5 DEF Shape, Staged
    <3>2. op.staged[1].seq = Len(lines) /\ Len(lines) \in 0 .. MaxLines
      BY <1>1, <3>1
    <3>3. acked < Len(lines) /\ \A c \in AllLines : IsCheckpoint(c) => c.seq <= Len(lines)
      BY <2>2 DEF Shape, Ahead
    <3>4. Len(lines) \in Doubt
      <4>1. op.staged[1].seq > acked
        BY <1>1, <3>2, <3>3
      <4>2. QED
        BY <2>3, <2>5, <3>2, <4>1 DEF Doubt
    <3>5. Doubt' = {}
      <4>1. \A c \in AllLines' : IsCheckpoint(c) => ~ (c.seq > acked')
        BY <1>1, <1>3, <2>1, <2>4, <2>5, <3>2, <3>3
      <4>2. QED
        BY <4>1 DEF Doubt
    <3>6. QED
      BY <2>1, <2>5, <3>2, <3>4, <3>5, StoreAcknowledges
  <2>6. CASE ~ IsCheckpoint(op.staged[1])
    BY <2>1, <2>4, <2>6, DoubtShrinks, StoreLoses
  <2>7. QED
    BY <2>5, <2>6
<1>8. CASE Open
  <2>1. op.staged = <<>>
    BY <1>8 DEF Open, Inv, VoidsBehind, Running, Shape, Staged
  <2>2. ASSUME NEW why, Refuse(why)
        PROVE  Store!StoreNext
    <3>1. AllLines' = AllLines /\ acked' = acked /\ base' = base
      BY <2>2 DEF Refuse, AllLines
    <3>2. Doubt' \subseteq Doubt
      BY <3>1, DoubtShrinks
    <3>3. QED
      BY <3>1, <3>2, StoreLoses
  <2>3. ASSUME parse_log(file), latest_checkpoint(file) # 0,
               base' = LatestSeq(file), file' = file, acked' = acked,
               NEW l, op'.staged = <<l>>, ~ IsCheckpoint(l)
        PROVE  Store!StoreNext
    <3>1. AllLines' = AllLines \cup {l}
      BY <2>1, <2>3 DEF AllLines
    <3>2. Doubt' = Doubt
      BY <2>3, <3>1 DEF Doubt
    <3>3. PICK c \in AllLines : IsCheckpoint(c) /\ c.seq = LatestSeq(file)
      <4>1. /\ latest_checkpoint(file) \in DOMAIN file
            /\ IsCheckpoint(file[latest_checkpoint(file)])
            /\ file[latest_checkpoint(file)].seq = LatestSeq(file)
        BY <1>1, <2>3, RestoredProperties
      <4>2. QED
        BY <4>1 DEF AllLines
    <3>4. /\ acked <= LatestSeq(file) /\ LatestSeq(file) = latest_checkpoint(file) - 1
          /\ latest_checkpoint(file) \in 1 .. Len(file)
      BY <2>3, RestoredProperties
    <3>5. CASE acked = LatestSeq(file)
      BY <1>1, <2>3, <3>2, <3>4, <3>5, StoreRestarts DEF NoSeq
    <3>6. CASE acked # LatestSeq(file)
      <4>1. c.seq > acked /\ LatestSeq(file) # NoSeq
        BY <1>1, <3>3, <3>4, <3>6 DEF NoSeq
      <4>2. LatestSeq(file) \in Doubt
        BY <3>3, <4>1 DEF Doubt
      <4>3. QED
        BY <2>3, <3>2, <4>1, <4>2, StoreRestarts
    <3>7. QED
      BY <3>5, <3>6
  <2>4. ASSUME parse_log(file), latest_checkpoint(file) # 0,
               base' = LatestSeq(file), UNCHANGED <<file, synced, faults, acked>>,
               \E recovery \in BOOLEAN :
                  op' = [at |-> "write",
                         staged |-> <<IF ends_cleanly(file) /\ ~ recovery
                                      THEN Line(Len(file), "resumed", "busy", NoRange, FALSE, opens + 1)
                                      ELSE Line(Len(file), "recovered", "busy", discarded_seq(file),
                                                FALSE, opens + 1)>>]
        PROVE  Store!StoreNext
    <3>1. PICK recovery \in BOOLEAN :
             op' = [at |-> "write",
                    staged |-> <<IF ends_cleanly(file) /\ ~ recovery
                                 THEN Line(Len(file), "resumed", "busy", NoRange, FALSE, opens + 1)
                                 ELSE Line(Len(file), "recovered", "busy", discarded_seq(file),
                                           FALSE, opens + 1)>>]
      BY <2>4
    <3> DEFINE l == IF ends_cleanly(file) /\ ~ recovery
                    THEN Line(Len(file), "resumed", "busy", NoRange, FALSE, opens + 1)
                    ELSE Line(Len(file), "recovered", "busy", discarded_seq(file),
                              FALSE, opens + 1)
    <3>2. ~ IsCheckpoint(l)
      BY DEF Line, IsCheckpoint
    <3>3. op'.staged = <<l>>
      BY <3>1
    <3> HIDE DEF l
    <3>4. QED
      BY <2>3, <2>4, <3>2, <3>3
  <2>5. QED
    BY <1>8, <2>2, <2>4 DEF Open
<1>9. CASE UNCHANGED vars
  <2>1. file' = file /\ op' = op /\ acked' = acked /\ base' = base
    BY <1>9 DEF vars
  <2>2. QED
    BY <2>1 DEF Store!storeVars
<1>10. QED
  BY <1>4, <1>5, <1>6, <1>7, <1>8, <1>9 DEF Next

-----------------------------------------------------------------------------
(* Logs that no append failed on *)

\* A file in order stays so when the staged lines, or some of them, follow it.
LEMMA OrderedGrows ==
    ASSUME Inv, Shape, op.at = "write", ~ torn, Ordered(file, Len(file)),
           Len(file) = Len(lines), file # <<>> => file[1].kind = "log_opened",
           NEW n \in 0 .. Len(op.staged)
    PROVE  /\ Ordered(Written(n), Len(Written(n)))
           /\ Written(n) # <<>> => Written(n)[1].kind = "log_opened"
<1>1. op.staged # <<>> /\ TypeOK
  BY DEF Inv, VoidsBehind
<1>2. /\ file \in Seq(LineType) /\ op.staged \in Seq(LineType) /\ lines \in Seq(LineType)
      /\ Len(file) \in Nat /\ Len(op.staged) \in Nat
  BY <1>1 DEF TypeOK
<1> DEFINE w == Written(n)
<1>3. /\ w \in Seq(LineType) /\ Len(w) = Len(file) + n
      /\ \A i \in 1 .. Len(file) : w[i] = file[i]
      /\ \A i \in 1 .. n : w[Len(file) + i] = op.staged[i]
  BY <1>1, WrittenLines
<1> HIDE DEF w
<1>4. \A i \in 1 .. n : /\ op.staged[i].seq = Len(file) + i - 1
                        /\ op.staged[i].kind # "garbage"
  <2>1. ASSUME NEW i \in 1 .. n
        PROVE  op.staged[i].seq = Len(lines) + i - 1 /\ op.staged[i].kind # "garbage"
    <3>1. i \in DOMAIN op.staged
      BY <1>2
    <3>2. QED
      BY <3>1 DEF Shape, Staged
  <2>2. QED
    BY <2>1
<1>5. ASSUME NEW i \in 1 .. Len(w)
      PROVE  w[i].kind # "garbage" /\ w[i].seq = i - 1
  <2>1. CASE i <= Len(file)
    BY <1>2, <1>3, <2>1 DEF Ordered
  <2>2. CASE i > Len(file)
    <3>1. i - Len(file) \in 1 .. n /\ i = Len(file) + (i - Len(file))
      BY <1>2, <1>3, <2>2
    <3>2. w[i] = op.staged[i - Len(file)]
      BY <1>3, <3>1
    <3>3. QED
      BY <1>2, <1>4, <3>1, <3>2
  <2>3. QED
    BY <1>2, <1>3, <2>1, <2>2
<1>6. ASSUME w # <<>>
      PROVE  w[1].kind = "log_opened"
  <2>1. CASE file # <<>>
    BY <1>2, <1>3, <2>1
  <2>2. CASE file = <<>>
    <3>1. Len(file) = 0 /\ lines = <<>>
      BY <1>2, <2>2
    <3>2. 1 \in 1 .. n
      BY <1>2, <1>3, <1>6, <3>1
    <3>3. w[1] = op.staged[1]
      BY <1>3, <3>1, <3>2
    <3>4. QED
      BY <3>1, <3>3 DEF Shape, Staged
  <2>3. QED
    BY <2>1, <2>2
<1>7. QED
  BY <1>5, <1>6 DEF Ordered, w

\* A log that does not exist yet is in order.
LEMMA InitIntact == Init => Intact
BY DEF Init, Intact, Ordered, Running

\* Every step keeps a log in order, as long as no append has failed.
LEMMA NextIntact == Inv /\ Shape /\ Intact /\ [Next]_vars => Intact'
<1> SUFFICES ASSUME Inv, Shape, Intact, [Next]_vars, faults' = 0
             PROVE  Intact'
  BY DEF Intact
<1> DEFINE InOrder(f) == Ordered(f, Len(f)) /\ (f # <<>> => f[1].kind = "log_opened")
<1>1. /\ file \in Seq(LineType) /\ op.staged \in Seq(LineType) /\ lines \in Seq(LineType)
      /\ Len(file) \in Nat /\ Len(lines) \in Nat /\ Len(op.staged) \in Nat
      /\ synced \in 0 .. Len(file) /\ torn \in BOOLEAN /\ faults \in Nat /\ TypeOK
  BY DEF Inv, TypeOK
<1>2. op.at # "none" => op.staged # <<>> /\ Running
  BY DEF Inv, VoidsBehind
<1>3. CASE ShortWrite \/ SyncFail
  <2>1. faults' = faults + 1
    BY <1>3 DEF ShortWrite, SyncFail, Fail
  <2>2. QED
    BY <1>1, <2>1
<1>4. CASE ~ (ShortWrite \/ SyncFail)
  <2>1. faults = 0
    BY <1>4 DEF Next, vars, Create, AppendEvent, AppendCheckpoint, AppendEnd, Stage, Write, Sync,
                Extend, Crash, PowerLoss, Die, Open, Refuse
  <2>2. /\ InOrder(file)
        /\ ctl \in {"absent", "opening", "live"} => ~ torn
        /\ Running => Len(file) = Len(lines) + (IF op.at \in {"sync", "extend"}
                                                THEN Len(op.staged) ELSE 0)
        /\ ctl = "unreadable" => file = <<>>
    BY <2>1 DEF Intact
  <2>3. op.at = "write" => ~ torn /\ Len(file) = Len(lines)
    BY <1>1, <1>2, <2>2 DEF Running
  <2>4. ASSUME op.at = "write", NEW n \in 0 .. Len(op.staged)
        PROVE  InOrder(Written(n))
    BY <2>2, <2>3, <2>4, OrderedGrows
  <2>5. ASSUME NEW f, NEW t, Die(f, t), InOrder(f)
        PROVE  Intact'
    BY <2>5 DEF Die, Intact, Running
  <2>6. CASE Create
    <3>1. /\ ctl = "absent" /\ file' = file /\ torn' = torn /\ lines' = lines /\ ctl' = "opening"
          /\ op'.at = "write"
      BY <2>6 DEF Create
    <3>2. lines = <<>> /\ file = <<>>
      <4>1. DOMAIN file = {}
        BY <3>1 DEF Inv, VoidsBehind, AllLines
      <4>2. QED
        BY <1>1, <3>1, <4>1 DEF Shape, Memory, Running
    <3>3. QED
      BY <2>2, <3>1, <3>2 DEF Intact
  <2>7. CASE AppendEvent \/ AppendCheckpoint \/ AppendEnd
    <3>1. PICK l : Stage(l)
      BY <2>7, AppendsStage
    <3>2. /\ file' = file /\ torn' = torn /\ lines' = lines /\ ctl' = ctl
          /\ op.at = "none" /\ op'.at = "write"
      BY <3>1 DEF Stage, Idle, NoOp
    <3>3. QED
      BY <2>2, <3>2 DEF Intact, Running
  <2>8. CASE Write
    <3>1. /\ op.at = "write" /\ file' = Written(Len(op.staged)) /\ torn' = FALSE
          /\ op'.at \in {"sync", "extend"} /\ op'.staged = op.staged
          /\ lines' = lines /\ ctl' = ctl
      BY <2>8 DEF Write, Inv, TypeOK
    <3>2. Len(op.staged) \in 0 .. Len(op.staged)
      BY <1>1
    <3>3. Len(file') = Len(file) + Len(op.staged)
      BY <1>1, <1>2, <3>1, <3>2, WrittenLines
    <3>4. InOrder(file')
      BY <2>4, <3>1, <3>2
    <3>5. ctl \in {"opening", "live"}
      BY <1>2, <3>1 DEF Running
    <3>6. QED
      BY <1>1, <2>3, <3>1, <3>3, <3>4, <3>5 DEF Intact
  <2>9. CASE Sync
    <3>1. /\ op.at = "sync" /\ op'.at = "extend" /\ op'.staged = op.staged
          /\ file' = file /\ torn' = torn /\ lines' = lines /\ ctl' = ctl
      BY <2>9 DEF Sync, Inv, TypeOK
    <3>2. QED
      BY <2>2, <3>1 DEF Intact, Running
  <2>10. CASE Extend
    <3>1. /\ op.at = "extend" /\ op'.at = "none" /\ lines' = lines \o op.staged
          /\ file' = file /\ torn' = torn /\ ctl' = "live"
      BY <2>10 DEF Extend, NoOp
    <3>2. Len(lines') = Len(lines) + Len(op.staged) /\ Running
      BY <1>1, <1>2, <3>1
    <3>3. ~ torn /\ Len(file) = Len(lines) + Len(op.staged)
      BY <2>2, <3>1, <3>2 DEF Running
    <3>4. Len(file) = Len(lines') + 0
      BY <1>1, <3>2, <3>3
    <3>5. QED
      BY <2>2, <3>1, <3>3, <3>4 DEF Intact
  <2>11. CASE Crash
    <3>1. CASE op.at = "write"
      <4>1. PICK n \in 0 .. Len(op.staged), t \in BOOLEAN : Die(Written(n), t)
        BY <2>11, <3>1, CrashWriting
      <4>2. InOrder(Written(n))
        BY <2>4, <3>1
      <4>3. QED
        BY <2>5, <4>1, <4>2
    <3>2. CASE op.at # "write"
      <4>1. Die(file, torn)
        BY <2>11, <3>2 DEF Crash
      <4>2. QED
        BY <2>2, <2>5, <4>1
    <3>3. QED
      BY <3>1, <3>2
  <2>12. CASE PowerLoss
    <3>1. PICK n \in synced .. Len(file), t \in BOOLEAN : Die(SubSeq(file, 1, n), t)
      BY <2>12 DEF PowerLoss
    <3> DEFINE f == SubSeq(file, 1, n)
    <3>2. /\ f \in Seq(LineType) /\ Len(f) = n /\ n \in 0 .. Len(file)
          /\ \A i \in 1 .. n : f[i] = file[i]
      BY CutProperties
    <3>3. Die(f, t)
      BY <3>1
    <3> HIDE DEF f
    <3>4. Ordered(f, n)
      BY <1>1, <2>2, <3>2, OrderedPrefix
    <3>5. ASSUME f # <<>>
          PROVE  f[1].kind = "log_opened"
      <4>1. n >= 1 /\ f[1] = file[1] /\ file # <<>>
        BY <1>1, <3>2, <3>5
      <4>2. QED
        BY <2>2, <4>1
    <3>6. InOrder(f)
      BY <3>2, <3>4, <3>5
    <3>7. QED
      BY <2>5, <3>3, <3>6
  <2>13. CASE Open
    <3>1. ctl = "down" /\ op.at = "none"
      BY <1>2, <2>13 DEF Open, Running
    <3>2. ASSUME NEW why, Refuse(why), why = "unreadable" => ~ parse_log(file),
                 why \in {"unreadable", "no_checkpoint", "hash_mismatch", "done"}
          PROVE  Intact'
      <4>1. file' = file /\ torn' = torn /\ lines' = lines /\ op' = op /\ ctl' = why
        BY <3>2 DEF Refuse
      <4>2. ~ parse_log(file) => file = <<>>
        <5>1. DOMAIN file = 1 .. Len(file)
          BY <1>1
        <5>2. QED
          BY <2>2, <5>1 DEF parse_log, Ordered
      <4>3. QED
        BY <2>2, <3>2, <4>1, <4>2 DEF Intact, Running
    <3>3. ASSUME torn' = FALSE, lines' = file, ctl' = "opening", file' = file,
                 op'.at = "write"
          PROVE  Intact'
      BY <1>1, <2>2, <3>3 DEF Intact
    <3>4. CASE parse_log(file) /\ \E why \in {"no_checkpoint", "hash_mismatch", "done"} : Refuse(why)
      BY <3>2, <3>4
    <3>5. CASE ~ parse_log(file) /\ Refuse("unreadable")
      BY <3>2, <3>5
    <3>6. CASE /\ torn' = FALSE /\ lines' = file /\ ctl' = "opening" /\ file' = file
               /\ \E l : op' = [at |-> "write", staged |-> <<l>>]
      <4>1. op'.at = "write"
        BY <3>6
      <4>2. QED
        BY <3>3, <3>6, <4>1
    <3>7. QED
      BY <2>13, <3>4, <3>5, <3>6 DEF Open
  <2>14. CASE UNCHANGED vars
    BY <2>2, <2>14 DEF vars, Intact, Running
  <2>15. QED
    BY <1>4, <2>6, <2>7, <2>8, <2>9, <2>10, <2>11, <2>12, <2>13, <2>14 DEF Next
<1>5. QED
  BY <1>3, <1>4

-----------------------------------------------------------------------------
(* The theorems *)

\* The inductive invariant: FileEventLog's memory against its file, the
\* acknowledged checkpoint against the synced lines, and Kernel::open against
\* what earlier processes left.
THEOREM LogShape == Spec => [](Inv /\ Shape /\ Intact)
<1>1. Init => Inv /\ Shape /\ Intact
  BY InitInv, InitShape, InitIntact
<1>2. Inv /\ Shape /\ Intact /\ [Next]_vars => (Inv /\ Shape /\ Intact)'
  BY NextInv, NextShape, NextIntact
<1>3. QED
  BY <1>1, <1>2, PTL DEF Spec

\* A process that works on the log sees nothing stale behind the checkpoint it
\* restored (Kernel::open, with append in every process before), for any
\* number of lines, processes and failed appends.
THEOREM TailsFresh == Spec => []NoStaleTail
<1>1. Shape => NoStaleTail
  BY DEF Shape, Fresh, FreshTail, NoStaleTail
<1>2. QED
  BY <1>1, LogShape, PTL

\* Crashes and power losses alone never make a log unreadable
\* (FileEventLog::append and ::open), however many there are.
THEOREM LogsReadable == Spec => []ReadableUnlessFailed
<1>1. Intact => ReadableUnlessFailed
  BY DEF Intact, ReadableUnlessFailed, Readable
<1>2. QED
  BY <1>1, LogShape, PTL

\* The log implements the store of checkpoints: what Kernel::open restores is
\* the last acknowledged checkpoint or one whose append was cut short, also
\* when appends fail.
THEOREM LogImplementsStore == Spec => StoreSpec
<1>1. Init => Store!StoreInit
  BY InitStore
<1>2. Inv /\ Shape /\ [Next]_vars => [Store!StoreNext]_(Store!storeVars)
  BY NextStore
<1>3. QED
  BY <1>1, <1>2, LogShape, PTL DEF Spec, StoreSpec, Store!StoreSpec
=============================================================================
