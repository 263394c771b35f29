--------------------------- MODULE Replay_proofs ---------------------------
(***************************************************************************)
(* The log of a session is a complete cassette: what the Recorder has      *)
(* collected is what a scan of the log finds, at every turn boundary of    *)
(* every recording and of every replay (RecorderAgrees of Replay).         *)
(*                                                                         *)
(* The scan is a fold over the log, and the steps of the kernel fold over  *)
(* its inbox and its calls: the first lemmas say that these folds exist    *)
(* and what one more element does.  The next ones say of each operator of  *)
(* the kernel which events it logs and what the scan makes of them.  The   *)
(* inductive invariant then ties what the scan has pending to the point    *)
(* of the turn the kernel is at.                                           *)
(***************************************************************************)
EXTENDS Replay, SequenceTheorems, FiniteSetTheorems, WellFoundedInduction, TLAPS

-----------------------------------------------------------------------------
(* Sequences of anything.                                                  *)
IsSeq(s) == s \in Seq(Range(s))

\* A sequence over some set is one over its range.
LEMMA SeqIs ==
    ASSUME NEW S, NEW s \in Seq(S)
    PROVE  IsSeq(s)
  BY SeqOfRange DEF IsSeq

\* The length and the domain of a sequence.
LEMMA SeqLen ==
    ASSUME NEW s, IsSeq(s)
    PROVE  Len(s) \in Nat /\ DOMAIN s = 1 .. Len(s)
  BY LenProperties DEF IsSeq

\* The concatenation of two sequences.
LEMMA SeqConcat ==
    ASSUME NEW s, IsSeq(s), NEW t, IsSeq(t)
    PROVE  /\ IsSeq(s \o t)
           /\ Len(s \o t) = Len(s) + Len(t)
           /\ \A i \in 1 .. Len(s) : (s \o t)[i] = s[i]
           /\ \A i \in 1 .. Len(t) : (s \o t)[Len(s) + i] = t[i]
<1> DEFINE S == Range(s) \cup Range(t)
<1>1. s \in Seq(S) /\ t \in Seq(S)
  BY SeqMonotonic DEF IsSeq
<1>2. Len(s) \in Nat /\ Len(t) \in Nat
  BY SeqLen
<1> HIDE DEF S
<1>3. /\ s \o t \in Seq(S)
      /\ Len(s \o t) = Len(s) + Len(t)
      /\ \A i \in 1 .. Len(s) + Len(t) : (s \o t)[i] = IF i <= Len(s) THEN s[i] ELSE t[i - Len(s)]
  BY <1>1, ConcatProperties
<1>4. IsSeq(s \o t)
  BY <1>3, SeqIs
<1>5. \A i \in 1 .. Len(s) : (s \o t)[i] = s[i]
  BY <1>2, <1>3
<1>6. ASSUME NEW i \in 1 .. Len(t) PROVE (s \o t)[Len(s) + i] = t[i]
  <2>1. Len(s) + i \in 1 .. Len(s) + Len(t) /\ ~ (Len(s) + i <= Len(s)) /\ Len(s) + i - Len(s) = i
    BY <1>2
  <2>2. QED
    BY <1>3, <2>1
<1>7. QED
  BY <1>3, <1>4, <1>5, <1>6

\* One element is appended to a sequence.
LEMMA SeqAppend ==
    ASSUME NEW s, IsSeq(s), NEW e
    PROVE  /\ IsSeq(Append(s, e)) /\ s \o <<e>> = Append(s, e)
           /\ Len(Append(s, e)) = Len(s) + 1
           /\ \A i \in 1 .. Len(s) : Append(s, e)[i] = s[i]
           /\ Append(s, e)[Len(s) + 1] = e
<1> DEFINE S == Range(s) \cup {e}
<1>1. s \in Seq(S) /\ e \in S
  BY SeqMonotonic DEF IsSeq
<1> HIDE DEF S
<1>2. Append(s, e) \in Seq(S) /\ s \o <<e>> = Append(s, e)
  BY <1>1, AppendProperties, AppendIsConcat
<1>3. QED
  BY <1>1, <1>2, SeqIs, AppendProperties

\* The sequences of no element, of one and of two.
LEMMA SeqFew ==
    /\ IsSeq(<<>>) /\ Len(<<>>) = 0
    /\ \A x : IsSeq(<<x>>) /\ Len(<<x>>) = 1
    /\ \A x, y : IsSeq(<<x, y>>) /\ Len(<<x, y>>) = 2
<1>1. IsSeq(<<>>) /\ Len(<<>>) = 0
  <2>1. <<>> \in Seq({})
    OBVIOUS
  <2>2. QED
    BY <2>1, SeqIs
<1>2. ASSUME NEW x PROVE IsSeq(<<x>>) /\ Len(<<x>>) = 1
  <2>1. <<x>> \in Seq({x})
    OBVIOUS
  <2>2. QED
    BY <2>1, SeqIs
<1>3. ASSUME NEW x, NEW y PROVE IsSeq(<<x, y>>) /\ Len(<<x, y>>) = 2
  <2>1. <<x, y>> \in Seq({x, y})
    OBVIOUS
  <2>2. QED
    BY <2>1, SeqIs
<1>4. QED
  BY <1>1, <1>2, <1>3

\* A function on an initial segment of the numbers is a sequence.
LEMMA SeqFun ==
    ASSUME NEW n \in Nat, NEW f, f = [i \in 1 .. n |-> f[i]]
    PROVE  IsSeq(f) /\ Len(f) = n
<1>1. f \in [1 .. n -> Range(f)]
  <2>1. DOMAIN f = 1 .. n
    OBVIOUS
  <2>2. \A i \in 1 .. n : f[i] \in Range(f)
    BY <2>1 DEF Range
  <2>3. QED
    BY <2>2
<1>2. f \in Seq(Range(f))
  BY <1>1, SeqDef
<1>3. Len(f) \in Nat /\ DOMAIN f = 1 .. Len(f) /\ DOMAIN f = 1 .. n
  BY <1>1, <1>2, LenProperties
<1>4. QED
  BY <1>2, <1>3 DEF IsSeq

\* A part of a sequence.
LEMMA SeqPart ==
    ASSUME NEW s, IsSeq(s), NEW m \in Nat \ {0}, NEW n \in Nat, n <= Len(s)
    PROVE  /\ IsSeq(SubSeq(s, m, n))
           /\ Len(SubSeq(s, m, n)) = IF m <= n THEN n - m + 1 ELSE 0
           /\ \A i \in 1 .. n - m + 1 : SubSeq(s, m, n)[i] = s[m + i - 1]
<1> DEFINE S == Range(s)
<1>1. \A i \in m .. n : s[i] \in S
  BY SeqLen DEF Range
<1> HIDE DEF S
<1>2. /\ SubSeq(s, m, n) \in Seq(S)
      /\ Len(SubSeq(s, m, n)) = IF m <= n THEN n - m + 1 ELSE 0
      /\ \A i \in 1 .. n - m + 1 : SubSeq(s, m, n)[i] = s[m + i - 1]
  BY <1>1, SubSeqProperties
<1>3. QED
  BY <1>2, SeqIs

\* A set of numbers that is not empty has a least one.
LEMMA Least ==
    ASSUME NEW T \in SUBSET Nat, NEW n \in T
    PROVE  \E m \in T : \A i \in T : m <= i
<1> DEFINE R == {ss \in Nat \X Nat : ss[1] < ss[2]}
<1>1. IsWellFoundedOn(R, Nat)
  BY NatLessThanWellFounded DEF OpToRel
<1>2. PICK m \in T : \A i \in T : <<i, m>> \notin R
  BY <1>1, WFMin
<1>3. \A i \in T : ~ (i < m)
  BY <1>2
<1>4. QED
  BY <1>3

-----------------------------------------------------------------------------
(* The folds.  Step names the operators that Replay folds; a run of one    *)
(* is the list of its intermediate results.                                *)
Event       == [op |-> "event"]
Input       == [op |-> "input"]
Delivery    == [op |-> "delivery"]
Inbound(at) == [op |-> "inbound", at |-> at]
Synthetic   == [op |-> "synthetic"]

Step(w, x, i) ==
  CASE w.op = "event"     -> FromEvent(x, i)
    [] w.op = "input"     -> x \o input_of_event(i)
    [] w.op = "delivery"  -> IF Deliverable(i) THEN Append(x, i) ELSE x
    [] w.op = "inbound"   -> Apply(x, i, w.at)
    [] w.op = "synthetic" -> append_tool_output(x, i, Output("cancelled", "Cancelled"))

IsRun(w, f, base, s, n) ==
  f = [i \in 0 .. n |-> IF i = 0 THEN base ELSE Step(w, f[i - 1], s[i])]

\* The run over a sequence and one element more.
LEMMA RunExtends ==
    ASSUME NEW w, NEW base, NEW s, NEW n \in Nat, n > 0, NEW g, IsRun(w, g, base, s, n - 1)
    PROVE  \E f : IsRun(w, f, base, s, n)
<1> DEFINE f == [i \in 0 .. n |-> IF i < n THEN g[i] ELSE Step(w, g[n - 1], s[n])]
<1>1. \A i \in 0 .. n : i < n => f[i] = g[i]
  OBVIOUS
<1>2. f[n] = Step(w, g[n - 1], s[n])
  OBVIOUS
<1>3. DOMAIN f = 0 .. n /\ f = [i \in 0 .. n |-> f[i]]
  OBVIOUS
<1>4. \A i \in 0 .. n - 1 : g[i] = IF i = 0 THEN base ELSE Step(w, g[i - 1], s[i])
  BY DEF IsRun
<1> HIDE DEF f
<1>5. ASSUME NEW i \in 0 .. n
      PROVE  f[i] = IF i = 0 THEN base ELSE Step(w, f[i - 1], s[i])
  <2>1. CASE i < n
    <3>1. i \in 0 .. n - 1 /\ f[i] = g[i] /\ (i # 0 => f[i - 1] = g[i - 1])
      BY <1>1, <2>1
    <3>2. QED
      BY <1>4, <3>1
  <2>2. CASE i = n
    <3>1. f[i - 1] = g[n - 1] /\ i # 0
      BY <1>1, <2>2
    <3>2. QED
      BY <1>2, <2>2, <3>1
  <2>3. QED
    BY <2>1, <2>2
<1>6. QED
  BY <1>3, <1>5 DEF IsRun

\* Every sequence has a run.
LEMMA RunExists ==
    ASSUME NEW w, NEW base, NEW s, NEW n \in Nat
    PROVE  \E f : IsRun(w, f, base, s, n)
<1> DEFINE T == {m \in Nat : ~ \E f : IsRun(w, f, base, s, m)}
<1>1. SUFFICES ASSUME n \in T PROVE FALSE
  OBVIOUS
<1>2. T \in SUBSET Nat
  OBVIOUS
<1> HIDE DEF T
<1>3. PICK m \in T : \A i \in T : m <= i
  BY <1>1, <1>2, Least
<1>4. m \in Nat /\ ~ \E f : IsRun(w, f, base, s, m)
  BY <1>3 DEF T
<1>5. CASE m = 0
  <2> DEFINE f == [i \in 0 .. 0 |-> base]
  <2>1. f = [i \in 0 .. 0 |-> IF i = 0 THEN base ELSE Step(w, f[i - 1], s[i])]
    OBVIOUS
  <2>2. IsRun(w, f, base, s, 0)
    BY <2>1 DEF IsRun
  <2>3. QED
    BY <1>4, <1>5, <2>2
<1>6. CASE m > 0
  <2>1. m - 1 \in Nat /\ m - 1 \notin T
    BY <1>3, <1>4, <1>6
  <2>2. PICK g : IsRun(w, g, base, s, m - 1)
    BY <2>1 DEF T
  <2>3. QED
    BY <1>4, <1>6, <2>2, RunExtends
<1>7. QED
  BY <1>4, <1>5, <1>6

\* Two runs over sequences with a common beginning agree on it.
LEMMA RunAgrees ==
    ASSUME NEW w, NEW base, NEW s, NEW t, NEW n \in Nat, NEW m \in Nat, NEW l \in Nat, l <= n, l <= m,
           \A i \in 1 .. l : s[i] = t[i],
           NEW f, IsRun(w, f, base, s, n), NEW g, IsRun(w, g, base, t, m)
    PROVE  f[l] = g[l]
<1> DEFINE T == {i \in 0 .. l : f[i] # g[i]}
<1>1. SUFFICES ASSUME l \in T PROVE FALSE
  OBVIOUS
<1>2. T \in SUBSET Nat
  OBVIOUS
<1> HIDE DEF T
<1>3. PICK j \in T : \A i \in T : j <= i
  BY <1>1, <1>2, Least
<1>4. j \in 0 .. l /\ f[j] # g[j]
  BY <1>3 DEF T
<1>5. f[j] = (IF j = 0 THEN base ELSE Step(w, f[j - 1], s[j]))
  BY <1>4 DEF IsRun
<1>6. g[j] = (IF j = 0 THEN base ELSE Step(w, g[j - 1], t[j]))
  BY <1>4 DEF IsRun
<1>7. j # 0
  BY <1>4, <1>5, <1>6
<1>8. j - 1 \in 0 .. l /\ j - 1 \notin T /\ j \in 1 .. l
  BY <1>3, <1>4, <1>7
<1>9. f[j - 1] = g[j - 1] /\ s[j] = t[j]
  BY <1>8 DEF T
<1>10. QED
  BY <1>4, <1>5, <1>6, <1>7, <1>9

\* What every step of a run preserves, the run preserves: the least step that breaks it, there is none.
LEMMA RunPreserves ==
    ASSUME NEW n \in Nat, NEW Good, 0 \in Good, \A i \in 1 .. n : i - 1 \in Good => i \in Good
    PROVE  n \in Good
<1> DEFINE T == {i \in 0 .. n : i \notin Good}
<1>1. SUFFICES ASSUME n \in T PROVE FALSE
  OBVIOUS
<1>2. T \in SUBSET Nat
  OBVIOUS
<1> HIDE DEF T
<1>3. PICK j \in T : \A i \in T : j <= i
  BY <1>1, <1>2, Least
<1>4. j \in 0 .. n /\ j \notin Good
  BY <1>3 DEF T
<1>5. j # 0
  BY <1>4
<1>6. j - 1 \in 0 .. n /\ j - 1 \notin T /\ j \in 1 .. n
  BY <1>3, <1>4, <1>5
<1>7. j - 1 \in Good
  BY <1>6 DEF T
<1>8. QED
  BY <1>4, <1>6, <1>7

-----------------------------------------------------------------------------
(* The scan of a log.                                                      *)
NewScan == [model |-> <<>>, tools |-> <<>>, pm |-> <<>>, pt |-> <<>>, ptask |-> <<>>]

\* Scanned is the end of a run over the events of the log.
LEMMA ScannedRun ==
    ASSUME NEW log, IsSeq(log)
    PROVE  \E f : IsRun(Event, f, NewScan, log, Len(log)) /\ Scanned(log) = f[Len(log)]
<1> DEFINE f == CHOOSE f : f = [n \in 0 .. Len(log) |-> IF n = 0 THEN NewScan ELSE FromEvent(f[n - 1], log[n])]
<1>1. Len(log) \in Nat
  BY SeqLen
<1>2. PICK g : IsRun(Event, g, NewScan, log, Len(log))
  BY <1>1, RunExists
<1>3. ASSUME NEW x, NEW i PROVE Step(Event, x, i) = FromEvent(x, i)
  BY DEF Step, Event
<1>4. g = [n \in 0 .. Len(log) |-> IF n = 0 THEN NewScan ELSE FromEvent(g[n - 1], log[n])]
  BY <1>2, <1>3 DEF IsRun
<1>5. f = [n \in 0 .. Len(log) |-> IF n = 0 THEN NewScan ELSE FromEvent(f[n - 1], log[n])]
  BY <1>4
<1>6. Scanned(log) = f[Len(log)]
  BY DEF Scanned, Folded, NewScan
<1> HIDE DEF f
<1>7. IsRun(Event, f, NewScan, log, Len(log))
  BY <1>3, <1>5 DEF IsRun
<1>8. QED
  BY <1>6, <1>7

\* The scan of no event.
LEMMA ScannedNone == Scanned(<<>>) = NewScan
<1>1. PICK f : IsRun(Event, f, NewScan, <<>>, 0) /\ Scanned(<<>>) = f[0]
  BY ScannedRun, SeqFew
<1>2. QED
  BY <1>1 DEF IsRun

\* The scan of one event more.
LEMMA ScannedOne ==
    ASSUME NEW log, IsSeq(log), NEW e
    PROVE  Scanned(Append(log, e)) = FromEvent(Scanned(log), e)
<1> DEFINE l == Append(log, e)
           n == Len(log)
<1>1. /\ n \in Nat /\ IsSeq(l) /\ Len(l) = n + 1 /\ l[n + 1] = e
      /\ \A i \in 1 .. n : log[i] = l[i]
  BY SeqLen, SeqAppend
<1> HIDE DEF l
<1>2. PICK f : IsRun(Event, f, NewScan, log, n) /\ Scanned(log) = f[n]
  BY ScannedRun
<1>3. PICK g : IsRun(Event, g, NewScan, l, n + 1) /\ Scanned(l) = g[n + 1]
  BY <1>1, ScannedRun
<1> HIDE DEF n
<1>4. f[n] = g[n]
  BY <1>1, <1>2, <1>3, RunAgrees
<1>5. g[n + 1] = Step(Event, g[n], l[n + 1])
  BY <1>1, <1>3 DEF IsRun
<1>6. Step(Event, g[n], e) = FromEvent(g[n], e)
  BY DEF Step, Event
<1>7. QED
  BY <1>1, <1>2, <1>3, <1>4, <1>5, <1>6 DEF l

\* The scan of a log that grows by one event or by two.
LEMMA ScannedTwo ==
    ASSUME NEW log, IsSeq(log), NEW a, NEW b
    PROVE  /\ IsSeq(log \o <<a>>) /\ Scanned(log \o <<a>>) = FromEvent(Scanned(log), a)
           /\ IsSeq(log \o <<a, b>>) /\ Scanned(log \o <<a, b>>) = FromEvent(FromEvent(Scanned(log), a), b)
<1>1. log \o <<a>> = Append(log, a) /\ IsSeq(Append(log, a))
  BY SeqAppend
<1>2. Append(log, a) \o <<b>> = Append(Append(log, a), b) /\ IsSeq(Append(Append(log, a), b))
  BY <1>1, SeqAppend
<1>3. log \o <<a, b>> = (log \o <<a>>) \o <<b>>
  <2> DEFINE S == Range(log) \cup {a, b}
  <2>1. log \in Seq(S) /\ <<a>> \in Seq(S) /\ <<b>> \in Seq(S)
    BY SeqMonotonic DEF IsSeq
  <2>2. <<a, b>> = <<a>> \o <<b>>
    <3>1. <<a>> \in Seq({a, b}) /\ <<b>> \in Seq({a, b}) /\ <<a, b>> \in Seq({a, b})
      OBVIOUS
    <3> DEFINE t == <<a>> \o <<b>>
    <3>2. t \in Seq({a, b}) /\ Len(t) = 2 /\ \A i \in 1 .. 2 : t[i] = IF i <= 1 THEN <<a>>[i] ELSE <<b>>[i - 1]
      BY <3>1, ConcatProperties
    <3>3. t[1] = a /\ t[2] = b
      BY <3>2
    <3> HIDE DEF t
    <3>4. Len(<<a, b>>) = 2 /\ \A i \in 1 .. 2 : <<a, b>>[i] = t[i]
      BY <3>3
    <3>5. <<a, b>> = t
      BY <3>1, <3>2, <3>4, SeqEqual
    <3>6. QED
      BY <3>5 DEF t
  <2> HIDE DEF S
  <2>3. QED
    BY <2>1, <2>2, ConcatAssociative
<1>4. Scanned(Append(log, a)) = FromEvent(Scanned(log), a)
  BY ScannedOne
<1>5. Scanned(Append(Append(log, a), b)) = FromEvent(Scanned(Append(log, a)), b)
  BY <1>1, ScannedOne
<1>6. QED
  BY <1>1, <1>2, <1>3, <1>4, <1>5

\* Events that the scan passes over, however many.
LEMMA ScannedSame ==
    ASSUME NEW log, IsSeq(log), NEW events, IsSeq(events),
           \A i \in 1 .. Len(events) : FromEvent(Scanned(log), events[i]) = Scanned(log)
    PROVE  IsSeq(log \o events) /\ Scanned(log \o events) = Scanned(log)
<1> DEFINE n == Len(log)
           m == Len(events)
           l == log \o events
<1>1. n \in Nat /\ m \in Nat
  BY SeqLen
<1>2. /\ IsSeq(l) /\ Len(l) = n + m
      /\ \A i \in 1 .. n : log[i] = l[i]
      /\ \A i \in 1 .. m : l[n + i] = events[i]
  BY SeqConcat
<1> HIDE DEF l
<1>3. PICK f : IsRun(Event, f, NewScan, log, n) /\ Scanned(log) = f[n]
  BY ScannedRun
<1>4. PICK g : IsRun(Event, g, NewScan, l, n + m) /\ Scanned(l) = g[n + m]
  BY <1>2, ScannedRun
<1>5. \A i \in 1 .. m : FromEvent(f[n], events[i]) = f[n]
  BY <1>3
<1> HIDE DEF n, m
<1>6. f[n] = g[n]
  BY <1>1, <1>2, <1>3, <1>4, RunAgrees
<1> DEFINE Good == {i \in Nat : g[n + i] = f[n]}
<1>7. 0 \in Good
  BY <1>1, <1>6
<1>8. ASSUME NEW i \in 1 .. m, i - 1 \in Good PROVE i \in Good
  <2>1. n + i \in 0 .. n + m /\ n + i # 0 /\ (n + i) - 1 = n + (i - 1) /\ i \in Nat
    BY <1>1
  <2>2. g[n + i] = Step(Event, g[(n + i) - 1], l[n + i])
    BY <1>4, <2>1 DEF IsRun
  <2>3. g[n + (i - 1)] = f[n] /\ l[n + i] = events[i]
    BY <1>2, <1>8
  <2>4. Step(Event, f[n], events[i]) = FromEvent(f[n], events[i])
    BY DEF Step, Event
  <2>5. QED
    BY <1>5, <2>1, <2>2, <2>3, <2>4
<1> HIDE DEF Good
<1>9. m \in Good
  BY <1>1, <1>7, <1>8, RunPreserves
<1>10. QED
  BY <1>2, <1>3, <1>4, <1>9 DEF Good, l

-----------------------------------------------------------------------------
(* What the kernel and the scan are made of.                               *)
KernelFields == {"pc", "st", "snap", "ck", "inbox", "calls", "cur", "out", "fired", "toolFired", "log"}
StateFields  == {"session", "turn", "status", "msgs", "tasks"}

IsState(st) == DOMAIN st = StateFields /\ st.turn \in Nat

IsInbox(inbox) == IsSeq(inbox) /\ \A n \in 1 .. Len(inbox) : inbox[n].t \in {"user", "update", "cancel"}

IsKernel(kk) ==
  /\ DOMAIN kk = KernelFields
  /\ IsState(kk.st) /\ IsState(kk.snap)
  /\ IsInbox(kk.inbox)
  /\ IsSeq(kk.calls) /\ kk.cur \in Nat \ {0}
  /\ IsSeq(kk.log)

(* The checkpoint is of this turn or of an earlier one.                    *)
IsFresh(kk) == kk.ck.turn \in Nat /\ kk.ck.turn <= kk.st.turn

(* A task without an id has no waker.                                      *)
IsOutput(out) ==
  /\ out = [content |-> out.content, origin |-> out.origin, task |-> out.task, waker |-> out.waker]
  /\ out.task = <<>> => out.waker = FALSE

IsScan(c) ==
  /\ c = [model |-> c.model, tools |-> c.tools, pm |-> c.pm, pt |-> c.pt, ptask |-> c.ptask]
  /\ \A key \in DOMAIN c.model : IsSeq(c.model[key])
  /\ \A key \in DOMAIN c.tools : IsOutput(c.tools[key])

(* The events that the scan passes over.                                   *)
IsQuiet(e) ==
  \/ e.kind \in {"checkpoint", "user_message", "task_update", "warning", "session_failed", "suspended",
                 "compaction", "log_opened", "provider_retry", "ask_user", "user_answer"}
  \/ e.kind = "cancelled" /\ e.scope # "turn"

\* The scan passes over them.
LEMMA QuietEvent ==
    ASSUME NEW c, NEW e, IsQuiet(e)
    PROVE  FromEvent(c, e) = c
  BY DEF IsQuiet, FromEvent

(* x is a later kernel than kk in the same step of the turn, whose log the *)
(* scan cannot tell from that of kk.                                       *)
Same(x, kk) ==
  /\ IsKernel(x)
  /\ Scanned(x.log) = Scanned(kk.log)
  /\ x.st.turn = kk.st.turn /\ x.ck = kk.ck /\ x.pc = kk.pc /\ x.inbox = kk.inbox
  /\ x.calls = kk.calls /\ x.cur = kk.cur /\ x.out = kk.out

\* It is transitive.
LEMMA SameTrans ==
    ASSUME NEW x, NEW y, NEW z, Same(x, y), Same(y, z)
    PROVE  Same(x, z)
  BY DEF Same

\* Events that the scan passes over are logged.
LEMMA LogSame ==
    ASSUME NEW kk, IsKernel(kk), NEW events, IsSeq(events),
           \A i \in 1 .. Len(events) : FromEvent(Scanned(kk.log), events[i]) = Scanned(kk.log)
    PROVE  Same(Log(kk, events), kk) /\ Log(kk, events).st = kk.st /\ Log(kk, events).snap = kk.snap
<1> DEFINE x == Log(kk, events)
<1>1. /\ DOMAIN x = DOMAIN kk /\ x.log = kk.log \o events
      /\ x.st = kk.st /\ x.snap = kk.snap /\ x.ck = kk.ck /\ x.pc = kk.pc /\ x.inbox = kk.inbox
      /\ x.calls = kk.calls /\ x.cur = kk.cur /\ x.out = kk.out
  BY DEF Log, IsKernel, KernelFields
<1> HIDE DEF x
<1>2. IsSeq(kk.log \o events) /\ Scanned(kk.log \o events) = Scanned(kk.log)
  BY ScannedSame DEF IsKernel
<1>3. IsKernel(x)
  BY <1>1, <1>2 DEF IsKernel
<1>4. QED
  BY <1>1, <1>2, <1>3 DEF Same, x

\* One such event is logged, or two.
LEMMA LogQuiet ==
    ASSUME NEW kk, IsKernel(kk)
    PROVE  /\ \A e : IsQuiet(e) => /\ Same(Log(kk, <<e>>), kk)
                                   /\ Log(kk, <<e>>).st = kk.st /\ Log(kk, <<e>>).snap = kk.snap
           /\ \A e, d : IsQuiet(e) /\ IsQuiet(d) =>
                /\ Same(Log(kk, <<e, d>>), kk)
                /\ Log(kk, <<e, d>>).st = kk.st /\ Log(kk, <<e, d>>).snap = kk.snap
<1>1. ASSUME NEW e, IsQuiet(e)
      PROVE  Same(Log(kk, <<e>>), kk) /\ Log(kk, <<e>>).st = kk.st /\ Log(kk, <<e>>).snap = kk.snap
  <2>1. FromEvent(Scanned(kk.log), e) = Scanned(kk.log)
    BY <1>1, QuietEvent
  <2> DEFINE events == <<e>>
  <2>2. IsSeq(events) /\ \A i \in 1 .. Len(events) : events[i] = e
    BY SeqFew
  <2> HIDE DEF events
  <2>3. Same(Log(kk, events), kk) /\ Log(kk, events).st = kk.st /\ Log(kk, events).snap = kk.snap
    BY <2>1, <2>2, LogSame
  <2>4. QED
    BY <2>3 DEF events
<1>2. ASSUME NEW e, NEW d, IsQuiet(e), IsQuiet(d)
      PROVE  Same(Log(kk, <<e, d>>), kk) /\ Log(kk, <<e, d>>).st = kk.st /\ Log(kk, <<e, d>>).snap = kk.snap
  <2>1. FromEvent(Scanned(kk.log), e) = Scanned(kk.log) /\ FromEvent(Scanned(kk.log), d) = Scanned(kk.log)
    BY <1>2, QuietEvent
  <2> DEFINE events == <<e, d>>
  <2>2. IsSeq(events) /\ \A i \in 1 .. Len(events) : events[i] \in {e, d}
    BY SeqFew
  <2> HIDE DEF events
  <2>3. Same(Log(kk, events), kk) /\ Log(kk, events).st = kk.st /\ Log(kk, events).snap = kk.snap
    BY <2>1, <2>2, LogSame
  <2>4. QED
    BY <2>3 DEF events
<1>3. QED
  BY <1>1, <1>2

\* A state that is changed but for its turn is one.
LEMMA SaidSame ==
    ASSUME NEW kk, IsKernel(kk), NEW msg
    PROVE  Same(Said(kk, msg), kk) /\ Said(kk, msg).snap = kk.snap /\ Said(kk, msg).log = kk.log
  BY DEF Said, Same, IsKernel, IsState, KernelFields, StateFields

\* set_status changes neither.
LEMMA StatusSame ==
    ASSUME NEW kk, IsKernel(kk), NEW s
    PROVE  Same(set_status(kk, s), kk) /\ set_status(kk, s).snap = kk.snap
  BY DEF set_status, Same, IsKernel, IsState, KernelFields, StateFields

\* A checkpoint: the hash is that of the state.
LEMMA CheckpointScan ==
    ASSUME NEW kk, IsKernel(kk), NEW reason
    PROVE  LET x == checkpoint(kk, reason)
           IN  /\ IsKernel(x) /\ IsFresh(x) /\ x.ck.turn = x.st.turn
               /\ Scanned(x.log) = Scanned(kk.log)
               /\ x.st = kk.st /\ x.snap = kk.snap /\ x.pc = kk.pc /\ x.inbox = kk.inbox
               /\ x.calls = kk.calls /\ x.cur = kk.cur /\ x.out = kk.out
<1> DEFINE e == [kind |-> "checkpoint", turn |-> kk.st.turn, reason |-> reason, state |-> kk.st]
           y == Log(kk, <<e>>)
           x == checkpoint(kk, reason)
<1>1. IsQuiet(e)
  BY DEF IsQuiet
<1> HIDE DEF e
<1>2. Same(y, kk) /\ y.st = kk.st /\ y.snap = kk.snap
  BY <1>1, LogQuiet
<1>3. x = [y EXCEPT !.ck = state_hash(kk.st)]
  BY DEF checkpoint, e
<1> HIDE DEF y, x
<1>4. /\ DOMAIN x = DOMAIN y /\ x.ck = state_hash(kk.st)
      /\ x.st = kk.st /\ x.snap = kk.snap /\ x.pc = kk.pc /\ x.inbox = kk.inbox
      /\ x.calls = kk.calls /\ x.cur = kk.cur /\ x.out = kk.out /\ x.log = y.log
  BY <1>2, <1>3 DEF Same, IsKernel, KernelFields
<1>5. IsKernel(x)
  BY <1>2, <1>4 DEF IsKernel, Same
<1>6. x.ck.turn = kk.st.turn /\ kk.st.turn \in Nat
  BY <1>4 DEF state_hash, IsKernel, IsState, StateFields
<1>7. QED
  BY <1>2, <1>4, <1>5, <1>6 DEF IsFresh, Same, x

-----------------------------------------------------------------------------
(* The inbox.                                                              *)

\* apply_user_message.
LEMMA UserMessageSame ==
    ASSUME NEW kk, IsKernel(kk), NEW n, NEW at
    PROVE  Same(apply_user_message(kk, n, at), kk) /\ apply_user_message(kk, n, at).snap = kk.snap
<1> DEFINE e == [kind |-> "user_message", turn |-> kk.st.turn, at |-> at, n |-> n]
           y == Log(kk, <<e>>)
           x == Said(y, <<"user", n>>)
<1>1. IsQuiet(e)
  BY DEF IsQuiet
<1>2. apply_user_message(kk, n, at) = x
  BY DEF apply_user_message
<1> HIDE DEF e
<1>3. Same(y, kk) /\ y.snap = kk.snap
  BY <1>1, LogQuiet
<1> HIDE DEF y
<1>4. Same(x, y) /\ x.snap = y.snap
  BY <1>3, SaidSame DEF Same
<1> HIDE DEF x
<1>5. QED
  BY <1>2, <1>3, <1>4, SameTrans

\* A task gets another status.
LEMMA TaskSame ==
    ASSUME NEW kk, IsKernel(kk), NEW id, NEW s
    PROVE  /\ Same([kk EXCEPT !.st.tasks[id].status = s], kk)
           /\ [kk EXCEPT !.st.tasks[id].status = s].snap = kk.snap
<1> DEFINE tasks == [kk.st.tasks EXCEPT ![id] = [@ EXCEPT !.status = s]]
           x == [kk EXCEPT !.st = [@ EXCEPT !.tasks = tasks]]
<1>1. [kk EXCEPT !.st.tasks[id].status = s] = x
  OBVIOUS
<1> HIDE DEF tasks
<1>2. Same(x, kk) /\ x.snap = kk.snap
  BY DEF Same, IsKernel, IsState, KernelFields, StateFields
<1>3. QED
  BY <1>1, <1>2

\* apply_task_update.
LEMMA TaskUpdateSame ==
    ASSUME NEW kk, IsKernel(kk), NEW u, NEW at
    PROVE  Same(apply_task_update(kk, u, at), kk) /\ apply_task_update(kk, u, at).snap = kk.snap
<1>1. CASE ~ IsOpen(kk.st, u.id)
  <2> DEFINE e == [kind |-> "warning", turn |-> kk.st.turn]
             d == TaskUpdate(kk, u, "ignored")
  <2>1. IsQuiet(e) /\ IsQuiet(d)
    BY DEF IsQuiet, TaskUpdate
  <2>2. apply_task_update(kk, u, at) = Log(kk, <<e, d>>)
    BY <1>1 DEF apply_task_update
  <2> HIDE DEF e, d
  <2>3. QED
    BY <2>1, <2>2, LogQuiet
<1>2. CASE IsOpen(kk.st, u.id)
  <2> DEFINE e    == TaskUpdate(kk, u, at)
             told == [kk EXCEPT !.st.tasks[u.id].status = u.status]
             y    == IF u.status \in Open THEN told ELSE Said(told, <<"result", u.id, u.status>>)
  <2>1. IsQuiet(e)
    BY DEF IsQuiet, TaskUpdate
  <2>2. apply_task_update(kk, u, at) = Log(y, <<e>>)
    BY <1>2 DEF apply_task_update
  <2> HIDE DEF e
  <2>3. Same(told, kk) /\ told.snap = kk.snap
    BY TaskSame
  <2> HIDE DEF told
  <2>4. Same(y, told) /\ y.snap = told.snap
    BY <2>3, SaidSame DEF Same
  <2> HIDE DEF y
  <2>5. Same(Log(y, <<e>>), y) /\ Log(y, <<e>>).snap = y.snap
    BY <2>1, <2>4, LogQuiet DEF Same
  <2>6. QED
    BY <2>2, <2>3, <2>4, <2>5, SameTrans
<1>3. QED
  BY <1>1, <1>2

\* apply_cancel_task.
LEMMA CancelTaskSame ==
    ASSUME NEW kk, IsKernel(kk), NEW id
    PROVE  Same(apply_cancel_task(kk, id), kk) /\ apply_cancel_task(kk, id).snap = kk.snap
<1>1. CASE ~ IsOpen(kk.st, id)
  <2>1. apply_cancel_task(kk, id) = kk
    BY <1>1 DEF apply_cancel_task
  <2>2. QED
    BY <2>1 DEF Same
<1>2. CASE IsOpen(kk.st, id)
  <2> DEFINE e    == [kind |-> "cancelled", turn |-> kk.st.turn, scope |-> "task", id |-> id]
             told == [kk EXCEPT !.st.tasks[id].status = "cancelled"]
             y    == Said(told, <<"result", id, "cancelled">>)
  <2>1. IsQuiet(e)
    BY DEF IsQuiet
  <2>2. apply_cancel_task(kk, id) = Log(y, <<e>>)
    BY <1>2 DEF apply_cancel_task
  <2> HIDE DEF e
  <2>3. Same(told, kk) /\ told.snap = kk.snap
    BY TaskSame
  <2> HIDE DEF told
  <2>4. Same(y, told) /\ y.snap = told.snap
    BY <2>3, SaidSame DEF Same
  <2> HIDE DEF y
  <2>5. Same(Log(y, <<e>>), y) /\ Log(y, <<e>>).snap = y.snap
    BY <2>1, <2>4, LogQuiet DEF Same
  <2>6. QED
    BY <2>2, <2>3, <2>4, <2>5, SameTrans
<1>3. QED
  BY <1>1, <1>2

\* Whatever an item is, the scan does not see it.
LEMMA ApplySame ==
    ASSUME NEW kk, IsKernel(kk), NEW i, i.t \in {"user", "update", "cancel"}, NEW at
    PROVE  Same(Apply(kk, i, at), kk) /\ Apply(kk, i, at).snap = kk.snap
<1>1. CASE i.t = "user"
  <2>1. Apply(kk, i, at) = apply_user_message(kk, i.n, at)
    BY <1>1 DEF Apply
  <2>2. QED
    BY <2>1, UserMessageSame
<1>2. CASE i.t = "update"
  <2>1. Apply(kk, i, at) = apply_task_update(kk, i, at)
    BY <1>2 DEF Apply
  <2>2. QED
    BY <2>1, TaskUpdateSame
<1>3. CASE i.t = "cancel"
  <2>1. Apply(kk, i, at) = apply_cancel_task(kk, i.id)
    BY <1>3 DEF Apply
  <2>2. QED
    BY <2>1, CancelTaskSame
<1>4. QED
  BY <1>1, <1>2, <1>3

\* The whole inbox: only its items are gone.
LEMMA DrainedSame ==
    ASSUME NEW kk, IsKernel(kk), NEW at
    PROVE  LET x == Drained(kk, at)
           IN  /\ IsKernel(x) /\ Scanned(x.log) = Scanned(kk.log)
               /\ x.st.turn = kk.st.turn /\ x.ck = kk.ck /\ x.pc = kk.pc /\ x.inbox = <<>>
               /\ x.calls = kk.calls /\ x.cur = kk.cur /\ x.out = kk.out /\ x.snap = kk.snap
<1> DEFINE n == Len(kk.inbox)
           f == CHOOSE f : f = [i \in 0 .. n |-> IF i = 0 THEN kk ELSE Apply(f[i - 1], kk.inbox[i], at)]
           x == Drained(kk, at)
<1>1. n \in Nat /\ \A i \in 1 .. n : kk.inbox[i].t \in {"user", "update", "cancel"}
  BY SeqLen DEF IsKernel, IsInbox
<1>2. ASSUME NEW y, NEW i PROVE Step(Inbound(at), y, i) = Apply(y, i, at)
  BY DEF Step, Inbound
<1>3. PICK g : IsRun(Inbound(at), g, kk, kk.inbox, n)
  BY <1>1, RunExists
<1>4. g = [i \in 0 .. n |-> IF i = 0 THEN kk ELSE Apply(g[i - 1], kk.inbox[i], at)]
  BY <1>2, <1>3 DEF IsRun
<1>5. f = [i \in 0 .. n |-> IF i = 0 THEN kk ELSE Apply(f[i - 1], kk.inbox[i], at)]
  BY <1>4
<1>6. x = [f[n] EXCEPT !.inbox = <<>>]
  BY DEF Drained, Folded
<1> HIDE DEF f, n, x
<1> DEFINE Good == {i \in 0 .. n : Same(f[i], kk) /\ f[i].snap = kk.snap}
<1>7. 0 \in Good
  <2>1. f[0] = kk
    BY <1>1, <1>5
  <2>2. QED
    BY <1>1, <2>1 DEF Same
<1>8. ASSUME NEW i \in 1 .. n, i - 1 \in Good PROVE i \in Good
  <2>1. f[i] = Apply(f[i - 1], kk.inbox[i], at)
    BY <1>1, <1>5
  <2>2. Same(f[i - 1], kk) /\ f[i - 1].snap = kk.snap
    BY <1>8
  <2>3. Same(f[i], f[i - 1]) /\ f[i].snap = f[i - 1].snap
    BY <1>1, <2>1, <2>2, ApplySame DEF Same
  <2>4. QED
    BY <1>1, <2>2, <2>3, SameTrans
<1> HIDE DEF Good
<1>9. n \in Good
  BY <1>1, <1>7, <1>8, RunPreserves
<1>10. Same(f[n], kk) /\ f[n].snap = kk.snap
  BY <1>9 DEF Good
<1>11. /\ DOMAIN x = DOMAIN f[n] /\ x.inbox = <<>>
       /\ x.st = f[n].st /\ x.snap = f[n].snap /\ x.ck = f[n].ck /\ x.pc = f[n].pc
       /\ x.calls = f[n].calls /\ x.cur = f[n].cur /\ x.out = f[n].out /\ x.log = f[n].log
  BY <1>6, <1>10 DEF Same, IsKernel, KernelFields
<1>12. IsInbox(<<>>)
  BY SeqFew DEF IsInbox
<1>13. IsKernel(x)
  BY <1>10, <1>11, <1>12 DEF Same, IsKernel
<1>14. QED
  BY <1>10, <1>11, <1>13 DEF Same, x

\* apply_inbound_batch.
LEMMA InboundBatch ==
    ASSUME NEW kk, IsKernel(kk), IsFresh(kk)
    PROVE  LET x == apply_inbound_batch(kk)
           IN  IsKernel(x) /\ IsFresh(x) /\ Scanned(x.log) = Scanned(kk.log) /\ x.pc = kk.pc
<1> DEFINE x    == Drained(kk, kk.st.status)
           wake == HasUser(kk) \/ (Closed(kk, x) /\ kk.st.status = "suspended")
           y    == IF wake THEN set_status(x, "running") ELSE x
           real == \E n \in DOMAIN kk.inbox : kk.inbox[n].t = "user" \/ IsOpen(kk.st, kk.inbox[n].id)
           why  == IF HasUser(kk) THEN "user_input" ELSE "task_update"
           z    == checkpoint(y, why)
<1>1. apply_inbound_batch(kk) = IF real THEN z ELSE y
  BY DEF apply_inbound_batch
<1>2. /\ IsKernel(x) /\ Scanned(x.log) = Scanned(kk.log)
      /\ x.st.turn = kk.st.turn /\ x.ck = kk.ck /\ x.pc = kk.pc
  BY DrainedSame
<1> HIDE DEF x, real, why
<1>3. Same(y, x)
  <2>1. Same(x, x)
    BY <1>2 DEF Same
  <2>2. QED
    BY <1>2, <2>1, StatusSame
<1> HIDE DEF wake, y
<1>4. /\ IsKernel(y) /\ IsFresh(y) /\ Scanned(y.log) = Scanned(kk.log) /\ y.pc = kk.pc
  BY <1>2, <1>3 DEF Same, IsFresh
<1>5. IsKernel(z) /\ IsFresh(z) /\ Scanned(z.log) = Scanned(y.log) /\ z.pc = y.pc
  BY <1>4, CheckpointScan
<1> HIDE DEF z
<1>6. QED
  BY <1>1, <1>4, <1>5

-----------------------------------------------------------------------------
(* The end of a turn.                                                      *)

\* A kernel between two turns.
LEMMA BoundarySame ==
    ASSUME NEW kk, IsKernel(kk)
    PROVE  LET x == AtBoundary(kk)
           IN  /\ IsKernel(x) /\ x.pc = "out" /\ x.log = kk.log /\ x.ck = kk.ck /\ x.st = kk.st
<1> DEFINE x == AtBoundary(kk)
<1>1. /\ DOMAIN x = DOMAIN kk /\ x.pc = "out" /\ x.log = kk.log /\ x.ck = kk.ck /\ x.st = kk.st
      /\ x.snap = kk.snap /\ x.inbox = kk.inbox /\ x.calls = <<>> /\ x.cur = 1
  BY DEF AtBoundary, IsKernel, KernelFields
<1> HIDE DEF x
<1>2. IsKernel(x)
  BY <1>1, SeqFew DEF IsKernel
<1>3. QED
  BY <1>1, <1>2 DEF x

(* x is kk at the end of its turn, and c what the scan makes of its log.   *)
Ended(x, c) == IsKernel(x) /\ IsFresh(x) /\ x.pc = "out" /\ Scanned(x.log) = c

\* fail_turn: the scan forgets what is pending.
LEMMA FailTurn ==
    ASSUME NEW kk, IsKernel(kk), NEW class, NEW attempts
    PROVE  Ended(fail_turn(kk, class, attempts), [Scanned(kk.log) EXCEPT !.pm = <<>>, !.pt = <<>>])
<1> DEFINE e == [kind |-> "turn_failed", turn |-> kk.st.turn, class |-> class, attempts |-> attempts]
           d == [kind |-> "session_failed", turn |-> kk.st.turn, class |-> class]
           u == [kk EXCEPT !.st = kk.snap]
           v == Log(u, <<e>>)
           x == Drained(v, "end_of_turn")
           y == set_status(x, "failed")
           z == checkpoint(y, "failure")
           w == Log(z, <<d>>)
           c == FromEvent(Scanned(kk.log), e)
<1>1. fail_turn(kk, class, attempts) = AtBoundary(w)
  BY DEF fail_turn
<1>2. c = [Scanned(kk.log) EXCEPT !.pm = <<>>, !.pt = <<>>]
  BY DEF FromEvent
<1>3. IsQuiet(d)
  BY DEF IsQuiet
<1> HIDE DEF e, d, c
<1>4. IsKernel(u) /\ u.log = kk.log
  BY DEF IsKernel, KernelFields
<1> HIDE DEF u
<1>5. IsKernel(v) /\ Scanned(v.log) = c
  <2>1. IsSeq(u.log \o <<e>>) /\ Scanned(u.log \o <<e>>) = c
    BY <1>4, ScannedTwo DEF IsKernel, c
  <2>2. /\ DOMAIN v = DOMAIN u /\ v.log = u.log \o <<e>> /\ v.st = u.st /\ v.snap = u.snap
        /\ v.inbox = u.inbox /\ v.calls = u.calls /\ v.cur = u.cur
    BY <1>4 DEF Log, IsKernel, KernelFields
  <2> HIDE DEF v
  <2>3. QED
    BY <1>4, <2>1, <2>2 DEF IsKernel
<1> HIDE DEF v
<1>6. IsKernel(x) /\ Scanned(x.log) = c
  BY <1>5, DrainedSame
<1> HIDE DEF x
<1>7. Same(y, x)
  BY <1>6, StatusSame
<1> HIDE DEF y
<1>8. IsKernel(z) /\ IsFresh(z) /\ Scanned(z.log) = c
  BY <1>6, <1>7, CheckpointScan DEF Same
<1> HIDE DEF z
<1>9. Same(w, z) /\ w.st = z.st
  BY <1>3, <1>8, LogQuiet
<1> HIDE DEF w
<1>10. IsKernel(w) /\ IsFresh(w) /\ Scanned(w.log) = c
  BY <1>8, <1>9 DEF Same, IsFresh
<1> DEFINE b == AtBoundary(w)
<1>11. IsKernel(b) /\ b.pc = "out" /\ b.log = w.log /\ b.ck = w.ck /\ b.st = w.st
  BY <1>10, BoundarySame
<1> HIDE DEF b
<1>12. Ended(b, c)
  BY <1>10, <1>11 DEF Ended, IsFresh
<1>13. QED
  BY <1>1, <1>2, <1>12 DEF b

\* The output of a call that the scan does not wait for.
LEMMA OutputPassed ==
    ASSUME NEW kk, IsKernel(kk), NEW call, NEW out, out.task = <<>>, call.id \notin DOMAIN Scanned(kk.log).pt
    PROVE  Same(append_tool_output(kk, call, out), kk)
<1> DEFINE e == [kind |-> "tool_result", turn |-> kk.st.turn, id |-> call.id, content |-> out.content,
                 origin |-> out.origin, task |-> out.task, duration |-> kk.st.session]
           y == Log(kk, <<e>>)
           x == Said(y, <<"tool", call.id, out.content>>)
           events == <<e>>
<1>1. append_tool_output(kk, call, out) = x
  BY DEF append_tool_output
<1>2. FromEvent(Scanned(kk.log), e) = Scanned(kk.log)
  BY DEF FromEvent
<1> HIDE DEF e
<1>3. IsSeq(events) /\ \A i \in 1 .. Len(events) : events[i] = e
  BY SeqFew
<1>4. y = Log(kk, events)
  OBVIOUS
<1> HIDE DEF y, events
<1>5. Same(y, kk)
  BY <1>2, <1>3, <1>4, LogSame
<1>6. Same(x, y)
  BY <1>5, SaidSame DEF Same
<1> HIDE DEF x
<1>7. QED
  BY <1>1, <1>5, <1>6, SameTrans

\* A map of one entry is empty without it.
LEMMA SingleMap ==
    ASSUME NEW a, NEW b
    PROVE  LET m == With(<<>>, a, b)
           IN  DOMAIN m = {a} /\ m[a] = b /\ [x \in DOMAIN m \ {a} |-> m[x]] = <<>>
<1> DEFINE m == With(<<>>, a, b)
<1>1. DOMAIN m = {a} /\ m[a] = b
  BY DEF With
<1> HIDE DEF m
<1>2. [x \in DOMAIN m \ {a} |-> m[x]] = <<>>
  <2>1. DOMAIN m \ {a} = {}
    BY <1>1
  <2>2. QED
    BY <2>1
<1>3. QED
  BY <1>1, <1>2 DEF m

(* The scan c with an entry for a call that was pending.                   *)
Taken(c, key, out) == [c EXCEPT !.tools = With(@, key, out), !.pt = <<>>]

\* The output of a call that the scan waits for becomes an entry of the cassette, with the task and
\* the waker that it has started.
LEMMA OutputTaken ==
    ASSUME NEW kk, IsKernel(kk), NEW call, NEW out, IsOutput(out), NEW key,
           IsScan(Scanned(kk.log)), Scanned(kk.log).pt = With(<<>>, call.id, key), Scanned(kk.log).ptask = <<>>
    PROVE  LET x == append_tool_output(kk, call, out)
           IN  /\ IsKernel(x) /\ x.st.turn = kk.st.turn /\ x.ck = kk.ck /\ x.inbox = kk.inbox
               /\ x.calls = kk.calls /\ x.cur = kk.cur
               /\ Scanned(x.log) = Taken(Scanned(kk.log), key, out)
<1> DEFINE c == Scanned(kk.log)
           bare == [Output(out.content, out.origin) EXCEPT !.task = out.task]
           e == [kind |-> "tool_result", turn |-> kk.st.turn, id |-> call.id, content |-> out.content,
                 origin |-> out.origin, task |-> out.task, duration |-> kk.st.session]
           y == Log(kk, <<e>>)
           z == Said(y, <<"tool", call.id, out.content>>)
           d == [c EXCEPT !.tools = With(@, key, bare), !.pt = <<>>,
                          !.ptask = IF out.task = <<>> THEN <<>> ELSE <<key, out.task[1]>>]
<1>1. FromEvent(c, e) = d
  <2>1. call.id \in DOMAIN c.pt /\ c.pt[call.id] = key /\ DOMAIN c.pt \ {call.id} = {}
    <3> DEFINE m == With(<<>>, call.id, key)
    <3>1. DOMAIN m = {call.id} /\ m[call.id] = key /\ c.pt = m
      BY SingleMap
    <3> HIDE DEF m, c
    <3>2. QED
      BY <3>1
  <2>2. [i \in DOMAIN c.pt \ {call.id} |-> c.pt[i]] = <<>>
    <3> HIDE DEF c
    <3>1. QED
      BY <2>1
  <2>3. FromEvent(c, e) = [c EXCEPT !.tools = With(@, c.pt[call.id], [Output(out.content, out.origin) EXCEPT !.task = out.task]),
                        !.pt = [i \in DOMAIN @ \ {call.id} |-> @[i]],
                        !.ptask = IF out.task = <<>> THEN <<>> ELSE <<c.pt[call.id], out.task[1]>>]
    BY <2>1 DEF FromEvent
  <2> HIDE DEF c, e
  <2>4. QED
    BY <2>1, <2>2, <2>3
<1>2. IsKernel(y) /\ Scanned(y.log) = d
  <2>1. IsSeq(kk.log)
    BY DEF IsKernel
  <2> HIDE DEF e, d
  <2>2. IsSeq(kk.log \o <<e>>) /\ Scanned(kk.log \o <<e>>) = d
    BY <1>1, <2>1, ScannedTwo
  <2> HIDE DEF c
  <2>3. /\ DOMAIN y = DOMAIN kk /\ y.log = kk.log \o <<e>> /\ y.st = kk.st /\ y.snap = kk.snap /\ y.ck = kk.ck
        /\ y.inbox = kk.inbox /\ y.calls = kk.calls /\ y.cur = kk.cur
    BY DEF Log, IsKernel, KernelFields
  <2> HIDE DEF y
  <2>4. QED
    BY <2>2, <2>3 DEF IsKernel
<1>3. /\ y.st = kk.st /\ y.ck = kk.ck /\ y.inbox = kk.inbox /\ y.calls = kk.calls /\ y.cur = kk.cur
  BY DEF Log, IsKernel, KernelFields
<1> HIDE DEF y, e
<1>4. Same(z, y)
  BY <1>2, SaidSame
<1>5. CASE out.task = <<>>
  <2>1. append_tool_output(kk, call, out) = z
    BY <1>5 DEF append_tool_output, y, e
  <2>2. bare = out
    BY <1>5 DEF IsOutput, Output
  <2> HIDE DEF bare
  <2>3. d = [c EXCEPT !.tools = With(@, key, out), !.pt = <<>>]
    BY <1>5, <2>2 DEF IsScan
  <2> HIDE DEF z, d
  <2>4. QED
    BY <1>2, <1>3, <1>4, <2>1, <2>3 DEF Same, Taken
<1>6. CASE out.task # <<>>
  <2> DEFINE started == [kind |-> "task_started", turn |-> kk.st.turn, task |-> out.task[1], waker |-> out.waker]
             tasks   == With(z.st.tasks, out.task[1], [status |-> "running", waker |-> out.waker])
             u       == [z EXCEPT !.st.tasks = tasks]
             x       == Log(u, <<started>>)
  <2>1. append_tool_output(kk, call, out) = x
    BY <1>6 DEF append_tool_output, y, e
  <2> HIDE DEF tasks
  <2>2. IsKernel(z) /\ Scanned(z.log) = d
    BY <1>2, <1>4 DEF Same
  <2>3. IsKernel(u) /\ u.log = z.log /\ u.st.turn = z.st.turn /\ u.ck = z.ck /\ u.inbox = z.inbox
        /\ u.calls = z.calls /\ u.cur = z.cur
    <3> HIDE DEF z
    <3>1. QED
      BY <2>2 DEF IsKernel, IsState, KernelFields, StateFields
  <2> HIDE DEF u, z
  <2>4. FromEvent(d, started) = [c EXCEPT !.tools = With(@, key, out), !.pt = <<>>]
    <3>1. d.ptask = <<key, out.task[1]>> /\ d.tools = With(c.tools, key, bare) /\ d.pt = <<>>
      <4> HIDE DEF bare
      <4>1. DOMAIN c = {"model", "tools", "pm", "pt", "ptask"}
        BY DEF IsScan
      <4> HIDE DEF c
      <4>2. QED
        BY <1>6, <4>1
    <3>2. d.ptask # <<>> /\ d.ptask[2] = out.task[1]
      BY <3>1
    <3>3. FromEvent(d, started) = [d EXCEPT !.tools[d.ptask[1]].waker = out.waker, !.ptask = <<>>]
      <4> HIDE DEF d
      <4>1. QED
        BY <3>2 DEF FromEvent
    <3>4. [bare EXCEPT !.waker = out.waker] = out
      <4>1. bare = [content |-> out.content, origin |-> out.origin, task |-> out.task, waker |-> FALSE]
        <5> DEFINE o == Output(out.content, out.origin)
               r == [o EXCEPT !.task = out.task]
        <5>1. /\ DOMAIN o = {"content", "origin", "task", "waker"}
              /\ o.content = out.content /\ o.origin = out.origin /\ o.waker = FALSE
          BY DEF Output
        <5> HIDE DEF o
        <5>2. /\ DOMAIN r = {"content", "origin", "task", "waker"} /\ r = [n \in DOMAIN r |-> r[n]]
              /\ r.content = out.content /\ r.origin = out.origin /\ r.task = out.task /\ r.waker = FALSE
          BY <5>1
        <5> HIDE DEF r
        <5>3. r = [content |-> out.content, origin |-> out.origin, task |-> out.task, waker |-> FALSE]
          BY <5>2
        <5>4. QED
          BY <5>3 DEF r, o
      <4> HIDE DEF bare
      <4>2. QED
        BY <4>1 DEF IsOutput
    <3>5. [d.tools EXCEPT ![key] = [@ EXCEPT !.waker = out.waker]] = With(c.tools, key, out)
      <4> HIDE DEF bare, c, d
      <4>1. DOMAIN d.tools = {key} \cup DOMAIN c.tools /\ d.tools[key] = bare
            /\ \A k2 \in DOMAIN c.tools : k2 # key => d.tools[k2] = c.tools[k2]
        BY <3>1 DEF With
      <4>2. DOMAIN (With(c.tools, key, out)) = {key} \cup DOMAIN c.tools /\ (With(c.tools, key, out))[key] = out
            /\ \A k2 \in DOMAIN c.tools : k2 # key => (With(c.tools, key, out))[k2] = c.tools[k2]
        BY DEF With
      <4> DEFINE r == With(c.tools, key, out)
      <4>3. r = [k2 \in DOMAIN r |-> r[k2]]
        BY DEF With
      <4> HIDE DEF r
      <4>4. QED
        BY <3>4, <4>1, <4>2, <4>3 DEF r
    <3>6. FromEvent(d, started) = [d EXCEPT !.tools = With(c.tools, key, out), !.ptask = <<>>]
      <4>1. d.ptask[1] = key
        BY <3>1
      <4> HIDE DEF d, c, started
      <4>2. QED
        BY <3>3, <3>5, <4>1
    <3>7. QED
      <4> HIDE DEF bare, started
      <4>1. c = [model |-> c.model, tools |-> c.tools, pm |-> c.pm, pt |-> c.pt, ptask |-> c.ptask]
        BY DEF IsScan
      <4>2. c.ptask = <<>>
        OBVIOUS
      <4> HIDE DEF c
      <4>3. QED
        BY <3>6, <4>1, <4>2
  <2> HIDE DEF c, d, started
  <2>5. IsSeq(u.log \o <<started>>) /\ Scanned(u.log \o <<started>>) = FromEvent(d, started)
    <3>1. IsSeq(u.log) /\ Scanned(u.log) = d
      BY <2>2, <2>3 DEF IsKernel
    <3>2. QED
      BY <3>1, ScannedTwo
  <2>6. /\ DOMAIN x = DOMAIN u /\ x.log = u.log \o <<started>> /\ x.st = u.st /\ x.snap = u.snap /\ x.ck = u.ck
        /\ x.inbox = u.inbox /\ x.calls = u.calls /\ x.cur = u.cur
    BY <2>3 DEF Log, IsKernel, KernelFields
  <2> HIDE DEF x
  <2>7. IsKernel(x)
    BY <2>3, <2>5, <2>6 DEF IsKernel
  <2>8. QED
    BY <1>3, <1>4, <2>1, <2>3, <2>4, <2>5, <2>6, <2>7 DEF Same, c, Taken
<1>7. QED
  BY <1>5, <1>6

\* cancel_turn: the scan forgets the calls that are pending, and passes over the synthetic results.
LEMMA CancelledTurn ==
    ASSUME NEW kk, IsKernel(kk), IsScan(Scanned(kk.log))
    PROVE  Ended(cancel_turn(kk), [Scanned(kk.log) EXCEPT !.pt = <<>>])
<1> DEFINE e == [kind |-> "cancelled", turn |-> kk.st.turn, scope |-> "turn", id |-> <<>>]
           c == FromEvent(Scanned(kk.log), e)
           x == Log(kk, <<e>>)
           rest == SubSeq(kk.calls, kk.cur, Len(kk.calls))
           n == Len(rest)
           none == Output("cancelled", "Cancelled")
           f == CHOOSE f : f = [i \in 0 .. n |-> IF i = 0 THEN x ELSE append_tool_output(f[i - 1], rest[i], none)]
           y == Folded(LAMBDA z, call : append_tool_output(z, call, none), x, rest)
           u == Drained(y, "end_of_turn")
           v == set_status(u, "idle")
           w == checkpoint(v, "cancel")
<1>1. cancel_turn(kk) = AtBoundary(w)
  BY DEF cancel_turn
<1>2. c = [Scanned(kk.log) EXCEPT !.pt = <<>>]
  BY DEF FromEvent
<1>3. c.pt = <<>>
  <2>1. "pt" \in DOMAIN Scanned(kk.log)
    BY DEF IsScan
  <2>2. QED
    BY <1>2, <2>1
<1>4. y = f[n]
  BY DEF Folded
<1> HIDE DEF e, c, w
<1>5. IsKernel(x) /\ Scanned(x.log) = c
  <2>1. IsSeq(kk.log \o <<e>>) /\ Scanned(kk.log \o <<e>>) = c
    BY ScannedTwo DEF IsKernel, c
  <2>2. /\ DOMAIN x = DOMAIN kk /\ x.log = kk.log \o <<e>> /\ x.st = kk.st /\ x.snap = kk.snap
        /\ x.inbox = kk.inbox /\ x.calls = kk.calls /\ x.cur = kk.cur
    BY DEF Log, IsKernel, KernelFields
  <2> HIDE DEF x
  <2>3. QED
    BY <2>1, <2>2 DEF IsKernel
<1>6. n \in Nat
  BY SeqPart, SeqLen DEF IsKernel
<1>7. f = [i \in 0 .. n |-> IF i = 0 THEN x ELSE append_tool_output(f[i - 1], rest[i], none)]
  <2>1. PICK g : IsRun(Synthetic, g, x, rest, n)
    BY <1>6, RunExists
  <2>2. ASSUME NEW z, NEW i PROVE Step(Synthetic, z, i) = append_tool_output(z, i, none)
    BY DEF Step, Synthetic
  <2>3. g = [i \in 0 .. n |-> IF i = 0 THEN x ELSE append_tool_output(g[i - 1], rest[i], none)]
    <3> HIDE DEF x, rest, n, none
    <3>1. QED
      BY <2>1, <2>2 DEF IsRun
  <2> HIDE DEF x, rest, n, none
  <2>4. QED
    BY <2>3
<1>8. none.task = <<>>
  BY DEF Output
<1> HIDE DEF x, f, n, rest, y, none
<1> DEFINE Good == {i \in 0 .. n : Same(f[i], x)}
<1>9. 0 \in Good
  <2>1. f[0] = x
    BY <1>6, <1>7
  <2>2. QED
    BY <1>5, <1>6, <2>1 DEF Same
<1>10. ASSUME NEW i \in 1 .. n, i - 1 \in Good PROVE i \in Good
  <2>1. f[i] = append_tool_output(f[i - 1], rest[i], none)
    BY <1>6, <1>7
  <2>2. Same(f[i - 1], x)
    BY <1>10
  <2>3. IsKernel(f[i - 1]) /\ rest[i].id \notin DOMAIN Scanned(f[i - 1].log).pt
    BY <1>3, <1>5, <2>2 DEF Same
  <2>4. Same(f[i], f[i - 1])
    BY <1>8, <2>1, <2>3, OutputPassed
  <2>5. QED
    BY <1>6, <2>2, <2>4, SameTrans
<1> HIDE DEF Good
<1>11. n \in Good
  BY <1>6, <1>9, <1>10, RunPreserves
<1>12. IsKernel(y) /\ Scanned(y.log) = c
  BY <1>4, <1>5, <1>11 DEF Good, Same
<1>13. IsKernel(u) /\ Scanned(u.log) = c
  BY <1>12, DrainedSame
<1> HIDE DEF u
<1>14. Same(v, u)
  BY <1>13, StatusSame
<1> HIDE DEF v
<1>15. IsKernel(w) /\ IsFresh(w) /\ Scanned(w.log) = c
  BY <1>13, <1>14, CheckpointScan DEF Same, w
<1> DEFINE b == AtBoundary(w)
<1>16. IsKernel(b) /\ b.pc = "out" /\ b.log = w.log /\ b.ck = w.ck /\ b.st = w.st
  BY <1>15, BoundarySame
<1> HIDE DEF b
<1>17. Ended(b, c)
  BY <1>15, <1>16 DEF Ended, IsFresh
<1>18. QED
  BY <1>1, <1>2, <1>17 DEF b

\* end_turn: the scan sees nothing of it.
LEMMA EndedTurn ==
    ASSUME NEW kk, IsKernel(kk)
    PROVE  Ended(end_turn(kk), Scanned(kk.log))
<1> DEFINE x == Drained(kk, "end_of_turn")
           next == IF HasUser(kk) \/ kk.calls # <<>> THEN "running"
                   ELSE IF OpenTasks(x.st) # {} THEN "suspended" ELSE "idle"
           u == set_status(x, next)
           y == checkpoint(u, "turn_end")
           e == [kind |-> "suspended", turn |-> y.st.turn, tasks |-> OpenTasks(y.st),
                 wakers |-> {id \in OpenTasks(y.st) : y.st.tasks[id].waker}]
           w == IF next # "suspended" THEN y ELSE Log(y, <<e>>)
           b == AtBoundary(w)
           r == [b EXCEPT !.fired = FALSE]
<1>1. end_turn(kk) = r
  BY DEF end_turn
<1>2. IsKernel(x) /\ Scanned(x.log) = Scanned(kk.log)
  BY DrainedSame
<1>3. IsQuiet(e)
  BY DEF IsQuiet
<1> HIDE DEF x, next, e
<1>4. Same(u, x)
  BY <1>2, StatusSame
<1> HIDE DEF u
<1>5. IsKernel(y) /\ IsFresh(y) /\ Scanned(y.log) = Scanned(kk.log)
  BY <1>2, <1>4, CheckpointScan DEF Same
<1> HIDE DEF y
<1>6. Same(Log(y, <<e>>), y)
  BY <1>3, <1>5, LogQuiet
<1>7. IsKernel(w) /\ IsFresh(w) /\ Scanned(w.log) = Scanned(kk.log)
  BY <1>5, <1>6 DEF Same, IsFresh
<1> HIDE DEF w
<1>8. IsKernel(b) /\ b.pc = "out" /\ b.log = w.log /\ b.ck = w.ck /\ b.st = w.st
  BY <1>7, BoundarySame
<1> HIDE DEF b
<1>9. /\ DOMAIN r = DOMAIN b /\ r.pc = "out" /\ r.log = b.log /\ r.ck = b.ck /\ r.st = b.st /\ r.snap = b.snap
      /\ r.inbox = b.inbox /\ r.calls = b.calls /\ r.cur = b.cur
  BY <1>8 DEF IsKernel, KernelFields
<1> HIDE DEF r
<1>10. IsKernel(r)
  BY <1>8, <1>9 DEF IsKernel
<1>11. QED
  BY <1>1, <1>7, <1>8, <1>9, <1>10 DEF Ended, IsFresh

\* run_compaction: the messages change, and the checkpoint is of this turn.
LEMMA Compacted ==
    ASSUME NEW kk, IsKernel(kk)
    PROVE  LET x == run_compaction(kk)
           IN  /\ IsKernel(x) /\ Scanned(x.log) = Scanned(kk.log)
               /\ x.ck.turn = kk.st.turn /\ x.st.turn = kk.st.turn
<1> DEFINE u == [kk EXCEPT !.st.msgs = <<Last(@)>>]
           e == [kind |-> "compaction", turn |-> kk.st.turn]
           v == Log(u, <<e>>)
           x == checkpoint(v, "compaction")
<1>1. run_compaction(kk) = x
  BY DEF run_compaction
<1>2. IsQuiet(e)
  BY DEF IsQuiet
<1>3. IsKernel(u) /\ u.log = kk.log /\ u.st.turn = kk.st.turn
  BY DEF IsKernel, IsState, KernelFields, StateFields
<1> HIDE DEF u, e
<1>4. Same(v, u) /\ v.st = u.st
  BY <1>2, <1>3, LogQuiet
<1> HIDE DEF v
<1>5. IsKernel(x) /\ Scanned(x.log) = Scanned(v.log) /\ x.ck.turn = x.st.turn /\ x.st = v.st
  BY <1>4, CheckpointScan DEF Same
<1> HIDE DEF x
<1>6. QED
  BY <1>1, <1>3, <1>4, <1>5 DEF Same

\* Kernel::create.
LEMMA Created ==
    ASSUME NEW session
    PROVE  Ended(NewKernel(session), NewScan)
<1> DEFINE st  == [session |-> session, turn |-> 0, status |-> "created", msgs |-> <<>>, tasks |-> <<>>]
           e   == [kind |-> "log_opened", turn |-> 0, mode |-> session]
           k0  == [pc |-> "out", st |-> st, snap |-> st, ck |-> <<>>, inbox |-> <<>>, calls |-> <<>>, cur |-> 1,
                   out |-> <<>>, fired |-> FALSE, toolFired |-> FALSE, log |-> <<e>>]
           x == checkpoint(k0, "created")
<1>1. NewKernel(session) = x
  BY DEF NewKernel
<1>2. Scanned(<<e>>) = NewScan /\ IsSeq(<<e>>)
  <2>1. IsQuiet(e)
    BY DEF IsQuiet
  <2> HIDE DEF e
  <2>2. Append(<<>>, e) = <<e>>
    <3>1. <<>> \o <<e>> = <<e>>
      <4>1. <<e>> \in Seq({e})
        OBVIOUS
      <4>2. QED
        BY <4>1, ConcatEmptySeq
    <3>2. QED
      BY <3>1, SeqAppend, SeqFew
  <2>3. Scanned(Append(<<>>, e)) = FromEvent(Scanned(<<>>), e)
    BY ScannedOne, SeqFew
  <2>4. QED
    BY <2>1, <2>2, <2>3, ScannedNone, QuietEvent, SeqFew
<1>3. IsState(st)
  BY DEF IsState, StateFields
<1> HIDE DEF st, e
<1>4. /\ DOMAIN k0 = KernelFields /\ k0.pc = "out" /\ k0.log = <<e>> /\ k0.st = st /\ k0.snap = st
      /\ k0.inbox = <<>> /\ k0.calls = <<>> /\ k0.cur = 1
  BY DEF KernelFields
<1> HIDE DEF k0
<1>5. IsInbox(<<>>)
  BY SeqFew DEF IsInbox
<1>6. IsKernel(k0)
  BY <1>2, <1>3, <1>4, <1>5, SeqFew DEF IsKernel
<1>7. IsKernel(x) /\ IsFresh(x) /\ Scanned(x.log) = Scanned(k0.log) /\ x.pc = k0.pc
  BY <1>6, CheckpointScan
<1> HIDE DEF x
<1>8. QED
  BY <1>1, <1>2, <1>4, <1>7 DEF Ended

-----------------------------------------------------------------------------
(* The inductive invariant.                                                *)

(* The Recorder and the scan have the same cassette.                       *)
Agreed(kk, r) ==
  LET c == Scanned(kk.log)
  IN  /\ IsScan(c) /\ c.ptask = <<>>
      /\ DOMAIN r = {"model", "tools", "pending"}
      /\ c.model = r.model /\ c.tools = r.tools

(* What the scan has pending at this point of the turn, and what the       *)
(* Recorder will take for the request of the call.                         *)
AtPoint(kk, r) ==
  LET c == Scanned(kk.log)
  IN  /\ kk.pc \in {"out", "driven", "called", "tools", "invoke", "after"}
      /\ kk.pc = "called" => /\ c.pm = <<Key(kk.ck, kk.st.msgs)>>
                             /\ r.pending[1] = kk.ck => r.pending[2] = kk.st.msgs
      /\ kk.pc \in {"called", "tools"} => c.pt = <<>>
      /\ kk.pc \in {"invoke", "after"} =>
           c.pt = With(<<>>, Call(kk).id, Key(kk.ck, ToolRequest(Call(kk))))
      /\ kk.pc = "after" => IsOutput(kk.out[1])

(* The cassette that a replay runs from.                                   *)
IsTape(tape) ==
  /\ \A key \in DOMAIN tape.model : IsSeq(tape.model[key])
  /\ \A key \in DOMAIN tape.tools : IsOutput(tape.tools[key])

DriverOK ==
  phase # "record" => /\ DOMAIN drv = {"recorded", "tape", "queue", "tracker", "result"}
                      /\ IsTape(drv.tape) /\ IsSeq(drv.queue)

IInv ==
  /\ setup \in Setups
  /\ IsKernel(k) /\ IsFresh(k)
  /\ Agreed(k, rec)
  /\ AtPoint(k, rec)
  /\ DriverOK

\* The concatenations of at most one event with at most one.
LEMMA FewConcat ==
    ASSUME NEW a, NEW b
    PROVE  /\ <<>> \o <<>> = <<>> /\ <<a>> \o <<>> = <<a>> /\ <<>> \o <<b>> = <<b>>
           /\ <<a>> \o <<b>> = <<a, b>>
<1>1. <<>> \in Seq({a, b}) /\ <<a>> \in Seq({a, b}) /\ <<b>> \in Seq({a, b}) /\ <<a, b>> \in Seq({a, b})
  OBVIOUS
<1>2. <<>> \o <<>> = <<>> /\ <<a>> \o <<>> = <<a>> /\ <<>> \o <<b>> = <<b>>
  BY <1>1, ConcatEmptySeq
<1> DEFINE t == <<a>> \o <<b>>
<1>3. t \in Seq({a, b}) /\ Len(t) = 2 /\ \A i \in 1 .. 2 : t[i] = IF i <= 1 THEN <<a>>[i] ELSE <<b>>[i - 1]
  BY <1>1, ConcatProperties
<1>4. t[1] = a /\ t[2] = b
  BY <1>3
<1> HIDE DEF t
<1>5. Len(<<a, b>>) = 2 /\ \A i \in 1 .. 2 : <<a, b>>[i] = t[i]
  BY <1>4
<1>6. <<a, b>> = t
  BY <1>1, <1>3, <1>5, SeqEqual
<1>7. QED
  BY <1>2, <1>6 DEF t

\* A turn that has ended, in whatever way, leaves the Recorder and the scan agreed.
LEMMA EndedAgrees ==
    ASSUME NEW kk, NEW r, Agreed(kk, r), NEW x, NEW c, Ended(x, c),
           \/ c = Scanned(kk.log)
           \/ c = [Scanned(kk.log) EXCEPT !.pt = <<>>]
           \/ c = [Scanned(kk.log) EXCEPT !.pm = <<>>, !.pt = <<>>]
    PROVE  IsKernel(x) /\ IsFresh(x) /\ Agreed(x, r) /\ AtPoint(x, r)
<1> DEFINE d == Scanned(kk.log)
<1>1. d = [model |-> d.model, tools |-> d.tools, pm |-> d.pm, pt |-> d.pt, ptask |-> d.ptask]
  BY DEF Agreed, IsScan
<1>2. c = d \/ c = [d EXCEPT !.pt = <<>>] \/ c = [d EXCEPT !.pm = <<>>, !.pt = <<>>]
  OBVIOUS
<1>3. /\ d.ptask = <<>> /\ d.model = r.model /\ d.tools = r.tools
      /\ \A key \in DOMAIN d.model : IsSeq(d.model[key])
      /\ \A key \in DOMAIN d.tools : IsOutput(d.tools[key])
  BY DEF Agreed, IsScan
<1> HIDE DEF d
<1>4. /\ c = [model |-> c.model, tools |-> c.tools, pm |-> c.pm, pt |-> c.pt, ptask |-> c.ptask]
      /\ c.model = d.model /\ c.tools = d.tools /\ c.ptask = d.ptask
  BY <1>1, <1>2
<1>5. IsScan(c)
  BY <1>3, <1>4 DEF IsScan
<1>6. Agreed(x, r)
  BY <1>3, <1>4, <1>5 DEF Agreed, Ended
<1>7. AtPoint(x, r)
  BY DEF Ended, AtPoint
<1>8. QED
  BY <1>6, <1>7 DEF Ended

\* A response: the scan has the entry of the call.
LEMMA ResponseScanned ==
    ASSUME NEW kk, IsKernel(kk), IsScan(Scanned(kk.log)), NEW content, IsSeq(content),
           Scanned(kk.log).pm = <<Key(kk.ck, kk.st.msgs)>>
    PROVE  LET x == Responded(kk, content)
               c == Scanned(kk.log)
           IN  /\ IsKernel(x) /\ x.ck = kk.ck /\ x.st.turn = kk.st.turn /\ x.pc = "tools"
               /\ Scanned(x.log) =
                    [c EXCEPT !.model = With(@, Key(kk.ck, kk.st.msgs), content), !.pm = <<>>]
<1> DEFINE c == Scanned(kk.log)
           e == [kind |-> "model_response", turn |-> kk.st.turn, request |-> kk.st.msgs,
                 content |-> content, attempts |-> IF Live THEN setup.attempts ELSE 1]
           d == [c EXCEPT !.model = With(@, Key(kk.ck, kk.st.msgs), content), !.pm = <<>>]
           y == Log(kk, <<e>>)
           z == Said(y, <<"assistant", content>>)
           x == [z EXCEPT !.pc = "tools", !.calls = content, !.cur = 1]
<1>1. Responded(kk, content) = x
  BY DEF Responded
<1>2. FromEvent(c, e) = d
  <2>1. c.pm # <<>> /\ c.pm[1].request = e.request /\ c.pm[1] = Key(kk.ck, kk.st.msgs)
    BY DEF Key
  <2>2. e.kind = "model_response" /\ e.content = content
    OBVIOUS
  <2> HIDE DEF c, e
  <2>3. QED
    BY <2>1, <2>2 DEF FromEvent
<1>3. IsSeq(kk.log)
  BY DEF IsKernel
<1> HIDE DEF e, d
<1>4. IsSeq(kk.log \o <<e>>) /\ Scanned(kk.log \o <<e>>) = d
  BY <1>2, <1>3, ScannedTwo
<1> HIDE DEF c
<1>5. /\ DOMAIN y = DOMAIN kk /\ y.log = kk.log \o <<e>> /\ y.st = kk.st /\ y.snap = kk.snap /\ y.ck = kk.ck
      /\ y.inbox = kk.inbox /\ y.calls = kk.calls /\ y.cur = kk.cur
  BY DEF Log, IsKernel, KernelFields
<1> HIDE DEF y
<1>6. IsKernel(y)
  BY <1>4, <1>5 DEF IsKernel
<1>7. Same(z, y)
  BY <1>6, SaidSame
<1> HIDE DEF z
<1>8. /\ DOMAIN x = DOMAIN z /\ x.log = z.log /\ x.st = z.st /\ x.snap = z.snap /\ x.ck = z.ck
      /\ x.inbox = z.inbox /\ x.calls = content /\ x.cur = 1 /\ x.pc = "tools"
  BY <1>7 DEF Same, IsKernel, KernelFields
<1> HIDE DEF x
<1>9. IsKernel(x)
  BY <1>7, <1>8 DEF IsKernel, Same
<1>10. QED
  BY <1>1, <1>4, <1>5, <1>7, <1>8, <1>9 DEF Same, c, d

\* The attempts before the last one.
LEMMA RetriedSame ==
    ASSUME NEW kk, IsKernel(kk), setup \in Setups
    PROVE  Same(Retried(kk), kk) /\ Retried(kk).st = kk.st
<1> DEFINE n      == setup.attempts - 1
           events == [i \in 1 .. n |-> [kind |-> "provider_retry", turn |-> kk.st.turn]]
<1>1. n \in Nat
  BY ReplayAssumption
<1>2. \A i \in 1 .. n : IsQuiet(events[i])
  BY DEF IsQuiet
<1>3. events = [i \in 1 .. n |-> events[i]]
  OBVIOUS
<1>4. Retried(kk) = Log(kk, events)
  BY DEF Retried
<1> HIDE DEF events, n
<1>5. IsSeq(events) /\ Len(events) = n
  BY <1>1, <1>3, SeqFun
<1>6. QED
  BY <1>2, <1>4, <1>5, LogSame, QuietEvent

\* What Returned logs, the scan passes over.
LEMMA ReturnedScan ==
    ASSUME NEW kk, IsKernel(kk), NEW out
    PROVE  LET x == Returned(kk, out)
           IN  /\ IsKernel(x) /\ Scanned(x.log) = Scanned(kk.log) /\ x.pc = "after" /\ x.out = <<out>>
               /\ x.ck = kk.ck /\ x.st.turn = kk.st.turn /\ x.calls = kk.calls /\ x.cur = kk.cur
<1> DEFINE a == [kind |-> "cancelled", turn |-> kk.st.turn, scope |-> "tool", id |-> Call(kk).id]
           b == [kind |-> "user_answer", turn |-> kk.st.turn, id |-> Call(kk).id, answer |-> out.content]
           events == (IF out.origin # "Cancelled" THEN <<>> ELSE <<a>>)
                     \o IF Call(kk).name # "ask" THEN <<>> ELSE <<b>>
           y == Log(kk, events)
           x == [y EXCEPT !.pc = "after", !.out = <<out>>, !.toolFired = FALSE]
<1>1. Returned(kk, out) = x
  BY DEF Returned
<1>2. IsQuiet(a) /\ IsQuiet(b)
  BY DEF IsQuiet
<1> HIDE DEF a, b
<1>3. events \in {<<>>, <<a>>, <<b>>, <<a, b>>}
  BY FewConcat
<1> HIDE DEF events
<1>4. IsSeq(events) /\ \A i \in 1 .. Len(events) : events[i] \in {a, b}
  BY <1>3, SeqFew
<1>5. Same(y, kk)
  BY <1>2, <1>4, LogSame, QuietEvent
<1> HIDE DEF y
<1>6. /\ DOMAIN x = DOMAIN y /\ x.log = y.log /\ x.st = y.st /\ x.snap = y.snap /\ x.ck = y.ck
      /\ x.inbox = y.inbox /\ x.calls = y.calls /\ x.cur = y.cur /\ x.pc = "after" /\ x.out = <<out>>
  BY <1>5 DEF Same, IsKernel, KernelFields
<1> HIDE DEF x
<1>7. IsKernel(x)
  BY <1>5, <1>6 DEF IsKernel, Same
<1>8. QED
  BY <1>1, <1>5, <1>6, <1>7 DEF Same

-----------------------------------------------------------------------------
(* One lemma per action.                                                   *)

\* Init.
LEMMA InitOK == Init => IInv
<1> SUFFICES ASSUME Init PROVE IInv
  OBVIOUS
<1>1. Ended(k, NewScan)
  BY Created DEF Init
<1>2. IsScan(NewScan) /\ NewScan.ptask = <<>> /\ NewScan.model = <<>> /\ NewScan.tools = <<>>
  BY DEF NewScan, IsScan
<1>3. DOMAIN rec = {"model", "tools", "pending"} /\ rec.model = <<>> /\ rec.tools = <<>>
  BY DEF Init, NewRecorder
<1>4. QED
  BY <1>1, <1>2, <1>3 DEF IInv, Ended, Agreed, AtPoint, DriverOK, Init

\* An item is put into the inbox.
LEMMA EnqueueOK ==
    ASSUME IInv, NEW item, item.t \in {"user", "update", "cancel"}, Enqueue(item)
    PROVE  IInv'
<1> DEFINE inbox == Append(k.inbox, item)
<1>1. IsInbox(inbox)
  <2>1. IsSeq(k.inbox) /\ Len(k.inbox) \in Nat
    BY SeqLen DEF IInv, IsKernel, IsInbox
  <2>2. IsSeq(inbox) /\ Len(inbox) = Len(k.inbox) + 1 /\ inbox[Len(k.inbox) + 1] = item
        /\ \A i \in 1 .. Len(k.inbox) : inbox[i] = k.inbox[i]
    BY <2>1, SeqAppend
  <2> HIDE DEF inbox
  <2>3. QED
    BY <2>1, <2>2 DEF IInv, IsKernel, IsInbox
<1>2. k' = [k EXCEPT !.inbox = inbox]
  BY DEF Enqueue
<1> HIDE DEF inbox
<1>3. /\ DOMAIN k' = DOMAIN k /\ k'.inbox = inbox /\ k'.st = k.st /\ k'.snap = k.snap /\ k'.ck = k.ck
      /\ k'.pc = k.pc /\ k'.calls = k.calls /\ k'.cur = k.cur /\ k'.out = k.out /\ k'.log = k.log
  BY <1>2 DEF IInv, IsKernel, KernelFields
<1>4. IsKernel(k') /\ IsFresh(k')
  BY <1>1, <1>3 DEF IInv, IsKernel, IsFresh
<1>5. Agreed(k', rec') /\ AtPoint(k', rec')
  BY <1>3 DEF IInv, Agreed, AtPoint, Call, Enqueue
<1>6. QED
  BY <1>4, <1>5 DEF IInv, DriverOK, Enqueue

\* UserMessage, Update and CancelTask.
LEMMA ArrivalOK ==
    ASSUME IInv, UserMessage \/ Update \/ CancelTask
    PROVE  IInv'
<1>1. PICK item : item.t \in {"user", "update", "cancel"} /\ Enqueue(item)
  <2>1. CASE UserMessage
    <3> DEFINE item == [t |-> "user", n |-> env.users + 1]
    <3>1. item.t = "user" /\ Enqueue(item)
      BY <2>1 DEF UserMessage
    <3>2. QED
      BY <3>1
  <2>2. CASE Update
    <3>1. PICK id \in DOMAIN k.st.tasks, s \in {"running", "succeeded"} :
             Enqueue([t |-> "update", id |-> id, status |-> s, waker |-> "live"])
      BY <2>2 DEF Update
    <3>2. QED
      BY <3>1
  <2>3. CASE CancelTask
    <3>1. PICK id \in DOMAIN k.st.tasks : Enqueue([t |-> "cancel", id |-> id])
      BY <2>3 DEF CancelTask
    <3>2. QED
      BY <3>1
  <2>4. QED
    BY <2>1, <2>2, <2>3
<1>2. QED
  BY <1>1, EnqueueOK

\* CancelTurn and CancelTool fire a token.
LEMMA TokenOK ==
    ASSUME IInv, CancelTurn \/ CancelTool
    PROVE  IInv'
<1>1. /\ DOMAIN k' = DOMAIN k /\ k'.inbox = k.inbox /\ k'.st = k.st /\ k'.snap = k.snap /\ k'.ck = k.ck
      /\ k'.pc = k.pc /\ k'.calls = k.calls /\ k'.cur = k.cur /\ k'.out = k.out /\ k'.log = k.log
  BY DEF IInv, IsKernel, KernelFields, CancelTurn, CancelTool
<1>2. UNCHANGED <<phase, setup, rec, drv>>
  BY DEF CancelTurn, CancelTool
<1>3. IsKernel(k') /\ IsFresh(k')
  BY <1>1 DEF IInv, IsKernel, IsFresh
<1>4. Agreed(k', rec') /\ AtPoint(k', rec')
  BY <1>1, <1>2 DEF IInv, Agreed, AtPoint, Call
<1>5. QED
  BY <1>2, <1>3, <1>4 DEF IInv, DriverOK

\* ApplyInput.
LEMMA ApplyInputOK ==
    ASSUME IInv, ApplyInput
    PROVE  IInv'
<1>1. k' = apply_inbound_batch(k) /\ k.pc = "out" /\ UNCHANGED <<phase, setup, rec, drv>>
  BY DEF ApplyInput
<1>2. IsKernel(k') /\ IsFresh(k') /\ Scanned(k'.log) = Scanned(k.log) /\ k'.pc = "out"
  BY <1>1, InboundBatch DEF IInv
<1>3. Agreed(k', rec') /\ AtPoint(k', rec')
  BY <1>1, <1>2 DEF IInv, Agreed, AtPoint
<1>4. QED
  BY <1>1, <1>2, <1>3 DEF IInv, DriverOK

\* EndTurn.
LEMMA EndTurnOK ==
    ASSUME IInv, EndTurn
    PROVE  IInv'
<1>1. k' = end_turn(k) /\ UNCHANGED <<phase, setup, rec, drv>>
  BY DEF EndTurn
<1>2. Ended(k', Scanned(k.log))
  BY <1>1, EndedTurn DEF IInv
<1>3. IsKernel(k') /\ IsFresh(k') /\ Agreed(k', rec) /\ AtPoint(k', rec)
  BY <1>2, EndedAgrees DEF IInv
<1>4. QED
  BY <1>1, <1>3 DEF IInv, DriverOK

\* A turn that is cancelled or fails, and leaves the Recorder as it is.
LEMMA StoppedOK ==
    ASSUME IInv, NEW kk, IsKernel(kk), Scanned(kk.log) = Scanned(k.log),
           k' = cancel_turn(kk) \/ \E class, n : k' = fail_turn(kk, class, n),
           UNCHANGED <<phase, setup, rec, drv>>
    PROVE  IInv'
<1>1. Agreed(kk, rec) /\ IsScan(Scanned(kk.log))
  BY DEF IInv, Agreed
<1>2. IsKernel(k') /\ IsFresh(k') /\ Agreed(k', rec) /\ AtPoint(k', rec)
  <2>1. CASE k' = cancel_turn(kk)
    <3>1. Ended(k', [Scanned(kk.log) EXCEPT !.pt = <<>>])
      BY <1>1, <2>1, CancelledTurn
    <3>2. QED
      BY <1>1, <3>1, EndedAgrees
  <2>2. CASE \E class, n : k' = fail_turn(kk, class, n)
    <3>1. Ended(k', [Scanned(kk.log) EXCEPT !.pm = <<>>, !.pt = <<>>])
      BY <2>2, FailTurn
    <3>2. QED
      BY <1>1, <3>1, EndedAgrees
  <2>3. QED
    BY <2>1, <2>2
<1>3. QED
  BY <1>2 DEF IInv, DriverOK

\* BeginTurn: the Recorder notes the checkpoint and the request of before_model, the scan those of the
\* call; a compaction in between gives another checkpoint.
LEMMA BeginTurnOK ==
    ASSUME IInv, BeginTurn
    PROVE  IInv'
<1> DEFINE x == [k EXCEPT !.st.turn = @ + 1, !.snap = [k.st EXCEPT !.turn = @ + 1]]
           y == IF x.st.turn \in setup.compact THEN run_compaction(x) ELSE x
           e == ModelRequest(y)
           z == Log(y, <<e>>)
           w == [z EXCEPT !.pc = "called"]
<1>1. UNCHANGED <<phase, setup, drv>>
  BY DEF BeginTurn
<1>2. \/ k' = cancel_turn(x) /\ UNCHANGED rec
      \/ k' = fail_turn(x, "middleware", 1) /\ UNCHANGED rec
      \/ k' = w /\ rec' = [rec EXCEPT !.pending = <<x.ck, x.st.msgs>>]
  BY DEF BeginTurn
<1>3. /\ IsKernel(x) /\ x.log = k.log /\ x.ck = k.ck /\ x.st.turn = k.st.turn + 1
  BY DEF IInv, IsKernel, IsState, KernelFields, StateFields
<1> HIDE DEF x
<1>4. CASE k' = cancel_turn(x) /\ UNCHANGED rec
  BY <1>1, <1>3, <1>4, StoppedOK
<1>5. CASE k' = fail_turn(x, "middleware", 1) /\ UNCHANGED rec
  BY <1>1, <1>3, <1>5, StoppedOK
<1>6. CASE k' = w /\ rec' = [rec EXCEPT !.pending = <<x.ck, x.st.msgs>>]
  <2>1. /\ IsKernel(y) /\ Scanned(y.log) = Scanned(k.log) /\ y.ck.turn \in Nat /\ y.ck.turn <= y.st.turn
        /\ y.ck = x.ck => y.st.msgs = x.st.msgs
    <3>1. CASE x.st.turn \in setup.compact
      <4>1. /\ IsKernel(y) /\ Scanned(y.log) = Scanned(x.log)
            /\ y.ck.turn = x.st.turn /\ y.st.turn = x.st.turn
        BY <1>3, <3>1, Compacted
      <4> HIDE DEF y
      <4>2. k.ck.turn <= k.st.turn /\ k.ck.turn \in Nat /\ k.st.turn \in Nat
        BY DEF IInv, IsFresh, IsKernel, IsState
      <4>3. y.ck.turn # x.ck.turn
        BY <1>3, <4>1, <4>2
      <4>4. QED
        BY <1>3, <4>1, <4>2, <4>3
    <3>2. CASE x.st.turn \notin setup.compact
      <4>1. y = x
        BY <3>2
      <4>2. k.ck.turn <= k.st.turn /\ k.ck.turn \in Nat /\ k.st.turn \in Nat
        BY DEF IInv, IsFresh, IsKernel, IsState
      <4>3. QED
        BY <1>3, <4>1, <4>2
    <3>3. QED
      BY <3>1, <3>2
  <2> HIDE DEF y
  <2> DEFINE c == Scanned(k.log)
             d == [c EXCEPT !.pm = <<Key(y.ck, y.st.msgs)>>, !.pt = <<>>]
  <2>2. FromEvent(c, e) = d
    <3>1. e.kind = "model_request" /\ e.ck = y.ck /\ e.request = y.st.msgs
      BY DEF ModelRequest
    <3> HIDE DEF e, c
    <3>2. QED
      BY <3>1 DEF FromEvent
  <2>3. IsSeq(y.log)
    BY <2>1 DEF IsKernel
  <2>4. /\ c = [model |-> c.model, tools |-> c.tools, pm |-> c.pm, pt |-> c.pt, ptask |-> c.ptask]
        /\ c.ptask = <<>> /\ c.model = rec.model /\ c.tools = rec.tools
        /\ \A key \in DOMAIN c.model : IsSeq(c.model[key])
        /\ \A key \in DOMAIN c.tools : IsOutput(c.tools[key])
    BY DEF IInv, Agreed, IsScan
  <2>5. c = Scanned(y.log)
    BY <2>1
  <2>15. d = [c EXCEPT !.pm = <<Key(y.ck, y.st.msgs)>>, !.pt = <<>>]
    OBVIOUS
  <2> HIDE DEF c, e, d
  <2>6. /\ d = [model |-> d.model, tools |-> d.tools, pm |-> d.pm, pt |-> d.pt, ptask |-> d.ptask]
        /\ d.model = c.model /\ d.tools = c.tools /\ d.ptask = c.ptask
        /\ d.pm = <<Key(y.ck, y.st.msgs)>> /\ d.pt = <<>>
    BY <2>4, <2>15
  <2>7. IsSeq(y.log \o <<e>>) /\ Scanned(y.log \o <<e>>) = d
    BY <2>2, <2>3, <2>5, ScannedTwo
  <2>8. /\ DOMAIN w = DOMAIN y /\ w.log = y.log \o <<e>> /\ w.st = y.st /\ w.snap = y.snap /\ w.ck = y.ck
        /\ w.inbox = y.inbox /\ w.calls = y.calls /\ w.cur = y.cur /\ w.pc = "called"
    BY <2>1 DEF Log, IsKernel, KernelFields
  <2> HIDE DEF w
  <2>9. IsKernel(k') /\ IsFresh(k')
    BY <1>6, <2>1, <2>7, <2>8 DEF IsKernel, IsFresh
  <2>10. /\ DOMAIN rec' = {"model", "tools", "pending"} /\ rec'.model = rec.model /\ rec'.tools = rec.tools
         /\ rec'.pending = <<x.ck, x.st.msgs>>
    BY <1>6 DEF IInv, Agreed
  <2>11. IsScan(d)
    BY <2>4, <2>6 DEF IsScan
  <2>12. Agreed(k', rec')
    BY <1>6, <2>4, <2>6, <2>7, <2>8, <2>10, <2>11 DEF Agreed
  <2>13. AtPoint(k', rec')
    BY <1>6, <2>1, <2>6, <2>7, <2>8, <2>10 DEF AtPoint
  <2>14. QED
    BY <1>1, <2>9, <2>12, <2>13 DEF IInv, DriverOK
<1>7. QED
  BY <1>2, <1>4, <1>5, <1>6

\* The response to the call that is pending: both sides get the same entry.
LEMMA RespondedOK ==
    ASSUME IInv, k.pc = "called", NEW kk, Same(kk, k), kk.st = k.st, NEW content, IsSeq(content),
           k' = Responded(kk, content), rec' = after_model(rec, k, content),
           UNCHANGED <<phase, setup, drv>>
    PROVE  IInv'
<1> DEFINE c   == Scanned(k.log)
           key == Key(k.ck, k.st.msgs)
           d   == [c EXCEPT !.model = With(@, key, content), !.pm = <<>>]
<1>1. /\ c.pm = <<key>> /\ c.pt = <<>> /\ (rec.pending[1] = k.ck => rec.pending[2] = k.st.msgs)
  BY DEF IInv, AtPoint
<1>2. /\ IsKernel(kk) /\ Scanned(kk.log) = c /\ kk.ck = k.ck /\ kk.st = k.st
  BY DEF Same
<1>3. /\ c = [model |-> c.model, tools |-> c.tools, pm |-> c.pm, pt |-> c.pt, ptask |-> c.ptask]
      /\ c.ptask = <<>> /\ c.model = rec.model /\ c.tools = rec.tools
      /\ \A x \in DOMAIN c.model : IsSeq(c.model[x])
      /\ \A x \in DOMAIN c.tools : IsOutput(c.tools[x])
  BY DEF IInv, Agreed, IsScan
<1>4. IsScan(c)
  BY <1>3 DEF IsScan
<1>14. d = [c EXCEPT !.model = With(@, key, content), !.pm = <<>>]
  OBVIOUS
<1>15. IsScan(Scanned(kk.log)) /\ Scanned(kk.log).pm = <<Key(kk.ck, kk.st.msgs)>>
  BY <1>1, <1>2, <1>4
<1>16. key = Key(kk.ck, kk.st.msgs)
  BY <1>2
<1> HIDE DEF c, d, key
<1>5. /\ IsKernel(k') /\ k'.ck = k.ck /\ k'.st.turn = k.st.turn /\ k'.pc = "tools" /\ Scanned(k'.log) = d
  <2> DEFINE x == Responded(kk, content)
  <2>1. /\ IsKernel(x) /\ x.ck = kk.ck /\ x.st.turn = kk.st.turn /\ x.pc = "tools"
        /\ Scanned(x.log) =
             [Scanned(kk.log) EXCEPT !.model = With(@, Key(kk.ck, kk.st.msgs), content), !.pm = <<>>]
    BY <1>2, <1>15, ResponseScanned
  <2> HIDE DEF x
  <2>2. k' = x
    BY DEF x
  <2>3. QED
    BY <1>2, <1>14, <1>16, <2>1, <2>2
<1>6. /\ d = [model |-> d.model, tools |-> d.tools, pm |-> d.pm, pt |-> d.pt, ptask |-> d.ptask]
      /\ d.model = With(c.model, key, content) /\ d.tools = c.tools /\ d.ptask = c.ptask /\ d.pt = c.pt
  BY <1>3, <1>14
<1>7. \A x \in DOMAIN d.model : IsSeq(d.model[x])
  BY <1>3, <1>6 DEF With
<1>8. IsScan(d)
  BY <1>3, <1>6, <1>7 DEF IsScan
<1>9. /\ DOMAIN rec' = {"model", "tools", "pending"} /\ rec'.tools = rec.tools
      /\ rec'.model = With(rec.model, key, content)
  <2>1. DOMAIN rec = {"model", "tools", "pending"}
    BY DEF IInv, Agreed
  <2> DEFINE request == IF rec.pending[1] # k.ck THEN k.st.msgs ELSE rec.pending[2]
  <2>2. rec' = [rec EXCEPT !.model = With(@, Key(k.ck, request), content), !.pending = <<>>]
    BY DEF after_model
  <2>3. request = k.st.msgs /\ key = Key(k.ck, k.st.msgs)
    BY <1>1 DEF key
  <2> HIDE DEF request
  <2>4. QED
    BY <2>1, <2>2, <2>3
<1>10. Agreed(k', rec')
  BY <1>3, <1>5, <1>6, <1>8, <1>9 DEF Agreed
<1>11. AtPoint(k', rec')
  BY <1>1, <1>5, <1>6 DEF AtPoint
<1>12. IsFresh(k')
  BY <1>5 DEF IInv, IsFresh
<1>13. QED
  BY <1>5, <1>10, <1>11, <1>12 DEF IInv, DriverOK

\* Respond.
LEMMA RespondOK ==
    ASSUME IInv, Respond
    PROVE  IInv'
<1>1. IsKernel(k) /\ Same(k, k) /\ k.pc = "called" /\ UNCHANGED <<phase, setup, drv>> /\ setup \in Setups
  BY DEF IInv, Same, Respond
<1>2. CASE k' = cancel_turn(k) /\ UNCHANGED rec
  BY <1>1, <1>2, StoppedOK
<1>3. CASE /\ Live
           /\ \E names \in Responses :
                LET c == CallsOf(k.st.turn, names) IN k' = Responded(Retried(k), c) /\ rec' = after_model(rec, k, c)
  <2>1. PICK names \in Responses : /\ k' = Responded(Retried(k), CallsOf(k.st.turn, names))
                                   /\ rec' = after_model(rec, k, CallsOf(k.st.turn, names))
    BY <1>3
  <2> DEFINE content == CallsOf(k.st.turn, names)
  <2>2. names \in Seq(STRING)
    BY ReplayAssumption
  <2>3. Len(names) \in Nat /\ DOMAIN names = 1 .. Len(names)
    BY <2>2, LenProperties
  <2>4. content = [i \in 1 .. Len(names) |-> content[i]]
    BY <2>3 DEF CallsOf
  <2> HIDE DEF content
  <2>5. IsSeq(content)
    BY <2>3, <2>4, SeqFun
  <2>6. Same(Retried(k), k) /\ Retried(k).st = k.st
    BY <1>1, RetriedSame
  <2>7. k' = Responded(Retried(k), content) /\ rec' = after_model(rec, k, content)
    BY <2>1 DEF content
  <2>8. QED
    BY <1>1, <2>5, <2>6, <2>7, RespondedOK
<1>4. CASE k' = fail_turn(Retried(k), "server", setup.attempts) /\ UNCHANGED rec
  <2>1. Same(Retried(k), k)
    BY <1>1, RetriedSame
  <2>2. QED
    BY <1>1, <1>4, <2>1, StoppedOK DEF Same
<1>5. CASE /\ ~ Live
           /\ LET key == Key(k.ck, k.st.msgs)
              IN  IF key \in DOMAIN drv.tape.model
                    THEN /\ k' = Responded(k, drv.tape.model[key])
                         /\ rec' = after_model(rec, k, drv.tape.model[key])
                    ELSE k' = fail_turn(k, "replay_miss", 1) /\ UNCHANGED rec
  <2> DEFINE key == Key(k.ck, k.st.msgs)
  <2>1. CASE key \in DOMAIN drv.tape.model
    <3>1. IsSeq(drv.tape.model[key])
      BY <1>5, <2>1 DEF IInv, DriverOK, IsTape, Live
    <3> DEFINE content == drv.tape.model[key]
    <3>2. k' = Responded(k, content) /\ rec' = after_model(rec, k, content)
      BY <1>5, <2>1
    <3> HIDE DEF content
    <3>3. IsSeq(content)
      BY <3>1 DEF content
    <3>4. QED
      BY <1>1, <3>2, <3>3, RespondedOK
  <2>2. CASE key \notin DOMAIN drv.tape.model
    <3>1. k' = fail_turn(k, "replay_miss", 1) /\ UNCHANGED rec
      BY <1>5, <2>2
    <3>2. QED
      BY <1>1, <3>1, StoppedOK
  <2>3. QED
    BY <2>1, <2>2
<1>6. QED
  BY <1>2, <1>3, <1>4, <1>5 DEF Respond

\* StartTool: a registered call is pending in the scan, an unknown one is not.
LEMMA StartToolOK ==
    ASSUME IInv, StartTool
    PROVE  IInv'
<1> DEFINE call == Call(k)
           c    == Scanned(k.log)
<1>1. /\ UNCHANGED <<phase, setup, rec, drv>> /\ IsKernel(k) /\ c.pt = <<>> /\ IsSeq(k.log)
      /\ k.pc = "tools"
  BY DEF IInv, StartTool, AtPoint, IsKernel
<1>2. /\ c = [model |-> c.model, tools |-> c.tools, pm |-> c.pm, pt |-> c.pt, ptask |-> c.ptask]
      /\ c.ptask = <<>> /\ c.model = rec.model /\ c.tools = rec.tools
      /\ DOMAIN rec = {"model", "tools", "pending"}
      /\ \A x \in DOMAIN c.model : IsSeq(c.model[x])
      /\ \A x \in DOMAIN c.tools : IsOutput(c.tools[x])
  BY DEF IInv, Agreed, IsScan
<1>3. CASE k' = cancel_turn(k)
  BY <1>1, <1>3, StoppedOK
<1>4. CASE /\ Call(k).name = "unknown"
           /\ k' = [append_tool_output(Log(k, <<ToolCall(k, FALSE), [kind |-> "warning", turn |-> k.st.turn]>>),
                                       Call(k), Output("unknown tool", "Unregistered"))
                      EXCEPT !.cur = @ + 1]
  <2> DEFINE a   == ToolCall(k, FALSE)
             b   == [kind |-> "warning", turn |-> k.st.turn]
             out == Output("unknown tool", "Unregistered")
             y   == Log(k, <<a, b>>)
             z   == append_tool_output(y, call, out)
             events == <<a, b>>
  <2>1. FromEvent(c, a) = c
    <3>1. a.kind = "tool_call" /\ a.registered = FALSE
      BY DEF ToolCall
    <3> HIDE DEF a, c
    <3>2. QED
      BY <3>1 DEF FromEvent
  <2>2. FromEvent(c, b) = c
    <3>1. IsQuiet(b)
      BY DEF IsQuiet
    <3> HIDE DEF b, c
    <3>2. QED
      BY <3>1, QuietEvent
  <2> HIDE DEF a, b
  <2>3. IsSeq(events) /\ \A i \in 1 .. Len(events) : events[i] \in {a, b}
    BY SeqFew
  <2>4. y = Log(k, events)
    OBVIOUS
  <2> HIDE DEF events, y
  <2>5. Same(y, k)
    BY <1>1, <2>1, <2>2, <2>3, <2>4, LogSame
  <2>6. out.task = <<>> /\ call.id \notin DOMAIN Scanned(y.log).pt
    BY <1>1, <2>5 DEF Output, Same
  <2> HIDE DEF out, c, call
  <2>7. Same(z, y)
    BY <2>5, <2>6, OutputPassed DEF Same
  <2>8. k' = [z EXCEPT !.cur = @ + 1]
    BY <1>4 DEF y, z, a, b, out, call
  <2> HIDE DEF z
  <2>9. Same(z, k)
    BY <2>5, <2>7, SameTrans
  <2>10. /\ DOMAIN k' = DOMAIN z /\ k'.log = z.log /\ k'.st = z.st /\ k'.snap = z.snap /\ k'.ck = z.ck
         /\ k'.inbox = z.inbox /\ k'.calls = z.calls /\ k'.cur = z.cur + 1 /\ k'.pc = z.pc
    BY <2>8, <2>9 DEF Same, IsKernel, KernelFields
  <2>11. IsKernel(k') /\ IsFresh(k')
    BY <2>9, <2>10 DEF Same, IsKernel, IsFresh, IInv
  <2>12. Agreed(k', rec') /\ AtPoint(k', rec')
    BY <1>1, <2>9, <2>10 DEF Same, Agreed, AtPoint, IInv
  <2>13. QED
    BY <1>1, <2>11, <2>12 DEF IInv, DriverOK
<1>5. CASE k' = [Log(k, <<ToolCall(k, TRUE)>> \o IF Call(k).name # "ask" THEN <<>>
                       ELSE <<[kind |-> "ask_user", turn |-> k.st.turn, id |-> Call(k).id]>>)
                   EXCEPT !.pc = "invoke"]
  <2> DEFINE a   == ToolCall(k, TRUE)
             b   == [kind |-> "ask_user", turn |-> k.st.turn, id |-> Call(k).id]
             events == <<a>> \o IF Call(k).name # "ask" THEN <<>> ELSE <<b>>
             y   == Log(k, events)
             key == Key(k.ck, ToolRequest(call))
             d   == [c EXCEPT !.pt = With(<<>>, call.id, key)]
  <2>1. FromEvent(c, a) = d
    <3>1. a.kind = "tool_call" /\ a.registered = TRUE /\ a.id = call.id /\ Key(a.ck, a.request) = key
      BY DEF ToolCall
    <3> HIDE DEF a, c, key, call
    <3>2. FromEvent(c, a) = [c EXCEPT !.pt = With(@, a.id, Key(a.ck, a.request))]
      BY <3>1 DEF FromEvent
    <3>3. QED
      BY <1>1, <3>1, <3>2
  <2>2. FromEvent(d, b) = d
    <3>1. IsQuiet(b)
      BY DEF IsQuiet
    <3> HIDE DEF b, d
    <3>2. QED
      BY <3>1, QuietEvent
  <2>14. k' = [y EXCEPT !.pc = "invoke"]
    BY <1>5
  <2>15. d = [c EXCEPT !.pt = With(<<>>, call.id, key)]
    OBVIOUS
  <2>16. c = Scanned(k.log) /\ call = Call(k)
    OBVIOUS
  <2> HIDE DEF a, b, key, c, call, d
  <2>3. events \in {<<a>>, <<a, b>>}
    BY FewConcat
  <2> HIDE DEF events
  <2>4. IsSeq(k.log \o events) /\ Scanned(k.log \o events) = d
    <3>1. /\ IsSeq(k.log \o <<a>>) /\ Scanned(k.log \o <<a>>) = FromEvent(c, a)
          /\ IsSeq(k.log \o <<a, b>>) /\ Scanned(k.log \o <<a, b>>) = FromEvent(FromEvent(c, a), b)
      BY <1>1, <2>16, ScannedTwo
    <3>2. QED
      BY <2>1, <2>2, <2>3, <3>1
  <2>5. /\ DOMAIN y = DOMAIN k /\ y.log = k.log \o events /\ y.st = k.st /\ y.snap = k.snap /\ y.ck = k.ck
        /\ y.inbox = k.inbox /\ y.calls = k.calls /\ y.cur = k.cur
    BY <1>1 DEF Log, IsKernel, KernelFields
  <2> HIDE DEF y
  <2>6. /\ DOMAIN k' = DOMAIN y /\ k'.log = y.log /\ k'.st = y.st /\ k'.snap = y.snap /\ k'.ck = y.ck
        /\ k'.inbox = y.inbox /\ k'.calls = y.calls /\ k'.cur = y.cur /\ k'.pc = "invoke"
    BY <1>1, <2>5, <2>14 DEF IsKernel, KernelFields
  <2>7. /\ d = [model |-> d.model, tools |-> d.tools, pm |-> d.pm, pt |-> d.pt, ptask |-> d.ptask]
        /\ d.model = c.model /\ d.tools = c.tools /\ d.ptask = c.ptask /\ d.pt = With(<<>>, call.id, key)
    BY <1>2, <2>15
  <2>8. IsScan(d)
    BY <1>2, <2>7 DEF IsScan
  <2>9. IsKernel(k') /\ IsFresh(k')
    BY <2>4, <2>5, <2>6 DEF IsKernel, IsFresh, IInv
  <2>10. Agreed(k', rec')
    BY <1>1, <1>2, <2>4, <2>5, <2>6, <2>7, <2>8 DEF Agreed
  <2>11. Call(k') = call /\ k'.ck = k.ck
    BY <2>5, <2>6, <2>16 DEF Call
  <2>12. AtPoint(k', rec')
    BY <2>4, <2>5, <2>6, <2>7, <2>11 DEF AtPoint, key
  <2>13. QED
    BY <1>1, <2>9, <2>10, <2>12 DEF IInv, DriverOK
<1>6. QED
  BY <1>3, <1>4, <1>5 DEF StartTool

\* A call returns: its output is well-formed, and the scan still waits for it.
LEMMA ReturnedOK ==
    ASSUME IInv, k.pc = "invoke", NEW out, IsOutput(out), k' = Returned(k, out),
           UNCHANGED <<phase, setup, rec, drv>>
    PROVE  IInv'
<1>1. /\ IsKernel(k') /\ Scanned(k'.log) = Scanned(k.log) /\ k'.pc = "after" /\ k'.out = <<out>>
      /\ k'.ck = k.ck /\ k'.st.turn = k.st.turn /\ k'.calls = k.calls /\ k'.cur = k.cur
  BY ReturnedScan DEF IInv
<1>2. Call(k') = Call(k) /\ k'.out[1] = out
  BY <1>1 DEF Call
<1>3. IsFresh(k') /\ Agreed(k', rec')
  BY <1>1 DEF IInv, IsFresh, Agreed
<1>4. AtPoint(k', rec')
  BY <1>1, <1>2 DEF IInv, AtPoint
<1>5. QED
  BY <1>1, <1>3, <1>4 DEF IInv, DriverOK

\* InvokeTool.
LEMMA InvokeToolOK ==
    ASSUME IInv, InvokeTool
    PROVE  IInv'
<1>1. IsKernel(k) /\ k.pc = "invoke" /\ UNCHANGED <<phase, setup, rec, drv>>
  BY DEF IInv, InvokeTool
<1>2. \A content, origin : IsOutput(Output(content, origin))
  BY DEF IsOutput, Output
<1>3. CASE k' = cancel_turn(k)
  BY <1>1, <1>3, StoppedOK
<1>4. CASE k' = Returned(k, Output("cancelled", "Cancelled"))
  BY <1>1, <1>2, <1>4, ReturnedOK
<1>5. CASE \E out \in LiveOutputs(k) : k' = Returned(k, out)
  <2>1. PICK out \in LiveOutputs(k) : k' = Returned(k, out)
    BY <1>5
  <2>2. IsOutput(out)
    <3>1. CASE Call(k).name = "job"
      <4>1. PICK w \in BOOLEAN :
               out = [Output("task", "Invoke") EXCEPT !.task = <<TaskId(k, Call(k))>>, !.waker = w]
        BY <2>1, <3>1 DEF LiveOutputs
      <4> DEFINE o == Output("task", "Invoke")
                 t == <<TaskId(k, Call(k))>>
      <4>2. DOMAIN o = {"content", "origin", "task", "waker"} /\ t # <<>>
        BY DEF Output
      <4> HIDE DEF o, t
      <4>3. out = [o EXCEPT !.task = t, !.waker = w]
        BY <4>1 DEF o, t
      <4>4. DOMAIN out = {"content", "origin", "task", "waker"} /\ out = [x \in DOMAIN out |-> out[x]]
            /\ out.task = t
        BY <4>2, <4>3
      <4>5. out = [content |-> out.content, origin |-> out.origin, task |-> out.task, waker |-> out.waker]
        BY <4>4
      <4>6. QED
        BY <4>2, <4>4, <4>5 DEF IsOutput
    <3>2. CASE Call(k).name # "job"
      BY <1>2, <2>1, <3>2 DEF LiveOutputs
    <3>3. QED
      BY <3>1, <3>2
  <2>3. QED
    BY <1>1, <2>1, <2>2, ReturnedOK
<1>6. CASE /\ ~ Live
           /\ LET found == lookup(Call(k))
              IN  k' = IF Cardinality(found) = 1 THEN Returned(k, CHOOSE out \in found : TRUE)
                       ELSE fail_turn(k, "replay_miss", 1)
  <2> DEFINE found == lookup(Call(k))
             out   == CHOOSE out \in found : TRUE
  <2>1. CASE Cardinality(found) = 1
    <3>1. found # {}
      BY <2>1, FS_EmptySet
    <3>2. out \in found
      BY <3>1
    <3>3. \A o \in found : \E x \in DOMAIN drv.tape.tools : o = drv.tape.tools[x]
      BY DEF lookup
    <3> HIDE DEF found
    <3>4. IsTape(drv.tape)
      BY <1>6 DEF IInv, DriverOK, Live
    <3>5. IsOutput(out)
      BY <3>2, <3>3, <3>4 DEF IsTape
    <3>6. k' = Returned(k, out)
      BY <1>6, <2>1 DEF found
    <3> HIDE DEF out
    <3>7. QED
      BY <1>1, <3>5, <3>6, ReturnedOK
  <2>2. CASE Cardinality(found) # 1
    <3>1. k' = fail_turn(k, "replay_miss", 1)
      BY <1>6, <2>2
    <3>2. QED
      BY <1>1, <3>1, StoppedOK
  <2>3. QED
    BY <2>1, <2>2
<1>7. QED
  BY <1>3, <1>4, <1>5, <1>6 DEF InvokeTool

\* AfterTool: both sides get the same entry.
LEMMA AfterToolOK ==
    ASSUME IInv, AfterTool
    PROVE  IInv'
<1> DEFINE call == Call(k)
           c    == Scanned(k.log)
           key  == Key(k.ck, ToolRequest(call))
           out  == k.out[1]
           z    == append_tool_output(k, call, out)
           d    == [c EXCEPT !.tools = With(@, key, out), !.pt = <<>>]
<1>1. /\ UNCHANGED <<phase, setup, drv>> /\ IsKernel(k) /\ IsOutput(out)
      /\ c.pt = With(<<>>, call.id, key)
  BY DEF IInv, AfterTool, AtPoint
<1>2. /\ c = [model |-> c.model, tools |-> c.tools, pm |-> c.pm, pt |-> c.pt, ptask |-> c.ptask]
      /\ c.ptask = <<>> /\ c.model = rec.model /\ c.tools = rec.tools
      /\ DOMAIN rec = {"model", "tools", "pending"}
      /\ \A x \in DOMAIN c.model : IsSeq(c.model[x])
      /\ \A x \in DOMAIN c.tools : IsOutput(c.tools[x])
      /\ IsScan(c)
  BY DEF IInv, Agreed, IsScan
<1>3. CASE k' = cancel_turn(k) /\ UNCHANGED rec
  BY <1>1, <1>3, StoppedOK
<1>4. CASE /\ rec' = after_tool(rec, k, Call(k), k.out[1])
           /\ k' = [append_tool_output(k, Call(k), k.out[1]) EXCEPT !.pc = "tools", !.cur = @ + 1, !.out = <<>>]
  <2>1. /\ rec' = [rec EXCEPT !.tools = With(@, key, out)]
        /\ k' = [z EXCEPT !.pc = "tools", !.cur = @ + 1, !.out = <<>>]
    BY <1>4 DEF after_tool
  <2>2. d = [c EXCEPT !.tools = With(@, key, out), !.pt = <<>>] /\ c = Scanned(k.log)
    OBVIOUS
  <2> HIDE DEF key, call, out
  <2>3. /\ IsKernel(z) /\ z.st.turn = k.st.turn /\ z.ck = k.ck /\ z.inbox = k.inbox
        /\ z.calls = k.calls /\ z.cur = k.cur
        /\ Scanned(z.log) = Taken(Scanned(k.log), key, out)
    <3>1. /\ IsScan(Scanned(k.log)) /\ Scanned(k.log).pt = With(<<>>, call.id, key)
          /\ Scanned(k.log).ptask = <<>>
      BY <1>1, <1>2
    <3>2. IsKernel(k) /\ IsOutput(out)
      BY <1>1
    <3> HIDE DEF c, d
    <3>3. QED
      BY <3>1, <3>2, OutputTaken
  <2> HIDE DEF z, c, d
  <2>4. /\ DOMAIN k' = DOMAIN z /\ k'.log = z.log /\ k'.st = z.st /\ k'.snap = z.snap /\ k'.ck = z.ck
        /\ k'.inbox = z.inbox /\ k'.calls = z.calls /\ k'.cur = z.cur + 1 /\ k'.pc = "tools"
    BY <2>1, <2>3 DEF IsKernel, KernelFields
  <2>5. /\ d = [model |-> d.model, tools |-> d.tools, pm |-> d.pm, pt |-> d.pt, ptask |-> d.ptask]
        /\ d.model = c.model /\ d.tools = With(c.tools, key, out) /\ d.ptask = c.ptask /\ d.pt = <<>>
    BY <1>2, <2>2
  <2>6. \A x \in DOMAIN d.tools : IsOutput(d.tools[x])
    BY <1>1, <1>2, <2>5 DEF With
  <2>7. IsScan(d)
    BY <1>2, <2>5, <2>6 DEF IsScan
  <2>8. Scanned(k'.log) = d
    BY <2>2, <2>3, <2>4 DEF Taken
  <2>9. IsKernel(k') /\ IsFresh(k')
    BY <2>3, <2>4 DEF IsKernel, IsFresh, IInv
  <2>10. /\ DOMAIN rec' = {"model", "tools", "pending"} /\ rec'.model = rec.model
         /\ rec'.tools = With(rec.tools, key, out)
    BY <1>2, <2>1
  <2>11. Agreed(k', rec')
    BY <1>2, <2>5, <2>7, <2>8, <2>10 DEF Agreed
  <2>12. AtPoint(k', rec')
    BY <2>4, <2>5, <2>8 DEF AtPoint
  <2>13. QED
    BY <1>1, <2>9, <2>11, <2>12 DEF IInv, DriverOK
<1>5. QED
  BY <1>3, <1>4 DEF AfterTool

\* The inputs of a log are a sequence.
LEMMA InputsSeq ==
    ASSUME NEW log, IsSeq(log)
    PROVE  IsSeq(Inputs(log))
<1> DEFINE n == Len(log)
           f == CHOOSE f : f = [i \in 0 .. n |-> IF i = 0 THEN <<>> ELSE f[i - 1] \o input_of_event(log[i])]
<1>1. n \in Nat
  BY SeqLen
<1>2. ASSUME NEW x, NEW i PROVE Step(Input, x, i) = x \o input_of_event(i)
  BY DEF Step, Input
<1>3. PICK g : IsRun(Input, g, <<>>, log, n)
  BY <1>1, RunExists
<1>4. g = [i \in 0 .. n |-> IF i = 0 THEN <<>> ELSE g[i - 1] \o input_of_event(log[i])]
  BY <1>2, <1>3 DEF IsRun
<1>5. f = [i \in 0 .. n |-> IF i = 0 THEN <<>> ELSE f[i - 1] \o input_of_event(log[i])]
  BY <1>4
<1>6. Inputs(log) = f[n]
  BY DEF Inputs, Folded
<1>7. \A e : IsSeq(input_of_event(e))
  BY SeqFew DEF input_of_event
<1> HIDE DEF f, n
<1> DEFINE Good == {i \in 0 .. n : IsSeq(f[i])}
<1>8. 0 \in Good
  BY <1>1, <1>5, SeqFew
<1>9. ASSUME NEW i \in 1 .. n, i - 1 \in Good PROVE i \in Good
  <2>1. f[i] = f[i - 1] \o input_of_event(log[i])
    BY <1>1, <1>5
  <2>2. IsSeq(f[i - 1])
    BY <1>9
  <2>3. QED
    <3>1. IsSeq(input_of_event(log[i]))
      BY <1>7
    <3>2. IsSeq(f[i - 1] \o input_of_event(log[i]))
      BY <2>2, <3>1, SeqConcat
    <3> DEFINE x == f[i - 1] \o input_of_event(log[i])
    <3>3. IsSeq(x) /\ f[i] = x
      BY <2>1, <3>2
    <3> HIDE DEF x
    <3>4. QED
      BY <1>1, <3>3
<1> HIDE DEF Good
<1>10. n \in Good
  BY <1>1, <1>8, <1>9, RunPreserves
<1>11. QED
  BY <1>6, <1>10 DEF Good

\* So is what the driver queues of them.
LEMMA QueueSeq ==
    ASSUME NEW inputs, IsSeq(inputs)
    PROVE  IsSeq(Queue(inputs))
<1> DEFINE n == Len(inputs)
           f == CHOOSE f : f = [i \in 0 .. n |-> IF i = 0 THEN <<>> ELSE
                                  IF Deliverable(inputs[i]) THEN Append(f[i - 1], inputs[i]) ELSE f[i - 1]]
<1>1. n \in Nat
  BY SeqLen
<1>2. ASSUME NEW x, NEW i PROVE Step(Delivery, x, i) = IF Deliverable(i) THEN Append(x, i) ELSE x
  BY DEF Step, Delivery
<1>3. PICK g : IsRun(Delivery, g, <<>>, inputs, n)
  BY <1>1, RunExists
<1>4. g = [i \in 0 .. n |-> IF i = 0 THEN <<>> ELSE
                             IF Deliverable(inputs[i]) THEN Append(g[i - 1], inputs[i]) ELSE g[i - 1]]
  BY <1>2, <1>3 DEF IsRun
<1>5. f = [i \in 0 .. n |-> IF i = 0 THEN <<>> ELSE
                             IF Deliverable(inputs[i]) THEN Append(f[i - 1], inputs[i]) ELSE f[i - 1]]
  BY <1>4
<1>6. Queue(inputs) = f[n]
  BY DEF Queue, Folded
<1> HIDE DEF f, n
<1> DEFINE Good == {i \in 0 .. n : IsSeq(f[i])}
<1>7. 0 \in Good
  BY <1>1, <1>5, SeqFew
<1>8. ASSUME NEW i \in 1 .. n, i - 1 \in Good PROVE i \in Good
  <2>1. f[i] = IF Deliverable(inputs[i]) THEN Append(f[i - 1], inputs[i]) ELSE f[i - 1]
    <3>1. i \in 0 .. n /\ i # 0
      BY <1>1
    <3>2. QED
      BY <1>5, <3>1
  <2>2. IsSeq(f[i - 1])
    BY <1>8
  <2>3. QED
    BY <1>1, <2>1, <2>2, SeqAppend
<1> HIDE DEF Good
<1>9. n \in Good
  BY <1>1, <1>7, <1>8, RunPreserves
<1>10. QED
  BY <1>6, <1>9 DEF Good

\* StartReplay: the cassette of the recording is one to run from.
LEMMA StartReplayOK ==
    ASSUME IInv, StartReplay
    PROVE  IInv'
<1> DEFINE tape == from_log(k.log)
<1>1. /\ phase' = "replay" /\ UNCHANGED setup
      /\ k' = NewKernel("replay") /\ rec' = NewRecorder
      /\ drv' = [recorded |-> k.log, tape |-> tape, queue |-> Queue(tape.inputs),
                 tracker |-> <<>>, result |-> "none"]
  BY DEF StartReplay
<1>2. IsTape(tape) /\ IsSeq(tape.inputs)
  <2>1. IsSeq(k.log) /\ IsScan(Scanned(k.log))
    BY DEF IInv, IsKernel, Agreed
  <2>2. tape.model = Scanned(k.log).model /\ tape.tools = Scanned(k.log).tools /\ tape.inputs = Inputs(k.log)
    BY DEF from_log
  <2> HIDE DEF tape
  <2>3. QED
    BY <2>1, <2>2, InputsSeq DEF IsScan, IsTape
<1>3. IsSeq(Queue(tape.inputs))
  BY <1>2, QueueSeq
<1> HIDE DEF tape
<1>4. /\ DOMAIN drv' = {"recorded", "tape", "queue", "tracker", "result"}
      /\ drv'.tape = tape /\ drv'.queue = Queue(tape.inputs)
  BY <1>1
<1>5. DriverOK'
  BY <1>2, <1>3, <1>4 DEF DriverOK
<1>6. Ended(k', NewScan)
  BY <1>1, Created
<1>7. IsScan(NewScan) /\ NewScan.ptask = <<>> /\ NewScan.model = <<>> /\ NewScan.tools = <<>>
  BY DEF NewScan, IsScan
<1>8. DOMAIN rec' = {"model", "tools", "pending"} /\ rec'.model = <<>> /\ rec'.tools = <<>>
  BY <1>1 DEF NewRecorder
<1>9. QED
  BY <1>1, <1>5, <1>6, <1>7, <1>8 DEF IInv, Ended, Agreed, AtPoint

\* The inputs that match a point are an initial part of the queue.
LEMMA MatchingLen ==
    ASSUME NEW at, NEW turn, IsSeq(drv.queue)
    PROVE  matching(at, turn) \in 0 .. Len(drv.queue)
<1> DEFINE q == drv.queue
           Fits(i) == q[i].at = at /\ q[i].turn = turn
           T == {n \in 0 .. Len(q) : n < Len(q) => ~ Fits(n + 1)}
<1>1. Len(q) \in Nat
  BY SeqLen
<1>2. Len(q) \in T /\ T \in SUBSET Nat
  BY <1>1
<1> HIDE DEF T
<1>3. PICK n \in T : \A i \in T : n <= i
  BY <1>2, Least
<1>4. n \in 0 .. Len(q) /\ (n < Len(q) => ~ Fits(n + 1))
  BY <1>3 DEF T
<1>5. ASSUME NEW i \in 1 .. n PROVE Fits(i)
  <2>1. i - 1 \in 0 .. Len(q) /\ i - 1 < Len(q) /\ (i - 1) + 1 = i /\ i - 1 < n
    BY <1>1, <1>4
  <2>2. i - 1 \notin T
    BY <1>3, <1>4, <2>1
  <2>3. QED
    BY <2>1, <2>2 DEF T
<1>6. \E m \in 0 .. Len(q) : /\ \A i \in 1 .. m : q[i].at = at /\ q[i].turn = turn
                             /\ m < Len(q) => ~ (q[m + 1].at = at /\ q[m + 1].turn = turn)
  BY <1>4, <1>5
<1>7. QED
  BY <1>6 DEF matching

\* DriveOn.
LEMMA DriveOnOK ==
    ASSUME IInv, DriveOn
    PROVE  IInv'
<1> DEFINE run == k.st.status = "running"
           n   == IF run THEN matching("end_of_turn", k.st.turn + 1) ELSE matching(k.st.status, k.st.turn)
           q   == SubSeq(drv.queue, n + 1, Len(drv.queue))
<1>1. /\ phase = "replay" /\ UNCHANGED <<phase, setup, rec>>
      /\ k' = [k EXCEPT !.inbox = Delivered(n), !.pc = IF run THEN "driven" ELSE "out"]
      /\ drv' = [drv EXCEPT !.queue = q, !.tracker = k.ck]
  BY DEF DriveOn
<1>2. /\ DOMAIN drv = {"recorded", "tape", "queue", "tracker", "result"}
      /\ IsTape(drv.tape) /\ IsSeq(drv.queue)
  BY <1>1 DEF IInv, DriverOK
<1>3. n \in 0 .. Len(drv.queue) /\ Len(drv.queue) \in Nat
  BY <1>2, MatchingLen, SeqLen
<1> HIDE DEF n, run
<1>4. IsSeq(q)
  BY <1>2, <1>3, SeqPart
<1> DEFINE inbox == Delivered(n)
<1>5. IsInbox(inbox)
  <2>1. inbox = [i \in 1 .. n |-> inbox[i]] /\ \A i \in 1 .. n : inbox[i] = AsInbound(drv.queue[i])
    BY DEF Delivered
  <2> HIDE DEF inbox
  <2>2. IsSeq(inbox) /\ Len(inbox) = n
    BY <1>3, <2>1, SeqFun
  <2>3. \A i : AsInbound(i).t \in {"user", "update", "cancel"}
    BY DEF AsInbound
  <2>4. QED
    BY <2>1, <2>2, <2>3 DEF IsInbox
<1> HIDE DEF inbox, q
<1>6. /\ DOMAIN k' = DOMAIN k /\ k'.inbox = inbox /\ k'.st = k.st /\ k'.snap = k.snap /\ k'.ck = k.ck
      /\ k'.pc \in {"driven", "out"} /\ k'.calls = k.calls /\ k'.cur = k.cur /\ k'.log = k.log
  BY <1>1 DEF IInv, IsKernel, KernelFields, inbox
<1>7. IsKernel(k') /\ IsFresh(k')
  BY <1>5, <1>6 DEF IInv, IsKernel, IsFresh
<1>8. Agreed(k', rec') /\ AtPoint(k', rec')
  BY <1>1, <1>6 DEF IInv, Agreed, AtPoint
<1>9. /\ DOMAIN drv' = {"recorded", "tape", "queue", "tracker", "result"}
      /\ drv'.tape = drv.tape /\ drv'.queue = q
  BY <1>1, <1>2
<1>10. DriverOK'
  BY <1>2, <1>4, <1>9 DEF DriverOK
<1>11. QED
  BY <1>1, <1>7, <1>8, <1>10 DEF IInv

\* DriveEnds.
LEMMA DriveEndsOK ==
    ASSUME IInv, DriveEnds
    PROVE  IInv'
<1>1. phase = "replay" /\ UNCHANGED <<setup, k, rec>>
  BY DEF DriveEnds
<1> DEFINE r == IF k.st.status = "created" THEN "incomplete"
                ELSE IF drv.queue = <<>> THEN k.st.status ELSE "early"
<1>2. drv' = [drv EXCEPT !.result = r]
  BY DEF DriveEnds
<1> HIDE DEF r
<1>3. DriverOK'
  BY <1>1, <1>2 DEF IInv, DriverOK
<1>4. QED
  BY <1>1, <1>3 DEF IInv, IsKernel, IsFresh, Agreed, AtPoint, Call

-----------------------------------------------------------------------------
(* The theorem.                                                            *)

\* Every step keeps the invariant.
LEMMA NextOK == IInv /\ [Next]_vars => IInv'
<1> SUFFICES ASSUME IInv, [Next]_vars PROVE IInv'
  OBVIOUS
<1>1. CASE UserMessage \/ Update \/ CancelTask
  BY <1>1, ArrivalOK
<1>2. CASE CancelTurn \/ CancelTool
  BY <1>2, TokenOK
<1>3. CASE ApplyInput
  BY <1>3, ApplyInputOK
<1>4. CASE BeginTurn
  BY <1>4, BeginTurnOK
<1>5. CASE Respond
  BY <1>5, RespondOK
<1>6. CASE StartTool
  BY <1>6, StartToolOK
<1>7. CASE InvokeTool
  BY <1>7, InvokeToolOK
<1>8. CASE AfterTool
  BY <1>8, AfterToolOK
<1>9. CASE EndTurn
  BY <1>9, EndTurnOK
<1>10. CASE StartReplay
  BY <1>10, StartReplayOK
<1>11. CASE DriveOn
  BY <1>11, DriveOnOK
<1>12. CASE DriveEnds
  BY <1>12, DriveEndsOK
<1>13. CASE UNCHANGED vars
  BY <1>13 DEF vars, IInv, IsKernel, IsFresh, Agreed, AtPoint, Call, DriverOK
<1>14. QED
  BY <1>1, <1>2, <1>3, <1>4, <1>5, <1>6, <1>7, <1>8, <1>9, <1>10, <1>11, <1>12, <1>13 DEF Next

\* The invariant holds in every state, for any setups, responses and values.
THEOREM RecorderInvariant == Spec => []IInv
  BY InitOK, NextOK, PTL DEF Spec

\* Replay::from_log and the Recorder: the cassette that is read from the log is the one that the hooks
\* have collected, at every turn boundary of every recording and every replay.
THEOREM CassetteComplete == Spec => []RecorderAgrees
<1>1. IInv => RecorderAgrees
  BY DEF IInv, Agreed, RecorderAgrees, RecorderCassette, from_log
<1>2. QED
  BY <1>1, RecorderInvariant, PTL
=============================================================================
