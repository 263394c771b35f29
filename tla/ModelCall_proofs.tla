--------------------------- MODULE ModelCall_proofs ---------------------------
(***************************************************************************)
(* Proofs about Provider and ModelCall, for any endpoints: whatever their  *)
(* streams say, in whatever portions they arrive and wherever attempts     *)
(* fail, the text of the response that a turn keeps is the last that the   *)
(* client was shown, unless a channel has overrun (TextShown).             *)
(***************************************************************************)
EXTENDS ModelCall, SequenceTheorems, FiniteSetTheorems, WellFoundedInduction, TLAPS

-----------------------------------------------------------------------------
(* Sequences of anything.                                                  *)
IsSeq(s) == s \in Seq(Range(s))

\* A sequence over some set is one over its range.
LEMMA SeqIs ==
    ASSUME NEW S, NEW s \in Seq(S)
    PROVE  IsSeq(s)
  BY SeqOfRange DEF IsSeq

\* The length and the domain of a sequence.
LEMMA SeqLen ==
    ASSUME NEW s, IsSeq(s)
    PROVE  Len(s) \in Nat /\ DOMAIN s = 1 .. Len(s)
  BY LenProperties DEF IsSeq

\* The concatenation of two sequences.
LEMMA SeqConcat ==
    ASSUME NEW s, IsSeq(s), NEW t, IsSeq(t)
    PROVE  /\ IsSeq(s \o t)
           /\ Len(s \o t) = Len(s) + Len(t)
           /\ \A i \in 1 .. Len(s) : (s \o t)[i] = s[i]
           /\ \A i \in 1 .. Len(t) : (s \o t)[Len(s) + i] = t[i]
<1> DEFINE S == Range(s) \cup Range(t)
<1>1. s \in Seq(S) /\ t \in Seq(S)
  BY SeqMonotonic DEF IsSeq
<1>2. Len(s) \in Nat /\ Len(t) \in Nat
  BY SeqLen
<1> HIDE DEF S
<1>3. /\ s \o t \in Seq(S)
      /\ Len(s \o t) = Len(s) + Len(t)
      /\ \A i \in 1 .. Len(s) + Len(t) : (s \o t)[i] = IF i <= Len(s) THEN s[i] ELSE t[i - Len(s)]
  BY <1>1, ConcatProperties
<1>4. IsSeq(s \o t)
  BY <1>3, SeqIs
<1>5. \A i \in 1 .. Len(s) : (s \o t)[i] = s[i]
  BY <1>2, <1>3
<1>6. ASSUME NEW i \in 1 .. Len(t) PROVE (s \o t)[Len(s) + i] = t[i]
  <2>1. Len(s) + i \in 1 .. Len(s) + Len(t) /\ ~ (Len(s) + i <= Len(s)) /\ Len(s) + i - Len(s) = i
    BY <1>2
  <2>2. QED
    BY <1>3, <2>1
<1>7. QED
  BY <1>3, <1>4, <1>5, <1>6

\* One element is appended to a sequence.
LEMMA SeqAppend ==
    ASSUME NEW s, IsSeq(s), NEW e
    PROVE  /\ IsSeq(Append(s, e)) /\ s \o <<e>> = Append(s, e)
           /\ Len(Append(s, e)) = Len(s) + 1
           /\ \A i \in 1 .. Len(s) : Append(s, e)[i] = s[i]
           /\ Append(s, e)[Len(s) + 1] = e
<1> DEFINE S == Range(s) \cup {e}
<1>1. s \in Seq(S) /\ e \in S
  BY SeqMonotonic DEF IsSeq
<1> HIDE DEF S
<1>2. Append(s, e) \in Seq(S) /\ s \o <<e>> = Append(s, e)
  BY <1>1, AppendProperties, AppendIsConcat
<1>3. QED
  BY <1>1, <1>2, SeqIs, AppendProperties

\* The sequences of no element, of one and of two.
LEMMA SeqFew ==
    /\ IsSeq(<<>>) /\ Len(<<>>) = 0
    /\ \A x : IsSeq(<<x>>) /\ Len(<<x>>) = 1
    /\ \A x, y : IsSeq(<<x, y>>) /\ Len(<<x, y>>) = 2
<1>1. IsSeq(<<>>) /\ Len(<<>>) = 0
  <2>1. <<>> \in Seq({})
    OBVIOUS
  <2>2. QED
    BY <2>1, SeqIs
<1>2. ASSUME NEW x PROVE IsSeq(<<x>>) /\ Len(<<x>>) = 1
  <2>1. <<x>> \in Seq({x})
    OBVIOUS
  <2>2. QED
    BY <2>1, SeqIs
<1>3. ASSUME NEW x, NEW y PROVE IsSeq(<<x, y>>) /\ Len(<<x, y>>) = 2
  <2>1. <<x, y>> \in Seq({x, y})
    OBVIOUS
  <2>2. QED
    BY <2>1, SeqIs
<1>4. QED
  BY <1>1, <1>2, <1>3

\* A function on an initial segment of the numbers is a sequence.
LEMMA SeqFun ==
    ASSUME NEW n \in Nat, NEW f, f = [i \in 1 .. n |-> f[i]]
    PROVE  IsSeq(f) /\ Len(f) = n
<1>1. f \in [1 .. n -> Range(f)]
  <2>1. DOMAIN f = 1 .. n
    OBVIOUS
  <2>2. \A i \in 1 .. n : f[i] \in Range(f)
    BY <2>1 DEF Range
  <2>3. QED
    BY <2>2
<1>2. f \in Seq(Range(f))
  BY <1>1, SeqDef
<1>3. Len(f) \in Nat /\ DOMAIN f = 1 .. Len(f) /\ DOMAIN f = 1 .. n
  BY <1>1, <1>2, LenProperties
<1>4. QED
  BY <1>2, <1>3 DEF IsSeq

\* A part of a sequence.
LEMMA SeqPart ==
    ASSUME NEW s, IsSeq(s), NEW m \in Nat \ {0}, NEW n \in Nat, n <= Len(s)
    PROVE  /\ IsSeq(SubSeq(s, m, n))
           /\ Len(SubSeq(s, m, n)) = IF m <= n THEN n - m + 1 ELSE 0
           /\ \A i \in 1 .. n - m + 1 : SubSeq(s, m, n)[i] = s[m + i - 1]
<1> DEFINE S == Range(s)
<1>1. \A i \in m .. n : s[i] \in S
  BY SeqLen DEF Range
<1> HIDE DEF S
<1>2. /\ SubSeq(s, m, n) \in Seq(S)
      /\ Len(SubSeq(s, m, n)) = IF m <= n THEN n - m + 1 ELSE 0
      /\ \A i \in 1 .. n - m + 1 : SubSeq(s, m, n)[i] = s[m + i - 1]
  BY <1>1, SubSeqProperties
<1>3. QED
  BY <1>2, SeqIs

\* A set of numbers that is not empty has a least one.
LEMMA Least ==
    ASSUME NEW T \in SUBSET Nat, NEW n \in T
    PROVE  \E m \in T : \A i \in T : m <= i
<1> DEFINE R == {ss \in Nat \X Nat : ss[1] < ss[2]}
<1>1. IsWellFoundedOn(R, Nat)
  BY NatLessThanWellFounded DEF OpToRel
<1>2. PICK m \in T : \A i \in T : <<i, m>> \notin R
  BY <1>1, WFMin
<1>3. \A i \in T : ~ (i < m)
  BY <1>2
<1>4. QED
  BY <1>3

-----------------------------------------------------------------------------
(* The folds.  Step names the operators that Provider folds; a run of one  *)
(* is the list of its intermediate results.                                *)
Concat       == [op |-> "concat"]
Bytewise     == [op |-> "byte"]
Fragments(c) == [op |-> "fragment", calls |-> c]
Events(fb)   == [op |-> "event", fallback |-> fb]

TakeByte(x, b) == IF b.part = "nl" THEN take_line(x, b.line) ELSE x

Step(w, x, i) ==
  CASE w.op = "concat"   -> x \o i
    [] w.op = "byte"     -> TakeByte(x, i)
    [] w.op = "fragment" -> take_tool_call(x, w.calls[i], i - 1)
    [] w.op = "event"    -> handle_event(x, i, w.fallback)

IsRun(w, f, base, s, n) ==
  f = [i \in 0 .. n |-> IF i = 0 THEN base ELSE Step(w, f[i - 1], s[i])]

\* The run over a sequence and one element more.
LEMMA RunExtends ==
    ASSUME NEW w, NEW base, NEW s, NEW n \in Nat, n > 0, NEW g, IsRun(w, g, base, s, n - 1)
    PROVE  \E f : IsRun(w, f, base, s, n)
<1> DEFINE f == [i \in 0 .. n |-> IF i < n THEN g[i] ELSE Step(w, g[n - 1], s[n])]
<1>1. \A i \in 0 .. n : i < n => f[i] = g[i]
  OBVIOUS
<1>2. f[n] = Step(w, g[n - 1], s[n])
  OBVIOUS
<1>3. DOMAIN f = 0 .. n /\ f = [i \in 0 .. n |-> f[i]]
  OBVIOUS
<1>4. \A i \in 0 .. n - 1 : g[i] = IF i = 0 THEN base ELSE Step(w, g[i - 1], s[i])
  BY DEF IsRun
<1> HIDE DEF f
<1>5. ASSUME NEW i \in 0 .. n
      PROVE  f[i] = IF i = 0 THEN base ELSE Step(w, f[i - 1], s[i])
  <2>1. CASE i < n
    <3>1. i \in 0 .. n - 1 /\ f[i] = g[i] /\ (i # 0 => f[i - 1] = g[i - 1])
      BY <1>1, <2>1
    <3>2. QED
      BY <1>4, <3>1
  <2>2. CASE i = n
    <3>1. f[i - 1] = g[n - 1] /\ i # 0
      BY <1>1, <2>2
    <3>2. QED
      BY <1>2, <2>2, <3>1
  <2>3. QED
    BY <2>1, <2>2
<1>6. QED
  BY <1>3, <1>5 DEF IsRun

\* Every sequence has a run.
LEMMA RunExists ==
    ASSUME NEW w, NEW base, NEW s, NEW n \in Nat
    PROVE  \E f : IsRun(w, f, base, s, n)
<1> DEFINE T == {m \in Nat : ~ \E f : IsRun(w, f, base, s, m)}
<1>1. SUFFICES ASSUME n \in T PROVE FALSE
  OBVIOUS
<1>2. T \in SUBSET Nat
  OBVIOUS
<1> HIDE DEF T
<1>3. PICK m \in T : \A i \in T : m <= i
  BY <1>1, <1>2, Least
<1>4. m \in Nat /\ ~ \E f : IsRun(w, f, base, s, m)
  BY <1>3 DEF T
<1>5. CASE m = 0
  <2> DEFINE f == [i \in 0 .. 0 |-> base]
  <2>1. f = [i \in 0 .. 0 |-> IF i = 0 THEN base ELSE Step(w, f[i - 1], s[i])]
    OBVIOUS
  <2>2. IsRun(w, f, base, s, 0)
    BY <2>1 DEF IsRun
  <2>3. QED
    BY <1>4, <1>5, <2>2
<1>6. CASE m > 0
  <2>1. m - 1 \in Nat /\ m - 1 \notin T
    BY <1>3, <1>4, <1>6
  <2>2. PICK g : IsRun(w, g, base, s, m - 1)
    BY <2>1 DEF T
  <2>3. QED
    BY <1>4, <1>6, <2>2, RunExtends
<1>7. QED
  BY <1>4, <1>5, <1>6

\* What every step of a run preserves, the run preserves: the least step that breaks it, there is none.
LEMMA RunPreserves ==
    ASSUME NEW n \in Nat, NEW Good, 0 \in Good, \A i \in 1 .. n : i - 1 \in Good => i \in Good
    PROVE  n \in Good
<1> DEFINE T == {i \in 0 .. n : i \notin Good}
<1>1. SUFFICES ASSUME n \in T PROVE FALSE
  OBVIOUS
<1>2. T \in SUBSET Nat
  OBVIOUS
<1> HIDE DEF T
<1>3. PICK j \in T : \A i \in T : j <= i
  BY <1>1, <1>2, Least
<1>4. j \in 0 .. n /\ j \notin Good
  BY <1>3 DEF T
<1>5. j # 0
  BY <1>4
<1>6. j - 1 \in 0 .. n /\ j - 1 \notin T /\ j \in 1 .. n
  BY <1>3, <1>4, <1>5
<1>7. j - 1 \in Good
  BY <1>6 DEF T
<1>8. QED
  BY <1>4, <1>6, <1>7

\* FlattenSeq is a run along the parts.
LEMMA FlattenRun ==
    ASSUME NEW parts, IsSeq(parts), \A i \in 1 .. Len(parts) : <<>> \o parts[i] = parts[i]
    PROVE  \E f : /\ f[0] = <<>> /\ FlattenSeq(parts) = f[Len(parts)]
                  /\ \A i \in 1 .. Len(parts) : f[i] = f[i - 1] \o parts[i]
<1> DEFINE n == Len(parts)
           R(g) == g = [i \in 1 .. n |-> IF i = 1 THEN parts[i] ELSE g[i - 1] \o parts[i]]
           h == CHOOSE g : R(g)
<1>1. n \in Nat
  BY SeqLen
<1>2. PICK f : IsRun(Concat, f, <<>>, parts, n)
  BY <1>1, RunExists
<1>3. \A x, i : Step(Concat, x, i) = x \o i
  BY DEF Step, Concat
<1>4. f[0] = <<>> /\ \A i \in 1 .. n : f[i] = f[i - 1] \o parts[i]
  <2>1. 0 \in 0 .. n /\ \A i \in 1 .. n : i \in 0 .. n /\ i # 0
    BY <1>1
  <2>2. QED
    BY <1>2, <1>3, <2>1 DEF IsRun
<1>5. n = 0 => FlattenSeq(parts) = f[n]
  <2> HAVE n = 0
  <2>1. parts = <<>>
    BY EmptySeq DEF IsSeq
  <2>2. FlattenSeq(parts) = parts
    BY DEF FlattenSeq
  <2>3. QED
    BY <1>4, <2>1, <2>2
<1>6. n > 0 => FlattenSeq(parts) = f[n]
  <2> HAVE n > 0
  <2> DEFINE g == [i \in 1 .. n |-> f[i]]
  <2>1. 1 \in 1 .. n /\ 1 - 1 = 0
    BY <1>1
  <2>2. f[1] = parts[1]
    <3>1. f[1] = f[1 - 1] \o parts[1]
      BY <1>4, <2>1
    <3>2. f[1] = <<>> \o parts[1]
      BY <1>4, <2>1, <3>1
    <3>3. QED
      BY <2>1, <3>2
  <2>3. ASSUME NEW i \in 1 .. n PROVE g[i] = IF i = 1 THEN parts[i] ELSE g[i - 1] \o parts[i]
    <3>1. CASE i = 1
      BY <2>2, <3>1
    <3>2. CASE i # 1
      <4>1. i - 1 \in 1 .. n
        BY <1>1, <3>2
      <4>2. QED
        BY <1>4, <3>2, <4>1
    <3>3. QED
      BY <3>1, <3>2
  <2>4. g = [i \in 1 .. n |-> IF i = 1 THEN parts[i] ELSE g[i - 1] \o parts[i]]
    BY <2>3
  <2>5. R(g)
    BY <2>4
  <2> HIDE DEF g
  <2>6. R(h)
    BY <2>5
  <2>7. FlattenSeq(parts) = h[n]
    BY DEF FlattenSeq
  <2>8. \A i \in 1 .. n : h[i] = IF i = 1 THEN parts[i] ELSE h[i - 1] \o parts[i]
    BY <2>6
  <2> HIDE DEF h, R
  <2> DEFINE Good == {i \in 0 .. n : i = 0 \/ h[i] = f[i]}
  <2>9. 0 \in Good
    BY <1>1
  <2>10. ASSUME NEW i \in 1 .. n, i - 1 \in Good PROVE i \in Good
    <3>1. i \in 0 .. n
      BY <1>1
    <3>2. CASE i = 1
      BY <2>1, <2>2, <2>8, <3>1, <3>2
    <3>3. CASE i # 1
      <4>1. i - 1 \in 1 .. n /\ h[i - 1] = f[i - 1]
        BY <1>1, <2>10, <3>3
      <4>2. h[i] = f[i]
        BY <1>4, <2>8, <3>3, <4>1
      <4>3. QED
        BY <3>1, <4>2
    <3>4. QED
      BY <3>2, <3>3
  <2> HIDE DEF Good
  <2>11. n \in Good
    BY <1>1, <2>9, <2>10, RunPreserves
  <2>12. QED
    BY <2>7, <2>11 DEF Good
<1>7. FlattenSeq(parts) = f[n]
  BY <1>1, <1>5, <1>6
<1>8. QED
  BY <1>4, <1>7
-----------------------------------------------------------------------------
(* The text of a sequence of blocks, or of deltas.                         *)
Part(e)   == IF e.t = "text" THEN e.text ELSE <<>>
Worded(c) == IsSeq(c) /\ \A i \in 1 .. Len(c) : Part(c[i]) \in Text

\* Texts are put one behind the other.
LEMMA TextLaws ==
    /\ <<>> \in Text
    /\ \A a \in Text : a \o <<>> = a /\ <<>> \o a = a
    /\ \A a, b \in Text : a \o b \in Text
    /\ \A a, b, c \in Text : (a \o b) \o c = a \o (b \o c)
<1>1. <<>> \in Text
  BY EmptySeq DEF Text
<1>2. \A a \in Text : a \o <<>> = a /\ <<>> \o a = a
  BY ConcatEmptySeq DEF Text
<1>3. \A a, b \in Text : a \o b \in Text
  BY ConcatProperties DEF Text
<1>4. \A a, b, c \in Text : (a \o b) \o c = a \o (b \o c)
  BY ConcatAssociative DEF Text
<1>5. QED
  BY <1>1, <1>2, <1>3, <1>4

\* TextOf is a run along the blocks.
LEMMA TextRun ==
    ASSUME NEW c, Worded(c)
    PROVE  \E f : /\ f[0] = <<>> /\ TextOf(c) = f[Len(c)]
                  /\ \A i \in 1 .. Len(c) : f[i] = f[i - 1] \o Part(c[i])
                  /\ \A i \in 0 .. Len(c) : f[i] \in Text
<1> DEFINE n == Len(c)
           parts == [i \in DOMAIN c |-> IF c[i].t = "text" THEN c[i].text ELSE <<>>]
<1>1. n \in Nat /\ DOMAIN c = 1 .. n /\ IsSeq(c)
  BY SeqLen DEF Worded
<1>2. \A i \in 1 .. n : parts[i] = Part(c[i]) /\ parts[i] \in Text
  BY <1>1 DEF Worded, Part
<1>3. parts = [i \in 1 .. n |-> parts[i]]
  BY <1>1
<1>4. TextOf(c) = FlattenSeq(parts)
  BY DEF TextOf
<1> HIDE DEF parts
<1>5. IsSeq(parts) /\ Len(parts) = n
  BY <1>1, <1>3, SeqFun
<1>6. \A i \in 1 .. Len(parts) : <<>> \o parts[i] = parts[i]
  BY <1>2, <1>5, TextLaws
<1>7. PICK f : /\ f[0] = <<>> /\ FlattenSeq(parts) = f[Len(parts)]
               /\ \A i \in 1 .. Len(parts) : f[i] = f[i - 1] \o parts[i]
  BY <1>5, <1>6, FlattenRun
<1>8. f[0] = <<>> /\ TextOf(c) = f[n] /\ \A i \in 1 .. n : f[i] = f[i - 1] \o parts[i]
  BY <1>4, <1>5, <1>7
<1>9. \A i \in 0 .. n : f[i] \in Text
  <2> DEFINE Good == {i \in 0 .. n : f[i] \in Text}
  <2>1. 0 \in Good
    BY <1>1, <1>8, TextLaws
  <2>2. ASSUME NEW i \in 1 .. n, i - 1 \in Good PROVE i \in Good
    <3>1. f[i - 1] \in Text
      BY <2>2
    <3>2. f[i] = f[i - 1] \o parts[i] /\ parts[i] \in Text
      BY <1>2, <1>8
    <3>3. f[i] \in Text
      BY <3>1, <3>2, TextLaws
    <3>4. i \in 0 .. n
      BY <1>1
    <3>5. QED
      BY <3>3, <3>4
  <2>3. \A k \in 0 .. n : k \in Good
    <3>1. TAKE k \in 0 .. n
    <3>2. k \in Nat /\ \A i \in 1 .. k : i - 1 \in Good => i \in Good
      BY <1>1, <2>2
    <3> HIDE DEF Good
    <3>3. QED
      BY <2>1, <3>2, RunPreserves
  <2>4. QED
    BY <2>3
<1>10. QED
  BY <1>2, <1>8, <1>9

\* The text of a sequence is a text.
LEMMA TextTyped ==
    ASSUME NEW c, Worded(c)
    PROVE  TextOf(c) \in Text
<1>1. Len(c) \in Nat
  BY SeqLen DEF Worded
<1>2. Len(c) \in 0 .. Len(c)
  BY <1>1
<1>3. QED
  BY <1>2, TextRun

\* Runs along sequences that have the same parts agree.
LEMMA TextSame ==
    ASSUME NEW c, Worded(c), NEW d, Worded(d), Len(c) = Len(d),
           \A i \in 1 .. Len(c) : Part(c[i]) = Part(d[i])
    PROVE  TextOf(c) = TextOf(d)
<1> DEFINE n == Len(c)
<1>1. n \in Nat
  BY SeqLen DEF Worded
<1>2. PICK f : /\ f[0] = <<>> /\ TextOf(c) = f[n]
               /\ \A i \in 1 .. n : f[i] = f[i - 1] \o Part(c[i])
  BY TextRun
<1>3. PICK g : /\ g[0] = <<>> /\ TextOf(d) = g[n]
               /\ \A i \in 1 .. n : g[i] = g[i - 1] \o Part(d[i])
  BY TextRun
<1> DEFINE Good == {i \in 0 .. n : f[i] = g[i]}
<1>4. 0 \in Good
  BY <1>1, <1>2, <1>3
<1>5. \A i \in 1 .. n : i - 1 \in Good => i \in Good
  <2>1. TAKE i \in 1 .. n
  <2>2. HAVE i - 1 \in Good
  <2>3. f[i - 1] = g[i - 1]
    BY <2>2
  <2>4. f[i] = g[i]
    BY <1>2, <1>3, <2>3
  <2>5. i \in 0 .. n
    BY <1>1
  <2>6. QED
    BY <2>4, <2>5
<1> HIDE DEF Good
<1>6. n \in Good
  BY <1>1, <1>4, <1>5, RunPreserves
<1>7. QED
  BY <1>2, <1>3, <1>6 DEF Good

\* The text of two sequences, one behind the other.
LEMMA TextConcat ==
    ASSUME NEW c, Worded(c), NEW d, Worded(d)
    PROVE  Worded(c \o d) /\ TextOf(c \o d) = TextOf(c) \o TextOf(d)
<1> DEFINE m == Len(c)
           n == Len(d)
           e == c \o d
<1>1. m \in Nat /\ n \in Nat
  BY SeqLen DEF Worded
<1>2. /\ IsSeq(e) /\ Len(e) = m + n
      /\ \A i \in 1 .. m : e[i] = c[i]
      /\ \A i \in 1 .. n : e[m + i] = d[i]
  BY SeqConcat DEF Worded
<1> HIDE DEF e
<1>3. Worded(e)
  <2>1. ASSUME NEW i \in 1 .. m + n PROVE Part(e[i]) \in Text
    <3>1. CASE i <= m
      BY <1>1, <1>2, <3>1 DEF Worded
    <3>2. CASE i > m
      <4>1. i - m \in 1 .. n /\ m + (i - m) = i
        BY <1>1, <3>2
      <4>2. QED
        BY <1>2, <4>1 DEF Worded
    <3>3. QED
      BY <1>1, <3>1, <3>2
  <2>2. QED
    BY <1>2, <2>1 DEF Worded
<1>4. PICK f : /\ f[0] = <<>> /\ TextOf(c) = f[m]
               /\ \A i \in 1 .. m : f[i] = f[i - 1] \o Part(c[i])
               /\ \A i \in 0 .. m : f[i] \in Text
  BY TextRun
<1>5. PICK g : /\ g[0] = <<>> /\ TextOf(d) = g[n]
               /\ \A i \in 1 .. n : g[i] = g[i - 1] \o Part(d[i])
               /\ \A i \in 0 .. n : g[i] \in Text
  BY TextRun
<1>6. PICK h : /\ h[0] = <<>> /\ TextOf(e) = h[m + n]
               /\ \A i \in 1 .. m + n : h[i] = h[i - 1] \o Part(e[i])
  <2>1. Len(e) = m + n
    BY <1>2
  <2> HIDE DEF m, n
  <2>2. QED
    BY <1>3, <2>1, TextRun
<1>7. h[m] = f[m]
  <2> DEFINE Good == {i \in 0 .. m : h[i] = f[i]}
  <2>1. 0 \in Good
    BY <1>1, <1>4, <1>6
  <2>2. \A i \in 1 .. m : i - 1 \in Good => i \in Good
    <3>1. TAKE i \in 1 .. m
    <3>2. i \in 1 .. m + n /\ e[i] = c[i]
      BY <1>1, <1>2
    <3>3. HAVE i - 1 \in Good
    <3>4. h[i] = h[i - 1] \o Part(c[i]) /\ f[i] = f[i - 1] \o Part(c[i])
      BY <1>4, <1>6, <3>2
    <3>5. h[i] = f[i]
      BY <3>3, <3>4
    <3>6. i \in 0 .. m
      BY <1>1
    <3>7. QED
      BY <3>5, <3>6
  <2> HIDE DEF Good
  <2>3. m \in Good
    BY <1>1, <2>1, <2>2, RunPreserves
  <2>4. QED
    BY <2>3 DEF Good
<1>8. h[m + n] = f[m] \o g[n]
  <2> DEFINE Good == {i \in 0 .. n : h[m + i] = f[m] \o g[i]}
  <2>1. 0 \in Good
    <3>1. m + 0 = m /\ f[m] \in Text
      BY <1>1, <1>4
    <3>2. f[m] \o <<>> = f[m]
      BY <3>1, TextLaws
    <3>3. h[m + 0] = f[m] \o g[0]
      BY <1>5, <1>7, <3>1, <3>2
    <3>4. 0 \in 0 .. n
      BY <1>1
    <3> HIDE DEF m
    <3>5. QED
      BY <3>3, <3>4
  <2>2. \A i \in 1 .. n : i - 1 \in Good => i \in Good
    <3>1. TAKE i \in 1 .. n
    <3>2. HAVE i - 1 \in Good
    <3>3. /\ m + i \in 1 .. m + n /\ (m + i) - 1 = m + (i - 1) /\ e[m + i] = d[i]
          /\ f[m] \in Text /\ g[i - 1] \in Text /\ Part(d[i]) \in Text
      BY <1>1, <1>2, <1>4, <1>5 DEF Worded
    <3>4. h[m + i] = h[(m + i) - 1] \o Part(e[m + i])
      BY <1>6, <3>3
    <3>5. h[m + i] = (f[m] \o g[i - 1]) \o Part(d[i])
      BY <3>2, <3>3, <3>4
    <3>6. (f[m] \o g[i - 1]) \o Part(d[i]) = f[m] \o (g[i - 1] \o Part(d[i]))
      BY <3>3, TextLaws
    <3>7. g[i] = g[i - 1] \o Part(d[i])
      BY <1>5
    <3>8. h[m + i] = f[m] \o g[i]
      BY <3>5, <3>6, <3>7
    <3>9. i \in 0 .. n
      BY <1>1
    <3>10. QED
      BY <3>8, <3>9
  <2> HIDE DEF Good
  <2>3. n \in Good
    BY <1>1, <2>1, <2>2, RunPreserves
  <2>4. QED
    BY <2>3 DEF Good
<1>9. TextOf(e) = TextOf(c) \o TextOf(d)
  BY <1>4, <1>5, <1>6, <1>8
<1>10. QED
  BY <1>3, <1>9 DEF e

\* The text of no block and of one.
LEMMA TextFew ==
    /\ Worded(<<>>) /\ TextOf(<<>>) = <<>>
    /\ \A x : Part(x) \in Text => Worded(<<x>>) /\ TextOf(<<x>>) = Part(x)
<1>1. Worded(<<>>)
  BY SeqFew DEF Worded
<1>2. TextOf(<<>>) = <<>>
  BY <1>1, SeqFew, TextRun
<1>3. ASSUME NEW x, Part(x) \in Text PROVE Worded(<<x>>) /\ TextOf(<<x>>) = Part(x)
  <2>1. IsSeq(<<x>>) /\ Len(<<x>>) = 1 /\ <<x>>[1] = x
    BY SeqFew
  <2>2. Worded(<<x>>)
    BY <1>3, <2>1 DEF Worded
  <2>3. PICK f : /\ f[0] = <<>> /\ TextOf(<<x>>) = f[1]
                 /\ \A i \in 1 .. 1 : f[i] = f[i - 1] \o Part(<<x>>[i])
    BY <2>1, <2>2, TextRun
  <2>4. f[1] = <<>> \o Part(x)
    <3>1. 1 \in 1 .. 1 /\ 1 - 1 = 0
      OBVIOUS
    <3>2. QED
      BY <2>1, <2>3, <3>1
  <2>5. QED
    BY <1>3, <2>2, <2>3, <2>4, TextLaws
<1>4. QED
  BY <1>1, <1>2, <1>3

\* The text of a sequence with one more.
LEMMA TextAppend ==
    ASSUME NEW c, Worded(c), NEW x, Part(x) \in Text
    PROVE  Worded(Append(c, x)) /\ TextOf(Append(c, x)) = TextOf(c) \o Part(x)
<1>1. c \o <<x>> = Append(c, x)
  BY SeqAppend DEF Worded
<1>2. Worded(<<x>>) /\ TextOf(<<x>>) = Part(x)
  BY TextFew
<1>3. QED
  BY <1>1, <1>2, TextConcat

\* The text of a sequence and of what is behind its first element.
LEMMA TextTail ==
    ASSUME NEW c, Worded(c), c # <<>>
    PROVE  /\ Worded(Tail(c)) /\ Part(Head(c)) \in Text
           /\ TextOf(c) = Part(Head(c)) \o TextOf(Tail(c))
<1>1. IsSeq(c) /\ Len(c) \in Nat /\ \A i \in 1 .. Len(c) : Part(c[i]) \in Text
  BY SeqLen DEF Worded
<1>2. Len(c) # 0
  BY <1>1, EmptySeq DEF IsSeq
<1>3. /\ Tail(c) \in Seq(Range(c)) /\ Len(Tail(c)) = Len(c) - 1
      /\ \A i \in 1 .. Len(Tail(c)) : Tail(c)[i] = c[i + 1]
  BY <1>1, HeadTailProperties DEF IsSeq
<1>4. IsSeq(Tail(c))
  BY <1>3, SeqIs
<1>5. Worded(Tail(c))
  <2>1. \A i \in 1 .. Len(c) - 1 : i + 1 \in 1 .. Len(c)
    BY <1>1
  <2>2. QED
    BY <1>1, <1>3, <1>4, <2>1 DEF Worded
<1>6. Head(c) = c[1] /\ 1 \in 1 .. Len(c)
  BY <1>1, <1>2
<1>7. Part(Head(c)) \in Text
  BY <1>1, <1>6
<1>8. c = <<Head(c)>> \o Tail(c)
  <2>1. IsSeq(<<Head(c)>>) /\ Len(<<Head(c)>>) = 1 /\ <<Head(c)>>[1] = Head(c)
    BY SeqFew
  <2> DEFINE h == <<Head(c)>>
             d == h \o Tail(c)
  <2> HIDE DEF h
  <2>2. /\ IsSeq(d) /\ Len(d) = 1 + (Len(c) - 1)
        /\ \A i \in 1 .. 1 : d[i] = h[i]
        /\ \A i \in 1 .. Len(c) - 1 : d[1 + i] = Tail(c)[i]
    BY <1>3, <1>4, <2>1, SeqConcat DEF h
  <2> HIDE DEF d
  <2>3. Len(d) = Len(c)
    BY <1>1, <2>2
  <2>4. ASSUME NEW i \in 1 .. Len(c) PROVE d[i] = c[i]
    <3>1. CASE i = 1
      BY <1>6, <2>1, <2>2, <3>1 DEF h
    <3>2. CASE i # 1
      <4>1. i - 1 \in 1 .. Len(c) - 1 /\ 1 + (i - 1) = i /\ (i - 1) + 1 = i
        BY <1>1, <3>2
      <4>2. QED
        BY <1>3, <2>2, <4>1
    <3>3. QED
      BY <3>1, <3>2
  <2>5. /\ d \in Seq(Range(d) \cup Range(c))
        /\ c \in Seq(Range(d) \cup Range(c))
    BY <1>1, <2>2, SeqMonotonic DEF IsSeq
  <2>6. d = c
    BY <2>3, <2>4, <2>5, SeqEqual
  <2>7. QED
    BY <2>6 DEF d, h
<1>9. Worded(<<Head(c)>>) /\ TextOf(<<Head(c)>>) = Part(Head(c))
  BY <1>7, TextFew
<1>10. QED
  BY <1>5, <1>7, <1>8, <1>9, TextConcat

-----------------------------------------------------------------------------
(* Ranks in a finite order.                                                *)
Rank(S, R, x) == Cardinality({y \in S : <<y, x>> \in R})

IsOrder(S, R) ==
  /\ IsFiniteSet(S)
  /\ \A x \in S : <<x, x>> \notin R
  /\ \A x, y \in S : x = y \/ <<x, y>> \in R \/ <<y, x>> \in R
  /\ \A x, y, z \in S : <<x, y>> \in R /\ <<y, z>> \in R => <<x, z>> \in R

IsRanked(S, R) ==
  /\ Cardinality(S) \in Nat
  /\ \A x, y \in S : Rank(S, R, x) = Rank(S, R, y) => x = y
  /\ \A r \in 1 .. Cardinality(S) : \E x \in S : Rank(S, R, x) = r - 1

\* In an order every rank is taken, and by one element.
LEMMA Ranks ==
    ASSUME NEW S, NEW R, IsOrder(S, R)
    PROVE  IsRanked(S, R)
<1> DEFINE n == Cardinality(S)
           below(x) == {y \in S : <<y, x>> \in R}
           f == [x \in S |-> Rank(S, R, x)]
<1>1. IsFiniteSet(S) /\ n \in Nat
  BY FS_CardinalityType DEF IsOrder
<1>2. ASSUME NEW x \in S PROVE IsFiniteSet(below(x)) /\ f[x] = Cardinality(below(x)) /\ f[x] \in 0 .. n - 1
  <2>1. below(x) \in SUBSET S /\ x \notin below(x) /\ below(x) # S
    BY DEF IsOrder
  <2> HIDE DEF below
  <2>2. IsFiniteSet(below(x)) /\ Cardinality(below(x)) <= n /\ Cardinality(below(x)) # n
    BY <1>1, <2>1, FS_Subset
  <2>3. Cardinality(below(x)) \in Nat
    BY <2>2, FS_CardinalityType
  <2>4. Cardinality(below(x)) \in 0 .. n - 1
    BY <1>1, <2>2, <2>3
  <2>5. f[x] = Cardinality(below(x))
    BY DEF below, Rank
  <2>6. QED
    BY <2>2, <2>4, <2>5
<1>3. ASSUME NEW x \in S, NEW y \in S, <<x, y>> \in R PROVE f[x] < f[y]
  <2>1. below(x) \in SUBSET below(y) /\ x \in below(y) /\ x \notin below(x)
    BY <1>3 DEF IsOrder
  <2>2. below(x) # below(y)
    BY <2>1
  <2>3. f[x] = Cardinality(below(x)) /\ f[y] = Cardinality(below(y)) /\ f[x] \in Int /\ f[y] \in Int
    BY <1>1, <1>2
  <2>4. IsFiniteSet(below(y))
    BY <1>2
  <2> HIDE DEF below, f
  <2>5. Cardinality(below(x)) <= Cardinality(below(y)) /\ Cardinality(below(x)) # Cardinality(below(y))
    BY <2>1, <2>2, <2>4, FS_Subset
  <2>6. QED
    BY <2>3, <2>5
<1>4. ASSUME NEW x \in S, NEW y \in S, f[x] = f[y] PROVE x = y
  <2>1. ~ (f[x] < f[y]) /\ ~ (f[y] < f[x])
    <3>1. f[x] \in 0 .. n - 1 /\ f[y] \in 0 .. n - 1
      BY <1>2
    <3> HIDE DEF f
    <3>2. QED
      BY <1>4, <3>1
  <2>2. <<x, y>> \notin R /\ <<y, x>> \notin R
    BY <1>3, <2>1
  <2>3. QED
    BY <2>2 DEF IsOrder
<1>5. f \in [S -> 0 .. n - 1]
  <2>1. \A x \in S : f[x] \in 0 .. n - 1
    BY <1>2
  <2>2. QED
    BY <2>1
<1>6. \A x \in S : f[x] = Rank(S, R, x)
  OBVIOUS
<1> HIDE DEF f
<1>7. f \in Injection(S, 0 .. n - 1)
  BY <1>4, <1>5 DEF Injection, IsInjective
<1>8. IsFiniteSet(0 .. n - 1) /\ Cardinality(0 .. n - 1) = n
  BY <1>1, FS_Interval
<1>9. f \in Surjection(S, 0 .. n - 1)
  BY <1>7, <1>8, FS_Injection
<1>10. \A r \in 0 .. n - 1 : \E x \in S : f[x] = r
  BY <1>9 DEF Surjection
<1>11. ASSUME NEW r \in 1 .. n PROVE \E x \in S : Rank(S, R, x) = r - 1
  <2>1. r - 1 \in 0 .. n - 1
    BY <1>1
  <2>2. QED
    BY <1>6, <1>10, <2>1
<1>12. QED
  BY <1>1, <1>4, <1>6, <1>11 DEF IsRanked

\* Keys in their order are keys.
LEMMA KeysRanked ==
    ASSUME NEW S, S \subseteq Int, IsFiniteSet(S)
    PROVE  LET q == Ranked(S, <) IN IsSeq(q) /\ \A i \in 1 .. Len(q) : q[i] \in S
<1> DEFINE R == {p \in S \X S : p[1] < p[2]}
           q == Ranked(S, <)
           n == Cardinality(S)
<1>1. IsOrder(S, R)
  BY DEF IsOrder
<1>2. n \in Nat /\ \A r \in 1 .. n : \E x \in S : Rank(S, R, x) = r - 1
  <2> HIDE DEF R
  <2>1. IsRanked(S, R)
    BY <1>1, Ranks
  <2>2. QED
    BY <2>1 DEF IsRanked
<1>3. ASSUME NEW x \in S PROVE Rank(S, R, x) = Cardinality({y \in S : y < x})
  <2>1. {y \in S : <<y, x>> \in R} = {y \in S : y < x}
    OBVIOUS
  <2>2. QED
    BY <2>1 DEF Rank
<1>4. q = [r \in 1 .. n |-> CHOOSE x \in S : Cardinality({y \in S : y < x}) = r - 1]
  BY DEF Ranked
<1> DEFINE nth(r) == CHOOSE x \in S : Cardinality({y \in S : y < x}) = r - 1
<1> HIDE DEF R, q
<1>5. ASSUME NEW r \in 1 .. n PROVE q[r] \in S
  <2>1. \E x \in S : Cardinality({y \in S : y < x}) = r - 1
    BY <1>2, <1>3
  <2>2. QED
    BY <1>4, <2>1
<1>6. q = [r \in 1 .. n |-> q[r]]
  <2>1. q = [r \in 1 .. n |-> nth(r)]
    BY <1>4
  <2> HIDE DEF nth
  <2>2. QED
    BY <2>1
<1>7. IsSeq(q) /\ Len(q) = n
  BY <1>2, <1>6, SeqFun
<1>8. QED
  BY <1>5, <1>7 DEF q

\* The blocks of a response, sorted: each in one place, none lost or made up.
LEMMA Sorted ==
    ASSUME NEW b, IsSeq(b), \A i \in 1 .. Len(b) : b[i].slot \in Int
    PROVE  \E order : /\ SortBySlot(b) = [r \in 1 .. Len(b) |-> b[order[r]].block]
                      /\ \A r \in 1 .. Len(b) : order[r] \in 1 .. Len(b)
                      /\ \A i \in 1 .. Len(b) : \E r \in 1 .. Len(b) : order[r] = i
                      /\ \A r, s \in 1 .. Len(b) : order[r] = order[s] => r = s
<1> DEFINE D == DOMAIN b
           R == {p \in D \X D : b[p[1]].slot < b[p[2]].slot \/ (b[p[1]].slot = b[p[2]].slot /\ p[1] < p[2])}
           n == Len(b)
           order == [r \in 1 .. Cardinality(D) |->
                       CHOOSE x \in D : Cardinality({y \in D : \/ b[y].slot < b[x].slot
                                                               \/ b[y].slot = b[x].slot /\ y < x}) = r - 1]
<1>1. n \in Nat /\ D = 1 .. n
  BY SeqLen
<1>2. IsFiniteSet(D) /\ Cardinality(D) = n
  BY <1>1, FS_Interval
<1>3. \A i \in D : i \in Int /\ b[i].slot \in Int
  BY <1>1
<1>4. IsOrder(D, R)
  <2>1. \A x \in D : <<x, x>> \notin R
    BY <1>3
  <2>2. \A x, y \in D : x = y \/ <<x, y>> \in R \/ <<y, x>> \in R
    BY <1>3
  <2>3. \A x, y, z \in D : <<x, y>> \in R /\ <<y, z>> \in R => <<x, z>> \in R
    BY <1>3
  <2> HIDE DEF R, D
  <2>4. QED
    BY <1>2, <2>1, <2>2, <2>3 DEF IsOrder
<1>5. /\ \A x, y \in D : Rank(D, R, x) = Rank(D, R, y) => x = y
      /\ \A r \in 1 .. n : \E x \in D : Rank(D, R, x) = r - 1
  <2> HIDE DEF R, D
  <2>1. IsRanked(D, R)
    BY <1>4, Ranks
  <2>2. QED
    BY <1>2, <2>1 DEF IsRanked
<1>6. ASSUME NEW x \in D
      PROVE  Rank(D, R, x) = Cardinality({y \in D : \/ b[y].slot < b[x].slot
                                                    \/ b[y].slot = b[x].slot /\ y < x})
  <2>1. {y \in D : <<y, x>> \in R}
         = {y \in D : (b[y].slot < b[x].slot) \/ (b[y].slot = b[x].slot /\ y < x)}
    OBVIOUS
  <2>2. QED
    BY <2>1 DEF Rank
<1>7. SortBySlot(b) = [r \in DOMAIN order |-> b[order[r]].block]
  BY DEF SortBySlot, Ranked
<1>8. DOMAIN order = 1 .. n
  BY <1>2
<1>9. ASSUME NEW r \in 1 .. n PROVE order[r] \in D /\ Rank(D, R, order[r]) = r - 1
  <2> DEFINE Fits(x) == Cardinality({y \in D : \/ b[y].slot < b[x].slot
                                               \/ b[y].slot = b[x].slot /\ y < x}) = r - 1
  <2>1. \E x \in D : Fits(x)
    BY <1>5, <1>6
  <2>2. order[r] = CHOOSE x \in D : Fits(x)
    BY <1>2
  <2> HIDE DEF Fits, order
  <2>3. order[r] \in D /\ Fits(order[r])
    BY <2>1, <2>2
  <2>4. QED
    BY <1>6, <2>3 DEF Fits
<1> HIDE DEF order, R
<1>10. \A r, s \in 1 .. n : order[r] = order[s] => r = s
  <2>1. TAKE r, s \in 1 .. n
  <2>2. HAVE order[r] = order[s]
  <2>3. r - 1 = s - 1
    BY <1>9, <2>2
  <2>4. QED
    BY <1>1, <2>3
<1>11. \A i \in 1 .. n : \E r \in 1 .. n : order[r] = i
  <2> DEFINE f == [r \in 1 .. n |-> order[r]]
  <2>1. f \in Injection(1 .. n, 1 .. n)
    BY <1>1, <1>9, <1>10 DEF Injection, IsInjective
  <2>2. IsFiniteSet(1 .. n)
    BY <1>1, <1>2
  <2>3. f \in Surjection(1 .. n, 1 .. n)
    BY <2>1, <2>2, FS_Injection
  <2>4. \A i \in 1 .. n : \E r \in 1 .. n : f[r] = i
    BY <2>3 DEF Surjection
  <2>5. QED
    BY <2>4
<1>12. /\ SortBySlot(b) = [r \in 1 .. n |-> b[order[r]].block]
       /\ \A r \in 1 .. n : order[r] \in 1 .. n
  BY <1>1, <1>7, <1>8, <1>9
<1>13. QED
  BY <1>10, <1>11, <1>12

\* The text of a sequence in which one block at most has some.
LEMMA TextSingle ==
    ASSUME NEW c, Worded(c), NEW k \in 1 .. Len(c), \A i \in 1 .. Len(c) : i # k => Part(c[i]) = <<>>
    PROVE  TextOf(c) = Part(c[k])
<1> DEFINE n == Len(c)
           T == Part(c[k])
<1>1. n \in Nat /\ k \in Nat /\ 1 <= k /\ k <= n /\ T \in Text
  BY SeqLen DEF Worded
<1>2. PICK f : /\ f[0] = <<>> /\ TextOf(c) = f[n]
               /\ \A i \in 1 .. n : f[i] = f[i - 1] \o Part(c[i])
  BY TextRun
<1> DEFINE Good == {i \in 0 .. n : f[i] = IF i < k THEN <<>> ELSE T}
<1>3. 0 \in Good
  BY <1>1, <1>2
<1>4. ASSUME NEW i \in 1 .. n, i - 1 \in Good PROVE i \in Good
  <2> DEFINE p == f[i - 1]
             x == Part(c[i])
  <2>1. i \in 0 .. n /\ f[i] = p \o x /\ p = IF i - 1 < k THEN <<>> ELSE T
    <3>1. f[i] = f[i - 1] \o Part(c[i])
      BY <1>2
    <3>2. f[i - 1] = IF i - 1 < k THEN <<>> ELSE T
      BY <1>4
    <3>3. i \in 0 .. n
      BY <1>1
    <3>4. QED
      BY <3>1, <3>2, <3>3
  <2>2. (i < k => i - 1 < k) /\ (i = k => i - 1 < k) /\ (i > k => ~ (i - 1 < k)) /\ (i # k => x = <<>>)
    BY <1>1
  <2>3. i = k => x = T
    OBVIOUS
  <2> HIDE DEF p, x
  <2>4. <<>> \o <<>> = <<>> /\ <<>> \o T = T /\ T \o <<>> = T
    BY <1>1, TextLaws
  <2>5. CASE i < k
    <3>1. f[i] = <<>> \o <<>>
      BY <1>1, <2>1, <2>5, <2>2
    <3>2. QED
      BY <2>1, <2>4, <2>5, <3>1
  <2>6. CASE i = k
    <3>1. f[i] = <<>> \o T
      BY <2>1, <2>6, <2>2, <2>3
    <3>2. QED
      BY <1>1, <2>1, <2>4, <2>6, <3>1
  <2>7. CASE i > k
    <3>1. f[i] = T \o <<>>
      <4>1. i # k
        BY <1>1, <2>7
      <4>2. QED
        BY <2>1, <2>7, <2>2, <4>1
    <3>2. QED
      BY <1>1, <2>1, <2>4, <2>7, <3>1
  <2>8. QED
    BY <1>1, <2>5, <2>6, <2>7
<1> HIDE DEF Good, T
<1>5. n \in Good
  BY <1>1, <1>3, <1>4, RunPreserves
<1>6. QED
  BY <1>1, <1>2, <1>5 DEF Good, T

\* The text of a sequence in which no block has any.
LEMMA TextNone ==
    ASSUME NEW c, IsSeq(c), \A i \in 1 .. Len(c) : Part(c[i]) = <<>>
    PROVE  Worded(c) /\ TextOf(c) = <<>>
<1>1. Worded(c)
  BY TextLaws DEF Worded
<1>2. Len(c) \in Nat
  BY SeqLen
<1>3. CASE Len(c) = 0
  <2>1. c = <<>>
    BY <1>3, EmptySeq DEF IsSeq
  <2>2. QED
    BY <1>1, <2>1, TextFew
<1>4. CASE Len(c) # 0
  <2>1. 1 \in 1 .. Len(c)
    BY <1>2, <1>4
  <2>2. QED
    BY <1>1, <2>1, TextSingle
<1>5. QED
  BY <1>3, <1>4

\* A response has the text that its blocks have, if one of them has it all.
LEMMA SortedText ==
    ASSUME NEW b, IsSeq(b), \A i \in 1 .. Len(b) : b[i].slot \in Int,
           NEW T \in Text,
           \A i \in 1 .. Len(b) : Part(b[i].block) \in {<<>>, T},
           \A i, j \in 1 .. Len(b) : Part(b[i].block) # <<>> /\ Part(b[j].block) # <<>> => i = j,
           T # <<>> => \E i \in 1 .. Len(b) : Part(b[i].block) = T
    PROVE  TextOf(SortBySlot(b)) = T
<1> DEFINE n == Len(b)
           c == SortBySlot(b)
<1>1. n \in Nat
  BY SeqLen
<1>2. PICK order : /\ c = [r \in 1 .. n |-> b[order[r]].block]
                   /\ \A r \in 1 .. n : order[r] \in 1 .. n
                   /\ \A i \in 1 .. n : \E r \in 1 .. n : order[r] = i
                   /\ \A r, s \in 1 .. n : order[r] = order[s] => r = s
  BY Sorted
<1> HIDE DEF c
<1>3. c = [r \in 1 .. n |-> c[r]] /\ \A r \in 1 .. n : c[r] = b[order[r]].block
  BY <1>2
<1>4. IsSeq(c) /\ Len(c) = n
  BY <1>1, <1>3, SeqFun
<1>5. ASSUME NEW r \in 1 .. n PROVE Part(c[r]) = Part(b[order[r]].block)
  BY <1>3
<1>6. Worded(c)
  <2>1. ASSUME NEW r \in 1 .. n PROVE Part(c[r]) \in Text
    <3>1. Part(c[r]) \in {<<>>, T}
      BY <1>2, <1>5
    <3>2. QED
      BY <3>1, TextLaws
  <2>2. QED
    BY <1>4, <2>1 DEF Worded
<1>7. CASE T = <<>>
  <2>1. ASSUME NEW r \in 1 .. n PROVE Part(c[r]) = <<>>
    <3>1. Part(c[r]) \in {<<>>, T}
      BY <1>2, <1>5
    <3>2. QED
      BY <1>7, <3>1
  <2>2. QED
    BY <1>4, <1>7, <2>1, TextNone DEF c
<1>8. CASE T # <<>>
  <2>1. PICK i \in 1 .. n : Part(b[i].block) = T
    BY <1>8
  <2>2. PICK k \in 1 .. n : order[k] = i
    BY <1>2
  <2>3. Part(c[k]) = T
    BY <1>5, <2>1, <2>2
  <2>4. ASSUME NEW r \in 1 .. n, r # k PROVE Part(c[r]) = <<>>
    <3>1. order[r] # i /\ order[r] \in 1 .. n
      BY <1>2, <2>2, <2>4
    <3>2. Part(b[order[r]].block) = <<>>
      BY <1>8, <2>1, <3>1
    <3>3. QED
      BY <1>5, <3>2
  <2>5. k \in 1 .. Len(c) /\ \A r \in 1 .. Len(c) : r # k => Part(c[r]) = <<>>
    BY <1>4, <2>4
  <2>6. TextOf(c) = Part(c[k])
    BY <1>6, <2>5, TextSingle
  <2>7. QED
    BY <2>3, <2>6 DEF c
<1>9. QED
  BY <1>7, <1>8

-----------------------------------------------------------------------------
(* x is the end of y.                                                      *)
Ending(x, y) == x \in Text /\ y \in Text /\ \E p \in Text : y = p \o x

\* An end of an end is an end, also of what has more in front.
LEMMA EndingLaws ==
    /\ \A x \in Text : Ending(x, x) /\ Ending(<<>>, x)
    /\ \A x, y, z : Ending(x, y) /\ Ending(y, z) => Ending(x, z)
    /\ \A x, y : \A p \in Text : Ending(x, y) => Ending(x, p \o y)
    /\ \A x \in Text : \A p \in Text : Ending(x, p \o x)
<1>1. \A x \in Text : Ending(x, x) /\ Ending(<<>>, x)
  <2>1. TAKE x \in Text
  <2>2. <<>> \in Text /\ <<>> \o x = x /\ x \o <<>> = x
    BY TextLaws
  <2>3. QED
    BY <2>2 DEF Ending
<1>2. \A x \in Text : \A p \in Text : Ending(x, p \o x)
  BY TextLaws DEF Ending
<1>3. ASSUME NEW x, NEW y, NEW p \in Text, Ending(x, y) PROVE Ending(x, p \o y)
  <2>1. PICK q \in Text : y = q \o x
    BY <1>3 DEF Ending
  <2>2. x \in Text /\ y \in Text /\ q \in Text
    BY <1>3, <2>1 DEF Ending
  <2>3. p \o (q \o x) = (p \o q) \o x /\ p \o y \in Text /\ p \o q \in Text
    BY <2>2, TextLaws
  <2>4. QED
    BY <2>1, <2>2, <2>3 DEF Ending
<1>4. ASSUME NEW x, NEW y, NEW z, Ending(x, y), Ending(y, z) PROVE Ending(x, z)
  <2>1. PICK p \in Text : z = p \o y
    BY <1>4 DEF Ending
  <2>2. QED
    BY <1>3, <1>4, <2>1
<1>5. QED
  BY <1>1, <1>2, <1>3, <1>4

\* The text behind the thinking that is written into it.
LEMMA SplitEnding ==
    ASSUME NEW text \in Text
    PROVE  Ending(split_inline_think(text).rest, text)
<1>1. Len(text) \in Nat /\ DOMAIN text = 1 .. Len(text) /\ \A i \in 1 .. Len(text) : text[i] \in STRING
  BY LenProperties, ElementOfSeq DEF Text
<1>2. CASE "</think>" \notin ToSet(text)
  <2>1. split_inline_think(text).rest = text
    BY <1>2 DEF split_inline_think
  <2>2. QED
    BY <2>1, EndingLaws
<1>3. CASE "</think>" \in ToSet(text)
  <2> DEFINE tag == "</think>"
             T == {i \in 1 .. Len(text) : text[i] = tag}
             close == First(text, tag)
             rest0 == SubSeq(text, close + 1, Len(text))
  <2>1. PICK i \in T : TRUE
    BY <1>1, <1>3 DEF ToSet
  <2>2. T \in SUBSET Nat
    BY <1>1
  <2>3. PICK m \in T : \A j \in T : m <= j
    <3> HIDE DEF T
    <3>1. QED
      BY <2>1, <2>2, Least
  <2>4. m \in DOMAIN text /\ text[m] = tag /\ \A j \in 1 .. (m - 1) : text[j] # tag
    <3>1. m \in 1 .. Len(text) /\ text[m] = tag
      BY <2>3
    <3>2. ASSUME NEW j \in 1 .. (m - 1), text[j] = tag PROVE FALSE
      <4>1. j \in T
        BY <1>1, <3>1, <3>2
      <4>2. m <= j /\ m \in Nat /\ j \in Nat
        BY <2>2, <2>3, <4>1
      <4>3. QED
        BY <3>1, <4>2
    <3>3. QED
      BY <1>1, <3>1, <3>2
  <2>5. close \in 1 .. Len(text)
    BY <1>1, <2>4 DEF First
  <2>6. split_inline_think(text).rest = rest0
    BY <1>3 DEF split_inline_think
  <2> HIDE DEF close
  <2>7. SubSeq(text, 1, close) \o rest0 = text /\ SubSeq(text, 1, close) \in Text /\ rest0 \in Text
    <3>1. 1 \in 1 .. Len(text) + 1 /\ close \in 1 - 1 .. Len(text) /\ Len(text) \in close .. Len(text)
      BY <1>1, <2>5
    <3>2. SubSeq(text, 1, close) \o rest0 = SubSeq(text, 1, Len(text))
      BY <3>1, ConcatAdjacentSubSeq DEF Text
    <3>3. SubSeq(text, 1, Len(text)) = text
      BY SubSeqFull DEF Text
    <3>4. /\ \A l \in 1 .. close : text[l] \in STRING
          /\ \A l \in close + 1 .. Len(text) : text[l] \in STRING
          /\ close \in Int /\ close + 1 \in Int /\ Len(text) \in Int
      BY <1>1, <2>5
    <3>5. SubSeq(text, 1, close) \in Text /\ rest0 \in Text
      BY <3>4, SubSeqProperties DEF Text
    <3>6. QED
      BY <3>2, <3>3, <3>5
  <2>8. QED
    BY <2>6, <2>7 DEF Ending
<1>4. QED
  BY <1>2, <1>3


-----------------------------------------------------------------------------
(* The parser of events.                                                   *)
Lined(q) == IsSeq(q) /\ \A i \in 1 .. Len(q) : q[i].line \in Line

ParserOK(p) == DOMAIN p = {"buf", "data"} /\ Lined(p.buf) /\ p.data \in Seq(Payload)

EventsOK(s) == DOMAIN s = {"data", "out"} /\ s.data \in Seq(Payload) /\ s.out \in Seq(Payload)

\* One line leaves data lines and events that are payloads.
LEMMA LineTaken ==
    ASSUME NEW s, EventsOK(s), NEW line \in Line \cup {[t |-> "blank"]}
    PROVE  EventsOK(take_line(s, line))
<1>1. CASE line.t = "blank"
  <2>1. CASE s.data = <<>>
    BY <1>1, <2>1 DEF take_line
  <2>2. CASE s.data # <<>>
    <3>1. Join(s.data) \in Payload
      <4>1. CASE Len(s.data) = 1
        <5>1. s.data[1] \in Payload
          BY <4>1, ElementOfSeq DEF EventsOK
        <5>2. QED
          BY <4>1, <5>1 DEF Join
      <4>2. CASE Len(s.data) # 1
        BY <4>2 DEF Join, Payload
      <4>3. QED
        BY <4>1, <4>2
    <3>2. <<>> \in Seq(Payload) /\ Append(s.out, Join(s.data)) \in Seq(Payload)
      BY <3>1, EmptySeq, AppendProperties DEF EventsOK
    <3>3. take_line(s, line) = [data |-> <<>>, out |-> Append(s.out, Join(s.data))]
      BY <1>1, <2>2 DEF take_line
    <3>4. QED
      BY <3>2, <3>3 DEF EventsOK
  <2>3. QED
    BY <2>1, <2>2
<1>2. CASE line.t = "data"
  <2>1. line.payload \in Payload
    BY <1>2 DEF Line
  <2>2. Append(s.data, line.payload) \in Seq(Payload)
    BY <2>1, AppendProperties DEF EventsOK
  <2>3. take_line(s, line) = [s EXCEPT !.data = Append(@, line.payload)]
    BY <1>2 DEF take_line
  <2>4. QED
    BY <2>2, <2>3 DEF EventsOK
<1>3. CASE line.t # "blank" /\ line.t # "data"
  BY <1>3 DEF take_line
<1>4. QED
  BY <1>1, <1>2, <1>3

\* The greatest of some positions is one of them.
LEMMA Greatest ==
    ASSUME NEW n \in Nat, NEW T \in SUBSET (1 .. n), T # {}
    PROVE  Max(T) \in T
<1> DEFINE D == {n - i : i \in T}
<1>1. D \in SUBSET Nat
  OBVIOUS
<1>2. PICK j \in D : TRUE
  OBVIOUS
<1>3. PICK m \in D : \A i \in D : m <= i
  <2> HIDE DEF D
  <2>1. QED
    BY <1>1, <1>2, Least
<1>4. PICK k \in T : m = n - k
  BY <1>3
<1>5. \A i \in T : k >= i
  <2>1. TAKE i \in T
  <2>2. n - k <= n - i
    BY <1>3, <1>4
  <2>3. k \in Int /\ i \in Int
    OBVIOUS
  <2>4. QED
    BY <2>2, <2>3
<1>6. QED
  BY <1>4, <1>5 DEF Max

\* Bytes of lines behind bytes of lines.
LEMMA LinedConcat ==
    ASSUME NEW c, Lined(c), NEW d, Lined(d)
    PROVE  Lined(c \o d)
<1> DEFINE e == c \o d
<1>1. /\ IsSeq(e) /\ Len(c) \in Nat /\ Len(d) \in Nat
      /\ Len(e) = Len(c) + Len(d)
      /\ \A i \in 1 .. Len(c) : e[i] = c[i]
      /\ \A i \in 1 .. Len(d) : e[Len(c) + i] = d[i]
  BY SeqConcat, SeqLen DEF Lined
<1> HIDE DEF e
<1>2. ASSUME NEW i \in 1 .. Len(e) PROVE e[i].line \in Line
  <2>1. CASE i <= Len(c)
    BY <1>1, <2>1 DEF Lined
  <2>2. CASE i > Len(c)
    <3>1. i - Len(c) \in 1 .. Len(d) /\ Len(c) + (i - Len(c)) = i
      BY <1>1, <2>2
    <3>2. QED
      BY <1>1, <3>1 DEF Lined
  <2>3. QED
    BY <1>1, <2>1, <2>2
<1>3. Lined(e)
  BY <1>1, <1>2 DEF Lined
<1>4. QED
  BY <1>3 DEF e

\* The bytes of a line, and of the lines of a reply.
LEMMA ReplyLined ==
    ASSUME NEW lines \in Seq(Line)
    PROVE  Lined(FlattenSeq([i \in DOMAIN lines |-> Bytes(lines[i])]))
<1> DEFINE n == Len(lines)
           parts == [i \in DOMAIN lines |-> Bytes(lines[i])]
<1>1. n \in Nat /\ DOMAIN lines = 1 .. n /\ \A i \in 1 .. n : lines[i] \in Line
  BY LenProperties, ElementOfSeq
<1>2. Lined(<<>>)
  BY SeqFew DEF Lined
<1>3. ASSUME NEW line \in Line PROVE Lined(Bytes(line))
  <2> DEFINE x == [line |-> line, part |-> "head"]
             y == [line |-> line, part |-> "tail"]
             z == [line |-> line, part |-> "nl"]
             c == IF line.t = "blank" THEN <<>> ELSE <<x, y>>
  <2>1. Bytes(line) = c \o <<z>>
    BY DEF Bytes
  <2>2. x.line = line /\ y.line = line /\ z.line = line
    OBVIOUS
  <2> HIDE DEF x, y, z
  <2>3. /\ IsSeq(<<x, y>>) /\ Len(<<x, y>>) = 2 /\ <<x, y>>[1] = x /\ <<x, y>>[2] = y
        /\ IsSeq(<<z>>) /\ Len(<<z>>) = 1 /\ <<z>>[1] = z
    BY SeqFew
  <2>4. Lined(<<x, y>>) /\ Lined(<<z>>)
    BY <2>2, <2>3 DEF Lined
  <2>5. Lined(c)
    BY <1>2, <2>4
  <2> HIDE DEF c
  <2>6. QED
    BY <2>1, <2>4, <2>5, LinedConcat
<1>4. parts = [i \in 1 .. n |-> parts[i]] /\ \A i \in 1 .. n : Lined(parts[i])
  BY <1>1, <1>3
<1> HIDE DEF parts
<1>5. IsSeq(parts) /\ Len(parts) = n
  BY <1>1, <1>4, SeqFun
<1>6. \A i \in 1 .. Len(parts) : <<>> \o parts[i] = parts[i]
  BY <1>4, <1>5, ConcatEmptySeq DEF Lined, IsSeq
<1>7. PICK f : /\ f[0] = <<>> /\ FlattenSeq(parts) = f[Len(parts)]
               /\ \A i \in 1 .. Len(parts) : f[i] = f[i - 1] \o parts[i]
  BY <1>5, <1>6, FlattenRun
<1> DEFINE Good == {i \in 0 .. n : Lined(f[i])}
<1>8. 0 \in Good
  BY <1>1, <1>2, <1>7
<1>9. ASSUME NEW i \in 1 .. n, i - 1 \in Good PROVE i \in Good
  <2>1. Lined(f[i - 1]) /\ i \in 0 .. n
    BY <1>1, <1>9
  <2>2. f[i] = f[i - 1] \o parts[i] /\ Lined(parts[i])
    BY <1>4, <1>5, <1>7
  <2>3. Lined(f[i])
    BY <2>1, <2>2, LinedConcat
  <2>4. QED
    BY <2>1, <2>3
<1> HIDE DEF Good
<1>10. n \in Good
  BY <1>1, <1>8, <1>9, RunPreserves
<1>11. Lined(FlattenSeq(parts))
  BY <1>5, <1>7, <1>10 DEF Good
<1>12. QED
  BY <1>11 DEF parts

\* A part of such bytes is such bytes.
LEMMA LinedPart ==
    ASSUME NEW q, Lined(q), NEW m \in Nat
    PROVE  Lined(SubSeq(q, m + 1, Len(q))) /\ (m <= Len(q) => Lined(SubSeq(q, 1, m)))
<1>1. Len(q) \in Nat /\ IsSeq(q)
  BY SeqLen DEF Lined
<1>2. Lined(SubSeq(q, m + 1, Len(q)))
  <2> DEFINE b == SubSeq(q, m + 1, Len(q))
  <2>1. m + 1 \in Nat \ {0} /\ Len(q) <= Len(q)
    BY <1>1
  <2>2. /\ IsSeq(b) /\ Len(b) = IF m + 1 <= Len(q) THEN Len(q) - (m + 1) + 1 ELSE 0
        /\ \A i \in 1 .. Len(q) - (m + 1) + 1 : b[i] = q[(m + 1) + i - 1]
    BY <1>1, <2>1, SeqPart
  <2> HIDE DEF b
  <2>3. ASSUME NEW i \in 1 .. Len(b) PROVE b[i].line \in Line
    <3>1. i \in 1 .. Len(q) - (m + 1) + 1 /\ (m + 1) + i - 1 \in 1 .. Len(q)
      BY <1>1, <2>2
    <3>2. QED
      BY <2>2, <3>1 DEF Lined
  <2>4. Lined(b)
    BY <2>2, <2>3 DEF Lined
  <2>5. QED
    BY <2>4 DEF b
<1>3. ASSUME m <= Len(q) PROVE Lined(SubSeq(q, 1, m))
  <2> DEFINE b == SubSeq(q, 1, m)
  <2>1. 1 \in Nat \ {0}
    OBVIOUS
  <2>2. /\ IsSeq(b) /\ Len(b) = IF 1 <= m THEN m - 1 + 1 ELSE 0
        /\ \A i \in 1 .. m - 1 + 1 : b[i] = q[1 + i - 1]
    BY <1>1, <1>3, <2>1, SeqPart
  <2> HIDE DEF b
  <2>3. ASSUME NEW i \in 1 .. Len(b) PROVE b[i].line \in Line
    <3>1. i \in 1 .. m - 1 + 1 /\ 1 + i - 1 \in 1 .. Len(q) /\ 1 + i - 1 = i
      BY <1>1, <1>3, <2>2
    <3>2. QED
      BY <2>2, <3>1 DEF Lined
  <2>4. Lined(b)
    BY <2>2, <2>3 DEF Lined
  <2>5. QED
    BY <2>4 DEF b
<1>4. QED
  BY <1>2, <1>3

\* Bytes that are pushed leave the parser with the bytes of lines, and give payloads.
LEMMA Pushed ==
    ASSUME NEW p, ParserOK(p), NEW bytes, Lined(bytes)
    PROVE  ParserOK(push(p, bytes).parser) /\ push(p, bytes).events \in Seq(Payload)
<1> DEFINE buf  == p.buf \o bytes
           n    == Len(buf)
           ends == {i \in DOMAIN buf : buf[i].part = "nl"}
           last == IF ends = {} THEN 0 ELSE Max(ends)
           base == [data |-> p.data, out |-> <<>>]
           R(g) == g = [i \in 0 .. n |-> IF i = 0 THEN base
                                         ELSE IF buf[i].part = "nl" THEN take_line(g[i - 1], buf[i].line)
                                         ELSE g[i - 1]]
           h    == CHOOSE g : R(g)
           b    == SubSeq(buf, last + 1, n)
<1>1. /\ push(p, bytes).parser = [buf |-> b, data |-> h[n].data]
      /\ push(p, bytes).events = h[n].out
  BY DEF push, Folded
<1> HIDE DEF buf
<1>2. Lined(buf)
  BY LinedConcat DEF ParserOK, buf
<1>3. n \in Nat /\ DOMAIN buf = 1 .. n
  BY <1>2, SeqLen DEF Lined
<1>4. R(h)
  <2>1. PICK f : IsRun(Bytewise, f, base, buf, n)
    BY <1>3, RunExists
  <2>2. \A x, y : Step(Bytewise, x, y) = IF y.part = "nl" THEN take_line(x, y.line) ELSE x
    BY DEF Step, Bytewise, TakeByte
  <2> HIDE DEF base
  <2>3. R(f)
    BY <2>1, <2>2 DEF IsRun
  <2> HIDE DEF R
  <2>4. QED
    BY <2>3
<1>5. h[0] = base /\ \A i \in 1 .. n : h[i] = IF buf[i].part = "nl" THEN take_line(h[i - 1], buf[i].line)
                                             ELSE h[i - 1]
  <2>1. 0 \in 0 .. n /\ \A i \in 1 .. n : i \in 0 .. n /\ i # 0
    BY <1>3
  <2> HIDE DEF h, base
  <2>2. QED
    BY <1>4, <2>1
<1> HIDE DEF R, h
<1>6. EventsOK(h[n])
  <2> DEFINE Good == {i \in 0 .. n : EventsOK(h[i])}
  <2>1. 0 \in Good
    <3>1. EventsOK(base)
      BY EmptySeq DEF ParserOK, EventsOK
    <3>2. EventsOK(h[0]) /\ 0 \in 0 .. n
      BY <1>3, <1>5, <3>1
    <3>3. QED
      BY <3>2
  <2>2. ASSUME NEW i \in 1 .. n, i - 1 \in Good PROVE i \in Good
    <3>1. EventsOK(h[i - 1]) /\ i \in 0 .. n /\ buf[i].line \in Line
      BY <1>2, <1>3, <2>2 DEF Lined
    <3>2. EventsOK(take_line(h[i - 1], buf[i].line))
      BY <3>1, LineTaken
    <3>3. EventsOK(h[i])
      BY <1>5, <3>1, <3>2
    <3>4. QED
      BY <3>1, <3>3
  <2> HIDE DEF Good
  <2>3. n \in Good
    BY <1>3, <2>1, <2>2, RunPreserves
  <2>4. QED
    BY <2>3 DEF Good
<1>7. Lined(b)
  <2>1. last \in Nat
    <3>1. ends \in SUBSET (1 .. n)
      BY <1>3
    <3> HIDE DEF ends
    <3>2. ends # {} => Max(ends) \in ends
      BY <1>3, <3>1, Greatest
    <3>3. CASE ends = {}
      BY <3>3
    <3>4. CASE ends # {}
      <4>1. Max(ends) \in 1 .. n
        BY <3>1, <3>2, <3>4
      <4>2. QED
        BY <1>3, <3>4, <4>1
    <3>5. QED
      BY <3>3, <3>4
  <2> HIDE DEF last
  <2>2. Lined(SubSeq(buf, last + 1, n))
    BY <1>2, <1>3, <2>1, LinedPart
  <2>3. QED
    BY <2>2
<1>8. QED
  BY <1>1, <1>6, <1>7 DEF ParserOK, EventsOK

\* What the end of the body makes an event of is a payload.
LEMMA Finished ==
    ASSUME NEW p, NEW behindPrefix, ParserOK(p)
    PROVE  sse_finish(p, behindPrefix) \in Seq(Payload)
<1> DEFINE base == [data |-> p.data, out |-> <<>>]
           r == IF p.buf = <<>> THEN base ELSE take_line(base, CutLine(p.buf, behindPrefix))
<1>1. EventsOK(base)
  BY EmptySeq DEF ParserOK, EventsOK
<1>2. p.buf # <<>> => CutLine(p.buf, behindPrefix) \in Line
  <2>1. HAVE p.buf # <<>>
  <2>2. Len(p.buf) \in Nat /\ Len(p.buf) # 0
    BY <2>1, SeqLen, EmptySeq DEF ParserOK, Lined, IsSeq
  <2>3. p.buf[1].line \in Line
    BY <2>2 DEF ParserOK, Lined
  <2>4. [t |-> "data", payload |-> [t |-> "bad"]] \in Line /\ [t |-> "comment"] \in Line
    BY DEF Line, Payload
  <2>5. QED
    BY <2>3, <2>4 DEF CutLine
<1> HIDE DEF base
<1>3. EventsOK(r)
  BY <1>1, <1>2, LineTaken
<1>4. EventsOK(take_line(r, [t |-> "blank"]))
  <2> HIDE DEF r
  <2>1. QED
    BY <1>3, LineTaken
<1>5. QED
  BY <1>4 DEF sse_finish, EventsOK, r, base

-----------------------------------------------------------------------------
(* The accumulator.                                                        *)
Quiet(c) == Worded(c) /\ \A i \in 1 .. Len(c) : c[i].t # "complete"

AccFields == {"field", "next", "block", "open", "said", "signature", "tools", "last", "usage",
              "finish", "chunks", "out"}

ToolOK(t) == DOMAIN t = {"block", "id", "name", "args", "emitted"} /\ t.block \in Int

ToolsOK(tools) ==
  /\ IsFiniteSet(DOMAIN tools) /\ DOMAIN tools \subseteq Int
  /\ \A k \in DOMAIN tools : ToolOK(tools[k])

AccOK(s) ==
  /\ DOMAIN s = AccFields
  /\ s.next \in Int /\ s.last \in Int
  /\ s.block \in [Kinds -> Int] /\ s.said \in [Kinds -> Text]
  /\ ToolsOK(s.tools) /\ Quiet(s.out)

(* What r has said more than s, in its deltas as in what it has kept.      *)
Gains(s, r, x) ==
  /\ AccOK(r) /\ TextOf(r.out) = TextOf(s.out) \o x /\ r.said["text"] = s.said["text"] \o x

\* Deltas one behind the other.
LEMMA QuietConcat ==
    ASSUME NEW c, Quiet(c), NEW d, Quiet(d)
    PROVE  Quiet(c \o d) /\ TextOf(c \o d) = TextOf(c) \o TextOf(d)
<1>1. Worded(c \o d) /\ TextOf(c \o d) = TextOf(c) \o TextOf(d)
  BY TextConcat DEF Quiet
<1>2. /\ Len(c \o d) = Len(c) + Len(d) /\ Len(c) \in Nat /\ Len(d) \in Nat
      /\ \A i \in 1 .. Len(c) : (c \o d)[i] = c[i]
      /\ \A i \in 1 .. Len(d) : (c \o d)[Len(c) + i] = d[i]
  BY SeqConcat, SeqLen DEF Quiet, Worded
<1>3. ASSUME NEW i \in 1 .. Len(c \o d) PROVE (c \o d)[i].t # "complete"
  <2>1. CASE i <= Len(c)
    BY <1>2, <2>1 DEF Quiet
  <2>2. CASE i > Len(c)
    <3>1. i - Len(c) \in 1 .. Len(d) /\ Len(c) + (i - Len(c)) = i
      BY <1>2, <2>2
    <3>2. QED
      BY <1>2, <3>1 DEF Quiet
  <2>3. QED
    BY <1>2, <2>1, <2>2
<1>4. QED
  BY <1>1, <1>3 DEF Quiet

\* No delta, one that says something, and one that says nothing.
LEMMA QuietFew ==
    /\ Quiet(<<>>) /\ TextOf(<<>>) = <<>>
    /\ \A x : Part(x) \in Text /\ x.t # "complete" => Quiet(<<x>>) /\ TextOf(<<x>>) = Part(x)
<1>1. Quiet(<<>>)
  BY TextFew, SeqFew DEF Quiet
<1>2. ASSUME NEW x, Part(x) \in Text, x.t # "complete" PROVE Quiet(<<x>>) /\ TextOf(<<x>>) = Part(x)
  <2>1. Worded(<<x>>) /\ TextOf(<<x>>) = Part(x) /\ Len(<<x>>) = 1 /\ <<x>>[1] = x
    BY <1>2, TextFew, SeqFew
  <2>2. QED
    BY <1>2, <2>1 DEF Quiet
<1>3. QED
  BY <1>1, <1>2, TextFew

\* A delta more.
LEMMA QuietAppend ==
    ASSUME NEW c, Quiet(c), NEW x, Part(x) \in Text, x.t # "complete"
    PROVE  Quiet(Append(c, x)) /\ TextOf(Append(c, x)) = TextOf(c) \o Part(x)
<1>1. Quiet(<<x>>) /\ TextOf(<<x>>) = Part(x)
  BY QuietFew
<1>2. Append(c, x) = c \o <<x>>
  BY SeqAppend DEF Quiet, Worded
<1>3. QED
  BY <1>1, <1>2, QuietConcat

\* The end of a block says nothing.
LEMMA StopSays ==
    ASSUME NEW i
    PROVE  Part(BlockStop(i)) = <<>> /\ Part(BlockStop(i)) \in Text /\ BlockStop(i).t # "complete"
  BY TextLaws DEF Part, BlockStop

\* What is gained is gained one after the other.
LEMMA GainsTrans ==
    ASSUME NEW s, AccOK(s), NEW r, NEW q, NEW x \in Text, NEW y \in Text, Gains(s, r, x), Gains(r, q, y)
    PROVE  Gains(s, q, x \o y)
<1>1. TextOf(s.out) \in Text /\ s.said["text"] \in Text
  BY TextTyped DEF AccOK, Quiet, Kinds
<1> DEFINE a == TextOf(s.out)
           b == s.said["text"]
<1>2. /\ TextOf(r.out) = a \o x /\ r.said["text"] = b \o x
      /\ TextOf(q.out) = TextOf(r.out) \o y /\ q.said["text"] = r.said["text"] \o y /\ AccOK(q)
  BY DEF Gains
<1>3. a \in Text /\ b \in Text
  BY <1>1
<1> HIDE DEF a, b
<1>4. (a \o x) \o y = a \o (x \o y) /\ (b \o x) \o y = b \o (x \o y)
  BY <1>3, TextLaws
<1>5. TextOf(q.out) = a \o (x \o y) /\ q.said["text"] = b \o (x \o y) /\ AccOK(q)
  BY <1>2, <1>4
<1>6. QED
  BY <1>5 DEF Gains, a, b

\* Nothing is gained by what leaves the deltas and the text alone.
LEMMA GainsNothing ==
    ASSUME NEW s, AccOK(s), NEW r, AccOK(r), r.out = s.out, r.said = s.said
    PROVE  Gains(s, r, <<>>)
<1>1. TextOf(s.out) \in Text /\ s.said["text"] \in Text
  BY TextTyped DEF AccOK, Quiet, Kinds
<1>2. TextOf(s.out) \o <<>> = TextOf(s.out) /\ s.said["text"] \o <<>> = s.said["text"]
  BY <1>1, TextLaws
<1>3. QED
  BY <1>2 DEF Gains

\* The open block is closed: nothing is said.
LEMMA Closed ==
    ASSUME NEW s, AccOK(s)
    PROVE  LET r == close_open_stream_block(s)
           IN  /\ AccOK(r) /\ TextOf(r.out) = TextOf(s.out)
               /\ r.said = s.said /\ r.next = s.next /\ r.block = s.block /\ r.tools = s.tools
<1> DEFINE r == close_open_stream_block(s)
<1>1. CASE s.open = None
  BY <1>1 DEF close_open_stream_block
<1>2. CASE s.open # None
  <2>1. r = [s EXCEPT !.out = Append(@, BlockStop(s.open)), !.open = None]
    BY <1>2 DEF close_open_stream_block
  <2> DEFINE o == Append(s.out, BlockStop(s.open))
  <2>2. Quiet(o) /\ TextOf(o) = TextOf(s.out) \o <<>>
    BY StopSays, QuietAppend DEF AccOK
  <2>3. TextOf(s.out) \o <<>> = TextOf(s.out)
    BY TextTyped, TextLaws DEF AccOK, Quiet
  <2> HIDE DEF o
  <2>4. /\ DOMAIN r = DOMAIN s /\ r.out = o /\ r.said = s.said /\ r.next = s.next /\ r.block = s.block
        /\ r.tools = s.tools /\ r.last = s.last
    BY <2>1 DEF AccOK, AccFields, o
  <2> HIDE DEF r
  <2>5. QED
    BY <2>2, <2>3, <2>4 DEF AccOK, r
<1>3. QED
  BY <1>1, <1>2

\* A block is opened: nothing is said.
LEMMA Started ==
    ASSUME NEW s, AccOK(s), NEW kind \in Kinds
    PROVE  Gains(s, start(s, kind), <<>>)
<1> DEFINE c == close_open_stream_block(s)
           r == start(s, kind)
<1>1. /\ AccOK(c) /\ TextOf(c.out) = TextOf(s.out)
      /\ c.said = s.said /\ c.next = s.next /\ c.block = s.block /\ c.tools = s.tools
  BY Closed
<1>2. TextOf(s.out) \o <<>> = TextOf(s.out) /\ s.said["text"] \o <<>> = s.said["text"]
  <2>1. TextOf(s.out) \in Text /\ s.said["text"] \in Text
    BY TextTyped DEF AccOK, Quiet, Kinds
  <2>2. QED
    BY <2>1, TextLaws
<1>3. s.block[kind] \in Int /\ s.next \in Int
  BY DEF AccOK
<1> HIDE DEF c
<1>4. AccOK(r) /\ (r = s \/ (r.out = c.out /\ r.said = c.said))
  <2>1. CASE s.block[kind] = None
    <3>1. r = [c EXCEPT !.block[kind] = s.next, !.open = s.next, !.next = @ + 1]
      BY <2>1 DEF start, c
    <3>2. /\ DOMAIN r = DOMAIN c /\ r.out = c.out /\ r.said = c.said /\ r.next = c.next + 1
          /\ r.block = [c.block EXCEPT ![kind] = s.next] /\ r.tools = c.tools /\ r.last = c.last
      BY <1>1, <3>1 DEF AccOK, AccFields
    <3>3. r.block \in [Kinds -> Int] /\ r.next \in Int
      BY <1>1, <1>3, <3>2 DEF AccOK
    <3> HIDE DEF r
    <3>4. QED
      BY <1>1, <3>2, <3>3 DEF AccOK
  <2>2. CASE s.block[kind] # None /\ s.open = s.block[kind]
    BY <2>2 DEF start
  <2>3. CASE s.block[kind] # None /\ s.open # s.block[kind]
    <3>1. r = [c EXCEPT !.open = s.block[kind]]
      BY <2>3 DEF start, c
    <3>2. /\ DOMAIN r = DOMAIN c /\ r.out = c.out /\ r.said = c.said /\ r.next = c.next
          /\ r.block = c.block /\ r.tools = c.tools /\ r.last = c.last
      BY <1>1, <3>1 DEF AccOK, AccFields
    <3> HIDE DEF r
    <3>3. QED
      BY <1>1, <3>2 DEF AccOK
  <2>4. QED
    BY <2>1, <2>2, <2>3
<1>5. QED
  BY <1>1, <1>2, <1>4 DEF Gains

(* What a piece of this kind says to the user.                             *)
Told(kind, pieces) == IF kind = "text" THEN pieces ELSE <<>>

\* A piece is said in a delta as it is kept.
LEMMA PiecesTaken ==
    ASSUME NEW s, AccOK(s), NEW kind \in Kinds, NEW pieces \in Text
    PROVE  Gains(s, take_pieces(s, kind, pieces), Told(kind, pieces))
<1>1. CASE pieces = <<>>
  <2>1. take_pieces(s, kind, pieces) = s
    BY <1>1 DEF take_pieces
  <2>2. Told(kind, pieces) = <<>>
    BY <1>1 DEF Told
  <2>3. QED
    BY <2>1, <2>2, GainsNothing
<1>2. CASE pieces # <<>>
  <2> DEFINE r == start(s, kind)
             d == [t |-> kind, index |-> r.block[kind], text |-> pieces]
             q == take_pieces(s, kind, pieces)
             x == Told(kind, pieces)
  <2>1. Gains(s, r, <<>>)
    BY Started
  <2>2. q = [r EXCEPT !.said[kind] = @ \o pieces, !.out = Append(@, d)]
    BY <1>2 DEF take_pieces
  <2>3. x \in Text /\ <<>> \o x = x
    BY TextLaws DEF Told
  <2>4. Part(d) = x /\ d.t # "complete"
    BY DEF Part, Told, Kinds
  <2> HIDE DEF r, d
  <2>5. AccOK(r)
    BY <2>1 DEF Gains
  <2>6. /\ DOMAIN q = DOMAIN r /\ q.out = Append(r.out, d) /\ q.next = r.next
        /\ q.said = [r.said EXCEPT ![kind] = @ \o pieces]
        /\ q.block = r.block /\ q.tools = r.tools /\ q.last = r.last
    BY <2>2, <2>5 DEF AccOK, AccFields
  <2> HIDE DEF q, x
  <2>7. Quiet(q.out) /\ TextOf(q.out) = TextOf(r.out) \o x
    <3>1. Quiet(r.out)
      BY <2>5 DEF AccOK
    <3>2. Part(d) \in Text /\ d.t # "complete" /\ Part(d) = x /\ q.out = Append(r.out, d)
      BY <2>3, <2>4, <2>6
    <3>3. Quiet(Append(r.out, d)) /\ TextOf(Append(r.out, d)) = TextOf(r.out) \o Part(d)
      BY <3>1, <3>2, QuietAppend
    <3>4. QED
      BY <3>2, <3>3
  <2>8. r.said[kind] \o pieces \in Text /\ r.said["text"] \in Text
    <3>1. r.said[kind] \in Text /\ r.said["text"] \in Text
      BY <2>5 DEF AccOK, Kinds
    <3>2. QED
      BY <3>1, TextLaws
  <2>9. q.said \in [Kinds -> Text]
    BY <2>5, <2>6, <2>8 DEF AccOK
  <2>10. q.said["text"] = r.said["text"] \o x
    <3>1. CASE kind = "text"
      BY <2>5, <2>6, <3>1 DEF AccOK, Told, x
    <3>2. CASE kind # "text"
      <4>1. q.said["text"] = r.said["text"] /\ x = <<>>
        BY <2>5, <2>6, <3>2 DEF AccOK, Kinds, Told, x
      <4>2. QED
        BY <2>8, <4>1, TextLaws
    <3>3. QED
      BY <3>1, <3>2
  <2>11. AccOK(q)
    BY <2>5, <2>6, <2>7, <2>9 DEF AccOK
  <2>12. Gains(r, q, x)
    BY <2>7, <2>10, <2>11 DEF Gains
  <2>13. Gains(s, q, <<>> \o x)
    BY <2>1, <2>3, <2>12, TextLaws, GainsTrans
  <2>14. QED
    BY <2>3, <2>13 DEF q, x
<1>3. QED
  BY <1>1, <1>2

\* Reasoning is not text.
LEMMA ReasoningTaken ==
    ASSUME NEW s, AccOK(s), NEW ch \in Payload, ch.t = "chunk"
    PROVE  Gains(s, take_reasoning(s, ch), <<>>)
<1> DEFINE r == IF s.field = ch.field THEN take_pieces(s, "thinking", ch.thinking) ELSE s
           q == [r EXCEPT !.signature = @ \/ ch.signature]
<1>1. take_reasoning(s, ch) = q
  BY DEF take_reasoning
<1>2. Gains(s, r, <<>>)
  <2>1. CASE s.field = ch.field
    <3>1. ch.thinking \in Text /\ "thinking" \in Kinds /\ Told("thinking", ch.thinking) = <<>>
      BY DEF Payload, Kinds, Told
    <3>2. QED
      BY <2>1, <3>1, PiecesTaken
  <2>2. CASE s.field # ch.field
    BY <2>2, GainsNothing
  <2>3. QED
    BY <2>1, <2>2
<1> HIDE DEF r
<1>3. AccOK(r)
  BY <1>2 DEF Gains
<1>4. /\ DOMAIN q = DOMAIN r /\ q.out = r.out /\ q.next = r.next /\ q.said = r.said
      /\ q.block = r.block /\ q.tools = r.tools /\ q.last = r.last
  BY <1>3 DEF AccOK, AccFields
<1> HIDE DEF q
<1>5. AccOK(q)
  BY <1>3, <1>4 DEF AccOK
<1>6. Gains(r, q, <<>>)
  BY <1>3, <1>4, <1>5, GainsNothing
<1>7. Gains(s, q, <<>> \o <<>>)
  BY <1>2, <1>6, TextLaws, GainsTrans
<1>8. QED
  BY <1>1, <1>7, TextLaws

\* A call is put at its slot.
LEMMA ToolPut ==
    ASSUME NEW tools, ToolsOK(tools), NEW k \in Int, NEW t, ToolOK(t)
    PROVE  ToolsOK(Put(tools, k, t))
<1> DEFINE D == DOMAIN tools
           f == Put(tools, k, t)
<1>1. f = [x \in D \cup {k} |-> IF x = k THEN t ELSE tools[x]]
  BY DEF Put
<1>2. IsFiniteSet(D) /\ D \subseteq Int /\ \A x \in D : ToolOK(tools[x])
  BY DEF ToolsOK
<1> HIDE DEF D, f
<1>3. IsFiniteSet(D \cup {k})
  BY <1>2, FS_AddElement
<1>4. DOMAIN f = D \cup {k}
  BY <1>1
<1>5. \A x \in D \cup {k} : ToolOK(f[x])
  BY <1>1, <1>2
<1>6. ToolsOK(f)
  BY <1>2, <1>3, <1>4, <1>5 DEF ToolsOK
<1>7. QED
  BY <1>6 DEF f

\* A fragment has a slot.
LEMMA Slotted ==
    ASSUME NEW s, AccOK(s), NEW c \in Fragment, NEW pos \in Int
    PROVE  SlotOf(s, c, pos) \in Int
<1>1. c.index \in Int
  BY DEF Fragment, None
<1>2. s.last \in Int
  BY DEF AccOK
<1>3. Max({Cardinality(DOMAIN s.tools), pos}) \in Int
  <2>1. Cardinality(DOMAIN s.tools) \in Int
    BY FS_CardinalityType DEF AccOK, ToolsOK
  <2> DEFINE a == Cardinality(DOMAIN s.tools)
             S == {a, pos}
  <2>2. a \in Int
    BY <2>1
  <2> HIDE DEF a
  <2>3. \E x \in S : \A y \in S : x >= y
    BY <2>2
  <2>4. Max(S) \in S
    BY <2>3 DEF Max
  <2>5. QED
    BY <2>2, <2>4 DEF a
<1> DEFINE m == Max({Cardinality(DOMAIN s.tools), pos})
<1>4. SlotOf(s, c, pos) = IF c.index # None THEN c.index ELSE IF c.id # Empty THEN m
                          ELSE IF s.last # None THEN s.last ELSE 0
  BY DEF SlotOf
<1>5. m \in Int
  BY <1>3
<1> HIDE DEF m
<1>6. QED
  BY <1>1, <1>2, <1>4, <1>5

\* A fragment of a call is not text.
LEMMA CallTaken ==
    ASSUME NEW s, AccOK(s), NEW c \in Fragment, NEW pos \in Int
    PROVE  Gains(s, take_tool_call(s, c, pos), <<>>)
<1> DEFINE k     == SlotOf(s, c, pos)
           old   == IF k \in DOMAIN s.tools THEN s.tools[k] ELSE ToolAcc
           fed   == [old EXCEPT !.id = IF c.id # Empty THEN c.id ELSE @,
                                !.name = IF c.name # Empty THEN c.name ELSE @,
                                !.args = IF c.whole THEN c.args ELSE @ \o c.args,
                                !.emitted = IF c.whole THEN 0 ELSE @]
           fresh == fed.block = None /\ fed.name # Empty
           e     == IF fresh THEN [fed EXCEPT !.block = s.next] ELSE fed
           news  == e.block # None /\ Len(e.args) > e.emitted
           t     == IF news THEN [e EXCEPT !.emitted = Len(e.args)] ELSE e
           new   == [t |-> "tool", index |-> e.block, id |-> e.id, name |-> e.name]
           more  == [t |-> "input", index |-> e.block, text |-> SubSeq(e.args, e.emitted + 1, Len(e.args))]
           o1    == IF fresh THEN <<new>> ELSE <<>>
           o2    == IF news THEN <<more>> ELSE <<>>
           r     == [s EXCEPT !.last = k, !.next = IF fresh THEN @ + 1 ELSE @,
                              !.tools = Put(@, k, t), !.out = @ \o o1 \o o2]
<1>1. take_tool_call(s, c, pos) = r
  BY DEF take_tool_call
<1>2. k \in Int
  BY Slotted
<1>3. Part(new) = <<>> /\ new.t # "complete" /\ Part(more) = <<>> /\ more.t # "complete"
  BY DEF Part
<1>4. ToolOK(ToolAcc)
  BY DEF ToolOK, ToolAcc, None
<1> HIDE DEF k
<1>5. ToolOK(old)
  BY <1>4 DEF AccOK, ToolsOK
<1> HIDE DEF old
<1>6. ToolOK(fed)
  BY <1>5 DEF ToolOK
<1> HIDE DEF fed
<1>7. ToolOK(e)
  <2>1. s.next \in Int
    BY DEF AccOK
  <2>2. QED
    BY <1>6, <2>1 DEF ToolOK
<1> HIDE DEF e, fresh
<1>8. ToolOK(t)
  BY <1>7 DEF ToolOK
<1> HIDE DEF t, news, new, more
<1>9. Quiet(o1) /\ TextOf(o1) = <<>> /\ Quiet(o2) /\ TextOf(o2) = <<>>
  BY <1>3, QuietFew, TextLaws
<1>10. ToolsOK(Put(s.tools, k, t))
  BY <1>2, <1>8, ToolPut DEF AccOK
<1> DEFINE tools == Put(s.tools, k, t)
           o == (s.out \o o1) \o o2
<1> HIDE DEF o1, o2
<1>11. Quiet(o) /\ TextOf(o) = TextOf(s.out) \o <<>>
  <2>1. Quiet(s.out)
    BY DEF AccOK
  <2>2. Quiet(s.out \o o1) /\ TextOf(s.out \o o1) = TextOf(s.out) \o <<>>
    BY <1>9, <2>1, QuietConcat
  <2>3. TextOf(s.out) \in Text
    BY <2>1, TextTyped DEF Quiet
  <2>4. TextOf(s.out) \o <<>> = TextOf(s.out)
    BY <2>3, TextLaws
  <2>5. Quiet(o) /\ TextOf(o) = TextOf(s.out \o o1) \o <<>>
    BY <1>9, <2>2, QuietConcat
  <2>6. QED
    BY <2>2, <2>4, <2>5
<1>12. r = [s EXCEPT !.last = k, !.next = IF fresh THEN @ + 1 ELSE @, !.tools = tools, !.out = o]
  OBVIOUS
<1> HIDE DEF o, tools, r
<1>13. /\ DOMAIN r = DOMAIN s /\ r.last = k /\ r.next = (IF fresh THEN s.next + 1 ELSE s.next)
       /\ r.tools = tools /\ r.out = o /\ r.said = s.said /\ r.block = s.block
  BY <1>12 DEF AccOK, AccFields
<1>14. AccOK(r)
  <2>1. ToolsOK(r.tools) /\ Quiet(r.out) /\ r.last \in Int
    BY <1>2, <1>10, <1>11, <1>13 DEF tools
  <2>2. r.next \in Int
    BY <1>13 DEF AccOK
  <2>3. QED
    BY <1>13, <2>1, <2>2 DEF AccOK
<1>15. s.said["text"] \o <<>> = s.said["text"]
  <2>1. s.said["text"] \in Text
    BY DEF AccOK, Kinds
  <2>2. QED
    BY <2>1, TextLaws
<1>16. Gains(s, r, <<>>)
  BY <1>11, <1>13, <1>14, <1>15 DEF Gains
<1>17. QED
  BY <1>1, <1>16

\* Neither are all of them.
LEMMA CallsTaken ==
    ASSUME NEW s, AccOK(s), NEW ch \in Payload, ch.t = "chunk"
    PROVE  Gains(s, take_tool_calls(s, ch), <<>>)
<1> DEFINE c == ch.calls
           n == Len(c)
           idx == [i \in DOMAIN c |-> i]
           R(g) == g = [i \in 0 .. Len(idx) |-> IF i = 0 THEN s
                                                ELSE take_tool_call(g[i - 1], c[idx[i]], idx[i] - 1)]
           h == CHOOSE g : R(g)
<1>1. take_tool_calls(s, ch) = h[Len(idx)]
  BY DEF take_tool_calls, Folded
<1>2. c \in Seq(Fragment)
  BY DEF Payload
<1> HIDE DEF c
<1>3. n \in Nat /\ DOMAIN c = 1 .. n /\ \A i \in 1 .. n : c[i] \in Fragment
  BY <1>2, LenProperties, ElementOfSeq
<1>4. idx = [i \in 1 .. n |-> idx[i]] /\ \A i \in 1 .. n : idx[i] = i
  BY <1>3
<1> HIDE DEF idx
<1>5. Len(idx) = n
  BY <1>3, <1>4, SeqFun
<1>6. R(h)
  <2>1. PICK f : IsRun(Fragments(c), f, s, idx, Len(idx))
    BY <1>3, <1>5, RunExists
  <2>2. \A x, y : Step(Fragments(c), x, y) = take_tool_call(x, c[y], y - 1)
    BY DEF Step, Fragments
  <2>3. R(f)
    BY <2>1, <2>2 DEF IsRun
  <2> HIDE DEF R
  <2>4. QED
    BY <2>3
<1> HIDE DEF h
<1>7. h[0] = s /\ \A i \in 1 .. n : h[i] = take_tool_call(h[i - 1], c[i], i - 1)
  <2>1. 0 \in 0 .. n /\ \A i \in 1 .. n : i \in 0 .. n /\ i # 0
    BY <1>3
  <2>2. QED
    BY <1>4, <1>5, <1>6, <2>1
<1> HIDE DEF R
<1> DEFINE Good == {i \in 0 .. n : Gains(s, h[i], <<>>)}
<1>8. 0 \in Good
  <2>1. Gains(s, s, <<>>)
    BY GainsNothing
  <2>2. QED
    BY <1>3, <1>7, <2>1
<1>9. ASSUME NEW i \in 1 .. n, i - 1 \in Good PROVE i \in Good
  <2>1. Gains(s, h[i - 1], <<>>) /\ i \in 0 .. n /\ i - 1 \in Int
    BY <1>3, <1>9
  <2>2. AccOK(h[i - 1]) /\ c[i] \in Fragment
    BY <1>3, <2>1 DEF Gains
  <2>3. Gains(h[i - 1], take_tool_call(h[i - 1], c[i], i - 1), <<>>)
    BY <2>1, <2>2, CallTaken
  <2>4. Gains(h[i - 1], h[i], <<>>)
    BY <1>7, <2>3
  <2>5. Gains(s, h[i], <<>> \o <<>>)
    BY <2>1, <2>4, TextLaws, GainsTrans
  <2>6. Gains(s, h[i], <<>>)
    BY <2>5, TextLaws
  <2>7. QED
    BY <2>1, <2>6
<1> HIDE DEF Good
<1>10. n \in Good
  BY <1>3, <1>8, <1>9, RunPreserves
<1>11. QED
  BY <1>1, <1>5, <1>10 DEF Good

\* A chunk is said in its deltas as it is kept.
LEMMA ChunkPushed ==
    ASSUME NEW s, AccOK(s), NEW ch \in Payload, ch.t = "chunk"
    PROVE  LET r == push_chunk(s, ch)
           IN  AccOK(r) /\ r.said["text"] = s.said["text"] \o TextOf(r.out)
<1> DEFINE s0 == [s EXCEPT !.out = <<>>]
           s1 == take_reasoning(s0, ch)
           s2 == take_pieces(s1, "text", ch.text)
           s3 == take_tool_calls(s2, ch)
           r  == [s3 EXCEPT !.chunks = @ + 1, !.usage = @ \/ ch.usage,
                            !.finish = IF ch.finish # Empty THEN ch.finish ELSE @]
           x  == ch.text
<1>1. push_chunk(s, ch) = r
  BY DEF push_chunk
<1>2. AccOK(s0) /\ TextOf(s0.out) = <<>> /\ s0.said = s.said
  <2>1. DOMAIN s0 = DOMAIN s /\ s0.out = <<>> /\ s0.said = s.said /\ s0.next = s.next
        /\ s0.block = s.block /\ s0.tools = s.tools /\ s0.last = s.last
    BY DEF AccOK, AccFields
  <2> HIDE DEF s0
  <2>2. QED
    BY <2>1, QuietFew DEF AccOK
<1>3. x \in Text /\ <<>> \in Text /\ <<>> \o x = x /\ x \o <<>> = x /\ "text" \in Kinds
  <2>1. x \in Text
    BY DEF Payload
  <2>2. QED
    BY <2>1, TextLaws DEF Kinds
<1> HIDE DEF s0
<1>4. Gains(s0, s1, <<>>)
  BY <1>2, ReasoningTaken
<1> HIDE DEF s1
<1>5. Gains(s1, s2, x)
  <2>1. AccOK(s1)
    BY <1>4 DEF Gains
  <2>2. Gains(s1, s2, Told("text", ch.text))
    BY <1>3, <2>1, PiecesTaken
  <2>3. QED
    BY <2>2 DEF Told
<1> HIDE DEF s2
<1>6. Gains(s2, s3, <<>>)
  <2>1. AccOK(s2)
    BY <1>5 DEF Gains
  <2>2. QED
    BY <2>1, CallsTaken
<1> HIDE DEF s3, x
<1>7. Gains(s0, s3, x)
  <2>1. Gains(s0, s2, <<>> \o x)
    BY <1>2, <1>3, <1>4, <1>5, GainsTrans
  <2>2. Gains(s0, s2, x)
    BY <1>3, <2>1
  <2>3. Gains(s0, s3, x \o <<>>)
    BY <1>2, <1>3, <1>6, <2>2, GainsTrans
  <2>4. QED
    BY <1>3, <2>3
<1>8. AccOK(s3) /\ TextOf(s3.out) = x /\ s3.said["text"] = s.said["text"] \o x
  BY <1>2, <1>3, <1>7 DEF Gains
<1>9. /\ DOMAIN r = DOMAIN s3 /\ r.out = s3.out /\ r.next = s3.next /\ r.said = s3.said
      /\ r.block = s3.block /\ r.tools = s3.tools /\ r.last = s3.last
  BY <1>8 DEF AccOK, AccFields
<1> HIDE DEF r
<1>10. AccOK(r) /\ r.said["text"] = s.said["text"] \o TextOf(r.out)
  BY <1>8, <1>9 DEF AccOK
<1>11. QED
  BY <1>1, <1>10

\* The text of a response: the blocks but one have none.
LEMMA BlocksText ==
    ASSUME NEW A, IsSeq(A), NEW B, IsSeq(B), NEW C, IsSeq(C), NEW T \in Text,
           \A i \in 1 .. Len(A) : A[i].slot \in Int /\ Part(A[i].block) = <<>>,
           \A i \in 1 .. Len(C) : C[i].slot \in Int /\ Part(C[i].block) = <<>>,
           \/ B = <<>> /\ T = <<>>
           \/ Len(B) = 1 /\ B[1].slot \in Int /\ Part(B[1].block) = T
    PROVE  TextOf(SortBySlot(A \o B \o C)) = T
<1> DEFINE a == Len(A)
           m == Len(B)
           n == Len(C)
           b == (A \o B) \o C
<1>1. a \in Nat /\ m \in {0, 1} /\ n \in Nat
  BY SeqLen, SeqFew
<1>2. /\ IsSeq(b) /\ Len(b) = a + m + n
      /\ \A i \in 1 .. a : b[i] = A[i]
      /\ \A i \in 1 .. m : b[a + i] = B[i]
      /\ \A i \in 1 .. n : b[a + m + i] = C[i]
  <2> DEFINE ab == A \o B
  <2>1. /\ IsSeq(ab) /\ Len(ab) = a + m
        /\ \A i \in 1 .. a : ab[i] = A[i]
        /\ \A i \in 1 .. m : ab[a + i] = B[i]
    BY SeqConcat
  <2> HIDE DEF ab, a, m, n
  <2>2. /\ IsSeq(ab \o C) /\ Len(ab \o C) = a + m + n
        /\ \A i \in 1 .. a + m : (ab \o C)[i] = ab[i]
        /\ \A i \in 1 .. n : (ab \o C)[a + m + i] = C[i]
    <3>1. IsSeq(ab)
      BY <2>1
    <3>2. /\ IsSeq(ab \o C) /\ Len(ab \o C) = Len(ab) + Len(C)
          /\ \A i \in 1 .. Len(ab) : (ab \o C)[i] = ab[i]
          /\ \A i \in 1 .. Len(C) : (ab \o C)[Len(ab) + i] = C[i]
      BY <3>1, SeqConcat
    <3>3. QED
      BY <2>1, <3>2 DEF n
  <2>3. b = ab \o C
    BY DEF ab
  <2> HIDE DEF b
  <2>4. \A i \in 1 .. a : i \in 1 .. a + m
    BY <1>1
  <2>5. \A i \in 1 .. m : a + i \in 1 .. a + m
    BY <1>1
  <2>6. QED
    BY <2>1, <2>2, <2>3, <2>4, <2>5
<1> HIDE DEF b
<1>3. \A i \in 1 .. Len(b) : \/ i \in 1 .. a
                             \/ i = a + 1 /\ m = 1
                             \/ \E j \in 1 .. n : i = a + m + j
  <2>1. TAKE i \in 1 .. Len(b)
  <2>2. CASE i > a + m
    <3>1. i - (a + m) \in 1 .. n /\ i = a + m + (i - (a + m))
      BY <1>1, <1>2, <2>2
    <3>2. QED
      BY <3>1
  <2> HIDE DEF a, m, n
  <2>3. CASE i <= a
    BY <1>1, <1>2, <2>3
  <2>4. CASE i > a /\ ~ (i > a + m)
    BY <1>1, <1>2, <2>4
  <2>5. i \in Int /\ a \in Int /\ a + m \in Int
    BY <1>1, <1>2
  <2>6. QED
    BY <2>2, <2>3, <2>4, <2>5
<1>4. m = 1 => b[a + 1] = B[1] /\ B[1].slot \in Int /\ Part(B[1].block) = T
  <2>1. HAVE m = 1
  <2>2. B # <<>>
    BY <2>1, SeqFew
  <2>3. 1 \in 1 .. m
    BY <2>1
  <2>4. b[a + 1] = B[1]
    BY <1>2, <2>3
  <2>5. QED
    BY <2>2, <2>4
<1>5. \A i \in 1 .. Len(b) : /\ b[i].slot \in Int
                             /\ \/ Part(b[i].block) = <<>>
                                \/ m = 1 /\ i = a + 1 /\ Part(b[i].block) = T
  <2>1. TAKE i \in 1 .. Len(b)
  <2>2. CASE i \in 1 .. a
    BY <1>2, <2>2
  <2>3. CASE i = a + 1 /\ m = 1
    BY <1>4, <2>3
  <2>4. ASSUME NEW j \in 1 .. n, i = a + m + j
        PROVE  b[i].slot \in Int /\ Part(b[i].block) = <<>>
    BY <1>2, <2>4
  <2>5. QED
    BY <1>3, <2>2, <2>3, <2>4
<1>6. T # <<>> => \E i \in 1 .. Len(b) : Part(b[i].block) = T
  <2>1. HAVE T # <<>>
  <2>2. m = 1
    BY <2>1
  <2>3. a + 1 \in 1 .. Len(b)
    BY <1>1, <1>2, <2>2
  <2>4. QED
    BY <1>4, <2>2, <2>3
<1>7. TextOf(SortBySlot(b)) = T
  <2> HIDE DEF a, m, n
  <2>1. IsSeq(b) /\ \A i \in 1 .. Len(b) : b[i].slot \in Int
    BY <1>2, <1>5
  <2>2. \A i \in 1 .. Len(b) : Part(b[i].block) \in {<<>>, T}
    BY <1>5
  <2>3. \A i, j \in 1 .. Len(b) : Part(b[i].block) # <<>> /\ Part(b[j].block) # <<>> => i = j
    BY <1>5
  <2>4. QED
    BY <1>6, <2>1, <2>2, <2>3, SortedText
<1>8. QED
  BY <1>7 DEF b

\* The response has the text that was said, or what is behind the thinking in it.
LEMMA ResponseText ==
    ASSUME NEW s, AccOK(s), NEW fallback
    PROVE  Ending(TextOf(finish(s, fallback).response.content), s.said["text"])
<1> DEFINE said     == s.said["text"]
           split    == IF s.field = "inline_think" THEN split_inline_think(said)
                       ELSE [think |-> <<>>, rest |-> said]
           thinking == s.said["thinking"] \o split.think
           end      == s.next + 1
           slotOf(i, default) == IF i = None THEN default ELSE i
           S        == {k \in DOMAIN s.tools : s.tools[k].name # Empty \/ s.tools[k].args # <<>>}
           calls    == Ranked(S, <)
           A == IF thinking # <<>> \/ s.signature
                  THEN <<[slot |-> slotOf(s.block["thinking"], slotOf(s.block["text"], 0)),
                          block |-> [t |-> "thinking", text |-> thinking, signature |-> s.signature]]>>
                  ELSE <<>>
           B == IF split.rest # <<>>
                  THEN <<[slot |-> slotOf(s.block["text"], end), block |-> [t |-> "text", text |-> split.rest]]>>
                  ELSE <<>>
           C == [i \in DOMAIN calls |->
                   LET e == s.tools[calls[i]]
                   IN  [slot |-> slotOf(e.block, end),
                        block |-> [t |-> "tool_use", id |-> IF e.id = Empty THEN fallback[calls[i]] ELSE e.id,
                                   name |-> e.name, input |-> e.args]]]
<1>1. finish(s, fallback).response.content = SortBySlot(A \o B \o C)
  BY DEF finish, Ranked
<1>2. IsSeq(calls) /\ \A i \in 1 .. Len(calls) : calls[i] \in S
  <2>1. S \subseteq Int /\ IsFiniteSet(S)
    BY FS_Subset DEF AccOK, ToolsOK
  <2> HIDE DEF S
  <2>2. QED
    BY <2>1, KeysRanked, Zenon
<1>3. \A i \in 1 .. Len(calls) : s.tools[calls[i]].block \in Int
  <2>1. \A k \in S : s.tools[k].block \in Int
    BY DEF AccOK, ToolsOK, ToolOK
  <2> HIDE DEF calls, S
  <2>2. QED
    BY <1>2, <2>1
<1> HIDE DEF calls
<1>4. said \in Text /\ s.block["text"] \in Int /\ s.block["thinking"] \in Int /\ end \in Int
  BY DEF AccOK, Kinds
<1>5. Ending(split.rest, said)
  <2> HIDE DEF said
  <2>1. QED
    BY <1>4, SplitEnding, EndingLaws
<1>6. split.rest \in Text
  BY <1>5 DEF Ending
<1>7. /\ IsSeq(A)
      /\ \A i \in 1 .. Len(A) : A[i].slot \in Int /\ Part(A[i].block) = <<>>
  <2> HIDE DEF said, split, thinking, end
  <2> DEFINE x == [slot |-> slotOf(s.block["thinking"], slotOf(s.block["text"], 0)),
                   block |-> [t |-> "thinking", text |-> thinking, signature |-> s.signature]]
  <2>1. x.slot \in Int /\ Part(x.block) = <<>>
    BY <1>4 DEF Part
  <2>2. A = <<x>> \/ A = <<>>
    OBVIOUS
  <2> HIDE DEF x, A
  <2>3. IsSeq(<<x>>) /\ Len(<<x>>) = 1 /\ <<x>>[1] = x /\ IsSeq(<<>>) /\ Len(<<>>) = 0
    BY SeqFew
  <2>4. QED
    BY <2>1, <2>2, <2>3
<1>8. /\ IsSeq(B)
      /\ \/ B = <<>> /\ split.rest = <<>>
         \/ Len(B) = 1 /\ B[1].slot \in Int /\ Part(B[1].block) = split.rest
  <2> HIDE DEF said, split, thinking, end
  <2> DEFINE x == [slot |-> slotOf(s.block["text"], end), block |-> [t |-> "text", text |-> split.rest]]
  <2>1. x.slot \in Int /\ Part(x.block) = split.rest
    BY <1>4 DEF Part
  <2>2. B = <<x>> \/ (B = <<>> /\ split.rest = <<>>)
    OBVIOUS
  <2> HIDE DEF x, B
  <2>3. IsSeq(<<x>>) /\ Len(<<x>>) = 1 /\ <<x>>[1] = x /\ IsSeq(<<>>)
    BY SeqFew
  <2>4. QED
    BY <2>1, <2>2, <2>3
<1>9. /\ IsSeq(C)
      /\ \A i \in 1 .. Len(C) : C[i].slot \in Int /\ Part(C[i].block) = <<>>
  <2>1. Len(calls) \in Nat /\ DOMAIN calls = 1 .. Len(calls)
    BY <1>2, SeqLen
  <2> HIDE DEF end
  <2>2. \A i \in 1 .. Len(calls) : C[i].slot \in Int /\ C[i].block.t = "tool_use"
    BY <1>3, <1>4, <2>1
  <2>3. C = [i \in 1 .. Len(calls) |-> C[i]]
    BY <2>1
  <2> HIDE DEF C
  <2>4. IsSeq(C) /\ Len(C) = Len(calls)
    BY <2>1, <2>3, SeqFun
  <2>5. QED
    BY <2>2, <2>4 DEF Part
<1> HIDE DEF A, B, C, split, said
<1>10. TextOf(SortBySlot(A \o B \o C)) = split.rest
  BY <1>6, <1>7, <1>8, <1>9, BlocksText
<1>11. QED
  BY <1>1, <1>5, <1>10 DEF said

\* The deltas of the end say nothing; the last of them is the response.
LEMMA Completed ==
    ASSUME NEW s, AccOK(s), NEW fallback
    PROVE  \E body : /\ Quiet(body) /\ TextOf(body) = <<>>
                     /\ finish(s, fallback).out
                          = body \o <<[t |-> "complete", response |-> finish(s, fallback).response]>>
<1> DEFINE resp    == finish(s, fallback).response
           S       == {k \in DOMAIN s.tools : s.tools[k].block # None}
           started == Ranked(S, <)
           s0 == [s EXCEPT !.out = <<>>]
           X  == close_open_stream_block(s0).out
           Y  == [i \in DOMAIN started |-> BlockStop(s.tools[started[i]].block)]
<1>1. finish(s, fallback).out = (X \o Y) \o <<[t |-> "complete", response |-> resp]>>
  BY DEF finish, Ranked
<1>2. IsSeq(started)
  <2>1. S \subseteq Int /\ IsFiniteSet(S)
    BY FS_Subset DEF AccOK, ToolsOK
  <2> HIDE DEF S
  <2>2. QED
    BY <2>1, KeysRanked, Zenon
<1> HIDE DEF started
<1>3. AccOK(s0) /\ TextOf(s0.out) = <<>>
  <2>1. DOMAIN s0 = DOMAIN s /\ s0.out = <<>> /\ s0.said = s.said /\ s0.next = s.next
        /\ s0.block = s.block /\ s0.tools = s.tools /\ s0.last = s.last
    BY DEF AccOK, AccFields
  <2> HIDE DEF s0
  <2>2. QED
    BY <2>1, QuietFew DEF AccOK
<1> HIDE DEF s0
<1>4. Quiet(X) /\ TextOf(X) = <<>>
  <2>1. AccOK(close_open_stream_block(s0)) /\ TextOf(close_open_stream_block(s0).out) = <<>>
    BY <1>3, Closed
  <2>2. QED
    BY <2>1 DEF AccOK
<1>5. Quiet(Y) /\ TextOf(Y) = <<>>
  <2>1. Len(started) \in Nat /\ DOMAIN started = 1 .. Len(started)
    BY <1>2, SeqLen
  <2>2. \A i \in 1 .. Len(started) : Y[i] = BlockStop(s.tools[started[i]].block)
    BY <2>1
  <2>3. Y = [i \in 1 .. Len(started) |-> Y[i]]
    BY <2>1
  <2> HIDE DEF Y
  <2>4. IsSeq(Y) /\ Len(Y) = Len(started)
    BY <2>1, <2>3, SeqFun
  <2>5. \A i \in 1 .. Len(Y) : Part(Y[i]) = <<>> /\ Y[i].t # "complete"
    BY <2>2, <2>4, StopSays
  <2>6. Worded(Y) /\ TextOf(Y) = <<>>
    BY <2>4, <2>5, TextNone
  <2>7. QED
    BY <2>5, <2>6 DEF Quiet
<1> HIDE DEF X, Y, resp
<1>6. Quiet(X \o Y) /\ TextOf(X \o Y) = <<>> \o <<>>
  BY <1>4, <1>5, QuietConcat
<1>7. <<>> \o <<>> = <<>>
  BY TextLaws
<1>8. QED
  BY <1>1, <1>6, <1>7 DEF resp

-----------------------------------------------------------------------------
(* The stream, after the deltas with the text `before`.                    *)
StreamFields == {"parser", "acc", "live", "pending", "done", "error"}

(* A stream that is done has still to hand on its Complete.                *)
Closes(s) == s.done /\ s.error = Empty => Len(s.pending) # 0 /\ Last(s.pending).t = "complete"

StreamOK(s, before) ==
  /\ DOMAIN s = StreamFields /\ Closes(s)
  /\ ParserOK(s.parser) /\ AccOK(s.acc) /\ Worded(s.pending)
  /\ before \o TextOf(s.pending) = s.acc.said["text"]
  /\ \A i \in 1 .. Len(s.pending) :
       s.pending[i].t = "complete" =>
         /\ ~ s.live /\ i = Len(s.pending)
         /\ Ending(TextOf(s.pending[i].response.content), s.acc.said["text"])

\* A stream that starts.
LEMMA StreamStarts ==
    ASSUME NEW field
    PROVE  StreamOK(StreamState(field), <<>>)
<1> DEFINE a == Accumulator(field)
           s == StreamState(field)
<1>1. AccOK(a)
  <2>1. DOMAIN a = AccFields /\ a.next \in Int /\ a.last \in Int
    BY DEF Accumulator, AccFields, None
  <2>2. a.block \in [Kinds -> Int]
    BY DEF Accumulator, None
  <2>3. a.said \in [Kinds -> Text]
    BY TextLaws DEF Accumulator
  <2>4. ToolsOK(a.tools)
    <3>1. DOMAIN a.tools = {}
      BY DEF Accumulator
    <3>2. QED
      BY <3>1, FS_EmptySet DEF ToolsOK
  <2>5. Quiet(a.out)
    BY QuietFew DEF Accumulator
  <2>6. QED
    BY <2>1, <2>2, <2>3, <2>4, <2>5 DEF AccOK
<1>2. a.said["text"] = <<>>
  BY DEF Accumulator, Kinds
<1>3. ParserOK(SseParser)
  BY SeqFew, EmptySeq DEF ParserOK, SseParser, Lined
<1> HIDE DEF a
<1>4. /\ DOMAIN s = StreamFields /\ s.parser = SseParser /\ s.acc = a /\ s.pending = <<>> /\ ~ s.done
  BY DEF StreamState, StreamFields, a
<1> HIDE DEF s
<1>5. Worded(<<>>) /\ <<>> \o TextOf(<<>>) = <<>> /\ Len(<<>>) = 0
  BY TextFew, TextLaws, SeqFew
<1>6. StreamOK(s, <<>>)
  BY <1>1, <1>2, <1>3, <1>4, <1>5 DEF StreamOK, Closes
<1>7. QED
  BY <1>6 DEF s

\* The end of a stream that is live.
LEMMA Finalized ==
    ASSUME NEW s, NEW before \in Text, StreamOK(s, before), s.live, NEW fallback
    PROVE  StreamOK(finalize(s, fallback), before)
<1> DEFINE r    == finalize(s, fallback)
           fin  == finish(s.acc, fallback)
           resp == fin.response
           comp == [t |-> "complete", response |-> resp]
           said == s.acc.said["text"]
           p    == s.pending
<1>1. AccOK(s.acc) /\ Worded(p) /\ before \o TextOf(p) = said /\ DOMAIN s = StreamFields
      /\ ParserOK(s.parser)
  BY DEF StreamOK
<1>2. Quiet(p)
  BY DEF StreamOK, Quiet
<1>3. Ending(TextOf(resp.content), said)
  BY <1>1, ResponseText
<1>4. PICK body : Quiet(body) /\ TextOf(body) = <<>> /\ fin.out = body \o <<comp>>
  BY <1>1, Completed
<1>5. r = [s EXCEPT !.pending = p \o fin.out, !.live = FALSE, !.done = TRUE]
  BY DEF finalize
<1>6. comp.t = "complete" /\ comp.response = resp /\ Part(comp) = <<>>
  BY DEF Part
<1> DEFINE q == p \o (body \o <<comp>>)
<1> HIDE DEF fin, resp, comp, r, said
<1>7. /\ DOMAIN r = DOMAIN s /\ r.parser = s.parser /\ r.acc = s.acc /\ r.pending = q /\ ~ r.live
  BY <1>1, <1>4, <1>5 DEF StreamFields
<1> HIDE DEF p
<1>8. /\ IsSeq(<<comp>>) /\ Len(<<comp>>) = 1 /\ <<comp>>[1] = comp
      /\ Worded(<<comp>>) /\ TextOf(<<comp>>) = <<>>
  BY <1>6, SeqFew, TextFew, TextLaws
<1> DEFINE w == body \o <<comp>>
<1>9. /\ Worded(w) /\ TextOf(w) = <<>> /\ Len(w) = Len(body) + 1 /\ Len(body) \in Nat
      /\ \A i \in 1 .. Len(body) : w[i] = body[i]
      /\ w[Len(body) + 1] = comp
  <2>1. Worded(body) /\ IsSeq(body) /\ Len(body) \in Nat
    BY <1>4, SeqLen DEF Quiet, Worded
  <2>2. Worded(w) /\ TextOf(w) = <<>> \o <<>>
    BY <1>4, <1>8, <2>1, TextConcat
  <2>3. /\ Len(w) = Len(body) + Len(<<comp>>)
        /\ \A i \in 1 .. Len(body) : w[i] = body[i]
        /\ \A i \in 1 .. Len(<<comp>>) : w[Len(body) + i] = <<comp>>[i]
    BY <1>8, <2>1, SeqConcat
  <2>4. 1 \in 1 .. Len(<<comp>>)
    BY <1>8
  <2>5. <<>> \o <<>> = <<>>
    BY TextLaws
  <2> HIDE DEF w
  <2>6. QED
    BY <1>8, <2>1, <2>2, <2>3, <2>4, <2>5
<1> HIDE DEF w
<1>10. /\ Worded(q) /\ TextOf(q) = TextOf(p) \o <<>> /\ TextOf(p) \in Text
       /\ Len(q) = Len(p) + Len(body) + 1 /\ Len(p) \in Nat
       /\ \A i \in 1 .. Len(p) : q[i] = p[i]
       /\ \A i \in 1 .. Len(w) : q[Len(p) + i] = w[i]
  <2>1. Worded(p) /\ IsSeq(p) /\ Len(p) \in Nat /\ IsSeq(w)
    BY <1>1, <1>9, SeqLen DEF Worded
  <2>2. q = p \o w
    BY DEF w
  <2> HIDE DEF q
  <2>3. Worded(q) /\ TextOf(q) = TextOf(p) \o TextOf(w)
    BY <1>9, <2>1, <2>2, TextConcat
  <2>4. /\ Len(q) = Len(p) + Len(w)
        /\ \A i \in 1 .. Len(p) : q[i] = p[i]
        /\ \A i \in 1 .. Len(w) : q[Len(p) + i] = w[i]
    BY <2>1, <2>2, SeqConcat
  <2>5. TextOf(p) \in Text
    BY <2>1, TextTyped
  <2>6. QED
    BY <1>9, <2>1, <2>3, <2>4, <2>5
<1> HIDE DEF q
<1>11. TextOf(q) = TextOf(p)
  BY <1>10, TextLaws
<1>12. ASSUME NEW i \in 1 .. Len(q), q[i].t = "complete"
       PROVE  i = Len(q) /\ q[i] = comp
  <2>1. CASE i <= Len(p)
    <3>1. i \in 1 .. Len(p) /\ q[i] = p[i]
      BY <1>10, <2>1
    <3>2. QED
      BY <1>2, <1>12, <3>1 DEF Quiet
  <2>2. CASE i > Len(p) /\ i < Len(q)
    <3>1. i - Len(p) \in 1 .. Len(body) /\ i - Len(p) \in 1 .. Len(w) /\ Len(p) + (i - Len(p)) = i
      BY <1>9, <1>10, <2>2
    <3>2. q[i] = w[i - Len(p)]
      BY <1>10, <3>1
    <3>3. q[i] = body[i - Len(p)]
      BY <1>9, <3>1, <3>2
    <3>4. QED
      BY <1>4, <1>12, <3>1, <3>3 DEF Quiet
  <2>3. CASE i = Len(q)
    <3>1. Len(body) + 1 \in 1 .. Len(w) /\ Len(p) + (Len(body) + 1) = i
      BY <1>9, <1>10, <2>3
    <3>2. q[Len(p) + (Len(body) + 1)] = w[Len(body) + 1]
      BY <1>10, <3>1
    <3>3. QED
      BY <1>9, <2>3, <3>1, <3>2
  <2>4. i \in Int /\ Len(p) \in Int /\ Len(q) \in Int /\ i <= Len(q)
    BY <1>9, <1>10
  <2>5. QED
    BY <2>1, <2>2, <2>3, <2>4
<1>13. StreamOK(r, before)
  <2>1. Worded(r.pending) /\ before \o TextOf(r.pending) = r.acc.said["text"]
    BY <1>1, <1>7, <1>10, <1>11 DEF said
  <2>2. \A i \in 1 .. Len(r.pending) :
          r.pending[i].t = "complete" =>
            /\ ~ r.live /\ i = Len(r.pending)
            /\ Ending(TextOf(r.pending[i].response.content), r.acc.said["text"])
    BY <1>3, <1>6, <1>7, <1>12 DEF said
  <2>3. Closes(r)
    <3>1. Len(q) # 0 /\ q[Len(q)] = comp
      <4>1. Len(body) + 1 \in 1 .. Len(w) /\ Len(p) + (Len(body) + 1) = Len(q) /\ Len(q) # 0
        BY <1>9, <1>10
      <4>2. q[Len(p) + (Len(body) + 1)] = w[Len(body) + 1]
        BY <1>10, <4>1
      <4>3. QED
        BY <1>9, <4>1, <4>2
    <3>2. QED
      BY <1>6, <1>7, <3>1 DEF Closes, Last
  <2>4. QED
    BY <1>1, <1>7, <2>1, <2>2, <2>3 DEF StreamOK
<1>14. QED
  BY <1>13 DEF r

\* An error has a name.
LEMMA ErrorsNamed == "InvalidResponse" # Empty /\ "Server" # Empty
  BY DEF Empty

\* An event is handled.
LEMMA EventHandled ==
    ASSUME NEW s, NEW before \in Text, StreamOK(s, before), NEW ev \in Payload, NEW fallback
    PROVE  StreamOK(handle_event(s, ev, fallback), before)
<1> DEFINE r == handle_event(s, ev, fallback)
<1>1. CASE ~ s.live \/ s.error # Empty
  BY <1>1 DEF handle_event
<1>2. CASE s.live /\ s.error = Empty /\ ev.t = "done"
  <2>1. r = finalize(s, fallback)
    BY <1>2 DEF handle_event
  <2>2. QED
    BY <1>2, <2>1, Finalized
<1>3. CASE s.live /\ s.error = Empty /\ ev.t \in {"bad", "error"}
  <2>1. \E e : e # Empty /\ r = [s EXCEPT !.error = e, !.done = TRUE]
    BY <1>3, ErrorsNamed DEF handle_event
  <2>2. DOMAIN s = StreamFields
    BY DEF StreamOK
  <2> HIDE DEF r
  <2>3. /\ DOMAIN r = StreamFields /\ r.parser = s.parser /\ r.acc = s.acc /\ r.pending = s.pending
        /\ r.live = s.live /\ r.error # Empty
    BY <2>1, <2>2 DEF StreamFields
  <2>4. StreamOK(r, before)
    BY <2>3 DEF StreamOK, Closes
  <2>5. QED
    BY <2>4 DEF r
<1>4. CASE s.live /\ s.error = Empty /\ ev.t \notin {"done", "bad", "error"}
  <2> DEFINE a == push_chunk(s.acc, ev)
             p == s.pending
             said == s.acc.said["text"]
  <2>1. r = [s EXCEPT !.acc = a, !.pending = p \o a.out]
    BY <1>4 DEF handle_event
  <2>2. DOMAIN s = StreamFields /\ ParserOK(s.parser) /\ AccOK(s.acc) /\ before \o TextOf(p) = said
    BY DEF StreamOK
  <2>3. ev.t = "chunk"
    BY <1>4 DEF Payload
  <2>4. AccOK(a) /\ a.said["text"] = said \o TextOf(a.out)
    BY <2>2, <2>3, ChunkPushed
  <2>5. Quiet(p)
    BY <1>4 DEF StreamOK, Quiet
  <2> HIDE DEF r, a, p, said
  <2>6. /\ DOMAIN r = StreamFields /\ r.parser = s.parser /\ r.acc = a /\ r.pending = p \o a.out
        /\ r.live = s.live /\ r.done = s.done
    BY <2>1, <2>2 DEF StreamFields
  <2>7. Quiet(a.out)
    BY <2>4 DEF AccOK
  <2>8. Quiet(p \o a.out) /\ TextOf(p \o a.out) = TextOf(p) \o TextOf(a.out)
    BY <2>5, <2>7, QuietConcat
  <2>9. TextOf(p) \in Text /\ TextOf(a.out) \in Text
    BY <2>5, <2>7, TextTyped DEF Quiet
  <2>10. before \o (TextOf(p) \o TextOf(a.out)) = (before \o TextOf(p)) \o TextOf(a.out)
    BY <2>9, TextLaws
  <2>11. before \o TextOf(r.pending) = r.acc.said["text"]
    BY <2>2, <2>4, <2>6, <2>8, <2>10
  <2>12. Worded(r.pending) /\ \A i \in 1 .. Len(r.pending) : r.pending[i].t # "complete"
    BY <2>6, <2>8 DEF Quiet
  <2>13. ~ s.done
    <3>1. SUFFICES ASSUME s.done PROVE FALSE
      OBVIOUS
    <3>2. Len(s.pending) # 0 /\ Last(s.pending).t = "complete" /\ Len(s.pending) \in Nat
      BY <1>4, <3>1, SeqLen DEF StreamOK, Closes, Worded
    <3>3. Len(s.pending) \in 1 .. Len(s.pending)
      BY <3>2
    <3>4. QED
      BY <1>4, <3>2, <3>3 DEF StreamOK, Last
  <2>14. StreamOK(r, before)
    BY <2>2, <2>4, <2>6, <2>11, <2>12, <2>13 DEF StreamOK, Closes
  <2>15. QED
    BY <2>14 DEF r
<1>5. QED
  BY <1>1, <1>2, <1>3, <1>4

\* So are the events of a read.
LEMMA EventsHandled ==
    ASSUME NEW s, NEW before \in Text, StreamOK(s, before), NEW evs \in Seq(Payload), NEW fallback
    PROVE  StreamOK(handle_events(s, evs, fallback), before)
<1> DEFINE n == Len(evs)
           R(g) == g = [i \in 0 .. n |-> IF i = 0 THEN s ELSE handle_event(g[i - 1], evs[i], fallback)]
           h == CHOOSE g : R(g)
<1>1. handle_events(s, evs, fallback) = h[n]
  BY DEF handle_events, Folded
<1>2. n \in Nat /\ \A i \in 1 .. n : evs[i] \in Payload
  BY LenProperties, ElementOfSeq
<1>3. R(h)
  <2>1. PICK f : IsRun(Events(fallback), f, s, evs, n)
    BY <1>2, RunExists
  <2>2. \A x, y : Step(Events(fallback), x, y) = handle_event(x, y, fallback)
    BY DEF Step, Events
  <2>3. R(f)
    BY <2>1, <2>2 DEF IsRun
  <2> HIDE DEF R
  <2>4. QED
    BY <2>3
<1> HIDE DEF h
<1>4. h[0] = s /\ \A i \in 1 .. n : h[i] = handle_event(h[i - 1], evs[i], fallback)
  <2>1. 0 \in 0 .. n /\ \A i \in 1 .. n : i \in 0 .. n /\ i # 0
    BY <1>2
  <2>2. QED
    BY <1>3, <2>1
<1> HIDE DEF R
<1> DEFINE Good == {i \in 0 .. n : StreamOK(h[i], before)}
<1>5. 0 \in Good
  BY <1>2, <1>4
<1>6. ASSUME NEW i \in 1 .. n, i - 1 \in Good PROVE i \in Good
  <2>1. StreamOK(h[i - 1], before) /\ i \in 0 .. n /\ evs[i] \in Payload
    BY <1>2, <1>6
  <2>2. StreamOK(handle_event(h[i - 1], evs[i], fallback), before)
    BY <2>1, EventHandled
  <2>3. StreamOK(h[i], before)
    BY <1>4, <2>2
  <2>4. QED
    BY <2>1, <2>3
<1> HIDE DEF Good
<1>7. n \in Good
  BY <1>2, <1>5, <1>6, RunPreserves
<1>8. QED
  BY <1>1, <1>7 DEF Good

\* What a read, or the end of the body, makes of the stream.
LEMMA Stepped ==
    ASSUME NEW s, NEW before \in Text, StreamOK(s, before), NEW fallback
    PROVE  /\ \A bytes : Lined(bytes) => StreamOK(StepBytes(s, bytes, fallback), before)
           /\ \A behindPrefix : StreamOK(StepEof(s, behindPrefix, fallback), before)
<1>1. ASSUME NEW bytes, Lined(bytes) PROVE StreamOK(StepBytes(s, bytes, fallback), before)
  <2> DEFINE p == push(s.parser, bytes)
             q == [s EXCEPT !.parser = p.parser]
  <2>1. StepBytes(s, bytes, fallback) = handle_events(q, p.events, fallback)
    BY DEF StepBytes
  <2>2. ParserOK(p.parser) /\ p.events \in Seq(Payload)
    BY <1>1, Pushed DEF StreamOK
  <2> HIDE DEF p
  <2>3. /\ DOMAIN q = StreamFields /\ q.parser = p.parser /\ q.acc = s.acc /\ q.pending = s.pending
        /\ q.live = s.live /\ q.done = s.done /\ q.error = s.error
    BY DEF StreamOK, StreamFields
  <2> HIDE DEF q
  <2>4. StreamOK(q, before)
    BY <2>2, <2>3 DEF StreamOK, Closes
  <2>5. QED
    BY <2>1, <2>2, <2>4, EventsHandled
<1>2. ASSUME NEW behindPrefix PROVE StreamOK(StepEof(s, behindPrefix, fallback), before)
  <2> DEFINE r == handle_events(s, sse_finish(s.parser, behindPrefix), fallback)
             q == [r EXCEPT !.error = "InvalidResponse", !.done = TRUE]
  <2>1. sse_finish(s.parser, behindPrefix) \in Seq(Payload)
    BY Finished DEF StreamOK
  <2>2. StreamOK(r, before)
    BY <2>1, EventsHandled
  <2>3. StepEof(s, behindPrefix, fallback)
          = IF r.error # Empty \/ ~ r.live THEN r
            ELSE IF r.acc.finish # Empty THEN finalize(r, fallback) ELSE q
    BY DEF StepEof
  <2> HIDE DEF r
  <2>4. StreamOK(q, before)
    <3>1. /\ DOMAIN q = StreamFields /\ q.parser = r.parser /\ q.acc = r.acc /\ q.pending = r.pending
          /\ q.live = r.live /\ q.error # Empty
      BY <2>2, ErrorsNamed DEF StreamOK, StreamFields
    <3> HIDE DEF q
    <3>2. QED
      BY <2>2, <3>1 DEF StreamOK, Closes
  <2>5. r.live => StreamOK(finalize(r, fallback), before)
    BY <2>2, Finalized
  <2> HIDE DEF q
  <2>6. QED
    BY <2>2, <2>3, <2>4, <2>5
<1>3. QED
  BY <1>1, <1>2

-----------------------------------------------------------------------------
(* The way to the client.  Of the items of a channel those of turn n have  *)
(* their text on the way to it.                                            *)
Item(x, n) == [t |-> IF x.turn = n THEN "text" ELSE "other", text |-> x.text]
Way(q, n)  == TextOf([i \in DOMAIN q |-> Item(q[i], n)])
Brings(x, n) == IF x.turn = n THEN x.text ELSE <<>>

Items(q) == IsSeq(q) /\ \A i \in 1 .. Len(q) : q[i].text \in Text

\* What is on the way is a text: none of no item, and one more with an item more.
LEMMA OnTheWay ==
    ASSUME NEW q, Items(q), NEW n
    PROVE  /\ Way(q, n) \in Text
           /\ q = <<>> => Way(q, n) = <<>>
           /\ \A x : x.text \in Text =>
                Items(Append(q, x)) /\ Way(Append(q, x), n) = Way(q, n) \o Brings(x, n)
           /\ q # <<>> => /\ Items(Tail(q)) /\ Head(q).text \in Text /\ Brings(Head(q), n) \in Text
                          /\ Way(q, n) = Brings(Head(q), n) \o Way(Tail(q), n)
                          /\ Len(Tail(q)) = Len(q) - 1 /\ \A i \in 1 .. Len(Tail(q)) : Tail(q)[i] = q[i + 1]
<1> DEFINE M(r) == [i \in DOMAIN r |-> Item(r[i], n)]
<1>1. \A x : Part(Item(x, n)) = Brings(x, n)
  BY DEF Part, Item, Brings
<1>2. \A x : x.text \in Text => Brings(x, n) \in Text
  BY TextLaws DEF Brings
<1>3. ASSUME NEW r, Items(r)
      PROVE  /\ Worded(M(r)) /\ Len(M(r)) = Len(r) /\ Len(r) \in Nat
             /\ \A i \in 1 .. Len(r) : M(r)[i] = Item(r[i], n)
  <2>1. Len(r) \in Nat /\ DOMAIN r = 1 .. Len(r)
    BY <1>3, SeqLen DEF Items
  <2> DEFINE m == M(r)
  <2>2. m = [i \in 1 .. Len(r) |-> m[i]] /\ \A i \in 1 .. Len(r) : m[i] = Item(r[i], n)
    BY <2>1
  <2> HIDE DEF m
  <2>3. IsSeq(m) /\ Len(m) = Len(r)
    BY <2>1, <2>2, SeqFun
  <2>4. \A i \in 1 .. Len(m) : Part(m[i]) \in Text
    BY <1>1, <1>2, <1>3, <2>2, <2>3 DEF Items
  <2>5. Worded(m)
    BY <2>3, <2>4 DEF Worded
  <2>6. QED
    BY <2>1, <2>2, <2>3, <2>5 DEF m
<1>4. \A r : Way(r, n) = TextOf(M(r))
  BY DEF Way
<1> HIDE DEF M
<1>5. Way(q, n) \in Text
  BY <1>3, <1>4, TextTyped
<1>6. q = <<>> => Way(q, n) = <<>>
  <2>1. HAVE q = <<>>
  <2>2. Worded(M(q)) /\ Len(M(q)) = 0
    BY <1>3, <2>1, SeqFew
  <2>3. M(q) = <<>>
    BY <2>2, EmptySeq DEF Worded, IsSeq
  <2>4. QED
    BY <1>4, <2>3, TextFew
<1>7. ASSUME NEW x, x.text \in Text
      PROVE  Items(Append(q, x)) /\ Way(Append(q, x), n) = Way(q, n) \o Brings(x, n)
  <2> DEFINE r == Append(q, x)
             d == Append(M(q), Item(x, n))
  <2>1. Items(q) /\ IsSeq(q) /\ Len(q) \in Nat
    BY SeqLen DEF Items
  <2>2. /\ IsSeq(r) /\ Len(r) = Len(q) + 1
        /\ \A i \in 1 .. Len(q) : r[i] = q[i]
        /\ r[Len(q) + 1] = x
    BY <2>1, SeqAppend
  <2>3. Worded(M(q)) /\ Len(M(q)) = Len(q) /\ \A i \in 1 .. Len(q) : M(q)[i] = Item(q[i], n)
    BY <1>3, <2>1
  <2>4. Part(Item(x, n)) \in Text
    BY <1>1, <1>2, <1>7
  <2>5. Worded(d) /\ TextOf(d) = TextOf(M(q)) \o Part(Item(x, n))
    BY <2>3, <2>4, TextAppend
  <2>6. /\ Len(d) = Len(q) + 1
        /\ \A i \in 1 .. Len(q) : d[i] = M(q)[i]
        /\ d[Len(q) + 1] = Item(x, n)
    BY <2>3, SeqAppend DEF Worded
  <2> HIDE DEF r, d
  <2>7. \A i \in 1 .. Len(q) + 1 : i \in 1 .. Len(q) \/ i = Len(q) + 1
    BY <2>1
  <2>8. Items(r)
    <3>1. \A i \in 1 .. Len(r) : r[i].text \in Text
      BY <1>7, <2>1, <2>2, <2>7 DEF Items
    <3>2. QED
      BY <2>2, <3>1 DEF Items
  <2>9. Worded(M(r)) /\ Len(M(r)) = Len(q) + 1 /\ \A i \in 1 .. Len(q) + 1 : M(r)[i] = Item(r[i], n)
    BY <1>3, <2>2, <2>8
  <2>10. \A i \in 1 .. Len(M(r)) : Part(M(r)[i]) = Part(d[i])
    BY <2>2, <2>3, <2>6, <2>7, <2>9
  <2>11. TextOf(M(r)) = TextOf(d)
    BY <2>5, <2>6, <2>9, <2>10, TextSame
  <2>12. QED
    BY <1>1, <1>4, <2>5, <2>8, <2>11 DEF r
<1>8. ASSUME q # <<>>
      PROVE  /\ Items(Tail(q)) /\ Head(q).text \in Text /\ Brings(Head(q), n) \in Text
             /\ Way(q, n) = Brings(Head(q), n) \o Way(Tail(q), n)
             /\ Len(Tail(q)) = Len(q) - 1 /\ \A i \in 1 .. Len(Tail(q)) : Tail(q)[i] = q[i + 1]
  <2> DEFINE r == Tail(q)
  <2>1. IsSeq(q) /\ Len(q) \in Nat /\ Len(q) # 0
    BY <1>8, SeqLen, EmptySeq DEF Items, IsSeq
  <2>2. /\ r \in Seq(Range(q)) /\ Len(r) = Len(q) - 1 /\ \A i \in 1 .. Len(r) : r[i] = q[i + 1]
        /\ Head(q) = q[1] /\ 1 \in 1 .. Len(q)
    BY <1>8, <2>1, HeadTailProperties DEF IsSeq
  <2> HIDE DEF r
  <2>3. \A i \in 1 .. Len(r) : i + 1 \in 1 .. Len(q)
    BY <2>1, <2>2
  <2>4. Items(r)
    <3>1. IsSeq(r)
      BY <2>2, SeqIs
    <3>2. QED
      BY <2>2, <2>3, <3>1 DEF Items
  <2>5. Head(q).text \in Text
    BY <2>2 DEF Items
  <2>6. Worded(M(q)) /\ Len(M(q)) = Len(q) /\ \A i \in 1 .. Len(q) : M(q)[i] = Item(q[i], n)
    BY <1>3
  <2>7. Worded(M(r)) /\ Len(M(r)) = Len(r) /\ \A i \in 1 .. Len(r) : M(r)[i] = Item(r[i], n)
    BY <1>3, <2>4
  <2>8. M(q) # <<>>
    BY <2>1, <2>6, SeqFew
  <2> DEFINE m == M(q)
             d == Tail(M(q))
  <2>9. Worded(d) /\ TextOf(m) = Part(Head(m)) \o TextOf(d)
    BY <2>6, <2>8, TextTail
  <2>10. /\ Len(d) = Len(q) - 1 /\ \A i \in 1 .. Len(d) : d[i] = m[i + 1]
         /\ Head(m) = m[1]
    BY <2>6, <2>8, HeadTailProperties DEF Worded, IsSeq
  <2> HIDE DEF d, m
  <2>11. \A i \in 1 .. Len(M(r)) : Part(M(r)[i]) = Part(d[i])
    BY <2>2, <2>3, <2>6, <2>7, <2>10 DEF m
  <2>12. TextOf(M(r)) = TextOf(d)
    BY <2>2, <2>7, <2>9, <2>10, <2>11, TextSame
  <2>13. Part(Head(m)) = Brings(Head(q), n)
    BY <1>1, <2>2, <2>6, <2>10 DEF m
  <2>14. Way(q, n) = Brings(Head(q), n) \o Way(r, n)
    BY <1>4, <2>9, <2>12, <2>13 DEF m
  <2>15. QED
    BY <1>2, <2>2, <2>4, <2>5, <2>14 DEF r
<1>9. QED
  BY <1>5, <1>6, <1>7, <1>8

\* A channel takes an item; what it loses of the turn makes a gap.
LEMMA Offered ==
    ASSUME NEW q, Items(q), NEW capacity \in Nat \ {0}, Len(q) <= capacity, NEW x, x.text \in Text
    PROVE  LET r == Offer(q, x, capacity)
           IN  /\ Items(r) /\ Len(r) <= capacity
               /\ \A i \in 1 .. Len(r) : r[i] = x \/ \E j \in 1 .. Len(q) : r[i] = q[j]
               /\ \A text : After(text, q, capacity) # Gap =>
                    After(text, q, capacity) = text /\ Way(r, turn) = Way(q, turn) \o Brings(x, turn)
<1> DEFINE r == Offer(q, x, capacity)
<1>1. Len(q) \in Nat /\ IsSeq(q)
  BY SeqLen DEF Items
<1>2. CASE Len(q) < capacity
  <2>1. r = Append(q, x)
    BY <1>2 DEF Offer
  <2>2. Items(r) /\ Way(r, turn) = Way(q, turn) \o Brings(x, turn)
    BY <2>1, OnTheWay
  <2>3. Len(r) = Len(q) + 1
    BY <1>1, <2>1, SeqAppend
  <2>4. \A i \in 1 .. Len(q) + 1 : i \in 1 .. Len(q) \/ i = Len(q) + 1
    BY <1>1
  <2>5. r[Len(q) + 1] = x /\ \A i \in 1 .. Len(q) : r[i] = q[i]
    BY <1>1, <2>1, SeqAppend
  <2>6. \A text : After(text, q, capacity) = text
    BY <1>1, <1>2 DEF After
  <2> HIDE DEF r
  <2>7. Len(r) <= capacity
    BY <1>1, <1>2, <2>3
  <2>8. \A i \in 1 .. Len(r) : r[i] = x \/ \E j \in 1 .. Len(q) : r[i] = q[j]
    BY <2>3, <2>4, <2>5
  <2>9. QED
    BY <2>2, <2>6, <2>7, <2>8 DEF r
<1>3. CASE Len(q) = capacity
  <2> DEFINE t == Tail(q)
  <2>1. r = Append(t, x) /\ q # <<>>
    BY <1>1, <1>3, SeqFew DEF Offer
  <2>2. /\ Items(t) /\ Brings(Head(q), turn) \in Text
        /\ Way(q, turn) = Brings(Head(q), turn) \o Way(t, turn)
        /\ Len(t) = Len(q) - 1 /\ \A i \in 1 .. Len(t) : t[i] = q[i + 1]
    BY <2>1, OnTheWay
  <2> HIDE DEF t
  <2>3. Items(r) /\ Way(r, turn) = Way(t, turn) \o Brings(x, turn) /\ Way(t, turn) \in Text
    BY <2>1, <2>2, OnTheWay
  <2>4. IsSeq(t) /\ Len(t) \in Nat
    BY <2>2, SeqLen DEF Items
  <2>5. /\ Len(r) = Len(t) + 1 /\ r[Len(t) + 1] = x /\ \A i \in 1 .. Len(t) : r[i] = t[i]
    BY <2>1, <2>4, SeqAppend
  <2> HIDE DEF r
  <2>6. Len(r) <= capacity
    BY <1>1, <1>3, <2>2, <2>5
  <2>7. \A i \in 1 .. Len(r) : r[i] = x \/ \E j \in 1 .. Len(q) : r[i] = q[j]
    <3>1. TAKE i \in 1 .. Len(r)
    <3>2. CASE i = Len(t) + 1
      BY <2>5, <3>2
    <3>3. CASE i # Len(t) + 1
      <4>1. i \in 1 .. Len(t) /\ i + 1 \in 1 .. Len(q)
        BY <1>1, <2>2, <2>4, <2>5, <3>3
      <4>2. QED
        BY <2>2, <2>5, <4>1
    <3>4. QED
      BY <3>2, <3>3
  <2>8. ASSUME NEW text, After(text, q, capacity) # Gap
        PROVE  After(text, q, capacity) = text /\ Way(r, turn) = Way(q, turn) \o Brings(x, turn)
    <3>1. Head(q).turn # turn /\ After(text, q, capacity) = text
      BY <1>3, <2>8 DEF After
    <3>2. Brings(Head(q), turn) = <<>>
      BY <3>1 DEF Brings
    <3>3. Way(q, turn) = Way(t, turn)
      BY <2>2, <2>3, <3>2, TextLaws
    <3>4. QED
      BY <2>3, <3>1, <3>3
  <2>9. QED
    BY <2>3, <2>6, <2>7, <2>8 DEF r
<1>4. QED
  BY <1>1, <1>2, <1>3

\* An end and its text go on together.
LEMMA EndingGrows ==
    ASSUME NEW x, NEW y, Ending(x, y), NEW z \in Text
    PROVE  Ending(x \o z, y \o z)
<1>1. PICK p \in Text : y = p \o x
  BY DEF Ending
<1>2. x \in Text /\ y \in Text
  BY DEF Ending
<1>3. (p \o x) \o z = p \o (x \o z) /\ x \o z \in Text /\ y \o z \in Text
  BY <1>2, TextLaws
<1>4. QED
  BY <1>1, <1>3 DEF Ending

\* The end of a text, as SequencesExt has it.
LEMMA EndingIsSuffix ==
    ASSUME NEW x, NEW y, Ending(x, y)
    PROVE  IsSuffix(x, y)
<1>1. PICK p \in Text : y = p \o x
  BY DEF Ending
<1> DEFINE m == Len(x)
           n == Len(y)
           a == Reverse(x)
           b == Reverse(y)
           s == SubSeq(a, 1, m)
           t == SubSeq(b, 1, m)
<1>2. IsSeq(x) /\ IsSeq(y) /\ IsSeq(p) /\ m \in Nat /\ Len(p) \in Nat /\ n \in Nat
  BY SeqIs, SeqLen DEF Ending, Text
<1>3. n = Len(p) + m /\ \A i \in 1 .. m : y[Len(p) + i] = x[i]
  BY <1>1, <1>2, SeqConcat
<1>4. /\ a = [i \in 1 .. m |-> a[i]] /\ b = [i \in 1 .. n |-> b[i]]
      /\ \A i \in 1 .. m : a[i] = x[(m - i) + 1]
      /\ \A i \in 1 .. n : b[i] = y[(n - i) + 1]
  BY DEF Reverse
<1> HIDE DEF a, b
<1>5. IsSeq(a) /\ Len(a) = m /\ IsSeq(b) /\ Len(b) = n
  BY <1>2, <1>4, SeqFun
<1>6. /\ IsSeq(s) /\ Len(s) = m
      /\ \A i \in 1 .. m : s[i] = a[i]
  <2>1. 1 \in Nat \ {0} /\ m <= m
    BY <1>2
  <2>2. /\ IsSeq(s) /\ Len(s) = IF 1 <= m THEN m - 1 + 1 ELSE 0
        /\ \A i \in 1 .. m - 1 + 1 : s[i] = a[1 + i - 1]
    BY <1>2, <1>5, <2>1, SeqPart
  <2> HIDE DEF s
  <2>3. QED
    BY <1>2, <2>2
<1>7. /\ IsSeq(t) /\ Len(t) = m
      /\ \A i \in 1 .. m : t[i] = b[i]
  <2>1. 1 \in Nat \ {0} /\ m <= n
    BY <1>2, <1>3
  <2>2. /\ IsSeq(t) /\ Len(t) = IF 1 <= m THEN m - 1 + 1 ELSE 0
        /\ \A i \in 1 .. m - 1 + 1 : t[i] = b[1 + i - 1]
    BY <1>2, <1>5, <2>1, SeqPart
  <2> HIDE DEF t
  <2>3. QED
    BY <1>2, <2>2
<1> HIDE DEF s, t
<1>8. ASSUME NEW i \in 1 .. m PROVE s[i] = t[i]
  <2>1. i \in 1 .. n /\ (m - i) + 1 \in 1 .. m /\ (n - i) + 1 = Len(p) + ((m - i) + 1)
    BY <1>2, <1>3
  <2>2. y[Len(p) + ((m - i) + 1)] = x[(m - i) + 1]
    BY <1>3, <2>1
  <2>3. s[i] = x[(m - i) + 1] /\ t[i] = y[(n - i) + 1]
    BY <1>4, <1>6, <1>7, <2>1
  <2>4. QED
    BY <2>1, <2>2, <2>3
<1>9. s = t
  <2>1. s \in Seq(Range(s) \cup Range(t)) /\ t \in Seq(Range(s) \cup Range(t))
    BY <1>6, <1>7, SeqMonotonic DEF IsSeq
  <2>2. QED
    BY <1>6, <1>7, <1>8, <2>1, SeqEqual
<1>10. m <= n
  BY <1>2, <1>3
<1>11. QED
  BY <1>5, <1>9, <1>10 DEF IsSuffix, IsPrefix, a, b, s, t

-----------------------------------------------------------------------------
(* The call.                                                               *)
Places == {"idle", "send", "sent", "body", "err", "backoff", "ok", "failed", "cancelled"}
Limit  == Max({1, MaxAttempts})

CallShape ==
  /\ ep \in DOMAIN Endpoints /\ pc \in Places
  /\ turn \in 0 .. MaxTurns /\ attempt \in 0 .. Limit /\ (pc = "backoff" => attempt < MaxAttempts)
  /\ pc = "body" => StreamOK(st, TextOf(sent)) /\ st.error = Empty /\ Lined(rest)
  /\ Worded(sent) /\ (pc \notin {"body", "ok"} => sent = <<>>)
  /\ pc = "ok" => Ending(TextOf(result.content), TextOf(sent))

SinkShape == Items(sink) /\ Len(sink) <= DeltaCapacity

(* An event of this turn with a response has the text of the response.     *)
EventShape ==
  /\ Items(events) /\ Len(events) <= EventCapacity
  /\ \A i \in 1 .. Len(events) :
       /\ events[i].turn \in Int /\ events[i].turn <= turn
       /\ events[i].kind = "model_response" /\ events[i].turn = turn =>
            pc = "idle" /\ events[i].text = TextOf(result.content)

(* What the client has got and what is on the way to it ends with the text *)
(* of the attempt, and with the text of the response that the turn keeps.  *)
ShownShape ==
  shown # Gap =>
    /\ shown \in Text
    /\ Ending(TextOf(sent), shown \o Way(sink, turn))
    /\ pc = "idle" /\ outcome = "model_response" =>
         Ending(TextOf(result.content), shown \o Way(sink, turn))

CallInv == CallShape /\ SinkShape /\ EventShape /\ ShownShape

\* The limit of the attempts.
LEMMA LimitIs == Limit \in Nat /\ 1 <= Limit /\ MaxAttempts <= Limit /\ MaxAttempts \in Nat
<1>1. MaxAttempts \in Nat
  BY PolicyAssumption
<1> DEFINE S == {1, MaxAttempts}
<1>2. \E x \in S : \A y \in S : x >= y
  BY <1>1
<1>3. Limit \in S /\ \A y \in S : Limit >= y
  BY <1>2 DEF Limit, Max
<1>4. QED
  BY <1>1, <1>3

\* The text that is shown and on the way.
LEMMA ShownText ==
    ASSUME CallInv, shown # Gap
    PROVE  shown \in Text /\ Way(sink, turn) \in Text /\ shown \o Way(sink, turn) \in Text
<1>1. shown \in Text /\ Items(sink)
  BY DEF CallInv, ShownShape, SinkShape
<1>2. Way(sink, turn) \in Text
  BY <1>1, OnTheWay
<1>3. QED
  BY <1>1, <1>2, TextLaws

\* A step of the call that leaves the channels alone.
LEMMA Quietly ==
    ASSUME CallInv, pc # "idle", pc' # "idle", turn' = turn, UNCHANGED channels, CallShape',
           sent' = sent \/ sent' = <<>>
    PROVE  CallInv'
<1>1. sink' = sink /\ events' = events /\ shown' = shown /\ outcome' = outcome
  BY DEF channels
<1>2. SinkShape'
  BY <1>1 DEF CallInv, SinkShape
<1>3. EventShape'
  BY <1>1 DEF CallInv, EventShape
<1>4. ShownShape'
  <2>1. SUFFICES ASSUME shown # Gap
                 PROVE  shown \in Text /\ Ending(TextOf(sent'), shown \o Way(sink, turn))
    BY <1>1 DEF ShownShape
  <2>2. shown \in Text /\ shown \o Way(sink, turn) \in Text
    BY <2>1, ShownText
  <2>3. Ending(TextOf(sent), shown \o Way(sink, turn))
    BY <2>1 DEF CallInv, ShownShape
  <2>4. Ending(<<>>, shown \o Way(sink, turn))
    BY <2>2, EndingLaws
  <2>5. TextOf(<<>>) = <<>>
    BY TextFew
  <2>6. QED
    BY <2>2, <2>3, <2>4, <2>5
<1>5. QED
  BY <1>2, <1>3, <1>4 DEF CallInv

\* The attempt is over, and what came of it is dropped.
LEMMA Dropped ==
    ASSUME CallInv, pc' \in Places \ {"body", "ok", "backoff"}, sent' = <<>>, ep' = ep, turn' = turn,
           attempt' \in 0 .. Limit
    PROVE  CallShape'
  BY TextFew DEF CallInv, CallShape

\* An event is logged.
LEMMA Logged ==
    ASSUME CallInv, NEW kind, NEW content, TextOf(content) \in Text,
           turn' \in Int, turn <= turn',
           events' = Offer(events, EventOf(kind, turn', content), EventCapacity),
           pc # "idle" \/ turn < turn',
           kind = "model_response" => pc' = "idle" /\ TextOf(content) = TextOf(result'.content)
    PROVE  EventShape'
<1> DEFINE x == EventOf(kind, turn', content)
<1>1. /\ x.text = TextOf(content) /\ x.turn = turn'
      /\ x.kind = "model_response" => kind = "model_response"
  BY DEF EventOf
<1>2. Items(events) /\ Len(events) <= EventCapacity /\ EventCapacity \in Nat \ {0} /\ turn \in Int
  BY PolicyAssumption DEF CallInv, CallShape, EventShape
<1> HIDE DEF x
<1>3. /\ Items(events') /\ Len(events') <= EventCapacity
      /\ \A i \in 1 .. Len(events') : events'[i] = x \/ \E j \in 1 .. Len(events) : events'[i] = events[j]
  BY <1>1, <1>2, Offered DEF x
<1>4. ASSUME NEW i \in 1 .. Len(events')
      PROVE  /\ events'[i].turn \in Int /\ events'[i].turn <= turn'
             /\ events'[i].kind = "model_response" /\ events'[i].turn = turn' =>
                  pc' = "idle" /\ events'[i].text = TextOf(result'.content)
  <2>1. CASE events'[i] = x
    BY <1>1, <2>1
  <2>2. ASSUME NEW j \in 1 .. Len(events), events'[i] = events[j]
        PROVE  /\ events'[i].turn \in Int /\ events'[i].turn <= turn'
               /\ ~ (events'[i].kind = "model_response" /\ events'[i].turn = turn')
    <3>1. /\ events[j].turn \in Int /\ events[j].turn <= turn
          /\ events[j].kind = "model_response" /\ events[j].turn = turn => pc = "idle"
      BY DEF CallInv, EventShape
    <3>2. events[j].turn <= turn' /\ (events[j].turn = turn' => turn = turn')
      BY <1>2, <3>1
    <3>3. QED
      BY <2>2, <3>1, <3>2
  <2>3. QED
    BY <1>3, <2>1, <2>2
<1>5. QED
  BY <1>3, <1>4 DEF EventShape

\* A turn begins: nothing of it is shown yet.
LEMMA RequestShown ==
    ASSUME CallInv, Request
    PROVE  CallInv'
<1>1. /\ pc = "idle" /\ turn' = turn + 1 /\ turn' \in 0 .. MaxTurns /\ attempt' = 1 /\ pc' = "send"
      /\ ep' = ep /\ sent' = sent /\ sink' = sink /\ shown' = <<>>
      /\ events' = Offer(events, EventOf("model_request", turn', <<>>), EventCapacity)
  BY PolicyAssumption DEF Request, CallInv, CallShape
<1>2. CallShape'
  BY <1>1, LimitIs DEF CallInv, CallShape, Places
<1>3. SinkShape'
  BY <1>1 DEF CallInv, SinkShape
<1>4. EventShape'
  <2>1. TextOf(<<>>) \in Text /\ turn' \in Int /\ turn <= turn' /\ turn < turn'
    BY <1>1, TextFew, TextLaws DEF CallInv, CallShape
  <2>2. QED
    BY <1>1, <2>1, Logged
<1>5. ShownShape'
  <2>1. Way(sink, turn') \in Text
    BY OnTheWay DEF CallInv, SinkShape
  <2>2. <<>> \in Text /\ <<>> \o Way(sink, turn') \in Text
    BY <2>1, TextLaws
  <2>3. TextOf(sent') = <<>>
    BY <1>1, TextFew DEF CallInv, CallShape
  <2>4. Ending(<<>>, <<>> \o Way(sink, turn'))
    BY <2>2, EndingLaws
  <2>5. QED
    BY <1>1, <2>2, <2>3, <2>4 DEF ShownShape
<1>6. QED
  BY <1>2, <1>3, <1>4, <1>5 DEF CallInv

\* A call that fails, ends or is cancelled while nothing is handed on.
LEMMA FailureShown ==
    ASSUME CallInv, UNCHANGED channels, UNCHANGED <<ep, turn, attempt>>, pc # "idle",
           pc' \in {"err", "cancelled", "failed"}, sent' = <<>>
    PROVE  CallInv'
<1>1. CallShape'
  <2>1. attempt' \in 0 .. Limit
    BY DEF CallInv, CallShape
  <2>2. QED
    BY <2>1, Dropped DEF Places
<1>2. QED
  BY <1>1, Quietly

\* An answer is refused, or is a stream that starts.
LEMMA AnswerShown ==
    ASSUME CallInv, Answer
    PROVE  CallInv'
<1>1. PICK r \in quirks.replies :
        CASE r.k = "prepare" -> Fails(r.error)
          [] r.k = "host"    -> Fails(classify_host_error(r.error))
          [] r.k = "status"  -> \/ Fails(classify_status(r.status, r.overflow))
                                \/ \E e \in BodyErrors : Fails(classify_host_error(e))
          [] r.k = "stream"  -> /\ pc' = "body" /\ st' = StreamState(quirks.field)
                                /\ rest' = FlattenSeq([i \in DOMAIN r.lines |-> Bytes(r.lines[i])])
                                /\ UNCHANGED <<error, sent>>
  BY DEF Answer
<1>2. pc = "sent" /\ UNCHANGED <<ep, turn, attempt>> /\ UNCHANGED channels
  BY DEF Answer
<1>3. ep \in DOMAIN Endpoints /\ sent = <<>>
  BY <1>2 DEF CallInv, CallShape
<1>4. r.k \in {"prepare", "host", "status", "stream"} /\ (r.k = "stream" => r.lines \in Seq(Line))
  BY <1>3, EndpointsAssumption DEF quirks
<1>5. CASE r.k # "stream"
  <2>1. pc' = "err" /\ sent' = <<>>
    BY <1>1, <1>4, <1>5 DEF Fails, Drop
  <2>2. QED
    BY <1>2, <2>1, FailureShown
<1>6. CASE r.k = "stream"
  <2>1. /\ pc' = "body" /\ st' = StreamState(quirks.field) /\ sent' = sent
        /\ rest' = FlattenSeq([i \in DOMAIN r.lines |-> Bytes(r.lines[i])])
    BY <1>1, <1>6
  <2>2. Lined(rest')
    BY <1>4, <1>6, <2>1, ReplyLined
  <2>3. StreamOK(st', <<>>)
    BY <2>1, StreamStarts
  <2>4. st'.error = Empty
    BY <2>1 DEF StreamState
  <2>5. TextOf(sent') = <<>>
    BY <1>3, <2>1, TextFew
  <2>6. CallShape'
    BY <1>2, <2>1, <2>2, <2>3, <2>4, <2>5 DEF CallInv, CallShape, Places
  <2>7. QED
    BY <1>2, <2>1, <2>6, Quietly
<1>7. QED
  BY <1>5, <1>6

\* Bytes that arrive, or the end of the body.
LEMMA ReadShown ==
    ASSUME CallInv, Deliver \/ Eof
    PROVE  CallInv'
<1>1. pc = "body" /\ UNCHANGED <<ep, turn, attempt>> /\ UNCHANGED channels
  BY DEF Deliver, Eof, Reading
<1>2. StreamOK(st, TextOf(sent)) /\ Lined(rest) /\ TextOf(sent) \in Text
  BY <1>1, TextTyped DEF CallInv, CallShape
<1>3. \E next, left : Takes(next, left) /\ StreamOK(next, TextOf(sent)) /\ Lined(left)
  <2>1. CASE Deliver
    <3>1. PICK n \in 1 .. Len(rest) :
            Takes(StepBytes(st, SubSeq(rest, 1, n), Fallback), SubSeq(rest, n + 1, Len(rest)))
      BY <2>1 DEF Deliver
    <3>2. n \in Nat /\ n <= Len(rest)
      BY <1>2, SeqLen DEF Lined
    <3>3. Lined(SubSeq(rest, 1, n)) /\ Lined(SubSeq(rest, n + 1, Len(rest)))
      BY <1>2, <3>2, LinedPart
    <3>4. StreamOK(StepBytes(st, SubSeq(rest, 1, n), Fallback), TextOf(sent))
      BY <1>2, <3>3, Stepped
    <3>5. QED
      BY <3>1, <3>3, <3>4
  <2>2. CASE Eof
    <3>1. PICK behindPrefix \in BOOLEAN : Takes(StepEof(st, behindPrefix, Fallback), <<>>)
      BY <2>2 DEF Eof
    <3>2. Lined(<<>>)
      BY SeqFew DEF Lined
    <3>3. StreamOK(StepEof(st, behindPrefix, Fallback), TextOf(sent))
      BY <1>2, Stepped
    <3>4. QED
      BY <3>1, <3>2, <3>3
  <2>3. QED
    BY <2>1, <2>2
<1>4. PICK next, left : Takes(next, left) /\ StreamOK(next, TextOf(sent)) /\ Lined(left)
  BY <1>3
<1>5. CASE next.error # Empty
  <2>1. pc' = "err" /\ sent' = <<>>
    BY <1>4, <1>5 DEF Takes, Fails, Drop
  <2>2. QED
    BY <1>1, <2>1, FailureShown
<1>6. CASE next.error = Empty
  <2>1. st' = next /\ rest' = left /\ pc' = pc /\ sent' = sent
    BY <1>4, <1>6 DEF Takes
  <2>2. CallShape'
    BY <1>1, <1>4, <1>6, <2>1 DEF CallInv, CallShape
  <2>3. QED
    BY <1>1, <2>1, <2>2, Quietly
<1>7. QED
  BY <1>5, <1>6

\* A delta is handed on: what is sent of the text is on the way.
LEMMA ForwardShown ==
    ASSUME CallInv, Forward
    PROVE  CallInv'
<1> DEFINE d == Head(st.pending)
           p == st.pending
           q == Tail(st.pending)
           before == TextOf(sent)
           said == st.acc.said["text"]
           x == DeltaOf(turn, d)
<1>1. /\ pc = "body" /\ p # <<>> /\ UNCHANGED <<ep, turn, attempt, rest, events, outcome>>
      /\ st' = [st EXCEPT !.pending = q] /\ sink' = Offer(sink, x, DeltaCapacity)
      /\ shown' = After(shown, sink, DeltaCapacity) /\ sent' = Append(sent, d)
      /\ IF d.t = "complete" THEN pc' = "ok" /\ result' = d.response ELSE pc' = pc /\ result' = result
  BY DEF Forward
<1>2. StreamOK(st, before) /\ st.error = Empty /\ Lined(rest) /\ Worded(sent)
  BY <1>1 DEF CallInv, CallShape
<1>3. /\ Worded(p) /\ before \o TextOf(p) = said /\ DOMAIN st = StreamFields /\ Closes(st)
      /\ \A i \in 1 .. Len(p) : p[i].t = "complete" =>
           ~ st.live /\ i = Len(p) /\ Ending(TextOf(p[i].response.content), said)
  BY <1>2 DEF StreamOK
<1>4. Worded(q) /\ Part(d) \in Text /\ TextOf(p) = Part(d) \o TextOf(q)
  BY <1>1, <1>3, TextTail
<1>5. /\ IsSeq(p) /\ Len(p) \in Nat /\ Len(p) # 0 /\ d = p[1] /\ 1 \in 1 .. Len(p)
      /\ Len(q) = Len(p) - 1 /\ \A i \in 1 .. Len(q) : q[i] = p[i + 1]
  <2>1. IsSeq(p) /\ Len(p) \in Nat
    BY <1>3, SeqLen DEF Worded
  <2>2. Len(p) # 0
    BY <1>1, <2>1, EmptySeq DEF IsSeq
  <2>3. d = p[1] /\ Len(q) = Len(p) - 1 /\ \A i \in 1 .. Len(q) : q[i] = p[i + 1]
    BY <1>1, <2>1, HeadTailProperties DEF IsSeq
  <2>4. QED
    BY <2>1, <2>2, <2>3
<1>6. Worded(sent') /\ TextOf(sent') = before \o Part(d) /\ before \in Text /\ TextOf(q) \in Text
  <2>1. before \in Text /\ TextOf(q) \in Text
    BY <1>2, <1>4, TextTyped
  <2>2. QED
    BY <1>1, <1>2, <1>4, <2>1, TextAppend
<1>7. TextOf(sent') \o TextOf(q) = said
  <2>1. (before \o Part(d)) \o TextOf(q) = before \o (Part(d) \o TextOf(q))
    BY <1>4, <1>6, TextLaws
  <2>2. QED
    BY <1>3, <1>4, <1>6, <2>1
<1>8. x.text = Part(d) /\ x.turn = turn
  BY DEF DeltaOf, Part
<1> HIDE DEF d, p, q, before, said, x
<1>9. /\ DOMAIN st' = StreamFields /\ st'.parser = st.parser /\ st'.acc = st.acc /\ st'.pending = q
      /\ st'.live = st.live /\ st'.done = st.done /\ st'.error = st.error
  BY <1>1, <1>3 DEF StreamFields
<1>10. CallShape'
  <2>1. CASE d.t = "complete"
    <3>1. Len(p) = 1 /\ Ending(TextOf(d.response.content), said)
      BY <1>3, <1>5, <2>1
    <3>2. Len(q) = 0
      BY <1>5, <3>1
    <3>3. q = <<>>
      BY <1>4, <3>2, EmptySeq DEF Worded, IsSeq
    <3>4. TextOf(q) = <<>> /\ TextOf(sent') \in Text
      BY <1>6, <3>3, TextFew, TextTyped
    <3>5. TextOf(sent') = said
      BY <1>7, <3>4, TextLaws
    <3>6. pc' = "ok" /\ result' = d.response
      BY <1>1, <2>1
    <3>7. QED
      BY <1>1, <1>6, <3>1, <3>5, <3>6 DEF CallInv, CallShape, Places
  <2>2. CASE d.t # "complete"
    <3>1. \A i \in 1 .. Len(q) : q[i].t = "complete" =>
            ~ st.live /\ i = Len(q) /\ Ending(TextOf(q[i].response.content), said)
      <4>1. TAKE i \in 1 .. Len(q)
      <4>2. i + 1 \in 1 .. Len(p) /\ q[i] = p[i + 1] /\ (i + 1 = Len(p) => i = Len(q))
        BY <1>5
      <4>3. QED
        BY <1>3, <4>2
    <3>2. Closes(st')
      <4>1. SUFFICES ASSUME st.done PROVE Len(q) # 0 /\ q[Len(q)].t = "complete"
        BY <1>2, <1>9 DEF Closes, Last
      <4>2. p[Len(p)].t = "complete"
        BY <1>2, <1>3, <4>1 DEF Closes, Last, p
      <4>3. Len(p) # 1
        BY <1>5, <2>2, <4>2
      <4>4. Len(q) \in 1 .. Len(q) /\ Len(q) # 0 /\ Len(q) + 1 = Len(p)
        BY <1>5, <4>3
      <4>5. QED
        BY <1>5, <4>2, <4>4
    <3>3. StreamOK(st', TextOf(sent'))
      BY <1>2, <1>4, <1>7, <1>9, <3>1, <3>2 DEF StreamOK, said
    <3>4. pc' = "body"
      BY <1>1, <2>2
    <3>5. QED
      BY <1>1, <1>2, <1>6, <1>9, <3>3, <3>4 DEF CallInv, CallShape
  <2>3. QED
    BY <2>1, <2>2
<1>11. /\ Items(sink') /\ Len(sink') <= DeltaCapacity
       /\ shown' # Gap => shown' = shown /\ Way(sink', turn) = Way(sink, turn) \o Part(d)
  <2>1. Items(sink) /\ Len(sink) <= DeltaCapacity /\ DeltaCapacity \in Nat \ {0}
    BY PolicyAssumption DEF CallInv, SinkShape
  <2>2. x.text \in Text /\ Brings(x, turn) = Part(d)
    BY <1>4, <1>8 DEF Brings
  <2>3. QED
    BY <1>1, <2>1, <2>2, Offered
<1>12. EventShape'
  <2>1. events' = events /\ turn' = turn /\ pc # "idle"
    BY <1>1
  <2>2. QED
    BY <2>1 DEF CallInv, EventShape
<1>13. ShownShape'
  <2>1. pc' # "idle" /\ turn' = turn
    BY <1>1
  <2>2. SUFFICES ASSUME shown' # Gap
                 PROVE  shown' \in Text /\ Ending(TextOf(sent'), shown' \o Way(sink', turn))
    BY <2>1 DEF ShownShape
  <2>3. shown' = shown /\ shown # Gap /\ Way(sink', turn) = Way(sink, turn) \o Part(d)
    BY <1>11, <2>2
  <2>4. shown \in Text /\ Way(sink, turn) \in Text
    BY <2>3, ShownText
  <2>5. Ending(before, shown \o Way(sink, turn))
    BY <2>3 DEF CallInv, ShownShape, before
  <2>6. Ending(before \o Part(d), (shown \o Way(sink, turn)) \o Part(d))
    BY <1>4, <2>5, EndingGrows
  <2>7. (shown \o Way(sink, turn)) \o Part(d) = shown \o (Way(sink, turn) \o Part(d))
    BY <1>4, <2>4, TextLaws
  <2>8. QED
    BY <1>6, <2>3, <2>4, <2>6, <2>7
<1>14. QED
  BY <1>10, <1>11, <1>12, <1>13 DEF CallInv, SinkShape

\* The retry is logged, or the call is over.
LEMMA AfterErrorShown ==
    ASSUME CallInv, AfterError
    PROVE  CallInv'
<1>1. pc = "err" /\ UNCHANGED <<ep, turn, attempt, sent, result>>
  BY DEF AfterError
<1>2. sent = <<>>
  BY <1>1 DEF CallInv, CallShape
<1>3. CASE ~ (~ token /\ retryable(error) /\ attempt < MaxAttempts)
  <2>1. pc' \in {"cancelled", "failed"} /\ UNCHANGED channels
    BY <1>3 DEF AfterError
  <2>2. QED
    BY <1>1, <1>2, <2>1, FailureShown
<1>4. CASE ~ token /\ retryable(error) /\ attempt < MaxAttempts
  <2>1. pc' = "backoff" /\ Log("provider_retry", <<>>)
    BY <1>4 DEF AfterError
  <2>2. /\ events' = Offer(events, EventOf("provider_retry", turn, <<>>), EventCapacity)
        /\ shown' = After(shown, events, EventCapacity) /\ sink' = sink
    BY <2>1 DEF Log
  <2>3. CallShape'
    BY <1>1, <1>2, <1>4, <2>1 DEF CallInv, CallShape, Places
  <2>4. EventShape'
    <3>1. TextOf(<<>>) \in Text /\ turn' \in Int /\ turn <= turn' /\ turn' = turn
      BY <1>1, TextFew, TextLaws DEF CallInv, CallShape
    <3>2. QED
      BY <1>1, <2>2, <3>1, Logged
  <2>5. ShownShape'
    <3>1. shown' # Gap => shown' = shown
      BY <2>2 DEF After
    <3>2. QED
      BY <1>1, <2>1, <2>2, <3>1 DEF CallInv, ShownShape
  <2>6. SinkShape'
    BY <2>2 DEF CallInv, SinkShape
  <2>7. QED
    BY <2>3, <2>4, <2>5, <2>6 DEF CallInv
<1>5. QED
  BY <1>3, <1>4

\* The turn goes on with the response, whose text is shown or on the way, or it is over.
LEMMA ConcludeShown ==
    ASSUME CallInv, Conclude
    PROVE  CallInv'
<1>1. /\ pc \in {"ok", "failed", "cancelled"} /\ pc' = "idle" /\ attempt' = 0 /\ sent' = <<>>
      /\ UNCHANGED <<ep, turn>>
      /\ \/ pc = "ok" /\ Log("model_response", result.content) /\ result' = result
         \/ \E kind : kind \in {"turn_failed", "cancelled"} /\ Log(kind, <<>>)
  BY DEF Conclude, Drop
<1>2. PICK kind, content :
        /\ Log(kind, content)
        /\ \/ pc = "ok" /\ kind = "model_response" /\ content = result.content /\ result' = result
           \/ kind \in {"turn_failed", "cancelled"} /\ content = <<>>
  BY <1>1
<1>3. /\ events' = Offer(events, EventOf(kind, turn, content), EventCapacity)
      /\ shown' = After(shown, events, EventCapacity) /\ sink' = sink /\ outcome' = kind
  BY <1>2 DEF Log
<1>4. CallShape'
  <2>1. attempt' \in 0 .. Limit
    BY <1>1, LimitIs
  <2>2. QED
    BY <1>1, <2>1, Dropped DEF Places
<1>5. SinkShape'
  BY <1>3 DEF CallInv, SinkShape
<1>6. kind = "model_response" => /\ pc = "ok" /\ content = result.content /\ result' = result
                                 /\ Ending(TextOf(result.content), TextOf(sent))
  BY <1>2 DEF CallInv, CallShape
<1>7. EventShape'
  <2>1. TextOf(content) \in Text
    <3>1. TextOf(<<>>) \in Text
      BY TextFew, TextLaws
    <3>2. QED
      BY <1>2, <1>6, <3>1 DEF Ending
  <2>2. turn' \in Int /\ turn <= turn' /\ turn' = turn /\ pc # "idle"
    BY <1>1 DEF CallInv, CallShape
  <2>3. kind = "model_response" => pc' = "idle" /\ TextOf(content) = TextOf(result'.content)
    BY <1>1, <1>6
  <2>4. QED
    BY <1>3, <2>1, <2>2, <2>3, Logged
<1>8. ShownShape'
  <2>1. SUFFICES ASSUME shown' # Gap
                 PROVE  /\ shown' \in Text /\ Ending(TextOf(sent'), shown' \o Way(sink', turn'))
                        /\ outcome' = "model_response" =>
                             Ending(TextOf(result'.content), shown' \o Way(sink', turn'))
    BY DEF ShownShape
  <2>2. shown' = shown /\ shown # Gap /\ sink' = sink /\ turn' = turn
    BY <1>1, <1>3, <2>1 DEF After
  <2>3. shown \in Text /\ shown \o Way(sink, turn) \in Text
    BY <2>2, ShownText
  <2>4. TextOf(sent') = <<>> /\ Ending(<<>>, shown \o Way(sink, turn))
    BY <1>1, <2>3, TextFew, EndingLaws
  <2>5. outcome' = "model_response" => Ending(TextOf(result'.content), shown \o Way(sink, turn))
    <3>1. HAVE outcome' = "model_response"
    <3>2. result' = result /\ Ending(TextOf(result.content), TextOf(sent))
      BY <1>3, <1>6, <3>1
    <3>3. Ending(TextOf(sent), shown \o Way(sink, turn))
      BY <2>2 DEF CallInv, ShownShape
    <3>4. Ending(TextOf(result.content), shown \o Way(sink, turn))
      BY <3>2, <3>3, EndingLaws
    <3>5. QED
      BY <3>2, <3>4
  <2>6. QED
    BY <2>2, <2>3, <2>4, <2>5
<1>9. QED
  BY <1>4, <1>5, <1>7, <1>8 DEF CallInv

\* What is shown next was on the way.
LEMMA DeltaShown ==
    ASSUME CallInv, ProjectDelta
    PROVE  CallInv'
<1> DEFINE d == Head(sink)
<1>1. /\ sink # <<>> /\ Show(d.turn, d.text) /\ sink' = Tail(sink)
      /\ UNCHANGED <<ep, pc, turn, attempt, rest, st, result, events, sent, outcome>>
  BY DEF ProjectDelta
<1>2. Items(sink) /\ Len(sink) <= DeltaCapacity
  BY DEF CallInv, SinkShape
<1>3. /\ Items(sink') /\ Len(sink') = Len(sink) - 1 /\ Len(sink) \in Nat
      /\ d.text \in Text /\ Brings(d, turn) \in Text
      /\ Way(sink, turn) = Brings(d, turn) \o Way(sink', turn)
  BY <1>1, <1>2, OnTheWay, SeqLen DEF Items
<1> HIDE DEF d
<1>4. CallShape'
  BY <1>1 DEF CallInv, CallShape
<1>5. SinkShape'
  <2>1. Len(sink') <= DeltaCapacity
    BY <1>2, <1>3, PolicyAssumption
  <2>2. QED
    BY <1>3, <2>1 DEF SinkShape
<1>6. EventShape'
  BY <1>1 DEF CallInv, EventShape
<1>7. ShownShape'
  <2>1. SUFFICES ASSUME shown' # Gap
                 PROVE  shown' \in Text /\ shown # Gap /\ shown' \o Way(sink', turn) = shown \o Way(sink, turn)
    BY <1>1 DEF CallInv, ShownShape
  <2>2. shown # Gap /\ shown' = IF d.turn = turn THEN shown \o d.text ELSE shown
    BY <1>1, <2>1 DEF Show
  <2>3. shown \in Text /\ Way(sink', turn) \in Text
    BY <1>3, <2>2, ShownText, OnTheWay
  <2>4. shown' = shown \o Brings(d, turn)
    BY <2>2, <2>3, TextLaws DEF Brings
  <2>5. /\ shown' \in Text
        /\ (shown \o Brings(d, turn)) \o Way(sink', turn) = shown \o (Brings(d, turn) \o Way(sink', turn))
    BY <1>3, <2>3, <2>4, TextLaws
  <2>6. QED
    BY <1>3, <2>2, <2>4, <2>5
<1>8. QED
  BY <1>4, <1>5, <1>6, <1>7 DEF CallInv

\* An event shows the text of its response once more, or nothing.
LEMMA EventShown ==
    ASSUME CallInv, ProjectEvent
    PROVE  CallInv'
<1> DEFINE e == Head(events)
<1>1. /\ sink = <<>> /\ events # <<>> /\ events' = Tail(events)
      /\ UNCHANGED <<ep, pc, turn, attempt, rest, st, result, sink, sent, outcome>>
      /\ (e.kind = "model_response" /\ Show(e.turn, e.text)) \/ shown' = shown
  BY DEF ProjectEvent
<1>2. /\ Items(events) /\ Len(events) <= EventCapacity /\ Len(events) \in Nat
      /\ \A i \in 1 .. Len(events) :
           /\ events[i].turn \in Int /\ events[i].turn <= turn
           /\ events[i].kind = "model_response" /\ events[i].turn = turn =>
                pc = "idle" /\ events[i].text = TextOf(result.content)
  BY SeqLen DEF CallInv, EventShape, Items
<1>3. /\ Items(events') /\ Len(events') = Len(events) - 1 /\ e.text \in Text
      /\ \A i \in 1 .. Len(events') : events'[i] = events[i + 1]
  BY <1>1, <1>2, OnTheWay
<1>4. CallShape'
  BY <1>1 DEF CallInv, CallShape
<1>5. SinkShape'
  BY <1>1 DEF CallInv, SinkShape
<1>6. EventShape'
  <2>1. \A i \in 1 .. Len(events') : i + 1 \in 1 .. Len(events)
    BY <1>2, <1>3
  <2>2. Len(events') <= EventCapacity
    BY <1>2, <1>3, PolicyAssumption
  <2>3. QED
    BY <1>1, <1>2, <1>3, <2>1, <2>2 DEF EventShape
<1>7. ShownShape'
  <2>1. CASE shown' = shown
    BY <1>1, <2>1 DEF CallInv, ShownShape
  <2>2. CASE shown' # shown
    <3>1. /\ e.kind = "model_response" /\ e.turn = turn /\ shown # Gap /\ shown' = shown \o e.text
      BY <1>1, <2>2 DEF Show
    <3>2. e = events[1] /\ 1 \in 1 .. Len(events)
      <4>1. IsSeq(events) /\ Len(events) # 0
        BY <1>1, <1>2, EmptySeq DEF Items, IsSeq
      <4>2. QED
        BY <1>1, <1>2, <4>1, HeadTailProperties DEF IsSeq
    <3> HIDE DEF e
    <3>3. pc = "idle" /\ e.text = TextOf(result.content)
      BY <1>2, <3>1, <3>2
    <3>4. shown \in Text /\ Way(sink, turn) = <<>>
      BY <1>1, <3>1, ShownText, OnTheWay DEF CallInv, SinkShape
    <3>5. shown' \in Text /\ shown' \o Way(sink, turn) = shown'
      BY <1>3, <3>1, <3>4, TextLaws
    <3>6. Ending(e.text, shown') /\ Ending(<<>>, shown')
      BY <1>3, <3>1, <3>4, <3>5, EndingLaws
    <3>7. TextOf(sent) = <<>>
      BY <3>3, TextFew DEF CallInv, CallShape
    <3>8. QED
      BY <1>1, <3>3, <3>5, <3>6, <3>7 DEF ShownShape
  <2>3. QED
    BY <2>1, <2>2
<1>8. QED
  BY <1>4, <1>5, <1>6, <1>7 DEF CallInv

-----------------------------------------------------------------------------
(* Whatever a call does, what the client has got and what is on the way to *)
(* it ends with the text of the attempt (Deliver, Forward), and, once the  *)
(* turn has its response, with the text of that (Conclude, project_task),  *)
(* unless a channel has overrun.                                           *)
THEOREM CallInvariant == Spec => []CallInv
<1>1. Init => CallInv
  <2> SUFFICES ASSUME Init PROVE CallInv
    OBVIOUS
  <2>1. CallShape
    BY TextFew, LimitIs, PolicyAssumption DEF Init, CallShape, Places
  <2>2. Items(<<>>) /\ Len(<<>>) = 0
    BY SeqFew DEF Items
  <2>3. SinkShape /\ EventShape
    BY <2>2, PolicyAssumption DEF Init, SinkShape, EventShape
  <2>4. ShownShape
    <3>1. Way(<<>>, turn) = <<>> /\ TextOf(<<>>) = <<>> /\ <<>> \in Text /\ <<>> \o <<>> = <<>>
      BY <2>2, OnTheWay, TextFew, TextLaws
    <3>2. Ending(<<>>, <<>>)
      BY <3>1, EndingLaws
    <3>3. outcome # "model_response"
      BY DEF Init, Empty
    <3>4. sent = <<>> /\ shown = <<>> /\ sink = <<>>
      BY DEF Init
    <3>5. QED
      BY <3>1, <3>2, <3>3, <3>4 DEF ShownShape
  <2>5. QED
    BY <2>1, <2>3, <2>4 DEF CallInv
<1>2. CallInv /\ [Next]_vars => CallInv'
  <2> SUFFICES ASSUME CallInv, [Next]_vars PROVE CallInv'
    OBVIOUS
  <2>1. CASE Request
    BY <2>1, RequestShown
  <2>2. CASE Cancel
    <3>1. pc # "idle" /\ UNCHANGED <<ep, pc, turn, attempt, rest, st, result, sent>> /\ UNCHANGED channels
      BY <2>2 DEF Cancel
    <3>2. CallShape'
      BY <3>1 DEF CallInv, CallShape
    <3>3. QED
      BY <3>1, <3>2, Quietly
  <2>3. CASE CancelSeen
    <3>1. /\ pc # "idle" /\ pc' = "cancelled" /\ sent' = <<>>
          /\ UNCHANGED <<ep, turn, attempt>> /\ UNCHANGED channels
      BY <2>3 DEF CancelSeen, Drop
    <3>2. QED
      BY <3>1, FailureShown
  <2>4. CASE Send
    <3>1. /\ pc = "send" /\ pc' = "sent" /\ UNCHANGED <<ep, turn, attempt, sent>> /\ UNCHANGED channels
      BY <2>4 DEF Send
    <3>2. CallShape'
      BY <3>1 DEF CallInv, CallShape, Places
    <3>3. QED
      BY <3>1, <3>2, Quietly
  <2>5. CASE Answer
    BY <2>5, AnswerShown
  <2>6. CASE Deliver \/ Eof
    BY <2>6, ReadShown
  <2>7. CASE BodyError \/ Timeout
    <3>1. /\ pc # "idle" /\ pc' = "err" /\ sent' = <<>>
          /\ UNCHANGED <<ep, turn, attempt>> /\ UNCHANGED channels
      BY <2>7 DEF BodyError, Timeout, Reading, Fails, Drop
    <3>2. QED
      BY <3>1, FailureShown
  <2>8. CASE Forward
    BY <2>8, ForwardShown
  <2>9. CASE AfterError
    BY <2>9, AfterErrorShown
  <2>10. CASE RetryNotLogged
    <3>1. /\ pc = "err" /\ pc' = "failed" /\ sent' = sent
          /\ UNCHANGED <<ep, turn, attempt>> /\ UNCHANGED channels
      BY <2>10 DEF RetryNotLogged
    <3>2. sent = <<>>
      BY <3>1 DEF CallInv, CallShape
    <3>3. QED
      BY <3>1, <3>2, FailureShown
  <2>11. CASE Wake
    <3>1. /\ pc = "backoff" /\ pc' = "send" /\ attempt' = attempt + 1
          /\ UNCHANGED <<ep, turn, sent>> /\ UNCHANGED channels
      BY <2>11 DEF Wake
    <3>2. attempt' \in 0 .. Limit
      BY <3>1, LimitIs DEF CallInv, CallShape
    <3>3. CallShape'
      BY <3>1, <3>2 DEF CallInv, CallShape, Places
    <3>4. QED
      BY <3>1, <3>3, Quietly
  <2>12. CASE Conclude
    BY <2>12, ConcludeShown
  <2>13. CASE ProjectDelta
    BY <2>13, DeltaShown
  <2>14. CASE ProjectEvent
    BY <2>14, EventShown
  <2>15. CASE UNCHANGED vars
    BY <2>15 DEF vars, CallInv, CallShape, SinkShape, EventShape, ShownShape
  <2>16. QED
    BY <2>1, <2>2, <2>3, <2>4, <2>5, <2>6, <2>7, <2>8, <2>9, <2>10, <2>11, <2>12, <2>13, <2>14, <2>15
       DEF Next
<1>3. QED
  BY <1>1, <1>2, PTL DEF Spec

(* The counters of a call keep within the policy, the channels within      *)
(* their capacities, and a stream that is done still has its Complete to   *)
(* hand on, whatever the endpoint sent: one_attempt never ends without it. *)
THEOREM CallTyped == Spec => []TypeOK
<1>1. CallInv => TypeOK
  <2> SUFFICES ASSUME CallInv PROVE TypeOK
    OBVIOUS
  <2>1. pc = "body" /\ st.done => st.pending # <<>> /\ Last(st.pending).t = "complete"
    <3>1. HAVE pc = "body" /\ st.done
    <3>2. Len(st.pending) # 0 /\ Last(st.pending).t = "complete"
      BY <3>1 DEF CallInv, CallShape, StreamOK, Closes
    <3>3. st.pending # <<>>
      BY <3>2, SeqFew
    <3>4. QED
      BY <3>2, <3>3
  <2>2. QED
    BY <2>1 DEF CallInv, CallShape, SinkShape, EventShape, TypeOK, Places, Limit
<1>2. QED
  BY <1>1, CallInvariant, PTL

(* The text of the response that a turn has kept is the last that the      *)
(* client was shown, unless a channel has overrun in this turn.            *)
THEOREM ResponseShown == Spec => []TextShown
<1>1. CallInv => TextShown
  <2> SUFFICES ASSUME CallInv, AllProjected, shown # Gap, outcome = "model_response"
               PROVE  IsSuffix(TextOf(result.content), shown)
    BY DEF TextShown
  <2>1. Ending(TextOf(result.content), shown \o Way(sink, turn))
    BY DEF AllProjected, CallInv, ShownShape
  <2>2. shown \in Text /\ Way(sink, turn) = <<>>
    BY ShownText, OnTheWay DEF AllProjected, CallInv, SinkShape
  <2>3. Ending(TextOf(result.content), shown)
    BY <2>1, <2>2, TextLaws
  <2>4. QED
    BY <2>3, EndingIsSuffix
<1>2. QED
  BY <1>1, CallInvariant, PTL
=============================================================================
