---------------------------- MODULE Framing_proofs ----------------------------
(***************************************************************************)
(* Theorems about Framing, for reads and limits of any size and streams of *)
(* any length.  The lines of a text, and sequences put together, are       *)
(* recursive functions; what holds of them is proved by induction, which   *)
(* is made of the fact that the finite subsets of a set are well founded.  *)
(***************************************************************************)
EXTENDS Framing, SequenceTheorems, FiniteSetTheorems, WellFoundedInduction, TLAPS

(* Induction *)

LEMMA SubsetInduction ==
  ASSUME NEW S, IsFiniteSet(S), NEW Good,
         \A T \in SUBSET S : (\A U \in SUBSET T : U # T => U \in Good) => T \in Good
  PROVE  SUBSET S \subseteq Good
<1>1. IsWellFoundedOn(StrictSubsetOrdering(S), SUBSET S)
  BY FS_StrictSubsetOrderingWellFounded, FS_FiniteSubsetsOfFinite
<1> DEFINE Bad == (SUBSET S) \ Good
<1> SUFFICES ASSUME Bad # {} PROVE FALSE
  OBVIOUS
<1>2. Bad \subseteq SUBSET S
  OBVIOUS
<1> HIDE DEF Bad
<1>3. PICK T \in Bad : \A U \in Bad : <<U, T>> \notin StrictSubsetOrdering(S)
  BY <1>1, <1>2, WFMin
<1>4. \A U \in SUBSET T : U # T => U \in Good
  BY <1>2, <1>3 DEF Bad, StrictSubsetOrdering
<1> QED
  BY <1>2, <1>3, <1>4 DEF Bad

LEMMA Greatest ==
  ASSUME NEW n \in Nat, NEW S \in SUBSET (0..n), S # {}
  PROVE  LastOf(S) \in S /\ \A m \in S : m <= LastOf(S)
<1> DEFINE D == 0..n
           Good == {T \in SUBSET D : T # {} => \E m \in T : \A k \in T : k <= m}
<1>1. ASSUME NEW T \in SUBSET D, \A U \in SUBSET T : U # T => U \in Good
      PROVE  T \in Good
  <2> SUFFICES ASSUME NEW x \in T PROVE \E m \in T : \A k \in T : k <= m
    OBVIOUS
  <2>1. T \ {x} \in Good
    BY <1>1
  <2>2. CASE T \ {x} = {}
    <3>1. \A k \in T : k = x
      BY <2>2
    <3> QED
      BY <3>1
  <2>3. CASE T \ {x} # {}
    <3>1. PICK m \in T \ {x} : \A k \in T \ {x} : k <= m
      BY <2>1, <2>3
    <3>2. x \in Int /\ m \in Int
      OBVIOUS
    <3>3. CASE x <= m
      BY <3>1, <3>3
    <3>4. CASE m <= x
      BY <3>1, <3>4
    <3> QED
      BY <3>2, <3>3, <3>4
  <2> QED
    BY <2>2, <2>3
<1>2. IsFiniteSet(D) /\ S \in SUBSET D
  BY FS_Interval
<1> HIDE DEF D, Good
<1>5. SUBSET D \subseteq Good
  BY <1>1, <1>2, SubsetInduction
<1>3. S \in Good
  BY <1>2, <1>5
<1>4. \E m \in S : \A k \in S : k <= m
  BY <1>3 DEF Good
<1> QED
  BY <1>4 DEF LastOf

LEMMA Induction ==
  ASSUME NEW S, 0 \in S, \A n \in Nat : n \in S => n + 1 \in S
  PROVE  Nat \subseteq S
<1> SUFFICES ASSUME NEW n \in Nat, n \notin S PROVE FALSE
  OBVIOUS
<1>1. PICK T : T = {m \in 0..n : m \in S}
  OBVIOUS
<1>2. T \in SUBSET (0..n) /\ T # {}
  BY <1>1
<1>3. PICK m \in T : \A k \in T : k <= m
  BY <1>2, Greatest
<1>4. m \in 0..n /\ m \in S /\ m # n
  BY <1>1
<1>5. m + 1 \in T
  BY <1>1, <1>4
<1> QED
  BY <1>3, <1>4, <1>5

-----------------------------------------------------------------------------
(* Lines *)

Text == Seq(Byte)

(* LinesOf(text, Trimmed), position by position. *)
With(text, n, before) ==
  IF text[n] = "\n" THEN WithLine(before, Trimmed(LineAt(text, n))) ELSE before
Obeys(f, text) ==
  f = [n \in 0..Len(text) |-> IF n = 0 THEN <<>> ELSE With(text, n, f[n - 1])]
UpTo(text) == CHOOSE f : Obeys(f, text)

LEMMA TakeLinesIs ==
  ASSUME NEW text
  PROVE  TakeLines(text) = UpTo(text)[Len(text)]
BY DEF TakeLines, LinesOf, UpTo, Obeys, With

LEMMA UpToObeys ==
  ASSUME NEW text \in Text
  PROVE  Obeys(UpTo(text), text)
<1> DEFINE Until(f, k) ==
      f = [n \in 0..k |-> IF n = 0 THEN <<>> ELSE With(text, n, f[n - 1])]
    S == {k \in Nat : \E f : Until(f, k)}
<1>1. 0 \in S
  <2>1. Until([n \in 0..0 |-> <<>>], 0)
    OBVIOUS
  <2> QED
    BY <2>1
<1>2. ASSUME NEW k \in Nat, k \in S PROVE k + 1 \in S
  <2>1. PICK f : Until(f, k)
    BY <1>2
  <2> DEFINE g == [n \in 0..(k + 1) |-> IF n = k + 1 THEN With(text, n, f[k]) ELSE f[n]]
  <2>2. \A n \in 0..k : f[n] = IF n = 0 THEN <<>> ELSE With(text, n, f[n - 1])
    BY <2>1
  <2>3. \A n \in 0..(k + 1) : g[n] = IF n = 0 THEN <<>> ELSE With(text, n, g[n - 1])
    BY <2>2
  <2>4. Until(g, k + 1)
    BY <2>3
  <2> HIDE DEF g, Until
  <2>5. \E h : Until(h, k + 1)
    BY <2>4
  <2> QED
    BY <2>5
<1> HIDE DEF S
<1>3. Nat \subseteq S
  BY <1>1, <1>2, Induction
<1>4. Len(text) \in S
  BY <1>3 DEF Text
<1>5. \E f : Obeys(f, text)
  BY <1>4 DEF S, Obeys
<1> QED
  BY <1>5 DEF UpTo

LEMMA UpToSteps ==
  ASSUME NEW text \in Text
  PROVE  /\ UpTo(text)[0] = <<>>
         /\ \A n \in 1..Len(text) : UpTo(text)[n] = With(text, n, UpTo(text)[n - 1])
<1>1. \A n \in 0..Len(text) : UpTo(text)[n] = IF n = 0 THEN <<>> ELSE With(text, n, UpTo(text)[n - 1])
  BY UpToObeys DEF Obeys
<1> QED
  BY <1>1 DEF Text

(* The last line break before n, or 0. *)
Start(text, n) == LastOf(BreaksBefore(text, n))

LEMMA StartIs ==
  ASSUME NEW text \in Text, NEW n \in 1..(Len(text) + 1)
  PROVE  /\ Start(text, n) \in 0..(n - 1)
         /\ Start(text, n) # 0 => text[Start(text, n)] = "\n"
         /\ \A m \in 1..Len(text) : text[m] = "\n" /\ m < n => m <= Start(text, n)
<1>1. BreaksBefore(text, n) \in SUBSET (0..n) /\ BreaksBefore(text, n) # {} /\ n \in Nat
  BY DEF BreaksBefore, Breaks, Text
<1>2. /\ Start(text, n) \in BreaksBefore(text, n)
      /\ \A m \in BreaksBefore(text, n) : m <= Start(text, n)
  BY <1>1, Greatest DEF Start
<1> QED
  BY <1>2 DEF BreaksBefore, Breaks, Text

LEMMA StartIsOnly ==
  ASSUME NEW text \in Text, NEW n \in 1..(Len(text) + 1), NEW k \in 0..(n - 1),
         k # 0 => text[k] = "\n",
         \A m \in 1..Len(text) : text[m] = "\n" /\ m < n => m <= k
  PROVE  Start(text, n) = k
<1>1. k # 0 => k <= Start(text, n)
  BY StartIs DEF Text
<1>2. Start(text, n) # 0 => Start(text, n) <= k
  BY StartIs DEF Text
<1>3. Start(text, n) \in 0..(n - 1)
  BY StartIs
<1> QED
  BY <1>1, <1>2, <1>3

LEMMA RestIs ==
  ASSUME NEW text \in Text
  PROVE  Rest(text) = SubSeq(text, Start(text, Len(text) + 1) + 1, Len(text))
<1>1. Breaks(text) \cup {0} = BreaksBefore(text, Len(text) + 1)
  BY DEF BreaksBefore, Breaks, Text
<1> QED
  BY <1>1 DEF Rest, Start

LEMMA LineTyped ==
  ASSUME NEW text \in Text, NEW n \in 1..(Len(text) + 1)
  PROVE  LineAt(text, n) \in Text /\ Trimmed(LineAt(text, n)) \in Text
<1>1. LineAt(text, n) \in Text
  BY StartIs DEF LineAt, Start, Text
<1>2. ASSUME NEW line \in Text PROVE Trimmed(line) \in Text
  <2> DEFINE S == {m \in DOMAIN line : line[m] # "\r"} \cup {0}
  <2>1. S \in SUBSET (0..Len(line)) /\ S # {} /\ Len(line) \in Nat
    BY DEF Text
  <2> HIDE DEF S
  <2>2. LastOf(S) \in 0..Len(line)
    BY <2>1, Greatest
  <2>3. Trimmed(line) = SubSeq(line, 1, LastOf(S))
    BY DEF Trimmed, S
  <2> QED
    BY <2>2, <2>3 DEF Text
<1> QED
  BY <1>1, <1>2

LEMMA UpToTyped ==
  ASSUME NEW text \in Text, NEW n \in 0..Len(text)
  PROVE  UpTo(text)[n] \in Seq(Text)
<1> DEFINE S == {k \in Nat : k <= Len(text) => UpTo(text)[k] \in Seq(Text)}
<1>1. 0 \in S
  <2>1. UpTo(text)[0] = <<>> /\ <<>> \in Seq(Text)
    BY UpToSteps
  <2> QED
    BY <2>1
<1>2. ASSUME NEW k \in Nat, k \in S PROVE k + 1 \in S
  <2>1. SUFFICES ASSUME k + 1 <= Len(text) PROVE UpTo(text)[k + 1] \in Seq(Text)
    OBVIOUS
  <2>2. k + 1 \in 1..Len(text) /\ k + 1 \in 1..(Len(text) + 1) /\ (k + 1) - 1 = k /\ k <= Len(text)
    BY <2>1 DEF Text
  <2>3. UpTo(text)[k + 1] = With(text, k + 1, UpTo(text)[k])
    BY <2>2, UpToSteps
  <2>4. UpTo(text)[k] \in Seq(Text) /\ Trimmed(LineAt(text, k + 1)) \in Text
    BY <1>2, <2>2, LineTyped
  <2> HIDE DEF S
  <2> QED
    BY <2>3, <2>4 DEF With, WithLine
<1> HIDE DEF S
<1>3. n \in S
  BY <1>1, <1>2, Induction DEF Text
<1> QED
  BY <1>3 DEF S, Text

(* u is what text t has after its first k bytes, for as long as u goes.      *)
Follows(t, k, u) ==
  /\ k + Len(u) <= Len(t) /\ (k # 0 => t[k] = "\n")
  /\ \A i \in 1..Len(u) : t[k + i] = u[i]

LEMMA StartMoves ==
  ASSUME NEW t \in Text, NEW u \in Text, NEW k \in Nat, Follows(t, k, u), NEW i \in 1..(Len(u) + 1)
  PROVE  Start(t, k + i) = k + Start(u, i)
<1>1. PICK s : s = Start(u, i)
  OBVIOUS
<1>2. /\ s \in 0..(i - 1) /\ (s # 0 => u[s] = "\n")
      /\ \A m \in 1..Len(u) : u[m] = "\n" /\ m < i => m <= s
  BY <1>1, StartIs
<1>3. Len(t) \in Nat /\ Len(u) \in Nat /\ k + Len(u) <= Len(t)
  BY DEF Text, Follows
<1>4. k + s # 0 => t[k + s] = "\n"
  <2>1. CASE s = 0
    BY <2>1 DEF Follows
  <2>2. CASE s # 0
    BY <1>2, <1>3, <2>2 DEF Follows
  <2> QED
    BY <2>1, <2>2
<1>5. ASSUME NEW m \in 1..Len(t), t[m] = "\n", m < k + i PROVE m <= k + s
  <2>1. CASE m > k
    <3>1. m - k \in 1..Len(u) /\ m - k < i /\ k + (m - k) = m
      BY <1>3, <1>5, <2>1
    <3>2. u[m - k] = "\n"
      BY <1>5, <3>1 DEF Follows
    <3>3. m - k <= s
      BY <1>2, <3>1, <3>2
    <3> QED
      BY <1>2, <1>3, <3>3
  <2> QED
    BY <1>2, <1>3, <2>1
<1>6. k + i \in 1..(Len(t) + 1) /\ k + s \in 0..((k + i) - 1)
  BY <1>2, <1>3
<1> QED
  BY <1>1, <1>4, <1>5, <1>6, StartIsOnly

LEMMA LineMoves ==
  ASSUME NEW t \in Text, NEW u \in Text, NEW k \in Nat, Follows(t, k, u), NEW i \in 1..(Len(u) + 1)
  PROVE  LineAt(t, k + i) = LineAt(u, i)
<1>1. PICK s : s = Start(u, i)
  OBVIOUS
<1>2. s \in 0..(i - 1) /\ Start(t, k + i) = k + s
  BY <1>1, StartIs, StartMoves
<1>3. Len(t) \in Nat /\ Len(u) \in Nat /\ k + Len(u) <= Len(t)
  BY DEF Text, Follows
<1>4. LineAt(u, i) = SubSeq(u, s + 1, i - 1) /\ LineAt(t, k + i) = SubSeq(t, (k + s) + 1, (k + i) - 1)
  BY <1>1, <1>2 DEF LineAt, Start
<1>5. \A j \in 1..((i - 1) - s) : t[((k + s) + 1) + j - 1] = u[(s + 1) + j - 1]
  <2> SUFFICES ASSUME NEW j \in 1..((i - 1) - s) PROVE t[((k + s) + 1) + j - 1] = u[(s + 1) + j - 1]
    OBVIOUS
  <2>1. s + j \in 1..Len(u)
    BY <1>2, <1>3
  <2>2. t[k + (s + j)] = u[s + j]
    BY <2>1 DEF Follows
  <2>3. ((k + s) + 1) + j - 1 = k + (s + j) /\ (s + 1) + j - 1 = s + j
    BY <1>2
  <2> QED
    BY <2>2, <2>3
<1>6. SubSeq(t, (k + s) + 1, (k + i) - 1) = SubSeq(u, s + 1, i - 1)
  <2>1. SubSeq(t, (k + s) + 1, (k + i) - 1) \in Seq(Byte) /\ SubSeq(u, s + 1, i - 1) \in Seq(Byte)
    BY <1>2, <1>3 DEF Text
  <2>2. /\ Len(SubSeq(t, (k + s) + 1, (k + i) - 1)) = (i - 1) - s
        /\ Len(SubSeq(u, s + 1, i - 1)) = (i - 1) - s
    BY <1>2, <1>3 DEF Text
  <2>3. \A j \in 1..((i - 1) - s) :
           SubSeq(t, (k + s) + 1, (k + i) - 1)[j] = SubSeq(u, s + 1, i - 1)[j]
    BY <1>2, <1>3, <1>5 DEF Text
  <2> HIDE <1>4
  <2> QED
    BY <2>1, <2>2, <2>3, SeqEqual
<1> QED
  BY <1>4, <1>6

LEMMA AppendBehind ==
  ASSUME NEW a \in Seq(Text), NEW b \in Seq(Text), NEW x \in Text
  PROVE  Append(a \o b, x) = a \o Append(b, x)
<1>1. Append(a \o b, x) \in Seq(Text) /\ a \o Append(b, x) \in Seq(Text)
  OBVIOUS
<1>2. Len(Append(a \o b, x)) = Len(a \o Append(b, x))
  OBVIOUS
<1>3. \A i \in 1..Len(Append(a \o b, x)) : Append(a \o b, x)[i] = (a \o Append(b, x))[i]
  OBVIOUS
<1> QED
  BY <1>1, <1>2, <1>3, SeqEqual

LEMMA UpToMoves ==
  ASSUME NEW t \in Text, NEW u \in Text, NEW k \in Nat, Follows(t, k, u), NEW i \in 0..Len(u)
  PROVE  UpTo(t)[k + i] = UpTo(t)[k] \o UpTo(u)[i]
<1> DEFINE Agree(j) == j <= Len(u) => UpTo(t)[k + j] = UpTo(t)[k] \o UpTo(u)[j]
           S == {j \in Nat : Agree(j)}
<1>1. Len(t) \in Nat /\ Len(u) \in Nat /\ k + Len(u) <= Len(t)
  BY DEF Text, Follows
<1>2. UpTo(t)[k] \in Seq(Text)
  BY <1>1, UpToTyped
<1>3. Agree(0)
  <2>1. UpTo(u)[0] = <<>> /\ k + 0 = k
    BY UpToSteps
  <2>2. UpTo(t)[k] \o <<>> = UpTo(t)[k]
    BY <1>2
  <2> QED
    BY <2>1, <2>2
<1>4. ASSUME NEW j \in Nat, Agree(j) PROVE Agree(j + 1)
  <2> HIDE DEF S
  <2>1. SUFFICES ASSUME j + 1 <= Len(u) PROVE UpTo(t)[k + (j + 1)] = UpTo(t)[k] \o UpTo(u)[j + 1]
    OBVIOUS
  <2>a. j <= Len(u)
    BY <1>1, <2>1
  <2>2. UpTo(t)[k + j] = UpTo(t)[k] \o UpTo(u)[j]
    BY <1>4, <2>a, Zenon
  <2> HIDE DEF Agree
  <2>3. UpTo(t)[k + (j + 1)] = With(t, k + (j + 1), UpTo(t)[k + j])
    <3>1. k + (j + 1) \in 1..Len(t) /\ (k + (j + 1)) - 1 = k + j
      BY <1>1, <2>1
    <3> QED
      BY <3>1, UpToSteps
  <2>i. j + 1 \in 1..Len(u) /\ (j + 1) - 1 = j /\ j + 1 \in 1..(Len(u) + 1) /\ j \in 0..Len(u)
    BY <1>1, <2>1
  <2>4. UpTo(u)[j + 1] = With(u, j + 1, UpTo(u)[j])
    BY <2>i, UpToSteps
  <2>5. PICK line : line = Trimmed(LineAt(u, j + 1))
    OBVIOUS
  <2>6. t[k + (j + 1)] = u[j + 1]
    BY <2>i DEF Follows
  <2>7. LineAt(t, k + (j + 1)) = LineAt(u, j + 1)
    BY <2>i, LineMoves
  <2>8. line \in Text /\ UpTo(u)[j] \in Seq(Text)
    BY <2>i, <2>5, LineTyped, UpToTyped
  <2>9. Append(UpTo(t)[k] \o UpTo(u)[j], line) = UpTo(t)[k] \o Append(UpTo(u)[j], line)
    BY <1>2, <2>8, AppendBehind, Zenon
  <2>11. UpTo(t)[k + (j + 1)] = IF u[j + 1] = "\n" THEN WithLine(UpTo(t)[k] \o UpTo(u)[j], line)
                                ELSE UpTo(t)[k] \o UpTo(u)[j]
    BY <2>2, <2>3, <2>5, <2>6, <2>7 DEF With
  <2>12. UpTo(u)[j + 1] = IF u[j + 1] = "\n" THEN WithLine(UpTo(u)[j], line) ELSE UpTo(u)[j]
    BY <2>4, <2>5 DEF With
  <2> QED
    BY <2>9, <2>11, <2>12 DEF WithLine
<1>5. 0 \in S /\ \A j \in Nat : j \in S => j + 1 \in S
  <2> HIDE DEF Agree
  <2> QED
    BY <1>3, <1>4
<1> HIDE DEF S
<1>6. i \in S
  BY <1>1, <1>5, Induction
<1>7. i <= Len(u) /\ Agree(i)
  <2> HIDE DEF Agree
  <2> QED
    BY <1>1, <1>6 DEF S
<1> QED
  BY <1>7, Zenon

LEMMA RestFollows ==
  ASSUME NEW text \in Text
  PROVE  \E k \in 0..Len(text) :
           /\ k = Start(text, Len(text) + 1) /\ Follows(text, k, Rest(text))
           /\ Rest(text) \in Text /\ Len(Rest(text)) = Len(text) - k
           /\ \A i \in 1..Len(Rest(text)) : Rest(text)[i] # "\n"
<1>1. PICK k : k = Start(text, Len(text) + 1)
  OBVIOUS
<1>2. Len(text) \in Nat /\ Len(text) + 1 \in 1..(Len(text) + 1)
  BY DEF Text
<1>3. /\ k \in 0..Len(text) /\ (k # 0 => text[k] = "\n")
      /\ \A m \in 1..Len(text) : text[m] = "\n" => m <= k
  BY <1>1, <1>2, StartIs
<1>4. Rest(text) = SubSeq(text, k + 1, Len(text))
  BY <1>1, RestIs
<1>5. Rest(text) \in Text /\ Len(Rest(text)) = Len(text) - k
  BY <1>2, <1>3, <1>4 DEF Text
<1>6. \A i \in 1..Len(Rest(text)) : text[k + i] = Rest(text)[i]
  BY <1>2, <1>3, <1>4 DEF Text
<1>7. Follows(text, k, Rest(text))
  BY <1>2, <1>3, <1>5, <1>6 DEF Follows
<1>8. ASSUME NEW i \in 1..Len(Rest(text)) PROVE Rest(text)[i] # "\n"
  <2>1. k + i \in 1..Len(text) /\ ~(k + i <= k)
    BY <1>2, <1>3, <1>5
  <2> QED
    BY <1>3, <1>6, <2>1
<1> QED
  BY <1>1, <1>3, <1>5, <1>7, <1>8

(* A text without a line break has no lines. *)
LEMMA NoBreaks ==
  ASSUME NEW text \in Text, \A i \in 1..Len(text) : text[i] # "\n"
  PROVE  TakeLines(text) = <<>>
<1> DEFINE None(j) == j <= Len(text) => UpTo(text)[j] = <<>>
           S == {j \in Nat : None(j)}
<1>1. Len(text) \in Nat
  BY DEF Text
<1>2. None(0)
  BY UpToSteps
<1>3. ASSUME NEW j \in Nat, None(j) PROVE None(j + 1)
  <2>1. SUFFICES ASSUME j + 1 <= Len(text) PROVE UpTo(text)[j + 1] = <<>>
    OBVIOUS
  <2>2. j + 1 \in 1..Len(text) /\ (j + 1) - 1 = j /\ j <= Len(text)
    BY <1>1, <2>1
  <2>3. UpTo(text)[j + 1] = With(text, j + 1, UpTo(text)[j])
    BY <2>2, UpToSteps
  <2> QED
    BY <1>3, <2>2, <2>3 DEF With
<1>4. 0 \in S /\ \A j \in Nat : j \in S => j + 1 \in S
  <2> HIDE DEF None
  <2> QED
    BY <1>2, <1>3
<1> HIDE DEF S
<1>5. Len(text) \in S
  BY <1>1, <1>4, Induction
<1>6. None(Len(text))
  <2> HIDE DEF None
  <2> QED
    BY <1>5 DEF S
<1> QED
  BY <1>1, <1>6, TakeLinesIs

LEMMA TakeLinesTyped ==
  ASSUME NEW text \in Text
  PROVE  TakeLines(text) \in Seq(Text) /\ Rest(text) \in Text
<1>1. Len(text) \in 0..Len(text)
  BY DEF Text
<1> QED
  BY <1>1, UpToTyped, TakeLinesIs, RestFollows

LEMMA JoinFollows ==
  ASSUME NEW a \in Text, NEW b \in Text
  PROVE  \E k \in 0..Len(a) :
           /\ Follows(a, k, Rest(a)) /\ Rest(a) \in Text /\ Len(Rest(a)) = Len(a) - k
           /\ \A i \in 1..Len(Rest(a)) : Rest(a)[i] # "\n"
           /\ Follows(a \o b, k, Rest(a) \o b) /\ Follows(a \o b, 0, a)
           /\ a \o b \in Text /\ Rest(a) \o b \in Text /\ Len(a) \in Nat /\ Len(b) \in Nat
           /\ Len(a \o b) = Len(a) + Len(b) /\ Len(Rest(a) \o b) = Len(Rest(a)) + Len(b)
           /\ \A i \in 1..Len(Rest(a)) : (Rest(a) \o b)[i] = Rest(a)[i]
<1>1. PICK k \in 0..Len(a) : /\ Follows(a, k, Rest(a)) /\ Rest(a) \in Text /\ Len(Rest(a)) = Len(a) - k
                             /\ \A i \in 1..Len(Rest(a)) : Rest(a)[i] # "\n"
  BY RestFollows
<1>2. PICK t, u : t = a \o b /\ u = Rest(a) \o b
  OBVIOUS
<1>3. /\ t \in Text /\ u \in Text /\ Len(a) \in Nat /\ Len(b) \in Nat
      /\ Len(t) = Len(a) + Len(b) /\ Len(u) = Len(Rest(a)) + Len(b)
  BY <1>1, <1>2 DEF Text
<1>4. \A i \in 1..Len(a) : t[i] = a[i]
  BY <1>2 DEF Text
<1>5. \A i \in 1..Len(b) : t[Len(a) + i] = b[i] /\ u[Len(Rest(a)) + i] = b[i]
  BY <1>1, <1>2 DEF Text
<1>6. \A i \in 1..Len(Rest(a)) : u[i] = Rest(a)[i]
  BY <1>1, <1>2 DEF Text
<1>7. Follows(t, k, u)
  <2>1. k + Len(u) <= Len(t)
    BY <1>1, <1>3
  <2>2. k # 0 => t[k] = "\n"
    BY <1>1, <1>4 DEF Follows
  <2>3. ASSUME NEW i \in 1..Len(u) PROVE t[k + i] = u[i]
    <3>1. CASE i <= Len(Rest(a))
      <4>1. i \in 1..Len(Rest(a)) /\ k + i \in 1..Len(a)
        BY <1>1, <1>3, <3>1
      <4> QED
        BY <1>1, <1>4, <1>6, <4>1 DEF Follows
    <3>2. CASE i > Len(Rest(a))
      <4>a. i - Len(Rest(a)) \in 1..Len(b)
        BY <1>1, <1>3, <3>2
      <4>1. PICK j \in 1..Len(b) : j = i - Len(Rest(a))
        BY <4>a
      <4>2. i = Len(Rest(a)) + j /\ k + i = Len(a) + j
        BY <1>1, <1>3, <4>1
      <4> QED
        BY <1>5, <4>2
    <3> QED
      BY <1>1, <1>3, <3>1, <3>2
  <2> QED
    BY <2>1, <2>2, <2>3 DEF Follows
<1>8. Follows(t, 0, a)
  BY <1>3, <1>4 DEF Follows
<1>9. t = a \o b /\ u = Rest(a) \o b
  BY <1>2
<1> QED
  BY <1>1, <1>3, <1>6, <1>7, <1>8, <1>9

(* The lines of a text that grows: those it had, and those of what was left  *)
(* of it with the new bytes.                                                 *)
LEMMA LinesGrow ==
  ASSUME NEW a \in Text, NEW b \in Text
  PROVE  /\ TakeLines(a \o b) = TakeLines(a) \o TakeLines(Rest(a) \o b)
         /\ Rest(a \o b) = Rest(Rest(a) \o b)
<1>2. PICK t, u : t = a \o b /\ u = Rest(a) \o b
  OBVIOUS
<1>1. PICK k \in 0..Len(a) :
        /\ Follows(a, k, Rest(a)) /\ Rest(a) \in Text /\ Len(Rest(a)) = Len(a) - k
        /\ \A i \in 1..Len(Rest(a)) : Rest(a)[i] # "\n"
        /\ Follows(t, k, u) /\ Follows(t, 0, a)
        /\ t \in Text /\ u \in Text /\ Len(a) \in Nat /\ Len(b) \in Nat
        /\ Len(t) = Len(a) + Len(b) /\ Len(u) = Len(Rest(a)) + Len(b)
  BY <1>2, JoinFollows
<1>3. /\ t \in Text /\ u \in Text /\ Len(a) \in Nat /\ Len(b) \in Nat
      /\ Len(t) = Len(a) + Len(b) /\ Len(u) = Len(Rest(a)) + Len(b)
  BY <1>1
<1>7. Follows(t, k, u)
  BY <1>1
<1>8. Follows(t, 0, a)
  BY <1>1
<1>9. TakeLines(t) = UpTo(t)[k] \o TakeLines(u)
  <2>1. k + Len(u) = Len(t) /\ Len(u) \in 0..Len(u) /\ k \in Nat
    BY <1>1, <1>3
  <2>2. UpTo(t)[k + Len(u)] = UpTo(t)[k] \o UpTo(u)[Len(u)]
    BY <1>3, <1>7, <2>1, UpToMoves
  <2> QED
    BY <2>1, <2>2, TakeLinesIs
<1>10. UpTo(t)[k] = UpTo(a)[k] /\ UpTo(a)[k] \in Seq(Text)
  <2>a. PICK z \in Nat : z = 0
    OBVIOUS
  <2>1. UpTo(t)[z + k] = UpTo(t)[z] \o UpTo(a)[k]
    BY <1>3, <1>8, <2>a, UpToMoves
  <2>2. UpTo(t)[z] = <<>> /\ UpTo(a)[k] \in Seq(Text) /\ z + k = k
    BY <1>3, <2>a, UpToSteps, UpToTyped
  <2> QED
    BY <2>1, <2>2
<1>11. TakeLines(a) = UpTo(a)[k]
  <2>1. k + Len(Rest(a)) = Len(a) /\ Len(Rest(a)) \in 0..Len(Rest(a)) /\ k \in Nat
    BY <1>1, <1>3
  <2>2. UpTo(a)[k + Len(Rest(a))] = UpTo(a)[k] \o UpTo(Rest(a))[Len(Rest(a))]
    BY <1>1, <2>1, UpToMoves
  <2>3. TakeLines(Rest(a)) = <<>>
    BY <1>1, NoBreaks
  <2>4. TakeLines(a) = UpTo(a)[k] \o <<>>
    BY <2>1, <2>2, <2>3, TakeLinesIs
  <2> QED
    BY <1>10, <2>4
<1>12. Rest(t) = Rest(u)
  <2>1. PICK p \in 0..Len(u) : p = Start(u, Len(u) + 1) /\ Rest(u) = SubSeq(u, p + 1, Len(u))
    BY <1>3, RestFollows, RestIs
  <2>2. LineAt(t, k + (Len(u) + 1)) = LineAt(u, Len(u) + 1)
    BY <1>1, <1>3, <1>7, LineMoves
  <2>3. k + (Len(u) + 1) = Len(t) + 1 /\ (Len(t) + 1) - 1 = Len(t) /\ (Len(u) + 1) - 1 = Len(u)
    BY <1>1, <1>3
  <2>4. LineAt(t, Len(t) + 1) = Rest(t) /\ LineAt(u, Len(u) + 1) = Rest(u)
    BY <1>3, <2>3, RestIs DEF LineAt, Start
  <2> QED
    BY <2>2, <2>3, <2>4
<1> QED
  BY <1>2, <1>9, <1>10, <1>11, <1>12

-----------------------------------------------------------------------------
(* The readers of messages *)

(* A line longer than a limit, among those of a text or what follows them.   *)
HasLine(text, length) ==
  \E n \in Breaks(text) \cup {Len(text) + 1} : Len(LineAt(text, n)) > length

(* The line that a text begins with goes on where it went on before.         *)
LEMMA RestIsOfALine ==
  ASSUME NEW a \in Text, NEW b \in Text, NEW length \in Int, Len(Rest(a)) > length
  PROVE  HasLine(a \o b, length)
<1>1. PICK t, u : t = a \o b /\ u = Rest(a) \o b
  OBVIOUS
<1>2. PICK k \in 0..Len(a) :
        /\ Rest(a) \in Text /\ Len(Rest(a)) = Len(a) - k
        /\ \A i \in 1..Len(Rest(a)) : Rest(a)[i] # "\n"
        /\ Follows(t, k, u) /\ t \in Text /\ u \in Text /\ Len(a) \in Nat /\ Len(b) \in Nat
        /\ Len(t) = Len(a) + Len(b) /\ Len(u) = Len(Rest(a)) + Len(b)
        /\ \A i \in 1..Len(Rest(a)) : u[i] = Rest(a)[i]
  BY <1>1, JoinFollows
<1>3. PICK S : S = {m \in 0..Len(u) : \A i \in 1..m : u[i] # "\n"}
  OBVIOUS
<1>4. Len(Rest(a)) \in S /\ S \in SUBSET (0..Len(u)) /\ Len(u) \in Nat
  BY <1>2, <1>3
<1>5. PICK m \in S : \A j \in S : j <= m
  BY <1>4, Greatest
<1>6. m \in 0..Len(u) /\ m >= Len(Rest(a)) /\ \A i \in 1..m : u[i] # "\n"
  BY <1>3, <1>4, <1>5
<1>7. m + 1 \in 1..(Len(u) + 1)
  BY <1>4, <1>6
<1>8. Start(u, m + 1) = 0
  <2>1. \A i \in 1..Len(u) : u[i] = "\n" /\ i < m + 1 => i <= 0
    BY <1>6
  <2>2. PICK z \in 0..((m + 1) - 1) : z = 0
    BY <1>6
  <2> QED
    BY <1>2, <1>7, <2>1, <2>2, StartIsOnly
<1>9. Len(LineAt(u, m + 1)) = m
  <2>1. LineAt(u, m + 1) = SubSeq(u, 1, m)
    BY <1>6, <1>8 DEF LineAt, Start
  <2> QED
    BY <1>2, <1>6, <2>1 DEF Text
<1>10. LineAt(t, k + (m + 1)) = LineAt(u, m + 1)
  BY <1>2, <1>7, LineMoves
<1>11. k + (m + 1) \in Breaks(t) \cup {Len(t) + 1}
  <2>1. CASE m = Len(u)
    BY <1>2, <2>1
  <2>2. CASE m # Len(u)
    <3>1. m + 1 \in 1..Len(u)
      BY <1>4, <1>6, <2>2
    <3>2. m + 1 \notin S
      BY <1>5, <1>6
    <3>3. u[m + 1] = "\n"
      BY <1>3, <1>6, <3>1, <3>2
    <3>4. t[k + (m + 1)] = "\n" /\ k + (m + 1) \in 1..Len(t)
      BY <1>2, <3>1, <3>3 DEF Follows
    <3> QED
      BY <1>2, <3>4 DEF Breaks, Text
  <2> QED
    BY <2>1, <2>2
<1>12. Len(LineAt(t, k + (m + 1))) > length
  BY <1>2, <1>6, <1>9, <1>10
<1> QED
  BY <1>1, <1>11, <1>12 DEF HasLine

LEMMA ChunkTyped ==
  ASSUME NEW sizes \in SUBSET Nat, NEW chunk \in Chunks(sizes)
  PROVE  chunk \in Text /\ Len(chunk) \in sizes
<1>1. PICK size \in sizes : chunk \in [1..size -> Byte]
  BY DEF Chunks
<1>2. size \in Nat
  BY <1>1
<1>3. chunk \in Seq(Byte) /\ Len(chunk) = size
  BY <1>1, <1>2
<1> QED
  BY <1>1, <1>3, FramingAssumption DEF Text

(* A piece read at once has at most MaxChunk bytes.                          *)
LEMMA PieceTyped ==
  ASSUME NEW chunk \in Pieces
  PROVE  chunk \in Text /\ Len(chunk) <= MaxChunk
<1>1. (1..MaxChunk) \in SUBSET Nat /\ chunk \in Chunks(1..MaxChunk)
  BY FramingAssumption DEF Pieces
<1>2. chunk \in Text /\ Len(chunk) \in 1..MaxChunk
  BY <1>1, ChunkTyped
<1> QED
  BY <1>2, FramingAssumption

StreamsTyped == stream \in Text /\ buffer \in Text /\ lines \in Seq(Text)
(* What came out, and what is kept, are those of the whole stream.           *)
Whole == TakeLines(stream) = lines \o TakeLines(buffer) /\ Rest(stream) = Rest(buffer)
(* The readers that look for lines after every piece keep no more.           *)
Taken == reader \in {"idle", "client"} => buffer = Rest(stream)

MessageInv ==
  /\ StreamsTyped /\ (state = "open" => Whole /\ Taken)
  /\ state = "overrun" => reader = "busy"
  /\ state = "refused" => HasLine(stream, MaxLine - MaxChunk)
FramingInv == /\ reader = "log" => state # "refused"
              /\ reader # "log" => MessageInv

LEMMA RestOfNone ==
  ASSUME NEW text \in Text, Len(text) = 0
  PROVE  Rest(text) = <<>>
<1>1. PICK rest : rest = Rest(text)
  OBVIOUS
<1>2. \E k \in 0..Len(text) : rest \in Text /\ Len(rest) = Len(text) - k
  BY <1>1, RestFollows, ZenonT(30)
<1>3. PICK k \in 0..Len(text) : rest \in Text /\ Len(rest) = Len(text) - k
  BY <1>2
<1>4. PICK n : n = Len(text)
  OBVIOUS
<1>5. n = 0 /\ k \in 0..n /\ Len(rest) = n - k
  BY <1>3, <1>4
<1>6. n - k = 0
  <2>1. \A m \in Nat : m = 0 => m < 1
    OBVIOUS
  <2>2. \A m \in Nat : \A j \in 0..m : m < 1 => m - j = 0
    OBVIOUS
  <2>3. n \in Nat
    BY <1>5
  <2> QED
    BY <1>5, <2>1, <2>2, <2>3, Zenon
<1>7. rest \in Seq(Byte) /\ Len(rest) = 0
  BY <1>3, <1>5, <1>6 DEF Text
<1>8. rest = <<>>
  BY <1>7
<1> QED
  BY <1>1, <1>8

LEMMA InitFraming == Init => FramingInv
<1> SUFFICES ASSUME Init PROVE FramingInv
  OBVIOUS
<1>1. StreamsTyped
  BY DEF Init, StreamsTyped, Text
<1>2. PICK none : none = <<>>
  OBVIOUS
<1>3. none \in Text /\ Len(none) = 0
  BY <1>2 DEF Text
<1>4. TakeLines(none) = <<>>
  BY <1>3, NoBreaks
<1>5. Rest(none) = <<>>
  BY <1>3, RestOfNone
<1>6. Whole
  BY <1>2, <1>4, <1>5 DEF Init, Whole
<1>7. Taken
  BY <1>2, <1>5 DEF Init, Taken
<1> QED
  BY <1>1, <1>6, <1>7 DEF Init, FramingInv, MessageInv

(* One piece more, before it is known whether there is a line in it.         *)
LEMMA PieceKeeps ==
  ASSUME StreamsTyped, Whole, NEW chunk \in Text
  PROVE  /\ stream \o chunk \in Text /\ buffer \o chunk \in Text
         /\ TakeLines(stream \o chunk) = lines \o TakeLines(buffer \o chunk)
         /\ Rest(stream \o chunk) = Rest(buffer \o chunk)
<1>1. stream \o chunk \in Text /\ buffer \o chunk \in Text /\ Rest(buffer) \o chunk \in Text
  BY TakeLinesTyped DEF StreamsTyped, Text
<1>2. /\ TakeLines(stream \o chunk) = TakeLines(stream) \o TakeLines(Rest(stream) \o chunk)
      /\ Rest(stream \o chunk) = Rest(Rest(stream) \o chunk)
  BY LinesGrow DEF StreamsTyped
<1>3. /\ TakeLines(buffer \o chunk) = TakeLines(buffer) \o TakeLines(Rest(buffer) \o chunk)
      /\ Rest(buffer \o chunk) = Rest(Rest(buffer) \o chunk)
  BY LinesGrow DEF StreamsTyped
<1>4. PICK p, q : p = TakeLines(buffer) /\ q = TakeLines(Rest(buffer) \o chunk)
  OBVIOUS
<1>5. lines \in Seq(Text) /\ p \in Seq(Text) /\ q \in Seq(Text)
  BY <1>1, <1>4, TakeLinesTyped DEF StreamsTyped
<1>6. (lines \o p) \o q = lines \o (p \o q)
  BY <1>5, ConcatAssociative
<1> QED
  BY <1>1, <1>2, <1>3, <1>4, <1>6 DEF Whole

(* Its lines are handed on, and what follows them is kept. *)
LEMMA TakingKeeps ==
  ASSUME StreamsTyped, Whole, NEW chunk \in Text, stream' = stream \o chunk,
         lines' = lines \o TakeLines(buffer \o chunk), buffer' = Rest(buffer \o chunk)
  PROVE  StreamsTyped' /\ Whole' /\ buffer' = Rest(stream')
<1>1. PICK text : text = buffer \o chunk
  OBVIOUS
<1>2. /\ stream \o chunk \in Text /\ text \in Text
      /\ TakeLines(stream') = lines' /\ Rest(stream') = buffer'
  BY <1>1, PieceKeeps
<1>3. TakeLines(text) \in Seq(Text) /\ Rest(text) \in Text /\ lines \in Seq(Text)
  BY <1>2, TakeLinesTyped DEF StreamsTyped
<1>4. lines' \in Seq(Text) /\ buffer' \in Text
  BY <1>1, <1>3
<1>5. StreamsTyped'
  BY <1>2, <1>4 DEF StreamsTyped
<1>6. \A i \in 1..Len(buffer') : buffer'[i] # "\n"
  BY <1>1, <1>2, RestFollows
<1>7. TakeLines(buffer') = <<>>
  BY <1>4, <1>6, NoBreaks
<1>8. TakeLines(stream') = lines' \o TakeLines(buffer')
  BY <1>2, <1>4, <1>7
<1>9. Rest(buffer') = buffer'
  <2>1. PICK k \in 0..Len(buffer') : /\ k = Start(buffer', Len(buffer') + 1) /\ Follows(buffer', k, Rest(buffer'))
    BY <1>4, RestFollows
  <2>2. Len(buffer') \in Nat
    BY <1>4 DEF Text
  <2>3. k = 0
    BY <1>6, <2>1, <2>2 DEF Follows
  <2>a. Rest(buffer') = SubSeq(buffer', k + 1, Len(buffer'))
    BY <1>4, <2>1, RestIs
  <2>4. Rest(buffer') = SubSeq(buffer', 1, Len(buffer'))
    BY <2>3, <2>a
  <2> QED
    BY <1>4, <2>4 DEF Text
<1> QED
  BY <1>2, <1>5, <1>8, <1>9 DEF Whole

LEMMA ReadKeeps ==
  ASSUME FramingInv, Read, reader # "log"
  PROVE  MessageInv'
<1>1. PICK chunk \in Pieces : /\ stream' = stream \o chunk
                              /\ ReadMessage(buffer \o chunk) \/ PumpClient(buffer \o chunk)
  BY DEF Read, FlushLines
<1>2. chunk \in Text /\ Len(chunk) <= MaxChunk
  BY <1>1, PieceTyped
<1>3. StreamsTyped /\ MessageInv /\ UNCHANGED reader /\ state \in {"open", "overrun"}
  BY DEF FramingInv, MessageInv, Read
<1>p. stream \o chunk \in Text /\ buffer \o chunk \in Text
  BY <1>2, <1>3 DEF StreamsTyped, Text
<1>4. CASE ReadMessage(buffer \o chunk)
  <2>1. reader \in {"idle", "client"} /\ state = "open"
    BY <1>3, <1>4 DEF ReadMessage, MessageInv
  <2>2. Whole /\ buffer = Rest(stream)
    BY <1>3, <2>1 DEF MessageInv, Taken
  <2>3. CASE TooLong(buffer \o chunk)
    <3>1. state' = "refused" /\ buffer' = buffer \o chunk /\ UNCHANGED lines
      BY <1>4, <2>3 DEF ReadMessage
    <3>2. StreamsTyped'
      BY <1>1, <1>3, <1>p, <3>1 DEF StreamsTyped
    <3>3. Len(buffer \o chunk) = Len(buffer) + Len(chunk) /\ Len(buffer) \in Nat /\ Len(chunk) \in Nat
      BY <1>2, <1>3 DEF StreamsTyped, Text
    <3>4. Len(Rest(stream)) > MaxLine - MaxChunk /\ MaxLine - MaxChunk \in Int
      BY <1>2, <2>2, <2>3, <3>3, FramingAssumption DEF TooLong
    <3>5. HasLine(stream', MaxLine - MaxChunk)
      BY <1>1, <1>2, <1>3, <3>4, RestIsOfALine DEF StreamsTyped
    <3> QED
      BY <3>1, <3>2, <3>5 DEF MessageInv
  <2>4. CASE ~TooLong(buffer \o chunk)
    <3>1. /\ lines' = lines \o TakeLines(buffer \o chunk) /\ buffer' = Rest(buffer \o chunk)
          /\ state' = "open"
      BY <1>4, <2>1, <2>4 DEF ReadMessage
    <3>2. StreamsTyped' /\ Whole' /\ buffer' = Rest(stream')
      BY <1>1, <1>2, <1>3, <2>2, <3>1, TakingKeeps
    <3> QED
      BY <3>1, <3>2 DEF MessageInv, Taken
  <2> QED
    BY <2>3, <2>4
<1>5. CASE PumpClient(buffer \o chunk)
  <2>1. reader' = "busy"
    BY <1>3, <1>5 DEF PumpClient
  <2>2. CASE state' = "overrun" /\ buffer' = <<>> /\ UNCHANGED lines
    <3>1. StreamsTyped'
      BY <1>1, <1>3, <1>p, <2>2 DEF StreamsTyped, Text
    <3> QED
      BY <2>1, <2>2, <3>1 DEF MessageInv
  <2>3. CASE buffer' = buffer \o chunk /\ UNCHANGED <<lines, state>>
    <3>1. StreamsTyped'
      BY <1>1, <1>3, <1>p, <2>3 DEF StreamsTyped
    <3>2. state = "open" => Whole'
      <4> SUFFICES ASSUME state = "open" PROVE Whole'
        OBVIOUS
      <4>1. Whole
        BY <1>3 DEF MessageInv
      <4>2. /\ TakeLines(stream \o chunk) = lines \o TakeLines(buffer \o chunk)
            /\ Rest(stream \o chunk) = Rest(buffer \o chunk)
        BY <1>2, <1>3, <4>1, PieceKeeps
      <4> QED
        BY <1>1, <2>3, <4>2 DEF Whole
    <3> QED
      BY <1>3, <2>1, <2>3, <3>1, <3>2 DEF MessageInv, Taken
  <2>4. CASE /\ lines' = lines \o TakeLines(buffer \o chunk) /\ buffer' = Rest(buffer \o chunk)
             /\ UNCHANGED state
    <3>1. StreamsTyped'
      <4>1. TakeLines(buffer \o chunk) \in Seq(Text) /\ Rest(buffer \o chunk) \in Text
        BY <1>p, TakeLinesTyped
      <4>2. lines' \in Seq(Text)
        BY <1>3, <2>4, <4>1 DEF StreamsTyped
      <4> QED
        BY <1>1, <1>p, <2>4, <4>1, <4>2 DEF StreamsTyped
    <3>2. state = "open" => Whole'
      <4> SUFFICES ASSUME state = "open" PROVE Whole'
        OBVIOUS
      <4>1. Whole
        BY <1>3 DEF MessageInv
      <4> QED
        BY <1>1, <1>2, <1>3, <2>4, <4>1, TakingKeeps
    <3> QED
      BY <1>3, <2>1, <2>4, <3>1, <3>2 DEF MessageInv, Taken
  <2> QED
    BY <1>5, <2>2, <2>3, <2>4 DEF PumpClient
<1> QED
  BY <1>1, <1>4, <1>5

LEMMA FramingStep == FramingInv /\ [Next]_vars => FramingInv'
<1> SUFFICES ASSUME FramingInv, [Next]_vars PROVE FramingInv'
  OBVIOUS
<1>1. CASE Read
  <2>1. CASE reader = "log"
    BY <1>1, <2>1 DEF Read, ReadMessage, PumpClient, FlushLines, FramingInv
  <2>2. CASE reader # "log"
    BY <1>1, <2>2, ReadKeeps DEF Read, FramingInv
  <2> QED
    BY <2>1, <2>2
<1>2. CASE Ends
  BY <1>2 DEF Ends, FramingInv
<1>3. CASE UNCHANGED vars
  BY <1>3 DEF vars, FramingInv, MessageInv, StreamsTyped, Whole, Taken
<1> QED
  BY <1>1, <1>2, <1>3 DEF Next, Done

LEMMA FramingInvariant == Spec => []FramingInv
BY InitFraming, FramingStep, PTL DEF Spec

(* However a stream of messages is cut into reads, the readers of messages   *)
(* make the lines of the whole stream of it, for reads and limits of any     *)
(* size and streams of any length (protocol.cpp:68, server.cpp:241).         *)
THEOREM Cuts == Spec => []CutDoesNotMatter
<1>1. FramingInv => CutDoesNotMatter
  BY DEF FramingInv, MessageInv, Whole, CutDoesNotMatter
<1> QED
  BY <1>1, FramingInvariant, PTL

(* A reader hangs up only over a stream that has a line longer than the      *)
(* limit less one read, however it is cut (server.cpp:279).                  *)
THEOREM Limit == Spec => []LimitIsForLongLines
<1>1. FramingInv => LimitIsForLongLines
  BY DEF FramingInv, MessageInv, HasLine, LimitIsForLongLines
<1> QED
  BY <1>1, FramingInvariant, PTL

-----------------------------------------------------------------------------
(* Sequences put together *)

LEMMA Joins ==
  ASSUME NEW a \in Text, NEW b \in Text
  PROVE  /\ <<>> \in Text /\ a \o b \in Text
         /\ <<>> \o a = a /\ a \o <<>> = a
<1>1. <<>> \in Text /\ a \o b \in Text
  BY DEF Text
<1>2. <<>> \o a = a /\ a \o <<>> = a
  BY ConcatEmptySeq DEF Text
<1> QED
  BY <1>1, <1>2

LEMMA Regroup ==
  ASSUME NEW a \in Text, NEW b \in Text, NEW c \in Text
  PROVE  (a \o b) \o c = a \o (b \o c)
BY ConcatAssociative DEF Text

Texts == Seq(Text)

(* FlattenSeq(s), the first n of s. *)
FlatObeys(f, s) == f = [i \in 1..Len(s) |-> IF i = 1 THEN s[i] ELSE f[i - 1] \o s[i]]
FlatFrom(s) == CHOOSE f : FlatObeys(f, s)
FlatTo(s) == [n \in 0..Len(s) |-> IF n = 0 THEN <<>> ELSE FlatFrom(s)[n]]

LEMMA FlatIs ==
  ASSUME NEW s \in Texts
  PROVE  FlattenSeq(s) = FlatTo(s)[Len(s)]
<1>1. CASE Len(s) = 0
  <2>1. s = <<>>
    BY <1>1
  <2> QED
    BY <1>1, <2>1 DEF FlattenSeq, FlatTo
<1>2. CASE Len(s) # 0
  BY <1>2 DEF FlattenSeq, FlatTo, FlatFrom, FlatObeys
<1> QED
  BY <1>1, <1>2

LEMMA FlatExists ==
  ASSUME NEW s \in Texts
  PROVE  FlatObeys(FlatFrom(s), s)
<1> DEFINE Until(f, k) ==
      f = [i \in 1..k |-> IF i = 1 THEN s[i] ELSE f[i - 1] \o s[i]]
    S == {k \in Nat : \E f : Until(f, k)}
<1>1. 0 \in S
  <2>1. Until([i \in 1..0 |-> <<>>], 0)
    OBVIOUS
  <2> QED
    BY <2>1
<1>2. ASSUME NEW k \in Nat, k \in S PROVE k + 1 \in S
  <2>1. PICK f : Until(f, k)
    BY <1>2
  <2> DEFINE Next1 == IF k + 1 = 1 THEN s[k + 1] ELSE f[k] \o s[k + 1]
             g == [i \in 1..(k + 1) |-> IF i = k + 1 THEN Next1 ELSE f[i]]
  <2>2. \A i \in 1..k : f[i] = IF i = 1 THEN s[i] ELSE f[i - 1] \o s[i]
    BY <2>1
  <2>3. \A i \in 1..(k + 1) : g[i] = IF i = 1 THEN s[i] ELSE g[i - 1] \o s[i]
    <3> SUFFICES ASSUME NEW i \in 1..(k + 1)
                 PROVE  g[i] = IF i = 1 THEN s[i] ELSE g[i - 1] \o s[i]
      OBVIOUS
    <3>1. CASE i = k + 1
      <4>1. g[i] = Next1
        BY <3>1
      <4>2. i # 1 => g[i - 1] = f[k]
        BY <3>1
      <4> HIDE DEF g
      <4> QED
        BY <3>1, <4>1, <4>2
    <3>2. CASE i # k + 1
      <4>1. g[i] = f[i] /\ i \in 1..k
        BY <3>2
      <4>2. i # 1 => g[i - 1] = f[i - 1]
        BY <3>2
      <4> HIDE DEF g
      <4> QED
        BY <2>2, <4>1, <4>2
    <3> QED
      BY <3>1, <3>2
  <2>4. Until(g, k + 1)
    BY <2>3
  <2> HIDE DEF g, Until
  <2>5. \E h : Until(h, k + 1)
    BY <2>4
  <2> QED
    BY <2>5
<1> HIDE DEF S
<1>3. Nat \subseteq S
  BY <1>1, <1>2, Induction
<1>4. Len(s) \in S
  BY <1>3
<1>5. \E f : FlatObeys(f, s)
  BY <1>4 DEF S, FlatObeys
<1> QED
  BY <1>5 DEF FlatFrom

LEMMA FlatSteps ==
  ASSUME NEW s \in Texts
  PROVE  /\ Len(s) \in Nat /\ FlatTo(s)[0] = <<>>
         /\ \A n \in 1..Len(s) : s[n] \in Text
         /\ \A n \in 0..Len(s) : FlatTo(s)[n] \in Text
         /\ \A n \in 1..Len(s) : FlatTo(s)[n] = FlatTo(s)[n - 1] \o s[n]
<1>1. \A n \in 1..Len(s) : FlatFrom(s)[n] = IF n = 1 THEN s[n] ELSE FlatFrom(s)[n - 1] \o s[n]
  BY FlatExists DEF FlatObeys
<1>2. \A n \in 1..Len(s) : s[n] \in Text /\ <<>> \o s[n] = s[n]
  <2> SUFFICES ASSUME NEW n \in 1..Len(s) PROVE s[n] \in Text /\ <<>> \o s[n] = s[n]
    OBVIOUS
  <2>1. PICK x \in Text : x = s[n]
    BY DEF Texts
  <2>2. <<>> \o x = x
    BY DEF Text
  <2> QED
    BY <2>1, <2>2
<1>3. FlatTo(s)[0] = <<>>
  BY DEF FlatTo
<1>4. ASSUME NEW n \in 1..Len(s) PROVE FlatTo(s)[n] = FlatTo(s)[n - 1] \o s[n]
  <2>1. CASE n = 1
    <3>1. FlatTo(s)[n] = s[n] /\ FlatTo(s)[n - 1] = <<>>
      BY <1>1, <2>1 DEF FlatTo
    <3> QED
      BY <1>2, <3>1, Zenon
  <2>2. CASE n # 1
    <3>1. FlatTo(s)[n] = FlatFrom(s)[n] /\ FlatTo(s)[n - 1] = FlatFrom(s)[n - 1]
      BY <2>2 DEF FlatTo
    <3>2. FlatFrom(s)[n] = FlatFrom(s)[n - 1] \o s[n]
      BY <1>1, <2>2
    <3> QED
      BY <3>1, <3>2, Zenon
  <2> QED
    BY <2>1, <2>2
<1> DEFINE S == {k \in Nat : k <= Len(s) => FlatTo(s)[k] \in Text}
<1>5. 0 \in S
  <2>1. FlatTo(s)[0] \in Text
    BY <1>3 DEF Text
  <2> QED
    BY <2>1
<1>6. ASSUME NEW k \in Nat, k \in S PROVE k + 1 \in S
  <2>1. SUFFICES ASSUME k + 1 <= Len(s) PROVE FlatTo(s)[k + 1] \in Text
    OBVIOUS
  <2>2. k + 1 \in 1..Len(s) /\ (k + 1) - 1 = k /\ k <= Len(s)
    BY <2>1
  <2>3. FlatTo(s)[k + 1] = FlatTo(s)[k] \o s[k + 1]
    BY <1>4, <2>2
  <2>4. FlatTo(s)[k] \in Text /\ s[k + 1] \in Text
    BY <1>2, <1>6, <2>2
  <2>5. FlatTo(s)[k] \o s[k + 1] \in Text
    BY <2>4, Joins, Zenon
  <2> QED
    BY <2>3, <2>5, Zenon
<1> HIDE DEF S
<1>7. Nat \subseteq S
  BY <1>5, <1>6, Induction
<1>8. \A n \in 0..Len(s) : FlatTo(s)[n] \in Text
  BY <1>7 DEF S
<1>9. Len(s) \in Nat
  BY DEF Texts
<1> QED
  BY <1>2, <1>3, <1>4, <1>8, <1>9

LEMMA FlatMoves ==
  ASSUME NEW s \in Texts, NEW u \in Texts, NEW k \in Nat, k + Len(u) <= Len(s),
         \A i \in 1..Len(u) : s[k + i] = u[i], NEW i \in 0..Len(u)
  PROVE  FlatTo(s)[k + i] = FlatTo(s)[k] \o FlatTo(u)[i]
<1> DEFINE Agree(j) == j <= Len(u) => FlatTo(s)[k + j] = FlatTo(s)[k] \o FlatTo(u)[j]
           S == {j \in Nat : Agree(j)}
<1>1. Len(s) \in Nat /\ Len(u) \in Nat /\ k \in 0..Len(s)
  BY DEF Texts
<1>2. FlatTo(s)[k] \in Text
  BY <1>1, FlatSteps
<1>3. Agree(0)
  <2>1. FlatTo(u)[0] = <<>>
    BY FlatSteps, Zenon
  <2>3. k + 0 = k
    OBVIOUS
  <2>2. FlatTo(s)[k] \o <<>> = FlatTo(s)[k]
    BY <1>2, Joins
  <2> QED
    BY <2>1, <2>2, <2>3, Zenon
<1>4. ASSUME NEW j \in Nat, Agree(j) PROVE Agree(j + 1)
  <2> HIDE DEF S
  <2>1. SUFFICES ASSUME j + 1 <= Len(u) PROVE FlatTo(s)[k + (j + 1)] = FlatTo(s)[k] \o FlatTo(u)[j + 1]
    OBVIOUS
  <2>a. j <= Len(u)
    BY <1>1, <2>1
  <2>2. FlatTo(s)[k + j] = FlatTo(s)[k] \o FlatTo(u)[j]
    BY <1>4, <2>a, Zenon
  <2> HIDE DEF Agree
  <2>3. FlatTo(s)[k + (j + 1)] = FlatTo(s)[k + j] \o s[k + (j + 1)]
    <3>1. k + (j + 1) \in 1..Len(s) /\ (k + (j + 1)) - 1 = k + j
      BY <1>1, <2>1
    <3> QED
      BY <3>1, FlatSteps
  <2>4. j + 1 \in 1..Len(u) /\ (j + 1) - 1 = j /\ j \in 0..Len(u)
    BY <1>1, <2>1
  <2>5. FlatTo(u)[j + 1] = FlatTo(u)[j] \o u[j + 1]
    BY <2>4, FlatSteps
  <2>6. s[k + (j + 1)] = u[j + 1]
    BY <2>4
  <2>7. FlatTo(u)[j] \in Text /\ u[j + 1] \in Text
    BY <2>4, FlatSteps
  <2>8. (FlatTo(s)[k] \o FlatTo(u)[j]) \o u[j + 1] = FlatTo(s)[k] \o (FlatTo(u)[j] \o u[j + 1])
    BY <1>2, <2>7, Regroup, Zenon
  <2> QED
    BY <2>2, <2>3, <2>5, <2>6, <2>8, Zenon
<1>5. 0 \in S /\ \A j \in Nat : j \in S => j + 1 \in S
  <2> HIDE DEF Agree
  <2> QED
    BY <1>3, <1>4
<1> HIDE DEF S
<1>6. i \in S
  BY <1>1, <1>5, Induction
<1>7. i <= Len(u) /\ Agree(i)
  <2> HIDE DEF Agree
  <2> QED
    BY <1>1, <1>6 DEF S
<1> QED
  BY <1>7, Zenon

LEMMA FlatConcat ==
  ASSUME NEW a \in Texts, NEW b \in Texts
  PROVE  /\ FlattenSeq(a \o b) = FlattenSeq(a) \o FlattenSeq(b)
         /\ FlattenSeq(a) \in Text /\ FlattenSeq(b) \in Text
<1>1. PICK s : s = a \o b
  OBVIOUS
<1>2. s \in Texts /\ Len(s) = Len(a) + Len(b) /\ Len(a) \in Nat /\ Len(b) \in Nat
  BY <1>1 DEF Texts
<1>3. (\A i \in 1..Len(a) : s[i] = a[i]) /\ \A i \in 1..Len(b) : s[Len(a) + i] = b[i]
  BY <1>1 DEF Texts
<1>0. Len(b) \in 0..Len(b) /\ Len(a) + Len(b) <= Len(s)
  BY <1>2
<1>4. FlatTo(s)[Len(a) + Len(b)] = FlatTo(s)[Len(a)] \o FlatTo(b)[Len(b)]
  BY <1>0, <1>2, <1>3, FlatMoves
<1>5. FlatTo(s)[Len(a)] = FlatTo(a)[Len(a)]
  <2>1. PICK z \in Nat : z = 0
    OBVIOUS
  <2>2. /\ z + Len(a) <= Len(s) /\ z + Len(a) = Len(a) /\ Len(a) \in 0..Len(a)
        /\ \A i \in 1..Len(a) : s[z + i] = a[i]
    BY <1>2, <1>3, <2>1
  <2>3. FlatTo(s)[z + Len(a)] = FlatTo(s)[z] \o FlatTo(a)[Len(a)]
    BY <1>2, <2>2, FlatMoves
  <2>4. FlatTo(s)[z] = <<>> /\ FlatTo(a)[Len(a)] \in Text
    <3>1. FlatTo(s)[z] = <<>>
      BY <1>2, <2>1, FlatSteps, Zenon
    <3>2. FlatTo(a)[Len(a)] \in Text
      BY <2>2, FlatSteps, Zenon
    <3> QED
      BY <3>1, <3>2
  <2>5. <<>> \o FlatTo(a)[Len(a)] = FlatTo(a)[Len(a)]
    BY <2>4, Joins, Zenon
  <2> QED
    BY <2>2, <2>3, <2>4, <2>5
<1>6. FlattenSeq(s) = FlatTo(s)[Len(s)] /\ FlattenSeq(a) = FlatTo(a)[Len(a)] /\ FlattenSeq(b) = FlatTo(b)[Len(b)]
  BY <1>2, FlatIs
<1>7. FlatTo(a)[Len(a)] \in Text /\ FlatTo(b)[Len(b)] \in Text
  <2>1. Len(a) \in 0..Len(a) /\ Len(b) \in 0..Len(b)
    BY <1>2
  <2> QED
    BY <2>1, FlatSteps
<1> QED
  BY <1>1, <1>2, <1>4, <1>5, <1>6, <1>7

LEMMA FlatOne ==
  ASSUME NEW x \in Text
  PROVE  FlattenSeq(<<x>>) = x /\ FlattenSeq(<<>>) = <<>>
<1>1. FlattenSeq(<<x>>) = x
  <2>1. PICK s : s = <<x>>
    OBVIOUS
  <2>2. s \in Texts /\ Len(s) = 1 /\ s[1] = x
    BY <2>1 DEF Texts
  <2>6. PICK n \in Nat : n = 1
    OBVIOUS
  <2>7. n \in 1..Len(s) /\ n - 1 = 0
    BY <2>2, <2>6
  <2>3. FlatTo(s)[n] = FlatTo(s)[n - 1] \o s[n] /\ FlatTo(s)[0] = <<>>
    BY <2>2, <2>7, FlatSteps, Zenon
  <2>4. FlatTo(s)[1] = <<>> \o x
    BY <2>2, <2>3, <2>6, <2>7, Zenon
  <2>5. <<>> \o x = x
    BY Joins
  <2> QED
    BY <2>1, <2>2, <2>4, <2>5, FlatIs
<1>2. FlattenSeq(<<>>) = <<>>
  BY DEF FlattenSeq
<1> QED
  BY <1>1, <1>2

LEMMA FlatWithLine ==
  ASSUME NEW before \in Texts, NEW line \in Text
  PROVE  /\ FlattenSeq(WithLine(before, line)) = FlattenSeq(before) \o line
         /\ WithLine(before, line) \in Texts /\ FlattenSeq(before) \in Text
<1>0. <<line>> \in Texts
  BY DEF Texts
<1>1. FlattenSeq(before) \in Text /\ before \o <<line>> \in Texts
  <2>1. before \o <<line>> \in Texts
    BY DEF Texts
  <2>2. FlattenSeq(before) \in Text
    BY <1>0, FlatConcat, Zenon
  <2> QED
    BY <2>1, <2>2
<1>2. CASE line = <<>>
  <2>1. FlattenSeq(before) \o <<>> = FlattenSeq(before)
    BY <1>1, Joins
  <2> QED
    BY <1>1, <1>2, <2>1 DEF WithLine, NotEmpty
<1>3. CASE line # <<>>
  <2>1. WithLine(before, line) = before \o <<line>>
    BY <1>3, AppendIsConcat DEF WithLine, NotEmpty, Texts
  <2>2. FlattenSeq(before \o <<line>>) = FlattenSeq(before) \o FlattenSeq(<<line>>)
    BY <1>0, FlatConcat, Zenon
  <2> QED
    BY <1>1, <2>1, <2>2, FlatOne
<1> QED
  BY <1>2, <1>3

-----------------------------------------------------------------------------
(* What was written, and the lines of it *)

(* Written(text) is put together of these. *)
Bytes(text) == [n \in DOMAIN text |-> IF text[n] = "\n" THEN <<>> ELSE <<text[n]>>]

LEMMA BytesTyped ==
  ASSUME NEW text \in Text
  PROVE  /\ Bytes(text) \in Texts /\ Len(Bytes(text)) = Len(text) /\ Len(text) \in Nat
         /\ \A n \in 1..Len(text) :
              Bytes(text)[n] = IF text[n] = "\n" THEN <<>> ELSE <<text[n]>>
         /\ Written(text) = FlattenSeq(Bytes(text)) /\ Written(text) \in Text
<1>1. DOMAIN text = 1..Len(text) /\ Len(text) \in Nat
  BY DEF Text
<1>2. \A n \in 1..Len(text) : (IF text[n] = "\n" THEN <<>> ELSE <<text[n]>>) \in Text
  <2> SUFFICES ASSUME NEW n \in 1..Len(text)
               PROVE  (IF text[n] = "\n" THEN <<>> ELSE <<text[n]>>) \in Text
    OBVIOUS
  <2>1. text[n] \in Byte
    BY DEF Text
  <2>2. <<>> \in Text /\ <<text[n]>> \in Text
    BY <2>1 DEF Text
  <2> QED
    BY <2>2
<1>3. Bytes(text) \in Texts /\ Len(Bytes(text)) = Len(text)
  <2>1. Bytes(text) = [n \in 1..Len(text) |-> IF text[n] = "\n" THEN <<>> ELSE <<text[n]>>]
    BY <1>1 DEF Bytes
  <2>2. Bytes(text) \in [1..Len(text) -> Text]
    BY <1>2, <2>1
  <2> QED
    BY <1>1, <2>2 DEF Texts
<1>4. \A n \in 1..Len(text) : Bytes(text)[n] = IF text[n] = "\n" THEN <<>> ELSE <<text[n]>>
  BY <1>1 DEF Bytes
<1>5. Written(text) = FlattenSeq(Bytes(text))
  BY DEF Written, Bytes
<1>6. Written(text) \in Text
  BY <1>3, <1>5, FlatConcat, Zenon
<1> QED
  BY <1>1, <1>3, <1>4, <1>5, <1>6

LEMMA WrittenGrows ==
  ASSUME NEW a \in Text, NEW b \in Text
  PROVE  Written(a \o b) = Written(a) \o Written(b)
<1>1. PICK t : t = a \o b
  OBVIOUS
<1>2. t \in Text /\ Len(t) = Len(a) + Len(b) /\ Len(a) \in Nat /\ Len(b) \in Nat
  BY <1>1 DEF Text
<1>3. (\A n \in 1..Len(a) : t[n] = a[n]) /\ \A n \in 1..Len(b) : t[Len(a) + n] = b[n]
  BY <1>1 DEF Text
<1>4. PICK s : s = Bytes(a) \o Bytes(b)
  OBVIOUS
<1>5. s \in Texts /\ Len(s) = Len(t) /\ Bytes(t) \in Texts /\ Len(Bytes(t)) = Len(t)
  BY <1>2, <1>4, BytesTyped DEF Texts
<1>6. ASSUME NEW n \in 1..Len(t) PROVE s[n] = Bytes(t)[n]
  <2>1. Bytes(t)[n] = IF t[n] = "\n" THEN <<>> ELSE <<t[n]>>
    BY <1>2, BytesTyped
  <2>2. CASE n <= Len(a)
    <3>1. n \in 1..Len(a)
      BY <1>2, <2>2
    <3>2. s[n] = Bytes(a)[n]
      BY <1>4, <3>1, BytesTyped DEF Texts
    <3>3. Bytes(a)[n] = IF a[n] = "\n" THEN <<>> ELSE <<a[n]>>
      BY <3>1, BytesTyped
    <3>4. t[n] = a[n]
      BY <1>3, <3>1
    <3> QED
      BY <2>1, <3>2, <3>3, <3>4
  <2>3. CASE n > Len(a)
    <3>1. n - Len(a) \in 1..Len(b)
      BY <1>2, <2>3
    <3>2. PICK m \in 1..Len(b) : m = n - Len(a)
      BY <3>1
    <3>3. n = Len(a) + m
      BY <1>2, <3>2
    <3>4. s[n] = Bytes(b)[m]
      BY <1>2, <1>4, <3>3, BytesTyped DEF Texts
    <3>5. Bytes(b)[m] = IF b[m] = "\n" THEN <<>> ELSE <<b[m]>>
      BY BytesTyped
    <3>6. t[n] = b[m]
      BY <1>3, <3>3
    <3> QED
      BY <2>1, <3>4, <3>5, <3>6
  <2> QED
    BY <1>2, <2>2, <2>3
<1>7. s = Bytes(t)
  BY <1>5, <1>6, SeqEqual DEF Texts
<1>8. Bytes(a) \in Texts /\ Bytes(b) \in Texts
  BY BytesTyped
<1>9. FlattenSeq(s) = FlattenSeq(Bytes(a)) \o FlattenSeq(Bytes(b))
  BY <1>4, <1>8, FlatConcat, Zenon
<1>10. /\ Written(t) = FlattenSeq(Bytes(t)) /\ Written(a) = FlattenSeq(Bytes(a))
       /\ Written(b) = FlattenSeq(Bytes(b))
  BY <1>2, BytesTyped
<1> QED
  BY <1>1, <1>7, <1>9, <1>10, Zenon

(* Without "\r", a line is the same for a message and for the log. *)
Plain(text) == \A i \in 1..Len(text) : text[i] # "\r"

LEMMA PlainLine ==
  ASSUME NEW line \in Text, Plain(line)
  PROVE  Trimmed(line) = line /\ LogLine(line) = line /\ AfterReturn(line) = line /\ Returns(line) = {}
<1>1. DOMAIN line = 1..Len(line) /\ Len(line) \in Nat
  BY DEF Text
<1>2. Returns(line) = {}
  BY <1>1 DEF Returns, Plain
<1>3. LastOf({} \cup {0}) = 0
  <2>1. PICK S : S = {} \cup {0}
    OBVIOUS
  <2>2. S \in SUBSET (0..Len(line)) /\ S # {} /\ \A n \in S : n = 0
    BY <1>1, <2>1
  <2>3. LastOf(S) \in S
    BY <1>1, <2>2, Greatest
  <2> QED
    BY <2>1, <2>2, <2>3
<1>4. SubSeq(line, 1, Len(line)) = line
  BY SubSeqFull DEF Text
<1>5. AfterReturn(line) = line
  <2>1. LastOf(Returns(line) \cup {0}) + 1 = 1
    BY <1>2, <1>3
  <2> QED
    BY <1>4, <2>1 DEF AfterReturn
<1>6. LogLine(line) = line
  <2>1. ~(line # <<>> /\ Last(line) = "\r")
    <3>1. line # <<>> => Len(line) \in 1..Len(line)
      BY DEF Text
    <3> QED
      BY <3>1 DEF Last, Plain
  <2> QED
    BY <1>5, <2>1 DEF LogLine
<1>7. Trimmed(line) = line
  <2>1. {n \in DOMAIN line : line[n] # "\r"} = 1..Len(line)
    BY <1>1 DEF Plain
  <2>2. PICK S : S = 1..Len(line) \cup {0}
    OBVIOUS
  <2>3. S \in SUBSET (0..Len(line)) /\ S # {} /\ Len(line) \in S
    BY <1>1, <2>2
  <2>4. LastOf(S) \in S /\ \A n \in S : n <= LastOf(S)
    BY <1>1, <2>3, Greatest
  <2>6. PICK m : m = LastOf(S)
    OBVIOUS
  <2>7. m \in 0..Len(line) /\ Len(line) <= m
    BY <2>3, <2>4, <2>6
  <2>5. LastOf(S) = Len(line)
    BY <1>1, <2>6, <2>7
  <2> QED
    BY <1>4, <2>1, <2>2, <2>5 DEF Trimmed
<1> QED
  BY <1>2, <1>5, <1>6, <1>7

LEMMA PlainParts ==
  ASSUME NEW text \in Text, Plain(text)
  PROVE  /\ \A n \in 1..(Len(text) + 1) : LineAt(text, n) \in Text /\ Plain(LineAt(text, n))
         /\ Rest(text) \in Text /\ Plain(Rest(text)) /\ Rest(text) = LineAt(text, Len(text) + 1)
<1>1. Len(text) \in Nat
  BY DEF Text
<1>2. ASSUME NEW n \in 1..(Len(text) + 1) PROVE LineAt(text, n) \in Text /\ Plain(LineAt(text, n))
  <2>1. PICK s : s = Start(text, n)
    OBVIOUS
  <2>2. s \in 0..(n - 1)
    BY <2>1, StartIs
  <2>3. LineAt(text, n) = SubSeq(text, s + 1, n - 1)
    BY <2>1 DEF LineAt, Start
  <2>4. LineAt(text, n) \in Text
    BY LineTyped
  <2>5. \A i \in 1..Len(LineAt(text, n)) : s + i \in 1..Len(text) /\ LineAt(text, n)[i] = text[s + i]
    BY <1>1, <2>2, <2>3 DEF Text
  <2> QED
    BY <2>4, <2>5 DEF Plain
<1>3. Rest(text) = LineAt(text, Len(text) + 1)
  <2>1. (Len(text) + 1) - 1 = Len(text)
    BY <1>1
  <2> QED
    BY <2>1, RestIs DEF LineAt, Start
<1>4. Len(text) + 1 \in 1..(Len(text) + 1)
  BY <1>1
<1> QED
  BY <1>2, <1>3, <1>4

(* One byte more: the line ends, or is longer by it. *)
LEMMA LineGrows ==
  ASSUME NEW text \in Text, NEW n \in 1..Len(text)
  PROVE  LineAt(text, n + 1) =
           IF text[n] = "\n" THEN <<>> ELSE LineAt(text, n) \o <<text[n]>>
<1>1. Len(text) \in Nat /\ n \in 1..(Len(text) + 1) /\ n + 1 \in 1..(Len(text) + 1) /\ (n + 1) - 1 = n
  BY DEF Text
<1>2. LineAt(text, n + 1) = SubSeq(text, Start(text, n + 1) + 1, n)
  BY <1>1 DEF LineAt, Start
<1>3. CASE text[n] = "\n"
  <2>1. n \in 0..((n + 1) - 1) /\ \A m \in 1..Len(text) : text[m] = "\n" /\ m < n + 1 => m <= n
    BY <1>1
  <2>2. Start(text, n + 1) = n
    BY <1>1, <1>3, <2>1, StartIsOnly
  <2>3. LineAt(text, n + 1) = SubSeq(text, n + 1, n)
    BY <1>2, <2>2
  <2>4. SubSeq(text, n + 1, n) = <<>>
    BY <1>1, SubSeqEmpty DEF Text
  <2> QED
    BY <1>3, <2>3, <2>4
<1>4. CASE text[n] # "\n"
  <2>1. PICK s : s = Start(text, n)
    OBVIOUS
  <2>2. /\ s \in 0..(n - 1) /\ (s # 0 => text[s] = "\n")
        /\ \A m \in 1..Len(text) : text[m] = "\n" /\ m < n => m <= s
    BY <1>1, <2>1, StartIs
  <2>3. s \in 0..((n + 1) - 1) /\ \A m \in 1..Len(text) : text[m] = "\n" /\ m < n + 1 => m <= s
    BY <1>1, <1>4, <2>2
  <2>4. Start(text, n + 1) = s
    BY <1>1, <2>2, <2>3, StartIsOnly
  <2>5. LineAt(text, n + 1) = SubSeq(text, s + 1, n) /\ LineAt(text, n) = SubSeq(text, s + 1, n - 1)
    BY <1>2, <2>1, <2>4 DEF LineAt, Start
  <2>6. PICK a, b : a = SubSeq(text, s + 1, n) /\ b = SubSeq(text, s + 1, n - 1)
    OBVIOUS
  <2>7. /\ a \in Seq(Byte) /\ b \in Seq(Byte) /\ Len(a) = n - s /\ Len(b) = (n - 1) - s
        /\ \A i \in 1..(n - s) : a[i] = text[s + i]
        /\ \A i \in 1..((n - 1) - s) : b[i] = text[s + i]
    BY <1>1, <2>2, <2>6 DEF Text
  <2>8. PICK c : c = b \o <<text[n]>>
    OBVIOUS
  <2>9. c \in Seq(Byte) /\ Len(c) = n - s
    <3>1. text[n] \in Byte
      BY DEF Text
    <3>2. <<text[n]>> \in Seq(Byte) /\ Len(<<text[n]>>) = 1
      BY <3>1
    <3> QED
      BY <1>1, <2>2, <2>7, <2>8, <3>2
  <2>10. ASSUME NEW i \in 1..(n - s) PROVE c[i] = a[i]
    <3>1. CASE i = n - s
      <4>1. c[i] = text[n]
        BY <1>1, <2>2, <2>7, <2>8, <3>1
      <4>2. s + i = n
        BY <1>1, <2>2, <3>1
      <4> QED
        BY <2>7, <4>1, <4>2
    <3>2. CASE i # n - s
      <4>1. i \in 1..((n - 1) - s)
        BY <1>1, <2>2, <3>2
      <4>2. c[i] = b[i]
        BY <2>7, <2>8, <4>1
      <4> QED
        BY <2>7, <4>1, <4>2
    <3> QED
      BY <3>1, <3>2
  <2>11. c = a
    BY <2>7, <2>9, <2>10, SeqEqual
  <2> QED
    BY <1>4, <2>5, <2>6, <2>8, <2>11
<1> QED
  BY <1>3, <1>4

(* Its lines and what follows them are all that was written. *)
LEMMA WrittenLines ==
  ASSUME NEW text \in Text, Plain(text)
  PROVE  Written(text) = FlattenSeq(TakeLines(text)) \o Rest(text)
<1> DEFINE Same(n) == n <= Len(text) =>
             FlatTo(Bytes(text))[n] = FlattenSeq(UpTo(text)[n]) \o LineAt(text, n + 1)
           S == {n \in Nat : Same(n)}
<1>1. Len(text) \in Nat /\ Bytes(text) \in Texts /\ Len(Bytes(text)) = Len(text)
  BY BytesTyped
<1>2. Same(0)
  <2>1. PICK z \in Nat : z = 0
    OBVIOUS
  <2>2. FlatTo(Bytes(text))[z] = <<>>
    BY <1>1, <2>1, FlatSteps, Zenon
  <2>3. FlattenSeq(UpTo(text)[z]) = <<>>
    <3>1. UpTo(text)[z] = <<>>
      BY <2>1, UpToSteps
    <3> QED
      BY <3>1 DEF FlattenSeq
  <2>4. LineAt(text, z + 1) = <<>>
    <3>1. z + 1 \in 1..(Len(text) + 1) /\ (z + 1) - 1 = z
      BY <1>1, <2>1
    <3>2. Start(text, z + 1) = z
      BY <2>1, <3>1, StartIs
    <3>3. LineAt(text, z + 1) = SubSeq(text, z + 1, z)
      BY <3>1, <3>2 DEF LineAt, Start
    <3> QED
      BY <3>3, SubSeqEmpty DEF Text
  <2>5. <<>> \o <<>> = <<>>
    BY Joins
  <2>6. Same(z)
    BY <2>2, <2>3, <2>4, <2>5
  <2> HIDE DEF Same
  <2> QED
    BY <2>1, <2>6
<1>3. ASSUME NEW n \in Nat, Same(n) PROVE Same(n + 1)
  <2> HIDE DEF S
  <2>1. SUFFICES ASSUME n + 1 <= Len(text)
        PROVE  FlatTo(Bytes(text))[n + 1] = FlattenSeq(UpTo(text)[n + 1]) \o LineAt(text, (n + 1) + 1)
    OBVIOUS
  <2>2. PICK m : m = n + 1
    OBVIOUS
  <2>3. m \in 1..Len(text) /\ m - 1 = n /\ m \in 1..(Len(text) + 1) /\ n <= Len(text) /\ n \in 0..Len(text)
    BY <1>1, <2>1, <2>2
  <2>4. FlatTo(Bytes(text))[n] = FlattenSeq(UpTo(text)[n]) \o LineAt(text, m)
    BY <1>3, <2>2, <2>3, Zenon
  <2> HIDE DEF Same
  <2>5. PICK before, line : before = UpTo(text)[n] /\ line = LineAt(text, m)
    OBVIOUS
  <2>6. before \in Texts /\ line \in Text /\ Trimmed(line) = line
    BY <2>3, <2>5, UpToTyped, PlainParts, PlainLine DEF Texts
  <2>7. FlattenSeq(before) \in Text /\ FlattenSeq(WithLine(before, line)) = FlattenSeq(before) \o line
    BY <2>6, FlatWithLine, Zenon
  <2>8. UpTo(text)[m] = IF text[m] = "\n" THEN WithLine(before, line) ELSE before
    BY <2>3, <2>5, <2>6, UpToSteps DEF With
  <2>9. LineAt(text, m + 1) = IF text[m] = "\n" THEN <<>> ELSE line \o <<text[m]>>
    BY <2>3, <2>5, LineGrows
  <2>10. FlatTo(Bytes(text))[m] = FlatTo(Bytes(text))[n] \o Bytes(text)[m]
    BY <1>1, <2>3, FlatSteps
  <2>11. Bytes(text)[m] = IF text[m] = "\n" THEN <<>> ELSE <<text[m]>>
    BY <2>3, BytesTyped
  <2>12. PICK flat : flat = FlattenSeq(before)
    OBVIOUS
  <2>13. FlatTo(Bytes(text))[n] = flat \o line /\ flat \in Text
    BY <2>4, <2>5, <2>7, <2>12
  <2>14. flat \o line \in Text /\ (flat \o line) \o <<>> = flat \o line
    BY <2>6, <2>13, Joins, Zenon
  <2>15. CASE text[m] = "\n"
    BY <2>7, <2>8, <2>9, <2>10, <2>11, <2>12, <2>13, <2>14, <2>2, <2>15
  <2>16. CASE text[m] # "\n"
    <3>1. <<text[m]>> \in Text
      BY <2>3 DEF Text
    <3>2. (flat \o line) \o <<text[m]>> = flat \o (line \o <<text[m]>>)
      BY <2>6, <2>13, <3>1, Regroup, Zenon
    <3> QED
      BY <2>2, <2>8, <2>9, <2>10, <2>11, <2>12, <2>13, <2>16, <3>2
  <2> QED
    BY <2>15, <2>16
<1>4. 0 \in S /\ \A n \in Nat : n \in S => n + 1 \in S
  <2> HIDE DEF Same
  <2> QED
    BY <1>2, <1>3
<1> HIDE DEF S
<1>5. Len(text) \in S
  BY <1>1, <1>4, Induction
<1>6. Same(Len(text))
  <2> HIDE DEF Same
  <2> QED
    BY <1>5 DEF S
<1>7. FlatTo(Bytes(text))[Len(text)] = FlattenSeq(UpTo(text)[Len(text)]) \o LineAt(text, Len(text) + 1)
  <2>1. Len(text) <= Len(text)
    BY <1>1
  <2> QED
    BY <1>6, <2>1, Zenon
<1> HIDE DEF Same
<1>8. FlattenSeq(Bytes(text)) = FlatTo(Bytes(text))[Len(text)]
  BY <1>1, FlatIs
<1> QED
  BY <1>7, <1>8, BytesTyped, TakeLinesIs, PlainParts, Zenon

LEMMA WrittenUnbroken ==
  ASSUME NEW text \in Text, Plain(text), \A i \in 1..Len(text) : text[i] # "\n"
  PROVE  Written(text) = text
<1>1. Len(text) + 1 \in 1..(Len(text) + 1) /\ Len(text) \in Nat
  BY DEF Text
<1>2. Start(text, Len(text) + 1) = 0
  <2>1. PICK s : s = Start(text, Len(text) + 1)
    OBVIOUS
  <2>2. s \in 0..((Len(text) + 1) - 1) /\ (s # 0 => text[s] = "\n")
    BY <1>1, <2>1, StartIs
  <2>3. s # 0 => s \in 1..Len(text)
    BY <1>1, <2>2
  <2> QED
    BY <2>1, <2>2, <2>3
<1>3. Rest(text) = SubSeq(text, 1, Len(text))
  BY <1>2, RestIs
<1>4. Rest(text) = text
  BY <1>3, SubSeqFull DEF Text
<1>5. Written(text) = FlattenSeq(TakeLines(text)) \o text
  BY <1>4, WrittenLines
<1>6. TakeLines(text) = <<>> /\ FlattenSeq(<<>>) = <<>>
  BY NoBreaks DEF FlattenSeq
<1>7. <<>> \o text = text
  BY Joins
<1> QED
  BY <1>5, <1>6, <1>7

(* LinesOf(text, LogLine), position by position. *)
LogWith(text, n, before) ==
  IF text[n] = "\n" THEN WithLine(before, LogLine(LineAt(text, n))) ELSE before
LogObeys(f, text) ==
  f = [n \in 0..Len(text) |-> IF n = 0 THEN <<>> ELSE LogWith(text, n, f[n - 1])]

LEMMA LogLinesPlain ==
  ASSUME NEW text \in Text, Plain(text)
  PROVE  LogLines(text) = TakeLines(text)
<1>1. \A n \in 1..Len(text) : LogLine(LineAt(text, n)) = Trimmed(LineAt(text, n))
  <2> SUFFICES ASSUME NEW n \in 1..Len(text)
               PROVE  LogLine(LineAt(text, n)) = Trimmed(LineAt(text, n))
    OBVIOUS
  <2>1. n \in 1..(Len(text) + 1)
    BY DEF Text
  <2> QED
    BY <2>1, PlainParts, PlainLine
<1>2. ASSUME NEW f PROVE LogObeys(f, text) <=> Obeys(f, text)
  <2>1. \A n \in 0..Len(text) : n # 0 => LogWith(text, n, f[n - 1]) = With(text, n, f[n - 1])
    <3> SUFFICES ASSUME NEW n \in 0..Len(text), n # 0
                 PROVE  LogWith(text, n, f[n - 1]) = With(text, n, f[n - 1])
      OBVIOUS
    <3>1. n \in 1..Len(text)
      BY DEF Text
    <3> QED
      BY <1>1, <3>1 DEF LogWith, With
  <2>2. [n \in 0..Len(text) |-> IF n = 0 THEN <<>> ELSE LogWith(text, n, f[n - 1])]
        = [n \in 0..Len(text) |-> IF n = 0 THEN <<>> ELSE With(text, n, f[n - 1])]
    BY <2>1
  <2> QED
    BY <2>2 DEF LogObeys, Obeys
<1>3. (CHOOSE f : LogObeys(f, text)) = (CHOOSE f : Obeys(f, text))
  BY <1>2
<1>4. LogLines(text) = (CHOOSE f : LogObeys(f, text))[Len(text)]
  BY DEF LogLines, LinesOf, LogObeys, LogWith
<1> QED
  BY <1>3, <1>4, TakeLinesIs DEF UpTo

(* A line that is too long stays one. *)
LEMMA HasLineGrows ==
  ASSUME NEW a \in Text, NEW b \in Text, NEW length \in Int, HasLine(a, length)
  PROVE  HasLine(a \o b, length)
<1>1. PICK n \in Breaks(a) \cup {Len(a) + 1} : Len(LineAt(a, n)) > length
  BY DEF HasLine
<1>2. Len(a) \in Nat /\ DOMAIN a = 1..Len(a)
  BY DEF Text
<1>3. CASE n \in Breaks(a)
  <2>1. PICK t : t = a \o b
    OBVIOUS
  <2>2. PICK z \in Nat : z = 0
    OBVIOUS
  <2>3. Follows(t, z, a) /\ t \in Text /\ Len(t) = Len(a) + Len(b) /\ Len(b) \in Nat
    BY <2>1, <2>2, JoinFollows
  <2>4. n \in 1..Len(a) /\ n \in 1..(Len(a) + 1) /\ a[n] = "\n" /\ z + n = n
    BY <1>2, <1>3, <2>2 DEF Breaks
  <2>5. LineAt(t, n) = LineAt(a, n)
    BY <2>3, <2>4, LineMoves
  <2>6. t[n] = a[n]
    BY <2>3, <2>4 DEF Follows
  <2>7. n \in Breaks(t)
    <3>1. DOMAIN t = 1..Len(t) /\ n \in 1..Len(t)
      BY <1>2, <2>3, <2>4 DEF Text
    <3> QED
      BY <2>4, <2>6, <3>1 DEF Breaks
  <2> QED
    BY <1>1, <2>1, <2>5, <2>7 DEF HasLine
<1>4. CASE n = Len(a) + 1
  <2>1. LineAt(a, n) = Rest(a)
    <3>1. n - 1 = Len(a)
      BY <1>2, <1>4
    <3> QED
      BY <1>4, <3>1, RestIs DEF LineAt, Start
  <2> QED
    BY <1>1, <2>1, RestIsOfALine
<1> QED
  BY <1>1, <1>3, <1>4

-----------------------------------------------------------------------------
(* The log *)

Unbroken(text) == \A i \in 1..Len(text) : text[i] # "\n"

LEMMA PlainJoin ==
  ASSUME NEW a \in Text, NEW b \in Text
  PROVE  Plain(a \o b) <=> Plain(a) /\ Plain(b)
<1>1. PICK t : t = a \o b
  OBVIOUS
<1>2. Len(t) = Len(a) + Len(b) /\ Len(a) \in Nat /\ Len(b) \in Nat
  BY <1>1 DEF Text
<1>3. (\A n \in 1..Len(a) : t[n] = a[n]) /\ \A n \in 1..Len(b) : t[Len(a) + n] = b[n]
  BY <1>1 DEF Text
<1>4. Plain(t) => Plain(a)
  <2>1. \A n \in 1..Len(a) : n \in 1..Len(t)
    BY <1>2
  <2> QED
    BY <1>3, <2>1 DEF Plain
<1>5. Plain(t) => Plain(b)
  <2>1. \A n \in 1..Len(b) : Len(a) + n \in 1..Len(t)
    BY <1>2
  <2> QED
    BY <1>3, <2>1 DEF Plain
<1>6. ASSUME Plain(a), Plain(b), NEW n \in 1..Len(t) PROVE t[n] # "\r"
  <2>1. CASE n <= Len(a)
    <3>1. n \in 1..Len(a)
      BY <1>2, <2>1
    <3> QED
      BY <1>3, <1>6, <3>1 DEF Plain
  <2>2. CASE n > Len(a)
    <3>1. n - Len(a) \in 1..Len(b) /\ Len(a) + (n - Len(a)) = n
      BY <1>2, <2>2
    <3>2. PICK m \in 1..Len(b) : m = n - Len(a)
      BY <3>1
    <3>3. t[Len(a) + m] = b[m] /\ Len(a) + m = n
      BY <1>3, <3>1, <3>2
    <3> QED
      BY <1>6, <3>3 DEF Plain
  <2> QED
    BY <1>2, <2>1, <2>2
<1> QED
  BY <1>1, <1>4, <1>5, <1>6 DEF Plain

LEMMA CutJoins ==
  ASSUME NEW rest \in Text, Plain(rest), Unbroken(rest)
  PROVE  /\ Cut(rest) \in Texts /\ AfterCut(rest) \in Text
         /\ FlattenSeq(Cut(rest)) \o AfterCut(rest) = rest
         /\ Plain(AfterCut(rest)) /\ Unbroken(AfterCut(rest))
         /\ Len(rest) <= MaxLine => Cut(rest) = <<>> /\ AfterCut(rest) = rest
<1>1. Len(rest) \in Nat /\ MaxLine \in Nat
  BY FramingAssumption DEF Text
<1>2. CASE Len(rest) <= MaxLine
  <2>1. Cut(rest) = <<>> /\ AfterCut(rest) = rest
    BY <1>1, <1>2 DEF Cut, AfterCut
  <2>2. FlattenSeq(<<>>) = <<>> /\ <<>> \o rest = rest /\ <<>> \in Texts
    BY Joins DEF FlattenSeq, Texts
  <2> QED
    BY <2>1, <2>2
<1>3. CASE Len(rest) > MaxLine
  <2>1. PICK a, b : a = SubSeq(rest, 1, MaxLine) /\ b = SubSeq(rest, MaxLine + 1, Len(rest))
    OBVIOUS
  <2>2. Cut(rest) = <<a>> /\ AfterCut(rest) = b
    BY <1>3, <2>1 DEF Cut, AfterCut
  <2>3. a \in Text /\ b \in Text
    BY <1>1, <1>3, <2>1 DEF Text
  <2>4. a \o b = rest
    <3>1. SubSeq(rest, 1, Len(rest)) = rest
      BY SubSeqFull DEF Text
    <3>2. PICK m \in 1..(Len(rest) + 1) : m = 1
      BY <1>1
    <3>3. MaxLine \in (m - 1)..Len(rest) /\ Len(rest) \in MaxLine..Len(rest)
      BY <1>1, <1>3, <3>2
    <3>4. rest \in Seq(Byte)
      BY DEF Text
    <3>5. SubSeq(rest, m, MaxLine) \o SubSeq(rest, MaxLine + 1, Len(rest)) = SubSeq(rest, m, Len(rest))
      BY <3>3, <3>4, ConcatAdjacentSubSeq, Zenon
    <3> QED
      BY <2>1, <3>1, <3>2, <3>5, Zenon
  <2>5. \A i \in 1..Len(b) : MaxLine + i \in 1..Len(rest) /\ b[i] = rest[MaxLine + i]
    BY <1>1, <1>3, <2>1 DEF Text
  <2>6. Plain(b) /\ Unbroken(b)
    BY <2>5 DEF Plain, Unbroken
  <2>7. <<a>> \in Texts /\ FlattenSeq(<<a>>) = a
    BY <2>3, FlatOne DEF Texts
  <2>8. ~(Len(rest) <= MaxLine)
    BY <1>1, <1>3
  <2> QED
    BY <2>2, <2>3, <2>4, <2>6, <2>7, <2>8
<1> QED
  BY <1>1, <1>2, <1>3

(* flushLines() on output without "\r" reports it all but what it keeps.     *)
LEMMA ReportedPlain ==
  ASSUME NEW text \in Text, Plain(text)
  PROVE  /\ Reported(text) \in Texts /\ AfterCut(LeftOf(text)) \in Text
         /\ Plain(AfterCut(LeftOf(text))) /\ Unbroken(AfterCut(LeftOf(text)))
         /\ FlattenSeq(Reported(text)) \o AfterCut(LeftOf(text)) = Written(text)
         /\ Len(Rest(text)) <= MaxLine =>
              Reported(text) = TakeLines(text) /\ AfterCut(LeftOf(text)) = Rest(text)
<1>1. PICK p, rest : p = TakeLines(text) /\ rest = Rest(text)
  OBVIOUS
<1>2. p \in Texts /\ rest \in Text /\ Plain(rest) /\ Unbroken(rest)
  BY <1>1, TakeLinesTyped, PlainParts, RestFollows DEF Texts, Unbroken
<1>3. LeftOf(text) = rest /\ UpdateOf(rest) = <<>>
  BY <1>1, <1>2, PlainLine DEF LeftOf, UpdateOf
<1>4. LogLines(text) = p
  BY <1>1, LogLinesPlain
<1>5. /\ Cut(rest) \in Texts /\ AfterCut(rest) \in Text
      /\ FlattenSeq(Cut(rest)) \o AfterCut(rest) = rest
      /\ Plain(AfterCut(rest)) /\ Unbroken(AfterCut(rest))
      /\ Len(rest) <= MaxLine => Cut(rest) = <<>> /\ AfterCut(rest) = rest
  BY <1>2, CutJoins
<1>6. p \o <<>> = p
  BY <1>2 DEF Texts
<1>7. Reported(text) = p \o Cut(rest)
  <2>1. Reported(text) = (LogLines(text) \o UpdateOf(rest)) \o Cut(LeftOf(text))
    BY <1>1 DEF Reported
  <2> QED
    BY <1>3, <1>4, <1>6, <2>1
<1>8. Reported(text) \in Texts
  BY <1>2, <1>5, <1>7 DEF Texts
<1>9. FlattenSeq(Reported(text)) \o AfterCut(rest) = Written(text)
  <2>1. PICK a, b, c : a = FlattenSeq(p) /\ b = FlattenSeq(Cut(rest)) /\ c = AfterCut(rest)
    OBVIOUS
  <2>2. FlattenSeq(p \o Cut(rest)) = a \o b /\ a \in Text /\ b \in Text
    BY <1>2, <1>5, <2>1, FlatConcat, Zenon
  <2>3. (a \o b) \o c = a \o (b \o c)
    BY <1>5, <2>1, <2>2, Regroup, Zenon
  <2>4. b \o c = rest
    BY <1>5, <2>1, Zenon
  <2>5. Written(text) = a \o rest
    BY <1>1, <2>1, WrittenLines
  <2> QED
    BY <1>7, <2>1, <2>2, <2>3, <2>4, <2>5, Zenon
<1> QED
  BY <1>1, <1>3, <1>5, <1>6, <1>7, <1>8, <1>9

(* One piece more, on a stream without "\r". *)
LEMMA LogGrows ==
  ASSUME NEW chunk \in Text, stream \in Text, Plain(stream \o chunk),
         lines \in Texts, buffer \in Text, Plain(buffer), Unbroken(buffer),
         FlattenSeq(lines) \o buffer = Written(stream),
         ~HasLine(stream, MaxLine) => lines = TakeLines(stream) /\ buffer = Rest(stream),
         NEW text, text = buffer \o chunk
  PROVE  /\ lines \o Reported(text) \in Texts /\ AfterCut(LeftOf(text)) \in Text
         /\ Plain(AfterCut(LeftOf(text))) /\ Unbroken(AfterCut(LeftOf(text)))
         /\ FlattenSeq(lines \o Reported(text)) \o AfterCut(LeftOf(text)) = Written(stream \o chunk)
         /\ ~HasLine(stream \o chunk, MaxLine) =>
              /\ lines \o Reported(text) = TakeLines(stream \o chunk)
              /\ AfterCut(LeftOf(text)) = Rest(stream \o chunk)
<1>1. PICK all : all = stream \o chunk
  OBVIOUS
<1>2. all \in Text /\ text \in Text /\ Plain(text) /\ Plain(chunk) /\ Plain(all)
  BY <1>1, Joins, PlainJoin
<1>3. PICK out, kept : out = Reported(text) /\ kept = AfterCut(LeftOf(text))
  OBVIOUS
<1>4. /\ out \in Texts /\ kept \in Text /\ Plain(kept) /\ Unbroken(kept)
      /\ FlattenSeq(out) \o kept = Written(text)
      /\ Len(Rest(text)) <= MaxLine => out = TakeLines(text) /\ kept = Rest(text)
  BY <1>2, <1>3, ReportedPlain
<1>5. lines \o out \in Texts
  BY <1>4 DEF Texts
<1>6. FlattenSeq(lines \o out) \o kept = Written(all)
  <2>1. PICK a, b, c : a = FlattenSeq(lines) /\ b = FlattenSeq(out) /\ c = Written(chunk)
    OBVIOUS
  <2>2. FlattenSeq(lines \o out) = a \o b /\ a \in Text /\ b \in Text
    BY <1>4, <2>1, FlatConcat, Zenon
  <2>3. (a \o b) \o kept = a \o (b \o kept)
    BY <1>4, <2>2, Regroup, Zenon
  <2>4. b \o kept = buffer \o c
    <3>1. Written(text) = Written(buffer) \o Written(chunk)
      BY WrittenGrows
    <3>2. Written(buffer) = buffer
      BY WrittenUnbroken DEF Unbroken
    <3> QED
      BY <1>4, <2>1, <3>1, <3>2, Zenon
  <2>5. c \in Text
    BY <2>1, BytesTyped
  <2>6. a \o (buffer \o c) = (a \o buffer) \o c
    BY <2>2, <2>5, Regroup, Zenon
  <2>7. Written(all) = Written(stream) \o c
    BY <1>1, <2>1, WrittenGrows
  <2>8. a \o buffer = Written(stream)
    BY <2>1, Zenon
  <2> QED
    BY <2>2, <2>3, <2>4, <2>6, <2>7, <2>8, Zenon
<1>7. ASSUME ~HasLine(all, MaxLine) PROVE lines \o out = TakeLines(all) /\ kept = Rest(all)
  <2>1. MaxLine \in Int
    BY FramingAssumption
  <2>2. ~HasLine(stream, MaxLine)
    BY <1>1, <1>7, <2>1, HasLineGrows
  <2>3. text = Rest(stream) \o chunk /\ lines = TakeLines(stream)
    BY <2>2
  <2>4. TakeLines(all) = TakeLines(stream) \o TakeLines(text) /\ Rest(all) = Rest(text)
    BY <1>1, <2>3, LinesGrow, Zenon
  <2>5. Len(Rest(all)) <= MaxLine
    <3>1. Rest(all) = LineAt(all, Len(all) + 1) /\ Rest(all) \in Text
      BY <1>2, PlainParts
    <3>2. ~(Len(LineAt(all, Len(all) + 1)) > MaxLine)
      BY <1>7 DEF HasLine
    <3>3. Len(Rest(all)) \in Nat
      BY <3>1 DEF Text
    <3> QED
      BY <2>1, <3>1, <3>2, <3>3
  <2>6. out = TakeLines(text) /\ kept = Rest(text)
    BY <1>4, <2>4, <2>5
  <2> QED
    BY <2>3, <2>4, <2>6, Zenon
<1> QED
  BY <1>1, <1>3, <1>4, <1>5, <1>6, <1>7, Zenon

(* What was reported, and what is kept, are what was written.                *)
PlainLog ==
  /\ lines \in Texts /\ buffer \in Text /\ Plain(buffer) /\ Unbroken(buffer)
  /\ FlattenSeq(lines) \o buffer = Written(stream)
  /\ ~HasLine(stream, MaxLine) =>
       /\ WithLine(lines, buffer) = WithLine(TakeLines(stream), Rest(stream))
       /\ state = "open" => lines = TakeLines(stream) /\ buffer = Rest(stream)
LogInv ==
  reader = "log" =>
    /\ stream \in Text /\ state \in {"open", "ended"}
    /\ Plain(stream) => PlainLog

LEMMA InitLog == Init => LogInv
<1> SUFFICES ASSUME Init PROVE LogInv
  OBVIOUS
<1>1. PICK none : none = <<>>
  OBVIOUS
<1>2. none \in Text /\ none \in Texts /\ Len(none) = 0
  BY <1>1 DEF Text, Texts
<1>3. \A i \in 1..Len(none) : FALSE
  BY <1>2
<1>4. Plain(none) /\ Unbroken(none)
  BY <1>3 DEF Plain, Unbroken
<1>5. TakeLines(none) = none /\ Rest(none) = none
  BY <1>1, <1>2, <1>3, NoBreaks, RestOfNone
<1>6. Written(none) = none
  BY <1>2, <1>4, WrittenUnbroken DEF Unbroken
<1>7. FlattenSeq(none) = none /\ none \o none = none
  BY <1>1, Joins DEF FlattenSeq
<1>8. stream = none /\ buffer = none /\ lines = none /\ state = "open"
  BY <1>1 DEF Init
<1> QED
  BY <1>2, <1>4, <1>5, <1>6, <1>7, <1>8 DEF LogInv, PlainLog

LEMMA LogStep == LogInv /\ [Next]_vars => LogInv'
<1> SUFFICES ASSUME LogInv, [Next]_vars PROVE LogInv'
  OBVIOUS
<1>1. ASSUME NEW chunk \in Text, reader = "log", state = "open", stream' = stream \o chunk,
             Plain(stream'), NEW text, text = buffer \o chunk
      PROVE  /\ lines \o Reported(text) \in Texts /\ AfterCut(LeftOf(text)) \in Text
             /\ Plain(AfterCut(LeftOf(text))) /\ Unbroken(AfterCut(LeftOf(text)))
             /\ FlattenSeq(lines \o Reported(text)) \o AfterCut(LeftOf(text)) = Written(stream')
             /\ ~HasLine(stream', MaxLine) =>
                  /\ lines \o Reported(text) = TakeLines(stream')
                  /\ AfterCut(LeftOf(text)) = Rest(stream')
  <2>1. stream \in Text
    BY <1>1 DEF LogInv
  <2>2. Plain(stream) /\ Plain(stream \o chunk)
    BY <1>1, <2>1, PlainJoin
  <2>3. /\ lines \in Texts /\ buffer \in Text /\ Plain(buffer) /\ Unbroken(buffer)
        /\ FlattenSeq(lines) \o buffer = Written(stream)
        /\ ~HasLine(stream, MaxLine) => lines = TakeLines(stream) /\ buffer = Rest(stream)
    BY <1>1, <2>2 DEF LogInv, PlainLog
  <2> QED
    BY <1>1, <2>1, <2>2, <2>3, LogGrows
<1>2. ASSUME Read, reader = "log" PROVE LogInv'
  <2>1. PICK chunk \in Pieces : stream' = stream \o chunk /\ FlushLines(buffer \o chunk)
    BY <1>2 DEF Read, ReadMessage, PumpClient
  <2>2. chunk \in Text /\ stream \in Text /\ state = "open" /\ state' = "open"
    BY <1>2, <2>1, PieceTyped DEF Read, FlushLines, LogInv
  <2>3. PICK text : text = buffer \o chunk
    OBVIOUS
  <2>4. lines' = lines \o Reported(text) /\ buffer' = AfterCut(LeftOf(text))
    BY <2>1, <2>3 DEF FlushLines
  <2>5. stream' \in Text
    BY <2>1, <2>2, Joins
  <2>6. ASSUME Plain(stream') PROVE PlainLog'
    BY <1>1, <1>2, <2>1, <2>2, <2>3, <2>4, <2>6 DEF PlainLog
  <2> QED
    BY <2>2, <2>5, <2>6 DEF LogInv
<1>3. ASSUME Ends PROVE LogInv'
  <2>1. PICK chunk \in Remainders :
          /\ stream' = stream \o chunk
          /\ lines' = WithLine(lines \o Reported(buffer \o chunk), AfterCut(LeftOf(buffer \o chunk)))
    BY <1>3 DEF Ends
  <2>2. /\ chunk \in Text /\ stream \in Text /\ reader = "log" /\ state = "open" /\ state' = "ended"
        /\ buffer' = <<>>
    <3>1. (0..MaxStream) \in SUBSET Nat /\ chunk \in Chunks(0..MaxStream)
      BY <2>1, FramingAssumption DEF Remainders
    <3> QED
      BY <1>3, <2>1, <3>1, ChunkTyped DEF Ends, LogInv
  <2>3. PICK text : text = buffer \o chunk
    OBVIOUS
  <2>4. PICK out, kept : out = lines \o Reported(text) /\ kept = AfterCut(LeftOf(text))
    OBVIOUS
  <2>5. stream' \in Text
    BY <2>1, <2>2, Joins
  <2>6. ASSUME Plain(stream') PROVE PlainLog'
    <3>1. /\ out \in Texts /\ kept \in Text /\ FlattenSeq(out) \o kept = Written(stream')
          /\ ~HasLine(stream', MaxLine) => out = TakeLines(stream') /\ kept = Rest(stream')
      BY <1>1, <2>1, <2>2, <2>3, <2>4, <2>6
    <3>2. lines' = WithLine(out, kept)
      BY <2>1, <2>3, <2>4
    <3>3. lines' \in Texts /\ FlattenSeq(lines') = FlattenSeq(out) \o kept /\ FlattenSeq(lines') \in Text
      BY <3>1, <3>2, FlatWithLine, FlatConcat
    <3>4. FlattenSeq(lines') \o <<>> = FlattenSeq(lines')
      BY <3>3, Joins, Zenon
    <3>5. <<>> \in Text /\ Plain(<<>>) /\ Unbroken(<<>>)
      BY DEF Text, Plain, Unbroken
    <3>6. WithLine(lines', <<>>) = lines'
      BY DEF WithLine, NotEmpty
    <3> QED
      BY <2>2, <3>1, <3>2, <3>3, <3>4, <3>5, <3>6 DEF PlainLog
  <2> QED
    BY <2>2, <2>5, <2>6 DEF LogInv
<1>4. CASE UNCHANGED vars
  BY <1>4 DEF vars, LogInv, PlainLog
<1>5. ASSUME Read, reader # "log" PROVE LogInv'
  BY <1>5 DEF Read, LogInv
<1> QED
  BY <1>2, <1>3, <1>4, <1>5 DEF Next, Done

LEMMA LogInvariant == Spec => []LogInv
BY InitLog, LogStep, PTL DEF Spec

(* The log has the output of a command as it was written, however it is      *)
(* read, with nothing lost or doubled, and line by line unless a line is     *)
(* over the limit; for output without "\r", and reads and limits of any size *)
(* (executor.cpp:20).                                                        *)
THEOREM Logged == Spec => []LogIsTheOutput
<1>1. LogInv => LogIsTheOutput
  <2> SUFFICES ASSUME LogInv, reader = "log", Returns(stream) = {}
               PROVE  LogIsTheOutput
    BY DEF LogIsTheOutput
  <2>1. stream \in Text /\ DOMAIN stream = 1..Len(stream)
    BY DEF LogInv, Text
  <2>2. Plain(stream)
    BY <2>1 DEF Returns, Plain
  <2>3. PlainLog
    BY <2>2 DEF LogInv
  <2>4. LogLines(stream) = TakeLines(stream)
    BY <2>1, <2>2, LogLinesPlain
  <2>5. (\A n \in Breaks(stream) \cup {Len(stream) + 1} : Len(LineAt(stream, n)) <= MaxLine)
        => ~HasLine(stream, MaxLine)
    <3>1. Breaks(stream) \cup {Len(stream) + 1} \subseteq 1..(Len(stream) + 1)
      BY <2>1 DEF Breaks, Text
    <3>2. \A n \in Breaks(stream) \cup {Len(stream) + 1} : Len(LineAt(stream, n)) \in Nat
      BY <2>1, <3>1, LineTyped DEF Text
    <3>3. MaxLine \in Nat
      BY FramingAssumption
    <3> QED
      BY <3>2, <3>3 DEF HasLine
  <2> QED
    BY <2>3, <2>4, <2>5 DEF PlainLog, LogIsTheOutput
<1> QED
  BY <1>1, LogInvariant, PTL
=============================================================================
