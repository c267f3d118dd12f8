-------------------------- MODULE CsvWriterProofs --------------------------
(***************************************************************************)
(* Theorems about CsvWriter for texts of every length and any number of    *)
(* rows: a reader gets back what was written, and no formula.              *)
(*                                                                         *)
(* The writer and the reader are recursive functions over the characters   *)
(* of a text.  Where an induction is needed, Reaches replaces it: the      *)
(* numbers a fact holds for are a set.                                     *)
(***************************************************************************)
EXTENDS CsvWriter, SequenceTheorems, FiniteSetTheorems, TLAPS

Text == Seq(Char)

----------------------------------------------------------------------------
(* Numbers up to a bound.                                                  *)

\* A set of numbers with a bound has a largest: the numbers up to one of its
\* members are as many as that one.
LEMMA Largest ==
  ASSUME NEW n \in Nat, NEW S, S \subseteq 1 .. n, S # {}
  PROVE  \E m \in S : \A y \in S : y <= m
<1> DEFINE J == {j \in 1 .. n : \E i \in S : j <= i}
           m == Cardinality(J)
<1>1. IsFiniteSet(1 .. n) /\ J \in SUBSET (1 .. n)
  BY FS_Interval
<1>2. IsFiniteSet(J) /\ m \in Nat
  BY <1>1, FS_Subset, FS_CardinalityType
<1>3. ASSUME NEW x \in J PROVE x <= m
  <2>1. (1 .. x) \in SUBSET J
    OBVIOUS
  <2>2. Cardinality(1 .. x) = x
    BY FS_Interval
  <2> QED BY <1>2, <2>1, <2>2, FS_Subset
<1> HIDE DEF m
<1>4. m \in J
  <2> PICK s \in S : TRUE
    OBVIOUS
  <2>1. s \in Int /\ s >= 1
    OBVIOUS
  <2>2. m >= 1
    <3>1. s \in J
      OBVIOUS
    <3>2. s <= m
      BY <1>3, <3>1
    <3> QED BY <1>2, <2>1, <3>2
  <2>3. m <= n
    <3>1. Cardinality(1 .. n) = n
      BY FS_Interval
    <3> QED BY <1>1, <3>1, FS_Subset DEF m
  <2>4. ASSUME m \notin J PROVE FALSE
    <3>1. J \in SUBSET (1 .. (m - 1))
      <4> SUFFICES ASSUME NEW x \in J PROVE x \in 1 .. (m - 1)
        OBVIOUS
      <4>1. x <= m /\ x # m
        BY <1>3, <2>4
      <4> QED BY <1>2, <4>1
    <3>2. IsFiniteSet(1 .. (m - 1)) /\ Cardinality(1 .. (m - 1)) = m - 1
      BY <1>2, <2>2, FS_Interval
    <3>3. Cardinality(J) <= Cardinality(1 .. (m - 1))
      BY <3>1, <3>2, FS_Subset
    <3>4. m <= m - 1
      BY <3>2, <3>3 DEF m
    <3> QED BY <1>2, <3>4
  <2> QED BY <2>4
<1>5. PICK i \in S : m <= i
  BY <1>4
<1>6. \A y \in S : y \in J /\ y <= m
  BY <1>3
<1>7. m \in S /\ \A y \in S : y <= m
  BY <1>2, <1>5, <1>6
<1> QED BY <1>7

\* A set that holds 0, and with each number below n the next, holds n.
LEMMA Reaches ==
  ASSUME NEW n \in Nat, NEW D, 0 \in D,
         \A k \in 0 .. n : k \in D /\ k < n => k + 1 \in D
  PROVE  n \in D
<1> DEFINE S == {k \in 1 .. n : k - 1 \in D}
<1>1. CASE n = 0
  BY <1>1
<1>2. CASE n > 0
  <2>1. S \subseteq 1 .. n /\ 1 \in S
    BY <1>2
  <2>2. PICK m \in S : \A y \in S : y <= m
    <3> HIDE DEF S
    <3> QED BY <2>1, Largest
  <2>3. m \in 1 .. n /\ m - 1 \in 0 .. n /\ m - 1 < n /\ m - 1 \in D
    BY <2>1
  <2>4. (m - 1) + 1 \in D
    BY <2>3
  <2>5. m \in D
    BY <2>3, <2>4
  <2>6. ASSUME m < n PROVE FALSE
    <3>1. m + 1 \in S
      BY <2>3, <2>5, <2>6
    <3> QED BY <2>2, <2>3, <3>1
  <2> QED BY <2>3, <2>5, <2>6
<1> QED BY <1>1, <1>2

----------------------------------------------------------------------------
(* Reading a text, character by character.                                 *)

\* g[i] is the state of the reader after i characters of t, for i up to n.
IsRun(w, s, t, n, g) ==
  g = [i \in 0 .. n |-> IF i = 0 THEN s ELSE Reader(w, g[i - 1], t[i])]

LEMMA RunExists ==
  ASSUME NEW w, NEW s, NEW t, NEW n \in Nat
  PROVE  \E g : IsRun(w, s, t, n, g)
<1> DEFINE D == {k \in 0 .. n : \E g : IsRun(w, s, t, k, g)}
<1>1. 0 \in D
  <2> DEFINE g == [i \in 0 .. 0 |-> s]
  <2>1. IsRun(w, s, t, 0, g)
    BY DEF IsRun
  <2> QED BY <2>1
<1>2. ASSUME NEW k \in 0 .. n, k \in D, k < n PROVE k + 1 \in D
  <2>1. PICK g : IsRun(w, s, t, k, g)
    BY <1>2
  <2> DEFINE h == [i \in 0 .. k + 1 |-> IF i <= k THEN g[i] ELSE Reader(w, g[k], t[i])]
             h2 == [i \in 0 .. k + 1 |-> IF i = 0 THEN s ELSE Reader(w, h[i - 1], t[i])]
  <2>2. ASSUME NEW i \in 0 .. k + 1 PROVE h[i] = h2[i]
    <3>1. CASE i = 0
      BY <2>1, <3>1 DEF IsRun
    <3>2. CASE i \in 1 .. k
      <4>1. i - 1 \in 0 .. k /\ i \in 0 .. k
        BY <3>2
      <4>2. g[i] = Reader(w, g[i - 1], t[i])
        BY <2>1, <3>2, <4>1 DEF IsRun
      <4> QED BY <3>2, <4>1, <4>2
    <3>3. CASE i = k + 1
      BY <3>3
    <3> QED BY <3>1, <3>2, <3>3
  <2>3. h = h2
    BY <2>2
  <2>4. IsRun(w, s, t, k + 1, h)
    <3> HIDE DEF h
    <3> QED BY <2>3 DEF IsRun
  <2>5. k + 1 \in 0 .. n
    BY <1>2
  <2> HIDE DEF h
  <2> QED BY <2>4, <2>5
<1> HIDE DEF D
<1>3. n \in D
  BY <1>1, <1>2, Reaches
<1> QED BY <1>3 DEF D

LEMMA RunSteps ==
  ASSUME NEW w, NEW s, NEW t, NEW n \in Nat, NEW g, IsRun(w, s, t, n, g)
  PROVE  g[0] = s /\ \A i \in 1 .. n : g[i] = Reader(w, g[i - 1], t[i])
BY DEF IsRun

LEMMA RunStart ==
  ASSUME NEW w, NEW s, NEW t, NEW n \in Nat, NEW g, IsRun(w, s, t, n, g)
  PROVE  g[0] = s
BY DEF IsRun

\* The states of ReadText are a run.
LEMMA ReadTextIsRun ==
  ASSUME NEW w, NEW s, NEW t \in Text
  PROVE  \E g : IsRun(w, s, t, Len(t), g) /\ ReadText(w, s, t) = g[Len(t)]
<1> DEFINE G == CHOOSE g : g = [i \in 0 .. Len(t) |->
                                  IF i = 0 THEN s ELSE Reader(w, g[i - 1], t[i])]
<1>1. Len(t) \in Nat
  BY LenProperties DEF Text
<1>2. IsRun(w, s, t, Len(t), G)
  BY <1>1, RunExists, SMTT(30) DEF IsRun
<1>3. ReadText(w, s, t) = G[Len(t)]
  BY DEF ReadText
<1> HIDE DEF G
<1> QED BY <1>2, <1>3

\* After o characters of t1 come the first n of t2.
Follows(t1, o, t2, n) == \A i \in 1 .. n : t1[o + i] = t2[i]

\* Two runs over the same characters, from the same state, agree.
LEMMA RunsAgree ==
  ASSUME NEW w, NEW s1, NEW t1, NEW n1 \in Nat, NEW g, IsRun(w, s1, t1, n1, g),
         NEW s2, NEW t2, NEW n2 \in Nat, NEW h, IsRun(w, s2, t2, n2, h),
         NEW o \in Nat, o + n2 <= n1, g[o] = s2,
         Follows(t1, o, t2, n2)
  PROVE  g[o + n2] = h[n2]
<1> DEFINE D == {k \in 0 .. n2 : g[o + k] = h[k]}
<1>1. 0 \in D
  BY RunSteps
<1>2. ASSUME NEW k \in 0 .. n2, k \in D, k < n2 PROVE k + 1 \in D
  <2>1. k + 1 \in 1 .. n2 /\ o + (k + 1) \in 1 .. n1
    BY <1>2
  <2>2. h[k + 1] = Reader(w, h[(k + 1) - 1], t2[k + 1])
    <3>1. \A i \in 1 .. n2 : h[i] = Reader(w, h[i - 1], t2[i])
      BY RunSteps
    <3> QED BY <2>1, <3>1
  <2>3. g[o + (k + 1)] = Reader(w, g[(o + (k + 1)) - 1], t1[o + (k + 1)])
    <3>1. \A i \in 1 .. n1 : g[i] = Reader(w, g[i - 1], t1[i])
      BY RunSteps
    <3> QED BY <2>1, <3>1
  <2>4. (k + 1) - 1 = k /\ (o + (k + 1)) - 1 = o + k
    BY <1>2
  <2>5. g[o + k] = h[k] /\ t1[o + (k + 1)] = t2[k + 1]
    BY <1>2, <2>1 DEF Follows
  <2>6. g[o + (k + 1)] = h[k + 1]
    BY <2>2, <2>3, <2>4, <2>5
  <2> QED BY <2>1, <2>6
<1> HIDE DEF D
<1>3. n2 \in D
  BY <1>1, <1>2, Reaches
<1> QED BY <1>3 DEF D

LEMMA ReadNothing ==
  ASSUME NEW w, NEW s
  PROVE  ReadText(w, s, <<>>) = s
<1> DEFINE t == <<>>
<1>1. t \in Text /\ Len(t) = 0
  BY EmptySeq DEF Text
<1> HIDE DEF t
<1>2. PICK g : IsRun(w, s, t, 0, g) /\ ReadText(w, s, t) = g[0]
  BY <1>1, ReadTextIsRun
<1>3. g[0] = s
  BY <1>2, RunSteps
<1>4. ReadText(w, s, t) = s
  BY <1>2, <1>3
<1> QED BY <1>4 DEF t

LEMMA ReadOne ==
  ASSUME NEW w, NEW s, NEW c \in Char
  PROVE  ReadText(w, s, <<c>>) = Reader(w, s, c)
<1> DEFINE t == <<c>>
<1>1. t \in Text /\ Len(t) = 1 /\ t[1] = c
  BY DEF Text
<1> HIDE DEF t
<1>2. PICK g : IsRun(w, s, t, 1, g) /\ ReadText(w, s, t) = g[1]
  BY <1>1, ReadTextIsRun
<1>3. g[0] = s /\ \A i \in 1 .. 1 : g[i] = Reader(w, g[i - 1], t[i])
  BY <1>2, RunSteps
<1>4. g[1] = Reader(w, g[1 - 1], t[1])
  BY <1>3
<1>5. ReadText(w, s, t) = Reader(w, s, c)
  BY <1>1, <1>2, <1>3, <1>4
<1> QED BY <1>5 DEF t

\* Reading one text after another.
LEMMA ReadBoth ==
  ASSUME NEW w, NEW s, NEW a \in Text, NEW b \in Text
  PROVE  ReadText(w, s, a \o b) = ReadText(w, ReadText(w, s, a), b)
<1> DEFINE ab == a \o b
           m == ReadText(w, s, a)
<1>1. /\ ab \in Text /\ Len(ab) = Len(a) + Len(b) /\ Len(a) \in Nat /\ Len(b) \in Nat
      /\ \A i \in 1 .. Len(a) : ab[i] = a[i]
      /\ \A i \in 1 .. Len(b) : ab[Len(a) + i] = b[i]
  BY ConcatProperties, LenProperties DEF Text
<1> HIDE DEF ab, m
<1>2. PICK g : IsRun(w, s, ab, Len(ab), g) /\ ReadText(w, s, ab) = g[Len(ab)]
  BY <1>1, ReadTextIsRun
<1>3. PICK h : IsRun(w, s, a, Len(a), h) /\ m = h[Len(a)]
  BY ReadTextIsRun DEF m
<1>4. PICK k : IsRun(w, m, b, Len(b), k) /\ ReadText(w, m, b) = k[Len(b)]
  BY ReadTextIsRun
<1>5. g[0] = s
  BY <1>1, <1>2, RunSteps
<1>6. g[Len(a)] = m
  <2> DEFINE o == 0
             n == Len(a)
  <2>1. /\ o \in Nat /\ n \in Nat /\ Len(ab) \in Nat /\ o + n <= Len(ab)
        /\ Follows(ab, o, a, n) /\ IsRun(w, s, a, n, h) /\ g[o] = s
    BY <1>1, <1>3, <1>5 DEF Follows
  <2> HIDE DEF o, n
  <2>2. g[o + n] = h[n]
    BY <1>2, <2>1, RunsAgree
  <2>3. o + n = n
    BY <2>1 DEF o
  <2>4. g[n] = h[n]
    BY <2>2, <2>3
  <2> QED BY <1>3, <2>4 DEF n
<1>7. g[Len(a) + Len(b)] = k[Len(b)]
  <2>1. Follows(ab, Len(a), b, Len(b)) /\ Len(a) + Len(b) <= Len(ab)
    BY <1>1 DEF Follows
  <2> QED BY <1>1, <1>2, <1>4, <1>6, <2>1, RunsAgree
<1>8. ReadText(w, s, ab) = ReadText(w, m, b)
  BY <1>1, <1>2, <1>4, <1>7
<1> QED BY <1>8 DEF ab, m
----------------------------------------------------------------------------
(* Texts put together piece by piece.                                      *)

\* h[i] is the first i pieces of ss, one after the other.
IsJoined(ss, n, h) ==
  h \in [0 .. n -> Text] /\ h[0] = <<>> /\ \A i \in 1 .. n : h[i] = h[i - 1] \o ss[i]

LEMMA JoinedSteps ==
  ASSUME NEW n \in Nat, NEW ss, NEW h, IsJoined(ss, n, h)
  PROVE  /\ h[0] = <<>>
         /\ \A i \in 0 .. n : h[i] \in Text
         /\ \A i \in 1 .. n : h[i] = h[i - 1] \o ss[i]
BY DEF IsJoined

LEMMA JoinedExists ==
  ASSUME NEW n \in Nat, NEW ss \in [1 .. n -> Text]
  PROVE  \E h : IsJoined(ss, n, h)
<1> DEFINE D == {k \in 0 .. n : \E h : IsJoined(ss, k, h)}
<1>1. 0 \in D
  <2> DEFINE h == [i \in 0 .. 0 |-> <<>>]
  <2>1. IsJoined(ss, 0, h)
    BY EmptySeq DEF IsJoined, Text
  <2> HIDE DEF h
  <2> QED BY <2>1
<1>2. ASSUME NEW k \in 0 .. n, k \in D, k < n PROVE k + 1 \in D
  <2>1. PICK g : IsJoined(ss, k, g)
    BY <1>2
  <2>2. k + 1 \in 1 .. n /\ k \in Nat
    BY <1>2
  <2> DEFINE last == g[k] \o ss[k + 1]
             h == [i \in 0 .. k + 1 |-> IF i <= k THEN g[i] ELSE last]
  <2>3. last \in Text
    BY <2>1, <2>2, ConcatProperties DEF IsJoined, Text
  <2>4. h \in [0 .. k + 1 -> Text] /\ h[0] = <<>>
    <3> HIDE DEF last
    <3>1. \A i \in 0 .. k : g[i] \in Text
      BY <2>1 DEF IsJoined
    <3> QED BY <2>1, <2>2, <2>3, <3>1 DEF IsJoined
  <2>5. ASSUME NEW i \in 1 .. k + 1 PROVE h[i] = h[i - 1] \o ss[i]
    <3>1. CASE i \in 1 .. k
      <4>1. g[i] = g[i - 1] \o ss[i]
        BY <2>1, <2>2, <3>1, JoinedSteps, ZenonT(30)
      <4>2. h[i] = g[i] /\ h[i - 1] = g[i - 1]
        <5> HIDE DEF last
        <5> QED BY <2>2, <3>1
      <4> QED BY <4>1, <4>2
    <3>2. CASE i = k + 1
      <4>1. h[i] = last /\ i - 1 = k /\ h[i - 1] = g[k]
        <5> HIDE DEF last
        <5> QED BY <2>2, <3>2
      <4> HIDE DEF h
      <4> QED BY <3>2, <4>1
    <3> HIDE DEF h
    <3>3. i \in 1 .. k \/ i = k + 1
      BY <2>2
    <3> QED BY <3>1, <3>2, <3>3
  <2> HIDE DEF h
  <2>6. IsJoined(ss, k + 1, h)
    BY <2>4, <2>5 DEF IsJoined
  <2> QED BY <1>2, <2>6
<1> HIDE DEF D
<1>3. n \in D
  BY <1>1, <1>2, Reaches
<1> QED BY <1>3 DEF D

\* What FlattenSeq computes.
IsFlat(ss, n, g) ==
  g = [i \in 1 .. n |-> IF i = 1 THEN ss[i] ELSE g[i - 1] \o ss[i]]

LEMMA FlatExists ==
  ASSUME NEW n \in Nat, NEW ss \in [1 .. n -> Text], NEW h, IsJoined(ss, n, h)
  PROVE  \E g : IsFlat(ss, n, g)
<1> DEFINE g == [i \in 1 .. n |-> h[i]]
           f == [i \in 1 .. n |-> IF i = 1 THEN ss[i] ELSE g[i - 1] \o ss[i]]
<1>1. ASSUME NEW i \in 1 .. n PROVE g[i] = f[i]
  <2>1. h[i] = h[i - 1] \o ss[i] /\ ss[i] \in Text /\ h[0] = <<>>
    BY JoinedSteps
  <2>2. CASE i = 1
    <3>1. h[i - 1] = <<>>
      BY <2>1, <2>2
    <3>2. h[i] = <<>> \o ss[i]
      BY <2>1, <3>1
    <3>3. h[i] = ss[i]
      BY <2>1, <3>2, ConcatEmptySeq DEF Text
    <3> QED BY <2>2, <3>3
  <2>3. CASE i # 1
    <3>1. i - 1 \in 1 .. n
      BY <2>3
    <3> QED BY <2>1, <2>3, <3>1
  <2> QED BY <2>2, <2>3
<1>2. g = f
  BY <1>1
<1> HIDE DEF g
<1>3. IsFlat(ss, n, g)
  BY <1>2 DEF IsFlat
<1> QED BY <1>3

LEMMA FlatSteps ==
  ASSUME NEW n \in Nat, NEW ss, NEW g, IsFlat(ss, n, g)
  PROVE  \A i \in 1 .. n : g[i] = IF i = 1 THEN ss[i] ELSE g[i - 1] \o ss[i]
BY DEF IsFlat

LEMMA FlatAgrees ==
  ASSUME NEW n \in Nat, n > 0, NEW ss \in [1 .. n -> Text],
         NEW h, IsJoined(ss, n, h), NEW g, IsFlat(ss, n, g)
  PROVE  g[n] = h[n]
<1> DEFINE D == {k \in 0 .. n : k = 0 \/ g[k] = h[k]}
<1>1. /\ h[0] = <<>>
      /\ \A i \in 1 .. n : h[i] = h[i - 1] \o ss[i]
  BY JoinedSteps
<1>2. \A i \in 1 .. n : g[i] = IF i = 1 THEN ss[i] ELSE g[i - 1] \o ss[i]
  BY FlatSteps
<1>3. ASSUME NEW k \in 0 .. n, k \in D, k < n PROVE k + 1 \in D
  <2>1. k + 1 \in 1 .. n /\ (k + 1) - 1 = k
    BY <1>3
  <2>2. h[k + 1] = h[(k + 1) - 1] \o ss[k + 1] /\ ss[k + 1] \in Text
    BY <1>1, <2>1
  <2>3. CASE k = 0
    <3>1. g[k + 1] = ss[k + 1]
      BY <1>2, <2>1, <2>3
    <3>2. h[k + 1] = <<>> \o ss[k + 1]
      BY <1>1, <2>1, <2>2, <2>3
    <3>3. h[k + 1] = ss[k + 1]
      BY <2>2, <3>2, ConcatEmptySeq DEF Text
    <3>4. g[k + 1] = h[k + 1]
      BY <3>1, <3>3
    <3> QED BY <2>1, <3>4
  <2>4. CASE k > 0
    <3>1. g[k + 1] = g[(k + 1) - 1] \o ss[k + 1]
      <4>1. k + 1 # 1
        BY <2>4
      <4> QED BY <1>2, <2>1, <4>1
    <3>2. g[k] = h[k]
      BY <1>3, <2>4
    <3>3. g[k + 1] = h[k + 1]
      BY <2>1, <2>2, <3>1, <3>2
    <3> QED BY <2>1, <3>3
  <2> QED BY <1>3, <2>3, <2>4
<1>4. 0 \in D
  OBVIOUS
<1> HIDE DEF D
<1>5. n \in D
  BY <1>3, <1>4, Reaches
<1> QED BY <1>5 DEF D

\* FlattenSeq puts together all pieces.
LEMMA FlattenIsJoined ==
  ASSUME NEW ss, NEW n \in Nat, Len(ss) = n, ss \in [1 .. n -> Text], n = 0 => ss = <<>>
  PROVE  \E h : IsJoined(ss, n, h) /\ FlattenSeq(ss) = h[n]
<1> DEFINE G == CHOOSE g : g = [i \in 1 .. n |->
                                  IF i = 1 THEN ss[i] ELSE g[i - 1] \o ss[i]]
<1>1. PICK h : IsJoined(ss, n, h)
  BY JoinedExists
<1>2. FlattenSeq(ss) = IF n = 0 THEN ss ELSE G[n]
  BY DEF FlattenSeq
<1>3. IsFlat(ss, n, G)
  BY <1>1, FlatExists DEF IsFlat
<1> HIDE DEF G
<1>4. CASE n = 0
  <2>1. h[0] = <<>>
    BY <1>1, JoinedSteps
  <2> QED BY <1>1, <1>2, <1>4, <2>1
<1>5. CASE n > 0
  <2>1. G[n] = h[n]
    BY <1>1, <1>3, <1>5, FlatAgrees
  <2> QED BY <1>1, <1>2, <1>5, <2>1
<1> QED BY <1>4, <1>5
----------------------------------------------------------------------------
(* The steps of the reader.                                                *)

LEMMA CharFacts ==
  {Delim, Quote, CR, LF, Space, Backslash, Dot, Apostrophe, Equals,
   "name", "count", "null"} \subseteq Char
BY TextAssumption DEF TextAssumption

LEMMA AtParts ==
  ASSUME NEW m, NEW f, NEW r, NEW T
  PROVE  /\ At(m, f, r, T).mode = m /\ At(m, f, r, T).field = f
         /\ At(m, f, r, T).record = r /\ At(m, f, r, T).table = T
BY DEF At

LEMMA AtGoes ==
  ASSUME NEW m, NEW f, NEW r, NEW T, NEW m2
  PROVE  Goes(At(m, f, r, T), m2) = At(m2, f, r, T)
BY AtParts DEF Goes

LEMMA AtReads ==
  ASSUME NEW m, NEW f, NEW r, NEW T, NEW m2, NEW c
  PROVE  Reads(At(m, f, r, T), m2, c) = At(m2, Append(f, c), r, T)
BY AtParts DEF Reads

LEMMA AtEnds ==
  ASSUME NEW m, NEW f, NEW r, NEW T
  PROVE  /\ EndsField(At(m, f, r, T)) = At("start", <<>>, Append(r, f), T)
         /\ EndsRecord(At(m, f, r, T)) = At("start", <<>>, <<>>, Append(T, Append(r, f)))
BY AtParts DEF EndsField, EndsRecord

LEMMA ReaderModes ==
  ASSUME NEW w, NEW s, NEW c
  PROVE  /\ s.mode \in {"start", "plain"} =>
              Reader(w, s, c) = IF c \in {Delim, CR, LF} THEN AfterField(w, s, c)
                                ELSE IF c # Quote THEN Reads(s, "plain", c)
                                ELSE IF s.mode = "start" THEN Goes(s, "quoted") ELSE Wrong(s)
         /\ s.mode = "quoted" =>
              Reader(w, s, c) = IF w.escape /\ c = Backslash THEN Goes(s, "escaped")
                                ELSE IF c = Quote THEN Goes(s, "unquoted")
                                ELSE Reads(s, "quoted", c)
         /\ s.mode = "escaped" => Reader(w, s, c) = Reads(s, "quoted", c)
         /\ s.mode = "unquoted" =>
              Reader(w, s, c) = IF c = Quote /\ ~w.escape
                                THEN Reads(s, "quoted", c) ELSE AfterField(w, s, c)
         /\ s.mode = "cr" => Reader(w, s, c) = IF c = LF THEN EndsRecord(s) ELSE Wrong(s)
BY DEF Reader

LEMMA ReadsInQuotes ==
  ASSUME NEW w, NEW f, NEW r, NEW T, NEW c
  PROVE  /\ w.escape /\ c = Backslash =>
              Reader(w, At("quoted", f, r, T), c) = At("escaped", f, r, T)
         /\ c = Quote =>
              Reader(w, At("quoted", f, r, T), c) = At("unquoted", f, r, T)
         /\ ~(w.escape /\ c = Backslash) /\ c # Quote =>
              Reader(w, At("quoted", f, r, T), c) = At("quoted", Append(f, c), r, T)
         /\ Reader(w, At("escaped", f, r, T), c) = At("quoted", Append(f, c), r, T)
         /\ c = Quote /\ ~w.escape =>
              Reader(w, At("unquoted", f, r, T), c) = At("quoted", Append(f, c), r, T)
<1>1. c = Quote => c # Backslash
  BY DEF Quote, Backslash
<1>2. /\ At("quoted", f, r, T).mode = "quoted"
      /\ Goes(At("quoted", f, r, T), "escaped") = At("escaped", f, r, T)
      /\ Goes(At("quoted", f, r, T), "unquoted") = At("unquoted", f, r, T)
      /\ Reads(At("quoted", f, r, T), "quoted", c) = At("quoted", Append(f, c), r, T)
  <2>1. At("quoted", f, r, T).mode = "quoted"
    BY AtParts
  <2>2. /\ Goes(At("quoted", f, r, T), "escaped") = At("escaped", f, r, T)
        /\ Goes(At("quoted", f, r, T), "unquoted") = At("unquoted", f, r, T)
    BY AtGoes
  <2>3. Reads(At("quoted", f, r, T), "quoted", c) = At("quoted", Append(f, c), r, T)
    BY AtReads
  <2> QED BY <2>1, <2>2, <2>3
<1>3. /\ At("escaped", f, r, T).mode = "escaped"
      /\ Reads(At("escaped", f, r, T), "quoted", c) = At("quoted", Append(f, c), r, T)
  BY AtParts, AtGoes, AtReads, AtEnds
<1>4. /\ At("unquoted", f, r, T).mode = "unquoted"
      /\ Reads(At("unquoted", f, r, T), "quoted", c) = At("quoted", Append(f, c), r, T)
  BY AtParts, AtGoes, AtReads, AtEnds
<1>5. Reader(w, At("quoted", f, r, T), c)
        = IF w.escape /\ c = Backslash THEN At("escaped", f, r, T)
          ELSE IF c = Quote THEN At("unquoted", f, r, T) ELSE At("quoted", Append(f, c), r, T)
  BY <1>2, ReaderModes
<1>6. Reader(w, At("escaped", f, r, T), c) = At("quoted", Append(f, c), r, T)
  BY <1>3, ReaderModes
<1>7. c = Quote /\ ~w.escape =>
        Reader(w, At("unquoted", f, r, T), c) = At("quoted", Append(f, c), r, T)
  BY <1>4, ReaderModes
<1> QED BY <1>1, <1>5, <1>6, <1>7

LEMMA ReadsStart ==
  ASSUME NEW w, NEW f, NEW r, NEW T, NEW c
  PROVE  /\ c = Quote =>
              Reader(w, At("start", f, r, T), c) = At("quoted", f, r, T)
         /\ c \notin {Delim, CR, LF, Quote} =>
              /\ Reader(w, At("start", f, r, T), c) = At("plain", Append(f, c), r, T)
              /\ Reader(w, At("plain", f, r, T), c) = At("plain", Append(f, c), r, T)
<1>1. Quote \notin {Delim, CR, LF}
  BY DEF Quote, Delim, CR, LF
<1>2. /\ At("start", f, r, T).mode = "start"
      /\ Goes(At("start", f, r, T), "quoted") = At("quoted", f, r, T)
      /\ Reads(At("start", f, r, T), "plain", c) = At("plain", Append(f, c), r, T)
  BY AtParts, AtGoes, AtReads, AtEnds
<1>3. /\ At("plain", f, r, T).mode = "plain"
      /\ Reads(At("plain", f, r, T), "plain", c) = At("plain", Append(f, c), r, T)
  BY AtParts, AtGoes, AtReads, AtEnds
<1>4. CASE c = Quote
  BY <1>1, <1>2, <1>4, ReaderModes
<1>5. CASE c # Quote
  BY <1>2, <1>3, <1>5, ReaderModes
<1> QED BY <1>4, <1>5

\* Where a field may end.
AfterModes == {"start", "plain", "unquoted"}

LEMMA ReadsEnd ==
  ASSUME NEW w, NEW f, NEW r, NEW T, NEW m \in AfterModes
  PROVE  /\ Reader(w, At(m, f, r, T), Delim) = At("start", <<>>, Append(r, f), T)
         /\ w.useCRLF => Reader(w, At(m, f, r, T), CR) = At("cr", f, r, T)
         /\ ~w.useCRLF =>
              Reader(w, At(m, f, r, T), LF) = At("start", <<>>, <<>>, Append(T, Append(r, f)))
         /\ Reader(w, At("cr", f, r, T), LF) = At("start", <<>>, <<>>, Append(T, Append(r, f)))
<1>1. /\ Delim # CR /\ Delim # LF /\ CR # LF
      /\ Quote # Delim /\ Quote # CR /\ Quote # LF
  BY DEF Quote, Delim, CR, LF
<1>2. ASSUME NEW c \in {Delim, CR, LF}
      PROVE  Reader(w, At(m, f, r, T), c) = AfterField(w, At(m, f, r, T), c)
  <2>1. At(m, f, r, T).mode = m /\ c # Quote
    BY <1>1, AtParts, AtGoes, AtReads, AtEnds
  <2>2. CASE m \in {"start", "plain"}
    BY <2>1, <2>2, ReaderModes
  <2>3. CASE m = "unquoted"
    BY <2>1, <2>3, ReaderModes
  <2> QED BY <2>2, <2>3 DEF AfterModes
<1>3. Reader(w, At(m, f, r, T), Delim) = At("start", <<>>, Append(r, f), T)
  <2>1. EndsField(At(m, f, r, T)) = At("start", <<>>, Append(r, f), T)
    BY AtParts, AtGoes, AtReads, AtEnds
  <2> QED BY <1>2, <2>1 DEF AfterField
<1>4. w.useCRLF => Reader(w, At(m, f, r, T), CR) = At("cr", f, r, T)
  <2>1. Goes(At(m, f, r, T), "cr") = At("cr", f, r, T)
    BY AtParts, AtGoes, AtReads, AtEnds
  <2> QED BY <1>1, <1>2, <2>1 DEF AfterField
<1>5. ~w.useCRLF =>
        Reader(w, At(m, f, r, T), LF) = At("start", <<>>, <<>>, Append(T, Append(r, f)))
  <2>1. EndsRecord(At(m, f, r, T)) = At("start", <<>>, <<>>, Append(T, Append(r, f)))
    BY AtParts, AtGoes, AtReads, AtEnds
  <2> QED BY <1>1, <1>2, <2>1 DEF AfterField
<1>6. Reader(w, At("cr", f, r, T), LF) = At("start", <<>>, <<>>, Append(T, Append(r, f)))
  <2>1. /\ At("cr", f, r, T).mode = "cr"
        /\ EndsRecord(At("cr", f, r, T)) = At("start", <<>>, <<>>, Append(T, Append(r, f)))
    BY AtParts, AtGoes, AtReads, AtEnds
  <2> QED BY <2>1, ReaderModes
<1> QED BY <1>3, <1>4, <1>5, <1>6

LEMMA ReadTwo ==
  ASSUME NEW w, NEW s, NEW c \in Char, NEW d \in Char
  PROVE  ReadText(w, s, <<c, d>>) = Reader(w, Reader(w, s, c), d)
<1>1. <<c>> \in Text /\ <<d>> \in Text
  BY DEF Text
<1>2. <<c, d>> = <<c>> \o <<d>>
  <2> DEFINE u == <<c, d>>
             x == <<c>>
             y == <<d>>
  <2>1. /\ x \in Seq(Char) /\ Len(x) = 1 /\ x[1] = c
        /\ y \in Seq(Char) /\ Len(y) = 1 /\ y[1] = d
    OBVIOUS
  <2>2. u \in Seq(Char) /\ Len(u) = 2 /\ u[1] = c /\ u[2] = d
    OBVIOUS
  <2> HIDE DEF u, x, y
  <2>3. x \o y \in Seq(Char) /\ Len(x \o y) = 2 /\ (x \o y)[1] = c /\ (x \o y)[2] = d
    <3>1. /\ x \o y \in Seq(Char) /\ Len(x \o y) = Len(x) + Len(y)
          /\ \A i \in 1 .. Len(x) + Len(y) :
               (x \o y)[i] = IF i <= Len(x) THEN x[i] ELSE y[i - Len(x)]
      BY <2>1, ConcatProperties
    <3> QED BY <2>1, <3>1
  <2>4. u = x \o y
    BY <2>2, <2>3, SeqEqual
  <2> QED BY <2>4 DEF u, x, y
<1>3. ReadText(w, s, <<c>> \o <<d>>) = ReadText(w, ReadText(w, s, <<c>>), <<d>>)
  BY <1>1, ReadBoth
<1>4. /\ ReadText(w, s, <<c>>) = Reader(w, s, c)
      /\ ReadText(w, Reader(w, s, c), <<d>>) = Reader(w, Reader(w, s, c), d)
  BY ReadOne
<1> QED BY <1>2, <1>3, <1>4

----------------------------------------------------------------------------
(* Reading back a field.                                                   *)

\* What a reader gets of a character.
Kept(w, c) ==
  IF w.useCRLF /\ c = CR THEN <<>>
  ELSE IF w.useCRLF /\ c = LF THEN <<CR, LF>>
  ELSE <<c>>

LEMMA PiecesAreTexts ==
  ASSUME NEW w, NEW c \in Char
  PROVE  Quoted(w, c) \in Text /\ Kept(w, c) \in Text
<1>1. /\ Backslash \in Char /\ Quote \in Char /\ CR \in Char /\ LF \in Char
  BY CharFacts
<1>2. /\ <<>> \in Text
      /\ \A x, y \in Char : <<x, y>> \in Text /\ <<x>> \in Text
  BY DEF Text
<1> QED BY <1>1, <1>2 DEF Quoted, Kept

LEMMA AppendTwo ==
  ASSUME NEW f \in Text, NEW c \in Char, NEW d \in Char
  PROVE  /\ Append(f, c) = f \o <<c>>
         /\ Append(Append(f, c), d) = f \o <<c, d>>
         /\ f \o <<>> = f
<1>1. Append(f, c) = f \o <<c>> /\ Append(f, c) \in Text /\ f \o <<>> = f
  BY AppendIsConcat, AppendProperties, ConcatEmptySeq DEF Text
<1>2. Append(Append(f, c), d) = f \o <<c, d>>
  BY DEF Text
<1> QED BY <1>1, <1>2

\* Inside quotes, a character is read as what is kept of it.
LEMMA QuotedReads ==
  ASSUME NEW w, NEW c \in Char, NEW f \in Text, NEW r, NEW T
  PROVE  ReadText(w, At("quoted", f, r, T), Quoted(w, c))
           = At("quoted", f \o Kept(w, c), r, T)
<1>1. /\ Backslash \in Char /\ Quote \in Char /\ CR \in Char /\ LF \in Char
  BY CharFacts
<1>2. /\ Quote # Backslash /\ Quote # CR /\ Quote # LF
      /\ Backslash # CR /\ Backslash # LF /\ CR # LF
  BY DEF Quote, Backslash, CR, LF
<1>3. Append(f, c) = f \o <<c>> /\ f \o <<>> = f
  BY AppendTwo
<1>4. CASE w.escape /\ c = Backslash
  <2>1. Quoted(w, c) = <<Backslash, c>> /\ Kept(w, c) = <<c>>
    BY <1>2, <1>4 DEF Quoted, Kept
  <2>2. Reader(w, At("quoted", f, r, T), Backslash) = At("escaped", f, r, T)
    BY <1>4, ReadsInQuotes
  <2>3. Reader(w, At("escaped", f, r, T), c) = At("quoted", Append(f, c), r, T)
    BY ReadsInQuotes
  <2>4. ReadText(w, At("quoted", f, r, T), <<Backslash, c>>) = At("quoted", Append(f, c), r, T)
    BY <1>1, <2>2, <2>3, ReadTwo
  <2> QED BY <1>3, <2>1, <2>4
<1>5. CASE c = Quote /\ w.escape
  <2>1. Quoted(w, c) = <<Backslash, c>> /\ Kept(w, c) = <<c>>
    BY <1>2, <1>5 DEF Quoted, Kept
  <2>2. Reader(w, At("quoted", f, r, T), Backslash) = At("escaped", f, r, T)
    BY <1>5, ReadsInQuotes
  <2>3. Reader(w, At("escaped", f, r, T), c) = At("quoted", Append(f, c), r, T)
    BY ReadsInQuotes
  <2>4. ReadText(w, At("quoted", f, r, T), <<Backslash, c>>) = At("quoted", Append(f, c), r, T)
    BY <1>1, <2>2, <2>3, ReadTwo
  <2> QED BY <1>3, <2>1, <2>4
<1>6. CASE c = Quote /\ ~w.escape
  <2>1. Quoted(w, c) = <<c, c>> /\ Kept(w, c) = <<c>>
    BY <1>2, <1>6 DEF Quoted, Kept
  <2>2. /\ Reader(w, At("quoted", f, r, T), c) = At("unquoted", f, r, T)
        /\ Reader(w, At("unquoted", f, r, T), c) = At("quoted", Append(f, c), r, T)
    BY <1>6, ReadsInQuotes
  <2>3. ReadText(w, At("quoted", f, r, T), <<c, c>>) = At("quoted", Append(f, c), r, T)
    BY <2>2, ReadTwo
  <2> QED BY <1>3, <2>1, <2>3
<1>7. CASE w.useCRLF /\ c = CR
  <2>1. Quoted(w, c) = <<>> /\ Kept(w, c) = <<>>
    BY <1>2, <1>7 DEF Quoted, Kept
  <2> QED BY <1>3, <2>1, ReadNothing
<1>8. CASE w.useCRLF /\ c = LF
  <2>1. Quoted(w, c) = <<CR, LF>> /\ Kept(w, c) = <<CR, LF>>
    BY <1>2, <1>8 DEF Quoted, Kept
  <2>2. /\ Reader(w, At("quoted", f, r, T), CR) = At("quoted", Append(f, CR), r, T)
        /\ Reader(w, At("quoted", Append(f, CR), r, T), LF)
             = At("quoted", Append(Append(f, CR), LF), r, T)
    BY <1>2, ReadsInQuotes
  <2>3. Append(Append(f, CR), LF) = f \o <<CR, LF>>
    BY <1>1, AppendTwo
  <2> QED BY <1>1, <2>1, <2>2, <2>3, ReadTwo
<1>9. CASE /\ ~(w.escape /\ c = Backslash) /\ c # Quote
           /\ ~(w.useCRLF /\ c = CR) /\ ~(w.useCRLF /\ c = LF)
  <2>1. Quoted(w, c) = <<c>> /\ Kept(w, c) = <<c>>
    BY <1>9 DEF Quoted, Kept
  <2>2. Reader(w, At("quoted", f, r, T), c) = At("quoted", Append(f, c), r, T)
    BY <1>9, ReadsInQuotes
  <2> QED BY <1>3, <2>1, <2>2, ReadOne
<1> QED BY <1>4, <1>5, <1>6, <1>7, <1>8, <1>9
\* The pieces of a field, as they are written inside quotes and as they are kept.
QuotedPieces(w, f) == [i \in DOMAIN f |-> Quoted(w, f[i])]
KeptPieces(w, f)   == [i \in DOMAIN f |-> Kept(w, f[i])]

LEMMA PiecesFacts ==
  ASSUME NEW w, NEW f \in Text
  PROVE  /\ Len(f) \in Nat /\ \A i \in 1 .. Len(f) : f[i] \in Char
         /\ Len(QuotedPieces(w, f)) = Len(f) /\ QuotedPieces(w, f) \in [1 .. Len(f) -> Text]
         /\ \A i \in 1 .. Len(f) : QuotedPieces(w, f)[i] = Quoted(w, f[i])
         /\ Len(KeptPieces(w, f)) = Len(f) /\ KeptPieces(w, f) \in [1 .. Len(f) -> Text]
         /\ \A i \in 1 .. Len(f) : KeptPieces(w, f)[i] = Kept(w, f[i])
         /\ Len(f) = 0 => QuotedPieces(w, f) = <<>> /\ KeptPieces(w, f) = <<>>
<1>1. /\ Len(f) \in Nat /\ DOMAIN f = 1 .. Len(f)
      /\ \A i \in 1 .. Len(f) : f[i] \in Char
  BY LenProperties, ElementOfSeq DEF Text
<1>2. \A i \in 1 .. Len(f) : Quoted(w, f[i]) \in Text /\ Kept(w, f[i]) \in Text
  BY <1>1, PiecesAreTexts
<1>3. /\ QuotedPieces(w, f) = [i \in 1 .. Len(f) |-> Quoted(w, f[i])]
      /\ KeptPieces(w, f) = [i \in 1 .. Len(f) |-> Kept(w, f[i])]
  BY <1>1 DEF QuotedPieces, KeptPieces
<1>4. /\ Len(QuotedPieces(w, f)) = Len(f)
      /\ QuotedPieces(w, f) \in [1 .. Len(f) -> Text]
      /\ \A i \in 1 .. Len(f) : QuotedPieces(w, f)[i] = Quoted(w, f[i])
  BY <1>1, <1>2, <1>3
<1>5. /\ Len(KeptPieces(w, f)) = Len(f)
      /\ KeptPieces(w, f) \in [1 .. Len(f) -> Text]
      /\ \A i \in 1 .. Len(f) : KeptPieces(w, f)[i] = Kept(w, f[i])
  BY <1>1, <1>2, <1>3
<1>6. Len(f) = 0 => QuotedPieces(w, f) = <<>> /\ KeptPieces(w, f) = <<>>
  BY <1>3
<1> QED BY <1>1, <1>4, <1>5, <1>6

\* Inside quotes, a field is read as what is kept of it.
LEMMA QuotedFieldReads ==
  ASSUME NEW w, NEW f \in Text, NEW r, NEW T
  PROVE  ReadText(w, At("quoted", <<>>, r, T), FlattenSeq(QuotedPieces(w, f)))
           = At("quoted", FlattenSeq(KeptPieces(w, f)), r, T)
<1> DEFINE n == Len(f)
           s == At("quoted", <<>>, r, T)
<1>1. /\ n \in Nat /\ \A i \in 1 .. n : f[i] \in Char
      /\ \A i \in 1 .. n : QuotedPieces(w, f)[i] = Quoted(w, f[i])
      /\ \A i \in 1 .. n : KeptPieces(w, f)[i] = Kept(w, f[i])
  BY PiecesFacts
<1>2. PICK q : IsJoined(QuotedPieces(w, f), n, q) /\ FlattenSeq(QuotedPieces(w, f)) = q[n]
  BY PiecesFacts, FlattenIsJoined
<1>3. PICK a : IsJoined(KeptPieces(w, f), n, a) /\ FlattenSeq(KeptPieces(w, f)) = a[n]
  BY PiecesFacts, FlattenIsJoined
<1> HIDE DEF n, s
<1>4. /\ q[0] = <<>> /\ \A i \in 0 .. n : q[i] \in Text
      /\ \A i \in 1 .. n : q[i] = q[i - 1] \o QuotedPieces(w, f)[i]
  BY <1>1, <1>2, JoinedSteps
<1>5. /\ a[0] = <<>> /\ \A i \in 0 .. n : a[i] \in Text
      /\ \A i \in 1 .. n : a[i] = a[i - 1] \o KeptPieces(w, f)[i]
  BY <1>1, <1>3, JoinedSteps
<1> DEFINE D == {k \in 0 .. n : ReadText(w, s, q[k]) = At("quoted", a[k], r, T)}
<1>6. 0 \in D
  <2>1. ReadText(w, s, q[0]) = At("quoted", a[0], r, T)
    BY <1>4, <1>5, ReadNothing DEF s
  <2> QED BY <1>1, <2>1
<1>7. ASSUME NEW k \in 0 .. n, k \in D, k < n PROVE k + 1 \in D
  <2> DEFINE c == f[k + 1]
  <2>1. k + 1 \in 1 .. n /\ (k + 1) - 1 = k /\ k \in 0 .. n
    BY <1>1, <1>7
  <2>2. c \in Char /\ Quoted(w, c) \in Text /\ q[k] \in Text /\ a[k] \in Text
    BY <1>1, <1>4, <1>5, <2>1, PiecesAreTexts
  <2>3. q[k + 1] = q[k] \o Quoted(w, c) /\ a[k + 1] = a[k] \o Kept(w, c)
    BY <1>1, <1>4, <1>5, <2>1
  <2> HIDE DEF c
  <2>4. ReadText(w, s, q[k + 1]) = ReadText(w, ReadText(w, s, q[k]), Quoted(w, c))
    BY <2>2, <2>3, ReadBoth
  <2>5. ReadText(w, s, q[k]) = At("quoted", a[k], r, T)
    BY <1>7
  <2>6. ReadText(w, At("quoted", a[k], r, T), Quoted(w, c)) = At("quoted", a[k + 1], r, T)
    BY <2>2, <2>3, QuotedReads
  <2>7. ReadText(w, s, q[k + 1]) = At("quoted", a[k + 1], r, T)
    BY <2>4, <2>5, <2>6
  <2> QED BY <1>1, <2>1, <2>7
<1> HIDE DEF D
<1>8. n \in D
  BY <1>1, <1>6, <1>7, Reaches
<1>9. ReadText(w, s, q[n]) = At("quoted", a[n], r, T)
  BY <1>8 DEF D
<1> QED BY <1>2, <1>3, <1>9 DEF s

\* The pieces of one character each are the text.
LEMMA SinglePieces ==
  ASSUME NEW w, NEW f \in Text, \A i \in 1 .. Len(f) : Kept(w, f[i]) = <<f[i]>>
  PROVE  FlattenSeq(KeptPieces(w, f)) = f
<1> DEFINE n == Len(f)
<1>1. /\ n \in Nat /\ \A i \in 1 .. n : f[i] \in Char
      /\ \A i \in 1 .. n : KeptPieces(w, f)[i] = <<f[i]>>
  BY PiecesFacts
<1>2. PICK a : IsJoined(KeptPieces(w, f), n, a) /\ FlattenSeq(KeptPieces(w, f)) = a[n]
  BY PiecesFacts, FlattenIsJoined, ZenonT(30)
<1>3. SubSeq(f, 1, n) = f
  BY SubSeqFull DEF Text
<1>4. \A k \in 1 .. n : SubSeq(f, 1, k) = SubSeq(f, 1, k - 1) \o <<f[k]>>
  <2> TAKE k \in 1 .. n
  <2>1. 1 \in 1 .. Len(f) /\ k \in 1 .. Len(f)
    BY <1>1
  <2> QED BY <2>1, SubSeqRecursiveSecond DEF Text
<1> HIDE DEF n
<1>5. /\ a[0] = <<>>
      /\ \A i \in 1 .. n : a[i] = a[i - 1] \o KeptPieces(w, f)[i]
  BY <1>1, <1>2, JoinedSteps
<1> DEFINE D == {k \in 0 .. n : a[k] = SubSeq(f, 1, k)}
<1>6. 0 \in D
  <2>1. SubSeq(f, 1, 0) = <<>>
    BY SubSeqEmpty
  <2>2. a[0] = SubSeq(f, 1, 0) /\ 0 \in 0 .. n
    BY <1>1, <1>5, <2>1
  <2> QED BY <2>2
<1>7. ASSUME NEW k \in 0 .. n, k \in D, k < n PROVE k + 1 \in D
  <2>1. k + 1 \in 1 .. n /\ (k + 1) - 1 = k
    BY <1>1, <1>7
  <2>2. a[k + 1] = a[k] \o <<f[k + 1]>>
    BY <1>1, <1>5, <2>1
  <2>3. SubSeq(f, 1, k + 1) = SubSeq(f, 1, k) \o <<f[k + 1]>>
    BY <1>4, <2>1
  <2>4. a[k + 1] = SubSeq(f, 1, k + 1)
    BY <1>7, <2>2, <2>3
  <2> QED BY <2>1, <2>4
<1> HIDE DEF D
<1>8. n \in D
  BY <1>1, <1>6, <1>7, Reaches
<1> QED BY <1>2, <1>3, <1>8 DEF D

LEMMA AsWrittenPieces ==
  ASSUME NEW w, NEW f \in Text
  PROVE  AsWritten(w, f) = FlattenSeq(KeptPieces(w, f))
<1>1. CASE w.useCRLF
  <2>1. KeptPieces(w, f) = [i \in DOMAIN f |-> IF f[i] = CR THEN <<>>
                                                ELSE IF f[i] = LF THEN <<CR, LF>> ELSE <<f[i]>>]
    BY <1>1 DEF KeptPieces, Kept
  <2> QED BY <1>1, <2>1 DEF AsWritten
<1>2. CASE ~w.useCRLF
  <2>1. \A i \in 1 .. Len(f) : Kept(w, f[i]) = <<f[i]>>
    BY <1>2 DEF Kept
  <2> QED BY <1>2, <2>1, SinglePieces DEF AsWritten
<1> QED BY <1>1, <1>2

\* A text without line breaks is kept as it is.
LEMMA NoBreaksAsWritten ==
  ASSUME NEW w, NEW f \in Text, \A i \in 1 .. Len(f) : f[i] \notin {CR, LF}
  PROVE  AsWritten(w, f) = f
<1>1. \A i \in 1 .. Len(f) : Kept(w, f[i]) = <<f[i]>>
  BY DEF Kept
<1> QED BY <1>1, SinglePieces, AsWrittenPieces
\* A text that needs no quotes is read as it is.
LEMMA PlainFieldReads ==
  ASSUME NEW w, NEW f \in Text, NEW r, NEW T,
         \A i \in 1 .. Len(f) : f[i] \notin {Delim, CR, LF, Quote}
  PROVE  ReadText(w, At("start", <<>>, r, T), f)
           = At(IF Len(f) = 0 THEN "start" ELSE "plain", f, r, T)
<1> DEFINE n == Len(f)
           s == At("start", <<>>, r, T)
           sub(k) == SubSeq(f, 1, k)
           after(k) == At(IF k = 0 THEN "start" ELSE "plain", sub(k), r, T)
<1>1. /\ n \in Nat /\ \A i \in 1 .. n : f[i] \in Char
      /\ sub(0) = <<>> /\ sub(n) = f
  BY LenProperties, ElementOfSeq, SubSeqFull, SubSeqEmpty DEF Text
<1>2. \A k \in 1 .. n : sub(k) = Append(sub(k - 1), f[k])
  <2> TAKE k \in 1 .. n
  <2>1. 1 \in 1 .. Len(f) /\ k \in 1 .. Len(f) /\ f[k] \in Char
    BY <1>1
  <2>2. sub(k) = sub(k - 1) \o <<f[k]>>
    BY <2>1, SubSeqRecursiveSecond DEF Text
  <2>3. sub(k - 1) \in Text
    <3>1. \A i \in 1 .. k - 1 : f[i] \in Char
      BY <1>1, <2>1
    <3> QED BY <2>1, <3>1, SubSeqProperties DEF Text
  <2> HIDE DEF sub
  <2>4. Append(sub(k - 1), f[k]) = sub(k - 1) \o <<f[k]>>
    BY <2>1, <2>3, AppendIsConcat DEF Text
  <2> QED BY <2>2, <2>4
<1>3. PICK g : IsRun(w, s, f, n, g) /\ ReadText(w, s, f) = g[n]
  BY ReadTextIsRun
<1>4. \A i \in 1 .. n : f[i] \notin {Delim, CR, LF, Quote}
  OBVIOUS
<1> HIDE DEF n, s, sub
<1>5. g[0] = s /\ \A i \in 1 .. n : g[i] = Reader(w, g[i - 1], f[i])
  <2>1. n \in Nat /\ IsRun(w, s, f, n, g)
    BY <1>1, <1>3
  <2>2. g[0] = s
    BY <2>1, RunStart
  <2>3. \A i \in 1 .. n : g[i] = Reader(w, g[i - 1], f[i])
    BY <2>1, RunSteps
  <2> QED BY <2>2, <2>3
<1> DEFINE D == {k \in 0 .. n : g[k] = after(k)}
<1>6. 0 \in D
  BY <1>1, <1>5 DEF s
<1>7. ASSUME NEW k \in 0 .. n, k \in D, k < n PROVE k + 1 \in D
  <2> DEFINE c == f[k + 1]
  <2>1. k + 1 \in 1 .. n /\ (k + 1) - 1 = k /\ k + 1 # 0
    BY <1>1, <1>7
  <2>2. c \notin {Delim, CR, LF, Quote} /\ sub(k + 1) = Append(sub(k), c)
    BY <1>2, <1>4, <2>1
  <2>3. g[k + 1] = Reader(w, g[k], c)
    BY <1>5, <2>1
  <2> HIDE DEF c
  <2>4. g[k] = after(k)
    BY <1>7
  <2>5. \/ g[k] = At("start", sub(k), r, T)
        \/ g[k] = At("plain", sub(k), r, T)
    BY <2>4
  <2>6. g[k + 1] = At("plain", sub(k + 1), r, T)
    <3>1. /\ Reader(w, At("start", sub(k), r, T), c) = At("plain", Append(sub(k), c), r, T)
          /\ Reader(w, At("plain", sub(k), r, T), c) = At("plain", Append(sub(k), c), r, T)
      BY <2>2, ReadsStart
    <3> QED BY <2>2, <2>3, <2>5, <3>1
  <2>7. g[k + 1] = after(k + 1)
    BY <2>1, <2>6
  <2> QED BY <1>1, <2>1, <2>7
<1> HIDE DEF D
<1>8. n \in D
  BY <1>1, <1>6, <1>7, Reaches
<1>9. g[n] = At(IF n = 0 THEN "start" ELSE "plain", f, r, T)
  BY <1>1, <1>8 DEF D
<1> QED BY <1>3, <1>9 DEF n, s

LEMMA QuotedPiecesText ==
  ASSUME NEW w, NEW f \in Text
  PROVE  FlattenSeq(QuotedPieces(w, f)) \in Text /\ FlattenSeq(KeptPieces(w, f)) \in Text
<1> DEFINE n == Len(f)
<1>1. n \in Nat
  BY PiecesFacts
<1>2. PICK q : IsJoined(QuotedPieces(w, f), n, q) /\ FlattenSeq(QuotedPieces(w, f)) = q[n]
  BY PiecesFacts, FlattenIsJoined
<1>3. PICK a : IsJoined(KeptPieces(w, f), n, a) /\ FlattenSeq(KeptPieces(w, f)) = a[n]
  BY PiecesFacts, FlattenIsJoined
<1> HIDE DEF n
<1>4. q[n] \in Text
  <2>1. \A i \in 0 .. n : q[i] \in Text
    BY <1>1, <1>2, JoinedSteps
  <2> QED BY <1>1, <2>1
<1>5. a[n] \in Text
  <2>1. \A i \in 0 .. n : a[i] \in Text
    BY <1>1, <1>3, JoinedSteps
  <2> QED BY <1>1, <2>1
<1> QED BY <1>2, <1>3, <1>4, <1>5

LEMMA OneChar ==
  ASSUME NEW c \in Char
  PROVE  <<c>> \in Text
BY DEF Text

LEMMA FieldText ==
  ASSUME NEW w, NEW f \in Text
  PROVE  Field(w, f) \in Text
<1> DEFINE p == FlattenSeq(QuotedPieces(w, f))
           q == <<Quote>>
<1>1. p \in Text /\ q \in Text
  BY QuotedPiecesText, OneChar, CharFacts
<1>2. Field(w, f) = IF FieldNeedsQuotes(w, f) THEN q \o p \o q ELSE f
  BY DEF Field, QuotedPieces
<1> HIDE DEF p, q
<1>3. q \o p \in Text /\ (q \o p) \o q \in Text
  BY <1>1, ConcatProperties DEF Text
<1> QED BY <1>2, <1>3

\* After a field the reader has what was kept of it, and is where one may end.
LEMMA FieldReads ==
  ASSUME NEW w, NEW f \in Text, NEW r, NEW T
  PROVE  \E m \in AfterModes :
           ReadText(w, At("start", <<>>, r, T), Field(w, f)) = At(m, AsWritten(w, f), r, T)
<1> DEFINE s == At("start", <<>>, r, T)
<1>1. CASE FieldNeedsQuotes(w, f)
  <2> DEFINE p == FlattenSeq(QuotedPieces(w, f))
             q == <<Quote>>
             a == AsWritten(w, f)
  <2>1. p \in Text /\ q \in Text /\ q \o p \in Text
    <3>1. p \in Text /\ q \in Text
      BY QuotedPiecesText, OneChar, CharFacts
    <3> HIDE DEF p, q
    <3> QED BY <3>1, ConcatProperties DEF Text
  <2>2. Field(w, f) = (q \o p) \o q
    BY <1>1 DEF Field, QuotedPieces
  <2>3. ReadText(w, s, q) = At("quoted", <<>>, r, T)
    BY CharFacts, ReadOne, ReadsStart
  <2>4. ReadText(w, At("quoted", <<>>, r, T), p) = At("quoted", a, r, T)
    BY QuotedFieldReads, AsWrittenPieces
  <2>5. ReadText(w, At("quoted", a, r, T), q) = At("unquoted", a, r, T)
    <3>1. Reader(w, At("quoted", a, r, T), Quote) = At("unquoted", a, r, T)
      BY ReadsInQuotes
    <3> QED BY <3>1, CharFacts, ReadOne
  <2> HIDE DEF p, q, a, s
  <2>6. ReadText(w, s, q \o p) = At("quoted", a, r, T)
    BY <2>1, <2>3, <2>4, ReadBoth
  <2>7. ReadText(w, s, (q \o p) \o q) = At("unquoted", a, r, T)
    BY <2>1, <2>5, <2>6, ReadBoth
  <2> QED BY <2>2, <2>7 DEF AfterModes, a, s
<1>2. CASE ~FieldNeedsQuotes(w, f)
  <2>1. Field(w, f) = f
    BY <1>2 DEF Field
  <2>2. \A i \in 1 .. Len(f) : f[i] \notin {Delim, CR, LF, Quote}
    <3>1. DOMAIN f = 1 .. Len(f) /\ (Len(f) # 0 => f # <<>>)
      BY LenProperties, EmptySeq DEF Text
    <3>2. f # <<>> => \A i \in DOMAIN f : f[i] \notin {LF, CR, Quote, Delim}
      BY <1>2 DEF FieldNeedsQuotes
    <3> QED BY <3>1, <3>2
  <2>3. AsWritten(w, f) = f
    BY <2>2, NoBreaksAsWritten
  <2>4. ReadText(w, s, f) = At(IF Len(f) = 0 THEN "start" ELSE "plain", f, r, T)
    BY <2>2, PlainFieldReads
  <2> QED BY <2>1, <2>3, <2>4 DEF AfterModes
<1> QED BY <1>1, <1>2
----------------------------------------------------------------------------
(* Reading back a line.                                                    *)

\* The texts of a line.
Fields == [1 .. 2 -> Text]

LEMMA FieldsPair ==
  ASSUME NEW a \in Text, NEW b \in Text, NEW fs, DOMAIN fs = 1 .. 2, fs[1] = a, fs[2] = b,
         fs = [i \in 1 .. 2 |-> fs[i]]
  PROVE  Append(Append(<<>>, a), b) = fs
<1> DEFINE e == <<>>
           p == Append(Append(e, a), b)
<1>1. e \in Seq(Text) /\ Len(e) = 0
  BY EmptySeq
<1> HIDE DEF e
<1>2. /\ Append(e, a) \in Seq(Text) /\ Len(Append(e, a)) = 1 /\ Append(e, a)[1] = a
  BY <1>1, AppendProperties
<1>3. /\ p \in Seq(Text) /\ Len(p) = 2 /\ p[1] = a /\ p[2] = b
  BY <1>2, AppendProperties
<1>4. fs \in Seq(Text) /\ Len(fs) = 2
  OBVIOUS
<1> HIDE DEF p
<1>5. p = fs
  BY <1>3, <1>4, SeqEqual
<1> QED BY <1>5 DEF p, e

LEMMA ExpectedRowFacts ==
  ASSUME NEW w, NEW fs \in Fields
  PROVE  /\ ExpectedRow(w, fs) \in Fields
         /\ ExpectedRow(w, fs)[1] = AsWritten(w, fs[1])
         /\ ExpectedRow(w, fs)[2] = AsWritten(w, fs[2])
<1>1. \A i \in 1 .. 2 : AsWritten(w, fs[i]) \in Text
  BY AsWrittenPieces, QuotedPiecesText DEF Fields
<1>2. ExpectedRow(w, fs) = [i \in 1 .. 2 |-> AsWritten(w, fs[i])]
  BY DEF ExpectedRow, Fields
<1> QED BY <1>1, <1>2 DEF Fields

LEMMA ReadsLineEnd ==
  ASSUME NEW w, NEW m \in AfterModes, NEW f, NEW r, NEW T
  PROVE  /\ LineEnd(w) \in Text
         /\ ReadText(w, At(m, f, r, T), LineEnd(w))
              = At("start", <<>>, <<>>, Append(T, Append(r, f)))
<1>1. CR \in Char /\ LF \in Char /\ <<CR, LF>> \in Text /\ <<LF>> \in Text
  BY CharFacts DEF Text
<1>2. CASE w.useCRLF
  <2>1. /\ Reader(w, At(m, f, r, T), CR) = At("cr", f, r, T)
        /\ Reader(w, At("cr", f, r, T), LF) = At("start", <<>>, <<>>, Append(T, Append(r, f)))
    BY <1>2, ReadsEnd
  <2>2. ReadText(w, At(m, f, r, T), <<CR, LF>>)
          = At("start", <<>>, <<>>, Append(T, Append(r, f)))
    BY <1>1, <2>1, ReadTwo
  <2> QED BY <1>1, <1>2, <2>2 DEF LineEnd
<1>3. CASE ~w.useCRLF
  <2>1. Reader(w, At(m, f, r, T), LF) = At("start", <<>>, <<>>, Append(T, Append(r, f)))
    BY <1>3, ReadsEnd
  <2>2. ReadText(w, At(m, f, r, T), <<LF>>)
          = At("start", <<>>, <<>>, Append(T, Append(r, f)))
    BY <1>1, <2>1, ReadOne
  <2> QED BY <1>1, <1>3, <2>2 DEF LineEnd
<1> QED BY <1>2, <1>3

LEMMA ReadsDelim ==
  ASSUME NEW w, NEW m \in AfterModes, NEW f, NEW r, NEW T
  PROVE  ReadText(w, At(m, f, r, T), <<Delim>>) = At("start", <<>>, Append(r, f), T)
<1>1. Reader(w, At(m, f, r, T), Delim) = At("start", <<>>, Append(r, f), T)
  BY ReadsEnd
<1>2. ReadText(w, At(m, f, r, T), <<Delim>>) = Reader(w, At(m, f, r, T), Delim)
  BY CharFacts, ReadOne
<1> QED BY <1>1, <1>2

LEMMA LineReads ==
  ASSUME NEW w, NEW fs \in Fields, NEW T
  PROVE  /\ Line(w, fs) \in Text
         /\ ReadText(w, At("start", <<>>, <<>>, T), Line(w, fs))
              = At("start", <<>>, <<>>, Append(T, ExpectedRow(w, fs)))
<1> DEFINE p == Field(w, fs[1])
           q == Field(w, fs[2])
           d == <<Delim>>
           e == LineEnd(w)
           a == AsWritten(w, fs[1])
           b == AsWritten(w, fs[2])
           none == <<>>
           s == At("start", none, none, T)
<1>1. fs[1] \in Text /\ fs[2] \in Text /\ a \in Text /\ b \in Text
  BY AsWrittenPieces, QuotedPiecesText DEF Fields
<1>2. p \in Text /\ q \in Text /\ d \in Text /\ e \in Text
  BY <1>1, FieldText, OneChar, CharFacts, ReadsLineEnd DEF AfterModes
<1>3. Line(w, fs) = ((p \o d) \o q) \o e
  <2> HIDE DEF d, e
  <2> QED BY DEF Line, d, e
<1>4. PICK m \in AfterModes : ReadText(w, s, p) = At(m, a, none, T)
  BY <1>1, FieldReads
<1>5. ReadText(w, At(m, a, none, T), d) = At("start", none, Append(none, a), T)
  <2> DEFINE r == none
  <2> HIDE DEF r, a
  <2>1. ReadText(w, At(m, a, r, T), <<Delim>>) = At("start", <<>>, Append(r, a), T)
    BY ReadsDelim
  <2> QED BY <2>1 DEF r
<1>6. PICK m2 \in AfterModes : ReadText(w, At("start", none, Append(none, a), T), q)
                                 = At(m2, b, Append(none, a), T)
  BY <1>1, FieldReads
<1>7. ReadText(w, At(m2, b, Append(none, a), T), e)
        = At("start", none, none, Append(T, Append(Append(none, a), b)))
  BY ReadsLineEnd
<1>8. Append(Append(none, a), b) = ExpectedRow(w, fs)
  <2> DEFINE x == ExpectedRow(w, fs)
  <2>1. /\ x[1] = a /\ x[2] = b /\ DOMAIN x = 1 .. 2 /\ x = [i \in 1 .. 2 |-> x[i]]
    BY ExpectedRowFacts DEF Fields
  <2> HIDE DEF x, a, b
  <2>2. Append(Append(<<>>, a), b) = x
    BY <1>1, <2>1, FieldsPair
  <2> QED BY <2>2 DEF x
<1> HIDE DEF p, q, d, e, a, b, none, s
<1>9. p \o d \in Text /\ (p \o d) \o q \in Text /\ ((p \o d) \o q) \o e \in Text
  <2>1. p \o d \in Text
    BY <1>2, ConcatProperties DEF Text
  <2>2. (p \o d) \o q \in Text
    BY <1>2, <2>1, ConcatProperties DEF Text
  <2> QED BY <1>2, <2>1, <2>2, ConcatProperties DEF Text
<1>10. ReadText(w, s, p \o d) = At("start", none, Append(none, a), T)
  BY <1>2, <1>4, <1>5, ReadBoth
<1>11. ReadText(w, s, (p \o d) \o q) = At(m2, b, Append(none, a), T)
  BY <1>2, <1>6, <1>9, <1>10, ReadBoth
<1>12. ReadText(w, s, ((p \o d) \o q) \o e)
         = At("start", none, none, Append(T, Append(Append(none, a), b)))
  BY <1>2, <1>7, <1>9, <1>11, ReadBoth
<1>13. ReadText(w, s, Line(w, fs)) = At("start", none, none, Append(T, ExpectedRow(w, fs)))
  BY <1>3, <1>8, <1>12
<1> QED BY <1>3, <1>9, <1>13 DEF s, none
----------------------------------------------------------------------------
(* Reading back a file.                                                    *)

Cells == StringCells \cup NumberCells
Rows  == {row \in [1 .. 2 -> Cells] : row[1] \in StringCells}

LEMMA EscapedText ==
  ASSUME NEW w, NEW f \in Text
  PROVE  /\ WithFormulas(w, f) \in Text
         /\ w.formulas => \/ WithFormulas(w, f) = <<>>
                          \/ Head(WithFormulas(w, f)) \notin {Equals, CR}
<1> DEFINE a == <<Apostrophe>>
           g == a \o f
<1>1. a \in Text /\ Len(a) = 1 /\ a[1] = Apostrophe
  <2>1. a \in Text
    BY OneChar, CharFacts
  <2> QED BY <2>1
<1>2. Apostrophe \notin {Equals, CR}
  BY DEF Apostrophe, Equals, CR
<1> HIDE DEF a
<1>3. g \in Text /\ Len(g) = 1 + Len(f) /\ Len(f) \in Nat /\ g[1] = Apostrophe
  <2>1. Len(f) \in Nat
    BY LenProperties DEF Text
  <2>2. /\ g \in Text /\ Len(g) = Len(a) + Len(f)
        /\ \A i \in 1 .. Len(a) + Len(f) : g[i] = IF i <= Len(a) THEN a[i] ELSE f[i - Len(a)]
    BY <1>1, ConcatProperties DEF Text
  <2> HIDE DEF g
  <2> QED BY <1>1, <2>1, <2>2
<1>4. WithFormulas(w, f) = IF w.formulas /\ f # <<>> /\ Head(f) \in {Equals, CR} THEN g ELSE f
  BY DEF WithFormulas, EscapeFormula, a
<1> HIDE DEF g
<1>5. Head(g) = Apostrophe
  BY <1>3 DEF Text
<1> QED BY <1>2, <1>3, <1>4, <1>5

LEMMA CellFacts ==
  ASSUME NEW w, NEW c \in Cells
  PROVE  /\ CellText(w, c) \in Text
         /\ c \in StringCells => \E f \in Text : CellText(w, c) = WithFormulas(w, f)
         /\ c.kind = "number" =>
              CellText(w, c) = c.text /\ \A i \in 1 .. Len(c.text) : c.text[i] \notin {CR, LF}
<1>1. NullString \in Text
  BY CharFacts DEF NullString, Text
<1>2. CASE c = NullCell
  <2>1. c.kind = "null"
    BY <1>2 DEF NullCell
  <2> QED BY <1>1, <2>1, EscapedText DEF CellText
<1>3. ASSUME NEW t \in Texts, c = [kind |-> "string", text |-> t] PROVE
        /\ CellText(w, c) \in Text /\ c.kind # "number"
        /\ \E f \in Text : CellText(w, c) = WithFormulas(w, f)
  <2>1. c.kind = "string" /\ c.text = t /\ t \in Text
    BY <1>3, TextAssumption DEF TextAssumption, Text
  <2> QED BY <2>1, EscapedText DEF CellText
<1>4. ASSUME NEW t \in Numbers, c = [kind |-> "number", text |-> t] PROVE
        /\ CellText(w, c) \in Text /\ c \notin StringCells
        /\ CellText(w, c) = c.text /\ \A i \in 1 .. Len(c.text) : c.text[i] \notin {CR, LF}
  <2>1. c.kind = "number" /\ c.text = t /\ t \in Seq(Char \ {CR, LF})
    BY <1>4, TextAssumption DEF TextAssumption
  <2>2. t \in Text
    BY <2>1, SeqMonotonic DEF Text
  <2>3. \A i \in 1 .. Len(t) : t[i] \notin {CR, LF}
    <3>1. \A i \in 1 .. Len(t) : t[i] \in Char \ {CR, LF}
      BY <2>1, ElementOfSeq
    <3> QED BY <3>1
  <2>4. CellText(w, c) = t
    BY <2>1 DEF CellText
  <2>5. c \notin StringCells
    BY <2>1 DEF StringCells, NullCell
  <2> QED BY <2>1, <2>2, <2>3, <2>4, <2>5
<1>5. \/ c = NullCell
      \/ \E t \in Texts : c = [kind |-> "string", text |-> t]
      \/ \E t \in Numbers : c = [kind |-> "number", text |-> t]
  BY DEF Cells, StringCells, NumberCells
<1> QED BY <1>2, <1>3, <1>4, <1>5

LEMMA LineTexts ==
  ASSUME NEW w
  PROVE  /\ HeaderTexts(w) \in Fields
         /\ \E f \in Text : HeaderTexts(w)[1] = WithFormulas(w, f)
         /\ \A row \in Rows :
              /\ RowTexts(w, row) \in Fields
              /\ RowTexts(w, row)[1] = CellText(w, row[1])
              /\ RowTexts(w, row)[2] = CellText(w, row[2])
<1>1. /\ HeaderTexts(w) = [i \in 1 .. 2 |-> WithFormulas(w, Header[i])]
      /\ Header[1] \in Text /\ Header[2] \in Text
  BY CharFacts DEF HeaderTexts, Header, Text
<1>2. HeaderTexts(w) \in Fields /\ HeaderTexts(w)[1] = WithFormulas(w, Header[1])
  <2>1. \A i \in 1 .. 2 : WithFormulas(w, Header[i]) \in Text
    BY <1>1, EscapedText
  <2> QED BY <1>1, <2>1 DEF Fields
<1>3. ASSUME NEW row \in Rows
      PROVE  /\ RowTexts(w, row) \in Fields
             /\ RowTexts(w, row)[1] = CellText(w, row[1])
             /\ RowTexts(w, row)[2] = CellText(w, row[2])
  <2>1. \A i \in 1 .. 2 : CellText(w, row[i]) \in Text
    BY CellFacts DEF Rows
  <2>2. RowTexts(w, row) = [i \in 1 .. 2 |-> CellText(w, row[i])]
    BY DEF RowTexts, Rows
  <2> QED BY <2>1, <2>2 DEF Fields
<1> QED BY <1>1, <1>2, <1>3
\* What a reader gets of the header and of rows.
FullHeader(w) == IF w.writeHeader THEN <<ExpectedRow(w, HeaderTexts(w))>> ELSE <<>>
RowTable(w, rs) == [i \in DOMAIN rs |-> ExpectedRow(w, RowTexts(w, rs[i]))]

LEMMA TableFacts ==
  ASSUME NEW w
  PROVE  /\ FullHeader(w) \in Seq(Fields)
         /\ \A rs \in Seq(Rows) :
              /\ RowTable(w, rs) \in Seq(Fields) /\ Len(RowTable(w, rs)) = Len(rs)
              /\ \A i \in 1 .. Len(rs) : RowTable(w, rs)[i] = ExpectedRow(w, RowTexts(w, rs[i]))
<1>1. FullHeader(w) \in Seq(Fields)
  <2> DEFINE x == ExpectedRow(w, HeaderTexts(w))
  <2>1. x \in Fields
    BY LineTexts, ExpectedRowFacts
  <2> HIDE DEF x
  <2>2. FullHeader(w) = IF w.writeHeader THEN <<x>> ELSE <<>>
    BY DEF FullHeader, x
  <2>3. <<x>> \in Seq(Fields) /\ <<>> \in Seq(Fields)
    BY <2>1
  <2> QED BY <2>2, <2>3
<1>2. ASSUME NEW rs \in Seq(Rows)
      PROVE  /\ RowTable(w, rs) \in Seq(Fields) /\ Len(RowTable(w, rs)) = Len(rs)
             /\ \A i \in 1 .. Len(rs) : RowTable(w, rs)[i] = ExpectedRow(w, RowTexts(w, rs[i]))
  <2>1. Len(rs) \in Nat /\ DOMAIN rs = 1 .. Len(rs) /\ \A i \in 1 .. Len(rs) : rs[i] \in Rows
    BY LenProperties, ElementOfSeq
  <2>2. \A i \in 1 .. Len(rs) : ExpectedRow(w, RowTexts(w, rs[i])) \in Fields
    BY <2>1, LineTexts, ExpectedRowFacts
  <2>3. RowTable(w, rs) = [i \in 1 .. Len(rs) |-> ExpectedRow(w, RowTexts(w, rs[i]))]
    BY <2>1 DEF RowTable
  <2> QED BY <2>1, <2>2, <2>3
<1> QED BY <1>1, <1>2

LEMMA TableGrows ==
  ASSUME NEW w, NEW rs \in Seq(Rows), NEW row \in Rows, NEW h \in Seq(Fields)
  PROVE  h \o RowTable(w, Append(rs, row))
           = Append(h \o RowTable(w, rs), ExpectedRow(w, RowTexts(w, row)))
<1> DEFINE e == ExpectedRow(w, RowTexts(w, row))
           more == Append(rs, row)
           t == RowTable(w, rs)
           u == RowTable(w, more)
<1>1. /\ more \in Seq(Rows) /\ Len(more) = Len(rs) + 1 /\ Len(rs) \in Nat
      /\ \A i \in 1 .. Len(rs) : more[i] = rs[i]
      /\ more[Len(rs) + 1] = row
  BY AppendProperties, LenProperties
<1> HIDE DEF more
<1>2. /\ t \in Seq(Fields) /\ Len(t) = Len(rs)
      /\ \A i \in 1 .. Len(rs) : t[i] = ExpectedRow(w, RowTexts(w, rs[i]))
  BY TableFacts
<1>3. /\ u \in Seq(Fields) /\ Len(u) = Len(rs) + 1
      /\ \A i \in 1 .. Len(rs) + 1 : u[i] = ExpectedRow(w, RowTexts(w, more[i]))
  BY <1>1, TableFacts
<1>4. e \in Fields
  BY LineTexts, ExpectedRowFacts
<1>5. /\ \A i \in 1 .. Len(rs) : u[i] = t[i]
      /\ u[Len(rs) + 1] = e
  BY <1>1, <1>2, <1>3
<1> HIDE DEF e, t, u
<1>6. /\ Append(t, e) \in Seq(Fields) /\ Len(Append(t, e)) = Len(t) + 1
      /\ \A i \in 1 .. Len(t) : Append(t, e)[i] = t[i]
      /\ Append(t, e)[Len(t) + 1] = e
  BY <1>2, <1>4, AppendProperties
<1>7. u = Append(t, e)
  <2>1. \A i \in 1 .. Len(u) : u[i] = Append(t, e)[i]
    BY <1>1, <1>2, <1>3, <1>5, <1>6
  <2> QED BY <1>1, <1>2, <1>3, <1>6, <2>1, SeqEqual
<1>8. h \o Append(t, e) = Append(h \o t, e)
  <2> DEFINE o == <<e>>
  <2>1. o \in Seq(Fields)
    BY <1>4
  <2>2. Append(t, e) = t \o o
    BY <1>2, <1>4, AppendIsConcat
  <2>3. h \o t \in Seq(Fields)
    BY <1>2, ConcatProperties
  <2>4. Append(h \o t, e) = (h \o t) \o o
    BY <1>4, <2>3, AppendIsConcat
  <2> HIDE DEF o
  <2>5. (h \o t) \o o = h \o (t \o o)
    BY <1>2, <2>1, ConcatAssociative, SMTT(30)
  <2> QED BY <2>2, <2>4, <2>5
<1>9. h \o u = Append(h \o t, e)
  BY <1>7, <1>8
<1> QED BY <1>9 DEF e, more, t, u

----------------------------------------------------------------------------
(* The invariant.                                                          *)

CsvTypes ==
  /\ conf \in Configs /\ rows \in Seq(Rows) /\ out \in Text
  /\ headerDone \in BOOLEAN /\ closed \in BOOLEAN

\* The header is written with the first row, or at the end.
HeaderOnce == headerDone <=> conf.writeHeader /\ (closed \/ rows # <<>>)

\* The reader is between two lines and has the header, if it is written, and
\* the rows.
TableRead ==
  ReadBack = At("start", <<>>, <<>>,
                (IF headerDone THEN FullHeader(conf) ELSE <<>>) \o RowTable(conf, rows))

CsvInv == CsvTypes /\ HeaderOnce /\ TableRead

LEMMA CsvInit == Init => CsvInv
<1> SUFFICES ASSUME Init PROVE CsvInv
  OBVIOUS
<1>1. CsvTypes
  BY EmptySeq DEF Init, CsvTypes, Text
<1>2. HeaderOnce
  BY DEF Init, HeaderOnce
<1>3. TableRead
  <2>1. rows = <<>> /\ out = <<>> /\ headerDone = FALSE
    BY DEF Init
  <2>2. ReadText(conf, StartOfText, <<>>) = StartOfText
    BY ReadNothing
  <2>3. RowTable(conf, <<>>) = <<>>
    BY DEF RowTable
  <2> QED BY <2>1, <2>2, <2>3 DEF TableRead, ReadBack, StartOfText
<1> QED BY <1>1, <1>2, <1>3 DEF CsvInv

\* After the header, if it was still to come, the reader has it.
LEMMA HeaderReads ==
  ASSUME CsvInv
  PROVE  /\ HeaderLine \in Text
         /\ ReadText(conf, ReadBack, HeaderLine)
              = At("start", <<>>, <<>>, FullHeader(conf) \o RowTable(conf, rows))
<1> DEFINE t == RowTable(conf, rows)
           h == FullHeader(conf)
           x == ExpectedRow(conf, HeaderTexts(conf))
           l == Line(conf, HeaderTexts(conf))
<1>1. t \in Seq(Fields) /\ h \in Seq(Fields)
  BY TableFacts DEF CsvInv, CsvTypes
<1>2. CASE conf.writeHeader /\ ~headerDone
  <2>1. rows = <<>>
    BY <1>2 DEF CsvInv, HeaderOnce
  <2>2. t = <<>>
    BY <2>1 DEF RowTable
  <2>3. ReadBack = At("start", <<>>, <<>>, <<>>)
    BY <1>2, <2>2 DEF CsvInv, TableRead
  <2>4. HeaderLine = l
    BY <1>2 DEF HeaderLine
  <2>5. /\ l \in Text
        /\ ReadText(conf, At("start", <<>>, <<>>, <<>>), l)
             = At("start", <<>>, <<>>, Append(<<>>, x))
    BY LineTexts, LineReads
  <2>6. Append(<<>>, x) = h \o t
    BY <1>2, <2>2 DEF FullHeader
  <2> HIDE DEF t, h, x, l
  <2>7. ReadText(conf, ReadBack, l) = At("start", <<>>, <<>>, h \o t)
    BY <2>3, <2>5, <2>6
  <2> QED BY <2>4, <2>5, <2>7 DEF t, h
<1>3. CASE ~(conf.writeHeader /\ ~headerDone)
  <2>1. HeaderLine = <<>> /\ <<>> \in Text
    BY <1>3, EmptySeq DEF HeaderLine, Text
  <2>2. ReadText(conf, ReadBack, <<>>) = ReadBack
    BY ReadNothing
  <2>3. (IF headerDone THEN h ELSE <<>>) = h
    BY <1>3 DEF FullHeader
  <2>4. ReadBack = At("start", <<>>, <<>>, h \o t)
    BY <2>3 DEF CsvInv, TableRead
  <2> QED BY <2>1, <2>2, <2>4
<1> QED BY <1>2, <1>3

LEMMA WriteKeeps ==
  ASSUME CsvInv, NEW row \in Rows, Write(row)
  PROVE  CsvInv'
<1> DEFINE fs == RowTexts(conf, row)
           l == Line(conf, fs)
           hl == HeaderLine
           h == FullHeader(conf)
           t == RowTable(conf, rows)
<1>1. /\ conf' = conf /\ closed' = closed /\ closed = FALSE
      /\ out' = (out \o hl) \o l
      /\ headerDone' = (headerDone \/ conf.writeHeader)
      /\ rows' = Append(rows, row)
  BY DEF Write, CsvInv, CsvTypes
<1>2. fs \in Fields
  BY LineTexts
<1>3. hl \in Text /\ l \in Text /\ out \in Text /\ out \o hl \in Text
  <2>1. hl \in Text /\ l \in Text /\ out \in Text
    BY <1>2, HeaderReads, LineReads DEF CsvInv, CsvTypes
  <2> HIDE DEF hl, l
  <2> QED BY <2>1, ConcatProperties DEF Text
<1>4. rows' \in Seq(Rows) /\ rows' # <<>>
  BY <1>1, AppendProperties DEF CsvInv, CsvTypes
<1>5. CsvTypes'
  <2>1. out' \in Text
    <3> HIDE DEF hl, l
    <3> QED BY <1>1, <1>3, ConcatProperties DEF Text
  <2>2. conf.writeHeader \in BOOLEAN
    BY DEF CsvInv, CsvTypes, Configs
  <2> QED BY <1>1, <1>4, <2>1, <2>2 DEF CsvInv, CsvTypes
<1>6. headerDone' <=> conf.writeHeader
  BY <1>1 DEF CsvInv, HeaderOnce
<1>7. HeaderOnce'
  BY <1>1, <1>4, <1>6 DEF HeaderOnce
<1>8. TableRead'
  <2>1. ReadText(conf, ReadText(conf, StartOfText, out), hl) = At("start", <<>>, <<>>, h \o t)
    BY HeaderReads DEF ReadBack
  <2>2. ReadText(conf, At("start", <<>>, <<>>, h \o t), l)
          = At("start", <<>>, <<>>, Append(h \o t, ExpectedRow(conf, fs)))
    BY <1>2, LineReads
  <2>3. h \o RowTable(conf, Append(rows, row)) = Append(h \o t, ExpectedRow(conf, fs))
    BY TableFacts, TableGrows DEF CsvInv, CsvTypes
  <2>4. (IF headerDone' THEN FullHeader(conf) ELSE <<>>) = h
    BY <1>6 DEF FullHeader
  <2> HIDE DEF hl, l, h, t, fs
  <2>5. ReadText(conf, StartOfText, out \o hl) = At("start", <<>>, <<>>, h \o t)
    BY <1>3, <2>1, ReadBoth
  <2>6. ReadText(conf, StartOfText, (out \o hl) \o l)
          = At("start", <<>>, <<>>, Append(h \o t, ExpectedRow(conf, fs)))
    BY <1>3, <2>2, <2>5, ReadBoth
  <2> QED BY <1>1, <2>3, <2>4, <2>6 DEF TableRead, ReadBack, h
<1> QED BY <1>5, <1>7, <1>8 DEF CsvInv

LEMMA CloseKeeps ==
  ASSUME CsvInv, Close
  PROVE  CsvInv'
<1> DEFINE hl == HeaderLine
           h == FullHeader(conf)
           t == RowTable(conf, rows)
<1>1. /\ conf' = conf /\ rows' = rows /\ closed' = TRUE
      /\ out' = out \o hl
      /\ headerDone' = (headerDone \/ conf.writeHeader)
  BY DEF Close
<1>2. hl \in Text /\ out \in Text
  BY HeaderReads DEF CsvInv, CsvTypes
<1>3. CsvTypes'
  <2>1. out' \in Text
    <3> HIDE DEF hl
    <3> QED BY <1>1, <1>2, ConcatProperties DEF Text
  <2>2. conf.writeHeader \in BOOLEAN
    BY DEF CsvInv, CsvTypes, Configs
  <2> QED BY <1>1, <2>1, <2>2 DEF CsvInv, CsvTypes
<1>4. headerDone' <=> conf.writeHeader
  BY <1>1 DEF CsvInv, HeaderOnce
<1>5. HeaderOnce'
  BY <1>1, <1>4 DEF HeaderOnce
<1>6. TableRead'
  <2>1. ReadText(conf, ReadText(conf, StartOfText, out), hl) = At("start", <<>>, <<>>, h \o t)
    BY HeaderReads DEF ReadBack
  <2>2. (IF headerDone' THEN FullHeader(conf) ELSE <<>>) = h
    BY <1>4 DEF FullHeader
  <2> HIDE DEF hl, h, t
  <2>3. ReadText(conf, StartOfText, out \o hl) = At("start", <<>>, <<>>, h \o t)
    BY <1>2, <2>1, ReadBoth
  <2> QED BY <1>1, <2>2, <2>3 DEF TableRead, ReadBack, h, t
<1> QED BY <1>3, <1>5, <1>6 DEF CsvInv
LEMMA CsvStep == CsvInv /\ [Next]_vars => CsvInv'
<1> SUFFICES ASSUME CsvInv, [Next]_vars PROVE CsvInv'
  OBVIOUS
<1>1. ASSUME NEW c \in StringCells, NEW d \in NumberCells, Write(<<c, d>>) PROVE CsvInv'
  <2> DEFINE row == <<c, d>>
  <2>1. row \in Rows
    BY DEF Rows, Cells
  <2> HIDE DEF row
  <2>2. Write(row)
    BY <1>1 DEF row
  <2> QED BY <2>1, <2>2, WriteKeeps
<1>2. CASE Close
  BY <1>2, CloseKeeps
<1>3. CASE UNCHANGED vars
  BY <1>3 DEF vars, CsvInv, CsvTypes, HeaderOnce, TableRead, ReadBack
<1> QED BY <1>1, <1>2, <1>3 DEF Next, Terminated

\* The types of the variables, that the header is written exactly once, and
\* where a reader is after the characters written so far.
THEOREM CsvInvariant == Spec => []CsvInv
<1>1. Init => CsvInv
  BY CsvInit
<1>2. CsvInv /\ [Next]_vars => CsvInv'
  BY CsvStep
<1> QED BY <1>1, <1>2, PTL DEF Spec

\* A reader gets back the header and every cell, whatever characters they hold
\* and whichever options are combined (csvWriter.Write, fieldNeedsQuotes,
\* csvRecordWriter).
THEOREM WrittenIsReadBack == Spec => []RoundTrip
<1>1. CsvInv => RoundTrip
  <2> SUFFICES ASSUME CsvInv PROVE RoundTrip
    OBVIOUS
  <2> DEFINE T == (IF headerDone THEN FullHeader(conf) ELSE <<>>) \o RowTable(conf, rows)
  <2>1. ReadBack = At("start", <<>>, <<>>, T)
    BY DEF CsvInv, TableRead
  <2>2. /\ ReadBack.mode = "start" /\ ReadBack.field = <<>> /\ ReadBack.record = <<>>
        /\ ReadBack.table = T
    <3> HIDE DEF T
    <3> QED BY <2>1, AtParts
  <2>3. ExpectedHeader = IF headerDone THEN FullHeader(conf) ELSE <<>>
    BY DEF CsvInv, HeaderOnce, ExpectedHeader, FullHeader
  <2> QED BY <2>2, <2>3 DEF RoundTrip, RowTable
<1> QED BY <1>1, CsvInvariant, PTL

----------------------------------------------------------------------------
(* Formulas.                                                               *)

\* What is kept of a text starts with what is kept of its first character.
LEMMA FirstKept ==
  ASSUME NEW w, NEW f \in Text, f = <<>> \/ Head(f) \notin {Equals, CR}
  PROVE  AsWritten(w, f) = <<>> \/ Head(AsWritten(w, f)) # Equals
<1> DEFINE n == Len(f)
<1>1. /\ n \in Nat /\ \A i \in 1 .. n : f[i] \in Char
      /\ \A i \in 1 .. n : KeptPieces(w, f)[i] = Kept(w, f[i])
      /\ n > 0 => f # <<>> /\ Head(f) = f[1]
  <2>1. n > 0 => f # <<>> /\ Head(f) = f[1]
    BY EmptySeq DEF Text
  <2> QED BY <2>1, PiecesFacts
<1>2. PICK a : IsJoined(KeptPieces(w, f), n, a) /\ FlattenSeq(KeptPieces(w, f)) = a[n]
  BY PiecesFacts, FlattenIsJoined
<1>3. AsWritten(w, f) = a[n]
  BY <1>2, AsWrittenPieces
<1>4. n > 0 => f[1] \notin {Equals, CR}
  BY <1>1
<1> HIDE DEF n
<1>5. a[0] = <<>>
  BY <1>1, <1>2, JoinedSteps
<1>6. \A i \in 0 .. n : a[i] \in Text
  BY <1>1, <1>2, JoinedSteps
<1>7. \A i \in 1 .. n : a[i] = a[i - 1] \o KeptPieces(w, f)[i]
  BY <1>1, <1>2, JoinedSteps, ZenonT(30)
<1> DEFINE D == {k \in 0 .. n : k = 0 \/ (Len(a[k]) > 0 /\ a[k][1] # Equals)}
<1>8. 0 \in D
  BY <1>1
<1>9. ASSUME NEW k \in 0 .. n, k \in D, k < n PROVE k + 1 \in D
  <2> DEFINE x == Kept(w, f[k + 1])
             y == a[k]
  <2>1. k + 1 \in 1 .. n /\ (k + 1) - 1 = k
    BY <1>1, <1>9
  <2>2. x \in Text /\ y \in Text /\ a[k + 1] = y \o x
    BY <1>1, <1>6, <1>7, <2>1, PiecesAreTexts
  <2>3. CASE k = 0
    <3>1. x = <<f[1]>> \/ x = <<CR, LF>>
      BY <1>1, <1>4, <2>1, <2>3 DEF Kept
    <3>2. CR # Equals
      BY DEF CR, Equals
    <3>3. Len(x) > 0 /\ x[1] # Equals
      <4> HIDE DEF x
      <4>1. CASE x = <<f[1]>>
        BY <1>1, <1>4, <2>1, <4>1
      <4>2. CASE x = <<CR, LF>>
        BY <3>2, <4>2
      <4> QED BY <3>1, <4>1, <4>2
    <3> HIDE DEF x
    <3>4. a[k + 1] = x
      BY <1>5, <2>2, <2>3, ConcatEmptySeq DEF Text
    <3> QED BY <2>1, <3>3, <3>4
  <2>4. CASE k > 0
    <3>1. Len(y) > 0 /\ y[1] # Equals
      BY <1>9, <2>4
    <3> HIDE DEF x, y
    <3>2. /\ Len(y \o x) = Len(y) + Len(x) /\ Len(y) \in Nat /\ Len(x) \in Nat
          /\ \A i \in 1 .. Len(y) + Len(x) :
               (y \o x)[i] = IF i <= Len(y) THEN y[i] ELSE x[i - Len(y)]
      BY <2>2, ConcatProperties, LenProperties DEF Text
    <3>3. Len(y \o x) > 0 /\ (y \o x)[1] # Equals
      BY <3>1, <3>2
    <3> QED BY <2>1, <2>2, <3>3
  <2> QED BY <1>9, <2>3, <2>4
<1> HIDE DEF D
<1>10. n \in D
  BY <1>1, <1>8, <1>9, Reaches
<1>11. CASE n = 0
  BY <1>3, <1>5, <1>11
<1>12. CASE n > 0
  <2>1. Len(a[n]) > 0 /\ a[n][1] # Equals /\ a[n] \in Text
    BY <1>1, <1>6, <1>10, <1>12 DEF D
  <2>2. Head(a[n]) = a[n][1]
    BY <2>1 DEF Text
  <2> QED BY <1>3, <2>1, <2>2
<1> QED BY <1>1, <1>11, <1>12

\* What a reader gets of the two cells of a row.
LEMMA CellsReadBack ==
  ASSUME NEW w, NEW row \in Rows, NEW x, x = ExpectedRow(w, RowTexts(w, row))
  PROVE  /\ row[1] \in StringCells /\ row[1] \in Cells /\ row[2] \in Cells
         /\ x[1] = AsWritten(w, CellText(w, row[1]))
         /\ x[2] = AsWritten(w, CellText(w, row[2]))
<1> DEFINE fs == RowTexts(w, row)
<1>1. fs \in Fields /\ fs[1] = CellText(w, row[1]) /\ fs[2] = CellText(w, row[2])
  BY LineTexts
<1>2. row[1] \in StringCells /\ row[1] \in Cells /\ row[2] \in Cells
  BY DEF Rows
<1> HIDE DEF fs
<1>3. /\ ExpectedRow(w, fs)[1] = AsWritten(w, fs[1])
      /\ ExpectedRow(w, fs)[2] = AsWritten(w, fs[2])
  BY <1>1, ExpectedRowFacts
<1>4. x = ExpectedRow(w, fs)
  BY DEF fs
<1> QED BY <1>1, <1>2, <1>3, <1>4

\* With WithEscapeFormulas the first cell of every line reaches the reader
\* without a leading formula character, and a number as it was rendered
\* (escapeFormula, isFormulaEscapable, csvFormat.NewWriter).
THEOREM NoFormulaIsRead == Spec => []FormulasAreEscaped
<1>1. CsvInv => FormulasAreEscaped
  <2> SUFFICES ASSUME CsvInv, conf.formulas PROVE FormulasAreEscaped
    BY DEF FormulasAreEscaped
  <2> DEFINE H == IF headerDone THEN FullHeader(conf) ELSE <<>>
             R == RowTable(conf, rows)
             T == H \o R
             first == Len(T) - Len(rows)
  <2>1. ReadBack.table = T
    <3>1. ReadBack = At("start", <<>>, <<>>, T)
      BY DEF CsvInv, TableRead
    <3> HIDE DEF T
    <3> QED BY <3>1, AtParts
  <2>2. rows \in Seq(Rows) /\ Len(rows) \in Nat /\ DOMAIN rows = 1 .. Len(rows)
    BY LenProperties DEF CsvInv, CsvTypes
  <2>3. /\ H \in Seq(Fields)
        /\ \A i \in 1 .. Len(H) : H[i] = ExpectedRow(conf, HeaderTexts(conf))
    <3> DEFINE x == ExpectedRow(conf, HeaderTexts(conf))
    <3>1. FullHeader(conf) \in Seq(Fields) /\ <<>> \in Seq(Fields)
      BY TableFacts
    <3>2. H = <<>> \/ H = <<x>>
      BY DEF FullHeader
    <3>3. H \in Seq(Fields)
      BY <3>1
    <3> HIDE DEF H, x
    <3>4. \A i \in 1 .. Len(H) : H[i] = x
      BY <3>2
    <3> QED BY <3>3, <3>4 DEF x
  <2>4. /\ R \in Seq(Fields) /\ Len(R) = Len(rows)
        /\ \A i \in 1 .. Len(rows) : R[i] = ExpectedRow(conf, RowTexts(conf, rows[i]))
    BY <2>2, TableFacts
  <2>5. \A i \in 1 .. Len(rows) : rows[i] \in Rows
    BY <2>2, ElementOfSeq
  <2> HIDE DEF H, R
  <2>6. /\ Len(H) \in Nat /\ T \in Seq(Fields) /\ Len(T) = Len(H) + Len(rows)
        /\ DOMAIN T = 1 .. Len(H) + Len(rows) /\ first = Len(H)
        /\ \A i \in 1 .. Len(H) : T[i] = H[i]
        /\ \A i \in 1 .. Len(rows) : T[first + i] = R[i]
    <3>1. /\ T \in Seq(Fields) /\ Len(T) = Len(H) + Len(R) /\ Len(H) \in Nat
          /\ \A i \in 1 .. Len(H) + Len(R) : T[i] = IF i <= Len(H) THEN H[i] ELSE R[i - Len(H)]
      <4>1. Len(H) \in Nat
        BY <2>3, LenProperties
      <4>2. H \in Seq(Fields) /\ R \in Seq(Fields)
        BY <2>3, <2>4
      <4>3. T \in Seq(Fields) /\ Len(T) = Len(H) + Len(R)
        BY <4>2, ConcatProperties
      <4>4. \A i \in 1 .. Len(H) + Len(R) : T[i] = IF i <= Len(H) THEN H[i] ELSE R[i - Len(H)]
        BY <4>2, ConcatProperties
      <4> QED BY <4>1, <4>3, <4>4
    <3>2. DOMAIN T = 1 .. Len(T)
      BY <3>1, LenProperties
    <3> HIDE DEF T
    <3>3. first = Len(H) /\ Len(T) = Len(H) + Len(rows)
      BY <2>2, <2>4, <3>1
    <3>4. \A i \in 1 .. Len(H) : T[i] = H[i]
      BY <2>2, <2>4, <3>1
    <3>5. \A i \in 1 .. Len(rows) : T[Len(H) + i] = R[i]
      BY <2>2, <2>4, <3>1
    <3> QED BY <3>1, <3>2, <3>3, <3>4, <3>5
  <2> HIDE DEF T, first
  <2>7. ASSUME NEW i \in DOMAIN T PROVE T[i][1] # <<>> => Head(T[i][1]) # Equals
    <3>1. CASE i \in 1 .. Len(H)
      <4>1. T[i] = ExpectedRow(conf, HeaderTexts(conf))
        BY <2>3, <2>6, <3>1
      <4>2. PICK f \in Text : HeaderTexts(conf)[1] = WithFormulas(conf, f)
        BY LineTexts
      <4>3. T[i][1] = AsWritten(conf, WithFormulas(conf, f))
        BY <4>1, <4>2, LineTexts, ExpectedRowFacts
      <4> QED BY <4>3, EscapedText, FirstKept
    <3>2. CASE i \notin 1 .. Len(H)
      <4> DEFINE j == i - Len(H)
      <4>1. j \in 1 .. Len(rows) /\ i = first + j
        BY <2>2, <2>6, <3>2
      <4> HIDE DEF j
      <4>2. T[i] = ExpectedRow(conf, RowTexts(conf, rows[j])) /\ rows[j] \in Rows
        BY <2>4, <2>5, <2>6, <4>1
      <4>3. T[i][1] = AsWritten(conf, CellText(conf, rows[j][1]))
        BY <4>2, CellsReadBack
      <4>4. rows[j][1] \in StringCells /\ rows[j][1] \in Cells
        BY <4>2, CellsReadBack
      <4>5. PICK f \in Text : CellText(conf, rows[j][1]) = WithFormulas(conf, f)
        BY <4>4, CellFacts
      <4> QED BY <4>3, <4>5, EscapedText, FirstKept
    <3> QED BY <3>1, <3>2
  <2>8. ASSUME NEW i \in DOMAIN rows, rows[i][2].kind = "number"
        PROVE  T[first + i][2] = rows[i][2].text
    <3>1. T[first + i] = ExpectedRow(conf, RowTexts(conf, rows[i])) /\ rows[i] \in Rows
      BY <2>2, <2>4, <2>5, <2>6
    <3>2. T[first + i][2] = AsWritten(conf, CellText(conf, rows[i][2]))
      BY <3>1, CellsReadBack
    <3>3. rows[i][2] \in Cells
      BY <3>1, CellsReadBack
    <3> DEFINE c == rows[i][2]
    <3>4. c \in Cells /\ c.kind = "number"
      BY <2>8, <3>3
    <3> HIDE DEF c
    <3>5. CellText(conf, c) = c.text /\ \A k \in 1 .. Len(c.text) : c.text[k] \notin {CR, LF}
      BY <3>4, CellFacts
    <3>6. CellText(conf, c) \in Text
      BY <3>4, CellFacts
    <3>7. AsWritten(conf, c.text) = c.text
      BY <3>5, <3>6, NoBreaksAsWritten
    <3> QED BY <3>2, <3>5, <3>7 DEF c
  <2> QED BY <2>1, <2>7, <2>8 DEF FormulasAreEscaped, first
<1> QED BY <1>1, CsvInvariant, PTL

=============================================================================
