----------------------------- MODULE EdgeProofs -----------------------------
(***************************************************************************)
(* What holds of the layers around the handler for all keys, models,       *)
(* texts, policies, answers and numbers of requests: who is served, what   *)
(* a cached answer may be served to, and what the guardrails do.           *)
(*                                                                         *)
(* The first part is about texts: however a body is cut into chunks, its   *)
(* prefix is read as if it were one (ReadPrefix), by induction over the    *)
(* chunks.  The second is the inductive invariant: what a request in       *)
(* flight carries, at each place it may wait at, and what a row of the     *)
(* cache remembers of the request it was made for.                         *)
(***************************************************************************)
EXTENDS Edge, FiniteSetTheorems, SequenceTheorems, WellFoundedInduction, TLAPS

\* What holds of 0 and of every successor holds of every number.
LEMMA Induction ==
  ASSUME NEW S, 0 \in S, \A n \in Nat : n \in S => n + 1 \in S
  PROVE  Nat \subseteq S
<1>1. SUFFICES ASSUME Nat \ S # {} PROVE FALSE
  OBVIOUS
<1> DEFINE R == OpToRel(<, Nat)
<1>2. \A x, y \in Nat : <<y, x>> \in R <=> y < x
  BY DEF OpToRel
<1>3. IsWellFoundedOn(R, Nat)
  BY NatLessThanWellFounded
<1>4. \E x \in Nat \ S : \A y \in Nat \ S : ~(<<y, x>> \in R)
  <2>. HIDE DEF R
  <2>. QED BY <1>1, <1>3, WFMin
<1>5. PICK x \in Nat \ S : \A y \in Nat \ S : ~(y < x)
  BY <1>2, <1>4
<1>6. x # 0 /\ x - 1 \in Nat /\ x - 1 < x /\ (x - 1) + 1 = x
  BY <1>5
<1>. QED BY <1>5, <1>6

-----------------------------------------------------------------------------
(* Bodies and their texts *)

\* What FlattenSeq computes: the texts of the first chunks, one after the other.
Flattens(F, b, n) ==
    \A i \in 1 .. n : F[i] = IF i = 1 THEN b[i] ELSE F[i - 1] \o b[i]

\* There is one way to flatten.
LEMMA FlattensOnce ==
  ASSUME NEW b, NEW n \in Nat, NEW F, NEW G, Flattens(F, b, n), Flattens(G, b, n)
  PROVE  \A i \in 1 .. n : G[i] = F[i]
<1> DEFINE Same(i) == G[i] = F[i]
           S == {m \in Nat : \A i \in 1 .. n : i <= m => Same(i)}
<1>1. \A i \in 1 .. n : i = 1 \/ Same(i - 1) => Same(i)
  BY DEF Flattens
<1>. HIDE DEF Same
<1>2. 0 \in S
  OBVIOUS
<1>3. ASSUME NEW m \in Nat, m \in S PROVE m + 1 \in S
  <2>1. ASSUME NEW i \in 1 .. n, i <= m + 1 PROVE Same(i)
    <3>1. i <= m \/ i = m + 1
      BY <2>1
    <3>2. i = 1 \/ (i - 1 \in 1 .. n /\ i - 1 <= m)
      BY <2>1
    <3>. QED BY <1>1, <1>3, <3>2
  <2>. QED BY <2>1
<1>4. Nat \subseteq S
  <2>. HIDE DEF S
  <2>. QED BY <1>2, <1>3, Induction
<1>. QED BY <1>4 DEF Same

\* There is a way to flatten.
LEMMA FlattensExists ==
  ASSUME NEW W, NEW b \in Seq(Seq(W))
  PROVE  \E F \in [1 .. Len(b) -> Seq(W)] : Flattens(F, b, Len(b))
<1> DEFINE Some(n) == \E f \in [1 .. n -> Seq(W)] : Flattens(f, b, n)
           S == {n \in Nat : n <= Len(b) => Some(n)}
<1>0. Len(b) \in Nat /\ \A i \in 1 .. Len(b) : b[i] \in Seq(W)
  OBVIOUS
<1>1. Some(0)
  <2>1. [i \in 1 .. 0 |-> <<>>] \in [1 .. 0 -> Seq(W)]
    OBVIOUS
  <2>2. Flattens([i \in 1 .. 0 |-> <<>>], b, 0)
    BY DEF Flattens
  <2>. QED BY <2>1, <2>2
<1>2. ASSUME NEW n \in Nat, Some(n), n + 1 <= Len(b) PROVE Some(n + 1)
  <2>1. PICK f \in [1 .. n -> Seq(W)] : Flattens(f, b, n)
    BY <1>0, <1>2
  <2> DEFINE new == IF n = 0 THEN b[1] ELSE f[n] \o b[n + 1]
             g == [i \in 1 .. n + 1 |-> IF i = n + 1 THEN new ELSE f[i]]
  <2>2. new \in Seq(W)
    <3>0. n + 1 \in 1 .. Len(b) /\ b[n + 1] \in Seq(W)
      BY <1>0, <1>2
    <3>1. CASE n = 0
      BY <3>0, <3>1
    <3>2. CASE n # 0
      <4>0. n \in 1 .. n
        BY <3>2
      <4>1. f[n] \in Seq(W)
        BY <2>1, <4>0
      <4>2. f[n] \o b[n + 1] \in Seq(W)
        BY <3>0, <4>1, ConcatProperties
      <4>. QED BY <3>2, <4>2
    <3>. QED BY <3>1, <3>2
  <2>3. /\ g \in [1 .. n + 1 -> Seq(W)] /\ g[n + 1] = new
        /\ \A i \in 1 .. n : g[i] = f[i]
    <3>. HIDE DEF new
    <3>. QED BY <2>1, <2>2
  <2>4. \A i \in 1 .. n + 1 : g[i] = IF i = 1 THEN b[i] ELSE g[i - 1] \o b[i]
    <3>. HIDE DEF g
    <3>1. CASE n = 0
      <4>1. \A i \in 1 .. n + 1 : i = 1
        BY <3>1
      <4>. QED BY <2>3, <3>1, <4>1
    <3>2. CASE n # 0
      <4>1. ASSUME NEW i \in 1 .. n PROVE g[i] = IF i = 1 THEN b[i] ELSE g[i - 1] \o b[i]
        <5>1. f[i] = IF i = 1 THEN b[i] ELSE f[i - 1] \o b[i]
          BY <2>1 DEF Flattens
        <5>2. i # 1 => i - 1 \in 1 .. n
          OBVIOUS
        <5>. QED BY <2>3, <5>1, <5>2
      <4>2. g[n + 1] = g[n] \o b[n + 1]
        <5>1. n \in 1 .. n /\ g[n] = f[n]
          BY <2>3, <3>2
        <5>. QED BY <2>3, <3>2, <5>1
      <4>3. \A i \in 1 .. n + 1 : i \in 1 .. n \/ i = n + 1
        OBVIOUS
      <4>4. n + 1 # 1 /\ (n + 1) - 1 = n
        BY <3>2
      <4>. QED BY <4>1, <4>2, <4>3, <4>4
    <3>. QED BY <3>1, <3>2
  <2>. HIDE DEF g
  <2>5. Flattens(g, b, n + 1)
    BY <2>4 DEF Flattens
  <2>. QED BY <2>3, <2>5
<1>. HIDE DEF Some
<1>3. \A n \in Nat : n \in S => n + 1 \in S
  BY <1>0, <1>2
<1>4. Nat \subseteq S
  <2>1. 0 \in S
    BY <1>1
  <2>. HIDE DEF S
  <2>. QED BY <1>3, <2>1, Induction
<1>5. Some(Len(b))
  BY <1>0, <1>4
<1>. QED BY <1>5 DEF Some

\* What FlattenSeq computes.
LEMMA FlattenIs ==
  ASSUME NEW W, NEW b \in Seq(Seq(W)), NEW n \in Nat, n = Len(b),
         NEW F \in [1 .. n -> Seq(W)], Flattens(F, b, n)
  PROVE  FlattenSeq(b) = IF n = 0 THEN <<>> ELSE F[n]
<1>1. CASE Len(b) = 0
  BY <1>1 DEF FlattenSeq
<1>2. CASE Len(b) # 0
  <2> DEFINE e(g) == [i \in 1 .. Len(b) |-> IF i = 1 THEN b[i] ELSE g[i - 1] \o b[i]]
             flatten == CHOOSE g : g = e(g)
  <2>1. FlattenSeq(b) = flatten[Len(b)]
    BY <1>2 DEF FlattenSeq
  <2>2. F = e(F)
    BY DEF Flattens
  <2>3. flatten = e(flatten)
    <3>. HIDE DEF e
    <3>. QED BY <2>2
  <2>. HIDE DEF flatten
  <2>4. Flattens(flatten, b, Len(b))
    BY <2>3 DEF Flattens
  <2>5. flatten[Len(b)] = F[Len(b)]
    <3>1. Len(b) \in Nat /\ Len(b) \in 1 .. Len(b)
      BY <1>2
    <3>2. \A i \in 1 .. Len(b) : flatten[i] = F[i]
      BY <2>4, <3>1, FlattensOnce
    <3>. QED BY <3>1, <3>2
  <2>. QED BY <1>2, <2>1, <2>5
<1>. QED BY <1>1, <1>2


\* No chunks, no text.
LEMMA FlattenEmpty == FlattenSeq(<<>>) = <<>>
BY DEF FlattenSeq

\* One more chunk adds its text at the end.
LEMMA FlattenAppend ==
  ASSUME NEW W, NEW b \in Seq(Seq(W)), NEW c \in Seq(W)
  PROVE  /\ FlattenSeq(b) \in Seq(W)
         /\ FlattenSeq(Append(b, c)) = FlattenSeq(b) \o c
<1> DEFINE d == Append(b, c)
           n == Len(b)
<1>1. /\ d \in Seq(Seq(W)) /\ Len(d) = n + 1 /\ d[n + 1] = c /\ n \in Nat
      /\ \A i \in 1 .. n : d[i] = b[i]
  <2>. DEFINE V == Seq(W)
  <2>1. b \in Seq(V) /\ c \in V
    OBVIOUS
  <2>. HIDE DEF V
  <2>2. /\ Append(b, c) \in Seq(V) /\ Len(Append(b, c)) = Len(b) + 1 /\ Len(b) \in Nat
        /\ Append(b, c)[Len(b) + 1] = c
        /\ \A i \in 1 .. Len(b) : Append(b, c)[i] = b[i]
    BY ONLY <2>1, AppendProperties, LenProperties
  <2>. QED BY <2>2 DEF V
<1>. HIDE DEF d, n
<1>2. PICK F \in [1 .. n + 1 -> Seq(W)] : Flattens(F, d, n + 1)
  BY <1>1, FlattensExists, ZenonT(60)
<1> DEFINE G == [i \in 1 .. n |-> F[i]]
<1>3. /\ G \in [1 .. n -> Seq(W)]
      /\ \A i \in 1 .. n : G[i] = F[i]
  BY <1>1
<1>. HIDE DEF G
<1>4. Flattens(G, b, n)
  <2>1. ASSUME NEW i \in 1 .. n PROVE G[i] = IF i = 1 THEN b[i] ELSE G[i - 1] \o b[i]
    <3>1. i \in 1 .. n + 1 /\ (i # 1 => i - 1 \in 1 .. n)
      BY <1>1
    <3>2. F[i] = IF i = 1 THEN d[i] ELSE F[i - 1] \o d[i]
      BY <1>2, <3>1 DEF Flattens
    <3>. QED BY <1>1, <1>3, <3>1, <3>2
  <2>. QED BY <2>1 DEF Flattens
<1>5. FlattenSeq(b) = IF n = 0 THEN <<>> ELSE G[n]
  <2>1. n = Len(b) /\ n \in Nat
    BY <1>1 DEF n
  <2>. QED BY <1>3, <1>4, <2>1, FlattenIs, ZenonT(60)
<1>6. FlattenSeq(d) = F[n + 1]
  <2>1. n + 1 \in Nat /\ n + 1 = Len(d) /\ n + 1 # 0
    BY <1>1
  <2>. QED BY <1>1, <1>2, <2>1, FlattenIs
<1>7. F[n + 1] = IF n + 1 = 1 THEN d[n + 1] ELSE F[(n + 1) - 1] \o d[n + 1]
  <2>1. n + 1 \in 1 .. n + 1
    BY <1>1
  <2>. QED BY <1>2, <2>1 DEF Flattens
<1>8. CASE n = 0
  <2>1. FlattenSeq(b) = <<>> /\ F[n + 1] = c
    BY <1>1, <1>5, <1>7, <1>8
  <2>2. <<>> \o c = c /\ <<>> \in Seq(W)
    BY ConcatEmptySeq, EmptySeq
  <2>. QED BY <1>6, <2>1, <2>2 DEF d
<1>9. CASE n # 0
  <2>1. n \in 1 .. n /\ (n + 1) - 1 = n /\ n + 1 # 1
    BY <1>1, <1>9
  <2>2. FlattenSeq(b) = G[n] /\ G[n] = F[n] /\ G[n] \in Seq(W)
    BY <1>3, <1>5, <1>9, <2>1
  <2>3. F[n + 1] = F[n] \o c
    BY <1>1, <1>7, <2>1
  <2>. QED BY <1>6, <2>2, <2>3 DEF d
<1>. QED BY <1>8, <1>9

\* The text of chunks is a text.
LEMMA FlattenType ==
  ASSUME NEW W, NEW b \in Seq(Seq(W))
  PROVE  FlattenSeq(b) \in Seq(W)
BY FlattenAppend, EmptySeq

\* The text of one chunk is the chunk.
LEMMA FlattenOne ==
  ASSUME NEW W, NEW c \in Seq(W)
  PROVE  FlattenSeq(<<c>>) = c
<1>1. <<>> \in Seq(Seq(W)) /\ Append(<<>>, c) = <<c>> /\ <<>> \o c = c
  BY EmptySeq, ConcatEmptySeq
<1>. QED BY <1>1, FlattenAppend, FlattenEmpty

\* The text of the first n chunks, one chunk at a time.
FirstTexts(b, n) == FlattenSeq(SubSeq(b, 1, n))

\* The text of the first chunks.
LEMMA FirstTextsType ==
  ASSUME NEW W, NEW b \in Seq(Seq(W)), NEW n \in Nat, n <= Len(b)
  PROVE  /\ SubSeq(b, 1, n) \in Seq(Seq(W))
         /\ FirstTexts(b, n) \in Seq(W)
         /\ Len(FirstTexts(b, n)) \in Nat
<1>1. \A i \in 1 .. n : b[i] \in Seq(W)
  BY ElementOfSeq, LenProperties
<1>2. SubSeq(b, 1, n) \in Seq(Seq(W))
  BY <1>1, SubSeqProperties
<1>. QED BY <1>2, FlattenType, LenProperties DEF FirstTexts

\* One chunk more.
LEMMA FirstTextsStep ==
  ASSUME NEW W, NEW b \in Seq(Seq(W)), NEW n \in Nat, n + 1 <= Len(b)
  PROVE  /\ b[n + 1] \in Seq(W)
         /\ SubSeq(b, 1, n + 1) = Append(SubSeq(b, 1, n), b[n + 1])
         /\ FirstTexts(b, n + 1) = FirstTexts(b, n) \o b[n + 1]
         /\ Len(FirstTexts(b, n + 1)) = Len(FirstTexts(b, n)) + Len(b[n + 1])
<1>1. Len(b) \in Nat /\ n + 1 \in 1 .. Len(b) /\ 1 \in 1 .. Len(b) /\ n + 1 \in 1 .. Len(b)
  BY LenProperties
<1>2. b[n + 1] \in Seq(W)
  BY <1>1, ElementOfSeq
<1>3. SubSeq(b, 1, n) \in Seq(Seq(W)) /\ FirstTexts(b, n) \in Seq(W)
  BY <1>1, FirstTextsType
<1>4. SubSeq(b, 1, n + 1) = SubSeq(b, 1, n) \o <<b[n + 1]>>
  <2>1. n + 1 \in 1 .. Len(b) /\ (n + 1) - 1 = n
    BY <1>1
  <2>. QED BY <1>1, <2>1, SubSeqRecursiveSecond
<1>5. SubSeq(b, 1, n + 1) = Append(SubSeq(b, 1, n), b[n + 1])
  BY <1>2, <1>3, <1>4, AppendIsConcat
<1>6. FirstTexts(b, n + 1) = FirstTexts(b, n) \o b[n + 1]
  BY <1>2, <1>3, <1>5, FlattenAppend DEF FirstTexts
<1>. QED BY <1>2, <1>3, <1>5, <1>6, ConcatProperties, SMTT(60)

\* None of the chunks, and all of them.
LEMMA FirstTextsEnds ==
  ASSUME NEW W, NEW b \in Seq(Seq(W))
  PROVE  /\ FirstTexts(b, 0) = <<>>
         /\ FirstTexts(b, Len(b)) = FlattenSeq(b)
<1>1. SubSeq(b, 1, 0) = <<>> /\ SubSeq(b, 1, Len(b)) = b
  BY SubSeqEmpty, SubSeqFull
<1>. QED BY <1>1, FlattenEmpty DEF FirstTexts

\* The text of two bodies one after the other is the texts one after the other.
LEMMA FlattenConcat ==
  ASSUME NEW W, NEW a \in Seq(Seq(W)), NEW b \in Seq(Seq(W))
  PROVE  FlattenSeq(a \o b) = FlattenSeq(a) \o FlattenSeq(b)
<1> DEFINE Adds(n) == FlattenSeq(a \o SubSeq(b, 1, n)) = FlattenSeq(a) \o FirstTexts(b, n)
           S == {n \in Nat : n <= Len(b) => Adds(n)}
<1>0. Len(b) \in Nat /\ FlattenSeq(a) \in Seq(W)
  BY LenProperties, FlattenType
<1>1. Adds(0)
  <2>1. SubSeq(b, 1, 0) = <<>>
    BY SubSeqEmpty
  <2>2. a \o <<>> = a /\ FlattenSeq(a) \o <<>> = FlattenSeq(a)
    BY <1>0, ConcatEmptySeq
  <2>3. FirstTexts(b, 0) = <<>>
    BY FirstTextsEnds
  <2>. QED BY <2>1, <2>2, <2>3
<1>2. ASSUME NEW n \in Nat, n + 1 <= Len(b), Adds(n) PROVE Adds(n + 1)
  <2>1. /\ SubSeq(b, 1, n) \in Seq(Seq(W)) /\ FirstTexts(b, n) \in Seq(W)
        /\ b[n + 1] \in Seq(W)
        /\ SubSeq(b, 1, n + 1) = Append(SubSeq(b, 1, n), b[n + 1])
        /\ FirstTexts(b, n + 1) = FirstTexts(b, n) \o b[n + 1]
    <3>. HIDE DEF Adds, S
    <3>1. n <= Len(b)
      BY <1>0, <1>2
    <3>2. SubSeq(b, 1, n) \in Seq(Seq(W)) /\ FirstTexts(b, n) \in Seq(W)
      BY <3>1, FirstTextsType
    <3>3. /\ b[n + 1] \in Seq(W)
          /\ SubSeq(b, 1, n + 1) = Append(SubSeq(b, 1, n), b[n + 1])
          /\ FirstTexts(b, n + 1) = FirstTexts(b, n) \o b[n + 1]
      BY <1>2, FirstTextsStep
    <3>. QED BY <3>2, <3>3
  <2> DEFINE s == SubSeq(b, 1, n)
             c == b[n + 1]
  <2>0. s \in Seq(Seq(W)) /\ c \in Seq(W)
    BY <2>1
  <2>. HIDE DEF s, c
  <2>2. a \o s \in Seq(Seq(W)) /\ <<c>> \in Seq(Seq(W))
    BY <2>0, ConcatProperties
  <2>3. a \o Append(s, c) = Append(a \o s, c)
    <3>1. Append(s, c) = s \o <<c>> /\ Append(a \o s, c) = (a \o s) \o <<c>>
      BY <2>0, <2>2, AppendIsConcat
    <3>2. (a \o s) \o <<c>> = a \o (s \o <<c>>)
      <4>. DEFINE V == Seq(W)
                  last == <<c>>
      <4>1. a \in Seq(V) /\ s \in Seq(V) /\ last \in Seq(V)
        BY <2>0, <2>2
      <4>. HIDE DEF V, last
      <4>2. (a \o s) \o last = a \o (s \o last)
        BY ONLY <4>1, ConcatAssociative, SMTT(60)
      <4>. QED BY <4>2 DEF last
    <3>. QED BY <3>1, <3>2
  <2>4. FlattenSeq(Append(a \o s, c)) = FlattenSeq(a \o s) \o c
    BY <2>0, <2>2, FlattenAppend
  <2>5. (FlattenSeq(a) \o FirstTexts(b, n)) \o c = FlattenSeq(a) \o (FirstTexts(b, n) \o c)
    <3>1. FlattenSeq(a) \in Seq(W) /\ FirstTexts(b, n) \in Seq(W) /\ c \in Seq(W)
      BY <1>0, <2>0, <2>1
    <3>. HIDE DEF Adds, S
    <3>. QED BY <3>1, ConcatAssociative, SMTT(60)
  <2>. QED BY <1>2, <2>1, <2>3, <2>4, <2>5 DEF s, c
<1>3. \A n \in Nat : n \in S => n + 1 \in S
  <2>. HIDE DEF Adds
  <2>. QED BY <1>0, <1>2
<1>4. 0 \in S
  BY <1>1
<1>5. Nat \subseteq S
  <2>. HIDE DEF S
  <2>. QED BY <1>3, <1>4, Induction
<1>6. Adds(Len(b))
  BY <1>0, <1>5
<1>. QED BY <1>6, SubSeqFull, FirstTextsEnds


\* The chunks that are read whole are the first ones, up to the scan limit.
LEMMA WholeChunksIs ==
  ASSUME NEW W, NEW b \in Seq(Seq(W))
  PROVE  /\ WholeChunks(b) \in 0 .. Len(b)
         /\ \A i \in 0 .. Len(b) :
              Len(FirstTexts(b, i)) <= SCAN_LIMIT <=> i <= WholeChunks(b)
<1> DEFINE Fits(i) == Len(FirstTexts(b, i)) <= SCAN_LIMIT
           Splits(m) == \E n \in 0 .. m : \A i \in 0 .. m : Fits(i) <=> i <= n
           S == {m \in Nat : m <= Len(b) => Splits(m)}
<1>0. Len(b) \in Nat /\ SCAN_LIMIT \in Nat
  BY LenProperties, GuardAssumption
<1>1. Splits(0)
  <2>1. Fits(0)
    BY <1>0, FirstTextsEnds
  <2>2. 0 \in 0 .. 0 /\ \A i \in 0 .. 0 : i = 0
    OBVIOUS
  <2>. HIDE DEF Fits
  <2>. QED BY <2>1, <2>2
<1>2. ASSUME NEW m \in Nat, m + 1 <= Len(b), Fits(m + 1) PROVE Fits(m)
  <2>1. /\ Len(FirstTexts(b, m + 1)) = Len(FirstTexts(b, m)) + Len(b[m + 1])
        /\ b[m + 1] \in Seq(W)
    BY <1>2, FirstTextsStep
  <2>2. Len(b[m + 1]) \in Nat /\ Len(FirstTexts(b, m)) \in Nat
    BY <1>0, <1>2, <2>1, LenProperties, FirstTextsType
  <2>. QED BY <1>0, <1>2, <2>1, <2>2
<1>. HIDE DEF Fits
<1>3. ASSUME NEW m \in Nat, m + 1 <= Len(b), Splits(m) PROVE Splits(m + 1)
  <2>1. PICK n \in 0 .. m : \A i \in 0 .. m : Fits(i) <=> i <= n
    BY <1>3
  <2>2. \A i \in 0 .. m + 1 : i \in 0 .. m \/ i = m + 1
    OBVIOUS
  <2>3. CASE Fits(m + 1)
    <3>1. Fits(m) /\ m \in 0 .. m
      BY <1>2, <1>3, <2>3
    <3>2. n = m
      BY <2>1, <3>1
    <3>3. \A i \in 0 .. m : Fits(i)
      BY <2>1, <3>2
    <3>4. \A i \in 0 .. m + 1 : Fits(i) /\ i <= m + 1
      BY <2>2, <2>3, <3>3
    <3>5. m + 1 \in 0 .. m + 1
      OBVIOUS
    <3>. QED BY <3>4, <3>5
  <2>4. CASE ~Fits(m + 1)
    <3>1. \A i \in 0 .. m + 1 : Fits(i) <=> i <= n
      BY <2>1, <2>2, <2>4
    <3>2. n \in 0 .. m + 1
      OBVIOUS
    <3>. QED BY <3>1, <3>2
  <2>. QED BY <2>3, <2>4
<1>4. Nat \subseteq S
  <2>1. \A n \in Nat : n \in S => n + 1 \in S
    <3>. HIDE DEF Splits
    <3>. QED BY <1>0, <1>3
  <2>2. 0 \in S
    BY <1>1
  <2>. HIDE DEF S
  <2>. QED BY <2>1, <2>2, Induction
<1>5. \E n \in 0 .. Len(b) : \A i \in 0 .. Len(b) : Fits(i) <=> i <= n
  <2>1. Splits(Len(b))
    <3>. HIDE DEF Splits
    <3>. QED BY <1>0, <1>4
  <2>. QED BY <2>1
<1>6. WholeChunks(b) =
        CHOOSE n \in 0 .. Len(b) : \A i \in 0 .. Len(b) : Fits(i) <=> i <= n
  BY DEF WholeChunks, Fits, FirstTexts
<1>7. /\ WholeChunks(b) \in 0 .. Len(b)
      /\ \A i \in 0 .. Len(b) : Fits(i) <=> i <= WholeChunks(b)
  BY <1>5, <1>6
<1>. QED BY <1>7 DEF Fits

\* The start of a text is the start of every text it begins.
LEMMA StartOfConcat ==
  ASSUME NEW W, NEW s \in Seq(W), NEW t \in Seq(W), NEW k \in Nat, k <= Len(s), k # 0
  PROVE  SubSeq(s \o t, 1, k) = SubSeq(s, 1, k)
<1>1. Len(s) \in Nat
  BY LenProperties
<1>2. 1 \in 1 .. Len(s) /\ k \in 1 .. Len(s)
  BY <1>1
<1>. QED BY <1>2, SubSeqOfConcat1

\* What read_prefix hands on holds the text it was given, and what it scans is
\* the start of that text, however it is cut into chunks.
LEMMA ReadPrefix ==
  ASSUME NEW W, NEW b \in Seq(Seq(W))
  PROVE  /\ read_prefix(b).rebuilt \in Seq(Seq(W))
         /\ FlattenSeq(read_prefix(b).rebuilt) = FlattenSeq(b)
         /\ read_prefix(b).scanned = Scanned(FlattenSeq(b))
         /\ read_prefix(b).scanned \in Seq(W)
<1> DEFINE n == WholeChunks(b)
           consumed == FirstTexts(b, n)
           crosses == n < Len(b) /\ Len(consumed) < SCAN_LIMIT
           text == FlattenSeq(b)
<1>1. /\ n \in 0 .. Len(b)
      /\ \A i \in 0 .. Len(b) : Len(FirstTexts(b, i)) <= SCAN_LIMIT <=> i <= n
  BY WholeChunksIs
<1>. HIDE DEF n
<1>2. Len(b) \in Nat /\ SCAN_LIMIT \in Nat /\ SCAN_LIMIT # 0 /\ n \in Nat /\ n <= Len(b)
  BY <1>1, LenProperties, GuardAssumption
<1>3. consumed \in Seq(W) /\ Len(consumed) \in Nat /\ SubSeq(b, 1, n) \in Seq(Seq(W))
  BY <1>2, FirstTextsType
<1>4. Len(consumed) <= SCAN_LIMIT
  BY <1>1, <1>2
<1>5. text \in Seq(W) /\ Len(text) \in Nat
  BY FlattenType, LenProperties
<1>6. ASSUME NEW k \in Nat, k <= Len(b)
      PROVE  /\ SubSeq(b, k + 1, Len(b)) \in Seq(Seq(W))
             /\ text = FirstTexts(b, k) \o FlattenSeq(SubSeq(b, k + 1, Len(b)))
  <2>1. \A i \in k + 1 .. Len(b) : b[i] \in Seq(W)
    <3>1. \A i \in k + 1 .. Len(b) : i \in 1 .. Len(b)
      BY <1>2
    <3>. QED BY <3>1, ElementOfSeq
  <2>2. SubSeq(b, k + 1, Len(b)) \in Seq(Seq(W))
    <3>1. k + 1 \in Int /\ Len(b) \in Int
      BY <1>2
    <3>. QED BY <2>1, <3>1, SubSeqProperties
  <2>3. SubSeq(b, 1, k) \o SubSeq(b, k + 1, Len(b)) = SubSeq(b, 1, Len(b))
    <3>1. 1 \in 1 .. Len(b) + 1 /\ k \in 1 - 1 .. Len(b) /\ Len(b) \in k .. Len(b)
      BY <1>2, <1>6
    <3>. QED BY <3>1, ConcatAdjacentSubSeq
  <2>4. SubSeq(b, 1, k) \in Seq(Seq(W))
    BY <1>6, FirstTextsType
  <2>. QED BY <2>2, <2>3, <2>4, FlattenConcat, SubSeqFull, ZenonT(60) DEF FirstTexts
<1>7. ASSUME n < Len(b)
      PROVE  /\ b[n + 1] \in Seq(W)
             /\ FirstTexts(b, n + 1) = consumed \o b[n + 1]
             /\ consumed \o b[n + 1] \in Seq(W)
             /\ Len(consumed \o b[n + 1]) \in Nat
             /\ Len(consumed \o b[n + 1]) > SCAN_LIMIT
  <2>1. n + 1 \in 0 .. Len(b) /\ n + 1 <= Len(b) /\ ~(n + 1 <= n)
    BY <1>2, <1>7
  <2>2. b[n + 1] \in Seq(W) /\ FirstTexts(b, n + 1) = consumed \o b[n + 1]
    BY <1>2, <2>1, FirstTextsStep
  <2>3. consumed \o b[n + 1] \in Seq(W) /\ Len(consumed \o b[n + 1]) \in Nat
    BY <1>3, <2>2, ConcatProperties, LenProperties
  <2>4. ~(Len(FirstTexts(b, n + 1)) <= SCAN_LIMIT)
    BY <1>1, <2>1
  <2>. QED BY <1>2, <2>2, <2>3, <2>4, SMTT(60)
<1>8. /\ read_prefix(b).scanned =
           IF crosses THEN SubSeq(consumed \o b[n + 1], 1, SCAN_LIMIT) ELSE consumed
      /\ read_prefix(b).rebuilt =
           (<<consumed>> \o (IF crosses THEN <<b[n + 1]>> ELSE <<>>))
             \o SubSeq(b, n + Len(IF crosses THEN <<b[n + 1]>> ELSE <<>>) + 1, Len(b))
  BY DEF read_prefix, n, FirstTexts
<1>9. CASE crosses
  <2>. HIDE DEF consumed, text
  <2>0. n < Len(b) /\ Len(consumed) < SCAN_LIMIT
    BY <1>9
  <2> DEFINE rest == SubSeq(b, (n + 1) + 1, Len(b))
             read == consumed \o b[n + 1]
  <2>1. /\ read_prefix(b).scanned = SubSeq(read, 1, SCAN_LIMIT)
        /\ read_prefix(b).rebuilt = (<<consumed>> \o <<b[n + 1]>>) \o rest
    <3>1. n + Len(<<b[n + 1]>>) + 1 = (n + 1) + 1
      BY <1>2
    <3>. HIDE DEF rest
    <3>. QED BY <1>8, <1>9, <3>1 DEF rest
  <2>2. rest \in Seq(Seq(W)) /\ text = read \o FlattenSeq(rest)
    <3>1. n + 1 \in Nat /\ n + 1 <= Len(b)
      BY <1>2, <2>0
    <3>. QED BY <1>6, <1>7, <2>0, <3>1
  <2>3. read \in Seq(W) /\ Len(read) \in Nat /\ Len(read) > SCAN_LIMIT /\ b[n + 1] \in Seq(W)
    BY <1>7, <2>0
  <2>. HIDE DEF rest
  <2>4. /\ <<consumed>> \o <<b[n + 1]>> \in Seq(Seq(W))
        /\ FlattenSeq(<<consumed>> \o <<b[n + 1]>>) = read
    <3>1. <<consumed>> \in Seq(Seq(W)) /\ <<b[n + 1]>> \in Seq(Seq(W))
      BY <1>3, <2>3
    <3>2. FlattenSeq(<<consumed>>) = consumed /\ FlattenSeq(<<b[n + 1]>>) = b[n + 1]
      BY <1>3, <2>3, FlattenOne
    <3>3. <<consumed>> \o <<b[n + 1]>> \in Seq(Seq(W))
      BY <3>1, ConcatProperties
    <3>4. FlattenSeq(<<consumed>> \o <<b[n + 1]>>)
            = FlattenSeq(<<consumed>>) \o FlattenSeq(<<b[n + 1]>>)
      BY <3>1, FlattenConcat
    <3>. QED BY <3>2, <3>3, <3>4
  <2>5. /\ read_prefix(b).rebuilt \in Seq(Seq(W))
        /\ FlattenSeq(read_prefix(b).rebuilt) = text
    BY <2>1, <2>2, <2>4, FlattenConcat, ConcatProperties
  <2>. HIDE DEF read
  <2>6. SubSeq(read, 1, SCAN_LIMIT) = SubSeq(text, 1, SCAN_LIMIT)
    <3>1. FlattenSeq(rest) \in Seq(W)
      BY <2>2, FlattenType
    <3>. QED BY <1>2, <2>2, <2>3, <3>1, StartOfConcat
  <2>7. ~(Len(text) < SCAN_LIMIT)
    <3>1. FlattenSeq(rest) \in Seq(W) /\ Len(FlattenSeq(rest)) \in Nat
      BY <2>2, FlattenType, LenProperties
    <3>2. Len(text) = Len(read) + Len(FlattenSeq(rest))
      BY <2>2, <2>3, <3>1, ConcatProperties
    <3>. QED BY <1>2, <2>3, <3>1, <3>2
  <2>8. read_prefix(b).scanned = Scanned(text)
    BY <2>1, <2>6, <2>7 DEF Scanned
  <2>9. SubSeq(read, 1, SCAN_LIMIT) \in Seq(W)
    <3>1. \A i \in 1 .. SCAN_LIMIT : i \in 1 .. Len(read)
      BY <1>2, <2>3
    <3>2. \A i \in 1 .. SCAN_LIMIT : read[i] \in W
      BY <2>3, <3>1, ElementOfSeq
    <3>. QED BY <1>2, <3>2, SubSeqProperties
  <2>. QED BY <2>1, <2>5, <2>8, <2>9 DEF text
<1>10. CASE ~crosses
  <2>1. n = Len(b) \/ (n < Len(b) /\ Len(consumed) = SCAN_LIMIT)
    BY <1>2, <1>3, <1>4, <1>10
  <2>. HIDE DEF consumed, text
  <2> DEFINE rest == SubSeq(b, n + 1, Len(b))
  <2>2. /\ read_prefix(b).scanned = consumed
        /\ read_prefix(b).rebuilt = <<consumed>> \o rest
    <3>1. n + Len(<<>>) + 1 = n + 1 /\ <<consumed>> \o <<>> = <<consumed>>
      <4>1. <<consumed>> \in Seq(Seq(W))
        BY <1>3
      <4>. QED BY <1>2, <4>1, ConcatEmptySeq
    <3>. HIDE DEF rest
    <3>. QED BY <1>8, <1>10, <3>1 DEF rest
  <2>3. rest \in Seq(Seq(W)) /\ text = consumed \o FlattenSeq(rest)
    BY <1>2, <1>6 DEF consumed
  <2>4. /\ read_prefix(b).rebuilt \in Seq(Seq(W))
        /\ FlattenSeq(read_prefix(b).rebuilt) = text
    <3>. HIDE DEF rest
    <3>1. <<consumed>> \in Seq(Seq(W))
      BY <1>3
    <3>2. FlattenSeq(<<consumed>>) = consumed
      BY <1>3, FlattenOne
    <3>3. <<consumed>> \o rest \in Seq(Seq(W))
      BY <2>3, <3>1, ConcatProperties
    <3>4. FlattenSeq(<<consumed>> \o rest) = FlattenSeq(<<consumed>>) \o FlattenSeq(rest)
      BY <2>3, <3>1, FlattenConcat
    <3>. QED BY <2>2, <2>3, <3>2, <3>3, <3>4
  <2>5. consumed = Scanned(text)
    <3>1. CASE n = Len(b)
      <4>1. consumed = text
        BY <3>1, FirstTextsEnds DEF consumed, text
      <4>2. SubSeq(text, 1, Len(text)) = text
        BY <1>5, SubSeqFull
      <4>3. ~(Len(text) < SCAN_LIMIT) => Len(text) = SCAN_LIMIT
        BY <1>2, <1>4, <1>5, <4>1
      <4>. QED BY <4>1, <4>2, <4>3 DEF Scanned
    <3>2. CASE Len(consumed) = SCAN_LIMIT
      <4>. HIDE DEF rest
      <4>1. FlattenSeq(rest) \in Seq(W) /\ Len(FlattenSeq(rest)) \in Nat
        BY <2>3, FlattenType, LenProperties
      <4>2. Len(text) = Len(consumed) + Len(FlattenSeq(rest))
        BY <1>3, <2>3, <4>1, ConcatProperties
      <4>3. ~(Len(text) < SCAN_LIMIT)
        BY <1>2, <3>2, <4>1, <4>2
      <4>4. SubSeq(text, 1, SCAN_LIMIT) = SubSeq(consumed, 1, SCAN_LIMIT)
        BY <1>2, <1>3, <1>4, <2>3, <3>2, <4>1, StartOfConcat
      <4>5. SubSeq(consumed, 1, SCAN_LIMIT) = consumed
        BY <1>3, <3>2, SubSeqFull
      <4>. QED BY <4>3, <4>4, <4>5 DEF Scanned
    <3>. QED BY <2>1, <3>1, <3>2
  <2>. QED BY <1>3, <2>2, <2>4, <2>5 DEF text
<1>. QED BY <1>9, <1>10

-----------------------------------------------------------------------------
(***************************************************************************)
(* The inductive invariant.                                                *)
(***************************************************************************)
Vocabulary == DOMAIN Spelling
Callers == Texts \cup {NoToken}
Prompts == [model : Models, tools : BOOLEAN, text : Seq(Vocabulary)]
Answers == [kind : {"json", "error"}, body : Seq(Seq(Vocabulary)), usage : Nat,
            sse : BOOLEAN, caller : Callers, verb : Verbs, prompt : Prompts]
Stations == {"namespace", "exact", "near", "handler", "upstream", "store"}

\* A request that is over, and one on its way.
Over == [pc : {"idle"}, token : Callers, sent : BodiesOfClients, policy : Policies,
         out : [how : {"refused", "denied", "hit", "near", "upstream"},
                answer : Answers \cup {Own}, header : SUBSET Checks]]
OnItsWay == [pc : Stations, token : Callers, sent : BodiesOfClients, policy : Policies,
             body : BodiesOfClients, findings : SUBSET Checks,
             namespace : Callers \cup {Open, NoNamespace}, out : {Nothing} \cup Answers]

TypeOK ==
    /\ keys \in [Keys -> KeyRows \cup {Absent}] /\ now \in Nat
    /\ policy \in Policies
    /\ req \in [Requests -> {Idle} \cup Over \cup OnItsWay]

\* Whose answers are kept where.
NamespaceFor(token) == IF token # NoToken THEN token ELSE Open

\* A row holds a whole answer to the prompt, the verb and somebody of the
\* namespace it is kept under; a prompt with tools has no vector.
RowInv(sig, row) ==
    /\ sig \in [mode : {"x", "v"}, namespace : Callers \cup {Open}, verb : Verbs,
                prompt : Prompts]
    /\ DOMAIN row = {"model", "response", "tokens_saved", "hit_count", "expires"}
    /\ row.model = sig.prompt.model
    /\ row.response \in Answers
    /\ row.response.kind = "json" /\ ~row.response.sse
    /\ row.response.verb = sig.verb /\ row.response.prompt = sig.prompt
    /\ NamespaceFor(row.response.caller) = sig.namespace
    /\ sig.mode = "v" => ~sig.prompt.tools

TableInv(table) == \A sig \in DOMAIN table : RowInv(sig, table[sig])

\* What the guardrails find in what the client sent.
Findings(q) == inspect(Scanned(Text(q.sent)), q.policy)

\* On its way a request is what was sent, passed for what was found, with the
\* namespace of its caller or none, and at the end with the answer to it.
OnItsWayInv(q) ==
    /\ Prompt(q.body) = Prompt(q.sent)
    /\ q.body.verb = q.sent.verb
    /\ q.findings = Findings(q) /\ blocking(q.findings, q.policy) = {}
    /\ q.namespace # NoNamespace => q.namespace = NamespaceFor(q.token) /\ ~q.body.stream
    /\ q.pc \in {"exact", "near", "store"} => q.namespace # NoNamespace
    /\ q.pc = "namespace" => ~q.body.stream
    /\ q.pc = "store" =>
         /\ q.out \in Answers
         /\ q.out.caller = q.token /\ q.out.verb = q.body.verb
         /\ q.out.prompt = Prompt(q.body) /\ ~q.out.sse

\* The answer is one to this request, or to one near it.
Matches(q) ==
    LET answer == q.out.answer
        asked == Prompt(q.sent)
    IN /\ answer.kind = "json" /\ ~answer.sse
       /\ answer.caller = q.token
       /\ answer.verb = q.sent.verb
       /\ answer.prompt.model = asked.model
       /\ \/ answer.prompt = asked
          \/ /\ q.out.how = "near"
             /\ ~answer.prompt.tools /\ ~asked.tools
             /\ {answer.prompt.text, asked.text} \in NearTexts

OverInv(q) ==
    /\ q.out.how = "refused" <=> blocking(Findings(q), q.policy) # {}
    /\ q.out.how # "refused" =>
         q.out.header = AnswerHeader(Findings(q), q.out.answer, q.policy)
    /\ q.out.how \in {"hit", "near"} => Matches(q)

RequestInv(q) ==
    /\ q \in Over => OverInv(q)
    /\ q \in OnItsWay => OnItsWayInv(q)

\* Who may be given an answer could have been let in since it arrived.
LetIn(q) ==
    \/ q.pc \in {"exact", "near", "upstream", "store"}
    \/ q.pc = "idle" /\ q.out.how \in {"hit", "near", "upstream"}

IInv ==
    /\ TypeOK
    /\ TableInv(rows)
    /\ \A r \in Requests : RequestInv(req[r])
    /\ \A r \in Requests : LetIn(req[r]) => r \in admitted

-----------------------------------------------------------------------------
(* Keys *)

\* The names that stand for nobody are nobody's.
LEMMA Names ==
  /\ Open \notin Callers /\ NoNamespace \notin Callers /\ NoNamespace # Open
  /\ NoToken \notin Texts
  /\ \A s, t \in Callers : NamespaceFor(s) = NamespaceFor(t) => s = t
  /\ \A t \in Callers : NamespaceFor(t) \in Callers \cup {Open}
<1>1. Open \notin Callers /\ NoNamespace \notin Callers /\ NoNamespace # Open /\ NoToken \notin Texts
  BY DEF Open, NoNamespace, Callers, NoToken, Texts
<1>. QED BY <1>1 DEF NamespaceFor

\* A text that authenticates as a key is the secret of one that may be used.
LEMMA KeysLetIn ==
  ASSUME keys \in [Keys -> KeyRows \cup {Absent}], now \in Nat, NEW token \in Callers, token # NoToken,
         find_usable_api_key(token) # {}
  PROVE  MayEnter(token)
<1>1. PICK k \in find_usable_api_key(token) : TRUE
  OBVIOUS
<1>2. /\ k \in Keys /\ keys[k] # Absent /\ API_KEY_MATCH(token, k)
      /\ ~keys[k].revoked /\ ~keys[k].off /\ ~timestamp_expired(keys[k].expires)
  BY <1>1 DEF find_usable_api_key
<1>3. keys[k] \in KeyRows
  BY <1>2
<1>4. /\ keys[k].stored \in {"hash", "plain", "digest", "cipher", "blank"}
      /\ keys[k].stored = "digest" => keys[k].hashed
  BY <1>3 DEF KeyRows
<1>5. token = [text |-> "secret", key |-> k]
  BY <1>2, <1>4 DEF API_KEY_MATCH, KeyColumn
<1>6. token \in Texts /\ token.text = "secret" /\ token.key = k
  BY <1>2, <1>5 DEF Texts
<1>7. \/ keys[k].expires.spelt = "never"
      \/ keys[k].expires.spelt # "junk" /\ keys[k].expires.at > now
  <2>1. keys[k].expires.at \in Nat
    BY <1>3, KeyAssumption DEF KeyRows
  <2>2. CASE keys[k].expires.spelt # "never"
    <3>1. parse_db_timestamp(keys[k].expires) /\ ~(keys[k].expires.at <= now)
      BY <1>2, <2>2 DEF timestamp_expired
    <3>2. keys[k].expires.spelt # "junk"
      BY <3>1 DEF parse_db_timestamp
    <3>. QED BY <2>1, <3>1, <3>2
  <2>. QED BY <2>2
<1>. QED BY <1>2, <1>6, <1>7 DEF MayEnter

\* Who passes a check of the keys may enter.
LEMMA CheckedMayEnter ==
  ASSUME keys \in [Keys -> KeyRows \cup {Absent}], now \in Nat, NEW token \in Callers
  PROVE  /\ Authenticated(token) => MayEnter(token)
         /\ NamespaceOf(token) # NoNamespace =>
              MayEnter(token) /\ NamespaceOf(token) = NamespaceFor(token)
<1>1. GateOpen => MayEnter(token)
  BY DEF MayEnter
<1>. QED BY <1>1, KeysLetIn DEF Authenticated, NamespaceOf, NamespaceFor, GateOpen

\* What operators do to the keys keeps their type.
LEMMA KeysTyped ==
  ASSUME keys \in [Keys -> KeyRows \cup {Absent}], now \in Nat, KeyNext
  PROVE  keys' \in [Keys -> KeyRows \cup {Absent}] /\ now' \in Nat
<1>1. CASE KeyTick
  BY <1>1 DEF KeyTick
<1>2. ASSUME NEW k \in Keys, create_key(k)
      PROVE  keys' \in [Keys -> KeyRows \cup {Absent}] /\ now' = now
  <2> DEFINE new == [stored |-> "hash", hashed |-> TRUE, revoked |-> FALSE, off |-> FALSE,
                     manages |-> TRUE, models |-> {}, expires |-> [spelt |-> "never", at |-> 0]]
  <2>1. new \in KeyRows
    <3>1. 0 \in 0 .. MaxNow /\ "never" \in Spellings
      BY KeyAssumption DEF Spellings
    <3>. QED BY <3>1 DEF KeyRows
  <2>2. keys' = [keys EXCEPT ![k] = new]
    BY <1>2 DEF create_key, insert_full_api_key
  <2>3. now' = now
    BY <1>2 DEF create_key, Managed
  <2>. HIDE DEF new
  <2>. QED BY <2>1, <2>2, <2>3
<1>3. ASSUME NEW k \in Keys, NEW revoked \in BOOLEAN, set_key_revoked(k, revoked)
      PROVE  keys' \in [Keys -> KeyRows \cup {Absent}] /\ now' = now
  <2> DEFINE new == [keys[k] EXCEPT !.revoked = revoked]
  <2>1. keys[k] \in KeyRows
    BY <1>3 DEF set_key_revoked
  <2>2. new \in KeyRows
    BY <2>1 DEF KeyRows
  <2>3. keys' = [keys EXCEPT ![k] = new]
    BY <1>3 DEF set_key_revoked, set_api_key_revoked
  <2>4. now' = now
    BY <1>3 DEF set_key_revoked, Managed
  <2>. HIDE DEF new
  <2>. QED BY <2>2, <2>3, <2>4
<1>. QED BY <1>1, <1>2, <1>3 DEF KeyNext

-----------------------------------------------------------------------------
(* The guardrails *)

\* What is stored and loaded of a policy is one.
LEMMA PoliciesTyped ==
  ASSUME policy \in Policies
  PROVE  /\ load \in Policies /\ DefaultPolicy \in Policies
         /\ \A update \in Patches, written \in BOOLEAN :
              update_settings(update, written) => policy' \in Policies
<1>1. ASSUME NEW p \in Policies PROVE sanitize(p) \in Policies
  BY DEF sanitize, Policies
<1>2. ASSUME NEW p \in Policies, NEW update \in Patches PROVE Merged(p, update) \in Policies
  <2>1. [c \in Checks |-> IF "action" \in DOMAIN update /\ c \in DOMAIN update.action
                          THEN update.action[c] ELSE p.action[c]] \in [Checks -> Settings]
    <3>1. \A c \in Checks : p.action[c] \in Settings
      BY DEF Policies
    <3>. QED BY <3>1, GuardAssumption
  <2>2. (IF "terms" \in DOMAIN update THEN update.terms ELSE p.terms) \in SUBSET DOMAIN Spelling
    <3>1. p.terms \in SUBSET DOMAIN Spelling
      BY DEF Policies
    <3>. QED BY <3>1, GuardAssumption
  <2>3. (IF "scan_response" \in DOMAIN update THEN update.scan_response
         ELSE p.scan_response) \in BOOLEAN
    <3>1. p.scan_response \in BOOLEAN
      BY DEF Policies
    <3>. QED BY <3>1, GuardAssumption
  <2>. QED BY <2>1, <2>2, <2>3 DEF Merged, Policies
<1>3. load \in Policies
  BY <1>1 DEF load
<1>4. DefaultPolicy \in Policies
  BY DEF DefaultPolicy, Policies, Checks, Settings
<1>5. ASSUME NEW update \in Patches, NEW written \in BOOLEAN, update_settings(update, written)
      PROVE  policy' \in Policies
  BY <1>1, <1>2, <1>3, <1>5 DEF update_settings
<1>. QED BY <1>3, <1>4, <1>5

\* A check fires exactly on what it looks for.
LEMMA InspectIs ==
  ASSUME NEW p \in Policies, NEW text
  PROVE  inspect(text, p) = {c \in Checks : p.action[c] # "off" /\ Offends(c, text, p)}
<1>1. p.terms \subseteq Vocabulary
  BY DEF Policies, Vocabulary
<1>2. (ToSet(text) \X p.terms) \cap Listed # {} <=> ToSet(text) \cap (p.terms \ {Blank}) # {}
  <2>1. \A w, v : <<w, v>> \in Listed <=> w = v /\ w \in Vocabulary \ {Blank}
    BY WordsAssumption DEF Vocabulary
  <2>2. ASSUME NEW z \in (ToSet(text) \X p.terms) \cap Listed
        PROVE  ToSet(text) \cap (p.terms \ {Blank}) # {}
    <3>1. PICK w \in ToSet(text), v \in p.terms : z = <<w, v>>
      BY <2>2
    <3>. QED BY <2>1, <2>2, <3>1
  <2>3. ASSUME NEW w \in ToSet(text) \cap (p.terms \ {Blank})
        PROVE  (ToSet(text) \X p.terms) \cap Listed # {}
    <3>1. <<w, w>> \in ToSet(text) \X p.terms /\ <<w, w>> \in Listed
      BY <1>1, <2>1, <2>3
    <3>. QED BY <3>1
  <2>. QED BY <2>2, <2>3
<1>3. \A c \in Checks :
        Offends(c, text, p) <=>
          \/ c = "secrets" /\ ToSet(text) \cap Detected # {}
          \/ c = "keywords" /\ (ToSet(text) \X p.terms) \cap Listed # {}
  BY <1>2, WordsAssumption DEF Offends, Checks
<1>. QED BY <1>3 DEF inspect

\* A header names checks.
LEMMA HeaderType ==
  ASSUME NEW F \in SUBSET Checks, NEW answer, NEW p
  PROVE  AnswerHeader(F, answer, p) \in SUBSET Checks /\ blocking(F, p) \in SUBSET Checks
<1>1. \A text : inspect(text, p) \in SUBSET Checks
  BY DEF inspect
<1>2. \A G \in SUBSET Checks : annotate(G, p) \in SUBSET Checks
  BY DEF annotate
<1>. QED BY <1>1, <1>2 DEF AnswerHeader, blocking

\* A check that warns of what a text holds is named.
LEMMA WarnsOf ==
  ASSUME NEW p \in Policies, NEW text, NEW c \in Checks, p.action[c] = "warn",
         Offends(c, text, p)
  PROVE  annotate(inspect(text, p), p) # {}
<1>1. c \in inspect(text, p)
  BY InspectIs
<1>. QED BY <1>1 DEF annotate

\* A request is blocked exactly for what the blocking checks look for.
LEMMA BlocksForCause ==
  ASSUME NEW p \in Policies, NEW text
  PROVE  blocking(inspect(text, p), p) # {} <=>
           \E c \in Checks : p.action[c] = "block" /\ Offends(c, text, p)
<1>1. inspect(text, p) = {c \in Checks : p.action[c] # "off" /\ Offends(c, text, p)}
  BY InspectIs
<1>. QED BY <1>1 DEF blocking

-----------------------------------------------------------------------------
(* The table of the response cache *)

\* The prompt that is cached is of the text that is sent.
LEMMA PromptTyped ==
  ASSUME NEW body \in BodiesOfClients
  PROVE  /\ Text(body) \in Seq(Vocabulary)
         /\ Prompt(body) \in Prompts
         /\ body.verb \in Verbs /\ body.stream \in BOOLEAN /\ body.model \in Models
         /\ Prompt(body).tools = body.tools /\ Prompt(body).model = body.model
         /\ Prompt(body).text = Text(body)
<1>1. /\ body.chunks \in Seq(Seq(Vocabulary)) /\ body.model \in Models
      /\ body.tools \in BOOLEAN /\ body.verb \in Verbs /\ body.stream \in BOOLEAN
  BY DEF BodiesOfClients, Vocabulary
<1>2. Text(body) \in Seq(Vocabulary)
  BY <1>1, FlattenType DEF Text
<1>. QED BY <1>1, <1>2 DEF Prompt, Prompts

\* A hit leaves the rows as good as they were.
LEMMA HitsKeepTheTable ==
  ASSUME TableInv(rows), NEW sig \in DOMAIN rows, NEW tokens
  PROVE  TableInv(record_hit(rows, sig, tokens))
<1> DEFINE new == record_hit(rows, sig, tokens)
<1>1. DOMAIN new = DOMAIN rows
  BY DEF record_hit
<1>2. \A s \in DOMAIN rows : s # sig => new[s] = rows[s]
  BY DEF record_hit
<1>3. RowInv(sig, rows[sig])
  BY DEF TableInv
<1>4. /\ DOMAIN new[sig] = DOMAIN rows[sig]
      /\ new[sig].model = rows[sig].model /\ new[sig].response = rows[sig].response
  BY <1>3 DEF record_hit, RowInv
<1>. HIDE DEF new
<1>5. RowInv(sig, new[sig])
  BY <1>3, <1>4 DEF RowInv
<1>. QED BY <1>1, <1>2, <1>5 DEF TableInv, new

\* A row for an answer of its own prompt, verb and caller is a good one.
LEMMA PutKeepsTheTable ==
  ASSUME NEW table, TableInv(table), NEW sig, NEW model, NEW response, NEW tokens, NEW time,
         sig \in [mode : {"x", "v"}, namespace : Callers \cup {Open}, verb : Verbs,
                  prompt : Prompts],
         model = sig.prompt.model,
         response \in Answers, response.kind = "json", ~response.sse,
         response.verb = sig.verb, response.prompt = sig.prompt,
         NamespaceFor(response.caller) = sig.namespace,
         sig.mode = "v" => ~sig.prompt.tools
  PROVE  TableInv(put(table, sig, model, response, tokens, time))
<1> DEFINE new == put(table, sig, model, response, tokens, time)
<1>1. DOMAIN new = DOMAIN table \cup {sig}
  BY DEF put
<1>2. \A s \in DOMAIN table : s # sig => new[s] = table[s]
  BY DEF put
<1>3. /\ DOMAIN new[sig] = {"model", "response", "tokens_saved", "hit_count", "expires"}
      /\ new[sig].model = model /\ new[sig].response = response
  BY DEF put
<1>. HIDE DEF new
<1>4. RowInv(sig, new[sig])
  BY <1>3 DEF RowInv
<1>. QED BY <1>1, <1>2, <1>4 DEF TableInv, new

\* Fewer rows are as good.
LEMMA SweepKeepsTheTable ==
  ASSUME NEW table, TableInv(table), NEW time
  PROVE  TableInv(sweep_expired(table, time))
BY DEF sweep_expired, Restrict, TableInv

-----------------------------------------------------------------------------
(* Requests *)

\* The record of a request that ends, as Ends writes it.
Ended(q, how, answer) ==
    [pc |-> "idle", token |-> q.token, sent |-> q.sent, policy |-> q.policy,
     out |-> [how |-> how, answer |-> answer,
              header |-> AnswerHeader(q.findings, answer, q.policy)]]

\* A request is idle, on its way or over, and only one of them.
LEMMA Shapes ==
  /\ Idle.pc = "idle" /\ Idle \notin Over /\ Idle \notin OnItsWay /\ ~LetIn(Idle)
  /\ \A q \in Over : q.pc = "idle" /\ q \notin OnItsWay /\ q.out # Nothing
  /\ \A q \in OnItsWay : q.pc # "idle" /\ q \notin Over
<1>1. Idle.pc = "idle" /\ Idle.out = Nothing /\ Idle.out.how = "nothing"
  BY DEF Idle, Nothing
<1>2. \A q \in Over : /\ q.pc = "idle"
                      /\ q.out.how \in {"refused", "denied", "hit", "near", "upstream"}
  BY DEF Over
<1>3. \A q \in OnItsWay : q.pc \in Stations /\ q.pc # "idle"
  BY DEF OnItsWay, Stations
<1>4. Nothing.how = "nothing"
  BY DEF Nothing
<1>. QED BY <1>1, <1>2, <1>3, <1>4 DEF LetIn

\* What is admitted stays admitted; who may enter on the way becomes so.
LEMMA Admits ==
  ASSUME Observe, NEW s \in Requests
  PROVE  /\ req'[s] = req[s] /\ s \in admitted => s \in admitted'
         /\ InFlight(s) /\ s \in admitted => s \in admitted'
         /\ InFlight(s) /\ MayEnter(req'[s].token) => s \in admitted'
BY DEF Observe

\* One request changes, and what is shared stays good: so does the whole.
LEMMA Changes ==
  ASSUME IInv, NEW r \in Requests, NEW new, req' = [req EXCEPT ![r] = new],
         new \in Over \cup OnItsWay, RequestInv(new),
         keys' = keys, now' = now, policy' = policy, TableInv(rows'), Observe,
         LetIn(new) => InFlight(r) /\ (r \in admitted \/ MayEnter(new.token))
  PROVE  IInv'
<1>1. /\ TypeOK /\ \A s \in Requests : RequestInv(req[s])
      /\ \A s \in Requests : LetIn(req[s]) => s \in admitted
  BY DEF IInv
<1>2. /\ req'[r] = new /\ \A s \in Requests : s # r => req'[s] = req[s]
      /\ req' \in [Requests -> {Idle} \cup Over \cup OnItsWay]
  BY <1>1 DEF TypeOK
<1>3. TypeOK'
  BY <1>1, <1>2 DEF TypeOK
<1>4. \A s \in Requests : RequestInv(req'[s])
  BY <1>1, <1>2
<1>5. \A s \in Requests : LetIn(req'[s]) => s \in admitted'
  BY <1>1, <1>2, Admits
<1>. QED BY <1>3, <1>4, <1>5 DEF IInv

\* What a request on its way has passed.
LEMMA OnTheWay ==
  ASSUME IInv, NEW r \in Requests, req[r].pc \in Stations
  PROVE  /\ req[r] \in OnItsWay /\ OnItsWayInv(req[r]) /\ InFlight(r)
         /\ req[r].pc \in {"exact", "near", "upstream", "store"} => r \in admitted
         /\ keys \in [Keys -> KeyRows \cup {Absent}] /\ now \in Nat
         /\ policy \in Policies /\ TableInv(rows)
<1>1. req[r] \in {Idle} \cup Over \cup OnItsWay /\ req[r].pc # "idle"
  BY DEF IInv, TypeOK, Stations
<1>2. req[r] \in OnItsWay
  BY <1>1, Shapes
<1>3. OnItsWayInv(req[r])
  BY <1>2 DEF IInv, RequestInv
<1>. QED BY <1>1, <1>2, <1>3 DEF IInv, TypeOK, InFlight, LetIn

\* How a request ends is a good end.
LEMMA EndsWell ==
  ASSUME NEW q \in OnItsWay, OnItsWayInv(q), NEW how \in {"denied", "hit", "near", "upstream"},
         NEW answer \in Answers \cup {Own},
         how \in {"hit", "near"} => Matches(Ended(q, how, answer))
  PROVE  LET new == Ended(q, how, answer) IN
         /\ new \in Over /\ RequestInv(new) /\ new.token = q.token
         /\ LetIn(new) => how # "denied"
<1> DEFINE new == Ended(q, how, answer)
<1>1. /\ q.token \in Callers /\ q.sent \in BodiesOfClients /\ q.policy \in Policies
      /\ q.findings \in SUBSET Checks
  BY DEF OnItsWay
<1>2. AnswerHeader(q.findings, answer, q.policy) \in SUBSET Checks
  BY <1>1, HeaderType
<1>3. new \in Over
  BY <1>1, <1>2 DEF Ended, Over
<1>4. /\ new.token = q.token /\ new.out.how = how /\ new.out.answer = answer
      /\ new.sent = q.sent /\ new.policy = q.policy /\ new.pc = "idle"
      /\ new.out.header = AnswerHeader(q.findings, answer, q.policy)
  BY DEF Ended
<1>. HIDE DEF new
<1>5. Findings(new) = q.findings
  BY <1>4 DEF OnItsWayInv, Findings
<1>6. OverInv(new)
  BY <1>4, <1>5 DEF OverInv, OnItsWayInv, new
<1>7. RequestInv(new)
  BY <1>3, <1>6, Shapes DEF RequestInv
<1>. QED BY <1>3, <1>4, <1>7 DEF new, LetIn

\* Where a request goes on to is a good place.
LEMMA GoesWell ==
  ASSUME NEW q \in OnItsWay, OnItsWayInv(q), NEW pc \in {"near", "handler", "upstream"},
         pc = "near" => q.namespace # NoNamespace
  PROVE  LET new == [q EXCEPT !.pc = pc] IN
         /\ new \in OnItsWay /\ RequestInv(new) /\ new.token = q.token
         /\ LetIn(new) => pc # "handler"
<1> DEFINE new == [q EXCEPT !.pc = pc]
<1>1. new \in OnItsWay
  BY DEF OnItsWay, Stations
<1>2. /\ new.token = q.token /\ new.body = q.body /\ new.findings = q.findings
      /\ new.sent = q.sent /\ new.policy = q.policy /\ new.pc = pc
      /\ new.namespace = q.namespace
  BY DEF OnItsWay
<1>. HIDE DEF new
<1>3. Findings(new) = Findings(q)
  BY <1>2 DEF Findings
<1>4. OnItsWayInv(new)
  BY <1>2, <1>3 DEF OnItsWayInv
<1>5. RequestInv(new)
  BY <1>1, <1>4, Shapes DEF RequestInv
<1>. QED BY <1>1, <1>2, <1>5 DEF new, LetIn

-----------------------------------------------------------------------------
(* The steps *)

\* A request arrives.
LEMMA ArriveKeeps ==
  ASSUME IInv, Observe, NEW r \in Requests, NEW token \in Tokens, NEW body \in Bodies,
         NEW p \in Policies, Arrive(r, token, body, p)
  PROVE  IInv'
<1> DEFINE taken == read_prefix(body.chunks)
           findings == inspect(taken.scanned, p)
           passed == [body EXCEPT !.chunks = taken.rebuilt]
           over == [pc |-> "idle", token |-> token, sent |-> body, policy |-> p,
                    out |-> [how |-> "refused", answer |-> Own,
                             header |-> blocking(findings, p)]]
           going == [pc |-> IF body.stream THEN "handler" ELSE "namespace",
                     token |-> token, sent |-> body, policy |-> p,
                     body |-> passed, findings |-> findings,
                     namespace |-> NoNamespace, out |-> Nothing]
<1>1. token \in Callers /\ body \in BodiesOfClients
  BY EdgeAssumption DEF Callers
<1>2. body.chunks \in Seq(Seq(Vocabulary))
  BY <1>1 DEF BodiesOfClients, Vocabulary
<1>3. /\ taken.rebuilt \in Seq(Seq(Vocabulary))
      /\ FlattenSeq(taken.rebuilt) = Text(body)
      /\ taken.scanned = Scanned(Text(body))
  BY <1>2, ReadPrefix DEF Text
<1>. HIDE DEF taken
<1>4. /\ passed \in BodiesOfClients /\ passed.chunks = taken.rebuilt
      /\ passed.verb = body.verb /\ passed.stream = body.stream
      /\ passed.model = body.model /\ passed.tools = body.tools
  BY <1>1, <1>3 DEF BodiesOfClients, Vocabulary
<1>5. Prompt(passed) = Prompt(body)
  BY <1>3, <1>4 DEF Prompt, Text
<1>6. findings \in SUBSET Checks /\ blocking(findings, p) \in SUBSET Checks
  BY DEF inspect, blocking
<1>7. findings = inspect(Scanned(Text(body)), p)
  BY <1>3
<1>8. req' = [req EXCEPT ![r] = IF blocking(findings, p) # {} THEN over ELSE going]
  BY DEF Arrive, taken
<1>9. keys' = keys /\ now' = now /\ policy' = policy /\ rows' = rows
  BY DEF Arrive, keyVars, guardVars
<1>10. TableInv(rows')
  BY <1>9 DEF IInv
<1>. HIDE DEF passed, findings
<1>11. CASE blocking(findings, p) # {}
  <2>1. over \in Over
    BY <1>1, <1>6 DEF Over
  <2>2. /\ over.out.how = "refused" /\ over.sent = body /\ over.policy = p
        /\ over.pc = "idle"
    OBVIOUS
  <2>. HIDE DEF over
  <2>3. Findings(over) = findings
    BY <1>7, <2>2 DEF Findings
  <2>4. OverInv(over)
    BY <1>11, <2>2, <2>3 DEF OverInv
  <2>5. RequestInv(over) /\ ~LetIn(over)
    BY <2>1, <2>2, <2>4, Shapes DEF RequestInv, LetIn
  <2>6. req' = [req EXCEPT ![r] = over]
    BY <1>8, <1>11
  <2>. QED BY <1>9, <1>10, <2>1, <2>5, <2>6, Changes
<1>12. CASE blocking(findings, p) = {}
  <2>1. going \in OnItsWay
    BY <1>1, <1>4, <1>6 DEF OnItsWay, Stations
  <2>2. /\ going.pc \in {"handler", "namespace"}
        /\ going.pc = "namespace" => ~body.stream
        /\ going.sent = body /\ going.body = passed /\ going.policy = p
        /\ going.findings = findings /\ going.namespace = NoNamespace
    OBVIOUS
  <2>. HIDE DEF going
  <2>3. Findings(going) = findings
    BY <1>7, <2>2 DEF Findings
  <2>4. OnItsWayInv(going)
    BY <1>4, <1>5, <1>12, <2>2, <2>3 DEF OnItsWayInv
  <2>5. RequestInv(going) /\ ~LetIn(going)
    BY <2>1, <2>2, <2>4, Shapes DEF RequestInv, LetIn
  <2>6. req' = [req EXCEPT ![r] = going]
    BY <1>8, <1>12
  <2>. QED BY <1>9, <1>10, <2>1, <2>5, <2>6, Changes
<1>. QED BY <1>11, <1>12

\* A request is given its namespace, or none.
LEMMA NamespaceKeeps ==
  ASSUME IInv, Observe, NEW r \in Requests, Namespace(r)
  PROVE  IInv'
<1> DEFINE q == req[r]
           ns == NamespaceOf(q.token)
           new == [q EXCEPT !.namespace = ns,
                            !.pc = IF ns = NoNamespace THEN "handler" ELSE "exact"]
<1>1. /\ q \in OnItsWay /\ OnItsWayInv(q) /\ InFlight(r) /\ q.pc = "namespace"
      /\ keys \in [Keys -> KeyRows \cup {Absent}] /\ now \in Nat
  BY OnTheWay DEF Namespace, At, Stations
<1>2. keys' = keys /\ now' = now /\ policy' = policy /\ TableInv(rows')
  BY DEF Namespace, keyVars, guardVars, IInv
<1>. HIDE DEF q
<1>3. q.token \in Callers /\ ~q.body.stream
  BY <1>1 DEF OnItsWay, OnItsWayInv
<1>4. CASE req' = [req EXCEPT ![r] = new]
  <2>1. ns # NoNamespace => MayEnter(q.token) /\ ns = NamespaceFor(q.token)
    BY <1>1, <1>3, CheckedMayEnter
  <2>2. ns \in Callers \cup {Open, NoNamespace}
    BY <1>3, <2>1, Names
  <2>. HIDE DEF ns
  <2>3. /\ new \in OnItsWay /\ new.token = q.token
        /\ new.pc = IF ns = NoNamespace THEN "handler" ELSE "exact"
        /\ new.namespace = ns /\ new.sent = q.sent /\ new.policy = q.policy
        /\ new.body = q.body /\ new.findings = q.findings
    BY <1>1, <2>2 DEF OnItsWay, Stations
  <2>. HIDE DEF new
  <2>4. Findings(new) = Findings(q)
    BY <2>3 DEF Findings
  <2>5. OnItsWayInv(new)
    BY <1>1, <1>3, <2>1, <2>3, <2>4 DEF OnItsWayInv
  <2>6. RequestInv(new)
    BY <2>3, <2>5, Shapes DEF RequestInv
  <2>7. LetIn(new) => MayEnter(new.token)
    BY <2>1, <2>3 DEF LetIn
  <2>. QED BY <1>1, <1>2, <1>4, <2>3, <2>6, <2>7, Changes
<1>5. CASE Goes(r, "handler")
  <2>1. req' = [req EXCEPT ![r] = [q EXCEPT !.pc = "handler"]]
    BY <1>5 DEF Goes, q
  <2>. QED BY <1>1, <1>2, <2>1, GoesWell, Changes
<1>. QED BY <1>4, <1>5 DEF Namespace, q

\* A request that moves on or ends without touching what others see.
LEMMA MovesKeep ==
  ASSUME IInv, Observe, NEW r \in Requests, req[r].pc \in Stations,
         keys' = keys, now' = now, policy' = policy, TableInv(rows'),
         \/ Goes(r, "handler")
         \/ Goes(r, "near") /\ req[r].namespace # NoNamespace /\ r \in admitted
         \/ Goes(r, "upstream") /\ MayEnter(req[r].token)
  PROVE  IInv'
<1>1. req[r] \in OnItsWay /\ OnItsWayInv(req[r]) /\ InFlight(r)
  BY OnTheWay
<1>2. ASSUME NEW pc \in {"near", "handler", "upstream"}, Goes(r, pc),
             pc = "near" => req[r].namespace # NoNamespace,
             pc # "handler" => r \in admitted \/ MayEnter(req[r].token)
      PROVE  IInv'
  <2> DEFINE new == [req[r] EXCEPT !.pc = pc]
  <2>1. req' = [req EXCEPT ![r] = new]
    BY <1>2 DEF Goes
  <2>2. /\ new \in OnItsWay /\ RequestInv(new) /\ new.token = req[r].token
        /\ LetIn(new) => pc # "handler"
    BY <1>1, <1>2, GoesWell
  <2>. HIDE DEF new
  <2>. QED BY <1>1, <1>2, <2>1, <2>2, Changes
<1>. QED BY <1>2

\* A request ends without touching what others see.
LEMMA EndsKeep ==
  ASSUME IInv, Observe, NEW r \in Requests, req[r].pc \in Stations,
         keys' = keys, now' = now, policy' = policy, TableInv(rows'),
         NEW how \in {"denied", "hit", "near", "upstream"}, NEW answer \in Answers \cup {Own},
         Ends(r, how, answer), how # "denied" => r \in admitted,
         how \in {"hit", "near"} => Matches(Ended(req[r], how, answer))
  PROVE  IInv'
<1> DEFINE new == Ended(req[r], how, answer)
<1>1. req[r] \in OnItsWay /\ OnItsWayInv(req[r]) /\ InFlight(r)
  BY OnTheWay
<1>2. req' = [req EXCEPT ![r] = new]
  BY DEF Ends, Ended
<1>3. new \in Over /\ RequestInv(new) /\ (LetIn(new) => how # "denied")
  BY <1>1, EndsWell
<1>. HIDE DEF new
<1>. QED BY <1>1, <1>2, <1>3, Changes

\* Served: the row's answer is one to the request, and the table keeps its rows.
LEMMA ServedKeeps ==
  ASSUME IInv, Observe, NEW r \in Requests, req[r].pc \in Stations,
         keys' = keys, now' = now, policy' = policy, r \in admitted,
         NEW how \in {"hit", "near"}, NEW sig \in DOMAIN rows, Served(r, how, sig),
         rows[sig].response.caller = req[r].token,
         rows[sig].response.verb = req[r].sent.verb,
         rows[sig].response.prompt.model = Prompt(req[r].sent).model,
         \/ rows[sig].response.prompt = Prompt(req[r].sent)
         \/ /\ how = "near"
            /\ ~rows[sig].response.prompt.tools /\ ~Prompt(req[r].sent).tools
            /\ {rows[sig].response.prompt.text, Prompt(req[r].sent).text} \in NearTexts
  PROVE  IInv'
<1> DEFINE answer == rows[sig].response
           new == Ended(req[r], how, answer)
<1>1. TableInv(rows) /\ RowInv(sig, rows[sig])
  BY DEF IInv, TableInv
<1>2. answer \in Answers /\ answer.kind = "json" /\ ~answer.sse
  BY <1>1 DEF RowInv
<1>3. TableInv(rows')
  BY <1>1, HitsKeepTheTable DEF Served
<1>4. /\ new.out.answer = answer /\ new.out.how = how /\ new.sent = req[r].sent
      /\ new.token = req[r].token
  BY DEF Ended
<1>5. Ends(r, how, answer)
  BY DEF Served
<1>. HIDE DEF answer
<1>6. Matches(new)
  <2>. HIDE DEF new
  <2>. QED BY <1>2, <1>4 DEF Matches, answer
<1>7. how # "denied" /\ answer \in Answers \cup {Own}
  BY <1>2
<1>. QED BY <1>3, <1>5, <1>6, <1>7, EndsKeep

\* The lookup of the very prompt.
LEMMA ExactKeeps ==
  ASSUME IInv, Observe, NEW r \in Requests, exact_hit(r)
  PROVE  IInv'
<1> DEFINE q == req[r]
           sig == answer_signature(CacheKey(r))
<1>1. /\ req[r].pc = "exact" /\ req[r].pc \in Stations
      /\ keys' = keys /\ now' = now /\ policy' = policy
  BY DEF exact_hit, At, Stations, keyVars, guardVars
<1>2. /\ q \in OnItsWay /\ OnItsWayInv(q) /\ r \in admitted
      /\ TableInv(rows)
  BY <1>1, OnTheWay
<1>3. q.namespace # NoNamespace /\ q.namespace = NamespaceFor(q.token)
  BY <1>1, <1>2 DEF OnItsWayInv
<1>4. \/ Live(sig, now) /\ Served(r, "hit", sig)
      \/ Goes(r, "near") /\ rows' = rows
  BY DEF exact_hit
<1>5. CASE Goes(r, "near") /\ rows' = rows
  BY <1>1, <1>2, <1>3, <1>5, MovesKeep
<1>6. CASE Live(sig, now) /\ Served(r, "hit", sig)
  <2>1. sig \in DOMAIN rows
    BY <1>6 DEF Live
  <2>2. /\ sig.namespace = q.namespace /\ sig.verb = q.body.verb
        /\ sig.prompt = Prompt(q.body)
    BY DEF answer_signature, Signature, CacheKey
  <2>. HIDE DEF sig, q
  <2>3. RowInv(sig, rows[sig])
    BY <1>2, <2>1 DEF TableInv
  <2>4. /\ rows[sig].response.verb = q.sent.verb
        /\ rows[sig].response.prompt = Prompt(q.sent)
    BY <1>2, <2>2, <2>3 DEF RowInv, OnItsWayInv
  <2>5. rows[sig].response.caller = q.token
    <3>1. q.token \in Callers /\ rows[sig].response.caller \in Callers
      BY <1>2, <2>3 DEF OnItsWay, RowInv, Answers
    <3>2. NamespaceFor(rows[sig].response.caller) = NamespaceFor(q.token)
      BY <1>3, <2>2, <2>3 DEF RowInv
    <3>. QED BY <3>1, <3>2, Names
  <2>. QED BY <1>1, <1>2, <1>6, <2>1, <2>4, <2>5, ServedKeeps DEF q
<1>. QED BY <1>4, <1>5, <1>6

\* The lookup of a near prompt.
LEMMA NearKeeps ==
  ASSUME IInv, Observe, NEW r \in Requests, semantic_hit(r)
  PROVE  IInv'
<1> DEFINE q == req[r]
           key == CacheKey(r)
<1>1. /\ req[r].pc = "near" /\ req[r].pc \in Stations
      /\ keys' = keys /\ now' = now /\ policy' = policy
  BY DEF semantic_hit, At, Stations, keyVars, guardVars
<1>2. /\ q \in OnItsWay /\ OnItsWayInv(q) /\ r \in admitted
      /\ TableInv(rows)
  BY <1>1, OnTheWay
<1>3. q.namespace # NoNamespace /\ q.namespace = NamespaceFor(q.token)
  BY <1>1, <1>2 DEF OnItsWayInv
<1>4. CASE Goes(r, "handler") /\ rows' = rows
  BY <1>1, <1>2, <1>4, MovesKeep
<1>5. ASSUME NEW v \in nearest(vectors_in(key, now), Prompt(q.body)), ~q.body.tools,
             Live(answer_signature_of(v), now), Served(r, "near", answer_signature_of(v))
      PROVE  IInv'
  <2> DEFINE sig == answer_signature_of(v)
  <2>1. /\ v \in DOMAIN rows /\ v.mode = "v" /\ v.namespace = q.namespace
        /\ v.verb = q.body.verb /\ rows[v].model = Prompt(q.body).model
        /\ cosine(v.prompt, Prompt(q.body)) > 0
    BY <1>5 DEF nearest, vectors_in, Live, CacheKey
  <2>2. RowInv(v, rows[v])
    BY <1>2, <2>1 DEF TableInv
  <2>3. /\ sig.prompt = v.prompt /\ sig.namespace = v.namespace /\ sig.verb = v.verb
    BY <2>2 DEF answer_signature_of, RowInv
  <2>4. sig \in DOMAIN rows
    BY <1>5 DEF Live
  <2>. HIDE DEF sig, q
  <2>5. RowInv(sig, rows[sig])
    BY <1>2, <2>4 DEF TableInv
  <2>6. /\ rows[sig].response.verb = q.sent.verb
        /\ rows[sig].response.prompt = v.prompt
        /\ v.prompt \in Prompts /\ v.prompt.model = Prompt(q.body).model /\ ~v.prompt.tools
    BY <1>2, <2>1, <2>2, <2>3, <2>5 DEF RowInv, OnItsWayInv
  <2>7. rows[sig].response.caller = q.token
    <3>1. q.token \in Callers /\ rows[sig].response.caller \in Callers
      BY <1>2, <2>5 DEF OnItsWay, RowInv, Answers
    <3>2. NamespaceFor(rows[sig].response.caller) = NamespaceFor(q.token)
      BY <1>3, <2>1, <2>3, <2>5 DEF RowInv
    <3>. QED BY <3>1, <3>2, Names
  <2>8. /\ Prompt(q.body) = Prompt(q.sent) /\ Prompt(q.body) \in Prompts
        /\ Prompt(q.body).tools = q.body.tools
    <3>1. q.body \in BodiesOfClients
      BY <1>2 DEF OnItsWay
    <3>. QED BY <1>2, <3>1, PromptTyped DEF OnItsWayInv
  <2>9. \/ v.prompt.text = Prompt(q.sent).text
        \/ {v.prompt.text, Prompt(q.sent).text} \in NearTexts
    BY <2>1, <2>8 DEF cosine
  <2>10. ~Prompt(q.sent).tools
    BY <1>5, <2>8 DEF q
  <2>11. v.prompt.text = Prompt(q.sent).text => v.prompt = Prompt(q.sent)
    <3>1. v.prompt \in Prompts /\ Prompt(q.sent) \in Prompts
      BY <2>6, <2>8
    <3>2. v.prompt.model = Prompt(q.sent).model
      BY <2>6, <2>8
    <3>3. v.prompt.tools = Prompt(q.sent).tools
      BY <2>6, <2>10, <3>1 DEF Prompts
    <3>. QED BY <3>1, <3>2, <3>3 DEF Prompts
  <2>12. rows[sig].response.prompt.model = Prompt(q.sent).model
    BY <2>6, <2>8
  <2>13. Served(r, "near", sig)
    BY <1>5 DEF sig
  <2>. QED BY <1>1, <1>2, <2>4, <2>6, <2>7, <2>9, <2>10, <2>11, <2>12, <2>13, ServedKeeps DEF q
<1>6. \/ Goes(r, "handler") /\ rows' = rows
      \/ /\ ~q.body.tools
         /\ \E v \in nearest(vectors_in(key, now), Prompt(q.body)) :
              Live(answer_signature_of(v), now) /\ Served(r, "near", answer_signature_of(v))
  BY DEF semantic_hit, Comparable
<1>. QED BY <1>4, <1>5, <1>6

\* The handler authenticates and inspects.
LEMMA HandlerKeeps ==
  ASSUME IInv, Observe, NEW r \in Requests, Handler(r)
  PROVE  IInv'
<1>1. /\ req[r].pc = "handler" /\ req[r].pc \in Stations
      /\ keys' = keys /\ now' = now /\ policy' = policy /\ rows' = rows
  BY DEF Handler, At, Stations, keyVars, guardVars
<1>2. /\ req[r] \in OnItsWay /\ TableInv(rows) /\ now \in Nat
      /\ keys \in [Keys -> KeyRows \cup {Absent}]
  BY <1>1, OnTheWay
<1>3. req[r].token \in Callers
  BY <1>2 DEF OnItsWay
<1>4. CASE Ends(r, "denied", Own)
  BY <1>1, <1>2, <1>4, EndsKeep
<1>5. CASE Goes(r, "upstream") /\ Authenticated(req[r].token)
  BY <1>1, <1>2, <1>3, <1>5, CheckedMayEnter, MovesKeep
<1>. QED BY <1>4, <1>5 DEF Handler

\* The upstream answers.
LEMMA UpstreamKeeps ==
  ASSUME IInv, Observe, NEW r \in Requests, NEW reply \in Replies, Upstream(r, reply)
  PROVE  IInv'
<1> DEFINE q == req[r]
           answer == [kind |-> reply.kind, body |-> reply.body, usage |-> reply.usage,
                      sse |-> q.body.stream, caller |-> q.token,
                      verb |-> q.body.verb, prompt |-> Prompt(q.body)]
           new == [q EXCEPT !.pc = "store", !.out = answer]
<1>1. /\ q.pc = "upstream" /\ q.pc \in Stations
      /\ keys' = keys /\ now' = now /\ policy' = policy /\ rows' = rows
  BY DEF Upstream, At, Stations, keyVars, guardVars
<1>2. q \in OnItsWay /\ OnItsWayInv(q) /\ r \in admitted /\ TableInv(rows) /\ InFlight(r)
  BY <1>1, OnTheWay
<1>3. \/ q.namespace = NoNamespace /\ Ends(r, "upstream", answer)
      \/ q.namespace # NoNamespace /\ req' = [req EXCEPT ![r] = new]
  BY DEF Upstream
<1>. HIDE DEF q
<1>4. answer \in Answers
  <2>1. q.token \in Callers /\ q.body \in BodiesOfClients
    BY <1>2 DEF OnItsWay
  <2>2. /\ reply.kind \in {"json", "error"} /\ reply.body \in Seq(Seq(Vocabulary))
        /\ reply.usage \in Nat
    BY EdgeAssumption DEF RepliesOfUpstreams, Vocabulary
  <2>3. /\ Prompt(q.body) \in Prompts /\ q.body.verb \in Verbs
        /\ q.body.stream \in BOOLEAN
    BY <2>1, PromptTyped
  <2>. QED BY <2>1, <2>2, <2>3 DEF Answers
<1>5. /\ answer.caller = q.token /\ answer.verb = q.body.verb
      /\ answer.prompt = Prompt(q.body) /\ answer.sse = q.body.stream
  OBVIOUS
<1>. HIDE DEF answer
<1>6. CASE q.namespace = NoNamespace /\ Ends(r, "upstream", answer)
  BY <1>1, <1>2, <1>4, <1>6, EndsKeep DEF q
<1>7. CASE q.namespace # NoNamespace /\ req' = [req EXCEPT ![r] = new]
  <2>1. /\ new \in OnItsWay /\ new.pc = "store" /\ new.out = answer
        /\ new.namespace = q.namespace /\ new.sent = q.sent /\ new.policy = q.policy
        /\ new.body = q.body /\ new.findings = q.findings /\ new.token = q.token
    BY <1>2, <1>4 DEF OnItsWay, Stations
  <2>. HIDE DEF new
  <2>2. Findings(new) = Findings(q)
    BY <2>1 DEF Findings
  <2>3. OnItsWayInv(new)
    BY <1>2, <1>4, <1>5, <1>7, <2>1, <2>2 DEF OnItsWayInv
  <2>4. RequestInv(new)
    BY <2>1, <2>3, Shapes DEF RequestInv
  <2>. QED BY <1>1, <1>2, <1>7, <2>1, <2>4, Changes
<1>. QED BY <1>3, <1>6, <1>7

\* The answer is stored.
LEMMA StoreKeeps ==
  ASSUME IInv, Observe, NEW r \in Requests, Store(r)
  PROVE  IInv'
<1> DEFINE q == req[r]
           key == CacheKey(r)
<1>1. /\ q.pc = "store" /\ q.pc \in Stations
      /\ keys' = keys /\ now' = now /\ policy' = policy
  BY DEF Store, At, Stations, keyVars, guardVars
<1>2. q \in OnItsWay /\ OnItsWayInv(q) /\ r \in admitted /\ TableInv(rows)
  BY <1>1, OnTheWay
<1>3. /\ q.namespace = NamespaceFor(q.token) /\ q.out \in Answers
      /\ q.out.caller = q.token /\ q.out.verb = q.body.verb
      /\ q.out.prompt = Prompt(q.body) /\ ~q.out.sse
  BY <1>1, <1>2 DEF OnItsWayInv
<1>4. /\ q.token \in Callers /\ q.body \in BodiesOfClients
      /\ Prompt(q.body) \in Prompts /\ q.body.verb \in Verbs
      /\ Prompt(q.body).tools = q.body.tools
  <2>1. q.token \in Callers /\ q.body \in BodiesOfClients
    BY <1>2 DEF OnItsWay
  <2>. QED BY <2>1, PromptTyped
<1>5. key.namespace = q.namespace /\ key.verb = q.body.verb /\ key.prompt = Prompt(q.body)
  BY DEF CacheKey
<1>6. ASSUME NEW withVector \in BOOLEAN, Storable(q.out), write_entry(r, withVector),
             withVector => ~q.body.tools
      PROVE  TableInv(rows')
  <2> DEFINE tokens == tokens_saved_by(q.out)
             stored == put(rows, answer_signature(key), key.prompt.model, q.out, tokens, now)
             both == IF withVector
                     THEN put(stored, vector_signature(key), key.prompt.model, q.out, 0, now)
                     ELSE stored
  <2>1. rows' = sweep_expired(both, now)
    BY <1>6 DEF write_entry
  <2>2. ASSUME NEW mode \in {"x", "v"}
        PROVE  LET sig == Signature(mode, key.namespace, key.verb, key.prompt) IN
               /\ sig \in [mode : {"x", "v"}, namespace : Callers \cup {Open}, verb : Verbs,
                           prompt : Prompts]
               /\ sig.namespace = key.namespace /\ sig.verb = key.verb
               /\ sig.prompt = key.prompt /\ sig.mode = mode
    <3>1. key.namespace \in Callers \cup {Open}
      BY <1>3, <1>4, <1>5, Names
    <3>. QED BY <1>4, <1>5, <3>1 DEF Signature
  <2>3. q.out.kind = "json"
    BY <1>6 DEF Storable
  <2>. HIDE DEF key, q
  <2>4. TableInv(stored)
    <3>1. answer_signature(key) = Signature("x", key.namespace, key.verb, key.prompt)
      BY DEF answer_signature
    <3> DEFINE sig == answer_signature(key)
    <3>2. /\ sig \in [mode : {"x", "v"}, namespace : Callers \cup {Open}, verb : Verbs,
                      prompt : Prompts]
          /\ sig.namespace = key.namespace /\ sig.verb = key.verb
          /\ sig.prompt = key.prompt /\ sig.mode = "x"
      BY <2>2, <3>1
    <3>. HIDE DEF sig
    <3>. QED BY <1>2, <1>3, <1>5, <2>3, <3>2, PutKeepsTheTable DEF sig
  <2>. HIDE DEF stored
  <2>5. TableInv(both)
    <3>1. vector_signature(key) = Signature("v", key.namespace, key.verb, key.prompt)
      BY DEF vector_signature
    <3> DEFINE sig == vector_signature(key)
    <3>2. /\ sig \in [mode : {"x", "v"}, namespace : Callers \cup {Open}, verb : Verbs,
                      prompt : Prompts]
          /\ sig.namespace = key.namespace /\ sig.verb = key.verb
          /\ sig.prompt = key.prompt /\ sig.mode = "v"
      BY <2>2, <3>1
    <3>. HIDE DEF sig
    <3>3. withVector => ~key.prompt.tools
      BY <1>4, <1>5, <1>6
    <3>4. withVector => TableInv(put(stored, sig, key.prompt.model, q.out, 0, now))
      BY <1>3, <1>5, <2>3, <2>4, <3>2, <3>3, PutKeepsTheTable
    <3>. QED BY <2>4, <3>4 DEF sig
  <2>. HIDE DEF both
  <2>. QED BY <2>1, <2>5, SweepKeepsTheTable
<1>7. TableInv(rows')
  <2>1. \/ rows' = rows
        \/ Storable(q.out) /\ write_entry(r, FALSE)
        \/ Storable(q.out) /\ ~q.body.tools /\ write_entry(r, TRUE)
    BY DEF Store, Comparable
  <2>. QED BY <1>2, <1>6, <2>1
<1>8. Ends(r, "upstream", q.out)
  BY DEF Store
<1>. QED BY <1>1, <1>2, <1>3, <1>7, <1>8, EndsKeep

-----------------------------------------------------------------------------
(***************************************************************************)
(* The theorems.                                                           *)
(***************************************************************************)
LEMMA Starts == Init => IInv
<1> SUFFICES ASSUME Init PROVE IInv
  OBVIOUS
<1>1. keys \in [Keys -> KeyRows \cup {Absent}] /\ now \in Nat
  BY KeyAssumption DEF Init, KeyInit
<1>2. policy \in Policies
  BY GuardAssumption DEF Init, GuardInit
<1>3. req = [r \in Requests |-> Idle]
  BY DEF Init
<1>4. TableInv(rows)
  BY DEF Init, CacheInit, TableInv
<1>5. TypeOK
  BY <1>1, <1>2, <1>3 DEF TypeOK
<1>6. \A r \in Requests : RequestInv(req[r]) /\ ~LetIn(req[r])
  BY <1>3, Shapes DEF RequestInv
<1>. QED BY <1>4, <1>5, <1>6 DEF IInv

\* Keys and policies change, and no request does.
LEMMA Stands ==
  ASSUME IInv, req' = req, keys' \in [Keys -> KeyRows \cup {Absent}], now' \in Nat,
         policy' \in Policies, rows' = rows, Observe \/ UNCHANGED admitted
  PROVE  IInv'
<1>1. TypeOK' /\ TableInv(rows')
  BY DEF IInv, TypeOK
<1>2. \A r \in Requests : r \in admitted => r \in admitted'
  BY Admits
<1>. QED BY <1>1, <1>2 DEF IInv

\* Every step keeps the invariant.
LEMMA Keeps == IInv /\ [Next]_vars => IInv'
<1> SUFFICES ASSUME IInv, [Next]_vars PROVE IInv'
  OBVIOUS
<1>0. /\ keys \in [Keys -> KeyRows \cup {Absent}] /\ now \in Nat
      /\ policy \in Policies
  BY DEF IInv, TypeOK
<1>1. CASE UNCHANGED vars
  BY <1>0, <1>1, Stands DEF vars, keyVars, guardVars, reqVars
<1>2. ASSUME NEW r \in Requests, ArriveAny(r), Observe PROVE IInv'
  <2>1. load \in Policies /\ DefaultPolicy \in Policies
    BY <1>0, PoliciesTyped
  <2>2. PICK token \in Tokens, body \in Bodies :
          Arrive(r, token, body, load) \/ Arrive(r, token, body, DefaultPolicy)
    BY <1>2 DEF ArriveAny
  <2>. QED BY <1>2, <2>1, <2>2, ArriveKeeps
<1>3. CASE Keyed /\ Observe
  <2>1. keys' \in [Keys -> KeyRows \cup {Absent}] /\ now' \in Nat
    BY <1>0, <1>3, KeysTyped DEF Keyed
  <2>. QED BY <1>0, <1>3, <2>1, Stands DEF Keyed, guardVars, reqVars
<1>4. ASSUME NEW update \in Patches, Patch(update), Observe PROVE IInv'
  <2>1. policy' \in Policies
    BY <1>0, <1>4, PoliciesTyped DEF Patch
  <2>2. keys' = keys /\ now' = now /\ rows' = rows /\ req' = req
    BY <1>4 DEF Patch, keyVars, reqVars
  <2>. QED BY <1>0, <1>4, <2>1, <2>2, Stands
<1>. QED BY <1>1, <1>2, <1>3, <1>4, NamespaceKeeps, ExactKeeps, NearKeeps, HandlerKeeps,
            UpstreamKeeps, StoreKeeps DEF Next

\* Through guardrails, namespace, look-ups, handler and write, a request's text,
\* caller, findings and answer stay what they are said to be, while keys, policy
\* and rows change under it (guardrails.rs, cache.rs, auth.rs, lib.rs).
THEOREM EdgeInvariance == Spec => []IInv
BY Starts, Keeps, PTL DEF Spec

\* Every state of the specification has the types the definitions expect.
THEOREM EdgeTypeCorrect == Spec => []TypeOK
<1>1. IInv => TypeOK
  BY DEF IInv
<1>. QED BY <1>1, EdgeInvariance, PTL

\* A request that is done has the record of one that is over.
LEMMA DoneIsOver ==
  ASSUME IInv, NEW r \in Requests, Done(r)
  PROVE  /\ req[r] \in Over /\ OverInv(req[r]) /\ req[r].pc = "idle"
         /\ LetIn(req[r]) => r \in admitted
<1>1. req[r] \in {Idle} \cup Over \cup OnItsWay /\ req[r].pc = "idle" /\ req[r].out # Nothing
  BY DEF IInv, TypeOK, Done, InFlight
<1>2. Idle.out = Nothing
  BY DEF Idle
<1>3. req[r] \in Over
  BY <1>1, <1>2, Shapes
<1>. QED BY <1>1, <1>3 DEF IInv, RequestInv

\* Whoever is given an answer, of the cache or of an upstream, could have been
\* let in at some moment since the request arrived.
THEOREM AnswersOnlyTheAdmitted == Spec => []ServedOnlyIfAdmitted
<1>1. IInv => ServedOnlyIfAdmitted
  <2> SUFFICES ASSUME IInv, NEW r \in Requests, GivenAnAnswer(r) PROVE r \in admitted
    BY DEF ServedOnlyIfAdmitted
  <2>. QED BY DoneIsOver DEF GivenAnAnswer, LetIn
<1>. QED BY <1>1, EdgeInvariance, PTL

\* A cached answer that is served was made for the same caller, verb, model and
\* prompt, or for a prompt near it.
THEOREM HitsAreAnswers == Spec => []HitsMatchTheirRequest
<1>1. IInv => HitsMatchTheirRequest
  <2> SUFFICES ASSUME IInv, NEW r \in Requests, Done(r), req[r].out.how \in {"hit", "near"}
               PROVE  Matches(req[r])
    BY DEF HitsMatchTheirRequest, Matches
  <2>. QED BY DoneIsOver DEF OverInv
<1>. QED BY <1>1, EdgeInvariance, PTL

\* A request is refused for what its text holds within the scan limit and a check
\* that blocks, however the text is cut into chunks, and then always.
THEOREM RefusalsHaveACause == Spec => []RefusedExactlyForCause
<1>1. IInv => RefusedExactlyForCause
  <2> SUFFICES ASSUME IInv, NEW r \in Requests, Done(r)
               PROVE  req[r].out.how = "refused" <=>
                        \E c \in Checks :
                          /\ req[r].policy.action[c] = "block"
                          /\ Offends(c, Scanned(Text(req[r].sent)), req[r].policy)
    BY DEF RefusedExactlyForCause
  <2>1. req[r] \in Over /\ OverInv(req[r])
    BY DoneIsOver
  <2>2. req[r].policy \in Policies
    BY <2>1 DEF Over
  <2>. QED BY <2>1, <2>2, BlocksForCause DEF OverInv, Findings
<1>. QED BY <1>1, EdgeInvariance, PTL

\* What a warning check sees in a request or in its answer shows in the header.
THEOREM WarningsShow == Spec => []WarningsReachTheClient
<1>1. IInv => WarningsReachTheClient
  <2> SUFFICES ASSUME IInv, NEW r \in Requests, Done(r), req[r].out.how # "refused",
                      NEW c \in Checks, NEW text \in ScannedTexts(r),
                      req[r].policy.action[c] = "warn", Offends(c, text, req[r].policy)
               PROVE  req[r].out.header # {}
    BY DEF WarningsReachTheClient
  <2> DEFINE q == req[r]
             p == q.policy
             asked == annotate(Findings(q), p)
  <2>1. q \in Over /\ OverInv(q)
    BY DoneIsOver
  <2>2. p \in Policies /\ q.out.answer \in Answers \cup {Own}
    BY <2>1 DEF Over
  <2>3. q.out.header = AnswerHeader(Findings(q), q.out.answer, p)
    BY <2>1 DEF OverInv
  <2>4. annotate(inspect(text, p), p) # {}
    BY <2>2, WarnsOf
  <2>5. CASE text = Scanned(Text(q.sent))
    <3>1. asked # {}
      BY <2>4, <2>5 DEF Findings
    <3>. QED BY <2>3, <3>1 DEF AnswerHeader
  <2>6. CASE /\ p.scan_response /\ ~q.out.answer.sse
             /\ text = Scanned(FlattenSeq(q.out.answer.body))
    <3>1. q.out.answer.body \in Seq(Seq(Vocabulary))
      <4>1. Own.body = <<>> /\ <<>> \in Seq(Seq(Vocabulary))
        BY EmptySeq DEF Own
      <4>2. \A a \in Answers : a.body \in Seq(Seq(Vocabulary))
        BY DEF Answers
      <4>. QED BY <2>2, <4>1, <4>2
    <3>2. read_prefix(q.out.answer.body).scanned = text
      BY <2>6, <3>1, ReadPrefix
    <3>. QED BY <2>3, <2>4, <2>6, <3>2 DEF AnswerHeader
  <2>. QED BY <2>5, <2>6 DEF ScannedTexts
<1>. QED BY <1>1, EdgeInvariance, PTL

=============================================================================
