----------------------------- MODULE FlattenProofs -----------------------------
(***************************************************************************)
(* Lemmas about what texts are put together from: induction over a set of  *)
(* numbers, and FlattenSeq, which is a recursive function, by its cases.   *)
(***************************************************************************)
EXTENDS Integers, FiniteSets, SequencesExt, SequenceTheorems, FiniteSetTheorems,
        WellFoundedInduction, TLAPS

-----------------------------------------------------------------------------
(* Induction.                                                              *)

LEMMA LeastNumber ==
  ASSUME NEW S, S \subseteq Nat, S # {}
  PROVE  \E n \in S : \A m \in S : n <= m
<1> DEFINE R == OpToRel(<, Nat)
<1>1. IsWellFoundedOn(R, Nat)
  BY NatLessThanWellFounded
<1>2. \A i, j \in Nat : <<i, j>> \in R <=> i < j
  BY DEF OpToRel
<1> HIDE DEF R
<1>3. PICK n \in S : \A m \in S : <<m, n>> \notin R
  BY <1>1, WFMin
<1>4. ASSUME NEW m \in S PROVE n <= m
  <2>1. m \in Nat /\ n \in Nat
    OBVIOUS
  <2>2. ~(m < n)
    BY <1>2, <1>3, <2>1
  <2>3. QED BY <2>1, <2>2
<1>5. QED BY <1>4

\* Up to a number, as it is needed for functions on a part of Nat.
LEMMA Induction ==
  ASSUME NEW S, NEW n \in Nat, 0 \in S, \A m \in 0 .. n - 1 : m \in S => m + 1 \in S
  PROVE  \A m \in 0 .. n : m \in S
<1> SUFFICES ASSUME NEW m \in 0 .. n, m \notin S PROVE FALSE
  OBVIOUS
<1> DEFINE Out == {k \in 0 .. n : k \notin S}
<1>1. Out \subseteq Nat /\ Out # {}
  OBVIOUS
<1>2. PICK k \in Out : \A j \in Out : k <= j
  BY <1>1, LeastNumber
<1>3. QED BY <1>2

\* All the smaller numbers at once.
LEMMA StrongInduction ==
  ASSUME NEW S, NEW n \in Nat,
         \A m \in 1 .. n : (\A k \in 1 .. m - 1 : k \in S) => m \in S
  PROVE  \A m \in 1 .. n : m \in S
<1> SUFFICES ASSUME NEW m \in 1 .. n, m \notin S PROVE FALSE
  OBVIOUS
<1> DEFINE Out == {k \in 1 .. n : k \notin S}
<1>1. Out \subseteq Nat /\ Out # {}
  OBVIOUS
<1>2. PICK k \in Out : \A j \in Out : k <= j
  BY <1>1, LeastNumber
<1>3. QED BY <1>2

-----------------------------------------------------------------------------
(* FlattenSeq.                                                             *)

\* What the definition of FlattenSeq says of its function.
Flattening(seqs, n, f) ==
  f = [i \in 1 .. n |-> IF i = 1 THEN seqs[i] ELSE f[i - 1] \o seqs[i]]

LEMMA FlatteningAt ==
  ASSUME NEW seqs, NEW n, NEW f, Flattening(seqs, n, f)
  PROVE  \A i \in 1 .. n : f[i] = IF i = 1 THEN seqs[i] ELSE f[i - 1] \o seqs[i]
<1> DEFINE g == [i \in 1 .. n |-> IF i = 1 THEN seqs[i] ELSE f[i - 1] \o seqs[i]]
<1>1. f = g
  BY DEF Flattening
<1>2. \A i \in 1 .. n :
        g[i] = IF i = 1 THEN seqs[i] ELSE f[i - 1] \o seqs[i]
  OBVIOUS
<1> HIDE DEF g
<1>3. QED BY <1>1, <1>2

LEMMA FlatteningExists ==
  ASSUME NEW seqs, NEW n \in Nat
  PROVE  \E f : Flattening(seqs, n, f)
<1> DEFINE S == {m \in Nat : \E f : Flattening(seqs, m, f)}
<1>1. 0 \in S
  <2>1. Flattening(seqs, 0, [i \in 1 .. 0 |-> seqs])
    BY DEF Flattening
  <2>2. QED BY <2>1
<1>2. ASSUME NEW m \in Nat, m \in S PROVE m + 1 \in S
  <2>1. PICK f : Flattening(seqs, m, f)
    BY <1>2
  <2> DEFINE g == [i \in 1 .. m + 1 |->
                     IF i = 1 THEN seqs[i]
                     ELSE IF i = m + 1 THEN f[m] \o seqs[i] ELSE f[i]]
  <2>2. \A i \in 1 .. m : f[i] = IF i = 1 THEN seqs[i] ELSE f[i - 1] \o seqs[i]
    BY <2>1, FlatteningAt
  <2>3. \A i \in 1 .. m : g[i] = f[i]
    BY <2>2
  <2>4. \A i \in 1 .. m + 1 :
          g[i] = IF i = 1 THEN seqs[i] ELSE g[i - 1] \o seqs[i]
    <3> TAKE i \in 1 .. m + 1
    <3>1. CASE i = 1
      BY <3>1
    <3>2. CASE i # 1 /\ i = m + 1
      <4>0. i - 1 = m /\ m \in 1 .. m
        BY <3>2
      <4>1. g[i] = f[m] \o seqs[i] /\ i - 1 = m /\ m \in 1 .. m
        BY <3>2, <4>0
      <4>2. g[m] = f[m]
        BY <4>1, <2>3
      <4> HIDE DEF g
      <4>3. QED BY <3>2, <4>1, <4>2
    <3>3. CASE i # 1 /\ i # m + 1
      <4>1. i \in 1 .. m /\ i - 1 \in 1 .. m
        BY <3>3
      <4>2. g[i] = f[i] /\ g[i - 1] = f[i - 1]
        BY <4>1, <2>3
      <4> HIDE DEF g
      <4>3. QED BY <3>3, <4>1, <4>2, <2>2
    <3>4. QED BY <3>1, <3>2, <3>3
  <2>5. g = [i \in 1 .. m + 1 |-> g[i]]
    OBVIOUS
  <2> HIDE DEF g
  <2>6. Flattening(seqs, m + 1, g)
    BY <2>4, <2>5 DEF Flattening
  <2>7. QED BY <2>6
<1> HIDE DEF S
<1>3. n \in S
  BY <1>1, <1>2, Induction
<1>4. QED BY <1>3 DEF S

LEMMA FlattenIs ==
  ASSUME NEW seqs, Len(seqs) \in Nat \ {0}
  PROVE  \E f : /\ Flattening(seqs, Len(seqs), f)
                /\ FlattenSeq(seqs) = f[Len(seqs)]
<1> DEFINE flatten[i \in 1 .. Len(seqs)] ==
             IF i = 1 THEN seqs[i] ELSE flatten[i - 1] \o seqs[i]
<1>1. FlattenSeq(seqs) = flatten[Len(seqs)]
  BY DEF FlattenSeq
<1>2. \E f : f = [i \in 1 .. Len(seqs) |->
                    IF i = 1 THEN seqs[i] ELSE f[i - 1] \o seqs[i]]
  <2>1. PICK f : Flattening(seqs, Len(seqs), f)
    BY FlatteningExists
  <2>2. QED BY <2>1 DEF Flattening
<1>3. flatten = [i \in 1 .. Len(seqs) |->
                   IF i = 1 THEN seqs[i] ELSE flatten[i - 1] \o seqs[i]]
  BY <1>2
<1> HIDE DEF flatten
<1>4. QED BY <1>1, <1>3 DEF Flattening

\* Its value is the same for as long as the sequences are.
LEMMA FlatteningAgrees ==
  ASSUME NEW s, NEW t, NEW n \in Nat, NEW m \in Nat, NEW f, NEW g,
         Flattening(s, n, f), Flattening(t, m, g), n <= m,
         \A i \in 1 .. n : s[i] = t[i]
  PROVE  \A i \in 1 .. n : f[i] = g[i]
<1> DEFINE S == {i \in Nat : i \in 1 .. n => f[i] = g[i]}
<1>1. 0 \in S
  OBVIOUS
<1>2. ASSUME NEW i \in 0 .. n - 1, i \in S PROVE i + 1 \in S
  <2>0. i + 1 \in 1 .. n /\ i + 1 \in 1 .. m
    OBVIOUS
  <2>1. f[i + 1] = IF i + 1 = 1 THEN s[i + 1] ELSE f[i + 1 - 1] \o s[i + 1]
    BY <2>0, FlatteningAt
  <2>2. g[i + 1] = IF i + 1 = 1 THEN t[i + 1] ELSE g[i + 1 - 1] \o t[i + 1]
    BY <2>0, FlatteningAt
  <2>3. s[i + 1] = t[i + 1]
    OBVIOUS
  <2>4. CASE i = 0
    BY <2>1, <2>2, <2>3, <2>4
  <2>5. CASE i # 0
    <3>1. i \in 1 .. n /\ i + 1 - 1 = i
      BY <2>5
    <3>2. f[i] = g[i]
      BY <3>1, <1>2
    <3>3. QED BY <2>1, <2>2, <2>3, <2>5, <3>1, <3>2
  <2>6. QED BY <2>4, <2>5
<1> HIDE DEF S
<1>3. \A i \in 0 .. n : i \in S
  BY <1>1, <1>2, Induction
<1>4. QED BY <1>3 DEF S

LEMMA FlattenEmpty == FlattenSeq(<<>>) = <<>>
BY DEF FlattenSeq

LEMMA FlattenOne ==
  ASSUME NEW x
  PROVE  FlattenSeq(<<x>>) = x
<1>1. Len(<<x>>) = 1 /\ <<x>>[1] = x
  OBVIOUS
<1>2. PICK f : Flattening(<<x>>, 1, f) /\ FlattenSeq(<<x>>) = f[1]
  <2>1. Len(<<x>>) \in Nat \ {0}
    BY <1>1
  <2>2. \E f : /\ Flattening(<<x>>, Len(<<x>>), f)
               /\ FlattenSeq(<<x>>) = f[Len(<<x>>)]
    BY <2>1, FlattenIs
  <2>3. QED BY <1>1, <2>2
<1>3. \A i \in 1 .. 1 : f[i] = IF i = 1 THEN <<x>>[i] ELSE f[i - 1] \o <<x>>[i]
  BY <1>2, FlatteningAt
<1>4. QED BY <1>1, <1>2, <1>3

LEMMA FlattenLonger ==
  ASSUME NEW s, NEW t, NEW n \in Nat, NEW k \in Nat, n # 0, k = n + 1,
         Len(s) = n, Len(t) = k, \A i \in 1 .. n : s[i] = t[i]
  PROVE  FlattenSeq(t) = FlattenSeq(s) \o t[k]
<1>1. PICK f : Flattening(s, n, f) /\ FlattenSeq(s) = f[n]
  BY FlattenIs
<1>2. PICK g : Flattening(t, k, g) /\ FlattenSeq(t) = g[k]
  BY FlattenIs
<1>3. f[n] = g[n]
  <2>1. n <= k /\ Flattening(s, n, f) /\ Flattening(t, k, g)
    BY <1>1, <1>2
  <2>2. \A i \in 1 .. n : f[i] = g[i]
    <3>1. \A i \in 1 .. n : s[i] = t[i]
      OBVIOUS
    <3>2. QED BY <2>1, <3>1, FlatteningAgrees, Z3
  <2>3. QED BY <2>2
<1>4. g[k] = g[n] \o t[k]
  <2>1. \A i \in 1 .. k : g[i] = IF i = 1 THEN t[i] ELSE g[i - 1] \o t[i]
    BY <1>2, FlatteningAt
  <2>2. k \in 1 .. k /\ k # 1 /\ k - 1 = n
    OBVIOUS
  <2>3. g[k] = g[k - 1] \o t[k]
    BY <2>1, <2>2
  <2>4. QED BY <2>2, <2>3
<1>5. QED BY <1>1, <1>2, <1>3, <1>4

LEMMA FlattenAppend ==
  ASSUME NEW S, NEW s \in Seq(Seq(S)), NEW x \in Seq(S)
  PROVE  FlattenSeq(Append(s, x)) = FlattenSeq(s) \o x
<1> DEFINE n == Len(s)
           t == Append(s, x)
<1>1. n \in Nat /\ Len(t) = n + 1 /\ t[n + 1] = x /\ \A i \in 1 .. n : t[i] = s[i]
  BY LenProperties, AppendProperties
<1>2. CASE s = <<>>
  BY <1>2, FlattenEmpty, FlattenOne, ConcatEmptySeq
<1>3. CASE s # <<>>
  <2>1. n # 0
    BY <1>3, EmptySeq
  <2>2. Len(s) = n /\ n + 1 \in Nat
    BY <1>1
  <2> HIDE DEF n, t
  <2>3. FlattenSeq(t) = FlattenSeq(s) \o t[n + 1]
    BY <1>1, <2>1, <2>2, FlattenLonger
  <2>4. QED BY <1>1, <2>3 DEF t
<1>4. QED BY <1>2, <1>3

LEMMA FlattenType ==
  ASSUME NEW S, NEW s \in Seq(Seq(S))
  PROVE  FlattenSeq(s) \in Seq(S)
<1> DEFINE Good == {n \in Nat : \A r \in Seq(Seq(S)) :
                      Len(r) = n => FlattenSeq(r) \in Seq(S)}
<1>1. 0 \in Good
  <2>1. \A r \in Seq(Seq(S)) : Len(r) = 0 => r = <<>>
    BY EmptySeq
  <2>2. QED BY <2>1, FlattenEmpty, EmptySeq
<1>2. ASSUME NEW n \in Nat, n \in Good PROVE n + 1 \in Good
  <2> SUFFICES ASSUME NEW r \in Seq(Seq(S)), Len(r) = n + 1
               PROVE  FlattenSeq(r) \in Seq(S)
    OBVIOUS
  <2>0. r # <<>>
    OBVIOUS
  <2>1. PICK q \in Seq(Seq(S)), x \in Seq(S) : r = Append(q, x)
    BY <2>0, SequenceEmptyOrAppend
  <2>2. Len(q) = n
    BY <2>1, AppendProperties, LenProperties
  <2>3. FlattenSeq(q) \in Seq(S)
    BY <1>2, <2>2
  <2>4. QED BY <2>1, <2>3, FlattenAppend, ConcatProperties
<1>3. Len(s) \in Nat
  BY LenProperties
<1> HIDE DEF Good
<1>4. ASSUME NEW l \in Nat PROVE l \in Good
  <2>1. \A m \in 0 .. l - 1 : m \in Good => m + 1 \in Good
    BY <1>2
  <2>2. \A m \in 0 .. l : m \in Good
    BY <1>1, <2>1, Induction
  <2>3. QED BY <2>2
<1>5. Len(s) \in Good
  BY <1>3, <1>4
<1>6. QED BY <1>5 DEF Good

LEMMA FlattenConcat ==
  ASSUME NEW S, NEW s \in Seq(Seq(S)), NEW t \in Seq(Seq(S))
  PROVE  FlattenSeq(s \o t) = FlattenSeq(s) \o FlattenSeq(t)
<1> DEFINE Good == {n \in Nat : \A r \in Seq(Seq(S)) :
                      Len(r) = n =>
                        FlattenSeq(s \o r) = FlattenSeq(s) \o FlattenSeq(r)}
<1>1. 0 \in Good
  <2>1. \A r \in Seq(Seq(S)) : Len(r) = 0 => r = <<>>
    BY EmptySeq
  <2>2. s \o <<>> = s /\ FlattenSeq(s) \o <<>> = FlattenSeq(s)
    BY ConcatEmptySeq, FlattenType
  <2>3. QED BY <2>1, <2>2, FlattenEmpty
<1>2. ASSUME NEW n \in Nat, n \in Good PROVE n + 1 \in Good
  <2> SUFFICES ASSUME NEW r \in Seq(Seq(S)), Len(r) = n + 1
               PROVE  FlattenSeq(s \o r) = FlattenSeq(s) \o FlattenSeq(r)
    OBVIOUS
  <2>0. r # <<>>
    OBVIOUS
  <2>1. PICK q \in Seq(Seq(S)), x \in Seq(S) : r = Append(q, x)
    BY <2>0, SequenceEmptyOrAppend
  <2>2. Len(q) = n
    BY <2>1, AppendProperties, LenProperties
  <2>3. FlattenSeq(s \o q) = FlattenSeq(s) \o FlattenSeq(q)
    BY <1>2, <2>2
  <2>4. s \o r = Append(s \o q, x) /\ s \o q \in Seq(Seq(S))
    <3>1. r = q \o <<x>> /\ s \o q \in Seq(Seq(S)) /\ <<x>> \in Seq(Seq(S))
      BY <2>1, AppendIsConcat, ConcatProperties
    <3>2. s \o r = (s \o q) \o <<x>>
      BY <3>1, ConcatAssociative
    <3>3. QED BY <3>1, <3>2, AppendIsConcat
  <2>5. FlattenSeq(s \o r) = (FlattenSeq(s) \o FlattenSeq(q)) \o x
    BY <2>3, <2>4, FlattenAppend
  <2>6. FlattenSeq(r) = FlattenSeq(q) \o x
    BY <2>1, FlattenAppend
  <2>7. FlattenSeq(s) \in Seq(S) /\ FlattenSeq(q) \in Seq(S)
    BY FlattenType
  <2>8. (FlattenSeq(s) \o FlattenSeq(q)) \o x
          = FlattenSeq(s) \o (FlattenSeq(q) \o x)
    BY <2>7, ConcatAssociative
  <2>9. QED BY <2>5, <2>6, <2>8
<1>3. Len(t) \in Nat
  BY LenProperties
<1> HIDE DEF Good
<1>4. ASSUME NEW l \in Nat PROVE l \in Good
  <2>1. \A m \in 0 .. l - 1 : m \in Good => m + 1 \in Good
    BY <1>2
  <2>2. \A m \in 0 .. l : m \in Good
    BY <1>1, <2>1, Induction
  <2>3. QED BY <2>2
<1>5. Len(t) \in Good
  BY <1>3, <1>4
<1>6. QED BY <1>5 DEF Good

LEMMA SubSeqConcat ==
  ASSUME NEW S, NEW text \in Seq(S), NEW x \in Nat, NEW y \in Nat, NEW z \in Nat,
         x <= y, y <= z, z <= Len(text)
  PROVE  SubSeq(text, x + 1, y) \o SubSeq(text, y + 1, z) = SubSeq(text, x + 1, z)
<1>1. Len(text) \in Nat
  BY LenProperties
<1>2. x + 1 \in 1 .. Len(text) + 1 /\ y \in x + 1 - 1 .. Len(text) /\ z \in y .. Len(text)
  BY <1>1
<1>3. QED BY <1>2, ConcatAdjacentSubSeq

\* What is cut out of a text piece by piece is the part of it between the first
\* and the last of the cuts.
LEMMA FlattenPieces ==
  ASSUME NEW S, NEW text \in Seq(S), NEW n \in Nat, NEW cut,
         \A i \in 0 .. n : cut[i] \in 0 .. Len(text),
         \A i \in 1 .. n : cut[i - 1] <= cut[i]
  PROVE  /\ cut[0] <= cut[n]
         /\ FlattenSeq([i \in 1 .. n |-> SubSeq(text, cut[i - 1] + 1, cut[i])])
              = SubSeq(text, cut[0] + 1, cut[n])
<1> DEFINE piece(i) == SubSeq(text, cut[i - 1] + 1, cut[i])
           pieces(m) == [i \in 1 .. m |-> piece(i)]
           Good == {m \in 0 .. n :
                      /\ cut[0] <= cut[m]
                      /\ FlattenSeq(pieces(m)) = SubSeq(text, cut[0] + 1, cut[m])}
<1>1. Len(text) \in Nat
  BY LenProperties
<1>2. \A i \in 0 .. n : cut[i] \in Nat /\ cut[i] <= Len(text)
  BY <1>1
<1>3. 0 \in Good
  <2>1. pieces(0) = <<>> /\ cut[0] \in Nat /\ 0 \in 0 .. n
    BY <1>2
  <2>2. SubSeq(text, cut[0] + 1, cut[0]) = <<>>
    BY <2>1, SubSeqEmpty
  <2>3. FlattenSeq(pieces(0)) = <<>>
    BY <2>1, FlattenEmpty
  <2> HIDE DEF pieces
  <2>4. FlattenSeq(pieces(0)) = SubSeq(text, cut[0] + 1, cut[0])
    BY <2>2, <2>3
  <2>5. cut[0] <= cut[0]
    BY <2>1
  <2>6. QED BY <2>1, <2>4, <2>5
<1>4. ASSUME NEW m \in 0 .. n - 1, m \in Good PROVE m + 1 \in Good
  <2> DEFINE k == m + 1
  <2>0. k \in 1 .. n /\ k - 1 = m /\ m \in 0 .. n /\ k \in 0 .. n /\ k = m + 1
    OBVIOUS
  <2> HIDE DEF k
  <2>1. cut[0] \in Nat /\ cut[m] \in Nat /\ cut[k] \in Nat /\ cut[m] <= cut[k]
        /\ cut[0] <= cut[m] /\ cut[k] <= Len(text)
    BY <1>2, <1>4, <2>0
  <2>2. FlattenSeq(pieces(m)) = SubSeq(text, cut[0] + 1, cut[m])
    BY <1>4
  <2>3. piece(k) = SubSeq(text, cut[m] + 1, cut[k])
    BY <2>0
  <2>4. SubSeq(text, cut[0] + 1, cut[m]) \o SubSeq(text, cut[m] + 1, cut[k])
          = SubSeq(text, cut[0] + 1, cut[k])
    <3>1. PICK x \in Nat, y \in Nat, z \in Nat :
            /\ x = cut[0] /\ y = cut[m] /\ z = cut[k]
            /\ x <= y /\ y <= z /\ z <= Len(text)
      BY <2>1
    <3>2. SubSeq(text, x + 1, y) \o SubSeq(text, y + 1, z) = SubSeq(text, x + 1, z)
      <4>1. x \in Nat /\ y \in Nat /\ z \in Nat /\ x <= y /\ y <= z /\ z <= Len(text)
        BY <3>1
      <4>2. QED BY <4>1, SubSeqConcat
    <3>3. QED BY <3>1, <3>2
  <2>5. FlattenSeq(pieces(k)) = FlattenSeq(pieces(m)) \o piece(k)
    <3>1. CASE m = 0
      <4>1. pieces(m) = <<>> /\ pieces(k) = <<piece(k)>>
        BY <2>0, <3>1
      <4>2. cut[m] + 1 \in Int /\ cut[k] \in Int
            /\ \A i \in cut[m] + 1 .. cut[k] : text[i] \in S
        BY <1>1, <2>1
      <4>3. piece(k) \in Seq(S)
        BY <2>3, <4>2, SubSeqProperties
      <4>4. <<>> \o piece(k) = piece(k)
        BY <4>3, ConcatEmptySeq
      <4> HIDE DEF pieces, piece
      <4>5. QED BY <4>1, <4>4, FlattenEmpty, FlattenOne
    <3>2. CASE m # 0
      <4>1. /\ Len(pieces(m)) = m /\ Len(pieces(k)) = k
            /\ \A i \in 1 .. m : pieces(m)[i] = pieces(k)[i]
            /\ pieces(k)[k] = piece(k)
        <5>1. m \in Nat /\ k \in Nat
          BY <2>0
        <5>2. Len(pieces(m)) = m /\ Len(pieces(k)) = k
          BY <5>1
        <5>3. \A i \in 1 .. m : i \in 1 .. k
          BY <2>0, <5>1
        <5>4. \A i \in 1 .. m : pieces(m)[i] = piece(i)
          OBVIOUS
        <5>5. \A i \in 1 .. k : pieces(k)[i] = piece(i)
          OBVIOUS
        <5>6. k \in 1 .. k
          BY <2>0, <5>1
        <5> HIDE DEF pieces, piece
        <5>7. QED BY <5>2, <5>3, <5>4, <5>5, <5>6
      <4>2. m \in Nat /\ k \in Nat
        BY <2>0
      <4> HIDE DEF pieces, piece
      <4>3. FlattenSeq(pieces(k)) = FlattenSeq(pieces(m)) \o pieces(k)[k]
        BY <2>0, <3>2, <4>1, <4>2, FlattenLonger
      <4>4. QED BY <4>1, <4>3
    <3>3. QED BY <3>1, <3>2
  <2> HIDE DEF pieces, piece
  <2>6. FlattenSeq(pieces(k)) = SubSeq(text, cut[0] + 1, cut[k])
    BY <2>2, <2>3, <2>4, <2>5
  <2>7. k \in Good
    BY <2>0, <2>1, <2>6
  <2>8. QED BY <2>0, <2>7
<1> HIDE DEF Good
<1>5. \A m \in 0 .. n : m \in Good
  BY <1>3, <1>4, Induction
<1>6. n \in Good
  BY <1>5
<1>7. QED BY <1>6 DEF Good

LEMMA FlattenMore ==
  ASSUME NEW S, NEW q \in Seq(Seq(S)), NEW y \in Seq(S), NEW x \in Seq(S)
  PROVE  FlattenSeq(Append(q, y \o x)) = FlattenSeq(Append(q, y)) \o x
<1>1. y \o x \in Seq(S) /\ FlattenSeq(q) \in Seq(S)
  BY ConcatProperties, FlattenType
<1>2. /\ FlattenSeq(Append(q, y \o x)) = FlattenSeq(q) \o (y \o x)
      /\ FlattenSeq(Append(q, y)) = FlattenSeq(q) \o y
  BY <1>1, FlattenAppend
<1>3. (FlattenSeq(q) \o y) \o x = FlattenSeq(q) \o (y \o x)
  BY <1>1, ConcatAssociative
<1>4. QED BY <1>2, <1>3

\* The sequences differ in that x comes after the last of them.
Longer(s, t, x) ==
  /\ s # <<>> /\ Len(t) = Len(s)
  /\ \A i \in 1 .. Len(s) - 1 : t[i] = s[i]
  /\ t[Len(s)] = s[Len(s)] \o x

\* It comes at the end of the whole.
LEMMA FlattenLast ==
  ASSUME NEW S, NEW s \in Seq(Seq(S)), NEW t \in Seq(Seq(S)), NEW x \in Seq(S),
         Longer(s, t, x)
  PROVE  FlattenSeq(t) = FlattenSeq(s) \o x
<1>0. /\ s # <<>> /\ Len(t) = Len(s)
      /\ \A i \in 1 .. Len(s) - 1 : t[i] = s[i]
      /\ t[Len(s)] = s[Len(s)] \o x
  BY DEF Longer
<1>1. PICK q \in Seq(Seq(S)), y \in Seq(S) : s = Append(q, y)
  BY <1>0, SequenceEmptyOrAppend
<1>2. /\ Len(q) \in Nat /\ Len(s) = Len(q) + 1 /\ s[Len(q) + 1] = y
      /\ \A i \in 1 .. Len(q) : s[i] = q[i]
  BY <1>1, AppendProperties, LenProperties
<1>3. y \o x \in Seq(S)
  BY ConcatProperties
<1>4. t = Append(q, y \o x)
  <2>1. /\ Append(q, y \o x) \in Seq(Seq(S)) /\ Len(Append(q, y \o x)) = Len(q) + 1
        /\ \A i \in 1 .. Len(q) : Append(q, y \o x)[i] = q[i]
        /\ Append(q, y \o x)[Len(q) + 1] = y \o x
    BY <1>3, AppendProperties
  <2>2. ASSUME NEW i \in 1 .. Len(t) PROVE t[i] = Append(q, y \o x)[i]
    <3>1. i \in 1 .. Len(q) \/ i = Len(q) + 1
      BY <1>0, <1>2
    <3>2. CASE i \in 1 .. Len(q)
      <4>1. i \in 1 .. Len(s) - 1
        BY <1>2, <3>2
      <4>2. QED BY <1>0, <1>2, <2>1, <3>2, <4>1
    <3>3. CASE i = Len(q) + 1
      BY <1>0, <1>2, <2>1, <3>3
    <3>4. QED BY <3>1, <3>2, <3>3
  <2>3. Len(t) = Len(q) + 1
    BY <1>0, <1>2
  <2>4. QED BY <2>1, <2>2, <2>3, SeqEqual
<1>5. FlattenSeq(Append(q, y \o x)) = FlattenSeq(Append(q, y)) \o x
  BY FlattenMore
<1>6. QED BY <1>1, <1>4, <1>5

LEMMA SubSeqType ==
  ASSUME NEW S, NEW text \in Seq(S), NEW x \in Nat, NEW y \in Nat, x <= y,
         y <= Len(text)
  PROVE  SubSeq(text, x + 1, y) \in Seq(S) /\ Len(SubSeq(text, x + 1, y)) = y - x
<1>1. \A i \in x + 1 .. y : text[i] \in S
  <2>1. \A i \in x + 1 .. y : i \in 1 .. Len(text)
    BY LenProperties
  <2>2. QED BY <2>1, ElementOfSeq
<1>2. x + 1 \in Int /\ y \in Int
  OBVIOUS
<1>3. SubSeq(text, x + 1, y) \in Seq(S)
      /\ Len(SubSeq(text, x + 1, y)) = IF x + 1 <= y THEN y - (x + 1) + 1 ELSE 0
  BY <1>1, <1>2, SubSeqProperties
<1>4. QED BY <1>3

\* A part of two texts, where the second begins in it or after it.
LEMMA SubSeqBefore ==
  ASSUME NEW S, NEW s \in Seq(S), NEW t \in Seq(S), NEW x \in Nat, NEW y \in Nat,
         x <= y, y <= Len(s)
  PROVE  SubSeq(s \o t, x + 1, y) = SubSeq(s, x + 1, y)
<1>1. Len(s) \in Nat /\ Len(t) \in Nat
  BY LenProperties
<1>2. CASE x = y
  <2>1. x + 1 \in Int /\ y \in Int /\ y < x + 1
    BY <1>2
  <2>2. QED BY <2>1, SubSeqEmpty
<1>3. CASE x # y
  <2>1. x + 1 \in 1 .. Len(s) /\ y \in 1 .. Len(s)
    BY <1>1, <1>3
  <2>2. QED BY <2>1, SubSeqOfConcat1
<1>4. QED BY <1>2, <1>3

LEMMA SubSeqFrom ==
  ASSUME NEW S, NEW s \in Seq(S), NEW t \in Seq(S), NEW x \in Nat, x <= Len(s)
  PROVE  SubSeq(s \o t, x + 1, Len(s) + Len(t)) = SubSeq(s, x + 1, Len(s)) \o t
<1>1. Len(s) \in Nat /\ Len(t) \in Nat
  BY LenProperties
<1> DEFINE u == s \o t
           n == Len(s)
           m == Len(t)
           l == n + m
<1>2. u \in Seq(S) /\ Len(u) = l /\ n <= l /\ l \in Nat /\ n \in Nat /\ m \in Nat /\ l = n + m
  BY <1>1, ConcatProperties
<1>3. \A i \in 1 .. l : u[i] = IF i <= n THEN s[i] ELSE t[i - n]
  BY ConcatProperties
<1>4. x <= n /\ t \in Seq(S) /\ s \in Seq(S) /\ Len(t) = m /\ Len(s) = n
  OBVIOUS
<1> HIDE DEF u, n, m, l
<1>5. SubSeq(u, x + 1, n) \o SubSeq(u, n + 1, l) = SubSeq(u, x + 1, l)
  BY <1>2, <1>4, SubSeqConcat
<1>6. SubSeq(u, x + 1, n) = SubSeq(s, x + 1, n)
  <2>1. n <= Len(s)
    BY <1>2, <1>4
  <2>2. QED BY <1>2, <1>4, <2>1, SubSeqBefore DEF u
<1>7. SubSeq(u, n + 1, l) = t
  <2>1. n + 1 \in Int /\ l \in Int /\ \A i \in n + 1 .. l : u[i] \in S
    <3>1. \A i \in n + 1 .. l : i \in 1 .. Len(u)
      BY <1>2
    <3>2. QED BY <1>2, <3>1, ElementOfSeq
  <2>2. /\ SubSeq(u, n + 1, l) \in Seq(S)
        /\ Len(SubSeq(u, n + 1, l)) = IF n + 1 <= l THEN l - (n + 1) + 1 ELSE 0
        /\ \A i \in 1 .. l - (n + 1) + 1 : SubSeq(u, n + 1, l)[i] = u[n + 1 + i - 1]
    BY <2>1, SubSeqProperties
  <2>3. Len(SubSeq(u, n + 1, l)) = m
    BY <1>2, <2>2
  <2>4. \A i \in 1 .. m : SubSeq(u, n + 1, l)[i] = t[i]
    <3> TAKE i \in 1 .. m
    <3>1. i \in 1 .. l - (n + 1) + 1 /\ n + 1 + i - 1 = n + i /\ n + i \in 1 .. l
          /\ ~(n + i <= n) /\ n + i - n = i
      BY <1>2
    <3>2. SubSeq(u, n + 1, l)[i] = u[n + i]
      BY <2>2, <3>1
    <3>3. u[n + i] = t[n + i - n]
      <4>1. PICK k \in 1 .. l : k = n + i /\ ~(k <= n)
        BY <3>1
      <4>2. u[k] = t[k - n]
        BY <1>3, <4>1
      <4>3. QED BY <1>2, <4>1, <4>2
    <3>4. QED BY <3>1, <3>2, <3>3
  <2>5. QED BY <1>4, <2>2, <2>3, <2>4, SeqEqual
<1>8. SubSeq(u, x + 1, l) = SubSeq(s, x + 1, n) \o t
  BY <1>5, <1>6, <1>7
<1>9. QED BY <1>8 DEF u, l, n, m

LEMMA DivisionBelow ==
  ASSUME NEW a \in Nat, NEW b \in Nat, b > 0
  PROVE  a \div b \in Nat /\ a < b * (a \div b) + b
<1>1. a \div b \in Nat
  OBVIOUS
<1>2. a % b \in 0 .. b - 1
  OBVIOUS
<1>3. a = b * (a \div b) + (a % b)
  OBVIOUS
<1>4. QED BY <1>1, <1>2, <1>3

LEMMA TimesMonotone ==
  ASSUME NEW a \in Nat, NEW b \in Nat, NEW c \in Nat, a <= b
  PROVE  a * c <= b * c /\ a * c \in Nat /\ b * c \in Nat
<1>1. PICK k \in Nat : b = a + k
  <2>1. b - a \in Nat /\ b = a + (b - a)
    OBVIOUS
  <2>2. QED BY <2>1
<1>2. b * c = a * c + k * c /\ k * c \in Nat /\ a * c \in Nat
  BY <1>1
<1>3. QED BY <1>2

=============================================================================
