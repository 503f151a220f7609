--------------------------- MODULE EndpointsProofs ---------------------------
(***************************************************************************)
(* Theorems about Codec and Endpoints, from one inductive invariant.       *)
(*                                                                         *)
(* Of the codec it says that a text is data and then whole links, that a   *)
(* block links only blocks saved before it, and that only the last link of *)
(* a text may lead to a block that has links itself: this is why a queue   *)
(* of hashes gives the data in their order. What the root block, or what   *)
(* has been read and the queue, stand for is then always the data.         *)
(*                                                                         *)
(* Of the requests it says that the tasks are trees that follow the links, *)
(* that the hash is told, and the decoding begins, only when nothing runs  *)
(* in the whole tree, and how the state of a task goes with the blocks     *)
(* that the peer and the DHT have.                                         *)
(***************************************************************************)
EXTENDS Endpoints, FlattenProofs

W == HashLength + 1

Digits == {0} \X Nat
Chars  == Nat \X Nat
Hashes == Nat \ {0}

LEMMA Sizes ==
  /\ SIZE \in Nat /\ SIZE > 0 /\ MAX_NUM_LINKS \in Nat /\ MAX_NUM_LINKS > 0
  /\ HashLength \in Nat /\ HashLength > 0 /\ W \in Nat /\ W = HashLength + 1
  /\ MAX_NUM_LINKS * W <= SIZE /\ W < SIZE /\ None \notin Nat
BY CodecAssumption DEF W

-----------------------------------------------------------------------------
(* The text of a block.                                                    *)

LEMMA LinkTextIs ==
  ASSUME NEW h \in Hashes
  PROVE  /\ LinkText(h) \in Seq(Chars) /\ Len(LinkText(h)) = W
         /\ \A j \in 1 .. W : LinkText(h)[j] = <<h, j - 1>>
<1>1. \A j \in 1 .. W : <<h, j - 1>> \in Chars
  BY Sizes DEF Hashes, Chars
<1>2. LinkText(h) = [j \in 1 .. W |-> <<h, j - 1>>]
  BY DEF LinkText, W
<1>3. QED BY <1>1, <1>2, Sizes

LEMMA DataIsText ==
  ASSUME NEW d \in Seq(Digits)
  PROVE  d \in Seq(Chars)
<1>1. Digits \subseteq Chars
  BY DEF Digits, Chars
<1>2. QED BY <1>1, SeqMonotonic

\* What a text shows of its data and its links.
Shape(t, d, hs) ==
  /\ t \in Seq(Chars)
  /\ IsFiniteSet(Newlines(t)) /\ Cardinality(Newlines(t)) = Len(hs)
  /\ \A p \in Newlines(t) : p > Len(d)
  /\ hs # <<>> => Len(d) + 1 \in Newlines(t)
  /\ hs = <<>> => Len(t) = Len(d)
  /\ Len(d) <= Len(t) /\ \A i \in 1 .. Len(d) : t[i] = d[i]
  /\ \E place \in [1 .. Len(hs) -> Newlines(t)] : \A i \in 1 .. Len(hs) :
       /\ Cardinality({q \in Newlines(t) : q <= place[i]}) = i
       /\ HashAfter(t, place[i]) = hs[i]

LEMMA ShapeOfData ==
  ASSUME NEW d \in Seq(Digits)
  PROVE  Shape(d, d, <<>>)
<1>1. d \in Seq(Chars) /\ Len(d) \in Nat /\ DOMAIN d = 1 .. Len(d)
  <2>1. Digits \subseteq Chars
    BY DEF Digits, Chars
  <2>2. QED BY <2>1, SeqMonotonic, LenProperties
<1>2. \A p \in 1 .. Len(d) : d[p][1] = 0
  BY ElementOfSeq DEF Digits
<1>3. Newlines(d) = {}
  BY <1>1, <1>2 DEF Newlines, IsNewline
<1>4. IsFiniteSet({}) /\ Cardinality({}) = 0
  BY FS_EmptySet
<1>5. Len(<<>>) = 0 /\ 1 .. 0 = {}
  BY EmptySeq
<1>6. \E place \in [1 .. Len(<<>>) -> Newlines(d)] : \A i \in 1 .. Len(<<>>) :
        /\ Cardinality({q \in Newlines(d) : q <= place[i]}) = i
        /\ HashAfter(d, place[i]) = <<>>[i]
  <2>1. [i \in 1 .. 0 |-> i] \in [1 .. 0 -> {}]
    OBVIOUS
  <2>2. 1 .. Len(<<>>) = {}
    BY <1>5
  <2>3. \A place : \A i \in 1 .. Len(<<>>) :
          /\ Cardinality({q \in Newlines(d) : q <= place[i]}) = i
          /\ HashAfter(d, place[i]) = <<>>[i]
    BY <2>2
  <2>4. QED BY <1>3, <1>5, <2>1, <2>3
<1>7. IsFiniteSet(Newlines(d)) /\ Cardinality(Newlines(d)) = Len(<<>>)
  BY <1>3, <1>4, <1>5
<1>8. \A p \in Newlines(d) : p > Len(d)
  BY <1>3
<1>9. Len(d) <= Len(d)
  BY <1>1
<1>10. QED BY <1>1, <1>6, <1>7, <1>8, <1>9 DEF Shape

LEMMA NewlinesGrow ==
  ASSUME NEW t \in Seq(Chars), NEW h \in Hashes
  PROVE  /\ t \o LinkText(h) \in Seq(Chars)
         /\ Len(t) \in Nat
         /\ Len(t \o LinkText(h)) = Len(t) + W
         /\ \A p \in 1 .. Len(t) : (t \o LinkText(h))[p] = t[p]
         /\ \A j \in 1 .. W : (t \o LinkText(h))[Len(t) + j] = <<h, j - 1>>
         /\ Newlines(t) \subseteq 1 .. Len(t)
         /\ Newlines(t \o LinkText(h)) = Newlines(t) \cup {Len(t) + 1}
<1> DEFINE u == t \o LinkText(h)
<1>1. /\ u \in Seq(Chars) /\ Len(t) \in Nat /\ Len(u) = Len(t) + W
      /\ DOMAIN t = 1 .. Len(t) /\ DOMAIN u = 1 .. Len(u)
      /\ \A i \in 1 .. Len(t) + W :
           u[i] = IF i <= Len(t) THEN t[i] ELSE LinkText(h)[i - Len(t)]
  <2>1. LinkText(h) \in Seq(Chars) /\ Len(LinkText(h)) = W
    BY LinkTextIs
  <2>2. u \in Seq(Chars) /\ Len(u) = Len(t) + W
    BY <2>1, ConcatProperties
  <2>3. \A i \in 1 .. Len(t) + W :
          u[i] = IF i <= Len(t) THEN t[i] ELSE LinkText(h)[i - Len(t)]
    BY <2>1, ConcatProperties
  <2>4. QED BY <2>2, <2>3, LenProperties
<1> HIDE DEF u
<1>2. \A p \in 1 .. Len(t) : u[p] = t[p]
  BY <1>1, Sizes
<1>3. ASSUME NEW j \in 1 .. W PROVE u[Len(t) + j] = <<h, j - 1>>
  <2>1. Len(t) + j \in 1 .. Len(t) + W /\ ~(Len(t) + j <= Len(t))
        /\ Len(t) + j - Len(t) = j
    BY <1>1, Sizes
  <2>2. QED BY <1>1, <2>1, LinkTextIs
<1>4. Newlines(t) \subseteq 1 .. Len(t)
  BY <1>1 DEF Newlines
<1>5. ASSUME NEW p \in 1 .. Len(u)
      PROVE  IsNewline(u[p]) <=> p \in Newlines(t) \cup {Len(t) + 1}
  <2>1. CASE p <= Len(t)
    <3>1. p \in 1 .. Len(t) /\ p # Len(t) + 1
      BY <1>1, <2>1
    <3>2. QED BY <3>1, <1>1, <1>2 DEF Newlines
  <2>2. CASE ~(p <= Len(t))
    <3>1. PICK j \in 1 .. W : p = Len(t) + j
      <4>1. p - Len(t) \in 1 .. W /\ p = Len(t) + (p - Len(t))
        BY <1>1, <2>2, Sizes
      <4>2. QED BY <4>1
    <3>2. u[p] = <<h, j - 1>> /\ h > 0 /\ j \in Nat
      BY <1>3, <3>1, Sizes DEF Hashes
    <3>3. IsNewline(u[p]) <=> j = 1
      BY <3>2 DEF IsNewline
    <3>4. p \notin Newlines(t)
      BY <1>1, <1>4, <2>2
    <3>5. p = Len(t) + 1 <=> j = 1
      BY <1>1, <3>1, <3>2
    <3>6. QED BY <3>3, <3>4, <3>5
  <2>3. QED BY <2>1, <2>2
<1>6. Newlines(u) = Newlines(t) \cup {Len(t) + 1}
  <2>1. Len(t) + 1 \in 1 .. Len(u) /\ 1 .. Len(t) \subseteq 1 .. Len(u)
    BY <1>1, Sizes
  <2>2. QED BY <1>1, <1>4, <1>5, <2>1 DEF Newlines
<1>7. QED BY <1>1, <1>2, <1>3, <1>4, <1>6 DEF u

\* A link at the end of a text is one link more.
LEMMA HashesStay ==
  ASSUME NEW t \in Seq(Chars), NEW h \in Hashes, NEW p \in Newlines(t),
         HashAfter(t, p) # None
  PROVE  HashAfter(t \o LinkText(h), p) = HashAfter(t, p)
<1> DEFINE u == t \o LinkText(h)
           end == p + HashLength
           k == t[p][1]
<1>1. /\ Len(t) \in Nat /\ Len(u) = Len(t) + W /\ u \in Seq(Chars)
      /\ Newlines(u) = Newlines(t) \cup {Len(t) + 1}
      /\ \A i \in 1 .. Len(t) : u[i] = t[i]
      /\ p \in 1 .. Len(t)
  BY NewlinesGrow
<1> HIDE DEF u
<1>2. /\ end <= Len(t) /\ SubSeq(t, p, end) = LinkText(k)
      /\ end = Len(t) \/ end + 1 \in Newlines(t)
      /\ HashAfter(t, p) = k
  BY DEF HashAfter
<1>3. u[p][1] = k
  BY <1>1
<1>4. end <= Len(u) /\ (end = Len(u) \/ end + 1 \in Newlines(u))
  <2>1. end \in Nat
    BY <1>1, Sizes
  <2> HIDE DEF end
  <2>2. end <= Len(u)
    BY <1>1, <1>2, <2>1, Sizes
  <2>3. end + 1 \in Newlines(u)
    BY <1>1, <1>2
  <2>4. QED BY <2>2, <2>3
<1>5. SubSeq(u, p, end) = SubSeq(t, p, end)
  <2>1. p \in Nat /\ end \in Nat /\ p <= end /\ p > 0
    BY <1>1, Sizes
  <2>2. \A i \in p .. end : u[i] \in Chars /\ t[i] \in Chars /\ u[i] = t[i]
    <3>1. \A i \in p .. end : i \in 1 .. Len(t)
      BY <1>1, <1>2, <2>1
    <3>2. QED BY <1>1, <3>1, ElementOfSeq
  <2> HIDE DEF end
  <2>3. /\ SubSeq(u, p, end) \in Seq(Chars) /\ Len(SubSeq(u, p, end)) = end - p + 1
        /\ \A i \in 1 .. end - p + 1 : SubSeq(u, p, end)[i] = u[p + i - 1]
    BY <2>1, <2>2, SubSeqProperties
  <2>4. /\ SubSeq(t, p, end) \in Seq(Chars) /\ Len(SubSeq(t, p, end)) = end - p + 1
        /\ \A i \in 1 .. end - p + 1 : SubSeq(t, p, end)[i] = t[p + i - 1]
    BY <2>1, <2>2, SubSeqProperties
  <2>5. \A i \in 1 .. end - p + 1 : p + i - 1 \in p .. end
    BY <2>1
  <2>6. QED BY <2>2, <2>3, <2>4, <2>5, SeqEqual
<1>6. QED BY <1>2, <1>3, <1>4, <1>5 DEF HashAfter, u

LEMMA LastHash ==
  ASSUME NEW t \in Seq(Chars), NEW h \in Hashes
  PROVE  HashAfter(t \o LinkText(h), Len(t) + 1) = h
<1> DEFINE u == t \o LinkText(h)
           p == Len(t) + 1
           end == p + HashLength
<1>1. /\ Len(t) \in Nat /\ Len(u) = Len(t) + W /\ u \in Seq(Chars)
      /\ \A j \in 1 .. W : u[Len(t) + j] = <<h, j - 1>>
  BY NewlinesGrow
<1>2. u[p] = <<h, 0>> /\ end = Len(u) /\ p \in Nat /\ p > 0 /\ end \in Nat /\ p <= end
      /\ end - p + 1 = W /\ p = Len(t) + 1
  <2>1. 1 \in 1 .. W /\ 1 - 1 = 0
    BY Sizes
  <2>2. QED BY <1>1, <2>1, Sizes
<1> HIDE DEF u, p, end
<1>3. SubSeq(u, p, end) = LinkText(h)
  <2>1. \A i \in p .. end : u[i] \in Chars
    <3>1. \A i \in p .. end : i \in 1 .. Len(u)
      BY <1>2
    <3>2. QED BY <1>1, <3>1, ElementOfSeq
  <2>2. /\ SubSeq(u, p, end) \in Seq(Chars) /\ Len(SubSeq(u, p, end)) = end - p + 1
        /\ \A i \in 1 .. end - p + 1 : SubSeq(u, p, end)[i] = u[p + i - 1]
    BY <1>2, <2>1, SubSeqProperties
  <2>3. \A j \in 1 .. W : p + j - 1 = Len(t) + j
    BY <1>1, <1>2, Sizes
  <2>4. \A j \in 1 .. W : SubSeq(u, p, end)[j] = LinkText(h)[j]
    BY <1>1, <1>2, <2>2, <2>3, LinkTextIs
  <2>5. QED BY <1>2, <2>2, <2>4, LinkTextIs, SeqEqual
<1>4. u[p][1] = h
  BY <1>2
<1>5. end <= Len(u) /\ end = Len(u)
  BY <1>2
<1>6. HashAfter(u, p) = h
  BY <1>3, <1>4, <1>5 DEF HashAfter, end
<1>7. QED BY <1>6 DEF u, p

LEMMA ShapeGrows ==
  ASSUME NEW t, NEW d \in Seq(Digits), NEW hs \in Seq(Hashes), NEW h \in Hashes,
         Shape(t, d, hs)
  PROVE  Shape(t \o LinkText(h), d, Append(hs, h))
<1> DEFINE u == t \o LinkText(h)
           n == Len(hs)
           gs == Append(hs, h)
<1>1. /\ t \in Seq(Chars) /\ IsFiniteSet(Newlines(t)) /\ Cardinality(Newlines(t)) = n
      /\ \A p \in Newlines(t) : p > Len(d)
      /\ hs # <<>> => Len(d) + 1 \in Newlines(t)
      /\ hs = <<>> => Len(t) = Len(d)
      /\ Len(d) <= Len(t) /\ \A i \in 1 .. Len(d) : t[i] = d[i]
  BY DEF Shape
<1>2. /\ u \in Seq(Chars) /\ Len(t) \in Nat /\ Len(u) = Len(t) + W
      /\ \A p \in 1 .. Len(t) : u[p] = t[p]
      /\ Newlines(t) \subseteq 1 .. Len(t)
      /\ Newlines(u) = Newlines(t) \cup {Len(t) + 1}
  BY <1>1, NewlinesGrow
<1>3. /\ n \in Nat /\ Len(gs) = n + 1 /\ gs[n + 1] = h /\ gs # <<>>
      /\ \A i \in 1 .. n : gs[i] = hs[i] /\ hs[i] \in Hashes
      /\ Len(d) \in Nat
  BY LenProperties, AppendProperties, ElementOfSeq
<1>4. HashAfter(u, Len(t) + 1) = h
  BY <1>1, LastHash
<1>5. PICK place \in [1 .. n -> Newlines(t)] : \A i \in 1 .. n :
        /\ Cardinality({q \in Newlines(t) : q <= place[i]}) = i
        /\ HashAfter(t, place[i]) = hs[i]
  BY DEF Shape
<1> DEFINE at == [i \in 1 .. n + 1 |-> IF i = n + 1 THEN Len(t) + 1 ELSE place[i]]
<1>6. \A p \in Newlines(t) : HashAfter(t, p) # None => HashAfter(u, p) = HashAfter(t, p)
  BY <1>1, HashesStay
<1> HIDE DEF u, n, gs
<1>7. IsFiniteSet(Newlines(u)) /\ Cardinality(Newlines(u)) = n + 1
  <2>1. Len(t) + 1 \notin Newlines(t)
    BY <1>2
  <2>2. QED BY <1>1, <1>2, <2>1, FS_AddElement
<1>8. at \in [1 .. n + 1 -> Newlines(u)]
  BY <1>2, <1>3, <1>5
<1>9. ASSUME NEW i \in 1 .. n + 1
      PROVE  /\ Cardinality({q \in Newlines(u) : q <= at[i]}) = i
             /\ HashAfter(u, at[i]) = gs[i]
  <2>1. CASE i = n + 1
    <3>1. at[i] = Len(t) + 1
      BY <2>1
    <3>2. \A q \in Newlines(u) : q <= Len(t) + 1
      BY <1>2
    <3>3. {q \in Newlines(u) : q <= at[i]} = Newlines(u)
      BY <3>1, <3>2
    <3>4. QED BY <2>1, <3>1, <3>3, <1>3, <1>4, <1>7
  <2>2. CASE i # n + 1
    <3>1. i \in 1 .. n /\ at[i] = place[i] /\ place[i] \in Newlines(t)
          /\ place[i] \in 1 .. Len(t)
      BY <1>2, <1>3, <1>5, <2>2
    <3>2. {q \in Newlines(u) : q <= at[i]} = {q \in Newlines(t) : q <= place[i]}
      <4>1. ~(Len(t) + 1 <= place[i])
        BY <1>2, <3>1
      <4>2. QED BY <1>2, <3>1, <4>1
    <3>3. HashAfter(t, place[i]) = hs[i] /\ hs[i] # None /\ gs[i] = hs[i]
      BY <1>3, <1>5, <3>1, Sizes DEF Hashes
    <3>4. HashAfter(u, place[i]) = hs[i]
      BY <1>6, <3>1, <3>3
    <3>5. QED BY <1>5, <3>1, <3>2, <3>3, <3>4
  <2>3. QED BY <2>1, <2>2
<1> HIDE DEF at
<1>10. \E pl \in [1 .. Len(gs) -> Newlines(u)] : \A i \in 1 .. Len(gs) :
         /\ Cardinality({q \in Newlines(u) : q <= pl[i]}) = i
         /\ HashAfter(u, pl[i]) = gs[i]
  BY <1>3, <1>8, <1>9
<1>11. \A p \in Newlines(u) : p > Len(d)
  BY <1>1, <1>2, <1>3
<1>12. Len(d) + 1 \in Newlines(u)
  BY <1>1, <1>2
<1>13. Len(d) <= Len(u) /\ \A i \in 1 .. Len(d) : u[i] = d[i]
  BY <1>1, <1>2, <1>3, Sizes
<1>14. Shape(u, d, gs)
  BY <1>2, <1>3, <1>7, <1>10, <1>11, <1>12, <1>13 DEF Shape
<1>15. QED BY <1>14 DEF u, gs

LEMMA NewlineUnique ==
  ASSUME NEW t \in Seq(Chars), IsFiniteSet(Newlines(t)),
         NEW p \in Newlines(t), NEW r \in Newlines(t),
         Cardinality({q \in Newlines(t) : q <= p})
           = Cardinality({q \in Newlines(t) : q <= r})
  PROVE  p = r
<1> DEFINE UpTo(x) == {q \in Newlines(t) : q <= x}
<1>1. Newlines(t) \subseteq Nat
  BY LenProperties DEF Newlines
<1>2. ASSUME NEW x \in Newlines(t), NEW y \in Newlines(t), x <= y,
             Cardinality(UpTo(x)) = Cardinality(UpTo(y))
      PROVE  x = y
  <2>1. UpTo(x) \in SUBSET UpTo(y)
    BY <1>1, <1>2
  <2>2. IsFiniteSet(UpTo(y))
    <3>1. UpTo(y) \in SUBSET Newlines(t)
      OBVIOUS
    <3> HIDE DEF UpTo
    <3>2. QED BY <3>1, FS_Subset
  <2>3. UpTo(x) = UpTo(y)
    <3> HIDE DEF UpTo
    <3>1. QED BY <1>2, <2>1, <2>2, FS_Subset
  <2>4. y \in UpTo(x)
    BY <1>1, <2>3
  <2>5. QED BY <1>1, <1>2, <2>4
<1>3. p <= r \/ r <= p
  BY <1>1
<1>4. Cardinality(UpTo(p)) = Cardinality(UpTo(r))
  OBVIOUS
<1> HIDE DEF UpTo
<1>5. QED BY <1>2, <1>3, <1>4

\* The links of a text are read as they were written.
LEMMA ShapeLinks ==
  ASSUME NEW t, NEW d, NEW hs \in Seq(Hashes), Shape(t, d, hs)
  PROVE  LinksOf(t) = hs
<1>1. t \in Seq(Chars) /\ IsFiniteSet(Newlines(t)) /\ Cardinality(Newlines(t)) = Len(hs)
  BY DEF Shape
<1>2. PICK place \in [1 .. Len(hs) -> Newlines(t)] : \A i \in 1 .. Len(hs) :
        /\ Cardinality({q \in Newlines(t) : q <= place[i]}) = i
        /\ HashAfter(t, place[i]) = hs[i]
  BY DEF Shape
<1>3. ASSUME NEW i \in 1 .. Len(hs) PROVE Newline(t, i) = place[i]
  <2>1. place[i] \in Newlines(t)
    BY <1>2
  <2>2. \E p \in Newlines(t) : Cardinality({q \in Newlines(t) : q <= p}) = i
    BY <1>2, <2>1
  <2>3. /\ Newline(t, i) \in Newlines(t)
        /\ Cardinality({q \in Newlines(t) : q <= Newline(t, i)}) = i
    BY <2>2 DEF Newline
  <2>4. Cardinality({q \in Newlines(t) : q <= place[i]}) = i
    BY <1>2
  <2>5. QED BY <1>1, <2>1, <2>3, <2>4, NewlineUnique
<1>4. LinksOf(t) = [i \in 1 .. Len(hs) |-> HashAfter(t, Newline(t, i))]
  BY <1>1 DEF LinksOf
<1>5. LinksOf(t) = [i \in 1 .. Len(hs) |-> hs[i]]
  BY <1>2, <1>3, <1>4
<1>6. QED BY <1>5, LenProperties

\* And so are its data.
LEMMA ShapeData ==
  ASSUME NEW t, NEW d \in Seq(Digits), NEW hs \in Seq(Hashes), Shape(t, d, hs)
  PROVE  DataPart(t) = d
<1> DEFINE S == Newlines(t) \cup {Len(t) + 1}
<1>1. /\ t \in Seq(Chars) /\ Len(t) \in Nat /\ Len(d) \in Nat /\ Len(d) <= Len(t)
      /\ Newlines(t) \subseteq Nat
      /\ \A p \in Newlines(t) : p > Len(d)
      /\ hs # <<>> => Len(d) + 1 \in Newlines(t)
      /\ hs = <<>> => Len(t) = Len(d)
      /\ \A i \in 1 .. Len(d) : t[i] = d[i]
  BY LenProperties DEF Shape, Newlines
<1>2. Len(d) + 1 \in S /\ \A p \in S : p \in Nat /\ Len(d) + 1 <= p
  BY <1>1
<1> HIDE DEF S
<1>3. Min(S) = Len(d) + 1
  <2>1. Min(S) \in S /\ \A p \in S : Min(S) <= p
    BY <1>2 DEF Min
  <2>2. Min(S) <= Len(d) + 1 /\ Len(d) + 1 <= Min(S) /\ Min(S) \in Nat
    BY <1>2, <2>1
  <2>3. QED BY <1>1, <2>2
<1>4. DataPart(t) = SubSeq(t, 1, Len(d))
  <2>1. Min(S) - 1 = Len(d)
    BY <1>1, <1>3
  <2>2. QED BY <2>1 DEF DataPart, S
<1>5. d \in Seq(Chars)
  BY DataIsText
<1>6. SubSeq(t, 1, Len(d)) = d
  <2>1. \A i \in 1 .. Len(d) : t[i] \in Chars
    BY <1>1, <1>5, ElementOfSeq
  <2>2. /\ SubSeq(t, 1, Len(d)) \in Seq(Chars)
        /\ Len(SubSeq(t, 1, Len(d))) = IF 1 <= Len(d) THEN Len(d) - 1 + 1 ELSE 0
        /\ \A i \in 1 .. Len(d) - 1 + 1 : SubSeq(t, 1, Len(d))[i] = t[1 + i - 1]
    BY <1>1, <2>1, SubSeqProperties
  <2>3. Len(SubSeq(t, 1, Len(d))) = Len(d)
    BY <1>1, <2>2
  <2>4. \A i \in 1 .. Len(d) : i \in 1 .. Len(d) - 1 + 1 /\ 1 + i - 1 = i
    BY <1>1
  <2>5. \A i \in 1 .. Len(d) : SubSeq(t, 1, Len(d))[i] = d[i]
    BY <1>1, <2>2, <2>4
  <2>6. QED BY <1>5, <2>2, <2>3, <2>5, SeqEqual
<1>7. QED BY <1>4, <1>6

LEMMA LinksAppend ==
  ASSUME NEW hs \in Seq(Hashes), NEW h \in Hashes
  PROVE  /\ Links(hs) \in Seq(Chars) /\ Links(<<>>) = <<>>
         /\ Links(Append(hs, h)) = Links(hs) \o LinkText(h)
<1> DEFINE text(gs) == [i \in DOMAIN gs |-> LinkText(gs[i])]
<1>1. ASSUME NEW gs \in Seq(Hashes) PROVE text(gs) \in Seq(Seq(Chars))
  <2>1. \A i \in 1 .. Len(gs) : LinkText(gs[i]) \in Seq(Chars)
    BY LinkTextIs, ElementOfSeq
  <2>2. QED BY <2>1, LenProperties
<1>2. text(Append(hs, h)) = Append(text(hs), LinkText(h))
  <2>1. /\ Append(hs, h) \in Seq(Hashes) /\ Len(Append(hs, h)) = Len(hs) + 1
        /\ \A i \in 1 .. Len(hs) : Append(hs, h)[i] = hs[i]
        /\ Append(hs, h)[Len(hs) + 1] = h /\ Len(hs) \in Nat
        /\ DOMAIN hs = 1 .. Len(hs) /\ DOMAIN Append(hs, h) = 1 .. Len(hs) + 1
    BY AppendProperties, LenProperties
  <2>2. text(hs) \in Seq(Seq(Chars)) /\ text(Append(hs, h)) \in Seq(Seq(Chars))
        /\ LinkText(h) \in Seq(Chars)
    BY <1>1, <2>1, LinkTextIs
  <2>3. /\ Len(text(hs)) = Len(hs) /\ Len(text(Append(hs, h))) = Len(hs) + 1
        /\ \A i \in 1 .. Len(hs) : text(hs)[i] = LinkText(hs[i])
        /\ \A i \in 1 .. Len(hs) + 1 : text(Append(hs, h))[i] = LinkText(Append(hs, h)[i])
    BY <2>1
  <2> HIDE DEF text
  <2>4. /\ Append(text(hs), LinkText(h)) \in Seq(Seq(Chars))
        /\ Len(Append(text(hs), LinkText(h))) = Len(hs) + 1
        /\ \A i \in 1 .. Len(hs) : Append(text(hs), LinkText(h))[i] = text(hs)[i]
        /\ Append(text(hs), LinkText(h))[Len(hs) + 1] = LinkText(h)
    BY <2>2, <2>3, AppendProperties
  <2>5. \A i \in 1 .. Len(hs) + 1 : text(Append(hs, h))[i] = Append(text(hs), LinkText(h))[i]
    <3> TAKE i \in 1 .. Len(hs) + 1
    <3>1. i = Len(hs) + 1 \/ i \in 1 .. Len(hs)
      BY <2>1
    <3>2. QED BY <3>1, <2>1, <2>3, <2>4
  <2>6. QED BY <2>2, <2>3, <2>4, <2>5, SeqEqual
<1>3. \A gs : Links(gs) = FlattenSeq(text(gs))
  BY DEF Links
<1>4. text(<<>>) = <<>>
  OBVIOUS
<1>5. text(hs) \in Seq(Seq(Chars)) /\ LinkText(h) \in Seq(Chars)
  BY <1>1, LinkTextIs
<1> HIDE DEF text
<1>6. Links(hs) \in Seq(Chars)
  BY <1>3, <1>5, FlattenType
<1>7. Links(<<>>) = <<>>
  BY <1>3, <1>4, FlattenEmpty
<1>8. Links(Append(hs, h)) = Links(hs) \o LinkText(h)
  BY <1>2, <1>3, <1>5, FlattenAppend
<1>9. QED BY <1>6, <1>7, <1>8

LEMMA LinksType ==
  ASSUME NEW hs \in Seq(Hashes)
  PROVE  Links(hs) \in Seq(Chars) /\ Links(<<>>) = <<>>
<1>1. 1 \in Hashes
  BY DEF Hashes
<1>2. QED BY <1>1, LinksAppend

\* The text of data and links.
Text(d, hs) == d \o Links(hs)

LEMMA ShapeOf ==
  ASSUME NEW d \in Seq(Digits), NEW hs \in Seq(Hashes)
  PROVE  /\ Shape(Text(d, hs), d, hs)
         /\ Text(d, hs) \in Seq(Chars)
         /\ Len(Links(hs)) = Len(hs) * W
<1> DEFINE Good == {n \in Nat : \A gs \in Seq(Hashes) : Len(gs) = n =>
                      Shape(Text(d, gs), d, gs) /\ Len(Links(gs)) = n * W}
<1>1. 0 \in Good
  <2>1. \A gs \in Seq(Hashes) : Len(gs) = 0 => gs = <<>>
    BY EmptySeq
  <2>2. d \in Seq(Chars)
    BY DataIsText
  <2>3. Text(d, <<>>) = d
    BY <2>2, EmptySeq, LinksType, ConcatEmptySeq DEF Text
  <2>4. Links(<<>>) = <<>> /\ Len(<<>>) = 0
    BY EmptySeq, LinksType
  <2>5. 0 * W = 0
    BY Sizes
  <2>6. QED BY <2>1, <2>3, <2>4, <2>5, ShapeOfData
<1>2. ASSUME NEW n \in Nat, n \in Good PROVE n + 1 \in Good
  <2> SUFFICES ASSUME NEW gs \in Seq(Hashes), Len(gs) = n + 1
               PROVE  Shape(Text(d, gs), d, gs) /\ Len(Links(gs)) = (n + 1) * W
    OBVIOUS
  <2>1. gs # <<>>
    OBVIOUS
  <2>2. PICK fs \in Seq(Hashes), h \in Hashes : gs = Append(fs, h)
    BY <2>1, SequenceEmptyOrAppend
  <2>3. Len(fs) = n
    BY <2>2, AppendProperties, LenProperties
  <2>4. Shape(Text(d, fs), d, fs) /\ Len(Links(fs)) = n * W
    BY <1>2, <2>3
  <2>5. /\ Links(fs) \in Seq(Chars) /\ LinkText(h) \in Seq(Chars) /\ d \in Seq(Chars)
        /\ Len(LinkText(h)) = W
        /\ Links(gs) = Links(fs) \o LinkText(h)
    BY <2>2, LinksAppend, LinkTextIs, DataIsText
  <2>6. Text(d, gs) = Text(d, fs) \o LinkText(h)
    <3>1. (d \o Links(fs)) \o LinkText(h) = d \o (Links(fs) \o LinkText(h))
      BY <2>5, ConcatAssociative
    <3>2. QED BY <2>5, <3>1 DEF Text
  <2>7. Len(Links(gs)) = (n + 1) * W
    <3>1. Len(Links(gs)) = n * W + W
      BY <2>4, <2>5, ConcatProperties
    <3>2. QED BY <3>1, Sizes
  <2>8. Shape(Text(d, gs), d, gs)
    BY <2>2, <2>4, <2>6, ShapeGrows
  <2>9. QED BY <2>7, <2>8
<1> HIDE DEF Good
<1>3. ASSUME NEW n \in Nat PROVE n \in Good
  <2>1. \A m \in 0 .. n - 1 : m \in Good => m + 1 \in Good
    BY <1>2
  <2>2. \A m \in 0 .. n : m \in Good
    BY <1>1, <2>1, Induction
  <2>3. QED BY <2>2
<1>4. Len(hs) \in Good
  BY <1>3, LenProperties
<1>5. Shape(Text(d, hs), d, hs) /\ Len(Links(hs)) = Len(hs) * W
  BY <1>4 DEF Good
<1>6. QED BY <1>5 DEF Shape

\* What is read of the text of data and links.
LEMMA TextIs ==
  ASSUME NEW d \in Seq(Digits), NEW hs \in Seq(Hashes)
  PROVE  /\ Text(d, hs) \in Seq(Chars)
         /\ DataPart(Text(d, hs)) = d /\ LinksOf(Text(d, hs)) = hs
         /\ Len(Text(d, hs)) = Len(d) + Len(hs) * W
<1>1. DataPart(Text(d, hs)) = d /\ LinksOf(Text(d, hs)) = hs
  BY ShapeOf, ShapeLinks, ShapeData
<1>2. d \in Seq(Chars) /\ Links(hs) \in Seq(Chars) /\ Len(Links(hs)) = Len(hs) * W
  BY ShapeOf, LinksType, DataIsText
<1>3. Len(Text(d, hs)) = Len(d) + Len(hs) * W
  BY <1>2, ConcatProperties DEF Text
<1>4. QED BY <1>1, <1>3, ShapeOf

-----------------------------------------------------------------------------
(* Blocks that only link what was saved before.                            *)

LinkedBefore(saved) ==
  /\ Len(saved) \in Nat /\ DOMAIN saved = 1 .. Len(saved)
  /\ \A h \in DOMAIN saved : /\ LinksOf(saved[h]) \in Seq(1 .. h - 1)
                             /\ DataPart(saved[h]) \in Seq(Digits)

\* All that was saved is still there, under the same hashes.
Kept(saved, more) ==
  /\ DOMAIN saved \subseteq DOMAIN more
  /\ \A h \in DOMAIN saved : more[h] = saved[h]

Parts(f, links) == [i \in DOMAIN links |-> f[links[i]]]

LEMMA PartsAgree ==
  ASSUME NEW n, NEW links \in Seq(1 .. n), NEW f, NEW g,
         \A k \in 1 .. n : f[k] = g[k]
  PROVE  Parts(f, links) = Parts(g, links)
<1>1. \A i \in DOMAIN links : links[i] \in 1 .. n
  BY LenProperties, ElementOfSeq
<1>2. QED BY <1>1 DEF Parts

LEMMA PartsType ==
  ASSUME NEW n, NEW links \in Seq(1 .. n), NEW f, NEW T,
         \A k \in 1 .. n : f[k] \in T
  PROVE  /\ Parts(f, links) \in Seq(T) /\ Len(Parts(f, links)) = Len(links)
         /\ \A i \in 1 .. Len(links) : Parts(f, links)[i] = f[links[i]]
<1>1. Len(links) \in Nat /\ DOMAIN links = 1 .. Len(links)
  BY LenProperties
<1>2. \A i \in 1 .. Len(links) : links[i] \in 1 .. n
  BY ElementOfSeq
<1>3. Parts(f, links) = [i \in 1 .. Len(links) |-> f[links[i]]]
  BY <1>1 DEF Parts
<1>4. QED BY <1>1, <1>2, <1>3

\* The equation of Reading, for any blocks.
Read1(saved, f, h) ==
  DataPart(saved[h]) \o FlattenSeq(Parts(f, LinksOf(saved[h])))

IsReading(saved, f) == f = [h \in DOMAIN saved |-> Read1(saved, f, h)]

LEMMA ReadingAt ==
  ASSUME NEW saved, NEW f, IsReading(saved, f)
  PROVE  DOMAIN f = DOMAIN saved /\ \A h \in DOMAIN saved : f[h] = Read1(saved, f, h)
<1> DEFINE g == [h \in DOMAIN saved |-> Read1(saved, f, h)]
<1>1. f = g
  BY DEF IsReading
<1>2. DOMAIN g = DOMAIN saved /\ \A h \in DOMAIN saved : g[h] = Read1(saved, f, h)
  OBVIOUS
<1> HIDE DEF g
<1>3. QED BY <1>1, <1>2

LEMMA ReadingExists ==
  ASSUME NEW saved, LinkedBefore(saved)
  PROVE  \E f : IsReading(saved, f)
<1> DEFINE l == Len(saved)
           Good == {n \in 0 .. l : \E f : \A h \in 1 .. n : f[h] = Read1(saved, f, h)}
<1>1. l \in Nat /\ DOMAIN saved = 1 .. l
      /\ \A h \in 1 .. l : LinksOf(saved[h]) \in Seq(1 .. h - 1)
  BY DEF LinkedBefore
<1> HIDE DEF l
<1>2. 0 \in Good
  BY <1>1
<1>3. ASSUME NEW n \in 0 .. l - 1, n \in Good PROVE n + 1 \in Good
  <2>1. PICK f : \A h \in 1 .. n : f[h] = Read1(saved, f, h)
    BY <1>3
  <2> DEFINE g == [h \in 1 .. n + 1 |-> Read1(saved, f, h)]
  <2>2. n + 1 \in 0 .. l /\ 1 .. n + 1 \subseteq 1 .. l /\ n \in Nat
    BY <1>1
  <2>3. \A h \in 1 .. n : h \in 1 .. n + 1
    BY <2>2
  <2>4. \A h \in 1 .. n : g[h] = f[h]
    BY <2>1, <2>3
  <2>5. \A h \in 1 .. n + 1 : g[h] = Read1(saved, f, h)
    OBVIOUS
  <2> HIDE DEF g
  <2>6. ASSUME NEW h \in 1 .. n + 1 PROVE Read1(saved, g, h) = Read1(saved, f, h)
    <3>1. LinksOf(saved[h]) \in Seq(1 .. h - 1)
      BY <1>1, <2>2
    <3>2. \A k \in 1 .. h - 1 : g[k] = f[k]
      BY <2>2, <2>4
    <3>3. Parts(g, LinksOf(saved[h])) = Parts(f, LinksOf(saved[h]))
      BY <3>1, <3>2, PartsAgree
    <3>4. QED BY <3>3 DEF Read1
  <2>7. \A h \in 1 .. n + 1 : g[h] = Read1(saved, g, h)
    BY <2>5, <2>6
  <2>8. QED BY <2>2, <2>7
<1> HIDE DEF Good
<1>4. l \in Good
  <2>1. \A m \in 0 .. l : m \in Good
    BY <1>1, <1>2, <1>3, Induction
  <2>2. QED BY <1>1, <2>1
<1>5. PICK f : \A h \in 1 .. l : f[h] = Read1(saved, f, h)
  BY <1>4 DEF Good
<1> DEFINE g == [h \in 1 .. l |-> f[h]]
<1>6. \A h \in 1 .. l : g[h] = f[h]
  OBVIOUS
<1>7. g = [h \in 1 .. l |-> g[h]]
  OBVIOUS
<1> HIDE DEF g
<1>8. ASSUME NEW h \in 1 .. l PROVE g[h] = Read1(saved, g, h)
  <2>1. LinksOf(saved[h]) \in Seq(1 .. h - 1)
    BY <1>1
  <2>2. \A k \in 1 .. h - 1 : g[k] = f[k]
    BY <1>1, <1>6
  <2>3. Parts(g, LinksOf(saved[h])) = Parts(f, LinksOf(saved[h]))
    BY <2>1, <2>2, PartsAgree
  <2>4. QED BY <1>5, <1>6, <2>3 DEF Read1
<1>9. g = [h \in DOMAIN saved |-> Read1(saved, g, h)]
  BY <1>1, <1>7, <1>8
<1>10. QED BY <1>9 DEF IsReading

\* What is read of a block stays the same when more are saved.
LEMMA ReadingKept ==
  ASSUME NEW saved, NEW more, NEW f, NEW g, LinkedBefore(saved), Kept(saved, more),
         IsReading(saved, f), IsReading(more, g)
  PROVE  \A h \in DOMAIN saved : g[h] = f[h]
<1> DEFINE l == Len(saved)
           Same == {h \in 1 .. l : g[h] = f[h]}
<1>1. l \in Nat /\ DOMAIN saved = 1 .. l
      /\ \A h \in 1 .. l : LinksOf(saved[h]) \in Seq(1 .. h - 1)
  BY DEF LinkedBefore
<1> HIDE DEF l
<1>2. ASSUME NEW h \in 1 .. l, \A k \in 1 .. h - 1 : k \in Same PROVE h \in Same
  <2>1. h \in DOMAIN saved /\ h \in DOMAIN more /\ more[h] = saved[h]
    BY <1>1 DEF Kept
  <2>2. f[h] = Read1(saved, f, h) /\ g[h] = Read1(more, g, h)
    BY <2>1, ReadingAt
  <2>3. Parts(g, LinksOf(saved[h])) = Parts(f, LinksOf(saved[h]))
    <3>1. \A k \in 1 .. h - 1 : g[k] = f[k]
      BY <1>2
    <3>2. LinksOf(saved[h]) \in Seq(1 .. h - 1)
      BY <1>1
    <3>3. QED BY <3>1, <3>2, PartsAgree
  <2>4. Read1(more, g, h) = Read1(saved, f, h)
    BY <2>1, <2>3 DEF Read1
  <2>5. QED BY <2>2, <2>4
<1> HIDE DEF Same
<1>3. \A h \in 1 .. l : h \in Same
  BY <1>1, <1>2, StrongInduction
<1>4. QED BY <1>1, <1>3 DEF Same

LEMMA ReadingType ==
  ASSUME NEW saved, NEW f, LinkedBefore(saved), IsReading(saved, f)
  PROVE  \A h \in DOMAIN saved : f[h] \in Seq(Digits)
<1> DEFINE l == Len(saved)
           Good == {h \in 1 .. l : f[h] \in Seq(Digits)}
<1>1. l \in Nat /\ DOMAIN saved = 1 .. l
      /\ \A h \in 1 .. l : /\ LinksOf(saved[h]) \in Seq(1 .. h - 1)
                           /\ DataPart(saved[h]) \in Seq(Digits)
  BY DEF LinkedBefore
<1> HIDE DEF l
<1>2. ASSUME NEW h \in 1 .. l, \A k \in 1 .. h - 1 : k \in Good PROVE h \in Good
  <2>1. f[h] = Read1(saved, f, h)
    BY <1>1, ReadingAt
  <2>2. Parts(f, LinksOf(saved[h])) \in Seq(Seq(Digits))
    <3>1. \A k \in 1 .. h - 1 : f[k] \in Seq(Digits)
      BY <1>2
    <3>2. LinksOf(saved[h]) \in Seq(1 .. h - 1)
      BY <1>1
    <3>3. QED BY <3>1, <3>2, PartsType
  <2>3. FlattenSeq(Parts(f, LinksOf(saved[h]))) \in Seq(Digits)
    BY <2>2, FlattenType
  <2>4. Read1(saved, f, h) \in Seq(Digits)
    BY <1>1, <2>3, ConcatProperties DEF Read1
  <2>5. QED BY <2>1, <2>4
<1> HIDE DEF Good
<1>3. \A h \in 1 .. l : h \in Good
  BY <1>1, <1>2, StrongInduction
<1>4. QED BY <1>1, <1>3 DEF Good

\* Reading is such a function, before a step and after it.
LEMMA ReadingIs ==
  ASSUME LinkedBefore(blocks)
  PROVE  IsReading(blocks, Reading)
<1>1. PICK f : f = [h \in DOMAIN blocks |->
                      LET links == LinksOf(blocks[h])
                      IN  DataPart(blocks[h])
                            \o FlattenSeq([i \in DOMAIN links |-> f[links[i]]])]
  BY ReadingExists DEF IsReading, Read1, Parts
<1>2. Reading = [h \in DOMAIN blocks |->
                   LET links == LinksOf(blocks[h])
                   IN  DataPart(blocks[h])
                         \o FlattenSeq([i \in DOMAIN links |-> Reading[links[i]]])]
  BY <1>1 DEF Reading
<1>3. QED BY <1>2 DEF IsReading, Read1, Parts

LEMMA ReadingIsPrime ==
  ASSUME LinkedBefore(blocks')
  PROVE  IsReading(blocks', Reading')
<1>1. PICK f : f = [h \in DOMAIN blocks' |->
                      LET links == LinksOf(blocks'[h])
                      IN  DataPart(blocks'[h])
                            \o FlattenSeq([i \in DOMAIN links |-> f[links[i]]])]
  BY ReadingExists DEF IsReading, Read1, Parts
<1>2. Reading' = [h \in DOMAIN blocks' |->
                    LET links == LinksOf(blocks'[h])
                    IN  DataPart(blocks'[h])
                          \o FlattenSeq([i \in DOMAIN links |-> Reading'[links[i]]])]
  BY <1>1 DEF Reading
<1>3. QED BY <1>2 DEF IsReading, Read1, Parts

-----------------------------------------------------------------------------
(* Saving.                                                                 *)

\* More texts were saved, each of them one of these.
Extends(saved, more, texts) ==
  /\ more \in Seq(Seq(Chars))
  /\ Kept(saved, more)
  /\ \A t \in texts : \E h \in DOMAIN more : more[h] = t
  /\ \A h \in DOMAIN more : h \in DOMAIN saved \/ more[h] \in texts

LEMMA WithIs ==
  ASSUME NEW saved \in Seq(Seq(Chars)), NEW text \in Seq(Chars)
  PROVE  Extends(saved, With(saved, text), {text})
<1>1. DOMAIN saved = 1 .. Len(saved) /\ Len(saved) \in Nat
  BY LenProperties
<1>2. CASE Contains(saved, text)
  <2>1. With(saved, text) = saved
    BY <1>2 DEF With
  <2>2. \E h \in DOMAIN saved : saved[h] = text
    BY <1>1, <1>2 DEF Contains
  <2>3. QED BY <2>1, <2>2 DEF Extends, Kept
<1>3. CASE ~Contains(saved, text)
  <2> DEFINE more == Append(saved, text)
  <2>1. With(saved, text) = more
    BY <1>3 DEF With
  <2>2. /\ more \in Seq(Seq(Chars)) /\ DOMAIN more = 1 .. Len(saved) + 1
        /\ \A h \in 1 .. Len(saved) : more[h] = saved[h]
        /\ more[Len(saved) + 1] = text
    BY AppendProperties, LenProperties
  <2> HIDE DEF more
  <2>3. \A h \in DOMAIN more : h \in DOMAIN saved \/ h = Len(saved) + 1
    BY <1>1, <2>2
  <2>4. Kept(saved, more) /\ Len(saved) + 1 \in DOMAIN more
    BY <1>1, <2>2 DEF Kept
  <2>5. Extends(saved, more, {text})
    BY <2>2, <2>3, <2>4 DEF Extends
  <2>6. QED BY <2>1, <2>5
<1>4. QED BY <1>2, <1>3

LEMMA ExtendsTrans ==
  ASSUME NEW saved, NEW more, NEW most, NEW S, NEW T,
         Extends(saved, more, S), Extends(more, most, T)
  PROVE  Extends(saved, most, S \cup T)
<1>1. Kept(saved, most)
  BY DEF Extends, Kept
<1>2. \A t \in S \cup T : \E h \in DOMAIN most : most[h] = t
  BY DEF Extends, Kept
<1>3. ASSUME NEW h \in DOMAIN most PROVE h \in DOMAIN saved \/ most[h] \in S \cup T
  BY <1>3 DEF Extends, Kept
<1>4. QED BY <1>1, <1>2, <1>3 DEF Extends

LEMMA HashOfIs ==
  ASSUME NEW saved, NEW text, \E h \in DOMAIN saved : saved[h] = text
  PROVE  HashOf(saved, text) \in DOMAIN saved /\ saved[HashOf(saved, text)] = text
BY DEF HashOf

\* The chunks are saved one after the other.
Round(start, n, f) ==
  f = [i \in 0 .. n |-> IF i = 0 THEN blocks ELSE With(f[i - 1], Chunk(start, i))]

LEMMA RoundExists ==
  ASSUME NEW start, NEW n \in Nat
  PROVE  \E f : Round(start, n, f)
<1> DEFINE Good == {m \in Nat : \E f : Round(start, m, f)}
<1>1. 0 \in Good
  <2> DEFINE f == [i \in 0 .. 0 |-> blocks]
  <2>1. f = [i \in 0 .. 0 |-> IF i = 0 THEN blocks ELSE With(f[i - 1], Chunk(start, i))]
    OBVIOUS
  <2>2. Round(start, 0, f)
    BY <2>1 DEF Round
  <2>3. QED BY <2>2
<1>2. ASSUME NEW m \in Nat, m \in Good PROVE m + 1 \in Good
  <2>1. PICK f : f = [i \in 0 .. m |->
                        IF i = 0 THEN blocks ELSE With(f[i - 1], Chunk(start, i))]
    BY <1>2 DEF Round
  <2> DEFINE g == [i \in 0 .. m + 1 |-> IF i = m + 1 THEN With(f[m], Chunk(start, i))
                                        ELSE f[i]]
  <2>2. ASSUME NEW i \in 0 .. m
        PROVE  f[i] = IF i = 0 THEN blocks ELSE With(f[i - 1], Chunk(start, i))
    BY <2>1
  <2>3. \A i \in 0 .. m : g[i] = f[i]
    OBVIOUS
  <2>4. g[m + 1] = With(f[m], Chunk(start, m + 1))
    OBVIOUS
  <2>5. g = [i \in 0 .. m + 1 |-> g[i]]
    OBVIOUS
  <2> HIDE DEF g
  <2>6. ASSUME NEW i \in 0 .. m + 1
        PROVE  g[i] = IF i = 0 THEN blocks ELSE With(g[i - 1], Chunk(start, i))
    <3>1. CASE i = m + 1
      <4>1. i # 0 /\ i - 1 = m /\ m \in 0 .. m
        BY <3>1
      <4>2. QED BY <3>1, <4>1, <2>3, <2>4
    <3>2. CASE i # m + 1 /\ i # 0
      <4>1. i \in 0 .. m /\ i - 1 \in 0 .. m
        BY <3>2
      <4>2. QED BY <3>2, <4>1, <2>2, <2>3
    <3>3. CASE i = 0
      <4>1. i \in 0 .. m
        BY <3>3
      <4>2. QED BY <3>3, <4>1, <2>2, <2>3
    <3>4. QED BY <3>1, <3>2, <3>3
  <2>7. g = [i \in 0 .. m + 1 |->
               IF i = 0 THEN blocks ELSE With(g[i - 1], Chunk(start, i))]
    BY <2>5, <2>6
  <2>8. Round(start, m + 1, g)
    BY <2>7 DEF Round
  <2>9. QED BY <2>8
<1> HIDE DEF Good
<1>3. \A m \in 0 .. n - 1 : m \in Good => m + 1 \in Good
  BY <1>2
<1>4. \A m \in 0 .. n : m \in Good
  BY <1>1, <1>3, Induction
<1>5. n \in Good
  BY <1>4
<1>6. QED BY <1>5 DEF Good

LEMMA SavedIs ==
  ASSUME NEW start, NEW n \in Nat, blocks \in Seq(Seq(Chars)),
         \A i \in 1 .. n : Chunk(start, i) \in Seq(Chars)
  PROVE  Extends(blocks, Saved(start, n), {Chunk(start, i) : i \in 1 .. n})
<1> DEFINE saved[i \in 0 .. n] == IF i = 0 THEN blocks
                                  ELSE With(saved[i - 1], Chunk(start, i))
<1>1. Saved(start, n) = saved[n]
  BY DEF Saved
<1>2. PICK f : f = [i \in 0 .. n |->
                      IF i = 0 THEN blocks ELSE With(f[i - 1], Chunk(start, i))]
  BY RoundExists DEF Round
<1>3. saved = [i \in 0 .. n |->
                 IF i = 0 THEN blocks ELSE With(saved[i - 1], Chunk(start, i))]
  BY <1>2
<1> HIDE DEF saved
<1>4. saved[0] = blocks
  <2>1. 0 \in 0 .. n
    OBVIOUS
  <2>2. QED BY <1>3, <2>1
<1>5. ASSUME NEW i \in 0 .. n - 1
      PROVE  saved[i + 1] = With(saved[i], Chunk(start, i + 1))
  <2>1. i + 1 \in 0 .. n /\ i + 1 # 0 /\ i + 1 - 1 = i
    OBVIOUS
  <2>2. saved[i + 1] = IF i + 1 = 0 THEN blocks
                       ELSE With(saved[i + 1 - 1], Chunk(start, i + 1))
    BY <1>3, <2>1
  <2>3. QED BY <2>1, <2>2
<1> DEFINE Upto(m) == {Chunk(start, i) : i \in 1 .. m}
           Good == {m \in 0 .. n : Extends(blocks, saved[m], Upto(m))}
<1>6. 0 \in Good
  <2>1. Upto(0) = {}
    OBVIOUS
  <2>2. Extends(blocks, blocks, {})
    BY DEF Extends, Kept
  <2>3. 0 \in 0 .. n
    OBVIOUS
  <2> HIDE DEF Upto
  <2>4. Extends(blocks, saved[0], Upto(0))
    BY <1>4, <2>1, <2>2
  <2>5. QED BY <2>3, <2>4
<1>7. ASSUME NEW m \in 0 .. n - 1, m \in Good PROVE m + 1 \in Good
  <2>1. Extends(blocks, saved[m], Upto(m)) /\ saved[m] \in Seq(Seq(Chars))
    BY <1>7 DEF Extends
  <2>2. m + 1 \in 1 .. n /\ m + 1 \in 0 .. n
    OBVIOUS
  <2>3. Chunk(start, m + 1) \in Seq(Chars)
    BY <2>2
  <2>4. Extends(saved[m], saved[m + 1], {Chunk(start, m + 1)})
    BY <1>5, <2>1, <2>3, WithIs
  <2>5. Upto(m + 1) = Upto(m) \cup {Chunk(start, m + 1)}
    <3>1. \A i : i \in 1 .. m + 1 <=> i \in 1 .. m \/ i = m + 1
      OBVIOUS
    <3>2. QED BY <3>1
  <2> HIDE DEF Upto
  <2>6. Extends(blocks, saved[m + 1], Upto(m) \cup {Chunk(start, m + 1)})
    BY <2>1, <2>4, ExtendsTrans
  <2>7. QED BY <2>2, <2>5, <2>6
<1> HIDE DEF Good
<1>8. \A m \in 0 .. n : m \in Good
  BY <1>6, <1>7, Induction
<1>9. n \in Good
  BY <1>8
<1>10. QED BY <1>1, <1>9 DEF Good

-----------------------------------------------------------------------------
(* The invariant of the codec.                                             *)

\* The hash that stands last may be of a block with links, the others are not.
OnlyLast(saved, hs) == \A i \in 1 .. Len(hs) - 1 : LinksOf(saved[hs[i]]) = <<>>

\* A text as createBlocks makes it, with links to the first n blocks.
Written(saved, n, t) ==
  \E d \in Seq(Digits), hs \in Seq(1 .. n) :
    t = Text(d, hs) /\ Len(hs) <= MAX_NUM_LINKS /\ OnlyLast(saved, hs)

BlocksInv(saved) ==
  /\ saved \in Seq(Seq(Chars))
  /\ \A h \in 1 .. Len(saved) :
       Written(saved, h - 1, saved[h]) /\ Len(saved[h]) <= SIZE

RootInv ==
  \E d \in Seq(Digits), hs \in Seq(1 .. Len(blocks)) :
    /\ root = Text(d, hs) /\ Len(hs) <= MAX_NUM_LINKS /\ OnlyLast(blocks, hs)
    /\ data = d \o FlattenSeq(Parts(Reading, hs))

QueueInv ==
  IF out = None THEN queue = <<>>
  ELSE /\ hash # None
       /\ out \in Seq(Digits)
       /\ queue \in Seq(1 .. Len(blocks)) /\ OnlyLast(blocks, queue)
       /\ data = out \o FlattenSeq(Parts(Reading, queue))

CodecInv ==
  /\ data \in Seq(Digits)
  /\ BlocksInv(blocks)
  /\ RootInv
  /\ hash # None => hash \in 1 .. Len(blocks) /\ Reading[hash] = data
  /\ QueueInv

LEMMA HashesType ==
  ASSUME NEW n \in Nat, NEW hs \in Seq(1 .. n)
  PROVE  hs \in Seq(Hashes)
<1>1. 1 .. n \subseteq Hashes
  BY DEF Hashes
<1>2. QED BY <1>1, SeqMonotonic

LEMMA WrittenIs ==
  ASSUME NEW saved, NEW n \in Nat, NEW t, Written(saved, n, t)
  PROVE  /\ DataPart(t) \in Seq(Digits) /\ LinksOf(t) \in Seq(1 .. n)
         /\ t = Text(DataPart(t), LinksOf(t))
         /\ Len(LinksOf(t)) <= MAX_NUM_LINKS /\ OnlyLast(saved, LinksOf(t))
<1>1. PICK d \in Seq(Digits), hs \in Seq(1 .. n) :
        t = Text(d, hs) /\ Len(hs) <= MAX_NUM_LINKS /\ OnlyLast(saved, hs)
  BY DEF Written
<1>2. hs \in Seq(Hashes)
  BY HashesType
<1>3. DataPart(t) = d /\ LinksOf(t) = hs
  BY <1>1, <1>2, TextIs
<1>4. QED BY <1>1, <1>3

LEMMA BlocksAre ==
  ASSUME NEW saved, BlocksInv(saved)
  PROVE  /\ LinkedBefore(saved)
         /\ \A h \in DOMAIN saved :
              /\ Len(LinksOf(saved[h])) <= MAX_NUM_LINKS
              /\ OnlyLast(saved, LinksOf(saved[h]))
              /\ LinksOf(saved[h]) \in Seq(1 .. Len(saved))
<1>1. saved \in Seq(Seq(Chars)) /\ Len(saved) \in Nat /\ DOMAIN saved = 1 .. Len(saved)
  BY LenProperties DEF BlocksInv
<1>2. ASSUME NEW h \in 1 .. Len(saved)
      PROVE  /\ LinksOf(saved[h]) \in Seq(1 .. h - 1)
             /\ DataPart(saved[h]) \in Seq(Digits)
             /\ Len(LinksOf(saved[h])) <= MAX_NUM_LINKS
             /\ OnlyLast(saved, LinksOf(saved[h]))
             /\ LinksOf(saved[h]) \in Seq(1 .. Len(saved))
  <2>1. Written(saved, h - 1, saved[h]) /\ h - 1 \in Nat
    BY DEF BlocksInv
  <2>2. 1 .. h - 1 \subseteq 1 .. Len(saved)
    BY <1>1
  <2>3. LinksOf(saved[h]) \in Seq(1 .. h - 1)
    BY <2>1, WrittenIs
  <2>4. LinksOf(saved[h]) \in Seq(1 .. Len(saved))
    BY <2>2, <2>3, SeqMonotonic
  <2>5. QED BY <2>1, <2>3, <2>4, WrittenIs
<1>3. QED BY <1>1, <1>2 DEF LinkedBefore

LEMMA OnlyLastKept ==
  ASSUME NEW saved, NEW more, Kept(saved, more), NEW hs \in Seq(DOMAIN saved),
         OnlyLast(saved, hs)
  PROVE  OnlyLast(more, hs)
<1>1. \A i \in 1 .. Len(hs) - 1 : hs[i] \in DOMAIN saved
  <2>1. \A i \in 1 .. Len(hs) - 1 : i \in 1 .. Len(hs)
    BY LenProperties
  <2>2. QED BY <2>1, ElementOfSeq
<1>2. QED BY <1>1 DEF OnlyLast, Kept

LEMMA WrittenKept ==
  ASSUME NEW saved \in Seq(Seq(Chars)), NEW more, Kept(saved, more),
         NEW n \in 0 .. Len(saved), NEW m \in Nat, n <= m, NEW t,
         Written(saved, n, t)
  PROVE  Written(more, m, t)
<1>0. DOMAIN saved = 1 .. Len(saved) /\ Len(saved) \in Nat
  BY LenProperties
<1>1. PICK d \in Seq(Digits), hs \in Seq(1 .. n) :
        t = Text(d, hs) /\ Len(hs) <= MAX_NUM_LINKS /\ OnlyLast(saved, hs)
  BY DEF Written
<1>2. hs \in Seq(1 .. m) /\ hs \in Seq(DOMAIN saved)
  <2>1. 1 .. n \subseteq 1 .. m /\ 1 .. n \subseteq DOMAIN saved
    BY <1>0
  <2>2. QED BY <2>1, SeqMonotonic
<1>3. OnlyLast(more, hs)
  BY <1>1, <1>2, OnlyLastKept
<1>4. QED BY <1>1, <1>2, <1>3 DEF Written

\* What is saved in a round, or at the end, leaves the blocks as they are to be.
LEMMA BlocksGrow ==
  ASSUME NEW saved, BlocksInv(saved), NEW more, NEW texts,
         Extends(saved, more, texts),
         \A t \in texts : Written(saved, Len(saved), t) /\ Len(t) <= SIZE
  PROVE  BlocksInv(more) /\ Len(saved) <= Len(more) /\ Len(more) \in Nat
<1>1. /\ saved \in Seq(Seq(Chars)) /\ more \in Seq(Seq(Chars)) /\ Kept(saved, more)
      /\ \A h \in DOMAIN more : h \in DOMAIN saved \/ more[h] \in texts
  BY DEF Extends, BlocksInv
<1>2. /\ DOMAIN saved = 1 .. Len(saved) /\ Len(saved) \in Nat
      /\ DOMAIN more = 1 .. Len(more) /\ Len(more) \in Nat
  BY <1>1, LenProperties
<1>3. Len(saved) <= Len(more)
  <2>1. CASE Len(saved) = 0
    BY <1>2, <2>1
  <2>2. CASE Len(saved) # 0
    <3>1. Len(saved) \in DOMAIN saved
      BY <1>2, <2>2
    <3>2. DOMAIN saved \subseteq DOMAIN more
      BY <1>1 DEF Kept
    <3>3. QED BY <1>2, <3>1, <3>2
  <2>3. QED BY <2>1, <2>2
<1>4. ASSUME NEW h \in 1 .. Len(more)
      PROVE  Written(more, h - 1, more[h]) /\ Len(more[h]) <= SIZE
  <2>1. CASE h \in DOMAIN saved
    <3>1. more[h] = saved[h] /\ h - 1 \in 0 .. Len(saved) /\ h - 1 \in Nat /\ h - 1 <= h - 1
      BY <1>1, <1>2, <2>1 DEF Kept
    <3>2. Written(saved, h - 1, saved[h]) /\ Len(saved[h]) <= SIZE
      BY <1>2, <2>1 DEF BlocksInv
    <3>3. QED BY <1>1, <3>1, <3>2, WrittenKept
  <2>2. CASE h \notin DOMAIN saved
    <3>0. more[h] \in texts
      BY <1>1, <1>2, <2>2
    <3>1. more[h] \in texts /\ Len(saved) <= h - 1 /\ h - 1 \in Nat
          /\ Len(saved) \in 0 .. Len(saved)
      <4>1. h \in Nat /\ h >= 1 /\ ~(h <= Len(saved)) /\ Len(saved) \in Nat
        BY <1>2, <2>2
      <4>2. QED BY <3>0, <4>1
    <3>2. Written(saved, Len(saved), more[h]) /\ Len(more[h]) <= SIZE
      BY <3>1
    <3>3. QED BY <1>1, <3>1, <3>2, WrittenKept
  <2>3. QED BY <2>1, <2>2
<1>5. QED BY <1>1, <1>2, <1>3, <1>4 DEF BlocksInv

\* What is left of a file is read the same when there are more blocks.
LEMMA PartsKept ==
  ASSUME LinkedBefore(blocks), LinkedBefore(blocks'), Kept(blocks, blocks'),
         NEW hs \in Seq(DOMAIN blocks)
  PROVE  /\ Parts(Reading', hs) = Parts(Reading, hs)
         /\ Parts(Reading, hs) \in Seq(Seq(Digits))
         /\ FlattenSeq(Parts(Reading, hs)) \in Seq(Digits)
<1>1. IsReading(blocks, Reading) /\ IsReading(blocks', Reading')
  BY ReadingIs, ReadingIsPrime
<1>2. \A h \in DOMAIN blocks : Reading'[h] = Reading[h]
  BY <1>1, ReadingKept
<1>3. \A h \in DOMAIN blocks : Reading[h] \in Seq(Digits)
  BY <1>1, ReadingType
<1>4. PICK n : DOMAIN blocks = 1 .. n
  BY DEF LinkedBefore
<1>5. hs \in Seq(1 .. n) /\ \A k \in 1 .. n : Reading'[k] = Reading[k] /\ Reading[k] \in Seq(Digits)
  BY <1>2, <1>3, <1>4
<1>6. Parts(Reading', hs) = Parts(Reading, hs)
  BY <1>5, PartsAgree
<1>7. Parts(Reading, hs) \in Seq(Seq(Digits))
  BY <1>5, PartsType
<1>8. QED BY <1>6, <1>7, FlattenType

-----------------------------------------------------------------------------
(* A round of createBlocks.                                                *)

\* Where the data of the root block are cut, when n chunks are cut off and the
\* first begins at start.
Cuts(d, start, n) == [i \in 0 .. n |-> IF i = n THEN Len(d) ELSE start + i * SIZE]

LEMMA NumLinksIs ==
  ASSUME root \in Seq(Chars), NumLinks > 0
  PROVE  /\ NumLinks \in 1 .. MAX_NUM_LINKS
         /\ NumLinks * SIZE < Len(root) /\ NumLinks * SIZE \in Nat
<1>1. Len(root) \in Nat /\ root # <<>>
  BY LenProperties DEF NumLinks
<1>2. Len(root) \in Nat \ {0}
  BY <1>1, EmptySeq
<1> DEFINE most == (Len(root) - 1) \div SIZE
<1>3. most \in Nat /\ most * SIZE <= Len(root) - 1
  BY <1>2, Sizes
<1>4. NumLinks = IF most < MAX_NUM_LINKS THEN most ELSE MAX_NUM_LINKS
  BY <1>1 DEF NumLinks
<1> HIDE DEF most
<1>5. NumLinks \in Nat /\ NumLinks <= most /\ NumLinks <= MAX_NUM_LINKS
  BY <1>3, <1>4, Sizes
<1>6. PICK n \in Nat, m \in Nat : n = NumLinks /\ m = most /\ n <= m
  BY <1>3, <1>5
<1>7. n * SIZE <= m * SIZE /\ n * SIZE \in Nat /\ m * SIZE \in Nat
  BY <1>6, Sizes, TimesMonotone
<1>8. QED BY <1>2, <1>3, <1>5, <1>6, <1>7

\* The places of the cuts.
LEMMA CutsAre ==
  ASSUME NEW d \in Seq(Digits), NEW n \in Nat, n > 0, NEW l \in Nat,
         n * SIZE < l, Len(d) <= l, l <= Len(d) + SIZE
  PROVE  LET start == l - n * SIZE
             cut   == Cuts(d, start, n)
         IN  /\ start \in Nat /\ start <= Len(d) /\ cut[0] = start /\ cut[n] = Len(d)
             /\ cut[n - 1] = l - SIZE
             /\ \A i \in 1 .. n - 1 : /\ cut[i - 1] = start + (i - 1) * SIZE
                                      /\ cut[i] = start + i * SIZE
                                      /\ cut[i] = cut[i - 1] + SIZE
             /\ start + (n - 1) * SIZE = l - SIZE /\ start + n * SIZE = l
             /\ \A i \in 0 .. n : cut[i] \in 0 .. Len(d)
             /\ \A i \in 1 .. n : cut[i - 1] <= cut[i]
<1> DEFINE start == l - n * SIZE
           cut   == Cuts(d, start, n)
<1>1. SIZE \in Nat /\ SIZE > 0 /\ Len(d) \in Nat
  BY Sizes, LenProperties
<1>2. n * SIZE \in Nat /\ start \in Nat
  <2>1. n * SIZE \in Nat
    BY <1>1, TimesMonotone
  <2>2. QED BY <2>1
<1>3. (n - 1) * SIZE = n * SIZE - SIZE /\ n - 1 \in Nat
  BY <1>1
<1>4. start + (n - 1) * SIZE = l - SIZE /\ start + n * SIZE = l
  BY <1>1, <1>2, <1>3
<1>5. ASSUME NEW i \in 0 .. n - 1
      PROVE  start + i * SIZE \in Nat /\ start + i * SIZE <= l - SIZE
  <2>1. i * SIZE <= (n - 1) * SIZE /\ i * SIZE \in Nat /\ (n - 1) * SIZE \in Nat
    BY <1>1, <1>3, TimesMonotone
  <2>2. QED BY <1>1, <1>2, <1>4, <2>1
<1>6. ASSUME NEW i \in 1 .. n - 1
      PROVE  start + i * SIZE = start + (i - 1) * SIZE + SIZE
  <2>1. i * SIZE = (i - 1) * SIZE + SIZE /\ i * SIZE \in Nat /\ (i - 1) * SIZE \in Nat
    BY <1>1, TimesMonotone
  <2>2. QED BY <1>1, <1>2, <2>1
<1>7. l - SIZE <= Len(d)
  BY <1>1
<1>8. /\ \A i \in 0 .. n - 1 : cut[i] = start + i * SIZE
      /\ cut[n] = Len(d)
  BY DEF Cuts
<1>9. start = start + 0 * SIZE /\ 0 \in 0 .. n - 1 /\ n - 1 \in 0 .. n - 1
  BY <1>1, <1>2
<1> HIDE DEF start, cut
<1>10. cut[0] = start /\ start <= Len(d) /\ cut[n - 1] = l - SIZE
  <2>1. cut[0] = start + 0 * SIZE /\ start + 0 * SIZE <= l - SIZE
    BY <1>5, <1>8, <1>9
  <2>2. cut[0] = start
    BY <1>9, <2>1
  <2>3. start <= Len(d)
    BY <1>1, <1>2, <1>7, <1>9, <2>1
  <2>4. cut[n - 1] = l - SIZE
    BY <1>4, <1>8, <1>9
  <2>5. QED BY <2>2, <2>3, <2>4
<1>11. ASSUME NEW i \in 0 .. n PROVE cut[i] \in 0 .. Len(d)
  <2>1. CASE i = n
    BY <1>1, <1>8, <2>1
  <2>2. CASE i # n
    <3>1. i \in 0 .. n - 1
      BY <2>2
    <3>2. QED BY <1>1, <1>5, <1>7, <1>8, <3>1
  <2>3. QED BY <2>1, <2>2
<1>12. ASSUME NEW i \in 1 .. n - 1
       PROVE  /\ cut[i - 1] = start + (i - 1) * SIZE /\ cut[i] = start + i * SIZE
              /\ cut[i] = cut[i - 1] + SIZE
  <2>1. i \in 0 .. n - 1 /\ i - 1 \in 0 .. n - 1
    OBVIOUS
  <2>2. QED BY <1>6, <1>8, <2>1
<1>13. ASSUME NEW i \in 1 .. n PROVE cut[i - 1] <= cut[i]
  <2>1. CASE i = n
    BY <1>1, <1>7, <1>8, <1>10, <2>1
  <2>2. CASE i # n
    <3>1. i \in 1 .. n - 1 /\ i - 1 \in 0 .. n
      BY <2>2
    <3>2. cut[i - 1] \in Nat /\ cut[i] = cut[i - 1] + SIZE
      BY <1>1, <1>11, <1>12, <3>1
    <3>3. QED BY <1>1, <3>2
  <2>3. QED BY <2>1, <2>2
<1>14. QED BY <1>2, <1>4, <1>8, <1>10, <1>11, <1>12, <1>13 DEF start, cut

\* The chunks: the last one takes all the links of the root block with it.
LEMMA ChunksAre ==
  ASSUME NEW d \in Seq(Digits), NEW hs \in Seq(Hashes), root = Text(d, hs),
         Len(hs) <= MAX_NUM_LINKS, NumLinks > 0
  PROVE  LET n     == NumLinks
             start == Len(root) - n * SIZE
             cut   == Cuts(d, start, n)
         IN  /\ n \in 1 .. MAX_NUM_LINKS
             /\ start \in Nat /\ start <= Len(d)
             /\ cut[0] = start /\ cut[n] = Len(d)
             /\ \A i \in 0 .. n : cut[i] \in 0 .. Len(d)
             /\ \A i \in 1 .. n : cut[i - 1] <= cut[i]
             /\ \A i \in 1 .. n :
                  /\ SubSeq(d, cut[i - 1] + 1, cut[i]) \in Seq(Digits)
                  /\ Chunk(start, i) = Text(SubSeq(d, cut[i - 1] + 1, cut[i]),
                                            IF i = n THEN hs ELSE <<>>)
                  /\ Len(Chunk(start, i)) = SIZE
             /\ Left(start) = Text(SubSeq(d, 1, start), <<>>)
             /\ SubSeq(d, 1, start) \in Seq(Digits)
             /\ SubSeq(d, 1, start) \o SubSeq(d, start + 1, Len(d)) = d
<1>1. /\ root \in Seq(Chars) /\ d \in Seq(Chars) /\ Links(hs) \in Seq(Chars)
      /\ Len(root) = Len(d) + Len(hs) * W /\ Len(Links(hs)) = Len(hs) * W
      /\ Len(root) \in Nat /\ Len(d) \in Nat /\ Len(hs) \in Nat
      /\ root = d \o Links(hs)
  BY TextIs, ShapeOf, LinksType, DataIsText, LenProperties DEF Text
<1>2. PICK n : n = NumLinks
  OBVIOUS
<1>3. n \in 1 .. MAX_NUM_LINKS /\ n * SIZE < Len(root) /\ n * SIZE \in Nat
  BY <1>1, <1>2, NumLinksIs
<1>4. Len(hs) * W <= SIZE /\ Len(hs) * W \in Nat
  <2>1. PICK k \in Nat : k = Len(hs) /\ k <= MAX_NUM_LINKS
    BY <1>1
  <2>2. k \in Nat /\ W \in Nat /\ MAX_NUM_LINKS \in Nat /\ k <= MAX_NUM_LINKS
    BY <2>1, Sizes
  <2>3. k * W <= MAX_NUM_LINKS * W /\ k * W \in Nat /\ MAX_NUM_LINKS * W \in Nat
    BY <2>2, TimesMonotone
  <2>4. k * W <= SIZE
    BY <2>3, Sizes
  <2>5. QED BY <2>1, <2>3, <2>4
<1> DEFINE l == Len(root)
           start == l - n * SIZE
           cut == Cuts(d, start, n)
<1>5. /\ start \in Nat /\ start <= Len(d) /\ cut[0] = start /\ cut[n] = Len(d)
      /\ cut[n - 1] = l - SIZE
      /\ \A i \in 1 .. n - 1 : /\ cut[i - 1] = start + (i - 1) * SIZE
                               /\ cut[i] = start + i * SIZE
                               /\ cut[i] = cut[i - 1] + SIZE
      /\ start + (n - 1) * SIZE = l - SIZE /\ start + n * SIZE = l
      /\ \A i \in 0 .. n : cut[i] \in 0 .. Len(d)
      /\ \A i \in 1 .. n : cut[i - 1] <= cut[i]
  <2>1. n \in Nat /\ n > 0 /\ l \in Nat /\ Len(d) <= l /\ l <= Len(d) + SIZE
        /\ n * SIZE < l
    BY <1>1, <1>3, <1>4, Sizes
  <2> HIDE DEF l
  <2>2. QED BY <2>1, CutsAre
<1>6. \A i \in 1 .. n : Chunk(start, i) = SubSeq(root, start + (i - 1) * SIZE + 1, start + i * SIZE)
  BY DEF Chunk
<1>7. Left(start) = SubSeq(root, 1, start)
  BY DEF Left
<1>8. l = Len(d) + Len(Links(hs)) /\ l \in Nat /\ Len(d) <= l
  BY <1>1, <1>4
<1> HIDE DEF l, start, cut
<1>9. ASSUME NEW i \in 1 .. n
      PROVE  /\ SubSeq(d, cut[i - 1] + 1, cut[i]) \in Seq(Digits)
             /\ Chunk(start, i) = Text(SubSeq(d, cut[i - 1] + 1, cut[i]),
                                       IF i = n THEN hs ELSE <<>>)
             /\ Len(Chunk(start, i)) = SIZE
  <2>1. i \in 0 .. n /\ i - 1 \in 0 .. n /\ n \in Nat
    BY <1>3
  <2>2. PICK x \in Nat, y \in Nat :
          x = cut[i - 1] /\ y = cut[i] /\ x <= y /\ y <= Len(d)
    BY <1>1, <1>5, <2>1
  <2>3. /\ SubSeq(d, x + 1, y) \in Seq(Digits) /\ SubSeq(d, x + 1, y) \in Seq(Chars)
        /\ Len(SubSeq(d, x + 1, y)) = y - x
    <3>1. x \in Nat /\ y \in Nat /\ x <= y /\ y <= Len(d)
      BY <2>2
    <3>2. QED BY <3>1, <1>1, SubSeqType, DataIsText
  <2>4. CASE i # n
    <3>1. i \in 1 .. n - 1
      BY <1>3, <2>4
    <3>2. Chunk(start, i) = SubSeq(root, x + 1, y) /\ y = x + SIZE
      BY <1>5, <1>6, <2>2, <3>1
    <3>3. SubSeq(root, x + 1, y) = SubSeq(d, x + 1, y)
      <4>1. x \in Nat /\ y \in Nat /\ x <= y /\ y <= Len(d)
        BY <2>2
      <4>2. QED BY <4>1, <1>1, SubSeqBefore
    <3>4. Text(SubSeq(d, x + 1, y), <<>>) = SubSeq(d, x + 1, y)
      BY <2>3, LinksType, EmptySeq, ConcatEmptySeq DEF Text
    <3>5. y - x = SIZE
      BY <2>2, <3>2, Sizes
    <3>6. QED BY <2>2, <2>3, <2>4, <3>2, <3>3, <3>4, <3>5
  <2>5. CASE i = n
    <3>1. x = l - SIZE /\ y = Len(d) /\ x <= Len(d)
      BY <1>5, <2>2, <2>5
    <3>2. Chunk(start, i) = SubSeq(root, x + 1, l)
      BY <1>5, <1>6, <2>5, <3>1
    <3>3. SubSeq(root, x + 1, l) = SubSeq(d, x + 1, Len(d)) \o Links(hs)
      <4>1. x \in Nat /\ x <= Len(d)
        BY <2>2, <3>1
      <4>2. SubSeq(d \o Links(hs), x + 1, Len(d) + Len(Links(hs)))
              = SubSeq(d, x + 1, Len(d)) \o Links(hs)
        BY <4>1, <1>1, SubSeqFrom
      <4>3. QED BY <4>2, <1>1, <1>8
    <3>4. Len(SubSeq(d, x + 1, y) \o Links(hs)) = y - x + Len(Links(hs))
      BY <1>1, <2>3, ConcatProperties
    <3>5. y - x + Len(Links(hs)) = SIZE
      BY <1>1, <1>8, <2>2, <3>1, <1>4, Sizes
    <3>6. QED BY <2>2, <2>3, <2>5, <3>1, <3>2, <3>3, <3>4, <3>5 DEF Text
  <2>6. QED BY <2>4, <2>5
<1>10. /\ SubSeq(d, 1, start) \in Seq(Digits)
       /\ SubSeq(root, 1, start) = SubSeq(d, 1, start)
       /\ SubSeq(d, 1, start) \o SubSeq(d, start + 1, Len(d)) = d
  <2>1. start \in Nat /\ start <= Len(d) /\ 0 \in Nat /\ 0 <= start /\ 0 + 1 = 1
    BY <1>5
  <2>2. SubSeq(d, 0 + 1, start) \in Seq(Digits)
    BY <2>1, SubSeqType
  <2>3. SubSeq(d \o Links(hs), 0 + 1, start) = SubSeq(d, 0 + 1, start)
    BY <1>1, <2>1, SubSeqBefore
  <2>4. SubSeq(d, 0 + 1, start) \o SubSeq(d, start + 1, Len(d)) = SubSeq(d, 0 + 1, Len(d))
    <3>1. Len(d) \in Nat /\ Len(d) <= Len(d)
      BY <1>1
    <3>2. QED BY <2>1, <3>1, SubSeqConcat
  <2>5. SubSeq(d, 1, Len(d)) = d
    BY SubSeqFull
  <2>6. QED BY <1>1, <2>1, <2>2, <2>3, <2>4, <2>5
<1>11. Text(SubSeq(d, 1, start), <<>>) = SubSeq(d, 1, start)
  <2>1. SubSeq(d, 1, start) \in Seq(Chars)
    BY <1>10, DataIsText
  <2>2. QED BY <2>1, LinksType, EmptySeq, ConcatEmptySeq DEF Text
<1>12. QED BY <1>2, <1>3, <1>5, <1>7, <1>9, <1>10, <1>11 DEF l, start, cut

-----------------------------------------------------------------------------
(* The invariant of the codec is kept.                                     *)

LEMMA CodecStarts == CodecInit => CodecInv
<1> SUFFICES ASSUME CodecInit PROVE CodecInv
  OBVIOUS
<1>1. data \in Seq(Digits) /\ root = data /\ blocks = <<>> /\ hash = None
      /\ queue = <<>> /\ out = None
  <2>1. PICK length \in 0 .. MaxLength :
          \/ data = [i \in 1 .. length |-> <<0, i>>]
          \/ data = [i \in 1 .. length |-> <<0, 0>>]
    BY DEF CodecInit
  <2>2. length \in Nat
    BY CodecAssumption
  <2>3. \A i \in 1 .. length : <<0, i>> \in Digits /\ <<0, 0>> \in Digits
    BY <2>2 DEF Digits
  <2>4. data \in Seq(Digits)
    <3>1. [i \in 1 .. length |-> <<0, i>>] \in Seq(Digits)
      BY <2>2, <2>3
    <3>2. <<0, 0>> \in Digits
      BY DEF Digits
    <3>3. [i \in 1 .. length |-> <<0, 0>>] \in Seq(Digits)
      BY <2>2, <3>2
    <3>4. QED BY <2>1, <3>1, <3>3
  <2>5. QED BY <2>4 DEF CodecInit
<1>2. BlocksInv(blocks)
  <2>1. <<>> \in Seq(Seq(Chars)) /\ Len(<<>>) = 0
    BY EmptySeq
  <2>2. QED BY <1>1, <2>1 DEF BlocksInv
<1>3. RootInv
  <2>1. <<>> \in Seq(1 .. Len(blocks)) /\ Len(<<>>) = 0 /\ OnlyLast(blocks, <<>>)
    BY EmptySeq DEF OnlyLast
  <2>2. data = Text(data, <<>>)
    BY <1>1, DataIsText, LinksType, EmptySeq, ConcatEmptySeq DEF Text
  <2>3. data = data \o FlattenSeq(Parts(Reading, <<>>))
    <3>1. Parts(Reading, <<>>) = <<>>
      BY DEF Parts
    <3>2. FlattenSeq(Parts(Reading, <<>>)) = <<>>
      BY <3>1, FlattenEmpty
    <3>3. QED BY <1>1, <3>2, ConcatEmptySeq
  <2>4. 0 <= MAX_NUM_LINKS
    BY Sizes
  <2>5. QED BY <1>1, <2>1, <2>2, <2>3, <2>4 DEF RootInv
<1>4. QED BY <1>1, <1>2, <1>3 DEF CodecInv, QueueInv

LEMMA CutOffKeeps ==
  ASSUME CodecInv, CutOff
  PROVE  CodecInv' /\ Kept(blocks, blocks') /\ Len(blocks) <= Len(blocks')
<1>1. PICK d \in Seq(Digits), hs \in Seq(1 .. Len(blocks)) :
        /\ root = Text(d, hs) /\ Len(hs) <= MAX_NUM_LINKS /\ OnlyLast(blocks, hs)
        /\ data = d \o FlattenSeq(Parts(Reading, hs))
  BY DEF CodecInv, RootInv
<1>2. BlocksInv(blocks) /\ blocks \in Seq(Seq(Chars)) /\ Len(blocks) \in Nat
      /\ DOMAIN blocks = 1 .. Len(blocks)
  BY LenProperties DEF CodecInv, BlocksInv
<1>3. hs \in Seq(Hashes) /\ hs \in Seq(DOMAIN blocks)
  BY <1>2, HashesType
<1> DEFINE n == NumLinks
           start == Len(root) - n * SIZE
           cut == Cuts(d, start, n)
           piece(i) == SubSeq(d, cut[i - 1] + 1, cut[i])
           chunks == {Chunk(start, i) : i \in 1 .. n}
           hashes == [i \in 1 .. n |-> HashOf(blocks', Chunk(start, i))]
<1>4. /\ n > 0 /\ blocks' = Saved(start, n) /\ root' = Left(start) \o Links(hashes)
      /\ hash = None /\ UNCHANGED <<data, hash, queue, out>>
  BY DEF CutOff
<1>5. /\ n \in 1 .. MAX_NUM_LINKS
      /\ start \in Nat /\ start <= Len(d) /\ cut[0] = start /\ cut[n] = Len(d)
      /\ \A i \in 0 .. n : cut[i] \in 0 .. Len(d)
      /\ \A i \in 1 .. n : cut[i - 1] <= cut[i]
      /\ \A i \in 1 .. n :
           /\ piece(i) \in Seq(Digits)
           /\ Chunk(start, i) = Text(piece(i), IF i = n THEN hs ELSE <<>>)
           /\ Len(Chunk(start, i)) = SIZE
      /\ Left(start) = Text(SubSeq(d, 1, start), <<>>)
      /\ SubSeq(d, 1, start) \in Seq(Digits)
      /\ SubSeq(d, 1, start) \o SubSeq(d, start + 1, Len(d)) = d
  BY <1>1, <1>3, <1>4, ChunksAre
<1> HIDE DEF n, start, cut
<1>6. n \in Nat /\ <<>> \in Seq(Hashes) /\ Len(<<>>) = 0
  BY <1>5, Sizes, EmptySeq
<1>7. ASSUME NEW i \in 1 .. n
      PROVE  /\ Chunk(start, i) \in Seq(Chars) /\ Len(Chunk(start, i)) <= SIZE
             /\ DataPart(Chunk(start, i)) = piece(i)
             /\ LinksOf(Chunk(start, i)) = IF i = n THEN hs ELSE <<>>
             /\ Written(blocks, Len(blocks), Chunk(start, i))
  <2>1. piece(i) \in Seq(Digits) /\ Len(Chunk(start, i)) = SIZE
        /\ Chunk(start, i) = Text(piece(i), IF i = n THEN hs ELSE <<>>)
    BY <1>5
  <2> HIDE DEF piece
  <2>2. PICK gs \in Seq(Hashes) : gs = IF i = n THEN hs ELSE <<>>
    BY <1>3, <1>6
  <2>3. Chunk(start, i) = Text(piece(i), gs)
    BY <2>1, <2>2
  <2>4. /\ Chunk(start, i) \in Seq(Chars) /\ DataPart(Chunk(start, i)) = piece(i)
        /\ LinksOf(Chunk(start, i)) = gs
    BY <2>1, <2>2, <2>3, TextIs
  <2>5. gs \in Seq(1 .. Len(blocks)) /\ Len(gs) <= MAX_NUM_LINKS /\ OnlyLast(blocks, gs)
    <3>1. CASE i = n
      BY <1>1, <2>2, <3>1
    <3>2. CASE i # n
      <4>1. gs = <<>> /\ <<>> \in Seq(1 .. Len(blocks))
        BY <2>2, <3>2, EmptySeq
      <4>2. QED BY <4>1, <1>6, Sizes DEF OnlyLast
    <3>3. QED BY <3>1, <3>2
  <2>6. Written(blocks, Len(blocks), Chunk(start, i))
    BY <2>1, <2>3, <2>5 DEF Written
  <2>7. QED BY <2>1, <2>2, <2>4, <2>6, Sizes
<1>8. Extends(blocks, blocks', chunks)
  BY <1>2, <1>4, <1>6, <1>7, SavedIs
<1>9. BlocksInv(blocks') /\ Len(blocks) <= Len(blocks') /\ Len(blocks') \in Nat
  <2>1. \A t \in chunks : Written(blocks, Len(blocks), t) /\ Len(t) <= SIZE
    BY <1>7
  <2> HIDE DEF chunks
  <2>2. QED BY <1>2, <1>8, <2>1, BlocksGrow
<1>10. LinkedBefore(blocks) /\ LinkedBefore(blocks') /\ Kept(blocks, blocks')
       /\ DOMAIN blocks' = 1 .. Len(blocks')
  BY <1>2, <1>8, <1>9, BlocksAre DEF Extends, LinkedBefore
<1>11. IsReading(blocks', Reading')
  BY <1>10, ReadingIsPrime
<1>12. /\ Parts(Reading', hs) = Parts(Reading, hs)
       /\ FlattenSeq(Parts(Reading, hs)) \in Seq(Digits)
  BY <1>3, <1>10, PartsKept
<1>13. ASSUME NEW i \in 1 .. n
       PROVE  hashes[i] \in DOMAIN blocks' /\ blocks'[hashes[i]] = Chunk(start, i)
  <2>1. \E h \in DOMAIN blocks' : blocks'[h] = Chunk(start, i)
    BY <1>8 DEF Extends
  <2>2. QED BY <2>1, HashOfIs
<1>14. hashes \in Seq(1 .. Len(blocks')) /\ hashes \in Seq(DOMAIN blocks') /\ Len(hashes) = n
       /\ DOMAIN hashes = 1 .. n
  <2>1. \A i \in 1 .. n : hashes[i] \in 1 .. Len(blocks')
    BY <1>10, <1>13
  <2>2. hashes = [i \in 1 .. n |-> hashes[i]]
    OBVIOUS
  <2> HIDE DEF hashes
  <2>3. hashes \in Seq(1 .. Len(blocks')) /\ Len(hashes) = n /\ DOMAIN hashes = 1 .. n
    BY <1>6, <2>1, <2>2
  <2>4. QED BY <1>10, <2>3
<1> HIDE DEF hashes
<1>15. OnlyLast(blocks', hashes)
  <2>1. \A i \in 1 .. n - 1 : i \in 1 .. n /\ i # n
    BY <1>6
  <2>2. QED BY <1>7, <1>13, <1>14, <2>1 DEF OnlyLast
<1> DEFINE rest == FlattenSeq(Parts(Reading, hs))
           pieces == [i \in 1 .. n |-> piece(i)]
           reads == Parts(Reading', hashes)
<1>16. /\ reads \in Seq(Seq(Digits)) /\ Len(reads) = n
       /\ \A i \in 1 .. n : reads[i] = IF i = n THEN piece(i) \o rest ELSE piece(i)
  <2>1. \A i \in 1 .. n : reads[i] = Reading'[hashes[i]]
    BY <1>14 DEF Parts
  <2>2. ASSUME NEW i \in 1 .. n
        PROVE  Reading'[hashes[i]] = IF i = n THEN piece(i) \o rest ELSE piece(i)
    <3>1. Reading'[hashes[i]] = Read1(blocks', Reading', hashes[i])
      BY <1>11, <1>13, ReadingAt
    <3>2. Read1(blocks', Reading', hashes[i])
            = piece(i) \o FlattenSeq(Parts(Reading', LinksOf(Chunk(start, i))))
      BY <1>7, <1>13 DEF Read1
    <3>3. CASE i = n
      BY <1>7, <1>12, <3>1, <3>2, <3>3
    <3>4. CASE i # n
      <4>1. Parts(Reading', <<>>) = <<>>
        BY DEF Parts
      <4>2. piece(i) \o <<>> = piece(i)
        BY <1>5, ConcatEmptySeq
      <4>3. LinksOf(Chunk(start, i)) = <<>>
        BY <1>7, <3>4
      <4>4. QED BY <3>1, <3>2, <3>4, <4>1, <4>2, <4>3, FlattenEmpty
    <3>5. QED BY <3>3, <3>4
  <2>3. \A h \in 1 .. Len(blocks') : Reading'[h] \in Seq(Digits)
    BY <1>10, <1>11, ReadingType
  <2>4. reads \in Seq(Seq(Digits)) /\ Len(reads) = n
    BY <1>14, <2>3, PartsType
  <2>5. QED BY <2>1, <2>2, <2>4
<1>17. /\ pieces \in Seq(Seq(Digits)) /\ Len(pieces) = n
       /\ \A i \in 1 .. n : pieces[i] = piece(i)
  <2>1. \A i \in 1 .. n : piece(i) \in Seq(Digits)
    BY <1>5
  <2> HIDE DEF piece
  <2>2. QED BY <1>6, <2>1
<1>18. FlattenSeq(pieces) = SubSeq(d, start + 1, Len(d))
  <2>1. FlattenSeq([i \in 1 .. n |-> SubSeq(d, cut[i - 1] + 1, cut[i])])
          = SubSeq(d, cut[0] + 1, cut[n])
    BY <1>5, <1>6, FlattenPieces
  <2>2. QED BY <1>5, <2>1
<1> HIDE DEF pieces, reads, piece, rest
<1>19. FlattenSeq(reads) = FlattenSeq(pieces) \o rest
  <2>1. n \in 1 .. n /\ n # 0 /\ \A i \in 1 .. n - 1 : i \in 1 .. n /\ i # n
    BY <1>5, <1>6
  <2>2. pieces # <<>>
    BY <1>6, <1>17, <2>1
  <2>3. Longer(pieces, reads, rest)
    BY <1>16, <1>17, <2>1, <2>2 DEF Longer
  <2>4. rest \in Seq(Digits)
    BY <1>12 DEF rest
  <2>5. QED BY <1>16, <1>17, <2>3, <2>4, FlattenLast
<1>20. data' = SubSeq(d, 1, start) \o FlattenSeq(reads)
  <2>1. SubSeq(d, start + 1, Len(d)) \in Seq(Digits) /\ rest \in Seq(Digits)
    <3>1. FlattenSeq(pieces) \in Seq(Digits)
      BY <1>17, FlattenType
    <3>2. QED BY <1>12, <1>18, <3>1 DEF rest
  <2>2. (SubSeq(d, 1, start) \o SubSeq(d, start + 1, Len(d))) \o rest
          = SubSeq(d, 1, start) \o (SubSeq(d, start + 1, Len(d)) \o rest)
    <3>1. ASSUME NEW p \in Seq(Digits), NEW q \in Seq(Digits), NEW r \in Seq(Digits)
          PROVE  (p \o q) \o r = p \o (q \o r)
      BY ConcatAssociative
    <3>2. SubSeq(d, 1, start) \in Seq(Digits)
      BY <1>5
    <3>3. QED BY <2>1, <3>1, <3>2
  <2>3. data' = d \o rest
    BY <1>1, <1>4 DEF rest
  <2>4. QED BY <1>5, <1>18, <1>19, <2>2, <2>3
<1>21. root' = Text(SubSeq(d, 1, start), hashes)
  <2>1. Text(SubSeq(d, 1, start), <<>>) = SubSeq(d, 1, start)
    <3>1. SubSeq(d, 1, start) \in Seq(Chars)
      BY <1>5, DataIsText
    <3>2. QED BY <3>1, LinksType, EmptySeq, ConcatEmptySeq DEF Text
  <2>2. QED BY <1>4, <1>5, <2>1 DEF Text, hashes
<1>22. RootInv'
  <2>1. Len(hashes) <= MAX_NUM_LINKS
    BY <1>5, <1>14, Sizes
  <2>2. QED BY <1>5, <1>14, <1>15, <1>20, <1>21, <2>1 DEF RootInv, reads
<1>23. out = None /\ queue = <<>>
  BY <1>4 DEF CodecInv, QueueInv
<1>24. QED BY <1>4, <1>9, <1>10, <1>22, <1>23 DEF CodecInv, QueueInv

LEMMA SaveRootKeeps ==
  ASSUME CodecInv, SaveRoot
  PROVE  CodecInv' /\ Kept(blocks, blocks') /\ hash' \in DOMAIN blocks'
         /\ Len(blocks) <= Len(blocks')
<1>1. PICK d \in Seq(Digits), hs \in Seq(1 .. Len(blocks)) :
        /\ root = Text(d, hs) /\ Len(hs) <= MAX_NUM_LINKS /\ OnlyLast(blocks, hs)
        /\ data = d \o FlattenSeq(Parts(Reading, hs))
  BY DEF CodecInv, RootInv
<1>2. BlocksInv(blocks) /\ blocks \in Seq(Seq(Chars)) /\ Len(blocks) \in Nat
      /\ DOMAIN blocks = 1 .. Len(blocks)
  BY LenProperties DEF CodecInv, BlocksInv
<1>3. hs \in Seq(Hashes) /\ hs \in Seq(DOMAIN blocks)
  BY <1>2, HashesType
<1>4. root \in Seq(Chars) /\ DataPart(root) = d /\ LinksOf(root) = hs /\ Len(root) \in Nat
  BY <1>1, <1>3, TextIs, LenProperties
<1>5. /\ NumLinks = 0 /\ hash = None
      /\ blocks' = With(blocks, root) /\ hash' = HashOf(blocks', root)
      /\ UNCHANGED <<data, root, queue, out>>
  BY DEF SaveRoot
<1>6. Len(root) <= SIZE
  <2>1. CASE root = <<>>
    BY <2>1, EmptySeq, Sizes
  <2>2. CASE root # <<>>
    <3> DEFINE most == (Len(root) - 1) \div SIZE
    <3>1. Len(root) \in Nat \ {0}
      BY <1>4, <2>2, EmptySeq
    <3>2. most \in Nat /\ Len(root) - 1 < SIZE * most + SIZE
      <4>1. PICK a \in Nat : a = Len(root) - 1
        BY <3>1
      <4>2. a \div SIZE \in Nat /\ a < SIZE * (a \div SIZE) + SIZE
        BY Sizes, DivisionBelow
      <4>3. QED BY <4>1, <4>2
    <3>3. NumLinks = IF most < MAX_NUM_LINKS THEN most ELSE MAX_NUM_LINKS
      BY <2>2 DEF NumLinks
    <3> HIDE DEF most
    <3>4. most = 0
      BY <1>5, <3>2, <3>3, Sizes
    <3>5. SIZE * 0 + SIZE = SIZE
      BY Sizes
    <3>6. QED BY <1>4, <3>2, <3>4, <3>5, Sizes
  <2>3. QED BY <2>1, <2>2
<1>7. Written(blocks, Len(blocks), root)
  BY <1>1 DEF Written
<1>8. Extends(blocks, blocks', {root})
  BY <1>2, <1>4, <1>5, WithIs
<1>9. BlocksInv(blocks') /\ Len(blocks) <= Len(blocks') /\ Len(blocks') \in Nat
  BY <1>2, <1>6, <1>7, <1>8, BlocksGrow
<1>10. LinkedBefore(blocks) /\ LinkedBefore(blocks') /\ Kept(blocks, blocks')
       /\ DOMAIN blocks' = 1 .. Len(blocks')
  BY <1>2, <1>8, <1>9, BlocksAre DEF Extends, LinkedBefore
<1>11. IsReading(blocks', Reading')
  BY <1>10, ReadingIsPrime
<1>12. Parts(Reading', hs) = Parts(Reading, hs)
  BY <1>3, <1>10, PartsKept
<1>13. hash' \in DOMAIN blocks' /\ blocks'[hash'] = root
  <2>1. \E h \in DOMAIN blocks' : blocks'[h] = root
    BY <1>8 DEF Extends
  <2>2. QED BY <1>5, <2>1, HashOfIs
<1>14. Reading'[hash'] = data'
  <2>1. Reading'[hash'] = Read1(blocks', Reading', hash')
    BY <1>11, <1>13, ReadingAt
  <2>2. Read1(blocks', Reading', hash') = d \o FlattenSeq(Parts(Reading', hs))
    BY <1>4, <1>13 DEF Read1
  <2>3. QED BY <1>1, <1>5, <1>12, <2>1, <2>2
<1>15. RootInv'
  <2>1. hs \in Seq(1 .. Len(blocks'))
    <3>1. 1 .. Len(blocks) \subseteq 1 .. Len(blocks')
      BY <1>2, <1>9
    <3>2. QED BY <3>1, SeqMonotonic
  <2>2. OnlyLast(blocks', hs)
    BY <1>1, <1>3, <1>10, OnlyLastKept
  <2>3. data' = d \o FlattenSeq(Parts(Reading', hs))
    BY <1>1, <1>5, <1>12
  <2>4. QED BY <1>1, <1>5, <2>1, <2>2, <2>3 DEF RootInv
<1>16. out' = None /\ queue' = <<>>
  BY <1>5 DEF CodecInv, QueueInv
<1>17. QED BY <1>5, <1>9, <1>10, <1>13, <1>14, <1>15, <1>16 DEF CodecInv, QueueInv

LEMMA ReadingStays ==
  ASSUME UNCHANGED <<data, root, blocks, hash>>, CodecInv
  PROVE  /\ Reading' = Reading /\ RootInv' /\ BlocksInv(blocks')
         /\ data' \in Seq(Digits)
         /\ hash' # None => hash' \in 1 .. Len(blocks') /\ Reading'[hash'] = data'
<1>1. Reading' = Reading
  BY DEF Reading
<1>2. RootInv'
  BY <1>1 DEF CodecInv, RootInv
<1>3. QED BY <1>1, <1>2 DEF CodecInv

\* Decoding begins with the hash alone.
LEMMA DecodingKeeps ==
  ASSUME CodecInv, hash # None, UNCHANGED <<data, root, blocks, hash>>,
         out' = <<>>, queue' = <<hash>>
  PROVE  CodecInv'
<1>1. /\ Reading' = Reading /\ RootInv' /\ BlocksInv(blocks')
      /\ data' \in Seq(Digits)
      /\ hash' # None => hash' \in 1 .. Len(blocks') /\ Reading'[hash'] = data'
  BY ReadingStays
<1>2. hash \in 1 .. Len(blocks) /\ Reading[hash] = data /\ data \in Seq(Digits)
  BY DEF CodecInv
<1>3. queue' \in Seq(1 .. Len(blocks')) /\ OnlyLast(blocks', queue')
  <2>1. <<hash>> \in Seq(1 .. Len(blocks)) /\ Len(<<hash>>) = 1
    BY <1>2
  <2>2. 1 .. 1 - 1 = {}
    OBVIOUS
  <2>3. QED BY <2>1, <2>2 DEF OnlyLast
<1>4. data' = out' \o FlattenSeq(Parts(Reading', queue'))
  <2>1. Parts(Reading, <<hash>>) = <<Reading[hash]>>
    BY DEF Parts
  <2>2. FlattenSeq(Parts(Reading, <<hash>>)) = data
    BY <1>2, <2>1, FlattenOne
  <2>3. <<>> \o data = data
    BY <1>2, ConcatEmptySeq
  <2>4. QED BY <1>1, <2>2, <2>3
<1>5. out' # None /\ out' \in Seq(Digits)
  <2>1. <<>> \in Seq(Digits)
    BY EmptySeq
  <2>2. <<>> # None
    BY <2>1, CodecAssumption DEF Digits
  <2>3. QED BY <2>1, <2>2
<1>6. QED BY <1>1, <1>3, <1>4, <1>5 DEF CodecInv, QueueInv

LEMMA PartsConcat ==
  ASSUME NEW n, NEW hs \in Seq(1 .. n), NEW gs \in Seq(1 .. n), NEW f
  PROVE  Parts(f, hs \o gs) = Parts(f, hs) \o Parts(f, gs)
<1>0. PICK T : \A k \in 1 .. n : f[k] \in T
  <2>1. \A k \in 1 .. n : f[k] \in {f[j] : j \in 1 .. n}
    OBVIOUS
  <2>2. QED BY <2>1
<1>1. /\ hs \o gs \in Seq(1 .. n) /\ Len(hs \o gs) = Len(hs) + Len(gs)
      /\ Len(hs) \in Nat /\ Len(gs) \in Nat
      /\ \A i \in 1 .. Len(hs) + Len(gs) :
           (hs \o gs)[i] = IF i <= Len(hs) THEN hs[i] ELSE gs[i - Len(hs)]
  BY ConcatProperties, LenProperties
<1> DEFINE Fine(ls) == /\ Parts(f, ls) \in Seq(T) /\ Len(Parts(f, ls)) = Len(ls)
                       /\ \A i \in 1 .. Len(ls) : Parts(f, ls)[i] = f[ls[i]]
<1>2. ASSUME NEW ls \in Seq(1 .. n) PROVE Fine(ls)
  BY <1>0, PartsType
<1>3. Fine(hs) /\ Fine(gs) /\ Fine(hs \o gs)
  <2> HIDE DEF Fine
  <2>1. QED BY <1>1, <1>2
<1>4. /\ Parts(f, hs) \o Parts(f, gs) \in Seq(T)
      /\ Len(Parts(f, hs) \o Parts(f, gs)) = Len(hs) + Len(gs)
      /\ \A i \in 1 .. Len(hs) + Len(gs) : (Parts(f, hs) \o Parts(f, gs))[i] =
           IF i <= Len(hs) THEN Parts(f, hs)[i] ELSE Parts(f, gs)[i - Len(hs)]
  <2>1. ASSUME NEW p \in Seq(T), NEW q \in Seq(T)
        PROVE  /\ p \o q \in Seq(T) /\ Len(p \o q) = Len(p) + Len(q)
               /\ \A i \in 1 .. Len(p) + Len(q) :
                    (p \o q)[i] = IF i <= Len(p) THEN p[i] ELSE q[i - Len(p)]
    BY ConcatProperties
  <2>2. PICK p \in Seq(T) : p = Parts(f, hs) /\ Len(p) = Len(hs)
    BY <1>3
  <2>3. PICK q \in Seq(T) : q = Parts(f, gs) /\ Len(q) = Len(gs)
    BY <1>3
  <2>4. /\ p \o q \in Seq(T) /\ Len(p \o q) = Len(p) + Len(q)
        /\ \A i \in 1 .. Len(p) + Len(q) :
             (p \o q)[i] = IF i <= Len(p) THEN p[i] ELSE q[i - Len(p)]
    BY <2>1
  <2>5. /\ p \o q \in Seq(T) /\ Len(p \o q) = Len(hs) + Len(gs)
        /\ \A i \in 1 .. Len(hs) + Len(gs) :
             (p \o q)[i] = IF i <= Len(hs) THEN p[i] ELSE q[i - Len(hs)]
    <3> HIDE <2>1
    <3>1. QED BY <2>2, <2>3, <2>4
  <2>6. QED BY <2>2, <2>3, <2>5
<1>5. ASSUME NEW i \in 1 .. Len(hs) + Len(gs)
      PROVE  Parts(f, hs \o gs)[i] = (Parts(f, hs) \o Parts(f, gs))[i]
  <2>1. CASE i <= Len(hs)
    <3>1. i \in 1 .. Len(hs)
      BY <1>1, <2>1
    <3>2. QED BY <1>1, <1>3, <1>4, <2>1, <3>1
  <2>2. CASE ~(i <= Len(hs))
    <3>1. i - Len(hs) \in 1 .. Len(gs)
      BY <1>1, <2>2
    <3>2. QED BY <1>1, <1>3, <1>4, <2>2, <3>1
  <2>3. QED BY <2>1, <2>2
<1>6. Len(Parts(f, hs \o gs)) = Len(hs) + Len(gs) /\ Parts(f, hs \o gs) \in Seq(T)
  BY <1>1, <1>3
<1>7. QED BY <1>4, <1>5, <1>6, SeqEqual

\* A block that goes by gives its data, and what comes next is what it links.
LEMMA ReadBlockKeeps ==
  ASSUME CodecInv, ReadBlock
  PROVE  CodecInv' /\ out # None /\ out' # None
         /\ queue \in Seq(1 .. Len(blocks)) /\ Head(queue) \in DOMAIN blocks
         /\ queue' = Tail(queue) \o LinksOf(blocks[Head(queue)])
<1> DEFINE h == Head(queue)
           links == LinksOf(blocks[h])
           tail == Tail(queue)
           flat(hs) == FlattenSeq(Parts(Reading, hs))
           l == Len(blocks)
<1>1. /\ queue # <<>>
      /\ out' = out \o DataPart(blocks[h]) /\ queue' = tail \o links
      /\ UNCHANGED <<data, root, blocks, hash>>
  BY DEF ReadBlock, Enqueue
<1>2. /\ out # None /\ hash # None /\ out \in Seq(Digits)
      /\ queue \in Seq(1 .. l) /\ OnlyLast(blocks, queue)
      /\ data = out \o flat(queue)
  BY <1>1 DEF CodecInv, QueueInv
<1>3. BlocksInv(blocks) /\ LinkedBefore(blocks) /\ DOMAIN blocks = 1 .. l /\ l \in Nat
  BY BlocksAre DEF CodecInv, LinkedBefore
<1>4. IsReading(blocks, Reading)
  BY <1>3, ReadingIs
<1>5. \A k \in 1 .. l : Reading[k] \in Seq(Digits)
  BY <1>3, <1>4, ReadingType
<1> HIDE DEF l
<1>6. /\ h \in 1 .. l /\ tail \in Seq(1 .. l) /\ Len(tail) = Len(queue) - 1
      /\ Len(queue) \in Nat /\ Len(queue) > 0
      /\ \A i \in 1 .. Len(tail) : tail[i] = queue[i + 1]
      /\ queue[1] = h
  <2>1. Len(queue) \in Nat \ {0}
    BY <1>1, <1>2, EmptySeq
  <2>2. queue[1] = h
    BY <1>2, <2>1
  <2>3. /\ h \in 1 .. l /\ tail \in Seq(1 .. l) /\ Len(tail) = Len(queue) - 1
        /\ \A i \in 1 .. Len(tail) : tail[i] = queue[i + 1]
    BY <1>1, <1>2, HeadTailProperties
  <2>4. Len(queue) > 0
    BY <2>1
  <2>5. QED BY <2>1, <2>2, <2>3, <2>4
<1> HIDE DEF h, tail
<1>7. /\ links \in Seq(1 .. l) /\ OnlyLast(blocks, links)
      /\ DataPart(blocks[h]) \in Seq(Digits)
  BY <1>3, <1>6, BlocksAre DEF LinkedBefore, l
<1>8. Reading[h] = DataPart(blocks[h]) \o flat(links)
  BY <1>3, <1>4, <1>6, ReadingAt DEF Read1
<1>9. /\ \A hs \in Seq(1 .. l) : flat(hs) \in Seq(Digits)
      /\ \A hs \in Seq(1 .. l), gs \in Seq(1 .. l) : flat(hs \o gs) = flat(hs) \o flat(gs)
  <2>1. \A hs \in Seq(1 .. l) : Parts(Reading, hs) \in Seq(Seq(Digits))
    BY <1>5, PartsType
  <2>2. \A hs \in Seq(1 .. l) : flat(hs) \in Seq(Digits)
    BY <2>1, FlattenType
  <2>3. ASSUME NEW hs \in Seq(1 .. l), NEW gs \in Seq(1 .. l)
        PROVE  flat(hs \o gs) = flat(hs) \o flat(gs)
    <3>1. Parts(Reading, hs \o gs) = Parts(Reading, hs) \o Parts(Reading, gs)
      <4>1. PICK f : f = Reading
        OBVIOUS
      <4>2. Parts(f, hs \o gs) = Parts(f, hs) \o Parts(f, gs)
        BY PartsConcat
      <4>3. QED BY <4>1, <4>2
    <3>2. QED BY <2>1, <3>1, FlattenConcat
  <2>4. QED BY <2>2, <2>3
<1>10. flat(queue) = Reading[h] \o flat(tail)
  <2>1. <<h>> \in Seq(1 .. l) /\ Len(<<h>>) = 1 /\ <<h>>[1] = h
    BY <1>6
  <2>2. queue = <<h>> \o tail
    <3>1. /\ <<h>> \o tail \in Seq(1 .. l) /\ Len(<<h>> \o tail) = 1 + Len(tail)
          /\ \A i \in 1 .. 1 + Len(tail) :
               (<<h>> \o tail)[i] = IF i <= 1 THEN <<h>>[i] ELSE tail[i - 1]
      BY <1>6, <2>1, ConcatProperties
    <3>2. ASSUME NEW i \in 1 .. Len(queue) PROVE queue[i] = (<<h>> \o tail)[i]
      <4>1. CASE i = 1
        BY <1>6, <2>1, <3>1, <4>1
      <4>2. CASE i # 1
        <5>1. i - 1 \in 1 .. Len(tail) /\ i - 1 + 1 = i /\ ~(i <= 1)
              /\ i \in 1 .. 1 + Len(tail)
          BY <1>6, <4>2
        <5>2. tail[i - 1] = queue[i]
          BY <1>6, <5>1
        <5>3. QED BY <3>1, <5>1, <5>2
      <4>3. QED BY <4>1, <4>2
    <3>3. Len(queue) = 1 + Len(tail)
      BY <1>6
    <3>4. QED BY <1>2, <3>1, <3>2, <3>3, SeqEqual
  <2>3. flat(queue) = flat(<<h>>) \o flat(tail)
    BY <1>6, <1>9, <2>1, <2>2
  <2>4. Parts(Reading, <<h>>) = <<Reading[h]>>
    BY DEF Parts
  <2>5. flat(<<h>>) = Reading[h]
    BY <2>4, FlattenOne
  <2>6. QED BY <2>3, <2>5
<1>11. /\ queue' \in Seq(1 .. l) /\ OnlyLast(blocks, queue')
       /\ flat(queue) = DataPart(blocks[h]) \o flat(queue')
  <2>1. CASE Len(queue) = 1
    <3>1. tail = <<>>
      BY <1>6, <2>1, EmptySeq
    <3>2. queue' = links
      BY <1>1, <1>7, <3>1, ConcatEmptySeq DEF tail, h
    <3>3. flat(tail) = <<>>
      <4>1. Parts(Reading, <<>>) = <<>>
        BY DEF Parts
      <4>2. QED BY <3>1, <4>1, FlattenEmpty
    <3>4. Reading[h] \o <<>> = Reading[h]
      BY <1>5, <1>6, ConcatEmptySeq
    <3>5. QED BY <1>7, <1>8, <1>10, <3>2, <3>3, <3>4
  <2>2. CASE Len(queue) # 1
    <3>1. 1 \in 1 .. Len(queue) - 1
      BY <1>6, <2>2
    <3>2. links = <<>>
      BY <1>2, <1>6, <3>1 DEF OnlyLast
    <3>3. queue' = tail
      BY <1>1, <1>6, <3>2, ConcatEmptySeq DEF tail, h
    <3>4. OnlyLast(blocks, tail)
      <4>1. \A i \in 1 .. Len(tail) - 1 : /\ i + 1 \in 1 .. Len(queue) - 1
                                          /\ tail[i] = queue[i + 1]
        BY <1>6
      <4>2. QED BY <1>2, <4>1 DEF OnlyLast
    <3>5. flat(links) = <<>>
      <4>1. Parts(Reading, <<>>) = <<>>
        BY DEF Parts
      <4>2. QED BY <3>2, <4>1, FlattenEmpty
    <3>6. DataPart(blocks[h]) \o <<>> = DataPart(blocks[h])
      BY <1>7, ConcatEmptySeq
    <3>7. QED BY <1>6, <1>8, <1>10, <3>3, <3>4, <3>5, <3>6
  <2>3. QED BY <2>1, <2>2
<1>12. /\ out' \in Seq(Digits)
       /\ data = out' \o flat(queue')
  <2>1. flat(queue') \in Seq(Digits)
    BY <1>9, <1>11
  <2>2. out \o DataPart(blocks[h]) \in Seq(Digits)
    BY <1>2, <1>7, ConcatProperties
  <2>3. (out \o DataPart(blocks[h])) \o flat(queue')
          = out \o (DataPart(blocks[h]) \o flat(queue'))
    BY <1>2, <1>7, <2>1, ConcatAssociative
  <2>4. out' = out \o DataPart(blocks[h])
    BY <1>1 DEF h
  <2>5. QED BY <1>2, <1>11, <2>2, <2>3, <2>4
<1>13. /\ Reading' = Reading /\ RootInv' /\ BlocksInv(blocks')
       /\ data' \in Seq(Digits)
       /\ hash' # None => hash' \in 1 .. Len(blocks') /\ Reading'[hash'] = data'
  BY <1>1, ReadingStays
<1>14. out' # None
  BY <1>12, CodecAssumption DEF Digits
<1>15. QueueInv'
  <2>1. hash' # None /\ Len(blocks') = l /\ data' = data /\ blocks' = blocks
    BY <1>1, <1>2 DEF l
  <2>2. QED BY <1>11, <1>12, <1>13, <1>14, <2>1 DEF QueueInv
<1>16. queue' = Tail(queue) \o LinksOf(blocks[Head(queue)])
  BY <1>1 DEF tail, h
<1>17. QED BY <1>2, <1>3, <1>6, <1>13, <1>14, <1>15, <1>16 DEF CodecInv, h, l

LEMMA CodecStutters ==
  ASSUME CodecInv, UNCHANGED <<data, root, blocks, hash, queue, out>>
  PROVE  CodecInv'
<1>1. /\ Reading' = Reading /\ RootInv' /\ BlocksInv(blocks')
      /\ data' \in Seq(Digits)
      /\ hash' # None => hash' \in 1 .. Len(blocks') /\ Reading'[hash'] = data'
  BY ReadingStays
<1>2. QueueInv'
  BY <1>1 DEF CodecInv, QueueInv
<1>3. QED BY <1>1, <1>2 DEF CodecInv

LEMMA CodecNothingLost == CodecInv => NothingLost
<1> SUFFICES ASSUME CodecInv PROVE NothingLost
  OBVIOUS
<1>1. BlocksInv(blocks) /\ LinkedBefore(blocks) /\ DOMAIN blocks = 1 .. Len(blocks)
      /\ Len(blocks) \in Nat
  BY BlocksAre DEF CodecInv, LinkedBefore
<1>2. \A hs \in Seq(1 .. Len(blocks)) : None \notin ToSet(hs)
  <2>1. \A hs \in Seq(1 .. Len(blocks)) : \A i \in DOMAIN hs : hs[i] \in Nat
    BY LenProperties, ElementOfSeq
  <2>2. QED BY <2>1, Sizes DEF ToSet
<1>3. CASE hash = None
  <2>1. PICK d \in Seq(Digits), hs \in Seq(1 .. Len(blocks)) :
          root = Text(d, hs) /\ data = d \o FlattenSeq(Parts(Reading, hs))
    BY DEF CodecInv, RootInv
  <2>2. DataPart(root) = d /\ LinksOf(root) = hs
    <3>1. hs \in Seq(Hashes)
      BY <1>1, HashesType
    <3>2. QED BY <2>1, <3>1, TextIs
  <2>3. QED BY <1>2, <1>3, <2>1, <2>2 DEF NothingLost, Parts
<1>4. CASE hash # None
  <2>1. hash \in DOMAIN blocks /\ Reading[hash] = data
    BY <1>1, <1>4 DEF CodecInv
  <2>2. LinksOf(blocks[hash]) \in Seq(1 .. Len(blocks))
    BY <1>1, <2>1, BlocksAre
  <2>3. data = Read1(blocks, Reading, hash)
    BY <1>1, <2>1, ReadingIs, ReadingAt
  <2>4. QED BY <1>2, <1>4, <2>2, <2>3 DEF NothingLost, Read1, Parts
<1>5. QED BY <1>3, <1>4

LEMMA CodecReadInOrder == CodecInv => ReadInOrder
<1> SUFFICES ASSUME CodecInv, out # None PROVE IsPrefix(out, data)
  BY DEF ReadInOrder
<1>1. /\ out \in Seq(Digits) /\ queue \in Seq(1 .. Len(blocks))
      /\ data = out \o FlattenSeq(Parts(Reading, queue))
  BY DEF CodecInv, QueueInv
<1>2. BlocksInv(blocks) /\ LinkedBefore(blocks) /\ DOMAIN blocks = 1 .. Len(blocks)
  BY BlocksAre DEF CodecInv, LinkedBefore
<1>3. \A k \in 1 .. Len(blocks) : Reading[k] \in Seq(Digits)
  BY <1>2, ReadingIs, ReadingType
<1>4. PICK rest \in Seq(Digits) : rest = FlattenSeq(Parts(Reading, queue))
  BY <1>1, <1>3, PartsType, FlattenType
<1>5. Len(data) = Len(out) + Len(rest) /\ Len(out) \in Nat /\ Len(rest) \in Nat
  BY <1>1, <1>4, ConcatProperties, LenProperties
<1>6. SubSeq(data, 1, Len(out)) = SubSeq(out, 1, Len(out))
  <2>1. 0 \in Nat /\ Len(out) \in Nat /\ 0 <= Len(out) /\ Len(out) <= Len(out)
    BY <1>5
  <2>2. SubSeq(out \o rest, 0 + 1, Len(out)) = SubSeq(out, 0 + 1, Len(out))
    BY <1>1, <1>4, <2>1, SubSeqBefore
  <2>3. QED BY <1>1, <1>4, <2>2
<1>7. QED BY <1>5, <1>6 DEF IsPrefix

-----------------------------------------------------------------------------
(* Trees of tasks.                                                         *)

Path   == Seq(1 .. MAX_NUM_LINKS)
States == {"dht", "links", "waiting", "done", "failed"}

LinksAt(tasks, saved, p) == LinksOf(saved[tasks[p].hash])

\* The first task is that of the block with the hash. Each other one is that of
\* a link of a task that waits; and a task that waits has one for every link.
TreeInv(tasks, saved, h) ==
  /\ tasks # <<>> => <<>> \in DOMAIN tasks /\ tasks[<<>>].hash = h
  /\ \A p \in DOMAIN tasks : p \in Path /\ tasks[p] \in [hash : DOMAIN saved, state : States]
  /\ \A p \in DOMAIN tasks :
       p = <<>> \/ \E o \in DOMAIN tasks : \E i \in DOMAIN LinksAt(tasks, saved, o) :
                     /\ p = Append(o, i) /\ tasks[o].state = "waiting"
                     /\ tasks[p].hash = LinksAt(tasks, saved, o)[i]
  /\ \A p \in DOMAIN tasks : tasks[p].state = "waiting" =>
       \A i \in DOMAIN LinksAt(tasks, saved, p) :
         /\ Append(p, i) \in DOMAIN tasks
         /\ tasks[Append(p, i)].hash = LinksAt(tasks, saved, p)[i]
  /\ \A p \in DOMAIN tasks : tasks[p].state = "done" => LinksAt(tasks, saved, p) = <<>>

\* The task at p goes on, and the others do not.
Moved(tasks, t, p) ==
  /\ p \in DOMAIN tasks /\ DOMAIN tasks \subseteq DOMAIN t /\ t # <<>>
  /\ \A q \in DOMAIN tasks : t[q].hash = tasks[q].hash
  /\ \A q \in DOMAIN tasks : q # p => t[q].state = tasks[q].state
  /\ \A q \in DOMAIN t \ DOMAIN tasks : t[q].state \in {"dht", "links"}

LEMMA NoTasks ==
  ASSUME NEW t
  PROVE  /\ DOMAIN <<>> = {}
         /\ (\E p : p \in DOMAIN t) => t # <<>>
<1>1. DOMAIN <<>> = {}
  OBVIOUS
<1>2. QED BY <1>1

LEMMA TreeOfNone ==
  ASSUME NEW saved, NEW h
  PROVE  TreeInv(<<>>, saved, h)
BY NoTasks DEF TreeInv

LEMMA TreeOfOne ==
  ASSUME NEW saved, NEW h \in DOMAIN saved, NEW s \in {"dht", "links"}
  PROVE  /\ TreeInv(Root(h, s), saved, h)
         /\ DOMAIN Root(h, s) = {<<>>} /\ Root(h, s)[<<>>].state = s
<1>1. DOMAIN Root(h, s) = {<<>>} /\ Root(h, s)[<<>>] = [hash |-> h, state |-> s]
  <2>1. Root(h, s) = [x \in {<<>>} |-> [hash |-> h, state |-> s]]
    BY DEF Root
  <2>2. QED BY <2>1
<1>2. <<>> \in Path
  BY EmptySeq DEF Path
<1>3. [hash |-> h, state |-> s] \in [hash : DOMAIN saved, state : States]
  BY DEF States
<1>4. QED BY <1>1, <1>2, <1>3 DEF TreeInv

LEMMA ToIs ==
  ASSUME NEW tasks, NEW saved, NEW h, TreeInv(tasks, saved, h),
         NEW p \in DOMAIN tasks, NEW s \in States
  PROVE  /\ DOMAIN To(tasks, p, s) = DOMAIN tasks
         /\ To(tasks, p, s)[p].state = s
         /\ \A q \in DOMAIN tasks : To(tasks, p, s)[q].hash = tasks[q].hash
         /\ \A q \in DOMAIN tasks : q # p => To(tasks, p, s)[q] = tasks[q]
         /\ \A q \in DOMAIN tasks :
              To(tasks, p, s)[q] \in [hash : DOMAIN saved, state : States]
<1> DEFINE t == To(tasks, p, s)
<1>1. \A q \in DOMAIN tasks : tasks[q] \in [hash : DOMAIN saved, state : States]
  BY DEF TreeInv
<1>2. t = [q \in DOMAIN tasks |-> IF q = p THEN [tasks[p] EXCEPT !.state = s]
                                  ELSE tasks[q]]
  BY DEF To
<1>3. DOMAIN t = DOMAIN tasks /\ t[p] = [tasks[p] EXCEPT !.state = s]
      /\ \A q \in DOMAIN tasks : q # p => t[q] = tasks[q]
  BY <1>2
<1> HIDE DEF t
<1>4. /\ [tasks[p] EXCEPT !.state = s].state = s
      /\ [tasks[p] EXCEPT !.state = s].hash = tasks[p].hash
      /\ [tasks[p] EXCEPT !.state = s] \in [hash : DOMAIN saved, state : States]
  BY <1>1
<1>5. QED BY <1>1, <1>3, <1>4 DEF t

LEMMA LinksAre ==
  ASSUME NEW saved, LinkedBefore(saved), NEW h \in DOMAIN saved,
         Len(LinksOf(saved[h])) <= MAX_NUM_LINKS
  PROVE  \A i \in DOMAIN LinksOf(saved[h]) :
           i \in 1 .. MAX_NUM_LINKS /\ LinksOf(saved[h])[i] \in DOMAIN saved
<1>1. LinksOf(saved[h]) \in Seq(1 .. h - 1) /\ h \in 1 .. Len(saved)
      /\ DOMAIN saved = 1 .. Len(saved) /\ Len(saved) \in Nat
  BY DEF LinkedBefore
<1> DEFINE links == LinksOf(saved[h])
<1> HIDE DEF links
<1>2. links \in Seq(1 .. h - 1) /\ Len(links) <= MAX_NUM_LINKS
  BY <1>1 DEF links
<1>3. DOMAIN links = 1 .. Len(links) /\ Len(links) \in Nat
      /\ \A i \in 1 .. Len(links) : links[i] \in 1 .. h - 1
  BY <1>2, LenProperties, ElementOfSeq
<1>4. MAX_NUM_LINKS \in Nat
  BY Sizes
<1>5. QED BY <1>1, <1>2, <1>3, <1>4 DEF links

\* A task that does not wait has none below it.
LEMMA NoneBelow ==
  ASSUME NEW tasks, NEW saved, NEW h, TreeInv(tasks, saved, h), LinkedBefore(saved),
         \A k \in DOMAIN saved : Len(LinksOf(saved[k])) <= MAX_NUM_LINKS,
         NEW p \in DOMAIN tasks, tasks[p].state # "waiting",
         NEW i \in 1 .. MAX_NUM_LINKS
  PROVE  Append(p, i) \notin DOMAIN tasks
<1> SUFFICES ASSUME Append(p, i) \in DOMAIN tasks PROVE FALSE
  OBVIOUS
<1>1. p \in Path
  BY DEF TreeInv
<1>2. Append(p, i) # <<>>
  BY <1>1, AppendProperties DEF Path
<1>3. PICK o \in DOMAIN tasks : \E j \in DOMAIN LinksAt(tasks, saved, o) :
        Append(p, i) = Append(o, j) /\ tasks[o].state = "waiting"
  BY <1>2 DEF TreeInv
<1>4. PICK j \in DOMAIN LinksAt(tasks, saved, o) :
        Append(p, i) = Append(o, j) /\ tasks[o].state = "waiting"
  BY <1>3
<1>5. o \in Path /\ tasks[o].hash \in DOMAIN saved
  BY DEF TreeInv
<1>6. j \in 1 .. MAX_NUM_LINKS
  BY <1>5, LinksAre DEF LinksAt
<1>7. o = p
  BY <1>1, <1>4, <1>5, <1>6, AppendInjective DEF Path
<1>8. QED BY <1>4, <1>7

\* What has been saved, as the trees need it.
Saves(saved) ==
  /\ LinkedBefore(saved)
  /\ \A k \in DOMAIN saved : Len(LinksOf(saved[k])) <= MAX_NUM_LINKS

\* A task that runs goes on: to something else, to an end, or it fails.
LEMMA TaskGoesOn ==
  ASSUME NEW tasks, NEW saved, NEW h, TreeInv(tasks, saved, h), Saves(saved),
         NEW p \in DOMAIN tasks, tasks[p].state \in {"dht", "links"},
         NEW s \in {"dht", "links", "done", "failed"},
         s = "done" => LinksAt(tasks, saved, p) = <<>>
  PROVE  /\ TreeInv(To(tasks, p, s), saved, h) /\ Moved(tasks, To(tasks, p, s), p)
         /\ To(tasks, p, s)[p].state = s
         /\ DOMAIN To(tasks, p, s) = DOMAIN tasks
<1> DEFINE t == To(tasks, p, s)
<1>1. s \in States
  BY DEF States
<1>2. /\ DOMAIN t = DOMAIN tasks /\ t[p].state = s
      /\ \A q \in DOMAIN tasks : t[q].hash = tasks[q].hash
      /\ \A q \in DOMAIN tasks : q # p => t[q] = tasks[q]
      /\ \A q \in DOMAIN tasks : t[q] \in [hash : DOMAIN saved, state : States]
  BY <1>1, ToIs
<1> HIDE DEF t
<1>3. t # <<>> /\ tasks # <<>>
  BY <1>2, NoTasks
<1>4. Moved(tasks, t, p)
  BY <1>2, <1>3 DEF Moved
<1>5. \A q \in DOMAIN tasks : LinksAt(t, saved, q) = LinksAt(tasks, saved, q)
  BY <1>2 DEF LinksAt
<1>6. <<>> \in DOMAIN t /\ t[<<>>].hash = h
  BY <1>2, <1>3 DEF TreeInv
<1>7. \A q \in DOMAIN t : q \in Path /\ t[q] \in [hash : DOMAIN saved, state : States]
  BY <1>2 DEF TreeInv
<1>8. ASSUME NEW q \in DOMAIN t, q # <<>>
      PROVE  \E o \in DOMAIN t : \E i \in DOMAIN LinksAt(t, saved, o) :
               /\ q = Append(o, i) /\ t[o].state = "waiting"
               /\ t[q].hash = LinksAt(t, saved, o)[i]
  <2>1. q \in DOMAIN tasks
    BY <1>2
  <2>2. PICK o \in DOMAIN tasks : \E i \in DOMAIN LinksAt(tasks, saved, o) :
               /\ q = Append(o, i) /\ tasks[o].state = "waiting"
               /\ tasks[q].hash = LinksAt(tasks, saved, o)[i]
    BY <1>8, <2>1 DEF TreeInv
  <2>3. o # p
    BY <2>2
  <2>4. o \in DOMAIN t /\ t[o].state = "waiting"
        /\ LinksAt(t, saved, o) = LinksAt(tasks, saved, o) /\ t[q].hash = tasks[q].hash
    BY <1>2, <1>5, <2>1, <2>2, <2>3
  <2>5. QED BY <2>2, <2>4
<1>9. ASSUME NEW q \in DOMAIN t, t[q].state = "waiting",
             NEW i \in DOMAIN LinksAt(t, saved, q)
      PROVE  /\ Append(q, i) \in DOMAIN t
             /\ t[Append(q, i)].hash = LinksAt(t, saved, q)[i]
  <2>1. q \in DOMAIN tasks /\ q # p
    BY <1>2, <1>9
  <2>2. tasks[q].state = "waiting" /\ i \in DOMAIN LinksAt(tasks, saved, q)
    BY <1>2, <1>5, <1>9, <2>1
  <2>3. /\ Append(q, i) \in DOMAIN tasks
        /\ tasks[Append(q, i)].hash = LinksAt(tasks, saved, q)[i]
    BY <2>1, <2>2 DEF TreeInv
  <2>4. QED BY <1>2, <1>5, <2>1, <2>3
<1>10. ASSUME NEW q \in DOMAIN t, t[q].state = "done"
       PROVE  LinksAt(t, saved, q) = <<>>
  <2>1. CASE q = p
    BY <1>2, <1>5, <1>10, <2>1
  <2>2. CASE q # p
    <3>1. LinksAt(tasks, saved, q) = <<>>
      BY <1>2, <1>10, <2>2 DEF TreeInv
    <3>2. QED BY <1>2, <1>5, <3>1
  <2>3. QED BY <2>1, <2>2
<1>11. TreeInv(t, saved, h)
  BY <1>6, <1>7, <1>8, <1>9, <1>10 DEF TreeInv
<1>12. QED BY <1>2, <1>4, <1>11 DEF t

LEMMA LastOfAppend ==
  ASSUME NEW p \in Path, NEW i \in 1 .. MAX_NUM_LINKS
  PROVE  Append(p, i) \in Path /\ Last(Append(p, i)) = i
<1>1. /\ Append(p, i) \in Path /\ Len(Append(p, i)) = Len(p) + 1
      /\ Append(p, i)[Len(p) + 1] = i
  BY AppendProperties DEF Path
<1>2. QED BY <1>1 DEF Last

\* A task whose block is there ends, or waits for those of the links.
LEMMA TaskBranches ==
  ASSUME NEW tasks, NEW h, TreeInv(tasks, blocks, h), Saves(blocks),
         NEW p \in DOMAIN tasks, tasks[p].state \in {"dht", "links"},
         NEW s \in {"dht", "links"}
  PROVE  /\ TreeInv(Branch(tasks, p, s), blocks, h)
         /\ Moved(tasks, Branch(tasks, p, s), p)
         /\ Branch(tasks, p, s)[p].state \in {"waiting", "done"}
<1> DEFINE links == LinksAt(tasks, blocks, p)
           children == {Append(p, i) : i \in DOMAIN links}
           waiting == To(tasks, p, "waiting")
           t == Branch(tasks, p, s)
<1>1. CASE links = <<>>
  <2>1. t = To(tasks, p, "done")
    BY <1>1 DEF Branch, LinksAt
  <2>2. QED BY <1>1, <2>1, TaskGoesOn
<1>2. CASE links # <<>>
  <2>1. t = [q \in DOMAIN tasks \cup children |->
               IF q \in children THEN [hash |-> links[Last(q)], state |-> s]
               ELSE waiting[q]]
    BY <1>2 DEF Branch, LinksAt
  <2>2. /\ DOMAIN waiting = DOMAIN tasks /\ waiting[p].state = "waiting"
        /\ \A q \in DOMAIN tasks : waiting[q].hash = tasks[q].hash
        /\ \A q \in DOMAIN tasks : q # p => waiting[q] = tasks[q]
        /\ \A q \in DOMAIN tasks : waiting[q] \in [hash : DOMAIN blocks, state : States]
    BY ToIs DEF States
  <2> HIDE DEF t, waiting
  <2>3. p \in Path /\ tasks[p].hash \in DOMAIN blocks /\ tasks # <<>>
    BY NoTasks DEF TreeInv
  <2>4. \A i \in DOMAIN links : i \in 1 .. MAX_NUM_LINKS /\ links[i] \in DOMAIN blocks
    BY <2>3, LinksAre DEF Saves, LinksAt
  <2>5. \A i \in DOMAIN links : Append(p, i) \in Path /\ Last(Append(p, i)) = i
    BY <2>3, <2>4, LastOfAppend
  <2>6. \A i \in DOMAIN links : Append(p, i) \notin DOMAIN tasks
    BY <2>4, NoneBelow DEF Saves
  <2> HIDE DEF links
  <2>7. \A q \in DOMAIN tasks : q \notin children
    BY <2>6
  <2>8. /\ DOMAIN t = DOMAIN tasks \cup children
        /\ \A q \in DOMAIN tasks : t[q] = waiting[q]
    BY <2>1, <2>7
  <2>9. \A i \in DOMAIN links : Append(p, i) \in children
    OBVIOUS
  <2>10. \A i \in DOMAIN links :
           Append(p, i) \in DOMAIN t
             /\ t[Append(p, i)] = [hash |-> links[i], state |-> s]
    BY <2>1, <2>5, <2>8, <2>9
  <2>100. \A i \in DOMAIN links :
            /\ Append(p, i) \in DOMAIN t
            /\ t[Append(p, i)].hash = links[i] /\ t[Append(p, i)].state = s
            /\ links[i] \in DOMAIN blocks =>
                 t[Append(p, i)] \in [hash : DOMAIN blocks, state : States]
    <3>1. ASSUME NEW k
          PROVE  /\ [hash |-> k, state |-> s].hash = k
                 /\ [hash |-> k, state |-> s].state = s
                 /\ k \in DOMAIN blocks =>
                      [hash |-> k, state |-> s] \in [hash : DOMAIN blocks, state : States]
      BY DEF States
    <3>2. SUFFICES ASSUME NEW i \in DOMAIN links
                   PROVE  /\ Append(p, i) \in DOMAIN t
                          /\ t[Append(p, i)].hash = links[i]
                          /\ t[Append(p, i)].state = s
                          /\ links[i] \in DOMAIN blocks =>
                               t[Append(p, i)] \in [hash : DOMAIN blocks, state : States]
      OBVIOUS
    <3>3. PICK k : k = links[i]
      OBVIOUS
    <3>4. Append(p, i) \in DOMAIN t /\ t[Append(p, i)] = [hash |-> k, state |-> s]
      BY <2>10, <3>3
    <3>5. /\ [hash |-> k, state |-> s].hash = k
          /\ [hash |-> k, state |-> s].state = s
          /\ k \in DOMAIN blocks =>
               [hash |-> k, state |-> s] \in [hash : DOMAIN blocks, state : States]
      BY <3>1
    <3>6. QED BY <3>3, <3>4, <3>5
  <2>11. \A q \in children : \E i \in DOMAIN links : q = Append(p, i)
    OBVIOUS
  <2> HIDE DEF children
  <2>12. t # <<>>
    BY <2>8, NoTasks
  <2>13. /\ \A q \in DOMAIN tasks : t[q].hash = tasks[q].hash
         /\ \A q \in DOMAIN tasks : q # p => t[q] = tasks[q]
         /\ t[p].state = "waiting"
    BY <2>2, <2>8
  <2>14. \A q \in children : t[q].state = s
    BY <2>100, <2>11
  <2>15. Moved(tasks, t, p)
    BY <2>8, <2>12, <2>13, <2>14 DEF Moved
  <2>16. <<>> \in DOMAIN t /\ t[<<>>].hash = h
    BY <2>3, <2>8, <2>13 DEF TreeInv
  <2>17. \A q \in DOMAIN t : q \in Path /\ t[q] \in [hash : DOMAIN blocks, state : States]
    <3>1. \A q \in DOMAIN tasks : q \in Path /\ t[q] \in [hash : DOMAIN blocks, state : States]
      BY <2>2, <2>8 DEF TreeInv
    <3>2. ASSUME NEW i \in DOMAIN links
          PROVE  /\ Append(p, i) \in Path
                 /\ t[Append(p, i)] \in [hash : DOMAIN blocks, state : States]
      BY <2>4, <2>5, <2>100
    <3>3. \A q \in children : q \in Path /\ t[q] \in [hash : DOMAIN blocks, state : States]
      BY <2>11, <3>2
    <3>4. QED BY <2>8, <3>1, <3>3
  <2>18. \A q \in DOMAIN tasks : LinksAt(t, blocks, q) = LinksAt(tasks, blocks, q)
    BY <2>13 DEF LinksAt
  <2>19. ASSUME NEW q \in DOMAIN t, q # <<>>
         PROVE  \E o \in DOMAIN t : \E i \in DOMAIN LinksAt(t, blocks, o) :
                  /\ q = Append(o, i) /\ t[o].state = "waiting"
                  /\ t[q].hash = LinksAt(t, blocks, o)[i]
    <3>1. CASE q \in DOMAIN tasks
      <4>1. PICK o \in DOMAIN tasks : \E i \in DOMAIN LinksAt(tasks, blocks, o) :
               /\ q = Append(o, i) /\ tasks[o].state = "waiting"
               /\ tasks[q].hash = LinksAt(tasks, blocks, o)[i]
        BY <2>19, <3>1 DEF TreeInv
      <4>2. o # p
        BY <4>1
      <4>3. o \in DOMAIN t /\ t[o].state = "waiting" /\ t[q].hash = tasks[q].hash
            /\ LinksAt(t, blocks, o) = LinksAt(tasks, blocks, o)
        BY <2>8, <2>13, <2>18, <3>1, <4>1, <4>2
      <4>4. QED BY <4>1, <4>3
    <3>2. CASE q \in children
      <4>1. PICK i \in DOMAIN links : q = Append(p, i)
        BY <2>11, <3>2
      <4>2. LinksAt(t, blocks, p) = links /\ t[q].hash = links[i] /\ p \in DOMAIN t
        BY <2>8, <2>100, <2>18, <4>1 DEF links
      <4>3. QED BY <2>13, <4>1, <4>2
    <3>3. QED BY <2>8, <3>1, <3>2
  <2>20. ASSUME NEW q \in DOMAIN t, t[q].state = "waiting",
                NEW i \in DOMAIN LinksAt(t, blocks, q)
         PROVE  /\ Append(q, i) \in DOMAIN t
                /\ t[Append(q, i)].hash = LinksAt(t, blocks, q)[i]
    <3>1. q \in DOMAIN tasks
      BY <2>8, <2>14, <2>20
    <3>2. CASE q = p
      <4>1. LinksAt(t, blocks, p) = links
        BY <2>18 DEF links
      <4>2. QED BY <2>100, <2>20, <3>2, <4>1
    <3>3. CASE q # p
      <4>1. tasks[q].state = "waiting" /\ i \in DOMAIN LinksAt(tasks, blocks, q)
        BY <2>13, <2>18, <2>20, <3>1, <3>3
      <4>2. /\ Append(q, i) \in DOMAIN tasks
            /\ tasks[Append(q, i)].hash = LinksAt(tasks, blocks, q)[i]
        BY <3>1, <4>1 DEF TreeInv
      <4>3. QED BY <2>8, <2>13, <2>18, <3>1, <4>2
    <3>4. QED BY <3>2, <3>3
  <2>21. ASSUME NEW q \in DOMAIN t, t[q].state = "done"
         PROVE  LinksAt(t, blocks, q) = <<>>
    <3>1. q \in DOMAIN tasks /\ q # p
      BY <2>8, <2>13, <2>14, <2>21
    <3>2. LinksAt(tasks, blocks, q) = <<>>
      BY <2>13, <2>21, <3>1 DEF TreeInv
    <3>3. QED BY <2>18, <3>1, <3>2
  <2>22. TreeInv(t, blocks, h)
    BY <2>16, <2>17, <2>19, <2>20, <2>21 DEF TreeInv
  <2>23. QED BY <2>13, <2>15, <2>22 DEF t
<1>3. QED BY <1>1, <1>2

-----------------------------------------------------------------------------
(* The inductive invariant.                                                *)

ValuesInv ==
  /\ stored \subseteq DOMAIN blocks /\ inDHT \subseteq DOMAIN blocks
  /\ payload \in {None, "hash", "error"}
  /\ answer \in {None, "data", "error", "broken"}
  /\ posted \in BOOLEAN /\ faults \in 0 .. MaxFaults
  /\ shared \subseteq DOMAIN fetches

\* The hash is only told when nothing of the tree of uploads runs. The example
\* has all of its blocks.
UploadsInv ==
  /\ TreeInv(uploads, blocks, hash)
  /\ hash = None => uploads = <<>>
  /\ payload = "hash" => Fulfilled(uploads)
  /\ ~posted => uploads = <<>> /\ payload = None /\ stored = DOMAIN blocks

\* Nobody asks before the hash is told. Until a task or something else fails the
\* blocks of the tasks that are through are there; undisturbed, a download that
\* did fail was of a block that no peer has.
FetchesInv ==
  /\ TreeInv(fetches, blocks, hash)
  /\ fetches # <<>> => payload = "hash"
  /\ faults = 0 /\ ~Failed(fetches) => \A p \in DOMAIN fetches :
       fetches[p].state \in {"waiting", "done"} => fetches[p].hash \in stored
  /\ Undisturbed => \A p \in DOMAIN fetches :
       fetches[p].state = "failed" => fetches[p].hash \notin inDHT
  /\ answer = "error" => Failed(fetches)
  /\ answer # None => fetches # <<>>

\* What is decoded for a GET are blocks of the tree, which is through.
AnswerInv ==
  /\ answer = "data" => out # None /\ queue = <<>>
  /\ posted /\ out # None =>
       /\ Fulfilled(fetches)
       /\ \A i \in DOMAIN queue : \E p \in DOMAIN fetches : fetches[p].hash = queue[i]
  /\ faults = 0 => answer # "broken"

IInv == CodecInv /\ ValuesInv /\ UploadsInv /\ FetchesInv /\ AnswerInv

LEMMA SavesAre ==
  ASSUME NEW saved, BlocksInv(saved)
  PROVE  Saves(saved) /\ DOMAIN saved = 1 .. Len(saved) /\ Len(saved) \in Nat
<1>1. LinkedBefore(saved)
  BY BlocksAre
<1>2. QED BY <1>1, BlocksAre DEF Saves, LinkedBefore

\* Without a hash there are no tasks.
LEMMA BeforeTheHash ==
  ASSUME IInv, hash = None
  PROVE  uploads = <<>> /\ fetches = <<>> /\ payload # "hash" /\ answer = None /\ out = None
<1>1. uploads = <<>>
  BY DEF IInv, UploadsInv
<1>2. payload # "hash"
  BY <1>1 DEF IInv, UploadsInv, Fulfilled
<1>3. fetches = <<>>
  BY <1>2 DEF IInv, FetchesInv
<1>4. answer = None
  BY <1>3 DEF IInv, FetchesInv
<1>5. out = None
  BY DEF IInv, CodecInv, QueueInv
<1>6. QED BY <1>1, <1>2, <1>3, <1>4, <1>5

\* Without a GET nothing is read but by the example.
LEMMA BeforeTheGet ==
  ASSUME IInv, fetches = <<>>
  PROVE  answer = None /\ (posted => out = None)
<1>1. answer = None
  BY DEF IInv, FetchesInv
<1>2. posted => out = None
  BY DEF IInv, AnswerInv, Fulfilled
<1>3. QED BY <1>1, <1>2

LEMMA ExampleHas ==
  ASSUME IInv, ~posted
  PROVE  /\ uploads = <<>> /\ fetches = <<>> /\ payload = None /\ answer = None
         /\ stored = DOMAIN blocks
<1>1. uploads = <<>> /\ payload = None /\ stored = DOMAIN blocks
  BY DEF IInv, UploadsInv
<1>2. None # "hash"
  BY EndpointsAssumption
<1>3. fetches = <<>>
  BY <1>1, <1>2 DEF IInv, FetchesInv
<1>4. QED BY <1>1, <1>3, BeforeTheGet

LEMMA Starts == Init => IInv
<1> SUFFICES ASSUME Init PROVE IInv
  OBVIOUS
<1>1. CodecInv
  BY CodecStarts DEF Init
<1>2. /\ blocks = <<>> /\ hash = None /\ queue = <<>> /\ out = None
      /\ stored = {} /\ inDHT = {} /\ uploads = <<>> /\ payload = None
      /\ fetches = <<>> /\ answer = None /\ shared = {} /\ faults = 0 /\ posted \in BOOLEAN
  BY DEF Init, CodecInit
<1>3. DOMAIN <<>> = {}
  BY NoTasks
<1>4. MaxFaults \in Nat /\ None # "hash" /\ None # "error" /\ None # "data"
      /\ None # "broken"
  BY EndpointsAssumption
<1>5. ValuesInv
  BY <1>2, <1>3, <1>4 DEF ValuesInv
<1>6. UploadsInv
  BY <1>2, <1>3, <1>4, TreeOfNone DEF UploadsInv
<1>7. FetchesInv
  BY <1>2, <1>3, <1>4, TreeOfNone DEF FetchesInv
<1>8. AnswerInv
  BY <1>2, <1>4 DEF AnswerInv
<1>9. QED BY <1>1, <1>5, <1>6, <1>7, <1>8 DEF IInv

\* The peer that encodes has what it saves; there are no tasks yet.
LEMMA EncodeKeeps == ASSUME IInv, Encode PROVE IInv'
<1>1. /\ CutOff /\ stored' = DOMAIN blocks' /\ hash = None /\ hash' = None
      /\ UNCHANGED <<queue, out, posted, inDHT, uploads, payload, fetches, answer, shared, faults>>
  BY DEF Encode, CutOff
<1>2. CodecInv' /\ Kept(blocks, blocks')
  BY <1>1, CutOffKeeps DEF IInv
<1>3. uploads = <<>> /\ fetches = <<>> /\ payload # "hash" /\ answer = None /\ out = None
  BY <1>1, BeforeTheHash
<1>4. ValuesInv'
  BY <1>1, <1>2 DEF IInv, ValuesInv, Kept
<1>5. UploadsInv'
  BY <1>1, <1>3, TreeOfNone DEF IInv, UploadsInv
<1>6. FetchesInv'
  BY <1>1, <1>3, TreeOfNone, NoTasks, EndpointsAssumption DEF FetchesInv
<1>7. AnswerInv'
  BY <1>1, <1>3, EndpointsAssumption DEF AnswerInv
<1>8. QED BY <1>2, <1>4, <1>5, <1>6, <1>7 DEF IInv

LEMMA EncodedKeeps == ASSUME IInv, Encoded PROVE IInv'
<1>1. /\ SaveRoot /\ stored' = DOMAIN blocks' /\ hash = None
      /\ uploads' = (IF posted THEN Root(hash', "dht") ELSE <<>>)
      /\ UNCHANGED <<queue, out, posted, inDHT, payload, fetches, answer, shared, faults>>
  BY DEF Encoded, SaveRoot
<1>2. CodecInv' /\ Kept(blocks, blocks') /\ hash' \in DOMAIN blocks'
  BY <1>1, SaveRootKeeps DEF IInv
<1>3. uploads = <<>> /\ fetches = <<>> /\ payload # "hash" /\ answer = None /\ out = None
  BY <1>1, BeforeTheHash
<1>4. ValuesInv'
  BY <1>1, <1>2 DEF IInv, ValuesInv, Kept
<1>5. hash' # None
  <2>1. DOMAIN blocks' = 1 .. Len(blocks') /\ Len(blocks') \in Nat
    BY <1>2, SavesAre DEF CodecInv
  <2>2. QED BY <1>2, <2>1, CodecAssumption
<1>6. TreeInv(uploads', blocks', hash')
  BY <1>1, <1>2, TreeOfOne, TreeOfNone
<1>7. UploadsInv'
  BY <1>1, <1>3, <1>5, <1>6 DEF IInv, UploadsInv
<1>8. FetchesInv'
  BY <1>1, <1>3, TreeOfNone, NoTasks, EndpointsAssumption DEF FetchesInv
<1>9. AnswerInv'
  BY <1>1, <1>3, EndpointsAssumption DEF AnswerInv
<1>10. QED BY <1>2, <1>4, <1>7, <1>8, <1>9 DEF IInv

\* While an upload runs nobody has been told the hash, and nobody asks.
LEMMA UploadedKeeps ==
  ASSUME IInv, NEW t, NEW p, Moved(uploads, t, p), TreeInv(t, blocks, hash),
         uploads[p].state \in {"dht", "links"}, Uploaded(t),
         inDHT' \subseteq DOMAIN blocks,
         UNCHANGED <<Encoding, Fetching, posted, stored, faults>>
  PROVE  IInv'
<1>1. /\ uploads' = t
      /\ UNCHANGED <<data, root, blocks, hash, fetches, answer, shared, queue, out, posted, stored, faults>>
  BY DEF Uploaded, Encoding, Fetching
<1>2. CodecInv'
  BY <1>1, CodecStutters DEF IInv
<1>3. p \in DOMAIN uploads /\ uploads # <<>> /\ t # <<>>
  BY NoTasks DEF Moved
<1>4. payload # "hash" /\ hash # None /\ posted
  BY <1>3 DEF IInv, UploadsInv, ValuesInv, Fulfilled
<1>5. fetches = <<>>
  BY <1>4 DEF IInv, FetchesInv
<1>6. answer = None /\ out = None
  BY <1>4, <1>5, BeforeTheGet
<1>7. payload' \in {None, "hash", "error"} /\ (payload' = "hash" => Fulfilled(t))
  BY <1>4, EndpointsAssumption DEF Uploaded, IInv, ValuesInv
<1>8. ValuesInv'
  BY <1>1, <1>7 DEF IInv, ValuesInv
<1>9. UploadsInv'
  BY <1>1, <1>4, <1>7 DEF UploadsInv
<1>10. FetchesInv'
  BY <1>1, <1>5, <1>6, TreeOfNone, NoTasks, EndpointsAssumption DEF FetchesInv
<1>11. AnswerInv'
  BY <1>1, <1>6, EndpointsAssumption DEF AnswerInv
<1>12. QED BY <1>2, <1>8, <1>9, <1>10, <1>11 DEF IInv

LEMMA UploadEndsKeeps == ASSUME IInv, NEW p \in DOMAIN uploads, UploadEnds(p) PROVE IInv'
<1> DEFINE s == IF uploads[p].hash \in stored THEN "links" ELSE "failed"
           t == To(uploads, p, s)
<1>1. /\ uploads[p].state = "dht" /\ Uploaded(t)
      /\ inDHT' \in IF uploads[p].hash \in stored THEN {inDHT, inDHT \cup {uploads[p].hash}}
                    ELSE {inDHT}
      /\ UNCHANGED <<Encoding, Fetching, posted, stored, faults>>
  BY DEF UploadEnds
<1>2. TreeInv(uploads, blocks, hash) /\ Saves(blocks)
  BY SavesAre DEF IInv, UploadsInv, CodecInv
<1>3. s \in {"dht", "links", "done", "failed"} /\ s # "done"
  OBVIOUS
<1> HIDE DEF s
<1>4. TreeInv(t, blocks, hash) /\ Moved(uploads, t, p)
  BY <1>1, <1>2, <1>3, TaskGoesOn
<1>5. inDHT' \subseteq DOMAIN blocks
  BY <1>1 DEF IInv, ValuesInv
<1> HIDE DEF t
<1>6. QED BY <1>1, <1>4, <1>5, UploadedKeeps

LEMMA UploadLinksKeeps == ASSUME IInv, NEW p \in DOMAIN uploads, UploadLinks(p) PROVE IInv'
<1>1. /\ uploads[p].state = "links" /\ inDHT' = inDHT
      /\ UNCHANGED <<Encoding, Fetching, posted, stored, faults>>
  BY DEF UploadLinks
<1>2. PICK t : Uploaded(t) /\ t = IF uploads[p].hash \in stored THEN Branch(uploads, p, "dht")
                                  ELSE To(uploads, p, "failed")
  BY DEF UploadLinks
<1>3. TreeInv(uploads, blocks, hash) /\ Saves(blocks)
  BY SavesAre DEF IInv, UploadsInv, CodecInv
<1>4. /\ TreeInv(Branch(uploads, p, "dht"), blocks, hash)
      /\ Moved(uploads, Branch(uploads, p, "dht"), p)
  BY <1>1, <1>3, TaskBranches
<1>5. /\ TreeInv(To(uploads, p, "failed"), blocks, hash)
      /\ Moved(uploads, To(uploads, p, "failed"), p)
  BY <1>1, <1>3, TaskGoesOn
<1>6. TreeInv(t, blocks, hash) /\ Moved(uploads, t, p)
  BY <1>2, <1>4, <1>5
<1>7. inDHT' \subseteq DOMAIN blocks
  BY <1>1 DEF IInv, ValuesInv
<1>8. QED BY <1>1, <1>2, <1>6, <1>7, UploadedKeeps

LEMMA FetchKeeps == ASSUME IInv, NEW some \in SUBSET DOMAIN blocks, Fetch(some) PROVE IInv'
<1>1. /\ payload = "hash" /\ fetches = <<>> /\ stored' = some /\ fetches' = Root(hash, "links")
      /\ UNCHANGED <<data, root, blocks, hash, uploads, payload, answer, shared, queue, out,
                     posted, inDHT, faults>>
  BY DEF Fetch, Encoding, Saving
<1>2. CodecInv'
  BY <1>1, CodecStutters DEF IInv
<1>3. hash # None /\ posted
  BY <1>1, BeforeTheHash, ExampleHas, EndpointsAssumption
<1>4. answer = None /\ out = None
  BY <1>1, <1>3, BeforeTheGet DEF IInv, ValuesInv
<1>5. hash \in DOMAIN blocks
  BY <1>3, SavesAre DEF IInv, CodecInv
<1>6. /\ TreeInv(fetches', blocks, hash)
      /\ DOMAIN fetches' = {<<>>} /\ fetches'[<<>>].state = "links"
  BY <1>1, <1>5, TreeOfOne
<1>7. ValuesInv'
  BY <1>1 DEF IInv, ValuesInv
<1>8. UploadsInv'
  BY <1>1, <1>3 DEF IInv, UploadsInv, Fulfilled
<1>9. FetchesInv'
  BY <1>1, <1>4, <1>6, EndpointsAssumption DEF FetchesInv
<1>10. AnswerInv'
  BY <1>1, <1>4, EndpointsAssumption DEF AnswerInv
<1>11. QED BY <1>2, <1>7, <1>8, <1>9, <1>10 DEF IInv

\* What holds of the tasks of a GET goes on to hold, if it does of the one that
\* goes on. Decoding begins when none of them runs.
LEMMA GotKeeps ==
  ASSUME IInv, NEW t, NEW p, Moved(fetches, t, p), TreeInv(t, blocks, hash),
         fetches[p].state \in {"dht", "links"}, Got(t),
         Failed(t) \/ stored \subseteq stored', stored' \subseteq DOMAIN blocks,
         shared' \subseteq DOMAIN fetches, faults' \in 0 .. MaxFaults,
         faults' = 0 => faults = 0, Undisturbed' => Undisturbed,
         t[p].state \in {"waiting", "done"} => t[p].hash \in stored',
         Undisturbed' /\ t[p].state = "failed" => t[p].hash \notin inDHT,
         UNCHANGED <<Encoding, Saving, posted, inDHT>>
  PROVE  IInv'
<1>1. /\ fetches' = t
      /\ UNCHANGED <<data, root, blocks, hash, uploads, payload, posted, inDHT>>
  BY DEF Got, Encoding, Saving
<1>2. p \in DOMAIN fetches /\ fetches # <<>> /\ t # <<>>
  BY NoTasks DEF Moved
<1>3. payload = "hash" /\ Fulfilled(uploads) /\ hash # None /\ posted
  <2>1. payload = "hash"
    BY <1>2 DEF IInv, FetchesInv
  <2>2. QED BY <2>1, BeforeTheHash, ExampleHas, EndpointsAssumption DEF IInv, UploadsInv
<1>4. ~Fulfilled(fetches) /\ out = None /\ queue = <<>>
  <2>1. ~Fulfilled(fetches)
    BY <1>2 DEF Fulfilled
  <2>2. out = None
    BY <1>3, <2>1 DEF IInv, AnswerInv
  <2>3. QED BY <2>1, <2>2 DEF IInv, CodecInv, QueueInv
<1>5. answer # "data"
  BY <1>4 DEF IInv, AnswerInv
<1>6. CodecInv'
  <2>1. CASE answer = None /\ Fulfilled(t)
    <3>1. queue' = <<hash>> /\ out' = <<>>
      BY <2>1 DEF Got
    <3>2. QED BY <1>1, <1>3, <3>1, DecodingKeeps DEF IInv
  <2>2. CASE ~(answer = None /\ Fulfilled(t))
    <3>1. UNCHANGED <<queue, out>>
      BY <2>2 DEF Got
    <3>2. QED BY <1>1, <3>1, CodecStutters DEF IInv
  <2>3. QED BY <2>1, <2>2
<1>7. answer' \in {answer, "error"} /\ (answer' = "error" => answer = "error" \/ Failed(t))
  BY DEF Got
<1>8. Failed(fetches) => Failed(t)
  <2>1. SUFFICES ASSUME NEW q \in DOMAIN fetches, fetches[q].state = "failed"
                 PROVE  Failed(t)
    BY DEF Failed
  <2>2. q # p
    BY <2>1
  <2>3. q \in DOMAIN t /\ t[q].state = "failed"
    BY <2>1, <2>2 DEF Moved
  <2>4. QED BY <2>3 DEF Failed
<1>9. ValuesInv'
  BY <1>1, <1>7 DEF IInv, ValuesInv, Moved
<1>10. UploadsInv'
  BY <1>1, <1>3 DEF IInv, UploadsInv, Fulfilled
<1>11. ASSUME NEW q \in DOMAIN t
       PROVE  /\ faults' = 0 /\ ~Failed(t) /\ t[q].state \in {"waiting", "done"} =>
                   t[q].hash \in stored'
              /\ Undisturbed' /\ t[q].state = "failed" => t[q].hash \notin inDHT
  <2>1. CASE q = p
    BY <2>1
  <2>2. CASE q \in DOMAIN fetches /\ q # p
    <3>1. t[q].state = fetches[q].state /\ t[q].hash = fetches[q].hash
      BY <2>2 DEF Moved
    <3>2. /\ faults' = 0 /\ ~Failed(t) /\ fetches[q].state \in {"waiting", "done"} =>
               fetches[q].hash \in stored
          /\ Undisturbed' /\ fetches[q].state = "failed" => fetches[q].hash \notin inDHT
      BY <1>8, <2>2 DEF IInv, FetchesInv
    <3>3. QED BY <3>1, <3>2
  <2>3. CASE q \notin DOMAIN fetches
    <3>1. t[q].state \in {"dht", "links"}
      BY <2>3 DEF Moved
    <3>2. QED BY <3>1
  <2>4. QED BY <2>1, <2>2, <2>3
<1>12. answer' = "error" => Failed(t)
  BY <1>7, <1>8 DEF IInv, FetchesInv
<1>13. FetchesInv'
  <2>1. TreeInv(fetches', blocks', hash') /\ payload' = "hash" /\ fetches' # <<>>
    BY <1>1, <1>2, <1>3
  <2>2. /\ faults' = 0 /\ ~Failed(fetches') => \A q \in DOMAIN fetches' :
             fetches'[q].state \in {"waiting", "done"} => fetches'[q].hash \in stored'
        /\ Undisturbed' => \A q \in DOMAIN fetches' :
             fetches'[q].state = "failed" => fetches'[q].hash \notin inDHT'
    BY <1>1, <1>11
  <2>3. answer' = "error" => Failed(fetches')
    BY <1>1, <1>12
  <2>4. QED BY <2>1, <2>2, <2>3 DEF FetchesInv
<1>14. AnswerInv'
  <2>1. answer' # "data"
    BY <1>5, <1>7
  <2>2. faults' = 0 => answer' # "broken"
    BY <1>7 DEF IInv, AnswerInv
  <2>3. out' # None => /\ Fulfilled(t)
                       /\ \A i \in DOMAIN queue' : \E q \in DOMAIN t : t[q].hash = queue'[i]
    <3>1. SUFFICES ASSUME out' # None
                   PROVE  /\ Fulfilled(t)
                          /\ \A i \in DOMAIN queue' : \E q \in DOMAIN t : t[q].hash = queue'[i]
      OBVIOUS
    <3>2. Fulfilled(t) /\ queue' = <<hash>>
      BY <1>4, <3>1 DEF Got
    <3>3. \A i \in DOMAIN <<hash>> : <<hash>>[i] = hash
      OBVIOUS
    <3>4. <<>> \in DOMAIN t /\ t[<<>>].hash = hash
      BY <1>2 DEF TreeInv
    <3>5. QED BY <3>2, <3>3, <3>4
  <2>4. QED BY <1>1, <2>1, <2>2, <2>3 DEF AnswerInv
<1>15. QED BY <1>6, <1>9, <1>10, <1>13, <1>14 DEF IInv

LEMMA FetchLinksKeeps == ASSUME IInv, NEW p \in DOMAIN fetches, FetchLinks(p) PROVE IInv'
<1>1. /\ fetches[p].state = "links"
      /\ UNCHANGED <<Encoding, Saving, posted, stored, inDHT, faults>>
  BY DEF FetchLinks
<1>2. PICK t : Got(t) /\ t = IF fetches[p].hash \in stored THEN Branch(fetches, p, "links")
                             ELSE To(fetches, p, "dht")
  BY DEF FetchLinks
<1>3. TreeInv(fetches, blocks, hash) /\ Saves(blocks)
  BY SavesAre DEF IInv, FetchesInv, CodecInv
<1>4. /\ TreeInv(Branch(fetches, p, "links"), blocks, hash)
      /\ Moved(fetches, Branch(fetches, p, "links"), p)
      /\ Branch(fetches, p, "links")[p].state \in {"waiting", "done"}
  BY <1>1, <1>3, TaskBranches
<1>5. /\ TreeInv(To(fetches, p, "dht"), blocks, hash)
      /\ Moved(fetches, To(fetches, p, "dht"), p)
      /\ To(fetches, p, "dht")[p].state = "dht"
  BY <1>1, <1>3, TaskGoesOn
<1>6. TreeInv(t, blocks, hash) /\ Moved(fetches, t, p)
  BY <1>2, <1>4, <1>5
<1>7. t[p].hash = fetches[p].hash
  BY <1>6 DEF Moved
<1>8. /\ t[p].state \in {"waiting", "done"} => t[p].hash \in stored
      /\ t[p].state # "failed"
  BY <1>2, <1>4, <1>5, <1>7
<1>9. /\ stored' = stored /\ faults' = faults /\ stored \subseteq DOMAIN blocks
      /\ faults \in 0 .. MaxFaults
  BY <1>1 DEF IInv, ValuesInv
<1>10. /\ shared' \subseteq DOMAIN fetches
       /\ Undisturbed' => Undisturbed
  BY <1>9 DEF FetchLinks, Downloading, IInv, ValuesInv, Undisturbed
<1>11. UNCHANGED <<Encoding, Saving, posted, inDHT>>
  BY <1>1
<1>12. QED BY <1>1, <1>2, <1>6, <1>8, <1>9, <1>10, <1>11, GotKeeps

LEMMA DownloadedKeeps == ASSUME IInv, NEW p \in DOMAIN fetches, Downloaded(p) PROVE IInv'
<1> DEFINE t == To(fetches, p, "links")
<1>1. /\ fetches[p].state = "dht" /\ stored' = stored \cup {fetches[p].hash}
      /\ fetches[p].hash \in inDHT /\ Got(t)
      /\ UNCHANGED <<Encoding, Saving, shared, posted, inDHT, faults>>
  BY DEF Downloaded
<1>2. TreeInv(fetches, blocks, hash) /\ Saves(blocks)
  BY SavesAre DEF IInv, FetchesInv, CodecInv
<1>3. TreeInv(t, blocks, hash) /\ Moved(fetches, t, p) /\ t[p].state = "links"
  BY <1>1, <1>2, TaskGoesOn
<1> HIDE DEF t
<1>4. /\ stored \subseteq stored' /\ stored' \subseteq DOMAIN blocks
      /\ faults' = faults /\ faults \in 0 .. MaxFaults
      /\ shared' \subseteq DOMAIN fetches /\ Undisturbed' = Undisturbed
  BY <1>1 DEF IInv, ValuesInv, Undisturbed
<1>5. QED BY <1>1, <1>3, <1>4, GotKeeps

LEMMA DownloadFailsKeeps == ASSUME IInv, NEW p \in DOMAIN fetches, DownloadFails(p) PROVE IInv'
<1> DEFINE t == To(fetches, p, "failed")
<1>1. /\ fetches[p].state = "dht" /\ Got(t) /\ stored' \subseteq stored
      /\ \/ fetches[p].hash \notin inDHT /\ faults' = faults
         \/ faults < MaxFaults /\ faults' = faults + 1
         \/ p \in shared /\ faults' = faults
      /\ UNCHANGED <<Encoding, Saving, shared, posted, inDHT>>
  BY DEF DownloadFails
<1>2. TreeInv(fetches, blocks, hash) /\ Saves(blocks)
  BY SavesAre DEF IInv, FetchesInv, CodecInv
<1>3. TreeInv(t, blocks, hash) /\ Moved(fetches, t, p) /\ t[p].state = "failed"
  BY <1>1, <1>2, TaskGoesOn
<1> HIDE DEF t
<1>4. /\ faults \in 0 .. MaxFaults /\ MaxFaults \in Nat
      /\ stored \subseteq DOMAIN blocks /\ shared \subseteq DOMAIN fetches
  BY EndpointsAssumption DEF IInv, ValuesInv
<1>5. faults' \in 0 .. MaxFaults /\ (faults' = 0 => faults = 0)
  BY <1>1, <1>4
<1>6. Undisturbed' => Undisturbed /\ fetches[p].hash \notin inDHT
  BY <1>1, <1>4, <1>5 DEF Undisturbed
<1>7. t[p].hash = fetches[p].hash /\ Failed(t)
  BY <1>3 DEF Moved, Failed
<1>8. stored' \subseteq DOMAIN blocks /\ shared' \subseteq DOMAIN fetches
  BY <1>1, <1>4
<1>9. UNCHANGED <<Encoding, Saving, posted, inDHT>>
  BY <1>1
<1>10. QED BY <1>1, <1>3, <1>5, <1>6, <1>7, <1>8, <1>9, GotKeeps

LEMMA ExampleKeeps == ASSUME IInv, Example PROVE IInv'
<1>1. /\ ~posted /\ hash # None /\ out' = <<>> /\ queue' = <<hash>>
      /\ UNCHANGED <<data, root, blocks, hash, uploads, payload, fetches, answer, shared,
                     posted, stored, inDHT, faults>>
  BY DEF Example, Decode, Saving
<1>2. CodecInv'
  BY <1>1, DecodingKeeps DEF IInv
<1>3. uploads = <<>> /\ fetches = <<>> /\ answer = None
  BY <1>1, ExampleHas
<1>4. ValuesInv'
  BY <1>1 DEF IInv, ValuesInv
<1>5. UploadsInv'
  BY <1>1 DEF IInv, UploadsInv, Fulfilled
<1>6. FetchesInv'
  BY <1>1 DEF IInv, FetchesInv, Failed, Undisturbed
<1>7. AnswerInv'
  BY <1>1, <1>3, EndpointsAssumption DEF AnswerInv
<1>8. QED BY <1>2, <1>4, <1>5, <1>6, <1>7 DEF IInv

\* The elements of a queue and of the links after it.
LEMMA ElementsOfConcat ==
  ASSUME NEW T, NEW q \in Seq(T), q # <<>>, NEW links \in Seq(T)
  PROVE  \A i \in DOMAIN (Tail(q) \o links) :
           \/ \E j \in DOMAIN q : (Tail(q) \o links)[i] = q[j]
           \/ \E j \in DOMAIN links : (Tail(q) \o links)[i] = links[j]
<1>1. /\ Tail(q) \in Seq(T) /\ Len(Tail(q)) = Len(q) - 1 /\ Len(q) \in Nat
      /\ \A i \in 1 .. Len(Tail(q)) : Tail(q)[i] = q[i + 1]
  BY HeadTailProperties, LenProperties
<1>2. PICK s \in Seq(T) : s = Tail(q) /\ Len(s) = Len(q) - 1
                          /\ \A i \in 1 .. Len(s) : s[i] = q[i + 1]
  BY <1>1
<1>3. /\ s \o links \in Seq(T) /\ Len(s \o links) = Len(s) + Len(links)
      /\ \A i \in 1 .. Len(s) + Len(links) :
           (s \o links)[i] = IF i <= Len(s) THEN s[i] ELSE links[i - Len(s)]
  BY ConcatProperties
<1>4. Len(s) \in Nat /\ Len(links) \in Nat /\ DOMAIN links = 1 .. Len(links)
      /\ DOMAIN q = 1 .. Len(q) /\ DOMAIN (s \o links) = 1 .. Len(s \o links)
  BY <1>3, LenProperties
<1>5. ASSUME NEW i \in DOMAIN (s \o links)
      PROVE  \/ \E j \in DOMAIN q : (s \o links)[i] = q[j]
             \/ \E j \in DOMAIN links : (s \o links)[i] = links[j]
  <2>1. i \in 1 .. Len(s) + Len(links)
    BY <1>3, <1>4
  <2>2. CASE i <= Len(s)
    <3>1. (s \o links)[i] = q[i + 1]
      BY <1>2, <1>3, <1>4, <2>1, <2>2
    <3>2. i + 1 \in 1 .. Len(q)
      BY <1>1, <1>2, <1>4, <2>1, <2>2
    <3>3. QED BY <1>4, <3>1, <3>2
  <2>3. CASE ~(i <= Len(s))
    <3>1. (s \o links)[i] = links[i - Len(s)]
      BY <1>3, <2>1, <2>3
    <3>2. i - Len(s) \in 1 .. Len(links)
      BY <1>4, <2>1, <2>3
    <3>3. QED BY <1>4, <3>1, <3>2
  <2>4. QED BY <2>2, <2>3
<1>6. QED BY <1>2, <1>5

LEMMA ReadKeeps == ASSUME IInv, Read PROVE IInv'
<1>1. /\ Decoding /\ Head(queue) \in stored /\ ReadBlock
      /\ answer' = IF posted /\ queue' = <<>> THEN "data" ELSE answer
      /\ UNCHANGED <<uploads, payload, fetches, shared, posted, stored, inDHT, faults>>
  BY DEF Read, Saving
<1>2. UNCHANGED <<data, root, blocks, hash>> /\ queue # <<>>
  BY <1>1 DEF ReadBlock
<1>3. /\ CodecInv' /\ out # None /\ out' # None
      /\ queue \in Seq(1 .. Len(blocks)) /\ Head(queue) \in DOMAIN blocks
      /\ queue' = Tail(queue) \o LinksOf(blocks[Head(queue)])
  BY <1>1, ReadBlockKeeps DEF IInv
<1>4. answer = None
  BY <1>1, ExampleHas DEF Decoding
<1>5. posted => fetches # <<>> /\ Fulfilled(fetches)
  BY <1>3 DEF IInv, AnswerInv, Fulfilled
<1>6. answer' \in {None, "data"} /\ (answer' = "data" => posted /\ queue' = <<>>)
  BY <1>1, <1>4, EndpointsAssumption
<1>7. ValuesInv'
  BY <1>1, <1>2, <1>6 DEF IInv, ValuesInv
<1>8. UploadsInv'
  BY <1>1, <1>2 DEF IInv, UploadsInv, Fulfilled
<1>9. FetchesInv'
  BY <1>1, <1>2, <1>5, <1>6, EndpointsAssumption DEF IInv, FetchesInv, Failed, Undisturbed
<1>10. ASSUME posted, NEW i \in DOMAIN queue'
       PROVE  \E p \in DOMAIN fetches : fetches[p].hash = queue'[i]
  <2> DEFINE h == Head(queue)
             links == LinksOf(blocks[h])
  <2>1. \A j \in DOMAIN queue : \E p \in DOMAIN fetches : fetches[p].hash = queue[j]
    BY <1>3, <1>10 DEF IInv, AnswerInv
  <2>2. 1 \in DOMAIN queue /\ queue[1] = h
    <3>1. Len(queue) \in Nat \ {0} /\ DOMAIN queue = 1 .. Len(queue)
      BY <1>2, <1>3, EmptySeq, LenProperties
    <3>2. queue[1] = h
      BY <1>3, <3>1
    <3>3. 1 \in 1 .. Len(queue)
      BY <3>1
    <3>4. QED BY <3>1, <3>2, <3>3
  <2>3. PICK o \in DOMAIN fetches : fetches[o].hash = h
    BY <2>1, <2>2
  <2>4. links = LinksAt(fetches, blocks, o)
    BY <2>3 DEF LinksAt
  <2>5. fetches[o].state \in {"waiting", "done"}
    BY <1>5, <1>10 DEF Fulfilled
  <2>6. links \in Seq(1 .. Len(blocks))
    BY <1>3, BlocksAre DEF IInv, CodecInv
  <2> HIDE DEF links, h
  <2>7. \A j \in DOMAIN links : \E p \in DOMAIN fetches : fetches[p].hash = links[j]
    <3>1. TreeInv(fetches, blocks, hash)
      BY DEF IInv, FetchesInv
    <3>2. CASE fetches[o].state = "waiting"
      BY <2>4, <3>1, <3>2 DEF TreeInv
    <3>3. CASE fetches[o].state = "done"
      <4>1. links = <<>>
        BY <2>4, <3>1, <3>3 DEF TreeInv
      <4>2. QED BY <4>1, NoTasks
    <3>4. QED BY <2>5, <3>2, <3>3
  <2>8. queue' = Tail(queue) \o links
    BY <1>3 DEF links, h
  <2>9. \/ \E j \in DOMAIN queue : queue'[i] = queue[j]
        \/ \E j \in DOMAIN links : queue'[i] = links[j]
    <3>1. PICK T : T = 1 .. Len(blocks)
      OBVIOUS
    <3>2. PICK q \in Seq(T) : q = queue
      BY <1>3, <3>1
    <3>3. PICK ls \in Seq(T) : ls = links
      BY <2>6, <3>1
    <3>4. q # <<>> /\ queue' = Tail(q) \o ls /\ i \in DOMAIN (Tail(q) \o ls)
      BY <1>2, <2>8, <3>2, <3>3
    <3>5. \A j \in DOMAIN (Tail(q) \o ls) :
            \/ \E k \in DOMAIN q : (Tail(q) \o ls)[j] = q[k]
            \/ \E k \in DOMAIN ls : (Tail(q) \o ls)[j] = ls[k]
      BY <3>4, ElementsOfConcat
    <3>6. QED BY <3>2, <3>3, <3>4, <3>5
  <2>10. QED BY <2>1, <2>7, <2>9
<1>11. AnswerInv'
  <2>1. posted' => Fulfilled(fetches')
    BY <1>1, <1>5
  <2>2. posted' => \A i \in DOMAIN queue' : \E p \in DOMAIN fetches' : fetches'[p].hash = queue'[i]
    BY <1>1, <1>10
  <2>3. QED BY <1>3, <1>6, <2>1, <2>2, EndpointsAssumption DEF AnswerInv
<1>12. QED BY <1>3, <1>7, <1>8, <1>9, <1>11 DEF IInv

LEMMA ReadFailsKeeps == ASSUME IInv, ReadFails PROVE IInv'
<1>1. /\ queue # <<>> /\ (~posted \/ answer = None) /\ Head(queue) \notin stored
      /\ answer' = "broken"
      /\ UNCHANGED <<data, root, blocks, hash, uploads, payload, fetches, shared, queue, out,
                     posted, stored, inDHT, faults>>
  BY DEF ReadFails, Decoding, Encoding, Saving
<1>2. CodecInv'
  BY <1>1, CodecStutters DEF IInv
<1>3. out # None /\ queue \in Seq(1 .. Len(blocks))
  BY <1>1 DEF IInv, CodecInv, QueueInv
<1>4. 1 \in DOMAIN queue /\ queue[1] = Head(queue) /\ queue[1] \in 1 .. Len(blocks)
  <2>1. Len(queue) \in Nat \ {0} /\ DOMAIN queue = 1 .. Len(queue)
    BY <1>1, <1>3, EmptySeq, LenProperties
  <2>2. queue[1] = Head(queue)
    BY <1>3, <2>1
  <2>3. 1 \in 1 .. Len(queue)
    BY <2>1
  <2>4. QED BY <1>3, <2>1, <2>2, <2>3, ElementOfSeq
<1>5. posted
  <2>1. DOMAIN blocks = 1 .. Len(blocks)
    BY SavesAre DEF IInv, CodecInv
  <2>2. QED BY <1>1, <1>4, <2>1, ExampleHas DEF IInv, ValuesInv
<1>6. /\ Fulfilled(fetches)
      /\ \A i \in DOMAIN queue : \E p \in DOMAIN fetches : fetches[p].hash = queue[i]
  BY <1>3, <1>5 DEF IInv, AnswerInv
<1>7. faults # 0
  <2>1. PICK p \in DOMAIN fetches : fetches[p].hash = Head(queue)
    BY <1>4, <1>6
  <2>2. fetches[p].state \in {"waiting", "done"} /\ ~Failed(fetches)
    BY <1>6 DEF Fulfilled, Failed
  <2>3. QED BY <1>1, <2>1, <2>2 DEF IInv, FetchesInv
<1>8. ValuesInv'
  BY <1>1 DEF IInv, ValuesInv
<1>9. UploadsInv'
  BY <1>1 DEF IInv, UploadsInv, Fulfilled
<1>10. FetchesInv'
  BY <1>1, <1>6 DEF IInv, FetchesInv, Fulfilled, Failed, Undisturbed
<1>11. AnswerInv'
  BY <1>1, <1>6, <1>7 DEF AnswerInv, Fulfilled
<1>12. QED BY <1>2, <1>8, <1>9, <1>10, <1>11 DEF IInv

LEMMA LoseBlockKeeps == ASSUME IInv, NEW h \in stored, LoseBlock(h) PROVE IInv'
<1>1. /\ posted /\ stored' = stored \ {h} /\ faults < MaxFaults /\ faults' = faults + 1
      /\ UNCHANGED <<data, root, blocks, hash, uploads, payload, fetches, answer, shared,
                     queue, out, posted, inDHT>>
  BY DEF LoseBlock, Encoding, Saving, Fetching
<1>2. CodecInv'
  BY <1>1, CodecStutters DEF IInv
<1>3. faults' \in 0 .. MaxFaults /\ faults' # 0
  BY <1>1, EndpointsAssumption DEF IInv, ValuesInv
<1>4. ValuesInv'
  BY <1>1, <1>3 DEF IInv, ValuesInv
<1>5. UploadsInv'
  BY <1>1 DEF IInv, UploadsInv, Fulfilled
<1>6. FetchesInv'
  BY <1>1, <1>3 DEF IInv, FetchesInv, Failed, Undisturbed
<1>7. AnswerInv'
  BY <1>1, <1>3 DEF IInv, AnswerInv, Fulfilled
<1>8. QED BY <1>2, <1>4, <1>5, <1>6, <1>7 DEF IInv

LEMMA NothingKeeps == ASSUME IInv, UNCHANGED vars PROVE IInv'
<1>1. UNCHANGED <<data, root, blocks, hash, queue, out, posted, stored, inDHT,
                  uploads, payload, fetches, answer, shared, faults>>
  BY DEF vars
<1>2. CodecInv'
  BY <1>1, CodecStutters DEF IInv
<1>3. ValuesInv' /\ UploadsInv' /\ FetchesInv' /\ AnswerInv'
  BY <1>1 DEF IInv, ValuesInv, UploadsInv, FetchesInv, AnswerInv, Fulfilled, Failed,
              Undisturbed
<1>4. QED BY <1>2, <1>3 DEF IInv

LEMMA StepsKeep == IInv /\ [Next]_vars => IInv'
<1> SUFFICES ASSUME IInv, [Next]_vars PROVE IInv'
  OBVIOUS
<1>1. CASE Encode
  BY <1>1, EncodeKeeps
<1>2. CASE Encoded
  BY <1>2, EncodedKeeps
<1>3. CASE Example
  BY <1>3, ExampleKeeps
<1>4. CASE Read
  BY <1>4, ReadKeeps
<1>5. CASE ReadFails
  BY <1>5, ReadFailsKeeps
<1>6. ASSUME NEW p \in DOMAIN uploads, UploadEnds(p) \/ UploadLinks(p) PROVE IInv'
  BY <1>6, UploadEndsKeeps, UploadLinksKeeps
<1>7. ASSUME NEW p \in DOMAIN fetches, FetchLinks(p) \/ Downloaded(p) \/ DownloadFails(p)
      PROVE  IInv'
  BY <1>7, FetchLinksKeeps, DownloadedKeeps, DownloadFailsKeeps
<1>8. ASSUME NEW some \in SUBSET DOMAIN blocks, Fetch(some) PROVE IInv'
  BY <1>8, FetchKeeps
<1>9. ASSUME NEW h \in stored, LoseBlock(h) PROVE IInv'
  BY <1>9, LoseBlockKeeps
<1>10. CASE UNCHANGED vars
  BY <1>10, NothingKeeps
<1>11. QED
  BY <1>1, <1>2, <1>3, <1>4, <1>5, <1>6, <1>7, <1>8, <1>9, <1>10 DEF Next, Work

LEMMA Inductive == Spec => []IInv
BY Starts, StepsKeep, PTL DEF Spec

-----------------------------------------------------------------------------
(* The blocks that a hash stands for: Needed is defined, as the links of a *)
(* block are to earlier ones.                                              *)

Needed1(saved, f, h) == {h} \cup UNION {f[k] : k \in Range(LinksOf(saved[h]))}

IsNeeded(saved, f) == f = [h \in DOMAIN saved |-> Needed1(saved, f, h)]

LEMMA RangeBefore ==
  ASSUME NEW n, NEW links \in Seq(1 .. n)
  PROVE  Range(links) \subseteq 1 .. n /\ \A i \in DOMAIN links : links[i] \in Range(links)
<1>1. \A i \in DOMAIN links : links[i] \in 1 .. n
  BY LenProperties, ElementOfSeq
<1>2. QED BY <1>1 DEF Range

LEMMA NeededAgree ==
  ASSUME NEW saved, NEW h, NEW n, LinksOf(saved[h]) \in Seq(1 .. n), NEW f, NEW g,
         \A k \in 1 .. n : f[k] = g[k]
  PROVE  Needed1(saved, f, h) = Needed1(saved, g, h)
<1>1. PICK ks : ks = Range(LinksOf(saved[h])) /\ ks \subseteq 1 .. n
  BY RangeBefore
<1>2. {f[k] : k \in ks} = {g[k] : k \in ks}
  BY <1>1
<1>3. QED BY <1>1, <1>2 DEF Needed1

LEMMA NeededExists ==
  ASSUME NEW saved, LinkedBefore(saved)
  PROVE  \E f : IsNeeded(saved, f)
<1> DEFINE l == Len(saved)
           Good == {n \in 0 .. l : \E f : \A h \in 1 .. n : f[h] = Needed1(saved, f, h)}
<1>1. l \in Nat /\ DOMAIN saved = 1 .. l
      /\ \A h \in 1 .. l : LinksOf(saved[h]) \in Seq(1 .. h - 1)
  BY DEF LinkedBefore
<1> HIDE DEF l
<1>2. 0 \in Good
  BY <1>1
<1>3. ASSUME NEW n \in 0 .. l - 1, n \in Good PROVE n + 1 \in Good
  <2>1. PICK f : \A h \in 1 .. n : f[h] = Needed1(saved, f, h)
    BY <1>3
  <2> DEFINE g == [h \in 1 .. n + 1 |-> Needed1(saved, f, h)]
  <2>2. n + 1 \in 0 .. l /\ 1 .. n + 1 \subseteq 1 .. l /\ n \in Nat
    BY <1>1
  <2>3. \A h \in 1 .. n : h \in 1 .. n + 1
    BY <2>2
  <2>4. \A h \in 1 .. n : g[h] = f[h]
    BY <2>1, <2>3
  <2>5. \A h \in 1 .. n + 1 : g[h] = Needed1(saved, f, h)
    OBVIOUS
  <2> HIDE DEF g
  <2>6. ASSUME NEW h \in 1 .. n + 1 PROVE Needed1(saved, g, h) = Needed1(saved, f, h)
    <3>1. LinksOf(saved[h]) \in Seq(1 .. h - 1)
      BY <1>1, <2>2
    <3>2. \A k \in 1 .. h - 1 : g[k] = f[k]
      BY <2>2, <2>4
    <3>3. QED BY <3>1, <3>2, NeededAgree
  <2>7. \A h \in 1 .. n + 1 : g[h] = Needed1(saved, g, h)
    BY <2>5, <2>6
  <2>8. QED BY <2>2, <2>7
<1> HIDE DEF Good
<1>4. l \in Good
  <2>1. \A m \in 0 .. l : m \in Good
    BY <1>1, <1>2, <1>3, Induction
  <2>2. QED BY <1>1, <2>1
<1>5. PICK f : \A h \in 1 .. l : f[h] = Needed1(saved, f, h)
  BY <1>4 DEF Good
<1> DEFINE g == [h \in 1 .. l |-> f[h]]
<1>6. \A h \in 1 .. l : g[h] = f[h]
  OBVIOUS
<1>7. g = [h \in 1 .. l |-> g[h]]
  OBVIOUS
<1> HIDE DEF g
<1>8. ASSUME NEW h \in 1 .. l PROVE g[h] = Needed1(saved, g, h)
  <2>1. LinksOf(saved[h]) \in Seq(1 .. h - 1)
    BY <1>1
  <2>2. \A k \in 1 .. h - 1 : g[k] = f[k]
    BY <1>1, <1>6
  <2>3. Needed1(saved, g, h) = Needed1(saved, f, h)
    BY <2>1, <2>2, NeededAgree
  <2>4. QED BY <1>5, <1>6, <2>3
<1>9. g = [h \in DOMAIN saved |-> Needed1(saved, g, h)]
  BY <1>1, <1>7, <1>8
<1>10. QED BY <1>9 DEF IsNeeded

LEMMA NeededIs ==
  ASSUME LinkedBefore(blocks)
  PROVE  \A h \in DOMAIN blocks : Needed[h] = Needed1(blocks, Needed, h)
<1>1. PICK f : f = [h \in DOMAIN blocks |->
                      {h} \cup UNION {f[k] : k \in Range(LinksOf(blocks[h]))}]
  BY NeededExists DEF IsNeeded, Needed1
<1>2. Needed = [h \in DOMAIN blocks |->
                  {h} \cup UNION {Needed[k] : k \in Range(LinksOf(blocks[h]))}]
  BY <1>1 DEF Needed
<1>3. PICK g : g = Needed
  OBVIOUS
<1>4. g = [h \in DOMAIN blocks |-> Needed1(blocks, g, h)]
  BY <1>2, <1>3 DEF Needed1
<1>5. \A h \in DOMAIN blocks : g[h] = Needed1(blocks, g, h)
  <2> DEFINE r == [h \in DOMAIN blocks |-> Needed1(blocks, g, h)]
  <2>1. \A h \in DOMAIN blocks : r[h] = Needed1(blocks, g, h)
    OBVIOUS
  <2>2. g = r
    BY <1>4
  <2> HIDE DEF r
  <2>3. QED BY <2>1, <2>2
<1>6. QED BY <1>3, <1>5

\* Whatever contains a hash and, with each hash, those of the links of its
\* block, contains all that the hash stands for.
LEMMA NeededWithin ==
  ASSUME LinkedBefore(blocks), NEW S,
         \A h \in S \cap DOMAIN blocks : Range(LinksOf(blocks[h])) \subseteq S,
         NEW top \in S, top \in DOMAIN blocks
  PROVE  Needed[top] \subseteq S
<1> DEFINE l == Len(blocks)
           Good == {h \in 1 .. l : h \in S => Needed[h] \subseteq S}
<1>1. l \in Nat /\ DOMAIN blocks = 1 .. l
      /\ \A h \in 1 .. l : LinksOf(blocks[h]) \in Seq(1 .. h - 1)
  BY DEF LinkedBefore
<1> HIDE DEF l
<1>2. ASSUME NEW h \in 1 .. l, \A k \in 1 .. h - 1 : k \in Good PROVE h \in Good
  <2>1. SUFFICES ASSUME h \in S PROVE Needed[h] \subseteq S
    OBVIOUS
  <2>2. Range(LinksOf(blocks[h])) \subseteq S /\ Range(LinksOf(blocks[h])) \subseteq 1 .. h - 1
    BY <1>1, <2>1, RangeBefore
  <2>3. \A k \in Range(LinksOf(blocks[h])) : Needed[k] \subseteq S
    BY <1>2, <2>2
  <2>4. Needed[h] = {h} \cup UNION {Needed[k] : k \in Range(LinksOf(blocks[h]))}
    BY <1>1, NeededIs DEF Needed1
  <2>5. QED BY <2>1, <2>3, <2>4
<1> HIDE DEF Good
<1>3. \A h \in 1 .. l : h \in Good
  BY <1>1, <1>2, StrongInduction
<1>4. QED BY <1>1, <1>3 DEF Good

\* The hash itself is needed, and with a hash those of the links of its block.
LEMMA NeededClosed ==
  ASSUME LinkedBefore(blocks), NEW top \in DOMAIN blocks
  PROVE  /\ top \in Needed[top]
         /\ \A h \in Needed[top] :
              h \in DOMAIN blocks /\ Range(LinksOf(blocks[h])) \subseteq Needed[top]
<1> DEFINE l == Len(blocks)
           Good == {h \in 1 .. l : /\ h \in Needed[h]
                                   /\ \A k \in Needed[h] :
                                        /\ k \in DOMAIN blocks
                                        /\ Range(LinksOf(blocks[k])) \subseteq Needed[h]}
<1>1. l \in Nat /\ DOMAIN blocks = 1 .. l
      /\ \A h \in 1 .. l : LinksOf(blocks[h]) \in Seq(1 .. h - 1)
  BY DEF LinkedBefore
<1> HIDE DEF l
<1>2. ASSUME NEW h \in 1 .. l, \A k \in 1 .. h - 1 : k \in Good PROVE h \in Good
  <2>1. PICK ks : ks = Range(LinksOf(blocks[h])) /\ ks \subseteq 1 .. h - 1
    BY <1>1, RangeBefore
  <2>2. Needed[h] = {h} \cup UNION {Needed[k] : k \in ks}
    BY <1>1, <2>1, NeededIs DEF Needed1
  <2>3. \A k \in ks : /\ k \in Needed[k]
                      /\ \A j \in Needed[k] : /\ j \in DOMAIN blocks
                                              /\ Range(LinksOf(blocks[j])) \subseteq Needed[k]
    BY <1>2, <2>1
  <2>4. \A k \in ks : Needed[k] \subseteq Needed[h]
    BY <2>2
  <2>5. h \in Needed[h]
    BY <2>2
  <2>6. ASSUME NEW j \in Needed[h]
        PROVE  j \in DOMAIN blocks /\ Range(LinksOf(blocks[j])) \subseteq Needed[h]
    <3>1. CASE j = h
      BY <1>1, <2>1, <2>3, <2>4, <3>1
    <3>2. CASE \E k \in ks : j \in Needed[k]
      BY <2>3, <2>4, <3>2
    <3>3. QED BY <2>2, <3>1, <3>2
  <2>7. QED BY <2>5, <2>6
<1> HIDE DEF Good
<1>3. \A h \in 1 .. l : h \in Good
  BY <1>1, <1>2, StrongInduction
<1>4. QED BY <1>1, <1>3 DEF Good

\* A tree of which nothing runs has a task for each block that is needed.
LEMMA TreeHasNeeded ==
  ASSUME NEW tasks, TreeInv(tasks, blocks, hash), Fulfilled(tasks),
         LinkedBefore(blocks), NEW h \in Needed[hash]
  PROVE  \E p \in DOMAIN tasks : tasks[p].hash = h
<1> DEFINE S == {tasks[p].hash : p \in DOMAIN tasks}
<1>1. <<>> \in DOMAIN tasks /\ tasks[<<>>].hash = hash /\ hash \in DOMAIN blocks
  BY DEF TreeInv, Fulfilled
<1>2. hash \in S
  BY <1>1
<1>3. ASSUME NEW p \in DOMAIN tasks PROVE Range(LinksAt(tasks, blocks, p)) \subseteq S
  <2>1. CASE tasks[p].state = "waiting"
    BY <2>1 DEF TreeInv, Range
  <2>2. CASE tasks[p].state = "done"
    <3>1. LinksAt(tasks, blocks, p) = <<>>
      BY <2>2 DEF TreeInv
    <3>2. QED BY <3>1, NoTasks DEF Range
  <2>3. QED BY <2>1, <2>2 DEF Fulfilled
<1>4. \A k \in S : Range(LinksOf(blocks[k])) \subseteq S
  BY <1>3 DEF LinksAt
<1> HIDE DEF S
<1>5. Needed[hash] \subseteq S
  BY <1>1, <1>2, <1>4, NeededWithin
<1>6. QED BY <1>5 DEF S

\* Each task is that of a block that is needed.
LEMMA TreeIsNeeded ==
  ASSUME NEW tasks, TreeInv(tasks, blocks, hash), LinkedBefore(blocks)
  PROVE  \A p \in DOMAIN tasks : tasks[p].hash \in Needed[hash]
<1> SUFFICES ASSUME NEW path \in DOMAIN tasks PROVE tasks[path].hash \in Needed[hash]
  OBVIOUS
<1>1. <<>> \in DOMAIN tasks /\ tasks[<<>>].hash = hash /\ hash \in DOMAIN blocks
  BY NoTasks DEF TreeInv
<1>2. /\ hash \in Needed[hash]
      /\ \A h \in Needed[hash] : Range(LinksOf(blocks[h])) \subseteq Needed[hash]
  BY <1>1, NeededClosed
<1> DEFINE Good == {n \in Nat : \A p \in DOMAIN tasks :
                                  Len(p) = n => tasks[p].hash \in Needed[hash]}
<1>3. path \in Seq(1 .. MAX_NUM_LINKS) /\ Len(path) \in Nat
  BY LenProperties DEF TreeInv, Path
<1>4. ASSUME NEW p \in DOMAIN tasks, p # <<>>
      PROVE  \E o \in DOMAIN tasks : /\ Len(p) = Len(o) + 1 /\ Len(o) \in Nat
                                     /\ tasks[p].hash \in Range(LinksOf(blocks[tasks[o].hash]))
  <2>1. PICK o \in DOMAIN tasks : \E i \in DOMAIN LinksAt(tasks, blocks, o) :
          p = Append(o, i) /\ tasks[p].hash = LinksAt(tasks, blocks, o)[i]
    BY <1>4 DEF TreeInv
  <2>2. PICK i \in DOMAIN LinksAt(tasks, blocks, o) :
          p = Append(o, i) /\ tasks[p].hash = LinksAt(tasks, blocks, o)[i]
    BY <2>1
  <2>3. tasks[p].hash \in Range(LinksOf(blocks[tasks[o].hash]))
    BY <2>2 DEF Range, LinksAt
  <2>4. o \in Path /\ p \in Path
    BY DEF TreeInv
  <2>5. Len(p) = Len(o) + 1 /\ Len(o) \in Nat
    <3>1. Len(Append(o, i)) = Len(o) + 1
      BY <2>4 DEF Path
    <3>2. QED BY <2>2, <2>4, <3>1, LenProperties DEF Path
  <2>6. QED BY <2>3, <2>5
<1>5. 0 \in Good
  <2>1. \A p \in DOMAIN tasks : Len(p) = 0 => p = <<>>
    BY EmptySeq DEF TreeInv, Path
  <2>2. QED BY <1>1, <1>2, <2>1
<1>6. ASSUME NEW m \in Nat, m \in Good PROVE m + 1 \in Good
  <2>1. SUFFICES ASSUME NEW p \in DOMAIN tasks, Len(p) = m + 1
                 PROVE  tasks[p].hash \in Needed[hash]
    OBVIOUS
  <2>2. p # <<>>
    <3>1. Len(<<>>) = 0
      OBVIOUS
    <3>2. QED BY <2>1, <3>1
  <2>3. PICK o \in DOMAIN tasks :
          /\ Len(p) = Len(o) + 1 /\ Len(o) \in Nat
          /\ tasks[p].hash \in Range(LinksOf(blocks[tasks[o].hash]))
    BY <1>4, <2>2
  <2>4. Len(o) = m
    BY <2>1, <2>3
  <2>5. QED BY <1>2, <1>6, <2>3, <2>4
<1> HIDE DEF Good
<1>7. \A m \in 0 .. Len(path) : m \in Good
  BY <1>3, <1>5, <1>6, Induction
<1>8. Len(path) \in Good
  BY <1>3, <1>7
<1>9. QED BY <1>8 DEF Good

-----------------------------------------------------------------------------
(* Theorems.                                                               *)

LEMMA Typed == IInv => TypeOK
<1> SUFFICES ASSUME IInv PROVE TypeOK
  OBVIOUS
<1>1. /\ DOMAIN blocks = 1 .. Len(blocks) /\ Len(blocks) \in Nat
      /\ \A h \in 1 .. Len(blocks) : Len(blocks[h]) <= SIZE
  BY SavesAre DEF IInv, CodecInv, BlocksInv
<1>2. hash = None \/ hash \in DOMAIN blocks
  BY <1>1 DEF IInv, CodecInv
<1>3. \A i \in DOMAIN queue : queue[i] \in DOMAIN blocks
  <2>1. CASE out = None
    <3>1. queue = <<>>
      BY <2>1 DEF IInv, CodecInv, QueueInv
    <3>2. QED BY <3>1, NoTasks
  <2>2. CASE out # None
    <3>1. queue \in Seq(1 .. Len(blocks))
      BY <2>2 DEF IInv, CodecInv, QueueInv
    <3>2. QED BY <1>1, <3>1, LenProperties, ElementOfSeq
  <2>3. QED BY <2>1, <2>2
<1>4. CodecTypeOK
  BY <1>1, <1>2, <1>3 DEF CodecTypeOK
<1>5. ASSUME NEW tasks, TreeInv(tasks, blocks, hash)
      PROVE  \A p \in DOMAIN tasks : p \in Seq(1 .. MAX_NUM_LINKS) /\ tasks[p] \in Task
  BY <1>5 DEF TreeInv, Task, Path, States
<1>6. \A tasks \in {uploads, fetches} : \A p \in DOMAIN tasks :
        p \in Seq(1 .. MAX_NUM_LINKS) /\ tasks[p] \in Task
  BY <1>5 DEF IInv, UploadsInv, FetchesInv
<1>7. QED BY <1>4, <1>6 DEF TypeOK, IInv, ValuesInv

\* The variables have their types for every size of the blocks, number of links
\* and length of a hash, no block is longer than SIZE, and the hashes of the
\* queue and of the tasks are those of blocks that were saved.
THEOREM EndpointsTyped == Spec => []TypeOK
BY Inductive, Typed, PTL

\* Whatever has been cut off, the data can be read from the root block
\* (createBlocks).
THEOREM DataKept == Spec => []NothingLost
<1>1. IInv => NothingLost
  BY CodecNothingLost DEF IInv
<1>2. QED BY Inductive, <1>1, PTL

\* What DataStitcher has put together is how the data begin.
THEOREM DataInOrder == Spec => []ReadInOrder
<1>1. IInv => ReadInOrder
  BY CodecReadInOrder DEF IInv
<1>2. QED BY Inductive, <1>1, PTL

\* The answer to a POST is the hash only when the upload of each block of the
\* file has ended (uploadWithLinks).
THEOREM ToldLate == Spec => []ToldAfterUploads
<1>1. ASSUME IInv, payload = "hash", NEW h \in Needed[hash]
      PROVE  \E p \in DOMAIN uploads :
               uploads[p].hash = h /\ uploads[p].state \in {"waiting", "done"}
  <2>1. TreeInv(uploads, blocks, hash) /\ Fulfilled(uploads)
    BY <1>1 DEF IInv, UploadsInv
  <2>2. LinkedBefore(blocks)
    BY <1>1, SavesAre DEF IInv, CodecInv, Saves
  <2>3. PICK p \in DOMAIN uploads : uploads[p].hash = h
    BY <2>1, <2>2, TreeHasNeeded
  <2>4. QED BY <2>1, <2>3 DEF Fulfilled
<1>2. IInv => ToldAfterUploads
  BY <1>1 DEF ToldAfterUploads
<1>3. QED BY Inductive, <1>2, PTL

LEMMA FetchedIs == IInv => FetchedIsPosted
<1> SUFFICES ASSUME IInv PROVE FetchedIsPosted
  OBVIOUS
<1>1. LinkedBefore(blocks)
  BY SavesAre DEF IInv, CodecInv, Saves
<1>2. ASSUME answer = "data" PROVE out = data
  <2>1. out # None /\ queue = <<>>
    BY <1>2 DEF IInv, AnswerInv
  <2>2. out \in Seq(Digits) /\ data = out \o FlattenSeq(Parts(Reading, queue))
    BY <2>1 DEF IInv, CodecInv, QueueInv
  <2>3. FlattenSeq(Parts(Reading, <<>>)) = <<>>
    <3>1. Parts(Reading, <<>>) = <<>>
      BY DEF Parts
    <3>2. QED BY <3>1, FlattenEmpty
  <2>4. out \o <<>> = out
    BY <2>2, ConcatEmptySeq
  <2>5. QED BY <2>1, <2>2, <2>3, <2>4
<1>3. faults = 0 => answer # "broken"
  BY DEF IInv, AnswerInv
<1>4. ASSUME Undisturbed, Needed[hash] \subseteq inDHT PROVE answer # "error"
  <2>1. SUFFICES ASSUME answer = "error" PROVE FALSE
    OBVIOUS
  <2>2. PICK p \in DOMAIN fetches : fetches[p].state = "failed"
    BY <2>1 DEF IInv, FetchesInv, Failed
  <2>3. fetches[p].hash \notin inDHT
    BY <1>4, <2>2 DEF IInv, FetchesInv
  <2>4. fetches[p].hash \in Needed[hash]
    BY <1>1, TreeIsNeeded DEF IInv, FetchesInv
  <2>5. QED BY <1>4, <2>3, <2>4
<1>5. QED BY <1>2, <1>3, <1>4 DEF FetchedIsPosted

\* A GET that is answered with data is answered with those that were posted, and
\* without a failure there is no error if each block is there or in the DHT
\* (downloadWithLinks, then decode).
THEOREM FetchedRight == Spec => []FetchedIsPosted
BY Inductive, FetchedIs, PTL

=============================================================================
