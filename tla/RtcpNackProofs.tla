--------------------------- MODULE RtcpNackProofs --------------------------
(***************************************************************************)
(* What module RtcpNack checks for sixteen numbers and a mask of two bits, *)
(* proved for every width of the sequence numbers and of the mask and for  *)
(* every list of missing numbers less than Half apart.                     *)
(***************************************************************************)
EXTENDS RtcpNack, FiniteSetTheorems, SequenceTheorems, WellFoundedInduction, TLAPS

\* The window that begins at b, and an array sorted by the place in it.
WindowAt(b) == {sn \in SeqNo : Steps(b, sn) < Span}
Sorted(b, a) ==
    /\ a \in Seq(WindowAt(b))
    /\ \A i, j \in DOMAIN a : i < j => Steps(b, a[i]) < Steps(b, a[j])

Mask == SUBSET (0 .. MaskLen - 1)
EncRecord == [i : Nat, in_use : BOOLEAN, pid : SeqNo, blp : Mask]
DecRecord == [i : Nat, bits : 0 .. MaskLen]
PairRecord == [pid : SeqNo, blp : Mask]

TypeInv ==
    /\ base \in SeqNo /\ stage \in {"collect", "encode", "decode", "received"}
    /\ Sorted(base, nacks) /\ Sorted(base, asked)
    /\ enc \in EncRecord /\ dec \in DecRecord /\ chunks \in Seq(PairRecord)

\* Each loop is where its stage says.
LoopInv ==
    /\ stage = "collect" => chunks = << >> /\ asked = << >>
    /\ stage = "encode" =>
          /\ asked = << >> /\ enc.i <= Len(nacks)
          /\ enc.i = 0 => ~enc.in_use /\ chunks = << >> /\ enc.blp = {}
    /\ stage # "collect" => nacks # << >>
    /\ stage = "decode" => dec.i >= 1
    /\ stage = "decode" /\ dec.i = 1 /\ dec.bits = 0 => asked = << >>

\* A pair names numbers of the array only.
Names(a, pid, blp) == pid \in Range(a) /\ \A b \in blp : pid + b + 1 \in Range(a)
PairInv ==
    /\ stage = "encode" /\ enc.in_use => Names(nacks, enc.pid, enc.blp)
    /\ \A k \in DOMAIN chunks : Names(nacks, chunks[k].pid, chunks[k].blp)

\* The first pair begins with the oldest number.
FirstInv ==
    /\ stage = "encode" /\ enc.i > 0 /\ chunks = << >> => enc.in_use /\ enc.pid = nacks[1]
    /\ chunks # << >> => chunks[1].pid = nacks[1]
    /\ stage \in {"decode", "received"} => chunks # << >>

AskedInv ==
    /\ NothingElseAsked
    /\ stage = "received" \/ (stage = "decode" /\ (dec.i > 1 \/ dec.bits > 0))
          => nacks[1] \in Range(asked)

\* What one pair can carry is in the mask as far as the first loop has come,
\* and unpacked, in the order of the array, as far as the second has.
Fits(a) == \A k \in DOMAIN a : a[k] - a[1] \in 0 .. MaskLen
BitsOf(a, n) == {a[k] - a[1] - 1 : k \in 2 .. n}
Unpacked(a, q, n) ==
    /\ Len(q) <= Len(a)
    /\ \A k \in DOMAIN q : q[k] = a[k]
    /\ \A k \in DOMAIN a : k <= Len(q) <=> a[k] - a[1] < n
OneInv ==
    nacks # << >> /\ Fits(nacks) =>
        /\ stage = "encode" => chunks = << >> /\ enc.blp = BitsOf(nacks, enc.i)
        /\ stage \in {"decode", "received"} =>
              Len(chunks) = 1 /\ chunks[1].blp = BitsOf(nacks, Len(nacks))
        /\ stage = "decode" =>
              \/ dec.i = 1 /\ Unpacked(nacks, asked, dec.bits)
              \/ dec.i = 2 /\ dec.bits = 0 /\ asked = nacks
        /\ stage = "received" => asked = nacks

IInv == TypeInv /\ LoopInv /\ PairInv /\ FirstInv /\ AskedInv /\ OneInv
-----------------------------------------------------------------------------
(* Places in the window.                                                   *)

LEMMA Numbers ==
    /\ Half \in Nat /\ Half > 0 /\ SeqCount = 2 * Half /\ SeqNo = 0 .. SeqCount - 1
    /\ Span \in Nat /\ Span < Half /\ MaskLen \in Nat /\ MaskLen > 0 /\ MaskLen <= SeqCount
BY HalfAssumption, RtcpNackAssumption DEF SeqCount, SeqNo

\* In the window, distances are differences of places, and a place has one number.
LEMMA PlaceIs ==
    ASSUME NEW b \in SeqNo, NEW s \in WindowAt(b), NEW t \in WindowAt(b)
    PROVE  /\ s \in SeqNo /\ Steps(b, s) \in Nat
           /\ Dist(s, t) = Steps(b, t) - Steps(b, s)
           /\ Steps(b, s) = Steps(b, t) => s = t
<1>1. b \in Nat /\ b < SeqCount /\ s \in Nat /\ s < SeqCount /\ t \in Nat /\ t < SeqCount
  BY Numbers DEF WindowAt
<1>2. Steps(b, s) < Span /\ Steps(b, t) < Span
  BY DEF WindowAt
<1>3. Steps(b, s) \in Nat /\ Steps(b, t) \in Nat
  BY <1>1, Numbers DEF Steps
<1>4. Steps(b, t) - Steps(b, s) < Half /\ Steps(b, t) - Steps(b, s) > -Half
  BY <1>2, <1>3, Numbers
<1>5. \/ t - s = Steps(b, t) - Steps(b, s)
      \/ t - s = Steps(b, t) - Steps(b, s) + SeqCount
      \/ t - s = Steps(b, t) - Steps(b, s) - SeqCount
  BY <1>1, Numbers DEF Steps
<1>6. Dist(s, t) = Steps(b, t) - Steps(b, s)
  <2> DEFINE d == Steps(b, t) - Steps(b, s)
  <2>1. d \in Int /\ d < Half /\ d > -Half
    BY <1>3, <1>4
  <2> HIDE DEF d
  <2>2. t - s = d \/ t - s = d + SeqCount \/ t - s = d - SeqCount
    BY <1>5 DEF d
  <2>3. Dist(s, t) = d
    BY <1>1, <2>1, <2>2, Numbers DEF Dist
  <2> QED BY <2>3 DEF d
<1>7. Steps(b, s) = Steps(b, t) => s = t
  BY <1>1, Numbers DEF Steps
<1> QED BY <1>1, <1>3, <1>6, <1>7, Numbers

\* A set of indices that holds all those below its members is 1 .. its size.
LEMMA LeastExists ==
    ASSUME NEW S \in SUBSET Nat, S # {}
    PROVE  \E i \in S : \A j \in S : i <= j
<1> DEFINE R == OpToRel(<, Nat)
<1>1. IsWellFoundedOn(R, Nat)
  BY NatLessThanWellFounded
<1> HIDE DEF R
<1>2. PICK x \in S : \A y \in S : ~(<<y, x>> \in R)
  BY <1>1, WFMin
<1>3. ASSUME NEW y \in S PROVE x <= y
  <2>1. y \in Nat /\ x \in Nat /\ <<y, x>> \notin R
    BY <1>2
  <2>2. y < x => <<y, x>> \in R
    BY <2>1 DEF R, OpToRel
  <2> QED BY <2>1, <2>2
<1> QED BY <1>3

LEMMA PrefixIs ==
    ASSUME NEW n \in Nat, NEW S \in SUBSET (1 .. n),
           \A i \in S : \A j \in 1 .. n : j < i => j \in S
    PROVE  Cardinality(S) \in 0 .. n /\ S = 1 .. Cardinality(S)
<1> DEFINE T == (1 .. n + 1) \ S
<1>1. n + 1 \in T /\ T \in SUBSET Nat
  OBVIOUS
<1>2. PICK m \in T : \A j \in T : m <= j
  BY <1>1, LeastExists
<1>3. m \in 1 .. n + 1 /\ m \notin S
  OBVIOUS
<1>4. S = 1 .. m - 1
  <2>1. ASSUME NEW i \in 1 .. m - 1 PROVE i \in S
    <3>1. i \in 1 .. n + 1 /\ i < m /\ i \in Nat /\ m \in Nat
      BY <1>3
    <3> QED BY <1>2, <3>1
  <2>2. ASSUME NEW i \in S PROVE i \in 1 .. m - 1
    <3>1. i \in 1 .. n /\ i # m
      BY <1>3
    <3>2. m < i => m \in S
      BY <1>3, <3>1
    <3> QED BY <1>3, <3>1, <3>2
  <2> QED BY <2>1, <2>2
<1>5. Cardinality(1 .. m - 1) = m - 1
  <2>1. 1 \in Int /\ m - 1 \in Int
    BY <1>3
  <2>2. Cardinality(1 .. m - 1) = IF 1 > m - 1 THEN 0 ELSE (m - 1) - 1 + 1
    BY <2>1, FS_Interval
  <2> QED BY <1>3, <2>2
<1> QED BY <1>3, <1>4, <1>5
-----------------------------------------------------------------------------
(* Arrays.                                                                 *)

LEMMA SortedSeq ==
    ASSUME NEW b, NEW a, Sorted(b, a)
    PROVE  /\ a \in Seq(WindowAt(b)) /\ Len(a) \in Nat /\ DOMAIN a = 1 .. Len(a)
           /\ \A i \in DOMAIN a : a[i] \in WindowAt(b)
           /\ Range(a) \subseteq WindowAt(b)
           /\ \A i \in DOMAIN a : a[i] \in Range(a)
           /\ a # << >> => Len(a) > 0
<1>1. a \in Seq(WindowAt(b))
  BY DEF Sorted
<1>2. Len(a) \in Nat /\ DOMAIN a = 1 .. Len(a) /\ \A i \in DOMAIN a : a[i] \in WindowAt(b)
  BY <1>1, LenProperties, ElementOfSeq
<1> QED BY <1>1, <1>2 DEF Range

\* InsertAt puts one element between those before and those from its place on.
LEMMA InsertAtIs ==
    ASSUME NEW S, NEW a \in Seq(S), NEW e \in S, NEW p \in 0 .. Len(a)
    PROVE  LET r == InsertAt(a, p + 1, e)
           IN  /\ r \in Seq(S) /\ Len(r) = Len(a) + 1
               /\ \A i \in 1 .. Len(a) + 1 :
                     r[i] = IF i <= p THEN a[i] ELSE IF i = p + 1 THEN e ELSE a[i - 1]
<1>1. Len(a) \in Nat /\ p \in Nat /\ p <= Len(a) /\ \A i \in 1 .. Len(a) : a[i] \in S
  BY LenProperties, ElementOfSeq
<1> DEFINE u == SubSeq(a, 1, p)
           v == SubSeq(a, p + 1, Len(a))
           w == u \o <<e>>
<1>2. /\ u \in Seq(S) /\ Len(u) = p
      /\ \A i \in 1 .. p : u[i] = a[i]
  <2>1. \A i \in 1 .. p : a[i] \in S
    BY <1>1
  <2>2. 1 \in Int /\ p \in Int
    BY <1>1
  <2>3. /\ u \in Seq(S) /\ Len(u) = IF 1 <= p THEN p - 1 + 1 ELSE 0
        /\ \A i \in 1 .. p - 1 + 1 : u[i] = a[1 + i - 1]
    BY ONLY <2>1, <2>2, SubSeqProperties
  <2> HIDE DEF u
  <2> QED BY <1>1, <2>3
<1>3. /\ v \in Seq(S) /\ Len(v) = Len(a) - p
      /\ \A i \in 1 .. Len(a) - p : v[i] = a[p + i]
  <2>1. \A i \in p + 1 .. Len(a) : a[i] \in S
    BY <1>1
  <2>2. p + 1 \in Int /\ Len(a) \in Int
    BY <1>1
  <2>3. /\ v \in Seq(S) /\ Len(v) = IF p + 1 <= Len(a) THEN Len(a) - (p + 1) + 1 ELSE 0
        /\ \A i \in 1 .. Len(a) - (p + 1) + 1 : v[i] = a[p + 1 + i - 1]
    BY ONLY <2>1, <2>2, SubSeqProperties
  <2> HIDE DEF v
  <2> QED BY <1>1, <2>3
<1> HIDE DEF u, v
<1>4. /\ w \in Seq(S) /\ Len(w) = p + 1
      /\ \A i \in 1 .. p + 1 : w[i] = IF i <= p THEN a[i] ELSE e
  <2>1. <<e>> \in Seq(S) /\ Len(<<e>>) = 1 /\ <<e>>[1] = e
    OBVIOUS
  <2>2. /\ w \in Seq(S) /\ Len(w) = Len(u) + Len(<<e>>)
        /\ \A i \in 1 .. Len(u) + Len(<<e>>) :
               w[i] = IF i <= Len(u) THEN u[i] ELSE <<e>>[i - Len(u)]
    BY <1>2, <2>1, ConcatProperties
  <2> HIDE DEF w
  <2>3. ASSUME NEW i \in 1 .. p + 1 PROVE w[i] = IF i <= p THEN a[i] ELSE e
    <3>1. CASE i <= p
      BY <1>1, <1>2, <2>1, <2>2, <3>1
    <3>2. CASE i = p + 1
      BY <1>1, <1>2, <2>1, <2>2, <3>2
    <3> QED BY <1>1, <3>1, <3>2
  <2> QED BY <1>1, <1>2, <2>1, <2>2, <2>3
<1> HIDE DEF w
<1> DEFINE r == w \o v
<1>5. /\ r \in Seq(S) /\ Len(r) = Len(w) + Len(v)
      /\ \A i \in 1 .. Len(w) + Len(v) : r[i] = IF i <= Len(w) THEN w[i] ELSE v[i - Len(w)]
  BY <1>3, <1>4, ConcatProperties
<1> HIDE DEF r
<1>6. Len(r) = Len(a) + 1 /\ Len(w) + Len(v) = Len(a) + 1
  BY <1>1, <1>3, <1>4, <1>5
<1>7. ASSUME NEW i \in 1 .. Len(a) + 1
      PROVE  r[i] = IF i <= p THEN a[i] ELSE IF i = p + 1 THEN e ELSE a[i - 1]
  <2>1. r[i] = IF i <= p + 1 THEN w[i] ELSE v[i - (p + 1)]
    BY <1>4, <1>5, <1>6
  <2>2. CASE i <= p + 1
    BY <1>1, <1>4, <2>1, <2>2
  <2>3. CASE i > p + 1
    <3>1. i - (p + 1) \in 1 .. Len(a) - p /\ p + (i - (p + 1)) = i - 1
      BY <1>1, <2>3
    <3>2. v[i - (p + 1)] = a[p + (i - (p + 1))]
      BY <1>3, <3>1
    <3> QED BY <1>1, <2>1, <2>3, <3>1, <3>2
  <2> QED BY <1>1, <2>2, <2>3
<1>8. InsertAt(a, p + 1, e) = r
  <2>1. (p + 1) - 1 = p
    BY <1>1
  <2> QED BY <2>1 DEF InsertAt, r, w, u, v
<1> QED BY <1>5, <1>6, <1>7, <1>8

\* yang_insert_uint16_sort keeps the array sorted, adds the number and, if it is
\* newer than all of the array, does so at the end.
LEMMA AddSnIs ==
    ASSUME NEW b \in SeqNo, NEW a, Sorted(b, a), NEW sn \in WindowAt(b)
    PROVE  LET r == AddSn(a, sn)
           IN  /\ Sorted(b, r) /\ Range(r) = Range(a) \cup {sn}
               /\ (\A i \in DOMAIN a : Steps(b, a[i]) < Steps(b, sn)) =>
                     /\ Len(r) = Len(a) + 1 /\ r[Len(a) + 1] = sn
                     /\ \A i \in DOMAIN a : r[i] = a[i]
<1>1. /\ a \in Seq(WindowAt(b)) /\ Len(a) \in Nat /\ DOMAIN a = 1 .. Len(a)
      /\ \A i \in DOMAIN a : a[i] \in WindowAt(b) /\ a[i] \in Range(a)
      /\ \A i, j \in DOMAIN a : i < j => Steps(b, a[i]) < Steps(b, a[j])
  BY SortedSeq DEF Sorted
<1>2. Steps(b, sn) \in Nat /\ \A i \in DOMAIN a : Steps(b, a[i]) \in Nat
  BY <1>1, PlaceIs
<1>3. CASE sn \in Range(a)
  <2>1. AddSn(a, sn) = a
    BY <1>3 DEF AddSn
  <2>2. PICK i \in DOMAIN a : a[i] = sn
    BY <1>3 DEF Range
  <2>3. ~(\A k \in DOMAIN a : Steps(b, a[k]) < Steps(b, sn))
    BY <1>2, <2>2
  <2> QED BY <1>3, <2>1, <2>3
<1>4. CASE sn \notin Range(a)
  <2> DEFINE older == {i \in DOMAIN a : Dist(a[i], sn) > 0}
  <2>1. \A i \in DOMAIN a : Dist(a[i], sn) > 0 <=> Steps(b, a[i]) < Steps(b, sn)
    <3> TAKE i \in DOMAIN a
    <3>1. Dist(a[i], sn) = Steps(b, sn) - Steps(b, a[i])
      BY <1>1, PlaceIs
    <3> QED BY <1>2, <3>1
  <2>2. Cardinality(older) \in 0 .. Len(a) /\ older = 1 .. Cardinality(older)
    <3>1. older \in SUBSET (1 .. Len(a))
      BY <1>1
    <3>2. \A i \in older : \A j \in 1 .. Len(a) : j < i => j \in older
      <4> TAKE i \in older
      <4> TAKE j \in 1 .. Len(a)
      <4> HAVE j < i
      <4>1. i \in DOMAIN a /\ j \in DOMAIN a
        BY <1>1
      <4>2. Steps(b, a[j]) < Steps(b, a[i]) /\ Steps(b, a[i]) < Steps(b, sn)
        BY <1>1, <2>1, <4>1
      <4> QED BY <1>2, <2>1, <4>1, <4>2
    <3> HIDE DEF older
    <3> QED BY <1>1, <3>1, <3>2, PrefixIs
  <2>3. PICK p \in 0 .. Len(a) : older = 1 .. p /\ AddSn(a, sn) = InsertAt(a, p + 1, sn)
    BY <1>4, <2>2 DEF AddSn
  <2> DEFINE r == InsertAt(a, p + 1, sn)
  <2>4. \A i \in DOMAIN a : i <= p <=> Steps(b, a[i]) < Steps(b, sn)
    BY <1>1, <2>1, <2>3
  <2>5. \A i \in DOMAIN a : i > p => Steps(b, sn) < Steps(b, a[i])
    <3> TAKE i \in DOMAIN a
    <3>1. Steps(b, a[i]) # Steps(b, sn)
      BY <1>1, <1>4, PlaceIs
    <3>2. i \in Nat /\ p \in Nat /\ Steps(b, sn) \in Nat /\ Steps(b, a[i]) \in Nat
      BY <1>1, <1>2
    <3>3. i > p => ~(Steps(b, a[i]) < Steps(b, sn))
      BY <2>4, <3>2
    <3> QED BY <3>1, <3>2, <3>3
  <2> HIDE DEF older
  <2>6. /\ r \in Seq(WindowAt(b)) /\ Len(r) = Len(a) + 1
        /\ \A i \in 1 .. Len(a) + 1 :
              r[i] = IF i <= p THEN a[i] ELSE IF i = p + 1 THEN sn ELSE a[i - 1]
    <3>1. a \in Seq(WindowAt(b)) /\ sn \in WindowAt(b) /\ p \in 0 .. Len(a)
      BY <1>1
    <3> QED BY ONLY <3>1, InsertAtIs
  <2> HIDE DEF r
  <2>7. DOMAIN r = 1 .. Len(a) + 1
    BY <2>6, LenProperties
  <2>8. ASSUME NEW i \in DOMAIN r, NEW j \in DOMAIN r, i < j
        PROVE  Steps(b, r[i]) < Steps(b, r[j])
    <3>1. i \in 1 .. Len(a) + 1 /\ j \in 1 .. Len(a) + 1 /\ p \in Nat
      BY <2>3, <2>7
    <3>2. CASE j <= p
      <4>1. i \in DOMAIN a /\ j \in DOMAIN a /\ r[i] = a[i] /\ r[j] = a[j]
        BY <1>1, <2>3, <2>6, <2>8, <3>1, <3>2
      <4> QED BY <1>1, <2>8, <4>1
    <3>3. CASE j = p + 1
      <4>1. i \in DOMAIN a /\ i <= p /\ r[i] = a[i] /\ r[j] = sn
        BY <1>1, <2>3, <2>6, <2>8, <3>1, <3>3
      <4> QED BY <2>4, <4>1
    <3>4. CASE j > p + 1 /\ i <= p
      <4>1. i \in DOMAIN a /\ j - 1 \in DOMAIN a /\ i < j - 1 /\ r[i] = a[i] /\ r[j] = a[j - 1]
        BY <1>1, <2>3, <2>6, <2>8, <3>1, <3>4
      <4> QED BY <1>1, <4>1
    <3>5. CASE j > p + 1 /\ i = p + 1
      <4>1. j - 1 \in DOMAIN a /\ j - 1 > p /\ r[i] = sn /\ r[j] = a[j - 1]
        BY <1>1, <2>3, <2>6, <2>8, <3>1, <3>5
      <4> QED BY <2>5, <4>1
    <3>6. CASE j > p + 1 /\ i > p + 1
      <4>1. /\ i - 1 \in DOMAIN a /\ j - 1 \in DOMAIN a /\ i - 1 < j - 1
            /\ r[i] = a[i - 1] /\ r[j] = a[j - 1]
        BY <1>1, <2>3, <2>6, <2>8, <3>1, <3>6
      <4> QED BY <1>1, <4>1
    <3> QED BY <3>1, <3>2, <3>3, <3>4, <3>5, <3>6
  <2>9. Range(r) = Range(a) \cup {sn}
    <3>1. ASSUME NEW i \in DOMAIN r PROVE r[i] \in Range(a) \cup {sn}
      <4>1. i <= p => i \in DOMAIN a /\ r[i] = a[i]
        BY <1>1, <2>3, <2>6, <2>7
      <4>2. i = p + 1 => r[i] = sn
        BY <2>3, <2>6, <2>7
      <4>3. i > p + 1 => i - 1 \in DOMAIN a /\ r[i] = a[i - 1]
        BY <1>1, <2>3, <2>6, <2>7
      <4>4. i <= p \/ i = p + 1 \/ i > p + 1
        BY <2>3, <2>7, <1>1
      <4> QED BY <1>1, <4>1, <4>2, <4>3, <4>4
    <3>2. ASSUME NEW i \in DOMAIN a PROVE a[i] \in Range(r)
      <4>1. CASE i <= p
        <5>1. i \in DOMAIN r /\ r[i] = a[i]
          BY <1>1, <2>3, <2>6, <2>7, <4>1
        <5> QED BY <5>1 DEF Range
      <4>2. CASE i > p
        <5>1. i + 1 \in DOMAIN r /\ r[i + 1] = a[(i + 1) - 1] /\ (i + 1) - 1 = i
          BY <1>1, <2>3, <2>6, <2>7, <4>2
        <5> QED BY <5>1 DEF Range
      <4> QED BY <1>1, <2>3, <4>1, <4>2
    <3>3. sn \in Range(r)
      <4>1. p + 1 \in DOMAIN r /\ r[p + 1] = sn
        BY <1>1, <2>3, <2>6, <2>7
      <4> QED BY <4>1 DEF Range
    <3>4. \A x \in Range(r) : x \in Range(a) \cup {sn}
      BY <3>1 DEF Range
    <3>5. \A x \in Range(a) : x \in Range(r)
      BY <3>2 DEF Range
    <3> QED BY <3>3, <3>4, <3>5
  <2>10. ASSUME \A i \in DOMAIN a : Steps(b, a[i]) < Steps(b, sn)
         PROVE  /\ Len(r) = Len(a) + 1 /\ r[Len(a) + 1] = sn
                /\ \A i \in DOMAIN a : r[i] = a[i]
    <3>1. p = Len(a)
      <4>1. Len(a) > p => Len(a) \in DOMAIN a /\ ~(Len(a) <= p)
        BY <1>1
      <4>2. ~(Len(a) > p)
        BY <2>4, <2>10, <4>1
      <4>3. Len(a) \in Nat /\ p \in 0 .. Len(a)
        BY <1>1
      <4> QED BY ONLY <4>2, <4>3
    <3> QED BY <1>1, <2>6, <3>1
  <2>11. Sorted(b, r)
    BY <2>6, <2>8 DEF Sorted
  <2> QED BY <2>3, <2>9, <2>10, <2>11 DEF r
<1> QED BY <1>3, <1>4

\* uint16_t arithmetic changes nothing where the sum is a number.
LEMMA FollowingIs ==
    ASSUME NEW pid \in SeqNo, NEW j \in 0 .. MaskLen - 1, pid + j + 1 \in SeqNo
    PROVE  Following(pid, j) = pid + j + 1
BY Numbers DEF Following

\* Where one pair can carry the array, it grows from its first number on.
LEMMA FitsIs ==
    ASSUME NEW b \in SeqNo, NEW a, Sorted(b, a), a # << >>, Fits(a)
    PROVE  /\ 1 \in DOMAIN a /\ \A k \in DOMAIN a : a[k] \in Nat /\ a[k] - a[1] \in 0 .. MaskLen
           /\ \A k, l \in DOMAIN a : k < l => a[k] < a[l]
<1>1. 1 \in DOMAIN a /\ \A k \in DOMAIN a : a[k] \in SeqNo /\ Steps(b, a[k]) \in Nat
  BY SortedSeq, PlaceIs
<1>2. \A k \in DOMAIN a : a[k] \in Nat /\ a[k] < SeqCount /\ a[k] >= a[1] /\ a[k] - a[1] \in 0 .. MaskLen
  BY <1>1, Numbers DEF Fits
<1>3. \A k \in DOMAIN a : Steps(b, a[k]) >= Steps(b, a[1])
  <2> TAKE k \in DOMAIN a
  <2>1. k = 1 \/ k > 1
    BY SortedSeq
  <2> QED BY <1>1, <2>1 DEF Sorted
<1>4. \A k \in DOMAIN a : Steps(b, a[k]) - Steps(b, a[1]) = a[k] - a[1]
  <2> TAKE k \in DOMAIN a
  <2>1. b \in Nat /\ b < SeqCount
    BY Numbers
  <2>2. /\ a[k] \in Nat /\ a[1] \in Nat /\ a[k] < SeqCount /\ a[1] < SeqCount /\ a[k] >= a[1]
        /\ Steps(b, a[k]) >= Steps(b, a[1])
    BY <1>1, <1>2, <1>3
  <2> QED BY ONLY <2>1, <2>2, Numbers DEF Steps
<1>5. ASSUME NEW k \in DOMAIN a, NEW l \in DOMAIN a, k < l
      PROVE  a[k] < a[l]
  <2>1. Steps(b, a[k]) < Steps(b, a[l])
    BY <1>5 DEF Sorted
  <2>2. /\ a[k] \in Nat /\ a[l] \in Nat /\ a[1] \in Nat
        /\ Steps(b, a[k]) \in Nat /\ Steps(b, a[l]) \in Nat /\ Steps(b, a[1]) \in Nat
    BY <1>1, <1>2
  <2>3. /\ Steps(b, a[k]) - Steps(b, a[1]) = a[k] - a[1]
        /\ Steps(b, a[l]) - Steps(b, a[1]) = a[l] - a[1]
    BY <1>4
  <2> QED BY <2>1, <2>2, <2>3
<1> QED BY <1>1, <1>2, <1>5
-----------------------------------------------------------------------------
(* The first loop.                                                         *)

LEMMA EncFields ==
    ASSUME NEW e \in EncRecord
    PROVE  e.i \in Nat /\ e.in_use \in BOOLEAN /\ e.pid \in SeqNo /\ e.blp \in Mask
BY ZenonT(30) DEF EncRecord

LEMMA DecFields ==
    ASSUME NEW d \in DecRecord
    PROVE  d.i \in Nat /\ d.bits \in 0 .. MaskLen
BY ZenonT(30) DEF DecRecord

LEMMA PairFields ==
    ASSUME NEW c \in PairRecord
    PROVE  c.pid \in SeqNo /\ c.blp \in Mask
BY ZenonT(30) DEF PairRecord

LEMMA PairIs ==
    ASSUME enc \in EncRecord
    PROVE  Chunk \in PairRecord /\ Chunk.pid = enc.pid /\ Chunk.blp = enc.blp
<1>1. enc.pid \in SeqNo /\ enc.blp \in Mask
  BY EncFields
<1> QED BY <1>1, ZenonT(30) DEF Chunk, PairRecord

LEMMA StartIs ==
    /\ StartEnc \in EncRecord /\ StartEnc.i = 0 /\ ~StartEnc.in_use /\ StartEnc.blp = {}
    /\ StartDec \in DecRecord /\ StartDec.i = 1 /\ StartDec.bits = 0
<1>1. 0 \in SeqNo /\ {} \in Mask /\ 0 \in 0 .. MaskLen /\ 0 \in Nat /\ 1 \in Nat
  BY Numbers DEF Mask
<1> QED BY <1>1, ZenonT(30) DEF StartEnc, StartDec, EncRecord, DecRecord

LEMMA BitsAre ==
    ASSUME NEW a
    PROVE  /\ BitsOf(a, 0) = {} /\ BitsOf(a, 1) = {}
           /\ \A n \in Nat \ {0} : BitsOf(a, n + 1) = BitsOf(a, n) \cup {a[n + 1] - a[1] - 1}
<1>1. 2 .. 0 = {} /\ 2 .. 1 = {}
  OBVIOUS
<1>2. ASSUME NEW n \in Nat \ {0}
      PROVE  BitsOf(a, n + 1) = BitsOf(a, n) \cup {a[n + 1] - a[1] - 1}
  <2>1. 2 .. n + 1 = (2 .. n) \cup {n + 1}
    OBVIOUS
  <2> QED BY <2>1 DEF BitsOf
<1> QED BY <1>1, <1>2 DEF BitsOf

LEMMA EmptyArray == /\ \A b : Sorted(b, << >>)
                    /\ Range(<< >>) = {} /\ Len(<< >>) = 0 /\ DOMAIN << >> = {}
BY DEF Sorted, Range

LEMMA Initially == Init => IInv
<1> SUFFICES ASSUME Init PROVE IInv
  OBVIOUS
<1>1. TypeInv
  BY StartIs, EmptyArray DEF Init, TypeInv
<1>2. LoopInv /\ PairInv /\ FirstInv /\ AskedInv /\ OneInv
  BY EmptyArray DEF Init, LoopInv, PairInv, FirstInv, AskedInv, OneInv, NothingElseAsked
<1> QED BY <1>1, <1>2 DEF IInv

LEMMA CollectKeeps ==
    ASSUME IInv, NEW sn \in Window, Collect(sn)
    PROVE  IInv'
<1>1. /\ stage = "collect" /\ stage' = "collect" /\ nacks' = AddSn(nacks, sn)
      /\ UNCHANGED <<base, enc, chunks, dec, asked>>
      /\ chunks = << >> /\ asked = << >>
  BY DEF IInv, LoopInv, Collect
<1>2. Sorted(base, nacks')
  BY <1>1, AddSnIs DEF IInv, TypeInv, Window, WindowAt
<1>3. TypeInv'
  BY <1>1, <1>2 DEF IInv, TypeInv
<1>4. (LoopInv /\ PairInv /\ FirstInv /\ AskedInv /\ OneInv)'
  BY <1>1, EmptyArray DEF LoopInv, PairInv, FirstInv, AskedInv, OneInv, NothingElseAsked
<1> QED BY <1>3, <1>4 DEF IInv

LEMMA SendKeeps ==
    ASSUME IInv, Send
    PROVE  IInv'
<1>1. /\ stage = "collect" /\ stage' = "encode" /\ nacks # << >> /\ enc' = StartEnc
      /\ UNCHANGED <<base, nacks, chunks, dec, asked>>
      /\ chunks = << >> /\ asked = << >>
  BY DEF IInv, LoopInv, Send
<1>2. TypeInv'
  BY <1>1, StartIs DEF IInv, TypeInv
<1>3. 0 <= Len(nacks)
  BY SortedSeq DEF IInv, TypeInv
<1>4. (LoopInv /\ PairInv /\ FirstInv /\ AskedInv)'
  BY <1>1, <1>3, StartIs, EmptyArray DEF LoopInv, PairInv, FirstInv, AskedInv, NothingElseAsked
<1>5. OneInv'
  BY <1>1, StartIs, BitsAre DEF OneInv
<1> QED BY <1>2, <1>4, <1>5 DEF IInv

\* What a turn of the loop finds: the next number is newer than those read, and
\* if one pair carries the array, the pair in work began with its first number.
LEMMA TurnIs ==
    ASSUME IInv, stage = "encode", enc.i < Len(nacks)
    PROVE  /\ enc.i + 1 \in DOMAIN nacks /\ nacks[enc.i + 1] \in SeqNo
           /\ nacks[enc.i + 1] \in Range(nacks) /\ nacks # << >>
           /\ enc.i \in Nat /\ enc.pid \in SeqNo /\ enc.blp \in Mask /\ enc.in_use \in BOOLEAN
           /\ enc.in_use => enc.i > 0
           /\ Fits(nacks) => /\ chunks = << >> /\ enc.blp = BitsOf(nacks, enc.i)
                             /\ enc.in_use <=> enc.i > 0
                             /\ enc.in_use => /\ enc.pid = nacks[1]
                                              /\ nacks[enc.i + 1] - enc.pid \in 1 .. MaskLen
<1>1. enc.i \in Nat /\ enc.pid \in SeqNo /\ enc.blp \in Mask /\ enc.in_use \in BOOLEAN
  BY EncFields DEF IInv, TypeInv
<1>2. /\ enc.i + 1 \in DOMAIN nacks /\ nacks[enc.i + 1] \in WindowAt(base)
      /\ nacks[enc.i + 1] \in Range(nacks)
  BY <1>1, SortedSeq DEF IInv, TypeInv
<1>3. nacks[enc.i + 1] \in SeqNo
  BY <1>2 DEF WindowAt
<1>4. enc.in_use => enc.i > 0
  BY <1>1 DEF IInv, LoopInv
<1>5. ASSUME Fits(nacks)
      PROVE  /\ chunks = << >> /\ enc.blp = BitsOf(nacks, enc.i)
             /\ enc.in_use <=> enc.i > 0
             /\ enc.in_use => enc.pid = nacks[1] /\ nacks[enc.i + 1] - enc.pid \in 1 .. MaskLen
  <2>1. nacks # << >> /\ chunks = << >> /\ enc.blp = BitsOf(nacks, enc.i)
    BY <1>5 DEF IInv, OneInv, LoopInv
  <2>2. (enc.in_use <=> enc.i > 0) /\ (enc.in_use => enc.pid = nacks[1])
    BY <1>4, <2>1 DEF IInv, FirstInv
  <2>3. /\ 1 \in DOMAIN nacks /\ nacks[1] \in Nat /\ nacks[enc.i + 1] \in Nat
        /\ nacks[enc.i + 1] - nacks[1] \in 0 .. MaskLen
        /\ 1 < enc.i + 1 => nacks[1] < nacks[enc.i + 1]
    BY <1>2, <1>5, <2>1, FitsIs DEF IInv, TypeInv
  <2>4. enc.i > 0 => nacks[enc.i + 1] - nacks[1] \in 1 .. MaskLen
    <3>1. enc.i > 0 => 1 < enc.i + 1
      BY <1>1
    <3>2. MaskLen \in Nat
      BY Numbers
    <3> QED BY ONLY <2>3, <3>1, <3>2
  <2> QED BY <2>1, <2>2, <2>4
<1> QED BY <1>1, <1>2, <1>3, <1>4, <1>5 DEF IInv, LoopInv

\* What it does: open a pair, pass over the number, close the pair or mark a bit.
Distance == nacks[enc.i + 1] - enc.pid
Opens ==
    /\ ~enc.in_use /\ chunks' = chunks /\ enc'.in_use
    /\ enc'.pid = nacks[enc.i + 1] /\ enc'.blp = {}
Skips ==
    /\ enc.in_use /\ Distance < 1 /\ chunks' = chunks
    /\ enc'.in_use = enc.in_use /\ enc'.pid = enc.pid /\ enc'.blp = enc.blp
Closes ==
    enc.in_use /\ Distance > MaskLen /\ chunks' = Append(chunks, Chunk) /\ ~enc'.in_use
Marks ==
    /\ enc.in_use /\ Distance \in 1 .. MaskLen /\ chunks' = chunks
    /\ enc'.in_use = enc.in_use /\ enc'.pid = enc.pid
    /\ enc'.blp = enc.blp \cup {Distance - 1}

LEMMA PackSnDoes ==
    ASSUME IInv, PackSn
    PROVE  /\ stage = "encode" /\ enc.i < Len(nacks)
           /\ UNCHANGED <<base, nacks, dec, asked, stage>>
           /\ enc' \in EncRecord /\ enc'.i = enc.i + 1
           /\ Opens \/ Skips \/ Closes \/ Marks
<1> DEFINE sn == nacks[enc.i + 1]
           distance == sn - enc.pid
<1>1. stage = "encode" /\ enc.i < Len(nacks) /\ UNCHANGED <<base, nacks, dec, asked, stage>>
  BY DEF PackSn
<1>2. /\ sn \in SeqNo /\ enc.i + 1 \in Nat /\ enc.pid \in SeqNo /\ enc.blp \in Mask
      /\ enc.in_use \in BOOLEAN /\ enc \in EncRecord /\ distance \in Int
  BY <1>1, TurnIs, Numbers DEF IInv, TypeInv
<1>3. \/ /\ ~enc.in_use /\ chunks' = chunks
         /\ enc' = [i |-> enc.i + 1, in_use |-> TRUE, pid |-> sn, blp |-> {}]
      \/ /\ enc.in_use /\ distance < 1 /\ chunks' = chunks
         /\ enc' = [enc EXCEPT !.i = enc.i + 1]
      \/ /\ enc.in_use /\ distance > MaskLen /\ chunks' = Append(chunks, Chunk)
         /\ enc' = [enc EXCEPT !.i = enc.i + 1, !.in_use = FALSE]
      \/ /\ enc.in_use /\ distance >= 1 /\ ~(distance > MaskLen) /\ chunks' = chunks
         /\ enc' = [enc EXCEPT !.i = enc.i + 1, !.blp = enc.blp \cup {distance - 1}]
  BY DEF PackSn, TooFar, BitOf
<1> HIDE DEF sn, distance
<1>4. CASE /\ ~enc.in_use /\ chunks' = chunks
           /\ enc' = [i |-> enc.i + 1, in_use |-> TRUE, pid |-> sn, blp |-> {}]
  <2>1. {} \in Mask /\ TRUE \in BOOLEAN
    BY DEF Mask
  <2>2. /\ enc' \in EncRecord /\ enc'.i = enc.i + 1 /\ enc'.in_use = TRUE
        /\ enc'.pid = sn /\ enc'.blp = {}
    BY <1>2, <1>4, <2>1, ZenonT(30) DEF EncRecord
  <2> QED BY <1>1, <1>4, <2>2 DEF sn, Opens
<1>5. CASE /\ enc.in_use /\ distance < 1 /\ chunks' = chunks
           /\ enc' = [enc EXCEPT !.i = enc.i + 1]
  <2>1. /\ enc' \in EncRecord /\ enc'.i = enc.i + 1 /\ enc'.in_use = enc.in_use
        /\ enc'.pid = enc.pid /\ enc'.blp = enc.blp
    BY <1>2, <1>5, ZenonT(30) DEF EncRecord
  <2> QED BY <1>1, <1>5, <2>1 DEF sn, distance, Skips, Distance
<1>6. CASE /\ enc.in_use /\ distance > MaskLen /\ chunks' = Append(chunks, Chunk)
           /\ enc' = [enc EXCEPT !.i = enc.i + 1, !.in_use = FALSE]
  <2>1. enc' \in EncRecord /\ enc'.i = enc.i + 1 /\ enc'.in_use = FALSE
    BY <1>2, <1>6, ZenonT(30) DEF EncRecord
  <2> QED BY <1>1, <1>6, <2>1 DEF sn, distance, Closes, Distance
<1>7. CASE /\ enc.in_use /\ distance >= 1 /\ ~(distance > MaskLen) /\ chunks' = chunks
           /\ enc' = [enc EXCEPT !.i = enc.i + 1, !.blp = enc.blp \cup {distance - 1}]
  <2>1. distance \in 1 .. MaskLen
    BY <1>2, <1>7, Numbers
  <2>2. enc.blp \cup {distance - 1} \in Mask
    BY <1>2, <2>1, Numbers DEF Mask
  <2>3. /\ enc' \in EncRecord /\ enc'.i = enc.i + 1 /\ enc'.in_use = enc.in_use
        /\ enc'.pid = enc.pid /\ enc'.blp = enc.blp \cup {distance - 1}
    BY <1>2, <1>7, <2>2, ZenonT(30) DEF EncRecord
  <2> QED BY <1>1, <1>7, <2>1, <2>3 DEF sn, distance, Marks, Distance
<1> QED BY <1>3, <1>4, <1>5, <1>6, <1>7

\* The pair in work is written behind the others.
LEMMA AppendedIs ==
    ASSUME IInv, stage = "encode", enc.in_use, NEW q, q = Append(chunks, Chunk), nacks # << >>
    PROVE  /\ q \in Seq(PairRecord) /\ q # << >>
           /\ \A k \in DOMAIN q : Names(nacks, q[k].pid, q[k].blp)
           /\ q[1].pid = nacks[1]
           /\ chunks = << >> => Len(q) = 1 /\ q[1].blp = enc.blp
<1>1. /\ chunks \in Seq(PairRecord) /\ Chunk \in PairRecord /\ Len(chunks) \in Nat
      /\ Chunk.pid = enc.pid /\ Chunk.blp = enc.blp /\ DOMAIN chunks = 1 .. Len(chunks)
  BY PairIs, LenProperties DEF IInv, TypeInv
<1>2. /\ q \in Seq(PairRecord) /\ q # << >> /\ Len(q) = Len(chunks) + 1
      /\ \A k \in 1 .. Len(chunks) : q[k] = chunks[k]
      /\ q[Len(chunks) + 1] = Chunk
  BY <1>1, AppendProperties
<1>3. DOMAIN q = 1 .. Len(chunks) + 1
  BY <1>2, LenProperties
<1>4. ASSUME NEW k \in DOMAIN q PROVE Names(nacks, q[k].pid, q[k].blp)
  <2>1. CASE k = Len(chunks) + 1
    BY <1>1, <1>2, <2>1 DEF IInv, PairInv
  <2>2. CASE k \in 1 .. Len(chunks)
    BY <1>1, <1>2, <2>2 DEF IInv, PairInv
  <2> QED BY <1>1, <1>3, <2>1, <2>2
<1>5. CASE chunks = << >>
  <2>1. enc.pid = nacks[1]
    <3>1. enc.i \in Nat /\ enc.i # 0
      BY EncFields DEF IInv, TypeInv, LoopInv
    <3> QED BY <1>5, <3>1 DEF IInv, FirstInv
  <2> QED BY <1>1, <1>2, <1>4, <1>5, <2>1
<1>6. CASE chunks # << >>
  <2>1. 1 \in 1 .. Len(chunks)
    BY <1>1, <1>6
  <2> QED BY <1>2, <1>4, <1>6, <2>1 DEF IInv, FirstInv
<1> QED BY <1>5, <1>6

LEMMA PackSnKeeps ==
    ASSUME IInv, PackSn
    PROVE  IInv'
<1> DEFINE sn == nacks[enc.i + 1]
<1>1. /\ stage = "encode" /\ UNCHANGED <<base, nacks, dec, asked, stage>>
      /\ enc' \in EncRecord /\ enc'.i = enc.i + 1 /\ enc.i < Len(nacks) /\ Len(nacks) \in Nat
      /\ enc.i \in Nat /\ sn \in SeqNo /\ sn \in Range(nacks) /\ enc.pid \in SeqNo
      /\ nacks # << >> /\ asked = << >>
  BY PackSnDoes, TurnIs, SortedSeq DEF IInv, TypeInv, LoopInv
<1>2. chunks' \in Seq(PairRecord)
  BY <1>1, PackSnDoes, AppendedIs DEF IInv, TypeInv, Opens, Skips, Closes, Marks
<1>3. TypeInv'
  BY <1>1, <1>2 DEF IInv, TypeInv
<1>4. LoopInv'
  BY <1>1 DEF IInv, LoopInv
<1>5. PairInv'
  <2>1. CASE Opens
    BY <1>1, <2>1 DEF IInv, PairInv, Names, Opens
  <2>2. CASE Skips
    BY <1>1, <2>2 DEF IInv, PairInv, Skips
  <2>3. CASE Closes
    BY <1>1, <2>3, AppendedIs DEF PairInv, Closes
  <2>4. CASE Marks
    <3>1. enc.pid + (Distance - 1) + 1 = sn
      BY <1>1, Numbers DEF Distance
    <3>2. Names(nacks, enc.pid, enc'.blp)
      BY <1>1, <2>4, <3>1 DEF IInv, PairInv, Names, Marks
    <3> QED BY <1>1, <2>4, <3>2 DEF IInv, PairInv, Marks
  <2> QED BY <2>1, <2>2, <2>3, <2>4, PackSnDoes
<1>6. FirstInv'
  <2>1. CASE chunks' = chunks /\ chunks = << >>
    <3>1. enc.in_use \in BOOLEAN /\ (enc.i > 0 => enc.in_use /\ enc.pid = nacks[1])
          /\ (enc.i = 0 \/ enc.i > 0)
      BY <1>1, <2>1, TurnIs DEF IInv, FirstInv
    <3>2. enc.in_use => enc.i > 0
      BY <1>1, TurnIs
    <3>3. CASE Opens
      BY <1>1, <2>1, <3>1, <3>3 DEF FirstInv, Opens
    <3>4. CASE Skips \/ Marks
      BY <1>1, <2>1, <3>1, <3>2, <3>4 DEF FirstInv, Skips, Marks
    <3>5. CASE Closes
      BY <1>1, <3>5, AppendedIs DEF FirstInv, Closes
    <3> QED BY <3>3, <3>4, <3>5, PackSnDoes
  <2>2. CASE chunks' = chunks /\ chunks # << >>
    BY <1>1, <2>2 DEF IInv, FirstInv
  <2>3. CASE Closes
    BY <1>1, <2>3, AppendedIs DEF FirstInv, Closes
  <2> QED BY <2>1, <2>2, <2>3, PackSnDoes DEF Opens, Skips, Marks
<1>7. AskedInv'
  BY <1>1 DEF IInv, AskedInv, NothingElseAsked
<1>8. OneInv'
  <2> SUFFICES ASSUME Fits(nacks)
               PROVE  chunks' = << >> /\ enc'.blp = BitsOf(nacks, enc.i + 1)
    BY <1>1 DEF OneInv
  <2>1. CASE Opens
    <3>1. enc.i = 0 /\ chunks = << >>
      BY <1>1, <2>1, TurnIs DEF Opens
    <3> QED BY <2>1, <3>1, BitsAre DEF Opens
  <2>2. CASE enc.in_use
    <3>1. /\ chunks = << >> /\ enc.i > 0 /\ enc.pid = nacks[1] /\ Distance \in 1 .. MaskLen
          /\ enc.blp = BitsOf(nacks, enc.i)
      BY <1>1, <2>2, TurnIs DEF Distance
    <3>2. ~Opens /\ ~Skips /\ ~Closes
      <4>1. ~(Distance < 1) /\ ~(Distance > MaskLen)
        BY <3>1, Numbers
      <4> QED BY <2>2, <4>1 DEF Opens, Skips, Closes
    <3>3. chunks' = << >> /\ enc'.blp = enc.blp \cup {nacks[enc.i + 1] - nacks[1] - 1}
      BY <3>1, <3>2, PackSnDoes DEF Marks, Distance
    <3> QED BY <1>1, <3>1, <3>3, BitsAre
  <2> QED BY <2>1, <2>2, PackSnDoes DEF Skips, Closes, Marks
<1> QED BY <1>3, <1>4, <1>5, <1>6, <1>7, <1>8 DEF IInv

LEMMA WritePacketKeeps ==
    ASSUME IInv, WritePacket
    PROVE  IInv'
<1>1. /\ stage = "encode" /\ stage' = "decode" /\ dec' = StartDec /\ enc.i = Len(nacks)
      /\ UNCHANGED <<base, nacks, enc, asked>> /\ asked = << >> /\ nacks # << >>
      /\ enc.i > 0 /\ enc.in_use \in BOOLEAN
      /\ chunks' = IF enc.in_use THEN Append(chunks, Chunk) ELSE chunks
  BY SortedSeq, EncFields DEF IInv, TypeInv, LoopInv, WritePacket
<1>2. /\ chunks' \in Seq(PairRecord) /\ chunks' # << >> /\ chunks'[1].pid = nacks[1]
      /\ \A k \in DOMAIN chunks' : Names(nacks, chunks'[k].pid, chunks'[k].blp)
  <2>1. CASE enc.in_use
    BY <1>1, <2>1, AppendedIs
  <2>2. CASE ~enc.in_use
    BY <1>1, <2>2 DEF IInv, TypeInv, FirstInv, PairInv
  <2> QED BY <1>1, <2>1, <2>2
<1>3. TypeInv'
  BY <1>1, <1>2, StartIs DEF IInv, TypeInv
<1>4. (LoopInv /\ PairInv /\ FirstInv /\ AskedInv)'
  BY <1>1, <1>2, StartIs, EmptyArray DEF LoopInv, PairInv, FirstInv, AskedInv, NothingElseAsked
<1>5. OneInv'
  <2> SUFFICES ASSUME Fits(nacks)
               PROVE  /\ Len(chunks') = 1 /\ chunks'[1].blp = BitsOf(nacks, Len(nacks))
                      /\ Unpacked(nacks, << >>, 0)
    BY <1>1, StartIs DEF OneInv
  <2>1. chunks = << >> /\ enc.blp = BitsOf(nacks, Len(nacks)) /\ enc.in_use
    BY <1>1 DEF IInv, OneInv, FirstInv
  <2>2. Unpacked(nacks, << >>, 0)
    <3>1. Len(nacks) \in Nat /\ DOMAIN nacks = 1 .. Len(nacks)
      BY SortedSeq DEF IInv, TypeInv
    <3>2. \A k \in DOMAIN nacks : ~(k <= 0) /\ ~(nacks[k] - nacks[1] < 0)
      BY <3>1 DEF Fits
    <3> QED BY <3>1, <3>2, EmptyArray DEF Unpacked
  <2> QED BY <1>1, <2>1, <2>2, AppendedIs
<1> QED BY <1>3, <1>4, <1>5 DEF IInv
-----------------------------------------------------------------------------
(* The second loop.                                                        *)

\* A number of the array is put among those asked for.
LEMMA AskedIs ==
    ASSUME IInv, NEW sn \in Range(nacks), NEW q, q = AddSn(asked, sn)
    PROVE  /\ Sorted(base, q) /\ Range(q) = Range(asked) \cup {sn}
           /\ Range(q) \subseteq Range(nacks)
           /\ (\A i \in DOMAIN asked : Steps(base, asked[i]) < Steps(base, sn)) =>
                 /\ Len(q) = Len(asked) + 1 /\ q[Len(asked) + 1] = sn
                 /\ \A i \in DOMAIN asked : q[i] = asked[i]
<1>1. base \in SeqNo /\ Sorted(base, asked) /\ sn \in WindowAt(base)
  BY SortedSeq DEF IInv, TypeInv
<1>2. Range(asked) \subseteq Range(nacks)
  BY DEF IInv, AskedInv, NothingElseAsked
<1> QED BY <1>1, <1>2, AddSnIs

\* The pair that is read.
LEMMA PairRead ==
    ASSUME IInv, stage = "decode", dec.i <= Len(chunks)
    PROVE  /\ dec.i \in DOMAIN chunks /\ dec.i \in Nat /\ dec.i >= 1 /\ dec.bits \in 0 .. MaskLen
           /\ chunks[dec.i].pid \in SeqNo /\ chunks[dec.i].blp \in Mask
           /\ Names(nacks, chunks[dec.i].pid, chunks[dec.i].blp)
           /\ dec.i = 1 => chunks[dec.i].pid = nacks[1]
           /\ nacks # << >>
           /\ Fits(nacks) => /\ dec.i = 1 /\ Unpacked(nacks, asked, dec.bits)
                             /\ chunks[dec.i].blp = BitsOf(nacks, Len(nacks))
<1>1. /\ chunks \in Seq(PairRecord) /\ DOMAIN chunks = 1 .. Len(chunks) /\ Len(chunks) \in Nat
      /\ dec.i \in Nat /\ dec.bits \in 0 .. MaskLen /\ dec.i >= 1
  BY LenProperties, DecFields DEF IInv, TypeInv, LoopInv
<1>2. dec.i \in DOMAIN chunks /\ chunks[dec.i] \in PairRecord
  BY <1>1, ElementOfSeq
<1>3. nacks # << >> /\ chunks # << >> /\ chunks[1].pid = nacks[1]
  BY DEF IInv, LoopInv, FirstInv
<1>4. Fits(nacks) => /\ dec.i = 1 /\ Unpacked(nacks, asked, dec.bits)
                     /\ chunks[dec.i].blp = BitsOf(nacks, Len(nacks))
  <2> HAVE Fits(nacks)
  <2>1. /\ Len(chunks) = 1 /\ chunks[1].blp = BitsOf(nacks, Len(nacks))
        /\ \/ dec.i = 1 /\ Unpacked(nacks, asked, dec.bits)
           \/ dec.i = 2
    BY <1>3 DEF IInv, OneInv
  <2>2. dec.i = 1
    BY <1>1, <2>1
  <2> QED BY <2>1, <2>2
<1> QED BY <1>1, <1>2, <1>3, <1>4, PairFields DEF IInv, PairInv

LEMMA DecIs ==
    ASSUME dec \in DecRecord, NEW n \in 0 .. MaskLen, NEW d
    PROVE  /\ d = [dec EXCEPT !.bits = n] => d \in DecRecord /\ d.i = dec.i /\ d.bits = n
           /\ d = [i |-> dec.i + 1, bits |-> 0] => d \in DecRecord /\ d.i = dec.i + 1 /\ d.bits = 0
<1>1. dec.i \in Nat /\ dec.i + 1 \in Nat /\ 0 \in 0 .. MaskLen
  BY DecFields, Numbers
<1>2. d = [dec EXCEPT !.bits = n] => d \in DecRecord /\ d.i = dec.i /\ d.bits = n
  BY ZenonT(30) DEF DecRecord
<1>3. ASSUME NEW m \in Nat, d = [i |-> m, bits |-> 0]
      PROVE  d \in DecRecord /\ d.i = m /\ d.bits = 0
  BY <1>1, <1>3, ZenonT(30) DEF DecRecord
<1> QED BY <1>1, <1>2, <1>3

LEMMA UnpackPidKeeps ==
    ASSUME IInv, UnpackPid
    PROVE  IInv'
<1> DEFINE sn == chunks[dec.i].pid
<1>1. /\ stage = "decode" /\ dec.i <= Len(chunks) /\ dec.bits = 0
      /\ asked' = AddSn(asked, sn) /\ dec' = [dec EXCEPT !.bits = 1]
      /\ UNCHANGED <<base, nacks, enc, chunks, stage>>
  BY DEF UnpackPid
<1>2. sn \in Range(nacks) /\ (dec.i = 1 => sn = nacks[1]) /\ dec.i >= 1 /\ dec.i \in Nat
  BY <1>1, PairRead DEF Names
<1>3. dec' \in DecRecord /\ dec'.i = dec.i /\ dec'.bits = 1
  <2>1. 1 \in 0 .. MaskLen
    BY Numbers
  <2> QED BY <1>1, <2>1, DecIs DEF IInv, TypeInv
<1>4. Sorted(base, asked') /\ Range(asked') = Range(asked) \cup {sn} /\ Range(asked') \subseteq Range(nacks)
  BY <1>1, <1>2, AskedIs
<1>5. TypeInv'
  BY <1>1, <1>3, <1>4 DEF IInv, TypeInv
<1>6. (LoopInv /\ PairInv /\ FirstInv)'
  BY <1>1, <1>2, <1>3 DEF IInv, LoopInv, PairInv, FirstInv
<1>7. AskedInv'
  <2>1. nacks[1] \in Range(asked')
    BY <1>1, <1>2, <1>4 DEF IInv, AskedInv
  <2> QED BY <1>1, <1>4, <2>1 DEF AskedInv, NothingElseAsked
<1>8. OneInv'
  <2> SUFFICES ASSUME Fits(nacks)
               PROVE  /\ Len(chunks) = 1 /\ chunks[1].blp = BitsOf(nacks, Len(nacks))
                      /\ dec.i = 1 /\ Unpacked(nacks, asked', 1)
    BY <1>1, <1>3 DEF OneInv
  <2>1. /\ nacks # << >> /\ dec.i = 1 /\ Len(chunks) = 1
        /\ chunks[1].blp = BitsOf(nacks, Len(nacks)) /\ asked = << >> /\ sn = nacks[1]
    BY <1>1, <1>2, PairRead DEF IInv, OneInv, LoopInv
  <2>2. Len(asked') = 1 /\ asked'[1] = nacks[1] /\ DOMAIN asked' = 1 .. Len(asked')
    BY <1>1, <1>2, <1>4, <2>1, AskedIs, EmptyArray, SortedSeq
  <2>3. /\ 1 \in DOMAIN nacks /\ Len(nacks) \in Nat /\ DOMAIN nacks = 1 .. Len(nacks)
        /\ \A k \in DOMAIN nacks : nacks[k] \in Nat
        /\ \A k, l \in DOMAIN nacks : k < l => nacks[k] < nacks[l]
    BY <2>1, FitsIs, SortedSeq DEF IInv, TypeInv
  <2>4. \A k \in DOMAIN nacks : k <= 1 <=> nacks[k] - nacks[1] < 1
    <3> TAKE k \in DOMAIN nacks
    <3>1. k \in Nat /\ (k = 1 \/ k > 1)
      BY <2>3
    <3>2. k > 1 => nacks[1] < nacks[k]
      BY <2>3
    <3> QED BY <2>3, <3>1, <3>2
  <2>5. Len(asked') <= Len(nacks) /\ \A k \in DOMAIN asked' : asked'[k] = nacks[k]
    BY <2>2, <2>3
  <2> QED BY <2>1, <2>2, <2>4, <2>5 DEF Unpacked
<1> QED BY <1>5, <1>6, <1>7, <1>8 DEF IInv

\* One more bit of the only pair: the next number of the array, or none.
LEMMA BitUnpacked ==
    ASSUME IInv, stage = "decode", dec.i <= Len(chunks), dec.bits > 0, Fits(nacks),
           NEW q, q = IF dec.bits - 1 \in chunks[dec.i].blp
                      THEN AddSn(asked, Following(chunks[dec.i].pid, dec.bits - 1)) ELSE asked
    PROVE  Unpacked(nacks, q, dec.bits + 1)
<1> DEFINE c == chunks[dec.i]
           n == dec.bits
<1>1. /\ nacks # << >> /\ c.pid = nacks[1] /\ c.blp = BitsOf(nacks, Len(nacks))
      /\ c.pid \in SeqNo /\ Unpacked(nacks, asked, n) /\ n \in 1 .. MaskLen
      /\ Names(nacks, c.pid, c.blp)
  BY PairRead, Numbers
<1>2. /\ 1 \in DOMAIN nacks /\ Len(nacks) \in Nat /\ DOMAIN nacks = 1 .. Len(nacks)
      /\ \A k \in DOMAIN nacks : nacks[k] \in Nat /\ nacks[k] \in SeqNo /\ nacks[k] \in Range(nacks)
      /\ \A k, l \in DOMAIN nacks : k < l => nacks[k] < nacks[l]
  <2>1. base \in SeqNo /\ Sorted(base, nacks)
    BY DEF IInv, TypeInv
  <2>2. \A k \in DOMAIN nacks : nacks[k] \in SeqNo
    BY <2>1, SortedSeq, PlaceIs
  <2> QED BY <1>1, <2>1, <2>2, FitsIs, SortedSeq
<1>3. Len(asked) \in Nat /\ DOMAIN asked = 1 .. Len(asked)
  BY SortedSeq DEF IInv, TypeInv
<1>4. CASE n - 1 \in c.blp
  <2>1. PICK k \in 2 .. Len(nacks) : n - 1 = nacks[k] - nacks[1] - 1
    BY <1>1, <1>4 DEF BitsOf
  <2>2. k \in DOMAIN nacks /\ nacks[k] = nacks[1] + n /\ nacks[1] \in Nat /\ nacks[k] \in Nat
    <3>1. k \in DOMAIN nacks /\ k # 1
      BY <1>2, <2>1
    <3>2. nacks[1] \in Nat /\ nacks[k] \in Nat /\ n \in Nat
      BY <1>1, <1>2, <3>1
    <3>3. n - 1 = nacks[k] - nacks[1] - 1
      BY <2>1
    <3>4. nacks[k] = nacks[1] + n
      BY ONLY <3>2, <3>3
    <3> QED BY <3>1, <3>2, <3>4
  <2>3. Following(c.pid, n - 1) = nacks[k] /\ q = AddSn(asked, nacks[k])
    <3>1. c.pid + (n - 1) + 1 = nacks[k] /\ nacks[k] \in SeqNo /\ n - 1 \in 0 .. MaskLen - 1
      <4>1. n \in 1 .. MaskLen /\ MaskLen \in Nat /\ c.pid = nacks[1] /\ nacks[k] \in SeqNo
        BY <1>1, <1>2, <2>2, Numbers
      <4> HIDE DEF c, n
      <4> QED BY <2>2, <4>1
    <3>2. Following(c.pid, n - 1) = nacks[k]
      BY <1>1, <3>1, FollowingIs
    <3> QED BY <1>4, <3>2
  <2>4. k = Len(asked) + 1
    <3>1. k > Len(asked)
      <4>1. ~(nacks[k] - nacks[1] < n)
        BY <1>1, <2>2
      <4>2. ~(k <= Len(asked))
        BY <1>1, <2>2, <4>1 DEF Unpacked
      <4> QED BY <1>3, <4>2
    <3>2. ~(Len(asked) + 1 < k)
      <4> SUFFICES ASSUME Len(asked) + 1 < k PROVE FALSE
        OBVIOUS
      <4> DEFINE m == Len(asked) + 1
      <4>1. m \in DOMAIN nacks /\ m < k /\ ~(m <= Len(asked))
        BY <1>2, <1>3
      <4> HIDE DEF m
      <4>2. nacks[m] < nacks[k] /\ nacks[m] \in Nat
        BY <1>2, <2>2, <4>1
      <4>3. nacks[m] - nacks[1] < n
        BY <1>1, <2>2, <4>2
      <4> QED BY <1>1, <4>1, <4>3 DEF Unpacked
    <3> QED BY <1>3, <3>1, <3>2
  <2>5. \A i \in DOMAIN asked : Steps(base, asked[i]) < Steps(base, nacks[k])
    <3> TAKE i \in DOMAIN asked
    <3>1. asked[i] = nacks[i] /\ i \in DOMAIN nacks /\ i < k
      BY <1>1, <1>2, <1>3, <2>2, <2>4 DEF Unpacked
    <3> QED BY <2>2, <3>1 DEF IInv, TypeInv, Sorted
  <2>6. /\ Len(q) = k /\ q[k] = nacks[k] /\ \A i \in DOMAIN asked : q[i] = asked[i]
        /\ DOMAIN q = 1 .. Len(q)
    BY <1>2, <2>2, <2>3, <2>4, <2>5, AskedIs, SortedSeq
  <2>7. \A i \in DOMAIN q : q[i] = nacks[i]
    <3> TAKE i \in DOMAIN q
    <3>1. i = k \/ i \in DOMAIN asked
      BY <1>3, <2>4, <2>6
    <3> QED BY <1>1, <2>6, <3>1 DEF Unpacked
  <2>8. \A m \in DOMAIN nacks : m <= k <=> nacks[m] - nacks[1] < n + 1
    <3> TAKE m \in DOMAIN nacks
    <3>1. m \in Nat /\ k \in Nat /\ nacks[m] \in Nat /\ n \in Nat
      BY <1>1, <1>2, <2>2
    <3>2. m < k => nacks[m] < nacks[k]
      BY <1>2, <2>2
    <3>3. k < m => nacks[k] < nacks[m]
      BY <1>2, <2>2
    <3>4. nacks[k] = nacks[1] + n /\ nacks[1] \in Nat /\ nacks[k] \in Nat
      BY <2>2
    <3>5. m = k => nacks[m] = nacks[k]
      OBVIOUS
    <3> QED BY ONLY <3>1, <3>2, <3>3, <3>4, <3>5
  <2> QED BY <1>2, <2>2, <2>6, <2>7, <2>8 DEF Unpacked
<1>5. CASE n - 1 \notin c.blp
  <2>1. q = asked
    BY <1>5
  <2>2. \A m \in DOMAIN nacks : nacks[m] - nacks[1] # n
    <3> SUFFICES ASSUME NEW m \in DOMAIN nacks, nacks[m] - nacks[1] = n PROVE FALSE
      OBVIOUS
    <3>1. m # 1
      BY <1>1, <1>2
    <3>2. m \in 2 .. Len(nacks) /\ nacks[m] - nacks[1] - 1 = n - 1
      BY <1>2, <3>1
    <3>3. n - 1 \in BitsOf(nacks, Len(nacks))
      BY <3>2 DEF BitsOf
    <3> QED BY <1>1, <1>5, <3>3
  <2>3. \A m \in DOMAIN nacks : nacks[m] - nacks[1] < n + 1 <=> nacks[m] - nacks[1] < n
    <3> TAKE m \in DOMAIN nacks
    <3>1. nacks[m] - nacks[1] \in Int /\ n \in Int /\ nacks[m] - nacks[1] # n
      BY <1>1, <1>2, <2>2
    <3> QED BY <3>1
  <2> QED BY <1>1, <2>1, <2>3 DEF Unpacked
<1> QED BY <1>4, <1>5

LEMMA UnpackBitKeeps ==
    ASSUME IInv, UnpackBit
    PROVE  IInv'
<1> DEFINE c == chunks[dec.i]
           j == dec.bits - 1
<1>1. /\ stage = "decode" /\ dec.i <= Len(chunks) /\ dec.bits > 0
      /\ asked' = IF j \in c.blp THEN AddSn(asked, Following(c.pid, j)) ELSE asked
      /\ dec' = IF dec.bits = MaskLen THEN [i |-> dec.i + 1, bits |-> 0]
                                      ELSE [dec EXCEPT !.bits = dec.bits + 1]
      /\ UNCHANGED <<base, nacks, enc, chunks, stage>>
  BY DEF UnpackBit
<1>2. /\ dec.i \in Nat /\ dec.i >= 1 /\ dec.bits \in 1 .. MaskLen /\ j \in 0 .. MaskLen - 1
      /\ c.pid \in SeqNo /\ c.blp \in Mask /\ Names(nacks, c.pid, c.blp) /\ nacks # << >>
  <2>1. /\ dec.i \in Nat /\ dec.i >= 1 /\ dec.bits \in 0 .. MaskLen /\ dec.bits > 0
        /\ c.pid \in SeqNo /\ c.blp \in Mask /\ Names(nacks, c.pid, c.blp) /\ nacks # << >>
    BY <1>1, PairRead
  <2>2. dec.bits \in 1 .. MaskLen /\ j \in 0 .. MaskLen - 1
    BY <2>1, Numbers
  <2> QED BY <2>1, <2>2
<1>3. /\ dec' \in DecRecord
      /\ dec.bits = MaskLen => dec'.i = dec.i + 1 /\ dec'.bits = 0
      /\ dec.bits # MaskLen => dec'.i = dec.i /\ dec'.bits = dec.bits + 1
  <2>1. dec \in DecRecord /\ (dec.bits # MaskLen => dec.bits + 1 \in 0 .. MaskLen) /\ 0 \in 0 .. MaskLen
    <3>1. dec \in DecRecord
      BY DEF IInv, TypeInv
    <3>2. dec.bits \in 1 .. MaskLen /\ MaskLen \in Nat
      BY <1>2, Numbers
    <3> QED BY ONLY <3>1, <3>2
  <2>2. CASE dec.bits = MaskLen
    BY <1>1, <2>1, <2>2, DecIs
  <2>3. CASE dec.bits # MaskLen
    <3>1. dec' = [dec EXCEPT !.bits = dec.bits + 1]
      BY <1>1, <2>3
    <3>2. dec.bits + 1 \in 0 .. MaskLen
      BY <2>1, <2>3
    <3> QED BY ONLY <2>1, <2>3, <3>1, <3>2, DecIs
  <2> QED BY <2>2, <2>3
<1>4. /\ Sorted(base, asked') /\ Range(asked') \subseteq Range(nacks)
      /\ Range(asked) \subseteq Range(asked')
  <2>1. CASE j \in c.blp
    <3>1. c.pid + j + 1 \in Range(nacks)
      BY <1>2, <2>1 DEF Names
    <3>2. c.pid + j + 1 \in SeqNo
      BY <3>1, SortedSeq DEF IInv, TypeInv, WindowAt
    <3>3. Following(c.pid, j) \in Range(nacks)
      BY <1>2, <3>1, <3>2, FollowingIs
    <3> QED BY <1>1, <2>1, <3>3, AskedIs
  <2>2. CASE j \notin c.blp
    BY <1>1, <2>2 DEF IInv, TypeInv, AskedInv, NothingElseAsked
  <2> QED BY <2>1, <2>2
<1>5. TypeInv'
  BY <1>1, <1>3, <1>4 DEF IInv, TypeInv
<1>6. (LoopInv /\ PairInv /\ FirstInv)'
  <2>1. dec'.i >= 1 /\ ~(dec'.i = 1 /\ dec'.bits = 0)
    BY <1>2, <1>3
  <2> QED BY <1>1, <2>1 DEF IInv, LoopInv, PairInv, FirstInv
<1>7. AskedInv'
  <2>1. nacks[1] \in Range(asked')
    BY <1>1, <1>4 DEF IInv, AskedInv
  <2> QED BY <1>1, <1>4, <2>1 DEF AskedInv, NothingElseAsked
<1>8. OneInv'
  <2> SUFFICES ASSUME Fits(nacks)
               PROVE  /\ Len(chunks) = 1 /\ chunks[1].blp = BitsOf(nacks, Len(nacks))
                      /\ \/ dec'.i = 1 /\ Unpacked(nacks, asked', dec'.bits)
                         \/ dec'.i = 2 /\ dec'.bits = 0 /\ asked' = nacks
    BY <1>1 DEF OneInv
  <2>1. Len(chunks) = 1 /\ chunks[1].blp = BitsOf(nacks, Len(nacks)) /\ dec.i = 1
    BY <1>1, <1>2, PairRead DEF IInv, OneInv
  <2>2. Unpacked(nacks, asked', dec.bits + 1)
    BY <1>1, BitUnpacked
  <2>3. CASE dec.bits # MaskLen
    BY <1>3, <2>1, <2>2, <2>3
  <2>4. CASE dec.bits = MaskLen
    <3>1. /\ Len(nacks) \in Nat /\ Len(nacks) > 0 /\ DOMAIN nacks = 1 .. Len(nacks)
          /\ nacks \in Seq(WindowAt(base))
          /\ Len(asked') \in Nat /\ DOMAIN asked' = 1 .. Len(asked') /\ asked' \in Seq(WindowAt(base))
      BY <1>2, <1>4, SortedSeq DEF IInv, TypeInv
    <3>2. Len(nacks) \in DOMAIN nacks
      BY <3>1
    <3>3. nacks[Len(nacks)] - nacks[1] < dec.bits + 1
      <4>1. nacks[Len(nacks)] - nacks[1] \in 0 .. MaskLen
        BY <3>2 DEF Fits
      <4> QED BY <2>4, <4>1, Numbers
    <3>4. Len(asked') = Len(nacks) /\ \A k \in 1 .. Len(asked') : asked'[k] = nacks[k]
      <4>1. Len(asked') <= Len(nacks) /\ \A k \in DOMAIN asked' : asked'[k] = nacks[k]
        BY <2>2 DEF Unpacked
      <4>2. Len(nacks) <= Len(asked')
        BY <2>2, <3>2, <3>3 DEF Unpacked
      <4>3. Len(asked') \in Nat /\ Len(nacks) \in Nat /\ DOMAIN asked' = 1 .. Len(asked')
        BY <3>1
      <4>4. Len(asked') = Len(nacks)
        BY ONLY <4>1, <4>2, <4>3
      <4> QED BY <4>1, <4>3, <4>4
    <3>5. asked' = nacks
      BY ONLY <3>1, <3>4, SeqEqual
    <3> QED BY <1>3, <2>1, <2>4, <3>5
  <2> QED BY <2>1, <2>3, <2>4
<1> QED BY <1>5, <1>6, <1>7, <1>8 DEF IInv

LEMMA ReceiveKeeps ==
    ASSUME IInv, Receive
    PROVE  IInv'
<1>1. /\ stage = "decode" /\ stage' = "received" /\ dec.i > Len(chunks)
      /\ UNCHANGED <<base, nacks, enc, chunks, dec, asked>>
  BY DEF Receive
<1>2. dec.i \in Nat /\ Len(chunks) \in Nat /\ Len(chunks) >= 1 /\ dec.i > 1
  <2>1. chunks \in Seq(PairRecord) /\ chunks # << >> /\ dec.i \in Nat
    BY <1>1, DecFields DEF IInv, TypeInv, FirstInv
  <2>2. Len(chunks) \in Nat /\ Len(chunks) # 0
    BY <2>1, LenProperties, EmptySeq
  <2> QED BY <1>1, <2>1, <2>2
<1>3. (TypeInv /\ LoopInv /\ PairInv /\ FirstInv)'
  BY <1>1 DEF IInv, TypeInv, LoopInv, PairInv, FirstInv
<1>4. AskedInv'
  BY <1>1, <1>2 DEF IInv, AskedInv, NothingElseAsked
<1>5. OneInv'
  BY <1>1, <1>2 DEF IInv, OneInv
<1> QED BY <1>3, <1>4, <1>5 DEF IInv
-----------------------------------------------------------------------------
(* Theorems.                                                               *)

\* The inductive invariant holds in every state.
THEOREM InvariantHolds == Spec => []IInv
<1>1. IInv /\ [Next]_vars => IInv'
  <2> SUFFICES ASSUME IInv, [Next]_vars PROVE IInv'
    OBVIOUS
  <2>1. ASSUME NEW sn \in Window, Collect(sn) PROVE IInv'
    BY <2>1, CollectKeeps
  <2>2. CASE Send
    BY <2>2, SendKeeps
  <2>3. CASE PackSn
    BY <2>3, PackSnKeeps
  <2>4. CASE WritePacket
    BY <2>4, WritePacketKeeps
  <2>5. CASE UnpackPid
    BY <2>5, UnpackPidKeeps
  <2>6. CASE UnpackBit
    BY <2>6, UnpackBitKeeps
  <2>7. CASE Receive
    BY <2>7, ReceiveKeeps
  <2>8. CASE UNCHANGED vars
    BY <2>8 DEF vars, IInv, TypeInv, LoopInv, PairInv, FirstInv, AskedInv, OneInv, NothingElseAsked
  <2> QED BY <2>1, <2>2, <2>3, <2>4, <2>5, <2>6, <2>7, <2>8 DEF Next
<1> QED BY <1>1, Initially, PTL DEF Spec

\* The publisher is never asked for a packet that is not missing, whatever the
\* list, the wrap of the numbers and the pairs it was cut into
\* (yang_decode_rtcpNack).
THEOREM OnlyMissing == Spec => []NothingElseAsked
<1>1. IInv => NothingElseAsked
  BY DEF IInv, AskedInv
<1> QED BY <1>1, InvariantHolds, PTL

\* Every NACK that arrives asks for the oldest missing packet, and names it
\* first: what packing loses is never the number the receiver waits for
\* (yang_encode_rtcpNack).
THEOREM OldestFirst == Spec => []OldestAsked
<1>1. IInv => OldestAsked
  <2> SUFFICES ASSUME IInv, stage = "received"
               PROVE  asked # << >> /\ asked[1] = nacks[1]
    BY DEF OldestAsked
  <2>1. nacks # << >> /\ nacks[1] \in Range(asked) /\ Range(asked) \subseteq Range(nacks)
    BY DEF IInv, LoopInv, AskedInv, NothingElseAsked
  <2>2. /\ Sorted(base, nacks) /\ Sorted(base, asked) /\ base \in SeqNo
        /\ DOMAIN nacks = 1 .. Len(nacks) /\ DOMAIN asked = 1 .. Len(asked)
        /\ Len(nacks) \in Nat /\ Len(nacks) > 0 /\ Len(asked) \in Nat
    BY <2>1, SortedSeq DEF IInv, TypeInv
  <2>3. PICK k \in DOMAIN asked : asked[k] = nacks[1]
    BY <2>1 DEF Range
  <2>4. 1 \in DOMAIN asked /\ 1 \in DOMAIN nacks /\ (k = 1 \/ 1 < k)
    BY <2>2, <2>3
  <2>5. asked[1] \in Range(asked)
    BY <2>2, <2>4, SortedSeq
  <2>6. PICK m \in DOMAIN nacks : nacks[m] = asked[1]
    BY <2>1, <2>5 DEF Range
  <2>7. m = 1 \/ 1 < m
    BY <2>2, <2>6
  <2>8. /\ nacks[1] \in WindowAt(base) /\ asked[1] \in WindowAt(base)
        /\ Steps(base, nacks[1]) \in Nat /\ Steps(base, asked[1]) \in Nat
    BY <2>2, <2>4, SortedSeq, PlaceIs
  <2>9. 1 < k => Steps(base, asked[1]) < Steps(base, nacks[1])
    BY <2>2, <2>3, <2>4 DEF Sorted
  <2>10. 1 < m => Steps(base, nacks[1]) < Steps(base, asked[1])
    BY <2>2, <2>4, <2>6 DEF Sorted
  <2>11. asked[1] = nacks[1]
    BY <2>3, <2>4, <2>6, <2>7, <2>8, <2>9, <2>10
  <2> QED BY <2>4, <2>11
<1> QED BY <1>1, InvariantHolds, PTL

\* A list that fits the mask of one pair, and lies on one side of the wrap,
\* arrives as it was: no number is lost and none comes twice.
THEOREM OnePairArrives == Spec => []OnePairIsWhole
<1>1. IInv => OnePairIsWhole
  <2> SUFFICES ASSUME IInv, stage = "received",
                      \A sn \in Range(nacks) : sn - nacks[1] \in 0 .. MaskLen
               PROVE  asked = nacks
    BY DEF OnePairIsWhole
  <2>1. nacks # << >> /\ \A k \in DOMAIN nacks : nacks[k] \in Range(nacks)
    BY SortedSeq DEF IInv, TypeInv, LoopInv
  <2>2. Fits(nacks)
    BY <2>1 DEF Fits
  <2> QED BY <2>1, <2>2 DEF IInv, OneInv
<1> QED BY <1>1, InvariantHolds, PTL
=============================================================================
