-------------------------- MODULE FrameCacheProofs --------------------------
(***************************************************************************)
(* What module FrameCache checks with a cache of seven entries, proved for *)
(* streams, frames and caches of any size: the frames handed to the        *)
(* decoder are whole, of one frame each, and have no packet in common.     *)
(*                                                                         *)
(* The proofs speak of packet numbers where the code has sequence numbers: *)
(* the walk of find_next_lost_sn from packet a ends within Room packets,   *)
(* as a frame is no longer, and so never comes round the cache.  What it   *)
(* finds is an outcome in terms of packets, and the invariant is kept by   *)
(* the four things a packet may do to the cache and by a turn of the       *)
(* recursion.                                                              *)
(***************************************************************************)
EXTENDS FrameCache, FiniteSetTheorems, SequenceTheorems, WellFoundedInduction, TLAPS

\* The longest frame that the assumptions allow for, and packet numbers for
\* sequence numbers.
Room == CacheLen - MaxDelay - 1
Num(sn) == Steps(Base, sn) + 1
Spot(x) == Index(Seqn(x))
-----------------------------------------------------------------------------
(* Sequence numbers, packets and slots.                                    *)

LEMMA Numbers ==
    /\ Half \in Nat /\ Half > 0 /\ SeqCount = 2 * Half /\ SeqCount \in Nat /\ SeqNo = 0 .. SeqCount - 1
    /\ Base \in Nat /\ Base < SeqCount /\ MaxPackets \in Nat /\ MaxPackets < SeqCount
    /\ CacheLen \in Nat /\ CacheLen > 0 /\ CacheLen <= Half /\ MaxDelay \in Nat /\ MaxDelay > 0
    /\ Slot = 0 .. CacheLen - 1
    /\ NoPacket = 0 /\ NoKey = -1 /\ NoTail = -1
BY HalfAssumption, FrameCacheAssumption, H264Assumption
   DEF SeqCount, SeqNo, Slot, NoPacket, NoKey, NoTail

LEMMA SeqnIs ==
    ASSUME NEW n \in 1 .. SeqCount
    PROVE  Seqn(n) \in SeqNo /\ Num(Seqn(n)) = n
BY Numbers DEF Seqn, Plus, Num, Steps

LEMMA NumIs ==
    ASSUME NEW sn \in SeqNo
    PROVE  Num(sn) \in 1 .. SeqCount /\ Seqn(Num(sn)) = sn
BY Numbers DEF Seqn, Plus, Num, Steps

LEMMA PlusType ==
    ASSUME NEW sn \in SeqNo, NEW i \in 0 .. SeqCount
    PROVE  Plus(sn, i) \in SeqNo
BY Numbers DEF Plus

\* Steps between sequence numbers are steps between packets.
LEMMA PlusIs ==
    ASSUME NEW n \in 1 .. SeqCount, NEW i \in Nat, n + i <= SeqCount
    PROVE  Plus(Seqn(n), i) = Seqn(n + i)
BY Numbers DEF Seqn, Plus

LEMMA BackIs ==
    ASSUME NEW n \in 2 .. SeqCount
    PROVE  Plus(Seqn(n), SeqCount - 1) = Seqn(n - 1)
BY Numbers DEF Seqn, Plus

LEMMA CountIs ==
    ASSUME NEW a \in 1 .. SeqCount, NEW b \in 1 .. SeqCount, a <= b, b - a < SeqCount - 1
    PROVE  Count(Seqn(a), Seqn(b)) = b - a + 1
BY Numbers DEF Seqn, Plus, Count, Steps

LEMMA DistIs ==
    ASSUME NEW a \in 1 .. SeqCount, NEW b \in 1 .. SeqCount, a - b < Half, b - a < Half
    PROVE  Dist(Seqn(a), Seqn(b)) = b - a
BY Numbers DEF Seqn, Plus, Dist

\* Remainders, for divisors that are not numerals.
LEMMA RemainderIs ==
    ASSUME NEW c \in Nat, c > 0, NEW a \in Int
    PROVE  a % c \in 0 .. c - 1 /\ a = c * (a \div c) + (a % c) /\ a \div c \in Int
OBVIOUS

LEMMA MultipleIs ==
    ASSUME NEW c \in Nat, c > 0, NEW q \in Int, c * q < c, -c < c * q
    PROVE  q = 0
<1>1. q >= 1 => c * q >= c
  OBVIOUS
<1>2. q <= -1 => c * q <= -c
  OBVIOUS
<1> QED BY <1>1, <1>2

LEMMA SpotType == ASSUME NEW x \in 1 .. SeqCount PROVE Spot(x) \in Slot
<1>1. Seqn(x) \in Int
  BY SeqnIs, Numbers
<1> QED BY <1>1, RemainderIs, Numbers DEF Spot, Index

LEMMA ProductsIs ==
    ASSUME NEW c \in Int, NEW a \in Int, NEW b \in Int
    PROVE  c * a \in Int /\ c * a - c * b = c * (a - b) /\ c * a + c * b = c * (a + b)
OBVIOUS

\* Packets less than a cache length apart have slots of their own.
LEMMA SpotsDiffer ==
    ASSUME NEW p \in 1 .. SeqCount, NEW x \in 1 .. SeqCount, Spot(p) = Spot(x),
           p - x < CacheLen, x - p < CacheLen
    PROVE  p = x
<1> DEFINE c == CacheLen
           qp == Seqn(p) \div c
           qx == Seqn(x) \div c
           k == SeqCount \div c
<1>1. c \in Nat /\ c > 0 /\ SeqCount % c = 0
  BY FrameCacheAssumption DEF SeqCount
<1>2. Seqn(p) \in Int /\ Seqn(x) \in Int /\ SeqCount \in Int
  BY SeqnIs, Numbers
<1>3. /\ Seqn(p) = c * qp + (Seqn(p) % c) /\ qp \in Int
      /\ Seqn(x) = c * qx + (Seqn(x) % c) /\ qx \in Int
      /\ SeqCount = c * k + (SeqCount % c) /\ k \in Int
      /\ Seqn(p) % c \in Int /\ Seqn(x) % c \in Int
  <2>1. ASSUME NEW a \in Int
        PROVE  a = c * (a \div c) + (a % c) /\ a \div c \in Int /\ a % c \in Int
    BY <1>1, RemainderIs
  <2> QED BY <1>2, <2>1
<1>4. Seqn(p) % c = Seqn(x) % c
  BY DEF Spot, Index
<1>5. \/ p - x = Seqn(p) - Seqn(x)
      \/ p - x = Seqn(p) - Seqn(x) + SeqCount
      \/ p - x = Seqn(p) - Seqn(x) - SeqCount
  BY Numbers DEF Seqn, Plus
<1> HIDE DEF c, qp, qx, k
<1>6. SeqCount = c * k
  BY <1>1, <1>3
<1>7. Seqn(p) - Seqn(x) = c * qp - c * qx
  BY <1>3, <1>4, <1>1
<1>8. PICK q \in Int : p - x = c * q
  <2>1. c * qp - c * qx = c * (qp - qx) /\ qp - qx \in Int
    BY <1>1, <1>3, ProductsIs
  <2>2. c * (qp - qx) + c * k = c * ((qp - qx) + k) /\ c * (qp - qx) - c * k = c * ((qp - qx) - k)
    BY <1>1, <1>3, <2>1, ProductsIs
  <2>3. (qp - qx) + k \in Int /\ (qp - qx) - k \in Int
    BY <1>3
  <2>4. \/ p - x = c * (qp - qx)
        \/ p - x = c * (qp - qx) + c * k
        \/ p - x = c * (qp - qx) - c * k
    BY <1>5, <1>6, <1>7, <2>1
  <2> QED BY <2>1, <2>2, <2>3, <2>4
<1>9. c * q < c /\ -c < c * q
  BY <1>8, Numbers DEF c
<1>10. q = 0
  BY <1>1, <1>9, MultipleIs
<1>11. p - x = 0
  BY <1>1, <1>8, <1>10
<1> QED BY <1>11

LEMMA RoomIs == Room \in Int /\ Room > 0 /\ Room + MaxDelay + 1 = CacheLen
BY Numbers, FitsAssumption DEF Room
-----------------------------------------------------------------------------
(* The walk over the cache.                                                *)

\* What the track and an entry of the cache are made of.
EntryRecord == [in_use : BOOLEAN, pkt : Nat, start : BOOLEAN, end : BOOLEAN]
TrackRecord ==
    [header_sn : SeqNo, lost_sn : SeqNo, key_frame_ts : Int,
     cache : [Slot -> EntryRecord], tail : SeqNo \cup {NoTail}]

\* Packet x is where it belongs; the packets from a to b - 1 are, and are of
\* the frame of a; what is in use between a and b is what belongs there.
At(t, x) == t.cache[Spot(x)]
Has(t, x) == At(t, x).in_use /\ At(t, x).pkt = x
Same(s, m, n) == s[m].ts = s[n].ts
RunOf(s, t, a, b) == \A x \in a .. b - 1 : x \in DOMAIN s /\ Has(t, x) /\ Same(s, x, a)
Clean(s, t, a, b) == \A x \in a .. b : At(t, x).in_use => At(t, x).pkt = x /\ x \in DOMAIN s

LEMMA LeastIs ==
    ASSUME NEW S \in SUBSET Nat, S # {}
    PROVE  LET m == CHOOSE i \in S : \A j \in S : i <= j
           IN  m \in S /\ \A j \in S : m <= j
<1> DEFINE R == OpToRel(<, Nat)
<1>1. IsWellFoundedOn(R, Nat)
  BY NatLessThanWellFounded
<1> HIDE DEF R
<1>2. PICK x \in S : \A y \in S : ~(<<y, x>> \in R)
  BY <1>1, WFMin
<1>3. ASSUME NEW y \in S PROVE x <= y
  <2>1. y \in Nat /\ x \in Nat /\ <<y, x>> \notin R
    BY <1>2
  <2>2. y < x => <<y, x>> \in R
    BY <2>1 DEF R, OpToRel
  <2> QED BY <2>1, <2>2
<1> QED BY <1>3

\* The walk from packet a, of the frame that starts at packet h, ends before
\* the first packet that is not there.
LEMMA WalkEnds ==
    ASSUME NEW t \in TrackRecord, NEW h \in Nat, NEW a \in Nat, NEW b \in Nat,
           1 <= h, h <= a, a <= b, b <= SeqCount, b - a < CacheLen,
           t.header_sn = Seqn(h), Clean(stream, t, h, b), ~At(t, b).in_use,
           a = h \/ Has(t, h)
    PROVE  \E x \in a .. b :
              /\ \A y \in a .. x - 1 : Has(t, y) /\ Same(stream, y, h) /\ ~stream[y].marker
              /\ \/ /\ ~At(t, x).in_use
                    /\ FindNext(t, Seqn(a)) = [found |-> "lost", sn |-> Seqn(x)]
                 \/ /\ Has(t, x) /\ h < x /\ ~Same(stream, x, h)
                    /\ FindNext(t, Seqn(a)) = [found |-> "tail", sn |-> Seqn(x - 1)]
                 \/ /\ Has(t, x) /\ Same(stream, x, h) /\ stream[x].marker
                    /\ FindNext(t, Seqn(a)) = [found |-> "tail", sn |-> Seqn(x)]
<1> DEFINE stops == {i \in Slot : Stops(t, Plus(Seqn(a), i))}
           m == CHOOSE i \in stops : \A j \in stops : i <= j
           x == a + m
<1>1. ASSUME NEW i \in Slot, i <= b - a
      PROVE  /\ a + i \in a .. b /\ a + i \in 1 .. SeqCount
             /\ Plus(Seqn(a), i) = Seqn(a + i) /\ Entry(t, Plus(Seqn(a), i)) = At(t, a + i)
  <2>1. a \in 1 .. SeqCount /\ i \in Nat /\ a + i <= b
    BY <1>1, Numbers
  <2>2. Plus(Seqn(a), i) = Seqn(a + i)
    BY <2>1, Numbers, PlusIs
  <2> QED BY <2>1, <2>2, Numbers DEF Entry, At, Spot
<1>2. b - a \in stops
  <2>1. b - a \in Slot
    BY Numbers
  <2>2. Entry(t, Plus(Seqn(a), b - a)) = At(t, b)
    BY <2>1, <1>1
  <2> QED BY <2>1, <2>2 DEF Stops
<1>3. m \in stops /\ \A j \in stops : m <= j
  <2>1. stops \in SUBSET Nat /\ stops # {}
    BY <1>2, Numbers
  <2> HIDE DEF stops
  <2> QED BY <2>1, LeastIs
<1>4. m \in Slot /\ m <= b - a /\ Stops(t, Plus(Seqn(a), m))
  BY <1>2, <1>3
<1>5. x \in a .. b /\ x \in 1 .. SeqCount /\ Plus(Seqn(a), m) = Seqn(x) /\ Entry(t, Plus(Seqn(a), m)) = At(t, x)
  BY <1>1, <1>4
<1>6. Entry(t, t.header_sn) = At(t, h)
  BY DEF Entry, At, Spot
<1>7. ASSUME NEW y \in a .. b, At(t, y).in_use
      PROVE  /\ Has(t, y) /\ Ts(At(t, y)) = stream[y].ts
             /\ Marker(At(t, y)) <=> stream[y].marker
  <2>1. At(t, y).pkt = y /\ y # 0
    BY <1>7 DEF Clean
  <2> QED BY <1>7, <2>1 DEF Has, Ts, Marker, NoPacket
<1>8. ASSUME NEW y \in a .. x - 1
      PROVE  At(t, y).in_use /\ ~Marker(At(t, y)) /\ Ts(At(t, y)) = Ts(At(t, h))
  <2>1. y - a \in Slot /\ y - a < m /\ y - a <= b - a
    BY <1>4, Numbers
  <2>2. y - a \notin stops
    BY <2>1, <1>3, Numbers
  <2>3. ~Stops(t, Plus(Seqn(a), y - a)) /\ Entry(t, Plus(Seqn(a), y - a)) = At(t, y)
    BY <2>1, <2>2, <1>1
  <2> QED BY <2>3, <1>6 DEF Stops, OtherFrame
<1>9. a < x \/ x # h => Has(t, h) /\ Ts(At(t, h)) = stream[h].ts
  <2>1. CASE Has(t, h)
    <3>1. At(t, h).pkt # 0
      BY <2>1 DEF Has
    <3> QED BY <2>1, <3>1 DEF Has, Ts, NoPacket
  <2>2. CASE ~Has(t, h)
    <3>1. a = h
      BY <2>2
    <3>2. a < x => a \in a .. x - 1
      BY <1>5
    <3>3. x # h => a < x
      BY <3>1, <1>5
    <3> QED BY <3>1, <3>2, <3>3, <1>7, <1>8, <1>5
  <2> QED BY <2>1, <2>2
<1>10. ASSUME NEW y \in a .. x - 1
       PROVE  Has(t, y) /\ Same(stream, y, h) /\ ~stream[y].marker
  <2>1. y \in a .. b /\ a < x
    BY <1>5
  <2> QED BY <2>1, <1>7, <1>8, <1>9 DEF Same
<1>11. FindNext(t, Seqn(a)) =
         CASE stops = {} -> [found |-> "mess", sn |-> Seqn(a)]
           [] stops # {} /\ ~At(t, x).in_use -> [found |-> "lost", sn |-> Seqn(x)]
           [] stops # {} /\ At(t, x).in_use ->
                [found |-> "tail",
                 sn |-> IF OtherFrame(t, Seqn(x)) THEN Plus(Seqn(x), SeqCount - 1) ELSE Seqn(x)]
  BY <1>5 DEF FindNext
<1>12. stops # {}
  BY <1>2
<1>13. OtherFrame(t, Seqn(x)) <=> Ts(At(t, x)) # Ts(At(t, h))
  BY <1>5, <1>6 DEF OtherFrame
<1> HIDE DEF stops, m
<1>14. CASE ~At(t, x).in_use
  <2>1. FindNext(t, Seqn(a)) = [found |-> "lost", sn |-> Seqn(x)]
    BY <1>11, <1>12, <1>14
  <2> QED BY <2>1, <1>14, <1>5, <1>10
<1>15. CASE At(t, x).in_use /\ OtherFrame(t, Seqn(x))
  <2>1. x # h
    BY <1>13, <1>15
  <2>2. h < x /\ x \in 2 .. SeqCount
    BY <2>1, <1>5
  <2>3. ~Same(stream, x, h) /\ Has(t, x)
    BY <2>1, <1>5, <1>7, <1>9, <1>13, <1>15 DEF Same
  <2>4. Plus(Seqn(x), SeqCount - 1) = Seqn(x - 1)
    BY <2>2, BackIs
  <2>5. FindNext(t, Seqn(a)) = [found |-> "tail", sn |-> Seqn(x - 1)]
    BY <1>11, <1>12, <1>15, <2>4
  <2> QED BY <2>2, <2>3, <2>5, <1>5, <1>10
<1>16. CASE At(t, x).in_use /\ ~OtherFrame(t, Seqn(x))
  <2>1. Has(t, x) /\ stream[x].marker
    BY <1>4, <1>5, <1>7, <1>16 DEF Stops, OtherFrame
  <2>2. Same(stream, x, h)
    <3>1. CASE x = h
      BY <3>1 DEF Same
    <3>2. CASE x # h
      BY <3>2, <1>5, <1>7, <1>9, <1>13, <1>16 DEF Same
    <3> QED BY <3>1, <3>2
  <2>3. FindNext(t, Seqn(a)) = [found |-> "tail", sn |-> Seqn(x)]
    BY <1>11, <1>12, <1>16
  <2> QED BY <2>1, <2>2, <2>3, <1>5, <1>10
<1> QED BY <1>14, <1>15, <1>16
-----------------------------------------------------------------------------
(* The stream, and frames that are complete.                               *)

Packet ==
    [nalu : {"stap", "single", "fua"}, key : BOOLEAN, ts : Nat, marker : BOOLEAN,
     start : BOOLEAN, end : BOOLEAN, idrLike : BOOLEAN]

FrameIn(s, n) == {m \in DOMAIN s : s[m].ts = s[n].ts}
LastIn(s, n) == \A m \in FrameIn(s, n) : m <= n
FirstIn(s, n) == n - 1 \in DOMAIN s => ~Same(s, n - 1, n)
WholeFrom(s, n) == \A m \in FrameIn(s, n) : s[m].nalu # "stap" => n <= m

\* How two packets of a stream are related, and what each looks like.
OrderedIn(s) ==
    \A m, n \in DOMAIN s : m < n =>
        /\ s[m].ts <= s[n].ts
        /\ Same(s, m, n) =>
              /\ s[m].key = s[n].key /\ n - m < Room
              /\ ~s[m].marker /\ ~s[m].end /\ s[n].nalu # "stap"
              /\ s[m].nalu = "stap" \/ (s[n].nalu = "fua" /\ ~s[n].start)
FramedIn(s) ==
    \A n \in DOMAIN s :
        /\ n = 1 => s[n].key
        /\ s[n].nalu = "fua" =>
              /\ s[n].end \/ (n + 1 \in DOMAIN s /\ Same(s, n + 1, n))
              /\ s[n].start \/ (n - 1 \in DOMAIN s /\ Same(s, n - 1, n) /\ s[n - 1].nalu = "fua")
        /\ s[n].key /\ s[n].marker => n - 1 \in DOMAIN s /\ Same(s, n - 1, n)
Shaped(k, s) ==
    /\ k \in Nat /\ s \in Seq(Packet) /\ Len(s) <= MaxPackets /\ (k > 0 => Len(s) > 0)
    /\ \A n \in DOMAIN s : 1 <= s[n].ts /\ s[n].ts <= k
    /\ OrderedIn(s) /\ FramedIn(s)

\* What the entries in use say of their packets.
FieldsOf(s, t) ==
    \A i \in Slot : t.cache[i].in_use =>
        /\ t.cache[i].pkt \in DOMAIN s
        /\ s[t.cache[i].pkt].nalu = "fua" =>
              /\ t.cache[i].start = s[t.cache[i].pkt].start
              /\ t.cache[i].end = s[t.cache[i].pkt].end

LEMMA StreamIs ==
    ASSUME NEW k, NEW s, Shaped(k, s)
    PROVE  /\ DOMAIN s = 1 .. Len(s) /\ Len(s) \in Nat /\ Len(s) < SeqCount
           /\ \A n \in DOMAIN s : /\ n \in Nat /\ 1 <= n /\ n \in 1 .. SeqCount /\ n < SeqCount
                                  /\ s[n] \in Packet /\ s[n].ts \in Nat
<1>1. s \in Seq(Packet) /\ Len(s) <= MaxPackets
  BY DEF Shaped
<1>2. DOMAIN s = 1 .. Len(s) /\ Len(s) \in Nat /\ \A n \in DOMAIN s : s[n] \in Packet
  BY <1>1
<1>3. Len(s) < SeqCount
  BY <1>1, <1>2, Numbers
<1>4. \A n \in DOMAIN s : s[n].ts \in Nat
  BY <1>2 DEF Packet
<1> QED BY <1>2, <1>3, <1>4, Numbers

\* A frame ends where the next one begins.
LEMMA MarkerIsLast ==
    ASSUME NEW k, NEW s, Shaped(k, s), NEW n \in DOMAIN s, s[n].marker
    PROVE  LastIn(s, n)
<1>1. ASSUME NEW m \in FrameIn(s, n), n < m PROVE FALSE
  <2>1. m \in DOMAIN s /\ Same(s, n, m)
    BY DEF FrameIn, Same
  <2> QED BY <1>1, <2>1 DEF Shaped, OrderedIn
<1>2. \A m \in FrameIn(s, n) : m \in Nat /\ n \in Nat
  BY StreamIs DEF FrameIn
<1> QED BY <1>1, <1>2 DEF LastIn

LEMMA NextIsOther ==
    ASSUME NEW k, NEW s, Shaped(k, s), NEW n \in DOMAIN s, n + 1 \in DOMAIN s, ~Same(s, n + 1, n)
    PROVE  LastIn(s, n)
<1>1. n \in Nat /\ s[n].ts \in Nat /\ s[n + 1].ts \in Nat
  BY StreamIs
<1>2. s[n].ts < s[n + 1].ts
  <2>1. s[n].ts <= s[n + 1].ts
    BY <1>1 DEF Shaped, OrderedIn
  <2> QED BY <2>1, <1>1 DEF Same
<1>3. ASSUME NEW m \in FrameIn(s, n), n < m PROVE FALSE
  <2>1. m \in DOMAIN s /\ m \in Nat /\ s[m].ts = s[n].ts
    BY StreamIs DEF FrameIn
  <2>2. m = n + 1 \/ n + 1 < m
    BY <1>1, <1>3, <2>1
  <2>3. s[n + 1].ts <= s[m].ts
    BY <2>1, <2>2, <1>1 DEF Shaped, OrderedIn
  <2> QED BY <1>1, <1>2, <2>1, <2>3
<1>4. \A m \in FrameIn(s, n) : m \in Nat
  BY StreamIs DEF FrameIn
<1> QED BY <1>1, <1>3, <1>4 DEF LastIn

\* The packets of a frame follow one another.
LEMMA Between ==
    ASSUME NEW k, NEW s, Shaped(k, s), NEW m \in DOMAIN s, NEW n \in DOMAIN s, Same(s, m, n),
           NEW x \in m .. n
    PROVE  x \in DOMAIN s /\ Same(s, x, m) /\ Same(s, x, n)
<1>1. x \in DOMAIN s /\ x \in Nat /\ m \in Nat /\ n \in Nat
  BY StreamIs
<1>2. s[x].ts \in Nat /\ s[m].ts \in Nat /\ s[n].ts \in Nat
  BY <1>1, StreamIs
<1>3. m < x => s[m].ts <= s[x].ts
  BY <1>1 DEF Shaped, OrderedIn
<1>4. x < n => s[x].ts <= s[n].ts
  BY <1>1 DEF Shaped, OrderedIn
<1> QED BY <1>1, <1>2, <1>3, <1>4 DEF Same

\* A set with at most one element is empty or has one.
LEMMA AtMostOne ==
    ASSUME NEW S, \A x, y \in S : x = y
    PROVE  Cardinality(S) = IF S = {} THEN 0 ELSE 1
<1>1. CASE S = {}
  BY <1>1, FS_EmptySet
<1>2. CASE S # {}
  <2>1. PICK x \in S : TRUE
    BY <1>2
  <2>2. S = {x}
    BY <2>1
  <2> QED BY <1>2, <2>2, FS_Singleton
<1> QED BY <1>1, <1>2

\* The fragments counted: a frame is complete if the packet it starts with and
\* all that follow are there, and then it starts before its first fragment.
LEMMA CompleteIs ==
    ASSUME NEW k, Shaped(k, stream), NEW t \in TrackRecord, FieldsOf(stream, t),
           NEW h \in DOMAIN stream, NEW e \in DOMAIN stream, h <= e,
           RunOf(stream, t, h, e + 1), LastIn(stream, e)
    PROVE  /\ Complete(t, Seqn(h), Seqn(e)) => WholeFrom(stream, h)
           /\ FirstIn(stream, h) \/ stream[e].nalu # "fua" => Complete(t, Seqn(h), Seqn(e))
<1> DEFINE n == e - h + 1
           slots == RangeOf(t, Seqn(h), Seqn(e))
           starts == {i \in DOMAIN slots : IsFuA(slots[i]) /\ slots[i].start}
           ends == {i \in DOMAIN slots : IsFuA(slots[i]) /\ slots[i].end}
<1>1. h \in Nat /\ e \in Nat /\ 1 <= h /\ h \in 1 .. SeqCount /\ e \in 1 .. SeqCount /\ e < SeqCount
  BY StreamIs
<1>2. ASSUME NEW x \in h .. e PROVE x \in DOMAIN stream /\ Has(t, x) /\ Same(stream, x, h)
  BY <1>1 DEF RunOf
<1>3. Same(stream, e, h)
  BY <1>1, <1>2
<1>4. e - h < SeqCount - 1
  <2>1. h < e => e - h < Room
    BY <1>1, <1>3 DEF Shaped, OrderedIn, Same
  <2>2. Room < SeqCount - 1
    BY RoomIs, Numbers
  <2> QED BY <1>1, <2>1, <2>2, RoomIs, Numbers
<1>5. Count(Seqn(h), Seqn(e)) = n /\ n \in Nat
  BY <1>1, <1>4, CountIs
<1>6. DOMAIN slots = 1 .. n
  BY <1>5 DEF RangeOf
<1>7. ASSUME NEW i \in 1 .. n
      PROVE  /\ h + i - 1 \in h .. e
             /\ slots[i] = At(t, h + i - 1)
             /\ IsFuA(slots[i]) <=> stream[h + i - 1].nalu = "fua"
             /\ IsFuA(slots[i]) => /\ slots[i].start = stream[h + i - 1].start
                                   /\ slots[i].end = stream[h + i - 1].end
  <2> DEFINE x == h + i - 1
  <2>1. x \in h .. e /\ x \in 1 .. SeqCount /\ i - 1 \in Nat /\ h + (i - 1) = x /\ h + (i - 1) <= SeqCount
    <3>1. h \in Nat /\ e \in Nat /\ i \in Nat /\ 1 <= i /\ i <= e - h + 1 /\ 1 <= h /\ e < SeqCount /\ SeqCount \in Nat
      BY <1>1, <1>5, Numbers
    <3> QED BY ONLY <3>1
  <2>2. slots[i] = Entry(t, Plus(Seqn(h), i - 1))
    BY <1>5 DEF RangeOf
  <2>3. Plus(Seqn(h), i - 1) = Seqn(x)
    BY <2>1, <1>1, PlusIs
  <2>4. slots[i] = At(t, x)
    BY <2>2, <2>3 DEF Entry, At, Spot
  <2>5. Has(t, x) /\ x # 0 /\ Spot(x) \in Slot
    BY <2>1, <1>1, <1>2, SpotType
  <2>6. IsFuA(At(t, x)) <=> stream[x].nalu = "fua"
    BY <2>5 DEF IsFuA, Has, NoPacket
  <2>7. stream[x].nalu = "fua" => At(t, x).start = stream[x].start /\ At(t, x).end = stream[x].end
    BY <2>5 DEF FieldsOf, Has, At
  <2> QED BY <2>1, <2>4, <2>6, <2>7
<1>8. \A i, j \in starts : i = j
  <2>1. ASSUME NEW i \in starts, NEW j \in starts, i < j PROVE FALSE
    <3>1. i \in 1 .. n /\ j \in 1 .. n
      BY <1>6
    <3>2. h + i - 1 \in DOMAIN stream /\ h + j - 1 \in DOMAIN stream /\ h + i - 1 < h + j - 1
      BY <2>1, <3>1, <1>1, <1>2, <1>7
    <3>3. Same(stream, h + i - 1, h + j - 1)
      BY <3>1, <1>2, <1>7 DEF Same
    <3>4. stream[h + i - 1].nalu = "fua" /\ stream[h + j - 1].start
      BY <3>1, <1>7
    <3> QED BY <3>2, <3>3, <3>4 DEF Shaped, OrderedIn
  <2>2. \A i \in starts : i \in Nat
    BY <1>5, <1>6
  <2> HIDE DEF starts
  <2> QED BY <2>1, <2>2
<1>9. ends \subseteq {n}
  <2>1. ASSUME NEW i \in ends, i # n PROVE FALSE
    <3>1. i \in 1 .. n /\ h + i - 1 < e
      BY <1>5, <1>6, <1>1, <2>1
    <3>2. h + i - 1 \in DOMAIN stream /\ Same(stream, h + i - 1, e) /\ stream[h + i - 1].end
      BY <3>1, <1>2, <1>3, <1>7 DEF Same
    <3> QED BY <3>1, <3>2 DEF Shaped, OrderedIn
  <2> HIDE DEF ends
  <2> QED BY <2>1
<1>10. n \in 1 .. n /\ h + n - 1 = e
  BY <1>1
<1>11. stream[e].nalu = "fua" <=> ends # {}
  <2>1. stream[e].nalu = "fua" => n \in ends
    <3>1. SUFFICES ASSUME stream[e].nalu = "fua" PROVE n \in ends
      OBVIOUS
    <3>2. stream[e].end
      <4>1. ASSUME e + 1 \in DOMAIN stream, Same(stream, e + 1, e) PROVE FALSE
        <5>1. e + 1 \in FrameIn(stream, e)
          BY <4>1 DEF FrameIn, Same
        <5> QED BY <5>1, <1>1 DEF LastIn
      <4> QED BY <3>1, <4>1 DEF Shaped, FramedIn
    <3> QED BY <3>1, <3>2, <1>6, <1>7, <1>10
  <2>2. ends # {} => stream[e].nalu = "fua"
    <3>1. SUFFICES ASSUME ends # {} PROVE stream[e].nalu = "fua"
      OBVIOUS
    <3>2. n \in ends
      <4> HIDE DEF ends
      <4> QED BY <3>1, <1>9
    <3> QED BY <3>2, <1>7, <1>10
  <2> QED BY <2>1, <2>2
<1>12. Complete(t, Seqn(h), Seqn(e)) <=> (starts = {} <=> ends = {})
  <2>1. Complete(t, Seqn(h), Seqn(e)) <=> Cardinality(starts) = Cardinality(ends)
    BY DEF Complete
  <2>2. \A i, j \in ends : i = j
    BY <1>9
  <2> HIDE DEF starts, ends
  <2>3. Cardinality(starts) = (IF starts = {} THEN 0 ELSE 1) /\ Cardinality(ends) = (IF ends = {} THEN 0 ELSE 1)
    BY <1>8, <2>2, AtMostOne
  <2> QED BY <2>1, <2>3
<1>13. ASSUME Complete(t, Seqn(h), Seqn(e)), NEW m \in FrameIn(stream, h), stream[m].nalu # "stap", m < h
       PROVE  FALSE
  <2>1. m \in DOMAIN stream /\ Same(stream, m, e) /\ m < e
    BY <1>1, <1>3, <1>13, StreamIs DEF FrameIn, Same
  <2>2. stream[e].nalu = "fua"
    BY <2>1, <1>13 DEF Shaped, OrderedIn
  <2>3. PICK i \in starts : TRUE
    BY <2>2, <1>11, <1>12, <1>13
  <2>4. i \in 1 .. n /\ stream[h + i - 1].start
    BY <1>6, <1>7
  <2>5. h + i - 1 \in DOMAIN stream /\ m < h + i - 1 /\ Same(stream, m, h + i - 1)
    <3>1. h + i - 1 \in h .. e
      BY <2>4, <1>7
    <3>2. h + i - 1 \in DOMAIN stream /\ Same(stream, h + i - 1, h)
      BY <3>1, <1>2
    <3>3. m \in Nat /\ h + i - 1 \in Nat /\ h <= h + i - 1
      BY <3>1, <3>2, <2>1, <1>1, StreamIs
    <3> QED BY <3>2, <3>3, <1>1, <1>13 DEF FrameIn, Same
  <2> QED BY <2>1, <2>4, <2>5, <1>13 DEF Shaped, OrderedIn
<1>14. ASSUME FirstIn(stream, h), stream[e].nalu = "fua" PROVE starts # {}
  <2> DEFINE fuas == {x \in h .. e : stream[x].nalu = "fua"}
             f == CHOOSE x \in fuas : \A y \in fuas : x <= y
  <2>1. e \in fuas /\ fuas \in SUBSET Nat
    BY <1>14, <1>1
  <2>2. f \in fuas /\ \A y \in fuas : f <= y
    <3> HIDE DEF fuas
    <3> QED BY <2>1, LeastIs
  <2> HIDE DEF f
  <2>3. f \in h .. e /\ f \in Nat /\ f \in DOMAIN stream /\ stream[f].nalu = "fua"
    BY <2>2, <1>1, <1>2
  <2>4. stream[f].start
    <3>1. ASSUME f - 1 \in DOMAIN stream, Same(stream, f - 1, f), stream[f - 1].nalu = "fua"
          PROVE  FALSE
      <4>1. CASE f = h
        BY <3>1, <4>1, <1>14 DEF FirstIn
      <4>2. CASE f # h
        <5>1. f - 1 \in fuas
          BY <3>1, <4>2, <2>3, <1>1
        <5> QED BY <5>1, <2>2, <2>3
      <4> QED BY <4>1, <4>2
    <3> QED BY <3>1, <2>3 DEF Shaped, FramedIn
  <2>5. f - h + 1 \in 1 .. n /\ h + (f - h + 1) - 1 = f
    BY <2>3, <1>1
  <2>6. f - h + 1 \in starts
    BY <2>3, <2>4, <2>5, <1>6, <1>7
  <2> QED BY <2>6
<1>15. stream[e].nalu # "fua" => starts = {}
  <2>1. ASSUME NEW i \in starts, stream[e].nalu # "fua" PROVE FALSE
    <3>1. i \in 1 .. n /\ h + i - 1 \in h .. e /\ stream[h + i - 1].nalu = "fua"
      BY <1>6, <1>7
    <3>2. h + i - 1 \in DOMAIN stream /\ Same(stream, h + i - 1, e)
      BY <3>1, <1>2, <1>3 DEF Same
    <3>3. h + i - 1 = e \/ h + i - 1 < e
      BY <3>1, <1>1
    <3>4. stream[h + i - 1].nalu # "stap"
      BY <3>1
    <3> QED BY <2>1, <3>1, <3>2, <3>3, <3>4 DEF Shaped, OrderedIn
  <2> HIDE DEF starts
  <2> QED BY <2>1
<1>16. Complete(t, Seqn(h), Seqn(e)) => WholeFrom(stream, h)
  <2>1. \A m \in FrameIn(stream, h) : m \in Nat
    BY StreamIs DEF FrameIn
  <2> HIDE DEF starts, ends
  <2> QED BY <1>1, <1>13, <2>1 DEF WholeFrom
<1>17. FirstIn(stream, h) \/ stream[e].nalu # "fua" => Complete(t, Seqn(h), Seqn(e))
  <2> HIDE DEF starts, ends
  <2> QED BY <1>11, <1>12, <1>14, <1>15
<1> QED BY <1>16, <1>17
-----------------------------------------------------------------------------
(* What a walk does to the track.                                          *)

\* u is t when the walk from packet a, of the frame that starts at packet h,
\* has ended: at x, which is missing, or with the frame that ends at e.
WaitsFor(s, t, u, h, a, x) ==
    /\ a <= x /\ x <= SeqCount /\ RunOf(s, t, h, x) /\ ~At(t, x).in_use
    /\ \A y \in a .. x - 1 : ~s[y].marker
    /\ u = [t EXCEPT !.lost_sn = Seqn(x), !.tail = NoTail]
EndsAt(s, t, u, h, a, e) ==
    /\ e \in DOMAIN s /\ h <= e /\ a <= e + 1 /\ RunOf(s, t, h, e + 1) /\ LastIn(s, e)
    /\ \/ WholeFrom(s, h) /\ u = [t EXCEPT !.tail = Seqn(e)]
       \/ ~FirstIn(s, h) /\ s[e].nalu = "fua" /\ u = [t EXCEPT !.tail = NoTail]
Outcome(s, t, u, h, a) ==
    (\E x \in Nat : WaitsFor(s, t, u, h, a, x)) \/ (\E e \in Nat : EndsAt(s, t, u, h, a, e))

LEMMA AdvanceIs ==
    ASSUME NEW k, Shaped(k, stream), NEW t \in TrackRecord, FieldsOf(stream, t),
           NEW h \in Nat, NEW a \in Nat, NEW b \in Nat,
           1 <= h, h <= a, a <= b, b <= SeqCount, b - a < CacheLen,
           t.header_sn = Seqn(h), Clean(stream, t, h, b), ~At(t, b).in_use,
           RunOf(stream, t, h, a)
    PROVE  Outcome(stream, t, Advance(t, Seqn(a)), h, a)
<1> DEFINE u == Advance(t, Seqn(a))
<1>1. a = h \/ Has(t, h)
  BY DEF RunOf
<1>2. PICK x \in a .. b :
        /\ \A y \in a .. x - 1 : Has(t, y) /\ Same(stream, y, h) /\ ~stream[y].marker
        /\ \/ /\ ~At(t, x).in_use
              /\ FindNext(t, Seqn(a)) = [found |-> "lost", sn |-> Seqn(x)]
           \/ /\ Has(t, x) /\ h < x /\ ~Same(stream, x, h)
              /\ FindNext(t, Seqn(a)) = [found |-> "tail", sn |-> Seqn(x - 1)]
           \/ /\ Has(t, x) /\ Same(stream, x, h) /\ stream[x].marker
              /\ FindNext(t, Seqn(a)) = [found |-> "tail", sn |-> Seqn(x)]
  BY <1>1, WalkEnds
<1>3. x \in Nat /\ a <= x /\ x <= SeqCount
  BY <1>2, Numbers
<1>4. ASSUME NEW y \in h .. b, Has(t, y) PROVE y \in DOMAIN stream
  BY <1>4 DEF Clean, Has
<1>5. RunOf(stream, t, h, x)
  <2>1. ASSUME NEW y \in h .. x - 1
        PROVE  y \in DOMAIN stream /\ Has(t, y) /\ Same(stream, y, h)
    <3>1. CASE y < a
      <4>1. y \in h .. a - 1
        BY <3>1
      <4> QED BY <4>1 DEF RunOf
    <3>2. CASE a <= y
      <4>1. y \in a .. x - 1 /\ y \in h .. b
        BY <3>2, <1>3
      <4> QED BY <4>1, <1>2, <1>4
    <3> QED BY <3>1, <3>2
  <2> QED BY <2>1 DEF RunOf
<1>6. CASE FindNext(t, Seqn(a)) = [found |-> "lost", sn |-> Seqn(x)] /\ ~At(t, x).in_use
  <2>1. u = [t EXCEPT !.lost_sn = Seqn(x), !.tail = NoTail]
    BY <1>6 DEF Advance
  <2>2. WaitsFor(stream, t, u, h, a, x)
    BY <2>1, <1>2, <1>3, <1>5, <1>6 DEF WaitsFor
  <2> QED BY <2>2, <1>3 DEF Outcome
<1>7. ASSUME NEW e \in Nat, FindNext(t, Seqn(a)) = [found |-> "tail", sn |-> Seqn(e)],
             e \in DOMAIN stream, h <= e, a <= e + 1, RunOf(stream, t, h, e + 1), LastIn(stream, e)
      PROVE  Outcome(stream, t, u, h, a)
  <2>1. u = [t EXCEPT !.tail = IF Complete(t, Seqn(h), Seqn(e)) THEN Seqn(e) ELSE NoTail]
    BY <1>7 DEF Advance
  <2>2. h \in DOMAIN stream
    <3>1. h \in h .. (e + 1) - 1
      BY <1>7
    <3> QED BY <3>1, <1>7 DEF RunOf
  <2>3. /\ Complete(t, Seqn(h), Seqn(e)) => WholeFrom(stream, h)
        /\ FirstIn(stream, h) \/ stream[e].nalu # "fua" => Complete(t, Seqn(h), Seqn(e))
    BY <1>7, <2>2, CompleteIs
  <2>4. \/ WholeFrom(stream, h) /\ u = [t EXCEPT !.tail = Seqn(e)]
        \/ ~FirstIn(stream, h) /\ stream[e].nalu = "fua" /\ u = [t EXCEPT !.tail = NoTail]
    BY <2>1, <2>3
  <2> HIDE DEF u
  <2>5. EndsAt(stream, t, u, h, a, e)
    BY <2>4, <1>7 DEF EndsAt
  <2> QED BY <2>5, <1>7 DEF Outcome
<1>8. CASE /\ Has(t, x) /\ h < x /\ ~Same(stream, x, h)
           /\ FindNext(t, Seqn(a)) = [found |-> "tail", sn |-> Seqn(x - 1)]
  <2>1. x - 1 \in Nat /\ x - 1 \in h .. x - 1 /\ a <= (x - 1) + 1 /\ x \in h .. b /\ (x - 1) + 1 = x
    BY <1>2, <1>3, <1>8
  <2>2. x - 1 \in DOMAIN stream /\ Same(stream, x - 1, h) /\ x \in DOMAIN stream
    BY <2>1, <1>4, <1>5, <1>8 DEF RunOf
  <2>3. ~Same(stream, x, x - 1)
    BY <2>2, <1>8 DEF Same
  <2>4. LastIn(stream, x - 1)
    BY <2>1, <2>2, <2>3, NextIsOther
  <2> QED BY <2>1, <2>2, <2>4, <1>5, <1>7, <1>8
<1>9. CASE /\ Has(t, x) /\ Same(stream, x, h) /\ stream[x].marker
           /\ FindNext(t, Seqn(a)) = [found |-> "tail", sn |-> Seqn(x)]
  <2>1. x \in h .. b /\ x \in DOMAIN stream
    BY <1>2, <1>3, <1>4, <1>9
  <2>2. LastIn(stream, x)
    BY <2>1, <1>9, MarkerIsLast
  <2>3. RunOf(stream, t, h, x + 1)
    <3>1. \A y \in h .. (x + 1) - 1 : y \in h .. x - 1 \/ y = x
      BY <1>3
    <3> QED BY <3>1, <2>1, <1>5, <1>9 DEF RunOf
  <2> QED BY <2>1, <2>2, <2>3, <1>3, <1>7, <1>9
<1> QED BY <1>2, <1>6, <1>8, <1>9

\* Entries that hold what was received in them: none from h on is taken for
\* another packet if the horizon b is less than a cache length away, or if
\* no number is met again.
SlotsOf(t, rec, o) ==
    \A i \in Slot :
        /\ t.cache[i].pkt # NoPacket => t.cache[i].pkt \in rec /\ Spot(t.cache[i].pkt) = i
        /\ t.cache[i].in_use => t.cache[i].pkt # NoPacket /\ \A j \in DOMAIN o : t.cache[i].pkt \notin ToSet(o[j])

LEMMA CleanIs ==
    ASSUME NEW k, Shaped(k, stream), NEW t \in TrackRecord, NEW rec \in SUBSET DOMAIN stream, NEW o,
           SlotsOf(t, rec, o),
           NEW h \in Nat, NEW b \in Nat, 1 <= h, h <= b, b <= SeqCount, \A m \in rec : m < b,
           \/ b <= CacheLen
           \/ b < h + CacheLen /\ \A i \in Slot : t.cache[i].in_use => h <= t.cache[i].pkt
    PROVE  Clean(stream, t, h, b) /\ ~At(t, b).in_use
<1>1. ASSUME NEW x \in h .. b, At(t, x).in_use
      PROVE  At(t, x).pkt = x /\ x \in rec
  <2> DEFINE p == At(t, x).pkt
  <2>1. x \in 1 .. SeqCount /\ x <= b /\ h <= x
    BY Numbers
  <2>2. p \in rec /\ Spot(p) = Spot(x) /\ p = t.cache[Spot(x)].pkt /\ t.cache[Spot(x)].in_use
    BY <1>1, <2>1, SpotType DEF SlotsOf, At
  <2>3. p \in 1 .. SeqCount /\ p < b
    BY <2>2, StreamIs
  <2>4. p - x < CacheLen /\ x - p < CacheLen
    <3>0. p \in Nat /\ 1 <= p /\ x \in Nat /\ 1 <= x /\ CacheLen \in Nat
      BY <2>1, <2>3, Numbers
    <3> HIDE DEF p
    <3>1. CASE b <= CacheLen
      BY <3>0, <3>1, <2>1, <2>3
    <3>2. CASE b < h + CacheLen /\ h <= p
      BY <3>0, <3>2, <2>1, <2>3
    <3> USE DEF p
    <3> QED BY <3>1, <3>2, <2>1, <2>2, SpotType
  <2>5. p = x
    BY <2>1, <2>2, <2>3, <2>4, SpotsDiffer
  <2> QED BY <2>2, <2>5
<1>2. Clean(stream, t, h, b)
  BY <1>1 DEF Clean
<1>3. b \in h .. b /\ ~(b < b)
  OBVIOUS
<1> QED BY <1>1, <1>2, <1>3

\* What a walk leaves alone.
LEMMA AdvanceKeeps ==
    ASSUME NEW t \in TrackRecord, NEW sn \in SeqNo
    PROVE  \E l \in SeqNo, e \in SeqNo \cup {NoTail} : Advance(t, sn) = [t EXCEPT !.lost_sn = l, !.tail = e]
<1> DEFINE stops == {i \in Slot : Stops(t, Plus(sn, i))}
           m == CHOOSE i \in stops : \A j \in stops : i <= j
           at == Plus(sn, m)
           r == FindNext(t, sn)
<1>1. t = [t EXCEPT !.lost_sn = t.lost_sn] /\ t.lost_sn \in SeqNo
  BY ZenonT(30) DEF TrackRecord
<1>2. stops # {} => at \in SeqNo /\ Plus(at, SeqCount - 1) \in SeqNo
  <2>1. stops \in SUBSET Nat
    BY Numbers
  <2>2. ASSUME stops # {} PROVE m \in stops
    <3> HIDE DEF stops
    <3> QED BY <2>1, <2>2, LeastIs
  <2>3. \A i \in stops : i \in 0 .. SeqCount
    BY Numbers
  <2>4. SeqCount - 1 \in 0 .. SeqCount
    BY Numbers
  <2> HIDE DEF stops, m
  <2>5. SUFFICES ASSUME stops # {} PROVE at \in SeqNo /\ Plus(at, SeqCount - 1) \in SeqNo
    OBVIOUS
  <2>6. m \in 0 .. SeqCount
    BY <2>2, <2>3, <2>5
  <2>7. at \in SeqNo
    BY <2>6, PlusType
  <2> QED BY <2>4, <2>7, PlusType
<1>3. r = CASE stops = {} -> [found |-> "mess", sn |-> sn]
            [] stops # {} /\ ~Entry(t, at).in_use -> [found |-> "lost", sn |-> at]
            [] stops # {} /\ Entry(t, at).in_use ->
                 [found |-> "tail", sn |-> IF OtherFrame(t, at) THEN Plus(at, SeqCount - 1) ELSE at]
  BY DEF FindNext
<1>4. r.found \in {"mess", "lost", "tail"} /\ r.sn \in SeqNo
  <2> HIDE DEF stops, at, r
  <2>1. CASE stops = {}
    BY <2>1, <1>3
  <2>2. CASE stops # {} /\ ~Entry(t, at).in_use
    BY <2>2, <1>2, <1>3
  <2>3. CASE stops # {} /\ Entry(t, at).in_use
    BY <2>3, <1>2, <1>3
  <2> QED BY <2>1, <2>2, <2>3
<1>5. Advance(t, sn) =
        CASE r.found = "lost" -> [t EXCEPT !.lost_sn = r.sn, !.tail = NoTail]
          [] r.found = "tail" -> [t EXCEPT !.tail = IF Complete(t, t.header_sn, r.sn) THEN r.sn ELSE NoTail]
          [] r.found = "mess" -> [t EXCEPT !.tail = NoTail]
  BY DEF Advance
<1> HIDE DEF r
<1>6. CASE r.found = "lost"
  BY <1>4, <1>5, <1>6
<1>7. ASSUME NEW e \in SeqNo \cup {NoTail}, Advance(t, sn) = [t EXCEPT !.tail = e]
      PROVE  \E l \in SeqNo, f \in SeqNo \cup {NoTail} : Advance(t, sn) = [t EXCEPT !.lost_sn = l, !.tail = f]
  <2>1. [t EXCEPT !.tail = e] = [t EXCEPT !.lost_sn = t.lost_sn, !.tail = e]
    BY <1>1
  <2> QED BY <2>1, <1>1, <1>7
<1>8. CASE r.found = "tail"
  <2>1. Advance(t, sn) = [t EXCEPT !.tail = IF Complete(t, t.header_sn, r.sn) THEN r.sn ELSE NoTail]
    BY <1>5, <1>8
  <2> QED BY <2>1, <1>4, <1>7
<1>9. CASE r.found = "mess"
  BY <1>5, <1>7, <1>9
<1> QED BY <1>4, <1>6, <1>8, <1>9
-----------------------------------------------------------------------------
(* What a packet does to the track.                                        *)

LEMMA PutIs ==
    ASSUME NEW k, Shaped(k, stream), NEW t \in TrackRecord, NEW n \in DOMAIN stream
    PROVE  LET u == Put(t, n)
           IN  /\ u \in TrackRecord
               /\ u.header_sn = t.header_sn /\ u.lost_sn = t.lost_sn /\ u.tail = t.tail
               /\ u.key_frame_ts = t.key_frame_ts
               /\ Has(u, n)
               /\ \A i \in Slot : i # Spot(n) => u.cache[i] = t.cache[i]
               /\ FieldsOf(stream, t) => FieldsOf(stream, u)
<1> DEFINE u == Put(t, n)
           i0 == Spot(n)
           e == [in_use |-> TRUE, pkt |-> n,
                 start |-> IF stream[n].nalu = "fua" THEN stream[n].start ELSE t.cache[i0].start,
                 end |-> IF stream[n].nalu = "fua" THEN stream[n].end ELSE t.cache[i0].end]
<1>1. n \in Nat /\ n \in 1 .. SeqCount /\ stream[n] \in Packet /\ i0 \in Slot
  BY StreamIs, SpotType
<1>2. u = [t EXCEPT !.cache[i0] = e]
  BY DEF Put, Entry, Spot
<1>3. t.cache \in [Slot -> EntryRecord] /\ t.header_sn \in SeqNo /\ t.lost_sn \in SeqNo
      /\ t.key_frame_ts \in Int /\ t.tail \in SeqNo \cup {NoTail}
  BY ZenonT(30) DEF TrackRecord
<1>4. t.cache[i0].start \in BOOLEAN /\ t.cache[i0].end \in BOOLEAN
  <2>1. t.cache[i0] \in EntryRecord
    BY <1>1, <1>3
  <2> QED BY <2>1 DEF EntryRecord
<1>5. stream[n].start \in BOOLEAN /\ stream[n].end \in BOOLEAN
  BY <1>1 DEF Packet
<1>6. e \in EntryRecord
  BY <1>1, <1>4, <1>5 DEF EntryRecord
<1>7. t = [header_sn |-> t.header_sn, lost_sn |-> t.lost_sn, key_frame_ts |-> t.key_frame_ts,
           cache |-> t.cache, tail |-> t.tail]
  BY ZenonT(30) DEF TrackRecord
<1>8. /\ e.in_use /\ e.pkt = n
      /\ stream[n].nalu = "fua" => e.start = stream[n].start /\ e.end = stream[n].end
  OBVIOUS
<1> HIDE DEF e, i0, u
<1>9. u = [header_sn |-> t.header_sn, lost_sn |-> t.lost_sn, key_frame_ts |-> t.key_frame_ts,
           cache |-> [t.cache EXCEPT ![i0] = e], tail |-> t.tail]
  BY <1>2, <1>7
<1>10. [t.cache EXCEPT ![i0] = e] \in [Slot -> EntryRecord]
  BY <1>3, <1>6
<1>11. u \in TrackRecord
  BY <1>3, <1>9, <1>10, ZenonT(30) DEF TrackRecord
<1>12. u.cache[i0] = e /\ \A i \in Slot : i # i0 => u.cache[i] = t.cache[i]
  BY <1>1, <1>3, <1>9
<1>13. Has(u, n)
  BY <1>8, <1>12 DEF Has, At, i0
<1>14. FieldsOf(stream, t) => FieldsOf(stream, u)
  BY <1>8, <1>12 DEF FieldsOf
<1> QED BY <1>9, <1>11, <1>12, <1>13, <1>14 DEF u, i0

\* A track with other numbers, and the cache cleared.
LEMMA NumbersOnly ==
    ASSUME NEW t \in TrackRecord, NEW h \in SeqNo, NEW l \in SeqNo,
           NEW e \in SeqNo \cup {NoTail}
    PROVE  /\ [t EXCEPT !.header_sn = h] \in TrackRecord
           /\ [t EXCEPT !.lost_sn = l, !.tail = e] \in TrackRecord
           /\ [t EXCEPT !.tail = e] \in TrackRecord
<1>1. t.cache \in [Slot -> EntryRecord] /\ t.header_sn \in SeqNo /\ t.lost_sn \in SeqNo
      /\ t.key_frame_ts \in Int /\ t.tail \in SeqNo \cup {NoTail}
  BY ZenonT(30) DEF TrackRecord
<1>2. t = [header_sn |-> t.header_sn, lost_sn |-> t.lost_sn, key_frame_ts |-> t.key_frame_ts,
           cache |-> t.cache, tail |-> t.tail]
  BY ZenonT(30) DEF TrackRecord
<1>3. [t EXCEPT !.header_sn = h] =
        [header_sn |-> h, lost_sn |-> t.lost_sn, key_frame_ts |-> t.key_frame_ts,
         cache |-> t.cache, tail |-> t.tail]
  BY <1>2
<1>4. [t EXCEPT !.lost_sn = l, !.tail = e] =
        [header_sn |-> t.header_sn, lost_sn |-> l, key_frame_ts |-> t.key_frame_ts,
         cache |-> t.cache, tail |-> e]
  <2> DEFINE v == [t EXCEPT !.lost_sn = l]
  <2>1. v = [header_sn |-> t.header_sn, lost_sn |-> l, key_frame_ts |-> t.key_frame_ts,
             cache |-> t.cache, tail |-> t.tail]
    BY <1>2
  <2>2. [t EXCEPT !.lost_sn = l, !.tail = e] = [v EXCEPT !.tail = e]
    OBVIOUS
  <2> HIDE DEF v
  <2> QED BY <2>1, <2>2
<1>5. [t EXCEPT !.tail = e] =
        [header_sn |-> t.header_sn, lost_sn |-> t.lost_sn, key_frame_ts |-> t.key_frame_ts,
         cache |-> t.cache, tail |-> e]
  BY <1>2
<1>6. [t EXCEPT !.header_sn = h] \in TrackRecord
  BY <1>1, <1>3, ZenonT(30) DEF TrackRecord
<1>7. [t EXCEPT !.lost_sn = l, !.tail = e] \in TrackRecord
  BY <1>1, <1>4, ZenonT(30) DEF TrackRecord
<1>8. [t EXCEPT !.tail = e] \in TrackRecord
  BY <1>1, <1>5, ZenonT(30) DEF TrackRecord
<1> QED BY <1>6, <1>7, <1>8

LEMMA StartIs ==
    ASSUME NEW k, Shaped(k, stream), NEW t \in TrackRecord, NEW n \in DOMAIN stream
    PROVE  LET u == StartKey(t, n)
           IN  /\ u \in TrackRecord
               /\ u.header_sn = Seqn(n) /\ u.lost_sn = Plus(Seqn(n), 1) /\ u.tail = t.tail
               /\ u.key_frame_ts = stream[n].ts
               /\ \A i \in Slot : u.cache[i] = IF t.cache[i].in_use THEN Empty ELSE t.cache[i]
               /\ FieldsOf(stream, u)
<1> DEFINE u == StartKey(t, n)
<1>1. n \in Nat /\ n \in 1 .. SeqCount /\ stream[n].ts \in Nat /\ Seqn(n) \in SeqNo
      /\ Plus(Seqn(n), 1) \in SeqNo
  <2>1. n \in Nat /\ n \in 1 .. SeqCount /\ stream[n].ts \in Nat
    BY StreamIs
  <2>2. Seqn(n) \in SeqNo /\ 1 \in 0 .. SeqCount
    BY <2>1, SeqnIs, Numbers
  <2> QED BY <2>1, <2>2, PlusType
<1>2. t.cache \in [Slot -> EntryRecord] /\ t.tail \in SeqNo \cup {NoTail}
  BY ZenonT(30) DEF TrackRecord
<1>3. t = [header_sn |-> t.header_sn, lost_sn |-> t.lost_sn, key_frame_ts |-> t.key_frame_ts,
           cache |-> t.cache, tail |-> t.tail]
  BY ZenonT(30) DEF TrackRecord
<1>4. u = [header_sn |-> Seqn(n), lost_sn |-> Plus(Seqn(n), 1), key_frame_ts |-> stream[n].ts,
           cache |-> Cleared(t.cache), tail |-> t.tail]
  <2> DEFINE c == Cleared(t.cache)
             l == Plus(Seqn(n), 1)
             h == Seqn(n)
             q == stream[n].ts
  <2>1. u = [t EXCEPT !.key_frame_ts = q, !.header_sn = h, !.lost_sn = l, !.cache = c]
    BY DEF StartKey
  <2> HIDE DEF c, l, h, q, u
  <2>2. u = [header_sn |-> h, lost_sn |-> l, key_frame_ts |-> q, cache |-> c, tail |-> t.tail]
    BY <2>1, <1>3
  <2> QED BY <2>2 DEF c, l, h, q
<1>5. Empty \in EntryRecord /\ ~Empty.in_use
  <2>1. NoPacket \in Nat
    BY Numbers
  <2> QED BY <2>1 DEF Empty, EntryRecord
<1>6. Cleared(t.cache) \in [Slot -> EntryRecord]
      /\ \A i \in Slot : Cleared(t.cache)[i] = IF t.cache[i].in_use THEN Empty ELSE t.cache[i]
  BY <1>2, <1>5 DEF Cleared
<1> HIDE DEF u
<1>7. u \in TrackRecord
  <2>1. stream[n].ts \in Int
    BY <1>1
  <2> QED BY <1>1, <1>2, <1>4, <1>6, <2>1, ZenonT(30) DEF TrackRecord
<1>8. \A i \in Slot : u.cache[i] = IF t.cache[i].in_use THEN Empty ELSE t.cache[i]
  BY <1>4, <1>6
<1>9. FieldsOf(stream, u)
  BY <1>5, <1>8 DEF FieldsOf
<1> QED BY <1>4, <1>7, <1>8, <1>9 DEF u

\* A frame that goes out takes its entries with it.
LEMMA PackedIs ==
    ASSUME NEW t \in TrackRecord, t.tail # NoTail
    PROVE  LET u == Packed(t)
           IN  /\ u \in TrackRecord
               /\ u.header_sn = Plus(t.tail, 1) /\ u.lost_sn = t.lost_sn /\ u.tail = t.tail
               /\ u.key_frame_ts = IF IsKey2(Entry(t, t.header_sn)) THEN NoKey ELSE t.key_frame_ts
               /\ \A i \in Slot : /\ u.cache[i].pkt = t.cache[i].pkt
                                  /\ i \in Taken(t) => ~u.cache[i].in_use
                                  /\ i \notin Taken(t) => u.cache[i] = t.cache[i]
<1> DEFINE c == Release(t.cache, Taken(t))
           h == Plus(t.tail, 1)
           q == IF IsKey2(Entry(t, t.header_sn)) THEN NoKey ELSE t.key_frame_ts
           u == Packed(t)
<1>1. /\ t.cache \in [Slot -> EntryRecord] /\ t.lost_sn \in SeqNo /\ t.header_sn \in SeqNo
      /\ t.key_frame_ts \in Int /\ t.tail \in SeqNo \cup {NoTail}
  BY ZenonT(30) DEF TrackRecord
<1>2. t = [header_sn |-> t.header_sn, lost_sn |-> t.lost_sn, key_frame_ts |-> t.key_frame_ts,
           cache |-> t.cache, tail |-> t.tail]
  BY ZenonT(30) DEF TrackRecord
<1>3. u = [t EXCEPT !.key_frame_ts = q, !.cache = c, !.header_sn = h]
  BY DEF Packed
<1>4. t.tail \in SeqNo /\ h \in SeqNo
  <2>1. t.tail \in SeqNo /\ 1 \in 0 .. SeqCount
    BY <1>1, Numbers
  <2> QED BY <2>1, PlusType
<1>5. q \in Int
  BY <1>1, Numbers
<1>6. ASSUME NEW i \in Slot
      PROVE  /\ c[i] \in EntryRecord /\ c[i].pkt = t.cache[i].pkt
             /\ i \in Taken(t) => ~c[i].in_use
             /\ i \notin Taken(t) => c[i] = t.cache[i]
  <2>1. t.cache[i] \in EntryRecord
    BY <1>1
  <2>2. t.cache[i].pkt \in Nat
    BY <2>1 DEF EntryRecord
  <2>3. t.cache[i] = [in_use |-> t.cache[i].in_use, pkt |-> t.cache[i].pkt,
                      start |-> t.cache[i].start, end |-> t.cache[i].end]
    BY <2>1, ZenonT(30) DEF EntryRecord
  <2>4. CASE i \in Taken(t)
    <3>1. c[i] = [t.cache[i] EXCEPT !.in_use = FALSE, !.start = FALSE, !.end = FALSE]
      BY <2>4 DEF Release
    <3>2. c[i] = [in_use |-> FALSE, pkt |-> t.cache[i].pkt, start |-> FALSE, end |-> FALSE]
      BY <2>3, <3>1
    <3> HIDE DEF c
    <3> QED BY <2>2, <2>4, <3>2 DEF EntryRecord
  <2>5. CASE i \notin Taken(t)
    <3>1. c[i] = t.cache[i]
      BY <2>5 DEF Release
    <3> QED BY <2>1, <2>5, <3>1
  <2> QED BY <2>4, <2>5
<1>7. c \in [Slot -> EntryRecord]
  <2>1. c = [i \in Slot |-> c[i]]
    BY DEF Release
  <2> HIDE DEF c
  <2> QED BY <1>6, <2>1
<1> HIDE DEF c, h, q, u
<1>8. u = [header_sn |-> h, lost_sn |-> t.lost_sn, key_frame_ts |-> q, cache |-> c, tail |-> t.tail]
  BY <1>2, <1>3
<1>9. u \in TrackRecord
  BY <1>1, <1>4, <1>5, <1>7, <1>8, ZenonT(30) DEF TrackRecord
<1> QED BY <1>6, <1>8, <1>9 DEF u, h, q
-----------------------------------------------------------------------------
(* What holds of the cache whatever comes.                                 *)

\* The types, and that the packets of the cache and of the frames that went out
\* were received.
OutTyped(rec, o) ==
    /\ o \in Seq(Seq(Nat))
    /\ \A j \in DOMAIN o : \A i \in DOMAIN o[j] : o[j][i] \in {NoPacket} \cup rec
Sound(k, s, t, rec, o, c) ==
    /\ k \in 0 .. MaxFrames /\ Shaped(k, s)
    /\ t \in TrackRecord
    /\ t.key_frame_ts = NoKey \/ \E n \in rec : s[n].ts = t.key_frame_ts /\ s[n].key
    /\ rec \subseteq DOMAIN s /\ c \in {NoPacket} \cup rec
    /\ OutTyped(rec, o)
    /\ FieldsOf(s, t) /\ SlotsOf(t, rec, o)

LEMMA SoundMore ==
    ASSUME NEW k, NEW t, NEW rec, NEW o, NEW c, Sound(k, stream, t, rec, o, c), NEW n \in DOMAIN stream
    PROVE  Sound(k, stream, t, rec \cup {n}, o, n)
<1>1. OutTyped(rec \cup {n}, o)
  BY DEF Sound, OutTyped
<1>2. SlotsOf(t, rec \cup {n}, o)
  BY DEF Sound, SlotsOf
<1> QED BY <1>1, <1>2 DEF Sound

LEMMA SoundAdvance ==
    ASSUME NEW k, NEW t, NEW rec, NEW o, NEW c, Sound(k, stream, t, rec, o, c), NEW sn \in SeqNo
    PROVE  Sound(k, stream, Advance(t, sn), rec, o, c)
<1>1. t \in TrackRecord
  BY DEF Sound
<1>2. PICK l \in SeqNo, e \in SeqNo \cup {NoTail} : Advance(t, sn) = [t EXCEPT !.lost_sn = l, !.tail = e]
  BY <1>1, AdvanceKeeps
<1>3. Advance(t, sn) \in TrackRecord
  <2>1. [t EXCEPT !.lost_sn = l, !.tail = e] \in TrackRecord
    BY <1>1, NumbersOnly
  <2> QED BY <1>2, <2>1
<1>4. t = [t EXCEPT !.lost_sn = t.lost_sn]
  BY <1>1, ZenonT(30) DEF TrackRecord
<1> DEFINE u == Advance(t, sn)
<1>5. u.key_frame_ts = t.key_frame_ts /\ u.cache = t.cache
  BY <1>2
<1> HIDE DEF u
<1>6. FieldsOf(stream, u) /\ SlotsOf(u, rec, o)
  BY <1>5 DEF Sound, FieldsOf, SlotsOf
<1> QED BY <1>3, <1>5, <1>6 DEF Sound, u

LEMMA SoundHeader ==
    ASSUME NEW k, NEW t, NEW rec, NEW o, NEW c, Sound(k, stream, t, rec, o, c), NEW sn \in SeqNo
    PROVE  Sound(k, stream, [t EXCEPT !.header_sn = sn], rec, o, c)
<1> DEFINE u == [t EXCEPT !.header_sn = sn]
<1>1. t \in TrackRecord
  BY DEF Sound
<1>2. t.lost_sn \in SeqNo /\ t.tail \in SeqNo \cup {NoTail}
  BY <1>1, ZenonT(30) DEF TrackRecord
<1>3. u \in TrackRecord
  BY <1>1, <1>2, NumbersOnly
<1>4. u.key_frame_ts = t.key_frame_ts /\ u.cache = t.cache
  OBVIOUS
<1> HIDE DEF u
<1>5. FieldsOf(stream, u) /\ SlotsOf(u, rec, o)
  BY <1>4 DEF Sound, FieldsOf, SlotsOf
<1> QED BY <1>3, <1>4, <1>5 DEF Sound, u

LEMMA SoundPut ==
    ASSUME NEW k, NEW t, NEW rec, NEW o, NEW c, Sound(k, stream, t, rec, o, c), NEW n \in rec,
           \A j \in DOMAIN o : n \notin ToSet(o[j])
    PROVE  Sound(k, stream, Put(t, n), rec, o, c)
<1> DEFINE u == Put(t, n)
<1>1. Shaped(k, stream) /\ t \in TrackRecord /\ n \in DOMAIN stream /\ FieldsOf(stream, t) /\ SlotsOf(t, rec, o)
  BY DEF Sound
<1>2. /\ u \in TrackRecord /\ u.key_frame_ts = t.key_frame_ts /\ Has(u, n)
      /\ \A i \in Slot : i # Spot(n) => u.cache[i] = t.cache[i]
      /\ FieldsOf(stream, u)
  BY <1>1, PutIs
<1>3. n # NoPacket
  BY <1>1, StreamIs, Numbers
<1> HIDE DEF u
<1>4. SlotsOf(u, rec, o)
  BY <1>1, <1>2, <1>3 DEF SlotsOf, Has, At
<1> QED BY <1>2, <1>4 DEF Sound, u

LEMMA SoundStart ==
    ASSUME NEW k, NEW t, NEW rec, NEW o, NEW c, Sound(k, stream, t, rec, o, c), NEW n \in rec, stream[n].key
    PROVE  Sound(k, stream, StartKey(t, n), rec, o, c)
<1> DEFINE u == StartKey(t, n)
<1>1. Shaped(k, stream) /\ t \in TrackRecord /\ n \in DOMAIN stream /\ SlotsOf(t, rec, o)
  BY DEF Sound
<1>2. /\ u \in TrackRecord /\ u.key_frame_ts = stream[n].ts
      /\ \A i \in Slot : u.cache[i] = IF t.cache[i].in_use THEN Empty ELSE t.cache[i]
      /\ FieldsOf(stream, u)
  BY <1>1, StartIs
<1> HIDE DEF u
<1>3. Empty.pkt = NoPacket /\ ~Empty.in_use
  BY DEF Empty
<1>4. SlotsOf(u, rec, o)
  BY <1>1, <1>2, <1>3 DEF SlotsOf
<1> QED BY <1>2, <1>4 DEF Sound, u

\* A frame that goes out: what it holds, and the entries it gives back.
LEMMA TakenIs ==
    ASSUME NEW t \in TrackRecord, t.tail # NoTail
    PROVE  /\ NextFrame(t) \in Seq(Nat)
           /\ \A i \in DOMAIN NextFrame(t) :
                \E j \in Slot : j \in Taken(t) /\ NextFrame(t)[i] = t.cache[j].pkt
<1> DEFINE n == Count(t.header_sn, t.tail)
           slots == RangeOf(t, t.header_sn, t.tail)
           p == NextFrame(t)
<1>1. t.header_sn \in SeqNo /\ t.tail \in SeqNo /\ t.cache \in [Slot -> EntryRecord]
  <2>1. t.header_sn \in SeqNo /\ t.tail \in SeqNo \cup {NoTail} /\ t.cache \in [Slot -> EntryRecord]
    BY ZenonT(30) DEF TrackRecord
  <2> QED BY <2>1
<1>2. n \in Nat /\ n < SeqCount
  <2>1. Steps(t.header_sn, t.tail) \in SeqNo
    BY <1>1, Numbers DEF Steps
  <2>2. n \in SeqNo
    <3>1. 1 \in 0 .. SeqCount
      BY Numbers
    <3>2. Plus(Steps(t.header_sn, t.tail), 1) \in SeqNo
      BY <2>1, <3>1, PlusType
    <3> QED BY <3>2 DEF Count
  <2> QED BY <2>2, Numbers
<1>3. DOMAIN slots = 1 .. n
  BY DEF RangeOf
<1>4. p = [i \in 1 .. n |-> slots[i].pkt]
  BY <1>3 DEF NextFrame
<1>5. ASSUME NEW i \in 1 .. n
      PROVE  \E j \in Slot : j \in Taken(t) /\ slots[i].pkt = t.cache[j].pkt
  <2> DEFINE j == Index(Plus(t.header_sn, i - 1))
  <2>1. i - 1 \in 0 .. SeqCount
    BY <1>2, Numbers
  <2>2. Plus(t.header_sn, i - 1) \in SeqNo
    BY <1>1, <2>1, PlusType
  <2>3. j \in Slot
    BY <2>2, RemainderIs, Numbers DEF Index
  <2>4. j \in Taken(t)
    BY DEF Taken
  <2>5. slots[i] = t.cache[j]
    BY DEF RangeOf, Entry
  <2> QED BY <2>3, <2>4, <2>5
<1> HIDE DEF n, slots
<1>6. \A i \in 1 .. n : slots[i].pkt \in Nat
  <2>1. \A j \in Slot : t.cache[j].pkt \in Nat
    BY <1>1 DEF EntryRecord
  <2> QED BY <1>5, <2>1
<1>7. p \in Seq(Nat) /\ DOMAIN p = 1 .. n
  <2> HIDE DEF p
  <2> QED BY <1>2, <1>4, <1>6
<1> HIDE DEF p
<1>8. \A i \in DOMAIN p : p[i] = slots[i].pkt
  BY <1>4, <1>7
<1> QED BY <1>5, <1>7, <1>8 DEF p

LEMMA SoundTurn ==
    ASSUME NEW k, NEW t, NEW rec, NEW o, NEW c, Sound(k, stream, t, rec, o, c), t.tail # NoTail
    PROVE  Sound(k, stream, Packed(t), rec, Append(o, NextFrame(t)), NoPacket)
<1> DEFINE p == NextFrame(t)
           q == Append(o, p)
           u == Packed(t)
<1>1. Shaped(k, stream) /\ t \in TrackRecord /\ FieldsOf(stream, t) /\ SlotsOf(t, rec, o) /\ OutTyped(rec, o)
      /\ rec \subseteq DOMAIN stream
  BY DEF Sound
<1>2. /\ u \in TrackRecord
      /\ u.key_frame_ts \in {NoKey, t.key_frame_ts}
      /\ \A i \in Slot : /\ u.cache[i].pkt = t.cache[i].pkt
                         /\ i \in Taken(t) => ~u.cache[i].in_use
                         /\ i \notin Taken(t) => u.cache[i] = t.cache[i]
  BY <1>1, PackedIs
<1>3. p \in Seq(Nat) /\ \A i \in DOMAIN p : \E j \in Slot : j \in Taken(t) /\ p[i] = t.cache[j].pkt
  BY <1>1, TakenIs
<1> HIDE DEF p, u
<1>4. o \in Seq(Seq(Nat)) /\ DOMAIN o = 1 .. Len(o) /\ Len(o) \in Nat
  BY <1>1 DEF OutTyped
<1>5. /\ q \in Seq(Seq(Nat)) /\ DOMAIN q = 1 .. Len(o) + 1
      /\ \A j \in DOMAIN o : q[j] = o[j]
      /\ q[Len(o) + 1] = p
  BY <1>3, <1>4
<1> HIDE DEF q
<1>6. \A j \in DOMAIN q : j \in DOMAIN o \/ j = Len(o) + 1
  BY <1>4, <1>5
<1>7. \A i \in DOMAIN p : p[i] \in {NoPacket} \cup rec
  BY <1>1, <1>3 DEF SlotsOf
<1>8. OutTyped(rec, q)
  BY <1>1, <1>5, <1>6, <1>7 DEF OutTyped
<1>9. ASSUME NEW i \in Slot, u.cache[i].in_use PROVE u.cache[i].pkt \notin ToSet(p)
  <2>1. SUFFICES ASSUME NEW x \in DOMAIN p, p[x] = u.cache[i].pkt PROVE FALSE
    BY DEF ToSet
  <2>2. i \notin Taken(t) /\ t.cache[i].in_use /\ u.cache[i].pkt = t.cache[i].pkt
    BY <1>2, <1>9
  <2>3. t.cache[i].pkt # NoPacket /\ Spot(t.cache[i].pkt) = i
    BY <1>1, <2>2 DEF SlotsOf
  <2>4. PICK j \in Slot : j \in Taken(t) /\ p[x] = t.cache[j].pkt
    BY <1>3
  <2>5. Spot(t.cache[j].pkt) = j
    BY <1>1, <2>1, <2>2, <2>3, <2>4 DEF SlotsOf
  <2> QED BY <2>1, <2>2, <2>3, <2>4, <2>5
<1>10. SlotsOf(u, rec, q)
  <2>1. ASSUME NEW i \in Slot, u.cache[i].in_use, NEW j \in DOMAIN q
        PROVE  u.cache[i].pkt \notin ToSet(q[j])
    <3>1. CASE j \in DOMAIN o
      BY <3>1, <2>1, <1>1, <1>2, <1>5 DEF SlotsOf
    <3>2. CASE j = Len(o) + 1
      BY <3>2, <2>1, <1>5, <1>9
    <3> QED BY <3>1, <3>2, <1>6
  <2>2. ASSUME NEW i \in Slot
        PROVE  /\ u.cache[i].pkt # NoPacket => u.cache[i].pkt \in rec /\ Spot(u.cache[i].pkt) = i
               /\ u.cache[i].in_use => u.cache[i].pkt # NoPacket
    BY <1>1, <1>2 DEF SlotsOf
  <2> QED BY <2>1, <2>2 DEF SlotsOf
<1>11. FieldsOf(stream, u)
  BY <1>1, <1>2 DEF FieldsOf
<1> QED BY <1>2, <1>8, <1>10, <1>11 DEF Sound, u, p, q

LEMMA PacketVideoSound ==
    ASSUME Sound(frames, stream, track, received, out, came), packet_video
    PROVE  Sound(frames, stream, track, received, out, came)'
<1>1. /\ track.tail # NoTail /\ track \in TrackRecord
      /\ out' = Append(out, NextFrame(track)) /\ came' = NoPacket
      /\ track' = Advance(Packed(track), Plus(track.tail, 1))
      /\ frames' = frames /\ stream' = stream /\ received' = received
  BY DEF packet_video, netVars, Sound
<1>2. Plus(track.tail, 1) \in SeqNo
  <2>1. track.tail \in SeqNo \cup {NoTail}
    BY <1>1, ZenonT(30) DEF TrackRecord
  <2>2. track.tail \in SeqNo /\ 1 \in 0 .. SeqCount
    BY <1>1, <2>1, Numbers
  <2> QED BY <2>2, PlusType
<1>3. Sound(frames, stream, Packed(track), received, out', came')
  BY <1>1, SoundTurn
<1>4. Sound(frames, stream, track', received, out', came')
  BY <1>1, <1>2, <1>3, SoundAdvance
<1> QED BY <1>1, <1>4

LEMMA OnRtpSound ==
    ASSUME Sound(frames, stream, track, received, out, came), NEW n \in DOMAIN stream, on_rtp(n)
    PROVE  Sound(frames, stream, track, received, out, came)'
<1> DEFINE rec == received \cup {n}
           sn == Seqn(n)
<1>1. /\ n \notin received /\ out' = out /\ came' = n /\ received' = rec
      /\ track' = IF stream[n].key THEN KeyPath(track, n) ELSE DeltaPath(track, n)
      /\ frames' = frames /\ stream' = stream
  BY DEF on_rtp
<1>2. sn \in SeqNo /\ n # NoPacket /\ n \in rec
  <2>1. Shaped(frames, stream)
    BY DEF Sound
  <2>2. n \in 1 .. SeqCount
    BY <2>1, StreamIs
  <2> QED BY <2>2, SeqnIs, Numbers
<1>3. Sound(frames, stream, track, rec, out, n)
  BY SoundMore
<1>4. \A j \in DOMAIN out : n \notin ToSet(out[j])
  BY <1>1, <1>2 DEF Sound, OutTyped, ToSet
<1> HIDE DEF sn, rec
<1>5. ASSUME NEW t, Sound(frames, stream, t, rec, out, n)
      PROVE  /\ Sound(frames, stream, Put(t, n), rec, out, n)
             /\ Sound(frames, stream, Advance(t, sn), rec, out, n)
             /\ Sound(frames, stream, [t EXCEPT !.header_sn = sn], rec, out, n)
  BY <1>2, <1>4, <1>5, SoundPut, SoundAdvance, SoundHeader
<1>6. CASE ~stream[n].key
  <2> DEFINE u == Put(track, n)
  <2>1. track' = IF u.lost_sn = sn THEN Advance(u, sn) ELSE u
    BY <1>1, <1>6 DEF DeltaPath, sn
  <2>2. Sound(frames, stream, u, rec, out, n) /\ Sound(frames, stream, Advance(u, sn), rec, out, n)
    BY <1>3, <1>5
  <2> HIDE DEF u
  <2>3. track' = Advance(u, sn) \/ track' = u
    BY <2>1
  <2>4. Sound(frames, stream, track', rec, out, n)
    BY <2>2, <2>3
  <2> QED BY <2>4, <1>1
<1>7. CASE stream[n].key
  <2> DEFINE t0 == IF track.key_frame_ts # stream[n].ts THEN StartKey(track, n) ELSE track
             u == Put(t0, n)
             v == [u EXCEPT !.header_sn = sn]
  <2>1. track' = IF Before(sn, u.header_sn) THEN Advance(v, sn)
                 ELSE IF u.lost_sn = sn THEN Advance(u, sn) ELSE u
    BY <1>1, <1>7 DEF KeyPath, sn
  <2>2. Sound(frames, stream, t0, rec, out, n)
    BY <1>2, <1>3, <1>7, SoundStart
  <2> HIDE DEF t0
  <2>3. Sound(frames, stream, u, rec, out, n)
    BY <1>5, <2>2
  <2> HIDE DEF u
  <2>4. Sound(frames, stream, v, rec, out, n) /\ Sound(frames, stream, Advance(u, sn), rec, out, n)
    BY <1>5, <2>3
  <2> HIDE DEF v
  <2>5. Sound(frames, stream, Advance(v, sn), rec, out, n)
    BY <1>5, <2>4
  <2>6. track' = Advance(v, sn) \/ track' = Advance(u, sn) \/ track' = u
    BY <2>1
  <2>7. Sound(frames, stream, track', rec, out, n)
    BY <2>3, <2>4, <2>5, <2>6
  <2> QED BY <2>7, <1>1
<1> QED BY <1>6, <1>7
-----------------------------------------------------------------------------
(* The stream grows by whole frames.                                       *)

\* The packets of a frame, alone.
LEMMA FrameIs ==
    ASSUME NEW f \in Frame, NEW ts \in 1 .. MaxFrames
    PROVE  LET p == PacketsOf(f, ts)
           IN  /\ p \in Seq(Packet) /\ Len(p) \in Nat /\ Len(p) <= Room
               /\ f.key => 1 <= Len(p)
               /\ \A i \in 1 .. Len(p) :
                     /\ p[i].ts = ts /\ p[i].key = f.key
                     /\ p[i].nalu = "fua" => p[i].end \/ i + 1 \in 1 .. Len(p)
                     /\ p[i].nalu = "fua" => p[i].start \/ (i - 1 \in 1 .. Len(p) /\ p[i - 1].nalu = "fua")
                     /\ p[i].key /\ p[i].marker => i - 1 \in 1 .. Len(p)
               /\ \A i, j \in 1 .. Len(p) : i < j =>
                     /\ ~p[i].marker /\ ~p[i].end /\ p[j].nalu # "stap"
                     /\ p[i].nalu = "stap" \/ (p[j].nalu = "fua" /\ ~p[j].start)
<1> DEFINE c == FragmentCount(f.nb)
           a == IF f.key THEN <<Plain(f, "stap", ts)>> ELSE << >>
           b == IF f.nb <= MaxPayload THEN <<Plain(f, "single", ts)>> ELSE Fragments(f, ts)
           p == PacketsOf(f, ts)
<1>1. f.key \in BOOLEAN /\ f.nb \in Nat /\ f.nb > 0 /\ f.idrLike \in BOOLEAN /\ ts \in Nat
  <2>1. f \in [key : BOOLEAN, nb : Sizes, idrLike : BOOLEAN]
    BY DEF Frame
  <2>2. f.key \in BOOLEAN /\ f.nb \in Sizes /\ f.idrLike \in BOOLEAN
    BY <2>1
  <2> DEFINE nb == f.nb
  <2>3. nb \in Sizes
    BY <2>2
  <2> HIDE DEF nb
  <2>4. nb \in Nat \ {0}
    BY <2>3, H264Assumption
  <2>5. nb \in Nat /\ nb > 0 /\ ts \in Nat
    BY <2>4
  <2> USE DEF nb
  <2> QED BY <2>2, <2>5
<1>2. c \in Nat
  <2>1. f.nb - 1 \in Nat /\ MaxPayload \in Nat /\ MaxPayload > 0
    BY <1>1, H264Assumption
  <2>2. (f.nb - 1) \div MaxPayload \in Nat
    BY <2>1
  <2> QED BY <2>2 DEF FragmentCount
<1>3. Plain(f, "stap", ts) \in Packet /\ Plain(f, "single", ts) \in Packet
  BY <1>1 DEF Plain, Packet
<1>4. Fragments(f, ts) \in Seq(Packet) /\ Len(Fragments(f, ts)) = c
  <2> DEFINE g(i) == [nalu |-> "fua", key |-> f.key, ts |-> ts, marker |-> i = c,
                      start |-> i = 1, end |-> i = c, idrLike |-> f.idrLike]
  <2>1. Fragments(f, ts) = [i \in 1 .. c |-> g(i)]
    BY DEF Fragments
  <2>2. \A i \in 1 .. c : g(i) \in Packet
    BY <1>1 DEF Packet
  <2> HIDE DEF c, g
  <2> QED BY <1>2, <2>1, <2>2
<1>5. \A i \in 1 .. c :
        LET g == Fragments(f, ts)[i]
        IN  /\ g.nalu = "fua" /\ g.key = f.key /\ g.ts = ts
            /\ (g.marker <=> i = c) /\ (g.start <=> i = 1) /\ (g.end <=> i = c)
  BY DEF Fragments
<1>6. p = a \o b
  BY DEF PacketsOf
<1>7. a \in Seq(Packet) /\ Len(a) \in {0, 1} /\ (f.key <=> Len(a) = 1)
      /\ (Len(a) = 1 => a[1] = Plain(f, "stap", ts))
  BY <1>1, <1>3
<1>8. b \in Seq(Packet) /\ Len(b) \in Nat
      /\ \/ Len(b) = 1 /\ b[1] = Plain(f, "single", ts)
         \/ Len(b) = c /\ b = Fragments(f, ts)
  BY <1>2, <1>3, <1>4
<1>9. p \in Seq(Packet) /\ Len(p) = Len(a) + Len(b) /\ Len(p) \in Nat
      /\ \A i \in 1 .. Len(p) : p[i] = IF i <= Len(a) THEN a[i] ELSE b[i - Len(a)]
  <2> HIDE DEF a, b
  <2>1. a \in Seq(Packet) /\ b \in Seq(Packet)
    BY <1>7, <1>8
  <2> QED BY <1>6, <2>1
<1>10. Len(p) <= Room
  <2>1. Len(p) + MaxDelay < CacheLen
    BY FitsAssumption
  <2>2. Len(p) \in Nat
    <3> HIDE DEF p
    <3> QED BY <1>9
  <2> QED BY <2>1, <2>2, Numbers DEF Room
<1>11. ASSUME NEW i \in 1 .. Len(p)
       PROVE  /\ p[i].ts = ts /\ p[i].key = f.key
              /\ \/ i = 1 /\ Len(a) = 1 /\ p[i].nalu = "stap" /\ ~p[i].marker /\ ~p[i].end
                 \/ i = Len(a) + 1 /\ Len(b) = 1 /\ p[i].nalu = "single"
                 \/ /\ Len(a) < i /\ Len(b) = c /\ p[i].nalu = "fua"
                    /\ p[i].start <=> i = Len(a) + 1
                    /\ p[i].marker <=> i = Len(p)
                    /\ p[i].end <=> i = Len(p)
  <2>1. CASE i <= Len(a)
    <3>1. p[i] = Plain(f, "stap", ts) /\ i = 1 /\ Len(a) = 1
      <4> HIDE DEF a, b, p
      <4>1. i \in Nat /\ 1 <= i
        BY <1>9
      <4>2. Len(a) = 0 \/ Len(a) = 1
        BY <1>7
      <4>3. i = 1 /\ Len(a) = 1
        BY ONLY <4>1, <4>2, <2>1
      <4>4. p[i] = a[i]
        BY <2>1, <1>9
      <4> QED BY <4>3, <4>4, <1>7
    <3> HIDE DEF a, b, p
    <3>2. p[i].ts = ts /\ p[i].key = f.key /\ p[i].nalu = "stap" /\ ~p[i].end
      BY <3>1 DEF Plain
    <3>3. p[i].marker = ("stap" = "single")
      BY <3>1 DEF Plain
    <3>4. ~p[i].marker
      BY <3>3
    <3> QED BY <3>1, <3>2, <3>4
  <2>2. CASE Len(a) < i
    <3>1. p[i] = b[i - Len(a)] /\ i - Len(a) \in 1 .. Len(b)
      <4> HIDE DEF a, b, p
      <4> QED BY <2>2, <1>7, <1>8, <1>9
    <3>2. CASE Len(b) = 1 /\ b[1] = Plain(f, "single", ts)
      <4>1. p[i] = Plain(f, "single", ts) /\ i = Len(a) + 1
        <5> HIDE DEF a, b, p
        <5> QED BY <3>1, <3>2, <1>7
      <4> QED BY <4>1, <3>2 DEF Plain
    <3>3. CASE Len(b) = c /\ b = Fragments(f, ts)
      <4> DEFINE j == i - Len(a)
      <4>1. j \in 1 .. c /\ p[i] = Fragments(f, ts)[j]
        BY <3>1, <3>3
      <4>2. (j = c <=> i = Len(p)) /\ (j = 1 <=> i = Len(a) + 1)
        <5> HIDE DEF a, b, p, c
        <5> QED BY <3>3, <1>7, <1>8, <1>9
      <4> HIDE DEF a, b, p, c, j
      <4> QED BY <4>1, <4>2, <2>2, <3>3, <1>5
    <3> QED BY <3>2, <3>3, <1>8
  <2>3. i \in Nat /\ Len(a) \in Nat
    BY <1>7, <1>9
  <2> QED BY <2>1, <2>2, <2>3
<1>12. Len(p) \in Nat /\ Len(p) = Len(a) + Len(b) /\ (Len(a) = 0 \/ Len(a) = 1) /\ Len(b) \in Nat
  BY <1>7, <1>8, <1>9
<1>15. f.key <=> Len(a) = 1
  BY <1>7
<1> HIDE DEF a, b, c, p
<1>13. ASSUME NEW i \in 1 .. Len(p)
       PROVE  /\ p[i].nalu = "fua" => p[i].end \/ i + 1 \in 1 .. Len(p)
              /\ p[i].nalu = "fua" => p[i].start \/ (i - 1 \in 1 .. Len(p) /\ p[i - 1].nalu = "fua")
              /\ p[i].key /\ p[i].marker => i - 1 \in 1 .. Len(p)
  <2>1. p[i].nalu = "fua" => p[i].end \/ i + 1 \in 1 .. Len(p)
    <3>1. i = Len(p) \/ i + 1 \in 1 .. Len(p)
      BY <1>12
    <3> QED BY <3>1, <1>11
  <2>2. ASSUME p[i].nalu = "fua", ~p[i].start PROVE i - 1 \in 1 .. Len(p) /\ p[i - 1].nalu = "fua"
    <3>1. i - 1 \in 1 .. Len(p) /\ Len(a) < i - 1 /\ Len(b) # 1
      <4>1. Len(a) < i /\ Len(b) = c /\ i # Len(a) + 1
        BY <2>2, <1>11
      <4> QED BY <4>1, <1>12
    <3> QED BY <3>1, <1>11, <1>12
  <2>3. p[i].key /\ p[i].marker => i - 1 \in 1 .. Len(p)
    <3>1. SUFFICES ASSUME p[i].key, p[i].marker PROVE i - 1 \in 1 .. Len(p)
      OBVIOUS
    <3>2. Len(a) = 1 /\ Len(a) < i
      BY <3>1, <1>11, <1>15
    <3> QED BY <3>2, <1>12
  <2> QED BY <2>1, <2>2, <2>3
<1>14. ASSUME NEW i \in 1 .. Len(p), NEW j \in 1 .. Len(p), i < j
       PROVE  /\ ~p[i].marker /\ ~p[i].end /\ p[j].nalu # "stap"
              /\ p[i].nalu = "stap" \/ (p[j].nalu = "fua" /\ ~p[j].start)
  <2>1. i \in Nat /\ j \in Nat /\ 1 <= i /\ j <= Len(p)
    BY <1>12
  <2>2. i # Len(p) /\ j # 1 /\ (Len(a) < i => Len(a) + 1 < j)
    BY <2>1, <1>12, <1>14
  <2>3. ~p[i].marker /\ ~p[i].end /\ (p[i].nalu = "stap" \/ Len(a) < i)
    <3>1. ~(i = Len(a) + 1 /\ Len(b) = 1)
      <4>1. i # Len(p) /\ Len(p) = Len(a) + Len(b)
        BY <2>2, <1>12
      <4> QED BY ONLY <4>1
    <3> QED BY <3>1, <2>2, <1>11
  <2>4. p[j].nalu # "stap" /\ (Len(a) < i => p[j].nalu = "fua" /\ ~p[j].start)
    <3>1. Len(a) < i => j # Len(a) + 1
      BY <2>1, <2>2, <1>12
    <3> QED BY <3>1, <2>2, <1>11
  <2> QED BY <2>3, <2>4
<1>16. f.key => 1 <= Len(p)
  <2>1. Len(a) = 1 => 1 <= Len(p)
    BY <1>12
  <2> QED BY <2>1, <1>15
<1> QED BY <1>9, <1>10, <1>11, <1>13, <1>14, <1>16 DEF p

\* s2 has the packets of s, and after them those of another frame.
Grown(s, s2) ==
    /\ DOMAIN s \subseteq DOMAIN s2 /\ \A n \in DOMAIN s : s2[n] = s[n]
    /\ \A n \in DOMAIN s2, m \in DOMAIN s : n \notin DOMAIN s => m < n /\ s2[n].ts # s[m].ts

LEMMA GrownIs ==
    ASSUME NEW k, Shaped(k, stream), k < MaxFrames, NEW f \in Frame, k = 0 => f.key,
           Len(stream) + Len(PacketsOf(f, k + 1)) <= MaxPackets
    PROVE  LET s2 == stream \o PacketsOf(f, k + 1)
           IN  Shaped(k + 1, s2) /\ Grown(stream, s2)
<1> DEFINE p == PacketsOf(f, k + 1)
           l == Len(stream)
           s2 == stream \o p
<1>1. k \in Nat /\ k + 1 \in 1 .. MaxFrames /\ k + 1 \in Nat
  BY H264Assumption DEF Shaped
<1>2. /\ p \in Seq(Packet) /\ Len(p) \in Nat /\ Len(p) <= Room /\ (f.key => 1 <= Len(p))
      /\ \A i \in 1 .. Len(p) :
            /\ p[i].ts = k + 1 /\ p[i].key = f.key
            /\ p[i].nalu = "fua" => p[i].end \/ i + 1 \in 1 .. Len(p)
            /\ p[i].nalu = "fua" => p[i].start \/ (i - 1 \in 1 .. Len(p) /\ p[i - 1].nalu = "fua")
            /\ p[i].key /\ p[i].marker => i - 1 \in 1 .. Len(p)
      /\ \A i, j \in 1 .. Len(p) : i < j =>
            /\ ~p[i].marker /\ ~p[i].end /\ p[j].nalu # "stap"
            /\ p[i].nalu = "stap" \/ (p[j].nalu = "fua" /\ ~p[j].start)
  BY <1>1, FrameIs
<1>3. /\ DOMAIN stream = 1 .. l /\ l \in Nat /\ stream \in Seq(Packet)
      /\ \A n \in 1 .. l : stream[n].ts \in Nat /\ stream[n].ts <= k
      /\ k > 0 => l > 0
      /\ OrderedIn(stream) /\ FramedIn(stream)
  BY StreamIs DEF Shaped
<1> HIDE DEF p
<1>4. /\ s2 \in Seq(Packet) /\ Len(s2) = l + Len(p) /\ DOMAIN s2 = 1 .. l + Len(p)
      /\ \A n \in 1 .. l : s2[n] = stream[n]
      /\ \A n \in 1 .. l + Len(p) : l < n => s2[n] = p[n - l]
  BY <1>2, <1>3
<1> HIDE DEF s2, l
<1>5. ASSUME NEW n \in 1 .. l + Len(p)
      PROVE  \/ n \in 1 .. l /\ s2[n] = stream[n] /\ s2[n].ts <= k
             \/ l < n /\ n - l \in 1 .. Len(p) /\ s2[n] = p[n - l] /\ s2[n].ts = k + 1
  <2>1. n \in 1 .. l \/ (l < n /\ n - l \in 1 .. Len(p))
    BY <1>2, <1>3
  <2>2. CASE n \in 1 .. l
    BY <2>2, <1>3, <1>4
  <2>3. CASE l < n /\ n - l \in 1 .. Len(p)
    <3>1. s2[n] = p[n - l]
      BY <2>3, <1>4
    <3>2. p[n - l].ts = k + 1
      BY <2>3, <1>2
    <3> QED BY <2>3, <3>1, <3>2
  <2> QED BY <2>1, <2>2, <2>3
<1>6. Grown(stream, s2)
  <2>1. DOMAIN stream \subseteq DOMAIN s2 /\ \A n \in DOMAIN stream : s2[n] = stream[n]
    BY <1>2, <1>3, <1>4
  <2>2. ASSUME NEW n \in DOMAIN s2, NEW m \in DOMAIN stream, n \notin DOMAIN stream
        PROVE  m < n /\ s2[n].ts # stream[m].ts
    <3>1. l < n /\ s2[n].ts = k + 1 /\ m \in 1 .. l
      BY <2>2, <1>3, <1>4, <1>5
    <3>2. n \in Nat
      BY <1>2, <1>3, <1>4
    <3> QED BY <3>1, <3>2, <1>1, <1>3
  <2> QED BY <2>1, <2>2 DEF Grown
<1>7. \A n \in DOMAIN s2 : 1 <= s2[n].ts /\ s2[n].ts <= k + 1
  <2>1. \A n \in DOMAIN stream : 1 <= stream[n].ts /\ stream[n].ts <= k /\ stream[n].ts \in Nat
    BY <1>3 DEF Shaped
  <2> QED BY <2>1, <1>1, <1>3, <1>4, <1>5
<1>8. OrderedIn(s2)
  <2>1. ASSUME NEW m \in DOMAIN s2, NEW n \in DOMAIN s2, m < n
        PROVE  /\ s2[m].ts <= s2[n].ts
               /\ Same(s2, m, n) =>
                     /\ s2[m].key = s2[n].key /\ n - m < Room
                     /\ ~s2[m].marker /\ ~s2[m].end /\ s2[n].nalu # "stap"
                     /\ s2[m].nalu = "stap" \/ (s2[n].nalu = "fua" /\ ~s2[n].start)
    <3>1. m \in Nat /\ n \in Nat
      BY <1>2, <1>3, <1>4
    <3>2. CASE m \in 1 .. l /\ n \in 1 .. l
      BY <3>2, <2>1, <1>3, <1>4 DEF OrderedIn, Same
    <3>3. CASE m \in 1 .. l /\ l < n
      <4>1. s2[m].ts <= k /\ s2[n].ts = k + 1 /\ s2[m].ts \in Nat
        BY <3>1, <3>3, <1>3, <1>4, <1>5
      <4> QED BY <4>1, <1>1 DEF Same
    <3>4. CASE l < m /\ l < n
      <4>1. /\ m - l \in 1 .. Len(p) /\ s2[m] = p[m - l] /\ s2[m].ts = k + 1
            /\ n - l \in 1 .. Len(p) /\ s2[n] = p[n - l] /\ s2[n].ts = k + 1
        BY <3>1, <3>4, <1>3, <1>4, <1>5
      <4>2. m - l < n - l /\ n - m < Room /\ k + 1 <= k + 1
        BY <4>1, <3>1, <2>1, <1>1, <1>2, <1>3, RoomIs
      <4> DEFINE i == m - l
                 j == n - l
      <4>3. /\ p[i].key = f.key /\ p[j].key = f.key
            /\ ~p[i].marker /\ ~p[i].end /\ p[j].nalu # "stap"
            /\ p[i].nalu = "stap" \/ (p[j].nalu = "fua" /\ ~p[j].start)
        <5>1. i \in 1 .. Len(p) /\ j \in 1 .. Len(p) /\ i < j
          BY <4>1, <4>2
        <5> HIDE DEF i, j
        <5> QED BY <5>1, <1>2
      <4>4. s2[m].ts <= s2[n].ts
        BY <4>1, <4>2
      <4>5. s2[m] = p[i] /\ s2[n] = p[j]
        BY <4>1
      <4> HIDE DEF i, j
      <4>6. /\ s2[m].key = s2[n].key
            /\ ~s2[m].marker /\ ~s2[m].end /\ s2[n].nalu # "stap"
            /\ s2[m].nalu = "stap" \/ (s2[n].nalu = "fua" /\ ~s2[n].start)
        BY <4>3, <4>5
      <4> QED BY <4>2, <4>4, <4>6
    <3>5. (m \in 1 .. l /\ n \in 1 .. l) \/ (m \in 1 .. l /\ l < n) \/ (l < m /\ l < n)
      <4>1. l \in Nat /\ 1 <= m /\ 1 <= n
        BY <1>2, <1>3, <1>4
      <4>2. l \in Nat /\ 1 <= m /\ 1 <= n /\ m < n /\ m \in Nat /\ n \in Nat
        BY <4>1, <3>1, <2>1
      <4> QED BY ONLY <4>2
    <3> QED BY <3>2, <3>3, <3>4, <3>5
  <2> QED BY <2>1 DEF OrderedIn
<1>9. FramedIn(s2)
  <2>1. ASSUME NEW n \in DOMAIN s2, n \in 1 .. l
        PROVE  /\ n = 1 => s2[n].key
               /\ s2[n].nalu = "fua" =>
                     /\ s2[n].end \/ (n + 1 \in DOMAIN s2 /\ Same(s2, n + 1, n))
                     /\ s2[n].start \/ (n - 1 \in DOMAIN s2 /\ Same(s2, n - 1, n) /\ s2[n - 1].nalu = "fua")
               /\ s2[n].key /\ s2[n].marker => n - 1 \in DOMAIN s2 /\ Same(s2, n - 1, n)
    <3>1. s2[n] = stream[n] /\ \A x \in 1 .. l : s2[x] = stream[x] /\ x \in DOMAIN s2
      BY <2>1, <1>2, <1>3, <1>4
    <3> QED BY <3>1, <2>1, <1>3 DEF FramedIn, Same
  <2>2. ASSUME NEW n \in DOMAIN s2, l < n
        PROVE  /\ n = 1 => s2[n].key
               /\ s2[n].nalu = "fua" =>
                     /\ s2[n].end \/ (n + 1 \in DOMAIN s2 /\ Same(s2, n + 1, n))
                     /\ s2[n].start \/ (n - 1 \in DOMAIN s2 /\ Same(s2, n - 1, n) /\ s2[n - 1].nalu = "fua")
               /\ s2[n].key /\ s2[n].marker => n - 1 \in DOMAIN s2 /\ Same(s2, n - 1, n)
    <3> DEFINE i == n - l
    <3>1. n \in Nat /\ i \in 1 .. Len(p) /\ s2[n] = p[i] /\ s2[n].ts = k + 1
      BY <2>2, <1>2, <1>3, <1>4, <1>5
    <3>2. n = 1 => s2[n].key
      <4>1. n = 1 => k = 0
        BY <2>2, <3>1, <1>1, <1>3
      <4> QED BY <4>1, <3>1, <1>2
    <3>3. ASSUME NEW x \in {n - 1, n + 1}, x - l \in 1 .. Len(p)
          PROVE  x \in DOMAIN s2 /\ s2[x] = p[x - l] /\ s2[x].ts = k + 1
      <4>1. x \in 1 .. l + Len(p) /\ l < x
        BY <3>1, <3>3, <1>2, <1>3
      <4> QED BY <4>1, <1>2, <1>4, <3>3
    <3>4. (n + 1) - l = i + 1 /\ (n - 1) - l = i - 1
      BY <3>1, <1>3
    <3>5. /\ i + 1 \in 1 .. Len(p) => n + 1 \in DOMAIN s2 /\ Same(s2, n + 1, n)
          /\ i - 1 \in 1 .. Len(p) => n - 1 \in DOMAIN s2 /\ Same(s2, n - 1, n) /\ s2[n - 1] = p[i - 1]
      BY <3>1, <3>3, <3>4 DEF Same
    <3> HIDE DEF i
    <3> QED BY <3>1, <3>2, <3>5, <1>2
  <2>3. \A n \in DOMAIN s2 : n \in 1 .. l \/ l < n
    BY <1>2, <1>3, <1>4
  <2> QED BY <2>1, <2>2, <2>3 DEF FramedIn
<1>10. Len(s2) <= MaxPackets /\ Len(s2) > 0
  <2>1. l + Len(p) <= MaxPackets
    BY DEF l, p
  <2>2. l + Len(p) > 0
    <3>1. k > 0 \/ 1 <= Len(p)
      BY <1>1, <1>2
    <3> QED BY <3>1, <1>2, <1>3
  <2> QED BY <2>1, <2>2, <1>4
<1> QED BY <1>1, <1>4, <1>6, <1>7, <1>8, <1>9, <1>10 DEF Shaped, s2, p

LEMMA PushSound ==
    ASSUME Sound(frames, stream, track, received, out, came), NEW f \in Frame, Push(f)
    PROVE  Sound(frames, stream, track, received, out, came)' /\ Grown(stream, stream')
<1>1. /\ frames < MaxFrames /\ (frames = 0 => f.key)
      /\ Len(stream) + Len(PacketsOf(f, frames + 1)) <= MaxPackets
      /\ frames' = frames + 1 /\ stream' = stream \o PacketsOf(f, frames + 1)
      /\ track' = track /\ out' = out /\ came' = came /\ received' = received
  BY DEF Push, netVars
<1>2. Shaped(frames, stream) /\ frames \in 0 .. MaxFrames
  BY DEF Sound
<1>3. Shaped(frames + 1, stream') /\ Grown(stream, stream')
  BY <1>1, <1>2, GrownIs
<1>4. frames + 1 \in 0 .. MaxFrames
  BY <1>1, <1>2, H264Assumption
<1>5. received \subseteq DOMAIN stream
  BY DEF Sound
<1>6. FieldsOf(stream', track)
  BY <1>3 DEF Sound, FieldsOf, Grown
<1>7. track.key_frame_ts = NoKey \/ \E n \in received : stream'[n].ts = track.key_frame_ts /\ stream'[n].key
  BY <1>3, <1>5 DEF Sound, Grown
<1>8. Sound(frames + 1, stream', track, received, out, came)
  BY <1>3, <1>4, <1>5, <1>6, <1>7 DEF Sound, Grown
<1> QED BY <1>1, <1>3, <1>8
-----------------------------------------------------------------------------
(* What holds of the cache as long as no entry is met again: where the     *)
(* frame starts, what the cache waits for, what goes out next.             *)

Hd(t) == Num(t.header_sn)
Ls(t) == Num(t.lost_sn)
Tl(t) == Num(t.tail)

\* Packet n can still come.
CanCome(rec, n) == n \notin rec /\ \A m \in rec : m < n + MaxDelay
Unmet(str, rec) == ~str \/ \A n \in rec : n < CacheLen
InOut(o, n) == \E j \in DOMAIN o : n \in ToSet(o[j])

\* Nothing in use is older than the frame that is waited for, and since some
\* key frame nothing was lost before it.
Window(s, t, rec, str) ==
    ~str => /\ \A i \in Slot : t.cache[i].in_use => Hd(t) <= t.cache[i].pkt
            /\ rec # {} => \E m \in rec : s[m].key /\ m <= Hd(t) /\ \A x \in m .. Hd(t) - 1 : x \in rec

\* The key frame is the one that is waited for, or has gone out.
KeyInv(s, t, rec, o) ==
    t.key_frame_ts # NoKey =>
        /\ \E r \in rec : Hd(t) <= r + 1
        /\ \/ Hd(t) \in DOMAIN s /\ s[Hd(t)].ts = t.key_frame_ts
           \/ \A m \in DOMAIN s : s[m].ts = t.key_frame_ts =>
                 m < Hd(t) /\ (s[m].nalu # "stap" => InOut(o, m))

\* While the packet lost_sn can come, all of the frame before it is there.
Waits(s, t, rec) ==
    t.tail = NoTail /\ CanCome(rec, Ls(t)) => Hd(t) <= Ls(t) /\ RunOf(s, t, Hd(t), Ls(t))

\* The frame that goes out next is there and whole.
TailInv(s, t, rec, o, c, str) ==
    t.tail # NoTail =>
        /\ Tl(t) \in DOMAIN s /\ Hd(t) <= Tl(t) /\ RunOf(s, t, Hd(t), Tl(t) + 1)
        /\ LastIn(s, Tl(t)) /\ WholeFrom(s, Hd(t))
        /\ ~str => \A m \in rec : m + 1 < Hd(t) + CacheLen
        /\ CanCome(rec, Ls(t)) => Ls(t) = Tl(t) + 1
        /\ IF c # NoPacket THEN Hd(t) <= c /\ c <= Tl(t) + 1
           ELSE o # << >> /\ Last(Last(o)) + 1 = Hd(t)

\* A frame that went out is a run of packets, all there are of it from its
\* first fragment on, and no packet is in two.
IsRun(p, a, e) == a <= e /\ p = [i \in 1 .. e - a + 1 |-> a + i - 1]
FrameOut(s, rec, p) ==
    \E a, e \in Nat :
        /\ IsRun(p, a, e) /\ LastIn(s, e) /\ WholeFrom(s, a)
        /\ \A x \in a .. e : x \in rec /\ Same(s, x, a)
OutInv(s, rec, o) ==
    /\ \A j \in DOMAIN o : FrameOut(s, rec, o[j])
    /\ \A j, l \in DOMAIN o : j # l => \A x \in ToSet(o[j]) : x \notin ToSet(o[l])
Core(s, t, rec, o, c, str) ==
    /\ Window(s, t, rec, str) /\ KeyInv(s, t, rec, o)
    /\ Waits(s, t, rec) /\ TailInv(s, t, rec, o, c, str) /\ OutInv(s, rec, o)

\* The four things that a packet may do: start a key frame, move the header of
\* the key frame back, be the one that was waited for, or be kept for later.
StepStart(t, n, u) ==
    stream[n].key /\ t.key_frame_ts # stream[n].ts /\ u = Put(StartKey(t, n), n)
StepBack(t, n, u) ==
    /\ stream[n].key /\ t.key_frame_ts = stream[n].ts /\ n < Hd(t)
    /\ Outcome(stream, [Put(t, n) EXCEPT !.header_sn = Seqn(n)], u, n, n)
StepHit(t, n, u) ==
    /\ stream[n].key => t.key_frame_ts = stream[n].ts
    /\ Ls(t) = n /\ Hd(t) <= n /\ n - Hd(t) <= Room /\ RunOf(stream, Put(t, n), Hd(t), n)
    /\ Outcome(stream, Put(t, n), u, Hd(t), n)
StepStore(t, n, u, str) ==
    /\ stream[n].key => t.key_frame_ts = stream[n].ts
    /\ Ls(t) # n /\ u = Put(t, n) /\ (~str => Hd(t) <= n)

LEMMA NumbersOf ==
    ASSUME NEW t \in TrackRecord
    PROVE  /\ Hd(t) \in 1 .. SeqCount /\ t.header_sn = Seqn(Hd(t)) /\ t.header_sn \in SeqNo
           /\ Ls(t) \in 1 .. SeqCount /\ t.lost_sn = Seqn(Ls(t)) /\ t.lost_sn \in SeqNo
           /\ t.tail # NoTail => Tl(t) \in 1 .. SeqCount /\ t.tail = Seqn(Tl(t)) /\ t.tail \in SeqNo
<1>1. t.header_sn \in SeqNo /\ t.lost_sn \in SeqNo /\ t.tail \in SeqNo \cup {NoTail}
  BY ZenonT(30) DEF TrackRecord
<1>2. t.tail # NoTail => t.tail \in SeqNo
  BY <1>1
<1> QED BY <1>1, <1>2, NumIs DEF Hd, Ls, Tl

\* How far it is from where a walk starts to where it ends for sure.
LEMMA HorizonIs ==
    ASSUME NEW n \in Nat, 1 <= n, n < SeqCount, NEW rec, \A m \in rec : m \in Nat /\ m < n + MaxDelay /\ m < SeqCount,
           NEW str, Unmet(str, rec \cup {n})
    PROVE  \E b \in Nat : /\ n < b /\ b <= SeqCount /\ b - n < CacheLen /\ \A m \in rec \cup {n} : m < b
                          /\ b <= CacheLen \/ (~str /\ b <= n + MaxDelay)
<1>1. CASE \A m \in rec \cup {n} : m < CacheLen
  <2>1. n < CacheLen
    BY <1>1
  <2>2. CacheLen \in Nat /\ CacheLen <= SeqCount /\ CacheLen - n < CacheLen
    BY Numbers
  <2> QED BY <2>1, <2>2, <1>1
<1>2. CASE ~str
  <2> DEFINE b == IF n + MaxDelay <= SeqCount THEN n + MaxDelay ELSE SeqCount
  <2>1. b \in Nat /\ n < b /\ b <= SeqCount /\ b - n <= MaxDelay /\ b <= n + MaxDelay
    BY Numbers
  <2>2. b - n < CacheLen
    BY <2>1, RoomIs, Numbers
  <2>3. \A m \in rec \cup {n} : m < b
    BY <2>1, Numbers
  <2> HIDE DEF b
  <2> QED BY <1>2, <2>1, <2>2, <2>3
<1> QED BY <1>1, <1>2 DEF Unmet

\* What a packet does is one of the four.
LEMMA OnRtpIs ==
    ASSUME Sound(frames, stream, track, received, out, came),
           Core(stream, track, received, out, came, stray), track.tail = NoTail,
           NEW n \in DOMAIN stream, CanCome(received, n), Unmet(stray \/ Astray(n), received \cup {n}),
           NEW w, w = IF stream[n].key THEN KeyPath(track, n) ELSE DeltaPath(track, n)
    PROVE  \/ StepStart(track, n, w) \/ StepBack(track, n, w) \/ StepHit(track, n, w)
           \/ StepStore(track, n, w, stray \/ Astray(n))
<1> DEFINE h == Hd(track)
           u == Put(track, n)
           v == [u EXCEPT !.header_sn = Seqn(n)]
           rec == received \cup {n}
<1>1. /\ Shaped(frames, stream) /\ track \in TrackRecord /\ FieldsOf(stream, track) /\ SlotsOf(track, received, out)
      /\ received \subseteq DOMAIN stream /\ n \notin received
  BY DEF Sound, CanCome
<1>2. /\ h \in 1 .. SeqCount /\ track.header_sn = Seqn(h) /\ h \in Nat
      /\ Ls(track) \in 1 .. SeqCount /\ track.lost_sn = Seqn(Ls(track))
  BY <1>1, NumbersOf, Numbers
<1>3. n \in Nat /\ n \in 1 .. SeqCount /\ n < SeqCount /\ 1 <= n /\ Seqn(n) \in SeqNo
  BY <1>1, StreamIs, SeqnIs
<1>4. /\ \A m \in received : m \in Nat /\ m < SeqCount /\ 1 <= m /\ m < n + MaxDelay
      /\ \A m \in rec : m \in Nat /\ m < SeqCount
  BY <1>1, <1>3, StreamIs DEF CanCome
<1>5. /\ u \in TrackRecord /\ u.header_sn = Seqn(h) /\ u.lost_sn = track.lost_sn /\ Has(u, n)
      /\ \A i \in Slot : i # Spot(n) => u.cache[i] = track.cache[i]
      /\ FieldsOf(stream, u) /\ u.key_frame_ts = track.key_frame_ts
  BY <1>1, <1>2, PutIs
<1>6. Sound(frames, stream, u, rec, out, n) /\ Sound(frames, stream, v, rec, out, n)
  <2>1. Sound(frames, stream, track, rec, out, n)
    BY SoundMore
  <2>2. \A j \in DOMAIN out : n \notin ToSet(out[j])
    BY <1>1, <1>3 DEF Sound, OutTyped, ToSet, NoPacket
  <2>3. n \in rec
    OBVIOUS
  <2> HIDE DEF u, rec
  <2>4. Sound(frames, stream, u, rec, out, n)
    BY <2>1, <2>2, <2>3, SoundPut DEF u
  <2>5. Sound(frames, stream, v, rec, out, n)
    BY <2>4, <1>3, SoundHeader
  <2> QED BY <2>4, <2>5
<1>7. u.lost_sn = Seqn(n) <=> Ls(track) = n
  BY <1>2, <1>3, <1>5, SeqnIs
<1>8. ASSUME stream[n].key, track.key_frame_ts = stream[n].ts
      PROVE  (Before(Seqn(n), Seqn(h)) <=> n < h)
  <2>1. stream[n].ts \in Nat /\ stream[n].ts # NoKey
    BY <1>1, StreamIs, Numbers
  <2>2. /\ \E r \in received : h <= r + 1
        /\ \/ h \in DOMAIN stream /\ stream[h].ts = stream[n].ts
           \/ \A m \in DOMAIN stream : stream[m].ts = stream[n].ts => m < h
    BY <2>1, <1>8 DEF Core, KeyInv
  <2>3. h - n < Half
    <3>1. PICK r \in received : h <= r + 1
      BY <2>2
    <3>2. h - n <= MaxDelay
      BY <3>1, <1>2, <1>3, <1>4, Numbers
    <3> QED BY <3>2, <1>2, <1>3, RoomIs, Numbers
  <2>4. n - h < Half
    <3>1. CASE h \in DOMAIN stream /\ stream[h].ts = stream[n].ts /\ h < n
      <4>1. n - h < Room
        BY <3>1, <1>1 DEF Shaped, OrderedIn, Same
      <4> QED BY <4>1, <1>2, <1>3, RoomIs, Numbers
    <3>2. CASE n <= h
      BY <3>2, <1>2, <1>3, Numbers
    <3> QED BY <3>1, <3>2, <2>2, <1>2, <1>3
  <2>5. Dist(Seqn(h), Seqn(n)) = n - h
    BY <2>3, <2>4, <1>2, <1>3, DistIs
  <2> QED BY <2>5, <1>2, <1>3 DEF Before
<1>9. ~(stray \/ Astray(n)) => /\ ~stray
                               /\ \A i \in Slot : track.cache[i].in_use => h <= track.cache[i].pkt
                               /\ n < h => stream[n].key
  <2>1. SUFFICES ASSUME ~stray, ~Astray(n)
                 PROVE  /\ \A i \in Slot : track.cache[i].in_use => h <= track.cache[i].pkt
                        /\ n < h => stream[n].key
    OBVIOUS
  <2>2. /\ \A i \in Slot : track.cache[i].in_use => h <= track.cache[i].pkt
        /\ received # {} => \E m \in received : stream[m].key /\ m <= h /\ \A x \in m .. h - 1 : x \in received
    BY <2>1 DEF Core, Window
  <2>3. ASSUME n < h, ~stream[n].key PROVE FALSE
    <3>1. received # {}
      BY <2>1, <2>3 DEF Astray
    <3>2. PICK m \in received : stream[m].key /\ m <= h /\ \A x \in m .. h - 1 : x \in received
      BY <2>2, <3>1
    <3>3. n < m
      <4>1. m <= n => n \in m .. h - 1
        BY <2>3, <1>2, <1>3, <1>4
      <4> QED BY <4>1, <3>2, <1>1, <1>3, <1>4
    <3> QED BY <2>1, <2>3, <3>2, <3>3 DEF Astray
  <2> QED BY <2>2, <2>3
<1>10. PICK b \in Nat : /\ n < b /\ b <= SeqCount /\ b - n < CacheLen /\ \A m \in rec : m < b
                        /\ b <= CacheLen \/ (~(stray \/ Astray(n)) /\ b <= n + MaxDelay)
  <2> DEFINE str == stray \/ Astray(n)
  <2>1. Unmet(str, received \cup {n})
    OBVIOUS
  <2> HIDE DEF str
  <2>2. \A m \in received : m \in Nat /\ m < n + MaxDelay /\ m < SeqCount
    BY <1>4
  <2>3. \E b \in Nat : /\ n < b /\ b <= SeqCount /\ b - n < CacheLen /\ \A m \in received \cup {n} : m < b
                       /\ b <= CacheLen \/ (~str /\ b <= n + MaxDelay)
    BY <2>1, <2>2, <1>3, HorizonIs
  <2> QED BY <2>3 DEF str
<1> HIDE DEF rec
<1>11. CASE stream[n].key /\ track.key_frame_ts # stream[n].ts
  <2> DEFINE x == StartKey(track, n)
             y == Put(x, n)
  <2>1. w = IF Before(Seqn(n), y.header_sn) THEN Advance([y EXCEPT !.header_sn = Seqn(n)], Seqn(n))
            ELSE IF y.lost_sn = Seqn(n) THEN Advance(y, Seqn(n)) ELSE y
    BY <1>11 DEF KeyPath
  <2>2. x \in TrackRecord /\ x.header_sn = Seqn(n) /\ x.lost_sn = Plus(Seqn(n), 1)
    BY <1>1, StartIs
  <2> HIDE DEF x
  <2>3. y.header_sn = Seqn(n) /\ y.lost_sn = Plus(Seqn(n), 1)
    BY <2>2, <1>1, PutIs
  <2> HIDE DEF y
  <2>4. Plus(Seqn(n), 1) = Seqn(n + 1) /\ n + 1 \in 1 .. SeqCount
    <3>1. n + 1 <= SeqCount /\ n + 1 \in 1 .. SeqCount
      BY <1>3, Numbers
    <3>2. Plus(Seqn(n), 1) = Seqn(n + 1)
      BY <1>3, <3>1, PlusIs
    <3> QED BY <3>1, <3>2
  <2>5. Seqn(n + 1) # Seqn(n)
    BY <2>4, <1>3, SeqnIs
  <2>6. ~Before(Seqn(n), Seqn(n))
    BY <1>3, Numbers DEF Before, Dist
  <2>7. w = y
    BY <2>1, <2>3, <2>4, <2>5, <2>6
  <2> QED BY <2>7, <1>11 DEF StepStart, x, y
<1>12. CASE stream[n].key /\ track.key_frame_ts = stream[n].ts /\ n < h
  <2>1. w = Advance(v, Seqn(n))
    BY <1>5, <1>8, <1>12 DEF KeyPath
  <2>2. v.header_sn = Seqn(n) /\ v.cache = u.cache /\ v \in TrackRecord /\ FieldsOf(stream, v) /\ SlotsOf(v, rec, out)
    <3>1. v.header_sn = Seqn(n)
      <4> HIDE DEF u
      <4> QED BY <1>5, ZenonT(30) DEF TrackRecord
    <3>2. v.cache = u.cache
      OBVIOUS
    <3> HIDE DEF v
    <3> QED BY <3>1, <3>2, <1>6 DEF Sound
  <2>3. Clean(stream, v, n, b) /\ ~At(v, b).in_use
    <3>1. ~(b <= CacheLen) => b < n + CacheLen /\ \A i \in Slot : v.cache[i].in_use => n <= v.cache[i].pkt
      <4>0. b < n + CacheLen
        <5>1. b - n < CacheLen /\ b \in Nat /\ CacheLen \in Nat
          BY <1>10, Numbers
        <5> QED BY <5>1, <1>3
      <4>1. SUFFICES ASSUME ~(b <= CacheLen), NEW i \in Slot, v.cache[i].in_use
                     PROVE  n <= v.cache[i].pkt
        BY <4>0
      <4>2. CASE i = Spot(n)
        <5>1. v.cache[i].pkt = n
          BY <4>2, <2>2, <1>5 DEF Has, At
        <5> QED BY <5>1, <1>3
      <4>3. CASE i # Spot(n)
        <5>1. v.cache[i] = track.cache[i] /\ track.cache[i].in_use /\ h <= track.cache[i].pkt
          BY <4>1, <4>3, <2>2, <1>5, <1>9, <1>10
        <5>2. v.cache[i].pkt \in Nat
          <6>1. v.cache[i].pkt \in rec
            BY <4>1, <2>2 DEF SlotsOf
          <6> QED BY <6>1, <1>4 DEF rec
        <5> QED BY <5>1, <5>2, <1>2, <1>3, <1>12
      <4> QED BY <4>2, <4>3
    <3>2. rec \in SUBSET DOMAIN stream
      BY <1>1 DEF rec
    <3> HIDE DEF v
    <3> QED BY <3>1, <3>2, <2>2, <1>1, <1>3, <1>10, CleanIs
  <2>4. RunOf(stream, v, n, n)
    BY <1>3 DEF RunOf
  <2> HIDE DEF v
  <2>5. Outcome(stream, v, w, n, n)
    BY <2>1, <2>2, <2>3, <2>4, <1>1, <1>3, <1>10, AdvanceIs
  <2> QED BY <2>5, <1>12 DEF StepBack, v
<1>13. CASE (stream[n].key => track.key_frame_ts = stream[n].ts /\ ~(n < h)) /\ Ls(track) = n
  <2>1. w = Advance(u, Seqn(n))
    BY <1>5, <1>7, <1>8, <1>13 DEF KeyPath, DeltaPath
  <2>2. h <= n /\ RunOf(stream, track, h, n)
    BY <1>13 DEF Core, Waits
  <2>3. n - h <= Room
    <3>1. CASE h < n
      <4>1. n - 1 \in h .. n - 1
        BY <3>1, <1>2, <1>3
      <4>2. n - 1 \in DOMAIN stream /\ Same(stream, n - 1, h) /\ h \in DOMAIN stream
        BY <4>1, <2>2, <3>1, <1>2, <1>3 DEF RunOf
      <4>3. h < n - 1 => (n - 1) - h < Room
        BY <4>2, <1>1 DEF Shaped, OrderedIn, Same
      <4> QED BY <4>3, <1>2, <1>3, RoomIs
    <3>2. CASE h = n
      BY <3>2, <1>2, <1>3, RoomIs
    <3> QED BY <3>1, <3>2, <2>2, <1>2, <1>3
  <2>4. RunOf(stream, u, h, n)
    <3>1. ASSUME NEW y \in h .. n - 1 PROVE At(u, y) = At(track, y)
      <4>1. y \in 1 .. SeqCount /\ y - n < CacheLen /\ n - y < CacheLen /\ y # n
        <5>1. y \in Nat /\ h <= y /\ y < n /\ y \in 1 .. SeqCount
          BY <1>2, <1>3, Numbers
        <5>2. MaxDelay \in Nat /\ Room \in Int /\ CacheLen \in Nat /\ CacheLen > 0 /\ Room + MaxDelay + 1 = CacheLen
          BY RoomIs, Numbers
        <5>3. y - n < CacheLen /\ y # n
          BY <5>1, <5>2, <1>2, <1>3
        <5>4. n - y < CacheLen
          BY <5>1, <5>2, <2>3, <1>2, <1>3
        <5> QED BY <5>1, <5>3, <5>4
      <4>2. Spot(y) # Spot(n) /\ Spot(y) \in Slot
        BY <4>1, <1>3, SpotsDiffer, SpotType
      <4> QED BY <4>2, <1>5 DEF At
    <3> QED BY <3>1, <2>2 DEF RunOf, Has
  <2>5. Clean(stream, u, h, b) /\ ~At(u, b).in_use
    <3>1. ~(b <= CacheLen) => b < h + CacheLen /\ \A i \in Slot : u.cache[i].in_use => h <= u.cache[i].pkt
      <4>1. ASSUME ~(b <= CacheLen) PROVE b < h + CacheLen
        <5>1. b <= n + MaxDelay
          BY <4>1, <1>10
        <5> QED BY <5>1, <2>3, <1>2, <1>3, RoomIs, Numbers
      <4>2. ASSUME ~(b <= CacheLen), NEW i \in Slot, u.cache[i].in_use PROVE h <= u.cache[i].pkt
        <5>1. CASE i = Spot(n)
          <6>1. u.cache[i].pkt = n
            BY <5>1, <1>5 DEF Has, At
          <6> QED BY <6>1, <2>2
        <5>2. CASE i # Spot(n)
          BY <5>2, <4>2, <1>5, <1>9, <1>10
        <5> QED BY <5>1, <5>2
      <4> QED BY <4>1, <4>2
    <3>2. rec \in SUBSET DOMAIN stream
      BY <1>1 DEF rec
    <3>3. SlotsOf(u, rec, out)
      BY <1>6 DEF Sound
    <3>4. 1 <= h /\ h <= b
      BY <1>2, <1>3, <1>10, <2>2
    <3> HIDE DEF u, h
    <3> QED BY <3>1, <3>2, <3>3, <3>4, <1>1, <1>2, <1>5, <1>10, CleanIs
  <2> HIDE DEF u, h
  <2>6. Outcome(stream, u, w, h, n)
    <3>1. n <= b /\ 1 <= h
      BY <1>2, <1>3, <1>10
    <3> QED BY <3>1, <2>1, <2>2, <2>4, <2>5, <1>1, <1>2, <1>3, <1>5, <1>10, AdvanceIs
  <2> QED BY <2>2, <2>3, <2>4, <2>6, <1>13 DEF StepHit, u, h
<1>14. CASE (stream[n].key => track.key_frame_ts = stream[n].ts /\ ~(n < h)) /\ Ls(track) # n
  <2>1. w = u
    BY <1>5, <1>7, <1>8, <1>14 DEF KeyPath, DeltaPath
  <2>2. ~(stray \/ Astray(n)) => h <= n
    BY <1>2, <1>3, <1>9, <1>14
  <2> QED BY <2>1, <2>2, <1>14 DEF StepStore
<1> QED BY <1>11, <1>12, <1>13, <1>14

\* The numbers of the track that a walk leaves.
LEMMA WaitsForIs ==
    ASSUME NEW t \in TrackRecord, NEW u, NEW h, NEW a, NEW x \in Nat, 1 <= x, WaitsFor(stream, t, u, h, a, x)
    PROVE  /\ u.cache = t.cache /\ u.tail = NoTail /\ Ls(u) = x
           /\ u.header_sn = t.header_sn /\ Hd(u) = Hd(t) /\ u.key_frame_ts = t.key_frame_ts
<1>1. u = [t EXCEPT !.lost_sn = Seqn(x), !.tail = NoTail] /\ x \in 1 .. SeqCount
  BY Numbers DEF WaitsFor
<1>2. /\ u.cache = t.cache /\ u.tail = NoTail /\ u.lost_sn = Seqn(x)
      /\ u.header_sn = t.header_sn /\ u.key_frame_ts = t.key_frame_ts
  BY <1>1, ZenonT(30) DEF TrackRecord
<1> QED BY <1>1, <1>2, SeqnIs DEF Ls, Hd

LEMMA EndsAtIs ==
    ASSUME NEW k, Shaped(k, stream), NEW t \in TrackRecord, NEW u, NEW h, NEW a, NEW e, EndsAt(stream, t, u, h, a, e)
    PROVE  /\ u.cache = t.cache /\ Ls(u) = Ls(t)
           /\ u.header_sn = t.header_sn /\ Hd(u) = Hd(t) /\ u.key_frame_ts = t.key_frame_ts
           /\ \/ u.tail = NoTail /\ ~FirstIn(stream, h) /\ stream[e].nalu = "fua"
              \/ u.tail # NoTail /\ Tl(u) = e /\ WholeFrom(stream, h)
<1>1. e \in 1 .. SeqCount
  BY StreamIs DEF EndsAt
<1>2. Seqn(e) \in SeqNo /\ Num(Seqn(e)) = e /\ Seqn(e) # NoTail
  <2>1. Seqn(e) \in SeqNo /\ Num(Seqn(e)) = e
    BY <1>1, SeqnIs
  <2> QED BY <2>1, Numbers
<1>3. \/ WholeFrom(stream, h) /\ u = [t EXCEPT !.tail = Seqn(e)]
      \/ ~FirstIn(stream, h) /\ stream[e].nalu = "fua" /\ u = [t EXCEPT !.tail = NoTail]
  BY DEF EndsAt
<1>4. CASE WholeFrom(stream, h) /\ u = [t EXCEPT !.tail = Seqn(e)]
  <2>1. /\ u.cache = t.cache /\ u.tail = Seqn(e) /\ u.lost_sn = t.lost_sn
        /\ u.header_sn = t.header_sn /\ u.key_frame_ts = t.key_frame_ts
    BY <1>4, ZenonT(30) DEF TrackRecord
  <2> QED BY <2>1, <1>2, <1>4 DEF Ls, Hd, Tl
<1>5. CASE ~FirstIn(stream, h) /\ stream[e].nalu = "fua" /\ u = [t EXCEPT !.tail = NoTail]
  <2>1. /\ u.cache = t.cache /\ u.tail = NoTail /\ u.lost_sn = t.lost_sn
        /\ u.header_sn = t.header_sn /\ u.key_frame_ts = t.key_frame_ts
    BY <1>5, ZenonT(30) DEF TrackRecord
  <2> QED BY <2>1, <1>5 DEF Ls, Hd
<1> QED BY <1>3, <1>4, <1>5

\* A run is seen through the cache alone, and what it holds has been received.
LEMMA RunReceived ==
    ASSUME NEW s, NEW t, NEW rec, NEW o, SlotsOf(t, rec, o), NEW a \in Nat, NEW b \in Nat, 1 <= a, b <= SeqCount + 1,
           RunOf(s, t, a, b)
    PROVE  \A x \in a .. b - 1 : x \in rec /\ ~InOut(o, x)
<1>1. SUFFICES ASSUME NEW x \in a .. b - 1 PROVE x \in rec /\ ~InOut(o, x)
  OBVIOUS
<1>2. x \in 1 .. SeqCount /\ x # NoPacket
  BY Numbers
<1>3. t.cache[Spot(x)].in_use /\ t.cache[Spot(x)].pkt = x
  BY DEF RunOf, Has, At
<1> QED BY <1>2, <1>3, SpotType DEF SlotsOf, InOut

LEMMA RunRoom ==
    ASSUME NEW k, NEW s, Shaped(k, s), NEW t, NEW a \in Nat, NEW b \in Nat, a <= b, RunOf(s, t, a, b)
    PROVE  b - a <= Room
<1>1. CASE a < b
  <2>1. b - 1 \in a .. b - 1 /\ a \in a .. b - 1
    BY <1>1
  <2>2. b - 1 \in DOMAIN s /\ Same(s, b - 1, a) /\ a \in DOMAIN s
    BY <2>1 DEF RunOf
  <2>3. a < b - 1 => (b - 1) - a < Room
    BY <2>2 DEF Shaped, OrderedIn, Same
  <2> QED BY <2>3, <1>1, RoomIs
<1>2. CASE a = b
  BY <1>2, RoomIs
<1> QED BY <1>1, <1>2

\* The cache after a packet: what it had, and the packet.
LEMMA PutSlots ==
    ASSUME NEW k, Shaped(k, stream), NEW t \in TrackRecord, NEW n \in DOMAIN stream, NEW i \in Slot,
           Put(t, n).cache[i].in_use
    PROVE  \/ Put(t, n).cache[i].pkt = n
           \/ t.cache[i].in_use /\ Put(t, n).cache[i].pkt = t.cache[i].pkt
<1> DEFINE u == Put(t, n)
<1>1. Has(u, n) /\ (i # Spot(n) => u.cache[i] = t.cache[i])
  BY PutIs
<1> QED BY <1>1 DEF Has, At

\* A packet that leaves header_sn alone.
LEMMA KeepsWindow ==
    ASSUME Sound(frames, stream, track, received, out, came),
           Core(stream, track, received, out, came, stray),
           NEW n \in DOMAIN stream, CanCome(received, n), ~(stray \/ Astray(n)) => Hd(track) <= n,
           stream[n].key => track.key_frame_ts = stream[n].ts,
           NEW w, w.cache = Put(track, n).cache, Hd(w) = Hd(track), w.key_frame_ts = track.key_frame_ts
    PROVE  /\ Window(stream, w, received \cup {n}, stray \/ Astray(n))
           /\ KeyInv(stream, w, received \cup {n}, out)
<1>1. /\ Shaped(frames, stream) /\ track \in TrackRecord
      /\ Window(stream, track, received, stray) /\ KeyInv(stream, track, received, out)
  BY DEF Sound, Core
<1>2. KeyInv(stream, w, received \cup {n}, out)
  BY <1>1 DEF KeyInv
<1>3. Window(stream, w, received \cup {n}, stray \/ Astray(n))
  <2>1. SUFFICES ASSUME ~stray, ~Astray(n)
                 PROVE  /\ \A i \in Slot : w.cache[i].in_use => Hd(track) <= w.cache[i].pkt
                        /\ \E m \in received \cup {n} :
                              stream[m].key /\ m <= Hd(track) /\ \A x \in m .. Hd(track) - 1 : x \in received \cup {n}
    BY DEF Window
  <2>2. \A i \in Slot : w.cache[i].in_use => Hd(track) <= w.cache[i].pkt
    BY <1>1, <2>1, PutSlots DEF Window
  <2>3. received # {}
    <3>1. SUFFICES ASSUME received = {} PROVE FALSE
      OBVIOUS
    <3>2. stream[n].key
      BY <2>1, <3>1 DEF Astray
    <3>3. track.key_frame_ts # NoKey
      <4>1. stream[n].ts \in Nat
        BY <1>1, StreamIs
      <4> QED BY <3>2, <4>1, Numbers
    <3> QED BY <3>1, <3>3, <1>1 DEF KeyInv
  <2>4. PICK m \in received : stream[m].key /\ m <= Hd(track) /\ \A x \in m .. Hd(track) - 1 : x \in received
    BY <1>1, <2>1, <2>3 DEF Window
  <2> QED BY <2>2, <2>4
<1> QED BY <1>2, <1>3

LEMMA KeepsOut ==
    ASSUME NEW s, NEW rec, NEW o, NEW n, OutInv(s, rec, o)
    PROVE  OutInv(s, rec \cup {n}, o)
<1>1. \A p : FrameOut(s, rec, p) => FrameOut(s, rec \cup {n}, p)
  BY DEF FrameOut
<1> QED BY <1>1 DEF OutInv

LEMMA CoreStart ==
    ASSUME Sound(frames, stream, track, received, out, came),
           Core(stream, track, received, out, came, stray), track.tail = NoTail,
           NEW n \in DOMAIN stream, CanCome(received, n), NEW w, StepStart(track, n, w)
    PROVE  Core(stream, w, received \cup {n}, out, n, stray \/ Astray(n))
<1> DEFINE x == StartKey(track, n)
           rec == received \cup {n}
<1>1. Shaped(frames, stream) /\ track \in TrackRecord
  BY DEF Sound
<1>2. n \in Nat /\ n \in 1 .. SeqCount /\ n + 1 \in 1 .. SeqCount /\ n + 1 <= SeqCount /\ n \in rec
  <2>1. n \in Nat /\ 1 <= n /\ n < SeqCount
    BY <1>1, StreamIs
  <2> QED BY <2>1, Numbers
<1>3. /\ x \in TrackRecord /\ x.header_sn = Seqn(n) /\ x.lost_sn = Plus(Seqn(n), 1) /\ x.tail = NoTail
      /\ x.key_frame_ts = stream[n].ts
      /\ \A i \in Slot : x.cache[i] = IF track.cache[i].in_use THEN Empty ELSE track.cache[i]
  BY <1>1, StartIs
<1>4. \A i \in Slot : ~x.cache[i].in_use
  BY <1>3 DEF Empty
<1> HIDE DEF x, rec
<1>5. stream[n].key /\ w = Put(x, n)
  BY DEF StepStart, x
<1>6. /\ w.header_sn = Seqn(n) /\ w.lost_sn = Plus(Seqn(n), 1) /\ w.tail = NoTail
      /\ w.key_frame_ts = stream[n].ts /\ Has(w, n)
  BY <1>1, <1>3, <1>5, PutIs
<1>7. \A i \in Slot : w.cache[i].in_use => w.cache[i].pkt = n
  BY <1>1, <1>3, <1>4, <1>5, PutSlots
<1>8. Hd(w) = n /\ Ls(w) = n + 1
  <2>1. Plus(Seqn(n), 1) = Seqn(n + 1)
    BY <1>2, PlusIs
  <2> QED BY <2>1, <1>2, <1>6, SeqnIs DEF Hd, Ls
<1>9. Window(stream, w, rec, stray \/ Astray(n))
  <2>1. \A y \in n .. n - 1 : y \in rec
    BY <1>2
  <2>2. n <= n
    BY <1>2
  <2> QED BY <2>1, <2>2, <1>2, <1>5, <1>7, <1>8 DEF Window
<1>10. KeyInv(stream, w, rec, out)
  <2>1. n <= n + 1
    BY <1>2
  <2> QED BY <2>1, <1>2, <1>6, <1>8 DEF KeyInv
<1>11. Waits(stream, w, rec)
  <2>1. RunOf(stream, w, n, n + 1) /\ n <= n + 1
    <3>1. \A y \in n .. (n + 1) - 1 : y = n
      BY <1>2
    <3> QED BY <3>1, <1>2, <1>6 DEF RunOf, Same
  <2> QED BY <2>1, <1>8 DEF Waits
<1>12. TailInv(stream, w, rec, out, n, stray \/ Astray(n))
  BY <1>6 DEF TailInv
<1>13. OutInv(stream, rec, out)
  BY KeepsOut DEF Core, rec
<1> QED BY <1>9, <1>10, <1>11, <1>12, <1>13 DEF Core, rec

LEMMA CoreStore ==
    ASSUME Sound(frames, stream, track, received, out, came),
           Core(stream, track, received, out, came, stray), track.tail = NoTail,
           NEW n \in DOMAIN stream, CanCome(received, n), NEW w, StepStore(track, n, w, stray \/ Astray(n))
    PROVE  Core(stream, w, received \cup {n}, out, n, stray \/ Astray(n))
<1> DEFINE rec == received \cup {n}
           h == Hd(track)
           l == Ls(track)
<1>1. Shaped(frames, stream) /\ track \in TrackRecord /\ SlotsOf(track, received, out) /\ received \subseteq DOMAIN stream
  BY DEF Sound
<1>2. n \in Nat /\ n \in 1 .. SeqCount
  BY <1>1, StreamIs
<1>3. h \in 1 .. SeqCount /\ l \in 1 .. SeqCount /\ h \in Nat /\ l \in Nat /\ 1 <= h /\ l <= SeqCount + 1
  BY <1>1, NumbersOf, Numbers
<1>4. w = Put(track, n) /\ l # n /\ (stream[n].key => track.key_frame_ts = stream[n].ts)
      /\ (~(stray \/ Astray(n)) => h <= n)
  BY DEF StepStore
<1>5. /\ w.header_sn = track.header_sn /\ w.lost_sn = track.lost_sn /\ w.tail = NoTail
      /\ w.key_frame_ts = track.key_frame_ts
      /\ \A i \in Slot : i # Spot(n) => w.cache[i] = track.cache[i]
  BY <1>1, <1>4, PutIs
<1>6. Hd(w) = h /\ Ls(w) = l
  BY <1>5 DEF Hd, Ls
<1>7. Window(stream, w, rec, stray \/ Astray(n)) /\ KeyInv(stream, w, rec, out)
  BY <1>4, <1>5, <1>6, KeepsWindow
<1>8. Waits(stream, w, rec)
  <2>1. SUFFICES ASSUME CanCome(rec, l) PROVE h <= l /\ RunOf(stream, w, h, l)
    BY <1>6 DEF Waits
  <2>2. CanCome(received, l) /\ n < l + MaxDelay
    BY <2>1 DEF CanCome
  <2>3. h <= l /\ RunOf(stream, track, h, l)
    BY <2>2 DEF Core, Waits
  <2>4. l - h <= Room
    BY <1>1, <1>3, <2>3, RunRoom
  <2>5. \A x \in h .. l - 1 : x \in received
    BY <1>1, <1>3, <2>3, RunReceived
  <2>6. ASSUME NEW y \in h .. l - 1 PROVE At(w, y) = At(track, y)
    <3>1. y \in received /\ y # n /\ y < n + MaxDelay
      BY <2>5 DEF CanCome
    <3>2. y \in 1 .. SeqCount /\ y - n < CacheLen /\ n - y < CacheLen
      <4>1. y \in Nat /\ h <= y /\ y < l /\ y \in 1 .. SeqCount
        BY <1>3, Numbers
      <4>2. MaxDelay \in Nat /\ Room \in Int /\ CacheLen \in Nat /\ Room + MaxDelay + 1 = CacheLen /\ MaxDelay < CacheLen
        BY RoomIs, Numbers
      <4>3. y - n < CacheLen
        BY <4>1, <4>2, <3>1, <1>2
      <4>4. n - y < CacheLen
        BY <4>1, <4>2, <2>2, <2>4, <1>2, <1>3
      <4> QED BY <4>1, <4>3, <4>4
    <3>3. Spot(y) # Spot(n) /\ Spot(y) \in Slot
      BY <3>1, <3>2, <1>2, SpotsDiffer, SpotType
    <3> QED BY <3>3, <1>5 DEF At
  <2>7. RunOf(stream, w, h, l)
    BY <2>3, <2>6 DEF RunOf, Has
  <2> QED BY <2>3, <2>7
<1>9. TailInv(stream, w, rec, out, n, stray \/ Astray(n))
  BY <1>5 DEF TailInv
<1>10. OutInv(stream, rec, out)
  BY KeepsOut DEF Core
<1> QED BY <1>7, <1>8, <1>9, <1>10 DEF Core

LEMMA CoreHit ==
    ASSUME Sound(frames, stream, track, received, out, came),
           Core(stream, track, received, out, came, stray), track.tail = NoTail,
           NEW n \in DOMAIN stream, CanCome(received, n), NEW w, StepHit(track, n, w)
    PROVE  Core(stream, w, received \cup {n}, out, n, stray \/ Astray(n))
<1> DEFINE rec == received \cup {n}
           h == Hd(track)
           t == Put(track, n)
<1>1. Shaped(frames, stream) /\ track \in TrackRecord /\ received \subseteq DOMAIN stream
  BY DEF Sound
<1>2. n \in Nat /\ n \in 1 .. SeqCount /\ 1 <= n /\ n # NoPacket
  BY <1>1, StreamIs, Numbers
<1>3. h \in 1 .. SeqCount /\ h \in Nat
  BY <1>1, NumbersOf, Numbers
<1>4. /\ t \in TrackRecord /\ t.header_sn = track.header_sn /\ t.lost_sn = track.lost_sn
      /\ t.key_frame_ts = track.key_frame_ts
  BY <1>1, PutIs
<1>5. Hd(t) = h /\ Ls(t) = Ls(track)
  BY <1>4 DEF Hd, Ls
<1>6. /\ stream[n].key => track.key_frame_ts = stream[n].ts
      /\ Ls(track) = n /\ h <= n /\ n - h <= Room /\ Outcome(stream, t, w, h, n)
  BY DEF StepHit
<1>7. OutInv(stream, rec, out)
  BY KeepsOut DEF Core
<1>8. ASSUME w.cache = t.cache, Hd(w) = h, w.key_frame_ts = track.key_frame_ts
      PROVE  Window(stream, w, rec, stray \/ Astray(n)) /\ KeyInv(stream, w, rec, out)
  BY <1>6, <1>8, KeepsWindow
<1> HIDE DEF t, h
<1>9. ASSUME NEW x \in Nat, WaitsFor(stream, t, w, h, n, x)
      PROVE  Core(stream, w, rec, out, n, stray \/ Astray(n))
  <2>1. n <= x /\ RunOf(stream, t, h, x)
    BY <1>9 DEF WaitsFor
  <2>2. /\ w.cache = t.cache /\ w.tail = NoTail /\ Ls(w) = x /\ Hd(w) = h
        /\ w.key_frame_ts = track.key_frame_ts
    <3>1. 1 <= x
      BY <2>1, <1>2
    <3> QED BY <3>1, <1>4, <1>5, <1>9, WaitsForIs
  <2>3. RunOf(stream, w, h, x) /\ h <= x
    BY <2>1, <2>2, <1>2, <1>3, <1>6 DEF RunOf, Has, At
  <2>4. Waits(stream, w, rec)
    BY <2>2, <2>3 DEF Waits
  <2>5. TailInv(stream, w, rec, out, n, stray \/ Astray(n))
    BY <2>2 DEF TailInv
  <2> QED BY <2>2, <2>4, <2>5, <1>7, <1>8 DEF Core
<1>10. ASSUME NEW e \in Nat, EndsAt(stream, t, w, h, n, e)
       PROVE  Core(stream, w, rec, out, n, stray \/ Astray(n))
  <2>1. e \in DOMAIN stream /\ h <= e /\ n <= e + 1 /\ RunOf(stream, t, h, e + 1) /\ LastIn(stream, e)
    BY <1>10 DEF EndsAt
  <2>2. /\ w.cache = t.cache /\ Ls(w) = n /\ Hd(w) = h /\ w.key_frame_ts = track.key_frame_ts
        /\ w.tail = NoTail \/ (w.tail # NoTail /\ Tl(w) = e /\ WholeFrom(stream, h))
    BY <1>1, <1>4, <1>5, <1>6, <1>10, EndsAtIs
  <2>3. ~CanCome(rec, Ls(w))
    BY <2>2 DEF CanCome
  <2>4. Waits(stream, w, rec)
    BY <2>3 DEF Waits
  <2>5. TailInv(stream, w, rec, out, n, stray \/ Astray(n))
    <3>1. \A m \in rec : m + 1 < h + CacheLen
      <4>1. ASSUME NEW m \in rec PROVE m + 1 < h + CacheLen
        <5>1. m \in Nat /\ m < n + MaxDelay
          BY <1>1, <1>2, StreamIs, Numbers DEF CanCome
        <5> QED BY <5>1, <1>2, <1>3, <1>6, RoomIs, Numbers
      <4> QED BY <4>1
    <3>2. RunOf(stream, w, h, e + 1)
      BY <2>1, <2>2 DEF RunOf, Has, At
    <3> QED BY <2>1, <2>2, <2>3, <3>1, <3>2, <1>2, <1>6 DEF TailInv
  <2> QED BY <2>2, <2>4, <2>5, <1>7, <1>8 DEF Core
<1> QED BY <1>6, <1>9, <1>10 DEF Outcome

LEMMA CoreBack ==
    ASSUME Sound(frames, stream, track, received, out, came),
           Core(stream, track, received, out, came, stray), track.tail = NoTail,
           NEW n \in DOMAIN stream, CanCome(received, n), NEW w, StepBack(track, n, w)
    PROVE  Core(stream, w, received \cup {n}, out, n, stray \/ Astray(n))
<1> DEFINE rec == received \cup {n}
           h == Hd(track)
           l == Ls(track)
           u == Put(track, n)
           t == [u EXCEPT !.header_sn = Seqn(n)]
<1>1. /\ Shaped(frames, stream) /\ track \in TrackRecord /\ received \subseteq DOMAIN stream
      /\ SlotsOf(track, received, out)
  BY DEF Sound
<1>2. n \in Nat /\ n \in 1 .. SeqCount /\ 1 <= n /\ n # NoPacket /\ Seqn(n) \in SeqNo /\ n \in rec
  BY <1>1, StreamIs, SeqnIs, Numbers
<1>3. h \in 1 .. SeqCount /\ h \in Nat /\ l \in 1 .. SeqCount /\ l \in Nat
  BY <1>1, NumbersOf, Numbers
<1>4. /\ u \in TrackRecord /\ u.lost_sn = track.lost_sn /\ u.tail = NoTail
      /\ u.key_frame_ts = track.key_frame_ts
  BY <1>1, PutIs
<1>5. /\ stream[n].key /\ track.key_frame_ts = stream[n].ts /\ n < h
      /\ Outcome(stream, t, w, n, n)
  BY DEF StepBack
<1>6. Sound(frames, stream, t, rec, out, n)
  <2>1. Sound(frames, stream, track, rec, out, n)
    BY SoundMore
  <2>2. \A j \in DOMAIN out : n \notin ToSet(out[j])
    BY <1>2 DEF Sound, OutTyped, ToSet, CanCome
  <2> HIDE DEF u, rec
  <2>3. Sound(frames, stream, u, rec, out, n)
    BY <1>2, <2>1, <2>2, SoundPut DEF u
  <2> QED BY <2>3, <1>2, SoundHeader
<1>7. /\ t \in TrackRecord /\ t.lost_sn = track.lost_sn /\ t.header_sn = Seqn(n)
      /\ t.key_frame_ts = stream[n].ts /\ t.cache = u.cache
  <2>1. t \in TrackRecord
    BY <1>6 DEF Sound
  <2> HIDE DEF u
  <2>2. t.lost_sn = track.lost_sn /\ t.header_sn = Seqn(n) /\ t.key_frame_ts = stream[n].ts /\ t.cache = u.cache
    BY <1>4, <1>5, ZenonT(30) DEF TrackRecord
  <2> QED BY <2>1, <2>2
<1>8. Hd(t) = n /\ Ls(t) = l
  BY <1>2, <1>7, SeqnIs DEF Hd, Ls
<1>9. \A i \in Slot : t.cache[i].in_use => \/ t.cache[i].pkt = n
                                           \/ track.cache[i].in_use /\ t.cache[i].pkt = track.cache[i].pkt
  BY <1>1, <1>7, PutSlots
<1>10. OutInv(stream, rec, out)
  BY KeepsOut DEF Core
<1>11. stream[n].ts \in Nat /\ track.key_frame_ts # NoKey
  BY <1>1, <1>5, StreamIs, Numbers
<1> HIDE DEF t, u, rec, h, l
<1>12. ASSUME w.cache = t.cache, Hd(w) = n, w.key_frame_ts = stream[n].ts
       PROVE  Window(stream, w, rec, stray \/ Astray(n)) /\ KeyInv(stream, w, rec, out)
  <2>1. n <= n /\ n <= n + 1 /\ \A y \in n .. n - 1 : y \in rec
    BY <1>2
  <2>2. ASSUME ~stray, NEW i \in Slot, w.cache[i].in_use PROVE n <= w.cache[i].pkt
    <3>1. CASE w.cache[i].pkt = n
      BY <3>1, <2>1
    <3>2. CASE track.cache[i].in_use /\ w.cache[i].pkt = track.cache[i].pkt
      <4>1. h <= w.cache[i].pkt
        BY <2>2, <3>2 DEF Core, Window, h
      <4>2. w.cache[i].pkt \in Nat
        <5>1. track.cache[i].pkt \in received
          BY <3>2, <1>1 DEF SlotsOf
        <5> QED BY <5>1, <3>2, <1>1, StreamIs
      <4> QED BY <4>1, <4>2, <1>2, <1>3, <1>5
    <3> QED BY <3>1, <3>2, <2>2, <1>9, <1>12
  <2>3. Window(stream, w, rec, stray \/ Astray(n))
    BY <2>1, <2>2, <1>2, <1>5, <1>12 DEF Window
  <2>4. KeyInv(stream, w, rec, out)
    BY <2>1, <1>2, <1>12 DEF KeyInv
  <2> QED BY <2>3, <2>4
<1>13. ASSUME NEW x \in Nat, WaitsFor(stream, t, w, n, n, x)
       PROVE  Core(stream, w, rec, out, n, stray \/ Astray(n))
  <2>1. n <= x /\ RunOf(stream, t, n, x)
    BY <1>13 DEF WaitsFor
  <2>2. /\ w.cache = t.cache /\ w.tail = NoTail /\ Ls(w) = x /\ Hd(w) = n
        /\ w.key_frame_ts = stream[n].ts
    <3>1. 1 <= x
      BY <2>1, <1>2
    <3> QED BY <3>1, <1>7, <1>8, <1>13, WaitsForIs
  <2>3. RunOf(stream, w, n, x)
    BY <2>1, <2>2 DEF RunOf, Has, At
  <2>4. Waits(stream, w, rec)
    BY <2>1, <2>2, <2>3 DEF Waits
  <2>5. TailInv(stream, w, rec, out, n, stray \/ Astray(n))
    BY <2>2 DEF TailInv
  <2> QED BY <2>2, <2>4, <2>5, <1>10, <1>12 DEF Core
<1>14. ASSUME NEW e \in Nat, EndsAt(stream, t, w, n, n, e)
       PROVE  Core(stream, w, rec, out, n, stray \/ Astray(n))
  <2>1. e \in DOMAIN stream /\ n <= e /\ RunOf(stream, t, n, e + 1) /\ LastIn(stream, e)
    BY <1>14 DEF EndsAt
  <2>2. /\ w.cache = t.cache /\ Ls(w) = l /\ Hd(w) = n /\ w.key_frame_ts = stream[n].ts
        /\ w.tail = NoTail \/ (w.tail # NoTail /\ Tl(w) = e /\ WholeFrom(stream, n))
    BY <1>1, <1>7, <1>8, <1>14, EndsAtIs
  <2>3. RunOf(stream, w, n, e + 1)
    BY <2>1, <2>2 DEF RunOf, Has, At
  <2>4. \A x \in n .. e : x \in DOMAIN stream /\ Same(stream, x, n) /\ x \in rec /\ ~InOut(out, x)
    <3>1. \A x \in n .. e : x \in DOMAIN stream /\ Same(stream, x, n)
      BY <2>1, <1>2 DEF RunOf
    <3>2. e < SeqCount
      BY <2>1, <1>1, StreamIs
    <3>3. SlotsOf(t, rec, out)
      BY <1>6 DEF Sound
    <3>4. e + 1 \in Nat /\ e + 1 <= SeqCount + 1 /\ (e + 1) - 1 = e
      BY <3>2, Numbers
    <3>5. \A x \in n .. (e + 1) - 1 : x \in rec /\ ~InOut(out, x)
      BY <2>1, <3>3, <3>4, <1>2, RunReceived
    <3> QED BY <3>1, <3>4, <3>5
  <2>5. e \in n .. e /\ n \in n .. e
    BY <2>1, <1>2
  <2>6. \A x \in FrameIn(stream, n) : x \in Nat /\ x <= e
    <3>1. Same(stream, e, n)
      BY <2>4, <2>5
    <3> QED BY <3>1, <2>1, <1>1, StreamIs DEF LastIn, FrameIn, Same
  <2>7. h \in DOMAIN stream /\ Same(stream, h, n)
    <3>1. SUFFICES ASSUME \A m \in DOMAIN stream : stream[m].ts = stream[n].ts =>
                              m < h /\ (stream[m].nalu # "stap" => InOut(out, m))
                   PROVE  FALSE
      BY <1>5, <1>11 DEF Core, KeyInv, Same, h
    <3>2. stream[e].nalu = "stap"
      BY <2>4, <2>5, <3>1 DEF Same
    <3>3. n = e
      <4>1. n < e => stream[e].nalu # "stap"
        BY <2>4, <2>5, <1>1 DEF Shaped, OrderedIn, Same
      <4> QED BY <4>1, <2>1, <3>2, <1>2
    <3>4. PICK m \in received : stream[m].ts = stream[n].ts
      BY <1>5, <1>11 DEF Sound
    <3>5. m \in FrameIn(stream, n) /\ m # n
      BY <3>4, <1>1 DEF FrameIn, CanCome
    <3>6. m < n
      BY <3>3, <3>5, <2>6, <1>2
    <3> QED BY <3>2, <3>3, <3>4, <3>6, <1>1 DEF Shaped, OrderedIn, Same
  <2>8. ASSUME CanCome(rec, l) PROVE l = e + 1
    <3>1. CanCome(received, l) /\ l \notin rec
      BY <2>8 DEF CanCome, rec
    <3>2. h <= l /\ RunOf(stream, track, h, l)
      BY <3>1 DEF Core, Waits, h, l
    <3>3. h <= e
      <4>1. h \in FrameIn(stream, n)
        BY <2>7 DEF FrameIn, Same
      <4> QED BY <4>1, <2>6
    <3>4. e < l
      <4>1. l \notin n .. e
        BY <3>1, <2>4
      <4> QED BY <4>1, <3>2, <1>2, <1>3, <1>5
    <3>5. ~(e + 1 < l)
      <4>1. SUFFICES ASSUME e + 1 < l PROVE FALSE
        OBVIOUS
      <4>2. e + 1 \in h .. l - 1
        BY <4>1, <3>3, <1>3
      <4>3. e + 1 \in DOMAIN stream /\ Same(stream, e + 1, h)
        BY <4>2, <3>2 DEF RunOf
      <4>4. e + 1 \in FrameIn(stream, n)
        BY <4>3, <2>7 DEF FrameIn, Same
      <4> QED BY <4>4, <2>6
    <3> QED BY <3>4, <3>5, <1>3
  <2>9. Waits(stream, w, rec)
    <3>1. n <= e + 1
      BY <2>1, <1>2
    <3> QED BY <2>2, <2>3, <2>8, <3>1 DEF Waits
  <2>10. TailInv(stream, w, rec, out, n, stray \/ Astray(n))
    <3>1. ASSUME NEW m \in rec PROVE m + 1 < n + CacheLen
      <4>1. m \in Nat /\ m < n + MaxDelay
        BY <1>1, <1>2, StreamIs, Numbers DEF CanCome, rec
      <4> QED BY <4>1, <1>2, RoomIs, Numbers
    <3>2. n <= n /\ n <= e + 1
      BY <2>1, <1>2
    <3> QED BY <2>1, <2>2, <2>3, <2>8, <3>1, <3>2, <1>2 DEF TailInv
  <2> QED BY <2>2, <2>9, <2>10, <1>10, <1>12 DEF Core
<1> QED BY <1>5, <1>13, <1>14 DEF Outcome, rec
-----------------------------------------------------------------------------
(* What a turn does to the track.                                          *)

LEMMA InOutAppend ==
    ASSUME NEW o, o \in Seq(Seq(Nat)), NEW p \in Seq(Nat), NEW x
    PROVE  InOut(Append(o, p), x) <=> InOut(o, x) \/ x \in ToSet(p)
<1> DEFINE q == Append(o, p)
<1>1. /\ DOMAIN o = 1 .. Len(o) /\ Len(o) \in Nat /\ DOMAIN q = 1 .. Len(o) + 1
      /\ \A j \in DOMAIN o : q[j] = o[j]
      /\ q[Len(o) + 1] = p
  OBVIOUS
<1> HIDE DEF q
<1>2. /\ DOMAIN q = DOMAIN o \cup {Len(o) + 1}
  BY <1>1
<1> QED BY <1>1, <1>2 DEF InOut, q

LEMMA RunSet ==
    ASSUME NEW p, NEW a \in Nat, NEW e \in Nat, IsRun(p, a, e)
    PROVE  /\ ToSet(p) = a .. e /\ p \in Seq(Nat) /\ p # << >>
           /\ Len(p) = e - a + 1 /\ DOMAIN p = 1 .. e - a + 1 /\ p[1] = a /\ Last(p) = e
           /\ \A i \in DOMAIN p : p[i] = a + i - 1 /\ p[i] \in a .. e
<1> DEFINE n == e - a + 1
<1>1. n \in Nat /\ 1 <= n /\ p = [i \in 1 .. n |-> a + i - 1] /\ a <= e
  BY DEF IsRun
<1>2. \A i \in 1 .. n : a + i - 1 \in a .. e /\ a + i - 1 \in Nat
  BY <1>1
<1>3. p \in Seq(Nat) /\ Len(p) = n /\ DOMAIN p = 1 .. n
  <2> HIDE DEF n
  <2> QED BY <1>1, <1>2
<1>4. \A i \in DOMAIN p : p[i] = a + i - 1 /\ p[i] \in a .. e
  BY <1>1, <1>2, <1>3
<1>5. p[1] = a
  BY <1>1
<1>6. Last(p) = e
  <2>1. n \in DOMAIN p /\ a + n - 1 = e
    BY <1>1, <1>3
  <2> QED BY <2>1, <1>3, <1>4 DEF Last
<1>7. ASSUME NEW x \in a .. e PROVE x \in ToSet(p)
  <2>1. x - a + 1 \in 1 .. n /\ a + (x - a + 1) - 1 = x
    BY <1>1
  <2>2. p[x - a + 1] = x
    BY <2>1, <1>3, <1>4
  <2> QED BY <2>1, <2>2, <1>3 DEF ToSet
<1>8. ToSet(p) \subseteq a .. e
  BY <1>4 DEF ToSet
<1>9. p # << >>
  BY <1>1, <1>3
<1> QED BY <1>3, <1>4, <1>5, <1>6, <1>7, <1>8, <1>9

LEMMA TurnIs ==
    ASSUME Sound(frames, stream, track, received, out, came),
           Core(stream, track, received, out, came, stray), track.tail # NoTail, Unmet(stray, received)
    PROVE  LET h == Hd(track)
               e == Tl(track)
               p == NextFrame(track)
               v == Packed(track)
           IN  /\ h \in Nat /\ e \in Nat /\ 1 <= h /\ h <= e /\ e < SeqCount /\ e \in DOMAIN stream
               /\ IsRun(p, h, e) /\ \A x \in h .. e : x \in received /\ Same(stream, x, h) /\ ~InOut(out, x)
               /\ v \in TrackRecord /\ Hd(v) = e + 1 /\ Ls(v) = Ls(track)
               /\ SlotsOf(v, received, Append(out, p))
               /\ \A i \in Slot : /\ v.cache[i].in_use => v.cache[i].pkt \notin h .. e
                                  /\ v.cache[i].in_use => v.cache[i] = track.cache[i]
               /\ \A x \in 1 .. SeqCount : Has(track, x) /\ x \notin h .. e => Has(v, x)
               /\ Outcome(stream, v, Advance(v, Plus(track.tail, 1)), e + 1, e + 1)
<1> DEFINE h == Hd(track)
           e == Tl(track)
           p == NextFrame(track)
           v == Packed(track)
           o == Append(out, p)
<1>1. /\ Shaped(frames, stream) /\ track \in TrackRecord /\ received \subseteq DOMAIN stream
      /\ SlotsOf(track, received, out)
  BY DEF Sound
<1>2. /\ h \in 1 .. SeqCount /\ h \in Nat /\ 1 <= h /\ track.header_sn = Seqn(h)
      /\ track.tail = Seqn(e) /\ track.tail \in SeqNo
  BY <1>1, NumbersOf, Numbers
<1>3. /\ e \in DOMAIN stream /\ h <= e /\ RunOf(stream, track, h, e + 1) /\ LastIn(stream, e) /\ WholeFrom(stream, h)
      /\ ~stray => \A m \in received : m + 1 < h + CacheLen
  BY DEF Core, TailInv
<1>4. e \in Nat /\ e \in 1 .. SeqCount /\ e < SeqCount
  BY <1>1, <1>3, StreamIs
<1> HIDE DEF h, e
<1>5. e - h < SeqCount - 1
  <2>1. (e + 1) - h <= Room
    <3>1. e + 1 \in Nat /\ h <= e + 1
      BY <1>2, <1>3, <1>4
    <3> QED BY <3>1, <1>1, <1>2, <1>3, RunRoom
  <2> QED BY <2>1, <1>2, <1>4, RoomIs, Numbers
<1>6. Count(track.header_sn, track.tail) = e - h + 1
  BY <1>2, <1>3, <1>4, <1>5, CountIs
<1>7. ASSUME NEW i \in 1 .. e - h + 1
      PROVE  /\ h + i - 1 \in h .. e
             /\ Plus(track.header_sn, i - 1) = Seqn(h + i - 1)
  <2>1. h \in Nat /\ e \in Nat /\ i \in Nat /\ 1 <= i /\ i <= e - h + 1 /\ e < SeqCount /\ SeqCount \in Nat
    BY <1>2, <1>4, Numbers
  <2>2. i - 1 \in Nat /\ h + (i - 1) <= SeqCount /\ h + (i - 1) = h + i - 1 /\ h + i - 1 \in h .. e
    BY ONLY <2>1
  <2>3. Plus(Seqn(h), i - 1) = Seqn(h + (i - 1))
    BY <2>2, <1>2, PlusIs
  <2> QED BY <2>2, <2>3, <1>2
<1>8. \A x \in h .. e : x \in DOMAIN stream /\ Has(track, x) /\ Same(stream, x, h)
  <2>1. \A x \in h .. e : x \in h .. (e + 1) - 1
    BY <1>2, <1>4
  <2> QED BY <2>1, <1>3 DEF RunOf
<1>9. IsRun(p, h, e)
  <2>1. p = [i \in 1 .. e - h + 1 |-> RangeOf(track, track.header_sn, track.tail)[i].pkt]
    BY <1>6 DEF NextFrame, RangeOf
  <2>2. \A i \in 1 .. e - h + 1 : RangeOf(track, track.header_sn, track.tail)[i].pkt = h + i - 1
    BY <1>6, <1>7, <1>8 DEF RangeOf, Entry, Has, At, Spot
  <2> HIDE DEF p
  <2> QED BY <2>1, <2>2, <1>3 DEF IsRun
<1>10. \A x \in h .. e : Spot(x) \in Taken(track)
  <2>1. SUFFICES ASSUME NEW x \in h .. e PROVE Spot(x) \in Taken(track)
    OBVIOUS
  <2>2. x - h + 1 \in 1 .. e - h + 1 /\ h + (x - h + 1) - 1 = x
    BY <1>2, <1>4
  <2>3. Spot(x) = Index(Plus(track.header_sn, (x - h + 1) - 1))
    BY <2>2, <1>7 DEF Spot
  <2> DEFINE i == x - h + 1
  <2>4. i \in 1 .. Count(track.header_sn, track.tail) /\ Spot(x) = Index(Plus(track.header_sn, i - 1))
    BY <2>2, <2>3, <1>6
  <2> HIDE DEF i
  <2> QED BY <2>4 DEF Taken
<1>11. \A j \in Taken(track) : \E x \in h .. e : j = Spot(x)
  BY <1>6, <1>7 DEF Taken, Spot
<1>12. /\ v \in TrackRecord /\ v.header_sn = Plus(track.tail, 1) /\ v.lost_sn = track.lost_sn
       /\ \A i \in Slot : /\ v.cache[i].pkt = track.cache[i].pkt
                          /\ i \in Taken(track) => ~v.cache[i].in_use
                          /\ i \notin Taken(track) => v.cache[i] = track.cache[i]
  BY <1>1, PackedIs
<1>13. SlotsOf(v, received, o) /\ FieldsOf(stream, v)
  <2>1. Sound(frames, stream, v, received, o, NoPacket)
    BY SoundTurn
  <2> HIDE DEF v, o
  <2> QED BY <2>1 DEF Sound
<1> HIDE DEF p, v, o
<1>14. Plus(track.tail, 1) = Seqn(e + 1) /\ e + 1 \in 1 .. SeqCount /\ e + 1 \in Nat
  <2>1. e + 1 <= SeqCount /\ e + 1 \in 1 .. SeqCount /\ 1 \in Nat /\ e + 1 \in Nat
    BY <1>4, Numbers
  <2> QED BY <2>1, <1>2, <1>4, PlusIs
<1>15. Hd(v) = e + 1 /\ Ls(v) = Ls(track)
  BY <1>12, <1>14, SeqnIs DEF Hd, Ls
<1>16. ASSUME NEW i \in Slot, v.cache[i].in_use
       PROVE  v.cache[i] = track.cache[i] /\ v.cache[i].pkt \notin h .. e
  <2>1. i \notin Taken(track) /\ v.cache[i] = track.cache[i]
    BY <1>12, <1>16
  <2>2. Spot(track.cache[i].pkt) = i
    BY <2>1, <1>1, <1>16 DEF SlotsOf
  <2> QED BY <2>1, <2>2, <1>10
<1>17. ASSUME NEW x \in 1 .. SeqCount, Has(track, x), x \notin h .. e PROVE Has(v, x)
  <2>1. Spot(x) \in Slot
    BY SpotType
  <2>2. Spot(x) \notin Taken(track)
    <3>1. SUFFICES ASSUME NEW y \in h .. e, Spot(x) = Spot(y) PROVE FALSE
      BY <1>11
    <3>2. track.cache[Spot(x)].pkt = x /\ track.cache[Spot(y)].pkt = y
      BY <1>8, <1>17 DEF Has, At
    <3> QED BY <3>1, <3>2, <1>17
  <2>3. v.cache[Spot(x)] = track.cache[Spot(x)]
    BY <2>1, <2>2, <1>12
  <2> QED BY <2>3, <1>17 DEF Has, At
<1>18. \A x \in h .. e : x \in received /\ Same(stream, x, h) /\ ~InOut(out, x)
  <2>1. e + 1 \in Nat /\ e + 1 <= SeqCount + 1 /\ (e + 1) - 1 = e
    BY <1>4, Numbers
  <2>2. \A x \in h .. (e + 1) - 1 : x \in received /\ ~InOut(out, x)
    BY <2>1, <1>1, <1>2, <1>3, RunReceived
  <2> QED BY <2>1, <2>2, <1>8
<1>19. \A m \in received : m \in Nat /\ m < SeqCount
  BY <1>1, StreamIs
<1>20. PICK b \in Nat : /\ e + 1 <= b /\ b <= SeqCount /\ b - (e + 1) < CacheLen /\ \A m \in received : m < b
                        /\ b <= CacheLen \/ (~stray /\ b < (e + 1) + CacheLen)
  <2>1. e \in received
    BY <1>2, <1>3, <1>4, <1>18
  <2>2. CASE \A m \in received : m < CacheLen
    <3>1. e < CacheLen
      BY <2>1, <2>2
    <3>2. e + 1 <= CacheLen /\ CacheLen <= SeqCount /\ CacheLen - (e + 1) < CacheLen /\ CacheLen \in Nat
      BY <3>1, <1>4, Numbers
    <3> QED BY <3>2, <2>2
  <2>3. CASE ~stray
    <3> DEFINE b == IF h + CacheLen - 1 <= SeqCount THEN h + CacheLen - 1 ELSE SeqCount
    <3>1. b \in Nat /\ b <= SeqCount /\ b <= h + CacheLen - 1
      BY <1>2, Numbers
    <3>2. \A m \in received : m + 1 <= b
      <4>1. \A m \in received : m + 1 < h + CacheLen
        BY <1>3, <2>3
      <4> QED BY <4>1, <1>2, <1>19, Numbers
    <3>3. e + 1 <= b
      BY <2>1, <3>2
    <3> HIDE DEF b
    <3>4. b - (e + 1) < CacheLen /\ b < (e + 1) + CacheLen /\ \A m \in received : m < b
      BY <3>1, <3>2, <1>2, <1>3, <1>4, <1>19, Numbers
    <3> QED BY <2>3, <3>1, <3>3, <3>4
  <2> QED BY <2>2, <2>3 DEF Unmet
<1>21. Clean(stream, v, e + 1, b) /\ ~At(v, b).in_use
  <2>1. ASSUME ~(b <= CacheLen), NEW i \in Slot, v.cache[i].in_use PROVE e + 1 <= v.cache[i].pkt
    <3>1. v.cache[i] = track.cache[i] /\ v.cache[i].pkt \notin h .. e
      BY <2>1, <1>16
    <3>2. h <= v.cache[i].pkt
      BY <2>1, <3>1, <1>20 DEF Core, Window, h
    <3>3. v.cache[i].pkt \in Nat
      BY <2>1, <1>13, <1>19 DEF SlotsOf
    <3> QED BY <3>1, <3>2, <3>3, <1>2, <1>4
  <2>2. 1 <= e + 1
    BY <1>4
  <2> QED BY <2>1, <2>2, <1>1, <1>12, <1>13, <1>14, <1>20, CleanIs
<1>22. Outcome(stream, v, Advance(v, Plus(track.tail, 1)), e + 1, e + 1)
  <2>1. RunOf(stream, v, e + 1, e + 1)
    <3>1. \A x \in e + 1 .. (e + 1) - 1 : FALSE
      BY <1>4
    <3> QED BY <3>1 DEF RunOf
  <2>2. 1 <= e + 1 /\ e + 1 <= e + 1
    BY <1>4
  <2>3. v.header_sn = Seqn(e + 1)
    BY <1>12, <1>14
  <2> DEFINE a == e + 1
  <2>4. a \in Nat /\ 1 <= a /\ a <= a /\ a <= b /\ b - a < CacheLen /\ v.header_sn = Seqn(a) /\ RunOf(stream, v, a, a)
        /\ Clean(stream, v, a, b) /\ ~At(v, b).in_use
    BY <2>1, <2>2, <2>3, <1>14, <1>20, <1>21
  <2> HIDE DEF a
  <2>5. Outcome(stream, v, Advance(v, Seqn(a)), a, a)
    BY <2>4, <1>1, <1>12, <1>13, <1>20, AdvanceIs
  <2> QED BY <2>5, <1>14 DEF a
<1>23. 1 <= h /\ h <= e
  BY <1>2, <1>3
<1> QED BY <1>2, <1>3, <1>4, <1>9, <1>12, <1>13, <1>15, <1>16, <1>17, <1>18, <1>22, <1>23 DEF h, e, p, v, o

LEMMA CoreTurn ==
    ASSUME Sound(frames, stream, track, received, out, came),
           Core(stream, track, received, out, came, stray), track.tail # NoTail, Unmet(stray, received)
    PROVE  Core(stream, Advance(Packed(track), Plus(track.tail, 1)), received,
                Append(out, NextFrame(track)), NoPacket, stray)
<1> DEFINE h == Hd(track)
           e == Tl(track)
           p == NextFrame(track)
           v == Packed(track)
           w == Advance(v, Plus(track.tail, 1))
           o == Append(out, p)
<1>1. /\ Shaped(frames, stream) /\ track \in TrackRecord /\ received \subseteq DOMAIN stream
      /\ out \in Seq(Seq(Nat))
  BY DEF Sound, OutTyped
<1>2. /\ h \in Nat /\ e \in Nat /\ 1 <= h /\ h <= e /\ e < SeqCount /\ e \in DOMAIN stream
      /\ IsRun(p, h, e) /\ (\A x \in h .. e : x \in received /\ Same(stream, x, h) /\ ~InOut(out, x))
      /\ v \in TrackRecord /\ Hd(v) = e + 1 /\ Ls(v) = Ls(track)
      /\ SlotsOf(v, received, o)
      /\ (\A i \in Slot : /\ v.cache[i].in_use => v.cache[i].pkt \notin h .. e
                          /\ v.cache[i].in_use => v.cache[i] = track.cache[i])
      /\ Outcome(stream, v, w, e + 1, e + 1)
  BY TurnIs
<1>3. v.key_frame_ts # NoKey => v.key_frame_ts = track.key_frame_ts
  BY <1>1, PackedIs
<1>4. /\ LastIn(stream, e) /\ WholeFrom(stream, h)
      /\ ~stray => \A m \in received : m + 1 < h + CacheLen
      /\ CanCome(received, Ls(track)) => Ls(track) = e + 1
  BY DEF Core, TailInv
<1> HIDE DEF h, e, p, v, w
<1>5. /\ ToSet(p) = h .. e /\ p \in Seq(Nat) /\ Last(p) = e
  BY <1>2, RunSet
<1>6. /\ Len(out) \in Nat /\ DOMAIN o = DOMAIN out \cup {Len(out) + 1} /\ Len(o) = Len(out) + 1
      /\ \A j \in DOMAIN out : o[j] = out[j] /\ j # Len(out) + 1
      /\ o[Len(out) + 1] = p /\ o # << >> /\ Last(o) = p
  <2>1. /\ Len(out) \in Nat /\ DOMAIN o = 1 .. Len(out) + 1 /\ DOMAIN out = 1 .. Len(out) /\ Len(o) = Len(out) + 1
        /\ \A j \in DOMAIN out : o[j] = out[j]
        /\ o[Len(out) + 1] = p
    BY <1>1, <1>5
  <2>2. Last(o) = p
    BY <2>1 DEF Last
  <2>3. o # << >>
    <3>1. Len(out) + 1 \in DOMAIN o
      BY <2>1
    <3> HIDE DEF o
    <3> QED BY <3>1
  <2> HIDE DEF o
  <2>4. DOMAIN o = DOMAIN out \cup {Len(out) + 1} /\ \A j \in DOMAIN out : j # Len(out) + 1
    BY <2>1
  <2> QED BY <2>1, <2>2, <2>3, <2>4
<1>7. \A x : InOut(o, x) <=> InOut(out, x) \/ x \in h .. e
  BY <1>1, <1>5, InOutAppend
<1> HIDE DEF o
<1>8. OutInv(stream, received, o)
  <2>1. FrameOut(stream, received, p)
    BY <1>2, <1>4 DEF FrameOut
  <2>2. \A j \in DOMAIN o : FrameOut(stream, received, o[j])
    BY <2>1, <1>6 DEF Core, OutInv
  <2>3. ASSUME NEW j \in DOMAIN o, NEW l \in DOMAIN o, j # l, NEW x \in ToSet(o[j]), x \in ToSet(o[l])
        PROVE  FALSE
    <3>1. CASE j \in DOMAIN out /\ l \in DOMAIN out
      BY <3>1, <2>3, <1>6 DEF Core, OutInv
    <3>2. CASE j \in DOMAIN out /\ l = Len(out) + 1
      BY <3>2, <2>3, <1>2, <1>5, <1>6 DEF InOut
    <3>3. CASE l \in DOMAIN out /\ j = Len(out) + 1
      BY <3>3, <2>3, <1>2, <1>5, <1>6 DEF InOut
    <3> QED BY <3>1, <3>2, <3>3, <2>3, <1>6
  <2> QED BY <2>2, <2>3 DEF OutInv
<1>9. ASSUME w.cache = v.cache, Hd(w) = e + 1, w.key_frame_ts = v.key_frame_ts
      PROVE  Window(stream, w, received, stray) /\ KeyInv(stream, w, received, o)
  <2>1. e \in received /\ e \in h .. e /\ h \in h .. e
    BY <1>2
  <2>2. ASSUME ~stray PROVE Window(stream, w, received, stray)
    <3>1. ASSUME NEW i \in Slot, w.cache[i].in_use PROVE e + 1 <= w.cache[i].pkt
      <4>1. w.cache[i].pkt = track.cache[i].pkt /\ w.cache[i].pkt \notin h .. e /\ track.cache[i].in_use
        BY <1>2, <1>9, <3>1
      <4>2. h <= w.cache[i].pkt
        BY <4>1, <2>2 DEF Core, Window, h
      <4>3. w.cache[i].pkt \in Nat
        <5>1. track.cache[i].pkt \in received
          BY <4>1 DEF Sound, SlotsOf
        <5> QED BY <5>1, <4>1, <1>1, StreamIs
      <4> QED BY <4>1, <4>2, <4>3, <1>2
    <3>2. PICK m \in received : stream[m].key /\ m <= h /\ \A x \in m .. h - 1 : x \in received
      BY <2>1, <2>2 DEF Core, Window, h
    <3>3. m \in Nat /\ m <= e + 1
      BY <3>2, <1>1, <1>2, StreamIs
    <3>4. \A x \in m .. (e + 1) - 1 : x \in m .. h - 1 \/ x \in h .. e
      BY <3>3, <1>2
    <3>5. \A x \in m .. (e + 1) - 1 : x \in received
      BY <3>2, <3>4, <1>2
    <3> QED BY <3>1, <3>2, <3>3, <3>5, <1>9 DEF Window
  <2>3. KeyInv(stream, w, received, o)
    <3>1. SUFFICES ASSUME w.key_frame_ts # NoKey
                   PROVE  /\ \E r \in received : e + 1 <= r + 1
                          /\ \A m \in DOMAIN stream : stream[m].ts = w.key_frame_ts =>
                                m < e + 1 /\ (stream[m].nalu # "stap" => InOut(o, m))
      BY <1>9 DEF KeyInv
    <3>2. w.key_frame_ts = track.key_frame_ts /\ track.key_frame_ts # NoKey
      BY <3>1, <1>3, <1>9
    <3>3. e + 1 <= e + 1
      BY <1>2
    <3>4. ASSUME h \in DOMAIN stream, stream[h].ts = track.key_frame_ts, NEW m \in DOMAIN stream,
                 stream[m].ts = track.key_frame_ts
          PROVE  m < e + 1 /\ (stream[m].nalu # "stap" => InOut(o, m))
      <4>1. m \in FrameIn(stream, h) /\ m \in FrameIn(stream, e) /\ m \in Nat
        BY <3>4, <2>1, <1>1, <1>2, StreamIs DEF FrameIn, Same
      <4>2. m <= e /\ (stream[m].nalu # "stap" => h <= m)
        BY <4>1, <1>4 DEF LastIn, WholeFrom
      <4>3. stream[m].nalu # "stap" => m \in h .. e
        BY <4>1, <4>2, <1>2
      <4> QED BY <4>1, <4>2, <4>3, <1>2, <1>7
    <3>5. ASSUME NEW m \in DOMAIN stream, m < h, stream[m].nalu # "stap" => InOut(out, m)
          PROVE  m < e + 1 /\ (stream[m].nalu # "stap" => InOut(o, m))
      <4>1. m \in Nat
        BY <1>1, StreamIs
      <4>2. m < e + 1
        BY <4>1, <3>5, <1>2
      <4> QED BY <4>2, <3>5, <1>7
    <3>6. \/ h \in DOMAIN stream /\ stream[h].ts = track.key_frame_ts
          \/ \A m \in DOMAIN stream : stream[m].ts = track.key_frame_ts =>
                m < h /\ (stream[m].nalu # "stap" => InOut(out, m))
      BY <3>2 DEF Core, KeyInv, h
    <3> QED BY <3>2, <3>3, <3>4, <3>5, <3>6, <2>1
  <2>4. Window(stream, w, received, stray)
    BY <2>2 DEF Window
  <2> QED BY <2>3, <2>4
<1>10. e + 1 \in Nat /\ 1 <= e + 1 /\ e + 1 <= SeqCount
  BY <1>2, Numbers
<1>11. ASSUME NEW x \in Nat, WaitsFor(stream, v, w, e + 1, e + 1, x)
       PROVE  Core(stream, w, received, o, NoPacket, stray)
  <2>1. e + 1 <= x /\ RunOf(stream, v, e + 1, x)
    BY <1>11 DEF WaitsFor
  <2>2. /\ w.cache = v.cache /\ w.tail = NoTail /\ Ls(w) = x /\ Hd(w) = e + 1
        /\ w.key_frame_ts = v.key_frame_ts
    <3>1. 1 <= x
      BY <2>1, <1>10
    <3> QED BY <3>1, <1>2, <1>11, WaitsForIs
  <2>3. RunOf(stream, w, e + 1, x)
    BY <2>1, <2>2 DEF RunOf, Has, At
  <2>4. Waits(stream, w, received)
    BY <2>1, <2>2, <2>3 DEF Waits
  <2>5. TailInv(stream, w, received, o, NoPacket, stray)
    BY <2>2 DEF TailInv
  <2> QED BY <2>2, <2>4, <2>5, <1>8, <1>9 DEF Core
<1>12. ASSUME NEW x \in Nat, EndsAt(stream, v, w, e + 1, e + 1, x)
       PROVE  Core(stream, w, received, o, NoPacket, stray)
  <2>1. x \in DOMAIN stream /\ e + 1 <= x /\ RunOf(stream, v, e + 1, x + 1) /\ LastIn(stream, x)
    BY <1>12 DEF EndsAt
  <2>2. /\ w.cache = v.cache /\ Ls(w) = Ls(track) /\ Hd(w) = e + 1 /\ w.key_frame_ts = v.key_frame_ts
        /\ w.tail = NoTail \/ (w.tail # NoTail /\ Tl(w) = x /\ WholeFrom(stream, e + 1))
    BY <1>1, <1>2, <1>12, EndsAtIs
  <2>3. e + 1 \in received
    <3>1. x < SeqCount
      BY <2>1, <1>1, StreamIs
    <3>2. x + 1 \in Nat /\ x + 1 <= SeqCount + 1 /\ e + 1 \in e + 1 .. (x + 1) - 1
      BY <3>1, <2>1, <1>10, Numbers
    <3> QED BY <3>2, <2>1, <1>2, <1>10, RunReceived
  <2>4. ~CanCome(received, Ls(w))
    BY <2>2, <2>3, <1>4 DEF CanCome
  <2>5. Waits(stream, w, received)
    BY <2>4 DEF Waits
  <2>6. TailInv(stream, w, received, o, NoPacket, stray)
    <3>1. RunOf(stream, w, e + 1, x + 1)
      BY <2>1, <2>2 DEF RunOf, Has, At
    <3>2. ASSUME ~stray, NEW m \in received PROVE m + 1 < e + 1 + CacheLen
      <4>1. m \in Nat /\ m + 1 < h + CacheLen
        BY <3>2, <1>1, <1>4, StreamIs
      <4> QED BY <4>1, <1>2, Numbers
    <3> QED BY <2>1, <2>2, <2>4, <3>1, <3>2, <1>5, <1>6 DEF TailInv
  <2> QED BY <2>2, <2>5, <2>6, <1>8, <1>9 DEF Core
<1>13. Core(stream, w, received, o, NoPacket, stray)
  BY <1>2, <1>11, <1>12 DEF Outcome
<1> QED BY <1>13 DEF w, v, o, p

LEMMA CoreGrown ==
    ASSUME Sound(frames, stream, track, received, out, came),
           Core(stream, track, received, out, came, stray), NEW s2, Grown(stream, s2)
    PROVE  Core(s2, track, received, out, came, stray)
<1>1. received \subseteq DOMAIN stream
  BY DEF Sound
<1>2. /\ DOMAIN stream \subseteq DOMAIN s2 /\ \A n \in DOMAIN stream : s2[n] = stream[n]
      /\ \A n \in DOMAIN s2, m \in DOMAIN stream : s2[n].ts = stream[m].ts => n \in DOMAIN stream
  BY DEF Grown
<1>3. \A n \in DOMAIN stream : FrameIn(s2, n) = FrameIn(stream, n)
  BY <1>2 DEF FrameIn
<1>4. ASSUME NEW n \in DOMAIN stream
      PROVE  /\ LastIn(stream, n) => LastIn(s2, n)
             /\ WholeFrom(stream, n) => WholeFrom(s2, n)
  <2>1. \A m \in FrameIn(stream, n) : s2[m] = stream[m]
    BY <1>2 DEF FrameIn
  <2> QED BY <2>1, <1>3 DEF LastIn, WholeFrom
<1>5. ASSUME NEW a \in Nat, NEW b \in Nat, RunOf(stream, track, a, b) PROVE RunOf(s2, track, a, b)
  <2>1. SUFFICES ASSUME NEW x \in a .. b - 1 PROVE x \in DOMAIN s2 /\ Has(track, x) /\ Same(s2, x, a)
    BY DEF RunOf
  <2>2. x \in DOMAIN stream /\ Has(track, x) /\ Same(stream, x, a)
    BY <1>5 DEF RunOf
  <2>3. a \in a .. b - 1
    OBVIOUS
  <2>4. a \in DOMAIN stream
    BY <2>3, <1>5 DEF RunOf
  <2> QED BY <2>2, <2>4, <1>2 DEF Same
<1>6. Hd(track) \in Nat /\ Ls(track) \in Nat
  <2>1. track \in TrackRecord
    BY DEF Sound
  <2> QED BY <2>1, NumbersOf, Numbers
<1>7. Window(s2, track, received, stray)
  BY <1>1, <1>2 DEF Core, Window
<1>8. KeyInv(s2, track, received, out)
  <2>1. track.key_frame_ts # NoKey => \E n \in DOMAIN stream : stream[n].ts = track.key_frame_ts
    BY <1>1 DEF Sound
  <2>2. track.key_frame_ts # NoKey => \A m \in DOMAIN s2 : s2[m].ts = track.key_frame_ts => m \in DOMAIN stream
    BY <2>1, <1>2
  <2> QED BY <2>2, <1>2 DEF Core, KeyInv
<1>9. Waits(s2, track, received)
  BY <1>5, <1>6 DEF Core, Waits
<1>10. TailInv(s2, track, received, out, came, stray)
  <2>1. SUFFICES ASSUME track.tail # NoTail
                 PROVE  /\ Tl(track) \in DOMAIN s2 /\ RunOf(s2, track, Hd(track), Tl(track) + 1)
                        /\ LastIn(s2, Tl(track)) /\ WholeFrom(s2, Hd(track))
    BY DEF Core, TailInv
  <2>2. /\ Tl(track) \in DOMAIN stream /\ Hd(track) <= Tl(track) /\ RunOf(stream, track, Hd(track), Tl(track) + 1)
        /\ LastIn(stream, Tl(track)) /\ WholeFrom(stream, Hd(track))
    BY <2>1 DEF Core, TailInv
  <2>3. Hd(track) \in DOMAIN stream /\ Tl(track) + 1 \in Nat
    <3>1. Tl(track) \in Nat
      BY <2>2, StreamIs DEF Sound
    <3>2. Hd(track) \in Hd(track) .. (Tl(track) + 1) - 1
      BY <3>1, <2>2, <1>6
    <3> QED BY <3>1, <3>2, <2>2 DEF RunOf
  <2> QED BY <2>2, <2>3, <1>2, <1>4, <1>5, <1>6
<1>11. OutInv(s2, received, out)
  <2>1. ASSUME NEW p, FrameOut(stream, received, p) PROVE FrameOut(s2, received, p)
    <3>1. PICK a \in Nat, e \in Nat : /\ IsRun(p, a, e) /\ LastIn(stream, e) /\ WholeFrom(stream, a)
                                      /\ \A x \in a .. e : x \in received /\ Same(stream, x, a)
      BY <2>1 DEF FrameOut
    <3>2. a \in a .. e /\ e \in a .. e
      BY <3>1 DEF IsRun
    <3>3. \A x \in a .. e : x \in DOMAIN stream /\ Same(s2, x, a)
      BY <3>1, <3>2, <1>1, <1>2 DEF Same
    <3>4. LastIn(s2, e) /\ WholeFrom(s2, a)
      BY <3>1, <3>2, <3>3, <1>4
    <3> QED BY <3>1, <3>3, <3>4 DEF FrameOut
  <2> QED BY <2>1 DEF Core, OutInv
<1> QED BY <1>7, <1>8, <1>9, <1>10, <1>11 DEF Core
-----------------------------------------------------------------------------
(* The inductive invariant: the types hold always, the rest as long as no  *)
(* entry is met again with an old packet in it.                            *)

SoundNow == Sound(frames, stream, track, received, out, came)
CoreNow == Core(stream, track, received, out, came, stray)
IInv == SoundNow /\ (NoRelics => CoreNow)

LEMMA UnmetIs == NoRelics <=> Unmet(stray, received)
BY DEF NoRelics, Unmet

LEMMA Start == Init => IInv
<1> SUFFICES ASSUME Init PROVE SoundNow /\ CoreNow
  BY DEF IInv
<1>1. /\ frames = 0 /\ stream = << >> /\ out = << >> /\ received = {} /\ came = NoPacket
      /\ track = [header_sn |-> 0, lost_sn |-> 0, key_frame_ts |-> NoKey,
                  cache |-> [s \in Slot |-> Empty], tail |-> NoTail]
  BY DEF Init
<1>2. Empty \in EntryRecord /\ ~Empty.in_use /\ Empty.pkt = NoPacket
  <2>1. NoPacket \in Nat
    BY Numbers
  <2> QED BY <2>1 DEF Empty, EntryRecord
<1>3. /\ track \in TrackRecord /\ track.tail = NoTail /\ track.key_frame_ts = NoKey
      /\ track.header_sn = track.lost_sn /\ \A i \in Slot : track.cache[i] = Empty
  <2> DEFINE c == [s \in Slot |-> Empty]
  <2>1. c \in [Slot -> EntryRecord] /\ \A i \in Slot : c[i] = Empty
    BY <1>2
  <2>2. 0 \in SeqNo /\ NoKey \in Int
    BY Numbers
  <2>3. track = [header_sn |-> 0, lost_sn |-> 0, key_frame_ts |-> NoKey, cache |-> c, tail |-> NoTail]
    BY <1>1
  <2> HIDE DEF c
  <2>4. track \in TrackRecord
    BY <2>1, <2>2, <2>3, ZenonT(30) DEF TrackRecord
  <2> QED BY <2>1, <2>3, <2>4
<1>4. SoundNow
  <2>1. stream \in Seq(Packet) /\ Len(stream) = 0 /\ DOMAIN stream = {}
    BY <1>1
  <2>2. Shaped(0, stream)
    BY <2>1, Numbers DEF Shaped, OrderedIn, FramedIn
  <2>3. OutTyped(received, out)
    BY <1>1 DEF OutTyped
  <2>4. FieldsOf(stream, track) /\ SlotsOf(track, received, out)
    BY <1>2, <1>3 DEF FieldsOf, SlotsOf
  <2>5. 0 \in 0 .. MaxFrames
    BY H264Assumption
  <2> QED BY <2>2, <2>3, <2>4, <2>5, <1>1, <1>3 DEF SoundNow, Sound
<1>5. CoreNow
  <2>1. Hd(track) = Ls(track) /\ Hd(track) \in Nat
    BY <1>3, NumbersOf, Numbers DEF Hd, Ls
  <2>2. Hd(track) <= Ls(track) /\ RunOf(stream, track, Hd(track), Ls(track))
    <3>1. \A x \in Hd(track) .. Ls(track) - 1 : FALSE
      BY <2>1
    <3> QED BY <2>1, <3>1 DEF RunOf
  <2>3. Window(stream, track, received, stray)
    BY <1>1, <1>2, <1>3 DEF Window
  <2>4. OutInv(stream, received, out)
    BY <1>1 DEF OutInv
  <2> QED BY <2>2, <2>3, <2>4, <1>3 DEF CoreNow, Core, KeyInv, Waits, TailInv
<1> QED BY <1>4, <1>5

LEMMA PushStep ==
    ASSUME IInv, NEW f \in Frame, Push(f)
    PROVE  IInv'
<1>1. /\ track' = track /\ received' = received /\ out' = out /\ came' = came /\ stray' = stray
  BY DEF Push, netVars
<1>2. SoundNow' /\ Grown(stream, stream')
  BY PushSound DEF IInv, SoundNow
<1>3. CoreNow => Core(stream', track, received, out, came, stray)
  BY <1>2, CoreGrown DEF IInv, SoundNow, CoreNow
<1>4. NoRelics' <=> NoRelics
  BY <1>1 DEF NoRelics
<1> QED BY <1>1, <1>2, <1>3, <1>4 DEF IInv, CoreNow

LEMMA OnRtpStep ==
    ASSUME IInv, NEW n \in DOMAIN stream, on_rtp(n)
    PROVE  IInv'
<1>1. /\ track.tail = NoTail /\ n \notin received /\ (\A m \in received : m < n + MaxDelay)
      /\ track' = IF stream[n].key THEN KeyPath(track, n) ELSE DeltaPath(track, n)
      /\ received' = received \cup {n} /\ came' = n /\ stray' = (stray \/ Astray(n))
      /\ stream' = stream /\ out' = out
  BY DEF on_rtp
<1>2. SoundNow'
  BY OnRtpSound DEF IInv, SoundNow
<1>3. ASSUME NoRelics' PROVE CoreNow'
  <2>1. Unmet(stray \/ Astray(n), received \cup {n})
    BY <1>1, <1>3 DEF NoRelics, Unmet
  <2>2. NoRelics
    BY <2>1 DEF NoRelics, Unmet
  <2>3. Sound(frames, stream, track, received, out, came) /\ Core(stream, track, received, out, came, stray)
    BY <2>2 DEF IInv, SoundNow, CoreNow
  <2>4. CanCome(received, n)
    BY <1>1 DEF CanCome
  <2> DEFINE w == track'
  <2>5. w = IF stream[n].key THEN KeyPath(track, n) ELSE DeltaPath(track, n)
    BY <1>1
  <2> HIDE DEF w
  <2>6. \/ StepStart(track, n, w) \/ StepBack(track, n, w) \/ StepHit(track, n, w)
        \/ StepStore(track, n, w, stray \/ Astray(n))
    BY <2>1, <2>3, <2>4, <2>5, <1>1, OnRtpIs
  <2>7. Core(stream, w, received \cup {n}, out, n, stray \/ Astray(n))
    BY <2>3, <2>4, <2>6, <1>1, CoreStart, CoreBack, CoreHit, CoreStore
  <2> QED BY <2>7, <1>1 DEF CoreNow, w
<1> QED BY <1>2, <1>3 DEF IInv

LEMMA TurnStep ==
    ASSUME IInv, packet_video
    PROVE  IInv'
<1>1. /\ track.tail # NoTail /\ out' = Append(out, NextFrame(track)) /\ came' = NoPacket
      /\ track' = Advance(Packed(track), Plus(track.tail, 1))
      /\ stream' = stream /\ received' = received /\ stray' = stray
  BY DEF packet_video, netVars
<1>2. SoundNow'
  BY PacketVideoSound DEF IInv, SoundNow
<1>3. NoRelics' <=> NoRelics
  BY <1>1 DEF NoRelics
<1>4. ASSUME NoRelics PROVE CoreNow'
  <2>1. Core(stream, Advance(Packed(track), Plus(track.tail, 1)), received,
             Append(out, NextFrame(track)), NoPacket, stray)
    BY <1>1, <1>4, UnmetIs, CoreTurn DEF IInv, SoundNow, CoreNow
  <2> QED BY <2>1, <1>1 DEF CoreNow
<1> QED BY <1>2, <1>3, <1>4 DEF IInv

LEMMA Step == IInv /\ [Next]_vars => IInv'
<1> SUFFICES ASSUME IInv, [Next]_vars PROVE IInv'
  OBVIOUS
<1>1. ASSUME NEW f \in Frame, Push(f) PROVE IInv'
  BY <1>1, PushStep
<1>2. ASSUME NEW n \in DOMAIN stream, on_rtp(n) PROVE IInv'
  BY <1>2, OnRtpStep
<1>3. CASE packet_video
  BY <1>3, TurnStep
<1>4. CASE UNCHANGED vars
  BY <1>4 DEF vars, netVars, IInv, SoundNow, CoreNow, NoRelics
<1> QED BY <1>1, <1>2, <1>3, <1>4 DEF Next

LEMMA Invariant == Spec => []IInv
BY Start, Step, PTL DEF Spec
-----------------------------------------------------------------------------
(* What follows of it.                                                     *)

LEMMA TypeIs == IInv => TypeOK
<1> SUFFICES ASSUME IInv PROVE TypeOK
  OBVIOUS
<1>1. /\ frames \in 0 .. MaxFrames /\ Shaped(frames, stream) /\ track \in TrackRecord
      /\ track.key_frame_ts = NoKey \/ \E n \in received : stream[n].ts = track.key_frame_ts
      /\ received \subseteq DOMAIN stream /\ came \in {NoPacket} \cup received
      /\ OutTyped(received, out) /\ SlotsOf(track, received, out)
  BY DEF IInv, SoundNow, Sound
<1>2. track.header_sn \in SeqNo /\ track.lost_sn \in SeqNo /\ track.tail \in SeqNo \cup {NoTail}
  BY <1>1, ZenonT(30) DEF TrackRecord
<1>3. track.key_frame_ts \in {NoKey} \cup {stream[n].ts : n \in DOMAIN stream}
  BY <1>1
<1>4. out \in Seq(Seq({NoPacket} \cup DOMAIN stream))
  <2> DEFINE S == {NoPacket} \cup DOMAIN stream
  <2>1. out \in Seq(Seq(Nat)) /\ \A j \in DOMAIN out : \A i \in DOMAIN out[j] : out[j][i] \in S
    BY <1>1 DEF OutTyped
  <2> HIDE DEF S
  <2>2. ASSUME NEW j \in DOMAIN out PROVE out[j] \in Seq(S)
    <3>1. out[j] \in Seq(Nat) /\ \A i \in DOMAIN out[j] : out[j][i] \in S
      BY <2>1
    <3> DEFINE p == out[j]
    <3>2. p \in Seq(Nat) /\ \A i \in DOMAIN p : p[i] \in S
      BY <3>1
    <3> HIDE DEF p
    <3>3. p \in Seq(S)
      BY <3>2, SeqDef
    <3> QED BY <3>3 DEF p
  <2>3. out \in Seq(Seq(S))
    BY <2>1, <2>2
  <2> QED BY <2>3 DEF S
<1> QED BY <1>1, <1>2, <1>3, <1>4 DEF TypeOK, SlotsOf

\* The packets of a frame that has gone out.
LEMMA OutIs ==
    ASSUME IInv, NoRelics, NEW k \in DOMAIN out
    PROVE  \E a, e \in Nat :
               /\ a <= e /\ IsRun(out[k], a, e) /\ LastIn(stream, e) /\ WholeFrom(stream, a)
               /\ ToSet(out[k]) = a .. e /\ out[k][1] = a /\ Last(out[k]) = e /\ out[k] \in Seq(Nat)
               /\ DOMAIN out[k] = 1 .. e - a + 1
               /\ \A i \in DOMAIN out[k] : out[k][i] = a + i - 1 /\ out[k][i] \in a .. e
               /\ \A x \in a .. e : x \in received /\ x \in DOMAIN stream /\ Same(stream, x, a)
<1>1. PICK a \in Nat, e \in Nat :
          /\ IsRun(out[k], a, e) /\ LastIn(stream, e) /\ WholeFrom(stream, a)
          /\ \A x \in a .. e : x \in received /\ Same(stream, x, a)
  BY DEF IInv, CoreNow, Core, OutInv, FrameOut
<1>2. received \subseteq DOMAIN stream
  BY DEF IInv, SoundNow, Sound
<1>3. a <= e
  BY <1>1 DEF IsRun
<1>4. /\ ToSet(out[k]) = a .. e /\ out[k][1] = a /\ Last(out[k]) = e /\ out[k] \in Seq(Nat)
      /\ DOMAIN out[k] = 1 .. e - a + 1
      /\ \A i \in DOMAIN out[k] : out[k][i] = a + i - 1 /\ out[k][i] \in a .. e
  BY <1>1, RunSet
<1> QED BY <1>1, <1>2, <1>3, <1>4

LEMMA NotMixedIs == IInv => NotMixed
<1> SUFFICES ASSUME IInv, NoRelics, NEW k \in DOMAIN out, NEW i \in DOMAIN out[k], NEW j \in DOMAIN out[k]
             PROVE  stream[out[k][i]].ts = stream[out[k][j]].ts
  BY DEF NotMixed
<1>1. PICK a \in Nat, e \in Nat :
          /\ \A x \in DOMAIN out[k] : out[k][x] \in a .. e
          /\ \A x \in a .. e : Same(stream, x, a)
  BY OutIs
<1> QED BY <1>1 DEF Same

LEMMA WholeIs == IInv => Whole
<1> SUFFICES ASSUME IInv, NoRelics, NEW k \in DOMAIN out, NEW i \in DOMAIN out[k],
                    NEW m \in FrameOf(out[k][i]), stream[m].nalu # "stap"
             PROVE  m \in ToSet(out[k])
  BY DEF Whole
<1>1. PICK a \in Nat, e \in Nat :
          /\ a <= e /\ LastIn(stream, e) /\ WholeFrom(stream, a) /\ ToSet(out[k]) = a .. e
          /\ \A x \in DOMAIN out[k] : out[k][x] \in a .. e
          /\ \A x \in a .. e : Same(stream, x, a)
  BY OutIs
<1>2. Same(stream, out[k][i], a) /\ Same(stream, e, a)
  BY <1>1
<1>3. m \in FrameIn(stream, a) /\ m \in FrameIn(stream, e)
  BY <1>2 DEF FrameOf, FrameIn, Same
<1>4. m \in Nat
  BY StreamIs DEF IInv, SoundNow, Sound, FrameOf
<1>5. m \in a .. e
  BY <1>1, <1>3, <1>4 DEF LastIn, WholeFrom
<1> QED BY <1>1, <1>5

LEMMA OncePerPacketIs == IInv => OncePerPacket
<1> SUFFICES ASSUME IInv, NoRelics, NEW k \in DOMAIN out, NEW l \in DOMAIN out,
                    NEW i \in DOMAIN out[k], NEW j \in DOMAIN out[l], out[k][i] = out[l][j]
             PROVE  k = l /\ i = j
  BY DEF OncePerPacket
<1>1. out[k][i] \in ToSet(out[k]) /\ out[k][i] \in ToSet(out[l])
  BY DEF ToSet
<1>2. k = l
  BY <1>1 DEF IInv, CoreNow, Core, OutInv
<1>3. PICK a \in Nat, e \in Nat :
          /\ DOMAIN out[k] = 1 .. e - a + 1
          /\ \A x \in DOMAIN out[k] : out[k][x] = a + x - 1
  BY OutIs
<1>4. i \in Int /\ j \in Int /\ a + i - 1 = a + j - 1
  BY <1>2, <1>3
<1> QED BY <1>2, <1>4

-----------------------------------------------------------------------------
(* What follows for every behaviour.                                       *)

\* Whatever the network does, header_sn, lost_sn and the entries of the cache of
\* YangPlayTrackH264 stay what their types say, and an entry in use holds a
\* packet that was received.
THEOREM TypeCorrect == Spec => []TypeOK
BY Invariant, TypeIs, PTL

\* yang_playtrackH264_packet_video hands over packets of one time stamp only:
\* the walk of yang_playtrackH264_find_next_lost_sn ends where another frame
\* begins.
THEOREM FramesNotMixed == Spec => []NotMixed
BY Invariant, NotMixedIs, PTL

\* A frame that goes out lacks no packet but parameter sets: where it starts,
\* header_sn, is the first of its packets, and its last one is the last of the
\* frame as yang_playtrackH264_check_frame_complete has counted the fragments.
THEOREM FramesWhole == Spec => []Whole
BY Invariant, WholeIs, PTL

\* No packet goes out twice, as yang_playtrackH264_packet_video gives the
\* entries of a frame back and header_sn moves past them, or back only to
\* packets of a key frame that has not gone out.
THEOREM PacketsOnce == Spec => []OncePerPacket
BY Invariant, OncePerPacketIs, PTL
=============================================================================
