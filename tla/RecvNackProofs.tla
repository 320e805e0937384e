--------------------------- MODULE RecvNackProofs --------------------------
(***************************************************************************)
(* What module RecvNack checks for five packets, proved for every width of *)
(* the sequence numbers, every first number and length of the list and all *)
(* the intervals, as long as the packets of a run are no more than Half,   *)
(* which is what a distance of sequence numbers can tell apart.            *)
(***************************************************************************)
EXTENDS RecvNack, FiniteSetTheorems, WellFoundedInduction, TLAPS

\* The inductive invariant.  The window is that of the packets low..top, and
\* without one nothing is listed, requested or known to be received.
WindowInv ==
    rtp.contexttialized =>
        low \in Packet /\ low <= top /\ rtp.begin = Seqn(low) /\ rtp.end = Seqn(top + 1)
IdleInv == ~rtp.contexttialized => queue = << >> /\ nacks = {} /\ seen = {}

\* The list holds packets older than the newest one, which none received is beyond.
ListInv == \A s \in DOMAIN queue : \E m \in Packet : m < top /\ s = Seqn(m)
SeenInv == \A n \in seen : n <= top

\* An entry that the loop skipped when it timed out is dropped after newer ones,
\* and begin moves back to the packet above it.  So nothing may be forgotten from
\* the oldest listed packet on, which may be below begin.
CoverInv ==
    \A k \in Packet :
        /\ rtp.contexttialized /\ k <= top
        /\ low <= k \/ \E m \in Packet : m <= k /\ Listed(m)
        => k \in seen \/ Listed(k) \/ k \in givenUp

ClockInv == now > 0

IInv ==
    /\ TypeOK /\ WindowInv /\ IdleInv /\ ListInv /\ SeenInv /\ CoverInv
    /\ NoSpuriousNack /\ QueueBounded /\ Paced /\ ClockInv
-----------------------------------------------------------------------------
(* Sequence numbers of the packets of a run.                               *)

Index == 0 .. Horizon + 1

LEMMA Numbers ==
    /\ Half \in Nat /\ Half > 0 /\ SeqCount = 2 * Half /\ Base \in Nat /\ Base < SeqCount
    /\ Horizon \in Nat /\ Horizon < Half
BY HalfAssumption, RecvNackAssumption DEF SeqCount, SeqNo

LEMMA SeqnIs ==
    ASSUME NEW m \in Index
    PROVE  Seqn(m) \in SeqNo /\ IndexOf(Seqn(m)) = m
BY Numbers DEF Index, Seqn, IndexOf, Steps, SeqNo

LEMMA SeqnOnce ==
    ASSUME NEW a \in Index, NEW b \in Index, Seqn(a) = Seqn(b)
    PROVE  a = b
BY SeqnIs

LEMMA SuccIs ==
    ASSUME NEW m \in Packet
    PROVE  Succ(Seqn(m)) = Seqn(m + 1)
BY Numbers DEF Packet, Seqn, Succ

\* Two of them are as far apart as their sequence numbers say.
LEMMA DistIs ==
    ASSUME NEW a \in Index, NEW b \in Index, b - a < Half
    PROVE  Dist(Seqn(a), Seqn(b)) = b - a
<1>1. /\ a \in Nat /\ b \in Nat /\ a <= Half /\ b <= Half
  BY Numbers DEF Index
<1> QED BY <1>1, Numbers DEF Seqn, Dist

\* A range of sequence numbers is the range of the packets.
LEMMA RangeIs ==
    ASSUME NEW a \in Index, NEW b \in Index, a <= b
    PROVE  SeqRange(Seqn(a), Seqn(b)) = {Seqn(m) : m \in a .. b - 1}
<1>1. a \in Nat /\ b \in Nat /\ a <= Half /\ b <= Half
  BY Numbers DEF Index
<1>2. Steps(Seqn(a), Seqn(b)) = b - a
  BY <1>1, Numbers DEF Seqn, Steps
<1>3. ASSUME NEW m \in a .. b - 1
      PROVE  Seqn(m) \in SeqNo /\ Steps(Seqn(a), Seqn(m)) < b - a
  BY <1>1, Numbers DEF Seqn, Steps, SeqNo
<1>4. ASSUME NEW s \in SeqNo, Steps(Seqn(a), s) < b - a
      PROVE  \E m \in a .. b - 1 : s = Seqn(m)
  <2>1. s \in Nat /\ s < SeqCount
    BY Numbers DEF SeqNo
  <2> DEFINE m == a + Steps(Seqn(a), s)
  <2>2. m \in a .. b - 1
    BY <1>1, <1>4, <2>1, Numbers DEF Steps, Seqn
  <2>3. s = Seqn(m)
    BY <1>1, <2>1, <1>4, Numbers DEF Steps, Seqn
  <2> QED BY <2>2, <2>3
<1> QED BY <1>2, <1>3, <1>4 DEF SeqRange
-----------------------------------------------------------------------------
(* The window and the list after a packet, in packet indices.              *)

Counts == 0 .. MaxReqCount + 1
RtpRecord == [begin : SeqNo, end : SeqNo, contexttialized : BOOLEAN, flips : Nat]
InfoRecord == [generateTime : Nat, preReqNackTime : Nat, reqNackCount : Counts]

LEMMA Typed ==
    TypeOK <=>
        /\ rtp \in RtpRecord
        /\ DOMAIN queue \subseteq SeqNo /\ queue \in [DOMAIN queue -> InfoRecord]
        /\ nackInterval \in 0 .. MaxNackInterval /\ preCheckTime \in 0 .. now /\ now \in Nat
        /\ nacks \subseteq SeqNo /\ low \in 0 .. Horizon + 1 /\ top \in Packet
        /\ seen \subseteq Packet /\ relisted \subseteq Packet /\ givenUp \subseteq Packet
BY DEF TypeOK, RtpRecord, InfoRecord, Counts

LEMMA RtpFields ==
    ASSUME NEW b \in RtpRecord
    PROVE  b.begin \in SeqNo /\ b.end \in SeqNo /\ b.contexttialized \in BOOLEAN /\ b.flips \in Nat
BY ZenonT(30) DEF RtpRecord

\* The packets that packet n shows to be missing, or lists again.
Missed(n) == IF Fresh(n) THEN {} ELSE (top + 1 .. n - 1) \cup (n .. low - 1)

\* Where packet n is, seen from the window.
LEMMA Places ==
    ASSUME TypeOK, WindowInv, NEW n \in Packet, rtp.contexttialized
    PROVE  /\ Dist(rtp.end, Seqn(n)) >= 0 <=> n > top
           /\ BeforeWindow(rtp, Seqn(n)) <=> n < low
           /\ low \in Index /\ top + 1 \in Index /\ n \in Index /\ n + 1 \in Index
           /\ low \in Nat /\ top \in Nat /\ n \in Nat /\ low <= top
<1>1. /\ low \in Nat /\ top \in Nat /\ n \in Nat /\ low <= top
      /\ low <= Horizon /\ top <= Horizon /\ n <= Horizon
      /\ low \in Index /\ top + 1 \in Index /\ n \in Index /\ n + 1 \in Index
      /\ rtp.begin = Seqn(low) /\ rtp.end = Seqn(top + 1)
  BY Numbers DEF TypeOK, WindowInv, Packet, Index
<1>2. Dist(rtp.end, Seqn(n)) = n - (top + 1)
  <2>1. n - (top + 1) < Half
    BY <1>1, Numbers
  <2> QED BY <1>1, <2>1, DistIs
<1>3. Dist(Seqn(n), rtp.begin) = low - n
  <2>1. low - n < Half
    BY <1>1, Numbers
  <2> QED BY <1>1, <2>1, DistIs
<1> QED BY <1>1, <1>2, <1>3 DEF BeforeWindow

LEMMA WindowIs ==
    ASSUME TypeOK, WindowInv, NEW n \in Packet, NEW r, r = Window(n)
    PROVE  /\ r \in RtpRecord /\ r.contexttialized
           /\ r.begin = Seqn(TrueLow(n)) /\ r.end = Seqn(TrueTop(n) + 1)
           /\ TrueLow(n) \in Packet /\ TrueTop(n) \in Packet /\ TrueLow(n) <= TrueTop(n)
<1>1. /\ rtp \in RtpRecord /\ n \in Index /\ n + 1 \in Index /\ Seqn(n) \in SeqNo
      /\ Seqn(n + 1) \in SeqNo /\ Succ(Seqn(n)) = Seqn(n + 1) /\ n \in Nat
  <2>1. n \in Index /\ n + 1 \in Index /\ n \in Nat
    BY Numbers DEF Packet, Index
  <2> QED BY <2>1, SeqnIs, SuccIs, Typed
<1>2. /\ TrueLow(n) \in Packet /\ TrueTop(n) \in Packet /\ TrueLow(n) <= TrueTop(n)
  BY <1>1, Places, Numbers DEF TrueLow, TrueTop, Fresh, Packet, WindowInv, TypeOK
<1>3. CASE ~rtp.contexttialized
  <2>1. r = [rtp EXCEPT !.contexttialized = TRUE, !.begin = Seqn(n), !.end = Seqn(n + 1)]
    BY <1>1, <1>3 DEF Window, Update2
  <2>2. r \in RtpRecord /\ r.contexttialized = TRUE /\ r.begin = Seqn(n) /\ r.end = Seqn(n + 1)
    BY <1>1, <2>1, ZenonT(30) DEF RtpRecord
  <2> QED BY <1>2, <1>3, <2>2 DEF TrueLow, TrueTop, Fresh
<1>4. CASE rtp.contexttialized /\ n > top
  <2> DEFINE f == IF Seqn(n) < rtp.end THEN rtp.flips + 1 ELSE rtp.flips
  <2>1. f \in Nat
    BY <1>1, RtpFields
  <2>2. r = [rtp EXCEPT !.end = Seqn(n + 1), !.flips = f]
    BY <1>1, <1>4, Places DEF Window, Update2
  <2> HIDE DEF f
  <2>3. /\ r \in RtpRecord /\ r.contexttialized = rtp.contexttialized
        /\ r.begin = rtp.begin /\ r.end = Seqn(n + 1)
    BY <1>1, <2>1, <2>2, ZenonT(30) DEF RtpRecord
  <2>4. TrueLow(n) = low /\ TrueTop(n) = n
    BY <1>4, Places DEF TrueLow, TrueTop, Fresh
  <2> QED BY <1>2, <1>4, <2>3, <2>4 DEF WindowInv
<1>5. CASE rtp.contexttialized /\ n < low
  <2>1. r = [rtp EXCEPT !.begin = Seqn(n)]
    BY <1>5, Places DEF Window, Update2
  <2>2. /\ r \in RtpRecord /\ r.contexttialized = rtp.contexttialized
        /\ r.begin = Seqn(n) /\ r.end = rtp.end
    BY <1>1, <2>1, ZenonT(30) DEF RtpRecord
  <2>3. TrueLow(n) = n /\ TrueTop(n) = top
    BY <1>5, Places DEF TrueLow, TrueTop, Fresh
  <2> QED BY <1>2, <1>5, <2>2, <2>3 DEF WindowInv
<1>6. CASE rtp.contexttialized /\ ~(n < low) /\ ~(n > top)
  <2>1. r = rtp
    BY <1>6, Places DEF Window, Update2
  <2>2. TrueLow(n) = low /\ TrueTop(n) = top
    BY <1>6, Places DEF TrueLow, TrueTop, Fresh
  <2> QED BY <1>1, <1>2, <1>6, <2>1, <2>2 DEF WindowInv
<1> QED BY <1>3, <1>4, <1>5, <1>6

LEMMA LostIs ==
    ASSUME TypeOK, WindowInv, NEW n \in Packet
    PROVE  Lost(n) = {Seqn(m) : m \in Missed(n)} /\ Missed(n) \subseteq Packet
<1>1. CASE ~rtp.contexttialized
  BY <1>1 DEF Lost, LostRange, Missed, Fresh
<1>2. CASE rtp.contexttialized /\ n > top
  <2>1. Lost(n) = SeqRange(Seqn(top + 1), Seqn(n))
    BY <1>2, Places DEF Lost, LostRange, WindowInv
  <2>2. Missed(n) = top + 1 .. n - 1 /\ top + 1 <= n
    BY <1>2, Places DEF Missed, Fresh
  <2>3. Missed(n) \subseteq Packet
    BY <1>2, <2>2, Places, Numbers DEF Packet
  <2> QED BY <1>2, <2>1, <2>2, <2>3, Places, RangeIs
<1>3. CASE rtp.contexttialized /\ n < low
  <2>1. Lost(n) = SeqRange(Seqn(n), Seqn(low))
    BY <1>3, Places DEF Lost, LostRange, WindowInv
  <2>2. Missed(n) = n .. low - 1 /\ n <= low
    BY <1>3, Places DEF Missed, Fresh
  <2>3. Missed(n) \subseteq Packet
    BY <1>3, <2>2, Places, Numbers DEF Packet, WindowInv
  <2> QED BY <1>3, <2>1, <2>2, <2>3, Places, RangeIs
<1>4. CASE rtp.contexttialized /\ ~(n < low) /\ ~(n > top)
  <2>1. Lost(n) = {}
    BY <1>4, Places DEF Lost, LostRange
  <2>2. Missed(n) = {}
    BY <1>4, Places DEF Missed, Fresh
  <2> QED BY <2>1, <2>2
<1> QED BY <1>1, <1>2, <1>3, <1>4
-----------------------------------------------------------------------------
(* The list.                                                               *)

PacedEntry(e) ==
    /\ e.reqNackCount = 0 <=> e.preReqNackTime = 0
    /\ e.reqNackCount > 0 =>
          e.preReqNackTime >= e.generateTime + FirstNackInterval
                            + (e.reqNackCount - 1) * MinNackInterval

GoodList(q) ==
    /\ DOMAIN q \subseteq SeqNo /\ q \in [DOMAIN q -> InfoRecord]
    /\ \A s \in DOMAIN q : PacedEntry(q[s])

LEMMA InfoFields ==
    ASSUME NEW e \in InfoRecord
    PROVE  /\ e.generateTime \in Nat /\ e.preReqNackTime \in Nat /\ e.reqNackCount \in Nat
           /\ e.reqNackCount <= MaxReqCount + 1
<1>1. e.generateTime \in Nat /\ e.preReqNackTime \in Nat /\ e.reqNackCount \in Counts
  BY ZenonT(30) DEF InfoRecord
<1> QED BY <1>1, RecvNackAssumption DEF Counts

LEMMA NewEntryIs ==
    ASSUME TypeOK, NEW e, e = NackInfo
    PROVE  e \in InfoRecord /\ PacedEntry(e)
<1>1. now \in Nat /\ 0 \in Nat /\ 0 \in Counts
  BY RecvNackAssumption DEF TypeOK, Counts
<1>2. e \in InfoRecord
  BY <1>1, ZenonT(30) DEF NackInfo, InfoRecord
<1>3. e.preReqNackTime = 0 /\ e.reqNackCount = 0
  BY DEF NackInfo
<1> QED BY <1>2, <1>3 DEF PacedEntry

\* A request is made no sooner than the shortest interval after the one before.
LEMMA RetryIs ==
    ASSUME TypeOK
    PROVE  RetryInterval \in Nat /\ RetryInterval >= MinNackInterval
<1>1. nackInterval \in Nat /\ MinNackInterval \in Nat
  BY RecvNackAssumption DEF TypeOK
<1> DEFINE i == IF nackInterval < StartNackInterval THEN nackInterval ELSE nackInterval \div 3
<1>2. i \in Nat
  BY <1>1
<1>3. RetryInterval = IF i > MinNackInterval THEN i ELSE MinNackInterval
  BY DEF RetryInterval
<1> HIDE DEF i
<1> QED BY <1>1, <1>2, <1>3

LEMMA OneMore ==
    ASSUME NEW a \in Nat, NEW b \in Nat, a > 0
    PROVE  (a - 1) * b + b = a * b /\ (a - 1) * b \in Nat /\ a * b \in Nat
OBVIOUS

LEMMA AgainIs ==
    ASSUME TypeOK, ClockInv, NEW e \in InfoRecord, PacedEntry(e),
           ~TimedOut(e), ~Young(e), Due(e), NEW x, x = Again(e)
    PROVE  x \in InfoRecord /\ PacedEntry(x)
<1>1. /\ now \in Nat /\ now > 0 /\ FirstNackInterval \in Nat /\ MinNackInterval \in Nat
      /\ MaxReqCount \in Nat
  BY RecvNackAssumption DEF TypeOK, ClockInv
<1>2. /\ e.generateTime \in Nat /\ e.preReqNackTime \in Nat /\ e.reqNackCount \in Nat
      /\ e.reqNackCount <= MaxReqCount + 1
  BY InfoFields
<1> DEFINE c == e.reqNackCount + 1
<1>3. e.reqNackCount <= MaxReqCount
  BY <1>1, <1>2 DEF TimedOut
<1>4. c \in Counts
  BY <1>1, <1>2, <1>3 DEF Counts
<1>5. now - e.generateTime >= FirstNackInterval
  BY <1>1, <1>2 DEF Young
<1>6. now - e.preReqNackTime >= MinNackInterval
  <2>1. now - e.preReqNackTime >= RetryInterval
    BY DEF Due
  <2> QED BY <1>1, <1>2, <2>1, RetryIs
<1>7. x = [e EXCEPT !.reqNackCount = c, !.preReqNackTime = now]
  BY DEF Again
<1>8. /\ x \in InfoRecord /\ x.reqNackCount = c /\ x.preReqNackTime = now
      /\ x.generateTime = e.generateTime
  <2> HIDE DEF c
  <2> QED BY <1>1, <1>4, <1>7, ZenonT(30) DEF InfoRecord
<1>9. CASE e.reqNackCount = 0
  BY <1>1, <1>2, <1>5, <1>8, <1>9 DEF PacedEntry
<1>10. CASE e.reqNackCount > 0
  <2>1. e.preReqNackTime >= e.generateTime + FirstNackInterval
                            + (e.reqNackCount - 1) * MinNackInterval
    BY <1>10 DEF PacedEntry
  <2> DEFINE p == (e.reqNackCount - 1) * MinNackInterval
             q == e.reqNackCount * MinNackInterval
  <2>2. p + MinNackInterval = q /\ p \in Nat /\ q \in Nat
    BY <1>1, <1>2, <1>10, OneMore
  <2>3. e.preReqNackTime >= e.generateTime + FirstNackInterval + p
    BY <2>1
  <2>4. (c - 1) * MinNackInterval = q
    BY <1>2
  <2> HIDE DEF p, q
  <2>5. now >= e.generateTime + FirstNackInterval + q
    BY <1>1, <1>2, <1>6, <2>2, <2>3
  <2>6. c > 0 /\ now # 0 /\ c # 0
    BY <1>1, <1>2
  <2> QED BY <1>8, <2>4, <2>5, <2>6 DEF PacedEntry
<1> QED BY <1>2, <1>9, <1>10

LEMMA GoodNow ==
    ASSUME TypeOK
    PROVE  Paced <=> GoodList(queue)
BY Typed DEF Paced, GoodList, PacedEntry

LEMMA InsertIs ==
    ASSUME TypeOK, Paced, NEW lost \in SUBSET SeqNo, NEW q, q = Insert(queue, lost)
    PROVE  GoodList(q) /\ DOMAIN q = DOMAIN queue \cup lost
<1>1. GoodList(queue)
  BY GoodNow
<1>2. NackInfo \in InfoRecord /\ PacedEntry(NackInfo)
  BY NewEntryIs
<1> HIDE DEF NackInfo
<1>3. DOMAIN q = DOMAIN queue \cup lost
  BY DEF Insert
<1>4. \A s \in DOMAIN q : q[s] \in InfoRecord /\ PacedEntry(q[s])
  BY <1>1, <1>2 DEF Insert, GoodList
<1>5. q = [s \in DOMAIN q |-> q[s]]
  BY DEF Insert
<1>6. q \in [DOMAIN q -> InfoRecord]
  BY <1>4, <1>5
<1> QED BY <1>1, <1>3, <1>4, <1>6 DEF GoodList

LEMMA ServicedIs ==
    ASSUME TypeOK, ClockInv, NEW q, GoodList(q), NEW r, r = Serviced(q)
    PROVE  /\ GoodList(r) /\ DOMAIN r = DOMAIN q \ Dropped(q)
           /\ Dropped(q) \subseteq DOMAIN q /\ Requested(q) \subseteq DOMAIN q
<1>1. Dropped(q) \subseteq DOMAIN q /\ Requested(q) \subseteq DOMAIN q
  BY DEF Dropped, Requested
<1>2. DOMAIN r = DOMAIN q \ Dropped(q)
  BY DEF Serviced
<1>3. ASSUME NEW s \in DOMAIN q
      PROVE  /\ q[s] \in InfoRecord /\ PacedEntry(q[s])
             /\ s \in Requested(q) => Again(q[s]) \in InfoRecord /\ PacedEntry(Again(q[s]))
  <2>1. q[s] \in InfoRecord /\ PacedEntry(q[s])
    BY DEF GoodList
  <2>2. ASSUME s \in Requested(q) PROVE ~TimedOut(q[s]) /\ ~Young(q[s]) /\ Due(q[s])
    BY <2>2 DEF Requested
  <2> QED BY <2>1, <2>2, AgainIs
<1>4. ASSUME NEW s \in DOMAIN r PROVE r[s] \in InfoRecord /\ PacedEntry(r[s])
  <2>1. s \in DOMAIN q /\ r[s] = IF s \in Requested(q) THEN Again(q[s]) ELSE q[s]
    BY <1>2 DEF Serviced
  <2> QED BY <1>3, <2>1
<1>5. r = [s \in DOMAIN r |-> r[s]]
  BY DEF Serviced
<1>6. r \in [DOMAIN r -> InfoRecord]
  BY <1>4, <1>5
<1>7. DOMAIN r \subseteq SeqNo
  BY <1>2 DEF GoodList
<1> QED BY <1>1, <1>2, <1>4, <1>6, <1>7 DEF GoodList

\* The newest of some packets is one of them.
LEMMA GreatestExists ==
    ASSUME NEW D \in SUBSET Packet, D # {}
    PROVE  \E d \in D : \A e \in D : e <= d
<1> DEFINE R == OpToRel(<, Nat)
           S == {Horizon - d : d \in D}
<1>1. IsWellFoundedOn(R, Nat)
  BY NatLessThanWellFounded
<1> HIDE DEF R
<1>2. S \in SUBSET Nat /\ S # {}
  <2>1. ASSUME NEW d \in D PROVE Horizon - d \in Nat
    BY Numbers DEF Packet
  <2> QED BY <2>1
<1>3. \A x, y \in Nat : x < y => <<x, y>> \in R
  BY DEF R, OpToRel
<1> HIDE DEF S
<1>4. PICK x \in S : \A y \in S : ~(<<y, x>> \in R)
  BY <1>1, <1>2, WFMin
<1>5. PICK d \in D : x = Horizon - d
  BY DEF S
<1>6. ASSUME NEW e \in D PROVE e <= d
  <2>1. Horizon - e \in S
    BY DEF S
  <2>2. ~(Horizon - e < x)
    BY <1>2, <1>3, <1>4, <2>1
  <2> QED BY <1>5, <2>2, Numbers DEF Packet
<1> QED BY <1>6

LEMMA NewestIs ==
    ASSUME NEW D \in SUBSET Packet, D # {}
    PROVE  \E d \in D : Newest({Seqn(m) : m \in D}) = Seqn(d)
<1>1. PICK d \in D : \A e \in D : e <= d
  BY GreatestExists
<1> DEFINE S == {Seqn(m) : m \in D}
<1>2. \A t \in S : Dist(t, Seqn(d)) >= 0
  <2>1. ASSUME NEW e \in D PROVE Dist(Seqn(e), Seqn(d)) >= 0
    <3>1. e \in Index /\ d \in Index /\ d - e < Half /\ d - e >= 0
      BY <1>1, Numbers DEF Packet, Index
    <3> QED BY <3>1, DistIs
  <2> QED BY <2>1
<1>3. \E s \in S : \A t \in S : Dist(t, s) >= 0
  BY <1>2
<1> HIDE DEF S
<1>4. Newest(S) \in S
  BY <1>3 DEF Newest
<1> QED BY <1>4 DEF S
-----------------------------------------------------------------------------
(* The steps.                                                              *)

\* The window takes in packet n, and of the list the packets of D are dropped.
Known(n, m) == Listed(m) \/ m \in Missed(n)
Moved(n, D) ==
    /\ D \in SUBSET Packet /\ ~Listed(n) /\ \A d \in D : Known(n, d)
    /\ rtp' \in RtpRecord /\ rtp'.contexttialized
    /\ rtp'.begin = Seqn(low') /\ rtp'.end = Seqn(top' + 1)
    /\ low' = TrueLow(n) \/ \E d \in D : low' = d + 1
    /\ GoodList(queue') /\ Cardinality(DOMAIN queue') < MaxQueueSize
    /\ \A m \in Packet : Seqn(m) \in DOMAIN queue' <=> Known(n, m) /\ m \notin D
    /\ DOMAIN queue' \subseteq DOMAIN queue \cup {Seqn(m) : m \in Missed(n)}
    /\ nacks' \subseteq DOMAIN queue \cup {Seqn(m) : m \in Missed(n)}
    /\ TrackTruth(n) /\ givenUp' = givenUp \cup D
    /\ preCheckTime' \in {preCheckTime, now} /\ UNCHANGED <<nackInterval, now>>

LEMMA Counting ==
    ASSUME NEW S \in SUBSET SeqNo
    PROVE  /\ Cardinality(S) \in Nat
           /\ \A T \in SUBSET S : Cardinality(T) <= Cardinality(S)
<1>1. IsFiniteSet(SeqNo)
  BY FS_Interval, Numbers DEF SeqNo
<1>2. IsFiniteSet(S)
  BY <1>1, FS_Subset
<1> QED BY <1>2, FS_Subset, FS_CardinalityType

\* The list with what packet n shows to be missing.
LEMMA WithLostIs ==
    ASSUME IInv, NEW n \in Packet, NEW q, q = WithLost(n)
    PROVE  /\ GoodList(q) /\ DOMAIN q = DOMAIN queue \cup {Seqn(m) : m \in Missed(n)}
           /\ Missed(n) \subseteq Packet
           /\ \A m \in Packet : Seqn(m) \in DOMAIN q <=> Known(n, m)
           /\ \A s \in DOMAIN q : \E m \in Packet : s = Seqn(m) /\ Known(n, m)
           /\ ~Overflows(n) => Cardinality(DOMAIN q) < MaxQueueSize
<1>1. TypeOK /\ WindowInv /\ Paced /\ QueueBounded /\ ListInv
  BY DEF IInv
<1>2. Lost(n) = {Seqn(m) : m \in Missed(n)} /\ Missed(n) \subseteq Packet
  BY <1>1, LostIs
<1>3. \A m \in Packet : m \in Index
  BY Numbers DEF Packet, Index
<1>4. Lost(n) \in SUBSET SeqNo
  BY <1>2, <1>3, SeqnIs
<1>5. GoodList(q) /\ DOMAIN q = DOMAIN queue \cup Lost(n)
  BY <1>1, <1>4, InsertIs DEF WithLost
<1>6. \A m \in Packet : Seqn(m) \in DOMAIN q <=> Known(n, m)
  BY <1>2, <1>3, <1>5, SeqnOnce DEF Known, Listed
<1>7. \A s \in DOMAIN q : \E m \in Packet : s = Seqn(m) /\ Known(n, m)
  BY <1>1, <1>2, <1>5, <1>6 DEF ListInv
<1>8. ASSUME ~Overflows(n) PROVE Cardinality(DOMAIN q) < MaxQueueSize
  <2>1. CASE Lost(n) = {}
    <3>1. DOMAIN q = DOMAIN queue
      BY <1>5, <2>1
    <3> QED BY <1>1, <3>1 DEF QueueBounded
  <2>2. CASE Lost(n) # {}
    <3>1. ~(Cardinality(DOMAIN q) >= MaxQueueSize)
      BY <1>8, <2>2 DEF Overflows, Full
    <3>2. Cardinality(DOMAIN q) \in Nat /\ MaxQueueSize \in Nat
      BY <1>5, Counting, RecvNackAssumption DEF GoodList
    <3> QED BY <3>1, <3>2
  <2> QED BY <2>1, <2>2
<1> QED BY <1>2, <1>5, <1>6, <1>7, <1>8

LEMMA TrackDoes ==
    ASSUME IInv, NEW n \in Packet, Track(n), UNCHANGED <<nackInterval, now>>
    PROVE  Moved(n, {})
<1>1. TypeOK /\ WindowInv
  BY DEF IInv
<1>2. /\ rtp' = Window(n) /\ queue' = WithLost(n) /\ nacks' = {} /\ low' = TrueLow(n)
      /\ TrackTruth(n) /\ UNCHANGED <<preCheckTime, givenUp>> /\ ~Listed(n) /\ ~Overflows(n)
  BY DEF Track
<1>3. /\ rtp' \in RtpRecord /\ rtp'.contexttialized
      /\ rtp'.begin = Seqn(low') /\ rtp'.end = Seqn(top' + 1)
  <2>1. top' = TrueTop(n)
    BY <1>2 DEF TrackTruth
  <2> QED BY <1>1, <1>2, <2>1, WindowIs
<1>4. /\ GoodList(queue') /\ Cardinality(DOMAIN queue') < MaxQueueSize
      /\ \A m \in Packet : Seqn(m) \in DOMAIN queue' <=> Known(n, m)
      /\ DOMAIN queue' = DOMAIN queue \cup {Seqn(m) : m \in Missed(n)}
  BY <1>2, WithLostIs
<1> QED BY <1>2, <1>3, <1>4 DEF Moved

LEMMA TrackAndRequestDoes ==
    ASSUME IInv, NEW n \in Packet, TrackAndRequest(n), UNCHANGED <<nackInterval, now>>
    PROVE  \E D \in SUBSET Packet : Moved(n, D)
<1>1. TypeOK /\ WindowInv /\ ClockInv
  BY DEF IInv
<1> DEFINE q == WithLost(n)
           D == {m \in Packet : Seqn(m) \in Dropped(q)}
           r == Window(n)
<1>2. /\ rtp' = AdvanceBegin(r, Dropped(q)) /\ queue' = Serviced(q) /\ nacks' = Requested(q)
      /\ low' = IF Dropped(q) = {} THEN TrueLow(n) ELSE IndexOf(Newest(Dropped(q))) + 1
      /\ givenUp' = givenUp \cup {IndexOf(s) : s \in Dropped(q)}
      /\ preCheckTime' = now /\ TrackTruth(n) /\ ~Listed(n) /\ ~Overflows(n)
  BY DEF TrackAndRequest
<1>3. /\ GoodList(q) /\ DOMAIN q = DOMAIN queue \cup {Seqn(m) : m \in Missed(n)}
      /\ \A m \in Packet : Seqn(m) \in DOMAIN q <=> Known(n, m)
      /\ \A s \in DOMAIN q : \E m \in Packet : s = Seqn(m) /\ Known(n, m)
      /\ Cardinality(DOMAIN q) < MaxQueueSize
  BY <1>2, WithLostIs
<1>4. /\ r \in RtpRecord /\ r.contexttialized
      /\ r.begin = Seqn(TrueLow(n)) /\ r.end = Seqn(TrueTop(n) + 1)
  BY <1>1, WindowIs
<1> HIDE DEF q, r
<1>5. /\ GoodList(queue') /\ DOMAIN queue' = DOMAIN q \ Dropped(q)
      /\ Dropped(q) \subseteq DOMAIN q /\ Requested(q) \subseteq DOMAIN q
  BY <1>1, <1>2, <1>3, ServicedIs
<1>6. Cardinality(DOMAIN queue') < MaxQueueSize
  <2>1. DOMAIN q \in SUBSET SeqNo /\ DOMAIN queue' \in SUBSET DOMAIN q
    BY <1>3, <1>5 DEF GoodList
  <2>2. DOMAIN queue' \in SUBSET SeqNo
    BY <2>1
  <2>3. /\ Cardinality(DOMAIN q) \in Nat /\ Cardinality(DOMAIN queue') \in Nat
        /\ Cardinality(DOMAIN queue') <= Cardinality(DOMAIN q)
    BY <2>1, <2>2, Counting
  <2> QED BY <1>3, <2>3, RecvNackAssumption
<1>7. /\ D \in SUBSET Packet /\ \A d \in D : Known(n, d)
      /\ \A m \in Packet : Seqn(m) \in DOMAIN queue' <=> Known(n, m) /\ m \notin D
  BY <1>3, <1>5
<1>8. Dropped(q) = {Seqn(m) : m \in D} /\ (Dropped(q) = {} <=> D = {})
  BY <1>3, <1>5
<1>9. \A m \in Packet : m \in Index /\ m + 1 \in Index /\ IndexOf(Seqn(m)) = m
  <2>1. \A m \in Packet : m \in Index /\ m + 1 \in Index
    BY Numbers DEF Packet, Index
  <2> QED BY <2>1, SeqnIs
<1>10. givenUp' = givenUp \cup D
  <2>1. {IndexOf(s) : s \in Dropped(q)} = D
    BY <1>7, <1>8, <1>9
  <2> QED BY <1>2, <2>1
<1> HIDE DEF D
<1>11. top' = TrueTop(n)
  BY <1>2 DEF TrackTruth
<1>12. CASE D = {}
  <2>1. rtp' = r /\ low' = TrueLow(n)
    BY <1>2, <1>8, <1>12 DEF AdvanceBegin
  <2> QED BY <1>2, <1>3, <1>4, <1>5, <1>6, <1>7, <1>10, <1>11, <2>1 DEF Moved
<1>13. CASE D # {}
  <2>1. PICK d \in D : Newest(Dropped(q)) = Seqn(d)
    BY <1>7, <1>8, <1>13, NewestIs
  <2>2. d \in Packet /\ Succ(Seqn(d)) = Seqn(d + 1) /\ Seqn(d + 1) \in SeqNo /\ low' = d + 1
    BY <1>2, <1>7, <1>8, <1>9, <1>13, <2>1, SuccIs, SeqnIs
  <2>3. rtp' = [r EXCEPT !.begin = Seqn(d + 1)]
    BY <1>2, <1>8, <1>13, <2>1, <2>2 DEF AdvanceBegin, DropSeq
  <2>4. /\ rtp' \in RtpRecord /\ rtp'.contexttialized = r.contexttialized
        /\ rtp'.begin = Seqn(d + 1) /\ rtp'.end = r.end
    BY <1>4, <2>2, <2>3, ZenonT(30) DEF RtpRecord
  <2> QED BY <1>2, <1>3, <1>4, <1>5, <1>6, <1>7, <1>10, <1>11, <2>2, <2>4 DEF Moved
<1> QED BY <1>7, <1>12, <1>13
-----------------------------------------------------------------------------
(* What a move of the window keeps.                                        *)

\* The packets listed are older than the newest one, also that of packet n.
LEMMA KnownIs ==
    ASSUME IInv, NEW n \in Packet
    PROVE  /\ \A m \in Packet : Listed(m) => m < top /\ rtp.contexttialized
           /\ \A m \in Packet : Known(n, m) => m < TrueTop(n) /\ rtp.contexttialized
           /\ n <= TrueTop(n) /\ (rtp.contexttialized => top <= TrueTop(n))
           /\ top \in Nat /\ n \in Nat /\ low \in Nat /\ TrueTop(n) \in Packet
           /\ TrueLow(n) \in Packet /\ TrueLow(n) <= TrueTop(n)
<1>1. TypeOK /\ WindowInv /\ IdleInv /\ ListInv
  BY DEF IInv
<1>2. /\ top \in Nat /\ n \in Nat /\ low \in Nat
      /\ \A m \in Packet : m \in Nat /\ m \in Index
  BY <1>1, Numbers DEF TypeOK, Packet, Index
<1>3. ASSUME NEW m \in Packet, Listed(m) PROVE m < top /\ rtp.contexttialized
  <2>1. PICK k \in Packet : k < top /\ Seqn(m) = Seqn(k)
    BY <1>1, <1>3 DEF Listed, ListInv
  <2>2. m = k
    BY <1>2, <2>1, SeqnOnce
  <2>3. rtp.contexttialized
    BY <1>1, <1>3 DEF IdleInv, Listed
  <2> QED BY <2>1, <2>2, <2>3
<1>4. /\ TrueTop(n) \in Packet /\ TrueLow(n) \in Packet /\ TrueLow(n) <= TrueTop(n)
  BY <1>1, WindowIs
<1>5. n <= TrueTop(n) /\ (rtp.contexttialized => top <= TrueTop(n))
  BY <1>2 DEF TrueTop, Fresh
<1>6. ASSUME NEW m \in Packet, m \in Missed(n) PROVE m < TrueTop(n) /\ rtp.contexttialized
  <2>1. rtp.contexttialized /\ m \in (top + 1 .. n - 1) \cup (n .. low - 1)
    BY <1>6 DEF Missed, Fresh
  <2>2. low <= top
    BY <1>1, <2>1 DEF WindowInv
  <2> QED BY <1>2, <1>4, <1>5, <2>1, <2>2 DEF Packet
<1>7. ASSUME NEW m \in Packet, Known(n, m) PROVE m < TrueTop(n) /\ rtp.contexttialized
  <2>1. CASE Listed(m)
    BY <1>2, <1>3, <1>4, <1>5, <2>1 DEF Packet
  <2> QED BY <1>6, <1>7, <2>1 DEF Known
<1> QED BY <1>2, <1>3, <1>4, <1>5, <1>7

LEMMA MovedWindow ==
    ASSUME IInv, NEW n \in Packet, NEW D \in SUBSET Packet, Moved(n, D)
    PROVE  TypeOK' /\ WindowInv' /\ IdleInv' /\ ListInv' /\ SeenInv'
<1>1. TypeOK /\ WindowInv /\ IdleInv /\ ListInv /\ SeenInv
  BY DEF IInv
<1>2. /\ rtp' \in RtpRecord /\ rtp'.contexttialized
      /\ rtp'.begin = Seqn(low') /\ rtp'.end = Seqn(top' + 1)
      /\ GoodList(queue') /\ givenUp' = givenUp \cup D
      /\ preCheckTime' \in {preCheckTime, now} /\ UNCHANGED <<nackInterval, now>>
      /\ top' = TrueTop(n) /\ seen' = seen \cup {n}
      /\ relisted' = IF Fresh(n) THEN relisted ELSE relisted \cup n .. low - 1
      /\ DOMAIN queue' \subseteq DOMAIN queue \cup {Seqn(m) : m \in Missed(n)}
      /\ nacks' \subseteq DOMAIN queue \cup {Seqn(m) : m \in Missed(n)}
  BY DEF Moved, TrackTruth
<1>3. Missed(n) \subseteq Packet
  BY <1>1, LostIs
<1>4. low' \in Packet /\ low' <= top' /\ top' \in Packet
  <2>1. CASE low' = TrueLow(n)
    BY <1>2, <2>1, KnownIs
  <2>2. ASSUME NEW d \in D, low' = d + 1 PROVE low' \in Packet /\ low' <= top' /\ top' \in Packet
    <3>1. Known(n, d) /\ d \in Packet
      BY DEF Moved
    <3>2. d < TrueTop(n) /\ TrueTop(n) \in Packet
      BY <3>1, KnownIs
    <3> QED BY <1>2, <2>2, <3>1, <3>2, Numbers DEF Packet
  <2> QED BY <2>1, <2>2 DEF Moved
<1>5. \A s \in DOMAIN queue \cup {Seqn(m) : m \in Missed(n)} :
          \E m \in Packet : Known(n, m) /\ s = Seqn(m)
  BY <1>1, <1>3 DEF ListInv, Known, Listed
<1>6. WindowInv' /\ IdleInv'
  BY <1>2, <1>4 DEF WindowInv, IdleInv
<1>7. ListInv'
  <2>1. ASSUME NEW s \in DOMAIN queue' PROVE \E m \in Packet : m < top' /\ s = Seqn(m)
    BY <1>2, <1>5, KnownIs
  <2> QED BY <2>1 DEF ListInv
<1>8. SeenInv'
  <2>1. ASSUME NEW k \in seen PROVE k <= TrueTop(n)
    <3>1. rtp.contexttialized /\ k <= top /\ k \in Nat
      BY <1>1 DEF IdleInv, SeenInv, TypeOK, Packet
    <3> QED BY <3>1, KnownIs DEF Packet
  <2> QED BY <1>2, <2>1, KnownIs DEF SeenInv
<1>9. nacks' \subseteq SeqNo
  <2>1. \A m \in Packet : m \in Index
    BY Numbers DEF Packet, Index
  <2> QED BY <1>2, <1>5, <2>1, SeqnIs
<1>10. seen' \subseteq Packet /\ givenUp' \subseteq Packet
  BY <1>1, <1>2 DEF TypeOK
<1>11. relisted' \subseteq Packet
  <2>1. n .. low - 1 \subseteq Packet
    BY <1>1, Numbers DEF Packet, TypeOK
  <2> QED BY <1>1, <1>2, <2>1 DEF TypeOK
<1>12. low' \in 0 .. Horizon + 1
  BY <1>4, Numbers DEF Packet
<1>13. /\ now' \in Nat /\ preCheckTime' \in 0 .. now' /\ nackInterval' \in 0 .. MaxNackInterval
  BY <1>1, <1>2 DEF TypeOK
<1>14. TypeOK'
  <2>1. DOMAIN queue' \subseteq SeqNo /\ queue' \in [DOMAIN queue' -> InfoRecord]
    BY <1>2 DEF GoodList
  <2> QED BY <1>2, <1>4, <1>9, <1>10, <1>11, <1>12, <1>13, <2>1
          DEF TypeOK, RtpRecord, InfoRecord, Counts
<1> QED BY <1>6, <1>7, <1>8, <1>14

\* Nothing is forgotten: begin is a packet that was the oldest of the window, or
\* is next to one that was listed.
LEMMA MovedCover ==
    ASSUME IInv, NEW n \in Packet, NEW D \in SUBSET Packet, Moved(n, D)
    PROVE  CoverInv'
<1> SUFFICES ASSUME NEW k \in Packet, k <= top',
                    low' <= k \/ \E m \in Packet : m <= k /\ Seqn(m) \in DOMAIN queue',
                    ~Known(n, k), k # n
             PROVE  k \in seen \/ k \in givenUp
  <2>1. \A k \in Packet : Known(n, k) => Seqn(k) \in DOMAIN queue' \/ k \in D
    BY DEF Moved
  <2>2. givenUp' = givenUp \cup D /\ seen' = seen \cup {n}
    BY DEF Moved, TrackTruth
  <2> QED BY <2>1, <2>2 DEF CoverInv, Listed
<1>1. /\ top \in Nat /\ n \in Nat /\ low \in Nat /\ k \in Nat
      /\ \A m \in Packet : m \in Nat
  BY KnownIs DEF Packet
<1>2. top' = TrueTop(n)
  BY DEF Moved, TrackTruth
<1>3. \/ TrueLow(n) <= k
      \/ \E m \in Packet : m <= k /\ Known(n, m)
  <2>1. CASE low' = TrueLow(n) /\ low' <= k
    BY <2>1
  <2>2. ASSUME NEW d \in D, low' = d + 1, low' <= k
        PROVE  \E m \in Packet : m <= k /\ Known(n, m)
    <3>1. d \in Packet /\ Known(n, d) /\ d <= k
      BY <1>1, <2>2 DEF Moved
    <3> QED BY <3>1
  <2>3. ASSUME NEW m \in Packet, m <= k, Seqn(m) \in DOMAIN queue'
        PROVE  \E x \in Packet : x <= k /\ Known(n, x)
    BY <2>3 DEF Moved
  <2> QED BY <2>1, <2>2, <2>3 DEF Moved
<1>4. rtp.contexttialized
  <2> SUFFICES ASSUME ~rtp.contexttialized PROVE FALSE
    OBVIOUS
  <2>1. TrueLow(n) = n /\ TrueTop(n) = n
    BY DEF TrueLow, TrueTop, Fresh
  <2>2. ~(\E m \in Packet : Known(n, m))
    BY KnownIs
  <2> QED BY <1>1, <1>2, <1>3, <2>1, <2>2
<1>5. k \notin (top + 1 .. n - 1) \cup (n .. low - 1)
  BY <1>4 DEF Known, Missed, Fresh
<1>6. k <= top
  BY <1>1, <1>2, <1>4, <1>5 DEF TrueTop, Fresh
<1>7. low <= k \/ \E m \in Packet : m <= k /\ Listed(m)
  <2>1. CASE TrueLow(n) <= k
    BY <1>1, <1>4, <1>5, <2>1 DEF TrueLow, Fresh
  <2>2. ASSUME NEW m \in Packet, m <= k, m \in Missed(n) PROVE low <= k
    <3>1. m \in (top + 1 .. n - 1) \cup (n .. low - 1)
      BY <1>4, <2>2 DEF Missed, Fresh
    <3> QED BY <1>1, <1>5, <1>6, <2>2, <3>1
  <2> QED BY <1>3, <2>1, <2>2 DEF Known
<1> QED BY <1>4, <1>6, <1>7 DEF CoverInv, IInv, Known

LEMMA MovedSpurious ==
    ASSUME IInv, NEW n \in Packet, NEW D \in SUBSET Packet, Moved(n, D)
    PROVE  NoSpuriousNack'
<1>1. /\ seen' = seen \cup {n}
      /\ relisted' = IF Fresh(n) THEN relisted ELSE relisted \cup n .. low - 1
  BY DEF Moved, TrackTruth
<1>2. TypeOK /\ WindowInv /\ NoSpuriousNack /\ SeenInv
  BY DEF IInv
<1>3. seen \subseteq Packet /\ \A m \in Packet : m \in Nat /\ m \in Index
  BY <1>2, Numbers DEF TypeOK, Packet, Index
<1>4. Missed(n) \subseteq Packet
  BY <1>2, LostIs
<1>5. ASSUME NEW x \in Packet, Seqn(x) \in DOMAIN queue' \/ Seqn(x) \in nacks'
      PROVE  Known(n, x)
  <2>1. Seqn(x) \in DOMAIN queue \/ \E m \in Missed(n) : Seqn(x) = Seqn(m)
    BY <1>5 DEF Moved
  <2> QED BY <1>3, <1>4, <2>1, SeqnOnce DEF Known, Listed
<1>6. ASSUME NEW x \in seen \cup {n}, Known(n, x) PROVE x \in relisted'
  <2>1. x \in Packet /\ x \in Nat /\ n \in Nat /\ top \in Nat /\ low \in Nat
    BY <1>3, KnownIs
  <2>2. CASE x \in seen /\ Listed(x)
    BY <1>1, <1>2, <2>2 DEF NoSpuriousNack
  <2>3. CASE x \in Missed(n)
    <3>1. ~Fresh(n) /\ x \in (top + 1 .. n - 1) \cup (n .. low - 1)
      BY <2>3 DEF Missed
    <3>2. x = n \/ x <= top
      BY <1>2, <1>6 DEF SeenInv
    <3>3. x \in n .. low - 1
      BY <2>1, <3>1, <3>2
    <3> QED BY <1>1, <3>1, <3>3
  <2>4. ~Listed(n)
    BY DEF Moved
  <2> QED BY <1>6, <2>2, <2>3, <2>4 DEF Known
<1>7. \A x \in seen' : Seqn(x) \in DOMAIN queue' \/ Seqn(x) \in nacks' => x \in relisted'
  BY <1>1, <1>3, <1>5, <1>6
<1> QED BY <1>7 DEF NoSpuriousNack, Listed
-----------------------------------------------------------------------------
(* The other steps, and the theorems.                                      *)

LEMMA MovedKeeps ==
    ASSUME IInv, NEW n \in Packet, NEW D \in SUBSET Packet, Moved(n, D)
    PROVE  IInv'
<1>1. TypeOK' /\ WindowInv' /\ IdleInv' /\ ListInv' /\ SeenInv'
  BY MovedWindow
<1>2. CoverInv'
  BY MovedCover
<1>3. NoSpuriousNack'
  BY MovedSpurious
<1>4. QueueBounded' /\ Paced' /\ ClockInv'
  BY DEF Moved, QueueBounded, Paced, GoodList, PacedEntry, IInv, ClockInv
<1> QED BY <1>1, <1>2, <1>3, <1>4 DEF IInv

LEMMA RecoverKeeps ==
    ASSUME IInv, NEW n \in Packet, Recover(n), UNCHANGED <<nackInterval, now>>
    PROVE  IInv'
<1>1. /\ TypeOK /\ WindowInv /\ IdleInv /\ ListInv /\ SeenInv /\ CoverInv
      /\ NoSpuriousNack /\ QueueBounded /\ Paced /\ ClockInv
  BY DEF IInv
<1>2. /\ Listed(n) /\ nacks' = {} /\ seen' = seen \cup {n}
      /\ UNCHANGED <<rtp, preCheckTime, low, top, relisted, givenUp, nackInterval, now>>
  BY DEF Recover
<1>3. /\ DOMAIN queue' = DOMAIN queue \ {Seqn(n)}
      /\ \A s \in DOMAIN queue' : queue'[s] = queue[s]
      /\ queue' = [s \in DOMAIN queue' |-> queue'[s]]
  BY DEF Recover, Restrict
<1>4. n < top /\ rtp.contexttialized /\ n \in Nat /\ top \in Nat
  BY <1>2, KnownIs
<1>5. \A m \in Packet : m \in Index
  BY Numbers DEF Packet, Index
<1>6. \A m \in Packet : Seqn(m) \in DOMAIN queue' <=> Listed(m) /\ m # n
  BY <1>3, <1>5, SeqnOnce DEF Listed
<1>7. GoodList(queue')
  <2>1. GoodList(queue)
    BY <1>1, GoodNow
  <2>2. \A s \in DOMAIN queue' : queue'[s] \in InfoRecord /\ PacedEntry(queue'[s])
    BY <1>3, <2>1 DEF GoodList
  <2>3. queue' \in [DOMAIN queue' -> InfoRecord]
    BY <1>3, <2>2
  <2> QED BY <1>3, <2>1, <2>2, <2>3 DEF GoodList
<1>8. TypeOK'
  <2>1. seen' \subseteq Packet /\ nacks' \subseteq SeqNo
    BY <1>1, <1>2 DEF TypeOK
  <2> QED BY <1>1, <1>2, <1>7, <2>1 DEF TypeOK, GoodList, InfoRecord, Counts
<1>9. WindowInv' /\ IdleInv' /\ ClockInv'
  BY <1>1, <1>2, <1>4 DEF WindowInv, IdleInv, ClockInv
<1>10. ListInv'
  BY <1>1, <1>2, <1>3 DEF ListInv
<1>11. SeenInv'
  BY <1>1, <1>2, <1>4 DEF SeenInv
<1>12. CoverInv'
  <2>1. \A k \in Packet :
          /\ rtp.contexttialized /\ k <= top
          /\ low <= k \/ \E m \in Packet : m <= k /\ Seqn(m) \in DOMAIN queue'
          => k \in seen \cup {n} \/ Seqn(k) \in DOMAIN queue' \/ k \in givenUp
    BY <1>1, <1>6 DEF CoverInv
  <2> QED BY <1>2, <2>1 DEF CoverInv, Listed
<1>13. NoSpuriousNack'
  <2>1. seen \subseteq Packet
    BY <1>1 DEF TypeOK
  <2>2. \A x \in seen \cup {n} : Seqn(x) \in DOMAIN queue' => x \in relisted
    BY <1>1, <1>6, <2>1 DEF NoSpuriousNack
  <2> QED BY <1>2, <2>2 DEF NoSpuriousNack, Listed
<1>14. QueueBounded'
  <2>1. DOMAIN queue \in SUBSET SeqNo /\ DOMAIN queue' \in SUBSET SeqNo
        /\ DOMAIN queue' \in SUBSET DOMAIN queue
    BY <1>1, <1>3 DEF TypeOK
  <2>2. /\ Cardinality(DOMAIN queue') <= Cardinality(DOMAIN queue)
        /\ Cardinality(DOMAIN queue') \in Nat /\ Cardinality(DOMAIN queue) \in Nat
    BY <2>1, Counting
  <2>3. Cardinality(DOMAIN queue') < MaxQueueSize
    BY <1>1, <2>2, RecvNackAssumption DEF QueueBounded
  <2> QED BY <1>2, <1>4, <2>3 DEF QueueBounded
<1>15. Paced'
  BY <1>7 DEF Paced, GoodList, PacedEntry
<1> QED BY <1>8, <1>9, <1>10, <1>11, <1>12, <1>13, <1>14, <1>15 DEF IInv

\* What there is when the window is new or forgotten.
LEMMA EmptyIs ==
    ASSUME NEW q, q = << >>
    PROVE  /\ DOMAIN q = {} /\ q \in [DOMAIN q -> InfoRecord] /\ Cardinality(DOMAIN q) = 0
           /\ Cardinality(DOMAIN q) < MaxQueueSize
<1>1. DOMAIN q = {} /\ q = [s \in {} |-> 0]
  OBVIOUS
<1>2. Cardinality(DOMAIN q) = 0
  BY <1>1, FS_EmptySet
<1> QED BY <1>1, <1>2, RecvNackAssumption

LEMMA OverflowKeeps ==
    ASSUME IInv, NEW n \in Packet, Overflow(n), UNCHANGED <<nackInterval, now>>
    PROVE  IInv' /\ ~rtp'.contexttialized
<1>1. TypeOK /\ WindowInv /\ ClockInv
  BY DEF IInv
<1>2. /\ rtp' = ListFull(Window(n)) /\ queue' = << >> /\ nacks' = {} /\ low' = 0 /\ top' = 0
      /\ seen' = {} /\ relisted' = {} /\ givenUp' = {}
      /\ UNCHANGED <<preCheckTime, nackInterval, now>>
  BY DEF Overflow
<1>3. rtp' \in RtpRecord /\ ~rtp'.contexttialized
  <2> DEFINE r == Window(n)
  <2>1. r \in RtpRecord /\ 0 \in SeqNo /\ FALSE \in BOOLEAN
    BY <1>1, WindowIs, Numbers DEF SeqNo
  <2>2. rtp' = [r EXCEPT !.contexttialized = FALSE, !.begin = 0, !.end = 0]
    BY <1>2 DEF ListFull
  <2> HIDE DEF r
  <2>3. rtp' \in RtpRecord /\ rtp'.contexttialized = FALSE
    BY <2>1, <2>2, ZenonT(30) DEF RtpRecord
  <2> QED BY <2>3
<1>4. /\ DOMAIN queue' = {} /\ queue' \in [DOMAIN queue' -> InfoRecord]
      /\ Cardinality(DOMAIN queue') < MaxQueueSize
  BY <1>2, EmptyIs
<1>5. low' \in 0 .. Horizon + 1 /\ top' \in Packet
  BY <1>2, Numbers DEF Packet
<1>6. TypeOK'
  BY <1>1, <1>2, <1>3, <1>4, <1>5 DEF TypeOK, RtpRecord, InfoRecord, Counts
<1>7. /\ WindowInv' /\ IdleInv' /\ ListInv' /\ SeenInv' /\ CoverInv' /\ NoSpuriousNack'
      /\ QueueBounded' /\ Paced' /\ ClockInv'
  BY <1>1, <1>2, <1>3, <1>4 DEF WindowInv, IdleInv, ListInv, SeenInv, CoverInv, NoSpuriousNack,
                                QueueBounded, Paced, ClockInv
<1> QED BY <1>3, <1>6, <1>7 DEF IInv

\* The clock, the statistics and steps of others leave window and list alone.
LEMMA OthersKeep ==
    ASSUME IInv, UNCHANGED <<rtp, queue, nacks, low, top, seen, relisted, givenUp, preCheckTime>>,
           now' \in Nat, now <= now', nackInterval' \in 0 .. MaxNackInterval
    PROVE  IInv'
<1>1. TypeOK'
  <2>1. TypeOK
    BY DEF IInv
  <2>2. preCheckTime \in 0 .. now'
    BY <2>1 DEF TypeOK
  <2> QED BY <2>1, <2>2 DEF TypeOK
<1>2. ClockInv'
  BY DEF IInv, TypeOK, ClockInv
<1>3. /\ WindowInv' /\ IdleInv' /\ ListInv' /\ SeenInv' /\ CoverInv' /\ NoSpuriousNack'
      /\ QueueBounded' /\ Paced'
  BY DEF IInv, WindowInv, IdleInv, ListInv, SeenInv, CoverInv, NoSpuriousNack, QueueBounded,
         Paced, Listed
<1> QED BY <1>1, <1>2, <1>3 DEF IInv

LEMMA UpdateRttIs ==
    ASSUME TypeOK, NEW rtt \in Rtts, UpdateRtt(rtt)
    PROVE  nackInterval' \in 0 .. MaxNackInterval
<1>1. nackInterval \in Nat /\ rtt \in Nat /\ MaxNackInterval \in Nat
  BY RecvNackAssumption DEF TypeOK
<1> DEFINE i == IF rtt > nackInterval THEN (8 * nackInterval + 2 * rtt) \div 10 ELSE rtt
<1>2. i \in Nat
  BY <1>1
<1>3. nackInterval' = IF i < MaxNackInterval THEN i ELSE MaxNackInterval
  BY DEF UpdateRtt
<1> HIDE DEF i
<1> QED BY <1>1, <1>2, <1>3

LEMMA StepKeeps ==
    ASSUME IInv, [Next]_vars
    PROVE  /\ IInv'
           /\ \/ \E n \in Packet : \E D \in SUBSET Packet : Moved(n, D)
              \/ ~rtp'.contexttialized
              \/ UNCHANGED rtp
<1>1. TypeOK
  BY DEF IInv
<1>2. ASSUME NEW n \in Packet, OnNack(n)
      PROVE  /\ IInv'
             /\ \/ \E D \in SUBSET Packet : Moved(n, D)
                \/ ~rtp'.contexttialized
                \/ UNCHANGED rtp
  <2>1. UNCHANGED <<nackInterval, now>>
    BY <1>2 DEF OnNack
  <2>2. CASE Recover(n)
    BY <2>1, <2>2, RecoverKeeps DEF Recover
  <2>3. CASE Overflow(n)
    BY <2>1, <2>3, OverflowKeeps
  <2>4. CASE Track(n)
    <3>1. Moved(n, {}) /\ {} \in SUBSET Packet
      BY <2>1, <2>4, TrackDoes
    <3> QED BY <3>1, MovedKeeps
  <2>5. CASE TrackAndRequest(n)
    <3>1. PICK D \in SUBSET Packet : Moved(n, D)
      BY <2>1, <2>5, TrackAndRequestDoes
    <3> QED BY <3>1, MovedKeeps
  <2> QED BY <1>2, <2>2, <2>3, <2>4, <2>5 DEF OnNack
<1>3. ASSUME NEW rtt \in Rtts, UpdateRtt(rtt) PROVE IInv' /\ UNCHANGED rtp
  <2>1. /\ UNCHANGED <<rtp, queue, nacks, low, top, seen, relisted, givenUp, preCheckTime, now>>
        /\ now \in Nat
    BY <1>1, <1>3 DEF UpdateRtt, truth, TypeOK
  <2>2. now' \in Nat /\ now <= now'
    BY <2>1
  <2> QED BY <1>1, <1>3, <2>1, <2>2, UpdateRttIs, OthersKeep
<1>4. ASSUME Tick PROVE IInv' /\ UNCHANGED rtp
  <2>1. /\ UNCHANGED <<rtp, queue, nacks, low, top, seen, relisted, givenUp, preCheckTime>>
        /\ nackInterval' \in 0 .. MaxNackInterval /\ now \in Nat /\ now' = now + 1
    BY <1>1, <1>4 DEF Tick, truth, TypeOK
  <2>2. now' \in Nat /\ now <= now'
    BY <2>1
  <2> QED BY <2>1, <2>2, OthersKeep
<1>5. ASSUME UNCHANGED vars PROVE IInv' /\ UNCHANGED rtp
  <2>1. /\ UNCHANGED <<rtp, queue, nacks, low, top, seen, relisted, givenUp, preCheckTime, now>>
        /\ nackInterval' \in 0 .. MaxNackInterval /\ now \in Nat
    BY <1>1, <1>5 DEF vars, truth, TypeOK
  <2>2. now' \in Nat /\ now <= now'
    BY <2>1
  <2> QED BY <2>1, <2>2, OthersKeep
<1> QED BY <1>2, <1>3, <1>4, <1>5 DEF Next

LEMMA Initially ==
    ASSUME Init
    PROVE  IInv
<1>1. /\ rtp = [begin |-> 0, end |-> 0, contexttialized |-> FALSE, flips |-> 0]
      /\ queue = << >> /\ nackInterval = StartNackInterval /\ preCheckTime = 0
      /\ now = MaxNackInterval + NackCheckInterval /\ nacks = {}
      /\ low = 0 /\ top = 0 /\ seen = {} /\ relisted = {} /\ givenUp = {}
  BY DEF Init
<1>2. rtp \in RtpRecord /\ ~rtp.contexttialized
  <2>1. 0 \in SeqNo /\ 0 \in Nat /\ FALSE \in BOOLEAN
    BY Numbers DEF SeqNo
  <2>2. rtp \in RtpRecord
    BY <1>1, <2>1, ZenonT(30) DEF RtpRecord
  <2> QED BY <1>1, <2>2
<1>3. /\ DOMAIN queue = {} /\ queue \in [DOMAIN queue -> InfoRecord]
      /\ Cardinality(DOMAIN queue) < MaxQueueSize
  BY <1>1, EmptyIs
<1>4. /\ low \in 0 .. Horizon + 1 /\ top \in Packet /\ now \in Nat /\ now > 0
      /\ preCheckTime \in 0 .. now /\ nackInterval \in 0 .. MaxNackInterval
  BY <1>1, Numbers, RecvNackAssumption DEF Packet
<1>5. TypeOK
  BY <1>1, <1>2, <1>3, <1>4, Typed
<1>6. /\ WindowInv /\ IdleInv /\ ListInv /\ SeenInv /\ CoverInv /\ NoSpuriousNack
      /\ QueueBounded /\ Paced /\ ClockInv
  BY <1>1, <1>2, <1>3, <1>4 DEF WindowInv, IdleInv, ListInv, SeenInv, CoverInv, NoSpuriousNack,
                                QueueBounded, Paced, ClockInv
<1> QED BY <1>5, <1>6 DEF IInv

\* The inductive invariant, whatever is lost, overtaken, repeated or late.
THEOREM InvariantHolds == Spec => []IInv
<1>1. Init => IInv
  BY Initially
<1>2. IInv /\ [Next]_vars => IInv'
  BY StepKeeps
<1> QED BY <1>1, <1>2, PTL DEF Spec

\* The ranges of YangReceiveNackBuffer, of the list and of the clocks; no entry is
\* requested more than once beyond opts.maxReqCount.
THEOREM TypeCorrect == Spec => []TypeOK
<1>1. IInv => TypeOK
  BY DEF IInv
<1> QED BY <1>1, InvariantHolds, PTL

\* begin and end of yang_nackbuffer_update2, which wrap, stand for the oldest and
\* the newest packet of the window, which do not.
THEOREM WindowTrue == Spec => []WindowIsTrue
<1>1. ASSUME IInv PROVE WindowIsTrue
  <2>1. low \in Int /\ top \in Int
    BY <1>1, Numbers DEF IInv, TypeOK, Packet
  <2> QED BY <1>1, <2>1 DEF IInv, WindowInv, WindowIsTrue
<1> QED BY <1>1, InvariantHolds, PTL

\* Every packet of the window was received, is listed or was given up, although
\* the loop of yang_recvnack_get_nack_seqs skips entries and may set begin back.
THEOREM NothingForgotten == Spec => []NoLossForgotten
<1>1. ASSUME IInv PROVE NoLossForgotten
  <2>1. \A n \in low .. top : rtp.contexttialized => n \in Packet /\ n <= top /\ low <= n
    BY <1>1, Numbers DEF IInv, TypeOK, Packet
  <2> QED BY <1>1, <2>1 DEF IInv, CoverInv, NoLossForgotten
<1> QED BY <1>1, InvariantHolds, PTL

\* A packet that was received is asked for again only when an older one than the
\* window came in and yang_nackbuffer_update2 listed the range above it.
THEOREM NothingSpurious == Spec => []NoSpuriousNack
<1>1. IInv => NoSpuriousNack
  BY DEF IInv
<1> QED BY <1>1, InvariantHolds, PTL

\* The list stays below maxQueueSize (yang_recvnack_check_queue_size).
THEOREM ListBounded == Spec => []QueueBounded
<1>1. IInv => QueueBounded
  BY DEF IInv
<1> QED BY <1>1, InvariantHolds, PTL

\* Requests for one packet keep the first and the shortest interval apart
\* (yang_recvnack_get_nack_seqs), whatever round-trip times are reported.
THEOREM RequestsPaced == Spec => []Paced
<1>1. IInv => Paced
  BY DEF IInv
<1> QED BY <1>1, InvariantHolds, PTL

\* While the window lives, its end never moves back.
THEOREM HighestNeverBack == Spec => HighestAdvances
<1>1. ASSUME IInv, [Next]_vars, rtp.contexttialized, rtp'.contexttialized
      PROVE  Dist(rtp.end, rtp'.end) >= 0
  <2>1. rtp.end = Seqn(top + 1) /\ top \in Packet /\ TypeOK
    BY <1>1 DEF IInv, WindowInv, TypeOK
  <2>2. ASSUME NEW n \in Packet, NEW D \in SUBSET Packet, Moved(n, D)
        PROVE  Dist(rtp.end, rtp'.end) >= 0
    <3>1. rtp'.end = Seqn(TrueTop(n) + 1)
      BY <2>2 DEF Moved, TrackTruth
    <3>2. TrueTop(n) \in Packet /\ top <= TrueTop(n)
      BY <1>1, KnownIs
    <3>3. /\ top + 1 \in Index /\ TrueTop(n) + 1 \in Index
          /\ (TrueTop(n) + 1) - (top + 1) < Half /\ (TrueTop(n) + 1) - (top + 1) >= 0
      BY <2>1, <3>2, Numbers DEF Packet, Index
    <3> QED BY <2>1, <3>1, <3>3, DistIs
  <2>3. CASE UNCHANGED rtp
    <3>1. rtp'.end = rtp.end /\ rtp.end \in Int
      BY <2>1, <2>3, Typed, RtpFields, Numbers DEF SeqNo
    <3> QED BY <3>1, Numbers DEF Dist
  <2> QED BY <1>1, <2>2, <2>3, StepKeeps
<1>2. IInv /\ [Next]_vars =>
          [rtp.contexttialized /\ rtp'.contexttialized => Dist(rtp.end, rtp'.end) >= 0]_vars
  BY <1>1
<1> QED BY <1>2, InvariantHolds, PTL DEF Spec, HighestAdvances
=============================================================================
