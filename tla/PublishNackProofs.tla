------------------------- MODULE PublishNackProofs ------------------------
(***************************************************************************)
(* What module PublishNack checks on a small ring, proved for every length *)
(* of the ring and of the record: a packet that is still one of the last   *)
(* QueueLen is answered with itself, an older one with itself or with the  *)
(* next packet of its place, for as long as the ring is longer than the    *)
(* record by what the publishing thread can write while the UDP thread     *)
(* answers.  Video (1400 and 1024) leaves 375 packets for that; audio (100 *)
(* and 128) has none.                                                      *)
(***************************************************************************)
EXTENDS PublishNack, TLAPS

\* the ring index of packet n
SlotOf(n) == (n + 1) % RingLen

\* packets with each of their fields in the record
Payloads == IF step \in {"write", "payload"} THEN sent ELSE sent + 1
Lengths == IF step \in {"write", "payload", "nb"} THEN sent ELSE sent + 1
Numbers == IF step \in {"write", "payload", "nb", "seq"} THEN sent ELSE sent + 1

\* f holds, place by place, the value v of the last of c packets to go there,
\* and blank where none has.
Recorded(f, v, c, blank) ==
    \A p \in Place :
        IF p >= c THEN f[p] = blank
        ELSE \E n \in 0 .. c - 1 :
                n >= c - QueueLen /\ PlaceOf(n) = p /\ f[p] = v[n]

PayloadField == [p \in Place |-> queue[p].payload]
NbField == [p \in Place |-> queue[p].nb]
SeqField == [p \in Place |-> queue[p].seq]
SlotOfPacket == [n \in Nat |-> SlotOf(n)]
WireOfPacket == [n \in Nat |-> Wire(n)]
Itself == [n \in Nat |-> n]

\* The inductive invariant.  The ring holds its last RingLen packets and the
\* record, field by field, its last QueueLen.  The UDP thread's answer starts
\* from a packet n that was one of the last QueueLen when its number was found;
\* what it reads of the entry is of n or of a packet recorded there since.
RingHoldsLast ==
    /\ index = Written % RingLen
    /\ \A n \in 0 .. Written - 1 :
          n >= Written - RingLen => buffer[SlotOf(n)].pkt = n
RecordHoldsLast ==
    /\ Recorded(PayloadField, SlotOfPacket, Payloads, NoSlot)
    /\ Recorded(NbField, Itself, Lengths, NoPacket)
    /\ Recorded(SeqField, WireOfPacket, Numbers, 0)
FromPlace(n, c, m) == m \in n .. c - 1 /\ PlaceOf(m) = answer.place
AnswerOf(n) ==
    /\ PlaceOf(n) = answer.place /\ Wire(n) = answer.asked
    /\ n >= Written - 1 - QueueLen - lag
    /\ PayloadRead => \E m \in Nat : /\ FromPlace(n, Payloads, m)
                                     /\ answer.slot = SlotOf(m)
    /\ NbRead => FromPlace(n, Lengths, answer.nb)
AnswerIsRecent == Answering => \E n \in 0 .. Numbers - 1 : AnswerOf(n)
TodoWasSent == todo # {} => sent > 0

IInv == /\ TypeOK /\ RingHoldsLast /\ RecordHoldsLast /\ TodoWasSent
        /\ AnswerIsRecent
-----------------------------------------------------------------------------
(* Remainders.                                                             *)

\* A remainder is the number less a multiple of the divisor.
LEMMA ModSplit ==
    ASSUME NEW a \in Nat, NEW q \in Nat \ {0}
    PROVE  /\ a % q \in 0 .. q - 1
           /\ a \div q \in Nat
           /\ a = q * (a \div q) + (a % q)
OBVIOUS

\* So a number written as a multiple and a small rest has that remainder.
LEMMA ModIs ==
    ASSUME NEW a \in Nat, NEW q \in Nat \ {0}, NEW k \in Int,
           NEW r \in 0 .. q - 1, a = q * k + r
    PROVE  a % q = r
<1> DEFINE m == a \div q
           s == a % q
<1>1. a = q * m + s /\ s \in 0 .. q - 1 /\ m \in Nat
  BY ModSplit
<1> HIDE DEF m, s
<1>2. q * k + r = q * m + s
  BY <1>1
<1>3. CASE k = m
  <2>1. q * k = q * m
    BY <1>3
  <2>2. r = s
    BY <1>1, <1>2, <2>1
  <2> QED BY <2>2 DEF s
<1>4. CASE k < m
  <2>1. m - k >= 1
    BY <1>1, <1>4
  <2>2. q * (m - k) >= q
    BY <1>1, <2>1
  <2>3. q * (m - k) = r - s
    BY <1>1, <1>2
  <2> QED BY <1>1, <2>2, <2>3
<1>5. CASE m < k
  <2>1. k - m >= 1
    BY <1>1, <1>5
  <2>2. q * (k - m) >= q
    BY <1>1, <2>1
  <2>3. q * (k - m) = s - r
    BY <1>1, <1>2
  <2> QED BY <1>1, <2>2, <2>3
<1> QED BY <1>1, <1>3, <1>4, <1>5

\* Adding the divisor changes nothing.
LEMMA ModPeriod ==
    ASSUME NEW a \in Nat, NEW q \in Nat \ {0}
    PROVE  (a + q) % q = a % q
<1> DEFINE k == a \div q
           r == a % q
<1>1. a = q * k + r /\ r \in 0 .. q - 1 /\ k \in Nat
  BY ModSplit
<1> HIDE DEF k, r
<1>2. a + q = q * (k + 1) + r /\ a + q \in Nat /\ k + 1 \in Int
  BY <1>1
<1>3. (a + q) % q = r
  BY <1>1, <1>2, ModIs
<1> QED BY <1>3 DEF r

\* A number below the divisor is its own remainder.
LEMMA ModSmall ==
    ASSUME NEW q \in Nat \ {0}, NEW a \in 0 .. q - 1
    PROVE  a % q = a
<1>1. a \in Nat /\ a = q * 0 + a
  OBVIOUS
<1> QED BY <1>1, ModIs

\* The remainder of the next number, by a comparison as yang_get_rtpBuffer
\* computes it.
LEMMA ModSucc ==
    ASSUME NEW a \in Nat, NEW q \in Nat \ {0}
    PROVE  (a + 1) % q = IF (a % q) + 1 >= q THEN 0 ELSE (a % q) + 1
<1> DEFINE k == a \div q
           r == a % q
<1>1. a = q * k + r /\ r \in 0 .. q - 1 /\ k \in Nat
  BY ModSplit
<1> HIDE DEF k, r
<1>2. CASE r + 1 < q
  <2>1. a + 1 = q * k + (r + 1) /\ r + 1 \in 0 .. q - 1 /\ a + 1 \in Nat /\ k \in Int
    BY <1>1, <1>2
  <2>2. (a + 1) % q = r + 1
    BY <2>1, ModIs
  <2> QED BY <1>1, <1>2, <2>2 DEF r
<1>3. CASE r + 1 >= q
  <2>1. /\ a + 1 = q * (k + 1) + 0 /\ 0 \in 0 .. q - 1
        /\ a + 1 \in Nat /\ k + 1 \in Int
    BY <1>1, <1>3
  <2>2. (a + 1) % q = 0
    BY <2>1, ModIs
  <2> QED BY <1>1, <1>3, <2>2 DEF r
<1> QED BY <1>1, <1>2, <1>3

\* Two numbers less than the divisor apart have different remainders.
LEMMA ModDistinct ==
    ASSUME NEW q \in Nat \ {0}, NEW a \in Nat, NEW b \in Nat, a < b, b < a + q
    PROVE  a % q # b % q
<1> SUFFICES ASSUME a % q = b % q PROVE FALSE
  OBVIOUS
<1> DEFINE k == a \div q
           m == b \div q
<1>1. a = q * k + (a % q) /\ k \in Nat /\ a % q \in 0 .. q - 1
  BY ModSplit
<1>2. b = q * m + (b % q) /\ m \in Nat /\ b % q \in 0 .. q - 1
  BY ModSplit
<1> HIDE DEF k, m
<1>3. b - a = q * (m - k)
  BY <1>1, <1>2
<1>4. CASE m <= k
  <2>1. q * (m - k) <= 0
    BY <1>1, <1>2, <1>4
  <2> QED BY <2>1, <1>3
<1>5. CASE m > k
  <2>1. q * (m - k) >= q
    BY <1>1, <1>2, <1>5
  <2> QED BY <2>1, <1>3
<1> QED BY <1>1, <1>2, <1>4, <1>5

\* The place of a packet is the place of its sequence number.
LEMMA ModDivides ==
    ASSUME NEW a \in Nat, NEW q \in Nat \ {0}, NEW c \in Nat \ {0}, c % q = 0
    PROVE  (a % c) % q = a % q
<1> DEFINE k == a \div c
           d == c \div q
           r == a % c
           j == r \div q
           t == r % q
<1>1. a = c * k + r /\ k \in Nat /\ r \in Nat
  BY ModSplit
<1>2. c = q * d /\ d \in Nat
  BY ModSplit
<1> HIDE DEF k, d, r
<1>3. r = q * j + t /\ t \in 0 .. q - 1 /\ j \in Nat
  BY <1>1, ModSplit
<1> HIDE DEF j, t
<1>4. d * k \in Int /\ d * k + j \in Int
  BY <1>1, <1>2, <1>3
<1>5. c * k = q * (d * k)
  BY <1>1, <1>2
<1>6. a = q * (d * k + j) + t
  BY <1>1, <1>3, <1>4, <1>5
<1>7. a % q = t
  BY <1>3, <1>4, <1>6, ModIs
<1> QED BY <1>7 DEF t, r

\* The remainder of a sum, from that of the first number.
LEMMA ModAdd ==
    ASSUME NEW a \in Nat, NEW b \in Nat, NEW c \in Nat \ {0}
    PROVE  ((a % c) + b) % c = (a + b) % c
<1> DEFINE k == a \div c
           r == a % c
           j == (r + b) \div c
           t == (r + b) % c
<1>1. a = c * k + r /\ k \in Nat /\ r \in Nat
  BY ModSplit
<1> HIDE DEF k, r
<1>2. r + b = c * j + t /\ t \in 0 .. c - 1 /\ j \in Nat
  <2>1. r + b \in Nat
    BY <1>1
  <2> QED BY <2>1, ModSplit
<1> HIDE DEF j, t
<1>3. a + b = c * (k + j) + t /\ k + j \in Int /\ a + b \in Nat
  BY <1>1, <1>2
<1>4. (a + b) % c = t
  BY <1>2, <1>3, ModIs
<1> QED BY <1>4 DEF t, r
-----------------------------------------------------------------------------
(* The record.                                                             *)

\* The indices are what their names say.
LEMMA Indices ==
    ASSUME NEW n \in Nat
    PROVE  /\ SlotOf(n) \in Slot /\ PlaceOf(n) \in Place
           /\ Wire(n) \in 0 .. SeqCount - 1 /\ PlaceOf(n) <= n
           /\ SlotOfPacket[n] = SlotOf(n) /\ WireOfPacket[n] = Wire(n)
           /\ Itself[n] = n
<1> USE PublishNackAssumption
<1>1. n % QueueLen <= n
  <2>1. n = QueueLen * (n \div QueueLen) + (n % QueueLen) /\ n \div QueueLen \in Nat
    BY ModSplit
  <2>2. QueueLen * (n \div QueueLen) >= 0
    BY <2>1
  <2>3. n % QueueLen \in 0 .. QueueLen - 1
    BY ModSplit
  <2> QED BY <2>1, <2>2, <2>3
<1>2. SlotOf(n) \in Slot /\ PlaceOf(n) \in Place /\ Wire(n) \in 0 .. SeqCount - 1
  BY ModSplit DEF SlotOf, PlaceOf, Wire, Slot, Place
<1>3. SlotOfPacket[n] = SlotOf(n) /\ WireOfPacket[n] = Wire(n) /\ Itself[n] = n
  BY DEF SlotOfPacket, WireOfPacket, Itself
<1> QED BY <1>1, <1>2, <1>3 DEF PlaceOf

\* Two of the last QueueLen packets are not recorded in the same place.
LEMMA PlaceDistinct ==
    ASSUME NEW c \in Nat, NEW n \in 0 .. c - 1, NEW m \in 0 .. c - 1,
           n >= c - QueueLen, m >= c - QueueLen, PlaceOf(n) = PlaceOf(m)
    PROVE  n = m
<1> USE PublishNackAssumption
<1>1. n \in Nat /\ m \in Nat
  OBVIOUS
<1>2. CASE n < m
  <2>1. m < n + QueueLen
    BY <1>1
  <2>2. n % QueueLen # m % QueueLen
    BY <1>1, <1>2, <2>1, ModDistinct
  <2> QED BY <2>2 DEF PlaceOf
<1>3. CASE m < n
  <2>1. n < m + QueueLen
    BY <1>1
  <2>2. m % QueueLen # n % QueueLen
    BY <1>1, <1>3, <2>1, ModDistinct
  <2> QED BY <2>2 DEF PlaceOf
<1> QED BY <1>1, <1>2, <1>3

\* Packets recorded in the same place are QueueLen apart, or more.
LEMMA PlaceApart ==
    ASSUME NEW n \in Nat, NEW m \in Nat, PlaceOf(n) = PlaceOf(m), n < m
    PROVE  m >= n + QueueLen
<1> USE PublishNackAssumption
<1> SUFFICES ASSUME m < n + QueueLen PROVE FALSE
  OBVIOUS
<1>1. n % QueueLen # m % QueueLen
  BY ModDistinct
<1> QED BY <1>1 DEF PlaceOf

\* The next packet of a place, less than two rounds of the record later, is
\* exactly one round later.
LEMMA PlaceNext ==
    ASSUME NEW n \in Nat, NEW m \in Nat, PlaceOf(n) = PlaceOf(m), n <= m,
           m < n + 2 * QueueLen
    PROVE  m = n \/ m = n + QueueLen
<1> USE PublishNackAssumption
<1>1. CASE m < n + QueueLen
  <2>1. ~(n < m)
    BY <1>1, PlaceApart
  <2> QED BY <2>1
<1>2. CASE m >= n + QueueLen
  <2>1. PlaceOf(n + QueueLen) = PlaceOf(m)
    BY ModPeriod DEF PlaceOf
  <2>2. ~(n + QueueLen < m)
    BY <2>1, PlaceApart
  <2> QED BY <1>2, <2>2
<1> QED BY <1>1, <1>2

\* A packet of the last QueueLen is still recorded.
LEMMA RecordedHas ==
    ASSUME NEW f, NEW v, NEW blank, NEW c \in Nat, Recorded(f, v, c, blank),
           NEW n \in 0 .. c - 1, n >= c - QueueLen
    PROVE  f[PlaceOf(n)] = v[n]
<1>1. PlaceOf(n) \in Place /\ PlaceOf(n) <= n /\ PlaceOf(n) \in Int
  BY Indices, PublishNackAssumption DEF Place
<1>2. ~(PlaceOf(n) >= c)
  BY <1>1
<1>3. PICK m \in 0 .. c - 1 : /\ m >= c - QueueLen /\ PlaceOf(m) = PlaceOf(n)
                               /\ f[PlaceOf(n)] = v[m]
  BY <1>1, <1>2 DEF Recorded
<1>4. m = n
  BY <1>3, PlaceDistinct
<1> QED BY <1>3, <1>4

\* Recording packet c in its place makes a record of one packet more.
LEMMA RecordedNext ==
    ASSUME NEW f, NEW g, NEW v, NEW blank, NEW c \in Nat,
           Recorded(f, v, c, blank), DOMAIN f = Place,
           g = [f EXCEPT ![PlaceOf(c)] = v[c]]
    PROVE  Recorded(g, v, c + 1, blank)
<1> USE PublishNackAssumption
<1>1. PlaceOf(c) \in Place
  BY Indices
<1>2. ASSUME NEW p \in Place, p >= c + 1
      PROVE  g[p] = blank
  <2>1. f[p] = blank
    BY <1>2 DEF Recorded, Place
  <2>2. c \in 0 .. QueueLen - 1
    BY <1>2 DEF Place
  <2>3. PlaceOf(c) = c
    BY <2>2, ModSmall DEF PlaceOf
  <2> QED BY <1>2, <2>1, <2>3 DEF Place
<1>3. ASSUME NEW p \in Place, ~(p >= c + 1)
      PROVE  \E n \in 0 .. c : /\ n >= c + 1 - QueueLen
                               /\ PlaceOf(n) = p /\ g[p] = v[n]
  <2>1. CASE p = PlaceOf(c)
    <3>1. c \in 0 .. c /\ c >= c + 1 - QueueLen
      OBVIOUS
    <3>2. g[p] = v[c]
      BY <1>1, <2>1
    <3> QED BY <2>1, <3>1, <3>2
  <2>2. CASE p # PlaceOf(c)
    <3>1. p < c
      <4>1. CASE p = c
        BY <2>2, <4>1, ModSmall DEF PlaceOf, Place
      <4> QED BY <1>3, <4>1 DEF Place
    <3>2. PICK n \in 0 .. c - 1 : n >= c - QueueLen /\ PlaceOf(n) = p /\ f[p] = v[n]
      BY <3>1 DEF Recorded, Place
    <3>3. n # c - QueueLen
      <4>1. SUFFICES ASSUME n = c - QueueLen PROVE FALSE
        OBVIOUS
      <4>2. n \in Nat /\ c = n + QueueLen
        BY <4>1
      <4>3. PlaceOf(c) = PlaceOf(n)
        BY <4>2, ModPeriod DEF PlaceOf
      <4> QED BY <2>2, <3>2, <4>3
    <3>4. g[p] = f[p]
      BY <2>2
    <3>5. n \in 0 .. c /\ n >= c + 1 - QueueLen
      BY <3>2, <3>3
    <3> QED BY <3>2, <3>4, <3>5
  <2> QED BY <2>1, <2>2
<1>4. 0 .. (c + 1) - 1 = 0 .. c
  OBVIOUS
<1> QED BY <1>2, <1>3, <1>4 DEF Recorded
-----------------------------------------------------------------------------
(* The invariant.                                                          *)

\* The counts are the packets sent, and one more while a packet is written.
LEMMA Counts ==
    ASSUME IInv
    PROVE  /\ sent \in Nat /\ Written \in Nat /\ Payloads \in Nat
           /\ Lengths \in Nat /\ Numbers \in Nat /\ lag \in Nat
           /\ sent <= Numbers /\ Numbers <= Lengths /\ Lengths <= Payloads
           /\ Payloads <= Written /\ Written <= sent + 1
BY PublishNackAssumption
   DEF IInv, TypeOK, Written, Payloads, Lengths, Numbers

\* The record and the answer do not depend on the other variables.
LEMMA RecordSame ==
    ASSUME RecordHoldsLast, UNCHANGED <<sent, step, queue>>
    PROVE  RecordHoldsLast'
BY DEF RecordHoldsLast, Recorded, PayloadField, NbField, SeqField, Payloads,
       Lengths, Numbers, SlotOfPacket, WireOfPacket, Itself, SlotOf, Wire, PlaceOf,
       NoSlot, NoPacket, Place

LEMMA RingSame ==
    ASSUME RingHoldsLast, UNCHANGED <<sent, step, index, buffer>>
    PROVE  RingHoldsLast'
BY DEF RingHoldsLast, Written, SlotOf

LEMMA AnswerSame ==
    ASSUME AnswerIsRecent, UNCHANGED <<sent, step, answer, lag>>
    PROVE  AnswerIsRecent'
BY DEF AnswerIsRecent, AnswerOf, FromPlace, Answering, PayloadRead, NbRead,
       Written, Payloads, Lengths, Numbers, SlotOf, PlaceOf, Wire

\* One store into an entry changes one field of the record at one place.
StoredEntry == [payload : MaybeSlot, nb : MaybePacket, seq : 0 .. SeqCount - 1]

LEMMA StorePayload ==
    ASSUME queue \in [Place -> StoredEntry], NEW p \in Place, NEW x \in MaybeSlot,
           queue' = [queue EXCEPT ![p].payload = x]
    PROVE  /\ queue' \in [Place -> StoredEntry]
           /\ PayloadField' = [PayloadField EXCEPT ![p] = x]
           /\ NbField' = NbField /\ SeqField' = SeqField
<1> DEFINE entry == [queue[p] EXCEPT !.payload = x]
<1>1. /\ entry \in StoredEntry /\ entry.payload = x
      /\ entry.nb = queue[p].nb /\ entry.seq = queue[p].seq
  BY DEF StoredEntry
<1>2. queue' = [queue EXCEPT ![p] = entry]
  OBVIOUS
<1> HIDE DEF entry
<1> QED BY <1>1, <1>2 DEF PayloadField, NbField, SeqField

LEMMA StoreNb ==
    ASSUME queue \in [Place -> StoredEntry], NEW p \in Place, NEW x \in MaybePacket,
           queue' = [queue EXCEPT ![p].nb = x]
    PROVE  /\ queue' \in [Place -> StoredEntry]
           /\ NbField' = [NbField EXCEPT ![p] = x]
           /\ PayloadField' = PayloadField /\ SeqField' = SeqField
<1> DEFINE entry == [queue[p] EXCEPT !.nb = x]
<1>1. /\ entry \in StoredEntry /\ entry.nb = x
      /\ entry.payload = queue[p].payload /\ entry.seq = queue[p].seq
  BY DEF StoredEntry
<1>2. queue' = [queue EXCEPT ![p] = entry]
  OBVIOUS
<1> HIDE DEF entry
<1> QED BY <1>1, <1>2 DEF PayloadField, NbField, SeqField

LEMMA StoreSeq ==
    ASSUME queue \in [Place -> StoredEntry], NEW p \in Place,
           NEW x \in 0 .. SeqCount - 1, queue' = [queue EXCEPT ![p].seq = x]
    PROVE  /\ queue' \in [Place -> StoredEntry]
           /\ SeqField' = [SeqField EXCEPT ![p] = x]
           /\ PayloadField' = PayloadField /\ NbField' = NbField
<1> DEFINE entry == [queue[p] EXCEPT !.seq = x]
<1>1. /\ entry \in StoredEntry /\ entry.seq = x
      /\ entry.payload = queue[p].payload /\ entry.nb = queue[p].nb
  BY DEF StoredEntry
<1>2. queue' = [queue EXCEPT ![p] = entry]
  OBVIOUS
<1> HIDE DEF entry
<1> QED BY <1>1, <1>2 DEF PayloadField, NbField, SeqField

\* Encryption in place leaves every packet in its buffer.
LEMMA ProtectKeeps ==
    ASSUME IInv, NEW i \in Slot, buffer' = [buffer EXCEPT ![i] = Protect(@)],
           index' = index, Written' = Written
    PROVE  /\ buffer' \in [Slot -> [pkt : MaybePacket, cipher : BOOLEAN]]
           /\ RingHoldsLast'
<1>1. buffer \in [Slot -> [pkt : MaybePacket, cipher : BOOLEAN]]
  BY DEF IInv, TypeOK
<1>2. /\ Protect(buffer[i]) \in [pkt : MaybePacket, cipher : BOOLEAN]
      /\ Protect(buffer[i]).pkt = buffer[i].pkt
  BY <1>1 DEF Protect
<1>3. buffer' = [buffer EXCEPT ![i] = Protect(buffer[i])]
  BY <1>1 DEF Protect
<1>4. /\ buffer' \in [Slot -> [pkt : MaybePacket, cipher : BOOLEAN]]
      /\ \A j \in Slot : buffer'[j].pkt = buffer[j].pkt
  BY <1>1, <1>2, <1>3
<1>5. \A n \in 0 .. Written - 1 : SlotOf(n) \in Slot
  BY Counts, Indices
<1> QED BY <1>4, <1>5 DEF IInv, RingHoldsLast

LEMMA InitIInv == Init => IInv
<1> SUFFICES ASSUME Init PROVE IInv
  OBVIOUS
<1> USE PublishNackAssumption
<1>1. TypeOK
  <2>1. /\ NoSlot \in MaybeSlot /\ NoPacket \in MaybePacket /\ 0 \in Slot /\ 0 \in Place
        /\ 0 \in 0 .. SeqCount - 1 /\ 0 \in 0 .. Horizon /\ 0 \in 0 .. MaxLag
    BY DEF MaybeSlot, MaybePacket, Slot, Place
  <2>2. /\ buffer \in [Slot -> [pkt : MaybePacket, cipher : BOOLEAN]]
        /\ queue \in [Place -> [payload : MaybeSlot, nb : MaybePacket,
                                seq : 0 .. SeqCount - 1]]
        /\ wire \in [pkt : MaybePacket, cipher : BOOLEAN]
    BY <2>1 DEF Init
  <2>3. answer \in [pc : {"idle", "payload", "nb", "protect", "send"},
                    asked : 0 .. SeqCount - 1, place : Place,
                    slot : MaybeSlot, nb : MaybePacket]
    BY <2>1 DEF Init, Idle
  <2>4. sent = 0 /\ step = "write" /\ index = 0 /\ todo = {} /\ lag = 0
    BY DEF Init
  <2> QED BY <2>1, <2>2, <2>3, <2>4 DEF TypeOK, Steps
<1>2. RingHoldsLast
  BY ModSmall DEF Init, RingHoldsLast, Written
<1>3. RecordHoldsLast
  BY DEF Init, RecordHoldsLast, Recorded, PayloadField, NbField, SeqField, Payloads,
         Lengths, Numbers, Place
<1>4. TodoWasSent /\ AnswerIsRecent
  BY DEF Init, TodoWasSent, AnswerIsRecent, Answering, Idle
<1> QED BY <1>1, <1>2, <1>3, <1>4 DEF IInv

\* Packet number sent goes to the next slot of the ring, which held a packet
\* that leaves the last RingLen.
LEMMA WriteIInv == IInv /\ Write => IInv'
<1> SUFFICES ASSUME IInv, Write PROVE IInv'
  OBVIOUS
<1> USE PublishNackAssumption
<1> DEFINE written == [pkt |-> sent, cipher |-> FALSE]
<1>1. /\ sent \in Nat /\ sent < Horizon /\ step = "write" /\ index = sent % RingLen
      /\ lag \in 0 .. MaxLag
  BY DEF Write, IInv, TypeOK, RingHoldsLast, Written
<1>2. NextIndex = SlotOf(sent) /\ SlotOf(sent) \in Slot
  <2>1. NextIndex = SlotOf(sent)
    BY <1>1, ModSucc DEF NextIndex, SlotOf
  <2> QED BY <1>1, <2>1, Indices
<1>3. /\ sent' = sent /\ step' = "payload" /\ queue' = queue /\ todo' = todo
      /\ answer' = answer /\ wire' = wire
      /\ index' = SlotOf(sent) /\ buffer' = [buffer EXCEPT ![SlotOf(sent)] = written]
      /\ lag' = IF Answering THEN lag + 1 ELSE 0
      /\ Answering => lag < MaxLag
  BY <1>2 DEF Write
<1>4. written \in [pkt : MaybePacket, cipher : BOOLEAN] /\ written.pkt = sent
  BY <1>1 DEF MaybePacket, Packet
<1> HIDE DEF written
<1>5. /\ Written = sent /\ Payloads = sent /\ Lengths = sent /\ Numbers = sent
      /\ Written' = sent + 1 /\ Payloads' = sent /\ Lengths' = sent /\ Numbers' = sent
  BY <1>1, <1>3 DEF Written, Payloads, Lengths, Numbers
<1>6. TypeOK'
  <2>1. buffer' \in [Slot -> [pkt : MaybePacket, cipher : BOOLEAN]]
    BY <1>2, <1>3, <1>4 DEF IInv, TypeOK
  <2>2. lag' \in 0 .. MaxLag
    BY <1>1, <1>3
  <2>3. sent' < Horizon /\ step' \in Steps /\ index' \in Slot
    BY <1>1, <1>2, <1>3 DEF Steps
  <2> QED BY <1>3, <2>1, <2>2, <2>3 DEF IInv, TypeOK
<1>7. RingHoldsLast'
  <2>1. ASSUME NEW n \in 0 .. sent, n >= sent + 1 - RingLen
        PROVE  buffer'[SlotOf(n)].pkt = n
    <3>0. DOMAIN buffer = Slot
      BY DEF IInv, TypeOK
    <3>1. CASE n = sent
      BY <1>2, <1>3, <1>4, <3>0, <3>1
    <3>2. CASE n < sent
      <4> DEFINE a == n + 1
                 b == sent + 1
      <4>1. a \in Nat /\ b \in Nat /\ a < b /\ b < a + RingLen
        BY <1>1, <2>1, <3>2
      <4> HIDE DEF a, b
      <4>2. a % RingLen # b % RingLen
        BY <4>1, ModDistinct
      <4>3. SlotOf(n) \in Slot /\ buffer[SlotOf(n)].pkt = n
        BY <1>1, <1>5, <2>1, <3>2, Indices DEF IInv, RingHoldsLast
      <4>4. SlotOf(n) # SlotOf(sent)
        BY <4>2 DEF SlotOf, a, b
      <4> QED BY <1>3, <3>0, <4>3, <4>4
    <3> QED BY <1>1, <3>1, <3>2
  <2>2. index' = Written' % RingLen
    BY <1>3, <1>5 DEF SlotOf
  <2>3. ASSUME NEW n \in 0 .. Written' - 1, n >= Written' - RingLen
        PROVE  buffer'[SlotOf(n)].pkt = n
    BY <1>1, <1>5, <2>1, <2>3
  <2> QED BY <2>2, <2>3 DEF RingHoldsLast
<1>8. RecordHoldsLast'
  BY <1>3, <1>5 DEF IInv, RecordHoldsLast, Recorded, PayloadField, NbField, SeqField
<1>9. TodoWasSent'
  BY <1>3 DEF IInv, TodoWasSent
<1>10. AnswerIsRecent'
  <2> SUFFICES ASSUME Answering PROVE \E n \in 0 .. sent - 1 : AnswerOf(n)'
    BY <1>3, <1>5 DEF AnswerIsRecent, Answering
  <2>1. PICK n \in 0 .. sent - 1 : AnswerOf(n)
    BY <1>5 DEF IInv, AnswerIsRecent
  <2>2. n >= Written' - 1 - QueueLen - lag'
    BY <1>1, <1>3, <1>5, <2>1 DEF AnswerOf
  <2>3. AnswerOf(n)'
    BY <1>3, <1>5, <2>1, <2>2 DEF AnswerOf, FromPlace, PayloadRead, NbRead
  <2> QED BY <2>3
<1> QED BY <1>6, <1>7, <1>8, <1>9, <1>10 DEF IInv

\* Its payload is recorded: whoever looks at the same place reads it from now on.
LEMMA CachePayloadIInv == IInv /\ CachePayload => IInv'
<1> SUFFICES ASSUME IInv, CachePayload PROVE IInv'
  OBVIOUS
<1> USE PublishNackAssumption
<1>1. sent \in Nat /\ step = "payload" /\ step' = "nb" /\ sent' = sent /\ lag \in Nat
  BY Counts DEF CachePayload
<1>2. /\ Written = sent + 1 /\ Payloads = sent /\ Lengths = sent /\ Numbers = sent
      /\ Written' = sent + 1 /\ Payloads' = sent + 1 /\ Lengths' = sent /\ Numbers' = sent
  BY <1>1 DEF Written, Payloads, Lengths, Numbers
<1>3. index = SlotOf(sent) /\ PlaceOf(sent) \in Place /\ SlotOf(sent) \in Slot
  BY <1>1, <1>2, Indices DEF IInv, RingHoldsLast, SlotOf
<1>4. /\ queue' = [queue EXCEPT ![PlaceOf(sent)].payload = SlotOf(sent)]
      /\ UNCHANGED <<sent, index, buffer, todo, answer, lag, wire>>
  BY <1>3 DEF CachePayload
<1>5. /\ queue' \in [Place -> StoredEntry]
      /\ PayloadField' = [PayloadField EXCEPT ![PlaceOf(sent)] = SlotOf(sent)]
      /\ NbField' = NbField /\ SeqField' = SeqField
  <2>1. SlotOf(sent) \in MaybeSlot /\ queue \in [Place -> StoredEntry]
    BY <1>3 DEF MaybeSlot, StoredEntry, IInv, TypeOK
  <2> QED BY <1>3, <1>4, <2>1, StorePayload
<1>6. TypeOK'
  <2>1. queue' \in [Place -> StoredEntry]
    BY <1>5
  <2>2. step' \in Steps /\ (step' # "write" => sent' < Horizon)
    BY <1>1 DEF Steps, IInv, TypeOK
  <2> QED BY <1>1, <1>4, <2>1, <2>2 DEF IInv, TypeOK, StoredEntry
<1>7. RingHoldsLast'
  BY <1>2, <1>4 DEF IInv, RingHoldsLast
<1>8. RecordHoldsLast'
  <2>1. /\ PayloadField' = [PayloadField EXCEPT ![PlaceOf(sent)] = SlotOfPacket[sent]]
        /\ DOMAIN PayloadField = Place
    BY <1>1, <1>5, Indices DEF PayloadField
  <2>3. /\ Recorded(PayloadField, SlotOfPacket, sent, NoSlot)
        /\ Recorded(NbField, Itself, sent, NoPacket)
        /\ Recorded(SeqField, WireOfPacket, sent, 0)
    BY <1>2 DEF IInv, RecordHoldsLast
  <2>4. Recorded(PayloadField', SlotOfPacket, sent + 1, NoSlot)
    BY <1>1, <2>1, <2>3, RecordedNext
  <2> QED BY <1>2, <1>5, <2>3, <2>4 DEF RecordHoldsLast
<1>9. AnswerIsRecent'
  <2> SUFFICES ASSUME Answering PROVE \E n \in 0 .. sent - 1 : AnswerOf(n)'
    BY <1>2, <1>4 DEF AnswerIsRecent, Answering
  <2>1. PICK n \in 0 .. sent - 1 : AnswerOf(n)
    BY <1>2 DEF IInv, AnswerIsRecent
  <2>2. \A m : FromPlace(n, Payloads, m) => FromPlace(n, Payloads, m)'
    BY <1>1, <1>2, <1>4 DEF FromPlace
  <2>3. AnswerOf(n)'
    BY <1>2, <1>4, <2>1, <2>2 DEF AnswerOf, FromPlace, PayloadRead, NbRead
  <2> QED BY <2>3
<1>10. TodoWasSent'
  BY <1>4 DEF IInv, TodoWasSent
<1> QED BY <1>6, <1>7, <1>8, <1>9, <1>10 DEF IInv

\* Its length is recorded.
LEMMA CacheNbIInv == IInv /\ CacheNb => IInv'
<1> SUFFICES ASSUME IInv, CacheNb PROVE IInv'
  OBVIOUS
<1> USE PublishNackAssumption
<1>1. sent \in Nat /\ step = "nb" /\ step' = "seq" /\ sent' = sent
  BY Counts DEF CacheNb
<1>2. /\ Written = sent + 1 /\ Payloads = sent + 1 /\ Lengths = sent /\ Numbers = sent
      /\ Written' = sent + 1 /\ Payloads' = sent + 1
      /\ Lengths' = sent + 1 /\ Numbers' = sent
  BY <1>1 DEF Written, Payloads, Lengths, Numbers
<1>3. /\ queue' = [queue EXCEPT ![PlaceOf(sent)].nb = sent] /\ PlaceOf(sent) \in Place
      /\ UNCHANGED <<sent, index, buffer, todo, answer, lag, wire>>
  BY <1>1, Indices DEF CacheNb
<1>4. /\ queue' \in [Place -> StoredEntry]
      /\ NbField' = [NbField EXCEPT ![PlaceOf(sent)] = sent]
      /\ PayloadField' = PayloadField /\ SeqField' = SeqField
  <2>1. sent \in MaybePacket /\ queue \in [Place -> StoredEntry]
    BY <1>1 DEF MaybePacket, Packet, StoredEntry, IInv, TypeOK
  <2> QED BY <1>3, <2>1, StoreNb
<1>5. TypeOK'
  <2>1. step' \in Steps /\ sent' < Horizon
    BY <1>1 DEF Steps, IInv, TypeOK
  <2> QED BY <1>1, <1>3, <1>4, <2>1 DEF IInv, TypeOK, StoredEntry
<1>6. RingHoldsLast'
  BY <1>2, <1>3 DEF IInv, RingHoldsLast
<1>7. RecordHoldsLast'
  <2>1. /\ NbField' = [NbField EXCEPT ![PlaceOf(sent)] = Itself[sent]]
        /\ DOMAIN NbField = Place
    BY <1>1, <1>4, Indices DEF NbField
  <2>3. /\ Recorded(PayloadField, SlotOfPacket, sent + 1, NoSlot)
        /\ Recorded(NbField, Itself, sent, NoPacket)
        /\ Recorded(SeqField, WireOfPacket, sent, 0)
    BY <1>2 DEF IInv, RecordHoldsLast
  <2>4. Recorded(NbField', Itself, sent + 1, NoPacket)
    BY <1>1, <2>1, <2>3, RecordedNext
  <2> QED BY <1>2, <1>4, <2>3, <2>4 DEF RecordHoldsLast
<1>8. AnswerIsRecent'
  <2> SUFFICES ASSUME Answering PROVE \E n \in 0 .. sent - 1 : AnswerOf(n)'
    BY <1>2, <1>3 DEF AnswerIsRecent, Answering
  <2>1. PICK n \in 0 .. sent - 1 : AnswerOf(n)
    BY <1>2 DEF IInv, AnswerIsRecent
  <2>2. \A m : FromPlace(n, Lengths, m) => FromPlace(n, Lengths, m)'
    BY <1>1, <1>2, <1>3 DEF FromPlace
  <2>3. AnswerOf(n)'
    BY <1>2, <1>3, <2>1, <2>2 DEF AnswerOf, FromPlace, PayloadRead, NbRead
  <2> QED BY <2>3
<1>9. TodoWasSent'
  BY <1>3 DEF IInv, TodoWasSent
<1> QED BY <1>5, <1>6, <1>7, <1>8, <1>9 DEF IInv

\* Its number is recorded: from now on it can be found.
LEMMA CacheSeqIInv == IInv /\ CacheSeq => IInv'
<1> SUFFICES ASSUME IInv, CacheSeq PROVE IInv'
  OBVIOUS
<1> USE PublishNackAssumption
<1>1. sent \in Nat /\ step = "seq" /\ step' = "protect" /\ sent' = sent
  BY Counts DEF CacheSeq
<1>2. /\ Written = sent + 1 /\ Payloads = sent + 1 /\ Lengths = sent + 1 /\ Numbers = sent
      /\ Written' = sent + 1 /\ Payloads' = sent + 1
      /\ Lengths' = sent + 1 /\ Numbers' = sent + 1
  BY <1>1 DEF Written, Payloads, Lengths, Numbers
<1>3. /\ queue' = [queue EXCEPT ![PlaceOf(sent)].seq = Wire(sent)]
      /\ PlaceOf(sent) \in Place /\ Wire(sent) \in 0 .. SeqCount - 1
      /\ UNCHANGED <<sent, index, buffer, todo, answer, lag, wire>>
  BY <1>1, Indices DEF CacheSeq
<1>4. /\ queue' \in [Place -> StoredEntry]
      /\ SeqField' = [SeqField EXCEPT ![PlaceOf(sent)] = Wire(sent)]
      /\ PayloadField' = PayloadField /\ NbField' = NbField
  <2>1. queue \in [Place -> StoredEntry]
    BY DEF StoredEntry, IInv, TypeOK
  <2> QED BY <1>3, <2>1, StoreSeq
<1>5. TypeOK'
  <2>1. step' \in Steps /\ sent' < Horizon
    BY <1>1 DEF Steps, IInv, TypeOK
  <2> QED BY <1>1, <1>3, <1>4, <2>1 DEF IInv, TypeOK, StoredEntry
<1>6. RingHoldsLast'
  BY <1>2, <1>3 DEF IInv, RingHoldsLast
<1>7. RecordHoldsLast'
  <2>1. /\ SeqField' = [SeqField EXCEPT ![PlaceOf(sent)] = WireOfPacket[sent]]
        /\ DOMAIN SeqField = Place
    BY <1>1, <1>4, Indices DEF SeqField
  <2>3. /\ Recorded(PayloadField, SlotOfPacket, sent + 1, NoSlot)
        /\ Recorded(NbField, Itself, sent + 1, NoPacket)
        /\ Recorded(SeqField, WireOfPacket, sent, 0)
    BY <1>2 DEF IInv, RecordHoldsLast
  <2>4. Recorded(SeqField', WireOfPacket, sent + 1, 0)
    BY <1>1, <2>1, <2>3, RecordedNext
  <2> QED BY <1>2, <1>4, <2>3, <2>4 DEF RecordHoldsLast
<1>8. AnswerIsRecent'
  <2> SUFFICES ASSUME Answering PROVE \E n \in 0 .. sent : AnswerOf(n)'
    BY <1>1, <1>2, <1>3 DEF AnswerIsRecent, Answering
  <2>1. PICK n \in 0 .. sent - 1 : AnswerOf(n)
    BY <1>2 DEF IInv, AnswerIsRecent
  <2>2. n \in 0 .. sent
    BY <1>1
  <2> QED BY <1>2, <1>3, <2>1, <2>2 DEF AnswerOf, FromPlace, PayloadRead, NbRead
<1>9. TodoWasSent'
  BY <1>3 DEF IInv, TodoWasSent
<1> QED BY <1>5, <1>6, <1>7, <1>8, <1>9 DEF IInv

\* Encryption before sending.
LEMMA ProtectPacketIInv == IInv /\ ProtectPacket => IInv'
<1> SUFFICES ASSUME IInv, ProtectPacket PROVE IInv'
  OBVIOUS
<1>1. /\ sent' = sent /\ step = "protect" /\ step' = "send" /\ index \in Slot
      /\ buffer' = [buffer EXCEPT ![index] = Protect(@)]
      /\ UNCHANGED <<index, queue, todo, answer, lag, wire>>
  BY DEF ProtectPacket, IInv, TypeOK
<1>2. /\ Written' = Written /\ Payloads' = Payloads
      /\ Lengths' = Lengths /\ Numbers' = Numbers
  BY <1>1 DEF Written, Payloads, Lengths, Numbers
<1>3. /\ buffer' \in [Slot -> [pkt : MaybePacket, cipher : BOOLEAN]]
      /\ RingHoldsLast'
  BY <1>1, <1>2, ProtectKeeps
<1>4. TypeOK'
  BY <1>1, <1>3 DEF IInv, TypeOK, Steps
<1>5. RecordHoldsLast' /\ AnswerIsRecent' /\ TodoWasSent'
  BY <1>1, <1>2 DEF IInv, RecordHoldsLast, PayloadField, NbField, SeqField, AnswerIsRecent,
     AnswerOf, FromPlace, Answering, PayloadRead, NbRead, TodoWasSent
<1> QED BY <1>3, <1>4, <1>5 DEF IInv

\* The packet counts as sent.
LEMMA SendPacketIInv == IInv /\ SendPacket => IInv'
<1> SUFFICES ASSUME IInv, SendPacket PROVE IInv'
  OBVIOUS
<1> USE PublishNackAssumption
<1>1. /\ sent \in Nat /\ sent' = sent + 1 /\ step = "send" /\ step' = "write"
      /\ wire' = buffer[index]
      /\ UNCHANGED <<index, buffer, queue, todo, answer, lag>>
  BY Counts DEF SendPacket
<1>2. /\ Written' = Written /\ Payloads' = Payloads
      /\ Lengths' = Lengths /\ Numbers' = Numbers
  BY <1>1 DEF Written, Payloads, Lengths, Numbers
<1>3. TypeOK'
  BY <1>1 DEF IInv, TypeOK, Steps
<1>4. RingHoldsLast' /\ TodoWasSent'
  BY <1>1, <1>2 DEF IInv, RingHoldsLast, TodoWasSent
<1>5. RecordHoldsLast' /\ AnswerIsRecent'
  BY <1>1, <1>2 DEF IInv, RecordHoldsLast, PayloadField, NbField, SeqField, AnswerIsRecent,
     AnswerOf, FromPlace, Answering, PayloadRead, NbRead
<1> QED BY <1>3, <1>4, <1>5 DEF IInv

\* The UDP thread takes up a number: its entry is found only if the packet is
\* one of the last QueueLen recorded.
LEMMA FetchOneIInv ==
    ASSUME IInv, NEW s \in todo, FetchOne(s)
    PROVE  IInv'
<1> USE PublishNackAssumption
<1>1. /\ s \in 0 .. SeqCount - 1 /\ sent > 0 /\ PlaceOf(s) \in Place /\ 0 \in 0 .. MaxLag
      /\ sent \in Nat /\ Numbers \in Nat /\ sent <= Numbers
      /\ step \in Steps
  <2>1. s \in 0 .. SeqCount - 1 /\ sent > 0 /\ step \in Steps
    BY DEF IInv, TypeOK, TodoWasSent
  <2>2. s \in Nat
    BY <2>1
  <2> QED BY <2>1, <2>2, Indices, Counts
<1>2. /\ UNCHANGED <<sent, step, index, buffer, queue, wire>>
      /\ todo' \subseteq todo /\ lag' = 0 /\ ~Answering
  BY DEF FetchOne, publisher
<1>3. /\ Written' = Written /\ Payloads' = Payloads
      /\ Lengths' = Lengths /\ Numbers' = Numbers
  BY <1>2 DEF Written, Payloads, Lengths, Numbers
<1>4. RingHoldsLast' /\ RecordHoldsLast' /\ TodoWasSent'
  BY <1>2, <1>3 DEF IInv, RingHoldsLast, RecordHoldsLast, PayloadField, NbField,
                    SeqField, TodoWasSent
<1>5. CASE ~Fetch(s)
  <2>1. answer' = answer
    BY <1>5 DEF FetchOne
  <2>2. TypeOK'
    BY <1>1, <1>2, <2>1 DEF IInv, TypeOK
  <2>3. AnswerIsRecent'
    BY <1>2, <2>1 DEF AnswerIsRecent, Answering
  <2> QED BY <1>4, <2>2, <2>3 DEF IInv
<1>6. CASE Fetch(s)
  <2>1. /\ answer' = [answer EXCEPT !.pc = "payload", !.asked = s, !.place = PlaceOf(s)]
        /\ answer \in [pc : {"idle", "payload", "nb", "protect", "send"},
                       asked : 0 .. SeqCount - 1, place : Place,
                       slot : MaybeSlot, nb : MaybePacket]
    BY <1>6 DEF FetchOne, IInv, TypeOK
  <2>2. /\ answer'.pc = "payload" /\ answer'.asked = s /\ answer'.place = PlaceOf(s)
        /\ answer' \in [pc : {"idle", "payload", "nb", "protect", "send"},
                        asked : 0 .. SeqCount - 1, place : Place,
                        slot : MaybeSlot, nb : MaybePacket]
    BY <1>1, <2>1
  <2>3. TypeOK'
    BY <1>1, <1>2, <2>2 DEF IInv, TypeOK
  <2>4. PICK n \in 0 .. Numbers - 1 :
           n >= Numbers - QueueLen /\ PlaceOf(n) = PlaceOf(s) /\ Wire(n) = s
    <3>1. Recorded(SeqField, WireOfPacket, Numbers, 0)
      BY DEF IInv, RecordHoldsLast
    <3>2. SeqField[PlaceOf(s)] = s
      BY <1>1, <1>6 DEF Fetch, SeqField
    <3>3. ~(PlaceOf(s) >= Numbers)
      <4> SUFFICES ASSUME PlaceOf(s) >= Numbers PROVE FALSE
        OBVIOUS
      <4>1. s = 0
        BY <1>1, <3>1, <3>2 DEF Recorded
      <4>2. PlaceOf(s) = 0
        BY <4>1, ModSmall DEF PlaceOf
      <4> QED BY <1>1, <4>2
    <3>4. PICK n \in 0 .. Numbers - 1 :
             /\ n >= Numbers - QueueLen /\ PlaceOf(n) = PlaceOf(s)
             /\ SeqField[PlaceOf(s)] = WireOfPacket[n]
      BY <1>1, <3>1, <3>3 DEF Recorded
    <3>5. WireOfPacket[n] = Wire(n)
      BY <1>1, Indices
    <3> QED BY <3>2, <3>4, <3>5
  <2>5. n >= Written - 1 - QueueLen
    BY <2>4, Counts
  <2>6. AnswerOf(n)'
    <3>1. ~PayloadRead' /\ ~NbRead'
      BY <2>2 DEF PayloadRead, NbRead
    <3> QED BY <1>2, <1>3, <2>2, <2>4, <2>5, <3>1, Counts DEF AnswerOf
  <2>7. AnswerIsRecent'
    BY <1>3, <2>4, <2>6 DEF AnswerIsRecent
  <2> QED BY <1>4, <2>3, <2>7 DEF IInv
<1> QED BY <1>5, <1>6

\* It reads the payload of the entry: that of the packet recorded there last,
\* which is the packet found or a later one.
LEMMA ReadPayloadIInv == IInv /\ ReadPayload => IInv'
<1> SUFFICES ASSUME IInv, ReadPayload PROVE IInv'
  OBVIOUS
<1> USE PublishNackAssumption
<1> DEFINE x == queue[answer.place].payload
<1>1. /\ answer.pc = "payload" /\ answer' = [answer EXCEPT !.pc = "nb", !.slot = x]
      /\ UNCHANGED <<sent, step, index, buffer, queue, wire, todo, lag>>
      /\ Answering
  BY DEF ReadPayload, publisher, Answering
<1>2. /\ Written' = Written /\ Payloads' = Payloads
      /\ Lengths' = Lengths /\ Numbers' = Numbers
  BY <1>1 DEF Written, Payloads, Lengths, Numbers
<1>3. RingHoldsLast' /\ RecordHoldsLast' /\ TodoWasSent'
  BY <1>1, <1>2 DEF IInv, RingHoldsLast, RecordHoldsLast, PayloadField, NbField,
                    SeqField, TodoWasSent
<1>4. x \in MaybeSlot /\ answer.place \in Place /\ PayloadField[answer.place] = x
  BY DEF IInv, TypeOK, PayloadField
<1> HIDE DEF x
<1>5. /\ answer'.pc = "nb" /\ answer'.asked = answer.asked
      /\ answer'.place = answer.place /\ answer'.slot = x
      /\ answer' \in [pc : {"idle", "payload", "nb", "protect", "send"},
                      asked : 0 .. SeqCount - 1, place : Place,
                      slot : MaybeSlot, nb : MaybePacket]
  BY <1>1, <1>4 DEF IInv, TypeOK
<1>6. TypeOK'
  BY <1>1, <1>5 DEF IInv, TypeOK
<1>7. PICK n \in 0 .. Numbers - 1 : AnswerOf(n)
  BY <1>1 DEF IInv, AnswerIsRecent
<1>8. /\ n \in Nat /\ n \in 0 .. Payloads - 1 /\ PlaceOf(n) = answer.place
      /\ Wire(n) = answer.asked
  BY <1>7, Counts DEF AnswerOf
<1>9. Recorded(PayloadField, SlotOfPacket, Payloads, NoSlot)
  BY DEF IInv, RecordHoldsLast
<1>10. PICK m \in 0 .. Payloads - 1 :
           /\ m >= Payloads - QueueLen /\ PlaceOf(m) = answer.place
           /\ PayloadField[answer.place] = SlotOfPacket[m]
  <2>1. PlaceOf(n) <= n /\ PlaceOf(n) \in Nat
    BY <1>8, Indices DEF Place
  <2>2. ~(answer.place >= Payloads)
    BY <1>8, <2>1, Counts
  <2> QED BY <1>4, <1>9, <2>2 DEF Recorded
<1>11. FromPlace(n, Payloads, m) /\ x = SlotOf(m) /\ m \in Nat
  <2>1. m \in Nat /\ Payloads \in Nat
    BY Counts
  <2>2. ~(m < n)
    <3>1. m < n => n >= m + QueueLen
      BY <1>8, <1>10, <2>1, PlaceApart
    <3> QED BY <1>8, <1>10, <2>1, <3>1
  <2>3. m \in n .. Payloads - 1
    BY <1>8, <2>1, <2>2
  <2> QED BY <1>4, <1>10, <2>1, <2>3, Indices DEF FromPlace
<1>12. AnswerOf(n)'
  <2>1. ~NbRead'
    BY <1>5 DEF NbRead
  <2>2. FromPlace(n, Payloads, m)' /\ answer'.slot = SlotOf(m)
    BY <1>2, <1>5, <1>11 DEF FromPlace
  <2>3. n >= Written' - 1 - QueueLen - lag'
    BY <1>1, <1>2, <1>7 DEF AnswerOf
  <2> QED BY <1>5, <1>8, <1>11, <2>1, <2>2, <2>3 DEF AnswerOf
<1>13. AnswerIsRecent'
  BY <1>2, <1>7, <1>12 DEF AnswerIsRecent
<1> QED BY <1>3, <1>6, <1>13 DEF IInv

\* It reads the length of the entry.
LEMMA ReadNbIInv == IInv /\ ReadNb => IInv'
<1> SUFFICES ASSUME IInv, ReadNb PROVE IInv'
  OBVIOUS
<1> USE PublishNackAssumption
<1> DEFINE x == queue[answer.place].nb
<1>1. /\ answer.pc = "nb" /\ answer' = [answer EXCEPT !.pc = "protect", !.nb = x]
      /\ UNCHANGED <<sent, step, index, buffer, queue, wire, todo, lag>>
      /\ Answering /\ PayloadRead
  BY DEF ReadNb, publisher, Answering, PayloadRead
<1>2. /\ Written' = Written /\ Payloads' = Payloads
      /\ Lengths' = Lengths /\ Numbers' = Numbers
  BY <1>1 DEF Written, Payloads, Lengths, Numbers
<1>3. RingHoldsLast' /\ RecordHoldsLast' /\ TodoWasSent'
  BY <1>1, <1>2 DEF IInv, RingHoldsLast, RecordHoldsLast, PayloadField, NbField,
                    SeqField, TodoWasSent
<1>4. x \in MaybePacket /\ answer.place \in Place /\ NbField[answer.place] = x
  BY DEF IInv, TypeOK, NbField
<1> HIDE DEF x
<1>5. /\ answer'.pc = "protect" /\ answer'.asked = answer.asked /\ answer'.nb = x
      /\ answer'.place = answer.place /\ answer'.slot = answer.slot
      /\ answer' \in [pc : {"idle", "payload", "nb", "protect", "send"},
                      asked : 0 .. SeqCount - 1, place : Place,
                      slot : MaybeSlot, nb : MaybePacket]
  BY <1>1, <1>4 DEF IInv, TypeOK
<1>6. TypeOK'
  BY <1>1, <1>5 DEF IInv, TypeOK
<1>7. PICK n \in 0 .. Numbers - 1 : AnswerOf(n)
  BY <1>1 DEF IInv, AnswerIsRecent
<1>8. /\ n \in Nat /\ n \in 0 .. Lengths - 1 /\ PlaceOf(n) = answer.place
      /\ Wire(n) = answer.asked
  BY <1>7, Counts DEF AnswerOf
<1>9. PICK m \in 0 .. Lengths - 1 :
          /\ m >= Lengths - QueueLen /\ PlaceOf(m) = answer.place
          /\ NbField[answer.place] = Itself[m]
  <2>1. PlaceOf(n) <= n /\ PlaceOf(n) \in Nat
    BY <1>8, Indices DEF Place
  <2>2. ~(answer.place >= Lengths)
    BY <1>8, <2>1, Counts
  <2>3. Recorded(NbField, Itself, Lengths, NoPacket)
    BY DEF IInv, RecordHoldsLast
  <2> QED BY <1>4, <2>2, <2>3 DEF Recorded
<1>10. FromPlace(n, Lengths, x)
  <2>1. m \in Nat /\ Lengths \in Nat
    BY Counts
  <2>2. ~(m < n)
    <3>1. m < n => n >= m + QueueLen
      BY <1>8, <1>9, <2>1, PlaceApart
    <3> QED BY <1>8, <1>9, <2>1, <3>1
  <2>3. x = m /\ m \in n .. Lengths - 1
    BY <1>4, <1>8, <1>9, <2>1, <2>2, Indices
  <2> QED BY <1>9, <2>3 DEF FromPlace
<1>11. AnswerOf(n)'
  <2>1. FromPlace(n, Lengths, answer.nb)'
    BY <1>2, <1>5, <1>10 DEF FromPlace
  <2>2. \E k \in Nat : FromPlace(n, Payloads, k)' /\ answer'.slot = SlotOf(k)
    BY <1>1, <1>2, <1>5, <1>7 DEF AnswerOf, FromPlace
  <2>3. n >= Written' - 1 - QueueLen - lag'
    BY <1>1, <1>2, <1>7 DEF AnswerOf
  <2> QED BY <1>5, <1>8, <2>1, <2>2, <2>3 DEF AnswerOf
<1>12. AnswerIsRecent'
  BY <1>2, <1>7, <1>11 DEF AnswerIsRecent
<1> QED BY <1>3, <1>6, <1>12 DEF IInv

\* What was read is the index of a buffer.
LEMMA SlotRead ==
    ASSUME IInv, PayloadRead
    PROVE  answer.slot \in Slot
<1>1. Answering
  BY DEF PayloadRead, Answering
<1>2. PICK n \in 0 .. Numbers - 1 : AnswerOf(n)
  BY <1>1 DEF IInv, AnswerIsRecent
<1>3. PICK m \in Nat : answer.slot = SlotOf(m)
  BY <1>2 DEF AnswerOf
<1> QED BY <1>3, Indices

\* It encrypts the buffer it found, which keeps its packet.
LEMMA ProtectAnswerIInv == IInv /\ ProtectAnswer => IInv'
<1> SUFFICES ASSUME IInv, ProtectAnswer PROVE IInv'
  OBVIOUS
<1> USE PublishNackAssumption
<1>1. /\ answer.pc = "protect" /\ answer' = [answer EXCEPT !.pc = "send"]
      /\ buffer' = [buffer EXCEPT ![answer.slot] = Protect(@)]
      /\ UNCHANGED <<sent, step, index, queue, wire, todo, lag>>
      /\ Answering /\ PayloadRead /\ NbRead
  BY DEF ProtectAnswer, publisher, Answering, PayloadRead, NbRead
<1>2. /\ Written' = Written /\ Payloads' = Payloads
      /\ Lengths' = Lengths /\ Numbers' = Numbers
  BY <1>1 DEF Written, Payloads, Lengths, Numbers
<1>3. answer.slot \in Slot
  BY <1>1, SlotRead
<1>4. /\ buffer' \in [Slot -> [pkt : MaybePacket, cipher : BOOLEAN]]
      /\ RingHoldsLast'
  BY <1>1, <1>2, <1>3, ProtectKeeps
<1>5. /\ answer'.pc = "send" /\ answer'.asked = answer.asked /\ answer'.nb = answer.nb
      /\ answer'.place = answer.place /\ answer'.slot = answer.slot
      /\ answer' \in [pc : {"idle", "payload", "nb", "protect", "send"},
                      asked : 0 .. SeqCount - 1, place : Place,
                      slot : MaybeSlot, nb : MaybePacket]
  BY <1>1 DEF IInv, TypeOK
<1>6. TypeOK'
  BY <1>1, <1>4, <1>5 DEF IInv, TypeOK
<1>7. RecordHoldsLast' /\ TodoWasSent'
  BY <1>1, <1>2 DEF IInv, RecordHoldsLast, PayloadField, NbField, SeqField, TodoWasSent
<1>8. AnswerIsRecent'
  BY <1>1, <1>2, <1>5 DEF IInv, AnswerIsRecent, AnswerOf, FromPlace
<1> QED BY <1>4, <1>6, <1>7, <1>8 DEF IInv

\* It sends the buffer, or gives the NACK up.
LEMMA SendAnswerIInv ==
    ASSUME IInv, NEW ok \in BOOLEAN, SendAnswer(ok)
    PROVE  IInv'
<1> USE PublishNackAssumption
<1>1. /\ answer.pc = "send" /\ answer' = Idle /\ lag' = 0
      /\ todo' \subseteq todo /\ wire' \in {wire, buffer[answer.slot]}
      /\ UNCHANGED <<sent, step, index, buffer, queue>> /\ PayloadRead
  BY DEF SendAnswer, publisher, PayloadRead
<1>2. /\ Written' = Written /\ Payloads' = Payloads
      /\ Lengths' = Lengths /\ Numbers' = Numbers
  BY <1>1 DEF Written, Payloads, Lengths, Numbers
<1>3. answer.slot \in Slot
  BY <1>1, SlotRead
<1>4. TypeOK'
  <2>1. wire' \in [pkt : MaybePacket, cipher : BOOLEAN]
    BY <1>1, <1>3 DEF IInv, TypeOK
  <2>2. Idle \in [pc : {"idle", "payload", "nb", "protect", "send"},
                 asked : 0 .. SeqCount - 1, place : Place,
                 slot : MaybeSlot, nb : MaybePacket]
    <3>1. /\ NoSlot \in MaybeSlot /\ NoPacket \in MaybePacket /\ 0 \in Place
          /\ 0 \in 0 .. SeqCount - 1
      BY DEF MaybeSlot, MaybePacket, Place
    <3> QED BY <3>1 DEF Idle
  <2>3. todo' \subseteq 0 .. SeqCount - 1 /\ 0 \in 0 .. MaxLag
    BY <1>1 DEF IInv, TypeOK
  <2> QED BY <1>1, <2>1, <2>2, <2>3 DEF IInv, TypeOK
<1>5. RingHoldsLast' /\ RecordHoldsLast' /\ TodoWasSent'
  BY <1>1, <1>2 DEF IInv, RingHoldsLast, RecordHoldsLast, PayloadField, NbField,
                    SeqField, TodoWasSent
<1>6. AnswerIsRecent'
  <2>1. answer'.pc = "idle"
    BY <1>1 DEF Idle
  <2> QED BY <2>1 DEF AnswerIsRecent, Answering
<1> QED BY <1>4, <1>5, <1>6 DEF IInv

LEMMA NextIInv == IInv /\ [Next]_vars => IInv'
<1> SUFFICES ASSUME IInv, [Next]_vars PROVE IInv'
  OBVIOUS
<1>1. CASE Publish
  BY <1>1, WriteIInv, CachePayloadIInv, CacheNbIInv, CacheSeqIInv, ProtectPacketIInv,
     SendPacketIInv DEF Publish
<1>2. ASSUME NEW s \in Askable, NEW t \in Askable, RecvNack({s, t})
      PROVE  IInv'
  <2>1. /\ todo' = {s, t}
        /\ UNCHANGED <<sent, step, index, buffer, queue, answer, lag, wire>>
    BY <1>2 DEF RecvNack, publisher
  <2>2. ASSUME NEW u \in Askable PROVE u \in 0 .. SeqCount - 1 /\ sent > 0
    <3>1. PICK n \in 0 .. sent - 1 : u = Wire(n)
      BY DEF Askable
    <3>2. n \in Nat /\ sent > 0
      BY Counts
    <3> QED BY <3>1, <3>2, Indices
  <2>3. TypeOK' /\ TodoWasSent'
    BY <2>1, <2>2 DEF IInv, TypeOK, TodoWasSent
  <2>4. RingHoldsLast' /\ RecordHoldsLast' /\ AnswerIsRecent'
    BY <2>1, RingSame, RecordSame, AnswerSame DEF IInv
  <2> QED BY <2>3, <2>4 DEF IInv
<1>3. ASSUME NEW s \in todo, FetchOne(s) PROVE IInv'
  BY <1>3, FetchOneIInv
<1>4. CASE ReadPayload \/ ReadNb \/ ProtectAnswer
  BY <1>4, ReadPayloadIInv, ReadNbIInv, ProtectAnswerIInv
<1>5. ASSUME NEW ok \in BOOLEAN, SendAnswer(ok) PROVE IInv'
  BY <1>5, SendAnswerIInv
<1>6. CASE UNCHANGED vars
  <2>1. UNCHANGED <<sent, step, index, buffer, queue, todo, answer, lag, wire>>
    BY <1>6 DEF vars
  <2>2. TypeOK' /\ TodoWasSent'
    BY <2>1 DEF IInv, TypeOK, TodoWasSent
  <2>3. RingHoldsLast' /\ RecordHoldsLast' /\ AnswerIsRecent'
    BY <2>1, RingSame, RecordSame, AnswerSame DEF IInv
  <2> QED BY <2>2, <2>3 DEF IInv
<1> QED BY <1>1, <1>2, <1>3, <1>4, <1>5, <1>6 DEF Next
-----------------------------------------------------------------------------
(* The theorems.                                                           *)

\* The ring, the record and the UDP thread's answer follow the stream at every
\* step of both threads, for every length of the ring and of the record.
THEOREM InvariantHolds == Spec => []IInv
BY InitIInv, NextIInv, PTL DEF Spec

\* Every variable of the retransmission keeps its range: in particular the
\* index of a buffer that answers a NACK is one of the ring.
THEOREM TypeCorrect == Spec => []TypeOK
<1>1. IInv => TypeOK
  BY DEF IInv
<1> QED BY <1>1, InvariantHolds, PTL

\* yang_rtcpush_fetch_rtp_packet answers with the packet asked for, with its own
\* length, and its buffer keeps it until it is sent, as long as it is one of the
\* last QueueLen; and never with payload or length of any other packet than the
\* next one of the same place.  It needs a ring that outlasts the record by what
\* the publishing thread writes meanwhile and one packet it is writing, a record
\* longer than that, and numbers enough for two rounds of the record.
THEOREM AnswerCorrect ==
    ASSUME RingLen > QueueLen + MaxLag, MaxLag < QueueLen, SeqCount >= 2 * QueueLen
    PROVE  Spec => []AnswerIsRequested
<1>1. ASSUME IInv PROVE AnswerIsRequested
  <2> SUFFICES ASSUME PayloadRead
               PROVE  /\ answer.slot \in Slot
                      /\ AskedOrNext(buffer[answer.slot].pkt)
                      /\ NbRead => AskedOrNext(answer.nb)
                      /\ Current(answer.asked) =>
                            /\ Wire(buffer[answer.slot].pkt) = answer.asked
                            /\ NbRead => answer.nb = buffer[answer.slot].pkt
    BY DEF AnswerIsRequested
  <2> USE PublishNackAssumption
  <2>1. PICK n \in 0 .. Numbers - 1 : AnswerOf(n)
    BY <1>1 DEF IInv, AnswerIsRecent, PayloadRead, Answering
  <2>2. PICK m \in Nat : FromPlace(n, Payloads, m) /\ answer.slot = SlotOf(m)
    BY <2>1 DEF AnswerOf
  <2>3. /\ n \in Nat /\ m \in n .. Payloads - 1 /\ PlaceOf(n) = PlaceOf(m)
        /\ n >= Written - 1 - QueueLen - lag /\ Wire(n) = answer.asked
        /\ lag \in Nat /\ lag <= MaxLag /\ Written \in Nat /\ Payloads <= Written
        /\ Lengths <= Written /\ Lengths \in Nat /\ Payloads \in Nat
    BY <1>1, <2>1, <2>2, Counts DEF AnswerOf, FromPlace, IInv, TypeOK
  <2>4. buffer[answer.slot].pkt = m /\ answer.slot \in Slot
    <3>1. m \in 0 .. Written - 1 /\ m >= Written - RingLen
      BY <2>3
    <3>2. SlotOf(m) \in Slot
      BY Indices
    <3> QED BY <1>1, <2>2, <3>1, <3>2 DEF IInv, RingHoldsLast
  <2>5. ASSUME NEW k \in n .. Written - 1, PlaceOf(k) = PlaceOf(n)
        PROVE  (k = n \/ k = n + QueueLen) /\ AskedOrNext(k)
    <3>1. k \in Nat /\ n <= k /\ k < n + 2 * QueueLen
      BY <2>3
    <3>2. k = n \/ k = n + QueueLen
      BY <2>3, <2>5, <3>1, PlaceNext
    <3>3. Wire(n + QueueLen) = Wire(answer.asked + QueueLen)
      BY <2>3, ModAdd DEF Wire
    <3> QED BY <2>3, <3>2, <3>3 DEF AskedOrNext
  <2>6. AskedOrNext(m)
    BY <2>3, <2>5
  <2>7. ASSUME NbRead
        PROVE  answer.nb \in n .. Lengths - 1 /\ PlaceOf(answer.nb) = PlaceOf(n)
    BY <2>1, <2>3, <2>7 DEF AnswerOf, FromPlace
  <2>8. NbRead => AskedOrNext(answer.nb)
    BY <2>3, <2>5, <2>7
  <2>9. ASSUME Current(answer.asked)
        PROVE  Wire(m) = answer.asked /\ (NbRead => answer.nb = m)
    <3>1. PICK k \in 0 .. Written - 1 : k >= Written - QueueLen /\ Wire(k) = Wire(n)
      BY <2>3, <2>9 DEF Current
    <3>2. k = n
      <4>1. k < n + SeqCount /\ n < k + SeqCount /\ k \in Nat
        BY <2>3, <3>1
      <4>2. ~(k < n)
        BY <2>3, <3>1, <4>1, ModDistinct DEF Wire
      <4>3. ~(n < k)
        BY <2>3, <3>1, <4>1, ModDistinct DEF Wire
      <4> QED BY <2>3, <4>1, <4>2, <4>3
    <3>3. ASSUME NEW j \in n .. Written - 1, PlaceOf(j) = PlaceOf(n)
          PROVE  j = n
      <4>1. j # n + QueueLen
        BY <2>3, <3>1, <3>2
      <4> QED BY <2>5, <3>3, <4>1
    <3>4. m = n
      BY <2>3, <3>3
    <3>5. NbRead => answer.nb = n
      BY <2>3, <2>7, <3>3
    <3> QED BY <2>3, <3>4, <3>5
  <2> QED BY <2>4, <2>6, <2>8, <2>9
<1> QED BY <1>1, InvariantHolds, PTL

\* Each of the last QueueLen - 1 packets sent can be answered with its own
\* payload and length, if the ring is at least as long as the record.
THEOREM RecentIsAnswerable ==
    ASSUME RingLen >= QueueLen
    PROVE  Spec => []RecentAnswerable
<1>1. ASSUME IInv PROVE RecentAnswerable
  <2> SUFFICES ASSUME NEW n \in 0 .. sent - 1, n > sent - QueueLen
               PROVE  /\ Fetch(Wire(n))
                      /\ queue[PlaceOf(Wire(n))].payload \in Slot
                      /\ buffer[queue[PlaceOf(Wire(n))].payload].pkt = n
                      /\ queue[PlaceOf(Wire(n))].nb = n
    BY DEF RecentAnswerable
  <2> USE PublishNackAssumption
  <2>1. n \in Nat /\ sent \in Nat
    BY <1>1, Counts
  <2>2. PlaceOf(Wire(n)) = PlaceOf(n) /\ PlaceOf(n) \in Place
    <3>1. (n % SeqCount) % QueueLen = n % QueueLen
      <4>1. SeqCount \in Nat \ {0} /\ QueueLen \in Nat \ {0} /\ SeqCount % QueueLen = 0
        OBVIOUS
      <4> QED BY ONLY <2>1, <4>1, ModDivides
    <3>2. PlaceOf(Wire(n)) = PlaceOf(n)
      BY <3>1 DEF PlaceOf, Wire
    <3> QED BY <2>1, <3>2, Indices
  <2>3. /\ n \in 0 .. Payloads - 1 /\ n >= Payloads - QueueLen
        /\ n \in 0 .. Lengths - 1 /\ n >= Lengths - QueueLen
        /\ n \in 0 .. Numbers - 1 /\ n >= Numbers - QueueLen
        /\ n \in 0 .. Written - 1 /\ n >= Written - RingLen
    BY <1>1, <2>1, Counts
  <2>4. /\ PayloadField[PlaceOf(n)] = SlotOfPacket[n]
        /\ NbField[PlaceOf(n)] = Itself[n]
        /\ SeqField[PlaceOf(n)] = WireOfPacket[n]
    BY <1>1, <2>3, Counts, RecordedHas DEF IInv, RecordHoldsLast
  <2>5. /\ queue[PlaceOf(n)].payload = SlotOf(n)
        /\ queue[PlaceOf(n)].nb = n
        /\ queue[PlaceOf(n)].seq = Wire(n)
    BY <2>1, <2>2, <2>4, Indices DEF PayloadField, NbField, SeqField
  <2>6. buffer[SlotOf(n)].pkt = n
    BY <1>1, <2>3 DEF IInv, RingHoldsLast
  <2> QED BY <2>1, <2>2, <2>5, <2>6, Indices DEF Fetch
<1> QED BY <1>1, InvariantHolds, PTL
=============================================================================
