---------------------------- MODULE PublishNack ---------------------------
(***************************************************************************)
(* Retransmission on the sending side of one RTP stream, by two threads.   *)
(* The publishing thread writes each packet into the next buffer of a ring *)
(* (YangRtpBuffer), records the buffer under the packet's sequence number  *)
(* (YangPublishNackBuffer), encrypts the buffer in place and sends it.     *)
(* The UDP thread answers a NACK from the record: it looks the number up,  *)
(* encrypts the buffer it finds there and sends it.  Only the encryption   *)
(* is under a lock, so a step here is what one thread does unseen.         *)
(*                                                                         *)
(* The ring and the record have different lengths: 1400 and 1024 for       *)
(* video, 100 and 128 for audio.                                           *)
(***************************************************************************)
EXTENDS Integers

CONSTANTS
    SeqCount,   \* number of sequence numbers, 2^16 in the code
    RingLen,    \* bufLen of the YangRtpBuffer
    QueueLen,   \* capacity of the YangPublishNackBuffer, a power of two
    MaxLag,     \* bound: packets written while the UDP thread answers one
    Horizon     \* bound: packets of the run

ASSUME PublishNackAssumption ==
    /\ SeqCount \in Nat \ {0} /\ RingLen \in Nat \ {0} /\ QueueLen \in Nat \ {0}
    /\ SeqCount % QueueLen = 0
    /\ MaxLag \in Nat /\ Horizon \in Nat

VARIABLES
    sent,       \* packets sent so far; the publishing thread is at this one
    step,       \* what the publishing thread does next
    index,      \* index of the YangRtpBuffer
    buffer,     \* the ring: which packet a buffer holds, encrypted or not
    queue,      \* the record: payload as an index of the ring, nb as the
                \* packet whose length it is, and seq
    todo,       \* sequence numbers of the NACK still to answer
    answer,     \* the UDP thread: its next step, what it looked up and read
    lag,        \* packets written since it looked the number up
    wire        \* the last datagram handed to sendto

publisher == <<sent, step, index>>
vars == <<sent, step, index, buffer, queue, todo, answer, lag, wire>>

NoSlot == -1
NoPacket == -1
Slot == 0 .. RingLen - 1
Place == 0 .. QueueLen - 1
Steps == {"write", "payload", "nb", "seq", "protect", "send"}

\* faulty variant of PlaceOf: the mask used as a modulus
PlaceOf_ModMask(n) == n % (QueueLen - 1)
\* header.sequence of packet n, and queue[seq & capacityIndex]: QueueLen
\* divides SeqCount, so a wrap of the counter does not disturb the places
Wire(n) == n % SeqCount
PlaceOf(n) == n % QueueLen

\* faulty variant of NextIndex: > for >=
NextIndex_OneLate == IF index + 1 > RingLen THEN 0 ELSE index + 1
\* yang_get_rtpBuffer
NextIndex == IF index + 1 >= RingLen THEN 0 ELSE index + 1

\* srtp_protect, in place.  AES counter mode with the key stream of the
\* packet's own number: encrypting what is already encrypted decrypts it.
Protect(b) == [b EXCEPT !.cipher = ~@]

Answering == answer.pc # "idle"
-----------------------------------------------------------------------------
(* The publishing thread.                                                  *)

\* yang_push_h264_encodeVideo and encodeAudio
Write ==
    /\ step = "write" /\ sent < Horizon
    /\ Answering => lag < MaxLag
    /\ index' = NextIndex
    /\ buffer' = [buffer EXCEPT ![NextIndex] = [pkt |-> sent, cipher |-> FALSE]]
    /\ lag' = IF Answering THEN lag + 1 ELSE 0
    /\ step' = "payload"
    /\ UNCHANGED <<sent, queue, todo, answer, wire>>

\* yang_rtcpush_cache_nack: three stores, in this order
CachePayload ==
    /\ step = "payload"
    /\ queue' = [queue EXCEPT ![PlaceOf(sent)].payload = index]
    /\ step' = "nb"
    /\ UNCHANGED <<sent, index, buffer, todo, answer, lag, wire>>

CacheNb ==
    /\ step = "nb"
    /\ queue' = [queue EXCEPT ![PlaceOf(sent)].nb = sent]
    /\ step' = "seq"
    /\ UNCHANGED <<sent, index, buffer, todo, answer, lag, wire>>

CacheSeq ==
    /\ step = "seq"
    /\ queue' = [queue EXCEPT ![PlaceOf(sent)].seq = Wire(sent)]
    /\ step' = "protect"
    /\ UNCHANGED <<sent, index, buffer, todo, answer, lag, wire>>

\* yang_enc_rtp, under rtpLock
ProtectPacket ==
    /\ step = "protect"
    /\ buffer' = [buffer EXCEPT ![index] = Protect(@)]
    /\ step' = "send"
    /\ UNCHANGED <<sent, index, queue, todo, answer, lag, wire>>

SendPacket ==
    /\ step = "send"
    /\ wire' = buffer[index]
    /\ sent' = sent + 1
    /\ step' = "write"
    /\ UNCHANGED <<index, buffer, queue, todo, answer, lag>>
-----------------------------------------------------------------------------
(* The UDP thread.                                                         *)

\* yang_rtcpush_on_rtcp_nack: the peer asks again for packets sent to it
RecvNack(asked) ==
    /\ todo = {} /\ ~Answering
    /\ todo' = asked
    /\ UNCHANGED <<publisher, buffer, queue, answer, lag, wire>>

\* faulty variant of Fetch: the sequence number is not compared
Fetch_AnySeq(s) == queue[PlaceOf(s)].payload # NoSlot
\* yang_rtcpush_fetch_rtp_packet
Fetch(s) == queue[PlaceOf(s)].seq = s

\* the loop of yang_rtcpush_on_recv_nack takes up one number
FetchOne(s) ==
    /\ ~Answering
    /\ todo' = todo \ {s}
    /\ answer' = IF Fetch(s)
                 THEN [answer EXCEPT !.pc = "payload", !.asked = s,
                                     !.place = PlaceOf(s)]
                 ELSE answer
    /\ lag' = 0
    /\ UNCHANGED <<publisher, buffer, queue, wire>>

\* pkt->payload and pkt->nb are read after the comparison
ReadPayload ==
    /\ answer.pc = "payload"
    /\ answer' = [answer EXCEPT !.pc = "nb", !.slot = queue[answer.place].payload]
    /\ UNCHANGED <<publisher, buffer, queue, todo, lag, wire>>

ReadNb ==
    /\ answer.pc = "nb"
    /\ answer' = [answer EXCEPT !.pc = "protect", !.nb = queue[answer.place].nb]
    /\ UNCHANGED <<publisher, buffer, queue, todo, lag, wire>>

\* yang_send_nackpacket
ProtectAnswer ==
    /\ answer.pc = "protect"
    /\ buffer' = [buffer EXCEPT ![answer.slot] = Protect(@)]
    /\ answer' = [answer EXCEPT !.pc = "send"]
    /\ UNCHANGED <<publisher, queue, todo, lag, wire>>

Idle == [pc |-> "idle", asked |-> 0, place |-> 0, slot |-> NoSlot, nb |-> NoPacket]

\* when sendto fails, the rest of the NACK is not answered
SendAnswer(ok) ==
    /\ answer.pc = "send"
    /\ wire' = IF ok THEN buffer[answer.slot] ELSE wire
    /\ todo' = IF ok THEN todo ELSE {}
    /\ answer' = Idle
    /\ lag' = 0
    /\ UNCHANGED <<publisher, buffer, queue>>
-----------------------------------------------------------------------------
\* both arrays come from calloc
Init ==
    /\ sent = 0 /\ step = "write"
    /\ index = 0
    /\ buffer = [i \in Slot |-> [pkt |-> NoPacket, cipher |-> FALSE]]
    /\ queue = [p \in Place |-> [payload |-> NoSlot, nb |-> NoPacket, seq |-> 0]]
    /\ todo = {}
    /\ answer = Idle
    /\ lag = 0
    /\ wire = [pkt |-> NoPacket, cipher |-> FALSE]

\* a peer misses one or two packets among the ones it was sent
Askable == {Wire(n) : n \in 0 .. sent - 1}

Publish ==
    Write \/ CachePayload \/ CacheNb \/ CacheSeq \/ ProtectPacket \/ SendPacket

Next ==
    \/ Publish
    \/ \E s, t \in Askable : RecvNack({s, t})
    \/ \E s \in todo : FetchOne(s)
    \/ ReadPayload \/ ReadNb \/ ProtectAnswer
    \/ \E ok \in BOOLEAN : SendAnswer(ok)

Spec == Init /\ [][Next]_vars
-----------------------------------------------------------------------------
(* Properties.                                                             *)

Packet == 0 .. Horizon - 1
MaybeSlot == Slot \cup {NoSlot}
MaybePacket == Packet \cup {NoPacket}

\* Every variable keeps the range its C type and its use give it.
TypeOK ==
    /\ sent \in 0 .. Horizon /\ step \in Steps /\ index \in Slot
    /\ step # "write" => sent < Horizon
    /\ buffer \in [Slot -> [pkt : MaybePacket, cipher : BOOLEAN]]
    /\ queue \in [Place -> [payload : MaybeSlot, nb : MaybePacket,
                            seq : 0 .. SeqCount - 1]]
    /\ todo \subseteq 0 .. SeqCount - 1
    /\ answer \in [pc : {"idle", "payload", "nb", "protect", "send"},
                   asked : 0 .. SeqCount - 1, place : Place,
                   slot : MaybeSlot, nb : MaybePacket]
    /\ lag \in 0 .. MaxLag
    /\ wire \in [pkt : MaybePacket, cipher : BOOLEAN]

PayloadRead == answer.pc \in {"nb", "protect", "send"}
NbRead == answer.pc \in {"protect", "send"}

\* packets in the ring, the one being recorded and sent included
Written == IF step = "write" THEN sent ELSE sent + 1

\* The packet of number s is one of the last QueueLen in the ring.
Current(s) == \E n \in 0 .. Written - 1 : n >= Written - QueueLen /\ Wire(n) = s

\* Packet n is the one asked for, or the next to be recorded in its place.
AskedOrNext(n) == Wire(n) \in {answer.asked, Wire(answer.asked + QueueLen)}

\* "Return packet only when sequence is equal": what answers a NACK is the
\* packet asked for, with its own length, until it is sent, as long as it is
\* one of the last QueueLen packets.  Once the publishing thread is at the next
\* packet of its place, the entry can change after the numbers are compared:
\* payload and length are then each of the one packet or of the other.
AnswerIsRequested ==
    PayloadRead =>
        LET pkt == buffer[answer.slot].pkt
        IN  /\ answer.slot \in Slot
            /\ AskedOrNext(pkt)
            /\ NbRead => AskedOrNext(answer.nb)
            /\ Current(answer.asked) =>
                  Wire(pkt) = answer.asked /\ (NbRead => answer.nb = pkt)

\* Each of the last QueueLen - 1 packets sent can be answered, also while the
\* next one is being recorded: its entry is found and has its own payload and
\* length.
RecentAnswerable ==
    \A n \in 0 .. sent - 1 :
        n > sent - QueueLen =>
            LET entry == queue[PlaceOf(Wire(n))]
            IN  /\ Fetch(Wire(n))
                /\ entry.payload \in Slot
                /\ buffer[entry.payload].pkt = n
                /\ entry.nb = n

\* What is sent can be decrypted by the peer.
SentReadable == wire.pkt # NoPacket => wire.cipher
=============================================================================
