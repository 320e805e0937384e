------------------------------ MODULE RtcpNack -----------------------------
(***************************************************************************)
(* The generic NACK of RFC 4585 as YangRtcpNack writes and reads it.  The  *)
(* receiver collects the missing sequence numbers in an array sorted by    *)
(* sequence distance, packs them into pairs of a packet id and a mask of   *)
(* the numbers that follow it, and the publisher unpacks the pairs.        *)
(***************************************************************************)
EXTENDS RtpSeq, FiniteSets, Sequences, SequencesExt

CONSTANTS
    MaskLen,    \* bits of the BLP mask, 16 in the code
    Span,       \* bound: the missing numbers lie in a window of this length
    MaxMissing  \* bound: numbers in one NACK

ASSUME RtcpNackAssumption ==
    MaskLen \in 1 .. SeqCount /\ Span \in 1 .. Half - 1 /\ MaxMissing \in Nat

VARIABLES
    base,       \* first number of the window of missing packets
    nacks,      \* nack->nacks at the receiver
    enc,        \* yang_encode_rtcpNack: the numbers read and the pair in work
    chunks,     \* the pid/blp pairs of the packet
    dec,        \* yang_decode_rtcpNack: i, and the numbers of pair i read
    asked,      \* nack->nacks at the publisher
    stage       \* "collect", "encode", "decode" or "received"

vars == <<base, nacks, enc, chunks, dec, asked, stage>>

\* uint16_t arithmetic: pid + j + 1
Following(pid, j) ==
    IF pid + j + 1 >= SeqCount THEN pid + j + 1 - SeqCount ELSE pid + j + 1

\* yang_insert_uint16_sort: the binary search ends at the first number that
\* is not older, and a number already there is not inserted again
AddSn(a, sn) ==
    LET older == {i \in DOMAIN a : Dist(a[i], sn) > 0}
    IN  IF sn \in Range(a) THEN a ELSE InsertAt(a, Cardinality(older) + 1, sn)

Window == {sn \in SeqNo : Steps(base, sn) < Span}

\* the loop variables of yang_encode_rtcpNack and of yang_decode_rtcpNack
StartEnc == [i |-> 0, in_use |-> FALSE, pid |-> 0, blp |-> {}]
StartDec == [i |-> 1, bits |-> 0]
Chunk == [pid |-> enc.pid, blp |-> enc.blp]

\* yang_recvnack_get_nack_seqs adds a number that is due
Collect(sn) ==
    /\ stage = "collect" /\ Len(nacks) < MaxMissing
    /\ nacks' = AddSn(nacks, sn)
    /\ UNCHANGED <<base, enc, chunks, dec, asked, stage>>

\* yang_check_send_nacks: nothing is sent for an empty list
Send ==
    /\ stage = "collect" /\ nacks # << >>
    /\ stage' = "encode" /\ enc' = StartEnc
    /\ UNCHANGED <<base, nacks, chunks, dec, asked>>

\* faulty variant of TooFar: the mask is one bit short
TooFar_ShortMask(distance) == distance >= MaskLen

\* faulty variant of BitOf: bit 0 stands for the packet id itself
BitOf_Shifted(distance) == distance

\* A number that the mask cannot name, and the bit of one that it can.
TooFar(distance) == distance > MaskLen
BitOf(distance) == distance - 1

\* One turn of the loop of yang_encode_rtcpNack.  sn - pid is an int: it does
\* not wrap.  A number too far ends the pair and is not put into the next one.
PackSn ==
    LET sn == nacks[enc.i + 1]
        distance == sn - enc.pid
    IN  /\ stage = "encode" /\ enc.i < Len(nacks)
        /\ \/ /\ ~enc.in_use
              /\ enc' = [i |-> enc.i + 1, in_use |-> TRUE, pid |-> sn, blp |-> {}]
              /\ UNCHANGED chunks
           \/ /\ enc.in_use /\ distance < 1
              /\ enc' = [enc EXCEPT !.i = @ + 1]
              /\ UNCHANGED chunks
           \/ /\ enc.in_use /\ distance >= 1 /\ TooFar(distance)
              /\ enc' = [enc EXCEPT !.i = @ + 1, !.in_use = FALSE]
              /\ chunks' = Append(chunks, Chunk)
           \/ /\ enc.in_use /\ distance >= 1 /\ ~TooFar(distance)
              /\ enc' = [enc EXCEPT !.i = @ + 1, !.blp = @ \cup {BitOf(distance)}]
              /\ UNCHANGED chunks
        /\ UNCHANGED <<base, nacks, dec, asked, stage>>

\* faulty variant of WritePacket: the last pair is not written
WritePacket_NoLast ==
    /\ stage = "encode" /\ enc.i = Len(nacks)
    /\ stage' = "decode" /\ dec' = StartDec
    /\ UNCHANGED <<base, nacks, enc, chunks, asked>>

\* the rest of yang_encode_rtcpNack
WritePacket ==
    /\ stage = "encode" /\ enc.i = Len(nacks)
    /\ chunks' = IF enc.in_use THEN Append(chunks, Chunk) ELSE chunks
    /\ stage' = "decode" /\ dec' = StartDec
    /\ UNCHANGED <<base, nacks, enc, asked>>

\* yang_decode_rtcpNack: the packet id of a pair, then the bits of its mask
UnpackPid ==
    /\ stage = "decode" /\ dec.i <= Len(chunks) /\ dec.bits = 0
    /\ asked' = AddSn(asked, chunks[dec.i].pid)
    /\ dec' = [dec EXCEPT !.bits = 1]
    /\ UNCHANGED <<base, nacks, enc, chunks, stage>>

UnpackBit ==
    LET chunk == chunks[dec.i]
        j == dec.bits - 1
    IN  /\ stage = "decode" /\ dec.i <= Len(chunks) /\ dec.bits > 0
        /\ asked' = IF j \in chunk.blp THEN AddSn(asked, Following(chunk.pid, j)) ELSE asked
        /\ dec' = IF dec.bits = MaskLen THEN [i |-> dec.i + 1, bits |-> 0]
                                        ELSE [dec EXCEPT !.bits = @ + 1]
        /\ UNCHANGED <<base, nacks, enc, chunks, stage>>

Receive ==
    /\ stage = "decode" /\ dec.i > Len(chunks)
    /\ stage' = "received"
    /\ UNCHANGED <<base, nacks, enc, chunks, dec, asked>>

Init ==
    /\ base \in SeqNo
    /\ nacks = << >> /\ chunks = << >> /\ asked = << >>
    /\ enc = StartEnc /\ dec = StartDec
    /\ stage = "collect"

Next ==
    \/ (\E sn \in Window : Collect(sn)) \/ Send
    \/ PackSn \/ WritePacket
    \/ UnpackPid \/ UnpackBit \/ Receive

Spec == Init /\ [][Next]_vars
-----------------------------------------------------------------------------
(* Properties.                                                             *)

\* The publisher is asked for missing packets only.
NothingElseAsked == Range(asked) \subseteq Range(nacks)

\* The oldest missing packet is asked for by every NACK, so that requesting
\* again the packets that are still missing gets to each of them in turn.
OldestAsked ==
    stage = "received" =>
        asked # << >> /\ asked[1] = nacks[1]

\* What a single pair can carry arrives whole: no number is lost when none
\* is more than MaskLen past the oldest and the counter does not wrap.
OnePairIsWhole ==
    stage = "received" /\ (\A sn \in Range(nacks) : sn - nacks[1] \in 0 .. MaskLen) =>
        asked = nacks

\* "add new chunk": a number too far from the packet id of one pair opens the
\* next, so that the publisher is asked for every number collected.
AllAsked == stage = "received" => Range(nacks) \subseteq Range(asked)
=============================================================================
