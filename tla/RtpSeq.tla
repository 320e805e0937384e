------------------------------ MODULE RtpSeq ------------------------------
(***************************************************************************)
(* Arithmetic on RTP sequence numbers.  The code keeps them in uint16_t    *)
(* and compares them with yang_rtp_seq_distance, an int16_t difference.    *)
(* The width is a parameter here, Half being 2^15 in the code; the         *)
(* reductions are written as comparisons so that they stay linear.         *)
(***************************************************************************)
EXTENDS Integers

CONSTANT Half             \* half the number of sequence numbers

ASSUME HalfAssumption == Half \in Nat \ {0}

SeqCount == 2 * Half
SeqNo == 0 .. SeqCount - 1

\* uint16_t arithmetic: s + 1
Succ(s) == IF s = SeqCount - 1 THEN 0 ELSE s + 1

\* (int16_t)(value - prev_value)
Dist(prev, value) ==
    LET d == value - prev
    IN  IF d >= Half THEN d - SeqCount ELSE IF d < -Half THEN d + SeqCount ELSE d

\* uint16_t arithmetic: to - from, the number of steps of a loop
\* for (s = from; s != to; ++s)
Steps(from, to) == IF to >= from THEN to - from ELSE to - from + SeqCount

\* the values such a loop visits
SeqRange(from, to) == {s \in SeqNo : Steps(from, s) < Steps(from, to)}
=============================================================================
