---------------------------- MODULE H264Packets ----------------------------
(***************************************************************************)
(* How YangPushH264 turns encoded frames into RTP packets.  An I frame is  *)
(* preceded by a STAP-A packet with its parameter sets; a frame that fits  *)
(* goes into a packet of its own, a longer one into FU-A fragments.        *)
(* Frame k of a stream has the time stamp k.                               *)
(***************************************************************************)
EXTENDS Integers, Sequences, SequencesExt

CONSTANTS MaxPayload,   \* kRtpMaxPayloadSize
          MaxFrames,    \* bound: frames of a stream
          Sizes,        \* bound: the sizes of a frame, in bytes
          MaxPackets    \* bound: packets of a stream

ASSUME H264Assumption ==
    /\ MaxPayload \in Nat \ {0}
    /\ MaxFrames \in Nat /\ Sizes \subseteq Nat \ {0} /\ MaxPackets \in Nat

\* idrLike: the second byte of the frame, the first one after the FU header,
\* looks like the header of an IDR slice; nobody looks at it elsewhere
Frame ==
    {f \in [key : BOOLEAN, nb : Sizes, idrLike : BOOLEAN] :
        f.nb <= MaxPayload => ~f.idrLike}

\* num_of_packet of yang_push_h264_package_fu_a: the conditional operator
\* takes the whole sum as its last operand
FragmentCount(nb) ==
    IF (nb - 1) % MaxPayload = 0 THEN 0 ELSE 1 + (nb - 1) \div MaxPayload

\* yang_push_h264_package_fu_a: the byte of the NAL header goes into the FU
\* header of every fragment, the others are cut into pieces
Fragments(f, ts) ==
    [i \in 1 .. FragmentCount(f.nb) |->
        [nalu |-> "fua", key |-> f.key, ts |-> ts,
         marker |-> i = FragmentCount(f.nb),
         start |-> i = 1, end |-> i = FragmentCount(f.nb),
         idrLike |-> f.idrLike]]

Plain(f, nalu, ts) ==
    [nalu |-> nalu, key |-> f.key, ts |-> ts, marker |-> nalu = "single",
     start |-> FALSE, end |-> FALSE, idrLike |-> FALSE]

\* yang_push_h264_package_stap_a, then yang_push_h264_video
PacketsOf(f, ts) ==
    (IF f.key THEN <<Plain(f, "stap", ts)>> ELSE << >>)
    \o (IF f.nb <= MaxPayload THEN <<Plain(f, "single", ts)>> ELSE Fragments(f, ts))
=============================================================================
