--------------------------- MODULE FrameDelivery ---------------------------
(***************************************************************************)
(* What H.264 frame assembly promises to the decoder: packets of a stream  *)
(* come in any order and some never come; the decoder is handed whole      *)
(* frames, each once and in the order of the stream, and a packet releases *)
(* a frame only if it belongs to it or follows it; more frames may go out  *)
(* with it, each starting where the one before it ends.  Nothing is        *)
(* promised once there are relics, and no order once a packet of a key     *)
(* frame was late.                                                         *)
(***************************************************************************)
EXTENDS Integers, Sequences, SequencesExt

VARIABLES
    stream,     \* the packets sent so far
    received,   \* the packets received
    came,       \* the last of them, or 0 once it has released a frame
    out,        \* the frames handed to the decoder, each as its packets
    late,       \* a packet of a key frame came after a newer packet
    relics      \* an old packet may be taken for a new one

vars == <<stream, received, came, out, late, relics>>

FrameOf(n) == {m \in DOMAIN stream : stream[m].ts = stream[n].ts}

\* a frame can be decoded without the parameter sets that come before it
Needed(n) == {m \in FrameOf(n) : stream[m].nalu # "stap"}

\* p is a frame with all its packets in order, received by now
IsFrame(p) ==
    /\ p # << >>
    /\ ToSet(p) \subseteq FrameOf(p[1]) \cap received
    /\ Needed(p[1]) \subseteq ToSet(p)
    /\ \A i, j \in DOMAIN p : i < j => p[i] < p[j]

InOut(n) == \E k \in DOMAIN out : n \in ToSet(out[k])

\* the frame p goes out because of the packet that came, or right after the
\* frame that did
Follows(p) ==
    IF came # 0 THEN {came - 1, came} \cap ToSet(p) # {}
    ELSE out # << >> /\ Last(Last(out)) + 1 = p[1]

Grow ==
    /\ IsPrefix(stream, stream')
    /\ UNCHANGED <<received, came, out, late, relics>>

Receive(n) ==
    /\ n \notin received
    /\ received' = received \cup {n}
    /\ came' = n
    /\ late' \in {late, TRUE}
    /\ relics' \in {relics, TRUE}
    /\ UNCHANGED <<stream, out>>

Release(p) ==
    /\ relics \/ (IsFrame(p) /\ Follows(p) /\ \A m \in ToSet(p) : ~InOut(m))
    /\ relics \/ late \/ out = << >> \/ Last(out)[1] < p[1]
    /\ out' = Append(out, p)
    /\ came' = 0
    /\ UNCHANGED <<stream, received, late, relics>>

Init ==
    /\ received = {} /\ came = 0
    /\ out = << >> /\ late = FALSE /\ relics = FALSE

Next ==
    \/ Grow
    \/ \E n \in DOMAIN stream : Receive(n)
    \/ out' # << >> /\ Release(Last(out'))

Spec == Init /\ [][Next]_vars
=============================================================================
