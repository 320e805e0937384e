----------------------------- MODULE FrameCache -----------------------------
(***************************************************************************)
(* YangPlayTrackH264: the receiver keeps the packets of a video track in a *)
(* cache indexed by sequence number and hands a frame to the decoder when  *)
(* all packets from header_sn, where the frame starts, to its last one are *)
(* there.  lost_sn is the first packet it still waits for.  A packet of a  *)
(* key frame with a new time stamp clears the cache and starts over.       *)
(*                                                                         *)
(* The publisher sends a stream, of which the network loses and reorders   *)
(* packets; SRTP lets each packet through once.  The frames that one       *)
(* packet completes go out one after the other, a turn of a recursion      *)
(* each, and no packet is taken in between.                                *)
(***************************************************************************)
EXTENDS RtpSeq, H264Packets, FiniteSets

CONSTANTS
    Base,       \* sequence number of packet 1
    CacheLen,   \* YANG_RTC_RECV_BUFFER_COUNT, a power of two
    MaxDelay    \* bound: how far a packet may come behind a newer one

ASSUME FrameCacheAssumption ==
    /\ Base \in SeqNo
    /\ CacheLen \in Nat \ {0} /\ CacheLen <= Half /\ SeqCount % CacheLen = 0
    /\ MaxDelay \in Nat \ {0} /\ MaxPackets < SeqCount

\* The cache is longer than a frame and a delay: otherwise packets of one
\* frame lie upon one another.
ASSUME FitsAssumption ==
    /\ MaxDelay + 1 < CacheLen
    /\ \A f \in Frame, k \in 1 .. MaxFrames : Len(PacketsOf(f, k)) + MaxDelay < CacheLen

VARIABLES
    frames,     \* number of frames the publisher has encoded
    stream,     \* the packets it has sent
    track,      \* header_sn, lost_sn, key_frame_ts, cache_video_pkts; tail: the
                \* end of the frame that goes out next, if any
    out,        \* the frames handed to the decoder, each as its packets
    received,   \* the packets received
    came,       \* the last of them, until it has released a frame
    keyLate,    \* a packet of a key frame came after a newer packet
    stray       \* a packet of another frame came behind that of a newer key
                \* frame, or before any

netVars == <<received, keyLate, stray>>
vars == <<frames, stream, track, out, came, netVars>>

NoPacket == 0
NoKey == -1
NoTail == -1
Slot == 0 .. CacheLen - 1
Empty == [in_use |-> FALSE, pkt |-> NoPacket, start |-> FALSE, end |-> FALSE]

\* faulty variant of Plus: kept in an int32_t
Plus_Wide(sn, i) == sn + i

\* uint16_t arithmetic for i up to SeqCount, the sequence number of packet n,
\* yang_cache_index
Plus(sn, i) == IF sn + i < SeqCount THEN sn + i ELSE sn + i - SeqCount
Seqn(n) == Plus(Base, n - 1)
Index(sn) == sn % CacheLen

\* the fields of a cache entry that are copied from its packet
Ts(e) == IF e.pkt = NoPacket THEN 0 ELSE stream[e.pkt].ts
Marker(e) == e.pkt # NoPacket /\ stream[e.pkt].marker
IsFuA(e) == e.pkt # NoPacket /\ stream[e.pkt].nalu = "fua"

\* yang_playtrackH264_is_keyframe2 looks for the IDR type of a fragment in
\* its payload, past the FU header that holds it
IsKey2(e) ==
    /\ e.pkt # NoPacket
    /\ IF IsFuA(e) THEN e.start /\ stream[e.pkt].idrLike ELSE stream[e.pkt].key

Entry(t, sn) == t.cache[Index(sn)]
Held(t) == {t.cache[s].pkt : s \in {s \in Slot : t.cache[s].in_use}}
-----------------------------------------------------------------------------
\* yang_rtcconn_onVideo: the encoder starts with an I frame
Push(f) ==
    /\ frames < MaxFrames
    /\ frames = 0 => f.key
    /\ Len(stream) + Len(PacketsOf(f, frames + 1)) <= MaxPackets
    /\ frames' = frames + 1
    /\ stream' = stream \o PacketsOf(f, frames + 1)
    /\ UNCHANGED <<track, out, came, netVars>>
-----------------------------------------------------------------------------
\* faulty variant of OtherFrame: the time stamps are not compared
OtherFrame_Never(t, sn) == FALSE

\* the packet at sn is not of the frame that starts at header_sn
OtherFrame(t, sn) == Ts(Entry(t, sn)) # Ts(Entry(t, t.header_sn))

\* the walk of yang_playtrackH264_find_next_lost_sn ends at sn
Stops(t, sn) == ~Entry(t, sn).in_use \/ OtherFrame(t, sn) \/ Marker(Entry(t, sn))

\* yang_playtrackH264_find_next_lost_sn: the first packet missing from sn on
\* or, if the frame ends before it, its last packet
FindNext(t, sn) ==
    LET stops == {i \in Slot : Stops(t, Plus(sn, i))}
        at == Plus(sn, CHOOSE i \in stops : \A j \in stops : i <= j)
    IN  CASE stops = {} -> [found |-> "mess", sn |-> sn]
          [] stops # {} /\ ~Entry(t, at).in_use -> [found |-> "lost", sn |-> at]
          [] stops # {} /\ Entry(t, at).in_use ->
                [found |-> "tail",
                 sn |-> IF OtherFrame(t, at) THEN Plus(at, SeqCount - 1) ELSE at]

\* the entries from start to end, oldest first, as many as the uint16_t cnt
Count(start, end) == Plus(Steps(start, end), 1)
RangeOf(t, start, end) == [i \in 1 .. Count(start, end) |-> Entry(t, Plus(start, i - 1))]

\* faulty variant of Complete: the fragments are not counted
Complete_Always(t, start, end) == TRUE

\* yang_playtrackH264_check_frame_complete
Complete(t, start, end) ==
    LET slots == RangeOf(t, start, end)
    IN  Cardinality({i \in DOMAIN slots : IsFuA(slots[i]) /\ slots[i].start})
          = Cardinality({i \in DOMAIN slots : IsFuA(slots[i]) /\ slots[i].end})

\* What every caller does with the result of find_next_lost_sn: wait for the
\* missing packet, or go on to pack the frame that ends at tail.
Advance(t, sn) ==
    LET r == FindNext(t, sn)
    IN  CASE r.found = "lost" -> [t EXCEPT !.lost_sn = r.sn, !.tail = NoTail]
          [] r.found = "tail" ->
                [t EXCEPT !.tail = IF Complete(t, t.header_sn, r.sn) THEN r.sn ELSE NoTail]
          [] r.found = "mess" -> [t EXCEPT !.tail = NoTail]

\* faulty variant of Release: the entries stay in use
Release_Nothing(cache, taken) == cache

\* the entries whose packets have been copied into the frame
Release(cache, taken) ==
    [s \in Slot |-> IF s \in taken
        THEN [cache[s] EXCEPT !.in_use = FALSE, !.start = FALSE, !.end = FALSE]
        ELSE cache[s]]

\* the frame that goes out next: its packets, and the entries they are in
NextFrame(t) ==
    LET slots == RangeOf(t, t.header_sn, t.tail)
    IN  [i \in DOMAIN slots |-> slots[i].pkt]
Taken(t) == {Index(Plus(t.header_sn, i - 1)) : i \in 1 .. Count(t.header_sn, t.tail)}

\* the track when its next frame has gone out
Packed(t) ==
    [t EXCEPT !.key_frame_ts = IF IsKey2(Entry(t, t.header_sn)) THEN NoKey ELSE @,
              !.cache = Release(@, Taken(t)),
              !.header_sn = Plus(t.tail, 1)]

\* yang_playtrackH264_packet_video, one turn of the recursion
packet_video ==
    /\ track.tail # NoTail
    /\ out' = Append(out, NextFrame(track))
    /\ track' = Advance(Packed(track), Plus(track.tail, 1))
    /\ came' = NoPacket
    /\ UNCHANGED <<frames, stream, netVars>>
-----------------------------------------------------------------------------
\* yang_playtrackH264_copy, and in_use: a packet that is not a fragment
\* leaves fua2 as it is
Put(t, n) ==
    LET p == stream[n]
        old == Entry(t, Seqn(n))
    IN  [t EXCEPT !.cache[Index(Seqn(n))] =
            [in_use |-> TRUE, pkt |-> n,
             start |-> IF p.nalu = "fua" THEN p.start ELSE old.start,
             end |-> IF p.nalu = "fua" THEN p.end ELSE old.end]]

\* yang_playtrackH264_clear_cached_video
Cleared(cache) == [s \in Slot |-> IF cache[s].in_use THEN Empty ELSE cache[s]]

\* faulty variant of StartKey: lost_sn is forgotten
StartKey_SameLost(t, n) ==
    [t EXCEPT !.key_frame_ts = stream[n].ts, !.header_sn = Seqn(n), !.cache = Cleared(@)]

\* the first packet of a key frame, whichever of its packets that is
StartKey(t, n) ==
    [t EXCEPT !.key_frame_ts = stream[n].ts, !.header_sn = Seqn(n),
              !.lost_sn = Plus(Seqn(n), 1), !.cache = Cleared(@)]

\* faulty variant of Before: without the distance of sequence numbers
Before_Unsigned(sn, header) == sn < header

\* "receive previous pkt in the same frame"
Before(sn, header) == Dist(header, sn) < 0

\* yang_playtrackH264_packet_video_key_frame
KeyPath(t, n) ==
    LET sn == Seqn(n)
        u == Put(IF t.key_frame_ts # stream[n].ts THEN StartKey(t, n) ELSE t, n)
    IN  IF Before(sn, u.header_sn)
        THEN Advance([u EXCEPT !.header_sn = sn], sn)
        ELSE IF u.lost_sn = sn THEN Advance(u, sn) ELSE u

\* faulty variant of DeltaPath: the header moves back as for a key frame
DeltaPath_MovesBack(t, n) ==
    LET u == Put(t, n)
    IN  IF Before(Seqn(n), u.header_sn)
        THEN Advance([u EXCEPT !.header_sn = Seqn(n)], Seqn(n))
        ELSE IF u.lost_sn = Seqn(n) THEN Advance(u, Seqn(n)) ELSE u

\* the rest of yang_playtrackH264_on_rtp
DeltaPath(t, n) ==
    LET u == Put(t, n)
    IN  IF u.lost_sn = Seqn(n) THEN Advance(u, Seqn(n)) ELSE u

\* a packet that no frame can use any more: one of a key frame clears the
\* cache of older packets, but not of those that come after it
Astray(n) ==
    /\ ~stream[n].key
    /\ (\A m \in received : ~stream[m].key) \/ \E m \in received : stream[m].key /\ n < m

\* yang_playtrackH264_on_rtp
on_rtp(n) ==
    /\ track.tail = NoTail
    /\ n \notin received
    /\ \A m \in received : m < n + MaxDelay
    /\ track' = IF stream[n].key THEN KeyPath(track, n) ELSE DeltaPath(track, n)
    /\ received' = received \cup {n}
    /\ came' = n
    /\ keyLate' = (keyLate \/ (stream[n].key /\ \E m \in received : n < m))
    /\ stray' = (stray \/ Astray(n))
    /\ UNCHANGED <<frames, stream, out>>

\* yang_create_playTrackH264
Init ==
    /\ frames = 0
    /\ stream = << >>
    /\ track = [header_sn |-> 0, lost_sn |-> 0, key_frame_ts |-> NoKey,
                cache |-> [s \in Slot |-> Empty], tail |-> NoTail]
    /\ out = << >>
    /\ received = {} /\ came = NoPacket
    /\ keyLate = FALSE /\ stray = FALSE

Next ==
    \/ \E f \in Frame : Push(f)
    \/ \E n \in DOMAIN stream : on_rtp(n)
    \/ packet_video

Spec == Init /\ [][Next]_vars
-----------------------------------------------------------------------------
Handed == UNION {ToSet(out[k]) : k \in DOMAIN out}
FrameOf(n) == {m \in DOMAIN stream : stream[m].ts = stream[n].ts}
HasLast(n) == \E m \in FrameOf(n) : stream[m].marker

\* No entry is met again a cache length later: packets that no frame can use
\* stay in the cache, and a slot is not asked for its sequence number, so
\* that an old packet is then taken for a new one.
NoRelics == ~stray \/ \A n \in received : n < CacheLen

\* The track and the cache hold what their types say.
TypeOK ==
    /\ frames \in 0 .. MaxFrames
    /\ received \subseteq DOMAIN stream /\ came \in {NoPacket} \cup received
    /\ track.header_sn \in SeqNo /\ track.lost_sn \in SeqNo
    /\ track.tail \in SeqNo \cup {NoTail}
    /\ track.key_frame_ts \in {NoKey} \cup {stream[n].ts : n \in DOMAIN stream}
    /\ \A s \in Slot : /\ track.cache[s].pkt \in {NoPacket} \cup received
                       /\ track.cache[s].in_use => track.cache[s].pkt # NoPacket
    /\ out \in Seq(Seq({NoPacket} \cup DOMAIN stream))

\* A frame handed to the decoder has the packets of one frame only: the walk
\* over the cache compares time stamps, as two small frames may follow one
\* another (yang_playtrackH264_find_next_lost_sn, line 121).
NotMixed ==
    NoRelics => \A k \in DOMAIN out : \A i, j \in DOMAIN out[k] :
                    stream[out[k][i]].ts = stream[out[k][j]].ts

\* A frame is handed over whole: a P frame with all its packets, a key frame
\* with all but its parameter sets, which may have been lost
\* (yang_playtrackH264_check_frame_complete).
Whole ==
    NoRelics => \A k \in DOMAIN out : \A i \in DOMAIN out[k] :
        \A m \in FrameOf(out[k][i]) : stream[m].nalu # "stap" => m \in ToSet(out[k])

\* No packet gets into two frames, or twice into one
\* (yang_playtrackH264_packet_video gives its entry back).
OncePerPacket ==
    NoRelics => \A k, l \in DOMAIN out : \A i \in DOMAIN out[k], j \in DOMAIN out[l] :
        out[k][i] = out[l][j] => k = l /\ i = j

\* The frames come in the order in which they were encoded, as long as no
\* packet of a key frame comes after a newer one.
InOrder ==
    NoRelics /\ ~keyLate => \A k \in DOMAIN out : k > 1 => out[k - 1][1] < out[k][1]

\* The key frame that is waited for starts, for all the cache knows, behind a
\* packet that has not come.
LacksFront ==
    \E h \in received : /\ Seqn(h) = track.header_sn /\ stream[h].key
                        /\ h - 1 \in FrameOf(h) \ received

\* Once a packet of a key frame has come, the cache waits for a packet that it
\* has not had (lost_sn): it would wait for one it has had until the next key
\* frame.  Only while the front of the key frame is missing may it wait for one
\* it has had, which is then still in the cache: the missing front, when it
\* comes, makes the cache look again.  No packet of a key frame may be late.
LostIsMissing ==
    NoRelics /\ ~keyLate /\ track.tail = NoTail /\ (\E m \in received : stream[m].key)
        => \A n \in received : Seqn(n) = track.lost_sn =>
              /\ LacksFront
              /\ (\A m \in received : m < n + CacheLen) => n \in Held(track)

\* What has come complete is handed over: if no packet is missing and none
\* of a key frame was late, every frame since the newest key frame of which
\* the last packet is among them has gone to the decoder.
NothingWithheld ==
    NoRelics /\ ~keyLate /\ track.tail = NoTail /\ (\A n \in received : 1 .. n \subseteq received)
        => \A n \in received :
              /\ HasLast(n) /\ FrameOf(n) \subseteq received
              /\ \A m \in received : stream[m].key => stream[m].ts <= stream[n].ts
              => n \in Handed

\* The cache keeps the promise of FrameDelivery, turn by turn.
Delivery == INSTANCE FrameDelivery WITH late <- keyLate, relics <- ~NoRelics
IsDelivery == Delivery!Spec

\* A key frame makes the cache forget packets of older frames only ("Received
\* key frame and clean cache of old p frame pkts", line 318).
OnlyOldCleaned ==
    [][\A p \in Held(track), n \in received' \ received :
          p \notin Held(track') => stream[p].ts < stream[n].ts]_vars
=============================================================================
