----------------------------- MODULE NackArray ----------------------------
(***************************************************************************)
(* The array behind the list of module RecvNack: YangRtpNackInfoList,      *)
(* kept sorted by yang_nackinfo_insert with a binary search, and walked by *)
(* yang_recvnack_get_nack_seqs while it removes entries from under its own *)
(* index.  RecvNack states the list as a function of sequence numbers;     *)
(* this module runs the loops, so that its queue is what the array holds,  *)
(* and implements RecvNack.                                                *)
(***************************************************************************)
EXTENDS RecvNack, Sequences, SequencesExt

VARIABLE infos      \* the array, oldest packet first

arrayVars == <<infos, vars>>

\* the entries by their sequence number; duplicates would be lost here
ByNumber(a) ==
    [s \in {a[i].sn : i \in DOMAIN a} |->
        LET e == SelectSeq(a, LAMBDA x : x.sn = s)[1]
        IN  [generateTime |-> e.generateTime,
             preReqNackTime |-> e.preReqNackTime,
             reqNackCount |-> e.reqNackCount]]
-----------------------------------------------------------------------------
NewInfo(s) ==
    [sn |-> s, generateTime |-> now, preReqNackTime |-> 0, reqNackCount |-> 0]

\* yang_get_nackinfo_index over a[lo..hi], 1-based.  hi starts one past the
\* live entries, as in the code; reading that slot would be an error of TLC.
RECURSIVE Search(_, _, _, _)
Search(a, value, lo, hi) ==
    IF lo > hi THEN lo
    ELSE LET mid == ((lo - 1 + hi - 1) \div 2) + 1
         IN  CASE a[mid].sn = value -> 0
               [] Dist(value, a[mid].sn) > 0 -> Search(a, value, lo, mid - 1)
               [] Dist(a[mid].sn, value) > 0 -> Search(a, value, mid + 1, hi)
               [] OTHER -> mid

\* faulty variant of ArrayInsert: always at the end
ArrayInsert_AtEnd(a, value) ==
    IF \E i \in DOMAIN a : a[i].sn = value THEN a ELSE Append(a, NewInfo(value))

\* yang_nackinfo_insert
ArrayInsert(a, value) ==
    IF a = << >> \/ Dist(Last(a).sn, value) > 0 THEN Append(a, NewInfo(value))
    ELSE LET index == Search(a, value, 1, Len(a) + 1)
         IN  IF index = 0 THEN a ELSE InsertAt(a, index, NewInfo(value))

\* yang_recvnack_insert
RECURSIVE InsertRange(_, _, _)
InsertRange(a, first, last) ==
    IF first = last THEN a
    ELSE InsertRange(ArrayInsert(a, first), Succ(first), last)

\* yang_nackinfo_remove: the first entry with this number
ArrayRemove(a, value) ==
    LET at == {i \in DOMAIN a : a[i].sn = value}
    IN  IF at = {} THEN a
        ELSE RemoveAt(a, CHOOSE i \in at : \A j \in at : i <= j)

\* the loop of yang_recvnack_get_nack_seqs from index i on
RECURSIVE ServiceFrom(_, _, _, _)
ServiceFrom(i, a, b, wanted) ==
    IF i > Len(a) \/ (~TimedOut(a[i]) /\ Young(a[i]))
    THEN [infos |-> a, rtp |-> b, asked |-> wanted]
    ELSE CASE TimedOut(a[i]) ->
                ServiceFrom(i + 1, ArrayRemove(a, a[i].sn), DropSeq(b, a[i].sn), wanted)
           [] ~TimedOut(a[i]) /\ Due(a[i]) ->
                ServiceFrom(i + 1, [a EXCEPT ![i] = Again(@)], b, wanted \cup {a[i].sn})
           [] OTHER -> ServiceFrom(i + 1, a, b, wanted)

\* faulty variant of NackFirst: one past the end of the window
NackFirst_OneLate(b, seq) ==
    IF ~b.contexttialized THEN 0
    ELSE IF Dist(b.end, seq) > 0 THEN Succ(b.end)
    ELSE IF BeforeWindow(b, seq) THEN seq ELSE 0

\* faulty variant of NackLast: the packet that has just come is in the range
NackLast_Inclusive(b, seq) ==
    IF ~b.contexttialized THEN 0
    ELSE IF Dist(b.end, seq) >= 0 THEN Succ(seq)
    ELSE IF BeforeWindow(b, seq) THEN b.begin ELSE 0

\* nack_first and nack_last of yang_nackbuffer_update2
NackFirst(b, seq) ==
    IF ~b.contexttialized THEN 0
    ELSE IF Dist(b.end, seq) >= 0 THEN b.end
    ELSE IF BeforeWindow(b, seq) THEN seq ELSE 0
NackLast(b, seq) ==
    IF ~b.contexttialized THEN 0
    ELSE IF Dist(b.end, seq) >= 0 THEN seq
    ELSE IF BeforeWindow(b, seq) THEN b.begin ELSE 0

\* yang_playtrack_on_nack over the array
OnPacket(n) ==
    LET seq == Seqn(n)
        first == NackFirst(rtp, seq)
        last == NackLast(rtp, seq)
        range == Dist(first, last) > 0
        listed == IF range THEN InsertRange(infos, first, last) ELSE infos
        window == Update2(rtp, seq)
        served == ServiceFrom(1, listed, window, {})
        dropped == {e.sn : e \in Range(listed)} \ {e.sn : e \in Range(served.infos)}
    IN
    \/ /\ \E i \in DOMAIN infos : infos[i].sn = seq
       /\ infos' = ArrayRemove(infos, seq)
       /\ nacks' = {}
       /\ seen' = seen \cup {n}
       /\ UNCHANGED <<rtp, preCheckTime, low, top, relisted, givenUp>>
    \/ /\ \A i \in DOMAIN infos : infos[i].sn # seq
       /\ range /\ Full(Len(listed))
       /\ rtp' = ListFull(window)
       /\ infos' = << >>
       /\ nacks' = {}
       /\ low' = 0 /\ top' = 0 /\ seen' = {} /\ relisted' = {} /\ givenUp' = {}
       /\ UNCHANGED preCheckTime
    \/ /\ \A i \in DOMAIN infos : infos[i].sn # seq
       /\ ~(range /\ Full(Len(listed)))
       /\ listed = << >> \/ now - preCheckTime < NackCheckInterval
       /\ rtp' = window
       /\ infos' = listed
       /\ nacks' = {}
       /\ low' = TrueLow(n)
       /\ TrackTruth(n)
       /\ UNCHANGED <<preCheckTime, givenUp>>
    \/ /\ \A i \in DOMAIN infos : infos[i].sn # seq
       /\ ~(range /\ Full(Len(listed)))
       /\ listed # << >> /\ now - preCheckTime >= NackCheckInterval
       /\ rtp' = served.rtp
       /\ infos' = served.infos
       /\ nacks' = served.asked
       /\ preCheckTime' = now
       /\ low' = IF dropped = {} THEN TrueLow(n) ELSE IndexOf(Newest(dropped)) + 1
       /\ givenUp' = givenUp \cup {IndexOf(s) : s \in dropped}
       /\ TrackTruth(n)

ArrayInit == infos = << >> /\ Init

ArrayNext ==
    \/ /\ \E n \in Packet : OnPacket(n)
       /\ queue' = ByNumber(infos')
       /\ UNCHANGED <<nackInterval, now>>
    \/ (Tick \/ \E rtt \in Rtts : UpdateRtt(rtt)) /\ UNCHANGED infos

ArraySpec == ArrayInit /\ [][ArrayNext]_arrayVars
-----------------------------------------------------------------------------
\* The array is sorted by sequence distance and holds no number twice: what
\* the binary search of yang_nackinfo_insert relies on.
ArraySorted ==
    \A i, j \in DOMAIN infos : i < j => Dist(infos[i].sn, infos[j].sn) > 0

\* The array code does what the list of RecvNack says, step by step: a loop
\* that removes entries from under its own index skips some of them, and the
\* binary search starts one past the end of the array.
ImplementsRecvNack == Spec
=============================================================================
