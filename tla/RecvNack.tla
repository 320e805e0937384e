----------------------------- MODULE RecvNack -----------------------------
(***************************************************************************)
(* Loss detection of one received RTP track (audio or video):              *)
(* YangReceiveNackBuffer keeps the window of sequence numbers begin..end,  *)
(* YangRtpRecvNack the sorted list of missing packets and the pace at      *)
(* which they are requested, and yang_playtrack_on_nack, run by the UDP    *)
(* thread for every packet, drives both.                                   *)
(*                                                                         *)
(* The network is any schedule of deliveries of packets 0..Horizon: loss   *)
(* is a packet never delivered, reordering and duplication are deliveries  *)
(* in any order and any number of times.  Packet n carries the sequence    *)
(* number Seqn(n), so that the 16-bit counter wraps inside the run.        *)
(* The list is a function from the listed sequence numbers to their        *)
(* YangRtpNackInfo; its order is the order of sequence distance that       *)
(* yang_nackinfo_insert keeps (module NackArray checks the array code).    *)
(***************************************************************************)
EXTENDS RtpSeq, FiniteSets, Functions

CONSTANTS
    Base,               \* sequence number of packet 0
    Horizon,            \* bound: last packet index of the run
    MaxTime,            \* bound: last value of the clock
    MaxQueueSize,       \* maxQueueSize: two thirds of the buffer capacity
    MaxReqCount,        \* opts.maxReqCount
    MaxAliveTime,       \* opts.maxAliveTime
    FirstNackInterval,  \* opts.firstNackInterval
    StartNackInterval,  \* opts.nackInterval as created, also the literal 50 ms
    MinNackInterval,    \* opts.minNackInterval
    MaxNackInterval,    \* opts.maxNackInterval
    NackCheckInterval,  \* opts.nackCheckInterval
    Rtts                \* round-trip times reported by the statistics

ASSUME RecvNackAssumption ==
    /\ Base \in SeqNo
    /\ Horizon \in Nat /\ Horizon < Half    \* what Dist can tell apart
    /\ MaxTime \in Nat
    /\ MaxQueueSize \in Nat \ {0}
    /\ MaxReqCount \in Nat /\ MaxAliveTime \in Nat
    /\ FirstNackInterval \in Nat /\ StartNackInterval \in Nat
    /\ MinNackInterval \in Nat /\ NackCheckInterval \in Nat \ {0}
    /\ MaxNackInterval \in Nat /\ StartNackInterval <= MaxNackInterval
    /\ Rtts \subseteq Nat

VARIABLES
    rtp,            \* YangReceiveNackBuffer
    queue,          \* nack->queue: sequence number -> YangRtpNackInfo
    nackInterval,   \* opts.nackInterval
    preCheckTime,
    now,            \* yang_get_system_time()
    nacks,          \* what the last packet made the receiver request
    \* What really happened, in packet indices that never wrap:
    low,            \* the packet that rtp.begin should stand for
    top,            \* the newest packet, rtp.end should stand for top + 1
    seen,           \* the packets received since the list was last reset
    relisted,       \* the packets listed because an older one came in late
    givenUp         \* the packets dropped from the list on time-out

truth == <<low, top, seen, relisted, givenUp>>
vars == <<rtp, queue, nackInterval, preCheckTime, now, nacks, truth>>

Packet == 0 .. Horizon

\* the sequence number of packet n, and the packet of a sequence number
Seqn(n) == IF Base + n < SeqCount THEN Base + n ELSE Base + n - SeqCount
IndexOf(s) == Steps(Base, s)
-----------------------------------------------------------------------------
(* YangReceiveNackBuffer.  Its array queue[] is only ever written.         *)

BeforeWindow(b, seq) == Dist(b.end, seq) < 0 /\ Dist(seq, b.begin) > 0

\* faulty variant of Update2: an old packet moves the end of the window too
Update2_AnyMovesEnd(b, seq) ==
    [b EXCEPT !.contexttialized = TRUE, !.end = Succ(seq),
              !.begin = IF b.contexttialized /\ Dist(@, seq) >= 0 THEN @ ELSE seq]

\* yang_nackbuffer_update2
Update2(b, seq) ==
    CASE ~b.contexttialized ->
            [b EXCEPT !.contexttialized = TRUE, !.begin = seq, !.end = Succ(seq)]
      [] b.contexttialized /\ Dist(b.end, seq) >= 0 ->
            [b EXCEPT !.end = Succ(seq),
                      !.flips = IF seq < b.end THEN @ + 1 ELSE @]
      [] b.contexttialized /\ BeforeWindow(b, seq) -> [b EXCEPT !.begin = seq]
      [] OTHER -> b

\* the range nack_first..nack_last that update2 returns
LostRange(b, seq) ==
    CASE b.contexttialized /\ Dist(b.end, seq) >= 0 -> SeqRange(b.end, seq)
      [] b.contexttialized /\ BeforeWindow(b, seq) -> SeqRange(seq, b.begin)
      [] OTHER -> {}

\* yang_nackbuffer_notify_nack_list_full
ListFull(b) == [b EXCEPT !.contexttialized = FALSE, !.begin = 0, !.end = 0]

\* yang_nackbuffer_get_extended_highest_sequence, reported in the RTCP RR
\* as a uint32_t
ExtendedHighest ==
    (rtp.flips * SeqCount + rtp.end - 1) % (SeqCount * SeqCount)
-----------------------------------------------------------------------------
(* YangRtpRecvNack.                                                        *)

\* yang_create_nackinfo
NackInfo == [generateTime |-> now, preReqNackTime |-> 0, reqNackCount |-> 0]

\* yang_recvnack_insert: a number already listed keeps its entry
Insert(q, lost) ==
    [s \in DOMAIN q \cup lost |-> IF s \in DOMAIN q THEN q[s] ELSE NackInfo]

Older(q, s) == {t \in DOMAIN q : Dist(t, s) > 0}

\* faulty variants of TimedOut and Young: one request too many is allowed;
\* no entry is ever young
TimedOut_OneMore(e) ==
    now - e.generateTime > MaxAliveTime \/ e.reqNackCount > MaxReqCount + 1
Young_Never(e) == FALSE

\* entries to give up, and entries too young to request
TimedOut(e) ==
    now - e.generateTime > MaxAliveTime \/ e.reqNackCount > MaxReqCount
Young(e) == now - e.generateTime < FirstNackInterval

RetryInterval ==
    LET i == IF nackInterval < StartNackInterval
             THEN nackInterval ELSE nackInterval \div 3
    IN  IF i > MinNackInterval THEN i ELSE MinNackInterval
Due(e) == now - e.preReqNackTime >= RetryInterval

\* an entry that has been requested once more
Again(e) == [e EXCEPT !.reqNackCount = @ + 1, !.preReqNackTime = now]

\* The loop of get_nack_seqs removes an entry and still advances i: in a run
\* of timed-out entries every second one is skipped.
Examined(q, s) ==
    LET live == {t \in Older(q, s) : ~TimedOut(q[t])}
        run == {t \in Older(q, s) : \A u \in live : Dist(u, t) > 0}
    IN  Cardinality(run) % 2 = 0

\* ... and it stops at the first entry it finds young
Reached(q, s) ==
    /\ Examined(q, s)
    /\ \A t \in Older(q, s) :
          Examined(q, t) => TimedOut(q[t]) \/ ~Young(q[t])

Dropped(q) == {s \in DOMAIN q : Reached(q, s) /\ TimedOut(q[s])}
Requested(q) ==
    {s \in DOMAIN q : Reached(q, s) /\ ~TimedOut(q[s]) /\ ~Young(q[s]) /\ Due(q[s])}

\* the list after yang_recvnack_get_nack_seqs
Serviced(q) ==
    [s \in DOMAIN q \ Dropped(q) |->
        IF s \in Requested(q) THEN Again(q[s]) ELSE q[s]]

Newest(S) == CHOOSE s \in S : \A t \in S : Dist(t, s) >= 0

\* faulty variant of DropSeq: begin stays on the dropped packet
DropSeq_OnDropped(b, seq) == [b EXCEPT !.begin = seq]

\* yang_nackbuffer_notify_drop_seq
DropSeq(b, seq) == [b EXCEPT !.begin = Succ(seq)]

\* the begin that its calls leave, one for every packet dropped
AdvanceBegin(b, dropped) ==
    IF dropped = {} THEN b ELSE DropSeq(b, Newest(dropped))
-----------------------------------------------------------------------------
(* yang_playtrack_on_nack: the four ways it handles packet n.              *)

Listed(n) == Seqn(n) \in DOMAIN queue
Window(n) == Update2(rtp, Seqn(n))
Lost(n) == LostRange(rtp, Seqn(n))
WithLost(n) == Insert(queue, Lost(n))
\* faulty variant of Full: > for >=
Full_OneLate(len) == len > MaxQueueSize
\* yang_recvnack_check_queue_size
Full(len) == len >= MaxQueueSize
Overflows(n) == Lost(n) # {} /\ Full(Cardinality(DOMAIN WithLost(n)))
CheckDue(n) ==
    DOMAIN WithLost(n) # {} /\ now - preCheckTime >= NackCheckInterval

\* the same event in packet indices
Fresh(n) == ~rtp.contexttialized
TrueLow(n) == IF Fresh(n) \/ n < low THEN n ELSE low
TrueTop(n) == IF Fresh(n) \/ n > top THEN n ELSE top
TrackTruth(n) ==
    /\ top' = TrueTop(n)
    /\ seen' = seen \cup {n}
    /\ relisted' = IF Fresh(n) THEN relisted ELSE relisted \cup n .. low - 1

\* the packet is one of those missed: it only leaves the list
Recover(n) ==
    /\ Listed(n)
    /\ queue' = Restrict(queue, DOMAIN queue \ {Seqn(n)})
    /\ nacks' = {}
    /\ seen' = seen \cup {n}
    /\ UNCHANGED <<rtp, preCheckTime, low, top, relisted, givenUp>>

\* the list reaches maxQueueSize: list and window are forgotten
Overflow(n) ==
    /\ ~Listed(n) /\ Overflows(n)
    /\ rtp' = ListFull(Window(n))
    /\ queue' = << >>
    /\ nacks' = {}
    /\ low' = 0 /\ top' = 0 /\ seen' = {} /\ relisted' = {} /\ givenUp' = {}
    /\ UNCHANGED preCheckTime

\* the window moves and nothing is requested yet
Track(n) ==
    /\ ~Listed(n) /\ ~Overflows(n) /\ ~CheckDue(n)
    /\ rtp' = Window(n)
    /\ queue' = WithLost(n)
    /\ nacks' = {}
    /\ low' = TrueLow(n)
    /\ TrackTruth(n)
    /\ UNCHANGED <<preCheckTime, givenUp>>

\* the window moves and the list is serviced
TrackAndRequest(n) ==
    /\ ~Listed(n) /\ ~Overflows(n) /\ CheckDue(n)
    /\ LET q == WithLost(n)
       IN  /\ rtp' = AdvanceBegin(Window(n), Dropped(q))
           /\ queue' = Serviced(q)
           /\ nacks' = Requested(q)
           /\ low' = IF Dropped(q) = {}
                     THEN TrueLow(n) ELSE IndexOf(Newest(Dropped(q))) + 1
           /\ givenUp' = givenUp \cup {IndexOf(s) : s \in Dropped(q)}
    /\ preCheckTime' = now
    /\ TrackTruth(n)

OnNack(n) ==
    /\ Recover(n) \/ Overflow(n) \/ Track(n) \/ TrackAndRequest(n)
    /\ UNCHANGED <<nackInterval, now>>

\* yang_recvnack_update_rtt, by the timer thread; 0.8 and 0.2 in integers
UpdateRtt(rtt) ==
    /\ nackInterval' =
          LET i == IF rtt > nackInterval
                   THEN (8 * nackInterval + 2 * rtt) \div 10 ELSE rtt
          IN  IF i < MaxNackInterval THEN i ELSE MaxNackInterval
    /\ UNCHANGED <<rtp, queue, preCheckTime, now, nacks, truth>>

Tick ==
    /\ now < MaxTime
    /\ now' = now + 1
    /\ UNCHANGED <<rtp, queue, nackInterval, preCheckTime, nacks, truth>>

\* yang_create_nackBuffer, yang_create_recvnack.  The system clock is far
\* beyond every interval when the first packet comes.
Init ==
    /\ rtp = [begin |-> 0, end |-> 0, contexttialized |-> FALSE, flips |-> 0]
    /\ queue = << >>
    /\ nackInterval = StartNackInterval
    /\ preCheckTime = 0
    /\ now = MaxNackInterval + NackCheckInterval
    /\ nacks = {}
    /\ low = 0 /\ top = 0 /\ seen = {} /\ relisted = {} /\ givenUp = {}

Next ==
    \/ \E n \in Packet : OnNack(n)
    \/ \E rtt \in Rtts : UpdateRtt(rtt)
    \/ Tick

Spec == Init /\ [][Next]_vars
-----------------------------------------------------------------------------
(* Properties.                                                             *)

\* Every variable keeps the range its C type and its use give it.
TypeOK ==
    /\ rtp \in [begin : SeqNo, end : SeqNo, contexttialized : BOOLEAN, flips : Nat]
    /\ DOMAIN queue \subseteq SeqNo
    /\ queue \in [DOMAIN queue -> [generateTime : Nat, preReqNackTime : Nat,
                                   reqNackCount : 0 .. MaxReqCount + 1]]
    /\ nackInterval \in 0 .. MaxNackInterval
    /\ preCheckTime \in 0 .. now
    /\ now \in Nat
    /\ nacks \subseteq SeqNo
    /\ low \in 0 .. Horizon + 1 /\ top \in Packet
    /\ seen \subseteq Packet /\ relisted \subseteq Packet /\ givenUp \subseteq Packet

\* The wrapped window begin..end always stands for the packets low..top that
\* were really received, whatever was lost, reordered, dropped or reset.
WindowIsTrue ==
    rtp.contexttialized =>
        /\ low <= top + 1
        /\ rtp.begin = Seqn(low)
        /\ rtp.end = Seqn(top + 1)

\* No loss is forgotten: every packet of the window was received, or is
\* listed for retransmission, or was given up after its time-out.
NoLossForgotten ==
    rtp.contexttialized =>
        \A n \in low .. top : n \in seen \/ Listed(n) \/ n \in givenUp

\* A packet that was received is not requested again, unless a packet older
\* than the window came in and the range above it was listed once more.
NoSpuriousNack ==
    \A n \in seen : Listed(n) \/ Seqn(n) \in nacks => n \in relisted

\* The list never rests at or above maxQueueSize, and an idle window has none.
QueueBounded ==
    /\ Cardinality(DOMAIN queue) < MaxQueueSize
    /\ ~rtp.contexttialized => queue = << >>

\* An entry is never requested twice within the shortest retry interval,
\* nor in the first interval after the loss was seen.
Paced ==
    \A s \in DOMAIN queue :
        LET e == queue[s]
        IN  /\ e.reqNackCount = 0 <=> e.preReqNackTime = 0
            /\ e.reqNackCount > 0 =>
                  e.preReqNackTime >= e.generateTime + FirstNackInterval
                                    + (e.reqNackCount - 1) * MinNackInterval

\* The newest sequence number never moves back while the window is live.
HighestAdvances ==
    [][rtp.contexttialized /\ rtp'.contexttialized =>
          Dist(rtp.end, rtp'.end) >= 0]_vars

\* The extended highest sequence number of the receiver reports never shrinks.
ExtendedHighestGrows ==
    [][rtp.contexttialized /\ rtp'.contexttialized =>
          ExtendedHighest' >= ExtendedHighest]_vars
=============================================================================
