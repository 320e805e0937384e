---------------------------- MODULE SessionLife ----------------------------
(***************************************************************************)
(* The life of one peer's session: the thread that publishes, opens and    *)
(* destroys it (the owner), the UDP thread that receives for it, the       *)
(* threads of its one-second timer and the thread that retries the DTLS    *)
(* handshake.  They share flags without locks (isStart, isLoop, isloop,    *)
(* activeState, context.state) and the objects that the owner frees one    *)
(* after another.  The list of peers to remove is behind a mutex, which    *)
(* the owner holds while it destroys a peer and a DTLS alert needs.        *)
(*                                                                         *)
(* A thread that works in an object has a control state of its own for it, *)
(* so that the object may be freed under it.  Which packets come, when the *)
(* handshake is over and when a wait times out is free.  Left out: the     *)
(* path through a TURN server, which has no UDP thread; the 100 ms timer   *)
(* and the data channel, off in the default build; an alert at the client, *)
(* whose callback connectPeer does not set.                                *)
(***************************************************************************)
EXTENDS Naturals, FiniteSets

CONSTANTS
    TimerThreads,   \* bound: threads of the timer at one time; with so many
                    \* running a further pthread_create fails
    Retries         \* arq_max_retry, 24 in the code

ASSUME SessionLifeAssumption == TimerThreads \in Nat \ {0} /\ Retries \in Nat \ {0}

VARIABLES
    isServer,       \* the session answers an offer
    owner,          \* control state of the owner
    lock,           \* m_mutex of the list: "free" or "owner"
    activeState,
    state,          \* context.state
    alive,          \* objects of the session not freed yet
    udp,            \* YangUdpSession and the control state of its thread
    tm,             \* YangCTimer tm_1s
    tmThread,       \* control states of its threads
    dtls,           \* YangDtlsSession and the control state of its thread
    isSendDtls,
    srtp,           \* "none", "send" (sendCtx set, no mutex yet) or "ready"
    busy            \* what was under way when the owner began to destroy

ownerVars == <<owner, lock, activeState, alive, busy>>
timerVars == <<tm, tmThread>>
dtlsVars == <<dtls, isSendDtls, srtp>>
vars == <<isServer, state, ownerVars, udp, timerVars, dtlsVars>>

Timer == 1 .. TimerThreads
Object == {"timer", "push", "play", "udp", "ssl"}
OwnerPc == {"new", "open", "close", "deactivate", "stopTimer", "waitTimer",
            "freeTimer", "freePush", "freePlay", "stopUdp", "waitUdp",
            "freeContext", "done"}
UdpPc == {"none", "created", "starting", "stunTimer", "test", "recv", "push",
          "play", "shake", "ssl", "alert", "sendCtx", "locks", "done", "after",
          "success", "closing", "gone"}
TimerPc == {"none", "created", "starting", "test", "wait", "play", "push", "rtt"}
Datagram == {"rtp", "rtcp", "stun", "dtls", "other"}

Init ==
    /\ isServer \in BOOLEAN
    /\ owner = "new" /\ lock = "free"
    /\ activeState = TRUE /\ state = FALSE
    /\ alive = Object
    /\ udp = [pc |-> "none", isStart |-> FALSE, isLoop |-> FALSE]
    /\ tm = [isStart |-> FALSE, isloop |-> FALSE]
    /\ tmThread = [i \in Timer |-> "none"]
    /\ dtls = [pc |-> "none", isStart |-> FALSE, arq_count |-> 0, over |-> FALSE,
               done |-> FALSE]
    /\ isSendDtls = FALSE /\ srtp = "none"
    /\ busy = {}
-----------------------------------------------------------------------------
(* The owner.                                                              *)

\* what a destroy can come in the middle of
Busy ==
    {b \in {"udp", "timer", "dtls"} :
        \/ b = "udp" /\ udp.pc \notin {"test", "recv"}
        \/ b = "timer"
            /\ \/ \E i \in Timer : tmThread[i] \in {"created", "starting"}
               \/ Cardinality({i \in Timer : tmThread[i] # "none"}) > 1
        \/ b = "dtls" /\ dtls.pc # "none"}

\* the owner goes from one control state to the next
Goes(from, to) == owner = from /\ owner' = to

\* the end of yang_rtcconn_startRtc
StartRtc ==
    /\ Goes("new", "open")
    /\ udp' = [udp EXCEPT !.pc = "created"]
    /\ UNCHANGED <<lock, activeState, alive, busy, state, timerVars>>

\* the publishing loop finds the peer on the list of peers to remove, where an
\* alert, checkAlive or disConnectPeer has put it, and takes the mutex; or the
\* destructor goes through all peers without it
RemoveStream ==
    /\ Goes("open", "close")
    /\ lock' \in {"owner", "free"}
    /\ UNCHANGED <<activeState, alive, busy, state, udp, timerVars>>

\* yang_rtcconn_close, called when context.state is set
Close ==
    /\ Goes("close", "deactivate")
    /\ state' = FALSE
    /\ UNCHANGED <<lock, activeState, alive, busy, udp, timerVars>>

\* faulty variant of Deactivate: activeState is left set
Deactivate_StillActive ==
    /\ Goes("deactivate", "stopTimer")
    /\ busy' = Busy
    /\ UNCHANGED <<lock, activeState, alive, state, udp, timerVars>>

\* yang_destroy_rtcConnection from here on
Deactivate ==
    /\ Goes("deactivate", "stopTimer")
    /\ activeState' = FALSE
    /\ busy' = Busy
    /\ UNCHANGED <<lock, alive, state, udp, timerVars>>

\* yang_timer_stop does nothing for a thread that has not set isStart yet
StopTimer ==
    /\ Goes("stopTimer", IF tm.isStart THEN "waitTimer" ELSE "freeTimer")
    /\ tm' = [tm EXCEPT !.isloop = @ /\ ~tm.isStart]
    /\ UNCHANGED <<lock, activeState, alive, busy, state, udp, tmThread>>

\* yang_stop_rtcudp
StopUdp ==
    /\ Goes("stopUdp", "waitUdp")
    /\ udp' = [udp EXCEPT !.isLoop = FALSE]
    /\ UNCHANGED <<lock, activeState, alive, busy, state, timerVars>>

\* faulty variant of Wait: the UDP thread is not waited for
Wait_NotUdp ==
    /\ \/ Goes("waitTimer", "freeTimer") /\ ~tm.isStart
       \/ Goes("waitUdp", "freeContext")
    /\ UNCHANGED <<lock, activeState, alive, busy, state, udp, timerVars>>

\* the waits for isStart at the end of the two stops
Wait ==
    /\ \/ Goes("waitTimer", "freeTimer") /\ ~tm.isStart
       \/ Goes("waitUdp", "freeContext") /\ ~udp.isStart
    /\ UNCHANGED <<lock, activeState, alive, busy, state, udp, timerVars>>

\* the objects are freed in the order of the code, the mutex is released
Free ==
    /\ \/ Goes("freeTimer", "freePush") /\ alive' = alive \ {"timer"} /\ UNCHANGED lock
       \/ Goes("freePush", "freePlay") /\ alive' = alive \ {"push"} /\ UNCHANGED lock
       \/ Goes("freePlay", "stopUdp") /\ alive' = alive \ {"play"} /\ UNCHANGED lock
       \/ Goes("freeContext", "done") /\ alive' = {} /\ lock' = "free"
    /\ UNCHANGED <<activeState, busy, state, udp, timerVars>>

Owner ==
    /\ StartRtc \/ RemoveStream \/ Close \/ Deactivate \/ StopTimer \/ StopUdp
        \/ Wait \/ Free
    /\ UNCHANGED <<isServer, dtlsVars>>
-----------------------------------------------------------------------------
(* The threads of the timer.                                               *)

\* yang_rtcconn_startTimers and startStunTimer: a thread is created as long
\* as none has set isStart
StartTimers ==
    IF "timer" \in alive /\ ~tm.isStart /\ \E i \in Timer : tmThread[i] = "none"
    THEN tmThread' = [tmThread EXCEPT
            ![CHOOSE i \in Timer : tmThread[i] = "none"] = "created"]
    ELSE UNCHANGED tmThread

TimerGoes(i, from, to) ==
    tmThread[i] = from /\ tmThread' = [tmThread EXCEPT ![i] = to]

\* g_yang_doTask: reports of play and push, the round-trip time back to play;
\* each object is entered if its pointer is not NULL.  Play is left out while
\* nothing was received (startRecv)
DoTask(i) ==
    LET push == IF "push" \in alive THEN "push" ELSE "test"
        rtt == IF "play" \in alive THEN "rtt" ELSE "test"
    IN  \/ state /\ "play" \in alive /\ TimerGoes(i, "wait", "play")
        \/ state /\ TimerGoes(i, "wait", push)
        \/ TimerGoes(i, "play", push)
        \/ \E to \in {rtt, "test"} : TimerGoes(i, "push", to)
        \/ TimerGoes(i, "rtt", "test")

\* faulty variant of TimerExit: isStart stays set
TimerExit_KeepsStart(i) == TimerGoes(i, "test", "none") /\ ~tm.isloop /\ UNCHANGED tm

\* the end of yang_run_timer_thread
TimerExit(i) ==
    TimerGoes(i, "test", "none") /\ ~tm.isloop /\ tm' = [tm EXCEPT !.isStart = FALSE]

\* yang_run_timer_thread: epoll_wait ends with the timer or after 200 ms
TimerThread(i) ==
    /\ \/ TimerGoes(i, "created", "starting") /\ tm' = [tm EXCEPT !.isStart = TRUE]
       \/ TimerGoes(i, "starting", "test") /\ tm' = [tm EXCEPT !.isloop = TRUE]
       \/ TimerGoes(i, "test", "wait") /\ tm.isloop /\ UNCHANGED tm
       \/ (TimerGoes(i, "wait", "test") \/ DoTask(i)) /\ UNCHANGED tm
       \/ TimerExit(i)
    /\ UNCHANGED <<isServer, state, ownerVars, udp, dtlsVars>>
-----------------------------------------------------------------------------
(* DTLS: the thread that retries the handshake.                            *)

\* a thread is created, beside one that has not ended if there is one
CreateDtls ==
    [dtls EXCEPT !.pc = IF @ = "none" THEN "created" ELSE "two", !.arq_count = 0]

\* faulty variant of StartDtls: isStart is left to the new thread
StartDtls_LateFlag == dtls' = CreateDtls

\* yang_start_rtcdtls
StartDtls == dtls' = [CreateDtls EXCEPT !.isStart = TRUE]

\* faulty variant of GivesUp: one try too many
GivesUp_OneLate == dtls.arq_count > Retries

GivesUp == dtls.arq_count = Retries

\* yang_run_rtcdtls_app; a step of the handshake may be its last one
DtlsThread ==
    /\ \/ /\ dtls.pc = "created"
          /\ dtls' = [dtls EXCEPT !.pc = "run", !.isStart = TRUE]
       \/ /\ dtls.pc = "run" /\ ~dtls.over /\ ~GivesUp
          /\ \E over \in BOOLEAN :
                dtls' = [dtls EXCEPT !.over = over, !.arq_count = @ + 1]
       \/ /\ dtls.pc = "run" /\ (dtls.over \/ GivesUp)
          /\ dtls' = [dtls EXCEPT !.pc = "none", !.isStart = FALSE, !.arq_count = 0]
    /\ UNCHANGED <<isServer, state, ownerVars, udp, timerVars, isSendDtls, srtp>>
-----------------------------------------------------------------------------
(* The UDP thread.                                                         *)

UdpGoes(from, to) == udp.pc = from /\ udp' = [udp EXCEPT !.pc = to]

\* the end of yang_run_rtcudp_thread: isStart is cleared, then the socket of
\* the session is closed
UdpExit ==
    \/ /\ udp.pc = "test" /\ ~udp.isLoop
       /\ udp' = [udp EXCEPT !.pc = "closing", !.isStart = FALSE]
    \/ UdpGoes("closing", "gone")

\* yang_run_rtcudp_thread; a client knows the remote address and starts the
\* timer for its STUN requests
UdpLoop ==
    /\ \/ /\ udp.pc = "created"
          /\ udp' = [udp EXCEPT !.pc = "starting", !.isStart = TRUE]
          /\ UNCHANGED tmThread
       \/ /\ udp.pc = "starting"
          /\ udp' = [udp EXCEPT !.pc = IF isServer THEN "test" ELSE "stunTimer",
                                !.isLoop = TRUE]
          /\ UNCHANGED tmThread
       \/ UdpGoes("stunTimer", "test") /\ StartTimers
       \/ udp.isLoop /\ UdpGoes("test", "recv") /\ UNCHANGED tmThread
       \/ UdpExit /\ UNCHANGED tmThread
    /\ UNCHANGED <<state, tm, dtlsVars>>

\* faulty variant of Accepts: yang_rtcconn_receive does not ask activeState
Accepts_Always == TRUE

Accepts == activeState

\* recvfrom and the branch of yang_rtcconn_receive for the kind of datagram;
\* a timeout, and a datagram not accepted, lead back to the loop
Receive(kind) ==
    LET play == IF "play" \in alive THEN "play" ELSE "test"
        push == IF "push" \in alive THEN "push" ELSE play
        stun == IF isSendDtls THEN "test" ELSE "shake"
        retry == isServer /\ ~dtls.done /\ ~dtls.isStart
    IN
    /\ \/ ~Accepts /\ UdpGoes("recv", "test") /\ UNCHANGED <<state, dtls>>
       \/ Accepts /\ kind = "rtp" /\ UdpGoes("recv", play) /\ UNCHANGED <<state, dtls>>
       \/ Accepts /\ kind = "rtcp" /\ UdpGoes("recv", push) /\ UNCHANGED <<state, dtls>>
       \/ /\ Accepts /\ kind = "stun" /\ isServer
          /\ UdpGoes("recv", "test") /\ state' = TRUE /\ UNCHANGED dtls
       \/ /\ Accepts /\ kind = "stun" /\ ~isServer
          /\ UdpGoes("recv", stun) /\ UNCHANGED <<state, dtls>>
       \/ /\ Accepts /\ kind = "dtls" /\ UdpGoes("recv", "ssl") /\ UNCHANGED state
          /\ IF retry THEN StartDtls ELSE UNCHANGED dtls
       \/ Accepts /\ kind = "other" /\ UdpGoes("recv", "success") /\ UNCHANGED <<state, dtls>>
    /\ UNCHANGED <<timerVars, isSendDtls, srtp>>

\* on_rtp and on_rtcp in the streams, and the client's first handshake
Handle ==
    /\ \/ /\ UdpGoes("push", IF "play" \in alive THEN "play" ELSE "test")
          /\ UNCHANGED <<dtls, isSendDtls>>
       \/ UdpGoes("play", "test") /\ UNCHANGED <<dtls, isSendDtls>>
       \/ UdpGoes("shake", "test") /\ StartDtls /\ isSendDtls' = TRUE
    /\ UNCHANGED <<state, timerVars, srtp>>

\* faulty variant of SetKeys: the state is set before the keys
SetKeys_DoneFirst ==
    \/ /\ UdpGoes("sendCtx", "locks")
       /\ dtls' = [dtls EXCEPT !.done = TRUE]
       /\ UNCHANGED srtp
    \/ UdpGoes("locks", "done") /\ srtp' = "send" /\ UNCHANGED dtls
    \/ UdpGoes("done", "after") /\ srtp' = "ready" /\ UNCHANGED dtls

\* yang_on_handshake_done with yang_create_srtp; without a key or a context it
\* ends there, and the caller does not ask for the result.  A sendCtx left
\* alone is not told from none
SetKeys ==
    \/ UdpGoes("sendCtx", "locks") /\ srtp' = "send" /\ UNCHANGED dtls
    \/ UdpGoes("sendCtx", "after") /\ srtp' = "none" /\ UNCHANGED dtls
    \/ UdpGoes("locks", "done") /\ srtp' = "ready" /\ UNCHANGED dtls
    \/ UdpGoes("locks", "after") /\ srtp' = "none" /\ UNCHANGED dtls
    \/ /\ UdpGoes("done", "after")
       /\ dtls' = [dtls EXCEPT !.done = TRUE]
       /\ UNCHANGED srtp

\* where the DTLS data leads when it has been read
AfterRead == IF dtls'.over /\ ~dtls.done THEN "sendCtx" ELSE "after"

\* yang_process_dtls_data: the handshake may be over, a close_notify is an
\* alert that puts the peer on the list, and the keys are set up once
ProcessData ==
    /\ \/ /\ udp.pc = "ssl"
          /\ \E over \in {dtls.over, TRUE} : dtls' = [dtls EXCEPT !.over = over]
          /\ \E to \in {AfterRead} \cup IF isServer /\ dtls.over THEN {"alert"} ELSE {} :
                udp' = [udp EXCEPT !.pc = to]
          /\ UNCHANGED srtp
       \/ /\ udp.pc = "alert" /\ lock = "free" /\ UNCHANGED <<dtls, srtp>>
          /\ UdpGoes("alert", AfterRead)
       \/ SetKeys
    /\ UNCHANGED <<state, timerVars, isSendDtls>>

\* the end of yang_rtcconn_receive: with data it could process a server that
\* is not connected yet only starts the timers; every other way leads to
\* client_sucess
ClientSuccess ==
    /\ udp.pc \in {"after", "success"}
    /\ udp' = [udp EXCEPT !.pc = "test"]
    /\ StartTimers
    /\ state' \in {TRUE} \cup IF isServer /\ udp.pc = "after" THEN {state} ELSE {}
    /\ UNCHANGED <<tm, dtlsVars>>

UdpThread ==
    /\ \/ UdpLoop \/ Handle \/ ProcessData \/ ClientSuccess
       \/ \E kind \in Datagram : Receive(kind)
       \/ UdpGoes("recv", "test")
          /\ UNCHANGED <<state, timerVars, dtlsVars>>
    /\ UNCHANGED <<isServer, ownerVars>>
-----------------------------------------------------------------------------
Next ==
    \/ Owner
    \/ \E i \in Timer : TimerThread(i)
    \/ DtlsThread
    \/ UdpThread

\* The threads that the owner waits for go on, and so does the owner, which may
\* leave a session open for ever; the retries of the handshake need not.
Fairness ==
    /\ WF_vars(Owner /\ owner \notin {"new", "open"})
    /\ \A i \in Timer : WF_vars(TimerThread(i))
    /\ WF_vars(UdpThread)

Spec == Init /\ [][Next]_vars /\ Fairness
-----------------------------------------------------------------------------
(* Properties.                                                             *)

\* The control states, flags and objects keep their ranges; no more handshakes
\* are tried than arq_max_retry.
TypeOK ==
    /\ isServer \in BOOLEAN /\ activeState \in BOOLEAN
    /\ state \in BOOLEAN /\ isSendDtls \in BOOLEAN
    /\ owner \in OwnerPc /\ lock \in {"free", "owner"}
    /\ alive \subseteq Object
    /\ udp \in [pc : UdpPc, isStart : BOOLEAN, isLoop : BOOLEAN]
    /\ tm \in [isStart : BOOLEAN, isloop : BOOLEAN]
    /\ tmThread \in [Timer -> TimerPc]
    /\ dtls \in [pc : {"none", "created", "run", "two"}, isStart : BOOLEAN,
                 arq_count : 0 .. Retries, over : BOOLEAN, done : BOOLEAN]
    /\ srtp \in {"none", "send", "ready"}
    /\ busy \subseteq {"udp", "timer", "dtls"}

\* the objects that threads are in
InUse ==
    {o \in Object :
        \/ o = "timer" /\ \E i \in Timer : tmThread[i] # "none"
        \/ o = "push" /\ (udp.pc = "push" \/ \E i \in Timer : tmThread[i] = "push")
        \/ o = "play" /\ \/ udp.pc = "play"
                         \/ \E i \in Timer : tmThread[i] \in {"play", "rtt"}
        \/ o = "udp" /\ udp.pc \notin {"none", "gone"}
        \/ o = "ssl" /\ \/ dtls.pc # "none"
                        \/ udp.pc \in {"shake", "ssl", "alert", "sendCtx",
                                      "locks", "done"}}

\* what must have been under way for an object to be freed while in use
Blame == [o \in Object |-> IF o = "ssl" THEN {"dtls", "udp"} ELSE {"timer", "udp"}]

\* An object is freed under a thread only if, when the destruction began, a
\* thread was still starting, a second timer thread had been started, the UDP
\* thread had a datagram in hand or the handshake was being retried; or,
\* whatever was under way, udp under the UDP thread that has cleared isStart and
\* has still to close its socket.  The order of the stops, and the test of activeState,
\* are enough for everything else, although play and push go before the thread
\* that uses them has ended.
FreedUnused ==
    \A o \in InUse :
        o \in alive \/ busy \cap Blame[o] # {} \/ (o = "udp" /\ udp.pc = "closing")

\* With nothing of that kind under way no thread outlives the session, but for
\* the UDP thread that has still to close its socket.
NothingSurvives ==
    owner = "done" /\ busy = {} => InUse = IF udp.pc = "closing" THEN {"udp"} ELSE {}

\* The handshake is retried by one thread at a time, however many datagrams
\* come before it has run.
OneHandshakeThread == dtls.pc # "two"

\* Media is only encrypted with both contexts and their mutexes in place:
\* on_video and on_audio ask for the state that is set last.
KeysBeforeMedia == dtls.done => srtp = "ready"

\* A destruction that begins with nothing starting and no datagram in hand
\* ends: no stop waits for ever, whoever holds the mutex.
CloseEnds ==
    owner = "stopTimer" /\ busy \subseteq {"dtls"} ~> owner = "done"
=============================================================================
