------------------------- MODULE SessionLifeProofs -------------------------
(***************************************************************************)
(* What module SessionLife checks with two timer threads and one retry,    *)
(* proved for any number of both: nothing is freed under a thread but for  *)
(* what was under way when the destruction began, no thread survives, the  *)
(* keys are there before media is sent, and one thread shakes hands.  What *)
(* the UDP thread still does to the session after it has cleared isStart   *)
(* is named in the properties, and in the invariant it is the control      *)
(* state "closing".                                                        *)
(***************************************************************************)
EXTENDS SessionLife, FiniteSetTheorems, TLAPS

Before == owner \in {"new", "open", "close", "deactivate"}
UdpQuiet == ~Before /\ busy \cap {"udp"} = {}
TimerQuiet == ~Before /\ busy \cap {"timer", "udp"} = {}
DtlsQuiet == ~Before /\ busy \cap {"dtls", "udp"} = {}

\* The inductive invariant.  The objects go with the control state of the
\* owner; until the destruction begins a timer thread that runs has both flags
\* set, so that afterwards, if it is the only one, the stop waits for it; the
\* UDP thread that had no datagram in hand takes none any more, and when the
\* owner has seen isStart cleared it is at its last steps.
OwnerInv ==
    /\ Before => alive = Object /\ activeState
    /\ ~Before => ~activeState
    /\ owner \in {"stopTimer", "waitTimer", "freeTimer"} => alive = Object
    /\ owner = "freePush" => alive = {"push", "play", "udp", "ssl"}
    /\ owner = "freePlay" => alive = {"play", "udp", "ssl"}
    /\ owner \in {"stopUdp", "waitUdp", "freeContext"} => alive = {"udp", "ssl"}

UdpInv ==
    /\ owner = "new" <=> udp.pc = "none"
    /\ udp.pc \notin {"none", "created", "closing", "gone"} => udp.isStart
    /\ UdpQuiet => udp.pc \in {"test", "recv", "closing", "gone"}
    /\ UdpQuiet /\ owner \in {"freeContext", "done"} => udp.pc \in {"closing", "gone"}

TimerInv ==
    /\ \A i \in Timer : Before /\ tmThread[i] \notin {"none", "created"} => tm.isStart
    /\ \A i \in Timer :
          Before /\ tmThread[i] \notin {"none", "created", "starting"} => tm.isloop
    /\ TimerQuiet =>
          /\ \A i \in Timer : tmThread[i] \notin {"created", "starting"}
          /\ \A i, j \in Timer : tmThread[i] # "none" /\ tmThread[j] # "none" => i = j
          /\ \A i \in Timer : tmThread[i] # "none" => tm.isStart
          /\ owner \notin {"stopTimer", "waitTimer"} => \A i \in Timer : tmThread[i] = "none"

DtlsInv ==
    /\ dtls.pc # "two"
    /\ dtls.pc # "none" => dtls.isStart
    /\ udp.pc = "shake" => ~isServer /\ ~isSendDtls
    /\ ~isServer /\ ~isSendDtls => dtls.pc = "none"
    /\ DtlsQuiet => dtls.pc = "none"

KeysInv ==
    /\ dtls.done => srtp = "ready"
    /\ udp.pc \in {"sendCtx", "locks", "done"} => ~dtls.done
    /\ udp.pc = "done" => srtp = "ready"

IInv == TypeOK /\ OwnerInv /\ UdpInv /\ TimerInv /\ DtlsInv /\ KeysInv
-----------------------------------------------------------------------------
(* Lemmas about the operators.                                             *)

\* StartTimers creates at most one thread, in a free place.
LEMMA StartsOne ==
    ASSUME StartTimers
    PROVE  \/ tmThread' = tmThread
           \/ \E i \in Timer :
                tmThread[i] = "none" /\ tmThread' = [tmThread EXCEPT ![i] = "created"]
<1> DEFINE i == CHOOSE i \in Timer : tmThread[i] = "none"
<1>1. CASE \E j \in Timer : tmThread[j] = "none"
  <2>1. i \in Timer /\ tmThread[i] = "none"
    BY <1>1
  <2> QED BY <2>1 DEF StartTimers
<1>2. CASE ~\E j \in Timer : tmThread[j] = "none"
  BY <1>2 DEF StartTimers
<1> QED BY <1>1, <1>2

\* When no timer thread was starting and not more than one had started, any two
\* that run are one.
LEMMA OneThread ==
    ASSUME "timer" \notin Busy, NEW i \in Timer, NEW j \in Timer,
           tmThread[i] # "none", tmThread[j] # "none"
    PROVE  i = j
<1> DEFINE S == {k \in Timer : tmThread[k] # "none"}
<1>1. IsFiniteSet(Timer)
  BY SessionLifeAssumption, FS_Interval DEF Timer
<1>2. IsFiniteSet(S) /\ Cardinality(S) \in Nat
  BY <1>1, FS_Subset, FS_CardinalityType
<1>3. ~(Cardinality(S) > 1)
  BY ZenonT(20) DEF Busy
<1>4. ASSUME i # j PROVE FALSE
  <2>1. IsFiniteSet({i}) /\ Cardinality({i}) = 1
    BY FS_Singleton
  <2>2. Cardinality({i} \cup {j}) = Cardinality({i}) + 1
    BY <1>4, <2>1, FS_AddElement, Zenon
  <2>3. Cardinality({i} \cup {j}) <= Cardinality(S)
    BY <1>2, FS_Subset
  <2> QED BY <1>2, <1>3, <2>1, <2>2, <2>3
<1> QED BY <1>4
-----------------------------------------------------------------------------
(* What the assignments to one or two fields of a record leave.            *)

UdpRecord == [pc : UdpPc, isStart : BOOLEAN, isLoop : BOOLEAN]
TimerRecord == [isStart : BOOLEAN, isloop : BOOLEAN]
DtlsRecord == [pc : {"none", "created", "run", "two"}, isStart : BOOLEAN,
               arq_count : 0 .. Retries, over : BOOLEAN, done : BOOLEAN]

LEMMA TimerFields ==
    ASSUME NEW u \in TimerRecord, NEW b \in BOOLEAN, NEW x
    PROVE  /\ x = [u EXCEPT !.isStart = b] =>
                x \in TimerRecord /\ x.isStart = b /\ x.isloop = u.isloop
           /\ x = [u EXCEPT !.isloop = b] =>
                x \in TimerRecord /\ x.isStart = u.isStart /\ x.isloop = b
BY ZenonT(30) DEF TimerRecord

\* a step of the thread that retries the handshake
LEMMA DtlsFields ==
    ASSUME NEW d \in DtlsRecord, NEW x,
           NEW p \in {"none", "created", "run", "two"}, NEW b \in BOOLEAN,
           NEW n \in 0 .. Retries
    PROVE  /\ x = [d EXCEPT !.pc = p, !.isStart = b] =>
                /\ x \in DtlsRecord /\ x.pc = p /\ x.isStart = b
                /\ x.over = d.over /\ x.done = d.done
           /\ x = [d EXCEPT !.over = b, !.arq_count = n] =>
                /\ x \in DtlsRecord /\ x.pc = d.pc /\ x.isStart = d.isStart
                /\ x.over = b /\ x.done = d.done
           /\ x = [d EXCEPT !.over = b] =>
                /\ x \in DtlsRecord /\ x.pc = d.pc /\ x.isStart = d.isStart
                /\ x.over = b /\ x.done = d.done
           /\ x = [d EXCEPT !.done = b] =>
                /\ x \in DtlsRecord /\ x.pc = d.pc /\ x.isStart = d.isStart
                /\ x.over = d.over /\ x.done = b
BY ZenonT(30) DEF DtlsRecord

LEMMA StartDtlsFields ==
    ASSUME dtls \in DtlsRecord, StartDtls
    PROVE  /\ dtls' \in DtlsRecord /\ dtls'.isStart
           /\ dtls'.pc = IF dtls.pc = "none" THEN "created" ELSE "two"
           /\ dtls'.over = dtls.over /\ dtls'.done = dtls.done
<1>1. CreateDtls \in DtlsRecord
      /\ CreateDtls.pc = (IF dtls.pc = "none" THEN "created" ELSE "two")
      /\ CreateDtls.over = dtls.over /\ CreateDtls.done = dtls.done
  <2>1. 0 \in 0 .. Retries
    BY SessionLifeAssumption
  <2> QED BY <2>1, ZenonT(30) DEF CreateDtls, DtlsRecord
<1>2. dtls' = [CreateDtls EXCEPT !.isStart = TRUE]
  BY DEF StartDtls
<1> HIDE DEF CreateDtls
<1> QED BY <1>1, <1>2, ZenonT(30) DEF DtlsRecord
-----------------------------------------------------------------------------
(* What the steps do, without the EXCEPTs.                                 *)

USE DEF Goes, TimerGoes

\* The record types, from the type invariant.
LEMMA Records ==
    ASSUME TypeOK
    PROVE  udp \in UdpRecord /\ tm \in TimerRecord /\ dtls \in DtlsRecord
BY DEF TypeOK, UdpRecord, TimerRecord, DtlsRecord

\* The owner: which steps there are and what each of them sets.
OwnerStep ==
    \/ owner = "new" /\ owner' = "open" /\ udp'.pc = "created" /\ udp'.isStart = udp.isStart
       /\ UNCHANGED <<activeState, alive, busy, tm>>
    \/ owner = "open" /\ owner' = "close" /\ UNCHANGED <<activeState, alive, busy, tm, udp>>
    \/ owner = "close" /\ owner' = "deactivate" /\ UNCHANGED <<activeState, alive, busy, tm, udp>>
    \/ owner = "deactivate" /\ owner' = "stopTimer" /\ activeState' = FALSE /\ busy' = Busy
       /\ UNCHANGED <<alive, tm, udp>>
    \/ owner = "stopTimer" /\ owner' = (IF tm.isStart THEN "waitTimer" ELSE "freeTimer")
       /\ tm'.isStart = tm.isStart /\ UNCHANGED <<activeState, alive, busy, udp>>
    \/ owner = "waitTimer" /\ owner' = "freeTimer" /\ ~tm.isStart
       /\ UNCHANGED <<activeState, alive, busy, tm, udp>>
    \/ owner = "freeTimer" /\ owner' = "freePush" /\ alive' = alive \ {"timer"}
       /\ UNCHANGED <<activeState, busy, tm, udp>>
    \/ owner = "freePush" /\ owner' = "freePlay" /\ alive' = alive \ {"push"}
       /\ UNCHANGED <<activeState, busy, tm, udp>>
    \/ owner = "freePlay" /\ owner' = "stopUdp" /\ alive' = alive \ {"play"}
       /\ UNCHANGED <<activeState, busy, tm, udp>>
    \/ owner = "stopUdp" /\ owner' = "waitUdp" /\ udp'.pc = udp.pc /\ udp'.isStart = udp.isStart
       /\ UNCHANGED <<activeState, alive, busy, tm>>
    \/ owner = "waitUdp" /\ owner' = "freeContext" /\ ~udp.isStart
       /\ UNCHANGED <<activeState, alive, busy, tm, udp>>
    \/ owner = "freeContext" /\ owner' = "done" /\ alive' = {}
       /\ UNCHANGED <<activeState, busy, tm, udp>>

LEMMA OwnerDoes ==
    ASSUME TypeOK, Owner
    PROVE  /\ OwnerStep
           /\ UNCHANGED <<isServer, tmThread, dtls, isSendDtls, srtp>>
           /\ udp' \in UdpRecord /\ tm' \in TimerRecord /\ state' \in BOOLEAN
           /\ lock' \in {"free", "owner"}
<1>1. udp \in UdpRecord /\ tm \in TimerRecord /\ state \in BOOLEAN
      /\ lock \in {"free", "owner"}
  BY Records DEF TypeOK
<1>2. UNCHANGED <<isServer, tmThread, dtls, isSendDtls, srtp>>
  BY DEF Owner, StartRtc, RemoveStream, Close, Deactivate, StopTimer, StopUdp, Wait, Free,
     timerVars, dtlsVars
<1>3. CASE StartRtc
  <2>1. udp' = [udp EXCEPT !.pc = "created"] /\ "created" \in UdpPc
    BY <1>3 DEF StartRtc, UdpPc
  <2>2. udp' \in UdpRecord /\ udp'.pc = "created" /\ udp'.isStart = udp.isStart
    BY <1>1, <2>1, Zenon DEF UdpRecord
  <2>3. /\ owner = "new" /\ owner' = "open"
        /\ UNCHANGED <<activeState, alive, busy, tm, lock, state>>
    BY <1>3 DEF StartRtc, timerVars
  <2>4. OwnerStep
    BY <2>2, <2>3 DEF OwnerStep
  <2> QED BY <1>1, <1>2, <2>2, <2>3, <2>4
<1>4. CASE StopTimer
  <2>1. (tm.isloop /\ ~tm.isStart) \in BOOLEAN
        /\ tm' = [tm EXCEPT !.isloop = tm.isloop /\ ~tm.isStart]
    BY <1>4 DEF StopTimer
  <2>2. tm' \in TimerRecord /\ tm'.isStart = tm.isStart
    BY <1>1, <2>1, TimerFields, ZenonT(60)
  <2> QED BY <1>1, <1>2, <1>4, <2>2 DEF StopTimer, OwnerStep
<1>5. CASE StopUdp
  <2>1. udp' = [udp EXCEPT !.isLoop = FALSE]
    BY <1>5 DEF StopUdp
  <2>2. udp' \in UdpRecord /\ udp'.pc = udp.pc /\ udp'.isStart = udp.isStart
    BY <1>1, <2>1, Zenon DEF UdpRecord
  <2> QED BY <1>1, <1>2, <1>5, <2>2 DEF StopUdp, OwnerStep, timerVars
<1>6. CASE RemoveStream \/ Close \/ Deactivate
  BY <1>1, <1>2, <1>6 DEF RemoveStream, Close, Deactivate, OwnerStep, timerVars
<1>7. CASE Wait
  BY <1>1, <1>2, <1>7 DEF Wait, OwnerStep, timerVars
<1>8. CASE Free
  BY <1>1, <1>2, <1>8 DEF Free, OwnerStep, timerVars
<1> QED BY <1>3, <1>4, <1>5, <1>6, <1>7, <1>8 DEF Owner

\* A thread of the timer.
TimerStep(i) ==
    \/ tmThread[i] = "created" /\ tmThread'[i] = "starting"
       /\ tm'.isStart /\ tm'.isloop = tm.isloop
    \/ tmThread[i] = "starting" /\ tmThread'[i] = "test"
       /\ tm'.isStart = tm.isStart /\ tm'.isloop
    \/ tmThread[i] \in {"test", "wait", "play", "push", "rtt"}
       /\ tmThread'[i] \in {"test", "wait", "play", "push", "rtt"}
       /\ (tmThread'[i] = "play" => tmThread[i] = "wait" /\ "play" \in alive)
       /\ (tmThread'[i] = "push" => "push" \in alive)
       /\ (tmThread'[i] = "rtt" => "play" \in alive)
       /\ tm' = tm
    \/ tmThread[i] = "test" /\ tmThread'[i] = "none" /\ ~tm.isloop
       /\ ~tm'.isStart /\ tm'.isloop = tm.isloop

LEMMA TimerDoes ==
    ASSUME TypeOK, NEW i \in Timer, TimerThread(i)
    PROVE  /\ UNCHANGED <<isServer, state, ownerVars, udp, dtlsVars>>
           /\ tm' \in TimerRecord /\ tmThread' \in [Timer -> TimerPc]
           /\ \A j \in Timer : j # i => tmThread'[j] = tmThread[j]
           /\ TimerStep(i)
<1>1. tm \in TimerRecord /\ tmThread \in [Timer -> TimerPc]
  BY Records DEF TypeOK
<1>2. UNCHANGED <<isServer, state, ownerVars, udp, dtlsVars>>
  BY DEF TimerThread
<1>3. ASSUME NEW from, NEW to \in TimerPc, TimerGoes(i, from, to)
      PROVE  /\ tmThread[i] = from /\ tmThread'[i] = to
             /\ tmThread' \in [Timer -> TimerPc]
             /\ \A j \in Timer : j # i => tmThread'[j] = tmThread[j]
  BY <1>1, <1>3
<1>4. CASE TimerGoes(i, "created", "starting") /\ tm' = [tm EXCEPT !.isStart = TRUE]
  <2>1. tm' \in TimerRecord /\ tm'.isStart /\ tm'.isloop = tm.isloop
    BY <1>1, <1>4, TimerFields, Zenon
  <2>2. "starting" \in TimerPc BY DEF TimerPc
  <2> QED BY <1>2, <1>3, <1>4, <2>1, <2>2 DEF TimerStep
<1>5. CASE TimerGoes(i, "starting", "test") /\ tm' = [tm EXCEPT !.isloop = TRUE]
  <2>1. tm' \in TimerRecord /\ tm'.isStart = tm.isStart /\ tm'.isloop
    BY <1>1, <1>5, TimerFields, Zenon
  <2>2. "test" \in TimerPc BY DEF TimerPc
  <2> QED BY <1>2, <1>3, <1>5, <2>1, <2>2 DEF TimerStep
<1>6. CASE TimerGoes(i, "test", "wait") /\ tm.isloop /\ UNCHANGED tm
  <2>1. "wait" \in TimerPc BY DEF TimerPc
  <2> QED BY <1>1, <1>2, <1>3, <1>6, <2>1 DEF TimerStep
<1>7. CASE (TimerGoes(i, "wait", "test") \/ DoTask(i)) /\ UNCHANGED tm
  <2>1. PICK from \in {"wait", "play", "push", "rtt"}, to \in {"test", "play", "push", "rtt"} :
            /\ TimerGoes(i, from, to)
            /\ to = "play" => from = "wait" /\ "play" \in alive
            /\ to = "push" => "push" \in alive
            /\ to = "rtt" => "play" \in alive
    BY <1>7 DEF DoTask
  <2>2. to \in TimerPc BY DEF TimerPc
  <2>3. /\ tmThread[i] = from /\ tmThread'[i] = to
        /\ tmThread' \in [Timer -> TimerPc]
        /\ \A j \in Timer : j # i => tmThread'[j] = tmThread[j]
    BY <1>3, <2>1, <2>2
  <2> QED BY <1>1, <1>2, <1>7, <2>1, <2>3 DEF TimerStep
<1>8. CASE TimerExit(i)
  <2>1. TimerGoes(i, "test", "none") /\ ~tm.isloop /\ tm' = [tm EXCEPT !.isStart = FALSE]
    BY <1>8 DEF TimerExit
  <2>2. tm' \in TimerRecord /\ ~tm'.isStart /\ tm'.isloop = tm.isloop
    BY <1>1, <2>1, TimerFields, Zenon
  <2>3. "none" \in TimerPc BY DEF TimerPc
  <2> QED BY <1>2, <1>3, <2>1, <2>2, <2>3 DEF TimerStep
<1> QED BY <1>4, <1>5, <1>6, <1>7, <1>8 DEF TimerThread

\* The UDP thread: its control state, and what it does to the handshake.
UdpStep ==
    /\ udp.pc \notin {"none", "gone"} /\ udp'.pc \notin {"none", "created"}
    /\ \/ udp'.pc \in {"closing", "gone"} \/ udp'.isStart
       \/ udp.pc # "created" /\ udp'.isStart = udp.isStart
    /\ udp.pc = "test" => udp'.pc \in {"recv", "closing"}
    /\ udp.pc = "closing" => udp'.pc = "gone"
    /\ udp.pc = "recv" => udp'.pc = "test" \/ activeState
    /\ udp'.pc = "play" => "play" \in alive
    /\ udp'.pc = "push" => "push" \in alive
    /\ \/ tmThread' = tmThread
       \/ udp.pc \in {"stunTimer", "after", "success"} /\ StartTimers

DtlsStep ==
    \/ /\ UNCHANGED <<dtls, isSendDtls, srtp>>
       /\ udp'.pc = "shake" => ~isServer /\ ~isSendDtls
       /\ udp'.pc = "sendCtx" => ~dtls.done
       /\ udp'.pc \notin {"locks", "done"}
    \/ /\ udp.pc = "recv" /\ udp'.pc = "ssl" /\ isServer /\ ~dtls.isStart
       /\ StartDtls /\ UNCHANGED <<isSendDtls, srtp>>
    \/ /\ udp.pc = "shake" /\ udp'.pc = "test"
       /\ StartDtls /\ isSendDtls' = TRUE /\ UNCHANGED srtp
    \/ /\ udp.pc = "ssl" /\ udp'.pc \in {"sendCtx", "alert", "after"}
       /\ udp'.pc = "sendCtx" => ~dtls.done
       /\ dtls'.pc = dtls.pc /\ dtls'.isStart = dtls.isStart /\ dtls'.done = dtls.done
       /\ UNCHANGED <<isSendDtls, srtp>>
    \/ /\ udp.pc = "sendCtx" /\ udp'.pc = "locks"
       /\ srtp' = "send" /\ UNCHANGED <<dtls, isSendDtls>>
    \/ /\ udp.pc = "locks" /\ udp'.pc = "done"
       /\ srtp' = "ready" /\ UNCHANGED <<dtls, isSendDtls>>
    \/ /\ udp.pc \in {"sendCtx", "locks"} /\ udp'.pc = "after"
       /\ srtp' = "none" /\ UNCHANGED <<dtls, isSendDtls>>
    \/ /\ udp.pc = "done" /\ udp'.pc = "after"
       /\ dtls'.pc = dtls.pc /\ dtls'.isStart = dtls.isStart
       /\ UNCHANGED <<isSendDtls, srtp>>

UdpTypes ==
    /\ udp' \in UdpRecord /\ dtls' \in DtlsRecord /\ tmThread' \in [Timer -> TimerPc]
    /\ state' \in BOOLEAN /\ isSendDtls' \in BOOLEAN
    /\ srtp' \in {"none", "send", "ready"}

\* What is needed of the types before a step.
LEMMA TypesBefore ==
    ASSUME TypeOK
    PROVE  /\ udp \in UdpRecord /\ dtls \in DtlsRecord /\ tmThread \in [Timer -> TimerPc]
           /\ state \in BOOLEAN /\ isSendDtls \in BOOLEAN /\ isServer \in BOOLEAN
           /\ srtp \in {"none", "send", "ready"}
           /\ dtls.over \in BOOLEAN /\ dtls.done \in BOOLEAN
BY DEF TypeOK, UdpRecord, DtlsRecord

\* A step from one control state to the next changes nothing else.
LEMMA UdpGoesOn ==
    ASSUME TypeOK, NEW from, NEW to \in UdpPc, UdpGoes(from, to)
    PROVE  udp.pc = from /\ udp'.pc = to /\ udp'.isStart = udp.isStart /\ udp' \in UdpRecord
BY TypesBefore, Zenon DEF UdpGoes, UdpRecord

LEMMA StartTimersTypes ==
    ASSUME TypeOK, StartTimers
    PROVE  tmThread' \in [Timer -> TimerPc]
<1>1. tmThread \in [Timer -> TimerPc] /\ "created" \in TimerPc
  BY TypesBefore DEF TimerPc
<1>2. CASE tmThread' = tmThread
  BY <1>1, <1>2
<1>3. ASSUME NEW i \in Timer, tmThread' = [tmThread EXCEPT ![i] = "created"]
      PROVE  tmThread' \in [Timer -> TimerPc]
  BY <1>1, <1>3
<1> QED BY <1>2, <1>3, StartsOne

LEMMA UdpLoopDoes ==
    ASSUME TypeOK, UdpLoop
    PROVE  UdpStep /\ DtlsStep /\ UdpTypes /\ UNCHANGED tm
<1>0. {"starting", "test", "stunTimer", "recv", "closing", "gone"} \subseteq UdpPc
  BY DEF UdpPc
<1>1. /\ UNCHANGED <<state, dtls, isSendDtls, srtp>> /\ UNCHANGED tm
  BY DEF UdpLoop, dtlsVars
<1>2. CASE udp.pc = "created" /\ udp' = [udp EXCEPT !.pc = "starting", !.isStart = TRUE]
           /\ UNCHANGED tmThread
  <2>1. udp' \in UdpRecord /\ udp'.pc = "starting" /\ udp'.isStart
    BY <1>2, <1>0, TypesBefore, Zenon DEF UdpRecord
  <2>2. udp.pc = "created" /\ tmThread' = tmThread
    BY <1>2
  <2> QED BY <1>1, <2>1, <2>2, TypesBefore DEF UdpStep, DtlsStep, UdpTypes
<1>3. CASE /\ udp.pc = "starting"
           /\ udp' = [udp EXCEPT !.pc = IF isServer THEN "test" ELSE "stunTimer",
                                 !.isLoop = TRUE]
           /\ UNCHANGED tmThread
  <2>1. PICK to \in {"test", "stunTimer"} : udp' = [udp EXCEPT !.pc = to, !.isLoop = TRUE]
    BY <1>3
  <2>2. udp' \in UdpRecord /\ udp'.pc = to /\ udp'.isStart = udp.isStart
    BY <2>1, <1>0, TypesBefore, Zenon DEF UdpRecord
  <2>3. udp.pc = "starting" /\ tmThread' = tmThread
    BY <1>3
  <2> QED BY <1>1, <2>2, <2>3, TypesBefore DEF UdpStep, DtlsStep, UdpTypes
<1>4. CASE UdpGoes("stunTimer", "test") /\ StartTimers
  <2>1. udp.pc = "stunTimer" /\ udp'.pc = "test" /\ udp'.isStart = udp.isStart
        /\ udp' \in UdpRecord
    BY <1>4, <1>0, UdpGoesOn
  <2>2. StartTimers /\ tmThread' \in [Timer -> TimerPc]
    BY <1>4, StartTimersTypes
  <2> QED BY <1>1, <2>1, <2>2, TypesBefore DEF UdpStep, DtlsStep, UdpTypes
<1>5. CASE UdpGoes("test", "recv") /\ UNCHANGED tmThread
  <2>1. udp.pc = "test" /\ udp'.pc = "recv" /\ udp'.isStart = udp.isStart
        /\ udp' \in UdpRecord
    BY <1>5, <1>0, UdpGoesOn
  <2> QED BY <1>1, <1>5, <2>1, TypesBefore DEF UdpStep, DtlsStep, UdpTypes
<1>6. CASE udp.pc = "test" /\ udp' = [udp EXCEPT !.pc = "closing", !.isStart = FALSE]
           /\ UNCHANGED tmThread
  <2>1. udp' \in UdpRecord /\ udp'.pc = "closing"
    BY <1>6, <1>0, TypesBefore, Zenon DEF UdpRecord
  <2>2. udp.pc = "test" /\ tmThread' = tmThread
    BY <1>6
  <2> QED BY <1>1, <2>1, <2>2, TypesBefore DEF UdpStep, DtlsStep, UdpTypes
<1>7. CASE UdpGoes("closing", "gone") /\ UNCHANGED tmThread
  <2>1. udp.pc = "closing" /\ udp'.pc = "gone" /\ udp' \in UdpRecord
    BY <1>7, <1>0, UdpGoesOn
  <2>2. tmThread' = tmThread
    BY <1>7
  <2> QED BY <1>1, <2>1, <2>2, TypesBefore DEF UdpStep, DtlsStep, UdpTypes
<1> QED BY <1>2, <1>3, <1>4, <1>5, <1>6, <1>7 DEF UdpLoop, UdpExit

LEMMA ReceiveDoes ==
    ASSUME TypeOK, NEW kind \in Datagram, Receive(kind)
    PROVE  UdpStep /\ DtlsStep /\ UdpTypes /\ UNCHANGED tm
<1> DEFINE play == IF "play" \in alive THEN "play" ELSE "test"
           push == IF "push" \in alive THEN "push" ELSE play
           stun == IF isSendDtls THEN "test" ELSE "shake"
<1>1. /\ {"test", "play", "push", "shake", "ssl", "success"} \subseteq UdpPc
      /\ UNCHANGED <<tm, tmThread, isSendDtls, srtp>>
  BY DEF UdpPc, Receive, timerVars
<1>2. ASSUME NEW to \in {"test", "play", "push", "shake", "success"}, UdpGoes("recv", to),
             to # "test" => activeState,
             to = "play" => "play" \in alive, to = "push" => "push" \in alive,
             to = "shake" => ~isServer /\ ~isSendDtls,
             UNCHANGED dtls, state' \in BOOLEAN
      PROVE  UdpStep /\ DtlsStep /\ UdpTypes /\ UNCHANGED tm
  <2>1. udp.pc = "recv" /\ udp'.pc = to /\ udp'.isStart = udp.isStart /\ udp' \in UdpRecord
    BY <1>1, <1>2, UdpGoesOn
  <2> QED BY <1>1, <1>2, <2>1, TypesBefore DEF UdpStep, DtlsStep, UdpTypes
<1>3. CASE ~Accepts /\ UdpGoes("recv", "test") /\ UNCHANGED <<state, dtls>>
  BY <1>2, <1>3, TypesBefore
<1>4. CASE Accepts /\ UdpGoes("recv", play) /\ UNCHANGED <<state, dtls>>
  BY <1>2, <1>4, TypesBefore DEF Accepts
<1>5. CASE Accepts /\ UdpGoes("recv", push) /\ UNCHANGED <<state, dtls>>
  BY <1>2, <1>5, TypesBefore DEF Accepts
<1>6. CASE Accepts /\ UdpGoes("recv", "test") /\ state' = TRUE /\ UNCHANGED dtls
  BY <1>2, <1>6, TypesBefore DEF Accepts
<1>7. CASE Accepts /\ ~isServer /\ UdpGoes("recv", stun) /\ UNCHANGED <<state, dtls>>
  BY <1>2, <1>7, TypesBefore DEF Accepts
<1>8. CASE /\ Accepts /\ UdpGoes("recv", "ssl") /\ UNCHANGED state
           /\ IF isServer /\ ~dtls.done /\ ~dtls.isStart THEN StartDtls ELSE UNCHANGED dtls
  <2>1. udp.pc = "recv" /\ udp'.pc = "ssl" /\ udp'.isStart = udp.isStart /\ udp' \in UdpRecord
    BY <1>1, <1>8, UdpGoesOn
  <2>2. UdpStep /\ activeState /\ UNCHANGED state
    BY <1>1, <1>8, <2>1 DEF UdpStep, Accepts
  <2>3. CASE isServer /\ ~dtls.isStart /\ StartDtls
    <3>1. dtls' \in DtlsRecord
      BY <2>3, StartDtlsFields, TypesBefore
    <3> QED BY <1>1, <2>1, <2>2, <2>3, <3>1, TypesBefore DEF DtlsStep, UdpTypes
  <2>4. CASE UNCHANGED dtls
    BY <1>1, <2>1, <2>2, <2>4, TypesBefore DEF DtlsStep, UdpTypes
  <2> QED BY <1>8, <2>3, <2>4
<1>9. CASE Accepts /\ UdpGoes("recv", "success") /\ UNCHANGED <<state, dtls>>
  BY <1>2, <1>9, TypesBefore DEF Accepts
<1> QED BY <1>3, <1>4, <1>5, <1>6, <1>7, <1>8, <1>9, Zenon DEF Receive

LEMMA HandleDoes ==
    ASSUME TypeOK, Handle
    PROVE  UdpStep /\ DtlsStep /\ UdpTypes /\ UNCHANGED tm
<1>1. /\ {"test", "play"} \subseteq UdpPc
      /\ UNCHANGED <<tm, tmThread, state, srtp>>
  BY DEF UdpPc, Handle, timerVars
<1>2. ASSUME NEW from \in {"push", "play"}, NEW to \in {"test", "play"}, UdpGoes(from, to),
             to = "play" => "play" \in alive, UNCHANGED <<dtls, isSendDtls>>
      PROVE  UdpStep /\ DtlsStep /\ UdpTypes
  <2>1. udp.pc = from /\ udp'.pc = to /\ udp'.isStart = udp.isStart /\ udp' \in UdpRecord
    BY <1>1, <1>2, UdpGoesOn
  <2> QED BY <1>1, <1>2, <2>1, TypesBefore DEF UdpStep, DtlsStep, UdpTypes
<1>3. CASE UdpGoes("shake", "test") /\ StartDtls /\ isSendDtls' = TRUE
  <2>1. udp.pc = "shake" /\ udp'.pc = "test" /\ udp'.isStart = udp.isStart
        /\ udp' \in UdpRecord
    BY <1>1, <1>3, UdpGoesOn
  <2>2. dtls' \in DtlsRecord
    BY <1>3, StartDtlsFields, TypesBefore
  <2> QED BY <1>1, <1>3, <2>1, <2>2, TypesBefore DEF UdpStep, DtlsStep, UdpTypes
<1> QED BY <1>1, <1>2, <1>3 DEF Handle

LEMMA ProcessDataDoes ==
    ASSUME TypeOK, ProcessData
    PROVE  UdpStep /\ DtlsStep /\ UdpTypes /\ UNCHANGED tm
<1>1. /\ {"alert", "after", "sendCtx", "locks", "done"} \subseteq UdpPc
      /\ UNCHANGED <<tm, tmThread, state, isSendDtls>>
  BY DEF UdpPc, ProcessData, timerVars
<1>2. CASE /\ udp.pc = "ssl" /\ UNCHANGED srtp
           /\ \E over \in BOOLEAN : dtls' = [dtls EXCEPT !.over = over]
           /\ \E to \in {"alert", "after", "sendCtx"} :
                /\ udp' = [udp EXCEPT !.pc = to]
                /\ to = "sendCtx" => ~dtls.done
  <2>1. PICK over \in BOOLEAN : dtls' = [dtls EXCEPT !.over = over]
    BY <1>2
  <2>2. PICK to \in {"alert", "after", "sendCtx"} :
            udp' = [udp EXCEPT !.pc = to] /\ (to = "sendCtx" => ~dtls.done)
    BY <1>2
  <2>3. /\ dtls' \in DtlsRecord /\ dtls'.pc = dtls.pc /\ dtls'.isStart = dtls.isStart
        /\ dtls'.done = dtls.done
    BY <2>1, TypesBefore, ZenonT(20) DEF DtlsRecord
  <2>4. udp'.pc = to /\ udp'.isStart = udp.isStart /\ udp' \in UdpRecord
    BY <1>1, <2>2, TypesBefore, ZenonT(20) DEF UdpRecord
  <2>5. udp.pc = "ssl" /\ UNCHANGED srtp /\ (to = "sendCtx" => ~dtls.done)
    BY <1>2, <2>2
  <2> QED BY <1>1, <2>3, <2>4, <2>5, TypesBefore DEF UdpStep, DtlsStep, UdpTypes
<1>3. CASE UNCHANGED <<dtls, srtp>> /\ UdpGoes("alert", AfterRead)
  <2>1. AfterRead \in {"after", "sendCtx"} /\ (AfterRead = "sendCtx" => ~dtls.done)
    BY DEF AfterRead
  <2>2. udp.pc = "alert" /\ udp'.pc = AfterRead /\ udp'.isStart = udp.isStart
        /\ udp' \in UdpRecord
    BY <1>1, <1>3, <2>1, UdpGoesOn
  <2> QED BY <1>1, <1>3, <2>1, <2>2, TypesBefore DEF UdpStep, DtlsStep, UdpTypes
<1>4. CASE UdpGoes("sendCtx", "locks") /\ srtp' = "send" /\ UNCHANGED dtls
  <2>1. udp.pc = "sendCtx" /\ udp'.pc = "locks" /\ udp'.isStart = udp.isStart
        /\ udp' \in UdpRecord
    BY <1>1, <1>4, UdpGoesOn
  <2> QED BY <1>1, <1>4, <2>1, TypesBefore DEF UdpStep, DtlsStep, UdpTypes
<1>5. CASE UdpGoes("locks", "done") /\ srtp' = "ready" /\ UNCHANGED dtls
  <2>1. udp.pc = "locks" /\ udp'.pc = "done" /\ udp'.isStart = udp.isStart
        /\ udp' \in UdpRecord
    BY <1>1, <1>5, UdpGoesOn
  <2> QED BY <1>1, <1>5, <2>1, TypesBefore DEF UdpStep, DtlsStep, UdpTypes
<1>6. CASE UdpGoes("done", "after") /\ dtls' = [dtls EXCEPT !.done = TRUE] /\ UNCHANGED srtp
  <2>1. udp.pc = "done" /\ udp'.pc = "after" /\ udp'.isStart = udp.isStart
        /\ udp' \in UdpRecord
    BY <1>1, <1>6, UdpGoesOn
  <2>2. dtls' \in DtlsRecord /\ dtls'.pc = dtls.pc /\ dtls'.isStart = dtls.isStart
    BY <1>6, TypesBefore, ZenonT(20) DEF DtlsRecord
  <2>3. UNCHANGED srtp
    BY <1>6
  <2> QED BY <1>1, <2>1, <2>2, <2>3, TypesBefore DEF UdpStep, DtlsStep, UdpTypes
<1>7. ASSUME NEW from \in {"sendCtx", "locks"},
             UdpGoes(from, "after"), srtp' = "none", UNCHANGED dtls
      PROVE  UdpStep /\ DtlsStep /\ UdpTypes /\ UNCHANGED tm
  <2>1. udp.pc = from /\ udp'.pc = "after" /\ udp'.isStart = udp.isStart
        /\ udp' \in UdpRecord
    BY <1>1, <1>7, UdpGoesOn
  <2> QED BY <1>1, <1>7, <2>1, TypesBefore DEF UdpStep, DtlsStep, UdpTypes
<1>8. CASE udp.pc = "ssl"
  <2>1. dtls.over \in BOOLEAN
    BY TypesBefore
  <2>2. AfterRead \in {"after", "sendCtx"} /\ (AfterRead = "sendCtx" => ~dtls.done)
    BY DEF AfterRead
  <2> HIDE DEF AfterRead
  <2>3. CASE /\ \E over \in {dtls.over, TRUE} : dtls' = [dtls EXCEPT !.over = over]
             /\ \E to \in {AfterRead} \cup IF isServer /\ dtls.over THEN {"alert"} ELSE {} :
                    udp' = [udp EXCEPT !.pc = to]
             /\ UNCHANGED srtp
    <3>1. \E over \in BOOLEAN : dtls' = [dtls EXCEPT !.over = over]
      BY <2>1, <2>3
    <3>2. \E to \in {"alert", "after", "sendCtx"} :
                udp' = [udp EXCEPT !.pc = to] /\ (to = "sendCtx" => ~dtls.done)
      BY <2>2, <2>3
    <3> QED BY <1>2, <1>8, <2>3, <3>1, <3>2
  <2> QED BY <1>3, <1>4, <1>5, <1>6, <1>7, <1>8, <2>3 DEF ProcessData, SetKeys
<1> QED BY <1>3, <1>4, <1>5, <1>6, <1>7, <1>8 DEF ProcessData, SetKeys

LEMMA ClientSuccessDoes ==
    ASSUME TypeOK, ClientSuccess
    PROVE  UdpStep /\ DtlsStep /\ UdpTypes /\ UNCHANGED tm
<1>1. /\ UNCHANGED <<tm, dtls, isSendDtls, srtp>> /\ StartTimers
      /\ udp.pc \in {"after", "success"}
      /\ udp' = [udp EXCEPT !.pc = "test"] /\ "test" \in UdpPc
  BY DEF ClientSuccess, dtlsVars, UdpPc
<1>2. state' \in BOOLEAN
  BY TypesBefore DEF ClientSuccess
<1>3. udp'.pc = "test" /\ udp'.isStart = udp.isStart /\ udp' \in UdpRecord
  BY <1>1, TypesBefore, ZenonT(20) DEF UdpRecord
<1>4. tmThread' \in [Timer -> TimerPc]
  BY <1>1, StartTimersTypes
<1>5. UNCHANGED <<tm, dtls, isSendDtls, srtp>> /\ StartTimers
      /\ udp.pc \in {"after", "success"}
  BY <1>1
<1> QED BY <1>2, <1>3, <1>4, <1>5, TypesBefore DEF UdpStep, DtlsStep, UdpTypes

LEMMA UdpDoes ==
    ASSUME TypeOK, UdpThread
    PROVE  UdpStep /\ DtlsStep /\ UdpTypes /\ UNCHANGED <<isServer, ownerVars, tm>>
<1>1. UNCHANGED <<isServer, ownerVars>>
  BY DEF UdpThread
<1>2. CASE UdpGoes("recv", "test") /\ UNCHANGED <<state, timerVars, dtlsVars>>
  <2>1. "test" \in UdpPc
    BY DEF UdpPc
  <2>2. udp.pc = "recv" /\ udp'.pc = "test" /\ udp'.isStart = udp.isStart
        /\ udp' \in UdpRecord
    BY <1>2, <2>1, UdpGoesOn
  <2>3. UNCHANGED <<state, tm, tmThread, dtls, isSendDtls, srtp>>
    BY <1>2 DEF timerVars, dtlsVars
  <2> QED BY <1>1, <2>2, <2>3, TypesBefore DEF UdpStep, DtlsStep, UdpTypes
<1> QED BY <1>1, <1>2, UdpLoopDoes, ReceiveDoes, HandleDoes, ProcessDataDoes,
           ClientSuccessDoes DEF UdpThread

\* The thread of the handshake.
LEMMA DtlsDoes ==
    ASSUME TypeOK, DtlsThread
    PROVE  /\ UNCHANGED <<isServer, state, ownerVars, udp, timerVars, isSendDtls, srtp>>
           /\ dtls' \in DtlsRecord /\ dtls'.done = dtls.done
           /\ dtls.pc \in {"created", "run"}
           /\ \/ dtls'.pc = "run" /\ (dtls'.isStart \/ dtls'.isStart = dtls.isStart)
              \/ dtls'.pc = "none"
<1>1. UNCHANGED <<isServer, state, ownerVars, udp, timerVars, isSendDtls, srtp>>
  BY DEF DtlsThread
<1>2. CASE dtls.pc = "created" /\ dtls' = [dtls EXCEPT !.pc = "run", !.isStart = TRUE]
  <2>1. dtls' \in DtlsRecord /\ dtls'.done = dtls.done /\ dtls'.pc = "run" /\ dtls'.isStart
    BY <1>2, TypesBefore, ZenonT(20) DEF DtlsRecord
  <2> QED BY <1>1, <1>2, <2>1
<1>3. ASSUME dtls.pc = "run", dtls.arq_count # Retries, NEW over \in BOOLEAN,
             dtls' = [dtls EXCEPT !.over = over, !.arq_count = @ + 1]
      PROVE  /\ dtls' \in DtlsRecord /\ dtls'.done = dtls.done
             /\ dtls'.pc = dtls.pc /\ dtls'.isStart = dtls.isStart
  <2>1. dtls.arq_count + 1 \in 0 .. Retries
    BY <1>3, SessionLifeAssumption, TypesBefore DEF DtlsRecord
  <2> QED BY <1>3, <2>1, TypesBefore, ZenonT(20) DEF DtlsRecord
<1>4. CASE dtls.pc = "run"
           /\ dtls' = [dtls EXCEPT !.pc = "none", !.isStart = FALSE, !.arq_count = 0]
  <2>1. 0 \in 0 .. Retries
    BY SessionLifeAssumption
  <2>2. dtls' \in DtlsRecord /\ dtls'.done = dtls.done /\ dtls'.pc = "none"
    BY <1>4, <2>1, TypesBefore, ZenonT(20) DEF DtlsRecord
  <2> QED BY <1>1, <1>4, <2>2
<1> QED BY <1>1, <1>2, <1>3, <1>4 DEF DtlsThread, GivesUp
-----------------------------------------------------------------------------
(* The invariant is kept.                                                  *)

\* A step is one of the four threads', or none.
LEMMA Steps ==
    ASSUME [Next]_vars
    PROVE  \/ Owner \/ (\E i \in Timer : TimerThread(i)) \/ DtlsThread \/ UdpThread
           \/ UNCHANGED <<isServer, state, owner, lock, activeState, alive, busy, udp,
                          tm, tmThread, dtls, isSendDtls, srtp>>
BY DEF Next, vars, ownerVars, timerVars, dtlsVars

LEMMA TypeKept == TypeOK /\ [Next]_vars => TypeOK'
<1> SUFFICES ASSUME TypeOK, [Next]_vars PROVE TypeOK'
  OBVIOUS
<1>1. CASE Owner
  <2>1. owner' \in OwnerPc
    BY <1>1, OwnerDoes DEF OwnerStep, OwnerPc
  <2>2. alive' \subseteq Object /\ busy' \subseteq {"udp", "timer", "dtls"}
        /\ activeState' \in BOOLEAN
    BY <1>1, OwnerDoes DEF OwnerStep, TypeOK, Busy
  <2> QED BY <1>1, <2>1, <2>2, OwnerDoes DEF TypeOK, UdpRecord, TimerRecord
<1>2. ASSUME NEW i \in Timer, TimerThread(i) PROVE TypeOK'
  BY <1>2, TimerDoes DEF TypeOK, TimerRecord, ownerVars, dtlsVars
<1>3. CASE DtlsThread
  BY <1>3, DtlsDoes DEF TypeOK, DtlsRecord, ownerVars, timerVars
<1>4. CASE UdpThread
  BY <1>4, UdpDoes DEF TypeOK, UdpTypes, UdpRecord, DtlsRecord, ownerVars
<1>5. CASE UNCHANGED <<isServer, state, owner, lock, activeState, alive, busy, udp,
                       tm, tmThread, dtls, isSendDtls, srtp>>
  BY <1>5 DEF TypeOK
<1> QED BY <1>1, <1>2, <1>3, <1>4, <1>5, Steps

LEMMA OwnerKept == IInv /\ [Next]_vars => OwnerInv'
<1> SUFFICES ASSUME IInv, [Next]_vars PROVE OwnerInv'
  OBVIOUS
<1> USE DEF Before
<1>1. TypeOK /\ OwnerInv
  BY DEF IInv
<1>2. CASE Owner
  <2>1. OwnerStep
    BY <1>1, <1>2, OwnerDoes
  <2>2. CASE owner \in {"new", "open", "close", "deactivate", "stopTimer", "waitTimer",
                       "stopUdp", "waitUdp", "freeContext"}
    BY <1>1, <2>1, <2>2 DEF OwnerStep, OwnerInv
  <2>3. CASE owner \in {"freeTimer", "freePush", "freePlay"}
    BY <1>1, <2>1, <2>3 DEF OwnerStep, OwnerInv, Object
  <2> QED BY <1>1, <2>1, <2>2, <2>3 DEF OwnerStep
<1>3. CASE UNCHANGED <<owner, alive, activeState>>
  BY <1>1, <1>3 DEF OwnerInv
<1> QED BY <1>1, <1>2, <1>3, Steps, TimerDoes, DtlsDoes, UdpDoes DEF ownerVars

LEMMA UdpKept == IInv /\ [Next]_vars => UdpInv'
<1> SUFFICES ASSUME IInv, [Next]_vars PROVE UdpInv'
  OBVIOUS
<1> USE DEF Before, UdpQuiet
<1>1. TypeOK /\ OwnerInv /\ UdpInv
  BY DEF IInv
<1>2. CASE Owner
  <2>1. OwnerStep
    BY <1>1, <1>2, OwnerDoes
  <2>2. CASE owner = "deactivate"
    <3>1. owner' = "stopTimer" /\ busy' = Busy /\ UNCHANGED udp
      BY <2>1, <2>2 DEF OwnerStep
    <3>2. ASSUME busy' \cap {"udp"} = {} PROVE udp.pc \in {"test", "recv"}
      BY <3>1, <3>2 DEF Busy
    <3> QED BY <1>1, <2>2, <3>1, <3>2 DEF UdpInv
  <2>3. CASE owner # "deactivate"
    BY <1>1, <2>1, <2>3 DEF OwnerStep, UdpInv
  <2> QED BY <2>2, <2>3
<1>3. CASE UdpThread
  <2>1. UdpStep /\ UNCHANGED <<owner, busy>>
    BY <1>1, <1>3, UdpDoes DEF ownerVars
  <2> QED BY <1>1, <2>1 DEF UdpStep, UdpInv, OwnerInv
<1>4. CASE UNCHANGED <<owner, busy, udp>>
  BY <1>1, <1>4 DEF UdpInv
<1> QED BY <1>1, <1>2, <1>3, <1>4, Steps, TimerDoes, DtlsDoes DEF ownerVars

LEMMA TimerKept == IInv /\ [Next]_vars => TimerInv'
<1> SUFFICES ASSUME IInv, [Next]_vars PROVE TimerInv'
  OBVIOUS
<1> USE DEF Before
<1>1. TypeOK /\ TimerInv /\ UdpInv
  BY DEF IInv
<1>2. CASE Owner
  <2>1. OwnerStep /\ tmThread' = tmThread
    BY <1>1, <1>2, OwnerDoes
  <2>2. CASE owner = "deactivate"
    <3>1. owner' = "stopTimer" /\ busy' = Busy /\ UNCHANGED tm
      BY <2>1, <2>2 DEF OwnerStep
    <3>2. CASE "timer" \in Busy
      BY <2>1, <3>1, <3>2 DEF TimerInv, TimerQuiet
    <3>3. CASE "timer" \notin Busy
      <4>1. \A i \in Timer : tmThread[i] \notin {"created", "starting"}
        BY <3>3, Zenon DEF Busy
      <4>2. \A i, j \in Timer : tmThread[i] # "none" /\ tmThread[j] # "none" => i = j
        BY <3>3, OneThread
      <4>3. \A i \in Timer : tmThread[i] # "none" => tm.isStart
        BY <1>1, <2>2, <4>1 DEF TimerInv
      <4> QED BY <2>1, <3>1, <4>1, <4>2, <4>3 DEF TimerInv
    <3> QED BY <3>2, <3>3
  <2>3. CASE owner # "deactivate"
    BY <1>1, <2>1, <2>3 DEF OwnerStep, TimerInv, TimerQuiet
  <2> QED BY <2>2, <2>3
<1>3. ASSUME NEW i \in Timer, TimerThread(i) PROVE TimerInv'
  <2>1. /\ TimerStep(i) /\ UNCHANGED <<owner, busy>>
        /\ \A j \in Timer : j # i => tmThread'[j] = tmThread[j]
    BY <1>1, <1>3, TimerDoes DEF ownerVars
  <2> QED BY <1>1, <2>1 DEF TimerStep, TimerInv, TimerQuiet
<1>4. CASE UdpThread
  <2>1. UdpStep /\ UNCHANGED <<owner, busy, tm>>
    BY <1>1, <1>4, UdpDoes DEF ownerVars
  <2>2. CASE tmThread' = tmThread
    BY <1>1, <2>1, <2>2 DEF TimerInv, TimerQuiet
  <2>3. CASE tmThread' # tmThread
    <3>1. udp.pc \in {"stunTimer", "after", "success"} /\ StartTimers
      BY <2>1, <2>3 DEF UdpStep
    <3>2. ~TimerQuiet'
      BY <1>1, <2>1, <3>1 DEF UdpInv, UdpQuiet, TimerQuiet
    <3>3. PICK i \in Timer : tmThread' = [tmThread EXCEPT ![i] = "created"]
      BY <2>3, <3>1, StartsOne
    <3>4. /\ tmThread'[i] = "created"
          /\ \A j \in Timer : j # i => tmThread'[j] = tmThread[j]
      BY <1>1, <3>3 DEF TypeOK
    <3> QED BY <1>1, <2>1, <3>2, <3>4 DEF TimerInv
  <2> QED BY <2>2, <2>3
<1>5. CASE UNCHANGED <<owner, busy, tm, tmThread>>
  BY <1>1, <1>5 DEF TimerInv, TimerQuiet
<1> QED BY <1>1, <1>2, <1>3, <1>4, <1>5, Steps, DtlsDoes DEF ownerVars, timerVars

LEMMA DtlsKept == IInv /\ [Next]_vars => DtlsInv'
<1> SUFFICES ASSUME IInv, [Next]_vars PROVE DtlsInv'
  OBVIOUS
<1> USE DEF Before
<1>1. TypeOK /\ DtlsInv /\ UdpInv /\ OwnerInv
  BY DEF IInv
<1>2. CASE Owner
  <2>1. OwnerStep /\ UNCHANGED <<isServer, dtls, isSendDtls>>
    BY <1>1, <1>2, OwnerDoes
  <2>2. udp'.pc = "shake" => udp.pc = "shake"
    BY <2>1 DEF OwnerStep
  <2>3. CASE owner = "deactivate"
    <3>1. busy' = Busy
      BY <2>1, <2>3 DEF OwnerStep
    <3>2. "dtls" \notin Busy => dtls.pc = "none"
      BY DEF Busy
    <3> QED BY <1>1, <2>1, <2>2, <3>1, <3>2 DEF DtlsInv, DtlsQuiet
  <2>4. CASE owner # "deactivate"
    <3>1. DtlsQuiet' => DtlsQuiet
      BY <2>1, <2>4 DEF OwnerStep, DtlsQuiet
    <3> QED BY <1>1, <2>1, <2>2, <3>1 DEF DtlsInv
  <2> QED BY <2>3, <2>4
<1>3. CASE DtlsThread
  <2>1. /\ UNCHANGED <<isServer, udp, isSendDtls, owner, busy>> /\ dtls.pc # "none"
        /\ \/ dtls'.pc = "run" /\ (dtls'.isStart \/ dtls'.isStart = dtls.isStart)
           \/ dtls'.pc = "none"
    BY <1>1, <1>3, DtlsDoes DEF ownerVars
  <2> QED BY <1>1, <2>1 DEF DtlsInv, DtlsQuiet
<1>4. CASE UdpThread
  <2>1. UdpStep /\ DtlsStep /\ UNCHANGED <<isServer, owner, busy>>
    BY <1>1, <1>4, UdpDoes DEF ownerVars
  <2>2. StartDtls => /\ dtls'.isStart
                     /\ dtls'.pc = IF dtls.pc = "none" THEN "created" ELSE "two"
    BY <1>1, StartDtlsFields, TypesBefore
  <2>3. DtlsQuiet' =>
            DtlsQuiet /\ udp.pc \in {"test", "recv", "closing", "gone"} /\ ~activeState
    BY <1>1, <2>1 DEF DtlsQuiet, UdpQuiet, UdpInv, OwnerInv
  <2> HIDE DEF StartDtls
  <2> QED BY <1>1, <2>1, <2>2, <2>3 DEF UdpStep, DtlsStep, DtlsInv
<1>5. CASE UNCHANGED <<isServer, udp, dtls, isSendDtls, owner, busy>>
  BY <1>1, <1>5 DEF DtlsInv, DtlsQuiet
<1> QED BY <1>1, <1>2, <1>3, <1>4, <1>5, Steps, TimerDoes DEF ownerVars, dtlsVars

LEMMA KeysKept == IInv /\ [Next]_vars => KeysInv'
<1> SUFFICES ASSUME IInv, [Next]_vars PROVE KeysInv'
  OBVIOUS
<1>1. TypeOK /\ KeysInv
  BY DEF IInv
<1>2. CASE Owner
  <2>1. OwnerStep /\ UNCHANGED <<dtls, srtp>>
    BY <1>1, <1>2, OwnerDoes
  <2>2. udp'.pc \in {"sendCtx", "locks", "done"} => udp'.pc = udp.pc
    BY <2>1 DEF OwnerStep
  <2> QED BY <1>1, <2>1, <2>2 DEF KeysInv
<1>3. CASE DtlsThread
  <2>1. UNCHANGED <<udp, srtp>> /\ dtls'.done = dtls.done
    BY <1>1, <1>3, DtlsDoes
  <2> QED BY <1>1, <2>1 DEF KeysInv
<1>4. CASE UdpThread
  <2>1. DtlsStep
    BY <1>1, <1>4, UdpDoes
  <2>2. StartDtls => dtls'.done = dtls.done
    BY <1>1, StartDtlsFields, TypesBefore
  <2> HIDE DEF StartDtls
  <2> QED BY <1>1, <2>1, <2>2 DEF DtlsStep, KeysInv
<1>5. CASE UNCHANGED <<udp, dtls, srtp>>
  BY <1>1, <1>5 DEF KeysInv
<1> QED BY <1>1, <1>2, <1>3, <1>4, <1>5, Steps, TimerDoes DEF dtlsVars
-----------------------------------------------------------------------------
(* Theorems.                                                               *)

LEMMA InvariantInit == Init => IInv
<1> SUFFICES ASSUME Init PROVE IInv
  OBVIOUS
<1>1. TypeOK
  <2>1. dtls \in DtlsRecord
    BY SessionLifeAssumption DEF Init, DtlsRecord
  <2>2. udp \in UdpRecord /\ tm \in TimerRecord
    BY DEF Init, UdpRecord, TimerRecord, UdpPc
  <2>3. tmThread \in [Timer -> TimerPc]
    BY DEF Init, TimerPc
  <2> QED BY <2>1, <2>2, <2>3
          DEF Init, TypeOK, OwnerPc, Object, DtlsRecord, UdpRecord, TimerRecord
<1>2. OwnerInv /\ UdpInv /\ DtlsInv /\ KeysInv
  BY DEF Init, OwnerInv, UdpInv, DtlsInv, KeysInv, Before, UdpQuiet, DtlsQuiet
<1>3. TimerInv
  BY DEF Init, TimerInv, Before, TimerQuiet
<1> QED BY <1>1, <1>2, <1>3 DEF IInv

\* The inductive invariant holds in every reachable state: what the order of the
\* stops in yang_destroy_rtcConnection and the flags of the threads keep.
THEOREM InvariantHolds == Spec => []IInv
<1>1. IInv /\ [Next]_vars => IInv'
  BY TypeKept, OwnerKept, UdpKept, TimerKept, DtlsKept, KeysKept DEF IInv
<1> QED BY InvariantInit, <1>1, PTL DEF Spec

\* The flags, control states and objects keep their ranges, and the handshake is
\* tried no more than arq_max_retry times, whatever that number is.
THEOREM TypeCorrect == Spec => []TypeOK
<1>1. IInv => TypeOK
  BY DEF IInv
<1> QED BY InvariantHolds, <1>1, PTL

\* Nothing is freed under a thread unless, when yang_destroy_rtcConnection began,
\* a thread was starting, a second timer thread had been started, a datagram was
\* in hand or the handshake was being retried; and, apart from these, nothing but
\* the socket of udp, which yang_run_rtcudp_thread closes after it has cleared the
\* isStart that the owner waits for.
THEOREM NothingFreedInUse == Spec => []FreedUnused
<1>1. ASSUME IInv PROVE FreedUnused
  <2>1. SUFFICES ASSUME NEW o \in InUse, busy \cap Blame[o] = {},
                        ~(o = "udp" /\ udp.pc = "closing")
                 PROVE  o \in alive
    BY DEF FreedUnused
  <2>2. TypeOK /\ OwnerInv /\ UdpInv /\ TimerInv /\ DtlsInv
    BY <1>1 DEF IInv
  <2>3. CASE Before
    BY <2>2, <2>3 DEF OwnerInv, InUse
  <2>4. CASE ~Before /\ o # "ssl"
    <3>1. TimerQuiet /\ UdpQuiet
      BY <2>1, <2>4 DEF InUse, Blame, Object, TimerQuiet, UdpQuiet
    <3>2. CASE owner \in {"stopTimer", "waitTimer"}
      BY <2>2, <3>2 DEF OwnerInv, InUse
    <3>3. CASE owner \notin {"stopTimer", "waitTimer"}
      <4>1. \A i \in Timer : tmThread[i] = "none"
        BY <2>2, <3>1, <3>3 DEF TimerInv
      <4>2. udp.pc \in {"test", "recv", "closing", "gone"}
        BY <2>2, <3>1 DEF UdpInv
      <4>3. o = "udp" /\ udp.pc \in {"test", "recv"}
        BY <2>1, <2>4, <4>1, <4>2 DEF InUse
      <4>4. owner \in {"freeTimer", "freePush", "freePlay", "stopUdp", "waitUdp"}
        BY <2>2, <2>4, <3>1, <3>3, <4>3 DEF UdpInv, TypeOK, OwnerPc, Before
      <4> QED BY <2>2, <4>3, <4>4 DEF OwnerInv, Object
    <3> QED BY <3>2, <3>3
  <2>5. CASE ~Before /\ o = "ssl"
    <3>1. DtlsQuiet /\ UdpQuiet
      BY <2>1, <2>5 DEF InUse, Blame, DtlsQuiet, UdpQuiet
    <3>2. dtls.pc = "none" /\ udp.pc \in {"test", "recv", "closing", "gone"}
      BY <2>2, <3>1 DEF DtlsInv, UdpInv
    <3> QED BY <2>5, <3>2 DEF InUse
  <2> QED BY <2>3, <2>4, <2>5
<1> QED BY InvariantHolds, <1>1, PTL

\* When nothing of that kind was under way, no thread outlives the session, but
\* for the UDP thread between clearing isStart and closing its socket.
THEOREM NoneSurvives == Spec => []NothingSurvives
<1>1. ASSUME IInv PROVE NothingSurvives
  <2>1. SUFFICES ASSUME owner = "done", busy = {}
                 PROVE  InUse = IF udp.pc = "closing" THEN {"udp"} ELSE {}
    BY DEF NothingSurvives
  <2>2. TimerQuiet /\ UdpQuiet /\ DtlsQuiet
    BY <2>1 DEF TimerQuiet, UdpQuiet, DtlsQuiet, Before
  <2>3. /\ udp.pc \in {"closing", "gone"} /\ dtls.pc = "none"
        /\ \A i \in Timer : tmThread[i] = "none"
    BY <1>1, <2>1, <2>2 DEF IInv, UdpInv, DtlsInv, TimerInv
  <2>4. CASE udp.pc = "gone"
    BY <2>3, <2>4 DEF InUse
  <2>5. CASE udp.pc = "closing"
    BY <2>3, <2>5 DEF InUse, Object
  <2> QED BY <2>3, <2>4, <2>5
<1> QED BY InvariantHolds, <1>1, PTL

\* The handshake is retried by one thread at a time: yang_start_rtcdtls sets
\* isStart itself and yang_rtcconn_receive asks for it, or for isSendDtls.
THEOREM OneShakes == Spec => []OneHandshakeThread
<1>1. IInv => OneHandshakeThread
  BY DEF IInv, DtlsInv, OneHandshakeThread
<1> QED BY InvariantHolds, <1>1, PTL

\* The state that on_video and on_audio ask for is set after the keys and their
\* mutexes, in every order of the threads.
THEOREM KeysFirst == Spec => []KeysBeforeMedia
<1>1. IInv => KeysBeforeMedia
  BY DEF IInv, KeysInv, KeysBeforeMedia
<1> QED BY InvariantHolds, <1>1, PTL
=============================================================================
