--------------------------- MODULE TurnShareProofs --------------------------
(***************************************************************************)
(* What module TurnShare checks with two sessions and two channels, proved *)
(* for any finite set of sessions, any number of channels and connections: *)
(* the ranges, that the count keeps the shared connection until a race or  *)
(* closeTurn tears it, that no peer is forgotten or Ready without its      *)
(* channel, that a stop is heard, and, until a race for channelNum or the  *)
(* wrap of the numbers, that no data reaches the wrong session.            *)
(***************************************************************************)
EXTENDS TurnShare, FiniteSetTheorems, SequenceTheorems, WellFoundedInduction, TLAPS

\* The sessions that the count stands for, that are about to make a connection,
\* and that have a number for their peer and have not put it on the list.
Counted == {s \in Session : Holds(s) /\ sess[s].pc \notin {"last", "destroy"}}
Making == {s \in Session : sess[s].pc = "make"}
Inserting == {s \in Session : Holds(s) /\ sess[s].pc = "insert"}

Without == {"new", "make", "gone"} \cup Getting
Publishing == {"remove", "uncount", "uncounted", "last", "destroy"}

\* The inductive invariant.  A session's pointer goes with its control state, and
\* the global one is that of the newest connection.
ConnInv ==
    /\ \A s \in Session : sess[s].pc \in Without => sess[s].turnconn = 0
    /\ \A s \in Session : sess[s].pc \notin Without \cup {"other"} => sess[s].turnconn # 0
    /\ turn.id # 0 => turn.id = conns
    /\ turn.id = 0 => turn = Connection(0, FALSE)

MakeInv == conns + Cardinality(Making) <= MaxConns

\* One session at a time is destroyed, and a count loaded for it counts it.
PublishInv ==
    /\ \A s, o \in Session :
          sess[s].pc \in Publishing /\ sess[o].pc \in Publishing => s = o
    /\ \A s \in Session : sess[s].pc = "uncounted" => sess[s].loaded >= 1

\* Until it is torn, all have the global connection, the count is the number of
\* those it stands for, and who destroys it is alone with it.
Intact ==
    /\ \A s \in Session : sess[s].turnconn \in {0, turn.id}
    /\ turn.id # 0 => \E s \in Session : Holds(s) \/ sess[s].pc \in Getting
    /\ count = Cardinality(Counted)
    /\ \A s, o \in Session :
          sess[s].pc \in {"closeTurn", "destroy"} /\ o # s =>
              sess[o].turnconn = 0 /\ sess[o].pc \notin Getting

\* One session creates it, before anyone has used it.
Fresh ==
    /\ \A s \in Session : sess[s].pc \in Getting => turn.id # 0
    /\ \A s \in Session : sess[s].pc = "create" =>
          ~turn.made /\ \A o \in Session : sess[o].pc = "create" => o = s
    /\ turn.id # 0 /\ ~turn.made =>
          /\ turn = Connection(turn.id, FALSE) /\ server.answers = {} /\ server.bound = {}
          /\ \A s \in Session : Holds(s) => sess[s].pc = "start"

HoldInv == ~torn => Intact /\ Fresh

\* Who waits for the thread has stopped it, and unless a thread was starting, or is
\* started over the stop, it is one that finds isLoop cleared.
HeardInv ==
    /\ turn.isStart => turn.thread \in {"starting", "run"}
    /\ \A s \in Session : Holds(s) /\ Stopping(s) =>
          turn.stopped /\ (turn.lost \/ (turn.thread \in {"none", "run"} /\ ~turn.isLoop))

\* Every peer on the list, and every session about to insert one, has its number;
\* answers to the peers' requests come after the first of them, and peers only go
\* with a removal, which leaves turnLock taken.
PeersInv ==
    /\ Len(turn.peers) + Cardinality(Inserting) <= turn.added
    /\ turn.id # 0 /\ ~turn.turnLock /\ turn.peers = <<>> =>
          server.answers \cap {"permission", "bound"} = {}

\* Until the first stop nobody adds a peer before the allocation is there.
StateInv ==
    ~turn.stopped =>
        /\ turn.state # Close
        /\ turn.state < Permission => turn.peers = <<>>
        /\ turn.state < Permission =>
              \A s \in Session : Holds(s) => sess[s].pc \notin {"offered", "add", "insert"} \cup Adding

\* The peers do not run ahead of the connection.
OrderInv ==
    ~turn.stopped /\ ~turn.back /\ ~turn.turnLock =>
        /\ turn.state = Permission => \A p \in ToSet(turn.peers) : p.state = Permission
        /\ turn.state = BindChannel => \E p \in ToSet(turn.peers) : p.state = BindChannel

\* The answer to the binding of an only peer comes when its channel is bound.
BoundInv ==
    turn.added = 1 /\ ~turn.stopped =>
        \A p \in ToSet(turn.peers) :
            p.state = Ready \/ "bound" \in server.answers =>
                <<p.channelNumber, p.uid>> \in server.bound

\* Without a race the number a session takes is in the range, and it is the one
\* that is counted up.
TakenInv ==
    ~turn.clash =>
        \A s \in Session :
            /\ Holds(s) /\ sess[s].pc \in {"insert"} \cup Adding => sess[s].channel <= MaxChannel
            /\ Holds(s) /\ sess[s].pc = "numbered" => sess[s].loaded = sess[s].channel

\* As long as there is a number for everyone, the next one is how many were given:
\* every peer gets a number that no other has or had, and what is bound at the
\* server is bound for it.
ChannelInv ==
    turn.id # 0 /\ Distinct =>
        /\ ~turn.turnLock =>
              /\ turn.added <= MaxChannel => turn.channelNum = turn.added
              /\ \A b \in server.bound : b[1] < turn.added
              /\ \A p \in ToSet(turn.peers) : p.channelNumber < turn.added
              /\ \A s \in Inserting :
                    /\ sess[s].channel < turn.added
                    /\ \A b \in server.bound : b[1] # sess[s].channel
                    /\ \A p \in ToSet(turn.peers) : p.channelNumber # sess[s].channel
                    /\ \A o \in Inserting : o # s => sess[o].channel # sess[s].channel
        /\ \A i, j \in DOMAIN turn.peers :
              i # j => turn.peers[i].channelNumber # turn.peers[j].channelNumber
        /\ \A b \in server.bound : \A p \in ToSet(turn.peers) :
              p.channelNumber = b[1] => p.uid = b[2]

IInv ==
    /\ TypeOK /\ ConnInv /\ MakeInv /\ PublishInv /\ HoldInv /\ HeardInv
    /\ PeersInv /\ StateInv /\ OrderInv /\ BoundInv /\ TakenInv /\ ChannelInv
-----------------------------------------------------------------------------
(* The records, and what the assignments to some of their fields leave.    *)

States == New .. Close
Threads == {"none", "created", "starting", "run"}
Permissions == 0 .. 2
PeerStates == {Permission, BindChannel, Ready}

SessRecord(ids) == [pc : SessPc, turnconn : ids, channel : Nat, loaded : Nat]
PeerRecord == [uid : Session, channelNumber : Nat, state : PeerStates, timed : BOOLEAN]
ServerRecord == [answers : SUBSET Answers, allocated : BOOLEAN, bound : SUBSET (Nat \X Session)]
TurnRecord(ids) ==
    [id : ids, made : BOOLEAN, state : States, thread : Threads, isStart : BOOLEAN,
     isLoop : BOOLEAN, turnLock : BOOLEAN, channelNum : Nat, permissionCount : Permissions,
     peers : Seq(PeerRecord), added : Nat, clash : BOOLEAN, stopped : BOOLEAN, lost : BOOLEAN,
     back : BOOLEAN]

\* The parts of TypeOK.
Typed ==
    /\ sess \in [Session -> SessRecord(0 .. conns)] /\ turn \in TurnRecord(0 .. conns)
    /\ count \in Nat /\ conns \in 0 .. MaxConns
    /\ server \in ServerRecord /\ torn \in BOOLEAN

Numbered ==
    turn.clash \/ /\ turn.channelNum <= MaxChannel + 1
                  /\ \A p \in ToSet(turn.peers) : p.channelNumber <= MaxChannel

LEMMA TypeIs == TypeOK <=> Typed /\ Numbered
BY DEF TypeOK, Typed, Numbered, SessRecord, TurnRecord, ServerRecord, PeerRecord, Peer, States,
       Threads, Permissions, PeerStates

\* The fields of a connection and of a session.
LEMMA TurnFields ==
    ASSUME NEW ids, NEW t \in TurnRecord(ids)
    PROVE  /\ t.id \in ids /\ t.made \in BOOLEAN /\ t.state \in States /\ t.thread \in Threads
           /\ t.isStart \in BOOLEAN /\ t.isLoop \in BOOLEAN /\ t.turnLock \in BOOLEAN
           /\ t.channelNum \in Nat /\ t.permissionCount \in Permissions
           /\ t.peers \in Seq(PeerRecord) /\ t.added \in Nat /\ t.clash \in BOOLEAN
           /\ t.stopped \in BOOLEAN /\ t.lost \in BOOLEAN /\ t.back \in BOOLEAN
BY ZenonT(30) DEF TurnRecord

LEMMA SessFields ==
    ASSUME Typed, NEW s \in Session
    PROVE  /\ sess[s] \in SessRecord(0 .. conns)
           /\ sess[s].pc \in SessPc /\ sess[s].turnconn \in 0 .. conns
           /\ sess[s].channel \in Nat /\ sess[s].loaded \in Nat
<1>1. sess[s] \in SessRecord(0 .. conns)
  BY DEF Typed
<1> QED BY <1>1, ZenonT(30) DEF SessRecord

LEMMA Idents ==
    ASSUME Typed
    PROVE  /\ conns \in Nat /\ count \in Nat /\ turn.id \in 0 .. conns
           /\ turn \in TurnRecord(0 .. conns) /\ server \in ServerRecord
           /\ \A s \in Session :
                /\ sess[s].turnconn \in 0 .. conns /\ sess[s].pc \in SessPc
                /\ sess[s].channel \in Nat /\ sess[s].loaded \in Nat
<1>1. turn \in TurnRecord(0 .. conns)
  BY DEF Typed
<1> QED BY <1>1, TurnFields, SessFields, TurnShareAssumption DEF Typed

\* The parts of a connection that different steps change.
Same(x, t) == x.id = t.id /\ x.made = t.made /\ x.turnLock = t.turnLock
SameNumbers(x, t) == x.channelNum = t.channelNum /\ x.added = t.added /\ x.clash = t.clash
SameState(x, t) == x.state = t.state /\ x.stopped = t.stopped /\ x.back = t.back
SameThread(x, t) ==
    x.thread = t.thread /\ x.isStart = t.isStart /\ x.isLoop = t.isLoop /\ x.lost = t.lost

LEMMA StartIs ==
    ASSUME NEW ids, NEW t \in TurnRecord(ids)
    PROVE  LET x == Start(t)
           IN  /\ x \in TurnRecord(ids) /\ Same(x, t) /\ SameNumbers(x, t) /\ SameState(x, t)
               /\ x.peers = t.peers /\ x.isStart = t.isStart /\ x.isLoop = t.isLoop
               /\ \/ x.thread = t.thread /\ x.lost = t.lost
                  \/ /\ ~t.isStart /\ x.thread = (IF t.thread = "none" THEN "created" ELSE t.thread)
                     /\ x.lost = (t.lost \/ \E o \in Session : Stopping(o))
<1> DEFINE l == t.lost \/ \E o \in Session : Stopping(o)
           h == IF t.thread = "none" THEN "created" ELSE t.thread
<1>1. l \in BOOLEAN /\ h \in Threads
  BY TurnFields DEF Threads
<1>2. ASSUME NEW x, x = [t EXCEPT !.thread = h, !.lost = l]
      PROVE  /\ x \in TurnRecord(ids) /\ Same(x, t) /\ SameNumbers(x, t) /\ SameState(x, t)
             /\ x.peers = t.peers /\ x.isStart = t.isStart /\ x.isLoop = t.isLoop
             /\ x.thread = h /\ x.lost = l
  <2> HIDE DEF l, h
  <2> QED BY <1>1, <1>2, ZenonT(60) DEF TurnRecord, Same, SameNumbers, SameState
<1>3. CASE t.isStart
  BY <1>3 DEF Start, Same, SameNumbers, SameState
<1>4. CASE ~t.isStart
  <2>1. Start(t) = [t EXCEPT !.thread = h, !.lost = l]
    BY <1>4, Zenon DEF Start
  <2> QED BY <1>2, <1>4, <2>1
<1> QED BY <1>3, <1>4

LEMMA StopIs ==
    ASSUME NEW ids, NEW t \in TurnRecord(ids)
    PROVE  LET x == StopOf(t)
           IN  /\ x \in TurnRecord(ids) /\ Same(x, t) /\ SameNumbers(x, t) /\ x.peers = t.peers
               /\ x.stopped /\ x.back = t.back /\ x.thread = t.thread /\ x.isStart = t.isStart
               /\ ~x.isLoop /\ x.lost = (t.lost \/ t.thread \in {"created", "starting"})
<1> DEFINE l == t.lost \/ t.thread \in {"created", "starting"}
<1>1. l \in BOOLEAN /\ Close \in States
  BY TurnFields DEF States, New, Close
<1>2. ASSUME NEW x, x = [t EXCEPT !.isLoop = FALSE, !.state = Close, !.stopped = TRUE, !.lost = l]
      PROVE  /\ x \in TurnRecord(ids) /\ Same(x, t) /\ SameNumbers(x, t) /\ x.peers = t.peers
             /\ x.stopped /\ x.back = t.back /\ x.thread = t.thread /\ x.isStart = t.isStart
             /\ ~x.isLoop /\ x.lost = l
  <2> HIDE DEF l
  <2> QED BY <1>1, <1>2, ZenonT(60) DEF TurnRecord, Same, SameNumbers
<1> QED BY <1>2 DEF StopOf

LEMMA ConnectionIs ==
    ASSUME NEW ids, NEW id \in ids, NEW m \in BOOLEAN, NEW c, c = Connection(id, m)
    PROVE  /\ c \in TurnRecord(ids) /\ c.id = id /\ c.made = m /\ c.state = New /\ c.peers = <<>>
           /\ c.added = 0 /\ c.channelNum = 0 /\ ~c.turnLock /\ ~c.stopped /\ ~c.back
           /\ ~c.clash /\ c.thread = "none" /\ ~c.isStart /\ ~c.isLoop /\ ~c.lost
<1>1. /\ New \in States /\ "none" \in Threads /\ 0 \in Permissions
      /\ <<>> \in Seq(PeerRecord) /\ 0 \in Nat /\ TRUE \in BOOLEAN /\ FALSE \in BOOLEAN
  BY DEF States, New, Close, Threads, Permissions
<1> QED BY <1>1, ZenonT(60) DEF Connection, TurnRecord

\* A session moves to another control state, and its other fields may change.
Moves(s, to, conn, channel, loaded) ==
    /\ sess'[s].pc = to /\ sess'[s].turnconn = conn
    /\ sess'[s].channel = channel /\ sess'[s].loaded = loaded
    /\ \A o \in Session \ {s} : sess'[o] = sess[o]

Steps(s, to) == Moves(s, to, sess[s].turnconn, sess[s].channel, sess[s].loaded)

LEMMA SessIs ==
    ASSUME Typed, NEW more, 0 .. conns \subseteq more, NEW s \in Session, NEW to \in SessPc,
           NEW conn \in more, NEW channel \in Nat, NEW loaded \in Nat,
           \/ sess' = [sess EXCEPT ![s].pc = to, ![s].turnconn = conn]
              /\ channel = sess[s].channel /\ loaded = sess[s].loaded
           \/ sess' = [sess EXCEPT ![s].pc = to, ![s].channel = channel]
              /\ conn = sess[s].turnconn /\ loaded = sess[s].loaded
           \/ sess' = [sess EXCEPT ![s].pc = to, ![s].loaded = loaded]
              /\ conn = sess[s].turnconn /\ channel = sess[s].channel
           \/ sess' = [sess EXCEPT ![s].pc = to, ![s].turnconn = conn, ![s].loaded = loaded]
              /\ channel = sess[s].channel
    PROVE  sess' \in [Session -> SessRecord(more)] /\ Moves(s, to, conn, channel, loaded)
<1>1. \A o \in Session : sess[o] \in SessRecord(more)
  <2>1. \A x \in SessRecord(0 .. conns) : x \in SessRecord(more)
    BY ZenonT(30) DEF SessRecord
  <2> QED BY <2>1, SessFields
<1>2. sess \in [Session -> SessRecord(0 .. conns)]
  BY DEF Typed
<1>3. sess[s] \in SessRecord(more)
  BY <1>1
<1>4. ASSUME NEW r, r \in SessRecord(more), sess' = [sess EXCEPT ![s] = r], r.pc = to,
             r.turnconn = conn, r.channel = channel, r.loaded = loaded
      PROVE  sess' \in [Session -> SessRecord(more)] /\ Moves(s, to, conn, channel, loaded)
  BY <1>1, <1>2, <1>4 DEF Moves
<1>5. CASE /\ sess' = [sess EXCEPT ![s].pc = to, ![s].turnconn = conn]
           /\ channel = sess[s].channel /\ loaded = sess[s].loaded
  <2> DEFINE r == [sess[s] EXCEPT !.pc = to, !.turnconn = conn]
  <2>1. /\ r \in SessRecord(more) /\ r.pc = to /\ r.turnconn = conn
        /\ r.channel = sess[s].channel /\ r.loaded = sess[s].loaded
    BY <1>3, ZenonT(30) DEF SessRecord
  <2>2. sess' = [sess EXCEPT ![s] = r]
    BY <1>5
  <2> HIDE DEF r
  <2> QED BY <1>4, <1>5, <2>1, <2>2
<1>6. CASE /\ sess' = [sess EXCEPT ![s].pc = to, ![s].channel = channel]
           /\ conn = sess[s].turnconn /\ loaded = sess[s].loaded
  <2> DEFINE r == [sess[s] EXCEPT !.pc = to, !.channel = channel]
  <2>1. /\ r \in SessRecord(more) /\ r.pc = to /\ r.turnconn = sess[s].turnconn
        /\ r.channel = channel /\ r.loaded = sess[s].loaded
    BY <1>3, ZenonT(30) DEF SessRecord
  <2>2. sess' = [sess EXCEPT ![s] = r]
    BY <1>6
  <2> HIDE DEF r
  <2> QED BY <1>4, <1>6, <2>1, <2>2
<1>7. CASE /\ sess' = [sess EXCEPT ![s].pc = to, ![s].loaded = loaded]
           /\ conn = sess[s].turnconn /\ channel = sess[s].channel
  <2> DEFINE r == [sess[s] EXCEPT !.pc = to, !.loaded = loaded]
  <2>1. /\ r \in SessRecord(more) /\ r.pc = to /\ r.turnconn = sess[s].turnconn
        /\ r.channel = sess[s].channel /\ r.loaded = loaded
    BY <1>3, ZenonT(30) DEF SessRecord
  <2>2. sess' = [sess EXCEPT ![s] = r]
    BY <1>7
  <2> HIDE DEF r
  <2> QED BY <1>4, <1>7, <2>1, <2>2
<1>8. CASE /\ sess' = [sess EXCEPT ![s].pc = to, ![s].turnconn = conn, ![s].loaded = loaded]
           /\ channel = sess[s].channel
  <2> DEFINE r == [sess[s] EXCEPT !.pc = to, !.turnconn = conn, !.loaded = loaded]
  <2>1. /\ r \in SessRecord(more) /\ r.pc = to /\ r.turnconn = conn
        /\ r.channel = sess[s].channel /\ r.loaded = loaded
    BY <1>3, ZenonT(30) DEF SessRecord
  <2>2. sess' = [sess EXCEPT ![s] = r]
    BY <1>8
  <2> HIDE DEF r
  <2> QED BY <1>4, <1>8, <2>1, <2>2
<1> QED BY <1>5, <1>6, <1>7, <1>8

LEMMA GoesIs ==
    ASSUME Typed, NEW s \in Session, NEW to \in SessPc, Goes(s, to)
    PROVE  sess' \in [Session -> SessRecord(0 .. conns)] /\ Steps(s, to)
<1> DEFINE r == [sess[s] EXCEPT !.pc = to]
<1>1. /\ r \in SessRecord(0 .. conns) /\ r.pc = to /\ r.turnconn = sess[s].turnconn
      /\ r.channel = sess[s].channel /\ r.loaded = sess[s].loaded
  BY SessFields, ZenonT(30) DEF SessRecord
<1>2. sess' = [sess EXCEPT ![s] = r] /\ sess \in [Session -> SessRecord(0 .. conns)]
  BY DEF Goes, Typed
<1> HIDE DEF r
<1> QED BY <1>1, <1>2 DEF Moves, Steps

LEMMA GoesWithIs ==
    ASSUME Typed, NEW s \in Session, NEW to \in SessPc, NEW value \in Nat, GoesWith(s, to, value)
    PROVE  /\ sess' \in [Session -> SessRecord(0 .. conns)]
           /\ Moves(s, to, sess[s].turnconn, sess[s].channel, value)
<1>1. sess[s].turnconn \in 0 .. conns /\ sess[s].channel \in Nat
  BY SessFields
<1>2. 0 .. conns \subseteq 0 .. conns
  OBVIOUS
<1>3. sess' = [sess EXCEPT ![s].pc = to, ![s].loaded = value]
  BY DEF GoesWith
<1> HIDE DEF Moves
<1> QED BY <1>1, <1>2, <1>3, SessIs

\* The server may lose what it has bound, never an answer it has given.
LEMMA EndAllocationIs ==
    ASSUME server \in ServerRecord, EndAllocation
    PROVE  /\ server' \in ServerRecord /\ server'.answers = server.answers
           /\ server'.bound \subseteq server.bound
<1>1. ASSUME NEW x, x = [server EXCEPT !.allocated = FALSE, !.bound = {}]
      PROVE  x \in ServerRecord /\ x.answers = server.answers /\ x.bound = {}
  <2>1. {} \in SUBSET (Nat \X Session) /\ FALSE \in BOOLEAN
    OBVIOUS
  <2> QED BY <1>1, <2>1, ZenonT(30) DEF ServerRecord
<1> QED BY <1>1 DEF EndAllocation

\* The peers.
LEMMA LeastExists ==
    ASSUME NEW S \in SUBSET Nat, S # {}
    PROVE  \E i \in S : \A j \in S : i <= j
<1> DEFINE R == OpToRel(<, Nat)
<1>1. IsWellFoundedOn(R, Nat)
  BY NatLessThanWellFounded
<1> HIDE DEF R
<1>2. PICK x \in S : \A y \in S : ~(<<y, x>> \in R)
  BY <1>1, WFMin
<1>3. ASSUME NEW y \in S PROVE x <= y
  <2>1. ~(y < x)
    <3>1. y \in Nat /\ x \in Nat /\ <<y, x>> \notin R
      BY <1>2
    <3>2. y < x => <<y, x>> \in R
      BY <3>1 DEF R, OpToRel
    <3> QED BY <3>1, <3>2
  <2>2. y \in Nat /\ x \in Nat
    OBVIOUS
  <2> QED BY <2>1, <2>2
<1> QED BY <1>3

LEMMA RemoveAtIs ==
    ASSUME NEW S, NEW q \in Seq(S), NEW i \in DOMAIN q
    PROVE  /\ RemoveAt(q, i) \in Seq(S) /\ Len(RemoveAt(q, i)) = Len(q) - 1
           /\ \A j \in 1 .. Len(q) - 1 : RemoveAt(q, i)[j] = q[IF j < i THEN j ELSE j + 1]
<1>1. Len(q) \in Nat /\ i \in 1 .. Len(q)
  BY LenProperties
<1> DEFINE a == SubSeq(q, 1, i - 1)
           b == SubSeq(q, i + 1, Len(q))
<1>2. /\ a \in Seq(S) /\ Len(a) = i - 1
      /\ \A j \in 1 .. i - 1 : a[j] = q[j]
  BY <1>1, SubSeqProperties
<1>3. /\ b \in Seq(S) /\ Len(b) = Len(q) - i
      /\ \A j \in 1 .. Len(q) - i : b[j] = q[i + j]
  BY <1>1, SubSeqProperties
<1> HIDE DEF a, b
<1>4. /\ a \o b \in Seq(S) /\ Len(a \o b) = Len(q) - 1
      /\ \A j \in 1 .. Len(q) - 1 : (a \o b)[j] = IF j <= i - 1 THEN a[j] ELSE b[j - (i - 1)]
  <2>1. /\ a \o b \in Seq(S) /\ Len(a \o b) = Len(a) + Len(b)
        /\ \A j \in 1 .. Len(a) + Len(b) :
               (a \o b)[j] = IF j <= Len(a) THEN a[j] ELSE b[j - Len(a)]
    <3>1. a \in Seq(S) /\ b \in Seq(S)
      BY <1>2, <1>3
    <3> QED BY ONLY <3>1, ConcatProperties
  <2>2. Len(a) = i - 1 /\ Len(a) + Len(b) = Len(q) - 1
    BY <1>1, <1>2, <1>3
  <2> QED BY <2>1, <2>2
<1>5. ASSUME NEW j \in 1 .. Len(q) - 1
      PROVE  (a \o b)[j] = q[IF j < i THEN j ELSE j + 1]
  <2>1. (a \o b)[j] = IF j <= i - 1 THEN a[j] ELSE b[j - (i - 1)]
    BY <1>4
  <2>2. CASE j < i
    <3>1. j \in 1 .. i - 1 /\ j <= i - 1
      BY <1>1, <2>2
    <3> QED BY <1>2, <2>1, <2>2, <3>1
  <2>3. CASE ~(j < i)
    <3>1. /\ j - (i - 1) \in 1 .. Len(q) - i /\ ~(j <= i - 1)
          /\ i + (j - (i - 1)) = j + 1
      BY <1>1, <2>3
    <3>2. b[j - (i - 1)] = q[i + (j - (i - 1))]
      BY <1>3, <3>1
    <3> QED BY <2>1, <2>3, <3>1, <3>2
  <2> QED BY <2>2, <2>3
<1> QED BY <1>4, <1>5 DEF RemoveAt, a, b
\* Sets of sessions are finite, and one more or less counts as one.
LEMMA Counting ==
    ASSUME NEW S \in SUBSET Session
    PROVE  /\ IsFiniteSet(S) /\ Cardinality(S) \in Nat
           /\ Cardinality(S) = 0 <=> S = {}
           /\ \A s \in Session \ S : Cardinality(S \cup {s}) = Cardinality(S) + 1
           /\ \A s \in S : Cardinality(S \ {s}) = Cardinality(S) - 1
<1>1. IsFiniteSet(S) /\ Cardinality(S) \in Nat
  BY FS_Subset, FS_CardinalityType, TurnShareAssumption
<1>2. Cardinality(S) = 0 <=> S = {}
  BY <1>1, FS_EmptySet
<1>3. \A s \in Session \ S : Cardinality(S \cup {s}) = Cardinality(S) + 1
  BY <1>1, FS_AddElement, Zenon
<1>4. \A s \in S : Cardinality(S \ {s}) = Cardinality(S) - 1
  BY <1>1, FS_RemoveElement, Zenon
<1> QED BY <1>1, <1>2, <1>3, <1>4

LEMMA SetsCount ==
    /\ Cardinality(Counted) \in Nat /\ Cardinality(Making) \in Nat /\ Cardinality(Inserting) \in Nat
    /\ \A s \in Counted : Cardinality(Counted) >= 1
    /\ \A s \in Making : Cardinality(Making) >= 1
    /\ \A s \in Inserting : Cardinality(Inserting) >= 1
<1>1. Counted \in SUBSET Session /\ Making \in SUBSET Session /\ Inserting \in SUBSET Session
  BY DEF Counted, Making, Inserting
<1>2. ASSUME NEW S \in SUBSET Session
      PROVE  Cardinality(S) \in Nat /\ \A s \in S : Cardinality(S) >= 1
  BY Counting
<1> QED BY <1>1, <1>2

-----------------------------------------------------------------------------
(* What the steps do, field by field.  Every step also keeps the ranges.   *)

\* A session goes on and leaves what it shares with the others alone.
Went(s) ==
    /\ UNCHANGED <<turn, count, conns, server>>
    /\ \E to \in SessPc, loaded \in Nat :
        /\ Moves(s, to, sess[s].turnconn, sess[s].channel, loaded)
        /\ \/ /\ sess[s].pc = "new"
              /\ torn' = (\E o \in Session : sess[o].pc \in {"closeTurn", "destroy"})
              /\ \/ to = "make" /\ turn.id = 0 /\ conns + Cardinality(Making) < MaxConns
                 \/ to = "count" /\ turn.id # 0
           \/ /\ torn' = torn
              /\ \/ sess[s].pc = "count" /\ to = "counted"
                 \/ Holds(s) /\ sess[s].pc = "allocate" /\ turn.state = Permission
                      /\ to \in {"add", "offered"}
                 \/ Holds(s) /\ sess[s].pc = "stop" /\ to \in {"add", "other"}
                 \/ sess[s].pc = "offered" /\ to = "add"
                 \/ sess[s].pc = "ready" /\ to = "up"
                 \/ sess[s].pc \in {"up", "other"} /\ (\A o \in Session : sess[o].pc \notin Publishing)
                      /\ to = (IF sess[s].turnconn = 0 THEN "gone" ELSE "remove")
                 \/ Holds(s) /\ sess[s].pc = "uncount" /\ to = "uncounted" /\ loaded = count

\* A session makes, creates, counts and starts the connection.
Makes(s) ==
    /\ sess[s].pc = "make" /\ Steps(s, "create") /\ conns' = conns + 1 /\ count' = count
    /\ turn' = Connection(conns + 1, FALSE) /\ server'.answers = {} /\ server'.bound = {}
    /\ torn' = (turn.id # 0)

Creates(s) ==
    /\ sess[s].pc = "create" /\ Steps(s, "count") /\ turn' = Connection(turn.id, TRUE)
    /\ UNCHANGED <<count, conns, server, torn>>

Counts(s) ==
    /\ sess[s].pc = "counted" /\ Moves(s, "start", turn.id, sess[s].channel, 0)
    /\ count' = sess[s].loaded + 1 /\ torn' = (count # sess[s].loaded)
    /\ UNCHANGED <<turn, conns, server>>

Starts(s) ==
    /\ Holds(s) /\ sess[s].pc = "start" /\ Steps(s, "allocate") /\ torn' = ~turn.made
    /\ UNCHANGED <<count, conns, server>>
    /\ Same(turn', turn) /\ SameNumbers(turn', turn) /\ SameState(turn', turn)
    /\ turn'.peers = turn.peers /\ turn'.isStart = turn.isStart /\ turn'.isLoop = turn.isLoop
    /\ \/ turn'.thread = turn.thread /\ turn'.lost = turn.lost
       \/ /\ ~turn.isStart
          /\ turn'.thread = (IF turn.thread = "none" THEN "created" ELSE turn.thread)
          /\ turn'.lost = (turn.lost \/ \E o \in Session : Stopping(o))

\* The connection is stopped, after a wait or to be closed or destroyed.
Stops ==
    /\ Same(turn', turn) /\ SameNumbers(turn', turn) /\ turn'.peers = turn.peers
    /\ turn'.stopped /\ turn'.thread = turn.thread /\ turn'.isStart = turn.isStart
    /\ ~turn'.isLoop /\ turn'.lost = (turn.lost \/ turn.thread \in {"created", "starting"})
    /\ server'.answers = server.answers /\ server'.bound \subseteq server.bound

Halted(s) ==
    /\ Holds(s) /\ Stops /\ UNCHANGED <<count, conns>>
    /\ \/ sess[s].pc = "allocate" /\ Steps(s, "stop") /\ torn' = torn
       \/ sess[s].pc \in {"stop", "ready"} /\ Steps(s, "closeTurn") /\ torn' = Shared(s)
       \/ /\ sess[s].pc = "last" /\ Steps(s, "destroy") /\ count = 0
          /\ torn' = (\E o \in Session : sess[o].pc \in Getting)

\* A session takes a number, and counts the numbers up.
NextChannel == IF turn.channelNum > MaxChannel THEN 0 ELSE turn.channelNum

Numbers(s) ==
    /\ Holds(s) /\ UNCHANGED <<count, conns, server, torn>>
    /\ Same(turn', turn) /\ SameState(turn', turn) /\ SameThread(turn', turn)
    /\ turn'.peers = turn.peers
    /\ \/ /\ sess[s].pc = "add" /\ Moves(s, "number", sess[s].turnconn, NextChannel, sess[s].loaded)
          /\ turn'.channelNum = NextChannel /\ turn'.added = turn.added /\ turn'.clash = turn.clash
       \/ /\ sess[s].pc = "number"
          /\ Moves(s, "next", sess[s].turnconn, turn.channelNum, sess[s].loaded)
          /\ turn'.channelNum = turn.channelNum /\ turn'.added = turn.added
          /\ turn'.clash = (turn.clash \/ turn.channelNum # sess[s].channel)
       \/ /\ sess[s].pc = "next"
          /\ Moves(s, "numbered", sess[s].turnconn, sess[s].channel, turn.channelNum)
          /\ turn'.channelNum = turn.channelNum /\ turn'.added = turn.added
          /\ turn'.clash = (turn.clash \/ turn.channelNum # sess[s].channel)
       \/ /\ sess[s].pc = "numbered"
          /\ Moves(s, "insert", sess[s].turnconn, sess[s].channel, 0)
          /\ turn'.channelNum = sess[s].loaded + 1 /\ turn'.added = turn.added + 1
          /\ turn'.clash = (turn.clash \/ turn.channelNum # sess[s].loaded)

NewPeer(s) ==
    [uid |-> s, channelNumber |-> sess[s].channel, state |-> Permission, timed |-> FALSE]

Adds(s) ==
    /\ Holds(s) /\ sess[s].pc = "insert"
    /\ Moves(s, "ready", sess[s].turnconn, 0, sess[s].loaded)
    /\ UNCHANGED <<count, conns, server, torn>>
    /\ Same(turn', turn) /\ SameNumbers(turn', turn) /\ SameState(turn', turn)
    /\ SameThread(turn', turn) /\ ~turn.turnLock
    /\ turn'.peers = Append(turn.peers, NewPeer(s))

\* A peer is removed, or none was found.
Loses(x, t) ==
    /\ x.id = t.id /\ x.made = t.made /\ x.added = t.added /\ x.clash = t.clash
    /\ SameState(x, t) /\ SameThread(x, t)
    /\ \/ x.turnLock = t.turnLock /\ x.channelNum = t.channelNum /\ x.peers = t.peers
       \/ x.turnLock /\ \E i \in DOMAIN t.peers :
              x.peers = RemoveAt(t.peers, i) /\ x.channelNum = t.peers[i].channelNumber

Removes(s) ==
    /\ Holds(s) /\ sess[s].pc = "remove" /\ Steps(s, "uncount") /\ Loses(turn', turn)
    /\ UNCHANGED <<count, conns, server, torn>>

Uncounts(s) ==
    /\ Holds(s) /\ sess[s].pc = "uncounted"
    /\ Moves(s, "last", sess[s].turnconn, sess[s].channel, 0)
    /\ count' = sess[s].loaded - 1 /\ torn' = (count # sess[s].loaded)
    /\ UNCHANGED <<turn, conns, server>>

Leaves(s) ==
    /\ Holds(s) /\ sess[s].pc = "last" /\ count # 0
    /\ Moves(s, "gone", 0, sess[s].channel, sess[s].loaded)
    /\ UNCHANGED <<turn, count, conns, server, torn>>

Frees(s) ==
    /\ Holds(s) /\ turn' = Connection(0, FALSE) /\ UNCHANGED <<conns, server, torn>>
    /\ \/ /\ sess[s].pc = "closeTurn" /\ count' = 0
          /\ Moves(s, "other", 0, sess[s].channel, sess[s].loaded)
       \/ /\ sess[s].pc = "destroy" /\ count' = count
          /\ Moves(s, "gone", 0, sess[s].channel, sess[s].loaded)

\* Peers keep their places and channels when their states change.
SamePeers ==
    /\ turn'.peers \in Seq(PeerRecord) /\ Len(turn'.peers) = Len(turn.peers)
    /\ DOMAIN turn'.peers = DOMAIN turn.peers
    /\ \A i \in DOMAIN turn.peers :
        /\ turn'.peers[i].uid = turn.peers[i].uid
        /\ turn'.peers[i].channelNumber = turn.peers[i].channelNumber

\* The server hears a request.
Asked ==
    /\ turn' = turn /\ turn.thread = "run"
    /\ \/ /\ server'.bound = server.bound /\ server'.answers \cap {"permission", "bound"} =
                 server.answers \cap {"permission", "bound"}
       \/ /\ turn.state = Close /\ server'.bound = {} /\ server'.answers = server.answers
       \/ \E p \in ToSet(turn.peers) :
           \/ server'.bound = server.bound /\ server'.answers = server.answers \cup {"permission"}
           \/ /\ \A b \in server.bound : b[1] = p.channelNumber <=> b[2] = p.uid
              /\ server'.answers = server.answers \cup {"bound"}
              /\ server'.bound = server.bound \cup {<<p.channelNumber, p.uid>>}

\* An answer, or a renewal, moves the states on.
Shifts(from, to) ==
    \A i \in DOMAIN turn.peers :
        turn'.peers[i].state = IF turn.peers[i].state = from THEN to ELSE turn.peers[i].state

SameButState ==
    /\ Same(turn', turn) /\ SameNumbers(turn', turn) /\ SameThread(turn', turn)
    /\ turn'.stopped = turn.stopped /\ SamePeers

Told ==
    /\ turn.id # 0 /\ SameButState /\ server.answers # {}
    /\ server'.bound = server.bound /\ server'.answers \subseteq server.answers
    /\ \/ /\ turn'.peers = turn.peers /\ turn'.back = turn.back
          /\ \/ turn'.state = IF turn.state = New THEN Credential ELSE turn.state
             \/ turn'.state = AtLeast(Allocate)
       \/ /\ turn'.peers = turn.peers
          /\ turn'.state = IF turn.state = Credential THEN Allocate ELSE Permission
          /\ turn'.back = (turn.back \/ turn.state > Permission)
       \/ /\ "permission" \in server.answers /\ Shifts(Permission, BindChannel)
          /\ turn'.state = AtLeast(BindChannel) /\ turn'.back = turn.back
       \/ /\ "bound" \in server.answers /\ Shifts(BindChannel, Ready)
          /\ turn'.state = AtLeast(Ready) /\ turn'.back = turn.back

Renews ==
    /\ SameButState /\ SameState(turn', turn) /\ server' = server /\ turn.state = Ready
    /\ \A i \in DOMAIN turn.peers : turn'.peers[i].state = Ready => turn.peers[i].state = Ready

\* The thread begins or ends.
Loops ==
    /\ turn.thread # "none" /\ server' = server
    /\ Same(turn', turn) /\ SameNumbers(turn', turn) /\ SameState(turn', turn)
    /\ turn'.peers = turn.peers /\ turn'.lost = turn.lost
    /\ \/ turn.thread = "created" /\ turn'.thread = "starting" /\ turn'.isStart
       \/ turn.thread = "starting" /\ turn'.thread = "run"
       \/ turn.thread = "run" /\ turn'.thread = "none" /\ ~turn'.isStart /\ turn'.isLoop = turn.isLoop

\* A step of the two threads of the connection.
Runs == UNCHANGED <<sess, count, conns, torn>> /\ (Loops \/ Asked \/ Told \/ Renews)

\* The ranges after a step, in the words of the lemmas above.
TypedNext ==
    /\ sess' \in [Session -> SessRecord(0 .. conns')] /\ turn' \in TurnRecord(0 .. conns')
    /\ count' \in Nat /\ conns' \in 0 .. MaxConns
    /\ server' \in ServerRecord /\ torn' \in BOOLEAN

LEMMA TypedNextIs == TypedNext => Typed'
BY DEF TypedNext, Typed, SessRecord, TurnRecord, ServerRecord, PeerRecord, States, Threads,
       Permissions, PeerStates

\* A session that is being destroyed has the publishing thread.
LEMMA PublishThread ==
    ASSUME NEW s \in Session
    PROVE  Thread(s) = "publish" <=> sess[s].pc \in Publishing
<1>1. CASE sess[s].pc \in {"new", "up", "other", "gone"}
  BY <1>1 DEF Thread, Publishing
<1>2. CASE sess[s].pc \in Publishing
  BY <1>2 DEF Thread, Publishing
<1>3. CASE sess[s].pc \notin {"new", "up", "other", "gone"} /\ sess[s].pc \notin Publishing
  BY <1>3 DEF Thread, Publishing
<1> QED BY <1>1, <1>2, <1>3

LEMMA TestTurnDoes ==
    ASSUME Typed, NEW s \in Session, TestTurn(s)
    PROVE  TypedNext /\ Went(s)
<1> DEFINE to == IF turn.id = 0 THEN "make" ELSE "count"
<1>1. to \in SessPc /\ Goes(s, to)
  BY DEF TestTurn, SessPc, Getting
<1>2. sess' \in [Session -> SessRecord(0 .. conns)] /\ Steps(s, to) /\ sess[s].loaded \in Nat
  BY <1>1, GoesIs, SessFields
<1>3. torn' = (\E o \in Session : sess[o].pc \in {"closeTurn", "destroy"})
  BY DEF TestTurn
<1>4. torn' \in BOOLEAN
  BY <1>3
<1>5. TypedNext
  BY <1>2, <1>4 DEF TestTurn, Typed, TypedNext
<1>6. UNCHANGED <<turn, count, conns, server>> /\ sess[s].pc = "new"
  BY DEF TestTurn
<1>7. \/ to = "make" /\ turn.id = 0 /\ conns + Cardinality(Making) < MaxConns
      \/ to = "count" /\ turn.id # 0
  BY DEF TestTurn, Making
<1> HIDE DEF to
<1>8. Went(s)
  BY <1>1, <1>2, <1>3, <1>6, <1>7 DEF Went, Steps
<1> QED BY <1>5, <1>8

LEMMA MakeTurnDoes ==
    ASSUME Typed, MakeInv, NEW s \in Session, MakeTurn(s)
    PROVE  TypedNext /\ Makes(s)
<1>1. conns \in Nat /\ 0 .. conns \subseteq 0 .. conns + 1 /\ conns + 1 \in 0 .. conns + 1
  BY Idents
<1>2. conns + 1 \in 0 .. MaxConns
  <2>1. s \in Making
    BY DEF MakeTurn, Making
  <2> QED BY <1>1, <2>1, SetsCount, TurnShareAssumption DEF MakeInv
<1>3. "create" \in SessPc /\ Goes(s, "create")
  BY DEF MakeTurn, SessPc, Getting
<1>4. sess' \in [Session -> SessRecord(0 .. conns)] /\ Steps(s, "create")
  BY <1>3, GoesIs
<1>5. sess' \in [Session -> SessRecord(0 .. conns + 1)]
  <2>1. \A x \in SessRecord(0 .. conns) : x \in SessRecord(0 .. conns + 1)
    BY <1>1, ZenonT(30) DEF SessRecord
  <2> QED BY <1>4, <2>1
<1>6. Connection(conns + 1, FALSE) \in TurnRecord(0 .. conns + 1)
  BY <1>1, ConnectionIs
<1>7. NoServer \in ServerRecord /\ NoServer.answers = {} /\ NoServer.bound = {}
  <2>1. {} \in SUBSET Answers /\ {} \in SUBSET (Nat \X Session) /\ FALSE \in BOOLEAN
    OBVIOUS
  <2> QED BY <2>1, ZenonT(30) DEF NoServer, ServerRecord
<1>8. /\ conns' = conns + 1 /\ turn' = Connection(conns + 1, FALSE) /\ server' = NoServer
      /\ count' = count /\ torn' = (turn.id # 0) /\ sess[s].pc = "make"
  BY DEF MakeTurn
<1>9. torn' \in BOOLEAN
  BY <1>8
<1> QED BY <1>2, <1>4, <1>5, <1>6, <1>7, <1>8, <1>9 DEF TypedNext, Typed, Makes

LEMMA CreateTurnDoes ==
    ASSUME Typed, NEW s \in Session, CreateTurn(s)
    PROVE  TypedNext /\ Creates(s)
<1>1. "count" \in SessPc /\ Goes(s, "count")
  BY DEF CreateTurn, SessPc, Getting
<1>2. sess' \in [Session -> SessRecord(0 .. conns)] /\ Steps(s, "count")
  BY <1>1, GoesIs
<1>3. turn.id \in 0 .. conns
  BY Idents
<1>4. Connection(turn.id, TRUE) \in TurnRecord(0 .. conns)
  BY <1>3, ConnectionIs
<1> QED BY <1>2, <1>4 DEF TypedNext, Typed, Creates, CreateTurn

LEMMA CountTurnDoes ==
    ASSUME Typed, NEW s \in Session, CountTurn(s)
    PROVE  TypedNext /\ (Went(s) \/ Counts(s))
<1>0. count \in Nat /\ sess[s].loaded \in Nat /\ turn.id \in 0 .. conns /\ sess[s].channel \in Nat
  BY Idents
<1>1. CASE sess[s].pc = "count" /\ GoesWith(s, "counted", count)
           /\ UNCHANGED <<turn, count, conns, server, torn>>
  <2>1. "counted" \in SessPc
    BY DEF SessPc, Getting
  <2>2. /\ sess' \in [Session -> SessRecord(0 .. conns)]
        /\ Moves(s, "counted", sess[s].turnconn, sess[s].channel, count)
    BY <1>0, <1>1, <2>1, GoesWithIs
  <2>3. Went(s)
    BY <1>0, <1>1, <2>1, <2>2 DEF Went
  <2> QED BY <1>1, <2>2, <2>3 DEF TypedNext, Typed
<1>2. CASE /\ sess[s].pc = "counted" /\ count' = sess[s].loaded + 1
           /\ sess' = [sess EXCEPT ![s].pc = "start", ![s].turnconn = turn.id, ![s].loaded = 0]
           /\ torn' = (count # sess[s].loaded)
           /\ UNCHANGED <<turn, conns, server>>
  <2>1. "start" \in SessPc /\ 0 .. conns \subseteq 0 .. conns /\ 0 \in Nat
    BY DEF SessPc
  <2>2. /\ sess' \in [Session -> SessRecord(0 .. conns)]
        /\ Moves(s, "start", turn.id, sess[s].channel, 0)
    <3> HIDE DEF Moves
    <3> QED BY <1>0, <1>2, <2>1, SessIs
  <2>3. torn' \in BOOLEAN /\ count' \in Nat
    BY <1>0, <1>2
  <2> QED BY <1>2, <2>2, <2>3 DEF TypedNext, Typed, Counts
<1> QED BY <1>1, <1>2 DEF CountTurn

LEMMA InitTurnDoes ==
    ASSUME Typed, NEW s \in Session, InitTurn(s)
    PROVE  TypedNext /\ Starts(s)
<1>1. "allocate" \in SessPc /\ Goes(s, "allocate")
  BY DEF InitTurn, SessPc
<1>2. sess' \in [Session -> SessRecord(0 .. conns)] /\ Steps(s, "allocate")
  BY <1>1, GoesIs
<1>3. turn' = Start(turn) /\ torn' = ~turn.made
  BY DEF InitTurn
<1>4. turn \in TurnRecord(0 .. conns) /\ turn.made \in BOOLEAN
  BY Idents, TurnFields
<1>5. torn' \in BOOLEAN
  BY <1>3, <1>4
<1>6. /\ turn' \in TurnRecord(0 .. conns) /\ Same(turn', turn) /\ SameNumbers(turn', turn)
      /\ SameState(turn', turn) /\ turn'.peers = turn.peers /\ turn'.isStart = turn.isStart
      /\ turn'.isLoop = turn.isLoop
      /\ \/ turn'.thread = turn.thread /\ turn'.lost = turn.lost
         \/ /\ ~turn.isStart
            /\ turn'.thread = (IF turn.thread = "none" THEN "created" ELSE turn.thread)
            /\ turn'.lost = (turn.lost \/ \E o \in Session : Stopping(o))
  BY <1>3, <1>4, StartIs
<1> QED BY <1>2, <1>3, <1>5, <1>6 DEF TypedNext, Typed, Starts, InitTurn

\* A session moves on, all else stays.
LEMMA GoesAlone ==
    ASSUME Typed, NEW s \in Session, NEW to \in SessPc, Goes(s, to),
           UNCHANGED <<turn, count, conns, server, torn>>
    PROVE  TypedNext /\ Steps(s, to) /\ sess[s].loaded \in Nat
BY GoesIs, SessFields DEF Typed, TypedNext

\* A stop by session s on its way to another control state.
LEMMA StopDoes ==
    ASSUME Typed, Stop
    PROVE  turn' \in TurnRecord(0 .. conns) /\ server' \in ServerRecord /\ Stops
<1>1. turn \in TurnRecord(0 .. conns) /\ server \in ServerRecord
  BY DEF Typed
<1>2. turn' = StopOf(turn)
  BY DEF Stop
<1> QED BY <1>1, <1>2, StopIs, EndAllocationIs DEF Stop, Stops

LEMMA CloseTurnDoes ==
    ASSUME Typed, NEW s \in Session, Holds(s), sess[s].pc \in {"stop", "ready"},
           CloseTurn(s), UNCHANGED <<count, conns>>
    PROVE  TypedNext /\ Halted(s)
<1>1. "closeTurn" \in SessPc
  BY DEF SessPc
<1>2. sess' \in [Session -> SessRecord(0 .. conns)] /\ Steps(s, "closeTurn")
  BY <1>1, GoesIs DEF CloseTurn
<1>3. torn' = Shared(s) /\ Shared(s) \in BOOLEAN
  BY DEF CloseTurn, Shared
<1> QED BY <1>2, <1>3, StopDoes DEF CloseTurn, TypedNext, Halted, Typed

LEMMA AllocatedDoes ==
    ASSUME Typed, NEW s \in Session, Allocated(s)
    PROVE  TypedNext /\ (Went(s) \/ Halted(s))
<1>1. CASE /\ turn.state = Permission
           /\ Goes(s, IF s \in Servers THEN "add" ELSE "offered")
           /\ UNCHANGED <<turn, server>>
  <2> DEFINE to == IF s \in Servers THEN "add" ELSE "offered"
  <2>1. to \in SessPc /\ to \in {"add", "offered"}
    BY DEF SessPc
  <2>2. TypedNext /\ Steps(s, to) /\ sess[s].loaded \in Nat
    BY <1>1, <2>1, GoesAlone DEF Allocated
  <2> HIDE DEF to
  <2>3. Went(s)
    BY <1>1, <2>1, <2>2 DEF Went, Allocated, Steps
  <2> QED BY <2>2, <2>3
<1>2. CASE Stop /\ Goes(s, "stop")
  <2>1. "stop" \in SessPc
    BY DEF SessPc
  <2>2. sess' \in [Session -> SessRecord(0 .. conns)] /\ Steps(s, "stop")
    BY <1>2, <2>1, GoesIs
  <2> QED BY <1>2, <2>2, StopDoes DEF TypedNext, Typed, Halted, Allocated
<1> QED BY <1>1, <1>2 DEF Allocated

LEMMA StoppedDoes ==
    ASSUME Typed, NEW s \in Session, Stopped(s)
    PROVE  TypedNext /\ (Went(s) \/ Halted(s))
<1>1. CASE /\ Goes(s, IF s \in Servers THEN "add" ELSE "other")
           /\ UNCHANGED <<turn, server, torn>>
  <2> DEFINE to == IF s \in Servers THEN "add" ELSE "other"
  <2>1. to \in SessPc /\ to \in {"add", "other"}
    BY DEF SessPc
  <2>2. TypedNext /\ Steps(s, to) /\ sess[s].loaded \in Nat
    BY <1>1, <2>1, GoesAlone DEF Stopped
  <2> HIDE DEF to
  <2>3. Went(s)
    BY <1>1, <2>1, <2>2 DEF Went, Stopped, Steps
  <2> QED BY <2>2, <2>3
<1>2. CASE CloseTurn(s)
  BY <1>2, CloseTurnDoes DEF Stopped
<1> QED BY <1>1, <1>2 DEF Stopped

LEMMA IceHandleDoes ==
    ASSUME Typed, NEW s \in Session, IceHandle(s)
    PROVE  TypedNext /\ Went(s)
<1>1. "add" \in SessPc
  BY DEF SessPc
<1>2. TypedNext /\ Steps(s, "add") /\ sess[s].loaded \in Nat
  BY <1>1, GoesAlone DEF IceHandle
<1> QED BY <1>1, <1>2 DEF Went, IceHandle, Steps

LEMMA WaitReadyDoes ==
    ASSUME Typed, NEW s \in Session, WaitReady(s)
    PROVE  TypedNext /\ (Went(s) \/ Halted(s))
<1>1. CASE turn.state = Ready /\ Goes(s, "up") /\ UNCHANGED <<turn, server, torn>>
  <2>1. "up" \in SessPc
    BY DEF SessPc
  <2>2. TypedNext /\ Steps(s, "up") /\ sess[s].loaded \in Nat
    BY <1>1, <2>1, GoesAlone DEF WaitReady
  <2> QED BY <1>1, <2>1, <2>2 DEF Went, WaitReady, Steps
<1>2. CASE CloseTurn(s)
  BY <1>2, CloseTurnDoes DEF WaitReady
<1> QED BY <1>1, <1>2 DEF WaitReady

LEMMA BeginDestroyDoes ==
    ASSUME Typed, NEW s \in Session, BeginDestroy(s)
    PROVE  TypedNext /\ Went(s)
<1> DEFINE to == IF sess[s].turnconn = 0 THEN "gone" ELSE "remove"
<1>1. to \in SessPc
  BY DEF SessPc
<1>2. TypedNext /\ Steps(s, to) /\ sess[s].loaded \in Nat
  BY <1>1, GoesAlone DEF BeginDestroy
<1>3. \A o \in Session : sess[o].pc \notin Publishing
  BY PublishThread DEF BeginDestroy, Free
<1>4. to = (IF sess[s].turnconn = 0 THEN "gone" ELSE "remove")
  OBVIOUS
<1> HIDE DEF to
<1> QED BY <1>1, <1>2, <1>3, <1>4 DEF Went, BeginDestroy, Steps

LEMMA TestChannelDoes ==
    ASSUME Typed, NEW s \in Session, TestChannel(s)
    PROVE  TypedNext /\ Numbers(s)
<1>1. turn \in TurnRecord(0 .. conns) /\ turn.channelNum \in Nat
  BY Idents, TurnFields
<1>2. NextChannel \in Nat /\ "number" \in SessPc
  BY <1>1 DEF NextChannel, SessPc, Adding
<1> DEFINE k == NextChannel
<1>3. turn' = [turn EXCEPT !.channelNum = k]
  BY DEF TestChannel, NextChannel
<1>4. /\ turn' \in TurnRecord(0 .. conns) /\ Same(turn', turn) /\ SameState(turn', turn)
      /\ SameThread(turn', turn) /\ turn'.peers = turn.peers
      /\ turn'.channelNum = k /\ turn'.added = turn.added /\ turn'.clash = turn.clash
  <2>1. k \in Nat
    BY <1>2
  <2> HIDE DEF k
  <2> QED BY <1>1, <1>3, <2>1, ZenonT(60) DEF TurnRecord, Same, SameState, SameThread
<1>5. sess' = [sess EXCEPT ![s].pc = "number", ![s].channel = NextChannel]
  BY DEF TestChannel, NextChannel
<1>6. sess[s].turnconn \in 0 .. conns /\ sess[s].loaded \in Nat /\ 0 .. conns \subseteq 0 .. conns
  BY Idents
<1>7. /\ sess' \in [Session -> SessRecord(0 .. conns)]
      /\ Moves(s, "number", sess[s].turnconn, NextChannel, sess[s].loaded)
  <2> HIDE DEF Moves, NextChannel
  <2> QED BY <1>2, <1>5, <1>6, SessIs
<1>8. Holds(s) /\ sess[s].pc = "add" /\ UNCHANGED <<count, conns, server, torn>>
  BY DEF TestChannel
<1>9. TypedNext
  BY <1>4, <1>7, <1>8 DEF TypedNext, Typed
<1>10. Numbers(s)
  <2> HIDE DEF Moves, NextChannel, Same, SameState, SameThread, Holds
  <2> QED BY <1>4, <1>7, <1>8 DEF Numbers
<1> QED BY <1>9, <1>10

\* The record of history of a race.
LEMMA Clashes ==
    ASSUME Typed, NEW n \in Nat, NEW a \in Nat, NEW c \in BOOLEAN
    PROVE  /\ turn' = [turn EXCEPT !.clash = c] =>
                /\ turn' \in TurnRecord(0 .. conns) /\ Same(turn', turn) /\ SameState(turn', turn)
                /\ SameThread(turn', turn) /\ turn'.peers = turn.peers /\ turn'.clash = c
                /\ turn'.channelNum = turn.channelNum /\ turn'.added = turn.added
           /\ turn' = [turn EXCEPT !.channelNum = n, !.added = a, !.clash = c] =>
                /\ turn' \in TurnRecord(0 .. conns) /\ Same(turn', turn) /\ SameState(turn', turn)
                /\ SameThread(turn', turn) /\ turn'.peers = turn.peers /\ turn'.clash = c
                /\ turn'.channelNum = n /\ turn'.added = a
<1>1. turn \in TurnRecord(0 .. conns)
  BY Idents
<1>2. ASSUME turn' = [turn EXCEPT !.clash = c]
      PROVE  /\ turn' \in TurnRecord(0 .. conns) /\ Same(turn', turn) /\ SameState(turn', turn)
             /\ SameThread(turn', turn) /\ turn'.peers = turn.peers /\ turn'.clash = c
             /\ turn'.channelNum = turn.channelNum /\ turn'.added = turn.added
  BY <1>1, <1>2, ZenonT(60) DEF TurnRecord, Same, SameState, SameThread
<1>3. ASSUME turn' = [turn EXCEPT !.channelNum = n, !.added = a, !.clash = c]
      PROVE  /\ turn' \in TurnRecord(0 .. conns) /\ Same(turn', turn) /\ SameState(turn', turn)
             /\ SameThread(turn', turn) /\ turn'.peers = turn.peers /\ turn'.clash = c
             /\ turn'.channelNum = n /\ turn'.added = a
  BY <1>1, <1>3, ZenonT(60) DEF TurnRecord, Same, SameState, SameThread
<1> QED BY <1>2, <1>3

LEMMA NumberPeerDoes ==
    ASSUME Typed, NEW s \in Session, NumberPeer(s)
    PROVE  TypedNext /\ Numbers(s)
<1>1. /\ turn.channelNum \in Nat /\ turn.added \in Nat /\ turn.clash \in BOOLEAN
      /\ sess[s].turnconn \in 0 .. conns /\ sess[s].loaded \in Nat /\ sess[s].channel \in Nat
      /\ 0 .. conns \subseteq 0 .. conns /\ 0 \in Nat
  BY Idents, TurnFields
<1>2. {"next", "numbered", "insert"} \subseteq SessPc
  BY DEF SessPc, Adding
<1>3. Holds(s) /\ UNCHANGED <<count, conns, server, torn>>
  BY DEF NumberPeer
<1> DEFINE c == turn.clash \/ turn.channelNum # sess[s].channel
           d == turn.clash \/ turn.channelNum # sess[s].loaded
           n == sess[s].loaded + 1
           a == turn.added + 1
<1>4. c \in BOOLEAN /\ d \in BOOLEAN /\ n \in Nat /\ a \in Nat
  BY <1>1
<1>5. ASSUME sess' \in [Session -> SessRecord(0 .. conns)], turn' \in TurnRecord(0 .. conns)
      PROVE  TypedNext
  BY <1>3, <1>5 DEF TypedNext, Typed
<1>6. CASE /\ sess[s].pc = "number"
           /\ sess' = [sess EXCEPT ![s].pc = "next", ![s].channel = turn.channelNum]
           /\ turn' = [turn EXCEPT !.clash = c]
  <2>1. /\ turn' \in TurnRecord(0 .. conns) /\ Same(turn', turn) /\ SameState(turn', turn)
        /\ SameThread(turn', turn) /\ turn'.peers = turn.peers /\ turn'.clash = c
        /\ turn'.channelNum = turn.channelNum /\ turn'.added = turn.added
    <3> HIDE DEF c
    <3> QED BY <1>4, <1>6, Clashes
  <2>2. /\ sess' \in [Session -> SessRecord(0 .. conns)]
        /\ Moves(s, "next", sess[s].turnconn, turn.channelNum, sess[s].loaded)
    <3> HIDE DEF Moves, c
    <3> QED BY <1>1, <1>2, <1>6, SessIs
  <2>3. Numbers(s)
    <3> HIDE DEF Moves, Same, SameState, SameThread, Holds
    <3> QED BY <1>3, <1>6, <2>1, <2>2 DEF Numbers
  <2> QED BY <1>5, <2>1, <2>2, <2>3
<1>7. CASE sess[s].pc = "next" /\ GoesWith(s, "numbered", turn.channelNum)
           /\ turn' = [turn EXCEPT !.clash = c]
  <2>1. /\ turn' \in TurnRecord(0 .. conns) /\ Same(turn', turn) /\ SameState(turn', turn)
        /\ SameThread(turn', turn) /\ turn'.peers = turn.peers /\ turn'.clash = c
        /\ turn'.channelNum = turn.channelNum /\ turn'.added = turn.added
    <3> HIDE DEF c
    <3> QED BY <1>4, <1>7, Clashes
  <2>2. /\ sess' \in [Session -> SessRecord(0 .. conns)]
        /\ Moves(s, "numbered", sess[s].turnconn, sess[s].channel, turn.channelNum)
    <3> HIDE DEF Moves, c, GoesWith
    <3> QED BY <1>1, <1>2, <1>7, GoesWithIs
  <2>3. Numbers(s)
    <3> HIDE DEF Moves, Same, SameState, SameThread, Holds
    <3> QED BY <1>3, <1>7, <2>1, <2>2 DEF Numbers
  <2> QED BY <1>5, <2>1, <2>2, <2>3
<1>8. CASE sess[s].pc = "numbered" /\ GoesWith(s, "insert", 0)
           /\ turn' = [turn EXCEPT !.channelNum = n, !.added = a, !.clash = d]
  <2>1. /\ turn' \in TurnRecord(0 .. conns) /\ Same(turn', turn) /\ SameState(turn', turn)
        /\ SameThread(turn', turn) /\ turn'.peers = turn.peers /\ turn'.clash = d
        /\ turn'.channelNum = n /\ turn'.added = a
    <3> HIDE DEF d, n, a
    <3> QED BY <1>4, <1>8, Clashes
  <2>2. /\ sess' \in [Session -> SessRecord(0 .. conns)]
        /\ Moves(s, "insert", sess[s].turnconn, sess[s].channel, 0)
    <3> HIDE DEF Moves, d, n, a, GoesWith
    <3> QED BY <1>1, <1>2, <1>8, GoesWithIs
  <2>3. Numbers(s)
    <3> HIDE DEF Moves, Same, SameState, SameThread, Holds
    <3> QED BY <1>3, <1>8, <2>1, <2>2 DEF Numbers
  <2> QED BY <1>5, <2>1, <2>2, <2>3
<1> HIDE DEF TypedNext, Numbers, GoesWith
<1> QED BY <1>6, <1>7, <1>8 DEF NumberPeer

LEMMA NewPeerIs ==
    ASSUME Typed, NEW s \in Session, NEW q, q = Append(turn.peers, NewPeer(s))
    PROVE  /\ NewPeer(s) \in PeerRecord
           /\ q \in Seq(PeerRecord) /\ Len(q) = Len(turn.peers) + 1
           /\ DOMAIN q = DOMAIN turn.peers \cup {Len(q)} /\ q[Len(q)] = NewPeer(s)
           /\ Len(q) \notin DOMAIN turn.peers
           /\ \A i \in DOMAIN turn.peers : q[i] = turn.peers[i]
<1>1. turn.peers \in Seq(PeerRecord) /\ sess[s].channel \in Nat
  BY Idents, TurnFields
<1>2. NewPeer(s) \in PeerRecord
  <2>1. Permission \in PeerStates /\ FALSE \in BOOLEAN
    BY DEF PeerStates
  <2> QED BY <1>1, <2>1, ZenonT(30) DEF NewPeer, PeerRecord
<1> HIDE DEF NewPeer
<1>3. /\ q \in Seq(PeerRecord) /\ Len(q) = Len(turn.peers) + 1 /\ q[Len(q)] = NewPeer(s)
      /\ \A i \in 1 .. Len(turn.peers) : q[i] = turn.peers[i]
      /\ Len(turn.peers) \in Nat /\ DOMAIN q = 1 .. Len(q)
      /\ DOMAIN turn.peers = 1 .. Len(turn.peers)
  BY <1>1, <1>2, AppendProperties, LenProperties
<1> QED BY <1>2, <1>3

LEMMA AddPeerDoes ==
    ASSUME Typed, NEW s \in Session, AddPeer(s)
    PROVE  TypedNext /\ Adds(s)
<1>1. /\ turn \in TurnRecord(0 .. conns) /\ 0 \in Nat /\ 0 .. conns \subseteq 0 .. conns
      /\ sess[s].turnconn \in 0 .. conns /\ sess[s].loaded \in Nat
  BY Idents
<1>2. Append(turn.peers, NewPeer(s)) \in Seq(PeerRecord)
  BY NewPeerIs
<1> DEFINE q == Append(turn.peers, NewPeer(s))
<1>3. turn' = [turn EXCEPT !.peers = q]
  BY DEF AddPeer, NewPeer
<1>4. /\ turn' \in TurnRecord(0 .. conns) /\ Same(turn', turn) /\ SameNumbers(turn', turn)
      /\ SameState(turn', turn) /\ SameThread(turn', turn) /\ turn'.peers = q
  <2>1. q \in Seq(PeerRecord)
    BY <1>2
  <2> HIDE DEF q
  <2> QED BY <1>1, <1>3, <2>1, ZenonT(60) DEF TurnRecord, Same, SameNumbers, SameState, SameThread
<1>5. "ready" \in SessPc
  BY DEF SessPc
<1>6. sess' = [sess EXCEPT ![s].pc = "ready", ![s].channel = 0]
  BY DEF AddPeer
<1>7. /\ sess' \in [Session -> SessRecord(0 .. conns)]
      /\ Moves(s, "ready", sess[s].turnconn, 0, sess[s].loaded)
  <2> HIDE DEF Moves
  <2> QED BY <1>1, <1>5, <1>6, SessIs
<1> QED BY <1>4, <1>7 DEF TypedNext, Typed, Adds, AddPeer

LEMMA RemovedIs ==
    ASSUME Typed, NEW s \in Session
    PROVE  Removed(s) \in TurnRecord(0 .. conns) /\ Loses(Removed(s), turn)
<1> DEFINE found == {i \in DOMAIN turn.peers : turn.peers[i].uid = s}
           i == CHOOSE i \in found : \A j \in found : i <= j
<1>1. turn \in TurnRecord(0 .. conns) /\ turn.peers \in Seq(PeerRecord)
  BY Idents, TurnFields
<1>2. CASE found = {}
  BY <1>1, <1>2 DEF Removed, Loses, SameState, SameThread
<1>3. CASE found # {}
  <2>1. found \in SUBSET Nat
    BY <1>1, LenProperties
  <2>2. \E k \in found : \A j \in found : k <= j
    BY <1>3, <2>1, LeastExists
  <2>3. i \in found
    BY <2>2
  <2>4. i \in DOMAIN turn.peers
    BY <2>3
  <2> HIDE DEF i
  <2>5. RemoveAt(turn.peers, i) \in Seq(PeerRecord) /\ turn.peers[i] \in PeerRecord
    BY <1>1, <2>4, RemoveAtIs, LenProperties
  <2> DEFINE q == RemoveAt(turn.peers, i)
             c == turn.peers[i].channelNumber
  <2>6. c \in Nat
    BY <2>5, ZenonT(30) DEF PeerRecord
  <2>7. Removed(s) = [turn EXCEPT !.turnLock = TRUE, !.channelNum = c, !.peers = q]
    BY <1>3, Zenon DEF Removed, i
  <2>8. ASSUME NEW x, x = [turn EXCEPT !.turnLock = TRUE, !.channelNum = c, !.peers = q]
        PROVE  /\ x \in TurnRecord(0 .. conns) /\ x.id = turn.id /\ x.made = turn.made
               /\ x.added = turn.added /\ x.clash = turn.clash /\ x.channelNum = c
               /\ x.turnLock /\ x.peers = q /\ SameState(x, turn) /\ SameThread(x, turn)
    <3>1. q \in Seq(PeerRecord) /\ TRUE \in BOOLEAN
      BY <2>5
    <3> HIDE DEF q, c
    <3> QED BY <1>1, <2>6, <2>8, <3>1, ZenonT(60) DEF TurnRecord, SameState, SameThread
  <2> HIDE DEF found
  <2> QED BY <2>4, <2>7, <2>8 DEF Loses
<1> QED BY <1>2, <1>3

LEMMA RemovePeerDoes ==
    ASSUME Typed, NEW s \in Session, RemovePeer(s)
    PROVE  TypedNext /\ Removes(s)
<1>1. "uncount" \in SessPc
  BY DEF SessPc
<1>2. sess' \in [Session -> SessRecord(0 .. conns)] /\ Steps(s, "uncount")
  BY <1>1, GoesIs DEF RemovePeer
<1>3. turn' \in TurnRecord(0 .. conns) /\ Loses(turn', turn)
  BY RemovedIs DEF RemovePeer
<1> QED BY <1>2, <1>3 DEF TypedNext, Typed, Removes, RemovePeer

LEMMA UncountTurnDoes ==
    ASSUME Typed, PublishInv, NEW s \in Session, UncountTurn(s)
    PROVE  TypedNext /\ (Went(s) \/ Uncounts(s))
<1>0. count \in Nat /\ 0 \in Nat /\ sess[s].loaded \in Nat
  BY Idents
<1>1. CASE sess[s].pc = "uncount" /\ GoesWith(s, "uncounted", count) /\ UNCHANGED <<count, torn>>
  <2>1. "uncounted" \in SessPc
    BY DEF SessPc
  <2>2. /\ sess' \in [Session -> SessRecord(0 .. conns)]
        /\ Moves(s, "uncounted", sess[s].turnconn, sess[s].channel, count)
    BY <1>0, <1>1, <2>1, GoesWithIs
  <2>3. Went(s)
    BY <1>0, <1>1, <2>1, <2>2 DEF Went, UncountTurn
  <2> QED BY <1>1, <2>2, <2>3 DEF TypedNext, Typed, UncountTurn
<1>2. CASE /\ sess[s].pc = "uncounted" /\ GoesWith(s, "last", 0) /\ count' = sess[s].loaded - 1
           /\ torn' = (count # sess[s].loaded)
  <2>1. "last" \in SessPc
    BY DEF SessPc
  <2>2. /\ sess' \in [Session -> SessRecord(0 .. conns)]
        /\ Moves(s, "last", sess[s].turnconn, sess[s].channel, 0)
    BY <1>0, <1>2, <2>1, GoesWithIs
  <2>3. count' \in Nat /\ torn' \in BOOLEAN
    BY <1>0, <1>2 DEF PublishInv
  <2> QED BY <1>2, <2>2, <2>3 DEF TypedNext, Typed, Uncounts, UncountTurn
<1> QED BY <1>1, <1>2 DEF UncountTurn

LEMMA DestroyIceDoes ==
    ASSUME Typed, NEW s \in Session, DestroyIce(s)
    PROVE  TypedNext /\ (Halted(s) \/ Leaves(s))
<1>1. CASE /\ count = 0 /\ Stop /\ Goes(s, "destroy")
           /\ torn' = (\E o \in Session : sess[o].pc \in Getting)
  <2>1. "destroy" \in SessPc
    BY DEF SessPc
  <2>2. sess' \in [Session -> SessRecord(0 .. conns)] /\ Steps(s, "destroy")
    BY <1>1, <2>1, GoesIs
  <2>3. torn' \in BOOLEAN
    BY <1>1
  <2> QED BY <1>1, <2>2, <2>3, StopDoes DEF TypedNext, Typed, Halted, DestroyIce
<1>2. CASE /\ count # 0 /\ sess' = [sess EXCEPT ![s].pc = "gone", ![s].turnconn = 0]
           /\ UNCHANGED <<turn, server, torn>>
  <2>1. /\ "gone" \in SessPc /\ 0 \in 0 .. conns /\ 0 .. conns \subseteq 0 .. conns
        /\ sess[s].channel \in Nat /\ sess[s].loaded \in Nat
    BY Idents DEF SessPc
  <2>2. /\ sess' \in [Session -> SessRecord(0 .. conns)]
        /\ Moves(s, "gone", 0, sess[s].channel, sess[s].loaded)
    <3> HIDE DEF Moves
    <3> QED BY <1>2, <2>1, SessIs
  <2> QED BY <1>2, <2>2 DEF TypedNext, Typed, Leaves, DestroyIce
<1> QED BY <1>1, <1>2 DEF DestroyIce

LEMMA FreeTurnDoes ==
    ASSUME Typed, NEW s \in Session, FreeTurn(s)
    PROVE  TypedNext /\ Frees(s)
<1> DEFINE to == IF sess[s].pc = "closeTurn" THEN "other" ELSE "gone"
<1>1. /\ to \in SessPc /\ 0 \in 0 .. conns /\ 0 .. conns \subseteq 0 .. conns
      /\ sess[s].channel \in Nat /\ sess[s].loaded \in Nat
  BY Idents DEF SessPc
<1>2. sess' = [sess EXCEPT ![s].pc = to, ![s].turnconn = 0]
  <2>1. sess' = [sess EXCEPT ![s].turnconn = 0,
                             ![s].pc = IF @ = "closeTurn" THEN "other" ELSE "gone"]
    BY DEF FreeTurn
  <2>2. sess[s] \in SessRecord(0 .. conns) /\ sess \in [Session -> SessRecord(0 .. conns)]
    BY SessFields DEF Typed
  <2> DEFINE r == [sess[s] EXCEPT !.turnconn = 0, !.pc = to]
  <2>3. r = [sess[s] EXCEPT !.pc = to, !.turnconn = 0]
    <3> HIDE DEF to
    <3> QED BY <2>2 DEF SessRecord, r
  <2>4. sess' = [sess EXCEPT ![s] = r]
    BY <2>1, <2>2
  <2> HIDE DEF r
  <2> QED BY <2>2, <2>3, <2>4
<1>3. sess' \in [Session -> SessRecord(0 .. conns)] /\ Moves(s, to, 0, sess[s].channel, sess[s].loaded)
  <2> HIDE DEF Moves, to
  <2> QED BY <1>1, <1>2, SessIs
<1>4. Connection(0, FALSE) \in TurnRecord(0 .. conns)
  BY <1>1, ConnectionIs
<1> QED BY <1>3, <1>4, Idents DEF TypedNext, Typed, Frees, FreeTurn

\* Threads, requests and answers leave the sessions and the count alone.
Quiet == UNCHANGED <<sess, count, conns, torn>>

LEMMA QuietTyped ==
    ASSUME Typed, Quiet, turn' \in TurnRecord(0 .. conns), server' \in ServerRecord
    PROVE  TypedNext
BY DEF Typed, Quiet, TypedNext

LEMMA LoopThreadDoes ==
    ASSUME Typed, LoopThread
    PROVE  TypedNext /\ Runs
<1>1. turn \in TurnRecord(0 .. conns)
  BY Idents
<1>2. {"starting", "run", "none"} \subseteq Threads /\ TRUE \in BOOLEAN /\ FALSE \in BOOLEAN
  BY DEF Threads
<1>3. ASSUME NEW x, x = [turn EXCEPT !.thread = "starting", !.isStart = TRUE]
      PROVE  /\ x \in TurnRecord(0 .. conns) /\ Same(x, turn) /\ SameNumbers(x, turn)
             /\ SameState(x, turn) /\ x.peers = turn.peers /\ x.lost = turn.lost
             /\ x.thread = "starting" /\ x.isStart
  BY <1>1, <1>2, <1>3, ZenonT(60) DEF TurnRecord, Same, SameNumbers, SameState
<1>4. ASSUME NEW x, x = [turn EXCEPT !.thread = "run", !.isLoop = TRUE]
      PROVE  /\ x \in TurnRecord(0 .. conns) /\ Same(x, turn) /\ SameNumbers(x, turn)
             /\ SameState(x, turn) /\ x.peers = turn.peers /\ x.lost = turn.lost
             /\ x.thread = "run"
  BY <1>1, <1>2, <1>4, ZenonT(60) DEF TurnRecord, Same, SameNumbers, SameState
<1>5. ASSUME NEW x, x = [turn EXCEPT !.thread = "none", !.isStart = FALSE]
      PROVE  /\ x \in TurnRecord(0 .. conns) /\ Same(x, turn) /\ SameNumbers(x, turn)
             /\ SameState(x, turn) /\ x.peers = turn.peers /\ x.lost = turn.lost
             /\ x.thread = "none" /\ ~x.isStart /\ x.isLoop = turn.isLoop
  BY <1>1, <1>2, <1>5, ZenonT(60) DEF TurnRecord, Same, SameNumbers, SameState
<1>6. Quiet /\ server' = server /\ server' \in ServerRecord
  BY Idents DEF LoopThread, Quiet
<1>7. CASE turn.thread = "created" /\ turn' = [turn EXCEPT !.thread = "starting", !.isStart = TRUE]
  BY <1>3, <1>6, <1>7, QuietTyped DEF Runs, Loops, Quiet
<1>8. CASE turn.thread = "starting" /\ turn' = [turn EXCEPT !.thread = "run", !.isLoop = TRUE]
  BY <1>4, <1>6, <1>8, QuietTyped DEF Runs, Loops, Quiet
<1>9. CASE turn.thread = "run" /\ turn' = [turn EXCEPT !.thread = "none", !.isStart = FALSE]
  BY <1>5, <1>6, <1>9, QuietTyped DEF Runs, Loops, Quiet
<1> QED BY <1>7, <1>8, <1>9 DEF LoopThread

\* A request is only heard and changes the server.
LEMMA AnsweredIs ==
    ASSUME server \in ServerRecord, NEW kind \in Answers, NEW a \in BOOLEAN,
           NEW b \in SUBSET (Nat \X Session)
    PROVE  /\ Answered(kind) =>
                /\ server' \in ServerRecord /\ server'.answers = server.answers \cup {kind}
                /\ server'.bound = server.bound
           /\ server' = [server EXCEPT !.answers = @ \cup {kind}, !.allocated = a] =>
                /\ server' \in ServerRecord /\ server'.answers = server.answers \cup {kind}
                /\ server'.bound = server.bound
           /\ server' = [server EXCEPT !.answers = @ \cup {kind}, !.bound = b] =>
                /\ server' \in ServerRecord /\ server'.answers = server.answers \cup {kind}
                /\ server'.bound = b
<1>1. server.answers \cup {kind} \in SUBSET Answers
  <2>1. server.answers \in SUBSET Answers
    BY ZenonT(30) DEF ServerRecord
  <2> QED BY <2>1
<1> DEFINE k == server.answers \cup {kind}
<1>2. ASSUME NEW x, x = [server EXCEPT !.answers = k]
      PROVE  x \in ServerRecord /\ x.answers = k /\ x.bound = server.bound
  <2> HIDE DEF k
  <2> QED BY <1>1, <1>2, ZenonT(30) DEF ServerRecord, k
<1>3. ASSUME NEW x, x = [server EXCEPT !.answers = k, !.allocated = a]
      PROVE  x \in ServerRecord /\ x.answers = k /\ x.bound = server.bound
  BY <1>1, <1>3, ZenonT(30) DEF ServerRecord
<1>4. ASSUME NEW x, x = [server EXCEPT !.answers = k, !.bound = b]
      PROVE  x \in ServerRecord /\ x.answers = k /\ x.bound = b
  BY <1>1, <1>4, ZenonT(30) DEF ServerRecord
<1> QED BY <1>2, <1>3, <1>4 DEF Answered

LEMMA RequestDoes ==
    ASSUME Typed, Request
    PROVE  TypedNext /\ Runs
<1>1. /\ server \in ServerRecord /\ turn \in TurnRecord(0 .. conns)
      /\ Quiet /\ turn' = turn /\ turn.thread = "run"
  BY Idents DEF Request, Quiet
<1>2. CASE \E kind \in Answers \ {"permission", "bound"} :
              /\ server' \in ServerRecord /\ server'.answers = server.answers \cup {kind}
              /\ server'.bound = server.bound
  <2>1. server'.answers \cap {"permission", "bound"} = server.answers \cap {"permission", "bound"}
    BY <1>2
  <2> QED BY <1>1, <1>2, <2>1, QuietTyped DEF Runs, Asked, Quiet
<1>3. CASE turn.state = Close /\ server' = [server EXCEPT !.allocated = FALSE, !.bound = {}]
  <2>1. {} \in SUBSET (Nat \X Session) /\ FALSE \in BOOLEAN
    OBVIOUS
  <2>2. server' \in ServerRecord /\ server'.answers = server.answers /\ server'.bound = {}
    BY <1>1, <1>3, <2>1, ZenonT(30) DEF ServerRecord
  <2> QED BY <1>1, <1>3, <2>2, QuietTyped DEF Runs, Asked, Quiet
<1>4. /\ "binding" \in Answers \ {"permission", "bound"} /\ TRUE \in BOOLEAN
      /\ "challenge" \in Answers \ {"permission", "bound"}
      /\ "allocated" \in Answers \ {"permission", "bound"}
      /\ {} \in SUBSET (Nat \X Session)
  BY DEF Answers
<1>5. CASE Answered("binding")
  BY <1>1, <1>2, <1>4, <1>5, AnsweredIs
<1>6. CASE Answered("challenge")
  BY <1>1, <1>2, <1>4, <1>6, AnsweredIs
<1>7. CASE server' = [server EXCEPT !.answers = @ \cup {"allocated"}, !.allocated = TRUE]
  BY <1>1, <1>2, <1>4, <1>7, AnsweredIs
<1> QED BY <1>3, <1>5, <1>6, <1>7 DEF Request

LEMMA PeerRequestDoes ==
    ASSUME Typed, NEW s \in Session, PeerRequest(s)
    PROVE  TypedNext /\ Runs
<1>1. /\ server \in ServerRecord /\ turn \in TurnRecord(0 .. conns)
      /\ Quiet /\ turn' = turn /\ turn.thread = "run"
  BY Idents DEF PeerRequest, Quiet
<1>2. PICK p \in ToSet(turn.peers) :
        \/ Answered("permission")
        \/ /\ \A b \in server.bound : b[1] = p.channelNumber <=> b[2] = p.uid
           /\ server' = [server EXCEPT !.answers = @ \cup {"bound"},
                                       !.bound = @ \cup {<<p.channelNumber, p.uid>>}]
  BY DEF PeerRequest
<1>3. /\ "permission" \in Answers /\ "bound" \in Answers /\ TRUE \in BOOLEAN
      /\ {} \in SUBSET (Nat \X Session)
  BY DEF Answers
<1>4. p \in PeerRecord
  <2>1. turn.peers \in Seq(PeerRecord)
    BY <1>1, TurnFields
  <2> QED BY <2>1, LenProperties DEF ToSet
<1> DEFINE b == server.bound \cup {<<p.channelNumber, p.uid>>}
<1>5. b \in SUBSET (Nat \X Session)
  <2>1. p.channelNumber \in Nat /\ p.uid \in Session
    BY <1>4, ZenonT(30) DEF PeerRecord
  <2>2. server.bound \in SUBSET (Nat \X Session)
    BY <1>1, ZenonT(30) DEF ServerRecord
  <2> QED BY <2>1, <2>2
<1>6. CASE Answered("permission")
  <2>1. /\ server' \in ServerRecord /\ server'.answers = server.answers \cup {"permission"}
        /\ server'.bound = server.bound
    BY <1>1, <1>3, <1>6, AnsweredIs
  <2> QED BY <1>1, <2>1, QuietTyped DEF Runs, Asked, Quiet
<1>7. CASE /\ \A c \in server.bound : c[1] = p.channelNumber <=> c[2] = p.uid
           /\ server' = [server EXCEPT !.answers = @ \cup {"bound"}, !.bound = b]
  <2>1. /\ server' \in ServerRecord /\ server'.answers = server.answers \cup {"bound"}
        /\ server'.bound = b
    BY <1>1, <1>3, <1>5, <1>7, AnsweredIs
  <2> QED BY <1>1, <1>7, <2>1, QuietTyped DEF Runs, Asked, Quiet
<1> QED BY <1>2, <1>6, <1>7

LEMMA RenewDoes ==
    ASSUME Typed, Renew
    PROVE  TypedNext /\ Runs
<1>1. /\ server \in ServerRecord /\ turn \in TurnRecord(0 .. conns)
      /\ Quiet /\ server' = server /\ turn.state = Ready
  BY Idents DEF Renew, Quiet
<1> DEFINE v == IF turn.permissionCount >= 2 THEN BindChannel ELSE Permission
<1>2. PICK i \in DOMAIN turn.peers : turn' = [turn EXCEPT !.peers[i].state = v]
  BY DEF Renew
<1>3. v \in PeerStates /\ v # Ready
  BY DEF PeerStates, Permission, BindChannel, Ready
<1> HIDE DEF v
<1>4. turn.peers \in Seq(PeerRecord) /\ i \in 1 .. Len(turn.peers) /\ turn.peers[i] \in PeerRecord
  BY <1>1, TurnFields, LenProperties
<1> DEFINE p == [turn.peers[i] EXCEPT !.state = v]
           q == [turn.peers EXCEPT ![i] = p]
<1>5. /\ p \in PeerRecord /\ p.uid = turn.peers[i].uid /\ p.state = v
      /\ p.channelNumber = turn.peers[i].channelNumber
  <2>1. p = [turn.peers[i] EXCEPT !.state = v]
    OBVIOUS
  <2> HIDE DEF p
  <2> QED BY <1>3, <1>4, <2>1, ZenonT(30) DEF PeerRecord
<1>6. turn' = [turn EXCEPT !.peers = q]
  BY <1>2
<1> HIDE DEF p
<1>7. /\ q \in Seq(PeerRecord) /\ Len(q) = Len(turn.peers)
      /\ \A j \in 1 .. Len(turn.peers) : q[j] = IF j = i THEN p ELSE turn.peers[j]
  BY <1>4, <1>5, ExceptSeq
<1> HIDE DEF q
<1>8. /\ turn' \in TurnRecord(0 .. conns) /\ Same(turn', turn) /\ SameState(turn', turn)
      /\ SameNumbers(turn', turn) /\ SameThread(turn', turn) /\ turn'.peers = q
  BY <1>1, <1>6, <1>7, ZenonT(60) DEF TurnRecord, Same, SameState, SameNumbers, SameThread
<1>9. DOMAIN q = DOMAIN turn.peers /\ DOMAIN turn.peers = 1 .. Len(turn.peers)
  BY <1>4, <1>7, LenProperties
<1>10. SamePeers
  BY <1>5, <1>7, <1>8, <1>9 DEF SamePeers
<1>11. \A j \in DOMAIN turn.peers : turn'.peers[j].state = Ready => turn.peers[j].state = Ready
  BY <1>3, <1>5, <1>7, <1>8, <1>9
<1>12. SameButState
  BY <1>8, <1>10 DEF SameButState, SameState
<1> QED BY <1>1, <1>8, <1>11, <1>12, QuietTyped DEF Runs, Renews, Quiet

LEMMA PromoteIs ==
    ASSUME turn.peers \in Seq(PeerRecord), NEW from, NEW to \in PeerStates
    PROVE  LET q == Promote(from, to)
           IN  /\ q \in Seq(PeerRecord) /\ Len(q) = Len(turn.peers)
               /\ DOMAIN q = DOMAIN turn.peers
               /\ \A i \in DOMAIN turn.peers :
                    /\ q[i].uid = turn.peers[i].uid
                    /\ q[i].channelNumber = turn.peers[i].channelNumber
                    /\ q[i].state = IF turn.peers[i].state = from THEN to ELSE turn.peers[i].state
<1>1. DOMAIN turn.peers = 1 .. Len(turn.peers) /\ Len(turn.peers) \in Nat
      /\ \A i \in DOMAIN turn.peers : turn.peers[i] \in PeerRecord
  BY LenProperties
<1>2. ASSUME NEW i \in DOMAIN turn.peers, NEW x,
             x = IF turn.peers[i].state = from
                 THEN [turn.peers[i] EXCEPT !.state = to, !.timed = TRUE]
                 ELSE turn.peers[i]
      PROVE  /\ x \in PeerRecord /\ x.uid = turn.peers[i].uid
             /\ x.channelNumber = turn.peers[i].channelNumber
             /\ x.state = IF turn.peers[i].state = from THEN to ELSE turn.peers[i].state
  <2>1. turn.peers[i] \in PeerRecord
    BY <1>1
  <2>2. CASE turn.peers[i].state = from
    <3>1. x = [turn.peers[i] EXCEPT !.state = to, !.timed = TRUE]
      BY <1>2, <2>2
    <3>2. /\ x \in PeerRecord /\ x.uid = turn.peers[i].uid /\ x.state = to
          /\ x.channelNumber = turn.peers[i].channelNumber
      BY <2>1, <3>1, ZenonT(30) DEF PeerRecord
    <3> QED BY <2>2, <3>2
  <2>3. CASE turn.peers[i].state # from
    BY <1>2, <2>1, <2>3
  <2> QED BY <2>2, <2>3
<1> DEFINE q == Promote(from, to)
<1>3. DOMAIN q = 1 .. Len(turn.peers) /\ q \in [1 .. Len(turn.peers) -> PeerRecord]
  BY <1>1, <1>2 DEF Promote
<1>4. q \in Seq(PeerRecord)
  BY <1>1, <1>3
<1>5. Len(q) = Len(turn.peers)
  BY <1>1, <1>3, <1>4, LenProperties
<1>6. ASSUME NEW i \in DOMAIN turn.peers
      PROVE  q[i] = IF turn.peers[i].state = from
                    THEN [turn.peers[i] EXCEPT !.state = to, !.timed = TRUE]
                    ELSE turn.peers[i]
  BY DEF Promote
<1> HIDE DEF q
<1>7. ASSUME NEW i \in DOMAIN turn.peers
      PROVE  /\ q[i].uid = turn.peers[i].uid
             /\ q[i].channelNumber = turn.peers[i].channelNumber
             /\ q[i].state = IF turn.peers[i].state = from THEN to ELSE turn.peers[i].state
  BY <1>2, <1>6
<1> QED BY <1>1, <1>3, <1>4, <1>5, <1>7 DEF q

\* What an answer does to the connection.
Learns(kind) ==
    /\ turn' \in TurnRecord(0 .. conns) /\ SameButState
    /\ \/ /\ turn'.peers = turn.peers /\ turn'.back = turn.back
          /\ \/ turn'.state = IF turn.state = New THEN Credential ELSE turn.state
             \/ turn'.state = AtLeast(Allocate)
       \/ /\ turn'.peers = turn.peers
          /\ turn'.state = IF turn.state = Credential THEN Allocate ELSE Permission
          /\ turn'.back = (turn.back \/ turn.state > Permission)
       \/ /\ kind = "permission" /\ Shifts(Permission, BindChannel)
          /\ turn'.state = AtLeast(BindChannel) /\ turn'.back = turn.back
       \/ /\ kind = "bound" /\ Shifts(BindChannel, Ready)
          /\ turn'.state = AtLeast(Ready) /\ turn'.back = turn.back

LEMMA StatesAre ==
    ASSUME Typed
    PROVE  /\ turn \in TurnRecord(0 .. conns) /\ turn.state \in States
           /\ Credential \in States /\ Allocate \in States /\ Permission \in States
           /\ AtLeast(Allocate) \in States /\ AtLeast(BindChannel) \in States
           /\ AtLeast(Ready) \in States
           /\ turn.peers \in Seq(PeerRecord)
<1>1. turn \in TurnRecord(0 .. conns) /\ turn.state \in States /\ turn.peers \in Seq(PeerRecord)
  BY Idents, TurnFields
<1> QED BY <1>1 DEF States, AtLeast, New, Credential, Allocate, Permission, BindChannel, Ready, Close

\* Only the state, with or without the mark of history.
LEMMA StateOnly ==
    ASSUME Typed, NEW st \in States, NEW b \in BOOLEAN
    PROVE  /\ turn' = [turn EXCEPT !.state = st] =>
                /\ turn' \in TurnRecord(0 .. conns) /\ SameButState /\ turn'.state = st
                /\ turn'.back = turn.back /\ turn'.peers = turn.peers
           /\ turn' = [turn EXCEPT !.state = st, !.back = b] =>
                /\ turn' \in TurnRecord(0 .. conns) /\ SameButState /\ turn'.state = st
                /\ turn'.back = b /\ turn'.peers = turn.peers
<1>1. turn \in TurnRecord(0 .. conns) /\ turn.peers \in Seq(PeerRecord)
  BY StatesAre
<1>2. ASSUME turn'.peers = turn.peers PROVE SamePeers
  BY <1>1, <1>2 DEF SamePeers
<1>3. ASSUME turn' = [turn EXCEPT !.state = st]
      PROVE  /\ turn' \in TurnRecord(0 .. conns) /\ Same(turn', turn) /\ SameNumbers(turn', turn)
             /\ SameThread(turn', turn) /\ turn'.state = st /\ turn'.stopped = turn.stopped
             /\ turn'.back = turn.back /\ turn'.peers = turn.peers
  BY <1>1, <1>3, ZenonT(60) DEF TurnRecord, Same, SameNumbers, SameThread
<1>4. ASSUME turn' = [turn EXCEPT !.state = st, !.back = b]
      PROVE  /\ turn' \in TurnRecord(0 .. conns) /\ Same(turn', turn) /\ SameNumbers(turn', turn)
             /\ SameThread(turn', turn) /\ turn'.state = st /\ turn'.stopped = turn.stopped
             /\ turn'.back = b /\ turn'.peers = turn.peers
  BY <1>1, <1>4, ZenonT(60) DEF TurnRecord, Same, SameNumbers, SameThread
<1> QED BY <1>2, <1>3, <1>4 DEF SameButState

\* The states of the connection and of its peers.
LEMMA PeersToo ==
    ASSUME Typed, NEW st \in States, NEW n \in Permissions, NEW from, NEW to \in PeerStates,
           \/ turn' = [turn EXCEPT !.peers = Promote(from, to), !.state = st]
           \/ turn' = [turn EXCEPT !.peers = Promote(from, to), !.state = st, !.permissionCount = n]
    PROVE  /\ turn' \in TurnRecord(0 .. conns) /\ SameButState /\ turn'.state = st
           /\ turn'.back = turn.back /\ Shifts(from, to)
<1>1. turn \in TurnRecord(0 .. conns) /\ turn.peers \in Seq(PeerRecord)
  BY StatesAre
<1> DEFINE q == Promote(from, to)
<1>2. /\ q \in Seq(PeerRecord) /\ Len(q) = Len(turn.peers)
      /\ DOMAIN q = DOMAIN turn.peers
      /\ \A i \in DOMAIN turn.peers :
           /\ q[i].uid = turn.peers[i].uid
           /\ q[i].channelNumber = turn.peers[i].channelNumber
           /\ q[i].state = IF turn.peers[i].state = from THEN to ELSE turn.peers[i].state
  BY <1>1, PromoteIs
<1>3. \/ turn' = [turn EXCEPT !.peers = q, !.state = st]
      \/ turn' = [turn EXCEPT !.peers = q, !.state = st, !.permissionCount = n]
  OBVIOUS
<1> HIDE DEF q
<1>4. /\ turn' \in TurnRecord(0 .. conns) /\ Same(turn', turn) /\ SameNumbers(turn', turn)
      /\ SameThread(turn', turn) /\ turn'.state = st
      /\ turn'.stopped = turn.stopped /\ turn'.back = turn.back /\ turn'.peers = q
  <2>1. q \in Seq(PeerRecord)
    BY <1>2
  <2>2. CASE turn' = [turn EXCEPT !.peers = q, !.state = st]
    BY <1>1, <2>1, <2>2, ZenonT(60) DEF TurnRecord, Same, SameNumbers, SameThread
  <2>3. CASE turn' = [turn EXCEPT !.peers = q, !.state = st, !.permissionCount = n]
    BY <1>1, <2>1, <2>3, ZenonT(60) DEF TurnRecord, Same, SameNumbers, SameThread
  <2> QED BY <1>3, <2>2, <2>3
<1> QED BY <1>2, <1>4 DEF SamePeers, Shifts, SameButState

LEMMA ReceiveDoes ==
    ASSUME Typed, NEW kind \in Answers, Receive(kind)
    PROVE  Learns(kind)
<1>1. CASE kind = "binding"
  <2> DEFINE st == IF turn.state = New THEN Credential ELSE turn.state
  <2>1. st \in States
    BY StatesAre
  <2>2. turn' = [turn EXCEPT !.state = st]
    BY <1>1 DEF Receive
  <2> HIDE DEF st
  <2>3. /\ turn' \in TurnRecord(0 .. conns) /\ SameButState /\ turn'.state = st
        /\ turn'.back = turn.back
        /\ turn'.peers = turn.peers
    BY <2>1, <2>2, StateOnly
  <2> QED BY <2>3 DEF Learns, st
<1>2. CASE kind = "challenge"
  <2>1. turn' = [turn EXCEPT !.state = AtLeast(Allocate)]
    BY <1>2 DEF Receive
  <2>2. /\ turn' \in TurnRecord(0 .. conns) /\ SameButState /\ turn'.state = AtLeast(Allocate)
        /\ turn'.back = turn.back
        /\ turn'.peers = turn.peers
    BY <2>1, StatesAre, StateOnly
  <2> QED BY <2>2 DEF Learns
<1>3. CASE kind = "allocated"
  <2> DEFINE st == IF turn.state = Credential THEN Allocate ELSE Permission
             b == turn.back \/ turn.state > Permission
  <2>1. st \in States /\ b \in BOOLEAN
    BY StatesAre, TurnFields
  <2>2. turn' = [turn EXCEPT !.state = st, !.back = b]
    BY <1>3 DEF Receive, OnAllocated
  <2> HIDE DEF st, b
  <2>3. /\ turn' \in TurnRecord(0 .. conns) /\ SameButState /\ turn'.state = st
        /\ turn'.back = b
        /\ turn'.peers = turn.peers
    BY <2>1, <2>2, StateOnly
  <2> QED BY <2>3 DEF Learns, st, b
<1>4. CASE kind = "permission"
  <2> DEFINE n == IF turn.permissionCount < 2 THEN turn.permissionCount + 1 ELSE turn.permissionCount
  <2>1. n \in Permissions /\ BindChannel \in PeerStates /\ AtLeast(BindChannel) \in States
    BY StatesAre, TurnFields DEF Permissions, PeerStates
  <2>2. turn' = [turn EXCEPT !.peers = Promote(Permission, BindChannel),
                             !.state = AtLeast(BindChannel), !.permissionCount = n]
    BY <1>4 DEF Receive, OnPermission
  <2> HIDE DEF n
  <2>3. /\ turn' \in TurnRecord(0 .. conns) /\ SameButState
        /\ turn'.state = AtLeast(BindChannel)
        /\ turn'.back = turn.back
        /\ Shifts(Permission, BindChannel)
    BY <2>1, <2>2, PeersToo
  <2> QED BY <1>4, <2>3 DEF Learns
<1>5. CASE kind = "bound"
  <2>1. 0 \in Permissions /\ Ready \in PeerStates /\ AtLeast(Ready) \in States
    BY StatesAre DEF Permissions, PeerStates
  <2>2. turn' = [turn EXCEPT !.peers = Promote(BindChannel, Ready), !.state = AtLeast(Ready)]
    BY <1>5 DEF Receive, OnBound
  <2>3. /\ turn' \in TurnRecord(0 .. conns) /\ SameButState /\ turn'.state = AtLeast(Ready)
        /\ turn'.back = turn.back
        /\ Shifts(BindChannel, Ready)
    BY <2>1, <2>2, PeersToo
  <2> QED BY <1>5, <2>3 DEF Learns
<1> QED BY <1>1, <1>2, <1>3, <1>4, <1>5 DEF Answers

LEMMA AnswerDoes ==
    ASSUME Typed, NEW kind \in Answers, Answer(kind) \/ LastAnswer(kind)
    PROVE  TypedNext /\ Runs
<1>1. kind \in server.answers /\ turn.id # 0 /\ Learns(kind) /\ Quiet /\ server \in ServerRecord
  BY ReceiveDoes, Idents DEF Answer, LastAnswer, Quiet
<1>2. /\ server' \in ServerRecord /\ server'.bound = server.bound
      /\ server'.answers \subseteq server.answers
  <2> DEFINE k == server.answers \ {kind}
  <2>1. k \in SUBSET Answers
    <3>1. server.answers \in SUBSET Answers
      BY <1>1, ZenonT(30) DEF ServerRecord
    <3> QED BY <3>1
  <2>2. ASSUME server' = [server EXCEPT !.answers = k]
        PROVE  server' \in ServerRecord /\ server'.answers = k /\ server'.bound = server.bound
    BY <1>1, <2>1, <2>2, ZenonT(30) DEF ServerRecord
  <2>3. server' = server \/ server' = [server EXCEPT !.answers = k]
    BY DEF Answer, LastAnswer
  <2> QED BY <1>1, <2>2, <2>3
<1>3. TypedNext
  BY <1>1, <1>2, QuietTyped DEF Learns
<1>4. Told
  BY <1>1, <1>2 DEF Learns, Told
<1> QED BY <1>1, <1>3, <1>4 DEF Runs, Quiet


-----------------------------------------------------------------------------
(* A step of a session, and every step.                                    *)

SessionDoes(s) ==
    \/ Went(s) \/ Makes(s) \/ Creates(s) \/ Counts(s) \/ Starts(s) \/ Halted(s) \/ Numbers(s)
    \/ Adds(s) \/ Removes(s) \/ Uncounts(s) \/ Leaves(s) \/ Frees(s)

StepDoes == Runs \/ \E s \in Session : SessionDoes(s)

LEMMA StepsAre ==
    ASSUME Typed, MakeInv, PublishInv, Next
    PROVE  Typed' /\ ~torn /\ StepDoes
<1> HIDE DEF TypedNext, Runs, MakeInv, PublishInv
<1>1. ASSUME NEW s \in Session, SessionStep(s) \/ BeginDestroy(s)
      PROVE  TypedNext /\ SessionDoes(s)
  BY <1>1, TestTurnDoes, MakeTurnDoes, CreateTurnDoes, CountTurnDoes, InitTurnDoes, AllocatedDoes,
     StoppedDoes, IceHandleDoes, TestChannelDoes, NumberPeerDoes, AddPeerDoes, WaitReadyDoes,
     RemovePeerDoes, UncountTurnDoes, DestroyIceDoes, FreeTurnDoes, BeginDestroyDoes
  DEF SessionStep, SessionDoes
<1>2. ASSUME NEW s \in Session, PeerRequest(s)
      PROVE  TypedNext /\ Runs
  BY <1>2, PeerRequestDoes
<1>3. ASSUME LoopThread \/ Request \/ Renew
      PROVE  TypedNext /\ Runs
  BY <1>3, LoopThreadDoes, RequestDoes, RenewDoes
<1>4. "permission" \in Answers /\ "bound" \in Answers
  BY DEF Answers
<1>5. ASSUME NEW kind \in Answers, Answer(kind) \/ LastAnswer(kind)
      PROVE  TypedNext /\ Runs
  BY <1>5, AnswerDoes
<1>6. TypedNext /\ StepDoes
  BY <1>1, <1>2, <1>3, <1>4, <1>5 DEF Next, StepDoes
<1>7. ~torn
  BY DEF Next
<1> QED BY <1>6, <1>7, TypedNextIs
-----------------------------------------------------------------------------
(* The sessions, their pointers and the count.                             *)

\* The connection after it was made, created or freed.
Anew(id) ==
    /\ turn'.id = id /\ turn'.state = New /\ turn'.peers = <<>> /\ turn'.added = 0
    /\ turn'.channelNum = 0 /\ ~turn'.turnLock /\ ~turn'.stopped /\ ~turn'.back /\ ~turn'.clash
    /\ turn'.thread = "none" /\ ~turn'.isStart /\ ~turn'.isLoop /\ ~turn'.lost

LEMMA NewTurnIs ==
    ASSUME NEW s \in Session
    PROVE  /\ Makes(s) => Anew(conns + 1) /\ ~turn'.made
           /\ Creates(s) => Anew(turn.id) /\ turn'.made
           /\ Frees(s) => Anew(0) /\ ~turn'.made
<1>1. ASSUME NEW id, NEW m \in BOOLEAN, turn' = Connection(id, m)
      PROVE  Anew(id) /\ turn'.made = m
  <2>1. ASSUME NEW c, c = Connection(id, m)
        PROVE  /\ c.id = id /\ c.made = m /\ c.state = New /\ c.peers = <<>>
               /\ c.added = 0 /\ c.channelNum = 0 /\ ~c.turnLock /\ ~c.stopped /\ ~c.back
               /\ ~c.clash /\ c.thread = "none" /\ ~c.isStart /\ ~c.isLoop /\ ~c.lost
    BY <2>1, ZenonT(60) DEF Connection
  <2> HIDE DEF Connection
  <2> QED BY <1>1, <2>1 DEF Anew
<1> QED BY <1>1 DEF Makes, Creates, Frees

\* The global pointer when it is NULL, or not created yet.
LEMMA UnusedIs ==
    ASSUME Typed, NEW m \in BOOLEAN, turn = Connection(turn.id, m)
    PROVE  turn.state = New /\ turn.peers = <<>> /\ turn.added = 0 /\ turn.thread = "none"
           /\ ~turn.isStart
<1>1. turn.id \in 0 .. conns
  BY Idents
<1> QED BY <1>1, ConnectionIs

\* The threads of the connection change no pointer, and do nothing to one that
\* is NULL.
LEMMA RunsKeep ==
    ASSUME Typed, ConnInv, Runs
    PROVE  /\ Same(turn', turn) /\ SameNumbers(turn', turn) /\ turn'.stopped = turn.stopped
           /\ UNCHANGED <<sess, count, conns, torn>>
           /\ turn.id # 0 \/ turn' = turn
<1>1. UNCHANGED <<sess, count, conns, torn>>
  BY DEF Runs
<1>2. turn.id = 0 => turn.thread = "none" /\ turn.state = New
  BY UnusedIs DEF ConnInv
<1>3. CASE Loops
  BY <1>1, <1>2, <1>3 DEF Loops, SameState
<1>4. CASE Asked
  BY <1>1, <1>4 DEF Asked, Same, SameNumbers
<1>5. CASE Told
  BY <1>1, <1>5 DEF Told, SameButState
<1>6. CASE Renews
  BY <1>1, <1>2, <1>6 DEF Renews, SameButState, New, Ready
<1> QED BY <1>3, <1>4, <1>5, <1>6 DEF Runs

LEMMA ConnKept ==
    ASSUME Typed, ConnInv, Fresh, StepDoes
    PROVE  ConnInv'
<1> USE Idents DEF ConnInv, Without, Getting, Steps, Moves, Holds
<1>1. CASE Runs
  BY <1>1, RunsKeep DEF Same
<1>2. ASSUME NEW s \in Session, Went(s) PROVE ConnInv'
  BY <1>2, ZenonT(40) DEF Went
<1>3. ASSUME NEW s \in Session, Makes(s) PROVE ConnInv'
  <2>1. turn'.id = conns + 1 /\ conns' = conns + 1
    BY <1>3, NewTurnIs DEF Makes, Anew
  <2> QED BY <1>3, <2>1 DEF Makes
<1>4. ASSUME NEW s \in Session, Creates(s) PROVE ConnInv'
  <2>1. turn.id # 0 /\ turn.id \in Nat
    BY <1>4 DEF Creates, Fresh
  <2>2. turn'.id = turn.id
    BY <1>4, NewTurnIs DEF Anew
  <2> QED BY <1>4, <2>1, <2>2 DEF Creates
<1>5. ASSUME NEW s \in Session, Counts(s) PROVE ConnInv'
  BY <1>5 DEF Counts, Fresh
<1>6. ASSUME NEW s \in Session, Starts(s) PROVE ConnInv'
  BY <1>6, ZenonT(40) DEF Starts, Same
<1>7. ASSUME NEW s \in Session, Halted(s) PROVE ConnInv'
  BY <1>7, ZenonT(40) DEF Halted, Stops, Same
<1>8. ASSUME NEW s \in Session, Numbers(s) PROVE ConnInv'
  BY <1>8 DEF Numbers, Same
<1>9. ASSUME NEW s \in Session, Adds(s) PROVE ConnInv'
  BY <1>9 DEF Adds, Same
<1>10. ASSUME NEW s \in Session, Removes(s) PROVE ConnInv'
  BY <1>10, ZenonT(40) DEF Removes, Loses
<1>11. ASSUME NEW s \in Session, Uncounts(s) \/ Leaves(s) PROVE ConnInv'
  BY <1>11 DEF Uncounts, Leaves
<1>12. ASSUME NEW s \in Session, Frees(s) PROVE ConnInv'
  <2>1. turn'.id = 0
    BY <1>12, NewTurnIs DEF Anew
  <2> QED BY <1>12, <2>1 DEF Frees
<1> QED BY <1>1, <1>2, <1>3, <1>4, <1>5, <1>6, <1>7, <1>8, <1>9, <1>10, <1>11, <1>12
        DEF StepDoes, SessionDoes

\* Every step but the test and the making of the connection leaves Making alone.
LEMMA MakeKept ==
    ASSUME Typed, ConnInv, MakeInv, StepDoes
    PROVE  MakeInv'
<1> USE DEF Steps, Moves
<1>1. /\ Making \in SUBSET Session /\ Cardinality(Making) \in Nat /\ conns \in Nat
      /\ MaxConns \in Nat
  BY Idents, SetsCount, TurnShareAssumption DEF Making
<1>2. CASE Making' = Making /\ conns' = conns
  BY <1>2 DEF MakeInv
<1>3. CASE Runs
  BY <1>2, <1>3, RunsKeep DEF Making
<1>4. ASSUME NEW s \in Session, Went(s) PROVE MakeInv'
  <2>1. CASE sess[s].pc = "new" /\ sess'[s].pc = "make" /\ conns + Cardinality(Making) < MaxConns
    <3>1. s \notin Making /\ Making' = Making \cup {s} /\ conns' = conns
      BY <1>4, <2>1 DEF Went, Making
    <3>2. Cardinality(Making') = Cardinality(Making) + 1
      BY <1>1, <3>1, Counting
    <3> QED BY <1>1, <2>1, <3>1, <3>2 DEF MakeInv
  <2>2. CASE sess[s].pc # "make" /\ sess'[s].pc # "make"
    BY <1>2, <1>4, <2>2 DEF Went, Making
  <2> QED BY <1>4, <2>1, <2>2 DEF Went
<1>5. ASSUME NEW s \in Session, Makes(s) PROVE MakeInv'
  <2>1. s \in Making /\ Making' = Making \ {s} /\ conns' = conns + 1
    BY <1>5 DEF Makes, Making
  <2>2. Cardinality(Making') = Cardinality(Making) - 1
    BY <1>1, <2>1, Counting
  <2> QED BY <1>1, <2>1, <2>2 DEF MakeInv
<1>6. ASSUME NEW s \in Session, Creates(s) \/ Counts(s) \/ Starts(s) \/ Halted(s) PROVE MakeInv'
  BY <1>2, <1>6 DEF Creates, Counts, Starts, Halted, Making
<1>7. ASSUME NEW s \in Session, Numbers(s) \/ Adds(s) \/ Removes(s) PROVE MakeInv'
  BY <1>2, <1>7 DEF Numbers, Adds, Removes, Making
<1>8. ASSUME NEW s \in Session, Uncounts(s) \/ Leaves(s) \/ Frees(s) PROVE MakeInv'
  BY <1>2, <1>8 DEF Uncounts, Leaves, Frees, Making
<1> QED BY <1>3, <1>4, <1>5, <1>6, <1>7, <1>8 DEF StepDoes, SessionDoes

LEMMA PublishKept ==
    ASSUME Typed, ConnInv, PublishInv, Intact, StepDoes
    PROVE  PublishInv'
<1> USE DEF PublishInv, Publishing, Steps, Moves
<1>1. CASE Runs
  BY <1>1, RunsKeep
<1>2. ASSUME NEW s \in Session, Went(s) PROVE PublishInv'
  <2>1. CASE Holds(s) /\ sess[s].pc = "uncount" /\ sess'[s].loaded = count
    <3>1. count >= 1
      <4>1. s \in Counted
        BY <2>1 DEF Counted
      <4> QED BY <4>1, SetsCount DEF Intact
    <3> QED BY <1>2, <2>1, <3>1 DEF Went
  <2>2. CASE sess[s].pc # "uncount"
    BY <1>2, <2>2, ZenonT(40) DEF Went
  <2> QED BY <1>2, <2>1, <2>2 DEF Went
<1>3. ASSUME NEW s \in Session, Makes(s) \/ Creates(s) \/ Counts(s) \/ Starts(s) \/ Halted(s)
      PROVE  PublishInv'
  BY <1>3 DEF Makes, Creates, Counts, Starts, Halted
<1>4. ASSUME NEW s \in Session, Numbers(s) \/ Adds(s) \/ Removes(s) PROVE PublishInv'
  BY <1>4 DEF Numbers, Adds, Removes
<1>5. ASSUME NEW s \in Session, Uncounts(s) \/ Leaves(s) \/ Frees(s) PROVE PublishInv'
  BY <1>5, ZenonT(40) DEF Uncounts, Leaves, Frees
<1> QED BY <1>1, <1>2, <1>3, <1>4, <1>5 DEF StepDoes, SessionDoes

\* What each step does to the sessions the count stands for.
LEMMA CountedNext ==
    ASSUME Typed, ConnInv, Fresh, NEW s \in Session
    PROVE  /\ Went(s) \/ Creates(s) \/ Starts(s) \/ Halted(s) \/ Numbers(s) \/ Adds(s)
                  \/ Removes(s) \/ Leaves(s) => Counted' = Counted
           /\ Counts(s) => s \notin Counted /\ Counted' = Counted \cup {s}
           /\ Uncounts(s) => s \in Counted /\ Counted' = Counted \ {s}
           /\ Makes(s) \/ Frees(s) => Counted' = {}
<1> USE Idents DEF Counted, Holds, Steps, Moves
<1>1. Went(s) => Counted' = Counted
  BY DEF Went
<1>2. Creates(s) => Counted' = Counted
  <2>1. Creates(s) => turn'.id = turn.id
    BY NewTurnIs DEF Anew
  <2> QED BY <2>1 DEF Creates
<1>3. Starts(s) => Counted' = Counted
  BY DEF Starts, Same
<1>4. Halted(s) => Counted' = Counted
  <2>1. Halted(s) => /\ turn'.id = turn.id /\ sess'[s].turnconn = sess[s].turnconn
                     /\ sess[s].pc \in {"last", "destroy"} <=> sess'[s].pc \in {"last", "destroy"}
                     /\ \A o \in Session \ {s} : sess'[o] = sess[o]
    BY DEF Halted, Stops, Same
  <2> QED BY <2>1
<1>5. Numbers(s) => Counted' = Counted
  BY DEF Numbers, Same
<1>6. Adds(s) => Counted' = Counted
  BY DEF Adds, Same
<1>7. Removes(s) => Counted' = Counted
  BY DEF Removes, Loses
<1>8. Leaves(s) => Counted' = Counted
  BY DEF Leaves
<1>9. Counts(s) => s \notin Counted /\ Counted' = Counted \cup {s}
  BY DEF Counts, ConnInv, Without, Getting, Fresh
<1>10. Uncounts(s) => s \in Counted /\ Counted' = Counted \ {s}
  BY DEF Uncounts
<1>11. Makes(s) => Counted' = {}
  <2>1. Makes(s) => turn'.id = conns + 1
    BY NewTurnIs DEF Anew
  <2>2. Makes(s) => \A o \in Session : sess'[o].turnconn = sess[o].turnconn
    BY DEF Makes
  <2>3. \A o \in Session : sess[o].turnconn # conns + 1
    OBVIOUS
  <2> QED BY <2>1, <2>2, <2>3
<1>12. Frees(s) => Counted' = {}
  BY NewTurnIs DEF Anew
<1> QED BY <1>1, <1>2, <1>3, <1>4, <1>5, <1>6, <1>7, <1>8, <1>9, <1>10, <1>11, <1>12

\* A step that is not a race for the pointer or the count keeps them together.
LEMMA IntactKept ==
    ASSUME Typed, ConnInv, PublishInv, Intact, Fresh, ~torn, StepDoes, ~torn'
    PROVE  Intact'
<1> USE Idents DEF Intact, Getting, Holds, Steps, Moves
<1>0. Counted \in SUBSET Session /\ Cardinality(Counted) \in Nat /\ Cardinality({}) = 0
  BY SetsCount, FS_EmptySet DEF Counted
<1>1. CASE Runs
  BY <1>1, RunsKeep DEF Same, Counted
<1>2. ASSUME NEW s \in Session, Went(s) PROVE Intact'
  <2>1. Counted' = Counted
    BY <1>2, CountedNext
  <2>2. /\ UNCHANGED <<turn, count>> /\ sess'[s].turnconn = sess[s].turnconn
        /\ \A o \in Session \ {s} : sess'[o] = sess[o]
    BY <1>2 DEF Went
  <2>3. sess'[s].pc \notin {"closeTurn", "destroy"}
    BY <1>2 DEF Went
  <2>4. sess'[s].pc \in Getting =>
          \/ sess[s].pc \in Getting
          \/ ~(\E o \in Session : sess[o].pc \in {"closeTurn", "destroy"})
    BY <1>2 DEF Went
  <2>5. sess[s].pc \in Getting => sess'[s].pc \in Getting
    BY <1>2 DEF Went
  <2> QED BY <2>1, <2>2, <2>3, <2>4, <2>5
<1>3. ASSUME NEW s \in Session, Makes(s) PROVE Intact'
  <2>1. Counted' = {} /\ turn'.id = conns + 1
    BY <1>3, CountedNext, NewTurnIs DEF Anew
  <2>2. turn.id = 0 /\ Counted = {}
    BY <1>3 DEF Makes, Counted
  <2>3. \A o \in Session : sess[o].turnconn = 0
    BY <2>2
  <2>4. \A c \in Session : sess[c].pc \notin {"closeTurn", "destroy"}
    BY <2>3 DEF ConnInv, Without
  <2> QED BY <1>0, <1>3, <2>1, <2>2, <2>3, <2>4 DEF Makes
<1>4. ASSUME NEW s \in Session, Creates(s) PROVE Intact'
  <2>1. Counted' = Counted /\ turn'.id = turn.id
    BY <1>4, CountedNext, NewTurnIs DEF Anew
  <2> QED BY <1>4, <2>1 DEF Creates
<1>5. ASSUME NEW s \in Session, Counts(s) PROVE Intact'
  <2>1. Cardinality(Counted') = Cardinality(Counted) + 1
    BY <1>0, <1>5, CountedNext, Counting
  <2>2. turn.id # 0
    BY <1>5 DEF Counts, Fresh
  <2> QED BY <1>0, <1>5, <2>1, <2>2 DEF Counts
<1>6. ASSUME NEW s \in Session, Starts(s) PROVE Intact'
  <2>1. Counted' = Counted
    BY <1>6, CountedNext
  <2> QED BY <1>6, <2>1 DEF Starts, Same
<1>7. ASSUME NEW s \in Session, Halted(s) PROVE Intact'
  <2>1. Counted' = Counted
    BY <1>7, CountedNext
  <2>2. /\ count' = count /\ turn'.id = turn.id /\ turn.id # 0 /\ sess[s].turnconn = turn.id
        /\ \A o \in Session : sess'[o].turnconn = sess[o].turnconn
        /\ \A o \in Session \ {s} : sess'[o] = sess[o]
        /\ sess'[s].pc \notin Getting
    BY <1>7 DEF Halted, Stops, Same
  <2>3. ASSUME sess'[s].pc \in {"closeTurn", "destroy"}, NEW o \in Session, o # s
        PROVE  sess[o].turnconn = 0 /\ sess[o].pc \notin Getting
    <3>1. CASE ~Shared(s)
      BY <2>2, <2>3, <3>1 DEF Shared
    <3>2. CASE sess[s].pc = "last" /\ count = 0 /\ ~(\E p \in Session : sess[p].pc \in Getting)
      <4>1. Counted = {}
        BY <1>0, <3>2, Counting
      <4>2. sess[o].pc \notin {"last", "destroy"}
        BY <2>3, <3>2 DEF PublishInv, Publishing
      <4> QED BY <2>2, <3>2, <4>1, <4>2 DEF Counted
    <3> QED BY <1>7, <2>3, <3>1, <3>2 DEF Halted
  <2>4. ASSUME NEW c \in Session, NEW o \in Session, o # c, sess'[c].pc \in {"closeTurn", "destroy"}
        PROVE  sess'[o].turnconn = 0 /\ sess'[o].pc \notin Getting
    <3>1. CASE c = s
      BY <2>2, <2>3, <2>4, <3>1
    <3>2. CASE c # s
      BY <2>2, <2>4, <3>2
    <3> QED BY <3>1, <3>2
  <2> QED BY <2>1, <2>2, <2>4
<1>8. ASSUME NEW s \in Session, Numbers(s) PROVE Intact'
  <2>1. Counted' = Counted
    BY <1>8, CountedNext
  <2> QED BY <1>8, <2>1 DEF Numbers, Same
<1>9. ASSUME NEW s \in Session, Adds(s) \/ Removes(s) PROVE Intact'
  <2>1. Counted' = Counted
    BY <1>9, CountedNext
  <2> QED BY <1>9, <2>1 DEF Adds, Removes, Loses, Same
<1>10. ASSUME NEW s \in Session, Uncounts(s) PROVE Intact'
  <2>1. Cardinality(Counted') = Cardinality(Counted) - 1
    BY <1>0, <1>10, CountedNext, Counting
  <2> QED BY <1>0, <1>10, <2>1, ZenonT(40) DEF Uncounts
<1>11. ASSUME NEW s \in Session, Leaves(s) PROVE Intact'
  <2>1. Counted' = Counted /\ Counted # {} /\ s \notin Counted
    BY <1>0, <1>11, CountedNext DEF Leaves, Counted
  <2>2. \E o \in Session \ {s} : Holds(o)
    BY <2>1 DEF Counted
  <2> QED BY <1>11, <2>1, <2>2 DEF Leaves
<1>12. ASSUME NEW s \in Session, Frees(s) PROVE Intact'
  <2>1. Counted' = {} /\ turn'.id = 0
    BY <1>12, CountedNext, NewTurnIs DEF Anew
  <2>2. \A o \in Session \ {s} : sess[o].turnconn = 0
    BY <1>12 DEF Frees
  <2>3. sess[s].pc = "destroy" => Counted = {}
    BY <1>12, <2>2 DEF Counted, Frees
  <2>4. \A o \in Session : sess'[o].turnconn = 0
    BY <1>12, <2>2 DEF Frees
  <2>5. \A o \in Session : sess'[o].pc \notin {"closeTurn", "destroy"}
    BY <1>12, <2>2 DEF Frees, ConnInv, Without
  <2> QED BY <1>0, <1>12, <2>1, <2>3, <2>4, <2>5 DEF Frees
<1> QED BY <1>1, <1>2, <1>3, <1>4, <1>5, <1>6, <1>7, <1>8, <1>9, <1>10, <1>11, <1>12
        DEF StepDoes, SessionDoes

\* Until the connection is created only starting sessions have it.
LEMMA OnlyStarting ==
    ASSUME Typed, ConnInv, Intact, Fresh, turn.id # 0, ~turn.made
    PROVE  /\ ~Runs
           /\ \A s \in Session : sess[s].turnconn # 0 => sess[s].pc = "start"
           /\ \A s \in Session : SessionDoes(s) =>
                \/ Makes(s) \/ Creates(s) \/ Counts(s) \/ Starts(s)
                \/ Went(s) /\ sess[s].pc \in {"new", "count", "other"}
<1>1. /\ turn = Connection(turn.id, FALSE) /\ server.answers = {}
      /\ \A s \in Session : Holds(s) => sess[s].pc = "start"
  BY DEF Fresh
<1>2. turn.state = New /\ turn.thread = "none"
  BY <1>1, UnusedIs
<1>3. ~Runs
  BY <1>1, <1>2 DEF Runs, Loops, Asked, Told, Renews, New, Ready
<1>4. \A s \in Session : sess[s].turnconn # 0 => sess[s].pc = "start"
  BY <1>1 DEF Intact, Holds
<1>5. \A s \in Session : sess[s].pc \notin Without \cup {"other", "start"} => FALSE
  BY <1>4 DEF ConnInv
<1>6. ASSUME NEW s \in Session, SessionDoes(s)
      PROVE  \/ Makes(s) \/ Creates(s) \/ Counts(s) \/ Starts(s)
             \/ Went(s) /\ sess[s].pc \in {"new", "count", "other"}
  <2>1. sess[s].pc \in Without \cup {"other", "start"}
    BY <1>5
  <2> QED BY <1>6, <2>1 DEF SessionDoes, Went, Halted, Numbers, Adds, Removes, Uncounts, Leaves,
                            Frees, Without, Getting
<1> QED BY <1>3, <1>4, <1>6

LEMMA FreshKept ==
    ASSUME Typed, ConnInv, Intact, Fresh, ~torn, StepDoes, ~torn'
    PROVE  Fresh'
<1> USE Idents DEF Getting, Holds, Steps, Moves
<1>0. turn.id # 0 /\ ~turn.made =>
        /\ ~Runs /\ (\A s \in Session : sess[s].turnconn # 0 => sess[s].pc = "start")
        /\ \A s \in Session : SessionDoes(s) =>
             \/ Makes(s) \/ Creates(s) \/ Counts(s) \/ Starts(s)
             \/ Went(s) /\ sess[s].pc \in {"new", "count", "other"}
  BY OnlyStarting
<1>1. CASE Runs
  BY <1>0, <1>1, RunsKeep DEF Same, Fresh
<1>2. ASSUME NEW s \in Session, Went(s) PROVE Fresh'
  <2>1. /\ UNCHANGED <<turn, count, server>> /\ sess'[s].turnconn = sess[s].turnconn
        /\ \A o \in Session \ {s} : sess'[o] = sess[o]
        /\ sess'[s].pc \in Getting => sess[s].pc \in Getting \/ turn.id # 0
        /\ sess'[s].pc # "create"
    BY <1>2 DEF Went
  <2>2. turn.id # 0 /\ ~turn.made => ~Holds(s)'
    <3>1. turn.id # 0 /\ ~turn.made => sess[s].pc \in {"new", "count", "other"}
      BY <1>0, <1>2 DEF SessionDoes, Makes, Creates, Counts, Starts, Went
    <3> QED BY <2>1, <3>1, <1>0
  <2> QED BY <2>1, <2>2 DEF Fresh
<1>3. ASSUME NEW s \in Session, Makes(s) PROVE Fresh'
  <2>1. turn'.id = conns + 1 /\ ~turn'.made /\ turn.id = 0
    BY <1>3, NewTurnIs DEF Anew, Makes
  <2>2. \A o \in Session : sess[o].pc \notin Getting
    BY <2>1 DEF Fresh
  <2>3. turn' = Connection(turn'.id, FALSE)
    BY <1>3, <2>1 DEF Makes
  <2>4. \A o \in Session : ~Holds(o)'
    <3>1. \A o \in Session : sess'[o].turnconn = sess[o].turnconn
      BY <1>3 DEF Makes
    <3>2. \A o \in Session : sess[o].turnconn # conns + 1
      OBVIOUS
    <3> QED BY <2>1, <3>1, <3>2
  <2>5. /\ server'.answers = {} /\ server'.bound = {} /\ sess'[s].pc = "create"
        /\ \A o \in Session \ {s} : sess'[o] = sess[o]
    BY <1>3 DEF Makes
  <2>6. turn'.id # 0
    BY <2>1
  <2> QED BY <2>1, <2>2, <2>3, <2>4, <2>5, <2>6 DEF Fresh
<1>4. ASSUME NEW s \in Session, Creates(s) PROVE Fresh'
  <2>1. turn'.id = turn.id /\ turn'.made
    BY <1>4, NewTurnIs DEF Anew
  <2> QED BY <1>4, <2>1 DEF Fresh, Creates
<1>5. ASSUME NEW s \in Session, Counts(s) PROVE Fresh'
  BY <1>5, ZenonT(40) DEF Counts, Fresh
<1>6. ASSUME NEW s \in Session, Starts(s) PROVE Fresh'
  BY <1>6 DEF Starts, Same, Fresh
<1>7. ASSUME NEW s \in Session, Frees(s) PROVE Fresh'
  <2>1. turn'.id = 0
    BY <1>7, NewTurnIs DEF Anew
  <2>2. \A o \in Session : sess'[o].pc \notin Getting
    BY <1>7 DEF Frees, Intact
  <2> QED BY <2>1, <2>2 DEF Fresh
<1>8. ASSUME NEW s \in Session,
             Halted(s) \/ Numbers(s) \/ Adds(s) \/ Removes(s) \/ Uncounts(s) \/ Leaves(s)
      PROVE  Fresh'
  <2>1. turn.id # 0 /\ turn.made
    <3>1. Holds(s) /\ sess[s].pc # "start"
      BY <1>8 DEF Halted, Numbers, Adds, Removes, Uncounts, Leaves
    <3> QED BY <3>1 DEF Fresh
  <2>2. turn'.id = turn.id /\ turn'.made = turn.made
    BY <1>8 DEF Halted, Stops, Numbers, Adds, Removes, Loses, Uncounts, Leaves, Same
  <2>3. sess'[s].pc \notin Getting /\ \A o \in Session \ {s} : sess'[o] = sess[o]
    BY <1>8 DEF Halted, Numbers, Adds, Removes, Uncounts, Leaves
  <2> QED BY <2>1, <2>2, <2>3 DEF Fresh
<1> QED BY <1>1, <1>2, <1>3, <1>4, <1>5, <1>6, <1>7, <1>8 DEF StepDoes, SessionDoes
-----------------------------------------------------------------------------
(* The stop, the peers and the states.                                     *)

\* A new connection is in no session yet, and one that is created in none that
\* uses it.
LEMMA NewInNone ==
    ASSUME Typed, ConnInv, Intact, Fresh, NEW s \in Session
    PROVE  /\ Makes(s) \/ Frees(s) => \A o \in Session : ~Holds(o)'
           /\ Creates(s) => \A o \in Session : Holds(o)' => sess'[o].pc = "start"
<1> USE Idents DEF Holds, Steps, Moves
<1>1. ASSUME Makes(s) PROVE \A o \in Session : ~Holds(o)'
  <2>1. \A o \in Session : sess'[o].turnconn = sess[o].turnconn /\ turn'.id = conns + 1
    BY <1>1, NewTurnIs DEF Makes, Anew
  <2>2. \A o \in Session : sess[o].turnconn # conns + 1
    OBVIOUS
  <2> QED BY <2>1, <2>2
<1>2. ASSUME Frees(s) PROVE \A o \in Session : ~Holds(o)'
  BY <1>2, NewTurnIs DEF Anew
<1>3. ASSUME Creates(s) PROVE \A o \in Session : Holds(o)' => sess'[o].pc = "start"
  <2>1. turn'.id = turn.id /\ turn.id # 0 /\ ~turn.made /\ sess[s].turnconn = 0
    BY <1>3, NewTurnIs DEF Creates, Anew, Fresh, Getting, ConnInv, Without
  <2> QED BY <1>3, <2>1, ZenonT(40) DEF Fresh, Creates
<1> QED BY <1>1, <1>2, <1>3

LEMMA HeardKept ==
    ASSUME Typed, ConnInv, Intact, Fresh, HeardInv, StepDoes
    PROVE  HeardInv'
<1> USE Idents DEF Holds, Stopping, HeardInv
<1>1. CASE Runs
  <2>1. sess' = sess /\ turn'.id = turn.id /\ turn'.stopped = turn.stopped
    BY <1>1, RunsKeep DEF Same
  <2>2. CASE SameThread(turn', turn)
    BY <2>1, <2>2 DEF SameThread
  <2>3. CASE Loops
    BY <2>1, <2>3 DEF Loops
  <2>4. CASE Asked
    BY <2>1, <2>4 DEF Asked
  <2> QED BY <1>1, <2>2, <2>3, <2>4 DEF Runs, Told, Renews, SameButState
<1>2. ASSUME NEW s \in Session, Went(s) PROVE HeardInv'
  <2>1. /\ turn' = turn /\ sess'[s].pc \notin {"stop", "closeTurn", "destroy"}
        /\ \A o \in Session \ {s} : sess'[o] = sess[o]
    BY <1>2 DEF Went, Moves
  <2> QED BY <2>1
<1>3. ASSUME NEW s \in Session, Makes(s) \/ Creates(s) \/ Frees(s) PROVE HeardInv'
  <2>1. ~turn'.isStart /\ \A o \in Session : Holds(o)' => sess'[o].pc = "start"
    BY <1>3, NewTurnIs, NewInNone DEF Anew
  <2> QED BY <2>1
<1>4. ASSUME NEW s \in Session, Counts(s) \/ Uncounts(s) \/ Leaves(s) PROVE HeardInv'
  <2>1. /\ turn' = turn /\ sess'[s].pc \notin {"stop", "closeTurn", "destroy"}
        /\ \A o \in Session \ {s} : sess'[o] = sess[o]
    BY <1>4 DEF Counts, Uncounts, Leaves, Moves
  <2> QED BY <2>1
<1>5. ASSUME NEW s \in Session, Starts(s) PROVE HeardInv'
  <2>1. /\ turn'.id = turn.id /\ turn'.stopped = turn.stopped /\ turn'.isStart = turn.isStart
        /\ turn'.isLoop = turn.isLoop /\ sess'[s].pc = "allocate"
        /\ \A o \in Session \ {s} : sess'[o] = sess[o]
        /\ \/ turn'.thread = turn.thread /\ turn'.lost = turn.lost
           \/ ~turn.isStart /\ turn'.lost = (turn.lost \/ \E o \in Session : Stopping(o))
    BY <1>5 DEF Starts, Same, SameState, Steps, Moves
  <2>2. CASE turn'.thread = turn.thread /\ turn'.lost = turn.lost
    BY <2>1, <2>2
  <2>3. CASE ~turn.isStart /\ turn'.lost = (turn.lost \/ \E o \in Session : Stopping(o))
    <3>1. turn.lost \/ (\E o \in Session : Stopping(o)) => turn'.lost
      BY <2>3, Zenon
    <3> QED BY <2>1, <2>3, <3>1
  <2> QED BY <2>1, <2>2, <2>3
<1>6. ASSUME NEW s \in Session, Halted(s) PROVE HeardInv'
  <2>1. /\ turn'.stopped /\ turn'.thread = turn.thread /\ turn'.isStart = turn.isStart
        /\ ~turn'.isLoop
    BY <1>6 DEF Halted, Stops
  <2>2. turn'.lost \/ turn'.thread \in {"none", "run"}
    <3>1. turn'.lost = (turn.lost \/ turn.thread \in {"created", "starting"})
      BY <1>6 DEF Halted, Stops
    <3>2. turn.thread \in {"created", "starting"} => turn'.lost
      BY <3>1, Zenon
    <3>3. turn.thread \in {"none", "created", "starting", "run"}
      BY TurnFields DEF Threads
    <3> QED BY <2>1, <3>2, <3>3
  <2> QED BY <2>1, <2>2
<1>7. ASSUME NEW s \in Session, Numbers(s) \/ Adds(s) \/ Removes(s) PROVE HeardInv'
  <2>1. /\ turn'.id = turn.id /\ turn'.stopped = turn.stopped /\ SameThread(turn', turn)
        /\ sess'[s].pc \notin {"stop", "closeTurn", "destroy"}
        /\ \A o \in Session \ {s} : sess'[o] = sess[o]
    BY <1>7 DEF Numbers, Adds, Removes, Loses, Same, SameState, Steps, Moves
  <2> QED BY <2>1 DEF SameThread
<1> QED BY <1>1, <1>2, <1>3, <1>4, <1>5, <1>6, <1>7 DEF StepDoes, SessionDoes

LEMMA PeersAre ==
    ASSUME Typed
    PROVE  /\ turn.peers \in Seq(PeerRecord) /\ Len(turn.peers) \in Nat
           /\ DOMAIN turn.peers = 1 .. Len(turn.peers) /\ turn.added \in Nat
           /\ turn.peers = <<>> <=> Len(turn.peers) = 0
           /\ turn.state \in 0 .. 6 /\ turn.channelNum \in Nat
<1>1. /\ turn.peers \in Seq(PeerRecord) /\ turn.added \in Nat /\ turn.state \in States
      /\ turn.channelNum \in Nat
  BY Idents, TurnFields
<1> QED BY <1>1, LenProperties, EmptySeq DEF States, New, Close

\* The sessions with a number and no peer on the list, after a step.
LEMMA InsertingNext ==
    ASSUME Typed, ConnInv, Intact, Fresh, NEW s \in Session
    PROVE  /\ Went(s) \/ Counts(s) \/ Starts(s) \/ Halted(s) \/ Removes(s) \/ Uncounts(s) \/ Leaves(s)
                => Inserting' = Inserting
           /\ Numbers(s) => IF sess[s].pc = "numbered"
                            THEN s \notin Inserting /\ Inserting' = Inserting \cup {s}
                            ELSE Inserting' = Inserting
           /\ Adds(s) => s \in Inserting /\ Inserting' = Inserting \ {s}
           /\ Makes(s) \/ Creates(s) \/ Frees(s) => Inserting' = {}
<1> USE DEF Inserting, Holds, Steps, Moves
<1>1. Went(s) => Inserting' = Inserting
  <2>1. Went(s) => /\ turn' = turn /\ sess[s].pc # "insert" /\ sess'[s].pc # "insert"
                   /\ \A o \in Session \ {s} : sess'[o] = sess[o]
    BY DEF Went
  <2> QED BY <2>1
<1>2. Counts(s) \/ Uncounts(s) \/ Leaves(s) => Inserting' = Inserting
  BY DEF Counts, Uncounts, Leaves
<1>3. Starts(s) \/ Halted(s) \/ Removes(s) => Inserting' = Inserting
  <2>1. Starts(s) \/ Halted(s) \/ Removes(s) =>
          /\ turn'.id = turn.id /\ sess[s].pc # "insert" /\ sess'[s].pc # "insert"
          /\ \A o \in Session \ {s} : sess'[o] = sess[o]
    BY DEF Starts, Halted, Stops, Removes, Loses, Same
  <2> QED BY <2>1
<1>4. Numbers(s) => IF sess[s].pc = "numbered"
                    THEN s \notin Inserting /\ Inserting' = Inserting \cup {s}
                    ELSE Inserting' = Inserting
  BY DEF Numbers, Same
<1>5. Adds(s) => s \in Inserting /\ Inserting' = Inserting \ {s}
  BY DEF Adds, Same
<1>6. Makes(s) \/ Creates(s) \/ Frees(s) => Inserting' = {}
  BY NewInNone
<1> QED BY <1>1, <1>2, <1>3, <1>4, <1>5, <1>6

LEMMA PeersKept ==
    ASSUME Typed, ConnInv, Intact, Fresh, PeersInv, StepDoes
    PROVE  PeersInv'
<1> USE PeersAre DEF PeersInv
<1>0. /\ Inserting \in SUBSET Session /\ Cardinality(Inserting) \in Nat /\ Cardinality({}) = 0
      /\ Len(<<>>) = 0
  BY SetsCount, FS_EmptySet DEF Inserting
<1>1. CASE Runs
  <2>1. Same(turn', turn) /\ turn'.added = turn.added /\ Inserting' = Inserting
    BY <1>1, RunsKeep DEF Same, SameNumbers, Inserting, Holds
  <2>2. CASE Asked
    <3>1. ASSUME NEW p \in ToSet(turn.peers) PROVE turn.peers # <<>>
      BY DEF ToSet
    <3> QED BY <2>1, <2>2, <3>1 DEF Asked
  <2>3. CASE Told \/ Renews
    <3>1. /\ Len(turn'.peers) = Len(turn.peers)
          /\ turn'.peers = <<>> <=> turn.peers = <<>>
      <4>1. turn'.peers \in Seq(PeerRecord) /\ Len(turn'.peers) = Len(turn.peers)
        BY <2>3 DEF Told, Renews, SameButState, SamePeers
      <4> QED BY <4>1
    <3>2. server'.answers \subseteq server.answers
      BY <2>3 DEF Told, Renews
    <3> QED BY <2>1, <3>1, <3>2 DEF Same
  <2>4. CASE turn'.peers = turn.peers /\ server' = server
    BY <2>1, <2>4 DEF Same
  <2> QED BY <1>1, <2>2, <2>3, <2>4 DEF Runs, Loops
<1>2. ASSUME NEW s \in Session,
             Went(s) \/ Counts(s) \/ Starts(s) \/ Halted(s) \/ Uncounts(s) \/ Leaves(s)
      PROVE  PeersInv'
  <2>1. Inserting' = Inserting
    BY <1>2, InsertingNext
  <2>2. /\ turn'.peers = turn.peers /\ turn'.added = turn.added /\ turn'.id = turn.id
        /\ turn'.turnLock = turn.turnLock /\ server'.answers = server.answers
    BY <1>2 DEF Went, Counts, Starts, Halted, Stops, Uncounts, Leaves, Same, SameNumbers
  <2> QED BY <2>1, <2>2
<1>3. ASSUME NEW s \in Session, Makes(s) \/ Creates(s) \/ Frees(s) PROVE PeersInv'
  <2>1. /\ Inserting' = {} /\ turn'.peers = <<>> /\ turn'.added = 0
        /\ Makes(s) => server'.answers = {}
        /\ Creates(s) => server'.answers = {}
        /\ Frees(s) => turn'.id = 0
    BY <1>3, InsertingNext, NewTurnIs DEF Anew, Makes, Creates, Fresh, Getting
  <2> QED BY <1>0, <1>3, <2>1
<1>4. ASSUME NEW s \in Session, Numbers(s) PROVE PeersInv'
  <2>1. /\ turn'.peers = turn.peers /\ turn'.id = turn.id /\ turn'.turnLock = turn.turnLock
        /\ server'.answers = server.answers
    BY <1>4 DEF Numbers, Same
  <2>2. CASE sess[s].pc = "numbered"
    <3>1. Cardinality(Inserting') = Cardinality(Inserting) + 1
      BY <1>0, <1>4, <2>2, InsertingNext, Counting
    <3>2. turn'.added = turn.added + 1
      BY <1>4, <2>2 DEF Numbers
    <3> QED BY <1>0, <2>1, <3>1, <3>2
  <2>3. CASE sess[s].pc # "numbered"
    <3>1. Inserting' = Inserting /\ turn'.added = turn.added
      BY <1>4, <2>3, InsertingNext DEF Numbers
    <3> QED BY <2>1, <3>1
  <2> QED BY <2>2, <2>3
<1>5. ASSUME NEW s \in Session, Adds(s) PROVE PeersInv'
  <2>1. Cardinality(Inserting') = Cardinality(Inserting) - 1
    BY <1>0, <1>5, InsertingNext, Counting
  <2>2. /\ Len(turn'.peers) = Len(turn.peers) + 1 /\ turn'.peers # <<>>
        /\ turn'.added = turn.added
    <3>1. turn'.peers = Append(turn.peers, NewPeer(s)) /\ turn'.added = turn.added
      BY <1>5 DEF Adds, SameNumbers
    <3> QED BY <3>1, NewPeerIs
  <2> QED BY <1>0, <2>1, <2>2
<1>6. ASSUME NEW s \in Session, Removes(s) PROVE PeersInv'
  <2>1. Inserting' = Inserting /\ turn'.added = turn.added /\ turn'.id = turn.id /\ server' = server
    BY <1>6, InsertingNext DEF Removes, Loses
  <2>2. ASSUME NEW i \in DOMAIN turn.peers
        PROVE  Len(RemoveAt(turn.peers, i)) = Len(turn.peers) - 1
    BY RemoveAtIs
  <2>3. Len(turn'.peers) <= Len(turn.peers) /\ Len(turn'.peers) \in Int
    BY <1>6, <2>2 DEF Removes, Loses
  <2> QED BY <1>0, <1>6, <2>1, <2>3 DEF Removes, Loses
<1> QED BY <1>1, <1>2, <1>3, <1>4, <1>5, <1>6 DEF StepDoes, SessionDoes

LEMMA StateKept ==
    ASSUME Typed, ConnInv, Intact, Fresh, HeardInv, StateInv, StepDoes
    PROVE  StateInv'
<1> DEFINE Early == {"offered", "add", "insert"} \cup Adding
<1> USE PeersAre, Idents DEF StateInv, Holds, Adding, Permission, Close
<1>1. CASE Runs
  <2>1. turn'.id = turn.id /\ turn'.stopped = turn.stopped /\ sess' = sess
    BY <1>1, RunsKeep DEF Same
  <2>2. CASE Asked
    BY <2>1, <2>2 DEF Asked
  <2>3. CASE Told
    <3>1. turn'.state < 3 => turn.state < 3 /\ turn'.peers = turn.peers
      BY <2>3 DEF Told, AtLeast, New, Credential, Allocate, BindChannel, Ready
    <3>2. turn'.state = 6 => turn.state = 6
      BY <2>3 DEF Told, AtLeast, New, Credential, Allocate, BindChannel, Ready
    <3> QED BY <2>1, <3>1, <3>2
  <2>4. CASE Renews
    BY <2>1, <2>4 DEF Renews, SameState, Ready
  <2>5. CASE Loops
    BY <2>1, <2>5 DEF Loops, SameState
  <2> QED BY <1>1, <2>2, <2>3, <2>4, <2>5 DEF Runs
<1>2. ASSUME NEW s \in Session, Went(s) PROVE StateInv'
  <2>1. /\ turn' = turn /\ sess'[s].turnconn = sess[s].turnconn
        /\ \A o \in Session \ {s} : sess'[o] = sess[o]
    BY <1>2 DEF Went, Moves
  <2>2. ASSUME sess'[s].pc \in Early, Holds(s)
        PROVE  turn.state = 3 \/ turn.stopped \/ sess[s].pc \in Early
    <3>1. sess[s].pc = "stop" => turn.stopped
      BY <2>2 DEF HeardInv, Stopping
    <3> QED BY <1>2, <2>2, <3>1 DEF Went, Moves
  <2> QED BY <2>1, <2>2
<1>3. ASSUME NEW s \in Session, Makes(s) \/ Creates(s) \/ Frees(s) PROVE StateInv'
  <2>1. turn'.state = 0 /\ turn'.peers = <<>>
    BY <1>3, NewTurnIs DEF Anew, New
  <2>2. \A o \in Session : Holds(o)' => sess'[o].pc = "start"
    BY <1>3, NewInNone
  <2> QED BY <2>1, <2>2
<1>4. ASSUME NEW s \in Session, Counts(s) \/ Uncounts(s) \/ Leaves(s) PROVE StateInv'
  <2>1. /\ turn' = turn /\ sess'[s].pc \notin Early
        /\ \A o \in Session \ {s} : sess'[o] = sess[o]
    BY <1>4 DEF Counts, Uncounts, Leaves, Moves
  <2> QED BY <2>1
<1>5. ASSUME NEW s \in Session, Starts(s) PROVE StateInv'
  <2>1. /\ turn'.id = turn.id /\ turn'.state = turn.state /\ turn'.stopped = turn.stopped
        /\ turn'.peers = turn.peers /\ sess'[s].pc \notin Early
        /\ \A o \in Session \ {s} : sess'[o] = sess[o]
    BY <1>5 DEF Starts, Same, SameState, Steps, Moves
  <2> QED BY <2>1
<1>6. ASSUME NEW s \in Session, Halted(s) PROVE StateInv'
  BY <1>6 DEF Halted, Stops
<1>7. ASSUME NEW s \in Session, Numbers(s) \/ Adds(s) PROVE StateInv'
  <2>1. /\ turn'.id = turn.id /\ turn'.state = turn.state /\ turn'.stopped = turn.stopped
        /\ Holds(s) /\ sess[s].pc \in Early
        /\ sess'[s].turnconn = sess[s].turnconn
        /\ \A o \in Session \ {s} : sess'[o] = sess[o]
    BY <1>7 DEF Numbers, Adds, Same, SameState, Moves
  <2>2. ~turn.stopped => ~(turn.state < 3)
    BY <2>1
  <2> QED BY <2>1, <2>2
<1>8. ASSUME NEW s \in Session, Removes(s) PROVE StateInv'
  <2>1. /\ turn'.id = turn.id /\ turn'.state = turn.state /\ turn'.stopped = turn.stopped
        /\ sess'[s].pc \notin Early
        /\ \A o \in Session \ {s} : sess'[o] = sess[o]
    BY <1>8 DEF Removes, Loses, SameState, Steps, Moves
  <2>2. turn.peers = <<>> => turn'.peers = <<>>
    BY <1>8 DEF Removes, Loses
  <2> QED BY <2>1, <2>2
<1> QED BY <1>1, <1>2, <1>3, <1>4, <1>5, <1>6, <1>7, <1>8 DEF StepDoes, SessionDoes

LEMMA OrderKept ==
    ASSUME Typed, ConnInv, PeersInv, StateInv, OrderInv, StepDoes
    PROVE  OrderInv'
<1> USE PeersAre DEF OrderInv, ToSet, Permission, BindChannel
<1>1. CASE Runs
  <2>1. turn'.stopped = turn.stopped /\ turn'.turnLock = turn.turnLock
    BY <1>1, RunsKeep DEF Same
  <2>2. CASE Asked
    BY <2>2 DEF Asked
  <2>3. CASE Told
    <3> SUFFICES ASSUME ~turn'.stopped, ~turn'.back, ~turn'.turnLock
                 PROVE  /\ turn'.state = 3 => \A p \in ToSet(turn'.peers) : p.state = 3
                        /\ turn'.state = 4 => \E p \in ToSet(turn'.peers) : p.state = 4
      OBVIOUS
    <3>1. ~turn.stopped /\ ~turn.turnLock /\ ~turn.back
      BY <2>1, <2>3 DEF Told
    <3>2. /\ turn.state = 3 => \A i \in DOMAIN turn.peers : turn.peers[i].state = 3
          /\ turn.state = 4 => \E i \in DOMAIN turn.peers : turn.peers[i].state = 4
          /\ turn.state < 3 => DOMAIN turn.peers = {}
      BY <3>1 DEF StateInv
    <3>3. DOMAIN turn'.peers = DOMAIN turn.peers
      BY <2>3 DEF Told, SameButState, SamePeers
    <3>4. CASE /\ turn'.peers = turn.peers
               /\ \/ turn'.state = IF turn.state = New THEN Credential ELSE turn.state
                  \/ turn'.state = AtLeast(Allocate)
      BY <3>2, <3>4 DEF AtLeast, New, Credential, Allocate
    <3>5. CASE /\ turn'.peers = turn.peers
               /\ turn'.state = IF turn.state = Credential THEN Allocate ELSE Permission
               /\ turn'.back = (turn.back \/ turn.state > Permission)
      <4>1. ~(turn.state > 3)
        BY <3>5, Zenon
      <4> QED BY <3>2, <3>5, <4>1 DEF Credential, Allocate
    <3>6. CASE /\ "permission" \in server.answers /\ Shifts(Permission, BindChannel)
               /\ turn'.state = AtLeast(BindChannel)
      <4>1. 1 \in DOMAIN turn.peers
        <5>1. turn.peers # <<>>
          BY <2>3, <3>1, <3>6 DEF Told, PeersInv
        <5> QED BY <5>1
      <4>2. turn'.state # 3
        BY <3>6 DEF AtLeast
      <4>3. turn'.state = 4 => \E i \in DOMAIN turn.peers : turn.peers[i].state \in {3, 4}
        BY <3>2, <3>6, <4>1 DEF AtLeast
      <4>4. turn'.state = 4 => \E i \in DOMAIN turn'.peers : turn'.peers[i].state = 4
        BY <3>3, <3>6, <4>3 DEF Shifts
      <4> QED BY <4>2, <4>4
    <3>7. CASE turn'.state = AtLeast(Ready)
      BY <3>7 DEF AtLeast, Ready
    <3> QED BY <2>3, <3>4, <3>5, <3>6, <3>7 DEF Told
  <2>4. CASE Renews
    BY <2>4 DEF Renews, SameState, Ready
  <2>5. CASE Loops
    BY <2>1, <2>5 DEF SameState, Loops
  <2> QED BY <1>1, <2>2, <2>3, <2>4, <2>5 DEF Runs
<1>2. ASSUME NEW s \in Session, Went(s) \/ Counts(s) \/ Uncounts(s) \/ Leaves(s) PROVE OrderInv'
  <2>1. turn' = turn
    BY <1>2 DEF Went, Counts, Uncounts, Leaves
  <2> QED BY <2>1
<1>3. ASSUME NEW s \in Session, Makes(s) \/ Creates(s) \/ Frees(s) PROVE OrderInv'
  <2>1. turn'.state = 0
    BY <1>3, NewTurnIs DEF Anew, New
  <2> QED BY <2>1
<1>4. ASSUME NEW s \in Session, Starts(s) \/ Numbers(s) PROVE OrderInv'
  <2>1. /\ turn'.state = turn.state /\ turn'.stopped = turn.stopped /\ turn'.back = turn.back
        /\ turn'.turnLock = turn.turnLock /\ turn'.peers = turn.peers
    BY <1>4 DEF Starts, Numbers, Same, SameState
  <2> QED BY <2>1
<1>5. ASSUME NEW s \in Session, Halted(s) PROVE OrderInv'
  BY <1>5 DEF Halted, Stops
<1>6. ASSUME NEW s \in Session, Adds(s) PROVE OrderInv'
  <2>1. turn'.peers = Append(turn.peers, NewPeer(s))
    BY <1>6 DEF Adds
  <2>2. /\ DOMAIN turn'.peers = DOMAIN turn.peers \cup {Len(turn'.peers)}
        /\ turn'.peers[Len(turn'.peers)] = NewPeer(s)
        /\ \A i \in DOMAIN turn.peers : turn'.peers[i] = turn.peers[i]
    BY <2>1, NewPeerIs
  <2>3. NewPeer(s).state = 3
    BY DEF NewPeer
  <2>4. /\ turn'.state = turn.state /\ turn'.stopped = turn.stopped /\ turn'.back = turn.back
        /\ turn'.turnLock = turn.turnLock
    BY <1>6 DEF Adds, Same, SameState
  <2> QED BY <2>2, <2>3, <2>4
<1>7. ASSUME NEW s \in Session, Removes(s) PROVE OrderInv'
  BY <1>7 DEF Removes, Loses, SameState
<1> QED BY <1>1, <1>2, <1>3, <1>4, <1>5, <1>6, <1>7 DEF StepDoes, SessionDoes

\* The peers that are left are among those before.
LEMMA Remaining ==
    ASSUME Typed, NEW s \in Session, Removes(s)
    PROVE  ToSet(turn'.peers) \subseteq ToSet(turn.peers)
<1> USE PeersAre DEF ToSet
<1>1. ASSUME NEW q, NEW i \in DOMAIN turn.peers, q = RemoveAt(turn.peers, i), NEW p \in ToSet(q)
      PROVE  p \in ToSet(turn.peers)
  <2>1. /\ q \in Seq(PeerRecord) /\ Len(q) = Len(turn.peers) - 1
        /\ \A j \in 1 .. Len(turn.peers) - 1 : q[j] = turn.peers[IF j < i THEN j ELSE j + 1]
    BY <1>1, RemoveAtIs
  <2>2. PICK j \in DOMAIN q : p = q[j]
    OBVIOUS
  <2>3. j \in 1 .. Len(turn.peers) - 1
    BY <2>1, LenProperties
  <2>4. (IF j < i THEN j ELSE j + 1) \in DOMAIN turn.peers
    BY <2>3
  <2>5. p = turn.peers[IF j < i THEN j ELSE j + 1]
    BY <2>1, <2>2, <2>3
  <2> QED BY <2>4, <2>5
<1>2. CASE turn'.peers = turn.peers
  BY <1>2
<1>3. CASE \E i \in DOMAIN turn.peers : turn'.peers = RemoveAt(turn.peers, i)
  BY <1>1, <1>3
<1> QED BY <1>2, <1>3 DEF Removes, Loses

LEMMA BoundKept ==
    ASSUME Typed, ConnInv, PeersInv, StateInv, BoundInv, StepDoes
    PROVE  BoundInv'
<1> USE PeersAre DEF BoundInv, ToSet
<1>0. Cardinality(Inserting) \in Nat /\ \A s \in Inserting : Cardinality(Inserting) >= 1
  BY SetsCount
<1>1. CASE Runs
  <2>1. turn'.stopped = turn.stopped /\ turn'.added = turn.added
    BY <1>1, RunsKeep DEF SameNumbers
  <2>2. CASE Asked
    <3>1. CASE turn.state = Close
      BY <2>2, <3>1 DEF Asked, StateInv
    <3>2. ASSUME turn.added = 1, NEW p \in ToSet(turn.peers), NEW o \in ToSet(turn.peers)
          PROVE  p = o
      BY <1>0, <3>2 DEF PeersInv
    <3>3. CASE /\ server'.bound = server.bound
               /\ "bound" \in server'.answers => "bound" \in server.answers
      BY <2>2, <3>3 DEF Asked
    <3>4. ASSUME NEW p \in ToSet(turn.peers),
                 server'.bound = server.bound \cup {<<p.channelNumber, p.uid>>}
          PROVE  BoundInv'
      BY <2>2, <3>2, <3>4 DEF Asked
    <3>5. \/ turn.state = Close
          \/ /\ server'.bound = server.bound
             /\ "bound" \in server'.answers => "bound" \in server.answers
          \/ \E p \in ToSet(turn.peers) :
                server'.bound = server.bound \cup {<<p.channelNumber, p.uid>>}
      <4>1. CASE server'.answers \cap {"permission", "bound"} =
                    server.answers \cap {"permission", "bound"}
        <5>1. "bound" \in server'.answers => "bound" \in server.answers
          BY <4>1
        <5> QED BY <2>2, <5>1 DEF Asked
      <4>2. CASE server'.answers = server.answers \cup {"permission"}
        BY <2>2, <4>2 DEF Asked
      <4> QED BY <2>2, <4>1, <4>2 DEF Asked
    <3> QED BY <3>1, <3>3, <3>4, <3>5
  <2>3. CASE Told
    <3>1. ASSUME NEW i \in DOMAIN turn.peers,
                 turn'.peers[i].state = Ready \/ "bound" \in server'.answers
          PROVE  turn.peers[i].state = Ready \/ "bound" \in server.answers
      BY <2>3, <3>1 DEF Told, Shifts, Ready, BindChannel
    <3>2. ASSUME turn.added = 1, ~turn.stopped, NEW i \in DOMAIN turn'.peers,
                 turn'.peers[i].state = Ready \/ "bound" \in server'.answers
          PROVE  <<turn'.peers[i].channelNumber, turn'.peers[i].uid>> \in server'.bound
      <4>1. /\ i \in DOMAIN turn.peers /\ turn'.peers[i].uid = turn.peers[i].uid
            /\ turn'.peers[i].channelNumber = turn.peers[i].channelNumber
        BY <2>3, <3>2 DEF Told, SameButState, SamePeers
      <4>2. <<turn.peers[i].channelNumber, turn.peers[i].uid>> \in server.bound
        BY <3>1, <3>2, <4>1
      <4> QED BY <2>3, <4>1, <4>2 DEF Told
    <3> QED BY <2>1, <3>2
  <2>4. CASE Renews
    BY <2>1, <2>4 DEF Renews, SameButState, SamePeers
  <2>5. CASE Loops
    BY <2>1, <2>5 DEF Loops
  <2> QED BY <1>1, <2>2, <2>3, <2>4, <2>5 DEF Runs
<1>2. ASSUME NEW s \in Session, Went(s) \/ Counts(s) \/ Uncounts(s) \/ Leaves(s) PROVE BoundInv'
  <2>1. turn' = turn /\ server' = server
    BY <1>2 DEF Went, Counts, Uncounts, Leaves
  <2> QED BY <2>1
<1>3. ASSUME NEW s \in Session, Makes(s) \/ Creates(s) \/ Frees(s) PROVE BoundInv'
  <2>1. turn'.added = 0
    BY <1>3, NewTurnIs DEF Anew
  <2> QED BY <2>1
<1>4. ASSUME NEW s \in Session, Starts(s) PROVE BoundInv'
  BY <1>4 DEF Starts, SameNumbers, SameState
<1>5. ASSUME NEW s \in Session, Halted(s) PROVE BoundInv'
  BY <1>5 DEF Halted, Stops
<1>6. ASSUME NEW s \in Session, Numbers(s) PROVE BoundInv'
  <2>1. /\ turn'.peers = turn.peers /\ server' = server /\ turn'.stopped = turn.stopped
        /\ turn'.added = turn.added \/ turn'.added = turn.added + 1
    BY <1>6 DEF Numbers, SameState
  <2>2. turn'.added = turn.added + 1 /\ turn'.added = 1 => DOMAIN turn'.peers = {}
    BY <1>0, <2>1 DEF PeersInv
  <2> QED BY <2>1, <2>2
<1>7. ASSUME NEW s \in Session, Adds(s) PROVE BoundInv'
  <2> SUFFICES ASSUME turn'.added = 1
               PROVE  /\ "bound" \notin server'.answers
                      /\ \A i \in DOMAIN turn'.peers : turn'.peers[i].state # Ready
    OBVIOUS
  <2>1. s \in Inserting /\ turn.added = 1 /\ turn.id # 0 /\ ~turn.turnLock /\ server' = server
    BY <1>7 DEF Adds, Inserting, Holds, SameNumbers
  <2>2. DOMAIN turn.peers = {} /\ "bound" \notin server.answers
    BY <1>0, <2>1 DEF PeersInv
  <2>3. NewPeer(s).state # Ready
    BY DEF NewPeer, Ready, Permission
  <2>4. turn'.peers = Append(turn.peers, NewPeer(s))
    BY <1>7 DEF Adds
  <2>5. /\ DOMAIN turn'.peers = DOMAIN turn.peers \cup {Len(turn'.peers)}
        /\ turn'.peers[Len(turn'.peers)] = NewPeer(s)
    BY <2>4, NewPeerIs
  <2> QED BY <2>1, <2>2, <2>3, <2>5
<1>8. ASSUME NEW s \in Session, Removes(s) PROVE BoundInv'
  <2>1. turn'.added = turn.added /\ turn'.stopped = turn.stopped /\ server' = server
    BY <1>8 DEF Removes, Loses, SameState
  <2> QED BY <1>8, <2>1, Remaining
<1> QED BY <1>1, <1>2, <1>3, <1>4, <1>5, <1>6, <1>7, <1>8 DEF StepDoes, SessionDoes
-----------------------------------------------------------------------------
(* The numbers and the channels.                                           *)

\* Every peer on the list keeps the range of its number, and so does channelNum.
LEMMA NumbersKept ==
    ASSUME Typed, ConnInv, Intact, Fresh, Numbered, TakenInv, StepDoes
    PROVE  Numbered' /\ TakenInv'
<1> USE PeersAre, Idents, TurnShareAssumption DEF Numbered, TakenInv, ToSet, Holds, Adding
<1>1. CASE Runs
  <2>1. /\ sess' = sess /\ turn'.id = turn.id /\ turn'.clash = turn.clash
        /\ turn'.channelNum = turn.channelNum
    BY <1>1, RunsKeep DEF Same, SameNumbers
  <2>2. CASE turn'.peers = turn.peers
    BY <2>1, <2>2
  <2>3. CASE SamePeers
    BY <2>1, <2>3, ZenonT(40) DEF SamePeers
  <2> QED BY <1>1, <2>2, <2>3 DEF Runs, Loops, Asked, Told, Renews, SameButState
<1>2. ASSUME NEW s \in Session,
             Went(s) \/ Counts(s) \/ Starts(s) \/ Halted(s) \/ Uncounts(s) \/ Leaves(s)
      PROVE  Numbered' /\ TakenInv'
  <2>1. /\ turn'.id = turn.id /\ turn'.clash = turn.clash /\ turn'.peers = turn.peers
        /\ turn'.channelNum = turn.channelNum
    BY <1>2 DEF Went, Counts, Starts, Halted, Stops, Uncounts, Leaves, Same, SameNumbers
  <2>2. /\ sess'[s].pc \notin {"insert"} \cup Adding
        /\ \A o \in Session \ {s} : sess'[o] = sess[o]
    BY <1>2 DEF Went, Counts, Starts, Halted, Uncounts, Leaves, Steps, Moves
  <2> QED BY <2>1, <2>2
<1>3. ASSUME NEW s \in Session, Makes(s) \/ Creates(s) \/ Frees(s) PROVE Numbered' /\ TakenInv'
  <2>1. turn'.channelNum = 0 /\ turn'.peers = <<>>
    BY <1>3, NewTurnIs DEF Anew
  <2>2. \A o \in Session : Holds(o)' => sess'[o].pc = "start"
    BY <1>3, NewInNone
  <2> QED BY <2>1, <2>2
<1>4. ASSUME NEW s \in Session, Numbers(s) PROVE Numbered' /\ TakenInv'
  <2>0. /\ turn'.id = turn.id /\ turn'.peers = turn.peers /\ Holds(s)
        /\ \A o \in Session \ {s} : sess'[o] = sess[o]
    BY <1>4 DEF Numbers, Same, Moves
  <2>1. CASE /\ sess[s].pc = "add" /\ sess'[s].pc = "number" /\ sess'[s].channel = NextChannel
             /\ turn'.channelNum = NextChannel /\ turn'.clash = turn.clash
    <3>1. NextChannel <= MaxChannel /\ NextChannel \in Nat
      BY DEF NextChannel
    <3> QED BY <2>0, <2>1, <3>1, SMTT(40)
  <2>2. CASE /\ sess[s].pc = "number" /\ sess'[s].pc = "next"
             /\ sess'[s].channel = turn.channelNum /\ turn'.channelNum = turn.channelNum
             /\ turn'.clash = (turn.clash \/ turn.channelNum # sess[s].channel)
    <3>1. ~turn'.clash => ~turn.clash /\ turn.channelNum = sess[s].channel
      BY <2>2, Zenon
    <3> QED BY <2>0, <2>2, <3>1
  <2>3. CASE /\ sess[s].pc = "next" /\ sess'[s].pc = "numbered"
             /\ sess'[s].channel = sess[s].channel /\ sess'[s].loaded = turn.channelNum
             /\ turn'.channelNum = turn.channelNum
             /\ turn'.clash = (turn.clash \/ turn.channelNum # sess[s].channel)
    <3>1. ~turn'.clash => ~turn.clash /\ turn.channelNum = sess[s].channel
      BY <2>3, Zenon
    <3> QED BY <2>0, <2>3, <3>1
  <2>4. CASE /\ sess[s].pc = "numbered" /\ sess'[s].pc = "insert"
             /\ sess'[s].channel = sess[s].channel /\ turn'.channelNum = sess[s].loaded + 1
             /\ turn'.clash = (turn.clash \/ turn.channelNum # sess[s].loaded)
    <3>1. ~turn'.clash => ~turn.clash
      BY <2>4, Zenon
    <3> QED BY <2>0, <2>4, <3>1, SMTT(40)
  <2> QED BY <1>4, <2>1, <2>2, <2>3, <2>4 DEF Numbers, Moves
<1>5. ASSUME NEW s \in Session, Adds(s) PROVE Numbered' /\ TakenInv'
  <2>1. turn'.peers = Append(turn.peers, NewPeer(s))
    BY <1>5 DEF Adds
  <2>2. /\ DOMAIN turn'.peers = DOMAIN turn.peers \cup {Len(turn'.peers)}
        /\ turn'.peers[Len(turn'.peers)] = NewPeer(s)
        /\ \A i \in DOMAIN turn.peers : turn'.peers[i] = turn.peers[i]
    BY <2>1, NewPeerIs
  <2>3. NewPeer(s).channelNumber = sess[s].channel
    BY DEF NewPeer
  <2>4. /\ turn'.id = turn.id /\ turn'.clash = turn.clash /\ turn'.channelNum = turn.channelNum
        /\ Holds(s) /\ sess[s].pc = "insert" /\ sess'[s].pc = "ready"
        /\ \A o \in Session \ {s} : sess'[o] = sess[o]
    BY <1>5 DEF Adds, Same, SameNumbers, Moves
  <2>5. TakenInv'
    BY <2>4
  <2>6. ~turn.clash => \A i \in DOMAIN turn'.peers : turn'.peers[i].channelNumber <= MaxChannel
    <3>1. ~turn.clash => sess[s].channel <= MaxChannel
      BY <2>4
    <3>2. ~turn.clash => \A i \in DOMAIN turn.peers : turn.peers[i].channelNumber <= MaxChannel
      OBVIOUS
    <3> QED BY <2>2, <2>3, <3>1, <3>2
  <2>7. ~turn.clash => turn'.channelNum <= MaxChannel + 1
    BY <2>4
  <2> QED BY <2>4, <2>5, <2>6, <2>7
<1>6. ASSUME NEW s \in Session, Removes(s) PROVE Numbered' /\ TakenInv'
  <2>1. /\ turn'.id = turn.id /\ turn'.clash = turn.clash /\ sess'[s].pc = "uncount"
        /\ \A o \in Session \ {s} : sess'[o] = sess[o]
    BY <1>6 DEF Removes, Loses, Steps, Moves
  <2>2. turn'.channelNum = turn.channelNum \/
        \E i \in DOMAIN turn.peers : turn'.channelNum = turn.peers[i].channelNumber
    BY <1>6 DEF Removes, Loses
  <2>3. ToSet(turn'.peers) \subseteq ToSet(turn.peers)
    BY <1>6, Remaining
  <2>4. TakenInv'
    BY <2>1
  <2>5. ~turn.clash => \A i \in DOMAIN turn.peers : turn.peers[i].channelNumber <= MaxChannel
    OBVIOUS
  <2>6. \A i \in DOMAIN turn.peers : turn.peers[i].channelNumber \in Nat
    <3>1. \A i \in DOMAIN turn.peers : turn.peers[i] \in PeerRecord
      OBVIOUS
    <3>2. \A p \in PeerRecord : p.channelNumber \in Nat
      BY ZenonT(30) DEF PeerRecord
    <3> QED BY <3>1, <3>2
  <2>7. ~turn.clash => turn'.channelNum <= MaxChannel + 1
    <3>1. ASSUME ~turn.clash, NEW i \in DOMAIN turn.peers
          PROVE  turn.peers[i].channelNumber <= MaxChannel + 1
      <4>1. turn.peers[i].channelNumber <= MaxChannel /\ turn.peers[i].channelNumber \in Nat
        BY <2>5, <2>6, <3>1
      <4> QED BY <4>1
    <3> QED BY <2>2, <3>1
  <2>8. ~turn.clash => \A p \in ToSet(turn'.peers) : p.channelNumber <= MaxChannel
    BY <2>3
  <2> QED BY <2>1, <2>4, <2>7, <2>8
<1> QED BY <1>1, <1>2, <1>3, <1>4, <1>5, <1>6 DEF StepDoes, SessionDoes

\* A step but the one that counts the numbers up leaves them distinct only if they
\* were.
LEMMA ChannelKept ==
    ASSUME Typed, ConnInv, Intact, Fresh, TakenInv, ChannelInv, StepDoes
    PROVE  ChannelInv'
<1> USE PeersAre DEF ToSet
<1>0. \A s \in Session : sess[s].channel \in Nat /\ sess[s].loaded \in Nat
  BY Idents
<1>b. /\ \A b \in server.bound : b[1] \in Nat
      /\ \A i \in DOMAIN turn.peers : turn.peers[i].channelNumber \in Nat
  <2>1. server.bound \in SUBSET (Nat \X Session)
    <3>1. server \in ServerRecord
      BY Idents
    <3> QED BY <3>1, ZenonT(30) DEF ServerRecord
  <2>2. \A p \in PeerRecord : p.channelNumber \in Nat
    BY ZenonT(30) DEF PeerRecord
  <2>3. \A i \in DOMAIN turn.peers : turn.peers[i] \in PeerRecord
    OBVIOUS
  <2> QED BY <2>1, <2>2, <2>3
<1>s. ASSUME turn'.id = turn.id, turn'.clash = turn.clash, turn'.added = turn.added,
             turn'.turnLock = turn.turnLock, turn'.channelNum = turn.channelNum,
             DOMAIN turn'.peers = DOMAIN turn.peers,
             \A i \in DOMAIN turn.peers :
                 /\ turn'.peers[i].uid = turn.peers[i].uid
                 /\ turn'.peers[i].channelNumber = turn.peers[i].channelNumber,
             server'.bound \subseteq server.bound, Inserting' = Inserting,
             \A o \in Inserting : sess'[o].channel = sess[o].channel
      PROVE  ChannelInv'
  BY <1>s, SMTT(30) DEF ChannelInv, Distinct
<1>1. CASE Runs
  <2>1. /\ Same(turn', turn) /\ SameNumbers(turn', turn) /\ (turn.id # 0 \/ turn' = turn)
        /\ Inserting' = Inserting /\ \A o \in Inserting : sess'[o].channel = sess[o].channel
    BY <1>1, RunsKeep DEF Same, Inserting, Holds
  <2>2. CASE turn'.peers = turn.peers /\ server'.bound \subseteq server.bound
    BY <1>s, <2>1, <2>2 DEF Same, SameNumbers
  <2>3. CASE SamePeers /\ server'.bound = server.bound
    BY <1>s, <2>1, <2>3 DEF Same, SameNumbers, SamePeers
  <2>4. ASSUME NEW p \in ToSet(turn.peers), turn' = turn, turn.id # 0,
               server'.bound = server.bound \cup {<<p.channelNumber, p.uid>>}
        PROVE  ChannelInv'
    <3> SUFFICES ASSUME Distinct PROVE ChannelInv'
      BY <2>4 DEF ChannelInv, Distinct
    <3>1. PICK k \in DOMAIN turn.peers : p = turn.peers[k]
      OBVIOUS
    <3>2. ASSUME NEW i \in DOMAIN turn.peers, turn.peers[i].channelNumber = p.channelNumber
          PROVE  turn.peers[i].uid = p.uid
      BY <2>4, <3>1, <3>2 DEF ChannelInv
    <3>3. \A b \in server'.bound : b \in server.bound \/ (b[1] = p.channelNumber /\ b[2] = p.uid)
      BY <2>4
    <3>4. ~turn.turnLock =>
            \A b \in server'.bound :
                /\ b[1] < turn.added
                /\ \A o \in Inserting : b[1] # sess[o].channel
      BY <2>4, <3>1, <3>3 DEF ChannelInv
    <3>5. \A b \in server'.bound : \A i \in DOMAIN turn.peers :
            turn.peers[i].channelNumber = b[1] => turn.peers[i].uid = b[2]
      BY <2>4, <3>2, <3>3 DEF ChannelInv
    <3>6. turn'.peers = turn.peers /\ Inserting' = Inserting /\ sess' = sess /\ turn'.id = turn.id
      BY <1>1, <2>1, <2>4, RunsKeep
    <3> QED BY <2>4, <3>4, <3>5, <3>6 DEF ChannelInv
  <2>5. Asked /\ turn.id = 0 => ChannelInv'
    BY DEF Asked, ChannelInv
  <2>6. Asked /\ turn.id # 0 => ChannelInv'
    BY <2>2, <2>4 DEF Asked
  <2> QED BY <1>1, <2>2, <2>3, <2>5, <2>6 DEF Runs, Told, Renews, Loops, SameButState
<1>2. ASSUME NEW s \in Session,
             Went(s) \/ Counts(s) \/ Starts(s) \/ Halted(s) \/ Uncounts(s) \/ Leaves(s)
      PROVE  ChannelInv'
  <2>1. /\ turn'.id = turn.id /\ turn'.clash = turn.clash /\ turn'.peers = turn.peers
        /\ turn'.added = turn.added /\ turn'.turnLock = turn.turnLock
        /\ turn'.channelNum = turn.channelNum /\ server'.bound \subseteq server.bound
    BY <1>2 DEF Went, Counts, Starts, Halted, Stops, Uncounts, Leaves, Same, SameNumbers
  <2>2. Inserting' = Inserting
    BY <1>2, InsertingNext
  <2>3. \A o \in Session : sess'[o].channel = sess[o].channel
    BY <1>2 DEF Went, Counts, Starts, Halted, Uncounts, Leaves, Steps, Moves
  <2>4. \A o \in Inserting : sess'[o].channel = sess[o].channel
    BY <2>3 DEF Inserting
  <2> QED BY <1>s, <2>1, <2>2, <2>4
<1>3. ASSUME NEW s \in Session, Makes(s) \/ Creates(s) \/ Frees(s) PROVE ChannelInv'
  <2>1. /\ turn'.peers = <<>> /\ turn'.added = 0 /\ turn'.channelNum = 0 /\ Inserting' = {}
        /\ turn'.id = 0 \/ server'.bound = {}
    BY <1>3, NewTurnIs, InsertingNext DEF Anew, Makes, Creates, Fresh, Getting
  <2> QED BY <2>1 DEF ChannelInv
<1>4. ASSUME NEW s \in Session, Numbers(s) PROVE ChannelInv'
  <2>0. /\ turn'.id = turn.id /\ turn'.peers = turn.peers /\ turn'.turnLock = turn.turnLock
        /\ server' = server /\ Holds(s) /\ turn.id # 0
        /\ \A o \in Session \ {s} : sess'[o] = sess[o]
    BY <1>4 DEF Numbers, Same, Moves, Holds
  <2>1. CASE sess[s].pc # "numbered"
    <3>1. Inserting' = Inserting /\ \A o \in Inserting : sess'[o].channel = sess[o].channel
      <4>1. s \notin Inserting
        BY <1>4 DEF Numbers, Inserting
      <4>2. Inserting' = Inserting
        BY <1>4, <2>1, InsertingNext
      <4> QED BY <2>0, <4>1, <4>2 DEF Inserting
    <3>2. turn'.added = turn.added /\ (~turn'.clash => ~turn.clash)
      <4>1. turn'.added = turn.added
        BY <1>4, <2>1 DEF Numbers
      <4>2. turn'.clash = turn.clash \/ turn'.clash = (turn.clash \/ turn.channelNum # sess[s].channel)
        BY <1>4, <2>1 DEF Numbers
      <4>3. ~turn'.clash => ~turn.clash
        BY <4>2, Zenon
      <4> QED BY <4>1, <4>3
    <3>3. turn'.channelNum = turn.channelNum \/ ~(turn.channelNum <= MaxChannel)
      BY <1>4, <2>1, TurnShareAssumption DEF Numbers, NextChannel
    <3>4. Distinct' => Distinct
      BY <3>2 DEF Distinct
    <3>5. ASSUME Distinct, ~turn.turnLock, turn.added <= MaxChannel
          PROVE  turn'.channelNum = turn.added
      BY <2>0, <3>3, <3>5 DEF ChannelInv
    <3> QED BY <2>0, <3>1, <3>2, <3>4, <3>5 DEF ChannelInv
  <2>2. CASE sess[s].pc = "numbered"
    <3>1. /\ s \notin Inserting /\ Inserting' = Inserting \cup {s}
          /\ sess'[s].channel = sess[s].channel /\ turn'.added = turn.added + 1
          /\ turn'.channelNum = sess[s].loaded + 1
          /\ turn'.clash = (turn.clash \/ turn.channelNum # sess[s].loaded)
      BY <1>4, <2>2, InsertingNext DEF Numbers, Moves
    <3> SUFFICES ASSUME Distinct' PROVE ChannelInv'
      BY DEF ChannelInv
    <3>2. ~turn'.clash
      BY DEF Distinct
    <3>3. ~turn.clash /\ turn.channelNum = sess[s].loaded
      BY <3>1, <3>2, Zenon
    <3>4. turn.added <= MaxChannel /\ Distinct
      BY <3>1, <3>3, TurnShareAssumption DEF Distinct
    <3>5. sess[s].loaded = sess[s].channel
      BY <2>0, <2>2, <3>3 DEF TakenInv
    <3>6. ~turn.turnLock => sess[s].channel = turn.added /\ turn'.channelNum = turn.added + 1
      BY <2>0, <3>1, <3>3, <3>4, <3>5 DEF ChannelInv
    <3>7. \A o \in Inserting' : o = s \/ (o \in Inserting /\ sess'[o].channel = sess[o].channel)
      BY <2>0, <3>1 DEF Inserting
    <3>8. ASSUME ~turn.turnLock
          PROVE  /\ \A b \in server.bound : b[1] < turn.added
                 /\ \A i \in DOMAIN turn.peers : turn.peers[i].channelNumber < turn.added
                 /\ \A o \in Inserting :
                      /\ sess[o].channel < turn.added
                      /\ \A b \in server.bound : b[1] # sess[o].channel
                      /\ \A i \in DOMAIN turn.peers : turn.peers[i].channelNumber # sess[o].channel
                      /\ \A r \in Inserting : r # o => sess[r].channel # sess[o].channel
      BY <2>0, <3>4, <3>8 DEF ChannelInv
    <3>9. \A o \in Inserting : o \in Session
      BY DEF Inserting
    <3>10. ASSUME ~turn.turnLock
           PROVE  /\ \A b \in server.bound : b[1] < turn.added + 1
                  /\ \A i \in DOMAIN turn.peers : turn.peers[i].channelNumber < turn.added + 1
                  /\ \A o \in Inserting' :
                      /\ sess'[o].channel < turn.added + 1
                      /\ \A b \in server.bound : b[1] # sess'[o].channel
                      /\ \A i \in DOMAIN turn.peers : turn.peers[i].channelNumber # sess'[o].channel
                      /\ \A r \in Inserting' : r # o => sess'[r].channel # sess'[o].channel
      BY <1>0, <1>b, <3>1, <3>6, <3>7, <3>8, <3>9, <3>10
    <3> QED BY <2>0, <3>1, <3>4, <3>6, <3>10 DEF ChannelInv
  <2> QED BY <2>1, <2>2
<1>5. ASSUME NEW s \in Session, Adds(s) PROVE ChannelInv'
  <2>1. turn'.peers = Append(turn.peers, NewPeer(s))
    BY <1>5 DEF Adds
  <2>2. /\ DOMAIN turn'.peers = DOMAIN turn.peers \cup {Len(turn'.peers)}
        /\ turn'.peers[Len(turn'.peers)] = NewPeer(s)
        /\ Len(turn'.peers) \notin DOMAIN turn.peers
        /\ \A i \in DOMAIN turn.peers : turn'.peers[i] = turn.peers[i]
    BY <2>1, NewPeerIs
  <2>3. NewPeer(s).channelNumber = sess[s].channel
    BY DEF NewPeer
  <2>4. /\ turn'.channelNum = turn.channelNum /\ turn'.added = turn.added
        /\ turn'.clash = turn.clash /\ turn'.id = turn.id
        /\ turn.id # 0 /\ ~turn.turnLock /\ server' = server
        /\ s \in Inserting /\ Inserting' = Inserting \ {s}
        /\ \A o \in Session \ {s} : sess'[o] = sess[o]
    BY <1>5, InsertingNext DEF Adds, Holds, SameNumbers, Same, Moves
  <2> SUFFICES ASSUME Distinct PROVE ChannelInv'
    BY <2>4 DEF ChannelInv, Distinct
  <2>5. /\ turn.added <= MaxChannel => turn.channelNum = turn.added
        /\ \A b \in server.bound : b[1] < turn.added
        /\ \A i \in DOMAIN turn.peers : turn.peers[i].channelNumber < turn.added
        /\ \A o \in Inserting :
             /\ sess[o].channel < turn.added
             /\ \A b \in server.bound : b[1] # sess[o].channel
             /\ \A i \in DOMAIN turn.peers : turn.peers[i].channelNumber # sess[o].channel
             /\ \A r \in Inserting : r # o => sess[r].channel # sess[o].channel
    BY <2>4 DEF ChannelInv
  <2>6. \A i \in DOMAIN turn'.peers :
          \/ i \in DOMAIN turn.peers /\ turn'.peers[i] = turn.peers[i]
          \/ i = Len(turn'.peers) /\ turn'.peers[i].channelNumber = sess[s].channel
    BY <2>2, <2>3
  <2>7. \A o \in Inserting' : o \in Inserting /\ o # s /\ sess'[o].channel = sess[o].channel
    BY <2>4 DEF Inserting
  <2>8. /\ \A i \in DOMAIN turn'.peers : turn'.peers[i].channelNumber < turn.added
        /\ \A o \in Inserting' :
             /\ sess'[o].channel < turn.added
             /\ \A b \in server.bound : b[1] # sess'[o].channel
             /\ \A i \in DOMAIN turn'.peers : turn'.peers[i].channelNumber # sess'[o].channel
             /\ \A r \in Inserting' : r # o => sess'[r].channel # sess'[o].channel
    BY <2>4, <2>5, <2>6, <2>7
  <2>9. \A i, j \in DOMAIN turn'.peers :
          i # j => turn'.peers[i].channelNumber # turn'.peers[j].channelNumber
    <3>1. \A i, j \in DOMAIN turn.peers :
            i # j => turn.peers[i].channelNumber # turn.peers[j].channelNumber
      BY <2>4 DEF ChannelInv
    <3>2. \A i \in DOMAIN turn.peers : turn.peers[i].channelNumber # sess[s].channel
      BY <2>4, <2>5
    <3> QED BY <2>6, <3>1, <3>2
  <2>10. \A b \in server.bound : \A i \in DOMAIN turn'.peers :
           turn'.peers[i].channelNumber = b[1] => turn'.peers[i].uid = b[2]
    <3>1. \A b \in server.bound : sess[s].channel # b[1]
      BY <2>4, <2>5
    <3>2. \A b \in server.bound : \A i \in DOMAIN turn.peers :
            turn.peers[i].channelNumber = b[1] => turn.peers[i].uid = b[2]
      BY <2>4 DEF ChannelInv
    <3> QED BY <2>6, <3>1, <3>2
  <2> QED BY <2>4, <2>5, <2>8, <2>9, <2>10 DEF ChannelInv
<1>6. ASSUME NEW s \in Session, Removes(s) PROVE ChannelInv'
  <2>1. /\ server' = server /\ turn'.id = turn.id /\ turn'.clash = turn.clash
        /\ turn'.added = turn.added /\ Inserting' = Inserting
        /\ \A o \in Session : sess'[o].channel = sess[o].channel
    BY <1>6, InsertingNext DEF Removes, Loses, Steps, Moves
  <2>2. CASE /\ turn'.turnLock = turn.turnLock /\ turn'.channelNum = turn.channelNum
             /\ turn'.peers = turn.peers
    BY <1>s, <2>1, <2>2 DEF Inserting
  <2>3. ASSUME turn'.turnLock, NEW k \in DOMAIN turn.peers, turn'.peers = RemoveAt(turn.peers, k)
        PROVE  ChannelInv'
    <3> DEFINE at(j) == IF j < k THEN j ELSE j + 1
    <3>1. ASSUME NEW j \in DOMAIN turn'.peers
          PROVE  /\ at(j) \in DOMAIN turn.peers /\ turn'.peers[j] = turn.peers[at(j)]
                 /\ j \in Nat /\ k \in Nat
      <4>1. ASSUME NEW q, q = RemoveAt(turn.peers, k)
            PROVE  /\ q \in Seq(PeerRecord) /\ Len(q) = Len(turn.peers) - 1
                   /\ \A i \in 1 .. Len(turn.peers) - 1 :
                         q[i] = turn.peers[IF i < k THEN i ELSE i + 1]
        BY <4>1, RemoveAtIs
      <4>2. j \in 1 .. Len(turn.peers) - 1
        BY <2>3, <3>1, <4>1, LenProperties
      <4> QED BY <2>3, <4>1, <4>2, SMTT(30)
    <3>2. ASSUME NEW i \in DOMAIN turn'.peers, NEW j \in DOMAIN turn'.peers, i # j
          PROVE  at(i) # at(j)
      <4>1. i \in Nat /\ j \in Nat /\ k \in Nat
        BY <3>1
      <4> QED BY <3>2, <4>1
    <3>3. Distinct' => Distinct
      BY <2>1 DEF Distinct
    <3> HIDE DEF at
    <3> QED BY <2>1, <2>3, <3>1, <3>2, <3>3, SMTT(40) DEF ChannelInv
  <2> QED BY <1>6, <2>2, <2>3 DEF Removes, Loses
<1> QED BY <1>1, <1>2, <1>3, <1>4, <1>5, <1>6 DEF StepDoes, SessionDoes
-----------------------------------------------------------------------------
(* The theorems.                                                           *)

LEMMA Initially ==
    ASSUME Init
    PROVE  IInv
<1>1. turn = Connection(0, FALSE) /\ conns = 0 /\ 0 \in 0 .. conns /\ FALSE \in BOOLEAN
  BY DEF Init
<1>2. \A s \in Session : /\ sess[s] \in SessRecord(0 .. conns)
                         /\ sess[s].pc = "new" /\ sess[s].turnconn = 0
  <2>1. "new" \in SessPc /\ 0 \in Nat
    BY DEF SessPc
  <2>2. sess \in [Session -> [pc : {"new"}, turnconn : {0}, channel : {0}, loaded : {0}]]
    BY DEF Init
  <2>3. \A r \in [pc : {"new"}, turnconn : {0}, channel : {0}, loaded : {0}] :
            r \in SessRecord(0 .. conns) /\ r.pc = "new" /\ r.turnconn = 0
    BY <1>1, <2>1, ZenonT(30) DEF SessRecord
  <2> QED BY <2>2, <2>3
<1>3. /\ turn \in TurnRecord(0 .. conns) /\ turn.id = 0 /\ ~turn.made /\ turn.state = New
      /\ turn.peers = <<>> /\ turn.added = 0 /\ turn.channelNum = 0 /\ ~turn.turnLock
      /\ ~turn.stopped /\ ~turn.back /\ ~turn.isStart
  <2> DEFINE ids == 0 .. conns
  <2>1. 0 \in ids /\ FALSE \in BOOLEAN
    BY <1>1
  <2>2. turn = Connection(0, FALSE)
    BY <1>1
  <2> HIDE DEF ids
  <2>3. /\ New \in States /\ "none" \in Threads /\ 0 \in Permissions
        /\ <<>> \in Seq(PeerRecord) /\ 0 \in Nat
    BY DEF States, New, Close, Threads, Permissions
  <2>4. /\ turn \in TurnRecord(ids) /\ turn.id = 0 /\ turn.made = FALSE /\ turn.state = New
        /\ turn.peers = <<>> /\ turn.added = 0 /\ turn.channelNum = 0 /\ ~turn.turnLock
        /\ ~turn.stopped /\ ~turn.back /\ ~turn.isStart
    BY <2>1, <2>2, <2>3, ZenonT(60) DEF Connection, TurnRecord
  <2> QED BY <2>4 DEF ids
<1>4. server \in ServerRecord /\ server.answers = {} /\ server.bound = {}
  <2>1. {} \in SUBSET Answers /\ {} \in SUBSET (Nat \X Session) /\ FALSE \in BOOLEAN
    OBVIOUS
  <2> QED BY <2>1, ZenonT(30) DEF Init, NoServer, ServerRecord
<1>5. Typed
  <2>1. sess \in [Session -> SessRecord(0 .. conns)]
    <3>1. sess \in [Session -> [pc : {"new"}, turnconn : {0}, channel : {0}, loaded : {0}]]
      BY DEF Init
    <3> QED BY <1>2, <3>1
  <2>2. count = 0 /\ conns = 0 /\ torn = FALSE
    BY DEF Init
  <2>3. count \in Nat /\ conns \in 0 .. MaxConns
    BY <2>2, TurnShareAssumption, SMT
  <2>4. torn \in BOOLEAN
    BY <2>2
  <2> QED BY <1>3, <1>4, <2>1, <2>3, <2>4 DEF Typed
<1>6. TypeOK
  BY <1>3, <1>5, TypeIs, TurnShareAssumption DEF Numbered, ToSet
<1>7. Counted = {} /\ Making = {} /\ Inserting = {} /\ Cardinality({}) = 0
  BY <1>2, <1>3, FS_EmptySet DEF Counted, Making, Inserting, Holds
<1>8. ConnInv
  BY <1>1, <1>2, <1>3 DEF ConnInv, Without
<1>9. MakeInv
  BY <1>1, <1>7, TurnShareAssumption DEF MakeInv
<1>10. PublishInv
  BY <1>2 DEF PublishInv, Publishing
<1>11. HoldInv
  <2>1. count = 0
    BY DEF Init
  <2>2. Intact
    BY <1>2, <1>3, <1>7, <2>1 DEF Intact
  <2>3. Fresh
    BY <1>2, <1>3 DEF Fresh, Getting
  <2> QED BY <2>2, <2>3 DEF HoldInv
<1>12. HeardInv
  BY <1>3 DEF HeardInv, Holds
<1>13. PeersInv
  BY <1>3, <1>7 DEF PeersInv
<1>14. StateInv /\ OrderInv /\ BoundInv
  BY <1>3, <1>4 DEF StateInv, OrderInv, BoundInv, Holds, New, Permission, BindChannel, Close
<1>15. TakenInv /\ ChannelInv
  BY <1>3 DEF TakenInv, ChannelInv, Holds
<1> QED BY <1>6, <1>8, <1>9, <1>10, <1>11, <1>12, <1>13, <1>14, <1>15 DEF IInv

LEMMA Inductive ==
    ASSUME IInv, [Next]_vars
    PROVE  IInv'
<1>1. CASE Next
  <2>1. Typed /\ Numbered
    BY TypeIs DEF IInv
  <2>2. Typed' /\ ~torn /\ StepDoes
    BY <1>1, <2>1, StepsAre DEF IInv
  <2>3. Intact /\ Fresh
    BY <2>2 DEF IInv, HoldInv
  <2>4. Numbered' /\ TakenInv'
    BY <2>1, <2>2, <2>3, NumbersKept DEF IInv
  <2>5. TypeOK'
    BY <2>2, <2>4 DEF TypeOK, Typed, Numbered, SessRecord, TurnRecord, ServerRecord,
                      PeerRecord, Peer, States, Threads, Permissions, PeerStates
  <2>6. ConnInv' /\ MakeInv' /\ PublishInv'
    BY <2>1, <2>2, <2>3, ConnKept, MakeKept, PublishKept DEF IInv
  <2>7. HoldInv'
    <3>1. ASSUME ~torn' PROVE Intact' /\ Fresh'
      BY <2>1, <2>2, <2>3, <3>1, IntactKept, FreshKept DEF IInv
    <3> QED BY <3>1 DEF HoldInv
  <2>8. HeardInv' /\ PeersInv'
    BY <2>1, <2>2, <2>3, HeardKept, PeersKept DEF IInv
  <2>9. StateInv' /\ OrderInv' /\ BoundInv'
    BY <2>1, <2>2, <2>3, StateKept, OrderKept, BoundKept DEF IInv
  <2>10. ChannelInv'
    BY <2>1, <2>2, <2>3, ChannelKept DEF IInv
  <2> QED BY <2>4, <2>5, <2>6, <2>7, <2>8, <2>9, <2>10 DEF IInv
<1>2. CASE UNCHANGED vars
  <2> USE <1>2 DEF vars, IInv
  <2>1. TypeOK' /\ HeardInv' /\ PeersInv'
    BY DEF TypeOK, HeardInv, PeersInv, Inserting, Holds, Stopping
  <2>2. ConnInv' /\ MakeInv' /\ PublishInv'
    BY DEF ConnInv, MakeInv, Making, PublishInv
  <2>3. HoldInv'
    BY DEF HoldInv, Intact, Fresh, Counted, Holds
  <2>4. StateInv' /\ OrderInv' /\ BoundInv'
    BY DEF StateInv, OrderInv, BoundInv, Holds
  <2>5. TakenInv' /\ ChannelInv'
    BY DEF TakenInv, ChannelInv, Inserting, Holds, Distinct
  <2> QED BY <2>1, <2>2, <2>3, <2>4, <2>5
<1> QED BY <1>1, <1>2

\* The inductive invariant, for any finite number of sessions, of channels and of
\* connections, and any order of the threads' loads and stores, of answers and of
\* waits that run out, until a race on the pointer or the count.
THEOREM InvariantHolds == Spec => []IInv
<1>1. Init => IInv
  BY Initially
<1>2. IInv /\ [Next]_vars => IInv'
  BY Inductive
<1> QED BY <1>1, <1>2, PTL DEF Spec

\* The ranges of the sessions, of the connection and of the server's answers; no
\* number is beyond the base and MaxChannel before two threads race for channelNum
\* (yang_turnconn_addPeer tests and counts it without a lock).
THEOREM TypeCorrect == Spec => []TypeOK
<1>1. IInv => TypeOK
  BY DEF IInv
<1> QED BY <1>1, InvariantHolds, PTL

\* g_yang_turnCount keeps the shared connection for all that hold it and frees it
\* with the last, up to a race for the pointer or the count, or closeTurn under
\* another session, which all are steps of the model (yang_ice_getTurn,
\* yang_destroy_ice, yang_ice_closeTurn).
THEOREM CountKeeps == Spec => []CountKeepsIt
<1>1. IInv => CountKeepsIt
  BY DEF IInv, HoldInv, Intact, CountKeepsIt
<1> QED BY <1>1, InvariantHolds, PTL

\* An only peer that is Ready has its channel at the server, in spite of answers
\* that are not matched with requests and come late or again.
THEOREM ReadyBound == Spec => []ReadyIsBound
<1>1. IInv => ReadyIsBound
  BY DEF IInv, BoundInv, ReadyIsBound
<1> QED BY <1>1, InvariantHolds, PTL

\* The thread of yang_run_turnconn_app always has a request to send for a peer
\* that is not Ready, or all of them and the connection are.
THEOREM NobodyLeft == Spec => []NobodyForgotten
<1>1. ASSUME IInv PROVE NobodyForgotten
  <2> SUFFICES ASSUME turn.state \in {Permission, BindChannel, Ready}, turn.peers # <<>>,
                      ~turn.stopped, ~turn.back, ~turn.turnLock
               PROVE  \/ \E p \in ToSet(turn.peers) : p.state # Ready /\ Asks(p)
                      \/ turn.state = Ready /\ \A p \in ToSet(turn.peers) : p.state = Ready
    BY DEF NobodyForgotten
  <2>1. OrderInv /\ Typed
    BY <1>1, TypeIs DEF IInv
  <2>2. \E p \in ToSet(turn.peers) : TRUE
    <3>1. turn.peers \in Seq(PeerRecord)
      BY <2>1, PeersAre
    <3>2. 1 \in DOMAIN turn.peers
      BY <3>1, EmptySeq, LenProperties
    <3> QED BY <3>2 DEF ToSet
  <2>3. CASE turn.state = Permission
    BY <2>1, <2>2, <2>3 DEF OrderInv, Asks, Permission, Ready
  <2>4. CASE turn.state = BindChannel
    BY <2>1, <2>4 DEF OrderInv, Asks, BindChannel, Ready
  <2>5. CASE turn.state = Ready
    BY <2>5 DEF Asks
  <2> QED BY <2>3, <2>4, <2>5
<1> QED BY <1>1, InvariantHolds, PTL

\* Who waits in yang_turnconn_stop is heard by the thread of the connection, or
\* the stop was lost on a thread that was starting or was started over it.
THEOREM StopHeard == Spec => []StopIsHeard
<1>1. ASSUME IInv PROVE StopIsHeard
  <2>1. ASSUME NEW s \in Session, Holds(s), Stopping(s), ~turn.lost
        PROVE  ~turn.isLoop /\ (turn.isStart => turn.thread = "run")
    <3>1. turn.thread \in {"none", "run"}
      BY <1>1, <2>1 DEF IInv, HeardInv
    <3>2. turn.thread = "none" => ~turn.isLoop
      BY <1>1, <2>1 DEF IInv, HeardInv
    <3>3. turn.thread = "run" => ~turn.isLoop
      BY <1>1, <2>1 DEF IInv, HeardInv
    <3>4. turn.isStart => turn.thread = "run"
      BY <1>1, <3>1 DEF IInv, HeardInv
    <3> QED BY <3>1, <3>2, <3>3, <3>4
  <2> QED BY <2>1 DEF StopIsHeard
<1> QED BY <1>1, InvariantHolds, PTL

\* As long as no two threads raced for channelNum and it did not start again at
\* the base, what the server sends for one remote peer never reaches the session
\* of another, for any number of sessions and of peers removed and added.
THEOREM DeliveredRight == Spec => []NotMisdelivered
<1>1. ASSUME IInv, Distinct, NEW b \in server.bound, Receiver(b[1]) # 0
      PROVE  turn.peers[Receiver(b[1])].uid = b[2]
  <2> DEFINE I == {i \in 1 .. Len(turn.peers) :
                      turn.peers[i].state = Ready /\ turn.peers[i].channelNumber = b[1]}
  <2>1. Receiver(b[1]) = IF I # {} THEN CHOOSE i \in I : \A j \in I : i <= j ELSE 0
    BY DEF Receiver, SelectInSeq, Min
  <2>2. I # {}
    BY <1>1, <2>1
  <2>3. Receiver(b[1]) \in I
    <3>1. I \in SUBSET Nat
      OBVIOUS
    <3>2. \E i \in I : \A j \in I : i <= j
      BY <2>2, <3>1, LeastExists
    <3> QED BY <2>1, <2>2, <3>2
  <2>4. Typed
    BY <1>1, TypeIs DEF IInv
  <2>5. turn.id # 0
    <3>1. turn.id = 0 => turn.peers = <<>>
      BY <1>1, <2>4, UnusedIs DEF IInv, ConnInv
    <3>2. turn.peers = <<>> => Len(turn.peers) = 0
      BY <2>4, PeersAre
    <3> QED BY <2>3, <3>1, <3>2
  <2>6. Receiver(b[1]) \in DOMAIN turn.peers
    BY <2>3, <2>4, PeersAre
  <2> QED BY <1>1, <2>3, <2>5, <2>6 DEF IInv, ChannelInv, ToSet
<1>2. IInv => NotMisdelivered
  BY <1>1 DEF NotMisdelivered
<1> QED BY <1>2, InvariantHolds, PTL
=============================================================================
