------------------------------ MODULE TurnShare ------------------------------
(***************************************************************************)
(* The TURN connection that all peer-to-peer sessions share: a global      *)
(* pointer with a count, a thread that sends a request for what its state  *)
(* machine lacks, the UDP thread that takes the server's answers, and the  *)
(* sessions, which allocate it, add their peer to it, wait and leave.      *)
(*                                                                         *)
(* An answer is not matched with a request, so an answer is only its kind; *)
(* once given it may come at any later time, again, or never.  The two     *)
(* waits of 100 naps may run out at any time.                              *)
(*                                                                         *)
(* The pointer, the count and channelNum have no lock: each test, load and *)
(* store of them is a step, and the races that break them are recorded     *)
(* (torn, turn.clash).  A behaviour ends when the connection is torn: a session *)
(* then has, or will have, a connection that is freed, not created yet or  *)
(* not the global one.  Left out: nonces and credentials, the relayed      *)
(* address, the refresh of the allocation, and a second thread of the      *)
(* connection, started when two sessions allocate it before the first      *)
(* thread has run.                                                         *)
(***************************************************************************)
EXTENDS Integers, Sequences, SequencesExt

CONSTANTS
    Session,        \* sessions of the program, by uid
    Servers,        \* those the HTTP thread answers, not the message thread offers
    MaxChannel,     \* largest channelNumber less the base, 31 in the code
    MaxConns        \* bound: connections created in a behaviour

ASSUME TurnShareAssumption ==
    IsFiniteSet(Session) /\ Servers \subseteq Session /\ MaxChannel \in Nat /\ MaxConns \in Nat \ {0}

VARIABLES
    sess,           \* YangIceSession of each session, where its thread is, the
                    \* channelNumber it took, the value its thread loaded last
    turn,           \* *g_yang_turnConnection; id = 0 when it is NULL
    count,          \* g_yang_turnCount
    conns,          \* connections created so far
    server,         \* answers given, allocation and bound channels
    torn            \* history: a race on the pointer or the count, or closeTurn
                    \* under another session

vars == <<sess, turn, count, conns, server, torn>>

\* YangTurnState
New == 0
Credential == 1
Allocate == 2
Permission == 3
BindChannel == 4
Ready == 5
Close == 6

Answers == {"binding", "challenge", "allocated", "permission", "bound"}
Getting == {"create", "count", "counted"}       \* in yang_ice_getTurn
Adding == {"number", "next", "numbered"}        \* in yang_turnconn_addPeer
SessPc == Getting \cup Adding \cup
          {"new", "make", "start", "allocate", "stop", "offered", "add",
           "insert", "ready", "up", "other", "remove", "uncount", "uncounted", "last",
           "closeTurn", "destroy", "gone"}
Peer == [uid : Session, channelNumber : Nat,
         state : {Permission, BindChannel, Ready}, timed : BOOLEAN]

\* a connection as yang_create_turnConnection leaves it, or (made) before that.
\* The last five are history: numbers given to peers, a race on channelNum,
\* yang_turnconn_stop called, a thread started over the stop or only running after
\* it, an allocation answered when it was used already
Connection(id, made) ==
    [id |-> id, made |-> made,
     state |-> New, thread |-> "none", isStart |-> FALSE, isLoop |-> FALSE,
     turnLock |-> FALSE, channelNum |-> 0, permissionCount |-> 0, peers |-> <<>>,
     added |-> 0, clash |-> FALSE, stopped |-> FALSE, lost |-> FALSE, back |-> FALSE]

NoServer == [answers |-> {}, allocated |-> FALSE, bound |-> {}]

Init ==
    /\ sess \in [Session -> [pc : {"new"}, turnconn : {0}, channel : {0}, loaded : {0}]]
    /\ turn = Connection(0, FALSE) /\ count = 0 /\ conns = 0
    /\ server = NoServer
    /\ torn = FALSE
-----------------------------------------------------------------------------
(* The sessions.                                                           *)

\* the session's pointer is good
Holds(s) == sess[s].turnconn = turn.id /\ turn.id # 0

Goes(s, to) == sess' = [sess EXCEPT ![s].pc = to]

\* the same with a value loaded, to be stored in the next step or dropped
GoesWith(s, to, value) == sess' = [sess EXCEPT ![s].pc = to, ![s].loaded = value]

\* the peers are connected by the message thread, answered by the HTTP thread
\* and destroyed by the publishing thread, each one at a time
Thread(s) ==
    CASE sess[s].pc \in {"new", "up", "other", "gone"} -> "none"
      [] sess[s].pc \in {"remove", "uncount", "uncounted", "last", "destroy"} -> "publish"
      [] OTHER -> IF s \in Servers THEN "http" ELSE "message"

Free(t) == \A s \in Session : Thread(s) # t

\* the session waits in yang_turnconn_stop
Stopping(s) == sess[s].pc \in {"stop", "closeTurn", "destroy"}

\* yang_turnconn_start
Start(t) ==
    IF t.isStart THEN t
    ELSE [t EXCEPT !.thread = IF @ = "none" THEN "created" ELSE @,
                   !.lost = @ \/ \E o \in Session : Stopping(o)]

\* the first half of yang_turnconn_stop; its refresh may reach the server
StopOf(t) == [t EXCEPT !.isLoop = FALSE, !.state = Close, !.stopped = TRUE,
                       !.lost = @ \/ t.thread \in {"created", "starting"}]

EndAllocation == server' \in {server, [server EXCEPT !.allocated = FALSE, !.bound = {}]}

Stop == turn' = StopOf(turn) /\ EndAllocation

\* yang_ice_getTurn tests the pointer; the bound counts the connections that
\* sessions are about to make
TestTurn(s) ==
    /\ sess[s].pc = "new" /\ Free(IF s \in Servers THEN "http" ELSE "message")
    /\ IF turn.id = 0
       THEN /\ conns + Cardinality({o \in Session : sess[o].pc = "make"}) < MaxConns
            /\ Goes(s, "make")
       ELSE Goes(s, "count")
    /\ torn' = (\E o \in Session : sess[o].pc \in {"closeTurn", "destroy"})
    /\ UNCHANGED <<turn, count, conns, server>>

\* the pointer is set to zeroed memory, whatever it is by now
MakeTurn(s) ==
    /\ sess[s].pc = "make" /\ Goes(s, "create")
    /\ conns' = conns + 1 /\ server' = NoServer
    /\ turn' = Connection(conns', FALSE)
    /\ torn' = (turn.id # 0)
    /\ UNCHANGED count

\* yang_create_turnConnection
CreateTurn(s) ==
    /\ sess[s].pc = "create" /\ Goes(s, "count")
    /\ turn' = Connection(turn.id, TRUE)
    /\ UNCHANGED <<count, conns, server, torn>>

\* the count is loaded and stored, and the pointer returned
CountTurn(s) ==
    \/ /\ sess[s].pc = "count" /\ GoesWith(s, "counted", count)
       /\ UNCHANGED <<turn, count, conns, server, torn>>
    \/ /\ sess[s].pc = "counted" /\ count' = sess[s].loaded + 1
       /\ sess' = [sess EXCEPT ![s].pc = "start", ![s].turnconn = turn.id, ![s].loaded = 0]
       /\ torn' = (count # sess[s].loaded)
       /\ UNCHANGED <<turn, conns, server>>

\* yang_ice_initTurn starts the connection; it calls through NULL when another
\* session has set the pointer and not created the connection yet
InitTurn(s) ==
    /\ Holds(s) /\ sess[s].pc = "start"
    /\ turn' = Start(turn) /\ Goes(s, "allocate")
    /\ torn' = ~turn.made
    /\ UNCHANGED <<count, conns, server>>

\* the wait for isAllocated: it is over, or the session stops the connection
Allocated(s) ==
    /\ Holds(s) /\ sess[s].pc = "allocate"
    /\ \/ /\ turn.state = Permission
          /\ Goes(s, IF s \in Servers THEN "add" ELSE "offered")
          /\ UNCHANGED <<turn, server>>
       \/ Stop /\ Goes(s, "stop")
    /\ UNCHANGED <<count, conns, torn>>

\* another session has the pointer, or is about to return it
Shared(s) ==
    \E o \in Session \ {s} : sess[o].turnconn = turn.id \/ sess[o].pc \in Getting

\* yang_ice_closeTurn begins
CloseTurn(s) == Stop /\ Goes(s, "closeTurn") /\ torn' = Shared(s)

\* after the stop a server goes on to add its peer, as the result of initTurn
\* is not asked; a client tries STUN, and without it closes the connection
Stopped(s) ==
    /\ Holds(s) /\ sess[s].pc = "stop" /\ ~turn.isStart
    /\ \/ /\ Goes(s, IF s \in Servers THEN "add" ELSE "other")
          /\ UNCHANGED <<turn, server, torn>>
       \/ s \notin Servers /\ CloseTurn(s)
    /\ UNCHANGED <<count, conns>>

\* yang_ice_handle of a client, when the answer to its offer is there
IceHandle(s) ==
    /\ sess[s].pc = "offered" /\ Goes(s, "add")
    /\ UNCHANGED <<turn, count, conns, server, torn>>

\* yang_turnconn_addPeer tests channelNum and resets it
TestChannel(s) ==
    LET channel == IF turn.channelNum > MaxChannel THEN 0 ELSE turn.channelNum
    IN
    /\ Holds(s) /\ sess[s].pc = "add"
    /\ turn' = [turn EXCEPT !.channelNum = channel]
    /\ sess' = [sess EXCEPT ![s].pc = "number", ![s].channel = channel]
    /\ UNCHANGED <<count, conns, server, torn>>

\* faulty variant of NumberPeer: channelNum stays
NumberPeer_SameChannel(s) ==
    /\ Holds(s)
    /\ \/ /\ sess[s].pc = "number"
          /\ sess' = [sess EXCEPT ![s].pc = "next", ![s].channel = turn.channelNum]
          /\ turn' = [turn EXCEPT !.clash = @ \/ turn.channelNum # sess[s].channel]
       \/ /\ sess[s].pc = "next" /\ GoesWith(s, "numbered", turn.channelNum)
          /\ turn' = [turn EXCEPT !.clash = @ \/ turn.channelNum # sess[s].channel]
       \/ /\ sess[s].pc = "numbered" /\ GoesWith(s, "insert", 0)
          /\ turn' = [turn EXCEPT !.clash = @ \/ turn.channelNum # sess[s].loaded,
                                   !.added = @ + 1]
    /\ UNCHANGED <<count, conns, server, torn>>

\* the peer gets the number, which is then loaded again and counted up
NumberPeer(s) ==
    /\ Holds(s)
    /\ \/ /\ sess[s].pc = "number"
          /\ sess' = [sess EXCEPT ![s].pc = "next", ![s].channel = turn.channelNum]
          /\ turn' = [turn EXCEPT !.clash = @ \/ turn.channelNum # sess[s].channel]
       \/ /\ sess[s].pc = "next" /\ GoesWith(s, "numbered", turn.channelNum)
          /\ turn' = [turn EXCEPT !.clash = @ \/ turn.channelNum # sess[s].channel]
       \/ /\ sess[s].pc = "numbered" /\ GoesWith(s, "insert", 0)
          /\ turn' = [turn EXCEPT !.channelNum = sess[s].loaded + 1, !.added = @ + 1,
                                   !.clash = @ \/ turn.channelNum # sess[s].loaded]
    /\ UNCHANGED <<count, conns, server, torn>>

\* the peer is put on the list, behind turnLock
AddPeer(s) ==
    /\ Holds(s) /\ sess[s].pc = "insert" /\ ~turn.turnLock
    /\ turn' = [turn EXCEPT
            !.peers = Append(@, [uid |-> s, channelNumber |-> sess[s].channel,
                                 state |-> Permission, timed |-> FALSE])]
    /\ sess' = [sess EXCEPT ![s].pc = "ready", ![s].channel = 0]
    /\ UNCHANGED <<count, conns, server, torn>>

\* the wait for isReady, and what yang_ice_handle does when it runs out
WaitReady(s) ==
    /\ Holds(s) /\ sess[s].pc = "ready"
    /\ \/ turn.state = Ready /\ Goes(s, "up") /\ UNCHANGED <<turn, server, torn>>
       \/ CloseTurn(s)
    /\ UNCHANGED <<count, conns>>

\* the publishing thread begins with the session
BeginDestroy(s) ==
    /\ sess[s].pc \in {"up", "other"} /\ Free("publish")
    /\ Goes(s, IF sess[s].turnconn = 0 THEN "gone" ELSE "remove")
    /\ UNCHANGED <<turn, count, conns, server, torn>>

\* yang_turnconn_removePeer keeps turnLock when it finds the peer
Removed(s) ==
    LET found == {i \in DOMAIN turn.peers : turn.peers[i].uid = s}
    IN  IF found = {} THEN turn
        ELSE LET i == CHOOSE i \in found : \A j \in found : i <= j
             IN  [turn EXCEPT !.turnLock = TRUE,
                              !.channelNum = turn.peers[i].channelNumber,
                              !.peers = RemoveAt(@, i)]

RemovePeer(s) ==
    /\ Holds(s) /\ sess[s].pc = "remove" /\ ~turn.turnLock
    /\ turn' = Removed(s) /\ Goes(s, "uncount")
    /\ UNCHANGED <<count, conns, server, torn>>

\* yang_destroy_ice: the count is loaded and stored
UncountTurn(s) ==
    /\ Holds(s)
    /\ \/ /\ sess[s].pc = "uncount" /\ GoesWith(s, "uncounted", count)
          /\ UNCHANGED <<count, torn>>
       \/ /\ sess[s].pc = "uncounted" /\ GoesWith(s, "last", 0)
          /\ count' = sess[s].loaded - 1
          /\ torn' = (count # sess[s].loaded)
    /\ UNCHANGED <<turn, conns, server>>

\* faulty variant of DestroyIce: the connection goes at a count of one
DestroyIce_OneEarly(s) ==
    /\ Holds(s) /\ sess[s].pc = "last"
    /\ IF count <= 1
       THEN Stop /\ Goes(s, "destroy") /\ UNCHANGED torn
       ELSE /\ sess' = [sess EXCEPT ![s].pc = "gone", ![s].turnconn = 0]
            /\ UNCHANGED <<turn, server, torn>>
    /\ UNCHANGED <<count, conns>>

\* and tested, up to the end of the stop
DestroyIce(s) ==
    /\ Holds(s) /\ sess[s].pc = "last"
    /\ IF count = 0
       THEN /\ Stop /\ Goes(s, "destroy")
            /\ torn' = (\E o \in Session : sess[o].pc \in Getting)
       ELSE /\ sess' = [sess EXCEPT ![s].pc = "gone", ![s].turnconn = 0]
            /\ UNCHANGED <<turn, server, torn>>
    /\ UNCHANGED <<count, conns>>

\* the end of yang_destroy_turnConnection: the global pointer is NULL again;
\* closeTurn also resets the count.  A thread that has not run yet is not waited
\* for; what it does with the freed connection is undefined and left out
FreeTurn(s) ==
    /\ Holds(s) /\ sess[s].pc \in {"closeTurn", "destroy"} /\ ~turn.isStart
    /\ turn' = Connection(0, FALSE)
    /\ count' = IF sess[s].pc = "closeTurn" THEN 0 ELSE count
    /\ sess' = [sess EXCEPT ![s].turnconn = 0,
                            ![s].pc = IF @ = "closeTurn" THEN "other" ELSE "gone"]
    /\ UNCHANGED <<conns, server, torn>>

SessionStep(s) ==
    \/ TestTurn(s) \/ MakeTurn(s) \/ CreateTurn(s) \/ CountTurn(s) \/ InitTurn(s)
    \/ Allocated(s) \/ Stopped(s) \/ IceHandle(s)
    \/ TestChannel(s) \/ NumberPeer(s) \/ AddPeer(s) \/ WaitReady(s)
    \/ RemovePeer(s) \/ UncountTurn(s) \/ DestroyIce(s) \/ FreeTurn(s)
-----------------------------------------------------------------------------
(* The thread of the connection.                                           *)

\* faulty variant of LoopThread: isStart stays set
LoopThread_KeepsStart ==
    /\ \/ /\ turn.thread = "created"
          /\ turn' = [turn EXCEPT !.thread = "starting", !.isStart = TRUE]
       \/ /\ turn.thread = "starting"
          /\ turn' = [turn EXCEPT !.thread = "run", !.isLoop = TRUE]
       \/ /\ turn.thread = "run" /\ ~turn.isLoop
          /\ turn' = [turn EXCEPT !.thread = "none"]
    /\ UNCHANGED <<sess, count, conns, server, torn>>

\* yang_run_turnconn_handle_thread around its loop
LoopThread ==
    /\ \/ /\ turn.thread = "created"
          /\ turn' = [turn EXCEPT !.thread = "starting", !.isStart = TRUE]
       \/ /\ turn.thread = "starting"
          /\ turn' = [turn EXCEPT !.thread = "run", !.isLoop = TRUE]
       \/ /\ turn.thread = "run" /\ ~turn.isLoop
          /\ turn' = [turn EXCEPT !.thread = "none", !.isStart = FALSE]
    /\ UNCHANGED <<sess, count, conns, server, torn>>

Answered(kind) == server' = [server EXCEPT !.answers = @ \cup {kind}]

\* faulty variant of Asks: a new peer is only asked for in its own state
Asks_OneState(p) == turn.state = p.state

\* the peers a request is sent for, by the state of the connection
Asks(p) == turn.state = p.state \/ turn.state = Ready

\* one request of yang_run_turnconn_app that reaches the server.  The server
\* answers a second allocation with an error, and binds a channel to one peer
Request ==
    /\ turn.thread = "run"
    /\ \/ turn.state = New /\ Answered("binding")
       \/ turn.state = Credential /\ Answered("challenge")
       \/ /\ turn.state = Allocate /\ ~server.allocated
          /\ server' = [server EXCEPT !.answers = @ \cup {"allocated"}, !.allocated = TRUE]
       \/ /\ turn.state = Close
          /\ server' = [server EXCEPT !.allocated = FALSE, !.bound = {}]
    /\ UNCHANGED <<sess, turn, count, conns, torn>>

\* the same for a peer
PeerRequest(s) ==
    /\ turn.thread = "run"
    /\ \E p \in ToSet(turn.peers) :
        /\ p.uid = s /\ Asks(p) /\ server.allocated
        /\ \/ p.state = Permission /\ Answered("permission")
           \/ /\ p.state = BindChannel
              /\ \A b \in server.bound : b[1] = p.channelNumber <=> b[2] = p.uid
              /\ server' = [server EXCEPT !.answers = @ \cup {"bound"},
                                !.bound = @ \cup {<<p.channelNumber, p.uid>>}]
    /\ UNCHANGED <<sess, turn, count, conns, torn>>

\* yang_turnconn_refreshAllocate: the lifetime of a peer is nearly over, which
\* it got with its first permission (timed)
Renew ==
    /\ turn.thread = "run" /\ turn.state = Ready
    /\ \E i \in DOMAIN turn.peers :
        /\ turn.peers[i].timed
        /\ turn' = [turn EXCEPT !.peers[i].state =
                        IF turn.permissionCount >= 2 THEN BindChannel ELSE Permission]
    /\ UNCHANGED <<sess, count, conns, server, torn>>
-----------------------------------------------------------------------------
(* The UDP thread of the connection: yang_turnconn_receive.                *)

\* all peers that wait in one state go on to the next
Promote(from, to) ==
    [i \in DOMAIN turn.peers |->
        IF turn.peers[i].state = from
        THEN [turn.peers[i] EXCEPT !.state = to, !.timed = TRUE]
        ELSE turn.peers[i]]

\* faulty variant of AtLeast: every answer leads on to the next state
AtLeast_Next(state) == turn.state + 1

AtLeast(state) == IF turn.state < state THEN state ELSE turn.state

\* faulty variant of OnPermission: the state of the connection is set back
OnPermission_SetsBack ==
    turn' = [turn EXCEPT !.peers = Promote(Permission, BindChannel),
                         !.state = BindChannel,
                         !.permissionCount = IF @ < 2 THEN @ + 1 ELSE @]

\* faulty variant of OnPermission: no channel is bound
OnPermission_Ready ==
    turn' = [turn EXCEPT !.peers = Promote(Permission, Ready),
                         !.state = AtLeast(BindChannel),
                         !.permissionCount = IF @ < 2 THEN @ + 1 ELSE @]

\* StunPermissionSuccessResponse; permissionCount is compared with 2 only
OnPermission ==
    turn' = [turn EXCEPT !.peers = Promote(Permission, BindChannel),
                         !.state = AtLeast(BindChannel),
                         !.permissionCount = IF @ < 2 THEN @ + 1 ELSE @]

\* StunChannelBindSuccessResponse
OnBound ==
    turn' = [turn EXCEPT !.peers = Promote(BindChannel, Ready), !.state = AtLeast(Ready)]

\* StunAllocateSuccessResponse
OnAllocated ==
    turn' = [turn EXCEPT !.state = IF @ = Credential THEN Allocate ELSE Permission,
                         !.back = @ \/ turn.state > Permission]

Receive(kind) ==
    CASE kind = "binding" -> turn' = [turn EXCEPT !.state = IF @ = New THEN Credential ELSE @]
      [] kind = "challenge" -> turn' = [turn EXCEPT !.state = AtLeast(Allocate)]
      [] kind = "allocated" -> OnAllocated
      [] kind = "permission" -> OnPermission
      [] kind = "bound" -> OnBound

\* an answer comes, and may come again
Answer(kind) ==
    /\ kind \in server.answers /\ turn.id # 0 /\ Receive(kind)
    /\ UNCHANGED <<sess, count, conns, server, torn>>

\* an answer for a peer comes for the last time
LastAnswer(kind) ==
    /\ kind \in server.answers /\ turn.id # 0 /\ Receive(kind)
    /\ server' = [server EXCEPT !.answers = @ \ {kind}]
    /\ UNCHANGED <<sess, count, conns, torn>>

\* the peer that gets the data of a channel
Receiver(channel) ==
    SelectInSeq(turn.peers, LAMBDA p : p.state = Ready /\ p.channelNumber = channel)
-----------------------------------------------------------------------------
Next ==
    /\ ~torn
    /\ \/ \E s \in Session : SessionStep(s) \/ BeginDestroy(s) \/ PeerRequest(s)
       \/ LoopThread \/ Request \/ Renew
       \/ \E kind \in Answers : Answer(kind)
       \/ LastAnswer("permission") \/ LastAnswer("bound")

\* Every thread goes on, a session may be kept for ever, and an answer to a
\* request that is sent again and again comes in the end.
Fairness ==
    /\ \A s \in Session :
          WF_vars(~torn /\ SessionStep(s)) /\ WF_vars(~torn /\ PeerRequest(s))
    /\ WF_vars(~torn /\ LoopThread)
    /\ SF_vars(~torn /\ LastAnswer("permission")) /\ SF_vars(~torn /\ LastAnswer("bound"))

Spec == Init /\ [][Next]_vars /\ Fairness
-----------------------------------------------------------------------------
(* Properties.                                                             *)

\* Sessions, connection and server keep their ranges.  While no two threads have
\* raced for channelNum no number is beyond the 32 of the base, whatever is
\* removed and added.
TypeOK ==
    /\ sess \in [Session -> [pc : SessPc, turnconn : 0 .. conns,
                             channel : Nat, loaded : Nat]]
    /\ turn \in [id : 0 .. conns, made : BOOLEAN, state : New .. Close,
                 thread : {"none", "created", "starting", "run"},
                 isStart : BOOLEAN, isLoop : BOOLEAN, turnLock : BOOLEAN,
                 channelNum : Nat, permissionCount : 0 .. 2,
                 peers : Seq(Peer), added : Nat, clash : BOOLEAN,
                 stopped : BOOLEAN, lost : BOOLEAN, back : BOOLEAN]
    /\ count \in Nat /\ conns \in 0 .. MaxConns
    /\ server \in [answers : SUBSET Answers, allocated : BOOLEAN,
                   bound : SUBSET (Nat \X Session)]
    /\ torn \in BOOLEAN
    /\ turn.clash \/ /\ turn.channelNum <= MaxChannel + 1
                     /\ \A p \in ToSet(turn.peers) : p.channelNumber <= MaxChannel

\* The count keeps the connection for every session that holds it, and frees
\* it with the last one, unless closeTurn destroyed it under another session
\* or a session took it while it was being destroyed.
CountKeepsIt ==
    torn \/ /\ \A s \in Session : sess[s].turnconn \in {0, turn.id}
            /\ turn.id # 0 => \E s \in Session : Holds(s) \/ sess[s].pc \in Getting

\* While the connection had one peer only and was not stopped, a peer that is
\* Ready has its channel at the server: no late or repeated answer, and no
\* renewal, lets a peer send on a channel that is not bound.
ReadyIsBound ==
    turn.added = 1 /\ ~turn.stopped =>
        \A p \in ToSet(turn.peers) :
            p.state = Ready => <<p.channelNumber, p.uid>> \in server.bound

\* The peers can tell their channels apart: no race for channelNum, and no more
\* numbers given than there are.
Distinct == ~turn.clash /\ turn.added <= MaxChannel + 1

\* Data the server sends for one remote peer never reaches the session of
\* another one, although answers promote peers that did not ask for them.
NotMisdelivered ==
    Distinct =>
        \A b \in server.bound :
            Receiver(b[1]) # 0 => turn.peers[Receiver(b[1])].uid = b[2]

\* The state of the connection and those of its peers fit together: when all
\* are not Ready the thread has a request to send for one of them, and when
\* all are, so is the connection.  Not so after a stop, a removal, or an answer
\* to the allocation that comes again when peers are further on.
NobodyForgotten ==
    turn.state \in {Permission, BindChannel, Ready} /\ turn.peers # <<>> =>
        \/ turn.stopped \/ turn.back \/ turn.turnLock
        \/ \E p \in ToSet(turn.peers) : p.state # Ready /\ Asks(p)
        \/ turn.state = Ready /\ \A p \in ToSet(turn.peers) : p.state = Ready

\* A session goes up when the connection is Ready, which it may be by another
\* peer: its own peer does become Ready, or is removed, as long as requests sent
\* again and again are answered in the end.  A stop, a removal and a repeated
\* answer to the allocation can prevent it.
PeersServed ==
    \A s \in Session :
        sess[s].pc = "up" /\ sess[s].turnconn # 0 ~>
            \/ \E p \in ToSet(turn.peers) : p.uid = s /\ p.state = Ready
            \/ turn.stopped \/ turn.back \/ turn.turnLock \/ torn \/ ~Distinct

\* A session that waits in yang_turnconn_stop is heard: if the thread runs it
\* finds isLoop cleared, and it is the one that clears isStart, so the wait
\* ends.  Not so when the connection was stopped before a thread of it ran, which
\* then sets isLoop again, or a session started a thread over the stop (lost).
StopIsHeard ==
    \A s \in Session :
        Holds(s) /\ Stopping(s) =>
            turn.lost \/ (~turn.isLoop /\ (turn.isStart => turn.thread = "run"))
=============================================================================
