---------------------------- MODULE MediaBuffer ----------------------------
(***************************************************************************)
(* YangMediaBuffer, the ring of frames between two threads: capture and    *)
(* encoder, encoder and publisher, receiver and decoder, decoder and       *)
(* renderer.  putFrame and getFrameRef update the indices and the size     *)
(* under a mutex, but look at the size before they take it; getFrameRef    *)
(* hands out the slot itself and frees it at once; resetIndex, which the   *)
(* renderer's YangSynBuffer calls on its first frame to clear the cache,   *)
(* takes no mutex at all.                                                  *)
(*                                                                         *)
(* A step is a load or a store that another thread can come between.  The  *)
(* accesses without the mutex race in the sense of the language; the model *)
(* gives them the outcomes of plain loads and stores in program order.     *)
(***************************************************************************)
EXTENDS Integers, Sequences

CONSTANTS
    N,          \* m_cache_num
    SizeCount,  \* bound: number of values of m_size, 2^32 in the code
    Horizon     \* bound: last frame produced

ASSUME MediaBufferAssumption ==
    /\ N \in Nat \ {0} /\ SizeCount \in Nat /\ N < SizeCount
    /\ Horizon \in Nat

VARIABLES
    putIndex, getIndex, size,   \* m_putIndex, m_getIndex, m_size
    frames,                     \* m_frames: the frame in each slot
    lock,                       \* m_lock: the thread that holds it
    next,                       \* the frame the producer has in hand
    put,                        \* the producing thread in putFrame
    get,                        \* the consuming thread in getFrameRef
    since,                      \* frames written since the consumer took one
    renders,                    \* the consumer is a YangSynBuffer
    isFirstVideo                \* m_isFirstVideo: it has cleared the cache

sync == <<renders, isFirstVideo>>
vars == <<putIndex, getIndex, size, frames, lock, next, put, get, since, sync>>

Slot == 0 .. N - 1
Empty == 0
Torn == -1      \* a copy into the slot is under way
Wrap(i) == IF i >= N THEN 0 ELSE i
-----------------------------------------------------------------------------
(* putFrame, by the producing thread.                                      *)

\* faulty variant of PutCheck: > for >=
PutCheck_OneLate ==
    /\ put.pc = "idle" /\ next <= Horizon
    /\ IF size > N
       THEN next' = next + 1 /\ put' = put
       ELSE put' = [put EXCEPT !.pc = "enter"] /\ next' = next
    /\ UNCHANGED <<putIndex, getIndex, size, frames, lock, get, since, sync>>

\* size() >= m_cache_num: the frame is not stored
PutCheck ==
    /\ put.pc = "idle" /\ next <= Horizon
    /\ IF size >= N
       THEN next' = next + 1 /\ put' = put
       ELSE put' = [put EXCEPT !.pc = "enter"] /\ next' = next
    /\ UNCHANGED <<putIndex, getIndex, size, frames, lock, get, since, sync>>

PutEnter ==
    /\ put.pc = "enter" /\ lock = "free"
    /\ lock' = "put"
    /\ put' = [put EXCEPT !.pc = "start", !.slot = putIndex]
    /\ UNCHANGED <<putIndex, getIndex, size, frames, next, get, since, sync>>

\* m_putIndex++, and yang_frame_copy_buffer starts
PutStart ==
    /\ put.pc = "start"
    /\ putIndex' = put.slot + 1
    /\ frames' = [frames EXCEPT ![put.slot] = Torn]
    /\ since' = since + 1
    /\ put' = [put EXCEPT !.pc = "copy"]
    /\ UNCHANGED <<getIndex, size, lock, next, get, sync>>

\* the copy ends, the index wraps, and m_size++ reads the size
PutCopied ==
    /\ put.pc = "copy"
    /\ frames' = [frames EXCEPT ![put.slot] = next]
    /\ putIndex' = Wrap(putIndex)
    /\ put' = [put EXCEPT !.pc = "leave", !.reg = size]
    /\ UNCHANGED <<getIndex, size, lock, next, get, since, sync>>

PutLeave ==
    /\ put.pc = "leave"
    /\ size' = (put.reg + 1) % SizeCount
    /\ lock' = "free"
    /\ next' = next + 1
    /\ put' = [pc |-> "idle", slot |-> 0, reg |-> 0]
    /\ UNCHANGED <<putIndex, getIndex, frames, get, since, sync>>
-----------------------------------------------------------------------------
(* resetIndex and getFrameRef, by the consuming thread.                    *)

\* the loop of the consumer sees a frame; YangSynBuffer.playVideoFrame
\* clears the cache first
GetCheck ==
    /\ get.pc = "idle" /\ size # 0
    /\ get' = [get EXCEPT !.pc = IF renders /\ ~isFirstVideo
                                 THEN "resetPut" ELSE "call"]
    /\ UNCHANGED <<putIndex, getIndex, size, frames, lock, next, put, since, sync>>

ResetPut ==
    /\ get.pc = "resetPut"
    /\ putIndex' = 0
    /\ get' = [get EXCEPT !.pc = "resetGet"]
    /\ UNCHANGED <<getIndex, size, frames, lock, next, put, since, sync>>

ResetGet ==
    /\ get.pc = "resetGet"
    /\ getIndex' = 0
    /\ get' = [get EXCEPT !.pc = "resetSize"]
    /\ UNCHANGED <<putIndex, size, frames, lock, next, put, since, sync>>

ResetSize ==
    /\ get.pc = "resetSize"
    /\ size' = 0
    /\ isFirstVideo' = TRUE
    /\ get' = [get EXCEPT !.pc = "call"]
    /\ UNCHANGED <<putIndex, getIndex, frames, lock, next, put, since, renders>>

\* getFrameRef looks at the size again
GetCall ==
    /\ get.pc = "call"
    /\ get' = [get EXCEPT !.pc = IF size = 0 THEN "idle" ELSE "enter"]
    /\ UNCHANGED <<putIndex, getIndex, size, frames, lock, next, put, since, sync>>

\* faulty variant of GetEnter: the index does not wrap at the end of the ring
\* but one slot before
GetEnter_WrapsEarly ==
    /\ get.pc = "enter" /\ lock = "free"
    /\ lock' = "get"
    /\ getIndex' = IF getIndex + 2 >= N THEN 0 ELSE getIndex + 1
    /\ get' = [pc |-> "leave", slot |-> getIndex, reg |-> size,
               frame |-> frames[getIndex]]
    /\ since' = 0
    /\ UNCHANGED <<putIndex, size, frames, next, put, sync>>

\* the header of the frame is copied, its payload is handed out by reference,
\* and m_size-- reads the size
GetEnter ==
    /\ get.pc = "enter" /\ lock = "free"
    /\ lock' = "get"
    /\ getIndex' = Wrap(getIndex + 1)
    /\ get' = [pc |-> "leave", slot |-> getIndex, reg |-> size,
               frame |-> frames[getIndex]]
    /\ since' = 0
    /\ UNCHANGED <<putIndex, size, frames, next, put, sync>>

\* faulty variant of GetLeave: the mutex stays locked
GetLeave_KeepsLock ==
    /\ get.pc = "leave"
    /\ size' = (get.reg + SizeCount - 1) % SizeCount
    /\ get' = [get EXCEPT !.pc = "use"]
    /\ UNCHANGED <<putIndex, getIndex, frames, lock, next, put, since, sync>>

GetLeave ==
    /\ get.pc = "leave"
    /\ size' = (get.reg + SizeCount - 1) % SizeCount
    /\ lock' = "free"
    /\ get' = [get EXCEPT !.pc = "use"]
    /\ UNCHANGED <<putIndex, getIndex, frames, next, put, since, sync>>

\* the consumer encodes, sends or draws the payload, and loops
GetDone ==
    /\ get.pc = "use"
    /\ get' = [get EXCEPT !.pc = "idle"]
    /\ UNCHANGED <<putIndex, getIndex, size, frames, lock, next, put, since, sync>>
-----------------------------------------------------------------------------
\* the constructor and initFrames
Init ==
    /\ putIndex = 0 /\ getIndex = 0 /\ size = 0
    /\ frames = [i \in Slot |-> Empty]
    /\ lock = "free"
    /\ next = 1
    /\ put = [pc |-> "idle", slot |-> 0, reg |-> 0]
    /\ get = [pc |-> "idle", slot |-> 0, reg |-> 0, frame |-> Empty]
    /\ since = 0
    /\ renders \in BOOLEAN
    /\ isFirstVideo = FALSE

Producer == PutCheck \/ PutEnter \/ PutStart \/ PutCopied \/ PutLeave
Consumer ==
    \/ GetCheck \/ ResetPut \/ ResetGet \/ ResetSize
    \/ GetCall \/ GetEnter \/ GetLeave \/ GetDone

Next == Producer \/ Consumer

\* both threads are loops that the system keeps scheduling
Spec == Init /\ [][Next]_vars /\ WF_vars(Producer) /\ WF_vars(Consumer)
-----------------------------------------------------------------------------
(* Properties.                                                             *)

\* Every variable keeps the range its use gives it; above all m_size, unsigned
\* and read outside the mutex, neither passes m_cache_num nor wraps below zero.
TypeOK ==
    /\ putIndex \in 0 .. N /\ getIndex \in Slot /\ size \in 0 .. N
    /\ frames \in [Slot -> -1 .. Horizon]
    /\ lock \in {"free", "put", "get"}
    /\ next \in 1 .. Horizon + 1
    /\ put \in [pc : {"idle", "enter", "start", "copy", "leave"},
                slot : 0 .. N, reg : 0 .. SizeCount - 1]
    /\ get \in [pc : {"idle", "resetPut", "resetGet", "resetSize", "call",
                      "enter", "leave", "use"},
                slot : Slot, reg : 0 .. SizeCount - 1, frame : -1 .. Horizon]
    /\ since \in 0 .. Horizon
    /\ renders \in BOOLEAN /\ isFirstVideo \in BOOLEAN

\* Unless the renderer clears the ring without the mutex,
\* a frame handed out by reference is not written over before the producer
\* has used up the slots that were free: get.reg frames, with the one handed
\* out, were in the ring, so N - get.reg more fit beside it.
HandedOutIntact ==
    ~renders /\ get.pc \in {"leave", "use"} /\ since <= N - get.reg =>
        /\ get.frame \in 1 .. Horizon
        /\ frames[get.slot] = get.frame

\* The queue the ring stands for: the frames from getIndex on.  Between its
\* two steps under the mutex the consumer has moved the index only.
Count == IF get.pc = "leave" THEN get.reg - 1 ELSE size
Queue == INSTANCE FrameQueue WITH
            waiting <- [i \in 1 .. Count |-> frames[(getIndex + i - 1) % N]],
            taken <- get.frame

\* Unless the renderer clears the ring, frames come out in the order they went
\* in, each at most once, and one is lost only for want of room.
IsFrameQueue == Queue!Init /\ [][renders \/ Queue!Next]_(Queue!vars)

\* Every frame that was stored is taken in the end.
Drained == <>[](size = 0)
=============================================================================
