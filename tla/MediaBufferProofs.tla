------------------------- MODULE MediaBufferProofs -------------------------
(***************************************************************************)
(* What module MediaBuffer checks with a ring of three slots, proved for a *)
(* ring of any size and any number of frames: the size stays within the    *)
(* ring although it is read and reset outside the mutex, a frame handed    *)
(* out by reference stays whole as long as it was promised to, and the     *)
(* ring implements the queue of module FrameQueue, step by step.           *)
(***************************************************************************)
EXTENDS MediaBuffer, SequenceTheorems, TLAPS

\* The slot i places after the start of the ring, for i up to twice its size.
Ring(i) == IF i >= N THEN i - N ELSE i

\* A frame whose slot is taken (m_putIndex has moved) and which m_size does not
\* count yet.
Started == IF put.pc \in {"copy", "leave"} THEN 1 ELSE 0

\* The inductive invariant.  The mutex is held by the thread that is between
\* its enter and its leave; the size each of them has read under the mutex is
\* the size still, unless the renderer has set it to 0, and the size that
\* was looked at before the mutex can only have moved the harmless way.
LockInv ==
    /\ lock = "put" <=> put.pc \in {"start", "copy", "leave"}
    /\ lock = "get" <=> get.pc = "leave"

SizeInv ==
    /\ put.pc \in {"enter", "start", "copy"} => size < N
    /\ put.pc = "leave" => put.reg < N
    /\ get.pc = "enter" => size >= 1
    /\ get.pc = "leave" => get.reg = size
    /\ get.pc \in {"leave", "use"} => get.reg \in 1 .. N

IndexInv ==
    /\ putIndex = N => put.pc = "copy"
    /\ put.pc \in {"start", "copy", "leave"} => put.slot < N

FrameInv ==
    /\ put.pc # "idle" => next <= Horizon
    /\ since < next + Started

ResetInv == get.pc \in {"resetPut", "resetGet", "resetSize"} => renders

\* Without the renderer the slot to write next lies Count slots after the one to
\* read next, one more when a frame is being written, and what lies between is
\* whole frames.
RingInv ==
    ~renders =>
        /\ put.pc = "start" => put.slot = putIndex
        /\ put.pc = "copy" => putIndex = put.slot + 1
        /\ put.pc = "leave" =>
              putIndex = Wrap(put.slot + 1) /\ put.reg = size /\ frames[put.slot] = next
        /\ Count + Started <= N
        /\ Wrap(putIndex) = Ring(getIndex + (Count + Started))
        /\ \A i \in 0 .. Count - 1 : frames[Ring(getIndex + i)] \in 1 .. Horizon

\* The producer has come since slots nearer to the slot that was handed out.
TakenInv ==
    ~renders /\ get.pc \in {"leave", "use"} /\ since <= N - get.reg =>
        /\ put.pc = "copy" => since >= 1
        /\ Wrap(putIndex) = Ring(get.slot + (get.reg + since))
        /\ get.frame \in 1 .. Horizon
        /\ frames[get.slot] = get.frame

IInv ==
    /\ TypeOK /\ LockInv /\ SizeInv /\ IndexInv /\ FrameInv
    /\ ResetInv /\ RingInv /\ TakenInv
-----------------------------------------------------------------------------
(* What the steps do, field by field.                                      *)

PutPc == {"idle", "enter", "start", "copy", "leave"}
GetPc == {"idle", "resetPut", "resetGet", "resetSize", "call", "enter", "leave", "use"}
Number == 0 .. SizeCount - 1
PutRecord == [pc : PutPc, slot : 0 .. N, reg : Number]
GetRecord == [pc : GetPc, slot : Slot, reg : Number, frame : -1 .. Horizon]

LEMMA Fields ==
    ASSUME TypeOK
    PROVE  /\ put \in PutRecord /\ get \in GetRecord
           /\ put.pc \in PutPc /\ put.slot \in 0 .. N /\ put.reg \in Number
           /\ get.pc \in GetPc /\ get.slot \in Slot /\ get.reg \in Number
           /\ get.frame \in -1 .. Horizon
           /\ putIndex \in 0 .. N /\ getIndex \in Slot /\ size \in 0 .. N
           /\ frames \in [Slot -> -1 .. Horizon]
           /\ next \in 1 .. Horizon + 1 /\ since \in 0 .. Horizon
           /\ 0 \in Number /\ size \in Number /\ 0 \in 0 .. N
BY MediaBufferAssumption DEF TypeOK, PutPc, GetPc, PutRecord, GetRecord, Number

LEMMA SlotIs ==
    ASSUME NEW i \in Int
    PROVE  i \in Slot <=> 0 <= i /\ i < N
BY MediaBufferAssumption DEF Slot

\* The same ranges as inequalities.
LEMMA Numbers ==
    ASSUME TypeOK
    PROVE  /\ N \in Int /\ N >= 1 /\ Horizon \in Int /\ SizeCount \in Int /\ N < SizeCount
           /\ put.slot \in Int /\ 0 <= put.slot /\ put.slot <= N
           /\ get.slot \in Int /\ 0 <= get.slot /\ get.slot < N
           /\ put.reg \in Int /\ 0 <= put.reg /\ get.reg \in Int /\ 0 <= get.reg
           /\ putIndex \in Int /\ 0 <= putIndex /\ putIndex <= N
           /\ getIndex \in Int /\ 0 <= getIndex /\ getIndex < N
           /\ size \in Int /\ 0 <= size /\ size <= N
           /\ next \in Int /\ 1 <= next /\ next <= Horizon + 1
           /\ since \in Int /\ 0 <= since /\ since <= Horizon
<1>1. \A i \in Slot : i \in Int /\ 0 <= i /\ i < N
  BY MediaBufferAssumption DEF Slot
<1>2. get.slot \in Slot /\ getIndex \in Slot
  BY Fields
<1>3. put.reg \in Number /\ get.reg \in Number
  BY Fields
<1>4. put.reg \in Int /\ 0 <= put.reg /\ get.reg \in Int /\ 0 <= get.reg
  BY <1>3, MediaBufferAssumption DEF Number
<1>5. /\ put.slot \in 0 .. N /\ putIndex \in 0 .. N /\ size \in 0 .. N
      /\ next \in 1 .. Horizon + 1 /\ since \in 0 .. Horizon
  BY Fields
<1> QED BY <1>1, <1>2, <1>4, <1>5, MediaBufferAssumption

KeepPut == put' = put /\ UNCHANGED <<putIndex, next>>
KeepGet == get' = get /\ UNCHANGED <<getIndex, sync>>

LEMMA PutCheckDoes ==
    ASSUME TypeOK, PutCheck
    PROVE  /\ put.pc = "idle" /\ next <= Horizon
           /\ \/ size >= N /\ next' = next + 1 /\ put' = put
              \/ /\ size < N /\ next' = next
                 /\ put' \in PutRecord /\ put'.pc = "enter"
                 /\ put'.slot = put.slot /\ put'.reg = put.reg
           /\ UNCHANGED <<putIndex, size, frames, lock, since>> /\ KeepGet
<1>1. "enter" \in PutPc
  BY DEF PutPc
<1>2. ASSUME put' = [put EXCEPT !.pc = "enter"]
      PROVE  /\ put' \in PutRecord /\ put'.pc = "enter"
             /\ put'.slot = put.slot /\ put'.reg = put.reg
  BY <1>1, <1>2, Fields, ZenonT(30) DEF PutRecord
<1>3. size >= N \/ size < N
  BY Fields, MediaBufferAssumption
<1> QED BY <1>2, <1>3 DEF PutCheck, KeepGet

LEMMA PutEnterDoes ==
    ASSUME TypeOK, PutEnter
    PROVE  /\ put.pc = "enter" /\ lock = "free" /\ lock' = "put"
           /\ put' \in PutRecord /\ put'.pc = "start"
           /\ put'.slot = putIndex /\ put'.reg = put.reg
           /\ UNCHANGED <<putIndex, size, frames, next, since>> /\ KeepGet
<1>1. "start" \in PutPc
  BY DEF PutPc
<1>2. /\ put' \in PutRecord /\ put'.pc = "start"
      /\ put'.slot = putIndex /\ put'.reg = put.reg
  BY <1>1, Fields, ZenonT(30) DEF PutEnter, PutRecord
<1> QED BY <1>2 DEF PutEnter, KeepGet

LEMMA PutStartDoes ==
    ASSUME TypeOK, PutStart
    PROVE  /\ put.pc = "start" /\ putIndex' = put.slot + 1
           /\ frames' = [frames EXCEPT ![put.slot] = Torn]
           /\ since' = since + 1
           /\ put' \in PutRecord /\ put'.pc = "copy"
           /\ put'.slot = put.slot /\ put'.reg = put.reg
           /\ UNCHANGED <<size, lock, next>> /\ KeepGet
<1>1. "copy" \in PutPc
  BY DEF PutPc
<1>2. /\ put' \in PutRecord /\ put'.pc = "copy"
      /\ put'.slot = put.slot /\ put'.reg = put.reg
  BY <1>1, Fields, ZenonT(30) DEF PutStart, PutRecord
<1> QED BY <1>2 DEF PutStart, KeepGet

LEMMA PutCopiedDoes ==
    ASSUME TypeOK, PutCopied
    PROVE  /\ put.pc = "copy" /\ putIndex' = Wrap(putIndex)
           /\ frames' = [frames EXCEPT ![put.slot] = next]
           /\ put' \in PutRecord /\ put'.pc = "leave"
           /\ put'.slot = put.slot /\ put'.reg = size
           /\ UNCHANGED <<size, lock, next, since>> /\ KeepGet
<1>1. "leave" \in PutPc
  BY DEF PutPc
<1>2. /\ put' \in PutRecord /\ put'.pc = "leave"
      /\ put'.slot = put.slot /\ put'.reg = size
  BY <1>1, Fields, ZenonT(30) DEF PutCopied, PutRecord
<1> QED BY <1>2 DEF PutCopied, KeepGet

LEMMA PutLeaveDoes ==
    ASSUME TypeOK, PutLeave
    PROVE  /\ put.pc = "leave" /\ size' = (put.reg + 1) % SizeCount
           /\ lock' = "free" /\ next' = next + 1
           /\ put' \in PutRecord /\ put'.pc = "idle"
           /\ put'.slot = 0 /\ put'.reg = 0
           /\ UNCHANGED <<putIndex, frames, since>> /\ KeepGet
<1>1. "idle" \in PutPc
  BY DEF PutPc
<1>2. /\ put' \in PutRecord /\ put'.pc = "idle"
      /\ put'.slot = 0 /\ put'.reg = 0
  BY <1>1, Fields, ZenonT(30) DEF PutLeave, PutRecord
<1> QED BY <1>2 DEF PutLeave, KeepGet

\* The steps of the consumer that only move its program counter.
LEMMA GetMoves ==
    ASSUME TypeOK, NEW pc \in GetPc, get' = [get EXCEPT !.pc = pc]
    PROVE  /\ get' \in GetRecord /\ get'.pc = pc
           /\ get'.slot = get.slot /\ get'.reg = get.reg /\ get'.frame = get.frame
<1>1. get \in GetRecord
  BY Fields
<1> QED BY <1>1, ZenonT(20) DEF GetRecord

GetKeeps == /\ get' \in GetRecord
            /\ get'.slot = get.slot /\ get'.reg = get.reg /\ get'.frame = get.frame
            /\ UNCHANGED <<frames, since, renders>>


LEMMA GetCheckDoes ==
    ASSUME TypeOK, GetCheck
    PROVE  /\ get.pc = "idle" /\ size # 0
           /\ get'.pc = IF renders /\ ~isFirstVideo THEN "resetPut" ELSE "call"
           /\ UNCHANGED <<getIndex, size, lock, isFirstVideo>> /\ GetKeeps /\ KeepPut
<1> DEFINE pc == IF renders /\ ~isFirstVideo THEN "resetPut" ELSE "call"
<1>1. pc \in GetPc
  BY DEF GetPc
<1>2. get' = [get EXCEPT !.pc = pc]
  BY DEF GetCheck
<1>3. GetKeeps /\ get'.pc = pc
  BY <1>1, <1>2, GetMoves DEF GetKeeps, GetCheck, sync
<1> QED BY <1>3 DEF GetCheck, KeepPut, sync

LEMMA ResetPutDoes ==
    ASSUME TypeOK, ResetPut
    PROVE  /\ get.pc = "resetPut" /\ putIndex' = 0 /\ get'.pc = "resetGet"
           /\ UNCHANGED <<getIndex, size, lock, next, put, isFirstVideo>> /\ GetKeeps
<1>1. "resetGet" \in GetPc
  BY DEF GetPc
<1> QED BY <1>1, GetMoves DEF ResetPut, GetKeeps, sync

LEMMA ResetGetDoes ==
    ASSUME TypeOK, ResetGet
    PROVE  /\ get.pc = "resetGet" /\ getIndex' = 0 /\ get'.pc = "resetSize"
           /\ UNCHANGED <<size, lock, isFirstVideo>> /\ GetKeeps /\ KeepPut
<1>1. "resetSize" \in GetPc
  BY DEF GetPc
<1> QED BY <1>1, GetMoves DEF ResetGet, GetKeeps, KeepPut, sync

LEMMA ResetSizeDoes ==
    ASSUME TypeOK, ResetSize
    PROVE  /\ get.pc = "resetSize" /\ size' = 0 /\ isFirstVideo' = TRUE
           /\ get'.pc = "call"
           /\ UNCHANGED <<getIndex, lock>> /\ GetKeeps /\ KeepPut
<1>1. "call" \in GetPc
  BY DEF GetPc
<1> QED BY <1>1, GetMoves DEF ResetSize, GetKeeps, KeepPut

LEMMA GetCallDoes ==
    ASSUME TypeOK, GetCall
    PROVE  /\ get.pc = "call" /\ get'.pc = IF size = 0 THEN "idle" ELSE "enter"
           /\ UNCHANGED <<getIndex, size, lock, isFirstVideo>> /\ GetKeeps /\ KeepPut
<1> DEFINE pc == IF size = 0 THEN "idle" ELSE "enter"
<1>1. pc \in GetPc
  BY DEF GetPc
<1>2. get' = [get EXCEPT !.pc = pc]
  BY DEF GetCall
<1>3. GetKeeps /\ get'.pc = pc
  BY <1>1, <1>2, GetMoves DEF GetKeeps, GetCall, sync
<1> QED BY <1>3 DEF GetCall, KeepPut, sync

LEMMA GetEnterDoes ==
    ASSUME TypeOK, GetEnter
    PROVE  /\ get.pc = "enter" /\ lock = "free" /\ lock' = "get"
           /\ getIndex' = Wrap(getIndex + 1) /\ since' = 0
           /\ get' \in GetRecord /\ get'.pc = "leave" /\ get'.slot = getIndex
           /\ get'.reg = size /\ get'.frame = frames[getIndex]
           /\ UNCHANGED <<size, frames, sync>> /\ KeepPut
<1>1. "leave" \in GetPc /\ frames[getIndex] \in -1 .. Horizon
  BY Fields DEF GetPc
<1>2. /\ get' \in GetRecord /\ get'.pc = "leave" /\ get'.slot = getIndex
      /\ get'.reg = size /\ get'.frame = frames[getIndex]
  BY <1>1, Fields, ZenonT(30) DEF GetEnter, GetRecord
<1> QED BY <1>2 DEF GetEnter, KeepPut

LEMMA GetLeaveDoes ==
    ASSUME TypeOK, GetLeave
    PROVE  /\ get.pc = "leave" /\ size' = (get.reg + SizeCount - 1) % SizeCount
           /\ lock' = "free" /\ get'.pc = "use"
           /\ UNCHANGED <<getIndex, isFirstVideo>> /\ GetKeeps /\ KeepPut
<1>1. "use" \in GetPc
  BY DEF GetPc
<1> QED BY <1>1, GetMoves DEF GetLeave, GetKeeps, KeepPut, sync

LEMMA GetDoneDoes ==
    ASSUME TypeOK, GetDone
    PROVE  /\ get.pc = "use" /\ get'.pc = "idle"
           /\ UNCHANGED <<getIndex, size, lock, isFirstVideo>> /\ GetKeeps /\ KeepPut
<1>1. "idle" \in GetPc
  BY DEF GetPc
<1> QED BY <1>1, GetMoves DEF GetDone, GetKeeps, KeepPut, sync
-----------------------------------------------------------------------------
(* Lemmas about the numbers.                                               *)

\* m_size++ and m_size-- do not wrap in the range the invariant gives them.
LEMMA SizeSteps ==
    ASSUME NEW n \in 0 .. N
    PROVE  /\ n < N => (n + 1) % SizeCount = n + 1
           /\ n >= 1 => (n + SizeCount - 1) % SizeCount = n - 1
<1>1. ASSUME NEW m \in Nat, m < SizeCount PROVE m % SizeCount = m
  BY <1>1, MediaBufferAssumption
<1>2. ASSUME NEW m \in Nat, m < SizeCount PROVE (m + SizeCount) % SizeCount = m
  BY <1>2, MediaBufferAssumption
<1>3. n >= 1 => n - 1 \in Nat /\ n - 1 < SizeCount /\ n + SizeCount - 1 = (n - 1) + SizeCount
  BY MediaBufferAssumption
<1>4. n >= 1 => ((n - 1) + SizeCount) % SizeCount = n - 1
  BY <1>2, <1>3
<1> QED BY <1>1, <1>3, <1>4, MediaBufferAssumption

\* The arithmetic of the ring: the remainder that the queue is stated with is
\* the wrapping the code does.  Places less than N apart differ.
LEMMA RingIs ==
    ASSUME NEW g \in Slot, NEW n \in 0 .. N
    PROVE  /\ (g + n) % N = Ring(g + n) /\ Ring(g + n) \in Slot
           /\ Wrap(Ring(g + n) + 1) = IF n < N THEN Ring(g + (n + 1)) ELSE Wrap(g + 1)
           /\ n < N => Ring(Wrap(g + 1) + n) = Ring(g + (n + 1))
<1>1. (g + n) % N = Ring(g + n)
  <2>1. ASSUME NEW m \in Nat, m < N PROVE m % N = m /\ (m + N) % N = m
    BY <2>1, MediaBufferAssumption
  <2>2. CASE g + n < N
    BY <2>1, <2>2, MediaBufferAssumption DEF Ring, Slot
  <2>3. CASE g + n >= N
    <3> DEFINE m == (g + n) - N
    <3>1. m \in Nat /\ m < N /\ g + n = m + N
      BY <2>3, MediaBufferAssumption DEF Slot
    <3>2. (m + N) % N = m
      BY <2>1, <3>1
    <3>3. Ring(g + n) = m
      BY <2>3, Zenon DEF Ring
    <3> HIDE DEF m
    <3> QED BY <3>1, <3>2, <3>3
  <2> QED BY <2>2, <2>3, MediaBufferAssumption DEF Slot
<1> QED BY <1>1, MediaBufferAssumption DEF Ring, Slot, Wrap

LEMMA RingApart ==
    ASSUME NEW g \in Slot, NEW n \in 0 .. N, n < N, NEW m \in 0 .. n - 1
    PROVE  Ring(g + m) # Ring(g + n) /\ Ring(g + m) \in Slot
BY MediaBufferAssumption DEF Ring, Slot

LEMMA RingBack ==
    ASSUME NEW g \in Slot, NEW n \in 0 .. N, n < N, NEW s \in Slot,
           Wrap(s + 1) = Ring(g + (n + 1))
    PROVE  s = Ring(g + n)
BY MediaBufferAssumption DEF Ring, Wrap, Slot
-----------------------------------------------------------------------------
(* Every step preserves the invariant: one lemma for each part of it.      *)

\* The ranges, from the fields.
LEMMA TypedByFields ==
    ASSUME putIndex \in 0 .. N, getIndex \in Slot, size \in 0 .. N,
           frames \in [Slot -> -1 .. Horizon], lock \in {"free", "put", "get"},
           next \in 1 .. Horizon + 1, put \in PutRecord, get \in GetRecord,
           since \in 0 .. Horizon, renders \in BOOLEAN, isFirstVideo \in BOOLEAN
    PROVE  TypeOK
BY DEF TypeOK, PutRecord, GetRecord, PutPc, GetPc, Number

LEMMA TypeKept ==
    ASSUME IInv, Next
    PROVE  TypeOK'
<1> USE MediaBufferAssumption
<1> SUFFICES /\ putIndex' \in 0 .. N /\ getIndex' \in Slot /\ size' \in 0 .. N
             /\ frames' \in [Slot -> -1 .. Horizon] /\ lock' \in {"free", "put", "get"}
             /\ next' \in 1 .. Horizon + 1 /\ put' \in PutRecord /\ get' \in GetRecord
             /\ since' \in 0 .. Horizon /\ renders' \in BOOLEAN /\ isFirstVideo' \in BOOLEAN
  BY DEF TypeOK, PutRecord, GetRecord, PutPc, GetPc, Number
<1>1. TypeOK /\ lock \in {"free", "put", "get"} /\ renders \in BOOLEAN /\ isFirstVideo \in BOOLEAN
  BY DEF IInv, TypeOK
<1> USE <1>1, Fields DEF KeepPut, KeepGet, GetKeeps, sync
<1>2. CASE PutCheck
  BY <1>2, PutCheckDoes
<1>3. CASE PutEnter
  BY <1>3, PutEnterDoes
<1>4. CASE PutStart
  <2>0. put.pc = "start"
    BY <1>4, PutStartDoes
  <2>1. put.slot < N /\ since < next /\ next <= Horizon
    BY <2>0 DEF IInv, IndexInv, FrameInv, Started
  <2>4. put.slot \in Slot /\ since + 1 \in 0 .. Horizon
    BY <2>1, Numbers, SlotIs
  <2>2. Torn \in -1 .. Horizon
    BY DEF Torn
  <2>3. frames' \in [Slot -> -1 .. Horizon]
    BY <1>4, PutStartDoes, <2>4, <2>2
  <2>5. putIndex' \in 0 .. N
    BY <1>4, PutStartDoes, <2>1, Numbers
  <2> QED BY <1>4, PutStartDoes, <2>3, <2>4, <2>5
<1>5. CASE PutCopied
  BY <1>5, PutCopiedDoes DEF IInv, FrameInv, Wrap
<1>6. CASE PutLeave
  <2>1. put.reg \in 0 .. N /\ put.reg < N /\ next \in 1 .. Horizon
    BY <1>6, PutLeaveDoes DEF IInv, SizeInv, FrameInv, Number
  <2>2. size' = put.reg + 1
    BY <1>6, PutLeaveDoes, <2>1, SizeSteps
  <2> QED BY <1>6, PutLeaveDoes, <2>1, <2>2
<1>7. CASE GetCheck
  BY <1>7, GetCheckDoes
<1>8. CASE ResetPut
  BY <1>8, ResetPutDoes
<1>9. CASE ResetGet
  BY <1>9, ResetGetDoes, SMTT(30) DEF Slot
<1>10. CASE ResetSize
  BY <1>10, ResetSizeDoes
<1>11. CASE GetCall
  BY <1>11, GetCallDoes
<1>12. CASE GetEnter
  <2>1. Wrap(getIndex + 1) \in Slot
    BY Numbers, SlotIs DEF Wrap
  <2> QED BY <1>12, GetEnterDoes, <2>1
<1>13. CASE GetLeave
  <2>1. get.reg \in 1 .. N /\ get.reg \in 0 .. N
    BY <1>13, GetLeaveDoes DEF IInv, SizeInv
  <2>2. size' = get.reg - 1
    BY <1>13, GetLeaveDoes, <2>1, SizeSteps
  <2> QED BY <1>13, GetLeaveDoes, <2>1, <2>2
<1>14. CASE GetDone
  BY <1>14, GetDoneDoes
<1> QED
  BY <1>2, <1>3, <1>4, <1>5, <1>6, <1>7, <1>8, <1>9, <1>10, <1>11, <1>12, <1>13, <1>14
  DEF Next, Producer, Consumer

\* Everything that does not depend on the contents of the ring.
LEMMA ControlKept ==
    ASSUME IInv, Next
    PROVE  (LockInv /\ SizeInv /\ IndexInv /\ FrameInv /\ ResetInv)'
<1> USE MediaBufferAssumption
<1>1. TypeOK /\ lock \in {"free", "put", "get"} /\ renders \in BOOLEAN
  BY DEF IInv, TypeOK
<1>a. LockInv /\ SizeInv /\ IndexInv /\ FrameInv /\ ResetInv
  BY DEF IInv
<1> USE <1>1, <1>a, Fields
    DEF KeepPut, KeepGet, GetKeeps, sync,
        LockInv, SizeInv, IndexInv, FrameInv, ResetInv, Started, Wrap
<1>2. CASE PutCheck
  BY <1>2, PutCheckDoes
<1>3. CASE PutEnter
  BY <1>3, PutEnterDoes
<1>4. CASE PutStart
  BY <1>4, PutStartDoes
<1>5. CASE PutCopied
  BY <1>5, PutCopiedDoes
<1>6. CASE PutLeave
  <2>1. put.reg \in 0 .. N /\ put.reg < N
    BY <1>6, PutLeaveDoes DEF Number
  <2>2. size' = put.reg + 1
    BY <1>6, PutLeaveDoes, <2>1, SizeSteps
  <2> QED BY <1>6, PutLeaveDoes, <2>1, <2>2
<1>7. CASE GetCheck
  BY <1>7, GetCheckDoes
<1>8. CASE ResetPut
  BY <1>8, ResetPutDoes
<1>9. CASE ResetGet
  BY <1>9, ResetGetDoes DEF Slot
<1>10. CASE ResetSize
  BY <1>10, ResetSizeDoes
<1>11. CASE GetCall
  BY <1>11, GetCallDoes
<1>12. CASE GetEnter
  BY <1>12, GetEnterDoes
<1>13. CASE GetLeave
  BY <1>13, GetLeaveDoes, SizeSteps
<1>14. CASE GetDone
  BY <1>14, GetDoneDoes
<1> QED
  BY <1>2, <1>3, <1>4, <1>5, <1>6, <1>7, <1>8, <1>9, <1>10, <1>11, <1>12, <1>13, <1>14
  DEF Next, Producer, Consumer

\* The contents of the ring, and the frame that was handed out.
LEMMA ContentsKept ==
    ASSUME IInv, Next, ~renders
    PROVE  (RingInv /\ TakenInv)'
<1>1. /\ TypeOK /\ LockInv /\ SizeInv /\ IndexInv /\ FrameInv
      /\ ResetInv /\ RingInv /\ TakenInv
  BY DEF IInv
<1>2. getIndex \in Slot /\ get.slot \in Slot /\ put.slot \in 0 .. N /\ size \in 0 .. N
      /\ frames \in [Slot -> -1 .. Horizon]
  BY <1>1, Fields
<1>3. lock \in {"free", "put", "get"}
  BY <1>1 DEF TypeOK
<1>4. /\ put.pc = "start" => put.slot = putIndex
      /\ put.pc = "copy" => putIndex = put.slot + 1
      /\ put.pc = "leave" =>
            putIndex = Wrap(put.slot + 1) /\ put.reg = size /\ frames[put.slot] = next
      /\ Count + Started <= N
      /\ Wrap(putIndex) = Ring(getIndex + (Count + Started))
      /\ \A i \in 0 .. Count - 1 : frames[Ring(getIndex + i)] \in 1 .. Horizon
  BY <1>1 DEF RingInv
<1>5. CASE PutCheck
  <2>1. KeepGet /\ UNCHANGED <<putIndex, size, frames, lock, since>>
    BY <1>1, <1>5, PutCheckDoes
  <2>2. put.pc = "idle" /\ put'.pc \in {"idle", "enter"}
    BY <1>1, <1>5, PutCheckDoes
  <2> QED BY <1>1, <2>1, <2>2
      DEF RingInv, TakenInv, Count, Started, KeepGet, sync
<1>6. CASE PutEnter
  <2>1. KeepGet /\ UNCHANGED <<putIndex, size, frames, since>>
    BY <1>1, <1>6, PutEnterDoes
  <2>2. put.pc = "enter" /\ put'.pc = "start" /\ put'.slot = putIndex
    BY <1>1, <1>6, PutEnterDoes
  <2> QED BY <1>1, <2>1, <2>2
      DEF RingInv, TakenInv, Count, Started, KeepGet, sync
<1>7. CASE PutStart
  <2>1. /\ KeepGet /\ UNCHANGED <<size, next>> /\ since' = since + 1
        /\ put.pc = "start" /\ put'.pc = "copy" /\ put'.slot = put.slot
        /\ putIndex' = put.slot + 1 /\ frames' = [frames EXCEPT ![put.slot] = Torn]
    BY <1>1, <1>7, PutStartDoes
  <2>2. get.pc # "leave" /\ size < N /\ put.slot < N
    BY <1>1, <1>3, <2>1 DEF LockInv, SizeInv, IndexInv
  <2>3. Count = size /\ Count' = size /\ Started = 0 /\ Started' = 1
    BY <2>1, <2>2 DEF Count, Started, KeepGet
  <2>4. put.slot = putIndex /\ put.slot = Ring(getIndex + size)
    BY <1>1, <1>4, <2>1, <2>2, <2>3, Numbers DEF Wrap
  <2>5. Wrap(putIndex') = Ring(getIndex + (size + 1))
    BY <1>1, <1>2, <2>1, <2>2, <2>4, RingIs, Numbers
  <2>6. ASSUME NEW i \in 0 .. size - 1
        PROVE  frames'[Ring(getIndex + i)] \in 1 .. Horizon
    <3>1. Ring(getIndex + i) # put.slot /\ Ring(getIndex + i) \in Slot
      BY <1>1, <1>2, <2>2, <2>4, RingApart, Numbers
    <3>2. frames[Ring(getIndex + i)] \in 1 .. Horizon
      BY <1>4, <2>3
    <3> QED BY <1>2, <2>1, <3>1, <3>2
  <2>7. RingInv'
    BY <1>1, <2>1, <2>2, <2>3, <2>5, <2>6, Numbers DEF RingInv, KeepGet
  <2>8. ASSUME get.pc = "use", since + 1 <= N - get.reg
        PROVE  /\ Wrap(putIndex') = Ring(get.slot + (get.reg + (since + 1)))
               /\ get.frame \in 1 .. Horizon /\ frames'[get.slot] = get.frame
    <3>1. /\ Wrap(putIndex) = Ring(get.slot + (get.reg + since))
          /\ get.frame \in 1 .. Horizon /\ frames[get.slot] = get.frame
      BY <1>1, <2>8, Numbers DEF TakenInv
    <3>2. get.reg + since \in 0 .. N /\ get.reg + since < N /\ get.reg + since > 0
      BY <1>1, <2>8, Numbers DEF SizeInv
    <3>3. put.slot = Ring(get.slot + (get.reg + since))
      BY <1>1, <2>2, <2>4, <3>1, Numbers DEF Wrap
    <3>4. Wrap(putIndex') = Ring(get.slot + ((get.reg + since) + 1))
      BY <1>2, <2>1, <3>2, <3>3, RingIs
    <3>5. put.slot # get.slot
      BY <1>1, <3>2, <3>3, Numbers DEF Ring
    <3> QED BY <1>1, <1>2, <2>1, <3>1, <3>4, <3>5, Numbers
  <2>9. TakenInv'
    BY <1>1, <2>1, <2>2, <2>8, Numbers DEF TakenInv, KeepGet
  <2> QED BY <2>7, <2>9
<1>8. CASE PutCopied
  <2>1. /\ KeepGet /\ UNCHANGED <<size, next, since>>
        /\ put.pc = "copy" /\ put'.pc = "leave" /\ put'.slot = put.slot
        /\ put'.reg = size /\ putIndex' = Wrap(putIndex)
        /\ frames' = [frames EXCEPT ![put.slot] = next]
    BY <1>1, <1>8, PutCopiedDoes
  <2>2. get.pc # "leave" /\ size < N /\ put.slot < N
    BY <1>1, <1>3, <2>1 DEF LockInv, SizeInv, IndexInv
  <2>3. Count = size /\ Count' = size /\ Started = 1 /\ Started' = 1
    BY <2>1, <2>2 DEF Count, Started, KeepGet
  <2>4. putIndex = put.slot + 1 /\ Wrap(put.slot + 1) = Ring(getIndex + (size + 1))
    BY <1>4, <2>1, <2>3
  <2>5. put.slot \in Slot /\ put.slot = Ring(getIndex + size)
    <3>1. put.slot \in Slot
      BY <1>1, <2>2, SlotIs, Numbers
    <3> QED BY <1>2, <2>2, <2>4, <3>1, RingBack
  <2>6. Wrap(putIndex') = Wrap(putIndex)
    BY <1>1, <2>1, Numbers DEF Wrap
  <2>7. frames'[put.slot] = next
    BY <1>2, <2>1, <2>5
  <2>8. ASSUME NEW i \in 0 .. size - 1
        PROVE  frames'[Ring(getIndex + i)] \in 1 .. Horizon
    <3>1. Ring(getIndex + i) # put.slot /\ Ring(getIndex + i) \in Slot
      BY <1>1, <1>2, <2>2, <2>5, RingApart, Numbers
    <3>2. frames[Ring(getIndex + i)] \in 1 .. Horizon
      BY <1>4, <2>3
    <3> QED BY <1>2, <2>1, <3>1, <3>2
  <2>9. RingInv'
    BY <1>1, <2>1, <2>2, <2>3, <2>4, <2>6, <2>7, <2>8, Numbers DEF RingInv, KeepGet
  <2>10. ASSUME get.pc = "use", since <= N - get.reg
         PROVE  /\ Wrap(putIndex') = Ring(get.slot + (get.reg + since))
                /\ get.frame \in 1 .. Horizon /\ frames'[get.slot] = get.frame
    <3>1. /\ since >= 1 /\ Wrap(putIndex) = Ring(get.slot + (get.reg + since))
          /\ get.frame \in 1 .. Horizon /\ frames[get.slot] = get.frame
      BY <1>1, <2>1, <2>10 DEF TakenInv
    <3>2. get.reg + since <= N /\ get.reg + since > 1
      BY <1>1, <2>10, <3>1, Numbers DEF SizeInv
    <3>3. put.slot # get.slot
      BY <1>1, <2>2, <2>4, <3>1, <3>2, Numbers DEF Wrap, Ring
    <3> QED BY <1>2, <2>1, <2>6, <3>1, <3>3
  <2>11. TakenInv'
    BY <1>1, <2>1, <2>2, <2>10 DEF TakenInv, KeepGet
  <2> QED BY <2>9, <2>11
<1>9. CASE PutLeave
  <2>1. /\ KeepGet /\ UNCHANGED <<putIndex, frames, since>>
        /\ put.pc = "leave" /\ put'.pc = "idle" /\ next' = next + 1
        /\ size' = (put.reg + 1) % SizeCount
    BY <1>1, <1>9, PutLeaveDoes
  <2>2. get.pc # "leave" /\ put.slot < N /\ put.reg < N /\ next \in 1 .. Horizon
    BY <1>1, <1>3, <2>1, Numbers DEF LockInv, SizeInv, IndexInv, FrameInv
  <2>3. putIndex = Wrap(put.slot + 1) /\ put.reg = size /\ frames[put.slot] = next
    BY <1>4, <2>1
  <2>4. size' = size + 1
    BY <1>2, <2>1, <2>2, <2>3, SizeSteps
  <2>5. Count = size /\ Count' = size + 1 /\ Started = 1 /\ Started' = 0
    BY <2>1, <2>2, <2>4 DEF Count, Started, KeepGet
  <2>6. Wrap(putIndex) = Ring(getIndex + (size + 1)) /\ size + 1 <= N
    BY <1>4, <2>5
  <2>7. put.slot = Ring(getIndex + size)
    BY <1>1, <2>2, <2>3, <2>6, Numbers DEF Wrap, Ring
  <2>8. ASSUME NEW i \in 0 .. (size + 1) - 1
        PROVE  frames[Ring(getIndex + i)] \in 1 .. Horizon
    <3>1. CASE i = size
      BY <2>2, <2>3, <2>7, <3>1
    <3>2. CASE i # size
      BY <1>1, <1>4, <2>5, <3>2, Numbers
    <3> QED BY <3>1, <3>2
  <2>9. RingInv'
    BY <1>1, <2>1, <2>5, <2>6, <2>8, Numbers DEF RingInv, KeepGet
  <2>10. TakenInv'
    BY <1>1, <2>1 DEF TakenInv, KeepGet
  <2> QED BY <2>9, <2>10
<1>10. CASE GetEnter
  <2>1. /\ KeepPut /\ UNCHANGED <<size, frames, renders>>
        /\ getIndex' = Wrap(getIndex + 1) /\ since' = 0
        /\ get.pc = "enter" /\ get'.pc = "leave" /\ get'.slot = getIndex
        /\ get'.reg = size /\ get'.frame = frames[getIndex] /\ lock = "free"
    BY <1>1, <1>10, GetEnterDoes DEF sync
  <2>2. size >= 1 /\ put.pc \notin {"start", "copy", "leave"}
    BY <1>1, <2>1 DEF SizeInv, LockInv
  <2>3. Count = size /\ Count' = size - 1 /\ Started = 0 /\ Started' = 0
    BY <2>1, <2>2 DEF Count, Started, KeepPut
  <2>4. Wrap(putIndex) = Ring(getIndex + size)
    BY <1>1, <1>4, <2>3, Numbers
  <2>5. ASSUME NEW i \in 0 .. size - 1
        PROVE  Ring(Wrap(getIndex + 1) + i) = Ring(getIndex + (i + 1))
    <3>1. i \in 0 .. N /\ i < N
      BY <1>1, Numbers
    <3> QED BY <1>2, <3>1, RingIs
  <2>6. Wrap(putIndex) = Ring(Wrap(getIndex + 1) + (size - 1))
    BY <1>1, <2>2, <2>4, <2>5, Numbers
  <2>7. ASSUME NEW i \in 0 .. (size - 1) - 1
        PROVE  frames[Ring(Wrap(getIndex + 1) + i)] \in 1 .. Horizon
    BY <1>1, <1>4, <2>3, <2>5, Numbers
  <2>8. RingInv'
    BY <1>1, <2>1, <2>2, <2>3, <2>6, <2>7, Numbers DEF RingInv, KeepPut
  <2>9. Ring(getIndex + 0) = getIndex
    BY <1>1, Numbers DEF Ring
  <2>10. frames[getIndex] \in 1 .. Horizon
    BY <1>1, <1>4, <2>2, <2>3, <2>9, Numbers
  <2>11. TakenInv'
    BY <1>1, <2>1, <2>2, <2>4, <2>10, Numbers DEF TakenInv, KeepPut
  <2> QED BY <2>8, <2>11
<1>11. CASE GetLeave
  <2>1. KeepPut /\ GetKeeps /\ getIndex' = getIndex
    BY <1>1, <1>11, GetLeaveDoes
  <2>2. get.pc = "leave" /\ get'.pc = "use"
    BY <1>1, <1>11, GetLeaveDoes
  <2>3. get.reg \in 1 .. N /\ put.pc \notin {"start", "copy", "leave"}
    BY <1>1, <1>3, <2>2 DEF SizeInv, LockInv
  <2>4. size' = get.reg - 1
    BY <1>1, <1>11, GetLeaveDoes, <2>3, SizeSteps
  <2>5. Count' = Count
    BY <2>1, <2>2, <2>4 DEF Count, GetKeeps
  <2> QED BY <1>1, <2>1, <2>2, <2>3, <2>5
      DEF RingInv, TakenInv, Started, KeepPut, GetKeeps
<1>12. CASE GetCheck \/ GetCall \/ GetDone
  <2>1. KeepPut /\ GetKeeps /\ UNCHANGED <<getIndex, size>>
    BY <1>1, <1>12, GetCheckDoes, GetCallDoes, GetDoneDoes
  <2>2. get.pc # "leave" /\ get'.pc \notin {"leave", "use"}
    BY <1>1, <1>12, GetCheckDoes, GetCallDoes, GetDoneDoes
  <2> QED BY <1>1, <2>1, <2>2
      DEF RingInv, TakenInv, Count, Started, KeepPut, GetKeeps
<1>13. CASE ResetPut \/ ResetGet \/ ResetSize
  BY <1>1, <1>13, ResetPutDoes, ResetGetDoes, ResetSizeDoes DEF ResetInv
<1> QED
  BY <1>5, <1>6, <1>7, <1>8, <1>9, <1>10, <1>11, <1>12, <1>13
  DEF Next, Producer, Consumer

LEMMA Inductive ==
    ASSUME IInv, [Next]_vars
    PROVE  IInv'
<1>1. CASE Next
  <2>1. TypeOK' /\ (LockInv /\ SizeInv /\ IndexInv /\ FrameInv /\ ResetInv)'
    BY <1>1, TypeKept, ControlKept
  <2>2. CASE ~renders
    BY <1>1, <2>1, <2>2, ContentsKept DEF IInv
  <2>3. CASE renders
    <3>1. renders' = renders
      BY <1>1 DEF Next, Producer, Consumer, PutCheck, PutEnter, PutStart, PutCopied,
                  PutLeave, GetCheck, ResetPut, ResetGet, ResetSize, GetCall,
                  GetEnter, GetLeave, GetDone, sync
    <3> QED BY <2>1, <2>3, <3>1 DEF IInv, RingInv, TakenInv
  <2> QED BY <2>2, <2>3
<1>2. CASE UNCHANGED vars
  BY <1>2 DEF vars, sync, IInv, TypeOK, LockInv, SizeInv, IndexInv, FrameInv, ResetInv,
              RingInv, TakenInv, Count, Started
<1> QED BY <1>1, <1>2

LEMMA Initially ==
    ASSUME Init
    PROVE  IInv
<1>1. TypeOK
  <2>1. put \in PutRecord
    <3>1. "idle" \in PutPc /\ 0 \in 0 .. N /\ 0 \in Number
      BY MediaBufferAssumption DEF PutPc, Number
    <3> QED BY <3>1, ZenonT(20) DEF Init, PutRecord
  <2>2. get \in GetRecord
    <3>1. "idle" \in GetPc /\ 0 \in Slot /\ 0 \in Number /\ Empty \in -1 .. Horizon
      BY MediaBufferAssumption DEF GetPc, Number, Slot, Empty
    <3> QED BY <3>1, ZenonT(20) DEF Init, GetRecord
  <2>3. frames \in [Slot -> -1 .. Horizon]
    BY MediaBufferAssumption DEF Init, Empty
  <2>4. /\ putIndex \in 0 .. N /\ getIndex \in Slot /\ size \in 0 .. N
        /\ next \in 1 .. Horizon + 1 /\ since \in 0 .. Horizon
    <3>1. since = 0 /\ next = 1 /\ putIndex = 0 /\ getIndex = 0 /\ size = 0
      BY DEF Init
    <3> QED BY <3>1, MediaBufferAssumption DEF Slot
  <2>5. /\ lock \in {"free", "put", "get"}
        /\ renders \in BOOLEAN /\ isFirstVideo \in BOOLEAN
    BY DEF Init
  <2> QED BY <2>1, <2>2, <2>3, <2>4, <2>5, TypedByFields
<1>2. /\ put.pc = "idle" /\ get.pc = "idle" /\ lock = "free" /\ since = 0 /\ next = 1
      /\ putIndex = 0 /\ getIndex = 0 /\ size = 0
  BY DEF Init
<1>3. LockInv /\ SizeInv /\ IndexInv /\ FrameInv /\ ResetInv /\ RingInv /\ TakenInv
  BY <1>2, MediaBufferAssumption
  DEF LockInv, SizeInv, IndexInv, FrameInv, ResetInv, RingInv, TakenInv,
      Count, Started, Ring, Wrap
<1> QED BY <1>1, <1>3 DEF IInv
-----------------------------------------------------------------------------
(* What follows for every behaviour.                                       *)

\* The inductive invariant holds throughout, whoever clears the ring.
THEOREM InvariantHolds == Spec => []IInv
<1>1. Init => IInv
  BY Initially
<1>2. IInv /\ [Next]_vars => IInv'
  BY Inductive
<1> QED BY <1>1, <1>2, PTL DEF Spec

\* YangMediaBuffer keeps its indices within the ring and its size between 0 and
\* m_cache_num, although putFrame and getFrameRef look at the size before they
\* take the mutex and resetIndex never takes it: m_size++ after the reset
\* writes a size too large for what is in the ring, but never one beyond it.
THEOREM TypeCorrect == Spec => []TypeOK
<1>1. IInv => TypeOK
  BY DEF IInv
<1> QED BY <1>1, InvariantHolds, PTL

\* The payload that getFrameRef hands out by reference is not written over by
\* putFrame before it has filled the slots that were free when it was taken.
THEOREM StaysIntact == Spec => []HandedOutIntact
<1>1. IInv => HandedOutIntact
  BY DEF IInv, TakenInv, HandedOutIntact
<1> QED BY <1>1, InvariantHolds, PTL
-----------------------------------------------------------------------------
(* The refinement of FrameQueue.                                           *)

\* c frames of the ring f from slot g on: what stands for the queue.
Line(f, g, c) == [i \in 1 .. c |-> f[(g + i - 1) % N]]

LEMMA LineIs ==
    ASSUME NEW g \in Slot, NEW c \in 0 .. N, NEW f \in [Slot -> Int]
    PROVE  /\ Line(f, g, c) \in Seq(Int) /\ Len(Line(f, g, c)) = c
           /\ DOMAIN Line(f, g, c) = 1 .. c
           /\ \A i \in 1 .. c : Line(f, g, c)[i] = f[Ring(g + (i - 1))]
<1>1. ASSUME NEW i \in 1 .. c
      PROVE  f[(g + i - 1) % N] = f[Ring(g + (i - 1))] /\ f[Ring(g + (i - 1))] \in Int
  <2>1. i - 1 \in 0 .. N /\ g + i - 1 = g + (i - 1)
    BY MediaBufferAssumption DEF Slot
  <2>2. (g + (i - 1)) % N = Ring(g + (i - 1)) /\ Ring(g + (i - 1)) \in Slot
    BY <2>1, RingIs
  <2> QED BY <2>1, <2>2
<1>2. c \in Nat
  BY MediaBufferAssumption
<1>3. Line(f, g, c) \in [1 .. c -> Int]
  BY <1>1 DEF Line
<1> QED BY <1>1, <1>2, <1>3, LenProperties DEF Line

\* Writing a slot outside the line changes nothing of it.
LEMMA LineSame ==
    ASSUME NEW g \in Slot, NEW c \in 0 .. N, c < N, NEW f \in [Slot -> Int],
           NEW x \in Int, NEW s, s = Ring(g + c)
    PROVE  Line([f EXCEPT ![s] = x], g, c) = Line(f, g, c)
<1> DEFINE h == [f EXCEPT ![s] = x]
<1>1. h \in [Slot -> Int]
  OBVIOUS
<1>2. ASSUME NEW i \in 1 .. c PROVE h[Ring(g + (i - 1))] = f[Ring(g + (i - 1))]
  <2>1. i - 1 \in 0 .. c - 1
    BY MediaBufferAssumption
  <2>2. Ring(g + (i - 1)) # s /\ Ring(g + (i - 1)) \in Slot
    BY <2>1, RingApart
  <2> QED BY <2>2
<1> HIDE DEF h
<1>3. \A i \in 1 .. c : Line(h, g, c)[i] = Line(f, g, c)[i]
  BY <1>1, <1>2, LineIs
<1>4. Line(h, g, c) = Line(f, g, c)
  BY <1>1, <1>3, LineIs, SeqEqual
<1> QED BY <1>4 DEF h

\* Taking the frame at the start of the line.
LEMMA LineTail ==
    ASSUME NEW g \in Slot, NEW c \in 1 .. N, NEW f \in [Slot -> Int]
    PROVE  /\ Line(f, g, c) # << >> /\ Head(Line(f, g, c)) = f[g]
           /\ Tail(Line(f, g, c)) = Line(f, Wrap(g + 1), c - 1)
<1>1. c \in 0 .. N /\ c - 1 \in 0 .. N /\ Wrap(g + 1) \in Slot /\ Ring(g + 0) = g
  BY MediaBufferAssumption DEF Wrap, Slot, Ring
<1> DEFINE a == Line(f, g, c)
           b == Line(f, Wrap(g + 1), c - 1)
<1>2. a \in Seq(Int) /\ Len(a) = c /\ a[1] = f[g] /\ a # << >>
  <2>1. a[1] = f[Ring(g + (1 - 1))]
    BY <1>1, LineIs
  <2> QED BY <1>1, <2>1, LineIs
<1>3. b \in Seq(Int) /\ Len(b) = c - 1
  BY <1>1, LineIs
<1>4. ASSUME NEW i \in 1 .. c - 1 PROVE b[i] = a[i + 1]
  <2>1. b[i] = f[Ring(Wrap(g + 1) + (i - 1))]
    BY <1>1, LineIs
  <2>2. i - 1 \in 0 .. N /\ i - 1 < N /\ i + 1 \in 1 .. c /\ (i - 1) + 1 = (i + 1) - 1
    BY MediaBufferAssumption
  <2>3. Ring(Wrap(g + 1) + (i - 1)) = Ring(g + ((i - 1) + 1))
    BY <2>2, RingIs
  <2>4. a[i + 1] = f[Ring(g + ((i + 1) - 1))]
    BY <1>1, <2>2, LineIs
  <2> QED BY <2>1, <2>2, <2>3, <2>4
<1> HIDE DEF a, b
<1>5. Tail(a) \in Seq(Int) /\ Len(Tail(a)) = c - 1 /\ Head(a) = a[1]
      /\ \A i \in 1 .. c - 1 : Tail(a)[i] = a[i + 1]
  BY <1>2, HeadTailProperties
<1>6. Tail(a) = b
  BY <1>3, <1>4, <1>5, SeqEqual
<1> QED BY <1>2, <1>5, <1>6 DEF a, b

\* One frame more at the end of the line.
LEMMA LineAppend ==
    ASSUME NEW g \in Slot, NEW c \in 0 .. N, c < N, NEW f \in [Slot -> Int]
    PROVE  Line(f, g, c + 1) = Append(Line(f, g, c), f[Ring(g + c)])
<1>1. c + 1 \in 0 .. N /\ Ring(g + c) \in Slot
  BY RingIs, MediaBufferAssumption
<1> DEFINE a == Line(f, g, c)
           b == Line(f, g, c + 1)
           x == f[Ring(g + c)]
<1>2. a \in Seq(Int) /\ Len(a) = c /\ b \in Seq(Int) /\ Len(b) = c + 1 /\ x \in Int
  BY <1>1, LineIs
<1>3. ASSUME NEW i \in 1 .. c + 1 PROVE b[i] = IF i <= c THEN a[i] ELSE x
  <2>1. b[i] = f[Ring(g + (i - 1))]
    BY <1>1, LineIs
  <2>2. i <= c => a[i] = f[Ring(g + (i - 1))]
    BY LineIs, SMTT(30)
  <2>3. ~(i <= c) => i - 1 = c
    BY MediaBufferAssumption
  <2> QED BY <2>1, <2>2, <2>3
<1> HIDE DEF a, b, x
<1>4. Append(a, x) \in Seq(Int) /\ Len(Append(a, x)) = c + 1
      /\ \A i \in 1 .. c + 1 : Append(a, x)[i] = IF i <= c THEN a[i] ELSE x
  BY <1>2, AppendProperties
<1>5. b = Append(a, x)
  BY <1>2, <1>3, <1>4, SeqEqual
<1> QED BY <1>5 DEF a, b, x

Waiting == Line(frames, getIndex, Count)

\* Without the renderer, every step of the two threads is one of the queue or
\* leaves it as it is.
LEMMA QueueStep ==
    ASSUME IInv, Next, ~renders
    PROVE  Queue!Next \/ UNCHANGED Queue!vars
<1>1. /\ TypeOK /\ LockInv /\ SizeInv /\ IndexInv /\ FrameInv /\ ResetInv
  BY DEF IInv
<1>2. getIndex \in Slot /\ size \in 0 .. N /\ frames \in [Slot -> Int]
  <2>1. frames \in [Slot -> -1 .. Horizon]
    BY <1>1, Fields
  <2> QED BY <1>1, <2>1, Fields
<1>3. lock \in {"free", "put", "get"}
  BY <1>1 DEF TypeOK
<1>4. /\ put.pc = "copy" => putIndex = put.slot + 1
      /\ put.pc = "start" => put.slot = putIndex
      /\ put.pc = "leave" =>
            putIndex = Wrap(put.slot + 1) /\ put.reg = size /\ frames[put.slot] = next
      /\ Count + Started <= N
      /\ Wrap(putIndex) = Ring(getIndex + (Count + Started))
  BY DEF IInv, RingInv
<1>5. Count \in 0 .. N /\ Count >= size - 1
  BY <1>1, <1>2, <1>4, Numbers DEF Count, Started, SizeInv
<1>6. Len(Waiting) = Count
  BY <1>2, <1>5, LineIs DEF Waiting
<1> DEFINE Same == Waiting' = Waiting /\ next' = next /\ get'.frame = get.frame
<1>7. ASSUME Same PROVE UNCHANGED Queue!vars
  BY <1>7 DEF Queue!vars, Waiting, Line
<1>8. CASE PutCheck
  <2>1. /\ KeepGet /\ UNCHANGED <<size, frames>> /\ next <= Horizon
        /\ (size >= N /\ next' = next + 1) \/ next' = next
    BY <1>1, <1>8, PutCheckDoes
  <2>2. Waiting' = Waiting /\ get' = get
    BY <2>1 DEF Waiting, Line, Count, KeepGet
  <2>3. CASE next' = next
    BY <1>7, <2>2, <2>3
  <2>4. CASE size >= N /\ next' = next + 1
    <3>1. Len(Waiting) >= N - 1
      BY <1>1, <1>2, <1>5, <1>6, <2>4, Numbers
    <3>2. Queue!Refuse
      BY <2>1, <2>2, <2>4, <3>1 DEF Queue!Refuse, Waiting, Line
    <3> QED BY <3>2 DEF Queue!Next
  <2> QED BY <2>1, <2>3, <2>4
<1>9. CASE PutEnter
  <2>1. KeepGet /\ UNCHANGED <<size, frames, next>>
    BY <1>1, <1>9, PutEnterDoes
  <2> QED BY <1>7, <2>1 DEF Waiting, Line, Count, KeepGet
<1>10. CASE PutStart
  <2>1. /\ KeepGet /\ UNCHANGED <<size, next>> /\ put.pc = "start"
        /\ frames' = [frames EXCEPT ![put.slot] = Torn]
    BY <1>1, <1>10, PutStartDoes
  <2>2. get.pc # "leave" /\ size < N /\ put.slot < N
    BY <1>1, <1>3, <2>1 DEF LockInv, SizeInv, IndexInv
  <2>3. Count = size /\ Count' = size /\ Started = 0 /\ get' = get /\ getIndex' = getIndex
    BY <2>1, <2>2 DEF Count, Started, KeepGet
  <2>4. put.slot = Ring(getIndex + size)
    BY <1>1, <1>4, <2>1, <2>2, <2>3, Numbers DEF Wrap
  <2>5. Line([frames EXCEPT ![put.slot] = Torn], getIndex, size) = Line(frames, getIndex, size)
    <3>1. Torn \in Int
      BY DEF Torn
    <3> QED BY <1>2, <2>2, <2>4, <3>1, LineSame
  <2>6. Waiting' = Waiting
    BY <2>1, <2>3, <2>5 DEF Waiting
  <2> QED BY <1>7, <2>1, <2>3, <2>6
<1>11. CASE PutCopied
  <2>1. /\ KeepGet /\ UNCHANGED <<size, next>> /\ put.pc = "copy"
        /\ frames' = [frames EXCEPT ![put.slot] = next]
    BY <1>1, <1>11, PutCopiedDoes
  <2>2. get.pc # "leave" /\ size < N /\ put.slot < N
    BY <1>1, <1>3, <2>1 DEF LockInv, SizeInv, IndexInv
  <2>3. Count = size /\ Count' = size /\ Started = 1 /\ get' = get /\ getIndex' = getIndex
    BY <2>1, <2>2 DEF Count, Started, KeepGet
  <2>4. put.slot = Ring(getIndex + size)
    <3>1. put.slot \in Slot /\ Wrap(put.slot + 1) = Ring(getIndex + (size + 1))
      BY <1>1, <1>4, <2>1, <2>2, <2>3, SlotIs, Numbers
    <3> QED BY <1>2, <2>2, <3>1, RingBack
  <2>5. Line([frames EXCEPT ![put.slot] = next], getIndex, size) = Line(frames, getIndex, size)
    <3>1. next \in Int
      BY <1>1, Numbers
    <3> QED BY <1>2, <2>2, <2>4, <3>1, LineSame
  <2>6. Waiting' = Waiting
    BY <2>1, <2>3, <2>5 DEF Waiting
  <2> QED BY <1>7, <2>1, <2>3, <2>6
<1>12. CASE PutLeave
  <2>1. /\ KeepGet /\ UNCHANGED frames /\ put.pc = "leave" /\ next' = next + 1
        /\ size' = (put.reg + 1) % SizeCount
    BY <1>1, <1>12, PutLeaveDoes
  <2>2. get.pc # "leave" /\ put.slot < N /\ put.reg < N /\ next <= Horizon
    BY <1>1, <1>3, <2>1 DEF LockInv, SizeInv, IndexInv, FrameInv
  <2>3. size' = size + 1 /\ size < N
    BY <1>2, <1>4, <2>1, <2>2, SizeSteps
  <2>4. Count = size /\ Count' = size + 1 /\ Started = 1 /\ get' = get /\ getIndex' = getIndex
    BY <2>1, <2>2, <2>3 DEF Count, Started, KeepGet
  <2>5. put.slot = Ring(getIndex + size) /\ frames[put.slot] = next
    <3>1. put.slot \in Slot
      BY <1>1, <2>2, SlotIs, Numbers
    <3>2. Wrap(Wrap(put.slot + 1)) = Wrap(put.slot + 1)
      BY <1>1, <2>2, Numbers DEF Wrap
    <3>3. Wrap(put.slot + 1) = Ring(getIndex + (size + 1))
      BY <1>4, <2>1, <2>4, <3>2
    <3> QED BY <1>2, <1>4, <2>1, <2>3, <3>1, <3>3, RingBack
  <2>6. Line(frames, getIndex, size + 1) = Append(Line(frames, getIndex, size), next)
    BY <1>2, <2>3, <2>5, LineAppend
  <2>7. Waiting' = Append(Waiting, next)
    BY <2>1, <2>4, <2>6 DEF Waiting
  <2>8. Queue!Put
    BY <1>6, <2>1, <2>2, <2>3, <2>4, <2>7 DEF Queue!Put, Waiting, Line
  <2> QED BY <2>8 DEF Queue!Next
<1>13. CASE GetEnter
  <2>1. /\ KeepPut /\ UNCHANGED <<size, frames>>
        /\ getIndex' = Wrap(getIndex + 1) /\ get.pc = "enter" /\ get'.pc = "leave"
        /\ get'.reg = size /\ get'.frame = frames[getIndex]
    BY <1>1, <1>13, GetEnterDoes
  <2>2. size \in 1 .. N /\ Count = size /\ Count' = size - 1
    BY <1>1, <1>2, <2>1, Numbers DEF SizeInv, Count
  <2>3. /\ Line(frames, getIndex, size) # << >>
        /\ Head(Line(frames, getIndex, size)) = frames[getIndex]
        /\ Tail(Line(frames, getIndex, size)) = Line(frames, Wrap(getIndex + 1), size - 1)
    BY <1>2, <2>2, LineTail
  <2>4. Waiting # << >> /\ Head(Waiting) = get'.frame /\ Waiting' = Tail(Waiting)
    BY <2>1, <2>2, <2>3 DEF Waiting
  <2>5. Queue!Take
    BY <2>1, <2>4 DEF Queue!Take, Waiting, Line, KeepPut
  <2> QED BY <2>5 DEF Queue!Next
<1>14. CASE GetLeave
  <2>1. KeepPut /\ GetKeeps /\ getIndex' = getIndex /\ get.pc = "leave" /\ get'.pc = "use"
    BY <1>1, <1>14, GetLeaveDoes
  <2>2. get.reg \in 1 .. N /\ get.reg \in 0 .. N
    BY <1>1, <2>1, Numbers DEF SizeInv
  <2>3. size' = get.reg - 1
    BY <1>1, <1>14, GetLeaveDoes, <2>2, SizeSteps
  <2>4. Count' = Count
    BY <2>1, <2>3 DEF Count, GetKeeps
  <2> QED BY <1>7, <2>1, <2>4 DEF Waiting, Line, KeepPut, GetKeeps
<1>15. CASE GetCheck \/ GetCall \/ GetDone
  <2>1. KeepPut /\ GetKeeps /\ UNCHANGED <<getIndex, size>>
    BY <1>1, <1>15, GetCheckDoes, GetCallDoes, GetDoneDoes
  <2>2. get.pc # "leave" /\ get'.pc # "leave"
    BY <1>1, <1>15, GetCheckDoes, GetCallDoes, GetDoneDoes
  <2>3. Count' = Count
    BY <2>1, <2>2 DEF Count
  <2> QED BY <1>7, <2>1, <2>3 DEF Waiting, Line, KeepPut, GetKeeps
<1>16. CASE ResetPut \/ ResetGet \/ ResetSize
  BY <1>1, <1>16, ResetPutDoes, ResetGetDoes, ResetSizeDoes DEF ResetInv
<1> QED
  BY <1>8, <1>9, <1>10, <1>11, <1>12, <1>13, <1>14, <1>15, <1>16
  DEF Next, Producer, Consumer

\* Unless the renderer clears it, YangMediaBuffer is the bounded queue of module
\* FrameQueue: putFrame and getFrameRef, with their looks at the size outside the
\* mutex, hand the frames over in order, each at most once, and refuse one only
\* when no room, or only the room the consumer is just making, is left.
THEOREM ImplementsQueue == Spec => IsFrameQueue
<1>1. Init => Queue!Init
  <2> SUFFICES ASSUME Init PROVE Queue!Init
    OBVIOUS
  <2>1. size = 0 /\ get.pc = "idle" /\ next = 1
    BY DEF Init
  <2>2. get.frame = 0
    BY DEF Init, Empty
  <2>3. Count = 0
    BY <2>1 DEF Count
  <2>4. [i \in 1 .. Count |-> frames[(getIndex + i - 1) % N]] = << >>
    BY <2>3
  <2> QED BY <2>1, <2>2, <2>4 DEF Queue!Init
<1>2. IInv /\ [Next]_vars => [renders \/ Queue!Next]_(Queue!vars)
  <2>1. ASSUME UNCHANGED vars PROVE UNCHANGED Queue!vars
    BY <2>1 DEF vars, Queue!vars, Count
  <2> QED BY <2>1, QueueStep
<1> QED BY <1>1, <1>2, InvariantHolds, PTL DEF Spec, IsFrameQueue
=============================================================================
