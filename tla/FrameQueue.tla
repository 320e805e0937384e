----------------------------- MODULE FrameQueue ----------------------------
(***************************************************************************)
(* What a media buffer promises to the thread that fills it and to the one *)
(* that empties it: a bounded first-in first-out queue of frames, which    *)
(* loses a frame only for want of room.                                    *)
(***************************************************************************)
EXTENDS Integers, Sequences

CONSTANTS N,        \* frames the buffer holds
          Horizon   \* bound: last frame produced

VARIABLES waiting,  \* the frames not taken yet, oldest first
          next,     \* the next frame to come from the producer
          taken     \* the frame the consumer took last, 0 for none

vars == <<waiting, next, taken>>

Init == waiting = << >> /\ next = 1 /\ taken = 0

Put ==
    /\ next <= Horizon /\ Len(waiting) < N
    /\ waiting' = Append(waiting, next)
    /\ next' = next + 1
    /\ UNCHANGED taken

\* the newest frame is the one refused, when no room is left or when the
\* consumer is just making the only room there is
Refuse ==
    /\ next <= Horizon /\ Len(waiting) >= N - 1
    /\ next' = next + 1
    /\ UNCHANGED <<waiting, taken>>

Take ==
    /\ waiting # << >>
    /\ taken' = Head(waiting)
    /\ waiting' = Tail(waiting)
    /\ UNCHANGED next

Next == Put \/ Refuse \/ Take

Spec == Init /\ [][Next]_vars
=============================================================================
