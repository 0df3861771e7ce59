------------------------------ MODULE BytePipe ------------------------------
(***************************************************************************)
(* What the log promises between Anbo_Log_Printf and the wire: the bytes   *)
(* taken in, numbered one after another, leave in the order of their       *)
(* numbers, one at a time, and never are more of them on their way than    *)
(* the pipe has places.                                                    *)
(***************************************************************************)
EXTENDS Integers, Sequences

CONSTANTS
    Capacity,  \* the places
    Numbers    \* bound: the numbers start again here

VARIABLES
    q,    \* the bytes on their way, oldest first
    next  \* the number of the next byte

PipeInit == q = << >> /\ next = 0

\* A text is taken in, as far as there is room.
Accept(k) ==
    /\ Len(q) + k <= Capacity
    /\ q' = q \o [i \in 1..k |-> (next + i - 1) % Numbers]
    /\ next' = (next + k) % Numbers

\* The oldest byte leaves.
Leave ==
    /\ q # << >>
    /\ q' = Tail(q)
    /\ UNCHANGED next

PipeNext == Leave \/ \E k \in 1..Capacity : Accept(k)

PipeSpec == PipeInit /\ [][PipeNext]_<<q, next>>
=============================================================================
