------------------------------ MODULE ByteFifo ------------------------------
(***************************************************************************)
(* What a static ring buffer promises its two users: a bounded first-in    *)
(* first-out queue of bytes.  A producer call appends bytes one at a time, *)
(* a consumer call removes a prefix, and clearing empties the queue.       *)
(* RingBuffer is shown to implement this specification.                    *)
(***************************************************************************)
EXTENDS Naturals, Sequences

CONSTANTS
    Byte,  \* the values a slot can hold
    Size   \* the capacity in bytes

VARIABLE q \* the bytes written and not yet consumed, oldest first

FifoTypeOK == q \in Seq(Byte) /\ Len(q) <= Size

FifoInit == q = << >>

\* The producer adds one byte; only a queue with room takes it.
Put(b) ==
    /\ Len(q) < Size
    /\ q' = Append(q, b)

\* The consumer removes the n oldest bytes.
Take(n) == q' = SubSeq(q, n + 1, Len(q))

Clear == q' = << >>

FifoNext ==
    \/ \E b \in Byte : Put(b)
    \/ \E n \in 1..Len(q) : Take(n)
    \/ Clear

FifoSpec == FifoInit /\ [][FifoNext]_q
=============================================================================
