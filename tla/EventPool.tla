----------------------------- MODULE EventPool -----------------------------
(***************************************************************************)
(* What the pooled-event service promises: a block is free, queued or in   *)
(* somebody's hands, never two of these at once, and queued events come    *)
(* out in the order they went in.  EvtPool is shown to implement this.     *)
(***************************************************************************)
EXTENDS Naturals, Sequences, FiniteSets

CONSTANTS
    Block,    \* the blocks of the pool
    Capacity  \* how many events the queue can hold

VARIABLES
    free,     \* the blocks an allocation may return
    q         \* the queued events, oldest first

poolVars == <<free, q>>

Queued == {q[i] : i \in 1..Len(q)}

PoolInit == free = Block /\ q = << >>

\* An allocation hands out a free block, which is in nobody's queue.
HandOut(b) ==
    /\ b \in free
    /\ b \notin Queued
    /\ free' = free \ {b}
    /\ UNCHANGED q

\* A block in somebody's hands returns to the pool.
GiveBack(b) ==
    /\ b \notin free
    /\ b \notin Queued
    /\ free' = free \cup {b}
    /\ UNCHANGED q

Enqueue(b) ==
    /\ b \notin free
    /\ b \notin Queued
    /\ Len(q) < Capacity
    /\ q' = Append(q, b)
    /\ UNCHANGED free

Dequeue ==
    /\ q # << >>
    /\ q' = Tail(q)
    /\ UNCHANGED free

PoolNext ==
    \/ \E b \in Block : HandOut(b) \/ GiveBack(b) \/ Enqueue(b)
    \/ Dequeue

PoolSpec == PoolInit /\ [][PoolNext]_poolVars
=============================================================================
