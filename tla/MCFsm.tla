------------------------------- MODULE MCFsm -------------------------------
(***************************************************************************)
(* Fsm with two states and two subscriber nodes, another subscriber on the *)
(* same bus, and two signals in different buckets, so that the machine's   *)
(* nodes share a bucket or do not.                                         *)
(***************************************************************************)
EXTENDS Fsm

CONSTANTS f1, f2, other, h0, h1, A, B

MCSub == {f1, f2, other}
MCFsmNodes == {f1, f2}
MCSig == {0, 1}
MCBucket == [i \in 0..1 |-> IF i = 0 THEN h0 ELSE h1]
MCFsmSub == <<f1, f2>>
MCState == {A, B}

Symmetry == Permutations(MCState)

\* What decides how the dispatches go on; got, which no handler is twice in, stays
\* below MaxServed.
Walks == [k \in 1..Len(stack) |-> <<stack[k].sig, stack[k].at, stack[k].next>>]
WithoutHistory == <<list, sigOf, Walks, current, subCount, calls, mark.entered>>
=============================================================================
