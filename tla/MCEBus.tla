------------------------------- MODULE MCEBus -------------------------------
(***************************************************************************)
(* EBus with three subscribers, and three signals of which two share a     *)
(* bucket.                                                                 *)
(***************************************************************************)
EXTENDS EBus

CONSTANTS s1, s2, s3, h0, h1

MCSub == {s1, s2, s3}
MCSig == {0, 1, 2}
MCBucket == [i \in 0..1 |-> IF i = 0 THEN h0 ELSE h1]

Symmetry == Permutations(MCSub)

\* What decides how the dispatches go on.
Walks == [k \in 1..Len(stack) |->
             <<stack[k].sig, stack[k].at, stack[k].next, Len(stack[k].got)>>]
WithoutHistory == <<list, sigOf, Walks>>
=============================================================================
