---------------------------- MODULE MCRingBuffer ----------------------------
(***************************************************************************)
(* RingBuffer on a buffer of two slots whose indices wrap at four, so that *)
(* a stream of a few bytes passes the wrap-around of the slots and of the  *)
(* indices more than once.                                                 *)
(***************************************************************************)
EXTENDS RingBuffer, TLC

CONSTANTS b1, b2

MCByte == {b1, b2}

Symmetry == Permutations(MCByte)
=============================================================================
