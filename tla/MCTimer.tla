------------------------------ MODULE MCTimer ------------------------------
(***************************************************************************)
(* Timer with a few descriptors and a tick that wraps early.               *)
(***************************************************************************)
EXTENDS Timer, TLC

CONSTANTS t1, t2, t3

MCTimerSet == {t1, t2, t3}
MCSetting == {<<"oneshot", 1>>, <<"oneshot", 2>>, <<"periodic", 2>>}

Symmetry == Permutations(Timer)
=============================================================================
