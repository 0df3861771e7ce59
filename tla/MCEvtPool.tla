----------------------------- MODULE MCEvtPool -----------------------------
(***************************************************************************)
(* EvtPool on two blocks, with two interrupt levels above the main loop    *)
(* and two subscribers.                                                    *)
(***************************************************************************)
EXTENDS EvtPoolAgain

CONSTANTS e1, e2, s1, s2

MCBlock == {e1, e2}
MCSub == {s1, s2}

\* A pointer to a block and the null pointer overlay ref_count differently.
MCLinkByte == [b \in Block \cup {NULL} |-> IF b = NULL THEN 0 ELSE 3]
=============================================================================
