------------------------------- MODULE MCNvm -------------------------------
(***************************************************************************)
(* Nvm with a few slots and records that tell stale from new.              *)
(***************************************************************************)
EXTENDS Nvm

MCRecord == {1, 2}
=============================================================================
