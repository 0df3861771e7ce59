---------------------------- MODULE MCLogFlash ----------------------------
(***************************************************************************)
(* LogFlash on a chip of a few slots, with sequence numbers that wrap.     *)
(***************************************************************************)
EXTENDS LogFlash

\* Power fails anywhere but where the driver is known not to recover.
MCCareful == {"restart", "page0", "whole", "uniform"}
=============================================================================
