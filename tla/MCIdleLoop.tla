----------------------------- MODULE MCIdleLoop -----------------------------
(***************************************************************************)
(* IdleLoop with times of a few milliseconds.  Ticks are compared with     *)
(* each other only, so that states that differ by a shift of all of them   *)
(* are one.                                                                *)
(***************************************************************************)
EXTENDS IdleLoop

MCLoops == {[idles |-> TRUE, hangs |-> FALSE], [idles |-> FALSE, hangs |-> TRUE]}
MCSleepingLoop == {[idles |-> TRUE, hangs |-> FALSE]}

Shifted ==
    <<count, state, timeout, age, slack, at, dog, idleVars,
      [s \in Slot |-> IF state[s] = "active" THEN Diff(tick, last[s]) ELSE 0],
      IF at <= MaxSlots THEN Diff(tick, now) ELSE 0>>
=============================================================================
