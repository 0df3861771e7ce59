------------------------------- MODULE MCImu -------------------------------
(***************************************************************************)
(* Bounds for Imu: sets of two words in a FIFO of a few sets, setups with  *)
(* the FIFO and one without it, with different ranges.                     *)
(***************************************************************************)
EXTENDS Imu

MCSetups == {[xl |-> 2, gy |-> 250, wtm |-> 2], [xl |-> 8, gy |-> 500, wtm |-> 0],
             [xl |-> 8, gy |-> 250, wtm |-> 5]}

\* Sets are told apart by how long ago they were taken, and arguments matter
\* during their call only.
Since(w) == [w EXCEPT !.set = (next - @) % Ids]
MCView ==
    <<chip, [i \in 1..Len(fifo) |-> Since(fifo[i])], out, latched, bus, exti, pending,
      scale, op, todo, IF op = "init" THEN setup ELSE <<>>,
      IF op = "level" \/ op = "burst" THEN max ELSE 0, avail, got,
      [i \in 1..Len(reading) |-> [reading[i] EXCEPT !.word = Since(@)]], mode, notified>>

============================================================================
