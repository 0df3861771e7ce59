--------------------------- MODULE DurableValue ---------------------------
(***************************************************************************)
(* What a parameter store promises across power failures: one value, which *)
(* a store replaces as a whole or not at all.  Where MayForget holds, the  *)
(* value may be gone while it is being replaced.  Nvm is shown to          *)
(* implement this.                                                         *)
(***************************************************************************)
CONSTANTS
    Record,
    None       \* no value

VARIABLES
    value,     \* what is read back
    storing,   \* the value being stored, or None
    returned,  \* the last store has reported success
    MayForget

Start ==
    /\ value = None
    /\ storing = None
    /\ returned = FALSE

Begin ==
    /\ storing = None /\ storing' \in Record
    /\ returned' = FALSE
    /\ UNCHANGED value

\* The store takes effect.
Commit ==
    /\ storing # None /\ storing' \in {storing, None}
    /\ UNCHANGED returned
    /\ value' = storing

\* Success is reported of what has been stored only.
Succeed ==
    /\ storing # None /\ storing' = None
    /\ returned'
    /\ value' = storing

Forget ==
    /\ storing # None /\ storing' \in {storing, None}
    /\ MayForget
    /\ UNCHANGED returned
    /\ value' = None

Abandon ==
    /\ storing # None /\ storing' = None
    /\ UNCHANGED <<returned, value>>

Step == Begin \/ Commit \/ Succeed \/ Forget \/ Abandon

DurableSpec == Start /\ [][Step /\ UNCHANGED MayForget]_<<value, storing, returned, MayForget>>
=============================================================================
