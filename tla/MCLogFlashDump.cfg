\* Dumps of a log that has wrapped, and of one with a torn slot behind a full page.
SPECIFICATION Spec
CONSTANTS
    Pages = 3
    Slots = 2
    SeqMod = 16
    Careful <- MCCareful
INVARIANTS
    WholeLogDumped
    TornLogDumped
