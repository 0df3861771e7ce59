------------------------------ MODULE RingLog ------------------------------
(***************************************************************************)
(* What the flash log promises across power failures: a sequence of        *)
(* entries, oldest first, that grows at the end one entry at a time and    *)
(* loses only its oldest entries, a page of them at most; while it is      *)
(* being erased on request, which an error or a power failure may cut      *)
(* short, a page of entries at a time from anywhere.  LogFlash is shown to *)
(* implement this.                                                         *)
(***************************************************************************)
EXTENDS Naturals, Sequences

CONSTANTS
    Entry,  \* what identifies an entry
    Slots   \* the entries of one page

VARIABLES
    log,
    clearing

LogInit == log = << >> /\ clearing = FALSE

Grow ==
    /\ ~clearing
    /\ \E e \in Entry : log' = Append(log, e)
    /\ UNCHANGED clearing

\* The log without n entries that follow the first i.
Without(i, n) ==
    [k \in 1..(Len(log) - n) |-> IF k <= i THEN log[k] ELSE log[k + n]]

DropOldest ==
    /\ ~clearing
    /\ \E n \in 1..Slots : n <= Len(log) /\ log' = Without(0, n)
    /\ UNCHANGED clearing

BeginClear ==
    /\ ~clearing
    /\ clearing' = TRUE
    /\ UNCHANGED log

\* A page of entries goes, from anywhere in the log.
Clear ==
    /\ clearing
    /\ \E i \in 0..Len(log), n \in 0..Slots : i + n <= Len(log) /\ log' = Without(i, n)
    /\ clearing' \in BOOLEAN

LogNext ==
    \/ Grow
    \/ DropOldest
    \/ BeginClear
    \/ Clear

LogSpec == LogInit /\ [][LogNext]_<<log, clearing>>
=============================================================================
