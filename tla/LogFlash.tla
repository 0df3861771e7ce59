------------------------------ MODULE LogFlash ------------------------------
(***************************************************************************)
(* The persistent log of port/stm32l4s5/b_l4s5i_log_flash.c: a ring of     *)
(* flash pages of fixed-size slots, appended to across power failures.     *)
(*                                                                         *)
(* Of a slot the code tells apart: erased, readable with the sequence      *)
(* number of its entry, and anything else, which is not erased and fails   *)
(* its CRC.  Flash can only be programmed where it is erased.  Programming *)
(* a slot takes several operations of the chip, and power may fail between *)
(* them; of an interrupted erase the source says that it leaves no entry   *)
(* readable.  Everything runs in the main loop.                            *)
(*                                                                         *)
(* Careful names what is taken care of outside this code:                  *)
(*   "restart"  after a failed call nothing is written before a restart    *)
(*   "page0"    power never fails so that no page is readable while page 0 *)
(*              is not erased: in the first write, or late in an erasure   *)
(*   "whole"    power never fails so that an erasure of the log leaves an   *)
(*              erased page between pages with entries                     *)
(*   "uniform"  an interrupted erase leaves all of the page in one state   *)
(***************************************************************************)
EXTENDS Integers, Sequences, FiniteSetsExt

CONSTANTS
    Pages,    \* LOG_NUM_PAGES
    Slots,    \* LOG_SLOTS_PER_PAGE
    SeqMod,   \* the number of values of a sequence number (2^32)
    Careful

ASSUME LogFlashAssumption ==
    /\ Pages \in Nat \ {0, 1}
    /\ Slots \in Nat \ {0}
    /\ SeqMod \in Nat /\ 2 * (Pages * Slots + 1) < SeqMod
    /\ Careful \subseteq {"restart", "page0", "whole", "uniform"}

VARIABLES
    cells,   \* what each slot of each page holds
    cur,     \* s_cur_page, s_cur_slot
    head,    \* s_head_page, s_head_slot
    seq,     \* s_seq_counter
    pc       \* where the driver is

cursors == <<cur, head, seq>>
vars == <<cells, cursors, pc>>

Page == 0..(Pages - 1)
Slot == 0..(Slots - 1)
SEQ_EMPTY == SeqMod - 1
Corrupt == -1
Seqs == 0..(SeqMod - 2)

TypeOK ==
    /\ cells \in [Page -> [Slot -> Seqs \cup {SEQ_EMPTY, Corrupt}]]
    /\ cur \in Page \X (0..Slots)
    /\ head \in Page \X Slot
    /\ seq \in Seqs
    /\ pc \in {"off", "ready", "erase", "program", "rest", "wipe", "failed"}

Erased == [i \in Slot |-> SEQ_EMPTY]

\* A new chip, before BSP_LogFlash_Init.
Init ==
    /\ cells = [p \in Page |-> Erased]
    /\ cur = <<0, 0>> /\ head = <<0, 0>> /\ seq = 0
    /\ pc = "off"

----------------------------------------------------------------------------
\* Slots, pages and sequence numbers

SlotIsEmpty(p, i) == cells[p][i] = SEQ_EMPTY
PageIsEmpty(p) == SlotIsEmpty(p, 0)
SlotValid(p, i) == cells[p][i] \in Seqs

\* Faulty: sequence numbers are compared as plain numbers.
SeqAfter_Plain(a, b) == a > b

\* seq_after: a is newer than b, across the wrap.
SeqAfter(a, b) == LET d == (a - b) % SeqMod IN d > 0 /\ 2 * d < SeqMod

SeqNext(s) == IF s + 1 = SEQ_EMPTY THEN 0 ELSE s + 1

NextPage(p) == (p + 1) % Pages

----------------------------------------------------------------------------
\* Cursor recovery: find_cursors

\* The pages whose first slot is readable.
FoundPages == {p \in Page : SlotValid(p, 0)}

OldestPage ==
    CHOOSE p \in FoundPages : \A q \in FoundPages : ~SeqAfter(cells[p][0], cells[q][0])

NewestPage ==
    CHOOSE p \in FoundPages : \A q \in FoundPages : ~SeqAfter(cells[q][0], cells[p][0])

\* The binary search for the first erased slot of a page.
FirstEmpty(p) ==
    LET find[b \in (0..Slots) \X (0..Slots)] ==
            LET mid == b[1] + (b[2] - b[1]) \div 2 IN
            IF b[1] >= b[2] THEN b[1]
            ELSE find[IF SlotIsEmpty(p, mid) THEN <<b[1], mid>> ELSE <<mid + 1, b[2]>>]
    IN  find[<<0, Slots>>]

\* Faulty: writing goes on right behind the last readable slot.
WriteSlot_AfterValid(p) == 1 + Max({i \in Slot : i < FirstEmpty(p) /\ SlotValid(p, i)})

\* Writing goes on behind everything in the page that is not erased.
WriteSlot(p) == FirstEmpty(p)

LastSeq(p) == cells[p][Max({i \in Slot : i < FirstEmpty(p) /\ SlotValid(p, i)})]

\* Faulty: the log is taken to begin at page 0.
HeadPage_First == 0

HeadPage == OldestPage

\* BSP_LogFlash_Init
Boot ==
    /\ pc = "off"
    /\ IF FoundPages = {}
       THEN cur' = <<0, 0>> /\ head' = <<0, 0>> /\ seq' = 0
       ELSE /\ head' = <<HeadPage, 0>>
            /\ cur' = <<NewestPage, WriteSlot(NewestPage)>>
            /\ seq' = SeqNext(LastSeq(NewestPage))
    /\ pc' = "ready"
    /\ UNCHANGED cells

----------------------------------------------------------------------------
\* BSP_LogFlash_Write

CallOpen == pc = "ready" \/ (pc = "failed" /\ "restart" \notin Careful)

PageFull == cur[2] >= Slots

\* Room in the current page, or in the next one, which is erased already.
BeginWrite ==
    /\ CallOpen
    /\ PageFull => PageIsEmpty(NextPage(cur[1]))
    /\ cur' = IF PageFull THEN <<NextPage(cur[1]), 0>> ELSE cur
    /\ pc' = "program"
    /\ UNCHANGED <<cells, head, seq>>

\* The next page still holds the oldest entries.
BeginRotate ==
    /\ CallOpen
    /\ PageFull
    /\ ~PageIsEmpty(NextPage(cur[1]))
    /\ pc' = "erase"
    /\ UNCHANGED <<cells, cursors>>

RotateDone ==
    LET p == NextPage(cur[1]) IN
    /\ pc = "erase"
    /\ cells' = [cells EXCEPT ![p] = Erased]
    /\ head' = IF head[1] = p THEN <<NextPage(p), 0>> ELSE head
    /\ cur' = <<p, 0>>
    /\ pc' = "program"
    /\ UNCHANGED seq

\* The chip refuses the erase, or the first programming operation.
CallRefused ==
    /\ pc \in {"erase", "program"}
    /\ pc' = "ready"
    /\ UNCHANGED <<cells, cursors>>

CurCell == cells[cur[1]][cur[2]]

\* The sequence number comes first, the CRC is still missing.  The chip
\* refuses to program what is not erased.
ProgramFirst ==
    /\ pc = "program"
    /\ CurCell = SEQ_EMPTY
    /\ cells' = [cells EXCEPT ![cur[1]][cur[2]] = Corrupt]
    /\ pc' = "rest"
    /\ UNCHANGED cursors

\* The last programming operation completes the slot; the call has accepted
\* the entry and moves on.
ProgramRest ==
    /\ pc = "rest"
    /\ cells' = [cells EXCEPT ![cur[1]][cur[2]] = seq]
    /\ seq' = SeqNext(seq)
    /\ cur' = <<cur[1], cur[2] + 1>>
    /\ pc' = "ready"
    /\ UNCHANGED head

\* A later programming operation fails: the call returns at once.
ProgramFails ==
    /\ pc = "rest"
    /\ pc' = "failed"
    /\ UNCHANGED <<cells, cursors>>

----------------------------------------------------------------------------
\* BSP_LogFlash_Erase

BeginWipe ==
    /\ pc \in {"ready", "failed"}
    /\ pc' = "wipe"
    /\ UNCHANGED <<cells, cursors>>

UsedPages == {p \in Page : ~PageIsEmpty(p)}

WipePage ==
    /\ pc = "wipe"
    /\ UsedPages # {}
    /\ cells' = [cells EXCEPT ![Min(UsedPages)] = Erased]
    /\ UNCHANGED <<cursors, pc>>

\* The chip refuses: the cursors are not touched.
WipeFails ==
    /\ pc = "wipe"
    /\ UsedPages # {}
    /\ pc' = "failed"
    /\ UNCHANGED <<cells, cursors>>

WipeDone ==
    /\ pc = "wipe"
    /\ UsedPages = {}
    /\ cur' = <<0, 0>> /\ head' = <<0, 0>> /\ seq' = 0
    /\ pc' = "ready"
    /\ UNCHANGED cells

----------------------------------------------------------------------------
\* Power failure

\* What an interrupted erase may leave of a page.
HalfErased ==
    {c \in [Slot -> {SEQ_EMPTY, Corrupt}] :
        "uniform" \in Careful => \A i, j \in Slot : c[i] = c[j]}

\* The pages being erased.
Erasing ==
    CASE pc = "erase" -> {NextPage(cur[1])}
      [] pc = "wipe" /\ UsedPages # {} -> {Min(UsedPages)}
      [] OTHER -> {}

\* How far page p is behind page h in the ring.
Turn(h, p) == (p - h) % Pages

Gap ==
    /\ FoundPages # {}
    /\ \E p \in Page : PageIsEmpty(p) /\ Turn(OldestPage, p) < Turn(OldestPage, NewestPage)

\* Power fails, or any other reset; RAM is lost.
PowerFail ==
    /\ pc # "off"
    /\ \/ UNCHANGED cells
       \/ \E p \in Erasing, c \in HalfErased : cells' = [cells EXCEPT ![p] = c]
    /\ "page0" \in Careful => (FoundPages' = {} => PageIsEmpty(0)')
    /\ "whole" \in Careful => ~Gap'
    /\ cur' = <<0, 0>> /\ head' = <<0, 0>> /\ seq' = 0
    /\ pc' = "off"

Next ==
    \/ Boot
    \/ BeginWrite \/ BeginRotate \/ RotateDone \/ CallRefused
    \/ ProgramFirst \/ ProgramRest \/ ProgramFails
    \/ BeginWipe \/ WipePage \/ WipeFails \/ WipeDone
    \/ PowerFail

Spec == Init /\ [][Next]_vars

----------------------------------------------------------------------------
\* Reading: BSP_LogFlash_Read, BSP_LogFlash_Dump

\* The entries of page p from slot i up to the first erased slot.
Readable(p, i) ==
    {j \in Slot : j >= i /\ SlotValid(p, j) /\ \A l \in i..j : ~SlotIsEmpty(p, l)}

Done == <<Pages, 0>>

\* A read that starts at a position looks at every page once at most.
Visited(c) ==
    {k \in 0..(Pages - 1) :
        Readable((c[1] + k) % Pages, IF k = 0 THEN c[2] ELSE 0) # {}}

Found(c) ==
    LET k == Min(Visited(c))
        p == (c[1] + k) % Pages
    IN  <<p, Min(Readable(p, IF k = 0 THEN c[2] ELSE 0))>>

After(c) == IF c[2] + 1 < Slots THEN <<c[1], c[2] + 1>> ELSE <<NextPage(c[1]), 0>>

\* Faulty: the end of the log is left to the next read.
NextContext_GoOn(c) == After(c)

\* The context after the entry at c has been read.
NextContext(c) ==
    LET n == After(c) IN
    IF n = cur \/ SlotIsEmpty(n[1], n[2]) THEN Done ELSE n

\* The context zero, which is also that of page 0 and slot 0, means the head.
StartOf(c) == IF c = <<0, 0>> THEN head ELSE c

\* Reads repeated until there is nothing more, or until as many entries have
\* been read as there are slots.
Dump ==
    LET read[b \in (0..(Pages * Slots)) \X ((Page \X Slot) \cup {Done})] ==
            IF b[1] = 0 \/ b[2] = Done \/ Visited(StartOf(b[2])) = {} THEN << >>
            ELSE LET at == Found(StartOf(b[2])) IN
                 <<cells[at[1]][at[2]]>> \o read[<<b[1] - 1, NextContext(at)>>]
    IN  read[<<Pages * Slots, <<0, 0>>>>]

----------------------------------------------------------------------------
\* Properties

\* All slots in the order of the ring, from the first slot of page p.
RingFrom(p) ==
    [k \in 1..(Pages * Slots) |-> cells[(p + (k - 1) \div Slots) % Pages][(k - 1) % Slots]]

IsEntry(e) == e \in Seqs

\* The entries among slots, in their order.
EntriesOf(slots) ==
    LET upTo[k \in 0..Len(slots)] ==
            IF k = 0 THEN << >>
            ELSE IF IsEntry(slots[k]) THEN Append(upTo[k - 1], slots[k])
            ELSE upTo[k - 1]
    IN  upTo[Len(slots)]

\* What the chip holds, whatever the driver knows of it.
Stored == IF FoundPages = {} THEN << >> ELSE EntriesOf(RingFrom(OldestPage))

\* A slot is programmed only where it is erased, after writes and erasures that
\* power has interrupted, but for the failures Careful names (the comment in
\* find_cursors on residual bits, and the rotation in BSP_LogFlash_Write).
NeverReprogram == pc = "program" => CurCell = SEQ_EMPTY

\* A walk around the ring from the head cursor meets all entries in the order in
\* which they were written, so that the head is where the oldest one is or before
\* it, and the next sequence number is newer than all of them: after
\* find_cursors, after a rotation and after calls that failed.
RingInOrder ==
    /\ TypeOK
    /\ pc = "ready" =>
          LET ring == RingFrom(head[1]) IN
          \A j \in DOMAIN ring : IsEntry(ring[j]) =>
              /\ \A i \in 1..(j - 1) : IsEntry(ring[i]) => SeqAfter(ring[j], ring[i])
              /\ SeqAfter(seq, ring[j])

\* The log has not reached the end of the last page, and no slot is torn
\* between the last entry and the cursor.
NotWrapped ==
    LET ring == RingFrom(head[1])
        used == ((cur[1] - head[1]) % Pages) * Slots + cur[2]
    IN  /\ cells[Pages - 1][Slots - 1] = SEQ_EMPTY
        /\ \A k \in 1..Len(ring) : ring[k] = SEQ_EMPTY <=> k > used
        /\ used > 0 => IsEntry(ring[used])

\* As long as the log has not wrapped, BSP_LogFlash_Dump reads every entry
\* once, the oldest first, and passes over slots torn by a power failure.
DumpExact == pc = "ready" /\ NotWrapped => Dump = Stored

\* What b_l4s5i_log_flash.h says of BSP_LogFlash_Dump, every entry from the oldest to
\* the newest, of a log of whole entries, wherever in the ring it lies: also when it
\* goes on from the last page in page 0, where the position of the iteration is the
\* zero that means start.
WholeLogDumped ==
    pc = "ready" /\ (\A p \in Page, i \in Slot : cells[p][i] # Corrupt) => Dump = Stored

\* The same of a log that has not wrapped, also when its last slot is torn: corrupt
\* slots are passed over (b_l4s5i_log_flash.h).
TornLogDumped ==
    pc = "ready" /\ cells[Pages - 1][Slots - 1] = SEQ_EMPTY => Dump = Stored

\* The entries on the chip only grow at the end and only shrink at the
\* beginning, a page at a time, except while all of them are being erased.
Abstract == INSTANCE RingLog WITH Entry <- Seqs, log <- Stored, clearing <- pc = "wipe"
ImplementsRingLog == Abstract!LogSpec
=============================================================================
