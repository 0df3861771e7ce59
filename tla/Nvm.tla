-------------------------------- MODULE Nvm --------------------------------
(***************************************************************************)
(* The parameter store, in the processor's own flash                       *)
(* (port/stm32l4s5/b_l4s5i_flash_drv.c) or in the external chip            *)
(* (b_l4s5i_ospi_flash_drv.c), which share one algorithm: records appended *)
(* to a few flash pages, the newest of which is looked for each time.      *)
(* There is no state in RAM between two calls.                             *)
(*                                                                         *)
(* In the processor's flash an operation is done when the call of the      *)
(* vendor library returns; power failure, reset and refusal all end the    *)
(* call of the store.  The external chip goes on with its job when the bus *)
(* fails or the processor is reset.                                        *)
(*                                                                         *)
(* A slot is erased, or holds a record that passes validation, or is       *)
(* neither, which is what a write or an erase cut short leaves.            *)
(***************************************************************************)
EXTENDS Integers, FiniteSetsExt, Ospi

CONSTANTS
    MaxPages,    \* the largest number of pages considered
    Slots,       \* the records in a page
    Record,
    MayWrap,     \* whether writing goes on when the last of several pages is full
    Patient      \* whether a call waits until the external chip is at rest

ASSUME NvmAssumption ==
    /\ MaxPages \in Nat \ {0}
    /\ Slots \in Nat \ {0}
    /\ Record # {} /\ Record \subseteq Nat \ {0}
    /\ MayWrap \in BOOLEAN /\ Patient \in BOOLEAN

VARIABLES
    pages,    \* NVM_NUM_PAGES, fixed by the build
    ext,      \* APP_CONF_PARAM_FLASH_USE_EXT, fixed by the build
    cells,    \* what each slot of each page holds
    pc,       \* where a call of BSP_Flash_WriteAppend is
    target,   \* pg and target, its local variables
    storing,  \* the record it was given, None when neither the call nor the chip
              \* is at work on it
    up,       \* what BSP_OSPI_Flash_Init has returned since the reset
    last,     \* history: the last record that was programmed completely,
    returned  \* and whether the last call has returned true

build == <<pages, ext>>
call == <<pc, target, storing, returned>>
vars == <<build, cells, call, up, last, ospiVars>>

Erased == 0
Torn == -1     \* the first part of a record
Corrupt == -2
None == 0

Slot == 0..(Slots - 1)
Page == 0..(pages - 1)
ErasedPage == [i \in Slot |-> Erased]

TypeOK ==
    /\ pages \in 1..MaxPages
    /\ ext \in BOOLEAN
    /\ cells \in [Page -> [Slot -> Record \cup {Erased, Torn, Corrupt}]]
    /\ pc \in {"idle", "erase", "program", "rest"}
    /\ target \in Page \X Slot
    /\ storing \in Record \cup {None}
    /\ up \in {"no", "ready", "failed"} /\ (~ext => up = "ready")
    /\ phase \in {"wren", "command", "wait"} /\ (pc = "idle" => phase = "wren")
    /\ wel \in BOOLEAN
    /\ returned \in BOOLEAN
    /\ last \in Record \cup {None}

Init ==
    /\ pages \in 1..MaxPages /\ ext \in BOOLEAN
    /\ OspiInit
    /\ up = IF ext THEN "no" ELSE "ready"
    /\ cells = [p \in Page |-> ErasedPage]
    /\ pc = "idle"
    /\ target = <<0, 0>>
    /\ storing = None
    /\ last = None /\ returned = FALSE

----------------------------------------------------------------------------
\* Looking for the newest record

SlotIsEmpty(p, i) == cells[p][i] = Erased
PageIsEmpty(p) == SlotIsEmpty(p, 0)

UsedPages == {p \in Page : ~PageIsEmpty(p)}

\* Faulty: the search for the active page ends at the first one in use.
ActivePage_First == Min(UsedPages)

\* find_active_page, where a page is in use
ActivePage == Max(UsedPages)

UsedSlots(p) == {i \in Slot : ~SlotIsEmpty(p, i)}
ValidSlots(p) == {i \in Slot : cells[p][i] \in Record}

\* BSP_Flash_ReadLatest
ReadLatest ==
    IF UsedPages = {} THEN None ELSE cells[ActivePage][Max(UsedSlots(ActivePage))]

\* The records that pass validation, in pages that do not look empty.
Candidates == {c \in Page \X Slot : ~PageIsEmpty(c[1]) /\ c[2] \in ValidSlots(c[1])}

\* The search goes back from the active page, and in a page from its last slot.
PagesBack(p) == (ActivePage + pages - p) % pages
Before(c, d) ==
    \/ PagesBack(c[1]) < PagesBack(d[1])
    \/ c[1] = d[1] /\ c[2] > d[2]

\* BSP_Flash_ReadValidated with a validator that rejects what is corrupt
ReadValidated ==
    IF Candidates = {} THEN None
    ELSE CHOOSE r \in Record :
            \E c \in Candidates : r = cells[c[1]][c[2]] /\ \A d \in Candidates \ {c} : Before(c, d)

----------------------------------------------------------------------------
\* BSP_Flash_WriteAppend

EmptySlots(p) == {i \in Slot : SlotIsEmpty(p, i)}

\* The scan from the start of the page.
FreeSlot(p) == Min(EmptySlots(p))

NextPage == (ActivePage + 1) % pages

\* A chip at work does not answer reads, which makes every slot look erased.
SeenPages == IF busy # NoJob THEN {} ELSE UsedPages

WriteAppend ==
    /\ pc = "idle" /\ up = "ready"
    /\ Patient => busy = NoJob
    /\ storing' \in Record
    /\ returned' = FALSE
    /\ \/ /\ SeenPages = {}
          /\ target' = <<0, 0>>
          /\ pc' = "program"
       \/ /\ SeenPages # {}
          /\ EmptySlots(ActivePage) # {}
          /\ target' = <<ActivePage, FreeSlot(ActivePage)>>
          /\ pc' = "program"
       \/ /\ SeenPages # {}
          /\ EmptySlots(ActivePage) = {}
          /\ (pages > 1 /\ ActivePage = pages - 1) => MayWrap
          /\ target' = <<NextPage, 0>>
          /\ pc' = IF PageIsEmpty(NextPage) THEN "program" ELSE "erase"
    /\ UNCHANGED <<build, cells, up, last, ospiVars>>

\* What an operation leaves in the flash: programming something that is not
\* erased spoils it.
Result(job) ==
    LET p == job[2][1]
        i == job[2][2]
        cell == CASE job[1] = "program" /\ cells[p][i] = Erased -> Torn
                  [] job[1] = "rest" /\ cells[p][i] = Torn -> job[3]
                  [] OTHER -> Corrupt
    IN  IF job[1] = "erase" THEN [cells EXCEPT ![p] = ErasedPage]
        ELSE [cells EXCEPT ![p][i] = cell]

\* The operation the call is at: to erase the page, to program the first part
\* of the record, which makes the slot not empty, or the rest.
Job == <<pc, target, storing>>

\* The first part only of what Job programs.
Part == <<IF pc = "erase" THEN pc ELSE "part", target, storing>>

\* An operation has succeeded; after the last one the call returns true.
Proceed ==
    /\ pc' = [erase |-> "program", program |-> "rest", rest |-> "idle"][pc]
    /\ storing' = IF pc = "rest" THEN None ELSE storing
    /\ returned' = (pc = "rest")
    /\ UNCHANGED target

LastOf(job) ==
    IF job[1] = "rest" /\ Result(job)[job[2][1]][job[2][2]] = job[3] THEN job[3] ELSE last

\* erase_page, HAL_FLASH_Program
Operate ==
    /\ ~ext /\ pc # "idle"
    /\ cells' = Result(Job)
    /\ last' = LastOf(Job)
    /\ Proceed
    /\ UNCHANGED <<build, up, ospiVars>>

\* BSP_OSPI_SectorErase, BSP_OSPI_PageProgram
OspiStep ==
    /\ ext /\ pc # "idle"
    /\ WriteEnable \/ SendCommand(Job)
    /\ UNCHANGED <<build, cells, call, up, last>>

OspiReturns ==
    /\ ext /\ pc # "idle"
    /\ WaitReady
    /\ Proceed
    /\ UNCHANGED <<build, cells, up, last>>

JobEnds ==
    /\ JobDone
    /\ cells' = Result(busy)
    /\ last' = LastOf(busy)
    /\ storing' = IF pc = "idle" THEN None ELSE storing
    /\ UNCHANGED <<build, pc, target, returned, up>>

----------------------------------------------------------------------------
\* Failures

\* The call ends; the chip may go on with its last operation.
CallEnds ==
    /\ pc' = "idle"
    /\ storing' = IF busy' = NoJob THEN None ELSE storing
    /\ returned' = (returned /\ pc = "idle")
    /\ UNCHANGED target

\* What is left of a page whose erase is cut short: its slots look erased or fail
\* validation, and none of its records is intact.
HalfErased(p) == {[cells EXCEPT ![p] = c] : c \in [Slot -> {Erased, Corrupt}]}

\* Power fails, the processor is reset, or its flash refuses the next operation.
CutShort ==
    /\ ~ext /\ pc # "idle"
    /\ cells' \in {cells} \cup (IF pc = "erase" THEN HalfErased(target[1]) ELSE {})
    /\ UNCHANGED <<build, up, last, ospiVars>>
    /\ CallEnds

\* The bus to the external chip fails.
OspiFails ==
    /\ ext /\ pc # "idle"
    /\ StepFails(Job, Part)
    /\ CallEnds
    /\ UNCHANGED <<build, cells, up, last>>

\* The processor is reset; the chip is left alone.
Reset ==
    /\ ext
    /\ DriverReset
    /\ up' = "no"
    /\ CallEnds
    /\ UNCHANGED <<build, cells, last>>

\* Power fails; a program or an erase in progress is cut short.
PowerFail ==
    /\ ext
    /\ PowerOff
    /\ up' = "no"
    /\ cells' \in CASE busy = NoJob -> {cells}
                    [] busy # NoJob /\ busy[1] = "erase" -> HalfErased(busy[2][1])
                    [] OTHER -> {cells, Result(<<"part", busy[2], busy[3]>>)}
    /\ CallEnds
    /\ UNCHANGED <<build, last>>

\* BSP_OSPI_Flash_Init: a chip at work does not tell its JEDEC ID, and the bus may fail.
FlashInit ==
    /\ up = "no"
    /\ up' \in {"failed"} \cup (IF busy = NoJob THEN {"ready"} ELSE {})
    /\ UNCHANGED <<build, cells, call, last, ospiVars>>

Next ==
    \/ WriteAppend \/ Operate \/ OspiStep \/ OspiReturns \/ JobEnds
    \/ CutShort \/ OspiFails \/ Reset \/ PowerFail \/ FlashInit

Spec == Init /\ [][Next]_vars

----------------------------------------------------------------------------
\* Properties

\* What BSP_Flash_ReadLatest finds between two writes is the last complete
\* record or one that a write cut short has left: an older record never comes
\* back, whatever slots and pages have been used up by failures ("Read the most
\* recent valid record from the NVM page").  A store of several pages finds the
\* record of a call that has returned true, until the next call, and nothing only
\* when there has been none.
LatestIsLast ==
    /\ TypeOK
    /\ pc = "idle" /\ busy = NoJob =>
          /\ ReadLatest \in Record => ReadLatest = last
          /\ pages > 1 /\ returned => ReadLatest = last
          /\ pages > 1 /\ last # None => ReadLatest # None

\* BSP_Flash_ReadValidated behaves like one durable value across failures at
\* any step of either flash: the old record is read until the new one is
\* complete, and after a call that has returned true the new one is.  Only a
\* store of a single page may lose the record, while it rewrites its page.
Store == INSTANCE DurableValue WITH value <- ReadValidated, MayForget <- pages = 1
ImplementsDurableValue == Store!DurableSpec
=============================================================================
