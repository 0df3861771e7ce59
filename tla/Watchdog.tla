------------------------------ MODULE Watchdog ------------------------------
(***************************************************************************)
(* The software watchdog of kernel/src/anbo_wdt.c and the hardware         *)
(* watchdog it feeds.                                                      *)
(*                                                                         *)
(* The main loop reads the tick, hands it to Anbo_WDT_Monitor and looks at *)
(* one slot after another; interrupts, the tick among them, come between   *)
(* any two of these steps and may check in.  A slot is checked in by one   *)
(* task only, so that Anbo_WDT_Checkin can be one step.                    *)
(*                                                                         *)
(* The tick and the stamps of the slots wrap at Wrap (2^32 in the code).   *)
(***************************************************************************)
EXTENDS Integers

CONSTANTS
    Wrap,      \* the number of values of a tick
    MaxSlots,  \* ANBO_CONF_WDT_MAX_SLOTS
    Timeout,   \* the timeouts tasks register with
    Iwdg,      \* the period of the hardware watchdog
    MaxSlack   \* bound: more deep sleeps since a check-in are not told apart

ASSUME WatchdogAssumption ==
    /\ MaxSlots \in Nat \ {0}
    /\ Timeout # {} /\ Timeout \subseteq Nat \ {0}
    /\ Iwdg \in Nat \ {0}
    /\ MaxSlack \in Nat /\ \A ms \in Timeout : ms <= MaxSlack
    /\ Wrap \in Nat /\ \A ms \in Timeout : 2 * (ms + 2 * Iwdg) < Wrap

Slot == 0..(MaxSlots - 1)

\* bound: older check-ins are not told apart.
MaxAge == Wrap \div 2

VARIABLES
    tick,     \* s_tick_ms
    count,    \* s_slot_count
    state,    \* of each slot
    last,     \* last_checkin
    timeout,  \* timeout_ms
    now,      \* the argument of Anbo_WDT_Monitor
    at,       \* its loop variable, or MaxSlots + 1 while it does not run
    iwdg,     \* the down-counter of the hardware watchdog
    age,      \* history: the milliseconds since the last check-in of a slot,
    slack,    \* and the deep sleeps since then
    refused   \* history: Monitor has returned 0, or the clocks have not come back
              \* from a sleep, and nothing has been fed since

slots == <<count, state, last, timeout, age, slack>>
scan == <<now, at>>
dog == <<iwdg, refused>>
wdtVars == <<tick, slots, scan, dog>>

WdtTypeOK ==
    /\ tick \in 0..(Wrap - 1)
    /\ count \in 0..MaxSlots
    /\ state \in [Slot -> {"free", "active", "suspended"}]
    /\ last \in [Slot -> 0..(Wrap - 1)]
    /\ timeout \in [Slot -> Timeout \cup {0}]
    /\ now \in 0..(Wrap - 1)
    /\ at \in 0..(MaxSlots + 1)
    /\ iwdg \in 0..Iwdg
    /\ age \in [Slot -> 0..MaxAge]
    /\ slack \in [Slot -> 0..MaxSlack]
    /\ refused \in BOOLEAN

\* Anbo_WDT_Init, and BSP_IWDG_Init.
WdtInit ==
    /\ tick = 0
    /\ count = 0
    /\ state = [s \in Slot |-> "free"]
    /\ last = [s \in Slot |-> 0]
    /\ timeout = [s \in Slot |-> 0]
    /\ now = 0 /\ at = MaxSlots + 1
    /\ iwdg = Iwdg
    /\ age = [s \in Slot |-> 0] /\ slack = [s \in Slot |-> 0]
    /\ refused = FALSE

----------------------------------------------------------------------------
\* time_diff: the signed value of a - b.
Diff(a, b) ==
    LET d == (a - b) % Wrap IN IF 2 * d >= Wrap THEN d - Wrap ELSE d

Valid(s) == s < count

Stamp(s) ==
    /\ last' = [last EXCEPT ![s] = tick]
    /\ age' = [age EXCEPT ![s] = 0]
    /\ slack' = [slack EXCEPT ![s] = 0]

\* The pool of slots may be full.
Register(ms) ==
    /\ count < MaxSlots
    /\ timeout' = [timeout EXCEPT ![count] = ms]
    /\ Stamp(count)
    /\ state' = [state EXCEPT ![count] = "active"]
    /\ count' = count + 1
    /\ UNCHANGED <<tick, scan, dog>>

Checkin(s) ==
    /\ Valid(s)
    /\ state[s] = "active"
    /\ Stamp(s)
    /\ UNCHANGED <<tick, count, state, timeout, scan, dog>>

Suspend(s) ==
    /\ Valid(s)
    /\ state' = [state EXCEPT ![s] = "suspended"]
    /\ age' = [age EXCEPT ![s] = 0] /\ slack' = [slack EXCEPT ![s] = 0]
    /\ UNCHANGED <<tick, count, last, timeout, scan, dog>>

Resume(s) ==
    /\ Valid(s)
    /\ Stamp(s)
    /\ state' = [state EXCEPT ![s] = "active"]
    /\ UNCHANGED <<tick, count, timeout, scan, dog>>

----------------------------------------------------------------------------
\* Anbo_WDT_Monitor(Anbo_Arch_GetTick())

Late(n, s) == state[s] = "active" /\ Diff(n, last[s]) > timeout[s]

Reload == iwdg' = Iwdg /\ refused' = FALSE

\* The argument is evaluated,
ReadNow ==
    /\ at = MaxSlots + 1
    /\ now' = tick /\ at' = 0
    /\ UNCHANGED <<tick, slots, dog>>

\* and the slots are looked at one by one.
PassSlot ==
    /\ at < count
    /\ ~Late(now, at)
    /\ at' = at + 1
    /\ UNCHANGED <<tick, slots, now, dog>>

\* It returns 0 for the first slot that is late,
Refuse ==
    /\ at < count
    /\ Late(now, at)
    /\ refused' = TRUE
    /\ at' = MaxSlots + 1 /\ now' = 0
    /\ UNCHANGED <<tick, slots, iwdg>>

\* Faulty: the watchdog is fed as soon as a slot is healthy.
Feed_OneHealthy ==
    /\ at \in 1..MaxSlots \/ at = count
    /\ Reload
    /\ at' = MaxSlots + 1 /\ now' = 0
    /\ UNCHANGED <<tick, slots>>

\* or feeds the hardware watchdog behind the last one: Anbo_Arch_WDT_Feed.
Feed ==
    /\ at = count
    /\ Reload
    /\ at' = MaxSlots + 1 /\ now' = 0
    /\ UNCHANGED <<tick, slots>>

\* Anbo_WDT_FirstTimeout, MaxSlots for none.
FirstTimeout(n) ==
    LET found == {s \in Slot : Valid(s) /\ Late(n, s)}
    IN  IF found = {} THEN MaxSlots ELSE CHOOSE s \in found : \A r \in found : s <= r
=============================================================================
