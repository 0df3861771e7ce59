------------------------------ MODULE IdleLoop ------------------------------
(***************************************************************************)
(* A main loop on the STM32L4S5 port: it works, asks the software          *)
(* watchdog and sleeps in Anbo_Arch_Idle, where the low-power timer wakes  *)
(* it from Stop 2 and gives the time by which the tick is compensated.     *)
(* The hardware watchdog runs all along.                                   *)
(*                                                                         *)
(* Time passes in milliseconds between the steps of the code: the          *)
(* processor's steps take none, and the time the code spends at a point    *)
(* is bounded there.  The phases of the clocks within a millisecond are    *)
(* left out.                                                               *)
(***************************************************************************)
EXTENDS Watchdog

CONSTANTS
    Request,      \* the sleeps the loop asks for
    Cap,          \* the longest sleep (1500 in the code)
    WfiMax,       \* the longest sleep in which SysTick goes on (2)
    MaxRun,       \* how long the loop runs from one call of Monitor to the next
    MaxArm,       \* how long it takes from arming the timer to masking interrupts
    MaxRecovery,  \* how long SystemClock_Recovery takes
    Loops         \* the main loops: whether they sleep, whether they hang

ASSUME IdleAssumption ==
    /\ Request \subseteq Nat
    /\ WfiMax \in Nat /\ Cap \in Nat /\ WfiMax < Cap
    /\ MaxRun \in Nat /\ MaxArm \in 0..WfiMax /\ MaxRecovery \in Nat
    /\ Cap < Iwdg /\ MaxRun + MaxRecovery + 1 < Iwdg /\ MaxRun + MaxArm < Iwdg
    /\ Loops \subseteq [idles : BOOLEAN, hangs : BOOLEAN]

VARIABLES
    loop,     \* which main loop this is
    pc,       \* where it is
    request,  \* ms
    lptim,    \* LPTIM1: off, counting, its interrupt pending, or served
    counter,  \* its CNT
    event,    \* another interrupt waits for the mask to be lifted
    elapsed,
    spent,    \* history: the milliseconds since Monitor, or at a point of the sleep
    gain      \* history: by how much the tick is ahead since the sleep began

idleVars == <<loop, pc, request, lptim, counter, event, elapsed, spent, gain>>
vars == <<wdtVars, idleVars>>

\* Interrupts are masked, SysTick is suspended.
Masked == pc \in {"masked", "asleep", "awake", "read", "stuck"}
Suspended == Masked \/ pc \in {"suspended", "unmasked"}

TypeOK ==
    /\ WdtTypeOK
    /\ loop \in Loops
    /\ pc \in {"run", "checked", "wfi", "arm", "armed", "suspended", "masked", "asleep",
               "awake", "read", "stuck", "unmasked", "reset"}
    /\ request \in Request \cup {0, Cap}
    /\ lptim \in {"off", "counting", "pending", "served"}
    /\ counter \in 0..Cap
    /\ event \in BOOLEAN
    /\ elapsed \in 0..Cap
    /\ spent \in Nat
    /\ gain \in Int

\* The state after the initialisations, BSP_LPTIM_Init among them.
IdleInit ==
    /\ WdtInit
    /\ loop \in Loops
    /\ pc = "run"
    /\ request = 0
    /\ lptim = "off" /\ counter = 0
    /\ event = FALSE
    /\ elapsed = 0 /\ spent = 0 /\ gain = 0

GoTo(p) == pc' = p /\ spent' = 0

----------------------------------------------------------------------------
\* The loop

Tasks ==
    /\ pc = "run"
    /\ \/ \E ms \in Timeout : Register(ms)
       \/ \E s \in Slot : Suspend(s) \/ Resume(s)
    /\ UNCHANGED idleVars

\* A task checks in, in the loop or in an interrupt handler.
TaskCheckin ==
    /\ ~Masked /\ pc # "reset"
    /\ \E s \in Slot : Checkin(s)
    /\ UNCHANGED idleVars

Monitor ==
    /\ pc = "run"
    /\ \/ ReadNow /\ UNCHANGED idleVars
       \/ PassSlot /\ UNCHANGED idleVars
       \/ (Refuse \/ Feed) /\ GoTo("checked")
          /\ UNCHANGED <<loop, request, lptim, counter, event, elapsed, gain>>

\* Anbo_Arch_Idle: no sleep, a short one with SysTick running, or Stop 2.
Idle(ms) ==
    /\ pc = "checked" /\ loop.idles
    /\ pc' = IF ms = 0 THEN "run" ELSE IF ms <= WfiMax THEN "wfi" ELSE "arm"
    /\ request' = IF ms <= WfiMax THEN 0 ELSE IF ms > Cap THEN Cap ELSE ms
    /\ gain' = 0
    /\ UNCHANGED <<wdtVars, loop, lptim, counter, event, elapsed, spent>>

\* A loop that does not sleep.
GoRound ==
    /\ pc = "checked" /\ ~loop.idles
    /\ pc' = "run"
    /\ UNCHANGED <<wdtVars, loop, request, lptim, counter, event, elapsed, spent, gain>>

\* An interrupt ends the short sleep.
WakeFromWfi ==
    /\ pc = "wfi"
    /\ pc' = "run"
    /\ UNCHANGED <<wdtVars, loop, request, lptim, counter, event, elapsed, spent, gain>>

----------------------------------------------------------------------------
\* Stop 2

\* BSP_LPTIM_StartOnce.
StartOnce ==
    /\ pc = "arm"
    /\ lptim' = "counting" /\ counter' = 0
    /\ GoTo("armed")
    /\ UNCHANGED <<wdtVars, loop, request, event, elapsed, gain>>

\* SysTick is suspended, the hardware watchdog is fed.
SuspendTick ==
    /\ pc = "armed"
    /\ pc' = "suspended"
    /\ Reload
    /\ UNCHANGED <<tick, slots, scan, loop, request, lptim, counter, event, elapsed, spent, gain>>

DisableIrq ==
    /\ pc = "suspended"
    /\ pc' = "masked"
    /\ UNCHANGED <<wdtVars, loop, request, lptim, counter, event, elapsed, spent, gain>>

EnterStop2 ==
    /\ pc = "masked"
    /\ GoTo("asleep")
    /\ UNCHANGED <<wdtVars, loop, request, lptim, counter, event, elapsed, gain>>

\* A button, the sensor, a character received.
Interrupt ==
    /\ Masked
    /\ event' = TRUE
    /\ UNCHANGED <<wdtVars, loop, pc, request, lptim, counter, elapsed, spent, gain>>

\* What wakes the processor although interrupts are masked.
WakeUp == event \/ lptim = "pending"

\* Faulty: the watchdog is left to the loop after a sleep.
Wake_NoFeed ==
    /\ pc = "asleep" /\ WakeUp
    /\ GoTo("awake")
    /\ UNCHANGED <<wdtVars, loop, request, lptim, counter, event, elapsed, gain>>

\* The watchdog is fed again.
Wake ==
    /\ pc = "asleep" /\ WakeUp
    /\ GoTo("awake")
    /\ Reload
    /\ UNCHANGED <<tick, slots, scan, loop, request, lptim, counter, event, elapsed, gain>>

\* Faulty: the counter is taken whether it has run out or not.
StopAndRead_Count ==
    /\ pc = "awake"
    /\ elapsed' = IF lptim = "pending" THEN 0 ELSE counter
    /\ lptim' = "off" /\ counter' = 0
    /\ pc' = "read"
    /\ UNCHANGED <<wdtVars, loop, request, event, spent, gain>>

\* BSP_LPTIM_StopAndRead: the whole period if the timer has run out and its
\* flag is still set, the counter otherwise.
StopAndRead ==
    /\ pc = "awake"
    /\ elapsed' = IF lptim = "pending" THEN request ELSE counter
    /\ lptim' = "off" /\ counter' = 0
    /\ pc' = "read"
    /\ UNCHANGED <<wdtVars, loop, request, event, spent, gain>>

\* SystemClock_Recovery does not return if an oscillator does not start.
RecoveryFails ==
    /\ pc = "read"
    /\ GoTo("stuck")
    /\ refused' = TRUE
    /\ UNCHANGED <<tick, slots, scan, iwdg, loop, request, lptim, counter, event, elapsed, gain>>

CountElapsed ==
    /\ tick' = (tick + elapsed) % Wrap
    /\ gain' = gain + elapsed
    /\ slack' = [s \in Slot |-> IF state[s] = "active" /\ slack[s] < MaxSlack
                                THEN slack[s] + 1 ELSE slack[s]]

\* Faulty: interrupts are let in before the tick is compensated.
Compensate_Late ==
    \/ /\ pc = "read"
       /\ GoTo("unmasked")
       /\ event' = FALSE
       /\ UNCHANGED <<wdtVars, loop, request, lptim, counter, elapsed, gain>>
    \/ /\ pc = "unmasked" /\ elapsed > 0
       /\ CountElapsed
       /\ elapsed' = 0
       /\ UNCHANGED <<count, state, last, timeout, age, scan, dog, loop, pc, request, lptim,
                      counter, event, spent>>

\* The clocks run again, the tick is compensated, a late interrupt of the timer
\* is dropped, and the other ones are let in.
Compensate ==
    /\ pc = "read"
    /\ CountElapsed
    /\ GoTo("unmasked")
    /\ event' = FALSE /\ elapsed' = 0
    /\ UNCHANGED <<count, state, last, timeout, age, scan, dog, loop, request, lptim, counter>>

ResumeTick ==
    /\ pc = "unmasked"
    /\ GoTo("run")
    /\ request' = 0
    /\ gain' = 0
    /\ UNCHANGED <<wdtVars, loop, lptim, counter, event, elapsed>>

----------------------------------------------------------------------------
\* Time

\* How long the code stays where it is.
InTime ==
    /\ pc \notin {"arm", "unmasked", "reset"}
    /\ pc \in {"run", "checked"} => loop.hangs \/ spent < MaxRun
    /\ pc \in {"armed", "suspended", "masked"} => spent < MaxArm
    /\ pc \in {"awake", "read"} => spent < MaxRecovery
    /\ pc = "asleep" => ~WakeUp

\* The low-power timer counts, and its handler clears the flag unless it is masked.
CountDown ==
    IF lptim # "counting" THEN UNCHANGED <<lptim, counter>>
    ELSE /\ counter' = counter + 1
         /\ lptim' = IF counter + 1 < request THEN "counting"
                     ELSE IF Masked THEN "pending" ELSE "served"

Older(f) ==
    [s \in Slot |-> IF state[s] = "active" /\ f[s] < MaxAge THEN f[s] + 1 ELSE f[s]]

\* A millisecond: SysTick_Handler, if it is not suspended, ends a short sleep; the
\* hardware watchdog resets the system when it has counted down.
Millisecond ==
    /\ InTime
    /\ tick' = IF Suspended THEN tick ELSE (tick + 1) % Wrap
    /\ gain' = IF pc \in {"arm", "armed", "suspended"} \/ Masked
               THEN gain + (IF Suspended THEN 0 ELSE 1) - 1 ELSE gain
    /\ CountDown
    /\ iwdg' = iwdg - 1
    /\ pc' = IF iwdg = 1 THEN "reset" ELSE IF pc = "wfi" THEN "run" ELSE pc
    /\ spent' = IF pc # "stuck" /\ spent < Iwdg THEN spent + 1 ELSE spent
    /\ age' = Older(age)
    /\ UNCHANGED <<count, state, last, timeout, slack, scan, refused, loop, request, event,
                   elapsed>>

\* The program starts anew.
Boot ==
    /\ pc = "reset"
    /\ tick' = 0 /\ count' = 0
    /\ state' = [s \in Slot |-> "free"]
    /\ last' = [s \in Slot |-> 0] /\ timeout' = [s \in Slot |-> 0]
    /\ now' = 0 /\ at' = MaxSlots + 1
    /\ iwdg' = Iwdg /\ refused' = FALSE
    /\ age' = [s \in Slot |-> 0] /\ slack' = [s \in Slot |-> 0]
    /\ GoTo("run")
    /\ request' = 0 /\ lptim' = "off" /\ counter' = 0
    /\ event' = FALSE /\ elapsed' = 0 /\ gain' = 0
    /\ UNCHANGED loop

Sleep ==
    \/ StartOnce \/ SuspendTick \/ DisableIrq \/ EnterStop2
    \/ Wake \/ StopAndRead \/ RecoveryFails \/ Compensate \/ ResumeTick

Code ==
    \/ Monitor
    \/ \E ms \in Request : Idle(ms)
    \/ GoRound
    \/ Sleep

Next ==
    \/ Code
    \/ Tasks
    \/ TaskCheckin
    \/ WakeFromWfi
    \/ Interrupt
    \/ Millisecond
    \/ Boot

IdleSpec == IdleInit /\ [][Next]_vars

\* Time passes, and the loop goes on.
FairIdleSpec == IdleSpec /\ SF_vars(Millisecond) /\ WF_vars(Code)

----------------------------------------------------------------------------
\* Properties

\* Unless a task was found late, the loop hangs or an oscillator fails, the
\* hardware watchdog never resets the system, however long and often it sleeps
\* and whatever interrupts arrive between arming the timer and waking up.
HealthyNotReset ==
    /\ TypeOK
    /\ pc = "reset" => refused \/ loop.hangs

\* Anbo_WDT_Monitor refuses to feed only for a task that has been silent for
\* longer than its timeout, and Anbo_WDT_FirstTimeout names that task: neither a
\* check-in during the scan, nor the wrap of the tick, nor a suspension or a sleep
\* makes a task look late.  Each sleep may count MaxArm milliseconds twice.
RefusalJust ==
    [][Refuse => /\ age[at] + MaxArm * slack[at] > timeout[at]
                 /\ FirstTimeout(now) = at]_vars

\* In a loop that does not sleep, a silent task resets the system at the latest
\* two periods of the hardware watchdog after its timeout, even if the loop stalls
\* within a scan.
SilenceResets ==
    ~loop.idles => \A s \in Slot : age[s] <= timeout[s] + 2 * Iwdg

\* After a sleep the tick has advanced by the time that has passed, but for what
\* is counted twice while the timer is armed and what the recovery of the clocks
\* takes, whichever interrupt ends the sleep.
SleepTimeKept ==
    [][ResumeTick => -MaxRecovery <= gain /\ gain <= MaxArm]_vars

\* A task that stays silent for longer than its timeout gets the system reset.
LateResets ==
    \A s \in Slot : (state[s] = "active" /\ age[s] > timeout[s])
                        ~> (pc = "reset" \/ age[s] <= timeout[s])
=============================================================================
