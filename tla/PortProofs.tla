----------------------------- MODULE PortProofs -----------------------------
(***************************************************************************)
(* Proofs about the parts of the port that the main loop drives: IdleLoop, *)
(* Imu, Format and LogPipe.                                                *)
(*                                                                         *)
(* IdleLoop, for all times, sleeps and numbers of tasks: as long as the    *)
(* loop keeps its time bounds and no task is late, the hardware watchdog   *)
(* does not reset the system, and every sleep leaves the tick right up to  *)
(* what the hardware makes unavoidable.  The ages of the check-ins, the    *)
(* stamps of the slots and the hardware watchdog then say what becomes of  *)
(* a task that falls silent: it gets the system reset in a loop that does  *)
(* not sleep, and no other task is ever found late, in any loop.           *)
(*                                                                         *)
(* Imu, for all sizes of the FIFO, ranges and set-ups: a reading belongs   *)
(* to one sampling instant and is converted with the range it was          *)
(* measured in, if the FIFO only ever gives away whole sets.               *)
(*                                                                         *)
(* LogPipe, for all sizes of the buffers: from the log to the wire the     *)
(* bytes are one bounded queue, and a drain that returns in time has sent  *)
(* what it found.  Format, for all widths of integers and all lines: what  *)
(* is printed is what the items of the line mean, cut at the buffer's end. *)
(***************************************************************************)
EXTENDS IdleLoop, Imu, LogPipe, Lemmas, SequenceTheorems

----------------------------------------------------------------------------
\* The inductive invariant

Sleeping == {"arm", "armed", "suspended", "masked", "asleep", "awake", "read"}

\* The low-power timer counts from the moment it is armed, and runs out when
\* the request has passed, never before interrupts are masked.
TimerInv ==
    /\ pc \in Sleeping => WfiMax < request /\ request <= Cap
    /\ pc \in {"armed", "suspended", "masked"} =>
          lptim = "counting" /\ counter = spent /\ spent <= MaxArm
    /\ pc \in {"asleep", "awake"} =>
          \/ lptim = "counting" /\ counter < request
          \/ lptim = "pending" /\ counter = request
    /\ pc \in {"run", "checked", "wfi", "arm", "read", "stuck", "unmasked"} => lptim = "off"
    /\ pc \in {"awake", "read"} => spent <= MaxRecovery

\* What the tick lacks is what the timer has counted, but for the time before
\* SysTick was suspended and the time the timer has run out.
GainInv ==
    /\ pc \in {"arm", "armed"} => gain = 0
    /\ pc \in {"suspended", "masked", "asleep"} => gain + counter \in 0..MaxArm
    /\ pc = "awake" => gain + counter \in -spent..MaxArm
    /\ pc = "read" => gain + elapsed \in -spent..MaxArm
    /\ pc = "unmasked" => gain \in -MaxRecovery..MaxArm

Healthy == ~refused /\ ~loop.hangs

\* How far the hardware watchdog can have counted down at each point.
DogInv ==
    /\ pc # "reset" => iwdg > 0
    /\ pc = "stuck" => refused
    /\ Healthy =>
        /\ pc # "reset"
        /\ pc = "run" => spent <= MaxRun + 1 /\ iwdg >= Iwdg - MaxRecovery - spent
        /\ pc \in {"checked", "wfi"} => spent <= MaxRun /\ iwdg >= Iwdg - spent
        /\ pc = "arm" => iwdg >= Iwdg - MaxRun
        /\ pc = "armed" => iwdg >= Iwdg - MaxRun - spent
        /\ pc \in {"suspended", "masked", "asleep"} => iwdg >= Iwdg - counter
        /\ pc \in {"awake", "read"} => iwdg >= Iwdg - spent
        /\ pc = "unmasked" => iwdg >= Iwdg - MaxRecovery

IInv == TypeOK /\ TimerInv /\ GainInv /\ DogInv

----------------------------------------------------------------------------
\* The constants are numbers in the ranges the steps below compare.
LEMMA Times ==
    /\ MaxSlots \in Nat /\ MaxSlots > 0 /\ Timeout \subseteq Nat
    /\ Iwdg \in Nat /\ Wrap \in Nat /\ Wrap > 0 /\ MaxSlack \in Nat /\ MaxAge \in Nat
    /\ Request \subseteq Nat /\ WfiMax \in Nat /\ Cap \in Nat
    /\ MaxRun \in Nat /\ MaxArm \in Nat /\ MaxRecovery \in Nat
    /\ WfiMax < Cap /\ MaxArm <= WfiMax
    /\ Cap < Iwdg /\ MaxRun + MaxRecovery + 1 < Iwdg /\ MaxRun + MaxArm < Iwdg
<1>1. Wrap \in Nat /\ Wrap > 0
  <2>1. PICK ms \in Timeout : TRUE
      BY WatchdogAssumption
  <2>2. ms \in Nat \ {0} /\ 2 * (ms + 2 * Iwdg) < Wrap /\ Iwdg \in Nat \ {0} /\ Wrap \in Nat
      BY <2>1, WatchdogAssumption
  <2>3. QED
      BY <2>2
<1>2. MaxAge \in Nat
    BY <1>1 DEF MaxAge
<1>3. QED
    BY <1>1, <1>2, WatchdogAssumption, IdleAssumption

\* A wrapped tick is a tick.
LEMMA TickWraps ==
    ASSUME NEW n \in Int
    PROVE  n % Wrap \in 0..(Wrap - 1)
BY Times, DivisionFact

LEMMA InitInv == IdleInit => IInv
<1> SUFFICES ASSUME IdleInit
             PROVE  IInv
    OBVIOUS
<1>0. refused \in BOOLEAN /\ event \in BOOLEAN
    BY DEF IdleInit, WdtInit
<1>1. WdtTypeOK
    BY <1>0, Times DEF IdleInit, WdtInit, WdtTypeOK
<1>2. TypeOK
    BY Times, <1>0, <1>1 DEF IdleInit, TypeOK
<1>3. TimerInv /\ GainInv
    BY DEF IdleInit, TimerInv, GainInv, Sleeping
<1>4. DogInv
    BY Times DEF IdleInit, WdtInit, DogInv
<1>5. QED
    BY <1>2, <1>3, <1>4 DEF IInv

----------------------------------------------------------------------------
\* The steps

LEMMA TasksStep ==
    ASSUME IInv, Tasks \/ TaskCheckin
    PROVE  IInv'
<1>1. WdtTypeOK' /\ UNCHANGED <<idleVars, dog>>
  <2> USE Times DEF IInv, TypeOK, WdtTypeOK, Slot, Stamp, dog, scan
  <2>1. ASSUME NEW ms \in Timeout, Register(ms), UNCHANGED idleVars
        PROVE  WdtTypeOK' /\ UNCHANGED <<idleVars, dog>>
      BY <2>1 DEF Register
  <2>2. ASSUME NEW s \in Slot, Suspend(s) \/ Resume(s) \/ Checkin(s), UNCHANGED idleVars
        PROVE  WdtTypeOK' /\ UNCHANGED <<idleVars, dog>>
    <3>1. CASE Suspend(s)
        BY <2>2, <3>1 DEF Suspend
    <3>2. CASE Resume(s)
        BY <2>2, <3>2 DEF Resume
    <3>3. CASE Checkin(s)
        BY <2>2, <3>3 DEF Checkin
    <3>4. QED
        BY <2>2, <3>1, <3>2, <3>3
  <2>3. QED
      BY <2>1, <2>2 DEF Tasks, TaskCheckin
<1>2. QED
    BY <1>1 DEF IInv, TypeOK, TimerInv, GainInv, DogInv, Healthy, idleVars, dog

LEMMA MonitorStep ==
    ASSUME IInv, Monitor
    PROVE  IInv'
<1> USE Times DEF IInv, TypeOK, WdtTypeOK, slots, dog, scan
<1>1. CASE (ReadNow \/ PassSlot) /\ UNCHANGED idleVars
  <2>1. WdtTypeOK'
      BY <1>1 DEF ReadNow, PassSlot
  <2>2. UNCHANGED <<idleVars, dog>>
      BY <1>1 DEF ReadNow, PassSlot
  <2>3. QED
      BY <2>1, <2>2 DEF TimerInv, GainInv, DogInv, Healthy, idleVars
<1>2. CASE /\ Refuse \/ Feed
           /\ pc = "run" /\ GoTo("checked")
           /\ UNCHANGED <<loop, request, lptim, counter, event, elapsed, gain>>
  <2>1. WdtTypeOK'
    <3>1. CASE Refuse
        BY <3>1 DEF Refuse
    <3>2. CASE Feed
      <4>1. refused' \in BOOLEAN
          BY <3>2 DEF Feed, Reload
      <4>2. QED
          BY <3>2, <4>1 DEF Feed, Reload
    <3>3. QED
        BY <1>2, <3>1, <3>2
  <2>2. TypeOK' /\ TimerInv' /\ GainInv'
      BY <1>2, <2>1 DEF GoTo, TimerInv, GainInv, Sleeping
  <2>3. refused' \/ iwdg' = Iwdg
      BY <1>2 DEF Refuse, Feed, Reload
  <2>4. iwdg' > 0
      BY <1>2 DEF Refuse, Feed, Reload, DogInv
  <2>5. DogInv'
      BY <1>2, <2>3, <2>4 DEF GoTo, DogInv, Healthy
  <2>6. QED
      BY <2>2, <2>5
<1>3. QED
    BY <1>1, <1>2 DEF Monitor

\* The loop's own steps up to the sleep.
LEMMA RoundStep ==
    ASSUME IInv, (\E ms \in Request : Idle(ms)) \/ GoRound \/ WakeFromWfi
    PROVE  IInv'
<1> USE Times DEF IInv
<1>1. WdtTypeOK'
    BY DEF Idle, GoRound, WakeFromWfi, wdtVars, slots, scan, dog, TypeOK, WdtTypeOK
<1>2. TypeOK'
    BY <1>1 DEF Idle, GoRound, WakeFromWfi, TypeOK
<1>3. TimerInv' /\ GainInv'
    BY DEF Idle, GoRound, WakeFromWfi, TypeOK, TimerInv, GainInv, Sleeping
<1>4. DogInv'
    BY DEF Idle, GoRound, WakeFromWfi, TypeOK, WdtTypeOK, DogInv, Healthy, wdtVars, dog
<1>5. QED
    BY <1>2, <1>3, <1>4

\* Falling asleep, with SysTick still running, suspended, and masked.
LEMMA FallAsleepStep ==
    ASSUME IInv, StartOnce \/ SuspendTick \/ DisableIrq \/ EnterStop2 \/ Interrupt
    PROVE  IInv'
<1> USE Times DEF IInv, TypeOK, wdtVars, slots, scan, dog, GoTo, Reload
<1>1. CASE StartOnce
  <2>1. WdtTypeOK'
      BY <1>1 DEF StartOnce, WdtTypeOK
  <2>2. TypeOK'
      BY <1>1, <2>1 DEF StartOnce
  <2>3. TimerInv' /\ GainInv'
      BY <1>1 DEF StartOnce, TimerInv, GainInv, Sleeping
  <2>4. DogInv'
      BY <1>1 DEF StartOnce, TimerInv, Sleeping, DogInv, Healthy, WdtTypeOK
  <2>5. QED
      BY <2>2, <2>3, <2>4
<1>2. CASE SuspendTick
  <2>0. refused' \in BOOLEAN
      BY <1>2 DEF SuspendTick
  <2>1. WdtTypeOK'
      BY <1>2, <2>0 DEF SuspendTick, WdtTypeOK
  <2>2. TypeOK'
      BY <1>2, <2>1 DEF SuspendTick
  <2>3. TimerInv' /\ GainInv'
      BY <1>2 DEF SuspendTick, TimerInv, GainInv, Sleeping
  <2>4. DogInv'
      BY <1>2 DEF SuspendTick, TimerInv, Sleeping, DogInv, Healthy, WdtTypeOK
  <2>5. QED
      BY <2>2, <2>3, <2>4
<1>3. CASE DisableIrq
  <2>1. WdtTypeOK'
      BY <1>3 DEF DisableIrq, WdtTypeOK
  <2>2. TypeOK'
      BY <1>3, <2>1 DEF DisableIrq
  <2>3. TimerInv' /\ GainInv'
      BY <1>3 DEF DisableIrq, TimerInv, GainInv, Sleeping
  <2>4. DogInv'
      BY <1>3 DEF DisableIrq, TimerInv, Sleeping, DogInv, Healthy, WdtTypeOK
  <2>5. QED
      BY <2>2, <2>3, <2>4
<1>4. CASE EnterStop2
  <2>1. WdtTypeOK'
      BY <1>4 DEF EnterStop2, WdtTypeOK
  <2>2. TypeOK'
      BY <1>4, <2>1 DEF EnterStop2
  <2>3. TimerInv' /\ GainInv'
      BY <1>4 DEF EnterStop2, TimerInv, GainInv, Sleeping
  <2>4. DogInv'
      BY <1>4 DEF EnterStop2, TimerInv, Sleeping, DogInv, Healthy, WdtTypeOK
  <2>5. QED
      BY <2>2, <2>3, <2>4
<1>5. CASE Interrupt
  <2>1. WdtTypeOK'
      BY <1>5 DEF Interrupt, WdtTypeOK
  <2>2. TypeOK'
      BY <1>5, <2>1 DEF Interrupt
  <2>3. TimerInv' /\ GainInv'
      BY <1>5 DEF Interrupt, TimerInv, GainInv, Sleeping
  <2>4. DogInv'
      BY <1>5 DEF Interrupt, TimerInv, Sleeping, DogInv, Healthy, WdtTypeOK
  <2>5. QED
      BY <2>2, <2>3, <2>4
<1>6. QED
    BY <1>1, <1>2, <1>3, <1>4, <1>5

\* Waking up, up to the compensation of the tick.
LEMMA WakeUpStep ==
    ASSUME IInv, Wake \/ StopAndRead \/ RecoveryFails \/ Compensate \/ ResumeTick
    PROVE  IInv'
<1> USE Times DEF IInv, TypeOK, wdtVars, slots, scan, dog, GoTo, Reload
<1>1. CASE Wake
  <2>0. refused' \in BOOLEAN
      BY <1>1 DEF Wake
  <2>1. WdtTypeOK'
      BY <1>1, <2>0 DEF Wake, WdtTypeOK
  <2>2. TypeOK'
      BY <1>1, <2>1 DEF Wake
  <2>3. TimerInv' /\ GainInv'
      BY <1>1 DEF Wake, TimerInv, GainInv, Sleeping
  <2>4. DogInv'
      BY <1>1 DEF Wake, TimerInv, Sleeping, DogInv, Healthy, WdtTypeOK
  <2>5. QED
      BY <2>2, <2>3, <2>4
<1>2. CASE StopAndRead
  <2>1. WdtTypeOK'
      BY <1>2 DEF StopAndRead, WdtTypeOK
  <2>2. TypeOK'
      BY <1>2, <2>1 DEF StopAndRead, TimerInv, Sleeping
  <2>3. TimerInv' /\ GainInv'
      BY <1>2 DEF StopAndRead, TimerInv, GainInv, Sleeping
  <2>4. DogInv'
      BY <1>2 DEF StopAndRead, TimerInv, Sleeping, DogInv, Healthy, WdtTypeOK
  <2>5. QED
      BY <2>2, <2>3, <2>4
<1>3. CASE RecoveryFails
  <2>1. WdtTypeOK'
      BY <1>3 DEF RecoveryFails, WdtTypeOK
  <2>2. TypeOK'
      BY <1>3, <2>1 DEF RecoveryFails
  <2>3. TimerInv' /\ GainInv'
      BY <1>3 DEF RecoveryFails, TimerInv, GainInv, Sleeping
  <2>4. DogInv'
      BY <1>3 DEF RecoveryFails, TimerInv, Sleeping, DogInv, Healthy, WdtTypeOK
  <2>5. QED
      BY <2>2, <2>3, <2>4
<1>4. CASE Compensate
  <2>1. tick' \in 0..(Wrap - 1)
      BY <1>4, TickWraps DEF Compensate, CountElapsed, WdtTypeOK
  <2>2. slack' \in [Slot -> 0..MaxSlack]
      BY <1>4 DEF Compensate, CountElapsed, WdtTypeOK
  <2>3. WdtTypeOK'
      BY <1>4, <2>1, <2>2 DEF Compensate, WdtTypeOK
  <2>4. TypeOK'
    <3>1. event' \in BOOLEAN
        BY <1>4 DEF Compensate
    <3>2. QED
        BY <1>4, <2>3, <3>1 DEF Compensate, CountElapsed
  <2>5. TimerInv' /\ GainInv'
      BY <1>4 DEF Compensate, CountElapsed, TimerInv, GainInv, Sleeping
  <2>6. DogInv'
      BY <1>4 DEF Compensate, TimerInv, Sleeping, DogInv, Healthy, WdtTypeOK
  <2>7. QED
      BY <2>4, <2>5, <2>6
<1>5. CASE ResumeTick
  <2>1. WdtTypeOK'
      BY <1>5 DEF ResumeTick, WdtTypeOK
  <2>2. TypeOK'
      BY <1>5, <2>1 DEF ResumeTick
  <2>3. TimerInv' /\ GainInv'
      BY <1>5 DEF ResumeTick, TimerInv, GainInv, Sleeping
  <2>4. DogInv'
      BY <1>5 DEF ResumeTick, TimerInv, Sleeping, DogInv, Healthy, WdtTypeOK
  <2>5. QED
      BY <2>2, <2>3, <2>4
<1>6. QED
    BY <1>1, <1>2, <1>3, <1>4, <1>5

LEMMA BootStep ==
    ASSUME IInv, Boot
    PROVE  IInv'
<1>0. refused' \in BOOLEAN /\ event' \in BOOLEAN
    BY DEF Boot
<1>1. WdtTypeOK'
    BY <1>0, Times DEF Boot, WdtTypeOK
<1>2. TypeOK'
    BY <1>0, <1>1, Times DEF Boot, GoTo, IInv, TypeOK
<1>3. TimerInv' /\ GainInv'
    BY DEF Boot, GoTo, TimerInv, GainInv, Sleeping
<1>4. DogInv'
    BY Times DEF Boot, GoTo, DogInv
<1>5. QED
    BY <1>2, <1>3, <1>4 DEF IInv

\* A millisecond passes.  It goes on where it is but for a short sleep, or resets.
LEMMA MillisecondStep ==
    ASSUME IInv, Millisecond
    PROVE  IInv'
<1> USE Times DEF IInv
<1>0. InTime
    BY DEF Millisecond
<1>1. /\ pc' = IF iwdg = 1 THEN "reset" ELSE IF pc = "wfi" THEN "run" ELSE pc
      /\ iwdg' = iwdg - 1 /\ iwdg > 0
      /\ spent' = IF pc # "stuck" /\ spent < Iwdg THEN spent + 1 ELSE spent
      /\ UNCHANGED <<refused, loop, request, event, elapsed>>
      /\ iwdg \in 0..Iwdg /\ spent \in Nat /\ gain \in Int /\ counter \in 0..Cap
      /\ elapsed \in 0..Cap /\ request \in Nat
    BY <1>0 DEF Millisecond, DogInv, TypeOK, WdtTypeOK, InTime
<1>2. /\ lptim = "counting" => counter' = counter + 1
      /\ lptim = "counting" => lptim' = IF counter + 1 < request THEN "counting"
                                        ELSE IF Masked THEN "pending" ELSE "served"
      /\ lptim # "counting" => lptim' = lptim /\ counter' = counter
    BY DEF Millisecond, CountDown
<1>3. lptim = "counting" => counter < request /\ request <= Cap
    BY <1>0 DEF TimerInv, TypeOK, Sleeping, InTime
<1>4. WdtTypeOK'
  <2> USE DEF TypeOK, WdtTypeOK
  <2>1. tick' \in 0..(Wrap - 1)
      BY TickWraps DEF Millisecond
  <2>2. age' \in [Slot -> 0..MaxAge]
      BY DEF Millisecond, Older
  <2>3. iwdg' \in 0..Iwdg
      BY <1>1
  <2>4. QED
      BY <2>1, <2>2, <2>3 DEF Millisecond, scan
<1>5. TypeOK'
  <2>1. counter' \in 0..Cap /\ lptim' \in {"off", "counting", "pending", "served"}
      BY <1>1, <1>2, <1>3 DEF TypeOK
  <2>2. gain' \in Int
      BY <1>1 DEF Millisecond
  <2>3. pc' \in {"run", "checked", "wfi", "arm", "armed", "suspended", "masked", "asleep",
                 "awake", "read", "stuck", "unmasked", "reset"}
      BY <1>1 DEF TypeOK
  <2>4. spent' \in Nat
      BY <1>1
  <2>5. QED
      BY <1>1, <1>4, <2>1, <2>2, <2>3, <2>4 DEF TypeOK
<1>6. TimerInv'
  <2>1. CASE lptim = "counting"
      BY <2>1, <1>0, <1>1, <1>2, <1>3 DEF TimerInv, Sleeping, Masked, InTime, WakeUp
  <2>2. CASE lptim # "counting"
      BY <2>2, <1>0, <1>1, <1>2 DEF TimerInv, Sleeping, InTime, WakeUp
  <2>3. QED
      BY <2>1, <2>2
<1>7. GainInv'
  <2>1. gain' = IF pc \in {"suspended", "masked", "asleep", "awake", "read", "stuck"}
                THEN gain - 1 ELSE gain
      BY <1>1 DEF Millisecond, Masked, Suspended
  <2>2. QED
      BY <1>0, <1>1, <1>2, <1>3, <2>1 DEF GainInv, TimerInv, Sleeping, InTime, WakeUp
<1>8. DogInv'
  <2>1. pc' # "reset" => iwdg' > 0
      BY <1>1 DEF TypeOK, WdtTypeOK
  <2>2. pc' = "stuck" => refused'
      BY <1>1 DEF DogInv
  <2>3. ASSUME Healthy'
        PROVE  Healthy
      BY <1>1, <2>3 DEF Healthy
  <2>4. ASSUME Healthy'
        PROVE  /\ iwdg > 1
               /\ pc = "run" => spent' <= MaxRun + 1 /\ iwdg' >= Iwdg - MaxRecovery - spent'
               /\ pc \in {"checked", "wfi"} => spent' <= MaxRun + 1 /\ iwdg' >= Iwdg - spent'
               /\ pc = "checked" => spent' <= MaxRun
               /\ pc = "armed" => iwdg' >= Iwdg - MaxRun - spent'
               /\ pc \in {"suspended", "masked", "asleep"} => iwdg' >= Iwdg - counter'
               /\ pc \in {"awake", "read"} => iwdg' >= Iwdg - spent'
    <3>1. Healthy
        BY <2>3, <2>4
    <3>2. pc \in {"suspended", "masked", "asleep"} =>
             counter < Cap /\ iwdg >= Iwdg - counter /\ counter' = counter + 1
        BY <1>0, <1>1, <1>2, <1>3, <3>1 DEF DogInv, TimerInv, InTime, WakeUp
    <3>3. CASE pc \in {"run", "checked", "wfi"}
        BY <1>0, <1>1, <3>1, <3>3 DEF DogInv, Healthy, InTime
    <3>4. CASE pc = "armed"
        BY <1>0, <1>1, <3>1, <3>4 DEF DogInv, InTime
    <3>5. CASE pc \in {"suspended", "masked", "asleep"}
        BY <1>1, <3>2, <3>5
    <3>6. CASE pc \in {"awake", "read"}
        BY <1>0, <1>1, <3>1, <3>6 DEF DogInv, InTime
    <3>7. QED
        BY <1>0, <3>1, <3>3, <3>4, <3>5, <3>6 DEF DogInv, Healthy, InTime, TypeOK
  <2>5. QED
      BY <1>0, <1>1, <2>1, <2>2, <2>4 DEF DogInv, InTime
<1>9. QED
    BY <1>5, <1>6, <1>7, <1>8

LEMMA StepInv == IInv /\ [Next]_vars => IInv'
<1>1. IInv /\ Next => IInv'
    BY TasksStep, MonitorStep, RoundStep, FallAsleepStep, WakeUpStep, BootStep, MillisecondStep
    DEF Next, Code, Sleep
<1>2. IInv /\ UNCHANGED vars => IInv'
    BY DEF IInv, TypeOK, WdtTypeOK, TimerInv, GainInv, DogInv, Healthy, vars, wdtVars, idleVars,
           slots, scan, dog
<1>3. QED
    BY <1>1, <1>2

LEMMA InvHolds == IdleSpec => []IInv
BY InitInv, StepInv, PTL DEF IdleSpec

----------------------------------------------------------------------------
\* Unless a task was found late, the loop hangs or an oscillator fails, the
\* hardware watchdog never resets the system, whatever sleeps the loop asks for in
\* Anbo_Arch_Idle and whatever interrupts end them.
THEOREM HealthySystemsRun == IdleSpec => []HealthyNotReset
<1>1. IInv => HealthyNotReset
    BY DEF IInv, DogInv, Healthy, HealthyNotReset
<1>2. QED
    BY <1>1, InvHolds, PTL

\* After each sleep the tick is ahead by at most the time that the code takes to
\* suspend SysTick behind the arming of the timer, and behind by at most the time
\* the clocks take to recover.
THEOREM SleepTimeIsKept == IdleSpec => SleepTimeKept
<1>1. IInv /\ [Next]_vars => [ResumeTick => -MaxRecovery <= gain /\ gain <= MaxArm]_vars
    BY Times DEF IInv, GainInv, ResumeTick
<1>2. QED
    BY <1>1, InvHolds, PTL DEF IdleSpec, SleepTimeKept

----------------------------------------------------------------------------
\* A loop that does not sleep: how old the check-ins of the tasks can be

\* How long ago Monitor has read the tick, and how far the hardware watchdog has
\* counted down since it was fed.
ScanAge == (tick - now) % Wrap
Down == Iwdg - iwdg

\* The stamp of an active slot tells its age, and a slot that the scan has passed
\* was young enough when the tick was read.
SlotInv(s) ==
    IF state[s] = "active"
    THEN /\ s < count
         /\ (tick - last[s]) % Wrap = age[s]
         /\ age[s] <= timeout[s] + Iwdg + Down
         /\ s < at /\ at <= MaxSlots => age[s] <= timeout[s] + Down
    ELSE age[s] = 0

SilenceInv ==
    /\ pc \in {"run", "checked", "reset"}
    /\ at <= MaxSlots => ScanAge <= Down
    /\ \A s \in Slot : SlotInv(s)

\* A tick ahead of another one by less than a turn stays ahead.
LEMMA LagGrows ==
    ASSUME NEW a \in 0..(Wrap - 1), NEW b \in 0..(Wrap - 1), ((a - b) % Wrap) + 1 < Wrap
    PROVE  (((a + 1) % Wrap) - b) % Wrap = ((a - b) % Wrap) + 1
<1> DEFINE x == a - b
           y == ((a + 1) % Wrap) - b
<1>1. Wrap \in Nat \ {0} /\ x \in Int /\ a + 1 \in Int
    BY Times
<1>2. /\ x \in 0..(Wrap - 1) => x % Wrap = x
      /\ x \in (0 - Wrap)..(0 - 1) => x % Wrap = x + Wrap
    BY <1>1, NearRemainder
<1>3. /\ a + 1 \in 0..(Wrap - 1) => (a + 1) % Wrap = a + 1
      /\ a + 1 = Wrap => (a + 1) % Wrap = 0
    BY <1>1, NearRemainder
<1>4. y \in Int
    BY <1>1, DivisionFact
<1>5. /\ y \in 0..(Wrap - 1) => y % Wrap = y
      /\ y \in (0 - Wrap)..(0 - 1) => y % Wrap = y + Wrap
    BY <1>1, <1>4, NearRemainder
<1>6. CASE a + 1 < Wrap
  <2>1. y = x + 1
      BY <1>1, <1>3, <1>6
  <2>2. x \in 0..(Wrap - 1) \/ x \in (0 - Wrap)..(0 - 1)
      BY <1>1
  <2>3. (x % Wrap) + 1 < Wrap
      OBVIOUS
  <2> HIDE DEF x, y
  <2>4. y % Wrap = (x % Wrap) + 1
      BY <1>1, <1>2, <1>5, <2>1, <2>2, <2>3
  <2>5. QED
      BY <2>4 DEF x, y
<1>7. CASE a + 1 = Wrap
  <2>1. y = 0 - b /\ x = Wrap - 1 - b
      BY <1>1, <1>3, <1>7
  <2>2. (x % Wrap) + 1 < Wrap
      OBVIOUS
  <2> HIDE DEF x, y
  <2>3. y % Wrap = (x % Wrap) + 1
      BY <1>1, <1>2, <1>5, <2>1, <2>2
  <2>4. QED
      BY <2>3 DEF x, y
<1>8. QED
    BY <1>1, <1>6, <1>7

\* Two ticks less than half a turn behind a third: time_diff is their true distance.
LEMMA DiffOfLags ==
    ASSUME NEW a \in 0..(Wrap - 1), NEW b \in 0..(Wrap - 1), NEW c \in 0..(Wrap - 1),
           2 * ((a - b) % Wrap) < Wrap, 2 * ((a - c) % Wrap) < Wrap
    PROVE  Diff(c, b) = ((a - b) % Wrap) - ((a - c) % Wrap)
<1> DEFINE x == a - b
           y == a - c
           z == c - b
<1>1. Wrap \in Nat \ {0} /\ x \in Int /\ y \in Int /\ z \in Int /\ z = x - y
    BY Times
<1>2. /\ x \in 0..(Wrap - 1) => x % Wrap = x
      /\ x \in (0 - Wrap)..(0 - 1) => x % Wrap = x + Wrap
    BY <1>1, NearRemainder
<1>3. /\ y \in 0..(Wrap - 1) => y % Wrap = y
      /\ y \in (0 - Wrap)..(0 - 1) => y % Wrap = y + Wrap
    BY <1>1, NearRemainder
<1>4. /\ z \in 0..(Wrap - 1) => z % Wrap = z
      /\ z \in (0 - Wrap)..(0 - 1) => z % Wrap = z + Wrap
    BY <1>1, NearRemainder
<1>5. /\ x \in (1 - Wrap)..(Wrap - 1) /\ y \in (1 - Wrap)..(Wrap - 1)
      /\ z \in (1 - Wrap)..(Wrap - 1)
    BY <1>1
<1>6. 2 * (x % Wrap) < Wrap /\ 2 * (y % Wrap) < Wrap
    OBVIOUS
<1>7. Diff(c, b) = IF 2 * (z % Wrap) >= Wrap THEN (z % Wrap) - Wrap ELSE z % Wrap
    BY DEF Diff
<1> HIDE DEF x, y, z
<1>8. Diff(c, b) = (x % Wrap) - (y % Wrap)
    BY <1>1, <1>2, <1>3, <1>4, <1>5, <1>6, <1>7
<1>9. QED
    BY <1>8 DEF x, y

\* The timeouts are short, compared with half a turn of the tick.
LEMMA ShortTimeouts ==
    ASSUME NEW ms \in Timeout \cup {0}
    PROVE  ms \in Nat /\ 2 * (ms + 2 * Iwdg) < Wrap
<1>1. PICK t \in Timeout : TRUE
    BY WatchdogAssumption
<1>2. t \in Nat /\ 2 * (t + 2 * Iwdg) < Wrap
    BY WatchdogAssumption
<1>3. ms # 0 => ms \in Nat /\ 2 * (ms + 2 * Iwdg) < Wrap
    BY WatchdogAssumption
<1>4. QED
    BY <1>2, <1>3, Times

LEMMA SilenceInit == IdleInit => SilenceInv
<1> SUFFICES ASSUME IdleInit
             PROVE  SilenceInv
    OBVIOUS
<1>1. at > MaxSlots
    BY Times DEF IdleInit, WdtInit
<1>2. \A s \in Slot : SlotInv(s)
    BY DEF IdleInit, WdtInit, SlotInv
<1>3. QED
    BY <1>1, <1>2, Times DEF IdleInit, WdtInit, SilenceInv

\* A check-in, or a change of the slots, starts their ages anew.
Touched ==
    /\ UNCHANGED <<tick, now, at, iwdg, pc>>
    /\ count' >= count
    /\ \A s \in Slot :
          \/ UNCHANGED <<state[s], last[s], timeout[s], age[s], slack[s]>>
          \/ state'[s] = "active" /\ last'[s] = tick /\ age'[s] = 0 /\ s < count'
          \/ state'[s] = "suspended" /\ age'[s] = 0

LEMMA TasksTouch ==
    ASSUME TypeOK, Tasks \/ TaskCheckin
    PROVE  Touched
<1> USE Times DEF TypeOK, WdtTypeOK, Stamp, Valid, dog, scan, Slot, idleVars, Touched
<1>1. ASSUME NEW ms \in Timeout, Register(ms), UNCHANGED idleVars
      PROVE  Touched
    BY <1>1 DEF Register
<1>2. ASSUME NEW s \in Slot, Suspend(s), UNCHANGED idleVars
      PROVE  Touched
    BY <1>2 DEF Suspend
<1>3. ASSUME NEW s \in Slot, Resume(s), UNCHANGED idleVars
      PROVE  Touched
    BY <1>3 DEF Resume
<1>4. ASSUME NEW s \in Slot, Checkin(s), UNCHANGED idleVars
      PROVE  Touched
    BY <1>4 DEF Checkin
<1>5. QED
    BY <1>1, <1>2, <1>3, <1>4 DEF Tasks, TaskCheckin

LEMMA SilenceTasks ==
    ASSUME TypeOK, TypeOK', SilenceInv, Tasks \/ TaskCheckin
    PROVE  SilenceInv'
<1>1. Touched
    BY TasksTouch
<1>2. ScanAge' = ScanAge /\ Down' = Down /\ Down \in Nat
    BY <1>1, Times DEF ScanAge, Down, Touched, TypeOK, WdtTypeOK
<1>3. ASSUME NEW s \in Slot
      PROVE  SlotInv(s)'
  <2>1. SlotInv(s)
      BY DEF SilenceInv
  <2>2. (tick - tick) % Wrap = 0
      BY Times, NearRemainder DEF TypeOK, WdtTypeOK
  <2>3. timeout'[s] \in Nat /\ s \in Nat /\ count \in Nat /\ count' \in Nat
    <3>1. timeout' \in [Slot -> Timeout \cup {0}] /\ count \in 0..MaxSlots /\ count' \in 0..MaxSlots
        BY DEF TypeOK, WdtTypeOK
    <3>2. timeout'[s] \in Timeout \cup {0}
        BY <3>1
    <3>3. timeout'[s] \in Nat
        BY <3>2, ShortTimeouts
    <3>4. QED
        BY <3>1, <3>3, Times DEF Slot
  <2>4. CASE UNCHANGED <<state[s], last[s], timeout[s], age[s], slack[s]>>
      BY <1>1, <1>2, <2>1, <2>3, <2>4 DEF SlotInv, Touched
  <2>5. CASE state'[s] = "active" /\ last'[s] = tick /\ age'[s] = 0 /\ s < count'
      BY <1>1, <1>2, <2>2, <2>3, <2>5, Times DEF SlotInv, Touched
  <2>6. CASE state'[s] = "suspended" /\ age'[s] = 0
      BY <2>6 DEF SlotInv
  <2>7. QED
      BY <1>1, <2>4, <2>5, <2>6 DEF Touched
<1>4. QED
    BY <1>1, <1>2, <1>3 DEF SilenceInv, Touched

\* A slot that the scan passes has been stamped at most its timeout before the
\* tick was read.
LEMMA PassedIsYoung ==
    ASSUME TypeOK, SilenceInv, NEW s \in Slot, state[s] = "active",
           at <= MaxSlots, ~Late(now, s)
    PROVE  age[s] <= timeout[s] + Down
<1>1. /\ tick \in 0..(Wrap - 1) /\ now \in 0..(Wrap - 1) /\ last[s] \in 0..(Wrap - 1)
      /\ age[s] \in Nat /\ timeout[s] \in Timeout \cup {0} /\ iwdg \in 0..Iwdg
    BY Times DEF TypeOK, WdtTypeOK
<1>2. timeout[s] \in Nat /\ 2 * (timeout[s] + 2 * Iwdg) < Wrap
    BY <1>1, ShortTimeouts
<1>3. /\ (tick - last[s]) % Wrap = age[s]
      /\ age[s] <= timeout[s] + Iwdg + Down
      /\ (tick - now) % Wrap <= Down
    BY DEF SilenceInv, SlotInv, ScanAge
<1>4. (tick - now) % Wrap \in Nat /\ Down \in 0..Iwdg
  <2>1. tick - now \in Int /\ Wrap \in Nat \ {0} /\ iwdg \in 0..Iwdg /\ Iwdg \in Nat
      BY <1>1, Times
  <2>2. (tick - now) % Wrap \in 0..(Wrap - 1)
      BY <2>1, DivisionFact
  <2>3. (tick - now) % Wrap \in Nat
      BY <2>1, <2>2
  <2>4. QED
      BY <2>1, <2>3 DEF Down
<1>5. 2 * age[s] < Wrap /\ 2 * ((tick - now) % Wrap) < Wrap
    BY <1>1, <1>2, <1>3, <1>4, Times
<1>6. Diff(now, last[s]) = age[s] - ((tick - now) % Wrap)
    BY <1>1, <1>3, <1>5, DiffOfLags
<1>7. Diff(now, last[s]) <= timeout[s]
    BY <1>1, <1>2, <1>4, <1>6 DEF Late
<1>8. QED
    BY <1>1, <1>2, <1>3, <1>4, <1>6, <1>7

LEMMA SilenceMonitor ==
    ASSUME TypeOK, SilenceInv, Monitor
    PROVE  SilenceInv'
<1> USE DEF slots
<1>1. /\ at \in 0..(MaxSlots + 1) /\ count \in 0..MaxSlots /\ iwdg \in 0..Iwdg /\ Down \in 0..Iwdg
      /\ \A s \in Slot : s \in 0..(MaxSlots - 1) /\ age[s] \in Nat /\ timeout[s] \in Nat
  <2>1. ASSUME NEW s \in Slot
        PROVE  timeout[s] \in Nat /\ age[s] \in Nat
    <3>1. timeout[s] \in Timeout \cup {0} /\ age[s] \in 0..MaxAge
        BY DEF TypeOK, WdtTypeOK
    <3>2. timeout[s] \in Nat
        BY <3>1, ShortTimeouts
    <3>3. QED
        BY <3>1, <3>2, Times
  <2>2. QED
      BY <2>1, Times DEF TypeOK, WdtTypeOK, Slot, Down
<1>2. UNCHANGED <<tick, count, state, last, timeout, age>>
    BY DEF Monitor, ReadNow, PassSlot, Refuse, Feed
<1>3. \A s \in Slot : SlotInv(s)
    BY DEF SilenceInv
<1>4. CASE ReadNow /\ UNCHANGED idleVars
  <2>1. ScanAge' = 0 /\ Down' = Down /\ at' = 0 /\ pc' = pc
    <3>1. (tick - tick) % Wrap = 0
        BY Times, NearRemainder DEF TypeOK, WdtTypeOK
    <3>2. QED
        BY <1>4, <3>1 DEF ReadNow, ScanAge, Down, dog, idleVars
  <2>2. \A s \in Slot : SlotInv(s)'
      BY <1>1, <1>2, <1>3, <2>1 DEF SlotInv
  <2>3. QED
      BY <1>1, <2>1, <2>2 DEF SilenceInv
<1>5. CASE PassSlot /\ UNCHANGED idleVars
  <2>1. ScanAge' = ScanAge /\ Down' = Down /\ pc' = pc /\ at < count /\ at' = at + 1
      BY <1>5 DEF PassSlot, ScanAge, Down, dog, idleVars
  <2>2. state[at] = "active" => age[at] <= timeout[at] + Down
    <3>1. at \in Slot /\ at <= MaxSlots
        BY <1>1, <2>1, Times DEF Slot
    <3>2. ~Late(now, at)
        BY <1>5 DEF PassSlot
    <3>3. QED
        BY <3>1, <3>2, PassedIsYoung
  <2>3. ASSUME NEW s \in Slot
        PROVE  SlotInv(s)'
    <3>1. SlotInv(s) /\ s \in Nat /\ at <= MaxSlots
        BY <1>1, <1>3, <2>1, Times
    <3>2. CASE state[s] = "active"
        BY <1>1, <1>2, <2>1, <2>2, <3>1, <3>2, Times DEF SlotInv
    <3>3. CASE state[s] # "active"
        BY <1>2, <3>1, <3>3 DEF SlotInv
    <3>4. QED
        BY <3>2, <3>3
  <2>4. QED
      BY <1>1, <2>1, <2>3, Times DEF SilenceInv
<1>6. CASE Refuse /\ GoTo("checked")
  <2>1. at' = MaxSlots + 1 /\ Down' = Down /\ pc' = "checked"
      BY <1>6 DEF Refuse, GoTo, Down
  <2>2. \A s \in Slot : SlotInv(s)'
      BY <1>1, <1>2, <1>3, <2>1, Times DEF SlotInv
  <2>3. QED
      BY <1>1, <2>1, <2>2, Times DEF SilenceInv
<1>7. CASE Feed /\ GoTo("checked")
  <2>1. at' = MaxSlots + 1 /\ Down' = 0 /\ pc' = "checked" /\ at = count
      BY <1>7, Times DEF Feed, Reload, GoTo, Down
  <2>2. \A s \in Slot : SlotInv(s)'
      BY <1>1, <1>2, <1>3, <2>1, Times DEF SlotInv
  <2>3. QED
      BY <1>1, <2>1, <2>2, Times DEF SilenceInv
<1>8. QED
    BY <1>4, <1>5, <1>6, <1>7 DEF Monitor

LEMMA SilenceMillisecond ==
    ASSUME IInv, SilenceInv, Millisecond
    PROVE  SilenceInv'
<1>1. /\ tick \in 0..(Wrap - 1) /\ now \in 0..(Wrap - 1)
      /\ at \in 0..(MaxSlots + 1) /\ iwdg \in 0..Iwdg /\ Down \in 0..Iwdg
      /\ \A s \in Slot : /\ last[s] \in 0..(Wrap - 1) /\ age[s] \in Nat
                         /\ timeout[s] \in Timeout \cup {0}
    BY Times DEF IInv, TypeOK, WdtTypeOK, Down
<1>2. pc \in {"run", "checked"}
    BY DEF SilenceInv, Millisecond, InTime
<1>3. /\ tick' = (tick + 1) % Wrap /\ iwdg' = iwdg - 1 /\ pc' \in {"run", "checked", "reset"}
      /\ age' = Older(age)
      /\ UNCHANGED <<count, state, last, timeout, now, at>>
    BY <1>2 DEF Millisecond, Suspended, Masked, scan
<1>4. Down' = Down + 1 /\ Down + 1 <= Iwdg
  <2>1. iwdg > 0
      BY <1>2 DEF IInv, DogInv
  <2>2. QED
      BY <1>1, <1>3, <2>1, Times DEF Down
<1>5. ASSUME NEW s \in Slot
      PROVE  SlotInv(s)'
  <2>1. timeout[s] \in Nat /\ 2 * (timeout[s] + 2 * Iwdg) < Wrap
      BY <1>1, ShortTimeouts
  <2>2. SlotInv(s)
      BY DEF SilenceInv
  <2>3. CASE state[s] # "active"
      BY <1>3, <2>2, <2>3 DEF SlotInv, Older
  <2>4. CASE state[s] = "active"
    <3>1. age[s] + 1 < Wrap /\ age[s] < MaxAge
        BY <1>1, <1>4, <2>1, <2>2, <2>4, Times DEF SlotInv, MaxAge
    <3>2. age'[s] = age[s] + 1
        BY <1>3, <2>4, <3>1 DEF Older
    <3>3. (tick' - last[s]) % Wrap = age[s] + 1
        BY <1>1, <1>3, <2>2, <2>4, <3>1, LagGrows DEF SlotInv
    <3>4. QED
        BY <1>1, <1>3, <1>4, <2>1, <2>2, <2>4, <3>2, <3>3, Times DEF SlotInv
  <2>5. QED
      BY <2>3, <2>4
<1>6. at' <= MaxSlots => ScanAge' <= Down'
  <2>1. ASSUME at <= MaxSlots
        PROVE  ScanAge' = ScanAge + 1
    <3>1. ScanAge \in Nat /\ ScanAge + 1 < Wrap
      <4>1. ScanAge \in Nat /\ ScanAge <= Down
        <5>1. tick - now \in Int /\ Wrap \in Nat \ {0}
            BY <1>1, Times
        <5>2. (tick - now) % Wrap \in 0..(Wrap - 1)
            BY <5>1, DivisionFact
        <5>3. ScanAge \in Nat
            BY <5>1, <5>2 DEF ScanAge
        <5>4. QED
            BY <2>1, <5>3 DEF SilenceInv
      <4>2. 2 * (0 + 2 * Iwdg) < Wrap
          BY ShortTimeouts
      <4>3. QED
          BY <1>1, <1>4, <4>1, <4>2, Times
    <3>2. QED
        BY <1>1, <1>3, <3>1, LagGrows DEF ScanAge
  <2>2. QED
      BY <1>1, <1>3, <1>4, <2>1, Times, DivisionFact DEF SilenceInv, ScanAge
<1>7. QED
    BY <1>3, <1>5, <1>6 DEF SilenceInv

LEMMA SilenceStep ==
    ~loop.idles /\ IInv /\ IInv' /\ SilenceInv /\ [Next]_vars => SilenceInv'
<1> SUFFICES ASSUME ~loop.idles, IInv, IInv', SilenceInv, [Next]_vars
             PROVE  SilenceInv'
    OBVIOUS
<1> USE DEF IInv
<1>1. pc \in {"run", "checked", "reset"}
    BY DEF SilenceInv
<1>2. CASE Tasks \/ TaskCheckin
    BY <1>2, SilenceTasks
<1>3. CASE Monitor
    BY <1>3, SilenceMonitor
<1>4. CASE GoRound \/ UNCHANGED vars
  <2>1. UNCHANGED wdtVars /\ pc' \in {"run", "checked", "reset"}
      BY <1>1, <1>4 DEF GoRound, vars, idleVars
  <2>2. QED
      BY <2>1 DEF SilenceInv, SlotInv, ScanAge, Down, wdtVars, slots, scan, dog
<1>5. CASE Millisecond
    BY <1>5, SilenceMillisecond
<1>6. CASE Boot
  <2>1. at' = MaxSlots + 1 /\ pc' = "run"
      BY <1>6 DEF Boot, GoTo
  <2>2. \A s \in Slot : SlotInv(s)'
      BY <1>6 DEF Boot, SlotInv
  <2>3. QED
      BY <2>1, <2>2, Times DEF SilenceInv
<1>7. ASSUME Next
      PROVE  Tasks \/ TaskCheckin \/ Monitor \/ GoRound \/ Millisecond \/ Boot
    BY <1>1, <1>7 DEF Next, Code, Sleep, Idle, StartOnce, SuspendTick, DisableIrq, EnterStop2,
                      Wake, StopAndRead, RecoveryFails, Compensate, ResumeTick, WakeFromWfi,
                      Interrupt, Masked
<1>8. QED
    BY <1>2, <1>3, <1>4, <1>5, <1>6, <1>7

\* The main loop is the one it is.
LEMMA SameLoop == IInv /\ [Next]_vars => loop' = loop
BY DEF Next, Code, Tasks, TaskCheckin, Monitor, GoRound, Millisecond, Boot, Sleep, Idle,
       StartOnce, SuspendTick, DisableIrq, EnterStop2, Wake, StopAndRead, RecoveryFails,
       Compensate, ResumeTick, WakeFromWfi, Interrupt, GoTo, vars, idleVars

\* In a loop that does not sleep, Anbo_WDT_Monitor gets a silent task's system reset
\* at the latest two periods of the hardware watchdog after the task's timeout, even
\* if the loop stalls within a scan, and whatever the other tasks do.
THEOREM SilentTasksReset == IdleSpec => []SilenceResets
<1> DEFINE QInv == IInv /\ (~loop.idles => SilenceInv)
<1>1. IdleInit => QInv
    BY InitInv, SilenceInit
<1>2. QInv /\ [Next]_vars => QInv'
  <2> SUFFICES ASSUME QInv, [Next]_vars
               PROVE  QInv'
      OBVIOUS
  <2>1. IInv' /\ loop' = loop
      BY StepInv, SameLoop
  <2>2. ~loop.idles => SilenceInv'
      BY <2>1, SilenceStep
  <2>3. QED
      BY <2>1, <2>2
<1>3. QInv => SilenceResets
  <2> SUFFICES ASSUME QInv, ~loop.idles, NEW s \in Slot
               PROVE  age[s] <= timeout[s] + 2 * Iwdg
      BY DEF SilenceResets
  <2>1. SlotInv(s) /\ age[s] \in Nat /\ iwdg \in 0..Iwdg
      BY Times DEF SilenceInv, IInv, TypeOK, WdtTypeOK
  <2>2. timeout[s] \in Nat
    <3>1. timeout[s] \in Timeout \cup {0}
        BY DEF IInv, TypeOK, WdtTypeOK
    <3>2. QED
        BY <3>1, ShortTimeouts
  <2>3. CASE state[s] = "active"
      BY <2>1, <2>2, <2>3, Times DEF SlotInv, Down
  <2>4. CASE state[s] # "active"
      BY <2>1, <2>2, <2>4, Times DEF SlotInv
  <2>5. QED
      BY <2>3, <2>4
<1> HIDE DEF QInv
<1>4. QED
    BY <1>1, <1>2, <1>3, PTL DEF IdleSpec

----------------------------------------------------------------------------
\* The inductive invariant

\* SysTick is suspended and the low-power timer counts in its place.
InSleep == {"suspended", "masked", "asleep", "awake", "read"}

\* The time that the low-power timer has counted and the tick will be advanced by.
Uncounted ==
    IF pc = "read" THEN elapsed ELSE IF pc = "armed" \/ pc \in InSleep THEN counter ELSE 0

\* How long ago a slot was stamped, by the tick, and how much of this the deep
\* sleeps since then may have counted twice.
Lag(s) == (tick - last[s]) % Wrap
Grant(s) == MaxArm * slack[s]

\* The stamp of an active slot makes it look older than it is by at most that, and
\* by nothing before a millisecond has passed but for the sleep that was going on.
AgeInv(s) ==
    state[s] = "active" /\ age[s] < MaxAge /\ pc \notin {"stuck", "reset"} =>
        /\ slack[s] < MaxSlack \/ MaxArm = 0 =>
              /\ pc \in InSleep => Lag(s) + Uncounted <= age[s] + Grant(s) + MaxArm
              /\ pc \notin InSleep => Lag(s) <= age[s] + Grant(s)
        /\ age[s] = 0 => Lag(s) + Uncounted <= MaxArm

\* A scan is shorter than the period of the hardware watchdog,
ScanInv == at <= MaxSlots => pc \in {"run", "reset"} /\ ScanAge <= Down

\* and the slots it has passed are not late, even if they have been stamped since.
PassedInv == \A s \in Slot : s < at /\ at <= MaxSlots => ~Late(now, s)

RInv == ScanInv /\ PassedInv /\ \A s \in Slot : AgeInv(s)

----------------------------------------------------------------------------
\* Remainders of sums

LEMMA RemainderAtMost ==
    ASSUME NEW n \in Nat \ {0}, NEW x \in Nat
    PROVE  x % n <= x
<1>1. x % n \in 0..(n - 1) /\ x \div n \in Int /\ x = n * (x \div n) + (x % n)
    BY DivisionFact
<1>2. x \div n >= 0
  <2>1. x \div n <= 0 - 1 => n * (x \div n) <= 0 - n
      BY <1>1, SMT
  <2>2. QED
      BY <1>1, <2>1
<1>3. n * (x \div n) >= 0
    BY <1>1, <1>2, SMT
<1>4. QED
    BY <1>1, <1>3

\* Advancing the tick adds no more to a distance than it is advanced by.
LEMMA LagAdds ==
    ASSUME NEW a \in 0..(Wrap - 1), NEW b \in 0..(Wrap - 1), NEW k \in Nat
    PROVE  (((a + k) % Wrap) - b) % Wrap <= ((a - b) % Wrap) + k
<1>1. /\ Wrap \in Nat \ {0} /\ a \in Int /\ b \in Int /\ 0 - b \in Int
      /\ a + k \in Int /\ a - b \in Int /\ k \in Int
    BY Times
<1>2. (((a + k) % Wrap) + (0 - b)) % Wrap = ((a + k) + (0 - b)) % Wrap
    BY <1>1, WrapSum
<1>3. (((a - b) % Wrap) + k) % Wrap = ((a - b) + k) % Wrap
  <2> DEFINE d == a - b
  <2>1. d \in Int
      BY <1>1
  <2> HIDE DEF d
  <2>2. ((d % Wrap) + k) % Wrap = (d + k) % Wrap
      BY <1>1, <2>1, WrapSum
  <2>3. QED
      BY <2>2 DEF d
<1>4. (a + k) + (0 - b) = (a - b) + k
    BY <1>1
<1>5. ((a + k) % Wrap) + (0 - b) = ((a + k) % Wrap) - b
  <2>1. (a + k) % Wrap \in Int
      BY <1>1, DivisionFact
  <2>2. QED
      BY <1>1, <2>1
<1>6. ((a - b) % Wrap) + k \in Nat
  <2>1. (a - b) % Wrap \in 0..(Wrap - 1)
      BY <1>1, DivisionFact
  <2>2. QED
      BY <1>1, <2>1
<1>7. (((a - b) % Wrap) + k) % Wrap <= ((a - b) % Wrap) + k
    BY <1>1, <1>6, RemainderAtMost
<1>8. QED
    BY <1>2, <1>3, <1>4, <1>5, <1>7

----------------------------------------------------------------------------
\* The types of what the invariant compares.
InRange ==
    /\ tick \in 0..(Wrap - 1) /\ now \in 0..(Wrap - 1)
    /\ at \in 0..(MaxSlots + 1) /\ iwdg \in 0..Iwdg /\ Down \in 0..Iwdg
    /\ elapsed \in Nat /\ counter \in Nat /\ Uncounted \in Nat /\ ScanAge \in Nat
    /\ \A s \in Slot :
          /\ s \in Nat /\ last[s] \in 0..(Wrap - 1) /\ age[s] \in 0..MaxAge
          /\ timeout[s] \in Timeout \cup {0} /\ slack[s] \in 0..MaxSlack
          /\ Lag(s) \in Nat /\ Grant(s) \in Nat

LEMMA TimesInRange == TypeOK => InRange
<1> SUFFICES ASSUME TypeOK
             PROVE  InRange
    OBVIOUS
<1> USE Times DEF TypeOK, WdtTypeOK
<1>1. tick \in 0..(Wrap - 1) /\ now \in 0..(Wrap - 1) /\ at \in 0..(MaxSlots + 1)
    OBVIOUS
<1>2. iwdg \in 0..Iwdg /\ Down \in 0..Iwdg
    BY DEF Down
<1>3. elapsed \in Nat /\ counter \in Nat /\ Uncounted \in Nat
    BY DEF Uncounted
<1>4. ScanAge \in Nat
    BY DivisionFact DEF ScanAge
<1>5. ASSUME NEW s \in Slot
      PROVE  /\ s \in Nat /\ last[s] \in 0..(Wrap - 1) /\ age[s] \in 0..MaxAge
             /\ timeout[s] \in Timeout \cup {0} /\ slack[s] \in 0..MaxSlack
             /\ Lag(s) \in Nat /\ Grant(s) \in Nat
  <2>1. last[s] \in 0..(Wrap - 1) /\ s \in Nat
      BY DEF Slot
  <2>2. age[s] \in 0..MaxAge /\ timeout[s] \in Timeout \cup {0}
      OBVIOUS
  <2>3. slack[s] \in 0..MaxSlack
      OBVIOUS
  <2>4. Lag(s) \in Nat
    <3>1. tick - last[s] \in Int /\ Wrap \in Nat \ {0}
        BY <1>1, <2>1
    <3>2. Lag(s) \in 0..(Wrap - 1)
        BY <3>1, DivisionFact DEF Lag
    <3>3. QED
        BY <3>1, <3>2
  <2>5. Grant(s) \in Nat
    <3>1. slack[s] \in Nat
        BY <2>3
    <3>2. QED
        BY <3>1, SMT DEF Grant
  <2>6. QED
      BY <2>1, <2>2, <2>3, <2>4, <2>5
<1>6. QED
    BY <1>1, <1>2, <1>3, <1>4, <1>5 DEF InRange

LEMMA RangesNext == TypeOK' => InRange'
BY TimesInRange, PTL

LEMMA RefusalInit == IdleInit => RInv
<1> SUFFICES ASSUME IdleInit
             PROVE  RInv
    OBVIOUS
<1>1. at = MaxSlots + 1 /\ \A s \in Slot : state[s] # "active"
    BY DEF IdleInit, WdtInit
<1>2. QED
    BY <1>1, Times DEF RInv, ScanInv, PassedInv, AgeInv

\* A step that leaves the tick and the slots alone, outside a scan or ending one.
LEMMA QuietStep ==
    ASSUME TypeOK, RInv, UNCHANGED <<tick, state, last, timeout, age, slack>>,
           ~(at' <= MaxSlots) \/ UNCHANGED <<now, at, iwdg, pc>>,
           pc \in InSleep <=> pc' \in InSleep,
           pc \notin {"stuck", "reset"}, Uncounted' <= Uncounted, Uncounted' \in Nat
    PROVE  RInv'
<1>1. ScanInv'
    BY DEF RInv, ScanInv, ScanAge, Down
<1>2. PassedInv'
    BY DEF RInv, PassedInv, Late
<1>3. ASSUME NEW s \in Slot
      PROVE  AgeInv(s)'
  <2>1. /\ AgeInv(s) /\ Lag(s)' = Lag(s) /\ Grant(s)' = Grant(s)
        /\ Lag(s) \in Nat /\ Grant(s) \in Nat /\ Uncounted \in Nat /\ age[s] \in Nat
      BY TimesInRange, Times DEF RInv, Lag, Grant, InRange
  <2>2. QED
      BY <2>1, Times DEF AgeInv
<1>4. QED
    BY <1>1, <1>2, <1>3 DEF RInv

LEMMA RefusalTasks ==
    ASSUME IInv, IInv', RInv, Tasks \/ TaskCheckin
    PROVE  RInv'
<1>1. Touched
    BY TasksTouch DEF IInv
<1>2. UNCHANGED <<counter, elapsed, pc>> /\ pc \notin {"masked", "asleep", "awake", "read"}
    BY DEF Tasks, TaskCheckin, idleVars, Masked
<1>3. Uncounted' = Uncounted /\ (tick - tick) % Wrap = 0 /\ TypeOK /\ TypeOK'
    BY <1>2, Times, NearRemainder DEF Uncounted, InSleep, IInv, TypeOK, WdtTypeOK
<1>4. Uncounted <= MaxArm
    BY <1>2, Times DEF Uncounted, InSleep, IInv, TimerInv
<1>5. ScanInv'
    BY <1>1 DEF Touched, RInv, ScanInv, ScanAge, Down
<1>6. ASSUME NEW s \in Slot, at <= MaxSlots, last'[s] = tick
      PROVE  Diff(now, last'[s]) <= 0
  <2>1. ScanAge \in Nat /\ ScanAge <= Iwdg
      BY <1>3, <1>6, TimesInRange, Times DEF RInv, ScanInv, InRange
  <2>2. 2 * ScanAge < Wrap
    <3>1. 2 * (0 + 2 * Iwdg) < Wrap
        BY ShortTimeouts
    <3>2. QED
        BY <2>1, <3>1, Times
  <2>3. Diff(now, tick) = 0 - ScanAge
    <3>1. tick \in 0..(Wrap - 1) /\ now \in 0..(Wrap - 1)
        BY <1>3, TimesInRange DEF InRange
    <3>2. 2 * ((tick - tick) % Wrap) < Wrap /\ 2 * ((tick - now) % Wrap) < Wrap
        BY <1>3, <2>2, Times DEF ScanAge
    <3>3. Diff(now, tick) = ((tick - tick) % Wrap) - ((tick - now) % Wrap)
        BY <3>1, <3>2, DiffOfLags
    <3>4. QED
        BY <1>3, <3>3 DEF ScanAge
  <2>4. QED
      BY <1>6, <2>1, <2>3
<1>7. ASSUME NEW s \in Slot, s < at', at' <= MaxSlots
      PROVE  ~Late(now, s)'
  <2>1. at' = at /\ now' = now /\ ~Late(now, s)
      BY <1>1, <1>7 DEF Touched, RInv, PassedInv
  <2>2. timeout'[s] \in Nat
    <3>1. timeout'[s] \in Timeout \cup {0}
        BY <1>3 DEF TypeOK, WdtTypeOK
    <3>2. QED
        BY <3>1, ShortTimeouts
  <2>3. CASE UNCHANGED <<state[s], last[s], timeout[s], age[s], slack[s]>>
      BY <2>1, <2>3 DEF Late
  <2>4. CASE last'[s] = tick
    <3>1. Diff(now, last'[s]) <= 0
        BY <1>6, <1>7, <2>1, <2>4
    <3>2. Diff(now, last'[s]) \in Int
      <4>1. last'[s] \in Int /\ now \in Int
          BY <1>3, <2>4, Times DEF TypeOK, WdtTypeOK
      <4>2. (now - last'[s]) % Wrap \in Int
        <5>1. now - last'[s] \in Int /\ Wrap \in Nat \ {0}
            BY <4>1, Times
        <5>2. QED
            BY <5>1, DivisionFact
      <4>3. QED
          BY <4>2, Times DEF Diff
    <3>3. QED
        BY <2>1, <2>2, <3>1, <3>2 DEF Late
  <2>5. CASE state'[s] = "suspended"
      BY <2>5 DEF Late
  <2>6. QED
      BY <1>1, <2>3, <2>4, <2>5 DEF Touched
<1>8. ASSUME NEW s \in Slot
      PROVE  AgeInv(s)'
  <2>1. Grant(s)' \in Nat /\ Uncounted \in Nat
      BY <1>3, TimesInRange, RangesNext DEF InRange
  <2>2. CASE UNCHANGED <<state[s], last[s], timeout[s], age[s], slack[s]>>
      BY <1>1, <1>2, <1>3, <2>2 DEF AgeInv, RInv, Touched, Lag, Grant
  <2>3. CASE state'[s] = "active" /\ last'[s] = tick /\ age'[s] = 0
    <3>1. Lag(s)' = 0
        BY <1>1, <1>3, <2>3 DEF Lag, Touched
    <3>2. QED
        BY <1>2, <1>3, <1>4, <2>1, <2>3, <3>1, Times DEF AgeInv
  <2>4. CASE state'[s] = "suspended"
      BY <2>4 DEF AgeInv
  <2>5. QED
      BY <1>1, <2>2, <2>3, <2>4 DEF Touched
<1>9. QED
    BY <1>5, <1>7, <1>8 DEF RInv, PassedInv

LEMMA RefusalMonitor ==
    ASSUME TypeOK, RInv, Monitor
    PROVE  RInv'
<1>1. /\ UNCHANGED <<tick, count, state, last, timeout, age, slack>>
      /\ pc = "run" /\ Uncounted' = 0 /\ Uncounted \in Nat
      /\ at \in 0..(MaxSlots + 1) /\ count \in 0..MaxSlots
  <2>1. UNCHANGED <<tick, count, state, last, timeout, age, slack>>
      BY DEF Monitor, ReadNow, PassSlot, Refuse, Feed, slots
  <2>2. pc = "run" /\ pc' \in {"run", "checked"}
      BY DEF Monitor, idleVars, GoTo
  <2>3. QED
      BY <2>1, <2>2, TimesInRange DEF Uncounted, InSleep, TypeOK, WdtTypeOK, InRange
<1>2. CASE (Refuse \/ Feed) /\ GoTo("checked")
  <2>1. ~(at' <= MaxSlots) /\ pc' = "checked"
      BY <1>2, Times DEF Refuse, Feed, GoTo
  <2>2. QED
      BY <1>1, <2>1, QuietStep DEF InSleep
<1>3. CASE (ReadNow \/ PassSlot) /\ UNCHANGED idleVars
  <2>1. \A s \in Slot : AgeInv(s)'
      BY <1>1, <1>3 DEF RInv, AgeInv, Lag, Grant, Uncounted, idleVars
  <2>2. CASE ReadNow
    <3>1. at' = 0 /\ now' = tick /\ iwdg' = iwdg /\ (tick - tick) % Wrap = 0
        BY <2>2, Times, NearRemainder DEF ReadNow, dog, TypeOK, WdtTypeOK
    <3>2. ScanAge' = 0 /\ Down' \in Nat
        BY <1>1, <3>1, TimesInRange, Times DEF ScanAge, Down, InRange
    <3>3. ScanInv'
        BY <1>1, <1>3, <3>2 DEF ScanInv, idleVars
    <3>4. PassedInv'
        BY <3>1, Times DEF PassedInv, Slot
    <3>5. QED
        BY <2>1, <3>3, <3>4 DEF RInv
  <2>3. CASE PassSlot
    <3>1. at' = at + 1 /\ at < count /\ ~Late(now, at) /\ UNCHANGED <<now, iwdg, pc>>
        BY <1>3, <2>3 DEF PassSlot, dog, idleVars
    <3>2. at <= MaxSlots
        BY <1>1, <3>1, Times
    <3>3. ScanInv'
        BY <1>1, <3>1, <3>2 DEF RInv, ScanInv, ScanAge, Down
    <3>4. ASSUME NEW s \in Slot, s < at'
          PROVE  ~Late(now, s)'
      <4>1. s < at \/ s = at
          BY <1>1, <3>1, <3>4, Times DEF Slot
      <4>2. ~Late(now, s)
          BY <3>1, <3>2, <4>1 DEF RInv, PassedInv
      <4>3. QED
          BY <1>1, <3>1, <4>2 DEF Late
    <3>5. QED
        BY <2>1, <3>3, <3>4 DEF RInv, PassedInv
  <2>4. QED
      BY <1>3, <2>2, <2>3
<1>4. QED
    BY <1>2, <1>3 DEF Monitor

\* The loop's and the sleep's steps but for the compensation of the tick.
LEMMA RefusalSleep ==
    ASSUME IInv, IInv', RInv, 
           \/ \E ms \in Request : Idle(ms)
           \/ GoRound \/ WakeFromWfi \/ Interrupt
           \/ Sleep /\ ~Compensate
    PROVE  RInv'
<1> USE DEF IInv
<1>1. /\ UNCHANGED <<tick, state, last, timeout, age, slack, at>>
      /\ pc \notin {"run", "reset"}
      /\ pc = "stuck" => Interrupt
    BY DEF Idle, GoRound, WakeFromWfi, Interrupt, Sleep, StartOnce, SuspendTick, DisableIrq,
           EnterStop2, Wake, StopAndRead, RecoveryFails, ResumeTick, wdtVars, slots, scan, Masked
<1>2. ~(at' <= MaxSlots)
    BY <1>1 DEF RInv, ScanInv
<1>3. Uncounted \in Nat /\ Uncounted' \in Nat
    BY TimesInRange, RangesNext DEF InRange
<1>4. CASE pc = "stuck"
  <2>1. pc' = "stuck"
      BY <1>1, <1>4 DEF Interrupt
  <2>2. QED
      BY <1>1, <1>2, <2>1 DEF RInv, ScanInv, PassedInv, AgeInv
<1>5. CASE RecoveryFails
  <2>1. pc' = "stuck"
      BY <1>5 DEF RecoveryFails, GoTo
  <2>2. QED
      BY <1>2, <2>1 DEF RInv, ScanInv, PassedInv, AgeInv
<1>6. CASE SuspendTick
  <2>1. /\ pc = "armed" /\ pc' = "suspended" /\ Uncounted = counter /\ Uncounted' = counter
        /\ counter <= MaxArm
      BY <1>6 DEF SuspendTick, Uncounted, InSleep, TimerInv
  <2>2. ASSUME NEW s \in Slot
        PROVE  AgeInv(s)'
    <3>1. /\ AgeInv(s) /\ Lag(s)' = Lag(s) /\ Grant(s)' = Grant(s)
          /\ Lag(s) \in Nat /\ Grant(s) \in Nat /\ age[s] \in Nat /\ counter \in Nat
        BY <1>1, TimesInRange, Times DEF RInv, Lag, Grant, InRange
    <3>2. QED
        BY <1>1, <2>1, <3>1, Times DEF AgeInv, InSleep
  <2>3. QED
      BY <1>2, <2>2 DEF RInv, ScanInv, PassedInv
<1>7. CASE StopAndRead
  <2>1. pc = "awake" /\ pc' = "read" /\ elapsed' = counter
      BY <1>7 DEF StopAndRead, TimerInv
  <2>2. Uncounted' = Uncounted
      BY <2>1 DEF Uncounted, InSleep
  <2>3. QED
      BY <1>1, <1>2, <1>3, <2>1, <2>2, QuietStep DEF InSleep
<1>8. CASE /\ pc # "stuck"
           /\ \/ \E ms \in Request : Idle(ms)
              \/ GoRound \/ WakeFromWfi \/ Interrupt \/ ResumeTick
              \/ StartOnce \/ DisableIrq \/ EnterStop2 \/ Wake
  <2>1. /\ pc \in InSleep <=> pc' \in InSleep
        /\ Uncounted' = Uncounted \/ Uncounted' = 0
      BY <1>8 DEF Idle, GoRound, WakeFromWfi, Interrupt, ResumeTick, StartOnce, DisableIrq,
                  EnterStop2, Wake, GoTo, InSleep, Uncounted, Masked
  <2>2. QED
      BY <1>1, <1>2, <1>3, <1>8, <2>1, QuietStep
<1>9. QED
    BY <1>1, <1>4, <1>5, <1>6, <1>7, <1>8 DEF Sleep

LEMMA RefusalCompensate ==
    ASSUME IInv, IInv', RInv, Compensate
    PROVE  RInv'
<1> USE DEF IInv
<1>1. /\ UNCHANGED <<state, last, timeout, age, at>> /\ pc = "read" /\ pc' = "unmasked"
      /\ tick' = (tick + elapsed) % Wrap
    BY DEF Compensate, CountElapsed, GoTo, scan
<1>2. ~(at' <= MaxSlots)
    BY <1>1 DEF RInv, ScanInv
<1>3. ASSUME NEW s \in Slot
      PROVE  AgeInv(s)'
  <2>1. Lag(s)' <= Lag(s) + elapsed
    <3>1. /\ tick \in 0..(Wrap - 1) /\ last[s] \in 0..(Wrap - 1) /\ elapsed \in Nat
          /\ last'[s] = last[s]
        BY <1>1, TimesInRange DEF InRange
    <3>2. QED
        BY <1>1, <3>1, LagAdds DEF Lag
  <2>2. /\ AgeInv(s) /\ Lag(s) \in Nat /\ Lag(s)' \in Nat /\ Grant(s) \in Nat /\ Grant(s)' \in Nat
        /\ age[s] \in Nat /\ elapsed \in Nat /\ slack[s] \in 0..MaxSlack
      BY TimesInRange, RangesNext, Times DEF RInv, InRange
  <2>3. Uncounted = elapsed /\ Uncounted' = 0
      BY <1>1 DEF Uncounted, InSleep
  <2>4. CASE state[s] = "active" /\ slack'[s] < MaxSlack
    <3>1. slack'[s] = slack[s] + 1 /\ slack[s] < MaxSlack
        BY <2>2, <2>4, Times DEF Compensate, CountElapsed
    <3>2. Grant(s)' = Grant(s) + MaxArm
        BY <2>2, <3>1, Times, SMT DEF Grant
    <3>3. QED
        BY <1>1, <2>1, <2>2, <2>3, <2>4, <3>1, <3>2, Times DEF AgeInv, InSleep
  <2>5. CASE MaxArm = 0
    <3>1. Grant(s) = 0
        BY <2>2, <2>5, SMT DEF Grant
    <3>2. QED
        BY <1>1, <2>1, <2>2, <2>3, <2>5, <3>1, Times DEF AgeInv, InSleep
  <2>6. CASE ~(slack'[s] < MaxSlack) /\ MaxArm # 0
      BY <1>1, <2>1, <2>2, <2>3, <2>6, Times DEF AgeInv, InSleep
  <2>7. CASE state[s] # "active"
      BY <1>1, <2>7 DEF AgeInv
  <2>8. QED
      BY <2>4, <2>5, <2>6, <2>7
<1>4. QED
    BY <1>2, <1>3 DEF RInv, ScanInv, PassedInv

\* Time passes on the tick or on the low-power timer, and makes every slot older.
LEMMA RefusalMillisecond ==
    ASSUME IInv, IInv', RInv, Millisecond
    PROVE  RInv'
<1> USE DEF IInv
<1>1. InRange /\ InRange'
    BY TimesInRange, RangesNext
<1>2. /\ UNCHANGED <<count, state, last, timeout, slack, now, at, elapsed>>
      /\ age' = Older(age) /\ iwdg' = iwdg - 1
      /\ pc' \in {pc, "reset"} \/ (pc = "wfi" /\ pc' = "run")
      /\ pc \in InSleep => tick' = tick
      /\ pc \notin InSleep \cup {"stuck"} => tick' = (tick + 1) % Wrap
  <2>1. /\ UNCHANGED <<count, state, last, timeout, slack, now, at, elapsed>>
        /\ age' = Older(age) /\ iwdg' = iwdg - 1
        /\ pc' \in {pc, "reset"} \/ (pc = "wfi" /\ pc' = "run")
      BY DEF Millisecond, scan
  <2>2. pc \in InSleep => tick' = tick
      BY DEF Millisecond, Suspended, Masked, InSleep
  <2>3. pc \notin InSleep \cup {"stuck"} => tick' = (tick + 1) % Wrap
      BY DEF Millisecond, Suspended, Masked, InSleep, InTime
  <2>4. QED
      BY <2>1, <2>2, <2>3
<1>3. counter' <= counter + 1
  <2>1. counter' = counter \/ counter' = counter + 1
      BY DEF Millisecond, CountDown
  <2>2. QED
      BY <1>1, <2>1 DEF InRange
<1>4. ASSUME NEW s \in Slot
      PROVE  AgeInv(s)'
  <2>1. /\ AgeInv(s) /\ Lag(s) \in Nat /\ Lag(s)' \in Nat /\ Grant(s) \in Nat
        /\ Grant(s)' = Grant(s) /\ age[s] \in 0..MaxAge /\ counter \in Nat /\ elapsed \in Nat
        /\ last[s] \in 0..(Wrap - 1) /\ tick \in 0..(Wrap - 1)
      BY <1>1, <1>2 DEF RInv, InRange, Grant
  <2>2. SUFFICES ASSUME state[s] = "active", age'[s] < MaxAge, pc' \notin {"stuck", "reset"}
                 PROVE  AgeInv(s)'
      BY <1>2 DEF AgeInv
  <2>3. age'[s] = age[s] + 1 /\ age[s] < MaxAge
      BY <1>2, <2>1, <2>2, Times DEF Older
  <2>4. pc' = pc \/ (pc = "wfi" /\ pc' = "run")
      BY <1>2, <2>2
  <2>5. CASE pc \in InSleep
    <3>1. Lag(s)' = Lag(s) /\ pc' = pc
        BY <1>2, <2>4, <2>5 DEF Lag, InSleep
    <3>2. Uncounted' <= Uncounted + 1 /\ Uncounted \in Nat /\ Uncounted' \in Nat
        BY <1>1, <1>2, <1>3, <2>5, <3>1 DEF InRange, Uncounted
    <3>3. QED
        BY <1>2, <2>1, <2>2, <2>3, <2>5, <3>1, <3>2, Times DEF AgeInv, InSleep
  <2>6. CASE pc \notin InSleep
    <3>1. pc # "stuck" /\ pc' \notin InSleep /\ pc \notin {"stuck", "reset"}
        BY <2>2, <2>4, <2>6 DEF InSleep, Millisecond, InTime
    <3>2. Lag(s)' <= Lag(s) + 1
        BY <1>2, <2>1, <2>6, <3>1, LagAdds DEF Lag
    <3>3. QED
        BY <1>2, <2>1, <2>2, <2>3, <2>6, <3>1, <3>2, Times DEF AgeInv
  <2>7. QED
      BY <2>5, <2>6
<1>5. ScanInv'
  <2>1. SUFFICES ASSUME at <= MaxSlots
                 PROVE  pc' \in {"run", "reset"} /\ ScanAge' <= Down'
      BY <1>2 DEF ScanInv
  <2>2. pc = "run" /\ ScanAge <= Down
      BY <2>1 DEF RInv, ScanInv, Millisecond, InTime
  <2>3. ScanAge' <= ScanAge + 1
    <3>1. tick \in 0..(Wrap - 1) /\ now \in 0..(Wrap - 1) /\ 1 \in Nat
        BY <1>1 DEF InRange
    <3>2. tick' = (tick + 1) % Wrap /\ now' = now
        BY <1>2, <2>2 DEF InSleep
    <3>3. QED
        BY <3>1, <3>2, LagAdds DEF ScanAge
  <2>4. Down' = Down + 1
      BY <1>1, <1>2, Times DEF InRange, Down
  <2>5. QED
      BY <1>1, <1>2, <2>2, <2>3, <2>4 DEF InRange
<1>6. PassedInv'
    BY <1>2 DEF RInv, PassedInv, Late
<1>7. QED
    BY <1>4, <1>5, <1>6 DEF RInv

LEMMA RefusalBoot ==
    ASSUME Boot
    PROVE  RInv'
<1>1. at' = MaxSlots + 1 /\ \A s \in Slot : state'[s] # "active"
    BY DEF Boot
<1>2. QED
    BY <1>1, Times DEF RInv, ScanInv, PassedInv, AgeInv

LEMMA RefusalStep == IInv /\ IInv' /\ RInv /\ [Next]_vars => RInv'
<1> SUFFICES ASSUME IInv, IInv', RInv, [Next]_vars
             PROVE  RInv'
    OBVIOUS
<1>1. CASE UNCHANGED vars
    BY <1>1 DEF RInv, ScanInv, PassedInv, AgeInv, ScanAge, Down, Lag, Grant, Uncounted, Late,
                vars, wdtVars, idleVars, slots, scan, dog
<1>2. CASE Next
    BY <1>2, RefusalTasks, RefusalMonitor, RefusalSleep, RefusalCompensate, RefusalMillisecond,
       RefusalBoot DEF Next, Code, Sleep, IInv
<1>3. QED
    BY <1>1, <1>2

----------------------------------------------------------------------------
\* A slot that Monitor finds late is one.
LEMMA LateIsLate ==
    ASSUME TypeOK, RInv, NEW s \in Slot, at <= MaxSlots, Late(now, s),
           pc \notin {"stuck", "reset"}, pc \notin InSleep
    PROVE  age[s] + MaxArm * slack[s] > timeout[s]
<1>1. /\ InRange /\ AgeInv(s) /\ state[s] = "active"
      /\ Diff(now, last[s]) > timeout[s] /\ ScanAge <= Down
    BY TimesInRange DEF RInv, ScanInv, Late
<1>2. /\ timeout[s] \in Nat /\ 2 * (timeout[s] + 2 * Iwdg) < Wrap /\ timeout[s] <= MaxSlack
      /\ timeout[s] < MaxAge
  <2>1. timeout[s] \in Nat /\ 2 * (timeout[s] + 2 * Iwdg) < Wrap
      BY <1>1, ShortTimeouts DEF InRange
  <2>2. timeout[s] <= MaxSlack
      BY <1>1, <2>1, Times, WatchdogAssumption DEF InRange
  <2>3. timeout[s] < MaxAge
      BY <2>1, Times DEF MaxAge
  <2>4. QED
      BY <2>1, <2>2, <2>3
<1>3. /\ age[s] \in Nat /\ slack[s] \in 0..MaxSlack /\ Lag(s) \in Nat /\ Grant(s) \in Nat
      /\ Uncounted \in Nat /\ ScanAge \in Nat /\ Down \in 0..Iwdg
    BY <1>1, Times DEF InRange
<1>4. ASSUME age[s] + Grant(s) <= timeout[s]
      PROVE  Lag(s) <= timeout[s]
  <2>1. age[s] < MaxAge
      BY <1>2, <1>3, <1>4, Times
  <2>2. CASE slack[s] < MaxSlack \/ MaxArm = 0
      BY <1>1, <1>2, <1>3, <1>4, <2>1, <2>2, Times DEF AgeInv
  <2>3. CASE ~(slack[s] < MaxSlack) /\ MaxArm # 0
    <3>1. MaxSlack >= 1
      <4>1. PICK ms \in Timeout : ms \in Nat \ {0} /\ ms <= MaxSlack
          BY WatchdogAssumption
      <4>2. QED
          BY <4>1, Times
    <3>2. slack[s] = MaxSlack
        BY <1>3, <2>3, Times
    <3>3. Grant(s) >= MaxSlack /\ Grant(s) >= MaxArm
        BY <2>3, <3>1, <3>2, Times, SMT DEF Grant
    <3>4. age[s] = 0 /\ MaxArm <= timeout[s]
        BY <1>2, <1>3, <1>4, <3>3, Times
    <3>5. QED
        BY <1>1, <1>2, <1>3, <2>1, <3>4, Times DEF AgeInv
  <2>4. QED
      BY <2>2, <2>3
<1>5. ASSUME Lag(s) <= timeout[s]
      PROVE  FALSE
  <2>1. 2 * Lag(s) < Wrap /\ 2 * ScanAge < Wrap
      BY <1>1, <1>2, <1>3, <1>5, Times
  <2>2. tick \in 0..(Wrap - 1) /\ now \in 0..(Wrap - 1) /\ last[s] \in 0..(Wrap - 1)
      BY <1>1 DEF InRange
  <2>3. Diff(now, last[s]) = Lag(s) - ScanAge
      BY <2>1, <2>2, DiffOfLags DEF Lag, ScanAge
  <2>4. QED
      BY <1>1, <1>2, <1>3, <1>5, <2>3
<1>6. Grant(s) = MaxArm * slack[s]
    BY DEF Grant
<1>7. QED
    BY <1>2, <1>3, <1>4, <1>5, <1>6

\* Anbo_WDT_Monitor refuses to feed only for a task that has been silent for longer
\* than its timeout, and Anbo_WDT_FirstTimeout names that task, for every number of
\* tasks and all times, whatever check-ins, sleeps and wraps of the tick come in
\* between; each deep sleep since the check-in may count MaxArm milliseconds twice.
THEOREM RefusalsAreJust == IdleSpec => RefusalJust
<1> DEFINE QInv == IInv /\ RInv
<1>1. IdleInit => QInv
    BY InitInv, RefusalInit
<1>2. QInv /\ [Next]_vars => QInv'
    BY StepInv, RefusalStep
<1>3. QInv /\ [Next]_vars =>
         [Refuse => /\ age[at] + MaxArm * slack[at] > timeout[at]
                    /\ FirstTimeout(now) = at]_vars
  <2> SUFFICES ASSUME QInv, [Next]_vars, Refuse, vars' # vars
               PROVE  /\ age[at] + MaxArm * slack[at] > timeout[at]
                      /\ FirstTimeout(now) = at
      OBVIOUS
  <2>1. TypeOK /\ InRange /\ count \in 0..MaxSlots
      BY TimesInRange DEF IInv, TypeOK, WdtTypeOK
  <2>2. at \in Slot /\ at <= MaxSlots /\ Late(now, at) /\ Valid(at)
      BY <2>1, Times DEF Refuse, Slot, InRange, Valid
  <2>3. pc \in {"run", "reset"}
      BY <2>2 DEF RInv, ScanInv
  <2>4. pc = "run"
    <3>1. SUFFICES ASSUME pc = "reset"
                   PROVE  FALSE
        BY <2>3
    <3>2. Next /\ refused' = TRUE
        BY DEF Refuse
    <3>3. Boot
        BY <3>1, <3>2 DEF Next, Code, Tasks, TaskCheckin, Monitor, GoRound, Millisecond, Sleep,
              Idle, StartOnce, SuspendTick, DisableIrq, EnterStop2, Wake, StopAndRead,
              RecoveryFails, Compensate, ResumeTick, WakeFromWfi, Interrupt, Masked, InTime
    <3>4. QED
        BY <3>2, <3>3 DEF Boot
  <2>5. age[at] + MaxArm * slack[at] > timeout[at]
      BY <2>1, <2>2, <2>4, LateIsLate DEF InSleep
  <2>6. FirstTimeout(now) = at
    <3> DEFINE found == {s \in Slot : Valid(s) /\ Late(now, s)}
    <3>1. at \in found
        BY <2>2
    <3>2. \A s \in found : s \in Nat /\ at <= s
      <4>1. ASSUME NEW s \in found
            PROVE  s \in Nat /\ at <= s
        <5>1. s \in Slot /\ s \in Nat /\ at \in Nat /\ ~(s < at)
            BY <2>1, <2>2, Times DEF RInv, PassedInv, InRange
        <5>2. QED
            BY <5>1
      <4>2. QED
          BY <4>1
    <3>3. FirstTimeout(now) =
             IF found = {} THEN MaxSlots ELSE CHOOSE s \in found : \A r \in found : s <= r
        BY DEF FirstTimeout
    <3> HIDE DEF found
    <3>4. \A s \in found : (\A r \in found : s <= r) => s = at
        BY <3>1, <3>2
    <3>5. QED
        BY <3>1, <3>2, <3>3, <3>4
  <2>7. QED
      BY <2>5, <2>6
<1> HIDE DEF QInv
<1>4. QED
    BY <1>1, <1>2, <1>3, PTL DEF IdleSpec, RefusalJust

----------------------------------------------------------------------------
\* The sensor driver: the inductive invariant

\* The accesses of the three calls, and the ranges they select.
Registers ==
    {"IsReady", "WHO_AM_I", "CTRL3_C", "CTRL1_XL", "CTRL2_G", "FIFO_CTRL1", "FIFO_CTRL2",
     "FIFO_CTRL3", "FIFO_CTRL5", "INT1_CTRL", "TAP_CFG", "WAKE_UP_THS", "WAKE_UP_DUR",
     "MD1_CFG", "WAKE_UP_SRC"}
Steps ==
    {s \in [reg : Registers, val : Nat] : s.reg \in {"CTRL1_XL", "CTRL2_G"} => s.val \in Ranges}

\* The FIFO holds whole sets.
SetCount(f) == Len(f) \div W
Whole(f) ==
    /\ Len(f) = SetCount(f) * W
    /\ \A n \in 0..(SetCount(f) - 1), i \in 1..W :
          f[n * W + i].pos = i /\ f[n * W + i].set = f[n * W + 1].set

\* What the chip measures, has measured last and keeps in its FIFO has the
\* ranges sc.
Tuned(c, o, f, sc) ==
    /\ c.CTRL1_XL = sc.xl /\ c.CTRL2_G = sc.gy
    /\ o.xl \in {sc.xl, Off} /\ o.gy \in {sc.gy, Off}
    /\ \A i \in 1..Len(f) : f[i].range = IF f[i].pos <= W \div 2 THEN sc.gy ELSE sc.xl

\* Between its reset and the start of the second sensor the chip measures nothing.
Blank == chip.CTRL2_G = Off /\ out = [xl |-> Off, gy |-> Off] /\ fifo = <<>>

\* The accesses of BSP_IMU_Init that have been made.
Made == Len(InitSteps(setup)) - Len(todo)

InitGoesOn ==
    /\ Made >= 0
    /\ \A i \in 1..Len(todo) : todo[i] = InitSteps(setup)[Made + i]
    /\ Made \in 3..6 => Blank
    /\ Made = 6 => chip.CTRL1_XL = setup.xl
    /\ Made >= 7 => scale = [xl |-> setup.xl, gy |-> setup.gy] /\ Tuned(chip, out, fifo, scale)

Calling == op \in {"init", "down", "wake"}

\* The chip.
ChipTyped ==
    /\ DOMAIN chip = DOMAIN ResetRegs
    /\ chip.CTRL1_XL \in Ranges /\ chip.CTRL2_G \in Ranges
    /\ out \in [xl : Ranges, gy : Ranges]
    /\ next \in 0..(Ids - 1)
    /\ latched \in BOOLEAN
FifoInv == fifo \in Seq(Word) /\ Len(fifo) <= Depth /\ Whole(fifo)

\* The driver and the application.
CallTyped ==
    /\ exti \in BOOLEAN /\ pending \in BOOLEAN /\ notified \in BOOLEAN
    /\ bus \in {"sound", "faulty"} /\ mode \in {"off", "run", "wake"}
    /\ op \in {"none", "init", "down", "wake", "level", "burst"}
    /\ setup \in Setups
    /\ todo \in Seq(Steps) /\ (todo # <<>> <=> Calling) /\ (Calling => mode = "off")
    /\ max \in MaxSets /\ avail \in 0..max /\ got \in 0..avail

\* While the application may read, and from the second range on that Init selects,
\* the ranges are those the driver has kept.
TuneInv ==
    /\ op = "init" => InitGoesOn
    /\ mode = "run" => Tuned(chip, out, fifo, scale)
    /\ op \in {"level", "burst"} => mode = "run"

\* What a read has counted is still there.
ReadInv ==
    /\ op # "burst" => avail = 0 /\ got = 0
    /\ op = "burst" => got < avail /\ avail - got <= SetCount(fifo)

\* What ReadingsTrue says of the reading.
Handed ==
    \A i \in 1..Len(reading) :
        /\ reading[i].word.pos = i
        /\ reading[i].word.set = reading[1].word.set
        /\ reading[i].word.range \in {reading[i].used, Off}

ImuInv == ChipTyped /\ FifoInv /\ CallTyped /\ TuneInv /\ ReadInv /\ Handed

----------------------------------------------------------------------------
\* Constants and sets of words

LEMMA SensorSizes ==
    /\ W \in Nat \ {0} /\ W \div 2 \in Nat
    /\ Depth \in Nat /\ W <= Depth /\ Ids \in Nat \ {0}
    /\ Ranges \subseteq Nat /\ {Off, WakeRange} \subseteq Ranges
    /\ \A s \in Setups : s.xl \in Ranges \ {Off} /\ s.gy \in Ranges \ {Off}
<1>1. /\ W \in Nat \ {0} /\ Depth \in Nat /\ W <= Depth
      /\ WakeRange \in Nat /\ Setups \subseteq [xl : Nat \ {0}, gy : Nat \ {0}, wtm : Nat]
    BY ImuAssumption
<1>2. Depth \div W \in Int /\ Depth % W \in 0..(W - 1) /\ Depth = W * (Depth \div W) + (Depth % W)
    BY <1>1, DivisionFact
<1>3. Depth \div W \in Nat
    BY <1>1, <1>2
<1>4. W \div 2 \in Nat
  <2>1. W \div 2 \in Int /\ W = 2 * (W \div 2) + (W % 2) /\ W % 2 \in 0..1
      BY <1>1, DivisionFact
  <2>2. QED
      BY <1>1, <2>1
<1>5. \A s \in Setups : s.xl \in Nat \ {0} /\ s.gy \in Nat \ {0}
    BY <1>1
<1>6. QED
    BY <1>1, <1>3, <1>4, <1>5 DEF Ids, Ranges, Off

\* The number of sets is the quotient.
LEMMA CountIs ==
    ASSUME NEW f, NEW k \in Nat, Len(f) = k * W
    PROVE  SetCount(f) = k
<1>1. W \in Nat \ {0}
    BY SensorSizes
<1>2. k * W \in Int
    BY <1>1
<1> DEFINE a == k * W
<1>3. a % W \in 0..(W - 1) /\ a \div W \in Int /\ a = W * (a \div W) + (a % W)
  <2> HIDE DEF a
  <2>1. QED
      BY <1>1, <1>2, DivisionFact DEF a
<1>4. W * k + 0 = W * (a \div W) + (a % W) /\ 0 \in 0..(W - 1)
    BY <1>1, <1>3
<1>5. a % W = 0
    BY <1>1, <1>3, <1>4, RemainderUnique
<1>6. W * (k - (a \div W)) = 0
    BY <1>1, <1>3, <1>4, <1>5
<1>7. k = a \div W
    BY <1>1, <1>3, <1>6
<1>8. QED
    BY <1>7 DEF SetCount

LEMMA CountIsNat ==
    ASSUME NEW f \in Seq(Word), Whole(f)
    PROVE  SetCount(f) \in Nat
<1>1. W \in Nat \ {0} /\ Len(f) \in Nat
    BY SensorSizes
<1>2. Len(f) \div W \in Int /\ Len(f) % W \in 0..(W - 1)
      /\ Len(f) = W * (Len(f) \div W) + (Len(f) % W)
    BY <1>1, DivisionFact
<1>3. QED
    BY <1>1, <1>2 DEF SetCount

\* WordPlaces in a sequence of whole sets.
LEMMA WordPlaces ==
    ASSUME NEW k \in Nat, NEW n \in 0..(k - 1), NEW i \in 1..W
    PROVE  /\ n * W + i \in 1..(k * W)
           /\ (n + 1) * W = n * W + W /\ n * W \in Nat
<1>1. W \in Nat \ {0}
    BY SensorSizes
<1>2. (n + 1) * W = n * W + W /\ n * W \in Nat
    BY <1>1
<1>3. (n + 1) * W <= k * W
    BY <1>1
<1>4. QED
    BY <1>1, <1>2, <1>3

\* Whole sets without the oldest one, or as they were, are whole sets.
LEMMA SetsPopped ==
    ASSUME NEW f \in Seq(Word), Whole(f), NEW n \in {0, W}
    PROVE  LET g == SubSeq(f, n + 1, Len(f))
           IN  /\ g \in Seq(Word) /\ Whole(g)
               /\ n <= Len(f) => Len(g) = Len(f) - n
               /\ n > Len(f) => g = <<>>
               /\ SetCount(g) >= SetCount(f) - (IF n = 0 THEN 0 ELSE 1)
               /\ \A i \in 1..Len(g) : n + i \in 1..Len(f) /\ g[i] = f[n + i]
<1> DEFINE g == SubSeq(f, n + 1, Len(f))
           k == SetCount(f)
<1>0. W \in Nat \ {0} /\ k \in Nat
    BY SensorSizes, CountIsNat
<1>w. /\ Len(f) = k * W
      /\ \A m \in 0..(k - 1), i \in 1..W :
            f[m * W + i].pos = i /\ f[m * W + i].set = f[m * W + 1].set
    BY DEF Whole
<1>k. k = SetCount(f)
    OBVIOUS
<1> HIDE DEF k
<1>1. W \in Nat \ {0} /\ k \in Nat /\ Len(f) = k * W /\ Len(f) \in Nat /\ n \in Nat
    BY <1>0, <1>w
<1>2. \A i \in (n + 1)..Len(f) : f[i] \in Word
    BY <1>1
<1>3. /\ g \in Seq(Word)
      /\ Len(g) = IF n + 1 <= Len(f) THEN Len(f) - (n + 1) + 1 ELSE 0
      /\ \A i \in 1..(Len(f) - (n + 1) + 1) : g[i] = f[n + 1 + i - 1]
    BY <1>1, <1>2, SubSeqProperties
<1>g. n = 0 => g = f
    BY <1>1, SubSeqFull
<1> HIDE DEF g
<1>4. \A i \in 1..Len(g) : n + i \in 1..Len(f) /\ g[i] = f[n + i]
    BY <1>1, <1>3
<1>5. CASE n = 0
  <2>1. g = f
      BY <1>5, <1>g
  <2>2. Whole(g) /\ SetCount(g) = SetCount(f)
      BY <2>1
  <2>3. QED
      BY <1>1, <1>3, <1>4, <1>5, <1>k, <2>1, <2>2 DEF g
<1>6. CASE n = W /\ k = 0
  <2>1. Len(f) = 0 /\ n > Len(f) /\ Len(g) = 0
      BY <1>1, <1>3, <1>6
  <2>2. g = <<>>
      BY <1>3, <2>1
  <2>3. SetCount(g) = 0
    <3>1. Len(g) = 0 * W /\ 0 \in Nat
        BY <1>1, <2>1
    <3>2. QED
        BY <3>1, CountIs
  <2>4. Whole(g)
      BY <1>1, <2>1, <2>3 DEF Whole
  <2>5. QED
      BY <1>1, <1>3, <1>4, <1>6, <1>k, <2>1, <2>2, <2>3, <2>4 DEF g
<1>7. CASE n = W /\ k # 0
  <2>1. k - 1 \in Nat /\ k * W = (k - 1) * W + W /\ (k - 1) * W \in Nat
      BY <1>1, <1>7
  <2>2. W <= Len(f) /\ Len(g) = (k - 1) * W
      BY <1>1, <1>3, <1>7, <2>1
  <2>3. SetCount(g) = k - 1
      BY <2>1, <2>2, CountIs
  <2>4. ASSUME NEW m \in 0..(k - 1 - 1), NEW i \in 1..W
        PROVE  g[m * W + i].pos = i /\ g[m * W + i].set = g[m * W + 1].set
    <3>1. /\ m * W + i \in 1..((k - 1) * W) /\ m * W + 1 \in 1..((k - 1) * W)
          /\ (m + 1) * W = m * W + W /\ m * W \in Nat
        BY <1>1, <2>1, WordPlaces
    <3>2. /\ g[m * W + i] = f[(m + 1) * W + i]
          /\ g[m * W + 1] = f[(m + 1) * W + 1]
      <4>1. g[m * W + i] = f[n + (m * W + i)] /\ g[m * W + 1] = f[n + (m * W + 1)]
          BY <1>4, <2>2, <3>1
      <4>2. n + (m * W + i) = (m + 1) * W + i /\ n + (m * W + 1) = (m + 1) * W + 1
          BY <1>1, <1>7, <3>1
      <4>3. QED
          BY <4>1, <4>2
    <3>3. m + 1 \in 0..(k - 1)
        BY <2>1
    <3>4. f[(m + 1) * W + i].pos = i /\ f[(m + 1) * W + i].set = f[(m + 1) * W + 1].set
        BY <3>3, <1>w
    <3>5. QED
        BY <3>2, <3>4
  <2>5. Whole(g)
      BY <2>2, <2>3, <2>4 DEF Whole
  <2>6. n # 0 /\ n <= Len(f) /\ Len(g) = Len(f) - n /\ SetCount(g) = SetCount(f) - 1
    <3>1. n = W /\ n # 0 /\ n <= Len(f)
        BY <1>1, <1>7, <2>2
    <3>2. Len(g) = Len(f) - W
        BY <1>1, <2>1, <2>2
    <3>3. SetCount(g) = SetCount(f) - 1
        BY <1>k, <2>3
    <3>4. QED
        BY <3>1, <3>2, <3>3
  <2>7. ~(n > Len(f))
      BY <1>1, <2>6
  <2>8. SetCount(g) >= SetCount(f) - (IF n = 0 THEN 0 ELSE 1)
      BY <1>1, <1>k, <2>6
  <2>9. g \in Seq(Word)
      BY <1>3
  <2>10. QED
      BY <1>4, <2>5, <2>6, <2>7, <2>8, <2>9 DEF g
<1>8. QED
    BY <1>5, <1>6, <1>7

\* Another set may be added to them.
LEMMA SetsPushed ==
    ASSUME NEW f \in Seq(Word), Whole(f), NEW s \in Seq(Word), Len(s) = W,
           \A i \in 1..W : s[i].pos = i /\ s[i].set = s[1].set
    PROVE  /\ f \o s \in Seq(Word) /\ Whole(f \o s) /\ Len(f \o s) = Len(f) + W
           /\ SetCount(f \o s) = SetCount(f) + 1
           /\ \A i \in 1..Len(f \o s) : (f \o s)[i] = IF i <= Len(f) THEN f[i] ELSE s[i - Len(f)]
<1> DEFINE g == f \o s
           k == SetCount(f)
<1>0. W \in Nat \ {0} /\ k \in Nat
    BY SensorSizes, CountIsNat
<1>w. /\ Len(f) = k * W
      /\ \A m \in 0..(k - 1), i \in 1..W :
            f[m * W + i].pos = i /\ f[m * W + i].set = f[m * W + 1].set
    BY DEF Whole
<1>k. k = SetCount(f)
    OBVIOUS
<1> HIDE DEF k
<1>1. W \in Nat \ {0} /\ k \in Nat /\ Len(f) = k * W /\ Len(f) \in Nat
    BY <1>0, <1>w
<1>c. /\ g \in Seq(Word) /\ Len(g) = Len(f) + Len(s)
      /\ \A i \in 1..(Len(f) + Len(s)) : g[i] = IF i <= Len(f) THEN f[i] ELSE s[i - Len(f)]
    BY ConcatProperties
<1> HIDE DEF g
<1>2. /\ g \in Seq(Word) /\ Len(g) = Len(f) + W
      /\ \A i \in 1..Len(g) : g[i] = IF i <= Len(f) THEN f[i] ELSE s[i - Len(f)]
    BY <1>c
<1>3. k + 1 \in Nat /\ (k + 1) * W = k * W + W
    BY <1>1
<1>4. Len(g) = (k + 1) * W
    BY <1>1, <1>2, <1>3
<1>5. SetCount(g) = k + 1
    BY <1>3, <1>4, CountIs
<1>6. ASSUME NEW n \in 0..k, NEW i \in 1..W
      PROVE  g[n * W + i].pos = i /\ g[n * W + i].set = g[n * W + 1].set
  <2>1. CASE n = k
    <3>1. n * W + i = Len(f) + i /\ n * W + 1 = Len(f) + 1
        BY <1>1, <2>1
    <3>2. g[n * W + i] = s[i] /\ g[n * W + 1] = s[1]
      <4>1. /\ Len(f) + i \in 1..Len(g) /\ ~(Len(f) + i <= Len(f)) /\ (Len(f) + i) - Len(f) = i
            /\ Len(f) + 1 \in 1..Len(g) /\ ~(Len(f) + 1 <= Len(f)) /\ (Len(f) + 1) - Len(f) = 1
          BY <1>1, <1>2
      <4>2. QED
          BY <1>2, <3>1, <4>1
    <3>3. QED
        BY <3>2
  <2>2. CASE n # k
    <3>1. n \in 0..(k - 1)
        BY <1>1, <2>2
    <3>2. 1 \in 1..W
        BY <1>1
    <3>3. n * W + i \in 1..Len(f) /\ n * W + 1 \in 1..Len(f)
        BY <1>1, <3>1, <3>2, WordPlaces
    <3>4. g[n * W + i] = f[n * W + i] /\ g[n * W + 1] = f[n * W + 1]
        BY <1>1, <1>2, <3>3
    <3>5. f[n * W + i].pos = i /\ f[n * W + i].set = f[n * W + 1].set
        BY <3>1, <1>w
    <3>6. QED
        BY <3>4, <3>5
  <2>3. QED
      BY <2>1, <2>2
<1>7. Whole(g)
  <2>1. (k + 1) - 1 = k
      BY <1>1
  <2>2. QED
      BY <1>4, <1>5, <1>6, <2>1 DEF Whole
<1>8. QED
    BY <1>2, <1>5, <1>7, <1>k DEF g

----------------------------------------------------------------------------
\* The accesses of the calls

LEMMA StepTyped ==
    ASSUME NEW r \in Registers, NEW v \in Nat, r \in {"CTRL1_XL", "CTRL2_G"} => v \in Ranges
    PROVE  Set(r, v) \in Steps
<1>1. Set(r, v) \in [reg : Registers, val : Nat] /\ Set(r, v).reg = r /\ Set(r, v).val = v
    BY DEF Set
<1>2. QED
    BY <1>1 DEF Steps

LEMMA ReadTyped ==
    ASSUME NEW r \in Registers
    PROVE  Get(r) \in Steps
<1>1. Get(r) = Set(r, Off) /\ Off \in Ranges /\ Off \in Nat
    BY SensorSizes DEF Get, Set
<1>2. QED
    BY <1>1, StepTyped

\* The fields of the watermark register fit.
LEMMA FieldsTyped ==
    ASSUME NEW n \in Nat
    PROVE  n % LowMod \in Nat /\ (n \div LowMod) % HighMod \in Nat
<1>1. LowMod \in Nat \ {0} /\ HighMod \in Nat \ {0}
    BY ImuAssumption
<1>2. n % LowMod \in Nat /\ n \div LowMod \in Int
    BY <1>1, DivisionFact
<1>3. QED
    BY <1>1, <1>2, DivisionFact

LEMMA InitAccesses ==
    ASSUME NEW s \in Setups
    PROVE  /\ InitSteps(s) \in Seq(Steps) /\ Len(InitSteps(s)) \in Nat /\ Len(InitSteps(s)) >= 7
           /\ InitSteps(s)[3] = Set("CTRL3_C", SwReset)
           /\ \A i \in {4, 5} : /\ InitSteps(s)[i].reg \notin {"CTRL1_XL", "CTRL2_G"}
                                /\ InitSteps(s)[i].val # SwReset
           /\ InitSteps(s)[6] = Set("CTRL1_XL", s.xl)
           /\ InitSteps(s)[7] = Set("CTRL2_G", s.gy)
           /\ \A i \in 8..Len(InitSteps(s)) :
                 InitSteps(s)[i].reg \notin {"CTRL3_C", "CTRL1_XL", "CTRL2_G"}
<1> DEFINE a == <<Get("IsReady"), Get("WHO_AM_I"), Set("CTRL3_C", SwReset), Get("CTRL3_C"),
                  Set("CTRL3_C", On), Set("CTRL1_XL", s.xl), Set("CTRL2_G", s.gy)>>
           b == IF s.wtm > 0 THEN FifoSteps(s.wtm) ELSE <<>>
<1>1. s.xl \in Ranges /\ s.gy \in Ranges /\ s.xl \in Nat /\ s.gy \in Nat
    BY SensorSizes
<1>2. /\ a \in Seq(Steps) /\ Len(a) = 7
      /\ a[3] = Set("CTRL3_C", SwReset) /\ a[4] = Get("CTRL3_C") /\ a[5] = Set("CTRL3_C", On)
      /\ a[6] = Set("CTRL1_XL", s.xl) /\ a[7] = Set("CTRL2_G", s.gy)
  <2>1. Get("IsReady") \in Steps /\ Get("WHO_AM_I") \in Steps /\ Get("CTRL3_C") \in Steps
      BY ReadTyped DEF Registers
  <2>2. Set("CTRL3_C", SwReset) \in Steps /\ Set("CTRL3_C", On) \in Steps
      BY StepTyped DEF SwReset, On, Registers
  <2>3. Set("CTRL1_XL", s.xl) \in Steps /\ Set("CTRL2_G", s.gy) \in Steps
      BY <1>1, StepTyped DEF Registers
  <2>4. QED
      BY <2>1, <2>2, <2>3
<1>3. b \in Seq(Steps) /\ \A i \in 1..Len(b) : b[i].reg \notin {"CTRL3_C", "CTRL1_XL", "CTRL2_G"}
  <2>1. CASE ~(s.wtm > 0)
      BY <2>1
  <2>2. CASE s.wtm > 0
    <3>1. /\ LowMod \in Nat \ {0} /\ HighMod \in Nat \ {0} /\ WtmCap \in Nat /\ W \in Nat
          /\ s.wtm \in Nat
        BY ImuAssumption
    <3>2. WtmWords(s.wtm) \in Nat
        BY <3>1 DEF WtmWords
    <3>3. /\ WtmWords(s.wtm) % LowMod \in Nat
          /\ (WtmWords(s.wtm) \div LowMod) % HighMod \in Nat
        BY <3>2, FieldsTyped
    <3>4. {"FIFO_CTRL1", "FIFO_CTRL2", "FIFO_CTRL3", "FIFO_CTRL5", "INT1_CTRL"}
              \subseteq Registers \ {"CTRL1_XL", "CTRL2_G"}
        BY DEF Registers
    <3>5. 1 \in Nat
        OBVIOUS
    <3>6. /\ Set("FIFO_CTRL1", WtmWords(s.wtm) % LowMod) \in Steps
          /\ Set("FIFO_CTRL2", (WtmWords(s.wtm) \div LowMod) % HighMod) \in Steps
          /\ Set("FIFO_CTRL3", On) \in Steps /\ Set("FIFO_CTRL5", On) \in Steps
          /\ Set("INT1_CTRL", On) \in Steps
        BY <3>3, <3>4, <3>5, StepTyped DEF On
    <3>7. b = FifoSteps(s.wtm)
        BY <2>2
    <3>8. QED
        BY <3>6, <3>7 DEF FifoSteps, Set
  <2>3. QED
      BY <2>1, <2>2
<1>4. InitSteps(s) = a \o b
    BY DEF InitSteps
<1> HIDE DEF a, b
<1>5. /\ a \o b \in Seq(Steps) /\ Len(a \o b) = Len(a) + Len(b) /\ Len(b) \in Nat
      /\ \A i \in 1..(Len(a) + Len(b)) : (a \o b)[i] = IF i <= Len(a) THEN a[i] ELSE b[i - Len(a)]
  <2>1. a \in Seq(Steps) /\ b \in Seq(Steps) /\ Len(b) \in Nat
      BY <1>2, <1>3
  <2>2. QED
      BY <2>1, ConcatProperties
<1>6. \A i \in 3..7 : (a \o b)[i] = a[i]
    BY <1>2, <1>5
<1>7. \A i \in 8..Len(a \o b) : i - 7 \in 1..Len(b) /\ (a \o b)[i] = b[i - 7]
    BY <1>2, <1>5
<1>8. \A i \in {4, 5} : a[i].reg \notin {"CTRL1_XL", "CTRL2_G"} /\ a[i].val # SwReset
    BY <1>2 DEF Get, Set, Off, On, SwReset
<1>9. \A i \in 8..Len(a \o b) : (a \o b)[i].reg \notin {"CTRL3_C", "CTRL1_XL", "CTRL2_G"}
    BY <1>3, <1>7
<1>10. QED
    BY <1>2, <1>4, <1>5, <1>6, <1>8, <1>9

LEMMA OtherAccesses ==
    /\ DownSteps \in Seq(Steps) /\ DownSteps # <<>>
    /\ WakeSteps \in Seq(Steps) /\ WakeSteps # <<>>
<1>1. WakeRange \in Ranges /\ Off \in Ranges /\ Ranges \subseteq Nat
    BY SensorSizes
<1>2. Off \in Nat /\ On \in Nat /\ WakeRange \in Nat
    BY <1>1 DEF On
<1>3. \A r \in Registers : Set(r, Off) \in Steps
    BY <1>1, <1>2, StepTyped
<1>4. \A r \in Registers \ {"CTRL1_XL", "CTRL2_G"} : Set(r, On) \in Steps
    BY <1>2, StepTyped
<1>5. DownSteps \in Seq(Steps) /\ DownSteps # <<>>
  <2>1. /\ Set("INT1_CTRL", Off) \in Steps /\ Set("FIFO_CTRL5", Off) \in Steps
        /\ Set("CTRL1_XL", Off) \in Steps /\ Set("CTRL2_G", Off) \in Steps
      BY <1>3 DEF Registers
  <2>2. QED
      BY <2>1 DEF DownSteps
<1>6. WakeSteps \in Seq(Steps) /\ WakeSteps # <<>>
  <2>1. /\ Set("INT1_CTRL", Off) \in Steps /\ Set("FIFO_CTRL5", Off) \in Steps
        /\ Set("CTRL2_G", Off) \in Steps
      BY <1>3 DEF Registers
  <2>2. Set("CTRL1_XL", WakeRange) \in Steps
      BY <1>1, <1>2, StepTyped DEF Registers
  <2>3. /\ Set("TAP_CFG", On) \in Steps /\ Set("WAKE_UP_THS", On) \in Steps
        /\ Set("WAKE_UP_DUR", On) \in Steps /\ Set("MD1_CFG", On) \in Steps
      BY <1>4 DEF Registers
  <2>4. Get("WAKE_UP_SRC") \in Steps
      BY ReadTyped DEF Registers
  <2>5. QED
      BY <2>1, <2>2, <2>3, <2>4 DEF WakeSteps
<1>7. QED
    BY <1>5, <1>6

\* What an access does to the chip.
LEMMA EffectFacts ==
    ASSUME ChipTyped, NEW step \in Steps, Effect(step)
    PROVE  /\ ChipTyped'
           /\ fifo' \in {fifo, <<>>}
           /\ step.reg = "CTRL3_C" /\ step.val = SwReset => Blank'
           /\ ~(step.reg = "CTRL3_C" /\ step.val = SwReset) =>
                 /\ out' = out
                 /\ chip'.CTRL1_XL = IF step.reg = "CTRL1_XL" THEN step.val ELSE chip.CTRL1_XL
                 /\ chip'.CTRL2_G = IF step.reg = "CTRL2_G" THEN step.val ELSE chip.CTRL2_G
<1> DEFINE reset == step.reg = "CTRL3_C" /\ step.val = SwReset
<1>1. /\ chip' = IF reset THEN ResetRegs
                 ELSE IF step.reg \in DOMAIN chip THEN [chip EXCEPT ![step.reg] = step.val]
                 ELSE chip
      /\ fifo' \in {fifo, <<>>} /\ (reset => fifo' = <<>>)
      /\ out' = IF reset THEN [xl |-> Off, gy |-> Off] ELSE out
      /\ next' = next
    BY DEF Effect
<1>2. latched' \in BOOLEAN
    BY DEF Effect
<1>3. DOMAIN chip = DOMAIN ResetRegs /\ {"CTRL1_XL", "CTRL2_G"} \subseteq DOMAIN ResetRegs
    BY DEF ChipTyped, ResetRegs
<1>4. ResetRegs.CTRL1_XL = Off /\ ResetRegs.CTRL2_G = Off
    BY DEF ResetRegs
<1>5. Off \in Ranges /\ out \in [xl : Ranges, gy : Ranges]
    BY SensorSizes DEF ChipTyped
<1>6. CASE reset
  <2>1. chip' = ResetRegs /\ fifo' = <<>> /\ out' = [xl |-> Off, gy |-> Off]
      BY <1>1, <1>6
  <2>2. QED
      BY <1>1, <1>2, <1>3, <1>4, <1>5, <1>6, <2>1 DEF ChipTyped, Blank
<1>7. CASE ~reset
  <2>1. DOMAIN chip' = DOMAIN chip
      BY <1>1, <1>7
  <2>2. /\ chip'["CTRL1_XL"] = IF step.reg = "CTRL1_XL" THEN step.val ELSE chip["CTRL1_XL"]
        /\ chip'["CTRL2_G"] = IF step.reg = "CTRL2_G" THEN step.val ELSE chip["CTRL2_G"]
      BY <1>1, <1>3, <1>7
  <2>3. step.reg \in {"CTRL1_XL", "CTRL2_G"} => step.val \in Ranges
      BY DEF Steps
  <2>4. ChipTyped'
      BY <1>1, <1>2, <1>3, <1>5, <1>7, <2>1, <2>2, <2>3 DEF ChipTyped
  <2>5. QED
      BY <1>1, <1>2, <1>3, <1>5, <1>7, <2>1, <2>2, <2>4
<1>8. QED
    BY <1>6, <1>7

LEMMA EmptyIsWhole == <<>> \in Seq(Word) /\ Whole(<<>>) /\ SetCount(<<>>) = 0
<1>1. W \in Nat \ {0} /\ Len(<<>>) = 0 * W /\ 0 \in Nat
    BY SensorSizes
<1>2. SetCount(<<>>) = 0
    BY <1>1, CountIs
<1>3. QED
    BY <1>1, <1>2 DEF Whole

\* An access to other registers leaves the ranges alone.
LEMMA TuneKept ==
    ASSUME ChipTyped, NEW step \in Steps, Effect(step), NEW sc, Tuned(chip, out, fifo, sc),
           step.reg \notin {"CTRL3_C", "CTRL1_XL", "CTRL2_G"}
    PROVE  Tuned(chip', out', fifo', sc)
<1>1. /\ fifo' \in {fifo, <<>>} /\ out' = out
      /\ chip'.CTRL1_XL = chip.CTRL1_XL /\ chip'.CTRL2_G = chip.CTRL2_G
    BY EffectFacts
<1>2. \A i \in 1..Len(fifo') :
          fifo'[i].range = IF fifo'[i].pos <= W \div 2 THEN sc.gy ELSE sc.xl
    BY <1>1 DEF Tuned
<1>3. QED
    BY <1>1, <1>2 DEF Tuned

----------------------------------------------------------------------------
\* The invariant

LEMMA InvImplies == ImuInv => ReadingsTrue
<1>1. SUFFICES ASSUME ImuInv PROVE ImuTypeOK /\ Handed
    BY DEF ReadingsTrue, Handed
<1>2. \A i \in 1..Len(fifo) : fifo[i] \in Word
    BY <1>1 DEF ImuInv, FifoInv
<1>3. (todo # <<>>) = (op \in {"init", "down", "wake"})
    BY <1>1 DEF ImuInv, CallTyped, Calling
<1>4. QED
    BY <1>1, <1>2, <1>3 DEF ImuInv, ChipTyped, FifoInv, CallTyped, ImuTypeOK

LEMMA NothingHanded == reading' = <<>> => Handed'
BY DEF Handed

LEMMA EdgeTyped == CallTyped /\ Edge => pending' \in BOOLEAN
BY DEF CallTyped, Edge

LEMMA ImuInitInv == ImuPowerOn => ImuInv
<1>1. SUFFICES ASSUME ImuPowerOn PROVE ImuInv
    OBVIOUS
<1>2. ChipTyped
  <2>1. chip = ResetRegs /\ out = [xl |-> Off, gy |-> Off] /\ next = 0 /\ latched = FALSE
      BY <1>1 DEF ImuPowerOn
  <2>2. ResetRegs.CTRL1_XL = Off /\ ResetRegs.CTRL2_G = Off
      BY DEF ResetRegs
  <2>3. Off \in Ranges /\ 0 \in 0..(Ids - 1)
      BY SensorSizes
  <2>4. out \in [xl : Ranges, gy : Ranges]
      BY <2>1, <2>3
  <2>5. QED
      BY <2>1, <2>2, <2>3, <2>4 DEF ChipTyped
<1>3. FifoInv
    BY <1>1, EmptyIsWhole, SensorSizes DEF ImuPowerOn, FifoInv, Ids
<1>4. CallTyped /\ ReadInv
  <2>1. MaxSets \subseteq Nat
      BY ImuAssumption
  <2>2. max \in MaxSets /\ avail = 0 /\ got = 0 /\ op = "none" /\ todo = <<>>
      BY <1>1 DEF ImuPowerOn
  <2>3. avail \in 0..max /\ got \in 0..avail /\ todo \in Seq(Steps)
      BY <2>1, <2>2
  <2>4. /\ exti = FALSE /\ pending = FALSE /\ notified = FALSE /\ mode = "off"
        /\ bus \in {"sound", "faulty"} /\ setup \in Setups
      BY <1>1 DEF ImuPowerOn
  <2>5. QED
      BY <2>2, <2>3, <2>4 DEF CallTyped, Calling, ReadInv
<1>5. TuneInv /\ Handed
    BY <1>1 DEF ImuPowerOn, TuneInv, Handed
<1>6. QED
    BY <1>2, <1>3, <1>4, <1>5 DEF ImuInv

\* A FIFO that is full loses its oldest set, which it does of itself when it holds a
\* whole number of sets.
WholeLoss == WholeSets \/ Depth % W = 0

LEMMA LostIsWhole ==
    ASSUME ImuInv, WholeLoss
    PROVE  Lost \in {0, W} /\ (Lost = 0 => Len(fifo) + W <= Depth)
<1>1. W \in Nat \ {0} /\ Depth \in Nat /\ W <= Depth
    BY SensorSizes
<1>2. fifo \in Seq(Word) /\ Len(fifo) \in Nat /\ Whole(fifo) /\ Len(fifo) <= Depth
    BY DEF ImuInv, FifoInv
<1>3. CASE Len(fifo) + W <= Depth
    BY <1>3 DEF Lost
<1>4. CASE ~(Len(fifo) + W <= Depth) /\ WholeSets
    BY <1>1, <1>4 DEF Lost
<1>5. CASE ~(Len(fifo) + W <= Depth) /\ ~WholeSets
  <2> DEFINE q == Depth \div W
             k == SetCount(fifo)
  <2>1. q \in Int /\ Depth = W * q
    <3>1. Depth % W = 0
        BY <1>5 DEF WholeLoss
    <3>2. Depth \div W \in Int /\ Depth = W * (Depth \div W) + (Depth % W)
        BY <1>1, DivisionFact
    <3>3. QED
        BY <1>1, <3>1, <3>2
  <2>2. k \in Nat /\ Len(fifo) = k * W
      BY <1>2, CountIsNat DEF Whole
  <2> HIDE DEF q, k
  <2>3. W * k <= W * q /\ W * q < W * (k + 1)
      BY <1>1, <1>2, <1>5, <2>1, <2>2
  <2>4. k <= q /\ q < k + 1
      BY <1>1, <2>1, <2>2, <2>3
  <2>5. Len(fifo) = Depth
    <3>1. k = q
        BY <2>1, <2>2, <2>4
    <3>2. QED
        BY <1>1, <2>1, <2>2, <3>1
  <2>6. QED
      BY <1>1, <1>5, <2>5 DEF Lost
<1>6. QED
    BY <1>3, <1>4, <1>5

\* The chip goes on by itself.
LEMMA SampleStep ==
    ASSUME WholeLoss, ImuInv, Sample
    PROVE  /\ ChipTyped' /\ FifoInv' /\ SetCount(fifo') >= SetCount(fifo)
           /\ \A sc : Tuned(chip, out, fifo, sc) => Tuned(chip', out', fifo', sc)
           /\ chip' = chip /\ chip.CTRL2_G # Off
<1>1. /\ chip.CTRL1_XL # Off /\ chip.CTRL2_G # Off /\ chip' = chip /\ latched' = latched
      /\ out' = [xl |-> chip.CTRL1_XL, gy |-> chip.CTRL2_G]
    BY DEF Sample
<1>2. fifo \in Seq(Word) /\ Len(fifo) <= Depth /\ Whole(fifo) /\ ChipTyped
    BY DEF ImuInv, FifoInv
<1>3. /\ W \in Nat \ {0} /\ W \div 2 \in Nat /\ Depth \in Nat /\ W <= Depth
      /\ Ids \in Nat \ {0}
    BY SensorSizes
<1>c. SetCount(fifo) \in Nat
    BY <1>2, CountIsNat
<1>4. CASE chip.FIFO_CTRL5 = Off
  <2>1. fifo' = fifo /\ next' = next
      BY <1>4 DEF Sample
  <2>2. ChipTyped'
      BY <1>1, <1>2, <2>1 DEF ChipTyped
  <2>3. \A sc : Tuned(chip, out, fifo, sc) => Tuned(chip', out', fifo', sc)
      BY <1>1, <2>1 DEF Tuned
  <2>4. QED
      BY <1>1, <1>c, <2>1, <2>2, <2>3 DEF ImuInv, FifoInv
<1>5. CASE chip.FIFO_CTRL5 # Off
  <2> DEFINE n == Lost
             kept == SubSeq(fifo, n + 1, Len(fifo))
  <2>1. fifo' = kept \o NewSet /\ next' = (next + 1) % Ids
    <3>1. next' = (next + 1) % Ids
        BY <1>5 DEF Sample
    <3>2. QED
        BY <1>5, <3>1 DEF Sample
  <2>2. ChipTyped'
    <3>1. (next + 1) % Ids \in 0..(Ids - 1)
      <4>1. next + 1 \in Int
          BY <1>2, <1>3 DEF ChipTyped
      <4>2. QED
          BY <1>3, <4>1, DivisionFact
    <3>2. QED
        BY <1>1, <1>2, <2>1, <3>1 DEF ChipTyped
  <2>3. n \in {0, W} /\ (n = 0 => Len(fifo) + W <= Depth)
      BY LostIsWhole
  <2>4. /\ kept \in Seq(Word) /\ Whole(kept)
        /\ n <= Len(fifo) => Len(kept) = Len(fifo) - n
        /\ n > Len(fifo) => kept = <<>>
        /\ SetCount(kept) >= SetCount(fifo) - (IF n = 0 THEN 0 ELSE 1)
        /\ \A i \in 1..Len(kept) : n + i \in 1..Len(fifo) /\ kept[i] = fifo[n + i]
      BY <1>2, <2>3, SetsPopped
  <2>5. /\ NewSet \in Seq(Word) /\ Len(NewSet) = W
        /\ \A i \in 1..W : NewSet[i].pos = i /\ NewSet[i].set = NewSet[1].set
        /\ \A i \in 1..W : NewSet[i].range = IF i <= W \div 2 THEN chip.CTRL2_G ELSE chip.CTRL1_XL
    <3>1. \A i \in 1..W : NewSet[i] = [set |-> next, pos |-> i,
              range |-> IF i <= W \div 2 THEN chip.CTRL2_G ELSE chip.CTRL1_XL]
        BY DEF NewSet
    <3>2. \A i \in 1..W : NewSet[i] \in Word
      <4>1. next \in 0..(Ids - 1) /\ chip.CTRL2_G \in Ranges /\ chip.CTRL1_XL \in Ranges
          BY <1>2 DEF ChipTyped
      <4>2. \A i \in 1..W : i \in 0..W
          BY <1>3
      <4>3. ASSUME NEW i \in 1..W PROVE NewSet[i] \in Word
        <5> DEFINE r == IF i <= W \div 2 THEN chip.CTRL2_G ELSE chip.CTRL1_XL
        <5>1. r \in Ranges /\ i \in 0..W
            BY <4>1, <4>2
        <5>2. NewSet[i] = [set |-> next, pos |-> i, range |-> r]
            BY <3>1
        <5> HIDE DEF r
        <5>3. QED
            BY <4>1, <5>1, <5>2 DEF Word
      <4>4. QED
          BY <4>3
    <3>3. Len(NewSet) = W /\ NewSet \in Seq(Word)
        BY <1>3, <3>2 DEF NewSet
    <3>4. 1 \in 1..W
        BY <1>3
    <3>5. QED
        BY <3>1, <3>3, <3>4
  <2> HIDE DEF n, kept
  <2>6. /\ fifo' \in Seq(Word) /\ Whole(fifo') /\ Len(fifo') = Len(kept) + W
        /\ SetCount(fifo') = SetCount(kept) + 1
        /\ \A i \in 1..Len(fifo') :
              fifo'[i] = IF i <= Len(kept) THEN kept[i] ELSE NewSet[i - Len(kept)]
      BY <2>1, <2>4, <2>5, SetsPushed
  <2>k. SetCount(kept) \in Nat
      BY <2>4, CountIsNat
  <2>7. Len(fifo') <= Depth
    <3>1. CASE n <= Len(fifo)
      <4>1. Len(fifo) \in Nat /\ Depth \in Nat
          BY <1>2, <1>3
      <4>2. Len(fifo') = Len(fifo) - n + W
          BY <2>4, <2>6, <3>1
      <4>3. QED
          BY <1>2, <1>3, <2>3, <4>1, <4>2
    <3>2. CASE ~(n <= Len(fifo))
      <4>1. Len(fifo) \in Nat /\ n \in Nat
          BY <1>2, <1>3, <2>3
      <4>2. kept = <<>>
          BY <2>4, <3>2, <4>1
      <4>3. QED
          BY <1>3, <2>6, <4>2
    <3>3. QED
        BY <3>1, <3>2
  <2>8. SetCount(fifo') >= SetCount(fifo)
      BY <1>c, <2>4, <2>6, <2>k
  <2>9. ASSUME NEW sc, Tuned(chip, out, fifo, sc) PROVE Tuned(chip', out', fifo', sc)
    <3>1. ASSUME NEW i \in 1..Len(fifo')
          PROVE  fifo'[i].range = IF fifo'[i].pos <= W \div 2 THEN sc.gy ELSE sc.xl
      <4>1. CASE i <= Len(kept)
        <5>1. n + i \in 1..Len(fifo) /\ fifo'[i] = fifo[n + i]
            BY <2>4, <2>6, <4>1
        <5>2. QED
            BY <2>9, <5>1 DEF Tuned
      <4>2. CASE ~(i <= Len(kept))
        <5>1. Len(kept) \in Nat
            BY <2>4
        <5>2. i - Len(kept) \in 1..W /\ fifo'[i] = NewSet[i - Len(kept)]
            BY <1>3, <2>6, <4>2, <5>1
        <5>3. QED
            BY <2>5, <2>9, <5>2 DEF Tuned
      <4>3. QED
          BY <4>1, <4>2
    <3>2. QED
        BY <1>1, <2>9, <3>1 DEF Tuned
  <2>10. QED
      BY <1>1, <2>2, <2>6, <2>7, <2>8, <2>9 DEF FifoInv
<1>6. QED
    BY <1>4, <1>5

LEMMA MotionStep ==
    ASSUME ImuInv, Motion
    PROVE  ChipTyped' /\ chip' = chip /\ out' = out /\ fifo' = fifo
BY DEF ImuInv, ChipTyped, Motion

\* What becomes of the ranges while the driver does nothing.
LEMMA TuneFrame ==
    ASSUME TuneInv, op' = op, todo' = todo, setup' = setup, scale' = scale, mode' = mode,
           \A sc : Tuned(chip, out, fifo, sc) => Tuned(chip', out', fifo', sc),
           chip'.CTRL1_XL = chip.CTRL1_XL, Blank => Blank'
    PROVE  TuneInv'
<1>1. op = "init" => InitGoesOn'
    BY DEF TuneInv, InitGoesOn, Made
<1>2. mode = "run" => Tuned(chip', out', fifo', scale')
    BY DEF TuneInv
<1>3. QED
    BY <1>1, <1>2 DEF TuneInv

LEMMA WorldInv ==
    ASSUME WholeLoss, ImuInv, World, Edge, UNCHANGED <<bus, exti>>
    PROVE  ImuInv'
<1>1. /\ ChipTyped' /\ FifoInv' /\ SetCount(fifo') >= SetCount(fifo)
      /\ \A sc : Tuned(chip, out, fifo, sc) => Tuned(chip', out', fifo', sc)
      /\ chip' = chip /\ (Blank => Blank')
  <2>1. CASE Sample
    <3>1. ~Blank
        BY <2>1, SampleStep DEF Blank
    <3>2. QED
        BY <2>1, <3>1, SampleStep
  <2>2. CASE Motion
    <3>1. ChipTyped' /\ chip' = chip /\ out' = out /\ fifo' = fifo
        BY <2>2, MotionStep
    <3>2. fifo \in Seq(Word) /\ Whole(fifo) /\ FifoInv
        BY DEF ImuInv, FifoInv
    <3>3. SetCount(fifo) \in Nat
        BY <3>2, CountIsNat
    <3>4. FifoInv' /\ SetCount(fifo') >= SetCount(fifo) /\ (Blank => Blank')
        BY <3>1, <3>2, <3>3 DEF FifoInv, Blank
    <3>5. QED
        BY <3>1, <3>4
  <2>3. QED
      BY <2>1, <2>2 DEF World
<1>2. UNCHANGED <<driver, app, bus, exti>> /\ reading' = <<>>
    BY DEF World, Sample, Motion
<1>3. CallTyped /\ TuneInv /\ ReadInv /\ FifoInv
    BY DEF ImuInv
<1>4. CallTyped'
    BY <1>2, <1>3, EdgeTyped DEF CallTyped, driver, app, Calling
<1>5. TuneInv'
    BY <1>1, <1>2, <1>3, TuneFrame DEF driver, app
<1>6. ReadInv'
  <2>1. SetCount(fifo) \in Nat /\ SetCount(fifo') \in Nat
      BY <1>1, <1>3, CountIsNat DEF FifoInv
  <2>2. avail \in Int /\ got \in Int
      BY <1>3, ImuAssumption DEF CallTyped
  <2>3. QED
      BY <1>1, <1>2, <1>3, <2>1, <2>2 DEF ReadInv, driver
<1>7. QED
    BY <1>1, <1>2, <1>4, <1>5, <1>6, NothingHanded DEF ImuInv

\* A call begins.
LEMMA CallInv ==
    ASSUME ImuInv, ImuInit \/ PowerDown \/ ConfigWakeup, Edge, UNCHANGED bus
    PROVE  ImuInv'
<1>1. /\ op = "none" /\ mode' = "off" /\ reading' = <<>>
      /\ UNCHANGED <<chipVars, exti, scale, max, avail, got, notified>>
    BY DEF ImuInit, PowerDown, ConfigWakeup, Call
<1>2. CallTyped /\ ReadInv /\ ChipTyped /\ FifoInv
    BY DEF ImuInv
<1>3. /\ op' \in {"init", "down", "wake"} /\ todo' \in Seq(Steps) /\ todo' # <<>>
      /\ setup' \in Setups
      /\ op' = "init" => todo' = InitSteps(setup')
  <2>1. CASE ImuInit
    <3>1. PICK s \in Setups : Call("init", InitSteps(s)) /\ setup' = s
        BY <2>1 DEF ImuInit
    <3>2. op' = "init" /\ todo' = InitSteps(s)
        BY <3>1 DEF Call
    <3>3. InitSteps(s) \in Seq(Steps) /\ InitSteps(s) # <<>>
        BY InitAccesses
    <3>4. QED
        BY <3>1, <3>2, <3>3
  <2>2. CASE PowerDown
    <3>1. op' = "down" /\ todo' = DownSteps /\ setup' = setup
        BY <2>2 DEF PowerDown, Call
    <3>2. QED
        BY <1>2, <3>1, OtherAccesses DEF CallTyped
  <2>3. CASE ConfigWakeup
    <3>1. op' = "wake" /\ todo' = WakeSteps /\ setup' = setup
        BY <2>3 DEF ConfigWakeup, Call
    <3>2. QED
        BY <1>2, <3>1, OtherAccesses DEF CallTyped
  <2>4. QED
      BY <2>1, <2>2, <2>3
<1>4. ChipTyped' /\ FifoInv' /\ ReadInv'
    BY <1>1, <1>2, <1>3 DEF ChipTyped, FifoInv, ReadInv, chipVars
<1>5. CallTyped'
    BY <1>1, <1>2, <1>3, EdgeTyped DEF CallTyped, Calling
<1>6. op' = "init" => InitGoesOn'
  <2>1. SUFFICES ASSUME op' = "init" PROVE InitGoesOn'
      OBVIOUS
  <2>2. todo' = InitSteps(setup') /\ Len(InitSteps(setup')) \in Nat
      BY <1>3, <2>1, InitAccesses
  <2>3. Made' = 0
      BY <2>2 DEF Made
  <2>4. QED
      BY <2>2, <2>3 DEF InitGoesOn
<1>7. TuneInv'
    BY <1>1, <1>3, <1>6 DEF TuneInv
<1>8. QED
    BY <1>1, <1>4, <1>5, <1>7, NothingHanded DEF ImuInv

LEMMA AccessTyped ==
    ASSUME ImuInv, todo # <<>>
    PROVE  /\ Head(todo) \in Steps /\ Head(todo) = todo[1] /\ Len(todo) \in Nat \ {0}
           /\ Tail(todo) \in Seq(Steps) /\ Len(Tail(todo)) = Len(todo) - 1
           /\ \A i \in 1..Len(Tail(todo)) : i + 1 \in 1..Len(todo) /\ Tail(todo)[i] = todo[i + 1]
           /\ Calling /\ mode = "off" /\ avail = 0 /\ got = 0
           /\ Effect(Head(todo)) \/ UNCHANGED chipVars => ChipTyped' /\ FifoInv'
<1>1. /\ todo \in Seq(Steps) /\ Calling /\ mode = "off" /\ op # "burst"
      /\ ChipTyped /\ FifoInv
    BY DEF ImuInv, CallTyped, Calling
<1>2. /\ Head(todo) \in Steps /\ Len(todo) \in Nat \ {0}
      /\ Tail(todo) \in Seq(Steps) /\ Len(Tail(todo)) = Len(todo) - 1
      /\ \A i \in 1..Len(Tail(todo)) : Tail(todo)[i] = todo[i + 1]
  <2>1. Head(todo) \in Steps /\ Tail(todo) \in Seq(Steps)
      BY <1>1, HeadTailProperties
  <2>2. /\ Len(Tail(todo)) = Len(todo) - 1
        /\ \A i \in 1..Len(Tail(todo)) : Tail(todo)[i] = todo[i + 1]
      BY <1>1, HeadTailProperties
  <2>3. Len(todo) \in Nat \ {0}
      BY <1>1, EmptySeq
  <2>4. QED
      BY <2>1, <2>2, <2>3
<1>3. \A i \in 1..Len(Tail(todo)) : i + 1 \in 1..Len(todo)
    BY <1>2
<1>4. Head(todo) = todo[1]
    BY <1>1
<1>5. avail = 0 /\ got = 0
    BY <1>1 DEF ImuInv, ReadInv
<1>6. ASSUME Effect(Head(todo)) PROVE ChipTyped' /\ FifoInv'
  <2>1. ChipTyped' /\ fifo' \in {fifo, <<>>}
      BY <1>1, <1>2, <1>6, EffectFacts
  <2>2. Len(<<>>) <= Depth
      BY SensorSizes
  <2>3. FifoInv'
      BY <1>1, <2>1, <2>2, EmptyIsWhole DEF FifoInv
  <2>4. QED
      BY <2>1, <2>3
<1>7. UNCHANGED chipVars => ChipTyped' /\ FifoInv'
    BY <1>1 DEF chipVars, ChipTyped, FifoInv
<1>8. QED
    BY <1>1, <1>2, <1>3, <1>4, <1>5, <1>6, <1>7

\* One access of Init, the Kth, and what the chip is after it.
LEMMA InitProgress ==
    ASSUME ImuInv, op = "init", Access
    PROVE  LET k == Made + 1
           IN  /\ k \in 1..Len(InitSteps(setup))
               /\ k \in 3..6 => Blank'
               /\ k = 6 => chip'.CTRL1_XL = setup.xl
               /\ k >= 7 => scale' = [xl |-> setup.xl, gy |-> setup.gy]
                             /\ Tuned(chip', out', fifo', scale')
<1> DEFINE k == Made + 1
           s == InitSteps(setup)
           step == Head(todo)
<1>1. todo # <<>> /\ Effect(step) /\ scale' = Keep(step) /\ setup' = setup
    BY DEF Access
<1>2. step \in Steps /\ step = todo[1] /\ Len(todo) \in Nat \ {0} /\ ChipTyped
    BY <1>1, AccessTyped DEF ImuInv
<1>3. setup \in Setups /\ InitGoesOn
    BY DEF ImuInv, CallTyped, TuneInv
<1>4. /\ Len(s) \in Nat /\ Len(s) >= 7
      /\ s[3] = Set("CTRL3_C", SwReset)
      /\ \A i \in {4, 5} : s[i].reg \notin {"CTRL1_XL", "CTRL2_G"} /\ s[i].val # SwReset
      /\ s[6] = Set("CTRL1_XL", setup.xl) /\ s[7] = Set("CTRL2_G", setup.gy)
      /\ \A i \in 8..Len(s) : s[i].reg \notin {"CTRL3_C", "CTRL1_XL", "CTRL2_G"}
    BY <1>3, InitAccesses
<1>5. /\ Made = Len(s) - Len(todo) /\ Made >= 0
      /\ \A i \in 1..Len(todo) : todo[i] = s[Made + i]
      /\ Made \in 3..6 => Blank
      /\ Made = 6 => chip.CTRL1_XL = setup.xl
      /\ Made >= 7 => scale = [xl |-> setup.xl, gy |-> setup.gy] /\ Tuned(chip, out, fifo, scale)
    BY <1>3 DEF InitGoesOn, Made
<1> HIDE DEF s
<1>6. Made \in Nat /\ k \in 1..Len(s) /\ 1 \in 1..Len(todo)
    BY <1>2, <1>4, <1>5
<1>7. step = s[k]
    BY <1>2, <1>5, <1>6
<1>8. /\ step.reg = "CTRL3_C" /\ step.val = SwReset => Blank'
      /\ ~(step.reg = "CTRL3_C" /\ step.val = SwReset) =>
            /\ out' = out
            /\ chip'.CTRL1_XL = IF step.reg = "CTRL1_XL" THEN step.val ELSE chip.CTRL1_XL
            /\ chip'.CTRL2_G = IF step.reg = "CTRL2_G" THEN step.val ELSE chip.CTRL2_G
      /\ fifo' \in {fifo, <<>>}
    BY <1>1, <1>2, EffectFacts
<1> HIDE DEF k, step
<1>9. Made = k - 1 /\ k \in Nat
    BY <1>6 DEF k
<1>10. k \in 3..6 => Blank' /\ (k = 6 => chip'.CTRL1_XL = setup.xl)
  <2>1. CASE k = 3
    <3>1. step.reg = "CTRL3_C" /\ step.val = SwReset
        BY <1>4, <1>7, <2>1 DEF Set
    <3>2. QED
        BY <1>8, <2>1, <3>1
  <2>2. CASE k \in {4, 5}
    <3>1. step.reg \notin {"CTRL1_XL", "CTRL2_G"} /\ step.val # SwReset
        BY <1>4, <1>7, <2>2
    <3>2. Blank
        BY <1>5, <1>9, <2>2
    <3>3. QED
        BY <1>8, <2>2, <3>1, <3>2 DEF Blank
  <2>3. CASE k = 6
    <3>1. step.reg = "CTRL1_XL" /\ step.val = setup.xl
        BY <1>4, <1>7, <2>3 DEF Set
    <3>2. Blank
        BY <1>5, <1>9, <2>3
    <3>3. QED
        BY <1>8, <3>1, <3>2 DEF Blank
  <2>4. QED
      BY <1>9, <2>1, <2>2, <2>3
<1>11. ASSUME k >= 7
       PROVE  scale' = [xl |-> setup.xl, gy |-> setup.gy] /\ Tuned(chip', out', fifo', scale')
  <2>1. CASE k = 7
    <3>1. step.reg = "CTRL2_G" /\ step.val = setup.gy
        BY <1>4, <1>7, <2>1 DEF Set
    <3>2. scale' = [xl |-> setup.xl, gy |-> setup.gy]
        BY <1>1, <3>1 DEF Keep, step
    <3>3. Blank /\ chip.CTRL1_XL = setup.xl
        BY <1>5, <1>9, <2>1
    <3>4. /\ fifo' = <<>> /\ out' = [xl |-> Off, gy |-> Off]
          /\ chip'.CTRL1_XL = setup.xl /\ chip'.CTRL2_G = setup.gy
        BY <1>8, <3>1, <3>3 DEF Blank
    <3>5. QED
        BY <3>2, <3>4 DEF Tuned
  <2>2. CASE k >= 8
    <3>1. step.reg \notin {"CTRL3_C", "CTRL1_XL", "CTRL2_G"}
        BY <1>4, <1>6, <1>7, <1>9, <2>2
    <3>2. scale' = scale
        BY <1>1, <3>1 DEF Keep, step
    <3>3. scale = [xl |-> setup.xl, gy |-> setup.gy] /\ Tuned(chip, out, fifo, scale)
        BY <1>5, <1>9, <2>2
    <3>4. out' = out /\ chip'.CTRL1_XL = chip.CTRL1_XL /\ chip'.CTRL2_G = chip.CTRL2_G
        BY <1>8, <3>1
    <3>5. \A i \in 1..Len(fifo') :
              fifo'[i].range = IF fifo'[i].pos <= W \div 2 THEN scale.gy ELSE scale.xl
        BY <1>8, <3>3 DEF Tuned
    <3>6. QED
        BY <3>2, <3>3, <3>4, <3>5 DEF Tuned
  <2>3. QED
      BY <1>9, <1>11, <2>1, <2>2
<1>12. QED
    BY <1>6, <1>10, <1>11 DEF k, s

LEMMA AccessInv ==
    ASSUME ImuInv, Access, Edge, UNCHANGED bus
    PROVE  ImuInv'
<1>1. /\ todo # <<>> /\ Effect(Head(todo)) /\ todo' = Tail(todo) /\ reading' = <<>>
      /\ UNCHANGED <<exti, setup, max, avail, got, notified>>
    BY DEF Access
<1>2. /\ Len(todo) \in Nat \ {0} /\ Tail(todo) \in Seq(Steps) /\ Len(Tail(todo)) = Len(todo) - 1
      /\ \A i \in 1..Len(Tail(todo)) : i + 1 \in 1..Len(todo) /\ Tail(todo)[i] = todo[i + 1]
      /\ Calling /\ mode = "off" /\ avail = 0 /\ got = 0 /\ ChipTyped' /\ FifoInv'
    BY <1>1, AccessTyped
<1>3. CallTyped /\ TuneInv
    BY DEF ImuInv
<1>4. \/ Len(todo) > 1 /\ op' = op /\ mode' = mode
      \/ /\ Len(todo) = 1 /\ op' = "none" /\ mode' \in {"off", "run", "wake"}
         /\ mode' = "run" => op = "init"
  <2>1. CASE Len(todo) > 1
      BY <2>1 DEF Access
  <2>2. CASE ~(Len(todo) > 1)
    <3>1. op' = "none" /\ mode' = [init |-> "run", down |-> "off", wake |-> "wake"][op]
        BY <2>2 DEF Access
    <3>2. Len(todo) = 1
        BY <1>2, <2>2
    <3>3. op \in {"init", "down", "wake"}
        BY <1>2 DEF Calling
    <3>4. mode' \in {"off", "run", "wake"} /\ (mode' = "run" => op = "init")
      <4>1. CASE op = "init"
          BY <3>1, <4>1
      <4>2. CASE op = "down"
          BY <3>1, <4>2
      <4>3. CASE op = "wake"
          BY <3>1, <4>3
      <4>4. QED
          BY <3>3, <4>1, <4>2, <4>3
    <3>5. QED
        BY <3>1, <3>2, <3>4
  <2>3. QED
      BY <2>1, <2>2
<1>5. todo' # <<>> <=> Len(todo) > 1
  <2>1. todo' # <<>> => Len(todo') \in Nat \ {0}
      BY <1>1, <1>2, EmptySeq
  <2>2. todo' = <<>> => Len(todo') = 0
      BY EmptySeq
  <2>3. Len(todo') = Len(todo) - 1
      BY <1>1, <1>2
  <2>4. QED
      BY <1>2, <2>1, <2>2, <2>3
<1>6. CallTyped'
  <2>1. op' \in {"none", "init", "down", "wake"} /\ (Calling' <=> Len(todo) > 1)
    <3>1. CASE Len(todo) > 1
      <4>1. op' = op /\ op \in {"init", "down", "wake"}
        <5>1. Len(todo) # 1
            BY <1>2, <3>1
        <5>2. op' = op
            BY <1>4, <5>1
        <5>3. op \in {"init", "down", "wake"}
            BY <1>2 DEF Calling
        <5>4. QED
            BY <5>2, <5>3
      <4>2. QED
          BY <3>1, <4>1 DEF Calling
    <3>2. CASE ~(Len(todo) > 1)
        BY <1>4, <3>2 DEF Calling
    <3>3. QED
        BY <3>1, <3>2
  <2>2. Calling' => mode' = "off"
      BY <1>2, <1>4 DEF Calling
  <2>3. mode' \in {"off", "run", "wake"}
      BY <1>2, <1>4
  <2>4. QED
      BY <1>1, <1>2, <1>3, <1>5, <2>1, <2>2, <2>3, EdgeTyped DEF CallTyped
<1>7. ReadInv'
    BY <1>1, <1>2, <1>4 DEF ReadInv, Calling
<1>8. ASSUME op' = "init" PROVE InitGoesOn'
  <2>1. Len(todo) > 1 /\ op = "init"
      BY <1>4, <1>8
  <2>2. /\ Made \in 0..(Len(InitSteps(setup)) - 1)
        /\ Made + 1 \in 3..6 => Blank'
        /\ Made + 1 = 6 => chip'.CTRL1_XL = setup.xl
        /\ Made + 1 >= 7 => scale' = [xl |-> setup.xl, gy |-> setup.gy]
                            /\ Tuned(chip', out', fifo', scale')
    <3>1. setup \in Setups /\ InitGoesOn
        BY <1>3, <2>1 DEF CallTyped, TuneInv
    <3>2. Made \in Int
        BY <1>2, <3>1, InitAccesses DEF Made
    <3>3. QED
        BY <2>1, <3>2, InitProgress
  <2>3. Made' = Made + 1 /\ Len(InitSteps(setup)) \in Nat
    <3>1. Len(InitSteps(setup)) \in Nat
        BY <1>3, InitAccesses DEF CallTyped
    <3>2. setup' = setup /\ Len(todo') = Len(todo) - 1
        BY <1>1, <1>2
    <3>3. QED
        BY <1>2, <3>1, <3>2 DEF Made
  <2>4. \A i \in 1..Len(todo') : todo'[i] = InitSteps(setup')[Made' + i]
    <3>1. SUFFICES ASSUME NEW i \in 1..Len(todo') PROVE todo'[i] = InitSteps(setup')[Made' + i]
        OBVIOUS
    <3>2. i + 1 \in 1..Len(todo) /\ todo'[i] = todo[i + 1]
        BY <1>1, <1>2
    <3>3. todo[i + 1] = InitSteps(setup)[Made + (i + 1)]
        BY <1>3, <2>1, <3>2 DEF TuneInv, InitGoesOn
    <3>4. Made + (i + 1) = Made' + i
        BY <1>1, <1>2, <2>2, <2>3
    <3>5. QED
        BY <1>1, <3>2, <3>3, <3>4
  <2>5. setup' = setup
      BY <1>1
  <2>6. QED
      BY <2>2, <2>3, <2>4, <2>5 DEF InitGoesOn
<1>9. ASSUME mode' = "run" PROVE Tuned(chip', out', fifo', scale')
  <2>1. Len(todo) = 1 /\ op = "init"
      BY <1>2, <1>4, <1>9
  <2>2. setup \in Setups /\ Len(InitSteps(setup)) \in Nat /\ Len(InitSteps(setup)) >= 7
      BY <1>3, InitAccesses DEF CallTyped
  <2>3. Made + 1 >= 7
      BY <2>1, <2>2 DEF Made
  <2>4. QED
      BY <2>1, <2>3, InitProgress
<1>10. TuneInv'
    BY <1>2, <1>4, <1>8, <1>9 DEF TuneInv, Calling
<1>11. QED
    BY <1>1, <1>2, <1>6, <1>7, <1>10, NothingHanded DEF ImuInv

LEMMA AccessFailsInv ==
    ASSUME ImuInv, AccessFails, Edge, UNCHANGED bus
    PROVE  ImuInv'
<1>1. /\ todo # <<>> /\ (Effect(Head(todo)) \/ UNCHANGED chipVars) /\ reading' = <<>>
      /\ todo' = IF op = "init" THEN <<>> ELSE Tail(todo)
      /\ UNCHANGED <<exti, scale, setup, max, avail, got, notified>>
    BY DEF AccessFails
<1>2. /\ Tail(todo) \in Seq(Steps)
      /\ Calling /\ mode = "off" /\ avail = 0 /\ got = 0 /\ ChipTyped' /\ FifoInv'
    BY <1>1, AccessTyped
<1>3. CallTyped
    BY DEF ImuInv
<1>4. /\ todo' # <<>> => op' = op /\ op # "init" /\ mode' = "off"
      /\ todo' = <<>> => op' = "none" /\ mode' \in {"off", "wake"}
  <2>1. CASE todo' # <<>>
      BY <1>1, <1>2, <2>1 DEF AccessFails
  <2>2. CASE todo' = <<>>
    <3>1. op' = "none" /\ mode' = [init |-> "off", down |-> "off", wake |-> "wake"][op]
        BY <2>2 DEF AccessFails
    <3>2. op \in {"init", "down", "wake"}
        BY <1>2 DEF Calling
    <3>3. mode' \in {"off", "wake"}
      <4>1. CASE op = "init"
          BY <3>1, <4>1
      <4>2. CASE op = "down"
          BY <3>1, <4>2
      <4>3. CASE op = "wake"
          BY <3>1, <4>3
      <4>4. QED
          BY <3>2, <4>1, <4>2, <4>3
    <3>4. QED
        BY <2>2, <3>1, <3>3
  <2>3. QED
      BY <2>1, <2>2
<1>5. CallTyped'
  <2>1. todo' \in Seq(Steps)
      BY <1>1, <1>2
  <2>2. QED
      BY <1>1, <1>2, <1>3, <1>4, <2>1, EdgeTyped DEF CallTyped, Calling
<1>6. ReadInv' /\ TuneInv'
    BY <1>1, <1>2, <1>4 DEF ReadInv, TuneInv, Calling
<1>7. QED
    BY <1>1, <1>2, <1>5, <1>6, NothingHanded DEF ImuInv

\* A step that leaves the chip, the call and the kept ranges alone.
LEMMA QuietChip ==
    ASSUME ImuInv, CallTyped', op' = op, mode' = mode,
           UNCHANGED <<chipVars, scale, todo, setup, avail, got>>
    PROVE  ChipTyped' /\ FifoInv' /\ TuneInv' /\ ReadInv'
<1>1. ChipTyped /\ FifoInv /\ TuneInv /\ ReadInv
    BY DEF ImuInv
<1>2. ChipTyped' /\ FifoInv' /\ ReadInv'
    BY <1>1 DEF ChipTyped, FifoInv, ReadInv, chipVars
<1>3. TuneInv'
    BY <1>1, TuneFrame DEF chipVars, Blank
<1>4. QED
    BY <1>2, <1>3

LEMMA ReadOutputInv ==
    ASSUME ImuInv, ReadOutput, Edge, UNCHANGED bus
    PROVE  ImuInv'
<1>1. /\ mode = "run"
      /\ \/ reading' = <<[word |-> [set |-> 0, pos |-> 1, range |-> out.xl], used |-> scale.xl]>>
         \/ reading' = <<[word |-> [set |-> 0, pos |-> 1, range |-> out.gy], used |-> scale.gy]>>
      /\ UNCHANGED <<chipVars, exti, driver, app>>
    BY DEF ReadOutput
<1>2. CallTyped'
    BY <1>1, EdgeTyped DEF ImuInv, CallTyped, driver, app, Calling
<1>3. ChipTyped' /\ FifoInv' /\ TuneInv' /\ ReadInv'
    BY <1>1, <1>2, QuietChip DEF driver, app
<1>4. Tuned(chip, out, fifo, scale)
    BY <1>1 DEF ImuInv, TuneInv
<1>5. Handed'
    BY <1>1, <1>4 DEF Tuned, Handed
<1>6. QED
    BY <1>2, <1>3, <1>5 DEF ImuInv

LEMMA ApplicationInv ==
    ASSUME ImuInv, INT1_Init \/ ReadWakeUpSrc, Edge, UNCHANGED bus
    PROVE  ImuInv'
<1>1. /\ reading' = <<>> /\ UNCHANGED <<chip, fifo, out, next, driver, mode>>
      /\ exti' \in {exti, TRUE}
    BY DEF INT1_Init, ReadWakeUpSrc, chipVars
<1>2. ChipTyped /\ CallTyped /\ FifoInv /\ TuneInv /\ ReadInv
    BY DEF ImuInv
<1>3. Prompt \in BOOLEAN
    BY ImuAssumption
<1>4. /\ notified' \in BOOLEAN /\ latched' \in BOOLEAN
    BY <1>2, <1>3 DEF INT1_Init, ReadWakeUpSrc, chipVars, CallTyped, ChipTyped
<1>5. CallTyped'
    BY <1>1, <1>2, <1>4, EdgeTyped DEF CallTyped, driver, Calling
<1>6. ChipTyped' /\ FifoInv' /\ ReadInv'
    BY <1>1, <1>2, <1>4 DEF ChipTyped, FifoInv, ReadInv, driver
<1>7. TuneInv'
    BY <1>1, <1>2, TuneFrame DEF Blank, driver
<1>8. QED
    BY <1>1, <1>5, <1>6, <1>7, NothingHanded DEF ImuInv

----------------------------------------------------------------------------
\* BSP_IMU_FIFO_Read

LEMMA BeginReadInv ==
    ASSUME ImuInv, BeginRead, Edge, UNCHANGED bus
    PROVE  ImuInv'
<1>1. /\ op = "none" /\ mode = "run" /\ op' = "level" /\ notified' = FALSE
      /\ max' \in MaxSets /\ reading' = <<>>
      /\ UNCHANGED <<chipVars, exti, scale, todo, setup, avail, got, mode>>
    BY DEF BeginRead
<1>2. ChipTyped /\ CallTyped /\ FifoInv /\ TuneInv /\ ReadInv
    BY DEF ImuInv
<1>3. avail = 0 /\ got = 0
    BY <1>1, <1>2 DEF ReadInv
<1>4. max' \in Nat
    BY <1>1, ImuAssumption
<1>5. CallTyped'
  <2>1. pending' \in BOOLEAN
      BY <1>2, EdgeTyped
  <2>2. avail' \in 0..max' /\ got' \in 0..avail'
      BY <1>1, <1>3, <1>4
  <2>3. ~Calling /\ ~Calling'
      BY <1>1 DEF Calling
  <2>4. QED
      BY <1>1, <1>2, <2>1, <2>2, <2>3 DEF CallTyped
<1>6. ChipTyped' /\ FifoInv' /\ ReadInv'
    BY <1>1, <1>2, <1>3 DEF ChipTyped, FifoInv, ReadInv, chipVars
<1>7. TuneInv'
    BY <1>1, <1>2 DEF TuneInv, chipVars
<1>8. QED
    BY <1>1, <1>5, <1>6, <1>7, NothingHanded DEF ImuInv

\* What is counted is there.
LEMMA AvailIsThere ==
    ASSUME ImuInv
    PROVE  AvailSets \in 0..max /\ AvailSets <= SetCount(fifo) /\ AvailSets \in Nat
<1>1. fifo \in Seq(Word) /\ Whole(fifo) /\ Len(fifo) <= Depth /\ Len(fifo) \in Nat
    BY DEF ImuInv, FifoInv
<1>2. Levels \in Nat \ {0} /\ W \in Nat \ {0}
    BY ImuAssumption
<1> DEFINE r == Len(fifo) % Levels
           q == Len(fifo) \div Levels
           a == r \div W
           k == SetCount(fifo)
<1>3. r \in 0..(Levels - 1) /\ q \in Int /\ Len(fifo) = Levels * q + r
    BY <1>1, <1>2, DivisionFact
<1>4. k \in Nat /\ Len(fifo) = k * W
    BY <1>1, CountIsNat DEF Whole
<1> HIDE DEF r, q, k
<1>5. r \in Nat /\ r <= k * W
  <2>1. Levels * q > -Levels
      BY <1>1, <1>2, <1>3
  <2>2. q >= 0
      BY <1>2, <1>3, <2>1
  <2>3. Levels * q >= 0
      BY <1>2, <1>3, <2>2
  <2>4. QED
      BY <1>1, <1>2, <1>3, <1>4, <2>3
<1>6. a \in Int /\ r = W * a + (r % W) /\ r % W \in 0..(W - 1)
  <2>1. r \in Int
      BY <1>5
  <2>2. r \div W \in Int /\ r = W * (r \div W) + (r % W) /\ r % W \in 0..(W - 1)
      BY <1>2, <2>1, DivisionFact
  <2>3. QED
      BY <2>2
<1> HIDE DEF a
<1>7. a \in Nat /\ a <= k
  <2>1. W * a > -W /\ W * a <= W * k
      BY <1>2, <1>4, <1>5, <1>6
  <2>2. QED
      BY <1>2, <1>4, <1>6, <2>1
<1>8. max \in Nat
    BY ImuAssumption DEF ImuInv, CallTyped
<1>9. AvailSets = IF a > max THEN max ELSE a
    BY DEF AvailSets, GetLevel, a, r
<1>10. QED
    BY <1>4, <1>7, <1>8, <1>9 DEF k

LEMMA ReadLevelInv ==
    ASSUME ImuInv, ReadLevel, Edge, UNCHANGED bus
    PROVE  ImuInv'
<1>1. /\ op = "level" /\ reading' = <<>>
      /\ UNCHANGED <<chipVars, exti, scale, todo, setup, max, mode>>
    BY DEF ReadLevel
<1>2. ChipTyped /\ CallTyped /\ FifoInv /\ TuneInv /\ ReadInv
    BY DEF ImuInv
<1>3. AvailSets \in 0..max /\ AvailSets <= SetCount(fifo) /\ AvailSets \in Nat
    BY AvailIsThere
<1>4. avail = 0 /\ got = 0 /\ max \in Nat /\ ~Calling /\ mode = "run"
    BY <1>1, <1>2, ImuAssumption DEF ReadInv, CallTyped, Calling, TuneInv
<1>5. \/ op' = "none" /\ avail' = 0 /\ got' = 0 /\ notified' \in BOOLEAN
      \/ op' = "burst" /\ avail' = AvailSets /\ AvailSets # 0 /\ got' = 0 /\ notified' = notified
  <2>1. CASE AvailSets = 0
    <3>1. op' = "none" /\ avail' = 0 /\ got' = 0 /\ notified' = (notified \/ 0 > 0)
        BY <2>1 DEF ReadLevel, Return
    <3>2. notified' \in BOOLEAN
        BY <3>1
    <3>3. QED
        BY <3>1, <3>2
  <2>2. CASE AvailSets # 0
      BY <1>4, <2>2 DEF ReadLevel
  <2>3. QED
      BY <2>1, <2>2
<1>6. CallTyped'
  <2>1. pending' \in BOOLEAN
      BY <1>2, EdgeTyped
  <2>2. avail' \in 0..max' /\ got' \in 0..avail'
      BY <1>1, <1>3, <1>4, <1>5
  <2>3. ~Calling' /\ op' \in {"none", "burst"} /\ notified' \in BOOLEAN
      BY <1>2, <1>5 DEF Calling, CallTyped
  <2>4. QED
      BY <1>1, <1>2, <1>4, <2>1, <2>2, <2>3 DEF CallTyped
<1>7. ChipTyped' /\ FifoInv'
    BY <1>1, <1>2 DEF ChipTyped, FifoInv, chipVars
<1>8. ReadInv'
  <2>1. fifo' = fifo
      BY <1>1 DEF chipVars
  <2>2. QED
      BY <1>3, <1>5, <2>1 DEF ReadInv
<1>9. TuneInv'
    BY <1>1, <1>2, <1>4, <1>5 DEF TuneInv, chipVars
<1>10. QED
    BY <1>1, <1>6, <1>7, <1>8, <1>9, NothingHanded DEF ImuInv

\* The words of N places leave the FIFO.
LEMMA PopStep ==
    ASSUME ImuInv, NEW n \in {0, W}, Pop(n)
    PROVE  /\ ChipTyped' /\ FifoInv'
           /\ SetCount(fifo') >= SetCount(fifo) - 1 /\ SetCount(fifo') \in Nat
           /\ SetCount(fifo) \in Nat
           /\ \A sc : Tuned(chip, out, fifo, sc) => Tuned(chip', out', fifo', sc)
<1> DEFINE g == SubSeq(fifo, n + 1, Len(fifo))
<1>1. fifo' = g /\ chip' = chip /\ out' = out /\ next' = next /\ latched' = latched
    BY DEF Pop
<1>2. fifo \in Seq(Word) /\ Whole(fifo) /\ Len(fifo) <= Depth /\ Len(fifo) \in Nat /\ ChipTyped
    BY DEF ImuInv, FifoInv
<1>3. W \in Nat \ {0} /\ Depth \in Nat
    BY ImuAssumption
<1>4. /\ g \in Seq(Word) /\ Whole(g)
      /\ n <= Len(fifo) => Len(g) = Len(fifo) - n
      /\ n > Len(fifo) => g = <<>>
      /\ SetCount(g) >= SetCount(fifo) - (IF n = 0 THEN 0 ELSE 1)
      /\ \A i \in 1..Len(g) : n + i \in 1..Len(fifo) /\ g[i] = fifo[n + i]
    BY <1>2, SetsPopped
<1> HIDE DEF g
<1>5. SetCount(fifo) \in Nat /\ SetCount(g) \in Nat
    BY <1>2, <1>4, CountIsNat
<1>6. Len(g) <= Depth
  <2>1. CASE n <= Len(fifo)
      BY <1>2, <1>3, <1>4, <2>1
  <2>2. CASE ~(n <= Len(fifo))
    <3>1. g = <<>>
        BY <1>2, <1>3, <1>4, <2>2
    <3>2. QED
        BY <1>3, <3>1
  <2>3. QED
      BY <2>1, <2>2
<1>7. ASSUME NEW sc, Tuned(chip, out, fifo, sc) PROVE Tuned(chip', out', fifo', sc)
  <2>1. \A i \in 1..Len(g) : g[i].range = IF g[i].pos <= W \div 2 THEN sc.gy ELSE sc.xl
      BY <1>4, <1>7 DEF Tuned
  <2>2. QED
      BY <1>1, <1>7, <2>1 DEF Tuned
<1>8. ChipTyped' /\ FifoInv'
    BY <1>1, <1>2, <1>4, <1>6 DEF ChipTyped, FifoInv
<1>9. QED
    BY <1>1, <1>4, <1>5, <1>7, <1>8

LEMMA BurstInv ==
    ASSUME ImuInv, Burst, Edge, UNCHANGED bus
    PROVE  ImuInv'
<1>1. /\ op = "burst" /\ Pop(W)
      /\ reading' = [i \in 1..W |-> Scaled(IF i <= Len(fifo) THEN fifo[i] ELSE Missing, i)]
      /\ UNCHANGED <<exti, scale, todo, setup, max, mode>>
    BY DEF Burst
<1>2. ChipTyped /\ CallTyped /\ FifoInv /\ TuneInv /\ ReadInv
    BY DEF ImuInv
<1>3. /\ ChipTyped' /\ FifoInv'
      /\ SetCount(fifo') >= SetCount(fifo) - 1 /\ SetCount(fifo') \in Nat
      /\ SetCount(fifo) \in Nat
      /\ \A sc : Tuned(chip, out, fifo, sc) => Tuned(chip', out', fifo', sc)
    BY <1>1, PopStep
<1>4. /\ mode = "run" /\ ~Calling /\ max \in Nat /\ avail \in 0..max /\ got \in 0..avail
      /\ got < avail /\ avail - got <= SetCount(fifo) /\ Tuned(chip, out, fifo, scale)
      /\ todo = <<>>
    BY <1>1, <1>2, ImuAssumption DEF ReadInv, CallTyped, Calling, TuneInv
<1>5. \/ op' = "none" /\ avail' = 0 /\ got' = 0 /\ notified' \in BOOLEAN
      \/ /\ op' = "burst" /\ avail' = avail /\ got' = got + 1 /\ got + 1 < avail
         /\ notified' = notified
  <2>1. CASE got + 1 = avail
    <3>1. op' = "none" /\ avail' = 0 /\ got' = 0 /\ notified' = (notified \/ avail > 0)
        BY <2>1 DEF Burst, Return
    <3>2. notified' \in BOOLEAN
        BY <3>1
    <3>3. QED
        BY <3>1, <3>2
  <2>2. CASE got + 1 # avail
      BY <1>1, <1>4, <2>2 DEF Burst
  <2>3. QED
      BY <2>1, <2>2
<1>6. CallTyped'
  <2>1. pending' \in BOOLEAN
      BY <1>2, EdgeTyped
  <2>2. avail' \in 0..max' /\ got' \in 0..avail'
      BY <1>1, <1>4, <1>5
  <2>3. ~Calling' /\ op' \in {"none", "burst"} /\ notified' \in BOOLEAN
      BY <1>2, <1>5 DEF Calling, CallTyped
  <2>4. QED
      BY <1>1, <1>2, <1>4, <2>1, <2>2, <2>3 DEF CallTyped
<1>7. ReadInv'
    BY <1>3, <1>4, <1>5 DEF ReadInv
<1>8. TuneInv'
    BY <1>1, <1>3, <1>4, <1>5 DEF TuneInv
<1>9. Handed'
  <2>1. W \in Nat \ {0} /\ fifo \in Seq(Word) /\ Whole(fifo)
      BY <1>2, ImuAssumption DEF FifoInv
  <2>2. SetCount(fifo) >= 1 /\ 0 \in 0..(SetCount(fifo) - 1)
      BY <1>3, <1>4
  <2>3. \A i \in 1..W : i \in 1..Len(fifo) /\ fifo[i].pos = i /\ fifo[i].set = fifo[1].set
    <3>1. SUFFICES ASSUME NEW i \in 1..W
                   PROVE  i \in 1..Len(fifo) /\ fifo[i].pos = i /\ fifo[i].set = fifo[1].set
        OBVIOUS
    <3>2. 0 * W + i = i /\ 0 * W + 1 = 1
        BY <2>1
    <3>3. 0 * W + i \in 1..(SetCount(fifo) * W)
        BY <1>3, <2>2, WordPlaces
    <3>4. Len(fifo) = SetCount(fifo) * W
        BY <2>1 DEF Whole
    <3>5. fifo[0 * W + i].pos = i /\ fifo[0 * W + i].set = fifo[0 * W + 1].set
        BY <2>1, <2>2 DEF Whole
    <3>6. QED
        BY <3>2, <3>3, <3>4, <3>5
  <2>4. Len(reading') = W
      BY <1>1, <2>1
  <2>5. \A i \in 1..W : reading'[i].word = fifo[i]
                        /\ reading'[i].used = IF i <= W \div 2 THEN scale.gy ELSE scale.xl
    <3>1. SUFFICES ASSUME NEW i \in 1..W
                   PROVE  reading'[i].word = fifo[i]
                          /\ reading'[i].used = IF i <= W \div 2 THEN scale.gy ELSE scale.xl
        OBVIOUS
    <3>2. i <= Len(fifo)
        BY <2>1, <2>3
    <3>3. reading'[i] = Scaled(fifo[i], i)
        BY <1>1, <3>2
    <3>4. QED
        BY <3>3 DEF Scaled
  <2>6. \A i \in 1..W : fifo[i].range = IF i <= W \div 2 THEN scale.gy ELSE scale.xl
      BY <1>4, <2>3 DEF Tuned
  <2>7. 1 \in 1..W
      BY <2>1
  <2>8. QED
      BY <2>3, <2>4, <2>5, <2>6, <2>7 DEF Handed
<1>10. QED
    BY <1>3, <1>6, <1>7, <1>8, <1>9 DEF ImuInv

\* A burst that fails has taken nothing from the FIFO, or a whole set.
WholeBursts == Torn \subseteq {0, W}

LEMMA ReadFailsInv ==
    ASSUME WholeBursts, ImuInv, ReadFails, Edge, UNCHANGED bus
    PROVE  ImuInv'
<1>1. /\ reading' = <<>> /\ op \in {"level", "burst"}
      /\ UNCHANGED <<exti, scale, todo, setup, max, mode>>
    BY DEF ReadFails
<1>2. ChipTyped /\ CallTyped /\ FifoInv /\ TuneInv /\ ReadInv
    BY DEF ImuInv
<1>3. /\ op' = "none" /\ avail' = 0 /\ got' = 0 /\ notified' \in BOOLEAN
  <2>1. PICK n : Return(n)
      BY DEF ReadFails
  <2>2. QED
      BY <2>1 DEF Return
<1>4. /\ ChipTyped' /\ FifoInv'
      /\ \A sc : Tuned(chip, out, fifo, sc) => Tuned(chip', out', fifo', sc)
  <2>1. CASE UNCHANGED chipVars
      BY <1>2, <2>1 DEF ChipTyped, FifoInv, chipVars
  <2>2. CASE \E n \in Torn : Pop(n)
    <3>1. PICK n \in Torn : Pop(n)
        BY <2>2
    <3>2. n \in {0, W}
        BY <3>1 DEF WholeBursts
    <3>3. QED
        BY <3>1, <3>2, PopStep
  <2>3. QED
      BY <2>1, <2>2 DEF ReadFails
<1>5. CallTyped'
  <2>1. pending' \in BOOLEAN
      BY <1>2, EdgeTyped
  <2>2. avail' \in 0..max' /\ got' \in 0..avail'
      BY <1>1, <1>2, <1>3, ImuAssumption DEF CallTyped
  <2>3. ~Calling' /\ ~Calling
      BY <1>1, <1>3 DEF Calling
  <2>4. QED
      BY <1>1, <1>2, <1>3, <2>1, <2>2, <2>3 DEF CallTyped
<1>6. ReadInv' /\ TuneInv'
  <2>1. mode' = "run" /\ Tuned(chip', out', fifo', scale')
      BY <1>1, <1>2, <1>4 DEF TuneInv
  <2>2. QED
      BY <1>3, <2>1 DEF ReadInv, TuneInv
<1>7. QED
    BY <1>1, <1>4, <1>5, <1>6, NothingHanded DEF ImuInv

----------------------------------------------------------------------------
\* The processor, and the specification

LEMMA CallbackInv ==
    ASSUME ImuInv, EXTI_Callback
    PROVE  ImuInv'
<1>1. /\ pending' = FALSE /\ notified' = TRUE /\ reading' = <<>>
      /\ UNCHANGED <<chipVars, bus, exti, driver, mode>>
    BY DEF EXTI_Callback
<1>2. CallTyped'
    BY <1>1 DEF ImuInv, CallTyped, driver, Calling
<1>3. QED
    BY <1>1, <1>2, QuietChip, NothingHanded DEF ImuInv, driver

LEMMA ResetInv ==
    ASSUME ImuInv, Reset
    PROVE  ImuInv'
<1>1. /\ exti' = FALSE /\ pending' = FALSE /\ op' = "none" /\ todo' = <<>>
      /\ avail' = 0 /\ got' = 0 /\ reading' = <<>> /\ mode' = "off" /\ notified' = FALSE
      /\ UNCHANGED <<chipVars, bus, setup, max>>
    BY DEF Reset
<1>2. ChipTyped /\ CallTyped /\ FifoInv
    BY DEF ImuInv
<1>3. ChipTyped' /\ FifoInv' /\ ReadInv' /\ TuneInv'
    BY <1>1, <1>2 DEF ChipTyped, FifoInv, ReadInv, TuneInv, chipVars
<1>4. max \in Nat
    BY <1>2, ImuAssumption DEF CallTyped
<1>5. avail' \in 0..max' /\ got' \in 0..avail' /\ todo' \in Seq(Steps)
    BY <1>1, <1>4
<1>6. ~Calling'
    BY <1>1 DEF Calling
<1>7. CallTyped'
    BY <1>1, <1>2, <1>5, <1>6 DEF CallTyped
<1>8. QED
    BY <1>1, <1>3, <1>7, NothingHanded DEF ImuInv

LEMMA ImuStepInv ==
    ASSUME WholeBursts, WholeLoss
    PROVE  ImuInv /\ [ImuNext]_imuVars => ImuInv'
<1>1. SUFFICES ASSUME ImuInv, [ImuNext]_imuVars PROVE ImuInv'
    OBVIOUS
<1>2. CASE World /\ Edge /\ UNCHANGED <<bus, exti>>
    BY <1>1, <1>2, WorldInv
<1>3. CASE (Application \/ Answer \/ Drive) /\ Edge /\ UNCHANGED bus
  <2>1. CASE Application
      BY <1>1, <1>3, <2>1, CallInv, ReadOutputInv, ApplicationInv DEF Application
  <2>2. CASE Answer
      BY <1>1, <1>3, <2>2, BeginReadInv, ApplicationInv DEF Answer
  <2>3. CASE Drive
      BY <1>1, <1>3, <2>3, AccessInv, AccessFailsInv, ReadLevelInv, BurstInv, ReadFailsInv DEF Drive
  <2>4. QED
      BY <1>3, <2>1, <2>2, <2>3
<1>4. CASE EXTI_Callback
    BY <1>1, <1>4, CallbackInv
<1>5. CASE Reset
    BY <1>1, <1>5, ResetInv
<1>6. CASE UNCHANGED imuVars
  <2>1. UNCHANGED <<chipVars, bus, exti, pending, driver, reading, app>>
      BY <1>6 DEF imuVars
  <2>2. CallTyped' /\ Handed'
      BY <1>1, <2>1 DEF ImuInv, CallTyped, Handed, driver, app, Calling
  <2>3. QED
      BY <1>1, <2>1, <2>2, QuietChip DEF ImuInv, driver, app
<1>7. QED
    BY <1>1, <1>2, <1>3, <1>4, <1>5, <1>6 DEF ImuNext

\* ReadingsTrue: whatever accesses fail, wherever the processor is reset, however often
\* the FIFO overflows, however much larger it is than the word count tells, and however
\* the application changes between measuring, sleeping and measuring with other ranges,
\* every set handed over is one set of the chip's, converted with the range it was taken
\* with; for a chip whose FIFO gives away whole sets, to a burst that fails and to the
\* next set when it is full.
THEOREM ReadingsAreTrue ==
    ASSUME WholeBursts, WholeLoss
    PROVE  ImuSpec => []ReadingsTrue
<1>1. ImuPowerOn => ImuInv
    BY ImuInitInv
<1>2. ImuInv /\ [ImuNext]_imuVars => ImuInv'
    BY ImuStepInv
<1>3. ImuInv => ReadingsTrue
    BY InvImplies
<1>4. QED
    BY <1>1, <1>2, <1>3, PTL DEF ImuSpec

----------------------------------------------------------------------------
\* Formatting: sequences that are joined, numbers and their places, the turns of the
\* formatter

\* f[k] joins the first k of the sequences s.
Joins(s, n, f) ==
    /\ f[0] = << >>
    /\ \A k \in 1..n : f[k] = f[k - 1] \o s[k]

LEMMA JoinExists ==
    ASSUME NEW S, NEW s \in Seq(Seq(S)), NEW n, n = Len(s)
    PROVE  \E f \in [0..n -> Seq(S)] : Joins(s, n, f)
<1> DEFINE T == {k \in Nat : k <= n => \E f \in [0..k -> Seq(S)] : Joins(s, k, f)}
<1>1. n \in Nat /\ \A k \in 1..n : s[k] \in Seq(S)
    OBVIOUS
<1>2. 0 \in T
  <2> DEFINE f == [k \in 0..0 |-> << >>]
  <2>1. f \in [0..0 -> Seq(S)] /\ f[0] = << >>
      OBVIOUS
  <2> HIDE DEF f
  <2>2. Joins(s, 0, f)
      BY <2>1 DEF Joins
  <2>3. QED
      BY <2>1, <2>2
<1>3. ASSUME NEW k \in Nat, k \in T PROVE k + 1 \in T
  <2>1. SUFFICES ASSUME k + 1 <= n
                 PROVE  \E f \in [0..(k + 1) -> Seq(S)] : Joins(s, k + 1, f)
      OBVIOUS
  <2>2. PICK f \in [0..k -> Seq(S)] : Joins(s, k, f)
      BY <1>1, <1>3, <2>1
  <2> DEFINE e == f[k] \o s[k + 1]
             g == [i \in 0..(k + 1) |-> IF i = k + 1 THEN e ELSE f[i]]
  <2>3. e \in Seq(S)
    <3>1. f[k] \in Seq(S) /\ s[k + 1] \in Seq(S)
        BY <1>1, <2>1
    <3>2. QED
        BY <3>1, ConcatProperties
  <2>4. \A i \in 0..(k + 1) : g[i] = IF i = k + 1 THEN e ELSE f[i]
      OBVIOUS
  <2>5. g \in [0..(k + 1) -> Seq(S)]
      BY <2>3
  <2> HIDE DEF g
  <2>6. ASSUME NEW i \in 1..(k + 1) PROVE g[i] = g[i - 1] \o s[i]
    <3>1. CASE i = k + 1
      <4>1. i - 1 = k /\ k # k + 1 /\ k \in 0..(k + 1) /\ k + 1 \in 0..(k + 1)
          BY <3>1
      <4>2. g[i] = e /\ g[i - 1] = f[k]
          BY <2>4, <3>1, <4>1
      <4>3. QED
          BY <3>1, <4>2
    <3>2. CASE i # k + 1
      <4>1. i \in 1..k /\ i - 1 \in 0..k /\ i - 1 # k + 1
          BY <3>2
      <4>2. g[i] = f[i] /\ g[i - 1] = f[i - 1]
          BY <2>4, <4>1
      <4>3. QED
          BY <2>2, <4>1, <4>2 DEF Joins
    <3>3. QED
        BY <3>1, <3>2
  <2>7. g[0] = << >>
      BY <2>2, <2>4 DEF Joins
  <2>8. Joins(s, k + 1, g)
      BY <2>6, <2>7 DEF Joins
  <2>9. QED
      BY <2>5, <2>8
<1> HIDE DEF T
<1>4. n \in T
    BY <1>1, <1>2, <1>3, AllNaturals
<1>5. QED
    BY <1>1, <1>4 DEF T

\* FlattenSeq joins all of them.
LEMMA Joined ==
    ASSUME NEW S, NEW s \in Seq(Seq(S)), NEW n, n = Len(s), NEW f \in [0..n -> Seq(S)], Joins(s, n, f)
    PROVE  FlattenSeq(s) = f[n]
<1> DEFINE Flat(g) == g = [i \in 1..n |-> IF i = 1 THEN s[i] ELSE g[i - 1] \o s[i]]
           h == [i \in 1..n |-> f[i]]
           g == CHOOSE g : Flat(g)
<1>1. n \in Nat /\ \A k \in 1..n : s[k] \in Seq(S) /\ f[k] = f[k - 1] \o s[k]
    BY DEF Joins
<1>2. f[0] = << >>
    BY DEF Joins
<1>3. CASE n = 0
  <2>1. s = << >>
      BY <1>3, EmptySeq
  <2>2. FlattenSeq(s) = s
      BY <1>3, Zenon DEF FlattenSeq
  <2>3. QED
      BY <1>2, <1>3, <2>1, <2>2
<1>4. CASE n # 0
  <2>1. FlattenSeq(s) = g[n]
      BY <1>4, Zenon DEF FlattenSeq
  <2>2. Flat(h)
    <3>1. ASSUME NEW i \in 1..n PROVE h[i] = IF i = 1 THEN s[i] ELSE h[i - 1] \o s[i]
      <4>1. CASE i = 1
        <5>1. f[1] = f[0] \o s[1]
          <6>1. 1 \in 1..n /\ 1 - 1 = 0
              BY <1>1, <1>4
          <6>2. QED
              BY <1>1, <6>1
        <5>2. << >> \o s[1] = s[1]
            BY <1>1, <4>1, ConcatEmptySeq
        <5>3. QED
            BY <1>2, <4>1, <5>1, <5>2
      <4>2. CASE i # 1
        <5>1. i - 1 \in 1..n
            BY <1>1, <4>2
        <5>2. QED
            BY <1>1, <4>2, <5>1
      <4>3. QED
          BY <4>1, <4>2
    <3>2. h = [i \in 1..n |-> h[i]]
        OBVIOUS
    <3> HIDE DEF h
    <3>3. QED
        BY <3>1, <3>2, Zenon
  <2>3. Flat(g)
      BY <2>2, Zenon
  <2> HIDE DEF g
  <2>4. \A i \in 1..n : g[i] = IF i = 1 THEN s[i] ELSE g[i - 1] \o s[i]
    <3>1. g = [i \in 1..n |-> IF i = 1 THEN s[i] ELSE g[i - 1] \o s[i]]
        BY <2>3
    <3>2. QED
        BY <3>1
  <2>5. \A i \in 1..n : h[i] = IF i = 1 THEN s[i] ELSE h[i - 1] \o s[i]
    <3>1. h = [i \in 1..n |-> IF i = 1 THEN s[i] ELSE h[i - 1] \o s[i]]
        BY <2>2
    <3> HIDE DEF h
    <3>2. QED
        BY <3>1
  <2> HIDE DEF Flat
  <2> DEFINE T == {k \in Nat : k + 1 <= n => g[k + 1] = h[k + 1]}
  <2>6. 0 \in T
    <3>1. 1 \in 1..n /\ 0 + 1 = 1
        BY <1>1, <1>4
    <3>2. g[1] = s[1] /\ h[1] = s[1]
        BY <2>4, <2>5, <3>1
    <3> HIDE DEF h
    <3>3. QED
        BY <3>1, <3>2
  <2>7. ASSUME NEW k \in Nat, k \in T PROVE k + 1 \in T
    <3>1. SUFFICES ASSUME (k + 1) + 1 <= n PROVE g[(k + 1) + 1] = h[(k + 1) + 1]
        OBVIOUS
    <3> DEFINE i == (k + 1) + 1
    <3>2. i \in 1..n /\ i # 1 /\ i - 1 = k + 1 /\ g[k + 1] = h[k + 1]
        BY <1>1, <2>7, <3>1
    <3> HIDE DEF i, h
    <3>3. g[i] = h[i]
        BY <2>4, <2>5, <3>2
    <3>4. QED
        BY <3>3 DEF i
  <2> HIDE DEF T
  <2>8. PICK k \in Nat : k + 1 = n
    <3>1. n - 1 \in Nat /\ (n - 1) + 1 = n
        BY <1>1, <1>4
    <3>2. QED
        BY <3>1
  <2>9. k \in T
      BY <2>6, <2>7, AllNaturals
  <2>10. g[n] = h[n]
      BY <2>8, <2>9 DEF T
  <2>11. n \in 1..n
      BY <1>1, <1>4
  <2>12. QED
      BY <2>1, <2>10, <2>11
<1>5. QED
    BY <1>3, <1>4

\* What has been joined stays where it is.
PartsKept(s, n, f) ==
    /\ \A k \in 1..n : Len(f[k]) = Len(f[k - 1]) + Len(s[k])
    /\ \A k \in 0..n : Len(f[k]) \in Nat /\ Len(f[k]) <= Len(f[n])
    /\ \A k \in 1..n : \A i \in 1..Len(s[k]) :
          Len(f[k - 1]) + i \in 1..Len(f[n]) /\ f[n][Len(f[k - 1]) + i] = s[k][i]

LEMMA JoinedParts ==
    ASSUME NEW S, NEW s \in Seq(Seq(S)), NEW n, n = Len(s), NEW f \in [0..n -> Seq(S)], Joins(s, n, f)
    PROVE  PartsKept(s, n, f)
<1>1. n \in Nat /\ \A k \in 1..n : s[k] \in Seq(S) /\ f[k] = f[k - 1] \o s[k] /\ k - 1 \in 0..n
    BY DEF Joins
<1>2. \A k \in 0..n : f[k] \in Seq(S) /\ Len(f[k]) \in Nat
    BY <1>1
<1>3. ASSUME NEW k \in 1..n
      PROVE  /\ Len(f[k]) = Len(f[k - 1]) + Len(s[k]) /\ Len(s[k]) \in Nat
             /\ \A i \in 1..Len(f[k - 1]) : f[k][i] = f[k - 1][i]
             /\ \A i \in 1..Len(s[k]) : f[k][Len(f[k - 1]) + i] = s[k][i]
  <2> DEFINE a == f[k - 1]
             b == s[k]
  <2>1. a \in Seq(S) /\ b \in Seq(S) /\ f[k] = a \o b
      BY <1>1, <1>2
  <2> HIDE DEF a, b
  <2>2. /\ Len(a \o b) = Len(a) + Len(b) /\ Len(a) \in Nat /\ Len(b) \in Nat
        /\ \A i \in 1..(Len(a) + Len(b)) : (a \o b)[i] = IF i <= Len(a) THEN a[i] ELSE b[i - Len(a)]
      BY <2>1, ConcatProperties
  <2>3. \A i \in 1..Len(a) : f[k][i] = a[i]
      BY <2>1, <2>2
  <2>4. ASSUME NEW i \in 1..Len(b) PROVE f[k][Len(a) + i] = b[i]
    <3>1. /\ Len(a) + i \in 1..(Len(a) + Len(b)) /\ ~(Len(a) + i <= Len(a))
          /\ (Len(a) + i) - Len(a) = i
        BY <2>2
    <3>2. QED
        BY <2>1, <2>2, <3>1
  <2>5. QED
      BY <2>1, <2>2, <2>3, <2>4 DEF a, b
<1> DEFINE Stays(k, m) == Len(f[k]) <= Len(f[m]) /\ \A i \in 1..Len(f[k]) : f[m][i] = f[k][i]
<1>4. ASSUME NEW k \in 0..n PROVE \A m \in Nat : k + m <= n => Stays(k, k + m)
  <2> DEFINE T == {m \in Nat : k + m <= n => Stays(k, k + m)}
  <2>1. 0 \in T
      BY <1>2
  <2>2. ASSUME NEW m \in Nat, m \in T PROVE m + 1 \in T
    <3>1. SUFFICES ASSUME k + (m + 1) <= n PROVE Stays(k, k + (m + 1))
        OBVIOUS
    <3> DEFINE x == k + m
               y == k + (m + 1)
    <3>2. x \in 0..n /\ y \in 1..n /\ y - 1 = x
        BY <1>1, <3>1
    <3>3. Stays(k, x)
        BY <1>1, <2>2, <3>1
    <3> HIDE DEF x, y
    <3>4. /\ Len(f[y]) = Len(f[x]) + Len(s[y]) /\ Len(s[y]) \in Nat
          /\ \A i \in 1..Len(f[x]) : f[y][i] = f[x][i]
        BY <1>3, <3>2
    <3>5. Len(f[k]) \in Nat /\ Len(f[x]) \in Nat
        BY <1>2, <3>2
    <3>6. Stays(k, y)
      <4>1. Len(f[k]) <= Len(f[y])
        <5>1. Len(f[k]) <= Len(f[x])
            BY <3>3
        <5>2. Len(f[y]) = Len(f[x]) + Len(s[y]) /\ Len(s[y]) \in Nat
            BY <3>4
        <5>3. \A a, b, c, d \in Nat : a <= b /\ c = b + d => a <= c
            OBVIOUS
        <5>4. Len(f[y]) \in Nat
            BY <1>2, <3>2
        <5>5. QED
            BY <3>5, <5>1, <5>2, <5>3, <5>4
      <4>2. ASSUME NEW i \in 1..Len(f[k]) PROVE f[y][i] = f[k][i]
        <5>1. i \in 1..Len(f[x]) /\ f[x][i] = f[k][i]
            BY <3>3, <3>5
        <5>2. QED
            BY <3>4, <5>1
      <4>3. QED
          BY <4>1, <4>2
    <3>7. QED
        BY <3>6 DEF y
  <2> HIDE DEF T
  <2>3. Nat \subseteq T
      BY <2>1, <2>2, AllNaturals
  <2>4. QED
      BY <2>3 DEF T
<1>5. ASSUME NEW k \in 0..n PROVE Stays(k, n)
  <2>1. PICK m \in Nat : k + m = n
    <3>1. n - k \in Nat /\ k + (n - k) = n
        BY <1>1
    <3>2. QED
        BY <3>1
  <2>2. k + m <= n
      BY <1>1, <2>1
  <2>3. QED
      BY <1>4, <2>1, <2>2
<1>6. ASSUME NEW k \in 1..n, NEW i \in 1..Len(s[k])
      PROVE  Len(f[k - 1]) + i \in 1..Len(f[n]) /\ f[n][Len(f[k - 1]) + i] = s[k][i]
  <2>1. Len(f[k - 1]) \in Nat /\ Len(f[k]) \in Nat /\ Len(f[n]) \in Nat /\ n \in 0..n /\ k \in 0..n
      BY <1>1, <1>2
  <2>2. f[k][Len(f[k - 1]) + i] = s[k][i] /\ Len(f[k]) = Len(f[k - 1]) + Len(s[k]) /\ Len(s[k]) \in Nat
      BY <1>3
  <2>3. Stays(k, n)
      BY <1>5, <2>1
  <2> DEFINE x == Len(f[k - 1]) + i
  <2>4. x \in 1..Len(f[k]) /\ Len(f[k]) <= Len(f[n])
    <3>1. \A a, b, c \in Nat : i \in 1..c /\ b = a + c => a + i \in 1..b
        OBVIOUS
    <3>2. QED
        BY <2>1, <2>2, <2>3, <3>1
  <2> HIDE DEF x
  <2>5. f[n][x] = f[k][x] /\ x \in 1..Len(f[n])
      BY <2>1, <2>3, <2>4
  <2>6. QED
      BY <2>2, <2>5 DEF x
<1>7. \A k \in 0..n : Len(f[k]) <= Len(f[n])
    BY <1>5
<1>8. QED
    BY <1>2, <1>3, <1>6, <1>7 DEF PartsKept

\* A function can be applied again and again.
LEMMA RepeatExists ==
    ASSUME NEW S, NEW x \in S, NEW f \in [S -> S]
    PROVE  \E g \in [Nat -> S] : g[0] = x /\ \A k \in Nat : g[k + 1] = f[g[k]]
<1> DEFINE From(g, n) == g[0] = x /\ \A k \in 1..n : g[k] = f[g[k - 1]]
           T == {n \in Nat : \E g \in [0..n -> S] : From(g, n)}
           h == [n \in Nat |-> CHOOSE g \in [0..n -> S] : From(g, n)]
           r == [n \in Nat |-> h[n][n]]
<1>1. 0 \in T
  <2> DEFINE g == [k \in 0..0 |-> x]
  <2>1. g \in [0..0 -> S] /\ g[0] = x
      OBVIOUS
  <2> HIDE DEF g
  <2>2. From(g, 0)
      BY <2>1
  <2>3. QED
      BY <2>1, <2>2
<1>2. ASSUME NEW n \in Nat, n \in T PROVE n + 1 \in T
  <2>1. PICK g \in [0..n -> S] : From(g, n)
      BY <1>2
  <2> DEFINE y == f[g[n]]
             e == [i \in 0..(n + 1) |-> IF i = n + 1 THEN y ELSE g[i]]
  <2>2. y \in S
      OBVIOUS
  <2>3. e \in [0..(n + 1) -> S] /\ \A i \in 0..(n + 1) : e[i] = IF i = n + 1 THEN y ELSE g[i]
      BY <2>2
  <2> HIDE DEF e
  <2>4. ASSUME NEW i \in 1..(n + 1) PROVE e[i] = f[e[i - 1]]
    <3>1. CASE i = n + 1
      <4>1. i - 1 = n /\ n # n + 1 /\ n \in 0..(n + 1) /\ n + 1 \in 0..(n + 1)
          BY <3>1
      <4>2. e[i] = y /\ e[i - 1] = g[n]
          BY <2>3, <3>1, <4>1
      <4>3. QED
          BY <4>2
    <3>2. CASE i # n + 1
      <4>1. i \in 1..n /\ i - 1 \in 0..n /\ i - 1 # n + 1
          BY <3>2
      <4>2. e[i] = g[i] /\ e[i - 1] = g[i - 1]
          BY <2>3, <4>1
      <4>3. QED
          BY <2>1, <4>1, <4>2
    <3>3. QED
        BY <3>1, <3>2
  <2>5. e[0] = x
      BY <2>1, <2>3
  <2>6. From(e, n + 1)
      BY <2>4, <2>5
  <2>7. QED
      BY <2>3, <2>6
<1> HIDE DEF T
<1>3. \A n \in Nat : n \in T
    BY <1>1, <1>2, AllNaturals
<1>4. ASSUME NEW n \in Nat PROVE h[n] \in [0..n -> S] /\ From(h[n], n)
  <2>1. \E g \in [0..n -> S] : From(g, n)
      BY <1>3 DEF T
  <2>2. h[n] = CHOOSE g \in [0..n -> S] : From(g, n)
      OBVIOUS
  <2> HIDE DEF h, From
  <2>3. QED
      BY <2>1, <2>2, Zenon
<1> HIDE DEF h
\* Those of all lengths agree.
<1>5. ASSUME NEW n \in Nat PROVE h[n + 1][n] = h[n][n]
  <2> DEFINE d == h[n]
             e == h[n + 1]
             U == {k \in Nat : k <= n => e[k] = d[k]}
  <2>1. From(d, n) /\ From(e, n + 1)
      BY <1>4
  <2> HIDE DEF d, e
  <2>2. 0 \in U
      BY <2>1
  <2>3. ASSUME NEW k \in Nat, k \in U PROVE k + 1 \in U
    <3>1. SUFFICES ASSUME k + 1 <= n PROVE e[k + 1] = d[k + 1]
        OBVIOUS
    <3> DEFINE i == k + 1
    <3>2. i \in 1..n /\ i \in 1..(n + 1) /\ i - 1 = k /\ e[k] = d[k]
        BY <2>3, <3>1
    <3> HIDE DEF i
    <3>3. e[i] = d[i]
        BY <2>1, <3>2
    <3>4. QED
        BY <3>3 DEF i
  <2> HIDE DEF U
  <2>4. n \in U
      BY <2>2, <2>3, AllNaturals
  <2>5. QED
      BY <2>4 DEF U, d, e
<1>6. r \in [Nat -> S] /\ \A n \in Nat : r[n] = h[n][n]
  <2>1. ASSUME NEW n \in Nat PROVE h[n][n] \in S
    <3>1. h[n] \in [0..n -> S] /\ n \in 0..n
        BY <1>4
    <3>2. QED
        BY <3>1
  <2>2. QED
      BY <2>1
<1> HIDE DEF r
<1>7. r[0] = x
    BY <1>4, <1>6
<1>8. ASSUME NEW n \in Nat PROVE r[n + 1] = f[r[n]]
  <2> DEFINE m == n + 1
  <2>1. m \in Nat /\ m \in 1..m /\ m - 1 = n
      OBVIOUS
  <2>2. h[m][n] = h[n][n]
      BY <1>5
  <2> HIDE DEF m
  <2>3. h[m][m] = f[h[m][n]]
      BY <1>4, <2>1
  <2>4. QED
      BY <1>6, <2>1, <2>2, <2>3 DEF m
<1>9. QED
    BY <1>6, <1>7, <1>8

----------------------------------------------------------------------------
\* Numbers

LEMMA PowerFacts ==
    ASSUME NEW b \in Nat, b >= 2
    PROVE  /\ Power(b, 0) = 1
           /\ \A n \in Nat : Power(b, n) \in Nat /\ Power(b, n) > n /\ Power(b, n + 1) = b * Power(b, n)
<1> DEFINE Solves(g) == g = [i \in Nat |-> IF i = 0 THEN 1 ELSE b * g[i - 1]]
           p == CHOOSE g : Solves(g)
           f == [y \in Nat |-> b * y]
<1>1. \A n \in Nat : Power(b, n) = p[n]
    BY Zenon DEF Power
<1>2. PICK g \in [Nat -> Nat] : g[0] = 1 /\ \A k \in Nat : g[k + 1] = f[g[k]]
  <2> DEFINE one == 1
             N == Nat
  <2>1. f \in [N -> N] /\ one \in N
      OBVIOUS
  <2> HIDE DEF f, one, N
  <2>2. \E g \in [Nat -> N] : g[0] = one /\ \A k \in Nat : g[k + 1] = f[g[k]]
      BY <2>1, RepeatExists
  <2>3. QED
      BY <2>2 DEF one, N
<1>3. Solves(g)
  <2>1. ASSUME NEW i \in Nat PROVE g[i] = IF i = 0 THEN 1 ELSE b * g[i - 1]
    <3>1. CASE i = 0
        BY <1>2, <3>1
    <3>2. CASE i # 0
      <4> DEFINE k == i - 1
      <4>1. k \in Nat /\ i = k + 1
          BY <3>2
      <4> HIDE DEF k
      <4>2. g[i] = b * g[k]
          BY <1>2, <4>1
      <4>3. QED
          BY <3>2, <4>2 DEF k
    <3>3. QED
        BY <3>1, <3>2
  <2>2. g = [i \in Nat |-> g[i]]
      OBVIOUS
  <2>3. QED
      BY <2>1, <2>2, Zenon
<1>4. Solves(p)
    BY <1>3, Zenon
<1> HIDE DEF p
<1>5. p[0] = 1 /\ \A n \in Nat : p[n + 1] = b * p[n]
  <2>1. \A i \in Nat : p[i] = IF i = 0 THEN 1 ELSE b * p[i - 1]
    <3>1. p = [i \in Nat |-> IF i = 0 THEN 1 ELSE b * p[i - 1]]
        BY <1>4
    <3>2. QED
        BY <3>1
  <2>2. \A n \in Nat : n + 1 \in Nat /\ n + 1 # 0 /\ (n + 1) - 1 = n
      OBVIOUS
  <2>3. QED
      BY <2>1, <2>2
<1> DEFINE T == {n \in Nat : p[n] \in Nat /\ p[n] > n}
<1>6. 0 \in T
    BY <1>5
<1>7. ASSUME NEW n \in Nat, n \in T PROVE n + 1 \in T
  <2>1. p[n] \in Nat /\ p[n] > n /\ p[n + 1] = b * p[n]
      BY <1>5, <1>7
  <2> DEFINE a == p[n]
             c == b * a
  <2> HIDE DEF a
  <2>2. c \in Nat /\ c >= 2 * a
    <3>1. a \in Nat
        BY <2>1 DEF a
    <3>2. QED
        BY <3>1, SMT
  <2> HIDE DEF c
  <2>3. c \in Nat /\ c > n + 1
      BY <2>1, <2>2 DEF a
  <2>4. QED
      BY <2>1, <2>3 DEF a, c
<1> HIDE DEF T
<1>8. \A n \in Nat : n \in T
    BY <1>6, <1>7, AllNaturals
<1>9. QED
    BY <1>1, <1>5, <1>8 DEF T

\* Powers ascend.
LEMMA PowersAscend ==
    ASSUME NEW b \in Nat, b >= 2, NEW m \in Nat
    PROVE  \A n \in Nat : m <= n => Power(b, m) <= Power(b, n)
<1> DEFINE T == {n \in Nat : m <= n => Power(b, m) <= Power(b, n)}
<1>1. \A n \in Nat : Power(b, n) \in Nat /\ Power(b, n) > n /\ Power(b, n + 1) = b * Power(b, n)
    BY PowerFacts
<1>2. 0 \in T
  <2>1. m <= 0 => m = 0
      OBVIOUS
  <2>2. QED
      BY <1>1, <2>1
<1>3. ASSUME NEW n \in Nat, n \in T PROVE n + 1 \in T
  <2>1. SUFFICES ASSUME m <= n + 1 PROVE Power(b, m) <= Power(b, n + 1)
      OBVIOUS
  <2>2. CASE m = n + 1
      BY <1>1, <2>2
  <2>3. CASE m # n + 1
    <3>1. m <= n
        BY <2>1, <2>3
    <3> DEFINE a == Power(b, n)
               c == b * a
    <3>2. a \in Nat /\ Power(b, m) \in Nat /\ Power(b, m) <= a /\ Power(b, n + 1) = c
        BY <1>1, <1>3, <3>1
    <3> HIDE DEF a
    <3>3. c \in Nat /\ c >= a
        BY <3>2, SMT
    <3> HIDE DEF c
    <3>4. QED
        BY <3>2, <3>3
  <2>4. QED
      BY <2>2, <2>3
<1> HIDE DEF T
<1>4. \A n \in Nat : n \in T
    BY <1>2, <1>3, AllNaturals
<1>5. QED
    BY <1>4 DEF T

\* The number of places of v.
IsLength(b, v, k) == k \in Nat \ {0} /\ v < Power(b, k) /\ (k > 1 => v >= Power(b, k - 1))

LEMMA LengthUnique ==
    ASSUME NEW b \in Nat, b >= 2, NEW v \in Nat, NEW k, IsLength(b, v, k), NEW l, IsLength(b, v, l)
    PROVE  ~(k < l)
<1>1. SUFFICES ASSUME k < l PROVE FALSE
    OBVIOUS
<1>2. k \in Nat /\ l - 1 \in Nat /\ k <= l - 1 /\ l > 1 /\ v < Power(b, k) /\ v >= Power(b, l - 1)
    BY <1>1 DEF IsLength
<1> DEFINE m == l - 1
<1>3. Power(b, k) <= Power(b, m) /\ Power(b, k) \in Nat /\ Power(b, m) \in Nat
    BY <1>2, PowersAscend, PowerFacts
<1>4. QED
    BY <1>2, <1>3

LEMMA LengthExists ==
    ASSUME NEW b \in Nat, b >= 2, NEW v \in Nat
    PROVE  \E k \in 1..(v + 1) : IsLength(b, v, k)
<1> DEFINE U == {k \in Nat : k >= 1 /\ v < Power(b, k)}
<1>1. v + 1 \in U
  <2> DEFINE n == v + 1
  <2>1. n \in Nat /\ n >= 1 /\ n > v
      OBVIOUS
  <2>2. Power(b, n) > n /\ Power(b, n) \in Nat
      BY <2>1, PowerFacts
  <2> HIDE DEF n
  <2>3. n \in U
      BY <2>1, <2>2
  <2>4. QED
      BY <2>3 DEF n
<1>2. PICK k \in U : \A l \in U : k <= l
    BY <1>1, LeastMember
<1>3. k \in 1..(v + 1)
    BY <1>1, <1>2
<1>4. ASSUME k > 1 PROVE v >= Power(b, k - 1)
  <2> DEFINE m == k - 1
  <2>1. m \in Nat /\ m >= 1 /\ m < k
      BY <1>2, <1>4
  <2>2. Power(b, m) \in Nat
      BY <2>1, PowerFacts
  <2> HIDE DEF m
  <2>3. ~(v < Power(b, m))
      BY <1>2, <2>1
  <2>4. v >= Power(b, m)
      BY <2>2, <2>3
  <2>5. QED
      BY <2>4 DEF m
<1>5. QED
    BY <1>2, <1>3, <1>4 DEF IsLength

\* The number of places Places takes.
PlacesFor(b, v, k) == [i \in 1..k |-> Digit[((v \div Power(b, k - i)) % b) + 1]]

LEMMA PlacesOfLength ==
    ASSUME NEW b \in Nat, b >= 2, NEW v \in Nat, NEW k, IsLength(b, v, k)
    PROVE  Places(b, v) = PlacesFor(b, v, k)
<1> DEFINE Fits(l) == v < Power(b, l) /\ (l > 1 => v >= Power(b, l - 1))
           m == CHOOSE l \in 1..(v + 1) : Fits(l)
<1>1. PICK l \in 1..(v + 1) : IsLength(b, v, l)
    BY LengthExists
<1>2. Fits(l)
    BY <1>1 DEF IsLength
<1> HIDE DEF Fits
<1>3. m \in 1..(v + 1) /\ Fits(m)
    BY <1>2, Zenon
<1> USE DEF Fits
<1>4. Places(b, v) = PlacesFor(b, v, m)
    BY Zenon DEF Places, PlacesFor
<1> HIDE DEF m
<1>5. IsLength(b, v, m)
    BY <1>3 DEF IsLength
<1>6. ~(m < k) /\ ~(k < m)
    BY <1>5, LengthUnique
<1>7. m = k
    BY <1>5, <1>6 DEF IsLength
<1>8. QED
    BY <1>4, <1>7

\* Dividing twice.
LEMMA DividedTwice ==
    ASSUME NEW v \in Nat, NEW b \in Nat \ {0}, NEW c \in Nat \ {0}
    PROVE  v \div (b * c) = (v \div b) \div c
<1> DEFINE q == v \div b
           r == v % b
           t == q \div c
           u == q % c
           m == b * c
           w == u * b + r
<1>1. q \in Int /\ r \in 0..(b - 1) /\ v = b * q + r
    BY DivisionFact
<1> HIDE DEF q, r
<1>2. t \in Int /\ u \in 0..(c - 1) /\ q = c * t + u
    BY <1>1, DivisionFact
<1> HIDE DEF t, u
<1>3. m \in Nat \ {0}
    BY SMT
<1>4. v = m * t + w
  <2>1. b * (c * t + u) = (b * c) * t + u * b
      BY <1>2, SMT
  <2>2. QED
      BY <1>1, <1>2, <2>1
<1>5. w \in 0..(m - 1)
  <2>1. u * b \in Nat /\ u * b + b <= b * c
    <3>1. u \in Nat /\ u + 1 <= c
        BY <1>2
    <3>2. (u + 1) * b <= c * b
        BY <3>1, SMT
    <3>3. (u + 1) * b = u * b + b /\ c * b = b * c /\ u * b \in Nat
        BY <3>1, SMT
    <3>4. QED
        BY <3>2, <3>3
  <2>2. QED
      BY <1>1, <1>3, <2>1
<1> HIDE DEF m, w
<1> DEFINE x == v \div m
           y == v % m
<1>6. x \in Int /\ y \in 0..(m - 1) /\ v = m * x + y
    BY <1>3, DivisionFact
<1> HIDE DEF x, y
<1>7. x = t
  <2>1. m * (x - t) = w - y
      BY <1>2, <1>3, <1>4, <1>5, <1>6, SMT
  <2>2. x - t >= 1 => m * (x - t) >= m
      BY <1>2, <1>3, <1>6, SMT
  <2>3. t - x >= 1 => m * (x - t) <= -m
      BY <1>2, <1>3, <1>6, SMT
  <2>4. ~(x - t >= 1) /\ ~(t - x >= 1)
      BY <1>2, <1>3, <1>5, <1>6, <2>1, <2>2, <2>3
  <2>5. QED
      BY <1>2, <1>6, <2>4
<1>8. QED
    BY <1>7 DEF x, t, m, q

\* The characters that lines and format strings are made of.
Symbol == STRING \cup {"0", "1", "2", "3", "4", "5", "6", "7", "8", "9", "a", "b", "c", "d", "e", "f",
                       "%", "-", " ", "s", "u", "x"}

LEMMA DigitSymbols == \A d \in 0..15 : Digit[d + 1] \in Symbol
<1>1. \A i \in 1..16 : Digit[i] \in Symbol
  <2>1. /\ Digit[1] = "0" /\ Digit[2] = "1" /\ Digit[3] = "2" /\ Digit[4] = "3"
        /\ Digit[5] = "4" /\ Digit[6] = "5" /\ Digit[7] = "6" /\ Digit[8] = "7"
        /\ Digit[9] = "8" /\ Digit[10] = "9" /\ Digit[11] = "a" /\ Digit[12] = "b"
        /\ Digit[13] = "c" /\ Digit[14] = "d" /\ Digit[15] = "e" /\ Digit[16] = "f"
      BY DEF Digit
  <2>2. {"0", "1", "2", "3", "4", "5", "6", "7", "8", "9", "a", "b", "c", "d", "e", "f"} \subseteq Symbol
      BY Zenon DEF Symbol
  <2>3. \A i \in 1..16 : \/ i = 1 \/ i = 2 \/ i = 3 \/ i = 4 \/ i = 5 \/ i = 6 \/ i = 7 \/ i = 8
                         \/ i = 9 \/ i = 10 \/ i = 11 \/ i = 12 \/ i = 13 \/ i = 14 \/ i = 15 \/ i = 16
      OBVIOUS
  <2>4. QED
      BY <2>1, <2>2, <2>3
<1>2. QED
    BY <1>1

\* A number below the base has one place,
LEMMA OnePlace ==
    ASSUME NEW b \in 2..16, NEW v \in 0..(b - 1)
    PROVE  Places(b, v) = <<Digit[v + 1]>>
<1>1. b \in Nat /\ b >= 2 /\ v \in Nat
    OBVIOUS
<1>2. Power(b, 0) = 1 /\ Power(b, 1) = b
  <2>1. Power(b, 0) = 1 /\ \A n \in Nat : Power(b, n + 1) = b * Power(b, n)
      BY <1>1, PowerFacts
  <2>2. 0 + 1 = 1 /\ 0 \in Nat /\ b * 1 = b
      BY <1>1
  <2>3. Power(b, 0 + 1) = b * Power(b, 0)
      BY <2>1, <2>2
  <2>4. QED
      BY <2>1, <2>2, <2>3
<1>3. IsLength(b, v, 1)
    BY <1>1, <1>2 DEF IsLength
<1>4. Places(b, v) = [i \in 1..1 |-> Digit[((v \div Power(b, 1 - i)) % b) + 1]]
  <2> DEFINE one == 1
  <2>1. IsLength(b, v, one)
      BY <1>3
  <2> HIDE DEF one
  <2>2. Places(b, v) = PlacesFor(b, v, one)
      BY <1>1, <2>1, PlacesOfLength
  <2>3. QED
      BY <2>2 DEF one, PlacesFor
<1>5. \A i \in 1..1 : Digit[((v \div Power(b, 1 - i)) % b) + 1] = Digit[v + 1]
  <2>1. v \div 1 = v
      BY <1>1
  <2>2. v % b = v
      BY <1>1, SmallRemainder
  <2>3. \A i \in 1..1 : 1 - i = 0
      OBVIOUS
  <2>4. QED
      BY <1>2, <2>1, <2>2, <2>3
<1>6. Places(b, v) = [i \in 1..1 |-> Digit[v + 1]]
    BY <1>4, <1>5
<1>7. QED
    BY <1>6

\* and any other has one more than without its last place.
LEMMA LastPlace ==
    ASSUME NEW b \in 2..16, NEW v \in Nat, v >= b
    PROVE  /\ v \div b \in Nat \ {0} /\ v \div b < v
           /\ \E k \in Nat \ {0} : \E p \in [1..k -> Symbol] :
                 Places(b, v \div b) = p /\ Places(b, v) = Append(p, Digit[(v % b) + 1])
<1> DEFINE w == v \div b
           r == v % b
<1>0. b \in Nat /\ b >= 2 /\ b \in Nat \ {0}
    OBVIOUS
<1>1. w \in Int /\ r \in 0..(b - 1) /\ v = b * w + r
    BY DivisionFact
<1> HIDE DEF w, r
<1>2. w >= 1 /\ w < v
  <2>1. w <= 0 => b * w <= 0
      BY <1>1, SMT
  <2>2. w >= 1 => b * w >= 2 * w
      BY <1>1, SMT
  <2>3. b * w \in Int
      BY <1>1, SMT
  <2> DEFINE x == b * w
  <2> HIDE DEF x
  <2>4. QED
      BY <1>1, <2>1, <2>2, <2>3 DEF x
<1>3. PICK k \in 1..(w + 1) : IsLength(b, w, k)
    BY <1>0, <1>1, <1>2, LengthExists
<1> DEFINE l == k + 1
           a == Power(b, k)
           c == Power(b, l)
<1>4. k \in Nat /\ k >= 1 /\ a \in Nat /\ w < a /\ c = b * a /\ l \in Nat \ {0} /\ l > 1 /\ l - 1 = k
    BY <1>0, <1>3, PowerFacts DEF IsLength
<1>5. v >= a
  <2>1. CASE k = 1
    <3>1. Power(b, 0 + 1) = b * Power(b, 0) /\ Power(b, 0) = 1
        BY <1>0, PowerFacts
    <3>2. a = b
        BY <2>1, <3>1
    <3>3. QED
        BY <3>2
  <2>2. CASE k # 1
    <3> DEFINE m == k - 1
               d == Power(b, m)
    <3>1. m \in Nat /\ k = m + 1 /\ k > 1
        BY <1>4, <2>2
    <3>2. w >= d
        BY <1>3, <3>1 DEF IsLength
    <3> HIDE DEF m
    <3>3. d \in Nat /\ a = b * d
        BY <1>0, <3>1, PowerFacts
    <3> HIDE DEF d, a
    <3>4. b * w >= b * d
        BY <1>1, <3>2, <3>3, SMT
    <3>5. QED
      <4> DEFINE x == b * w
                 y == b * d
      <4>1. x \in Int /\ y \in Int
          BY <1>1, <3>3, SMT
      <4> HIDE DEF x, y
      <4>2. QED
          BY <1>1, <3>3, <3>4, <4>1 DEF x, y
  <2>3. QED
      BY <2>1, <2>2
<1>6. v < c
  <2> HIDE DEF a, c
  <2>1. b * w + b <= b * a
    <3>1. b * (w + 1) <= b * a
        BY <1>1, <1>4, SMT
    <3>2. b * (w + 1) = b * w + b
        BY <1>1, SMT
    <3>3. QED
        BY <3>1, <3>2
  <2> DEFINE x == b * w
             y == b * a
  <2>2. x \in Int /\ y \in Int
      BY <1>1, <1>4, SMT
  <2> HIDE DEF x, y
  <2>3. QED
      BY <1>1, <1>4, <2>1, <2>2 DEF x, y
<1>7. IsLength(b, v, l)
    BY <1>4, <1>5, <1>6 DEF IsLength
<1> DEFINE p == [i \in 1..k |-> Digit[((w \div Power(b, k - i)) % b) + 1]]
           q == [i \in 1..l |-> Digit[((v \div Power(b, l - i)) % b) + 1]]
           e == Digit[r + 1]
<1>8. Places(b, w) = p /\ Places(b, v) = q
  <2> HIDE DEF l
  <2>1. Places(b, w) = PlacesFor(b, w, k)
      BY <1>0, <1>1, <1>2, <1>3, PlacesOfLength
  <2>2. Places(b, v) = PlacesFor(b, v, l)
      BY <1>0, <1>7, PlacesOfLength
  <2>3. QED
      BY <2>1, <2>2 DEF PlacesFor
<1>9. p \in [1..k -> Symbol] /\ e \in Symbol
  <2>1. ASSUME NEW i \in 1..k PROVE p[i] \in Symbol
    <3> DEFINE m == k - i
               d == Power(b, m)
               x == w \div d
    <3>1. m \in Nat
        BY <1>4
    <3> HIDE DEF m
    <3>2. d \in Nat \ {0}
        BY <1>0, <3>1, PowerFacts
    <3> HIDE DEF d
    <3>3. x \in Int
        BY <1>1, <3>2, DivisionFact
    <3> HIDE DEF x
    <3>4. x % b \in 0..15
        BY <3>3
    <3>5. Digit[(x % b) + 1] \in Symbol
        BY <3>4, DigitSymbols
    <3>6. QED
        BY <3>5 DEF x, d, m
  <2>2. r \in 0..15
      BY <1>1
  <2>3. QED
      BY <2>1, <2>2, DigitSymbols
<1>10. ASSUME NEW i \in 1..l PROVE q[i] = IF i = l THEN e ELSE p[i]
  <2>1. q[i] = Digit[((v \div Power(b, l - i)) % b) + 1]
      OBVIOUS
  <2>2. CASE i = l
    <3>1. l - i = 0 /\ Power(b, 0) = 1 /\ v \div 1 = v
        BY <1>0, <1>4, <2>2, PowerFacts
    <3> HIDE DEF q
    <3>2. QED
        BY <2>1, <2>2, <3>1 DEF r
  <2>3. CASE i # l
    <3> DEFINE m == k - i
               d == Power(b, m)
    <3>1. i \in 1..k /\ m \in Nat /\ l - i = m + 1
        BY <1>4, <2>3
    <3>2. p[i] = Digit[((w \div d) % b) + 1]
        BY <3>1
    <3> HIDE DEF m, p, q
    <3>3. d \in Nat \ {0} /\ Power(b, l - i) = b * d
      <4>1. Power(b, m) \in Nat /\ Power(b, m) > m /\ Power(b, m + 1) = b * Power(b, m)
          BY <1>0, <3>1, PowerFacts
      <4> HIDE DEF l
      <4>2. Power(b, l - i) = Power(b, m + 1)
          BY <3>1
      <4>3. QED
          BY <3>1, <4>1, <4>2
    <3> HIDE DEF d
    <3>4. v \div (b * d) = w \div d
        BY <1>0, <3>3, DividedTwice DEF w
    <3>5. QED
        BY <2>1, <2>3, <3>2, <3>3, <3>4
  <2>4. QED
      BY <2>2, <2>3
<1>11. q = Append(p, e)
  <2>1. p \in Seq(Symbol) /\ Len(p) = k
      BY <1>4, <1>9
  <2>2. /\ Append(p, e) \in Seq(Symbol) /\ Len(Append(p, e)) = l
        /\ \A i \in 1..l : Append(p, e)[i] = IF i = l THEN e ELSE p[i]
    <3> HIDE DEF p, e
    <3>1. QED
        BY <1>4, <1>9, <2>1, AppendProperties
  <2>3. DOMAIN q = 1..l
      OBVIOUS
  <2> HIDE DEF p, e
  <2>4. q \in Seq(Symbol) /\ Len(q) = l
    <3>1. \A i \in 1..l : q[i] \in Symbol
      <4>1. \A i \in 1..l : i # l => i \in 1..k
          BY <1>4
      <4>2. QED
          BY <1>9, <1>10, <4>1
    <3>2. q = [i \in 1..l |-> q[i]]
        OBVIOUS
    <3> HIDE DEF q
    <3>3. q \in [1..l -> Symbol]
        BY <3>1, <3>2
    <3>4. QED
        BY <1>4, <3>3
  <2> HIDE DEF q
  <2>5. QED
      BY <1>10, <2>1, <2>2, <2>4, SeqEqual
<1> HIDE DEF p, q, e
<1>12. k \in Nat \ {0} /\ Places(b, w) = p /\ Places(b, v) = Append(p, Digit[r + 1])
    BY <1>4, <1>8, <1>11 DEF e
<1>13. QED
    BY <1>1, <1>2, <1>9, <1>12 DEF w, r

\* The texts of numbers.
LEMMA PlacesAreText ==
    ASSUME NEW b \in 2..16, NEW v \in Nat
    PROVE  Places(b, v) \in Seq(Symbol)
<1>1. CASE v < b
  <2>1. v \in 0..(b - 1) /\ v \in 0..15
      BY <1>1
  <2>2. Places(b, v) = <<Digit[v + 1]>> /\ Digit[v + 1] \in Symbol
      BY <2>1, OnePlace, DigitSymbols
  <2>3. QED
      BY <2>2
<1>2. CASE ~(v < b)
  <2>0. v >= b
      BY <1>2
  <2>1. \E k \in Nat \ {0} : \E p \in [1..k -> Symbol] :
           Places(b, v \div b) = p /\ Places(b, v) = Append(p, Digit[(v % b) + 1])
      BY <2>0, LastPlace
  <2>2. PICK k \in Nat \ {0} : \E p \in [1..k -> Symbol] : Places(b, v) = Append(p, Digit[(v % b) + 1])
      BY <2>1, Zenon
  <2>7. PICK p \in [1..k -> Symbol] : Places(b, v) = Append(p, Digit[(v % b) + 1])
      BY <2>2
  <2>3. Digit[(v % b) + 1] \in Symbol
    <3>1. v % b \in 0..15
        OBVIOUS
    <3>2. QED
        BY <3>1, DigitSymbols
  <2> DEFINE e == Digit[(v % b) + 1]
  <2> HIDE DEF e
  <2>4. p \in Seq(Symbol)
      OBVIOUS
  <2>5. Append(p, e) \in Seq(Symbol)
      BY <2>3, <2>4, AppendProperties DEF e
  <2>6. QED
      BY <2>7, <2>5 DEF e
<1>3. QED
    BY <1>1, <1>2

\* u32_to_dec and u32_to_hex find the places of a number.
LEMMA NumeralIsPlaces ==
    ASSUME NEW b \in 2..16, NEW v \in Nat
    PROVE  Numeral(b, v) = Places(b, v)
<1> DEFINE Solves(d) == d = [n \in Nat |-> IF n = 0 THEN << >>
                                          ELSE Append(d[n \div b], Digit[(n % b) + 1])]
           d == CHOOSE d : Solves(d)
           e == [n \in Nat |-> IF n = 0 THEN << >> ELSE Places(b, n)]
<1>1. Numeral(b, v) = IF v = 0 THEN <<"0">> ELSE d[v]
    BY Zenon DEF Numeral
<1>2. \A n \in Nat : e[n] = IF n = 0 THEN << >> ELSE Places(b, n)
    OBVIOUS
<1>3. e = [n \in Nat |-> e[n]]
    OBVIOUS
<1> HIDE DEF e
<1>4. ASSUME NEW n \in Nat, n # 0 PROVE n \div b \in Nat /\ n \div b < n
  <2>1. CASE n < b
    <3>1. n \div b = 0
        BY <1>4, <2>1, SMT
    <3>2. QED
        BY <1>4, <3>1
  <2>2. CASE ~(n < b)
      BY <2>2, LastPlace
  <2>3. QED
      BY <2>1, <2>2
<1>5. ASSUME NEW n \in Nat
      PROVE  e[n] = IF n = 0 THEN << >> ELSE Append(e[n \div b], Digit[(n % b) + 1])
  <2>1. CASE n = 0
      BY <1>2, <2>1
  <2>2. CASE n # 0 /\ n < b
    <3>1. n \in 0..(b - 1)
        BY <2>2
    <3>2. n \div b = 0
        BY <2>2, SMT
    <3>3. n % b = n
        BY <3>1, SmallRemainder
    <3>4. e[0] = << >> /\ e[n] = Places(b, n)
        BY <1>2, <2>2
    <3>5. Places(b, n) = <<Digit[n + 1]>>
        BY <3>1, OnePlace
    <3>6. Append(<< >>, Digit[n + 1]) = <<Digit[n + 1]>>
        OBVIOUS
    <3>7. QED
        BY <2>2, <3>2, <3>3, <3>4, <3>5, <3>6
  <2>3. CASE n >= b
    <3> DEFINE w == n \div b
    <3>1. /\ w \in Nat \ {0} /\ w < n
          /\ \E k \in Nat \ {0} : \E p \in [1..k -> Symbol] :
                Places(b, w) = p /\ Places(b, n) = Append(p, Digit[(n % b) + 1])
        BY <2>3, LastPlace
    <3> HIDE DEF w
    <3>2. e[w] = Places(b, w) /\ e[n] = Places(b, n)
        BY <1>2, <3>1
    <3>3. Places(b, n) = Append(Places(b, w), Digit[(n % b) + 1])
        BY <3>1, Zenon
    <3>4. QED
        BY <3>1, <3>2, <3>3 DEF w
  <2>4. QED
      BY <2>1, <2>2, <2>3
<1>6. Solves(e)
    BY <1>3, <1>5, Zenon
<1>7. Solves(d)
    BY <1>6, Zenon
<1> HIDE DEF d
<1>8. \A n \in Nat : d[n] = IF n = 0 THEN << >> ELSE Append(d[n \div b], Digit[(n % b) + 1])
  <2>1. d = [n \in Nat |-> IF n = 0 THEN << >> ELSE Append(d[n \div b], Digit[(n % b) + 1])]
      BY <1>7
  <2>2. QED
      BY <2>1
<1> DEFINE Wrong == {n \in Nat : d[n] # e[n]}
<1>9. Wrong = {}
  <2>1. SUFFICES ASSUME Wrong # {} PROVE FALSE
      OBVIOUS
  <2>2. PICK n \in Wrong : \A m \in Wrong : n <= m
      BY <2>1, LeastMember
  <2>3. n # 0
      BY <1>5, <1>8, <2>2
  <2>4. n \div b \in Nat /\ n \div b < n
      BY <1>4, <2>2, <2>3
  <2> DEFINE w == n \div b
  <2> HIDE DEF w
  <2>5. w \notin Wrong
      BY <2>2, <2>4 DEF w
  <2>6. d[w] = e[w]
      BY <2>4, <2>5 DEF w
  <2>7. d[n] = Append(d[w], Digit[(n % b) + 1]) /\ e[n] = Append(e[w], Digit[(n % b) + 1])
      BY <1>5, <1>8, <2>2, <2>3 DEF w
  <2>8. QED
      BY <2>2, <2>6, <2>7
<1>10. CASE v = 0
  <2>1. 0 \in 0..(b - 1)
      OBVIOUS
  <2>2. Places(b, 0) = <<Digit[0 + 1]>>
      BY <2>1, OnePlace
  <2>3. Digit[0 + 1] = "0"
      BY DEF Digit
  <2>4. QED
      BY <1>1, <1>10, <2>2, <2>3
<1>11. CASE v # 0
  <2>1. d[v] = e[v]
      BY <1>9
  <2>2. QED
      BY <1>1, <1>2, <1>11, <2>1
<1>12. QED
    BY <1>10, <1>11

\* The widths that digits stand for.
LEMMA NoWidth == Value(<< >>) = 0
<1> DEFINE s == << >>
           Solves(f) == f = [i \in 0..Len(s) |-> IF i = 0 THEN 0
                                  ELSE 10 * f[i - 1] + (CHOOSE d \in 0..9 : Digit[d + 1] = s[i])]
           f == CHOOSE f : Solves(f)
           g == [i \in 0..0 |-> 0]
<1>1. Value(s) = f[Len(s)]
    BY Zenon DEF Value
<1>2. Solves(g)
  <2>1. Len(s) = 0 /\ \A i \in 0..0 : i = 0
      OBVIOUS
  <2>2. QED
      BY <2>1
<1>3. Solves(f)
    BY <1>2, Zenon
<1> HIDE DEF f
<1>4. f[0] = 0 /\ Len(s) = 0
    BY <1>3
<1>5. QED
    BY <1>1, <1>4

LEMMA DigitsDiffer ==
    /\ \A d, e \in 0..9 : Digit[d + 1] = Digit[e + 1] => d = e
    /\ \A d \in 1..9 : Digit[d + 1] \in Nonzero
    /\ "0" \notin Nonzero
<1>1. /\ Digit[1] = "0" /\ Digit[2] = "1" /\ Digit[3] = "2" /\ Digit[4] = "3" /\ Digit[5] = "4"
      /\ Digit[6] = "5" /\ Digit[7] = "6" /\ Digit[8] = "7" /\ Digit[9] = "8" /\ Digit[10] = "9"
    BY DEF Digit
<1>2. \A d \in 0..9 : \/ d = 0 \/ d = 1 \/ d = 2 \/ d = 3 \/ d = 4
                      \/ d = 5 \/ d = 6 \/ d = 7 \/ d = 8 \/ d = 9
    OBVIOUS
<1>3. \A d \in 1..9 : d \in 0..9 /\ d # 0
    OBVIOUS
<1>4. \A d, e \in 0..9 : Digit[d + 1] = Digit[e + 1] => d = e
    BY <1>1, <1>2
<1>5. \A d \in 1..9 : Digit[d + 1] \in Nonzero
    BY <1>1, <1>2, <1>3 DEF Nonzero
<1>6. "0" \notin Nonzero
    BY DEF Nonzero
<1>7. QED
    BY <1>4, <1>5, <1>6

LEMMA OneDigit ==
    ASSUME NEW w \in 0..9
    PROVE  Value(<<Digit[w + 1]>>) = w
<1> DEFINE s == <<Digit[w + 1]>>
           Means(i) == CHOOSE d \in 0..9 : Digit[d + 1] = s[i]
           Solves(f) == f = [i \in 0..Len(s) |-> IF i = 0 THEN 0 ELSE 10 * f[i - 1] + Means(i)]
           f == CHOOSE f : Solves(f)
           g == [i \in 0..1 |-> IF i = 0 THEN 0 ELSE w]
<1>1. Value(s) = f[Len(s)]
    BY Zenon DEF Value
<1>2. Len(s) = 1 /\ s[1] = Digit[w + 1]
    OBVIOUS
<1>3. Means(1) = w
  <2>1. \E d \in 0..9 : Digit[d + 1] = s[1]
      BY <1>2
  <2>2. Means(1) \in 0..9 /\ Digit[Means(1) + 1] = s[1]
      BY <2>1, Zenon
  <2> HIDE DEF Means
  <2>3. QED
      BY <1>2, <2>2, DigitsDiffer
<1> HIDE DEF s, Means
<1>4. ASSUME NEW i \in 0..1 PROVE g[i] = IF i = 0 THEN 0 ELSE 10 * g[i - 1] + Means(i)
  <2>1. CASE i = 0
      BY <2>1
  <2>2. CASE i # 0
    <3>1. i = 1 /\ g[1] = w /\ g[0] = 0 /\ 1 - 1 = 0 /\ 10 * 0 + w = w
        BY <2>2
    <3> HIDE DEF g
    <3>2. QED
        BY <1>3, <3>1
  <2>3. QED
      BY <2>1, <2>2
<1>5. Solves(g)
  <2>1. g = [i \in 0..Len(s) |-> g[i]]
      BY <1>2
  <2> HIDE DEF g
  <2>2. \A i \in 0..Len(s) : g[i] = IF i = 0 THEN 0 ELSE 10 * g[i - 1] + Means(i)
      BY <1>2, <1>4
  <2>3. QED
      BY <2>1, <2>2, Zenon
<1>6. Solves(f)
    BY <1>5, Zenon
<1> HIDE DEF f
<1>7. \A i \in 0..1 : f[i] = IF i = 0 THEN 0 ELSE 10 * f[i - 1] + Means(i)
  <2>1. f = [i \in 0..1 |-> IF i = 0 THEN 0 ELSE 10 * f[i - 1] + Means(i)]
      BY <1>2, <1>6
  <2>2. QED
      BY <2>1
<1>8. f[0] = 0 /\ f[1] = 10 * f[0] + Means(1)
  <2>1. 0 \in 0..1 /\ 1 \in 0..1 /\ 1 # 0 /\ 1 - 1 = 0
      OBVIOUS
  <2>2. QED
      BY <1>7, <2>1
<1>9. QED
    BY <1>1, <1>2, <1>3, <1>8 DEF s

\* The kinds of items.
IsText(item) ==
    /\ "text" \in DOMAIN item /\ "arg" \notin DOMAIN item
    /\ item.text \in Seq(Char \ {"%"}) /\ item.text # << >>

IsFlagged(item) ==
    /\ "text" \notin DOMAIN item
    /\ item.zero \in BOOLEAN /\ item.width \in 0..9

TakesArgument(item) ==
    /\ "arg" \in DOMAIN item
    /\ \/ item.conv = "d" /\ item.arg \in Signed
       \/ item.conv \in {"u", "x"} /\ item.arg \in Signed \cup 0..(IntMod - 1)
       \/ item.conv = "s" /\ item.arg \in Seq(Char)
       \/ item.conv = "c" /\ item.arg \in Char

IsPlain(item) ==
    /\ "arg" \notin DOMAIN item
    /\ item.conv \in Char \ (Conversions \cup Nonzero \cup {"0"})

LEMMA ItemKinds ==
    ASSUME NEW item \in Item
    PROVE  IsText(item) \/ (IsFlagged(item) /\ (TakesArgument(item) \/ IsPlain(item)))
<1>1. CASE item \in [text : Seq(Char \ {"%"}) \ {<< >>}]
  <2>1. DOMAIN item = {"text"} /\ item.text \in Seq(Char \ {"%"}) \ {<< >>}
      BY <1>1
  <2>2. QED
      BY <2>1 DEF IsText
<1>2. ASSUME NEW convs, NEW args, item \in Taking(convs, args)
      PROVE  IsFlagged(item) /\ "arg" \in DOMAIN item /\ item.conv \in convs /\ item.arg \in args
  <2>1. /\ DOMAIN item = {"conv", "zero", "width", "arg"}
        /\ item.conv \in convs /\ item.zero \in BOOLEAN /\ item.width \in 0..9 /\ item.arg \in args
      BY <1>2 DEF Taking
  <2>2. QED
      BY <2>1 DEF IsFlagged
<1>3. CASE item \in Flagged(Char \ (Conversions \cup Nonzero \cup {"0"}))
  <2> DEFINE convs == Char \ (Conversions \cup Nonzero \cup {"0"})
  <2>1. /\ DOMAIN item = {"conv", "zero", "width"}
        /\ item.conv \in convs /\ item.zero \in BOOLEAN /\ item.width \in 0..9
    <3> HIDE DEF convs
    <3>1. item \in Flagged(convs)
        BY <1>3 DEF convs
    <3>2. QED
        BY <3>1 DEF Flagged
  <2>2. QED
      BY <2>1 DEF IsFlagged, IsPlain
<1>4. CASE item \in Taking({"d"}, Signed)
    BY <1>2, <1>4 DEF TakesArgument
<1>5. CASE item \in Taking({"u", "x"}, Signed \cup 0..(IntMod - 1))
    BY <1>2, <1>5 DEF TakesArgument
<1>6. CASE item \in Taking({"s"}, Seq(Char))
    BY <1>2, <1>6 DEF TakesArgument
<1>7. CASE item \in Taking({"c"}, Char)
    BY <1>2, <1>7 DEF TakesArgument
<1>8. QED
    BY <1>1, <1>3, <1>4, <1>5, <1>6, <1>7, Zenon DEF Item

\* Numbers are printed as what they mean.
LEMMA NumbersAreMeant ==
    ASSUME NEW v \in Signed \cup 0..(IntMod - 1)
    PROVE  /\ v \in Signed => SignedNumeral(v) = NumberMeant("d", v)
           /\ Numeral(10, Unsigned(v)) = NumberMeant("u", v)
           /\ Numeral(16, Unsigned(v)) = NumberMeant("x", v)
           /\ v \in Signed => NumberMeant("d", v) \in Seq(Symbol)
           /\ NumberMeant("u", v) \in Seq(Symbol) /\ NumberMeant("x", v) \in Seq(Symbol)
<1>1. IntMod \in Nat \ {0}
    BY FormatAssumption
<1>2. /\ v \in Int /\ v % IntMod \in 0..(IntMod - 1) /\ v % IntMod \in Nat
  <2>1. v \in Int
      BY <1>1 DEF Signed
  <2>2. v % IntMod \in 0..(IntMod - 1)
      BY <1>1, <2>1, DivisionFact
  <2>3. QED
      BY <1>1, <2>1, <2>2
<1>3. IntMod \div 2 \in Nat /\ IntMod \div 2 <= IntMod
    BY <1>1, SMT
<1> DEFINE half == IntMod \div 2
<1>10. Signed = (-half)..(half - 1) /\ half \in Nat /\ half <= IntMod
    BY <1>3 DEF Signed
<1> HIDE DEF half
<1> DEFINE u == v % IntMod
           ten == 10
           sixteen == 16
<1>4. ten \in 2..16 /\ sixteen \in 2..16 /\ u \in Nat
    BY <1>2
<1> HIDE DEF u, ten, sixteen
<1>5. /\ Numeral(ten, u) = Places(ten, u) /\ Numeral(sixteen, u) = Places(sixteen, u)
      /\ Places(ten, u) \in Seq(Symbol) /\ Places(sixteen, u) \in Seq(Symbol)
    BY <1>4, NumeralIsPlaces, PlacesAreText
<1>6. NumberMeant("u", v) = Places(ten, u) /\ NumberMeant("x", v) = Places(sixteen, u)
    BY DEF NumberMeant, u, ten, sixteen
<1>7. Unsigned(v) = u
    BY DEF Unsigned, u
<1>8. ASSUME v \in Signed
      PROVE  SignedNumeral(v) = NumberMeant("d", v) /\ NumberMeant("d", v) \in Seq(Symbol)
  <2>1. CASE v < 0
    <3> DEFINE w == -v
               y == -(v + 1)
    <3>1. w \in Nat /\ y \in 0..(IntMod - 1) /\ y + 1 = w
        BY <1>1, <1>2, <1>8, <1>10, <2>1
    <3>2. SignedNumeral(v) = <<"-">> \o Numeral(10, Unsigned(y) + 1)
        BY <2>1 DEF SignedNumeral
    <3>3. NumberMeant("d", v) = <<"-">> \o Places(10, w)
        BY <2>1 DEF NumberMeant
    <3> HIDE DEF w, y
    <3>4. Unsigned(y) = y
        BY <1>1, <3>1, SmallRemainder DEF Unsigned
    <3>5. Numeral(ten, w) = Places(ten, w) /\ Places(ten, w) \in Seq(Symbol)
        BY <1>4, <3>1, NumeralIsPlaces, PlacesAreText
    <3>6. <<"-">> \in Seq(Symbol)
      <4>1. "-" \in Symbol
          BY Zenon DEF Symbol
      <4>2. QED
          BY <4>1
    <3> DEFINE p == Places(ten, w)
               m == <<"-">>
    <3> HIDE DEF p, m
    <3>7. m \o p \in Seq(Symbol)
        BY <3>5, <3>6, ConcatProperties DEF p, m
    <3>8. QED
        BY <3>1, <3>2, <3>3, <3>4, <3>5, <3>7 DEF p, m, ten
  <2>2. CASE ~(v < 0)
    <3>1. v \in 0..(IntMod - 1)
        BY <1>1, <1>2, <1>8, <1>10, <2>2
    <3>2. u = v
        BY <1>1, <3>1, SmallRemainder DEF u
    <3>3. SignedNumeral(v) = Numeral(10, v)
        BY <2>2 DEF SignedNumeral
    <3>4. NumberMeant("d", v) = Places(ten, u)
        BY <2>2 DEF NumberMeant, ten, u
    <3>5. QED
        BY <1>5, <3>2, <3>3, <3>4 DEF ten
  <2>3. QED
      BY <2>1, <2>2
<1>9. QED
    BY <1>5, <1>6, <1>7, <1>8 DEF ten, sixteen

PadOf(item) == IF item.zero THEN "0" ELSE " "

LEMMA PaddedIsText ==
    ASSUME NEW pad \in Symbol, NEW width \in Nat, NEW s \in Seq(Symbol), NEW flags,
           flags.pad = pad, flags.width = width
    PROVE  /\ Padded(flags, s) = Padded([pad |-> pad, width |-> width], s)
           /\ Padded(flags, s) \in Seq(Symbol)
<1> DEFINE n == IF width > Len(s) THEN width - Len(s) ELSE 0
           front == [i \in 1..n |-> pad]
<1>1. n \in Nat
    BY LenProperties
<1>2. front \in Seq(Symbol)
    BY <1>1
<1>3. Padded(flags, s) = front \o s
    BY DEF Padded
<1>4. Padded([pad |-> pad, width |-> width], s) = front \o s
    BY DEF Padded
<1> HIDE DEF front
<1>5. front \o s \in Seq(Symbol)
    BY <1>2, ConcatProperties
<1>6. QED
    BY <1>3, <1>4, <1>5

\* An argument is printed as what its item means,
LEMMA RenderedIsMeant ==
    ASSUME NEW item, IsFlagged(item), TakesArgument(item), "text" \notin DOMAIN item,
           NEW flags, flags.pad = PadOf(item), flags.width = item.width
    PROVE  /\ item.conv \in Conversions
           /\ Rendered(item.conv, flags, item.arg) = Meaning(item)
           /\ Meaning(item) \in Seq(Symbol)
<1> DEFINE conv == item.conv
           v == item.arg
           pad == PadOf(item)
           width == item.width
           std == [pad |-> pad, width |-> width]
<1>1. pad \in Symbol /\ width \in Nat /\ std.pad = pad /\ std.width = width
  <2>1. "0" \in Symbol /\ " " \in Symbol
      BY Zenon DEF Symbol
  <2>2. pad \in Symbol
      BY <2>1, Zenon DEF PadOf
  <2>3. width \in Nat
      BY DEF IsFlagged
  <2>4. std.pad = pad /\ std.width = width
      OBVIOUS
  <2>5. QED
      BY <2>2, <2>3, <2>4
<1>2. ASSUME conv \in Numbers
      PROVE  Meaning(item) = Padded(std, NumberMeant(conv, v))
  <2>1. conv # "s" /\ conv # "c" /\ conv # "%"
      BY <1>2 DEF Numbers
  <2>2. QED
      BY <1>2, <2>1, Zenon DEF Meaning, PadOf
<1>3. ASSUME NEW s \in Seq(Symbol) PROVE Padded(flags, s) = Padded(std, s) /\ Padded(std, s) \in Seq(Symbol)
    BY <1>1, PaddedIsText
<1>4. CASE conv = "d" /\ v \in Signed
  <2>1. conv \in Numbers
      BY <1>4 DEF Numbers
  <2>2. SignedNumeral(v) = NumberMeant(conv, v) /\ NumberMeant(conv, v) \in Seq(Symbol)
      BY <1>4, NumbersAreMeant
  <2>3. Rendered(conv, flags, v) = Padded(flags, SignedNumeral(v))
      BY <1>4 DEF Rendered
  <2>4. QED
      BY <1>2, <1>3, <2>1, <2>2, <2>3 DEF Conversions
<1>5. CASE conv = "u" /\ v \in Signed \cup 0..(IntMod - 1)
  <2>1. conv \in Numbers
      BY <1>5 DEF Numbers
  <2>2. Numeral(10, Unsigned(v)) = NumberMeant(conv, v) /\ NumberMeant(conv, v) \in Seq(Symbol)
      BY <1>5, NumbersAreMeant
  <2>3. Rendered(conv, flags, v) = Padded(flags, Numeral(10, Unsigned(v)))
      BY <1>5 DEF Rendered
  <2>4. QED
      BY <1>2, <1>3, <2>1, <2>2, <2>3 DEF Conversions
<1>6. CASE conv = "x" /\ v \in Signed \cup 0..(IntMod - 1)
  <2>1. conv \in Numbers
      BY <1>6 DEF Numbers
  <2>2. Numeral(16, Unsigned(v)) = NumberMeant(conv, v) /\ NumberMeant(conv, v) \in Seq(Symbol)
      BY <1>6, NumbersAreMeant
  <2>3. Rendered(conv, flags, v) = Padded(flags, Numeral(16, Unsigned(v)))
      BY <1>6 DEF Rendered
  <2>4. QED
      BY <1>2, <1>3, <2>1, <2>2, <2>3 DEF Conversions
<1>7. \A s \in Seq(Char) : s \in Seq(Symbol)
  <2>1. Char \subseteq Symbol
      BY Zenon DEF Char, Symbol
  <2>2. QED
      BY <2>1
<1>8. CASE conv = "s" /\ v \in Seq(Char)
  <2>1. Rendered(conv, flags, v) = v /\ Meaning(item) = v /\ conv \in Conversions
      BY <1>8 DEF Rendered, Meaning, Conversions, Numbers
  <2>2. QED
      BY <1>7, <1>8, <2>1
<1>9. CASE conv = "c" /\ v \in Char
  <2>1. Rendered(conv, flags, v) = <<v>> /\ Meaning(item) = <<v>> /\ conv \in Conversions
      BY <1>9 DEF Rendered, Meaning, Conversions, Numbers
  <2>2. <<v>> \in Seq(Char)
      BY <1>9
  <2>3. QED
      BY <1>7, <2>1, <2>2
<1>10. QED
    BY <1>4, <1>5, <1>6, <1>8, <1>9 DEF TakesArgument

\* and any other conversion as a percent sign or after one.
LEMMA PlainIsMeant ==
    ASSUME NEW item, IsFlagged(item), IsPlain(item)
    PROVE  /\ item.conv \notin Conversions /\ item.conv # NUL
           /\ item.conv = "%" => Meaning(item) = <<"%">>
           /\ item.conv # "%" => Meaning(item) = <<"%", item.conv>>
           /\ Meaning(item) \in Seq(Symbol)
<1> DEFINE conv == item.conv
<1>1. conv \notin Conversions /\ conv \in Char /\ conv # NUL /\ "text" \notin DOMAIN item
    BY DEF IsPlain, IsFlagged, Char
<1>2. conv \notin Numbers /\ conv # "s" /\ conv # "c"
    BY <1>1 DEF Conversions
<1>3. conv = "%" => Meaning(item) = <<"%">>
    BY <1>1, <1>2 DEF Meaning
<1>4. conv # "%" => Meaning(item) = <<"%", conv>>
    BY <1>1, <1>2, Zenon DEF Meaning
<1>5. "%" \in Symbol /\ conv \in Symbol
    BY <1>1, Zenon DEF Symbol, Char
<1>6. <<"%">> \in Seq(Symbol) /\ <<"%", conv>> \in Seq(Symbol)
    BY <1>5
<1>7. QED
    BY <1>1, <1>3, <1>4, <1>6

\* A sequence with one more element.
LEMMA AppendIs ==
    ASSUME NEW S, NEW s \in Seq(S), NEW y \in S, NEW t \in Seq(S), Len(t) = Len(s) + 1,
           \A i \in 1..Len(s) : t[i] = s[i], t[Len(s) + 1] = y
    PROVE  Append(s, y) = t
<1> DEFINE a == Append(s, y)
<1>1. a \in Seq(S) /\ Len(a) = Len(s) + 1 /\ (\A i \in 1..Len(s) : a[i] = s[i]) /\ a[Len(s) + 1] = y
    OBVIOUS
<1> HIDE DEF a
<1>2. \A i \in 1..Len(a) : a[i] = t[i]
    BY <1>1
<1>3. QED
    BY <1>1, <1>2, SeqEqual DEF a

LEMMA Pair ==
    ASSUME NEW S, NEW a \in S, NEW b \in S
    PROVE  Append(<<a>>, b) = <<a, b>>
<1> DEFINE s == <<a>>
           t == <<a, b>>
<1>1. /\ s \in Seq(S) /\ Len(s) = 1 /\ s[1] = a
      /\ t \in Seq(S) /\ Len(t) = 2 /\ t[1] = a /\ t[2] = b
    OBVIOUS
<1> HIDE DEF s, t
<1>2. Len(t) = Len(s) + 1 /\ (\A i \in 1..Len(s) : t[i] = s[i]) /\ t[Len(s) + 1] = b
    BY <1>1
<1>3. QED
    BY <1>1, <1>2, AppendIs DEF s, t

LEMMA Triple ==
    ASSUME NEW S, NEW a \in S, NEW b \in S, NEW c \in S
    PROVE  Append(<<a, b>>, c) = <<a, b, c>>
<1> DEFINE s == <<a, b>>
           t == <<a, b, c>>
<1>1. /\ s \in Seq(S) /\ Len(s) = 2 /\ s[1] = a /\ s[2] = b
      /\ t \in Seq(S) /\ Len(t) = 3 /\ t[1] = a /\ t[2] = b /\ t[3] = c
    OBVIOUS
<1> HIDE DEF s, t
<1>2. Len(t) = Len(s) + 1 /\ (\A i \in 1..Len(s) : t[i] = s[i]) /\ t[Len(s) + 1] = c
    BY <1>1
<1>3. Append(s, c) = t
    BY <1>1, <1>2, AppendIs
<1>4. QED
    BY <1>3 DEF s, t

LEMMA Quadruple ==
    ASSUME NEW S, NEW a \in S, NEW b \in S, NEW c \in S, NEW d \in S
    PROVE  Append(<<a, b, c>>, d) = <<a, b, c, d>>
<1> DEFINE s == <<a, b, c>>
           t == <<a, b, c, d>>
<1>1. /\ s \in Seq(S) /\ Len(s) = 3 /\ s[1] = a /\ s[2] = b /\ s[3] = c
      /\ t \in Seq(S) /\ Len(t) = 4 /\ t[1] = a /\ t[2] = b /\ t[3] = c /\ t[4] = d
    OBVIOUS
<1> HIDE DEF s, t
<1>2. Len(t) = Len(s) + 1 /\ (\A i \in 1..Len(s) : t[i] = s[i]) /\ t[Len(s) + 1] = d
    BY <1>1
<1>3. Append(s, d) = t
    BY <1>1, <1>2, AppendIs
<1>4. QED
    BY <1>3 DEF s, t

LEMMA Tuples ==
    ASSUME NEW S, NEW a \in S, NEW b \in S, NEW c \in S, NEW d \in S
    PROVE  /\ ((<<a>> \o <<b>>) \o << >>) \o <<c>> = <<a, b, c>>
           /\ ((<<a>> \o <<b>>) \o <<d>>) \o <<c>> = <<a, b, d, c>>
           /\ ((<<a>> \o << >>) \o << >>) \o <<c>> = <<a, c>>
           /\ ((<<a>> \o << >>) \o <<d>>) \o <<c>> = <<a, d, c>>
<1>1. ASSUME NEW s \in Seq(S), NEW e \in S PROVE s \o << >> = s /\ s \o <<e>> = Append(s, e)
    BY ConcatEmptySeq, AppendIsConcat
<1>2. /\ <<a>> \in Seq(S) /\ <<a, b>> \in Seq(S) /\ <<a, d>> \in Seq(S) /\ <<a, b, d>> \in Seq(S)
    OBVIOUS
<1>3. Append(<<a>>, b) = <<a, b>> /\ Append(<<a>>, c) = <<a, c>> /\ Append(<<a>>, d) = <<a, d>>
    BY Pair, Zenon
<1>4. /\ Append(<<a, b>>, c) = <<a, b, c>> /\ Append(<<a, b>>, d) = <<a, b, d>>
      /\ Append(<<a, d>>, c) = <<a, d, c>>
    BY Triple, Zenon
<1>5. Append(<<a, b, d>>, c) = <<a, b, d, c>>
    BY Quadruple, Zenon
<1>6. /\ <<a>> \o <<b>> = <<a, b>> /\ <<a>> \o <<c>> = <<a, c>> /\ <<a>> \o <<d>> = <<a, d>>
      /\ <<a, b>> \o <<c>> = <<a, b, c>> /\ <<a, b>> \o <<d>> = <<a, b, d>>
      /\ <<a, d>> \o <<c>> = <<a, d, c>> /\ <<a, b, d>> \o <<c>> = <<a, b, d, c>>
      /\ <<a>> \o << >> = <<a>> /\ <<a, b>> \o << >> = <<a, b>>
    BY <1>1, <1>2, <1>3, <1>4, <1>5, Zenon
<1>7. QED
    BY <1>6, Zenon

LEMMA Single ==
    ASSUME NEW S, NEW s \in Seq(S), Len(s) = 1, NEW e, s[1] = e
    PROVE  s = <<e>>
<1> DEFINE t == <<e>>
<1>1. e \in S
  OBVIOUS
<1>2. t \in Seq(S) /\ Len(t) = 1 /\ t[1] = e
    BY <1>1
<1> HIDE DEF t
<1>3. \A i \in 1..Len(s) : s[i] = t[i]
    BY <1>2
<1>4. s = t
    BY <1>2, <1>3, SeqEqual
<1>5. QED
    BY <1>4 DEF t

\* A conversion is no flag.
LEMMA ConversionIsNoFlag ==
    ASSUME NEW item, TakesArgument(item) \/ IsPlain(item)
    PROVE  item.conv \notin Nonzero /\ item.conv # "0" /\ item.conv \in Symbol
<1>1. CASE IsPlain(item)
  <2>1. item.conv \in Char /\ item.conv \notin Nonzero /\ item.conv # "0"
      BY <1>1, Zenon DEF IsPlain
  <2>2. QED
      BY <2>1, Zenon DEF Char, Symbol
<1>2. CASE TakesArgument(item)
  <2>1. /\ "d" \notin Nonzero /\ "u" \notin Nonzero /\ "x" \notin Nonzero
        /\ "s" \notin Nonzero /\ "c" \notin Nonzero
      BY DEF Nonzero
  <2>2. {"c", "d", "s", "u", "x"} \subseteq Symbol
      BY Zenon DEF Symbol
  <2>3. QED
      BY <1>2, <2>1, <2>2 DEF TakesArgument
<1>3. QED
    BY <1>1, <1>2

\* How an item with a conversion is written.
IsEncoding(item, e) ==
    LET first == IF item.zero THEN 3 ELSE 2
        ending == IF item.width = 0 THEN first ELSE first + 1
    IN  /\ e \in Seq(Symbol) /\ Len(e) = ending
        /\ e[1] = "%" /\ e[ending] = item.conv
        /\ item.zero <=> e[2] = "0"
        /\ item.width # 0 => e[first] = Digit[item.width + 1]

LEMMA FlaggedEncoding ==
    ASSUME NEW item, IsFlagged(item), TakesArgument(item) \/ IsPlain(item)
    PROVE  IsEncoding(item, Encoded(item))
<1> DEFINE w == item.width
           c == item.conv
           d == Digit[w + 1]
<1>1. "text" \notin DOMAIN item /\ item.zero \in BOOLEAN /\ w \in 0..9
    BY DEF IsFlagged
<1>2. c \in Symbol /\ c # "0"
    BY ConversionIsNoFlag
<1>3. d \in Symbol /\ (w # 0 => d # "0")
  <2>1. d \in Symbol
    <3>1. w \in 0..15
        BY <1>1
    <3>2. QED
        BY <3>1, DigitSymbols
  <2>2. ASSUME w # 0 PROVE d # "0"
    <3>1. w \in 1..9
        BY <1>1, <2>2
    <3>2. QED
        BY <3>1, DigitsDiffer
  <2>3. QED
      BY <2>1, <2>2
<1>4. "%" \in Symbol /\ "0" \in Symbol
    BY Zenon DEF Symbol
<1>5. Encoded(item) = <<"%">> \o (IF item.zero THEN <<"0">> ELSE << >>)
                 \o (IF w = 0 THEN << >> ELSE <<d>>) \o <<c>>
    BY <1>1, Zenon DEF Encoded
<1> HIDE DEF d, c
<1>6. CASE item.zero /\ w = 0
  <2>1. Encoded(item) = <<"%", "0", c>>
    <3>1. Encoded(item) = ((<<"%">> \o <<"0">>) \o << >>) \o <<c>>
        BY <1>5, <1>6, Zenon
    <3>2. ((<<"%">> \o <<"0">>) \o << >>) \o <<c>> = <<"%", "0", c>>
        BY <1>2, <1>3, <1>4, Tuples
    <3>3. QED
        BY <3>1, <3>2
  <2>2. QED
      BY <1>2, <1>4, <1>6, <2>1 DEF IsEncoding, c
<1>7. CASE item.zero /\ w # 0
  <2>1. Encoded(item) = <<"%", "0", d, c>>
    <3>1. Encoded(item) = ((<<"%">> \o <<"0">>) \o <<d>>) \o <<c>>
        BY <1>5, <1>7, Zenon
    <3>2. ((<<"%">> \o <<"0">>) \o <<d>>) \o <<c>> = <<"%", "0", d, c>>
        BY <1>2, <1>3, <1>4, Tuples
    <3>3. QED
        BY <3>1, <3>2
  <2>2. QED
      BY <1>2, <1>3, <1>4, <1>7, <2>1 DEF IsEncoding, c, d
<1>8. CASE ~item.zero /\ w = 0
  <2>1. Encoded(item) = <<"%", c>>
    <3>1. Encoded(item) = ((<<"%">> \o << >>) \o << >>) \o <<c>>
        BY <1>5, <1>8, Zenon
    <3>2. ((<<"%">> \o << >>) \o << >>) \o <<c>> = <<"%", c>>
        BY <1>2, <1>3, <1>4, Tuples
    <3>3. QED
        BY <3>1, <3>2
  <2>2. QED
      BY <1>2, <1>4, <1>8, <2>1 DEF IsEncoding, c
<1>9. CASE ~item.zero /\ w # 0
  <2>1. Encoded(item) = <<"%", d, c>>
    <3>1. Encoded(item) = ((<<"%">> \o << >>) \o <<d>>) \o <<c>>
        BY <1>5, <1>9, Zenon
    <3>2. ((<<"%">> \o << >>) \o <<d>>) \o <<c>> = <<"%", d, c>>
        BY <1>2, <1>3, <1>4, Tuples
    <3>3. QED
        BY <3>1, <3>2
  <2>2. QED
      BY <1>2, <1>3, <1>4, <1>9, <2>1 DEF IsEncoding, c, d
<1>10. QED
    BY <1>1, <1>6, <1>7, <1>8, <1>9

\* s is found in fmt from position p.
Stands(s, fmt, p) == \A i \in 1..Len(s) : p + i - 1 \in 1..Len(fmt) /\ fmt[p + i - 1] = s[i]

\* The flags of an item are read as they were written.
FlagsOf(item, e, fmt, p) ==
    /\ Flags(fmt, p).pad = PadOf(item)
    /\ Flags(fmt, p).width = item.width
    /\ Flags(fmt, p).conv = p + Len(e) - 1
    /\ At(fmt, Flags(fmt, p).conv) = item.conv

LEMMA FlagsAreRead ==
    ASSUME NEW item, IsFlagged(item), TakesArgument(item) \/ IsPlain(item),
           NEW e, IsEncoding(item, e), NEW fmt \in Seq(Symbol), NEW p \in Nat \ {0}, Stands(e, fmt, p)
    PROVE  FlagsOf(item, e, fmt, p)
<1> DEFINE w == item.width
           first == IF item.zero THEN 3 ELSE 2
           ending == IF w = 0 THEN first ELSE first + 1
           x == p + first - 1
           y == p + ending - 1
           zero == At(fmt, p + 1) = "0"
           start == IF zero THEN p + 2 ELSE p + 1
           Ends(i) == At(fmt, i) \notin Nonzero /\ \A j \in start..(i - 1) : fmt[j] \in Nonzero
           conv == CHOOSE i \in start..(Len(fmt) + 1) : Ends(i)
<1>1. item.zero \in BOOLEAN /\ w \in 0..9
    BY DEF IsFlagged
<1>2. /\ e \in Seq(Symbol) /\ Len(e) = ending /\ first \in 2..3 /\ ending \in first..(first + 1)
      /\ e[1] = "%" /\ e[ending] = item.conv
      /\ item.zero <=> e[2] = "0"
      /\ w # 0 => e[first] = Digit[w + 1]
    BY <1>1 DEF IsEncoding
<1> HIDE DEF first, ending
<1>3. Len(fmt) \in Nat
    OBVIOUS
<1>4. /\ x \in 1..Len(fmt) /\ fmt[x] = e[first]
      /\ y \in 1..Len(fmt) /\ fmt[y] = e[ending]
      /\ p + 1 \in 1..Len(fmt) /\ fmt[p + 1] = e[2]
  <2>1. first \in 1..Len(e) /\ ending \in 1..Len(e) /\ 2 \in 1..Len(e) /\ p + 2 - 1 = p + 1
      BY <1>2
  <2>2. QED
      BY <2>1 DEF Stands
<1>5. zero = item.zero
    BY <1>1, <1>2, <1>4 DEF At
<1>6. start = x
    BY <1>1, <1>5 DEF first
<1>7. At(fmt, x) = fmt[x] /\ At(fmt, y) = fmt[y]
    BY <1>4 DEF At
<1>8. item.conv \notin Nonzero
    BY ConversionIsNoFlag
<1>9. w # 0 => y = x + 1 /\ fmt[x] \in Nonzero
  <2>1. SUFFICES ASSUME w # 0 PROVE y = x + 1 /\ fmt[x] \in Nonzero
      OBVIOUS
  <2>2. w \in 1..9
      BY <1>1, <2>1
  <2>3. Digit[w + 1] \in Nonzero
      BY <2>2, DigitsDiffer
  <2>4. ending = first + 1
      BY <2>1 DEF ending
  <2>5. QED
      BY <1>2, <1>4, <2>1, <2>3, <2>4
<1>10. w = 0 => y = x
    BY DEF ending
<1>11. x \in Nat /\ y \in x..(Len(fmt) + 1)
    BY <1>2, <1>3, <1>4, <1>9, <1>10
<1> HIDE DEF x, y, start
<1>12. Ends(y)
  <2>1. \A j \in x..(y - 1) : w # 0 /\ j = x
      BY <1>9, <1>10, <1>11
  <2>2. \A j \in x..(y - 1) : fmt[j] \in Nonzero
      BY <1>9, <2>1
  <2>3. QED
      BY <1>2, <1>4, <1>6, <1>7, <1>8, <2>2
<1>13. ASSUME NEW i \in x..(Len(fmt) + 1), Ends(i) PROVE i = y
  <2>1. CASE i < y
    <3>1. w # 0 /\ i = x
        BY <1>9, <1>10, <1>11, <2>1
    <3>2. QED
        BY <1>7, <1>9, <1>13, <3>1
  <2>2. CASE i > y
    <3>1. y \in start..(i - 1)
        BY <1>6, <1>11, <2>2
    <3>2. QED
        BY <1>2, <1>4, <1>8, <1>13, <3>1
  <2>3. QED
      BY <1>11, <2>1, <2>2
<1>14. conv = y
  <2> HIDE DEF Ends
  <2>1. y \in start..(Len(fmt) + 1)
      BY <1>6, <1>11
  <2>2. \A i \in start..(Len(fmt) + 1) : Ends(i) => i = y
      BY <1>6, <1>13
  <2>3. QED
      BY <1>12, <2>1, <2>2, Zenon
<1>15. Flags(fmt, p) = [pad |-> IF zero THEN "0" ELSE " ",
                        width |-> Value(SubSeq(fmt, start, conv - 1)), conv |-> conv]
    BY Zenon DEF Flags, start
<1> HIDE DEF conv
<1>16. Value(SubSeq(fmt, x, y - 1)) = w
  <2>1. CASE w = 0
    <3>1. SubSeq(fmt, x, y - 1) = << >>
        BY <1>3, <1>10, <1>11, <2>1, SubSeqProperties
    <3>2. QED
        BY <2>1, <3>1, NoWidth
  <2>2. CASE w # 0
    <3>1. SubSeq(fmt, x, x) = <<fmt[x]>>
      <4>1. fmt[x] \in Symbol /\ x \in 1..Len(fmt)
          BY <1>4
      <4>2. /\ Len(SubSeq(fmt, x, x)) = 1 /\ SubSeq(fmt, x, x) \in Seq(Symbol)
            /\ SubSeq(fmt, x, x)[1] = fmt[x]
        <5>1. /\ SubSeq(fmt, x, x) \in Seq(Symbol)
              /\ Len(SubSeq(fmt, x, x)) = IF x <= x THEN x - x + 1 ELSE 0
              /\ \A i \in 1..(x - x + 1) : SubSeq(fmt, x, x)[i] = fmt[x + i - 1]
            BY <4>1, SubSeqProperties
        <5>2. x - x + 1 = 1 /\ x + 1 - 1 = x /\ x <= x /\ 1 \in 1..(x - x + 1)
            BY <1>11
        <5>3. QED
            BY <5>1, <5>2
      <4>3. QED
          BY <4>2, Single
    <3>2. fmt[x] = Digit[w + 1]
        BY <1>2, <1>4, <2>2
    <3>3. y - 1 = x
        BY <1>9, <1>11, <2>2
    <3>4. Value(<<Digit[w + 1]>>) = w
        BY <1>1, OneDigit
    <3>5. QED
        BY <3>1, <3>2, <3>3, <3>4
  <2>3. QED
      BY <2>1, <2>2
<1>17. At(fmt, y) = item.conv
    BY <1>2, <1>4, <1>7
<1> HIDE DEF zero, Ends
<1>18. /\ Flags(fmt, p).pad = (IF zero THEN "0" ELSE " ")
       /\ Flags(fmt, p).width = Value(SubSeq(fmt, start, conv - 1)) /\ Flags(fmt, p).conv = conv
  <2> DEFINE pad == IF zero THEN "0" ELSE " "
             width == Value(SubSeq(fmt, start, conv - 1))
  <2> HIDE DEF pad, width
  <2>1. Flags(fmt, p) = [pad |-> pad, width |-> width, conv |-> conv]
      BY <1>15 DEF pad, width
  <2>2. Flags(fmt, p).pad = pad /\ Flags(fmt, p).width = width /\ Flags(fmt, p).conv = conv
      BY <2>1
  <2>3. QED
      BY <2>2 DEF pad, width
<1>19. Flags(fmt, p).pad = PadOf(item)
    BY <1>1, <1>5, <1>18, Zenon DEF PadOf
<1>20. Flags(fmt, p).width = w /\ Flags(fmt, p).conv = y
    BY <1>6, <1>14, <1>16, <1>18
<1>21. y = p + Len(e) - 1
    BY <1>2 DEF y
<1>22. QED
    BY <1>17, <1>19, <1>20, <1>21 DEF FlagsOf

\* The sequences s are laid out in t from the positions pos on.
Laid(s, t, pos) ==
    /\ pos[0] = 0 /\ pos[Len(s)] = Len(t)
    /\ \A k \in 0..Len(s) : pos[k] \in 0..Len(t)
    /\ \A k \in 1..Len(s) :
          /\ pos[k] = pos[k - 1] + Len(s[k])
          /\ \A i \in 1..Len(s[k]) : pos[k - 1] + i \in 1..Len(t) /\ t[pos[k - 1] + i] = s[k][i]

LEMMA FlattenedIsLaid ==
    ASSUME NEW S, NEW s \in Seq(Seq(S))
    PROVE  FlattenSeq(s) \in Seq(S) /\ \E pos : Laid(s, FlattenSeq(s), pos)
<1> DEFINE n == Len(s)
<1>1. n \in Nat /\ n \in 0..n /\ \A k \in 1..n : s[k] \in Seq(S) /\ k - 1 \in 0..n
    OBVIOUS
<1>12. n = Len(s)
    OBVIOUS
<1> HIDE DEF n
<1>13. \E f \in [0..n -> Seq(S)] : Joins(s, n, f)
    BY <1>12, JoinExists
<1>2. PICK f \in [0..n -> Seq(S)] : Joins(s, n, f)
    BY <1>13
<1>3. FlattenSeq(s) = f[n]
    BY <1>2, <1>12, Joined
<1>4. PartsKept(s, n, f)
    BY <1>2, <1>12, JoinedParts
<1> DEFINE pos == [k \in 0..n |-> Len(f[k])]
           t == f[n]
<1>5. \A k \in 0..n : pos[k] = Len(f[k])
    OBVIOUS
<1> HIDE DEF pos
<1>6. t \in Seq(S)
    BY <1>1
<1>7. pos[0] = 0 /\ pos[n] = Len(t)
  <2>1. f[0] = << >> /\ 0 \in 0..n
      BY <1>1, <1>2 DEF Joins
  <2>2. QED
      BY <1>1, <1>5, <2>1
<1>8. \A k \in 0..n : pos[k] \in 0..Len(t)
    BY <1>1, <1>4, <1>5 DEF PartsKept
<1>9. ASSUME NEW k \in 1..n
      PROVE  /\ pos[k] = pos[k - 1] + Len(s[k])
             /\ \A i \in 1..Len(s[k]) : pos[k - 1] + i \in 1..Len(t) /\ t[pos[k - 1] + i] = s[k][i]
  <2>1. pos[k] = Len(f[k]) /\ pos[k - 1] = Len(f[k - 1])
      BY <1>1, <1>5
  <2>2. QED
      BY <1>4, <2>1 DEF PartsKept
<1>10. Laid(s, t, pos)
    BY <1>7, <1>8, <1>9 DEF Laid, n
<1>11. QED
    BY <1>3, <1>6, <1>10

LEMMA FitFacts ==
    ASSUME NEW S, NEW s \in Seq(S), NEW n \in Nat
    PROVE  /\ Fit(s, n) \in Seq(S) /\ Len(Fit(s, n)) = Min2(Len(s), n)
           /\ \A i \in 1..Min2(Len(s), n) : Fit(s, n)[i] = s[i]
<1> DEFINE l == IF Len(s) < n THEN Len(s) ELSE n
           one == 1
<1>1. Len(s) \in Nat /\ l \in 0..Len(s) /\ l = Min2(Len(s), n)
    BY DEF Min2
<1>2. Fit(s, n) = SubSeq(s, one, l)
    BY DEF Fit
<1> HIDE DEF l
<1>3. one \in Int /\ l \in Int /\ \A i \in one..l : s[i] \in S
    BY <1>1
<1> HIDE DEF one
<1>4. /\ SubSeq(s, one, l) \in Seq(S) /\ Len(SubSeq(s, one, l)) = (IF one <= l THEN l - one + 1 ELSE 0)
      /\ \A i \in 1..(l - one + 1) : SubSeq(s, one, l)[i] = s[one + i - 1]
    BY <1>3, SubSeqProperties
<1>5. l - one + 1 = l /\ (IF one <= l THEN l - one + 1 ELSE 0) = l /\ \A i \in 1..l : one + i - 1 = i
    BY <1>1 DEF one
<1>6. QED
    BY <1>1, <1>2, <1>4, <1>5

\* What comes next is added to what fits.
LEMMA FitMore ==
    ASSUME NEW S, NEW t \in Seq(S), NEW s \in Seq(S), NEW x \in Nat, NEW room \in Nat, x <= room,
           x + Len(s) <= Len(t), \A i \in 1..Len(s) : t[x + i] = s[i]
    PROVE  Fit(Fit(t, x) \o s, room) = Fit(t, Min2(x + Len(s), room))
<1> DEFINE h == Fit(t, x)
           y == x + Len(s)
           l == Min2(y, room)
           a == h \o s
           u == Fit(a, room)
           v == Fit(t, l)
<1>1. Len(t) \in Nat /\ Len(s) \in Nat /\ y \in Nat /\ y <= Len(t) /\ x <= y /\ l \in Nat /\ l <= y /\ l <= room
    BY DEF Min2
<1>2. Min2(Len(t), x) = x /\ Min2(Len(t), l) = l
    BY <1>1 DEF Min2
<1>3. h \in Seq(S) /\ Len(h) = x /\ \A i \in 1..x : h[i] = t[i]
    BY <1>2, FitFacts
<1> HIDE DEF h
<1>4. a \in Seq(S) /\ Len(a) = y /\ \A i \in 1..y : a[i] = IF i <= x THEN h[i] ELSE s[i - x]
    BY <1>3, ConcatProperties
<1>5. \A i \in 1..y : a[i] = t[i]
  <2>1. TAKE i \in 1..y
  <2>2. CASE i <= x
      BY <1>3, <1>4, <2>2
  <2>3. CASE ~(i <= x)
    <3>1. i - x \in 1..Len(s) /\ x + (i - x) = i
        BY <1>1, <2>3
    <3>2. QED
        BY <1>4, <2>3, <3>1
  <2>4. QED
      BY <2>2, <2>3
<1> HIDE DEF a, y
<1>6. Min2(Len(a), room) = l
    BY <1>4
<1> HIDE DEF l
<1>7. u \in Seq(S) /\ Len(u) = l /\ \A i \in 1..l : u[i] = a[i]
    BY <1>4, <1>6, FitFacts
<1>8. v \in Seq(S) /\ Len(v) = l /\ \A i \in 1..l : v[i] = t[i]
    BY <1>1, <1>2, FitFacts
<1> HIDE DEF u, v
<1>9. \A i \in 1..l : u[i] = v[i]
  <2>1. \A i \in 1..l : i \in 1..y
      BY <1>1
  <2>2. QED
      BY <1>5, <1>7, <1>8, <2>1, Zenon
<1>10. u = v
    BY <1>7, <1>8, <1>9, SeqEqual
<1>11. QED
    BY <1>10 DEF u, v, a, h, l, y

LEMMA FitOneMore ==
    ASSUME NEW S, NEW t \in Seq(S), NEW x \in Nat, x < Len(t)
    PROVE  Append(Fit(t, x), t[x + 1]) = Fit(t, x + 1)
<1> DEFINE h == Fit(t, x)
           y == x + 1
           u == Fit(t, y)
           e == t[y]
<1>1. Min2(Len(t), x) = x /\ Min2(Len(t), y) = y /\ y \in Nat /\ e \in S
    BY DEF Min2
<1>2. h \in Seq(S) /\ Len(h) = x /\ \A i \in 1..x : h[i] = t[i]
    BY <1>1, FitFacts
<1> HIDE DEF h
<1> DEFINE z == y
<1>3. z \in Nat /\ Min2(Len(t), z) = z
    BY <1>1
<1> HIDE DEF z
<1>4. Fit(t, z) \in Seq(S) /\ Len(Fit(t, z)) = z /\ \A i \in 1..z : Fit(t, z)[i] = t[i]
    BY <1>3, FitFacts
<1>5. u \in Seq(S) /\ Len(u) = x + 1 /\ (\A i \in 1..x : u[i] = t[i]) /\ u[x + 1] = e
    BY <1>4 DEF z
<1> HIDE DEF u, e
<1>6. Append(h, e) = u
    BY <1>1, <1>2, <1>5, AppendIs
<1>7. QED
    BY <1>6 DEF h, u, e

Operand == Signed \cup 0..(IntMod - 1) \cup Seq(Char) \cup Char

LEMMA ItemFacts ==
    ASSUME NEW item \in Item
    PROVE  /\ Encoded(item) \in Seq(Symbol) /\ Len(Encoded(item)) >= 1
           /\ Meaning(item) \in Seq(Symbol)
           /\ Argument(item) \in Seq(Operand)
           /\ IsText(item) => /\ Encoded(item) = item.text /\ Meaning(item) = item.text
                              /\ Argument(item) = << >>
           /\ TakesArgument(item) => Argument(item) = <<item.arg>>
           /\ IsPlain(item) => Argument(item) = << >>
<1>1. IsText(item) => /\ Encoded(item) = item.text /\ Meaning(item) = item.text
                      /\ Argument(item) = << >>
    BY Zenon DEF IsText, Encoded, Meaning, Argument
<1>2. TakesArgument(item) => Argument(item) = <<item.arg>>
    BY Zenon DEF TakesArgument, Argument
<1>3. IsPlain(item) => Argument(item) = << >>
    BY Zenon DEF IsPlain, Argument
<1>4. CASE IsText(item)
  <2>1. Char \subseteq Symbol
      BY Zenon DEF Char, Symbol
  <2>2. item.text \in Seq(Symbol) /\ Len(item.text) >= 1
    <3>1. item.text \in Seq(Char \ {"%"}) /\ item.text # << >>
        BY <1>4 DEF IsText
    <3> DEFINE s == item.text
    <3> HIDE DEF s
    <3>2. s \in Seq(Symbol) /\ Len(s) >= 1
        BY <2>1, <3>1, EmptySeq DEF s
    <3>3. QED
        BY <3>2 DEF s
  <2>3. << >> \in Seq(Operand)
      OBVIOUS
  <2>4. QED
      BY <1>1, <1>2, <1>3, <1>4, <2>2, <2>3
<1>5. CASE IsFlagged(item) /\ (TakesArgument(item) \/ IsPlain(item))
  <2>1. IsEncoding(item, Encoded(item))
      BY <1>5, FlaggedEncoding
  <2>2. Encoded(item) \in Seq(Symbol) /\ Len(Encoded(item)) >= 1
      BY <2>1 DEF IsEncoding
  <2>3. CASE TakesArgument(item)
    <3> DEFINE flags == [pad |-> PadOf(item), width |-> item.width]
    <3>1. flags.pad = PadOf(item) /\ flags.width = item.width /\ "text" \notin DOMAIN item
        BY <1>5 DEF IsFlagged
    <3> HIDE DEF flags
    <3>2. Meaning(item) \in Seq(Symbol)
        BY <1>5, <2>3, <3>1, RenderedIsMeant
    <3>3. item.arg \in Operand
        BY <2>3 DEF TakesArgument, Operand
    <3>4. <<item.arg>> \in Seq(Operand)
        BY <3>3
    <3>5. QED
        BY <1>1, <1>2, <1>3, <2>2, <2>3, <3>2, <3>4
  <2>4. CASE IsPlain(item)
    <3>1. Meaning(item) \in Seq(Symbol)
        BY <1>5, <2>4, PlainIsMeant
    <3>2. << >> \in Seq(Operand)
        OBVIOUS
    <3>3. QED
        BY <1>1, <1>2, <1>3, <2>2, <2>4, <3>1, <3>2
  <2>5. QED
      BY <1>5, <2>3, <2>4
<1>6. QED
    BY <1>4, <1>5, ItemKinds

\* The format string, its meaning and its arguments are laid out item by item.
IsLayout(form, fmt, f, text, g, args, c) ==
    /\ fmt \in Seq(Symbol) /\ text \in Seq(Symbol)
    /\ Laid(Encodings(form), fmt, f)
    /\ Laid(Meanings(form), text, g)
    /\ Laid(Arguments(form), args, c)

LEMMA LayoutExists ==
    ASSUME NEW form \in Seq(Item)
    PROVE  \E f : \E g : \E c :
              IsLayout(form, FlattenSeq(Encodings(form)), f, FlattenSeq(Meanings(form)), g,
                       FlattenSeq(Arguments(form)), c)
<1> DEFINE n == Len(form)
<1>1. n \in Nat /\ \A i \in 1..n : form[i] \in Item
    OBVIOUS
<1> HIDE DEF n
<1>2. Encodings(form) \in Seq(Seq(Symbol))
  <2>1. \A i \in 1..n : Encoded(form[i]) \in Seq(Symbol)
      BY <1>1, ItemFacts
  <2>2. [i \in 1..n |-> Encoded(form[i])] \in Seq(Seq(Symbol))
      BY <1>1, <2>1
  <2>3. QED
      BY <2>2 DEF Encodings, n
<1>3. Meanings(form) \in Seq(Seq(Symbol))
  <2>1. \A i \in 1..n : Meaning(form[i]) \in Seq(Symbol)
      BY <1>1, ItemFacts
  <2>2. [i \in 1..n |-> Meaning(form[i])] \in Seq(Seq(Symbol))
      BY <1>1, <2>1
  <2>3. QED
      BY <2>2 DEF Meanings, n
<1>4. Arguments(form) \in Seq(Seq(Operand))
  <2>1. \A i \in 1..n : Argument(form[i]) \in Seq(Operand)
      BY <1>1, ItemFacts
  <2>2. [i \in 1..n |-> Argument(form[i])] \in Seq(Seq(Operand))
      BY <1>1, <2>1
  <2>3. QED
      BY <2>2 DEF Arguments, n
<1>5. /\ FlattenSeq(Encodings(form)) \in Seq(Symbol)
      /\ \E f : Laid(Encodings(form), FlattenSeq(Encodings(form)), f)
    BY <1>2, FlattenedIsLaid
<1>6. /\ FlattenSeq(Meanings(form)) \in Seq(Symbol)
      /\ \E g : Laid(Meanings(form), FlattenSeq(Meanings(form)), g)
    BY <1>3, FlattenedIsLaid
<1>7. \E c : Laid(Arguments(form), FlattenSeq(Arguments(form)), c)
    BY <1>4, FlattenedIsLaid
<1>8. QED
    BY <1>5, <1>6, <1>7, Zenon DEF IsLayout

\* What a layout says of item k, the one after the first j.
ItemLaid(form, fmt, f, text, g, args, c, j, k) ==
    /\ form[k] \in Item
    /\ f[j] \in Nat /\ f[k] = f[j] + Len(Encoded(form[k])) /\ f[k] <= Len(fmt)
    /\ Stands(Encoded(form[k]), fmt, f[j] + 1)
    /\ g[j] \in Nat /\ g[k] = g[j] + Len(Meaning(form[k])) /\ g[k] <= Len(text)
    /\ \A i \in 1..Len(Meaning(form[k])) :
          g[j] + i \in 1..Len(text) /\ text[g[j] + i] = Meaning(form[k])[i]
    /\ c[j] \in Nat /\ c[k] = c[j] + Len(Argument(form[k]))
    /\ \A i \in 1..Len(Argument(form[k])) : args[c[j] + i] = Argument(form[k])[i]

LEMMA LayoutOfItem ==
    ASSUME NEW form \in Seq(Item), NEW fmt, NEW f, NEW text, NEW g, NEW args, NEW c,
           IsLayout(form, fmt, f, text, g, args, c), NEW j \in Nat, NEW k \in 1..Len(form), k = j + 1
    PROVE  ItemLaid(form, fmt, f, text, g, args, c, j, k)
<1> DEFINE n == Len(form)
           item == form[k]
<1>1. n \in Nat /\ k \in 1..n /\ k \in 0..n /\ j \in 0..n /\ k - 1 = j /\ item \in Item
    OBVIOUS
<1> HIDE DEF n
<1>2. /\ Len(Encodings(form)) = n /\ Encodings(form)[k] = Encoded(item)
      /\ Len(Meanings(form)) = n /\ Meanings(form)[k] = Meaning(item)
      /\ Len(Arguments(form)) = n /\ Arguments(form)[k] = Argument(item)
    BY <1>1 DEF Encodings, Meanings, Arguments, n
<1>3. ASSUME NEW s, NEW t, NEW pos, NEW e, Laid(s, t, pos), Len(s) = n, s[k] = e, Len(t) \in Nat
      PROVE  /\ pos[j] \in Nat /\ pos[k] = pos[j] + Len(e) /\ pos[k] <= Len(t)
             /\ \A i \in 1..Len(e) : pos[j] + i \in 1..Len(t) /\ t[pos[j] + i] = e[i]
    BY <1>1, <1>3 DEF Laid
<1>4. Len(fmt) \in Nat /\ Len(text) \in Nat
    BY DEF IsLayout
<1>5. /\ f[j] \in Nat /\ f[k] = f[j] + Len(Encoded(item)) /\ f[k] <= Len(fmt)
      /\ \A i \in 1..Len(Encoded(item)) :
            f[j] + i \in 1..Len(fmt) /\ fmt[f[j] + i] = Encoded(item)[i]
    BY <1>2, <1>3, <1>4 DEF IsLayout
<1>6. /\ g[j] \in Nat /\ g[k] = g[j] + Len(Meaning(item)) /\ g[k] <= Len(text)
      /\ \A i \in 1..Len(Meaning(item)) :
            g[j] + i \in 1..Len(text) /\ text[g[j] + i] = Meaning(item)[i]
    BY <1>2, <1>3, <1>4 DEF IsLayout
<1>7. /\ c[j] \in Nat /\ c[k] = c[j] + Len(Argument(item))
      /\ \A i \in 1..Len(Argument(item)) : args[c[j] + i] = Argument(item)[i]
    BY <1>2, <1>3, <1>4 DEF IsLayout
<1>8. Stands(Encoded(item), fmt, f[j] + 1)
  <2>1. \A i \in 1..Len(Encoded(item)) : (f[j] + 1) + i - 1 = f[j] + i
      BY <1>5
  <2>2. QED
      BY <1>5, <2>1 DEF Stands
<1>9. QED
    BY <1>1, <1>5, <1>6, <1>7, <1>8 DEF ItemLaid

\* The formatter is at character o of item j + 1: only in a text it is not at the first.
Reached(form, f, text, g, c, room, j, o, st) ==
    /\ st = [p |-> f[j] + o + 1, a |-> c[j] + 1, out |-> Fit(text, Min2(g[j] + o, room))]
    /\ o = 0 \/ (j < Len(form) /\ IsText(form[j + 1]) /\ o < Len(Encoded(form[j + 1])))

GoesOn(form, f, text, g, c, room, j, o, st) ==
    \E j2 \in 0..Len(form) : \E o2 \in Nat :
        /\ Reached(form, f, text, g, c, room, j2, o2, st)
        /\ f[j2] + o2 > f[j] + o

\* A turn in a text takes one character,
LEMMA TextTurn ==
    ASSUME NEW form \in Seq(Item), NEW fmt, NEW f, NEW text, NEW g, NEW args, NEW c,
           IsLayout(form, fmt, f, text, g, args, c), NEW size \in Nat \ {0},
           NEW j \in Nat, NEW k \in 1..Len(form), k = j + 1, NEW o \in Nat, IsText(form[k]),
           o < Len(Encoded(form[k])), g[j] + o < Room(size),
           NEW st, Reached(form, f, text, g, c, Room(size), j, o, st)
    PROVE  GoesOn(form, f, text, g, c, Room(size), j, o, Turn(size, fmt, args, st))
<1> DEFINE item == form[k]
           e == Encoded(item)
           l == Len(e)
           room == Room(size)
           F == f[j]
           G == g[j]
           C == c[j]
           x == G + o
           y == x + 1
           i == o + 1
           p == F + i
           ch == fmt[p]
<1>1. ItemLaid(form, fmt, f, text, g, args, c, j, k)
    BY LayoutOfItem
<1>2. Meaning(item) = e /\ Argument(item) = << >> /\ e = item.text /\ e \in Seq(Symbol)
    BY <1>1, ItemFacts DEF ItemLaid
<1>3. l \in Nat /\ i \in 1..l
    BY <1>2
<1>4. F \in Nat /\ f[k] = F + l /\ G \in Nat /\ g[k] = G + l /\ C \in Nat /\ c[k] = C /\ G + l <= Len(text)
  <2>1. Len(Argument(item)) = 0
      BY <1>2
  <2>2. F \in Nat /\ f[k] = F + l /\ G \in Nat /\ g[k] = G + Len(Meaning(item))
      BY <1>1 DEF ItemLaid
  <2>3. g[k] <= Len(text) /\ C \in Nat /\ c[k] = C + Len(Argument(item))
      BY <1>1 DEF ItemLaid
  <2>4. QED
      BY <1>2, <2>1, <2>2, <2>3
<1>5. p \in 1..Len(fmt) /\ ch = e[i] /\ text[G + i] = e[i] /\ fmt \in Seq(Symbol) /\ text \in Seq(Symbol)
  <2>1. (F + 1) + i - 1 = p
    <3>1. \A q, m \in Nat : (q + 1) + m - 1 = q + m
        OBVIOUS
    <3>2. F \in Nat /\ i \in Nat
        BY <1>4
    <3>3. QED
        BY <3>1, <3>2
  <2>2. \A m \in 1..l : (F + 1) + m - 1 \in 1..Len(fmt) /\ fmt[(F + 1) + m - 1] = e[m]
      BY <1>1 DEF ItemLaid, Stands
  <2>3. (F + 1) + i - 1 \in 1..Len(fmt) /\ fmt[(F + 1) + i - 1] = e[i]
      BY <1>3, <2>2
  <2>4. \A m \in 1..l : text[G + m] = e[m]
      BY <1>1, <1>2 DEF ItemLaid
  <2>5. QED
      BY <1>3, <2>1, <2>3, <2>4 DEF IsLayout
<1>6. ch # "%"
  <2>1. item.text \in Seq(Char \ {"%"})
      BY DEF IsText
  <2>2. e[i] \in Char \ {"%"}
      BY <1>2, <1>3, <2>1
  <2>3. QED
      BY <1>5, <2>2
<1>7. room \in Nat /\ x < room
    BY DEF Room
<1> HIDE DEF item, e, l, room, F, G, C
<1>8. /\ x \in Nat /\ y \in Nat /\ Len(text) \in Nat /\ x < Len(text) /\ G + i = x + 1
      /\ Min2(x, room) = x /\ Min2(y, room) = x + 1
  <2>1. x \in Nat /\ y \in Nat /\ Len(text) \in Nat
    <3>1. G \in Nat
        BY <1>4
    <3>2. text \in Seq(Symbol)
        BY <1>5
    <3>3. Len(text) \in Nat
        BY <3>2
    <3>4. QED
        BY <3>1, <3>3
  <2>2. o + 1 <= l /\ G + l <= Len(text) /\ l \in Nat /\ G \in Nat
      BY <1>3, <1>4
  <2>3. x < Len(text) /\ G + i = x + 1
      BY <2>1, <2>2
  <2>4. QED
      BY <1>7, <2>1, <2>3 DEF Min2
<1> DEFINE before == Fit(text, x)
           after == Fit(text, Min2(y, room))
           a == C + 1
<1>9. before \in Seq(Symbol) /\ Len(before) = x
  <2>1. Min2(Len(text), x) = x
      BY <1>8 DEF Min2
  <2>2. QED
      BY <1>5, <1>8, <2>1, FitFacts
<1>10. Append(before, ch) = after
  <2>1. Append(Fit(text, x), text[x + 1]) = Fit(text, x + 1)
      BY <1>5, <1>8, FitOneMore
  <2>2. text[x + 1] = ch
      BY <1>5, <1>8
  <2>3. QED
      BY <1>8, <2>1, <2>2
<1>11. st = [p |-> p, a |-> a, out |-> before]
  <2>1. st = [p |-> F + o + 1, a |-> C + 1, out |-> Fit(text, Min2(G + o, room))]
      BY DEF Reached, F, C, G, room
  <2>2. F + o + 1 = p
      BY <1>4
  <2>3. QED
      BY <1>8, <2>1, <2>2
<1>12. Turn(size, fmt, args, st) = [st EXCEPT !.p = @ + 1, !.out = Append(@, fmt[st.p])]
  <2> HIDE DEF before, a
  <2>1. st.p = p /\ st.out = before
      BY <1>11
  <2>2. fmt[st.p] # "%" /\ ~(st.p > Len(fmt)) /\ ~(Len(st.out) >= Room(size))
      BY <1>5, <1>6, <1>7, <1>8, <1>9, <2>1 DEF room
  <2>3. QED
      BY <2>2, Zenon DEF Turn
<1>13. Turn(size, fmt, args, st) = [p |-> p + 1, a |-> a, out |-> after]
  <2> HIDE DEF before, after, a, p
  <2>1. st.p = p /\ st.out = before /\ fmt[st.p] = ch
      BY <1>11
  <2>2. QED
      BY <1>10, <1>11, <1>12, <2>1
<1>14. CASE i < l
  <2>1. F + i + 1 = p + 1 /\ G + i = y
      BY <1>8
  <2>2. Turn(size, fmt, args, st) = [p |-> F + i + 1, a |-> C + 1, out |-> Fit(text, Min2(G + i, room))]
      BY <1>13, <2>1
  <2>3. j < Len(form) /\ form[j + 1] = item
      BY DEF item
  <2>4. Reached(form, f, text, g, c, room, j, i, Turn(size, fmt, args, st))
      BY <1>14, <2>2, <2>3 DEF Reached, F, G, C, item, e, l
  <2>5. i \in Nat /\ j \in 0..Len(form) /\ F + i > F + o
      BY <1>4
  <2>6. QED
      BY <2>4, <2>5 DEF GoesOn, room, F
<1>15. CASE i = l
  <2>1. f[k] + 0 + 1 = p + 1 /\ g[k] + 0 = y /\ c[k] + 1 = a
      BY <1>4, <1>8, <1>15
  <2>2. Turn(size, fmt, args, st) = [p |-> f[k] + 0 + 1, a |-> c[k] + 1, out |-> Fit(text, Min2(g[k] + 0, room))]
      BY <1>13, <2>1
  <2>3. Reached(form, f, text, g, c, room, k, 0, Turn(size, fmt, args, st))
      BY <2>2 DEF Reached
  <2>4. k \in 0..Len(form) /\ f[k] + 0 > F + o
      BY <1>3, <1>4, <1>15
  <2>5. QED
      BY <2>3, <2>4 DEF GoesOn, room, F
<1>16. QED
    BY <1>3, <1>14, <1>15

\* and a turn at a percent sign takes the item.
LEMMA ConversionTurn ==
    ASSUME NEW form \in Seq(Item), NEW fmt, NEW f, NEW text, NEW g, NEW args, NEW c,
           IsLayout(form, fmt, f, text, g, args, c), NEW size \in Nat \ {0},
           NEW j \in Nat, NEW k \in 1..Len(form), k = j + 1, IsFlagged(form[k]),
           TakesArgument(form[k]) \/ IsPlain(form[k]), g[j] < Room(size),
           NEW st, Reached(form, f, text, g, c, Room(size), j, 0, st)
    PROVE  GoesOn(form, f, text, g, c, Room(size), j, 0, Turn(size, fmt, args, st))
<1> DEFINE item == form[k]
           e == Encoded(item)
           l == Len(e)
           m == Meaning(item)
           n == Len(Argument(item))
           room == Room(size)
           F == f[j]
           G == g[j]
           C == c[j]
           p == F + 1
           a == C + 1
           flags == Flags(fmt, p)
           before == Fit(text, G)
           y == G + Len(m)
           after == Fit(text, Min2(y, room))
           turned == [p |-> flags.conv + 1, a |-> a + n, out |-> Fit(before \o m, room)]
<1>1. ItemLaid(form, fmt, f, text, g, args, c, j, k)
    BY LayoutOfItem
<1>2. /\ item \in Item /\ F \in Nat /\ f[k] = F + l /\ G \in Nat /\ g[k] = y /\ g[k] <= Len(text)
      /\ C \in Nat /\ c[k] = C + n /\ Stands(e, fmt, p)
    BY <1>1 DEF ItemLaid
<1>3. /\ \A i \in 1..Len(m) : text[G + i] = m[i]
      /\ \A i \in 1..n : args[C + i] = Argument(item)[i]
    BY <1>1 DEF ItemLaid
<1>4. m \in Seq(Symbol) /\ e \in Seq(Symbol) /\ l \in Nat \ {0} /\ Len(m) \in Nat /\ Argument(item) \in Seq(Operand)
  <2>1. /\ m \in Seq(Symbol) /\ e \in Seq(Symbol) /\ Len(e) >= 1
        /\ Argument(item) \in Seq(Operand)
    <3> HIDE DEF item
    <3>1. QED
        BY <1>2, ItemFacts
  <2> HIDE DEF e, m
  <2>2. QED
      BY <2>1
<1>5. n \in Nat /\ text \in Seq(Symbol) /\ fmt \in Seq(Symbol) /\ Len(text) \in Nat /\ room \in Nat
    BY <1>4 DEF IsLayout, Room
<1>6. IsEncoding(item, e)
    BY FlaggedEncoding
<1>7. p \in Nat \ {0} /\ p \in 1..Len(fmt) /\ fmt[p] = "%"
  <2>1. 1 \in 1..l /\ p + 1 - 1 = p /\ p \in Nat \ {0}
    <3> HIDE DEF l, F
    <3>1. QED
        BY <1>2, <1>4
  <2>2. e[1] = "%"
      BY <1>6 DEF IsEncoding
  <2>3. p + 1 - 1 \in 1..Len(fmt) /\ fmt[p + 1 - 1] = e[1]
    <3> HIDE DEF p
    <3>1. QED
        BY <1>2, <2>1 DEF Stands
  <2>4. QED
      BY <2>1, <2>2, <2>3
<1>8. /\ flags.pad = PadOf(item) /\ flags.width = item.width
      /\ flags.conv = p + l - 1 /\ At(fmt, flags.conv) = item.conv
  <2>1. FlagsOf(item, e, fmt, p)
    <3> HIDE DEF p, e
    <3>1. QED
        BY <1>2, <1>5, <1>6, <1>7, FlagsAreRead
  <2>2. QED
      BY <2>1 DEF FlagsOf
<1>9. st.p = p /\ st.a = a /\ st.out = before
  <2>1. st = [p |-> F + 0 + 1, a |-> C + 1, out |-> Fit(text, Min2(G + 0, room))]
      BY DEF Reached
  <2>2. F + 0 + 1 = p /\ Min2(G + 0, room) = G
      BY <1>2, <1>5 DEF Min2
  <2> HIDE DEF F, G, room
  <2>3. QED
      BY <2>1, <2>2
<1>10. before \in Seq(Symbol) /\ Len(before) = G
  <2>1. Min2(Len(text), G) = G
      BY <1>2, <1>4, <1>5 DEF Min2
  <2>2. QED
      BY <1>2, <1>5, <2>1, FitFacts
<1>11. Fit(before \o m, room) = after
  <2>1. G <= room /\ G + Len(m) <= Len(text)
      BY <1>2, <1>5
  <2> HIDE DEF room, G, m
  <2>2. Fit(Fit(text, G) \o m, room) = Fit(text, Min2(G + Len(m), room))
      BY <1>2, <1>3, <1>4, <1>5, <2>1, FitMore
  <2>3. QED
      BY <2>2
<1>12. ~(st.p > Len(fmt)) /\ ~(Len(st.out) >= Room(size)) /\ fmt[st.p] = "%"
  <2>1. G < room /\ Len(fmt) \in Nat
      BY <1>5
  <2> HIDE DEF p, before, G
  <2>2. QED
      BY <1>2, <1>5, <1>7, <1>9, <1>10, <2>1
<1> HIDE DEF m, e, l, n, F, G, C, p, a, flags, before, after, y, room
<1>13. Turn(size, fmt, args, st) = turned
  <2>1. CASE TakesArgument(item)
    <3>1. /\ item.conv \in Conversions /\ Rendered(item.conv, flags, item.arg) = m
      <4>1. "text" \notin DOMAIN item
          BY DEF IsFlagged
      <4>2. QED
          BY <1>8, <2>1, <4>1, RenderedIsMeant DEF m
    <3>2. Argument(item) = <<item.arg>>
        BY <1>2, <2>1, ItemFacts
    <3>3. n = 1 /\ args[a] = item.arg
      <4>1. n = 1
          BY <3>2 DEF n
      <4>2. args[C + 1] = Argument(item)[1]
          BY <1>3, <4>1
      <4>3. QED
          BY <3>2, <4>1, <4>2 DEF a
    <3>4. Turn(size, fmt, args, st)
          = [p |-> flags.conv + 1, a |-> st.a + 1,
             out |-> Fit(st.out \o Rendered(item.conv, flags, args[st.a]), room)]
      <4>1. At(fmt, Flags(fmt, st.p).conv) = item.conv /\ Flags(fmt, st.p) = flags
          BY <1>8, <1>9 DEF flags
      <4>2. item.conv # "%" /\ item.conv # NUL
          BY <2>1 DEF TakesArgument, NUL
      <4>3. QED
          BY <1>12, <3>1, <4>1, <4>2, Zenon DEF Turn, room
    <3>5. QED
        BY <1>9, <3>1, <3>3, <3>4
  <2>2. CASE IsPlain(item)
    <3>1. Argument(item) = << >>
        BY <1>2, <2>2, ItemFacts
    <3>2. n = 0 /\ a + n = a
        BY <1>2, <3>1 DEF n, a
    <3>3. /\ item.conv \notin Conversions /\ item.conv # NUL
          /\ item.conv = "%" => m = <<"%">>
          /\ item.conv # "%" => m = <<"%", item.conv>>
        BY <2>2, PlainIsMeant DEF m
    <3>4. At(fmt, Flags(fmt, st.p).conv) = item.conv /\ Flags(fmt, st.p) = flags
        BY <1>8, <1>9 DEF flags
    <3>5. CASE item.conv = "%"
      <4>1. Turn(size, fmt, args, st)
            = [p |-> flags.conv + 1, a |-> st.a + 0, out |-> Fit(st.out \o <<"%">>, room)]
          BY <1>12, <3>3, <3>4, <3>5, Zenon DEF Turn, room
      <4>2. QED
          BY <1>9, <3>2, <3>3, <3>5, <4>1
    <3>6. CASE item.conv # "%"
      <4>1. Turn(size, fmt, args, st)
            = [p |-> flags.conv + 1, a |-> st.a + 0, out |-> Fit(st.out \o <<"%", item.conv>>, room)]
          BY <1>12, <3>3, <3>4, <3>6, Zenon DEF Turn, room
      <4>2. QED
          BY <1>9, <3>2, <3>3, <3>6, <4>1
    <3>7. QED
        BY <3>5, <3>6
  <2>3. QED
      BY <2>1, <2>2
<1>14. turned = [p |-> f[k] + 0 + 1, a |-> c[k] + 1, out |-> Fit(text, Min2(g[k] + 0, room))]
  <2>1. flags.conv + 1 = f[k] + 0 + 1 /\ a + n = c[k] + 1 /\ g[k] + 0 = y
      BY <1>2, <1>4, <1>5, <1>8 DEF p, a, y
  <2>2. QED
      BY <1>11, <2>1 DEF after
<1>15. Reached(form, f, text, g, c, room, k, 0, Turn(size, fmt, args, st))
    BY <1>13, <1>14 DEF Reached
<1>16. k \in 0..Len(form) /\ f[k] + 0 > f[j] + 0
    BY <1>2, <1>4 DEF F
<1>17. QED
    BY <1>15, <1>16 DEF GoesOn, room

\* A turn goes on until the format string is read or the buffer full.
LEMMA NextTurn ==
    ASSUME NEW form \in Seq(Item), NEW fmt, NEW f, NEW text, NEW g, NEW args, NEW c,
           IsLayout(form, fmt, f, text, g, args, c), NEW size \in Nat \ {0},
           NEW j \in 0..Len(form), NEW o \in Nat,
           NEW st, Reached(form, f, text, g, c, Room(size), j, o, st)
    PROVE  \/ /\ GoesOn(form, f, text, g, c, Room(size), j, o, Turn(size, fmt, args, st))
              /\ ~(j = Len(form) \/ g[j] + o >= Room(size))
           \/ Turn(size, fmt, args, st) = st /\ (j = Len(form) \/ g[j] + o >= Room(size))
<1> DEFINE n == Len(form)
           room == Room(size)
           k == j + 1
<1>1. room \in Nat /\ n \in Nat /\ fmt \in Seq(Symbol) /\ text \in Seq(Symbol)
    BY DEF Room, IsLayout
<1>2. st = [p |-> f[j] + o + 1, a |-> c[j] + 1, out |-> Fit(text, Min2(g[j] + o, room))]
    BY DEF Reached
<1>3. CASE j = n
  <2>1. o = 0
      BY <1>1, <1>3 DEF Reached
  <2>2. Len(Encodings(form)) = n
      BY DEF Encodings
  <2>3. f[j] = Len(fmt)
      BY <1>3, <2>2 DEF IsLayout, Laid
  <2>4. st.p > Len(fmt)
    <3>1. st.p = f[j] + o + 1
        BY <1>2
    <3>2. QED
        BY <1>1, <2>1, <2>3, <3>1
  <2>5. Turn(size, fmt, args, st) = st
      BY <2>4, Zenon DEF Turn
  <2>6. QED
      BY <1>3, <2>5
<1>4. CASE j # n
  <2>1. j \in Nat /\ k \in 1..n /\ k = j + 1
      BY <1>1, <1>4
  <2> DEFINE item == form[k]
  <2> HIDE DEF k
  <2>2. ItemLaid(form, fmt, f, text, g, args, c, j, k)
      BY <2>1, LayoutOfItem
  <2>3. /\ item \in Item /\ g[j] \in Nat /\ g[k] = g[j] + Len(Meaning(item)) /\ g[k] <= Len(text)
      BY <2>2 DEF ItemLaid
  <2>4. o = 0 \/ (IsText(item) /\ o < Len(Encoded(item)))
      BY <2>1 DEF Reached
  <2>5. Len(Encoded(item)) >= 1 /\ Meaning(item) \in Seq(Symbol) /\ (IsText(item) => Encoded(item) = Meaning(item))
    <3> HIDE DEF item
    <3>1. QED
        BY <2>3, ItemFacts
  <2>6. CASE g[j] + o < room
    <3>4. ~(j = n \/ g[j] + o >= room)
        BY <1>1, <1>4, <2>3, <2>6
    <3>1. CASE IsText(item)
      <4>1. o < Len(Encoded(item))
        <5>1. Len(Encoded(item)) \in Nat
            BY <2>5, <3>1
        <5>2. QED
            BY <2>4, <2>5, <5>1
      <4>2. QED
          BY <2>1, <2>6, <3>1, <3>4, <4>1, TextTurn
    <3>2. CASE IsFlagged(item) /\ (TakesArgument(item) \/ IsPlain(item)) /\ ~IsText(item)
      <4>1. o = 0 /\ g[j] < room
          BY <2>3, <2>4, <2>6, <3>2
      <4>2. Reached(form, f, text, g, c, Room(size), j, 0, st)
          BY <4>1
      <4>3. GoesOn(form, f, text, g, c, Room(size), j, 0, Turn(size, fmt, args, st))
          BY <2>1, <3>2, <4>1, <4>2, ConversionTurn
      <4>4. QED
          BY <3>4, <4>1, <4>3
    <3>3. QED
        BY <2>3, <3>1, <3>2, ItemKinds
  <2>7. CASE ~(g[j] + o < room)
    <3>1. g[j] + o \in Nat /\ g[j] + o >= room
        BY <1>1, <2>3, <2>7
    <3>2. room <= Len(text)
      <4>1. Len(Meaning(item)) \in Nat /\ Len(text) \in Nat
          BY <1>1, <2>5
      <4>2. o <= Len(Meaning(item))
          BY <2>4, <2>5, <4>1
      <4> DEFINE l == Len(Meaning(item))
      <4> HIDE DEF l
      <4>3. QED
          BY <1>1, <2>3, <3>1, <4>1, <4>2 DEF l
    <3>3. Min2(g[j] + o, room) = room /\ Min2(Len(text), room) = room
        BY <1>1, <3>1, <3>2 DEF Min2
    <3>4. Len(Fit(text, room)) = room
      <4> HIDE DEF room
      <4>1. QED
          BY <1>1, <3>3, FitFacts
    <3>5. Len(st.out) >= Room(size)
      <4>1. st.out = Fit(text, room)
          BY <1>2, <3>3
      <4>2. QED
          BY <1>1, <3>4, <4>1
    <3>6. Turn(size, fmt, args, st) = st
        BY <3>5, Zenon DEF Turn
    <3>7. QED
        BY <3>1, <3>6
  <2>8. QED
      BY <2>6, <2>7
<1>5. QED
    BY <1>3, <1>4

\* After k turns k characters are read, or the format string, or the buffer is full.
Turned(form, f, text, g, c, room, k, st) ==
    \E j \in 0..Len(form) : \E o \in Nat :
        /\ Reached(form, f, text, g, c, room, j, o, st)
        /\ f[j] + o >= k \/ j = Len(form) \/ g[j] + o >= room

\* A printed line is what its items mean, cut where the buffer ends.
LEMMA FormatIsMeant ==
    ASSUME NEW form \in Seq(Item), NEW size \in Nat \ {0}, NEW shown,
           shown = FormatV(size, FlattenSeq(Encodings(form)), FlattenSeq(Arguments(form)))
    PROVE  Shows(form, size, shown) /\ shown \in Seq(Symbol) /\ Len(shown) < size
<1> DEFINE fmt == FlattenSeq(Encodings(form))
           text == FlattenSeq(Meanings(form))
           args == FlattenSeq(Arguments(form))
           room == Room(size)
           n == Len(form)
           N == Len(fmt)
           init == [p |-> 1, a |-> 1, out |-> << >>]
           Solves(t, m) == t = [k \in 0..m |-> IF k = 0 THEN init ELSE Turn(size, fmt, args, t[k - 1])]
<1>1. PICK f : \E g : \E c : IsLayout(form, fmt, f, text, g, args, c)
    BY LayoutExists
<1>2. PICK g : \E c : IsLayout(form, fmt, f, text, g, args, c)
    BY <1>1
<1>3. PICK c : IsLayout(form, fmt, f, text, g, args, c)
    BY <1>2
<1>4. N \in Nat /\ room \in Nat /\ room = size - 1 /\ n \in Nat /\ text \in Seq(Symbol)
    BY <1>3 DEF IsLayout, Room
<1> DEFINE turn == CHOOSE t : Solves(t, N)
<1>5. shown = turn[N].out
    BY Zenon DEF FormatV
<1> HIDE DEF fmt, text, args, turn, init, N
<1>6. \E t : Solves(t, N)
  <2> DEFINE T == {m \in Nat : \E t : Solves(t, m)}
  <2>1. 0 \in T
    <3> DEFINE t == [k \in 0..0 |-> init]
    <3>1. \A k \in 0..0 : k = 0
        OBVIOUS
    <3>2. Solves(t, 0)
        BY <3>1
    <3>3. QED
        BY <3>2
  <2>2. ASSUME NEW m \in Nat, m \in T PROVE m + 1 \in T
    <3>1. PICK t : Solves(t, m)
        BY <2>2
    <3> DEFINE u == [k \in 0..(m + 1) |-> IF k = m + 1 THEN Turn(size, fmt, args, t[m]) ELSE t[k]]
    <3>2. \A k \in 0..m : t[k] = IF k = 0 THEN init ELSE Turn(size, fmt, args, t[k - 1])
      <4>1. t = [k \in 0..m |-> IF k = 0 THEN init ELSE Turn(size, fmt, args, t[k - 1])]
          BY <3>1
      <4>2. QED
          BY <4>1
    <3>3. \A k \in 0..(m + 1) : u[k] = IF k = m + 1 THEN Turn(size, fmt, args, t[m]) ELSE t[k]
        OBVIOUS
    <3>4. u = [k \in 0..(m + 1) |-> u[k]]
        OBVIOUS
    <3> HIDE DEF u
    <3>5. ASSUME NEW k \in 0..(m + 1)
          PROVE  u[k] = IF k = 0 THEN init ELSE Turn(size, fmt, args, u[k - 1])
      <4>1. CASE k = m + 1
        <5>1. k # 0 /\ k - 1 = m /\ m \in 0..(m + 1) /\ m # m + 1
            BY <4>1
        <5>2. u[k] = Turn(size, fmt, args, t[m]) /\ u[m] = t[m]
            BY <3>3, <4>1, <5>1
        <5>3. QED
            BY <5>1, <5>2
      <4>2. CASE k # m + 1
        <5>1. k \in 0..m
            BY <4>2
        <5>2. u[k] = t[k]
            BY <3>3, <4>2
        <5>3. CASE k = 0
            BY <3>2, <5>1, <5>2, <5>3
        <5>4. CASE k # 0
          <6>1. k - 1 \in 0..(m + 1) /\ k - 1 # m + 1
              BY <5>1, <5>4
          <6>2. u[k - 1] = t[k - 1]
              BY <3>3, <6>1
          <6>3. QED
              BY <3>2, <5>1, <5>2, <5>4, <6>2
        <5>5. QED
            BY <5>3, <5>4
      <4>3. QED
          BY <4>1, <4>2
    <3>6. Solves(u, m + 1)
        BY <3>4, <3>5, Zenon
    <3>7. QED
        BY <3>6
  <2> HIDE DEF T
  <2>3. N \in T
      BY <1>4, <2>1, <2>2, AllNaturals
  <2>4. QED
      BY <2>3 DEF T
<1>7. \A k \in 0..N : turn[k] = IF k = 0 THEN init ELSE Turn(size, fmt, args, turn[k - 1])
  <2>1. Solves(turn, N)
      BY <1>6, Zenon DEF turn
  <2>2. turn = [k \in 0..N |-> IF k = 0 THEN init ELSE Turn(size, fmt, args, turn[k - 1])]
      BY <2>1
  <2>3. QED
      BY <2>2
<1> HIDE DEF Solves
<1> DEFINE Good(k) == Turned(form, f, text, g, c, room, k, turn[k])
           T == {k \in Nat : k <= N => Good(k)}
<1>8. 0 \in T
  <2>1. f[0] = 0 /\ g[0] = 0 /\ c[0] = 0
      BY <1>3 DEF IsLayout, Laid
  <2>2. turn[0] = [p |-> 1, a |-> 1, out |-> << >>]
    <3>1. 0 \in 0..N
        BY <1>4
    <3>2. turn[0] = init
        BY <1>7, <3>1
    <3>3. QED
        BY <3>2 DEF init
  <2>3. Fit(text, Min2(g[0] + 0, room)) = << >>
    <3>1. Min2(g[0] + 0, room) = 0 /\ Min2(Len(text), 0) = 0
        BY <1>4, <2>1 DEF Min2
    <3> DEFINE z == 0
    <3> HIDE DEF z
    <3>2. z \in Nat /\ Min2(Len(text), z) = 0
        BY <3>1 DEF z
    <3>3. Fit(text, z) \in Seq(Symbol) /\ Len(Fit(text, z)) = 0
        BY <1>4, <3>2, FitFacts
    <3>4. Fit(text, z) = << >>
        BY <3>3, EmptySeq
    <3>5. QED
        BY <3>1, <3>4 DEF z
  <2>4. Reached(form, f, text, g, c, room, 0, 0, turn[0])
      BY <2>1, <2>2, <2>3 DEF Reached
  <2>5. 0 \in 0..n /\ f[0] + 0 >= 0
      BY <1>4, <2>1
  <2>6. QED
      BY <2>4, <2>5 DEF Turned
<1>9. ASSUME NEW k \in Nat, k \in T PROVE k + 1 \in T
  <2>1. SUFFICES ASSUME k + 1 <= N PROVE Good(k + 1)
      OBVIOUS
  <2>2. Good(k) /\ turn[k + 1] = Turn(size, fmt, args, turn[k])
    <3>1. k + 1 \in 0..N /\ k + 1 # 0 /\ (k + 1) - 1 = k /\ k <= N
        BY <1>4, <2>1
    <3>2. QED
        BY <1>7, <1>9, <3>1
  <2>3. PICK j \in 0..n, o \in Nat :
            /\ Reached(form, f, text, g, c, room, j, o, turn[k])
            /\ f[j] + o >= k \/ j = n \/ g[j] + o >= room
      BY <2>2 DEF Turned
  <2> DEFINE st == turn[k]
             turned == Turn(size, fmt, args, st)
  <2>4. \/ /\ GoesOn(form, f, text, g, c, room, j, o, turned)
           /\ ~(j = n \/ g[j] + o >= room)
        \/ turned = st /\ (j = n \/ g[j] + o >= room)
    <3> HIDE DEF st
    <3>1. QED
        BY <1>3, <2>3, NextTurn DEF st
  <2>5. CASE GoesOn(form, f, text, g, c, room, j, o, turned) /\ ~(j = n \/ g[j] + o >= room)
    <3>1. PICK j2 \in 0..n, o2 \in Nat :
              Reached(form, f, text, g, c, room, j2, o2, turned) /\ f[j2] + o2 > f[j] + o
        BY <2>5 DEF GoesOn
    <3>2. \A q \in 0..n : f[q] \in Nat
      <4>1. Len(Encodings(form)) = n
          BY DEF Encodings
      <4>2. QED
          BY <1>3, <4>1 DEF IsLayout, Laid
    <3>3. f[j] \in Nat /\ f[j2] \in Nat
        BY <3>2
    <3>4. f[j2] + o2 >= k + 1
        BY <2>3, <2>5, <3>1, <3>3
    <3>5. QED
        BY <2>2, <3>1, <3>4 DEF Turned
  <2>6. CASE turned = st /\ (j = n \/ g[j] + o >= room)
      BY <2>2, <2>3, <2>6 DEF Turned
  <2>7. QED
      BY <2>4, <2>5, <2>6
<1> HIDE DEF T
<1>10. N \in T
    BY <1>4, <1>8, <1>9, AllNaturals
<1>11. Good(N)
    BY <1>4, <1>10 DEF T
<1>12. PICK j \in 0..n, o \in Nat :
           /\ Reached(form, f, text, g, c, room, j, o, turn[N])
           /\ f[j] + o >= N \/ j = n \/ g[j] + o >= room
    BY <1>11 DEF Turned
<1>13. shown = Fit(text, Min2(g[j] + o, room))
  <2>1. turn[N].out = Fit(text, Min2(g[j] + o, room))
      BY <1>12 DEF Reached
  <2>2. QED
      BY <1>5, <2>1
<1>14. shown = Fit(text, room)
  <2>1. CASE j = n
    <3>1. o = 0
        BY <1>4, <1>12, <2>1 DEF Reached
    <3>2. Len(Meanings(form)) = n
        BY DEF Meanings
    <3>3. g[j] = Len(text)
        BY <1>3, <2>1, <3>2 DEF IsLayout, Laid
    <3>4. shown = Fit(text, Min2(Len(text), room))
        BY <1>4, <1>13, <3>1, <3>3
    <3>5. Fit(text, Min2(Len(text), room)) = Fit(text, room)
        BY <1>4 DEF Fit, Min2
    <3>6. QED
        BY <3>4, <3>5, Zenon
  <2>2. CASE j # n
    <3>1. g[j] + o >= room
      <4>1. SUFFICES ASSUME ~(g[j] + o >= room) PROVE FALSE
          OBVIOUS
      <4> DEFINE k == j + 1
      <4>2. j \in Nat /\ k \in 1..n /\ k = j + 1
          BY <1>4, <2>2
      <4> HIDE DEF k
      <4>3. ItemLaid(form, fmt, f, text, g, args, c, j, k)
          BY <1>3, <4>2, LayoutOfItem
      <4>4. /\ form[k] \in Item /\ f[j] \in Nat
            /\ f[k] = f[j] + Len(Encoded(form[k])) /\ f[k] <= N
          BY <4>3 DEF ItemLaid, N
      <4>5. Len(Encoded(form[k])) >= 1 /\ Len(Encoded(form[k])) \in Nat
          BY <4>4, ItemFacts
      <4>6. o = 0 \/ o < Len(Encoded(form[k]))
          BY <1>12, <4>2 DEF Reached
      <4>7. f[j] + o >= N
          BY <1>12, <2>2, <4>1
      <4> DEFINE l == Len(Encoded(form[k]))
      <4> HIDE DEF l
      <4>8. QED
          BY <1>4, <4>4, <4>5, <4>6, <4>7 DEF l
    <3>2. g[j] \in Nat
      <4>1. Len(Meanings(form)) = n
          BY DEF Meanings
      <4>2. QED
          BY <1>3, <4>1 DEF IsLayout, Laid
    <3>3. Min2(g[j] + o, room) = room
        BY <1>4, <3>1, <3>2 DEF Min2
    <3>4. QED
        BY <1>13, <3>3, Zenon
  <2>3. QED
      BY <2>1, <2>2
<1>15. shown \in Seq(Symbol) /\ Len(shown) = Min2(Len(text), room)
  <2> HIDE DEF room
  <2>1. QED
      BY <1>4, <1>14, FitFacts
<1>16. Min2(Len(text), room) < size
    BY <1>4 DEF Min2
<1>17. QED
    BY <1>4, <1>14, <1>15, <1>16 DEF Shows, text

----------------------------------------------------------------------------
\* The log: the inductive invariant

\* The text Anbo_Log_Printf makes of its items.
Printed(form) ==
    FormatV(LineMax, FlattenSeq(Encodings(form)), FlattenSeq(Arguments(form)))

\* It is what they mean, within the line buffer.
LEMMA LinesFit ==
    ASSUME NEW form \in Lines
    PROVE  Shows(form, LineMax, Printed(form)) /\ Len(Printed(form)) \in 0..(LineMax - 1)
<1> DEFINE text == Printed(form)
<1>1. form \in Seq(Item) /\ LineMax \in Nat \ {0}
    BY LogPipeAssumption
<1>2. text = FormatV(LineMax, FlattenSeq(Encodings(form)), FlattenSeq(Arguments(form)))
    BY DEF Printed
<1> HIDE DEF text
<1>3. Shows(form, LineMax, text) /\ text \in Seq(Symbol) /\ Len(text) < LineMax
    BY <1>1, <1>2, FormatIsMeant
<1>4. Len(text) \in 0..(LineMax - 1)
    BY <1>1, <1>3
<1>5. QED
    BY <1>3, <1>4 DEF text

\* The bytes, and the counters of the flush and the drain.
BytesTyped ==
    /\ log \in Seq(Byte) /\ Len(log) <= LogSize
    /\ tx \in Seq(Byte) /\ Len(tx) <= TxSize
    /\ tdr \in Seq(Byte) /\ Len(tdr) <= Fifo
    /\ chunk \in Seq(Byte) /\ Len(chunk) <= Chunk
    /\ fits \in 0..Chunk /\ copied \in 0..Chunk
    /\ number \in Byte
    /\ owed \in 0..(LogSize + TxSize + Fifo)

\* Everything else.
ControlTyped ==
    /\ dev \in BOOLEAN /\ uartSink \in BOOLEAN /\ opened \in BOOLEAN /\ priv \in BOOLEAN
    /\ rx \in 0..RxSize /\ rdr \in 0..Fifo
    /\ cr1 \subseteq {"tx", "rx"} /\ modify \subseteq {"tx", "rx"}
    /\ stage \in {"idle", "formatted", "counted", "peeked", "copy", "kick", "putchar", "skip",
                  "open", "close"}
    /\ Len(line) \in 0..(LineMax - 1)
    /\ drain \in {"no", "log", "device"}
    /\ inputs \in 0..MaxInputs

\* The chunk in hand is the beginning of the log.
Flushing == stage \in {"counted", "peeked", "copy", "kick", "putchar", "skip"}
ChunkInv ==
    Flushing =>
        /\ Len(chunk) \in 1..Len(log)
        /\ \A i \in 1..Len(chunk) : chunk[i] = log[i]

\* How far it has got: the driver has room for what it has promised to take, which
\* without a log device is all of it; bytes go to the FIFO by hand only while
\* the driver has never been opened and its buffer is empty.
ProgressInv ==
    /\ stage \notin {"copy", "kick", "putchar", "skip"} => copied = 0
    /\ stage \in {"counted", "peeked"} /\ ~dev /\ priv => Len(chunk) <= TxSize - Len(tx)
    /\ stage = "copy" => copied < fits /\ fits - copied <= TxSize - Len(tx) /\ priv
    /\ stage = "kick" => copied = fits
    /\ stage \in {"copy", "kick"} => fits <= Len(chunk) /\ (~dev => fits = Len(chunk))
    /\ stage = "putchar" => copied < Len(chunk) /\ ~dev /\ ~priv
    /\ stage = "skip" => copied <= Len(chunk) /\ (~dev => copied = Len(chunk))
    /\ ~priv => tx = << >>

\* What a drain owes is still among the bytes on their way, in the device once the
\* log was empty.
DrainInv ==
    /\ drain = "log" => owed <= Len(tdr) + Len(tx) + Len(log) - copied
    /\ drain = "device" => owed <= Len(tdr) + Len(tx) /\ stage = "idle"

LogInv == BytesTyped /\ ControlTyped /\ ChunkInv /\ ProgressInv /\ DrainInv

----------------------------------------------------------------------------
\* Sizes, and sequences of bytes

LEMMA LogSizes ==
    /\ LogSize \in Nat \ {0} /\ TxSize \in Nat \ {0} /\ RxSize \in Nat \ {0}
    /\ Fifo \in Nat \ {0}
    /\ Chunk \in Nat \ {0} /\ LineMax \in Nat \ {0} /\ TraceLen \in Nat /\ MaxInputs \in Nat
    /\ Byte = 0..(LogSize + TxSize + Fifo) /\ Cardinality(Byte) = LogSize + TxSize + Fifo + 1
    /\ \A n \in Nat : n % Cardinality(Byte) \in Byte
<1>1. /\ LogSize \in Nat \ {0} /\ TxSize \in Nat \ {0} /\ RxSize \in Nat \ {0}
    /\ Fifo \in Nat \ {0}
      /\ Chunk \in Nat \ {0} /\ LineMax \in Nat \ {0} /\ TraceLen \in Nat /\ MaxInputs \in Nat
    BY LogPipeAssumption
<1>2. Byte = 0..(LogSize + TxSize + Fifo)
    BY DEF Byte
<1>3. Cardinality(Byte) = LogSize + TxSize + Fifo + 1
  <2>1. 0 \in Int /\ LogSize + TxSize + Fifo \in Int /\ ~(0 > LogSize + TxSize + Fifo)
      BY <1>1
  <2>2. Cardinality(Byte) = (LogSize + TxSize + Fifo) - 0 + 1
      BY <1>2, <2>1, FS_Interval
  <2>3. QED
      BY <1>1, <2>2
<1>4. ASSUME NEW n \in Nat PROVE n % Cardinality(Byte) \in Byte
  <2>1. Cardinality(Byte) \in Nat \ {0}
      BY <1>1, <1>3
  <2>2. n % Cardinality(Byte) \in 0..(Cardinality(Byte) - 1)
      BY <2>1, DivisionFact
  <2>3. QED
      BY <1>1, <1>2, <1>3, <2>2
<1>5. QED
    BY <1>1, <1>2, <1>3, <1>4

LEMMA LogConstants ==
    /\ LogSize \in Nat /\ LogSize > 0 /\ TxSize \in Nat /\ TxSize > 0
    /\ RxSize \in Nat /\ RxSize > 0 /\ Fifo \in Nat /\ Fifo > 0 /\ Chunk \in Nat /\ Chunk > 0
    /\ LineMax \in Nat /\ LineMax > 0 /\ TraceLen \in Nat /\ MaxInputs \in Nat
BY LogPipeAssumption

\* The rest of a sequence.
LEMMA RestOf ==
    ASSUME NEW l \in Seq(Byte), NEW c \in 0..Len(l)
    PROVE  /\ SubSeq(l, c + 1, Len(l)) \in Seq(Byte)
           /\ Len(SubSeq(l, c + 1, Len(l))) = Len(l) - c
           /\ \A i \in 1..(Len(l) - c) : SubSeq(l, c + 1, Len(l))[i] = l[c + i]
<1>1. Len(l) \in Nat
    OBVIOUS
<1>2. \A i \in (c + 1)..Len(l) : l[i] \in Byte
    BY <1>1
<1>3. /\ SubSeq(l, c + 1, Len(l)) \in Seq(Byte)
      /\ Len(SubSeq(l, c + 1, Len(l))) = IF c + 1 <= Len(l) THEN Len(l) - (c + 1) + 1 ELSE 0
      /\ \A i \in 1..(Len(l) - (c + 1) + 1) : SubSeq(l, c + 1, Len(l))[i] = l[c + 1 + i - 1]
    BY <1>1, <1>2, SubSeqProperties
<1>4. QED
    BY <1>1, <1>3

\* The bytes on their way, as a sequence; the log may be skipped up to COPIED.
Way(a, b, l, c) == a \o b \o SubSeq(l, c + 1, Len(l))

LEMMA WayFacts ==
    ASSUME NEW a \in Seq(Byte), NEW b \in Seq(Byte), NEW l \in Seq(Byte), NEW c \in 0..Len(l)
    PROVE  /\ Way(a, b, l, c) \in Seq(Byte)
           /\ Len(Way(a, b, l, c)) = Len(a) + Len(b) + (Len(l) - c)
           /\ \A i \in 1..(Len(a) + Len(b) + (Len(l) - c)) : Way(a, b, l, c)[i] =
                  IF i <= Len(a) THEN a[i]
                  ELSE IF i <= Len(a) + Len(b) THEN b[i - Len(a)]
                  ELSE l[c + (i - (Len(a) + Len(b)))]
<1> DEFINE r == SubSeq(l, c + 1, Len(l))
           ab == a \o b
<1>1. r \in Seq(Byte) /\ Len(r) = Len(l) - c /\ \A i \in 1..(Len(l) - c) : r[i] = l[c + i]
    BY RestOf
<1>2. ab \in Seq(Byte) /\ Len(ab) = Len(a) + Len(b)
      /\ \A i \in 1..(Len(a) + Len(b)) : ab[i] = IF i <= Len(a) THEN a[i] ELSE b[i - Len(a)]
    BY ConcatProperties
<1>3. Way(a, b, l, c) = ab \o r
    BY DEF Way
<1> HIDE DEF r, ab
<1>4. ab \o r \in Seq(Byte) /\ Len(ab \o r) = Len(ab) + Len(r)
      /\ \A i \in 1..(Len(ab) + Len(r)) :
            (ab \o r)[i] = IF i <= Len(ab) THEN ab[i] ELSE r[i - Len(ab)]
  <2>1. ab \in Seq(Byte) /\ r \in Seq(Byte)
      BY <1>1, <1>2
  <2>2. QED
      BY <2>1, ConcatProperties
<1>5. Len(a) \in Nat /\ Len(b) \in Nat /\ Len(l) \in Nat
    OBVIOUS
<1>6. ASSUME NEW i \in 1..(Len(a) + Len(b) + (Len(l) - c))
      PROVE  (ab \o r)[i] = IF i <= Len(a) THEN a[i]
                            ELSE IF i <= Len(a) + Len(b) THEN b[i - Len(a)]
                            ELSE l[c + (i - (Len(a) + Len(b)))]
  <2>1. CASE i <= Len(a) + Len(b)
      BY <1>1, <1>2, <1>4, <1>5, <2>1
  <2>2. CASE ~(i <= Len(a) + Len(b))
    <3>1. i - Len(ab) \in 1..(Len(l) - c) /\ ~(i <= Len(ab))
        BY <1>2, <1>5, <2>2
    <3>2. (ab \o r)[i] = r[i - Len(ab)]
        BY <1>1, <1>2, <1>4, <1>5, <3>1
    <3>3. r[i - Len(ab)] = l[c + (i - Len(ab))]
        BY <1>1, <3>1
    <3>4. ~(i <= Len(a))
        BY <1>5, <2>2
    <3>5. QED
        BY <1>2, <2>2, <3>2, <3>3, <3>4
  <2>3. QED
      BY <2>1, <2>2
<1>7. QED
    BY <1>1, <1>2, <1>3, <1>4, <1>6

\* Two views of the same bytes.
LEMMA SameWay ==
    ASSUME NEW p \in Seq(Byte), NEW q \in Seq(Byte), Len(p) = Len(q),
           \A i \in 1..Len(p) : p[i] = q[i]
    PROVE  p = q
BY SeqEqual

\* What is written into the log comes last.
LEMMA WayGrows ==
    ASSUME NEW a \in Seq(Byte), NEW b \in Seq(Byte), NEW l \in Seq(Byte), NEW c \in 0..Len(l),
           NEW m \in Seq(Byte)
    PROVE  Way(a, b, l \o m, c) = Way(a, b, l, c) \o m
<1> DEFINE lm == l \o m
           p == Way(a, b, lm, c)
           w == Way(a, b, l, c)
           q == w \o m
<1>1. lm \in Seq(Byte) /\ Len(lm) = Len(l) + Len(m)
      /\ \A i \in 1..(Len(l) + Len(m)) : lm[i] = IF i <= Len(l) THEN l[i] ELSE m[i - Len(l)]
    BY ConcatProperties
<1>2. Len(a) \in Nat /\ Len(b) \in Nat /\ Len(l) \in Nat /\ Len(m) \in Nat
    OBVIOUS
<1> HIDE DEF lm
<1>3. c \in 0..Len(lm)
    BY <1>1, <1>2
<1>4. /\ p \in Seq(Byte) /\ Len(p) = Len(a) + Len(b) + (Len(lm) - c)
      /\ \A i \in 1..(Len(a) + Len(b) + (Len(lm) - c)) : p[i] =
             IF i <= Len(a) THEN a[i]
             ELSE IF i <= Len(a) + Len(b) THEN b[i - Len(a)]
             ELSE lm[c + (i - (Len(a) + Len(b)))]
  <2>1. lm \in Seq(Byte)
      BY <1>1
  <2>2. QED
      BY <1>3, <2>1, WayFacts
<1>5. /\ w \in Seq(Byte) /\ Len(w) = Len(a) + Len(b) + (Len(l) - c)
      /\ \A i \in 1..(Len(a) + Len(b) + (Len(l) - c)) : w[i] =
             IF i <= Len(a) THEN a[i]
             ELSE IF i <= Len(a) + Len(b) THEN b[i - Len(a)]
             ELSE l[c + (i - (Len(a) + Len(b)))]
    BY WayFacts, Zenon
<1> HIDE DEF w, p
<1>6. q \in Seq(Byte) /\ Len(q) = Len(w) + Len(m)
      /\ \A i \in 1..(Len(w) + Len(m)) : q[i] = IF i <= Len(w) THEN w[i] ELSE m[i - Len(w)]
    BY <1>5, ConcatProperties
<1> HIDE DEF q
<1>7. Len(p) = Len(q)
    BY <1>1, <1>2, <1>4, <1>5, <1>6
<1>8. ASSUME NEW i \in 1..Len(p) PROVE p[i] = q[i]
  <2>1. CASE i <= Len(w)
    <3>1. q[i] = w[i]
        BY <1>2, <1>4, <1>5, <1>6, <1>7, <2>1
    <3>2. CASE i <= Len(a) + Len(b)
        BY <1>1, <1>2, <1>4, <1>5, <2>1, <3>1, <3>2
    <3>3. CASE ~(i <= Len(a) + Len(b))
      <4>1. c + (i - (Len(a) + Len(b))) \in 1..Len(l)
          BY <1>2, <1>5, <2>1, <3>3
      <4>2. lm[c + (i - (Len(a) + Len(b)))] = l[c + (i - (Len(a) + Len(b)))]
          BY <1>1, <1>2, <4>1
      <4>3. i \in 1..(Len(a) + Len(b) + (Len(l) - c)) /\ ~(i <= Len(a))
            /\ i \in 1..(Len(a) + Len(b) + (Len(lm) - c))
          BY <1>1, <1>2, <1>4, <1>5, <2>1, <3>3
      <4>4. p[i] = lm[c + (i - (Len(a) + Len(b)))] /\ w[i] = l[c + (i - (Len(a) + Len(b)))]
          BY <1>4, <1>5, <3>3, <4>3
      <4>5. QED
          BY <3>1, <4>2, <4>4
    <3>4. QED
        BY <3>2, <3>3
  <2>2. CASE ~(i <= Len(w))
    <3>1. i \in 1..(Len(a) + Len(b) + (Len(lm) - c)) /\ i > Len(a) + Len(b)
        BY <1>1, <1>2, <1>4, <1>5, <2>2
    <3>2. p[i] = lm[c + (i - (Len(a) + Len(b)))]
        BY <1>2, <1>4, <3>1
    <3>3. /\ c + (i - (Len(a) + Len(b))) \in 1..(Len(l) + Len(m))
          /\ ~(c + (i - (Len(a) + Len(b))) <= Len(l))
          /\ c + (i - (Len(a) + Len(b))) - Len(l) = i - Len(w)
        BY <1>1, <1>2, <1>5, <2>2, <3>1
    <3>4. lm[c + (i - (Len(a) + Len(b)))] = m[i - Len(w)]
      <4> DEFINE j == c + (i - (Len(a) + Len(b)))
      <4>1. j \in 1..(Len(l) + Len(m)) /\ ~(j <= Len(l)) /\ j - Len(l) = i - Len(w)
          BY <3>3
      <4> HIDE DEF j
      <4>2. lm[j] = m[j - Len(l)]
          BY <1>1, <4>1
      <4>3. lm[j] = m[i - Len(w)]
          BY <4>1, <4>2
      <4>4. QED
          BY <4>3 DEF j
    <3>5. q[i] = m[i - Len(w)]
        BY <1>6, <1>7, <2>2
    <3>6. QED
        BY <3>2, <3>4, <3>5
  <2>3. QED
      BY <2>1, <2>2
<1>9. p = q
    BY <1>4, <1>6, <1>7, <1>8, SameWay
<1>10. QED
    BY <1>9 DEF p, q, w, lm

\* A byte copied into the driver's buffer keeps its place.
LEMMA WayCopied ==
    ASSUME NEW a \in Seq(Byte), NEW b \in Seq(Byte), NEW l \in Seq(Byte), NEW c \in Nat, c < Len(l)
    PROVE  Way(a, Append(b, l[c + 1]), l, c + 1) = Way(a, b, l, c)
<1> DEFINE b1 == Append(b, l[c + 1])
           p == Way(a, b1, l, c + 1)
           q == Way(a, b, l, c)
<1>1. Len(a) \in Nat /\ Len(b) \in Nat /\ Len(l) \in Nat /\ l[c + 1] \in Byte
    OBVIOUS
<1>2. /\ b1 \in Seq(Byte) /\ Len(b1) = Len(b) + 1
      /\ \A i \in 1..Len(b) : b1[i] = b[i]
      /\ b1[Len(b) + 1] = l[c + 1]
    BY <1>1
<1> HIDE DEF b1
<1>3. c \in 0..Len(l) /\ c + 1 \in 0..Len(l)
    BY <1>1
<1>4. /\ p \in Seq(Byte) /\ Len(p) = Len(a) + Len(b1) + (Len(l) - (c + 1))
      /\ \A i \in 1..(Len(a) + Len(b1) + (Len(l) - (c + 1))) : p[i] =
             IF i <= Len(a) THEN a[i]
             ELSE IF i <= Len(a) + Len(b1) THEN b1[i - Len(a)]
             ELSE l[(c + 1) + (i - (Len(a) + Len(b1)))]
  <2> DEFINE d == c + 1
  <2>1. b1 \in Seq(Byte) /\ d \in 0..Len(l)
      BY <1>2, <1>3
  <2> HIDE DEF d
  <2>2. /\ Way(a, b1, l, d) \in Seq(Byte)
        /\ Len(Way(a, b1, l, d)) = Len(a) + Len(b1) + (Len(l) - d)
        /\ \A i \in 1..(Len(a) + Len(b1) + (Len(l) - d)) : Way(a, b1, l, d)[i] =
               IF i <= Len(a) THEN a[i]
               ELSE IF i <= Len(a) + Len(b1) THEN b1[i - Len(a)]
               ELSE l[d + (i - (Len(a) + Len(b1)))]
      BY <2>1, WayFacts, Zenon
  <2>3. QED
      BY <2>2, Zenon DEF d
<1>5. /\ q \in Seq(Byte) /\ Len(q) = Len(a) + Len(b) + (Len(l) - c)
      /\ \A i \in 1..(Len(a) + Len(b) + (Len(l) - c)) : q[i] =
             IF i <= Len(a) THEN a[i]
             ELSE IF i <= Len(a) + Len(b) THEN b[i - Len(a)]
             ELSE l[c + (i - (Len(a) + Len(b)))]
    BY <1>3, WayFacts
<1> HIDE DEF p, q
<1>6. Len(p) = Len(q)
    BY <1>1, <1>2, <1>4, <1>5
<1>7. ASSUME NEW i \in 1..Len(p) PROVE p[i] = q[i]
  <2>1. i \in Nat /\ i \in 1..(Len(a) + Len(b1) + (Len(l) - (c + 1)))
        /\ i \in 1..(Len(a) + Len(b) + (Len(l) - c))
      BY <1>1, <1>2, <1>4, <1>5, <1>6
  <2>2. CASE i <= Len(a)
      BY <1>4, <1>5, <2>1, <2>2
  <2>3. CASE ~(i <= Len(a)) /\ i <= Len(a) + Len(b)
    <3>1. i - Len(a) \in 1..Len(b) /\ i <= Len(a) + Len(b1)
        BY <1>1, <1>2, <2>1, <2>3
    <3>2. p[i] = b1[i - Len(a)] /\ q[i] = b[i - Len(a)]
        BY <1>4, <1>5, <2>1, <2>3, <3>1
    <3>3. QED
        BY <1>2, <3>1, <3>2
  <2>4. CASE i = Len(a) + Len(b) + 1
    <3>1. ~(i <= Len(a)) /\ ~(i <= Len(a) + Len(b)) /\ i <= Len(a) + Len(b1)
          /\ i - Len(a) = Len(b) + 1 /\ c + (i - (Len(a) + Len(b))) = c + 1
        BY <1>1, <1>2, <2>4
    <3>2. p[i] = b1[i - Len(a)]
        BY <1>4, <2>1, <3>1
    <3>3. q[i] = l[c + (i - (Len(a) + Len(b)))]
        BY <1>5, <2>1, <3>1
    <3>4. b1[i - Len(a)] = b1[Len(b) + 1]
        BY <3>1
    <3>5. l[c + (i - (Len(a) + Len(b)))] = l[c + 1]
        BY <3>1
    <3>6. b1[Len(b) + 1] = l[c + 1]
        BY <1>2
    <3>7. p[i] = l[c + 1]
        BY <3>2, <3>4, <3>6, Zenon
    <3>8. q[i] = l[c + 1]
        BY <3>3, <3>5, Zenon
    <3>9. QED
        BY <3>7, <3>8, Zenon
  <2>5. CASE i > Len(a) + Len(b) + 1
    <3>1. ~(i <= Len(a)) /\ ~(i <= Len(a) + Len(b)) /\ ~(i <= Len(a) + Len(b1))
          /\ (c + 1) + (i - (Len(a) + Len(b1))) = c + (i - (Len(a) + Len(b)))
        BY <1>1, <1>2, <2>1, <2>5
    <3>2. p[i] = l[(c + 1) + (i - (Len(a) + Len(b1)))] /\ q[i] = l[c + (i - (Len(a) + Len(b)))]
        BY <1>4, <1>5, <2>1, <3>1
    <3>3. QED
        BY <3>1, <3>2
  <2>6. QED
      BY <1>1, <2>1, <2>2, <2>3, <2>4, <2>5
<1>8. p = q
    BY <1>4, <1>5, <1>6, <1>7, SameWay
<1>9. QED
    BY <1>8 DEF p, q, b1

\* A byte written into the transmit FIFO by hand is the next one.
LEMMA WayByHand ==
    ASSUME NEW a \in Seq(Byte), NEW l \in Seq(Byte), NEW c \in Nat, c < Len(l)
    PROVE  Way(Append(a, l[c + 1]), << >>, l, c + 1) = Way(a, << >>, l, c)
<1>1. Len(l) \in Nat /\ l[c + 1] \in Byte /\ << >> \in Seq(Byte)
    OBVIOUS
<1>2. Way(a, Append(<< >>, l[c + 1]), l, c + 1) = Way(a, << >>, l, c)
    BY <1>1, WayCopied
<1> DEFINE r == SubSeq(l, (c + 1) + 1, Len(l))
           x == l[c + 1]
           e == <<x>>
           ax == Append(a, x)
<1>3. Append(<< >>, x) = e
    BY <1>1
<1> HIDE DEF x
<1>4. ax \in Seq(Byte) /\ ax = a \o e
    BY <1>1, AppendProperties, AppendIsConcat DEF x
<1>5. ax \o << >> = ax
    BY <1>4, ConcatEmptySeq
<1>6. Way(ax, << >>, l, c + 1) = (ax \o << >>) \o r /\ Way(a, e, l, c + 1) = (a \o e) \o r
    BY DEF Way
<1> HIDE DEF r, e, ax
<1>7. Way(ax, << >>, l, c + 1) = Way(a, << >>, l, c)
    BY <1>2, <1>3, <1>4, <1>5, <1>6 DEF x
<1>8. QED
    BY <1>7 DEF ax, x

\* Skipping what has been copied leaves the same bytes.
LEMMA WaySkipped ==
    ASSUME NEW a \in Seq(Byte), NEW b \in Seq(Byte), NEW l \in Seq(Byte), NEW c \in 0..Len(l)
    PROVE  Way(a, b, SubSeq(l, c + 1, Len(l)), 0) = Way(a, b, l, c)
<1> DEFINE r == SubSeq(l, c + 1, Len(l))
<1>1. r \in Seq(Byte)
    BY RestOf
<1> HIDE DEF r
<1>2. SubSeq(r, 0 + 1, Len(r)) = r
    BY <1>1, SubSeqFull
<1>3. QED
    BY <1>2 DEF Way, r

\* The transmitter takes the first byte of the driver's buffer behind those it has,
LEMMA WaySent ==
    ASSUME NEW a \in Seq(Byte), NEW b \in Seq(Byte), b # << >>
    PROVE  Append(a, Head(b)) \o Tail(b) = a \o b
<1>1. /\ Head(b) \in Byte /\ Tail(b) \in Seq(Byte) /\ Len(Tail(b)) = Len(b) - 1
      /\ \A i \in 1..Len(Tail(b)) : Tail(b)[i] = b[i + 1]
    BY HeadTailProperties
<1>2. Len(b) \in Nat \ {0} /\ Head(b) = b[1]
    BY EmptySeq
<1> DEFINE e == <<Head(b)>>
           t == Tail(b)
<1>3. e \in Seq(Byte) /\ Len(e) = 1 /\ e[1] = b[1]
    BY <1>1, <1>2
<1>4. Append(a, Head(b)) = a \o e
    BY <1>1, AppendIsConcat
<1> HIDE DEF e, t
<1>5. t \in Seq(Byte) /\ Len(t) = Len(b) - 1 /\ \A i \in 1..Len(t) : t[i] = b[i + 1]
    BY <1>1 DEF t
<1>6. e \o t \in Seq(Byte) /\ Len(e \o t) = Len(e) + Len(t)
      /\ \A i \in 1..(Len(e) + Len(t)) : (e \o t)[i] = IF i <= Len(e) THEN e[i] ELSE t[i - Len(e)]
  <2>1. e \in Seq(Byte) /\ t \in Seq(Byte)
      BY <1>3, <1>5
  <2>2. QED
      BY <2>1, ConcatProperties
<1>7. \A i \in 1..Len(e \o t) : (e \o t)[i] = b[i]
  <2>1. SUFFICES ASSUME NEW i \in 1..Len(b) PROVE (e \o t)[i] = b[i]
      BY <1>2, <1>3, <1>5, <1>6
  <2>2. CASE i = 1
      BY <1>2, <1>3, <1>5, <1>6, <2>2
  <2>3. CASE i # 1
    <3>1. i - 1 \in 1..Len(t) /\ ~(i <= 1) /\ i \in 1..(Len(e) + Len(t))
        BY <1>2, <1>3, <1>5, <2>3
    <3>2. (e \o t)[i] = t[i - 1] /\ t[i - 1] = b[(i - 1) + 1]
        BY <1>3, <1>5, <1>6, <3>1
    <3>3. QED
        BY <3>2
  <2>4. QED
      BY <2>2, <2>3
<1>8. e \o t = b
    BY <1>2, <1>3, <1>5, <1>6, <1>7, SameWay
<1>9. (a \o e) \o t = a \o (e \o t)
  <2>1. e \in Seq(Byte) /\ t \in Seq(Byte)
      BY <1>3, <1>5
  <2>2. QED
      BY <2>1, ConcatAssociative
<1>10. QED
    BY <1>4, <1>8, <1>9 DEF t

\* and the first byte of the transmitter is the first to leave.
LEMMA WayLeft ==
    ASSUME NEW a \in Seq(Byte), a # << >>,
           NEW b \in Seq(Byte), NEW l \in Seq(Byte), NEW c \in 0..Len(l)
    PROVE  /\ Way(Tail(a), b, l, c) = Tail(Way(a, b, l, c))
           /\ Way(a, b, l, c) # << >>
<1> DEFINE z == Tail(a)
           p == Way(z, b, l, c)
           q == Way(a, b, l, c)
<1>1. /\ z \in Seq(Byte) /\ Len(z) = Len(a) - 1 /\ \A i \in 1..Len(z) : z[i] = a[i + 1]
      /\ Len(b) \in Nat /\ Len(l) \in Nat /\ Len(a) \in Nat /\ Len(a) # 0 /\ Len(z) \in Nat
    BY HeadTailProperties, EmptySeq
<1> HIDE DEF z
<1>2. /\ p \in Seq(Byte) /\ Len(p) = Len(z) + Len(b) + (Len(l) - c)
      /\ \A i \in 1..(Len(z) + Len(b) + (Len(l) - c)) : p[i] =
             IF i <= Len(z) THEN z[i]
             ELSE IF i <= Len(z) + Len(b) THEN b[i - Len(z)]
             ELSE l[c + (i - (Len(z) + Len(b)))]
  <2>1. z \in Seq(Byte)
      BY <1>1
  <2>2. QED
      BY <2>1, WayFacts
<1>3. /\ q \in Seq(Byte) /\ Len(q) = Len(a) + Len(b) + (Len(l) - c)
      /\ \A i \in 1..(Len(a) + Len(b) + (Len(l) - c)) : q[i] =
             IF i <= Len(a) THEN a[i]
             ELSE IF i <= Len(a) + Len(b) THEN b[i - Len(a)]
             ELSE l[c + (i - (Len(a) + Len(b)))]
    BY WayFacts
<1> HIDE DEF p, q
<1>4. q # << >> /\ Len(q) = Len(p) + 1 /\ Len(p) \in Nat
    BY <1>1, <1>2, <1>3
<1>5. Tail(q) \in Seq(Byte) /\ Len(Tail(q)) = Len(q) - 1
      /\ \A i \in 1..Len(Tail(q)) : Tail(q)[i] = q[i + 1]
    BY <1>3, <1>4, HeadTailProperties
<1>6. ASSUME NEW i \in 1..Len(p) PROVE p[i] = Tail(q)[i]
  <2>1. Tail(q)[i] = q[i + 1]
      BY <1>4, <1>5
  <2>2. i \in 1..(Len(z) + Len(b) + (Len(l) - c)) /\ i \in Nat
        /\ i + 1 \in 1..(Len(a) + Len(b) + (Len(l) - c))
      BY <1>1, <1>2, <1>3
  <2>3. CASE i <= Len(z)
    <3>1. i \in 1..Len(z) /\ i + 1 <= Len(a)
        BY <1>1, <2>2, <2>3
    <3>2. p[i] = z[i] /\ q[i + 1] = a[i + 1]
        BY <1>2, <1>3, <2>2, <2>3, <3>1
    <3>3. QED
        BY <1>1, <2>1, <3>1, <3>2
  <2>4. CASE ~(i <= Len(z)) /\ i <= Len(z) + Len(b)
    <3>1. ~(i + 1 <= Len(a)) /\ i + 1 <= Len(a) + Len(b) /\ i - Len(z) = (i + 1) - Len(a)
        BY <1>1, <2>2, <2>4
    <3>2. p[i] = b[i - Len(z)] /\ q[i + 1] = b[(i + 1) - Len(a)]
        BY <1>2, <1>3, <2>2, <2>4, <3>1
    <3>3. QED
        BY <2>1, <3>1, <3>2
  <2>5. CASE ~(i <= Len(z)) /\ ~(i <= Len(z) + Len(b))
    <3>1. /\ ~(i + 1 <= Len(a)) /\ ~(i + 1 <= Len(a) + Len(b))
          /\ c + (i - (Len(z) + Len(b))) = c + ((i + 1) - (Len(a) + Len(b)))
        BY <1>1, <2>2, <2>5
    <3>2. /\ p[i] = l[c + (i - (Len(z) + Len(b)))]
          /\ q[i + 1] = l[c + ((i + 1) - (Len(a) + Len(b)))]
        BY <1>2, <1>3, <2>2, <2>5, <3>1
    <3>3. QED
        BY <2>1, <3>1, <3>2
  <2>6. QED
      BY <2>3, <2>4, <2>5
<1>7. p = Tail(q)
  <2>1. Len(p) = Len(Tail(q))
      BY <1>4, <1>5
  <2>2. QED
      BY <1>2, <1>5, <1>6, <2>1, SameWay
<1>8. QED
    BY <1>4, <1>7 DEF p, q, z

\* The beginning of a sequence.
LEMMA FrontOf ==
    ASSUME NEW l \in Seq(Byte), NEW n \in 0..Len(l)
    PROVE  /\ SubSeq(l, 1, n) \in Seq(Byte)
           /\ Len(SubSeq(l, 1, n)) = n
           /\ \A i \in 1..n : SubSeq(l, 1, n)[i] = l[i]
<1>1. Len(l) \in Nat
    OBVIOUS
<1>2. \A i \in 1..n : l[i] \in Byte
    BY <1>1
<1>3. /\ SubSeq(l, 1, n) \in Seq(Byte)
      /\ Len(SubSeq(l, 1, n)) = IF 1 <= n THEN n - 1 + 1 ELSE 0
      /\ \A i \in 1..(n - 1 + 1) : SubSeq(l, 1, n)[i] = l[1 + i - 1]
    BY <1>1, <1>2, SubSeqProperties
<1>4. QED
    BY <1>1, <1>3

----------------------------------------------------------------------------
\* The log: what a step does to the pipe

Kept == OnTheWay' = OnTheWay /\ number' = number
Taken == \E k \in 1..(LogSize + TxSize + Fifo) : Pipe!Accept(k)

\* The copied bytes are in the log.
LEMMA CopiedIsIn ==
    ASSUME LogInv
    PROVE  /\ copied \in 0..Len(log)
           /\ Len(log) \in Nat /\ Len(tx) \in Nat /\ Len(tdr) \in Nat /\ Len(chunk) \in Nat
<1>1. Len(log) \in Nat /\ Len(tx) \in Nat /\ Len(tdr) \in Nat /\ Len(chunk) \in Nat
    BY DEF LogInv, BytesTyped
<1>2. QED
    BY <1>1 DEF LogInv, BytesTyped, ControlTyped, ChunkInv, ProgressInv, Flushing

\* Nothing the pipe is about has changed.
LEMMA NothingMoved ==
    ASSUME log' = log, tx' = tx, tdr' = tdr, copied' = copied, number' = number
    PROVE  Kept
BY DEF Kept, OnTheWay

\* What WriteLog writes: the next numbers, as many as there is room for.
New(k) == [i \in 1..k |-> (number + i - 1) % Cardinality(Byte)]

LEMMA Writing ==
    ASSUME BytesTyped, NEW n \in Nat, WriteLog(n)
    PROVE  \E k \in 0..(LogSize - Len(log)) :
              /\ New(k) \in Seq(Byte) /\ Len(New(k)) = k
              /\ log' = log \o New(k) /\ number' = (number + k) % Cardinality(Byte)
              /\ log' \in Seq(Byte) /\ Len(log') = Len(log) + k /\ number' \in Byte
              /\ \A i \in 1..Len(log) : log'[i] = log[i]
<1>1. Len(log) \in Nat /\ Len(log) <= LogSize /\ LogSize \in Nat /\ number \in Nat
      /\ log \in Seq(Byte)
    BY LogSizes DEF BytesTyped
<1> DEFINE k == Min2(n, LogSize - Len(log))
<1>2. k \in 0..(LogSize - Len(log))
    BY <1>1 DEF Min2
<1>3. log' = log \o New(k) /\ number' = (number + k) % Cardinality(Byte)
    BY DEF WriteLog, New
<1> HIDE DEF k
<1> DEFINE m == New(k)
<1>4. m \in Seq(Byte) /\ Len(m) = k
  <2>1. \A i \in 1..k : (number + i - 1) % Cardinality(Byte) \in Byte
    <3>1. SUFFICES ASSUME NEW i \in 1..k PROVE (number + i - 1) % Cardinality(Byte) \in Byte
        OBVIOUS
    <3>2. number + i - 1 \in Nat
        BY <1>1, <1>2
    <3>3. QED
        BY <3>2, LogSizes
  <2>2. QED
      BY <1>1, <1>2, <2>1 DEF New
<1>5. (number + k) % Cardinality(Byte) \in Byte
  <2>1. number + k \in Nat
      BY <1>1, <1>2
  <2>2. QED
      BY <2>1, LogSizes
<1> HIDE DEF m
<1>6. /\ log \o m \in Seq(Byte) /\ Len(log \o m) = Len(log) + Len(m)
      /\ \A i \in 1..(Len(log) + Len(m)) :
            (log \o m)[i] = IF i <= Len(log) THEN log[i] ELSE m[i - Len(log)]
    BY <1>1, <1>4, ConcatProperties
<1>7. \A i \in 1..Len(log) : (log \o m)[i] = log[i]
    BY <1>1, <1>2, <1>4, <1>6
<1>8. /\ m \in Seq(Byte) /\ Len(m) = k
      /\ log' = log \o m /\ number' = (number + k) % Cardinality(Byte)
      /\ log' \in Seq(Byte) /\ Len(log') = Len(log) + k /\ number' \in Byte
      /\ \A i \in 1..Len(log) : log'[i] = log[i]
  <2>1. log' = log \o m
      BY <1>3 DEF m
  <2>2. QED
      BY <1>3, <1>4, <1>5, <1>6, <1>7, <2>1
<1>9. QED
    BY <1>2, <1>8 DEF m

\* Writing into the log is taking bytes into the pipe, or nothing, also when a byte
\* goes into the FIFO at the same time.
LEMMA WritingTakes ==
    ASSUME LogInv, NEW n \in Nat, WriteLog(n), tdr' \o tx' = tdr \o tx, copied' = copied
    PROVE  Kept \/ Taken
<1>1. PICK k \in 0..(LogSize - Len(log)) :
              /\ New(k) \in Seq(Byte) /\ Len(New(k)) = k
              /\ log' = log \o New(k) /\ number' = (number + k) % Cardinality(Byte)
    BY Writing DEF LogInv
<1>2. /\ log \in Seq(Byte) /\ tx \in Seq(Byte) /\ tdr \in Seq(Byte)
      /\ Len(log) <= LogSize /\ Len(tx) <= TxSize /\ Len(tdr) <= Fifo
      /\ Len(log) \in Nat /\ Len(tx) \in Nat /\ Len(tdr) \in Nat
      /\ copied \in 0..Len(log) /\ LogSize \in Nat /\ TxSize \in Nat /\ Fifo \in Nat
    BY CopiedIsIn, LogSizes DEF LogInv, BytesTyped
<1> DEFINE m == New(k)
<1>3. m \in Seq(Byte) /\ Len(m) = k /\ log' = log \o m
    BY <1>1
<1> HIDE DEF m
<1>4. Way(tdr, tx, log \o m, copied) = Way(tdr, tx, log, copied) \o m
  <2>1. log \in Seq(Byte) /\ tx \in Seq(Byte) /\ tdr \in Seq(Byte) /\ m \in Seq(Byte)
        /\ copied \in 0..Len(log)
      BY <1>2, <1>3
  <2>2. QED
      BY <2>1, WayGrows
<1>5. OnTheWay = Way(tdr, tx, log, copied)
    BY DEF OnTheWay, Way
<1>6. OnTheWay' = Way(tdr, tx, log \o m, copied)
  <2>1. OnTheWay' = (tdr' \o tx') \o SubSeq(log', copied' + 1, Len(log'))
      BY DEF OnTheWay
  <2>2. QED
      BY <1>3, <2>1 DEF Way
<1>7. OnTheWay' = OnTheWay \o m
    BY <1>4, <1>5, <1>6
<1>8. OnTheWay \in Seq(Byte) /\ Len(OnTheWay) = Len(tdr) + Len(tx) + (Len(log) - copied)
  <2>1. log \in Seq(Byte) /\ tx \in Seq(Byte) /\ tdr \in Seq(Byte) /\ copied \in 0..Len(log)
      BY <1>2
  <2>2. /\ Way(tdr, tx, log, copied) \in Seq(Byte)
        /\ Len(Way(tdr, tx, log, copied)) = Len(tdr) + Len(tx) + (Len(log) - copied)
      BY <2>1, WayFacts
  <2>3. QED
      BY <1>5, <2>2
<1>9. CASE k = 0
  <2>1. m = << >>
      BY <1>3, <1>9, EmptySeq
  <2>2. OnTheWay \o << >> = OnTheWay
      BY <1>8, ConcatEmptySeq
  <2>3. number' = number
    <3>1. number \in 0..(Cardinality(Byte) - 1) /\ Cardinality(Byte) \in Nat \ {0}
      <4>1. number \in Byte
          BY DEF LogInv, BytesTyped
      <4>2. /\ Byte = 0..(LogSize + TxSize + Fifo) /\ Cardinality(Byte) = LogSize + TxSize + Fifo + 1
            /\ LogSize \in Nat /\ TxSize \in Nat /\ Fifo \in Nat \ {0}
          BY LogSizes
      <4>3. number \in 0..(LogSize + TxSize + Fifo)
          BY <4>1, <4>2
      <4> DEFINE n1 == Cardinality(Byte)
      <4>4. n1 = LogSize + TxSize + Fifo + 1
          BY <4>2
      <4> HIDE DEF n1
      <4>5. number \in 0..(n1 - 1) /\ n1 \in Nat \ {0}
          BY <4>2, <4>3, <4>4
      <4>6. QED
          BY <4>5 DEF n1
    <3>2. number % Cardinality(Byte) = number
        BY <3>1, SmallRemainder
    <3>3. QED
        BY <1>1, <1>9, <3>1, <3>2
  <2>4. QED
      BY <1>7, <2>1, <2>2, <2>3 DEF Kept
<1>10. CASE k # 0
  <2>1. k \in 1..(LogSize + TxSize + Fifo) /\ Len(OnTheWay) + k <= LogSize + TxSize + Fifo
      BY <1>2, <1>8, <1>10
  <2>2. Pipe!Accept(k)
      BY <1>1, <1>7, <2>1 DEF Pipe!Accept, m, New
  <2>3. QED
      BY <2>1, <2>2 DEF Taken
<1>11. QED
    BY <1>9, <1>10

----------------------------------------------------------------------------
\* The log: the steps that leave the pipe alone

\* The bytes stay: only the counters, the control and the chunk may have changed.
LEMMA StillTyped ==
    ASSUME LogInv, log' = log, tx' = tx, tdr' = tdr, copied' = copied, number' = number,
           chunk' \in Seq(Byte), Len(chunk') <= Chunk, fits' \in 0..Chunk,
           owed' \in 0..(LogSize + TxSize + Fifo)
    PROVE  BytesTyped' /\ Kept
<1>1. BytesTyped'
    BY DEF LogInv, BytesTyped
<1>2. QED
    BY <1>1, NothingMoved

\* The calls of the application that set a mode or wait.
LEMMA SettingKeeps ==
    ASSUME LogInv, SetSink \/ SetDevice \/ Open \/ Close \/ Drain \/ Arrive
    PROVE  LogInv' /\ Kept
<1>1. /\ log' = log /\ tx' = tx /\ tdr' = tdr /\ copied' = copied /\ number' = number
      /\ chunk' = chunk /\ fits' = fits /\ line' = line
    BY DEF SetSink, SetDevice, Open, Close, Drain, Arrive, device, flush, history
<1>2. Len(tdr) + Len(tx) + Len(log) \in 0..(LogSize + TxSize + Fifo)
    BY CopiedIsIn, LogConstants DEF LogInv, BytesTyped
<1>3. owed' \in 0..(LogSize + TxSize + Fifo)
    BY <1>2 DEF SetSink, SetDevice, Open, Close, Drain, Arrive, device, flush, history, LogInv,
                BytesTyped
<1>4. BytesTyped' /\ Kept
  <2>1. chunk' \in Seq(Byte) /\ Len(chunk') <= Chunk /\ fits' \in 0..Chunk
      BY <1>1 DEF LogInv, BytesTyped
  <2>2. QED
      BY <1>1, <1>3, <2>1, StillTyped
<1>5. ControlTyped'
  <2>1. inputs' \in 0..MaxInputs
      BY LogConstants DEF SetSink, SetDevice, Open, Close, Drain, Arrive, Input, LogInv,
                          ControlTyped
  <2>2. modify' \subseteq {"tx", "rx"} /\ cr1' \subseteq {"tx", "rx"}
    <3>1. cr1' = cr1 /\ modify' \in {modify, cr1 \cup {"rx"}, cr1 \ {"tx", "rx"}}
        BY DEF SetSink, SetDevice, Open, Close, Drain, Arrive, device, flush
    <3>2. cr1 \subseteq {"tx", "rx"} /\ modify \subseteq {"tx", "rx"}
        BY DEF LogInv, ControlTyped
    <3>3. QED
        BY <3>1, <3>2
  <2>3. /\ dev' \in BOOLEAN /\ uartSink' \in BOOLEAN /\ opened' \in BOOLEAN /\ priv' \in BOOLEAN
        /\ rx' \in 0..RxSize /\ rdr' \in 0..Fifo
    <3>1. /\ opened' = opened /\ priv' \in {priv, TRUE} /\ rx' = rx
          /\ rdr' \in {rdr, Min2(Fifo, rdr + 1)}
        BY DEF SetSink, SetDevice, Open, Close, Drain, Arrive, device
    <3>2. (dev' = dev \/ dev' = ~dev) /\ (uartSink' = uartSink \/ uartSink' = ~uartSink)
        BY DEF SetSink, SetDevice, Open, Close, Drain, Arrive
    <3>3. /\ dev \in BOOLEAN /\ uartSink \in BOOLEAN /\ opened \in BOOLEAN /\ priv \in BOOLEAN
          /\ rx \in 0..RxSize /\ rdr \in 0..Fifo
        BY DEF LogInv, ControlTyped
    <3>4. dev' \in BOOLEAN /\ uartSink' \in BOOLEAN
        BY <3>2, <3>3
    <3>5. opened' \in BOOLEAN /\ priv' \in BOOLEAN
        BY <3>1, <3>3, Zenon
    <3>6. rx' \in 0..RxSize /\ rdr' \in 0..Fifo
      <4>1. Min2(Fifo, rdr + 1) \in 0..Fifo
          BY <3>3, LogConstants DEF Min2
      <4>2. QED
          BY <3>1, <3>3, <4>1
    <3>7. QED
        BY <3>4, <3>5, <3>6
  <2>4. /\ stage' \in {stage, "open", "close"} /\ drain' \in {drain, "log"}
      BY DEF SetSink, SetDevice, Open, Close, Drain, Arrive
  <2>5. QED
      BY <1>1, <2>1, <2>2, <2>3, <2>4 DEF LogInv, ControlTyped
<1>6. ChunkInv'
    BY <1>1 DEF SetSink, SetDevice, Open, Close, Drain, Arrive, Flushing, LogInv, ChunkInv
<1>7. ProgressInv'
    BY <1>1 DEF SetSink, SetDevice, Open, Close, Drain, Arrive, device, LogInv, ControlTyped,
                ProgressInv
<1>8. DrainInv'
  <2>1. copied \in 0..Len(log) /\ Len(log) \in Nat /\ Len(tx) \in Nat /\ Len(tdr) \in Nat
      BY CopiedIsIn
  <2>2. stage \notin {"copy", "kick", "putchar", "skip"} => copied = 0
      BY DEF LogInv, ProgressInv
  <2>3. QED
      BY <1>1, <2>1, <2>2 DEF SetSink, SetDevice, Open, Close, Drain, Arrive, LogInv, DrainInv
<1>9. QED
    BY <1>4, <1>5, <1>6, <1>7, <1>8 DEF LogInv

\* Formatting a line.
LEMMA PrintfKeeps ==
    ASSUME LogInv, NEW form \in Lines, Printf(form)
    PROVE  LogInv' /\ Kept
<1>1. /\ log' = log /\ tx' = tx /\ tdr' = tdr /\ copied' = copied /\ number' = number
      /\ chunk' = chunk /\ fits' = fits /\ owed' = owed /\ drain' = drain /\ stage = "idle"
      /\ stage' = "formatted" /\ priv' = priv /\ drain = "no"
    BY DEF Printf, device, flush
<1>2. Len(line') \in 0..(LineMax - 1)
  <2>1. line' = Printed(form)
      BY DEF Printf, Printed
  <2>2. QED
      BY <2>1, LinesFit
<1>3. BytesTyped' /\ Kept
  <2>1. chunk' \in Seq(Byte) /\ Len(chunk') <= Chunk /\ fits' \in 0..Chunk
        /\ owed' \in 0..(LogSize + TxSize + Fifo)
      BY <1>1 DEF LogInv, BytesTyped
  <2>2. QED
      BY <1>1, <2>1, StillTyped
<1>4. ControlTyped'
  <2>1. inputs' \in 0..MaxInputs
      BY LogConstants DEF Printf, Input, LogInv, ControlTyped
  <2>2. UNCHANGED <<dev, uartSink, opened, priv, rx, rdr, cr1, modify>>
      BY DEF Printf, device, flush
  <2>3. QED
      BY <1>1, <1>2, <2>1, <2>2 DEF LogInv, ControlTyped
<1>5. ChunkInv' /\ ProgressInv' /\ DrainInv'
    BY <1>1 DEF Flushing, LogInv, ChunkInv, ProgressInv, DrainInv
<1>6. QED
    BY <1>3, <1>4, <1>5 DEF LogInv

\* The end of a drain or of opening and closing, and what the application reads.
LEMMA ReturningKeeps ==
    ASSUME LogInv, \/ DrainDevice \/ DrainReturns \/ DrainGivesUp \/ Opened \/ Closed
                   \/ \E n \in 1..RxSize : Read(n)
    PROVE  LogInv' /\ Kept
<1>1. /\ log' = log /\ tx' = tx /\ tdr' = tdr /\ copied' = copied /\ number' = number
      /\ chunk' = chunk /\ fits' = fits /\ line' = line /\ dev' = dev /\ priv' = priv
      /\ owed' = owed \/ owed' = 0
    BY DEF DrainDevice, DrainReturns, DrainGivesUp, Opened, Closed, Read, device, flush, history
<1>2. BytesTyped' /\ Kept
  <2>1. chunk' \in Seq(Byte) /\ Len(chunk') <= Chunk /\ fits' \in 0..Chunk
        /\ owed' \in 0..(LogSize + TxSize + Fifo)
      BY <1>1, LogConstants DEF LogInv, BytesTyped
  <2>2. QED
      BY <1>1, <2>1, StillTyped
<1>3. ControlTyped'
  <2>1. rx' \in 0..RxSize
      BY LogConstants DEF DrainDevice, DrainReturns, DrainGivesUp, Opened, Closed, Read, device,
                          LogInv, ControlTyped
  <2>2. /\ cr1' \in {cr1, modify} /\ modify' \in {modify, {}} /\ rdr' = rdr
        /\ uartSink' = uartSink /\ opened' \in {opened, TRUE, FALSE} /\ inputs' = inputs
        /\ stage' \in {stage, "idle"} /\ drain' \in {drain, "device", "no"}
      BY DEF DrainDevice, DrainReturns, DrainGivesUp, Opened, Closed, Read, device, flush, history
  <2>3. cr1' \subseteq {"tx", "rx"} /\ modify' \subseteq {"tx", "rx"}
      BY <2>2 DEF LogInv, ControlTyped
  <2>4. opened' \in BOOLEAN /\ dev' \in BOOLEAN /\ priv' \in BOOLEAN /\ uartSink' \in BOOLEAN
    <3>1. opened \in BOOLEAN /\ dev \in BOOLEAN /\ priv \in BOOLEAN /\ uartSink \in BOOLEAN
        BY DEF LogInv, ControlTyped
    <3>2. QED
        BY <1>1, <2>2, <3>1, Zenon
  <2>5. /\ stage' \in {"idle", "formatted", "counted", "peeked", "copy", "kick", "putchar", "skip",
                       "open", "close"}
        /\ drain' \in {"no", "log", "device"}
      BY <2>2 DEF LogInv, ControlTyped
  <2>6. Len(line') \in 0..(LineMax - 1) /\ inputs' \in 0..MaxInputs /\ rdr' \in 0..Fifo
      BY <1>1, <2>2 DEF LogInv, ControlTyped
  <2>7. QED
      BY <2>1, <2>3, <2>4, <2>5, <2>6 DEF ControlTyped
<1>4. stage' = stage \/ (stage' = "idle" /\ stage \in {"open", "close"})
    BY DEF DrainDevice, DrainReturns, DrainGivesUp, Opened, Closed, Read
<1>5. ChunkInv' /\ ProgressInv'
    BY <1>1, <1>4 DEF Flushing, LogInv, ChunkInv, ProgressInv
<1>6. DrainInv'
  <2>1. copied \in 0..Len(log) /\ Len(log) \in Nat /\ Len(tx) \in Nat /\ Len(tdr) \in Nat
      BY CopiedIsIn
  <2>2. stage \notin {"copy", "kick", "putchar", "skip"} => copied = 0
      BY DEF LogInv, ProgressInv
  <2>3. CASE DrainDevice
    <3>1. Len(log) = 0 /\ drain = "log" /\ stage' = "idle" /\ drain' = "device" /\ owed' = owed
          /\ copied = 0
        BY <2>2, <2>3 DEF DrainDevice, history
    <3>2. QED
        BY <1>1, <2>1, <3>1 DEF LogInv, DrainInv
  <2>4. CASE ~DrainDevice
    <3>1. drain' = "no" \/ (drain' = drain /\ owed' = owed)
        BY <2>4 DEF DrainReturns, DrainGivesUp, Opened, Closed, Read, history
    <3>2. QED
        BY <1>1, <1>4, <3>1 DEF LogInv, DrainInv
  <2>5. QED
      BY <2>3, <2>4
<1>7. QED
    BY <1>2, <1>3, <1>5, <1>6 DEF LogInv

----------------------------------------------------------------------------
\* The log: the flush

\* The types of the chunk and its counters, as a step needs them.
LEMMA FlushFacts ==
    ASSUME LogInv
    PROVE  /\ log \in Seq(Byte) /\ tx \in Seq(Byte) /\ tdr \in Seq(Byte) /\ chunk \in Seq(Byte)
           /\ Len(log) \in Nat /\ Len(tx) \in Nat /\ Len(tdr) \in Nat /\ Len(chunk) \in Nat
           /\ Len(log) <= LogSize /\ Len(tx) <= TxSize /\ Len(tdr) <= Fifo /\ Len(chunk) <= Chunk
           /\ fits \in 0..Chunk /\ copied \in 0..Chunk /\ copied \in 0..Len(log)
           /\ owed \in 0..(LogSize + TxSize + Fifo) /\ number \in Byte
           /\ Flushing => chunk # << >> /\ Len(chunk) >= 1 /\ Len(chunk) <= Len(log)
BY CopiedIsIn DEF LogInv, BytesTyped, ChunkInv

\* The beginning of the log is taken in hand.
LEMMA CountingKeeps ==
    ASSUME Careful, LogInv, Flush \/ Peek
    PROVE  LogInv' /\ Kept
<1>1. /\ log' = log /\ tx' = tx /\ tdr' = tdr /\ copied' = copied /\ number' = number
      /\ fits' = fits /\ owed' = owed /\ line' = line /\ dev' = dev /\ priv' = priv
      /\ drain' = drain /\ inputs' = inputs /\ modify' = modify
      /\ stage' \in {"counted", "peeked"} /\ stage \in {"idle", "counted"}
    BY DEF Flush, Peek, device, history
<1>2. PICK n \in 1..Len(log) :
          /\ chunk' = SubSeq(log, 1, n) /\ n <= Chunk
          /\ ~dev /\ priv => n <= TxSize - Len(tx)
  <2>1. CASE Flush
    <3> DEFINE n == Min2(Chunk, Len(log))
    <3>1. Len(log) > 0
        BY <2>1, EmptySeq, FlushFacts DEF Flush
    <3>2. n \in 1..Len(log) /\ n <= Chunk /\ n <= Min2(Chunk, LogSize)
        BY <3>1, FlushFacts, LogConstants DEF Min2
    <3>3. chunk' = SubSeq(log, 1, n)
        BY <2>1 DEF Flush
    <3>4. ~dev /\ priv => TxSize - Len(tx) >= Min2(Chunk, LogSize)
        BY <2>1 DEF Flush, RoomWithoutDevice
    <3>5. Min2(Chunk, LogSize) \in Nat
        BY LogConstants DEF Min2
    <3> HIDE DEF n
    <3>6. ~dev /\ priv => n <= TxSize - Len(tx)
        BY <3>2, <3>4, <3>5, FlushFacts, LogConstants
    <3>7. QED
        BY <3>2, <3>3, <3>6
  <2>2. CASE Peek
    <3>1. Len(chunk) \in 1..Len(log) /\ Len(chunk) <= Chunk /\ chunk' = SubSeq(log, 1, Len(chunk))
        BY <2>2, FlushFacts DEF Peek, Flushing
    <3>2. ~dev /\ priv => Len(chunk) <= TxSize - Len(tx)
        BY <2>2 DEF Peek, LogInv, ProgressInv
    <3>3. QED
        BY <3>1, <3>2
  <2>3. QED
      BY <2>1, <2>2
<1>3. chunk' \in Seq(Byte) /\ Len(chunk') = n /\ \A i \in 1..n : chunk'[i] = log[i]
    BY <1>2, FlushFacts, FrontOf
<1>4. BytesTyped' /\ Kept
  <2>1. chunk' \in Seq(Byte) /\ Len(chunk') <= Chunk /\ fits' \in 0..Chunk
        /\ owed' \in 0..(LogSize + TxSize + Fifo)
      BY <1>1, <1>2, <1>3, FlushFacts
  <2>2. QED
      BY <1>1, <2>1, StillTyped
<1>5. ControlTyped'
  <2>1. UNCHANGED <<dev, uartSink, opened, priv, rx, rdr, cr1, modify>>
      BY <1>1 DEF Flush, Peek, device
  <2>2. QED
      BY <1>1, <2>1 DEF LogInv, ControlTyped
<1>6. ChunkInv'
    BY <1>1, <1>2, <1>3 DEF ChunkInv
<1>7. ProgressInv'
    BY <1>1, <1>2, <1>3 DEF LogInv, ProgressInv
<1>8. DrainInv'
  <2>1. drain # "device"
      BY DEF Flush, Peek, LogInv, DrainInv
  <2>2. QED
      BY <1>1, <2>1 DEF LogInv, DrainInv
<1>9. QED
    BY <1>4, <1>5, <1>6, <1>7, <1>8 DEF LogInv

\* The driver says how much it takes.
LEMMA SubmitKeeps ==
    ASSUME LogInv, Submit
    PROVE  LogInv' /\ Kept
<1> DEFINE n == IF priv THEN Min2(Len(chunk), TxSize - Len(tx)) ELSE 0
<1>1. /\ log' = log /\ tx' = tx /\ tdr' = tdr /\ copied' = copied /\ number' = number
      /\ owed' = owed /\ line' = line /\ dev' = dev /\ priv' = priv
      /\ drain' = drain /\ inputs' = inputs /\ modify' = modify /\ stage = "peeked"
      /\ fits' = n
      /\ stage' = IF n > 0 THEN "copy" ELSE IF dev THEN "idle" ELSE "putchar"
      /\ chunk' = IF n = 0 /\ dev THEN << >> ELSE chunk
    BY DEF Submit, device, history
<1>2. n \in 0..Len(chunk) /\ n <= TxSize - Len(tx) /\ Len(chunk) >= 1
      /\ Len(chunk) <= Chunk /\ copied = 0
      /\ (n > 0 => priv) /\ (~dev /\ priv => n = Len(chunk))
  <2>1. Len(chunk) >= 1 /\ Len(chunk) \in Nat /\ Len(tx) \in Nat /\ Len(tx) <= TxSize
        /\ Len(chunk) <= Chunk
      BY <1>1, FlushFacts DEF Flushing
  <2>2. copied = 0 /\ (~dev /\ priv => Len(chunk) <= TxSize - Len(tx))
      BY <1>1 DEF LogInv, ProgressInv
  <2>3. CASE priv
    <3>1. n = Min2(Len(chunk), TxSize - Len(tx))
        BY <2>3
    <3>2. QED
        BY <2>1, <2>2, <2>3, <3>1, LogConstants DEF Min2
  <2>4. CASE ~priv
    <3>1. n = 0
        BY <2>4
    <3> HIDE DEF n
    <3>2. QED
        BY <2>1, <2>2, <2>4, <3>1, LogConstants
  <2>5. QED
      BY <2>3, <2>4
<1> HIDE DEF n
<1>3. BytesTyped' /\ Kept
  <2>1. chunk' \in Seq(Byte) /\ Len(chunk') <= Chunk
    <3>1. << >> \in Seq(Byte) /\ Len(<< >>) = 0
        OBVIOUS
    <3>2. chunk' = chunk \/ chunk' = << >>
        BY <1>1
    <3>3. QED
      <4>1. chunk \in Seq(Byte) /\ Len(chunk) <= Chunk
          BY FlushFacts
      <4>2. CASE chunk' = chunk
          BY <4>1, <4>2
      <4>3. CASE chunk' = << >>
          BY <3>1, <4>3, LogConstants
      <4>4. QED
          BY <3>2, <4>2, <4>3
  <2>2. fits' \in 0..Chunk /\ owed' \in 0..(LogSize + TxSize + Fifo)
    <3>1. owed' \in 0..(LogSize + TxSize + Fifo)
        BY <1>1, FlushFacts
    <3>2. Len(chunk) \in Nat /\ Chunk \in Nat
        BY FlushFacts, LogConstants
    <3>3. fits' \in 0..Chunk
        BY <1>1, <1>2, <3>2
    <3>4. QED
        BY <3>1, <3>3
  <2>3. QED
      BY <1>1, <2>1, <2>2, StillTyped
<1>4. ControlTyped'
  <2>1. UNCHANGED <<dev, uartSink, opened, priv, rx, rdr, cr1, modify>>
      BY DEF Submit, device, flush
  <2>2. QED
      BY <1>1, <2>1 DEF LogInv, ControlTyped
<1>5. ChunkInv'
    BY <1>1, <1>2 DEF Flushing, LogInv, ChunkInv
<1>6. ProgressInv'
  <2>1. CASE n > 0
    <3>1. stage' = "copy" /\ chunk' = chunk /\ fits' = n /\ copied' = 0
        BY <1>1, <1>2, <2>1
    <3>2. QED
        BY <1>1, <1>2, <2>1, <3>1, FlushFacts DEF LogInv, ProgressInv
  <2>2. CASE n = 0 /\ dev
    <3>1. stage' = "idle" /\ copied' = 0
        BY <1>1, <1>2, <2>2
    <3>2. QED
        BY <1>1, <3>1 DEF LogInv, ProgressInv
  <2>3. CASE n = 0 /\ ~dev
    <3>1. stage' = "putchar" /\ copied' = 0 /\ chunk' = chunk /\ ~priv
        BY <1>1, <1>2, <2>3
    <3>2. QED
        BY <1>1, <1>2, <2>3, <3>1 DEF LogInv, ProgressInv
  <2>4. QED
      BY <1>2, <2>1, <2>2, <2>3, FlushFacts
<1>7. DrainInv'
    BY <1>1 DEF LogInv, DrainInv
<1>8. QED
    BY <1>3, <1>4, <1>5, <1>6, <1>7 DEF LogInv

\* The transmit interrupt is enabled.
LEMMA KickKeeps ==
    ASSUME LogInv, ReadCr1 \/ WriteCr1
    PROVE  LogInv' /\ Kept
<1>1. /\ log' = log /\ tx' = tx /\ tdr' = tdr /\ copied' = copied /\ number' = number
      /\ chunk' = chunk /\ fits' = fits /\ owed' = owed /\ line' = line /\ dev' = dev
      /\ priv' = priv /\ drain' = drain /\ inputs' = inputs /\ stage = "kick"
      /\ stage' \in {"kick", "skip"}
    BY DEF ReadCr1, WriteCr1, device, history
<1>2. BytesTyped' /\ Kept
    BY <1>1, FlushFacts, StillTyped
<1>3. ControlTyped'
  <2>1. cr1' \subseteq {"tx", "rx"} /\ modify' \subseteq {"tx", "rx"}
    <3>1. cr1' \in {cr1, modify} /\ modify' \in {{}, cr1 \cup {"tx"}}
        BY DEF ReadCr1, WriteCr1, device
    <3>2. cr1 \subseteq {"tx", "rx"} /\ modify \subseteq {"tx", "rx"}
        BY DEF LogInv, ControlTyped
    <3>3. QED
        BY <3>1, <3>2
  <2>2. UNCHANGED <<dev, uartSink, opened, priv, rx, rdr>>
      BY DEF ReadCr1, WriteCr1, device
  <2>3. QED
      BY <1>1, <2>1, <2>2 DEF LogInv, ControlTyped
<1>4. ChunkInv' /\ ProgressInv' /\ DrainInv'
  <2>1. fits <= Len(chunk) /\ copied = fits /\ (~dev => fits = Len(chunk))
      BY <1>1 DEF LogInv, ProgressInv
  <2>2. QED
      BY <1>1, <2>1 DEF Flushing, LogInv, ChunkInv, ProgressInv, DrainInv
<1>5. QED
    BY <1>2, <1>3, <1>4 DEF LogInv

\* A byte goes into the driver's buffer.
LEMMA CopyKeeps ==
    ASSUME LogInv, Copy
    PROVE  LogInv' /\ Kept
<1>1. /\ log' = log /\ tdr' = tdr /\ copied' = copied + 1 /\ number' = number
      /\ chunk' = chunk /\ fits' = fits /\ owed' = owed /\ line' = line /\ dev' = dev
      /\ priv' = priv /\ drain' = drain /\ inputs' = inputs /\ modify' = modify /\ stage = "copy"
      /\ tx' = Append(tx, chunk[copied + 1])
      /\ stage' = IF copied + 1 < fits THEN "copy" ELSE "kick"
    BY DEF Copy, history
<1>2. /\ copied < fits /\ fits - copied <= TxSize - Len(tx) /\ priv
      /\ fits <= Len(chunk) /\ (~dev => fits = Len(chunk))
      /\ Len(chunk) <= Len(log)
      /\ \A i \in 1..Len(chunk) : chunk[i] = log[i]
    BY <1>1 DEF LogInv, ProgressInv, ChunkInv, Flushing
<1>3. /\ log \in Seq(Byte) /\ tx \in Seq(Byte) /\ tdr \in Seq(Byte)
      /\ Len(log) \in Nat /\ Len(tx) \in Nat /\ Len(tdr) \in Nat /\ Len(chunk) \in Nat
      /\ fits \in 0..Chunk /\ copied \in Nat /\ Chunk \in Nat /\ TxSize \in Nat
    BY FlushFacts, LogConstants
<1>4. chunk[copied + 1] = log[copied + 1] /\ copied < Len(log)
    BY <1>2, <1>3
<1>5. log[copied + 1] \in Byte
    BY <1>3, <1>4
<1>6. tx' \in Seq(Byte) /\ Len(tx') = Len(tx) + 1
    BY <1>1, <1>3, <1>4, <1>5, AppendProperties
<1>7. Kept
  <2>1. copied \in Nat
      BY <1>3
  <2>2. Way(tdr, Append(tx, log[copied + 1]), log, copied + 1) = Way(tdr, tx, log, copied)
      BY <1>3, <1>4, WayCopied
  <2>3. OnTheWay' = (tdr' \o tx') \o SubSeq(log', copied' + 1, Len(log'))
      BY DEF OnTheWay
  <2>4. QED
      BY <1>1, <1>4, <2>2, <2>3 DEF Kept, OnTheWay, Way
<1>8. BytesTyped'
  <2>1. copied' \in 0..Chunk /\ Len(tx') <= TxSize
      BY <1>1, <1>2, <1>3, <1>6
  <2>2. QED
      BY <1>1, <1>6, <2>1 DEF LogInv, BytesTyped
<1>9. ControlTyped'
  <2>1. UNCHANGED <<dev, uartSink, opened, priv, rx, rdr, cr1, modify>>
      BY DEF Copy
  <2>2. QED
      BY <1>1, <2>1 DEF LogInv, ControlTyped
<1>10. ChunkInv'
    BY <1>1 DEF Flushing, LogInv, ChunkInv
<1>11. ProgressInv'
  <2>1. CASE copied + 1 < fits
    <3>1. fits' - copied' <= TxSize - Len(tx') /\ copied' < fits' /\ stage' = "copy"
        BY <1>1, <1>2, <1>3, <1>6, <2>1
    <3>2. QED
        BY <1>1, <1>2, <3>1 DEF ProgressInv
  <2>2. CASE ~(copied + 1 < fits)
    <3>1. copied' = fits' /\ stage' = "kick"
        BY <1>1, <1>2, <1>3, <2>2
    <3>2. QED
        BY <1>1, <1>2, <3>1 DEF ProgressInv
  <2>3. QED
      BY <2>1, <2>2
<1>12. DrainInv'
    BY <1>1, <1>3, <1>6 DEF LogInv, DrainInv
<1>13. QED
    BY <1>7, <1>8, <1>9, <1>10, <1>11, <1>12 DEF LogInv

\* A byte goes into the FIFO by hand.
LEMMA PutCharKeeps ==
    ASSUME LogInv, PutChar
    PROVE  LogInv' /\ Kept
<1>1. /\ log' = log /\ tx' = tx /\ copied' = copied + 1 /\ number' = number
      /\ chunk' = chunk /\ fits' = fits /\ owed' = owed /\ line' = line /\ dev' = dev
      /\ priv' = priv /\ drain' = drain /\ inputs' = inputs /\ modify' = modify
      /\ stage = "putchar"
      /\ Len(tdr) < Fifo /\ tdr' = Append(tdr, chunk[copied + 1])
      /\ stage' = IF copied + 1 < Len(chunk) THEN "putchar" ELSE "skip"
    BY DEF PutChar, history
<1>2. /\ copied < Len(chunk) /\ ~dev /\ ~priv /\ tx = << >>
      /\ Len(chunk) <= Len(log)
      /\ \A i \in 1..Len(chunk) : chunk[i] = log[i]
    BY <1>1 DEF LogInv, ProgressInv, ChunkInv, Flushing
<1>3. /\ log \in Seq(Byte) /\ tx \in Seq(Byte) /\ tdr \in Seq(Byte)
      /\ Len(log) \in Nat /\ Len(tx) \in Nat /\ Len(tdr) \in Nat /\ Len(chunk) \in Nat
      /\ fits \in 0..Chunk /\ copied \in Nat /\ Chunk \in Nat /\ TxSize \in Nat
      /\ Len(chunk) <= Chunk
    BY FlushFacts, LogConstants
<1>4. chunk[copied + 1] = log[copied + 1] /\ copied < Len(log)
    BY <1>2, <1>3
<1>5. log[copied + 1] \in Byte
    BY <1>3, <1>4
<1>6. tdr' \in Seq(Byte) /\ Len(tdr') = Len(tdr) + 1 /\ Len(tdr') <= Fifo
    BY <1>1, <1>3, <1>4, <1>5, AppendProperties, LogConstants
<1>7. Kept
  <2>1. Way(Append(tdr, log[copied + 1]), << >>, log, copied + 1) = Way(tdr, << >>, log, copied)
      BY <1>3, <1>4, WayByHand
  <2>2. OnTheWay' = (tdr' \o tx') \o SubSeq(log', copied' + 1, Len(log'))
      BY DEF OnTheWay
  <2>3. QED
      BY <1>1, <1>2, <1>4, <2>1, <2>2 DEF Kept, OnTheWay, Way
<1>8. BytesTyped'
  <2>1. copied' \in 0..Chunk
      BY <1>1, <1>2, <1>3
  <2>2. QED
      BY <1>1, <1>6, <2>1 DEF LogInv, BytesTyped
<1>9. ControlTyped'
  <2>1. UNCHANGED <<dev, uartSink, opened, priv, rx, rdr, cr1, modify>>
      BY DEF PutChar
  <2>2. QED
      BY <1>1, <2>1 DEF LogInv, ControlTyped
<1>10. ChunkInv'
    BY <1>1 DEF Flushing, LogInv, ChunkInv
<1>11. ProgressInv'
  <2>1. CASE copied + 1 < Len(chunk)
    <3>1. copied' < Len(chunk') /\ stage' = "putchar"
        BY <1>1, <2>1
    <3>2. QED
        BY <1>1, <1>2, <3>1 DEF ProgressInv
  <2>2. CASE ~(copied + 1 < Len(chunk))
    <3>1. copied' = Len(chunk') /\ copied' <= Len(chunk') /\ stage' = "skip"
        BY <1>1, <1>2, <1>3, <2>2
    <3>2. QED
        BY <1>1, <1>2, <3>1 DEF ProgressInv
  <2>3. QED
      BY <2>1, <2>2
<1>12. DrainInv'
    BY <1>1, <1>3, <1>6 DEF LogInv, DrainInv
<1>13. QED
    BY <1>7, <1>8, <1>9, <1>10, <1>11, <1>12 DEF LogInv

\* What has been copied leaves the log.
LEMMA SkipKeeps ==
    ASSUME LogInv, Skip
    PROVE  LogInv' /\ Kept
<1>1. /\ tx' = tx /\ tdr' = tdr /\ copied' = 0 /\ number' = number
      /\ chunk' = << >> /\ fits' = 0 /\ owed' = owed /\ line' = line /\ dev' = dev
      /\ priv' = priv /\ drain' = drain /\ inputs' = inputs /\ modify' = modify /\ stage = "skip"
      /\ log' = SubSeq(log, 1 + (IF dev THEN copied ELSE Len(chunk)), Len(log))
      /\ stage' = "idle"
    BY DEF Skip, device, history
<1>2. ~dev => copied = Len(chunk)
    BY <1>1 DEF LogInv, ProgressInv
<1>3. /\ log \in Seq(Byte) /\ tx \in Seq(Byte) /\ tdr \in Seq(Byte)
      /\ Len(log) \in Nat /\ Len(tx) \in Nat /\ Len(tdr) \in Nat
      /\ copied \in 0..Len(log) /\ Len(log) <= LogSize /\ LogSize \in Nat
    BY FlushFacts, LogConstants
<1>4. log' = SubSeq(log, copied + 1, Len(log))
  <2>1. 1 + (IF dev THEN copied ELSE Len(chunk)) = copied + 1
    <3>1. (IF dev THEN copied ELSE Len(chunk)) = copied
        BY <1>2
    <3>2. QED
        BY <1>3, <3>1
  <2>2. QED
      BY <1>1, <2>1
<1>5. log' \in Seq(Byte) /\ Len(log') = Len(log) - copied
    BY <1>3, <1>4, RestOf
<1>6. Kept
  <2>1. Way(tdr, tx, SubSeq(log, copied + 1, Len(log)), 0) = Way(tdr, tx, log, copied)
      BY <1>3, WaySkipped
  <2>2. OnTheWay' = (tdr' \o tx') \o SubSeq(log', copied' + 1, Len(log'))
      BY DEF OnTheWay
  <2>3. OnTheWay' = Way(tdr, tx, log', 0)
      BY <1>1, <2>2 DEF Way
  <2>4. QED
      BY <1>1, <1>4, <2>1, <2>3 DEF Kept, OnTheWay, Way
<1>7. BytesTyped'
  <2>1. Len(log') <= LogSize /\ << >> \in Seq(Byte) /\ Len(<< >>) = 0 /\ 0 <= Chunk
        /\ 0 \in 0..Chunk
      BY <1>3, <1>5, LogConstants
  <2>2. QED
      BY <1>1, <1>5, <2>1 DEF LogInv, BytesTyped
<1>8. ControlTyped'
  <2>1. UNCHANGED <<dev, uartSink, opened, priv, rx, rdr, cr1, modify>>
      BY DEF Skip, device
  <2>2. QED
      BY <1>1, <2>1 DEF LogInv, ControlTyped
<1>9. ChunkInv' /\ ProgressInv'
    BY <1>1 DEF Flushing, ChunkInv, LogInv, ProgressInv
<1>10. DrainInv'
  <2>1. Len(tdr') + Len(tx') + Len(log') - copied' = Len(tdr) + Len(tx) + Len(log) - copied
    <3>1. Len(tdr') = Len(tdr) /\ Len(tx') = Len(tx) /\ copied' = 0
        BY <1>1
    <3>2. QED
        BY <1>3, <1>5, <3>1
  <2>2. drain # "device" /\ (drain = "log" => owed <= Len(tdr) + Len(tx) + Len(log) - copied)
      BY <1>1 DEF LogInv, DrainInv
  <2>3. QED
      BY <1>1, <2>1, <2>2 DEF DrainInv
<1>11. QED
    BY <1>6, <1>7, <1>8, <1>9, <1>10 DEF LogInv

----------------------------------------------------------------------------
\* The log: the steps that write into it, and the transmitter

\* What holds of the log goes on holding of a longer one.
LEMMA LongerLog ==
    ASSUME LogInv, NEW n \in Nat, WriteLog(n),
           dev' = dev, priv' = priv, chunk' = chunk, fits' = fits, copied' = copied,
           owed' = owed, drain' = drain, stage' = stage \/ (stage = "formatted" /\ stage' = "idle"),
           tx' \in Seq(Byte), tdr' \in Seq(Byte), Len(tdr') <= Fifo,
           Len(tx') <= Len(tx), Len(tdr') + Len(tx') = Len(tdr) + Len(tx)
    PROVE  BytesTyped' /\ ChunkInv' /\ ProgressInv' /\ DrainInv'
<1>1. PICK k \in 0..(LogSize - Len(log)) :
          /\ log' \in Seq(Byte) /\ Len(log') = Len(log) + k /\ number' \in Byte
          /\ \A i \in 1..Len(log) : log'[i] = log[i]
    BY Writing DEF LogInv
<1>2. /\ Len(log) \in Nat /\ Len(tx) \in Nat /\ Len(tdr) \in Nat /\ Len(chunk) \in Nat
      /\ Len(tx') \in Nat /\ Len(tdr') \in Nat
      /\ Len(log) <= LogSize /\ Len(tx) <= TxSize /\ LogSize \in Nat /\ TxSize \in Nat
      /\ copied \in Nat /\ fits \in Nat /\ owed \in Nat
    BY FlushFacts, LogConstants
<1>3. Len(log') <= LogSize /\ Len(log') >= Len(log) /\ Len(tx') <= TxSize /\ Len(log') \in Nat
    BY <1>1, <1>2
<1>4. BytesTyped'
    BY <1>1, <1>3 DEF LogInv, BytesTyped
<1>5. ChunkInv'
  <2>1. SUFFICES ASSUME Flushing'
                 PROVE  /\ Len(chunk) \in 1..Len(log')
                        /\ \A i \in 1..Len(chunk) : chunk[i] = log'[i]
      BY DEF ChunkInv
  <2>2. Flushing
      BY <2>1 DEF Flushing
  <2>3. Len(chunk) \in 1..Len(log) /\ \A i \in 1..Len(chunk) : chunk[i] = log[i]
      BY <2>2 DEF LogInv, ChunkInv
  <2>4. Len(chunk) \in 1..Len(log')
      BY <1>2, <1>3, <2>3
  <2>5. ASSUME NEW i \in 1..Len(chunk) PROVE chunk[i] = log'[i]
    <3>1. Len(log) \in Nat /\ Len(chunk) \in 1..Len(log)
        BY <1>2, <2>3
    <3>2. i \in 1..Len(log)
        BY <3>1
    <3>3. log'[i] = log[i] /\ chunk[i] = log[i]
        BY <1>1, <2>3, <3>2, Zenon
    <3>4. QED
        BY <3>3
  <2>6. QED
      BY <2>4, <2>5
<1>6. ProgressInv'
  <2>1. ~priv => tx' = << >>
    <3>1. SUFFICES ASSUME ~priv PROVE tx' = << >>
        OBVIOUS
    <3>2. Len(tx) = 0
        BY <3>1 DEF LogInv, ProgressInv
    <3>3. Len(tx') = 0
        BY <1>2, <3>2
    <3>4. QED
        BY <3>3, EmptySeq
  <2>2. TxSize - Len(tx) <= TxSize - Len(tx')
      BY <1>2
  <2>3. /\ Len(chunk) <= TxSize - Len(tx) => Len(chunk) <= TxSize - Len(tx')
        /\ fits - copied <= TxSize - Len(tx) => fits - copied <= TxSize - Len(tx')
      BY <1>2, <2>2
  <2>4. QED
      BY <2>1, <2>3 DEF LogInv, ProgressInv
<1>7. DrainInv'
  <2>1. /\ Len(tdr') + Len(tx') + Len(log') - copied >= Len(tdr) + Len(tx) + Len(log) - copied
        /\ Len(tdr') + Len(tx') = Len(tdr) + Len(tx)
      BY <1>2, <1>3
  <2>2. owed <= Len(tdr) + Len(tx) + Len(log) - copied
        => owed <= Len(tdr') + Len(tx') + Len(log') - copied
      BY <1>2, <1>3, <2>1
  <2>3. QED
      BY <2>1, <2>2 DEF LogInv, DrainInv
<1>8. QED
    BY <1>4, <1>5, <1>6, <1>7

\* Somebody prints.
LEMMA PrintingTakes ==
    ASSUME LogInv, PrintfWrite \/ PrintfFromIsr
    PROVE  LogInv' /\ (Kept \/ Taken)
<1>1. /\ tx' = tx /\ tdr' = tdr /\ copied' = copied
      /\ chunk' = chunk /\ fits' = fits /\ owed' = owed /\ dev' = dev
      /\ priv' = priv /\ drain' = drain
      /\ stage' = stage \/ (stage = "formatted" /\ stage' = "idle")
    BY DEF PrintfWrite, PrintfFromIsr, device, flush
<1>2. /\ tx \in Seq(Byte) /\ tdr \in Seq(Byte) /\ Len(tx) \in Nat /\ Len(tdr) \in Nat
      /\ Len(tdr) <= Fifo
    BY FlushFacts
<1>3. ControlTyped'
  <2>1. inputs' \in 0..MaxInputs
      BY LogConstants DEF PrintfWrite, PrintfFromIsr, Input, LogInv, ControlTyped
  <2>2. Len(line') \in 0..(LineMax - 1)
    <3>1. line' = line \/ line' = << >>
        BY DEF PrintfWrite, PrintfFromIsr
    <3>2. Len(<< >>) = 0 /\ 0 \in 0..(LineMax - 1)
        BY LogConstants
    <3>3. QED
        BY <3>1, <3>2 DEF LogInv, ControlTyped
  <2>3. UNCHANGED <<uartSink, opened, rx, rdr, cr1, modify>>
      BY DEF PrintfWrite, PrintfFromIsr, device, flush
  <2>4. QED
      BY <1>1, <2>1, <2>2, <2>3 DEF LogInv, ControlTyped
<1>4. CASE \E n \in Nat : WriteLog(n)
  <2>1. PICK n \in Nat : WriteLog(n)
      BY <1>4
  <2>2. BytesTyped' /\ ChunkInv' /\ ProgressInv' /\ DrainInv'
      BY <1>1, <1>2, <2>1, LongerLog
  <2>3. Kept \/ Taken
      BY <1>1, <2>1, WritingTakes
  <2>4. QED
      BY <1>3, <2>2, <2>3 DEF LogInv
<1>5. CASE log' = log /\ number' = number
  <2>1. BytesTyped' /\ Kept
      BY <1>1, <1>5, FlushFacts, StillTyped
  <2>2. ChunkInv' /\ ProgressInv' /\ DrainInv'
      BY <1>1, <1>5 DEF Flushing, LogInv, ChunkInv, ProgressInv, DrainInv
  <2>3. QED
      BY <1>3, <2>1, <2>2 DEF LogInv
<1>6. QED
  <2>1. CASE PrintfFromIsr
    <3>1. WriteLog(TraceLen) /\ TraceLen \in Nat
        BY <2>1, LogConstants DEF PrintfFromIsr
    <3>2. QED
        BY <1>4, <3>1
  <2>2. CASE PrintfWrite /\ uartSink
    <3>1. WriteLog(Len(line)) /\ Len(line) \in Nat
        BY <2>2 DEF PrintfWrite, LogInv, ControlTyped
    <3>2. QED
        BY <1>4, <3>1
  <2>3. CASE PrintfWrite /\ ~uartSink
      BY <1>5, <2>3 DEF PrintfWrite
  <2>4. QED
      BY <2>1, <2>2, <2>3

\* The interrupt of the device.
LEMMA IrqTakes ==
    ASSUME LogInv, Irq
    PROVE  LogInv' /\ (Kept \/ Taken)
<1>1. /\ dev' = dev /\ uartSink' = uartSink /\ opened' = opened /\ priv' = priv /\ priv
      /\ stage' = stage /\ line' = line
      /\ chunk' = chunk /\ fits' = fits /\ copied' = copied /\ modify' = modify
      /\ drain' = drain /\ owed' = owed /\ inputs' = inputs
    BY DEF Irq, flush
<1>2. /\ tx \in Seq(Byte) /\ tdr \in Seq(Byte) /\ Len(tx) \in Nat /\ Len(tdr) \in Nat
      /\ Len(tdr) <= Fifo
    BY FlushFacts
<1>3. /\ tx' \in Seq(Byte) /\ tdr' \in Seq(Byte) /\ Len(tdr') <= Fifo
      /\ Len(tx') <= Len(tx) /\ Len(tdr') + Len(tx') = Len(tdr) + Len(tx)
      /\ tdr' \o tx' = tdr \o tx
      /\ cr1' \subseteq cr1
  <2>1. CASE TxReady /\ tx # << >>
    <3>1. tdr' = Append(tdr, Head(tx)) /\ tx' = Tail(tx) /\ cr1' = cr1 /\ Len(tdr) < Fifo
        BY <2>1 DEF Irq, Transmit, TxReady
    <3>2. Head(tx) \in Byte /\ Tail(tx) \in Seq(Byte) /\ Len(Tail(tx)) = Len(tx) - 1
        BY <1>2, <2>1, HeadTailProperties
    <3>3. Append(tdr, Head(tx)) \in Seq(Byte) /\ Len(Append(tdr, Head(tx))) = Len(tdr) + 1
        BY <1>2, <3>2, AppendProperties
    <3>4. Append(tdr, Head(tx)) \o Tail(tx) = tdr \o tx
        BY <1>2, <2>1, WaySent
    <3>5. Len(tx') = Len(tx) - 1 /\ Len(tdr') = Len(tdr) + 1 /\ Len(tdr') <= Fifo
        BY <1>2, <3>1, <3>2, <3>3, LogConstants
    <3>6. QED
        BY <1>2, <3>1, <3>2, <3>3, <3>4, <3>5
  <2>2. CASE ~(TxReady /\ tx # << >>)
    <3>1. tdr' = tdr /\ tx' = tx /\ cr1' \in {cr1, cr1 \ {"tx"}}
        BY <2>2 DEF Irq, Transmit
    <3>2. QED
        BY <1>2, <3>1
  <2>3. QED
      BY <2>1, <2>2
<1>4. ControlTyped'
  <2>1. rx' \in 0..RxSize /\ rdr' \in 0..Fifo
    <3>1. rx \in 0..RxSize /\ rdr \in 0..Fifo /\ RxSize \in Nat /\ Fifo \in Nat
        BY LogConstants DEF LogInv, ControlTyped
    <3>2. \/ rdr' = 0 /\ rx' = Min2(RxSize, rx + rdr)
          \/ rdr' = rdr /\ rx' = rx
        BY DEF Irq, Transmit, Receive
    <3>3. QED
        BY <3>1, <3>2 DEF Min2
  <2>2. QED
      BY <1>1, <1>3, <2>1 DEF LogInv, ControlTyped
<1>5. CASE rdr > 0
  <2>1. WriteLog(TraceLen) /\ TraceLen \in Nat
      BY <1>5, LogConstants DEF Irq, Transmit, Receive
  <2>2. BytesTyped' /\ ChunkInv' /\ ProgressInv' /\ DrainInv'
      BY <1>1, <1>3, <2>1, LongerLog
  <2>3. Kept \/ Taken
      BY <1>1, <1>3, <2>1, WritingTakes
  <2>4. QED
      BY <1>4, <2>2, <2>3 DEF LogInv
<1>6. CASE ~(rdr > 0)
  <2>1. log' = log /\ number' = number
      BY <1>6 DEF Irq, Transmit, Receive
  <2>2. Kept
      BY <1>1, <1>3, <2>1 DEF Kept, OnTheWay
  <2>3. BytesTyped'
    <3>1. Len(tx') <= TxSize
        BY <1>3, FlushFacts, LogConstants
    <3>2. QED
        BY <1>1, <1>3, <2>1, <3>1 DEF LogInv, BytesTyped
  <2>4. ChunkInv' /\ DrainInv'
      BY <1>1, <1>3, <2>1 DEF Flushing, LogInv, ChunkInv, DrainInv
  <2>5. ProgressInv'
    <3>1. TxSize - Len(tx) <= TxSize - Len(tx')
        BY <1>2, <1>3, LogConstants
    <3>2. /\ Len(chunk) <= TxSize - Len(tx) => Len(chunk) <= TxSize - Len(tx')
          /\ fits - copied <= TxSize - Len(tx) => fits - copied <= TxSize - Len(tx')
      <4>1. /\ Len(chunk) \in Nat /\ fits \in Nat /\ copied \in Nat /\ TxSize \in Nat
            /\ Len(tx) \in Nat /\ Len(tx') \in Nat
          BY <1>2, <1>3, FlushFacts, LogConstants
      <4>2. QED
          BY <3>1, <4>1
    <3>3. QED
        BY <1>1, <3>2 DEF LogInv, ProgressInv
  <2>6. QED
      BY <1>4, <2>2, <2>3, <2>4, <2>5 DEF LogInv
<1>7. QED
    BY <1>5, <1>6

\* The oldest byte of the transmitter goes onto the wire.
LEMMA ShiftLeaves ==
    ASSUME LogInv, Shift
    PROVE  LogInv' /\ Pipe!Leave
<1>1. /\ tdr # << >> /\ tdr' = Tail(tdr) /\ owed' = IF owed > 0 THEN owed - 1 ELSE 0
      /\ log' = log /\ tx' = tx /\ copied' = copied /\ number' = number
      /\ chunk' = chunk /\ fits' = fits /\ line' = line /\ dev' = dev /\ priv' = priv
      /\ stage' = stage /\ drain' = drain /\ inputs' = inputs /\ modify' = modify
    BY DEF Shift, flush
<1>2. /\ log \in Seq(Byte) /\ tx \in Seq(Byte) /\ tdr \in Seq(Byte)
      /\ Len(log) \in Nat /\ Len(tx) \in Nat /\ copied \in 0..Len(log)
      /\ Len(tdr) \in Nat /\ Len(tdr) <= Fifo /\ owed \in 0..(LogSize + TxSize + Fifo)
    BY FlushFacts
<1>3. Len(tdr) >= 1 /\ Len(tdr') = Len(tdr) - 1 /\ Len(tdr') <= Fifo /\ tdr' \in Seq(Byte)
  <2>1. Len(tdr) # 0
      BY <1>1, <1>2, EmptySeq
  <2>2. tdr' \in Seq(Byte) /\ Len(tdr') = Len(tdr) - 1
      BY <1>1, <1>2, HeadTailProperties
  <2>3. QED
      BY <1>2, <2>1, <2>2, LogConstants
<1>5. Pipe!Leave
  <2>1. /\ Way(Tail(tdr), tx, log, copied) = Tail(Way(tdr, tx, log, copied))
        /\ Way(tdr, tx, log, copied) # << >>
    <3>1. /\ tdr \in Seq(Byte) /\ tdr # << >> /\ tx \in Seq(Byte) /\ log \in Seq(Byte)
          /\ copied \in 0..Len(log)
        BY <1>1, <1>2
    <3>2. QED
        BY <3>1, WayLeft, Zenon
  <2>2. OnTheWay' = (tdr' \o tx') \o SubSeq(log', copied' + 1, Len(log'))
      BY DEF OnTheWay
  <2>3. OnTheWay' = Way(Tail(tdr), tx, log, copied)
      BY <1>1, <2>2 DEF Way
  <2>4. OnTheWay = Way(tdr, tx, log, copied)
      BY DEF OnTheWay, Way
  <2>5. QED
      BY <1>1, <2>1, <2>3, <2>4 DEF Pipe!Leave
<1>6. BytesTyped'
  <2>1. owed' \in 0..(LogSize + TxSize + Fifo)
      BY <1>1, <1>2, LogConstants
  <2>2. QED
      BY <1>1, <1>3, <2>1 DEF LogInv, BytesTyped
<1>7. ControlTyped'
  <2>1. UNCHANGED <<uartSink, opened, rx, rdr, cr1>>
      BY DEF Shift
  <2>2. QED
      BY <1>1, <2>1 DEF LogInv, ControlTyped
<1>8. ChunkInv' /\ ProgressInv'
    BY <1>1 DEF Flushing, LogInv, ChunkInv, ProgressInv
<1>9. DrainInv'
  <2>1. /\ owed <= Len(tdr) + Len(tx) + Len(log) - copied
           => owed' <= Len(tdr') + Len(tx) + Len(log) - copied
        /\ owed <= Len(tdr) + Len(tx) => owed' <= Len(tdr') + Len(tx)
      BY <1>1, <1>2, <1>3, LogConstants
  <2>2. QED
      BY <1>1, <2>1 DEF LogInv, DrainInv
<1>10. QED
    BY <1>5, <1>6, <1>7, <1>8, <1>9 DEF LogInv

----------------------------------------------------------------------------
\* The log: the theorems

\* The log starts empty, and so does the pipe.
LEMMA LogInitInv ==
    ASSUME LogInit
    PROVE  LogInv /\ Pipe!PipeInit
<1>1. /\ log = << >> /\ tx = << >> /\ tdr = << >> /\ chunk = << >> /\ line = << >>
      /\ copied = 0 /\ fits = 0 /\ number = 0 /\ owed = 0 /\ stage = "idle" /\ drain = "no"
    BY DEF LogInit
<1>2. << >> \in Seq(Byte) /\ Len(<< >>) = 0
    OBVIOUS
<1>3. BytesTyped
  <2>1. 0 \in Byte /\ 0 \in 0..(LogSize + TxSize + Fifo) /\ 0 \in 0..Chunk
      BY LogConstants DEF Byte
  <2>2. QED
      BY <1>1, <1>2, <2>1, LogConstants DEF BytesTyped
<1>4. ControlTyped
  <2>1. /\ dev \in BOOLEAN /\ uartSink \in BOOLEAN /\ opened \in BOOLEAN /\ priv \in BOOLEAN
        /\ rx = 0 /\ rdr = 0 /\ cr1 = {} /\ modify = {} /\ inputs = 0
      BY DEF LogInit
  <2>2. 0 \in 0..RxSize /\ 0 \in 0..Fifo /\ 0 \in 0..(LineMax - 1) /\ 0 \in 0..MaxInputs
      BY LogConstants
  <2>3. Len(line) = 0
      BY <1>1, <1>2
  <2>4. QED
      BY <1>1, <2>1, <2>2, <2>3 DEF ControlTyped
<1>5. ChunkInv /\ ProgressInv /\ DrainInv
    BY <1>1 DEF Flushing, ChunkInv, ProgressInv, DrainInv
<1>6. Pipe!PipeInit
  <2> DEFINE e == << >>
  <2>1. e \in Seq(Byte) /\ Len(e) = 0
      OBVIOUS
  <2>2. OnTheWay = (e \o e) \o SubSeq(e, 0 + 1, Len(e))
      BY <1>1 DEF OnTheWay
  <2>3. SubSeq(e, 0 + 1, Len(e)) = e
      BY <2>1, SubSeqFull
  <2>4. e \o e = e
      BY <2>1, ConcatEmptySeq
  <2>5. QED
      BY <1>1, <2>2, <2>3, <2>4 DEF Pipe!PipeInit
<1>7. QED
    BY <1>3, <1>4, <1>5, <1>6 DEF LogInv

\* Every step keeps the invariant and moves the pipe as it promises.
LEMMA LogStep ==
    ASSUME Careful, LogInv, [LogNext]_logVars
    PROVE  LogInv' /\ (Kept \/ Taken \/ Pipe!Leave)
<1>1. CASE \E form \in Lines : Printf(form)
    BY <1>1, PrintfKeeps
<1>2. CASE SetSink \/ SetDevice \/ Open \/ Close \/ Drain \/ Arrive
    BY <1>2, SettingKeeps
<1>3. CASE \/ DrainDevice \/ DrainReturns \/ DrainGivesUp \/ Opened \/ Closed
           \/ \E n \in 1..RxSize : Read(n)
    BY <1>3, ReturningKeeps
<1>4. CASE Flush \/ Peek
    BY <1>4, CountingKeeps
<1>5. CASE Submit
    BY <1>5, SubmitKeeps
<1>6. CASE Copy
    BY <1>6, CopyKeeps
<1>7. CASE ReadCr1 \/ WriteCr1
    BY <1>7, KickKeeps
<1>8. CASE PutChar
    BY <1>8, PutCharKeeps
<1>9. CASE Skip
    BY <1>9, SkipKeeps
<1>10. CASE PrintfWrite \/ PrintfFromIsr
    BY <1>10, PrintingTakes
<1>11. CASE Irq
    BY <1>11, IrqTakes
<1>12. CASE Shift
    BY <1>12, ShiftLeaves
<1>13. CASE UNCHANGED logVars
  <2>1. Kept
      BY <1>13, NothingMoved DEF logVars, device, flush, history
  <2>2. LogInv'
      BY <1>13 DEF logVars, device, flush, history, LogInv, BytesTyped, ControlTyped, ChunkInv,
                   ProgressInv, DrainInv, Flushing
  <2>3. QED
      BY <2>1, <2>2
<1>14. QED
    BY <1>1, <1>2, <1>3, <1>4, <1>5, <1>6, <1>7, <1>8, <1>9, <1>10, <1>11, <1>12, <1>13
    DEF LogNext, MainStep, FlushStep

LEMMA LogAlways ==
    ASSUME Careful
    PROVE  LogSpec => []LogInv
<1>1. LogInit => LogInv
    BY LogInitInv
<1>2. LogInv /\ [LogNext]_logVars => LogInv'
    BY LogStep
<1>3. QED
    BY <1>1, <1>2, PTL DEF LogSpec

\* The types of the log and its driver, and with them that no line outgrows the
\* line buffer and no queue its ring buffer.
THEOREM LogIsTyped ==
    ASSUME Careful
    PROVE  LogSpec => []LogTypeOK
<1>1. LogInv => LogTypeOK
    BY LogConstants DEF LogInv, BytesTyped, ControlTyped, LogTypeOK
<1>2. LogSpec => []LogInv
    BY LogAlways
<1>3. QED
    BY <1>1, <1>2, PTL

\* ImplementsPipe: an application that closes the device only when it has sent
\* everything, and without a log device flushes only what the driver has room for,
\* finds log and driver one bounded queue: whatever part of a chunk the driver
\* accepts, whoever prints meanwhile and whenever the interrupt comes, no byte is
\* lost, repeated or overtaken between the log buffer and the wire.
THEOREM LogIsAPipe ==
    ASSUME Careful
    PROVE  LogSpec => ImplementsPipe
<1>1. LogInit => Pipe!PipeInit
    BY LogInitInv
<1>2. LogInv /\ [LogNext]_logVars => [Pipe!PipeNext]_<<OnTheWay, number>>
    BY LogStep DEF Kept, Taken, Pipe!PipeNext
<1>3. LogSpec => []LogInv
    BY LogAlways
<1>4. QED
    BY <1>1, <1>2, <1>3, PTL DEF LogSpec, ImplementsPipe, Pipe!PipeSpec

\* DrainedMeansSent: when Anbo_Log_DrainAll returns before its time is up, every byte
\* it found in the log, the driver or the transmit FIFO is on the wire, but for those in
\* the FIFO.
THEOREM DrainingSends ==
    ASSUME Careful
    PROVE  LogSpec => DrainedMeansSent
<1>1. ASSUME LogInv, DrainReturns, dev \/ ~priv PROVE owed <= Len(tdr)
  <2>1. /\ Len(log) \in Nat /\ Len(tx) \in Nat /\ Len(tdr) \in Nat
        /\ owed \in 0..(LogSize + TxSize + Fifo) /\ copied \in 0..Len(log)
      BY <1>1, FlushFacts
  <2>2. CASE drain = "log" /\ log = << >> /\ ~dev
    <3>1. Len(log) = 0 /\ Len(tx) = 0
        BY <1>1, <2>2 DEF LogInv, ProgressInv
    <3>2. owed <= Len(tdr) + Len(tx) + Len(log) - copied
        BY <1>1, <2>2 DEF LogInv, DrainInv
    <3>3. QED
        BY <2>1, <3>1, <3>2
  <2>3. CASE drain = "device" /\ tx = << >>
    <3>1. Len(tx) = 0 /\ owed <= Len(tdr) + Len(tx)
        BY <1>1, <2>3 DEF LogInv, DrainInv
    <3>2. QED
        BY <2>1, <3>1
  <2>4. QED
      BY <1>1, <2>2, <2>3 DEF DrainReturns
<1>2. LogInv /\ [LogNext]_logVars => [DrainReturns /\ (dev \/ ~priv) => owed <= Len(tdr)]_logVars
    BY <1>1
<1>3. LogSpec => []LogInv
    BY LogAlways
<1>4. QED
    BY <1>2, <1>3, PTL DEF LogSpec, DrainedMeansSent

\* The line in hand is the one Anbo_Log_Printf has made of its items.
LineInv == stage = "formatted" => items \in Lines /\ line = Printed(items)

LEMMA LineStep ==
    ASSUME LineInv, [LogNext]_logVars
    PROVE  LineInv'
<1>1. CASE \E form \in Lines : Printf(form)
  <2>1. PICK form \in Lines : Printf(form)
      BY <1>1
  <2>2. items' = form /\ line' = Printed(form)
      BY <2>1 DEF Printf, Printed
  <2>3. QED
      BY <2>2 DEF LineInv, Printed
<1>2. CASE UNCHANGED <<stage, line, items>>
  <2>1. stage' = stage /\ line' = line /\ items' = items
      BY <1>2
  <2>2. QED
      BY <2>1 DEF LineInv, Printed
<1>3. CASE stage' # "formatted"
    BY <1>3 DEF LineInv
<1>4. CASE PrintfFromIsr \/ SetSink \/ SetDevice \/ Drain \/ Irq \/ Arrive \/ Shift
  <2>1. UNCHANGED <<stage, line, items>>
      BY <1>4 DEF PrintfFromIsr, SetSink, SetDevice, Drain, Irq, Arrive, Shift
  <2>2. QED
      BY <1>2, <2>1
<1>5. CASE DrainDevice \/ DrainReturns \/ DrainGivesUp \/ \E n \in 1..RxSize : Read(n)
  <2>1. UNCHANGED <<stage, line, items>>
      BY <1>5 DEF DrainDevice, DrainReturns, DrainGivesUp, Read, history
  <2>2. QED
      BY <1>2, <2>1
<1>6. CASE PrintfWrite \/ Open \/ Close \/ Opened \/ Closed
  <2>1. stage' # "formatted"
      BY <1>6 DEF PrintfWrite, Open, Close, Opened, Closed
  <2>2. QED
      BY <1>3, <2>1
<1>7. CASE FlushStep
  <2>1. stage' # "formatted"
      BY <1>7 DEF FlushStep, Flush, Peek, Submit, Copy, ReadCr1, WriteCr1, PutChar, Skip
  <2>2. QED
      BY <1>3, <2>1
<1>8. CASE UNCHANGED logVars
  <2>1. UNCHANGED <<stage, line, items>>
      BY <1>8 DEF logVars, history
  <2>2. QED
      BY <1>2, <2>1
<1>9. QED
    BY <1>1, <1>4, <1>5, <1>6, <1>7, <1>8 DEF LogNext, MainStep

\* LineFormatted: whatever is printed, the line Anbo_Format_V leaves in the buffer of
\* Anbo_Log_Printf is the text of every item, number and width of the format string in
\* their order, cut where the buffer ends, and its end is kept for the NUL.
THEOREM LinesAreFormatted ==
    ASSUME Careful
    PROVE  LogSpec => []LineFormatted
<1>1. LogInit => LineInv
    BY DEF LogInit, LineInv
<1>2. LineInv /\ [LogNext]_logVars => LineInv'
    BY LineStep
<1>3. LogTypeOK /\ LineInv => LineFormatted
    BY LinesFit DEF LineInv, LineFormatted
<1>4. LogSpec => []LogTypeOK
    BY LogIsTyped
<1>5. QED
    BY <1>1, <1>2, <1>3, <1>4, PTL DEF LogSpec

=============================================================================
