-------------------------------- MODULE Imu --------------------------------
(***************************************************************************)
(* The sensor driver of port/stm32l4s5/b_l4s5i_imu_drv.c, with the LSM6DSL *)
(* chip behind it and an application that reads the chip's FIFO when the   *)
(* line INT1 rises.                                                        *)
(*                                                                         *)
(* A register access over I2C is one step.  The chip takes samples between *)
(* any two of them, and an access may fail, in which case a write may or   *)
(* may not have reached the chip.  The processor may be reset while the    *)
(* chip goes on.                                                           *)
(*                                                                         *)
(* A set of samples is W words in a fixed pattern, the gyroscope's first.  *)
(* A word is the number of its set, its place in the pattern and the range *)
(* of the sensor when it was taken.                                        *)
(***************************************************************************)
EXTENDS Integers, Sequences, FiniteSets

CONSTANTS
    W,         \* FIFO_WORDS_PER_SET
    Depth,     \* the words the chip's FIFO holds
    Levels,    \* the number of values of its word count, 2^11 in the code
    LowMod,    \* the number of values of FIFO_CTRL1,
    HighMod,   \* and of the bits of FIFO_CTRL2 that are written
    WtmCap,    \* the largest watermark asked for, 4095
    Setups,    \* what the application passes to BSP_IMU_Init: two ranges, sets
    WakeRange, \* the range BSP_IMU_ConfigWakeup selects, 4 g
    MaxSets,   \* what it passes to BSP_IMU_FIFO_Read
    Torn,      \* how many words a failed burst may have taken
    WholeSets, \* a FIFO that is full loses its oldest set, not just the words in the way
    Prompt     \* the application reads the FIFO once after BSP_IMU_INT1_Init

ASSUME ImuAssumption ==
    /\ W \in Nat \ {0} /\ W % 2 = 0
    /\ Depth \in Nat /\ W <= Depth /\ Levels \in Nat \ {0}
    /\ LowMod \in Nat \ {0} /\ HighMod \in Nat \ {0} /\ WtmCap \in Nat
    /\ Setups \subseteq [xl : Nat \ {0}, gy : Nat \ {0}, wtm : Nat]
    /\ WakeRange \in Nat \ {0}
    /\ MaxSets # {} /\ MaxSets \subseteq Nat \ {0}
    /\ Torn \subseteq 0..W
    /\ WholeSets \in BOOLEAN /\ Prompt \in BOOLEAN

\* Sets are numbered modulo Ids, more than are ever in the FIFO and on their way.
Ids == Depth \div W + 3
DefaultScale == [xl |-> 2, gy |-> 250]
Off == 0
On == 1       \* the value the driver writes, where there is only one
SwReset == 2  \* CTRL3_C_SW_RESET

VARIABLES
    \* the chip
    chip,     \* its registers
    fifo,     \* the words of its FIFO, the oldest first
    out,      \* the ranges of the samples in OUTX_XL and OUTX_G, Off if none
    next,     \* the number of the next set
    latched,  \* a wake-up in WAKE_UP_SRC
    bus,      \* whether I2C works at all times
    \* the processor
    exti,     \* the rising edge of PD11 interrupts
    pending,  \* an edge has come
    \* the driver
    scale,    \* s_xl_fs, s_gy_fs
    op,       \* what it is doing
    todo,     \* the register accesses still to do, of Init, PowerDown and ConfigWakeup
    setup,    \* the arguments of Init
    max,      \* max_sets
    avail,    \* avail_sets
    got,      \* i
    reading,  \* history: what the last step has handed to the application
    \* the application
    mode,     \* which of Init and ConfigWakeup the chip has been through
    notified  \* ANBO_SIG_IMU_INT1 has been published

chipVars == <<chip, fifo, out, next, latched>>
driver == <<scale, op, todo, setup, max, avail, got>>
app == <<mode, notified>>
imuVars == <<chipVars, bus, exti, pending, driver, reading, app>>

\* The registers after SW_RESET.
ResetRegs == [CTRL1_XL |-> Off, CTRL2_G |-> Off, FIFO_CTRL1 |-> 0, FIFO_CTRL2 |-> 0,
              FIFO_CTRL5 |-> Off, INT1_CTRL |-> Off, TAP_CFG |-> Off, MD1_CFG |-> Off]

Ranges == {s.xl : s \in Setups} \cup {s.gy : s \in Setups} \cup {WakeRange, Off}
Word == [set : 0..(Ids - 1), pos : 0..W, range : Ranges]

ImuTypeOK ==
    /\ DOMAIN chip = DOMAIN ResetRegs
    /\ Len(fifo) <= Depth /\ \A i \in 1..Len(fifo) : fifo[i] \in Word
    /\ out \in [xl : Ranges, gy : Ranges]
    /\ next \in 0..(Ids - 1)
    /\ {latched, exti, pending, notified} \subseteq BOOLEAN
    /\ bus \in {"sound", "faulty"}
    /\ op \in {"none", "init", "down", "wake", "level", "burst"}
    /\ (todo # <<>>) = (op \in {"init", "down", "wake"})
    /\ max \in MaxSets /\ avail \in 0..max /\ got \in 0..avail
    /\ mode \in {"off", "run", "wake"}

ImuPowerOn ==
    /\ chip = ResetRegs /\ fifo = <<>> /\ out = [xl |-> Off, gy |-> Off]
    /\ next = 0 /\ latched = FALSE
    /\ bus \in {"sound", "faulty"}
    /\ exti = FALSE /\ pending = FALSE
    /\ scale = DefaultScale /\ op = "none" /\ todo = <<>>
    /\ setup \in Setups /\ max \in MaxSets /\ avail = 0 /\ got = 0
    /\ reading = <<>>
    /\ mode = "off" /\ notified = FALSE

----------------------------------------------------------------------------
\* The chip

Watermark == chip.FIFO_CTRL1 + LowMod * chip.FIFO_CTRL2

\* The line INT1.
Int1 ==
    \/ chip.INT1_CTRL # Off /\ chip.FIFO_CTRL5 # Off /\ Len(fifo) >= Watermark
    \/ chip.MD1_CFG # Off /\ latched

\* The words of the next set.
NewSet == [i \in 1..W |-> [set |-> next, pos |-> i,
                           range |-> IF i <= W \div 2 THEN chip.CTRL2_G ELSE chip.CTRL1_XL]]

\* What a FIFO in continuous mode loses when the next set comes.
Lost ==
    IF Len(fifo) + W <= Depth THEN 0 ELSE IF WholeSets THEN W ELSE Len(fifo) + W - Depth

\* Both sensors take a sample.
Sample ==
    /\ chip.CTRL1_XL # Off /\ chip.CTRL2_G # Off
    /\ out' = [xl |-> chip.CTRL1_XL, gy |-> chip.CTRL2_G]
    /\ IF chip.FIFO_CTRL5 = Off
       THEN UNCHANGED <<fifo, next>>
       ELSE /\ fifo' = SubSeq(fifo, Lost + 1, Len(fifo)) \o NewSet
            /\ next' = (next + 1) % Ids
    /\ reading' = <<>>
    /\ UNCHANGED <<chip, latched, driver, app>>

\* The accelerometer passes the threshold.
Motion ==
    /\ chip.TAP_CFG # Off /\ chip.CTRL1_XL # Off
    /\ latched' = TRUE
    /\ reading' = <<>>
    /\ UNCHANGED <<chip, fifo, out, next, driver, app>>

\* What an access does to the chip: a write, or the read of WAKE_UP_SRC.
Effect(step) ==
    LET reset == step.reg = "CTRL3_C" /\ step.val = SwReset
    IN  /\ chip' = IF reset THEN ResetRegs
                   ELSE IF step.reg \in DOMAIN chip THEN [chip EXCEPT ![step.reg] = step.val]
                   ELSE chip
        /\ fifo' = IF reset \/ (step.reg = "FIFO_CTRL5" /\ step.val = Off) THEN <<>> ELSE fifo
        /\ out' = IF reset THEN [xl |-> Off, gy |-> Off] ELSE out
        /\ latched' = (latched /\ ~reset /\ step.reg # "WAKE_UP_SRC")
        /\ UNCHANGED next

----------------------------------------------------------------------------
\* BSP_IMU_Init, BSP_IMU_PowerDown, BSP_IMU_ConfigWakeup: one access after another.
\* A chip that answers WHO_AM_I with another value, or has not finished its reset after
\* a hundred reads of CTRL3_C, ends Init like an access that fails.

Set(r, v) == [reg |-> r, val |-> v]
Get(r) == [reg |-> r, val |-> Off]

\* The watermark in words, as Init computes and caps it; the registers take the bits
\* of it that they have.
WtmWords(wtm) == IF wtm * W > WtmCap THEN WtmCap ELSE wtm * W

FifoSteps(wtm) ==
    <<Set("FIFO_CTRL1", WtmWords(wtm) % LowMod),
      Set("FIFO_CTRL2", (WtmWords(wtm) \div LowMod) % HighMod),
      Set("FIFO_CTRL3", On), Set("FIFO_CTRL5", On),
      Set("INT1_CTRL", On)>>

\* Faulty: the chip is configured as it is found, without a reset.
InitSteps_NoReset(s) ==
    <<Get("IsReady"), Get("WHO_AM_I"), Set("CTRL3_C", On),
      Set("CTRL1_XL", s.xl), Set("CTRL2_G", s.gy)>>
    \o (IF s.wtm > 0 THEN FifoSteps(s.wtm) ELSE <<>>)

InitSteps(s) ==
    <<Get("IsReady"), Get("WHO_AM_I"), Set("CTRL3_C", SwReset), Get("CTRL3_C"),
      Set("CTRL3_C", On), Set("CTRL1_XL", s.xl), Set("CTRL2_G", s.gy)>>
    \o (IF s.wtm > 0 THEN FifoSteps(s.wtm) ELSE <<>>)

DownSteps ==
    <<Set("INT1_CTRL", Off), Set("FIFO_CTRL5", Off), Set("CTRL1_XL", Off), Set("CTRL2_G", Off)>>

WakeSteps ==
    <<Set("INT1_CTRL", Off), Set("FIFO_CTRL5", Off), Set("CTRL2_G", Off),
      Set("CTRL1_XL", WakeRange), Set("TAP_CFG", On),
      Set("WAKE_UP_THS", On), Set("WAKE_UP_DUR", On), Set("MD1_CFG", On),
      Get("WAKE_UP_SRC")>>

\* The application calls one of the three.
Call(name, steps) ==
    /\ op = "none"
    /\ op' = name /\ todo' = steps
    /\ mode' = "off"
    /\ reading' = <<>>
    /\ UNCHANGED <<chipVars, exti, scale, max, avail, got, notified>>

ImuInit == \E s \in Setups : Call("init", InitSteps(s)) /\ setup' = s
PowerDown == Call("down", DownSteps) /\ UNCHANGED setup
ConfigWakeup == Call("wake", WakeSteps) /\ UNCHANGED setup

\* Init keeps the ranges once both have been written.
Keep(step) ==
    IF op = "init" /\ step.reg = "CTRL2_G" THEN [xl |-> setup.xl, gy |-> setup.gy] ELSE scale

Access ==
    /\ todo # <<>>
    /\ Effect(Head(todo))
    /\ scale' = Keep(Head(todo))
    /\ todo' = Tail(todo)
    /\ IF Len(todo) > 1
       THEN UNCHANGED <<op, mode>>
       ELSE /\ op' = "none"
            /\ mode' = [init |-> "run", down |-> "off", wake |-> "wake"][op]
    /\ reading' = <<>>
    /\ UNCHANGED <<exti, setup, max, avail, got, notified>>

\* Init returns false at the first access that fails, the other two go on.
AccessFails ==
    /\ bus = "faulty" /\ todo # <<>>
    /\ Effect(Head(todo)) \/ UNCHANGED chipVars
    /\ todo' = IF op = "init" THEN <<>> ELSE Tail(todo)
    /\ IF todo' # <<>>
       THEN UNCHANGED <<op, mode>>
       ELSE /\ op' = "none"
            /\ mode' = [init |-> "off", down |-> "off", wake |-> "wake"][op]
    /\ reading' = <<>>
    /\ UNCHANGED <<exti, scale, setup, max, avail, got, notified>>

----------------------------------------------------------------------------
\* Reading

\* What the conversion at place i of a set makes of a word: raw_to_mdps before
\* raw_to_mg, each with the range the driver has kept.
Scaled(word, i) ==
    [word |-> word, used |-> IF i <= W \div 2 THEN scale.gy ELSE scale.xl]

\* BSP_IMU_ReadAccel, BSP_IMU_ReadGyro.
ReadOutput ==
    /\ op = "none" /\ mode = "run"
    /\ \/ reading' = <<[word |-> [set |-> 0, pos |-> 1, range |-> out.xl], used |-> scale.xl]>>
       \/ reading' = <<[word |-> [set |-> 0, pos |-> 1, range |-> out.gy], used |-> scale.gy]>>
    /\ UNCHANGED <<chipVars, exti, driver, app>>

\* Faulty: one bit too few is taken from the second status byte.
GetLevel_OneBitLess == Len(fifo) % (Levels \div 2)

\* BSP_IMU_FIFO_GetLevel.
GetLevel == Len(fifo) % Levels

\* The complete sets, no more than asked for.
AvailSets == IF GetLevel \div W > max THEN max ELSE GetLevel \div W

\* BSP_IMU_FIFO_Read returns n; the application calls it again until it gets nothing.
Return(n) ==
    /\ op' = "none" /\ avail' = 0 /\ got' = 0
    /\ notified' = (notified \/ n > 0)

BeginRead ==
    /\ op = "none" /\ mode = "run" /\ notified
    /\ op' = "level" /\ notified' = FALSE
    /\ max' \in MaxSets
    /\ reading' = <<>>
    /\ UNCHANGED <<chipVars, exti, scale, todo, setup, avail, got, mode>>

ReadLevel ==
    /\ op = "level"
    /\ IF AvailSets = 0
       THEN Return(0)
       ELSE op' = "burst" /\ avail' = AvailSets /\ UNCHANGED <<got, notified>>
    /\ reading' = <<>>
    /\ UNCHANGED <<chipVars, exti, scale, todo, setup, max, mode>>

\* The next n words leave the FIFO.
Pop(n) == fifo' = SubSeq(fifo, n + 1, Len(fifo)) /\ UNCHANGED <<chip, out, next, latched>>

Missing == [set |-> 0, pos |-> 0, range |-> Off]

Burst ==
    /\ op = "burst"
    /\ reading' = [i \in 1..W |-> Scaled(IF i <= Len(fifo) THEN fifo[i] ELSE Missing, i)]
    /\ Pop(W)
    /\ IF got + 1 = avail
       THEN Return(avail)
       ELSE got' = got + 1 /\ UNCHANGED <<op, avail, notified>>
    /\ UNCHANGED <<exti, scale, todo, setup, max, mode>>

\* FIFO_STATUS1 or the burst cannot be read; what has been read before is returned.
ReadFails ==
    /\ bus = "faulty"
    /\ \/ op = "level" /\ Return(0) /\ UNCHANGED chipVars
       \/ op = "burst" /\ Return(got) /\ \E n \in Torn : Pop(n)
    /\ reading' = <<>>
    /\ UNCHANGED <<exti, scale, todo, setup, max, mode>>

\* BSP_IMU_ReadWakeUpSrc, which the application calls when INT1 has woken it.
ReadWakeUpSrc ==
    /\ op = "none" /\ mode = "wake" /\ notified
    /\ notified' = FALSE
    /\ \/ latched' = FALSE
       \/ bus = "faulty" /\ UNCHANGED latched
    /\ reading' = <<>>
    /\ UNCHANGED <<chip, fifo, out, next, exti, driver, mode>>

----------------------------------------------------------------------------
\* The processor

\* After Init, as the header asks for.
INT1_Init ==
    /\ op = "none" /\ mode = "run" /\ ~exti
    /\ exti' = TRUE
    /\ notified' = (notified \/ Prompt)
    /\ reading' = <<>>
    /\ UNCHANGED <<chipVars, driver, mode>>

\* HAL_GPIO_EXTI_Callback publishes ANBO_SIG_IMU_INT1, whose subscriber notes it.
EXTI_Callback ==
    /\ pending
    /\ pending' = FALSE
    /\ notified' = TRUE
    /\ reading' = <<>>
    /\ UNCHANGED <<chipVars, bus, exti, driver, mode>>

\* A reset of the processor, which the chip does not notice.
Reset ==
    /\ exti' = FALSE /\ pending' = FALSE
    /\ scale' = DefaultScale /\ op' = "none" /\ todo' = <<>>
    /\ avail' = 0 /\ got' = 0
    /\ reading' = <<>>
    /\ mode' = "off" /\ notified' = FALSE
    /\ UNCHANGED <<chipVars, bus, setup, max>>

\* A rising edge of INT1 makes the interrupt pending.
Edge == pending' = (pending \/ (exti /\ ~Int1 /\ Int1'))

World == Sample \/ Motion
Application == ImuInit \/ PowerDown \/ ConfigWakeup \/ ReadOutput \/ INT1_Init
Answer == BeginRead \/ ReadWakeUpSrc
Drive == Access \/ AccessFails \/ ReadLevel \/ Burst \/ ReadFails

ImuNext ==
    \/ World /\ Edge /\ UNCHANGED <<bus, exti>>
    \/ (Application \/ Answer \/ Drive) /\ Edge /\ UNCHANGED bus
    \/ EXTI_Callback
    \/ Reset

ImuSpec == ImuPowerOn /\ [][ImuNext]_imuVars

\* The driver's calls go on, interrupts are taken, and the application gets to
\* the events it has been sent.
FairImuSpec ==
    /\ ImuSpec
    /\ WF_imuVars((Answer \/ Drive) /\ Edge /\ UNCHANGED bus)
    /\ WF_imuVars(EXTI_Callback)

----------------------------------------------------------------------------
(***************************************************************************)
(* Properties                                                              *)
(***************************************************************************)

\* What a read hands over is one set of the chip's, with every word at its
\* place in the pattern and converted with the range it was taken with, whatever
\* accesses have failed, wherever the processor was reset and however often the
\* FIFO has overflowed.
ReadingsTrue ==
    /\ ImuTypeOK
    /\ \A i \in 1..Len(reading) :
          /\ reading[i].word.pos = i
          /\ reading[i].word.set = reading[1].word.set
          /\ reading[i].word.range \in {reading[i].used, Off}

\* Nothing waits behind a line that is already high: on a bus that works, once
\* INT1 is high the application reads the FIFO or the line falls again, so
\* that there is another edge.
EdgeAnswered ==
    (bus = "sound" /\ exti /\ Int1 /\ mode # "off")
        ~> (~Int1 \/ op = "burst" \/ mode = "off")

============================================================================
