------------------------------- MODULE Timer -------------------------------
(***************************************************************************)
(* The software timers of kernel/src/anbo_timer.c in hard-timer mode, as   *)
(* the STM32L4S5 port drives them: SysTick_Handler advances the tick and   *)
(* runs Anbo_Timer_Update, and Anbo_Arch_Idle advances it by the time      *)
(* spent in Stop 2.                                                        *)
(*                                                                         *)
(* Anbo_Timer_Update leaves its critical section around every callback.    *)
(* There, the callback and any interrupt of a higher priority than SysTick *)
(* may call the whole API, while the update keeps the next node to visit   *)
(* in a local variable.  Everything else is under a critical section and   *)
(* is one step.                                                            *)
(*                                                                         *)
(* Ticks and deadlines wrap at Wrap (2^32 in the code) and are compared by *)
(* their signed difference.                                                *)
(***************************************************************************)
EXTENDS IntrusiveList, Integers

CONSTANTS
    Timer,       \* the timer descriptors
    Sentinel,    \* s_active_list
    Wrap,        \* the number of values of a tick
    MaxPeriod,   \* bound: the longest period
    Setting,     \* the modes and periods a descriptor may be given
    MaxSleep,    \* bound: the longest time that passes without SysTick
    WfiMax,      \* Anbo_Arch_Idle only waits for an interrupt up to here
    Disciplined  \* whether callbacks leave other running timers alone

\* No deadline is ever half a wrap away from another one.  A period of zero is
\* left out: Anbo_Timer_Update does not return from two such periodic timers.
ASSUME TimerAssumption ==
    /\ Sentinel \notin Timer
    /\ IsFiniteSet(Timer)
    /\ MaxPeriod \in Nat \ {0}
    /\ Setting # {} /\ Setting \subseteq {"oneshot", "periodic"} \X (1..MaxPeriod)
    /\ MaxSleep \in Nat \ {0}
    /\ WfiMax \in Nat
    /\ Wrap \in Nat /\ 2 * (MaxPeriod + 2 * MaxSleep) < Wrap
    /\ Disciplined \in BOOLEAN

Node == Timer \cup {Sentinel}
Period == 1..MaxPeriod
Mode == {"oneshot", "periodic"}

VARIABLES
    list,      \* the links of the timers and of s_active_list
    deadline,  \* of each timer
    period,
    mode,
    running,   \* the timers whose state is ANBO_TIMER_RUNNING
    tick,      \* s_tick_ms
    upc,       \* where Anbo_Timer_Update is, or that a deep sleep has ended
    cur,       \* the timer whose callback runs
    saved      \* the node the update visits next

setup == <<period, mode>>
walk == <<upc, cur, saved>>
vars == <<list, deadline, running, tick, setup, walk>>

TypeOK ==
    /\ list \in [next : [Node -> Node], prev : [Node -> Node]]
    /\ deadline \in [Timer -> 0..(Wrap - 1)]
    /\ period \in [Timer -> Period]
    /\ mode \in [Timer -> Mode]
    /\ running \subseteq Timer
    /\ tick \in 0..(Wrap - 1)
    /\ upc \in {"idle", "enter", "callback", "woken"}
    /\ cur \in Node
    /\ saved \in Node

\* Anbo_Timer_Init, and Anbo_Timer_Create on every descriptor.
Init ==
    /\ list = Detached(Node)
    /\ deadline = [t \in Timer |-> 0]
    /\ \E s \in [Timer -> Setting] :
          /\ mode = [t \in Timer |-> s[t][1]]
          /\ period = [t \in Timer |-> s[t][2]]
    /\ running = {}
    /\ tick = 0
    /\ upc = "idle" /\ cur = Sentinel /\ saved = Sentinel

----------------------------------------------------------------------------
After(a, ms) == (a + ms) % Wrap

\* Faulty: wrapping values are compared as plain numbers.
Diff_Plain(a, b) == a - b

\* time_diff: the signed value of a - b.
Diff(a, b) ==
    LET d == (a - b) % Wrap IN IF 2 * d >= Wrap THEN d - Wrap ELSE d

\* Faulty: a new timer goes to the end of the list.
InsertSorted_AtTail(l, dl, t) == InsertTail(l, Sentinel, t)

\* timer_insert_sorted: before the first timer that expires later.
InsertSorted(l, dl, t) ==
    LET c == Chain(l, Sentinel)
        later == {i \in 1..Len(c) : Diff(dl[c[i]], dl[t]) > 0}
        p == IF later = {} THEN Sentinel
             ELSE c[CHOOSE i \in later : \A j \in later : i <= j]
    IN  InsertBetween(l, t, l.prev[p], p)

\* The code that may change t now.
MayTouch(t) ==
    ~Disciplined \/ upc # "callback" \/ t = cur \/ t \notin running

----------------------------------------------------------------------------
\* The API, called by the main loop, a callback or an interrupt handler

Create(t, m, p) ==
    /\ t \notin running /\ <<m, p>> \in Setting
    /\ list' = [next |-> [list.next EXCEPT ![t] = t], prev |-> [list.prev EXCEPT ![t] = t]]
    /\ deadline' = [deadline EXCEPT ![t] = 0]
    /\ period' = [period EXCEPT ![t] = p]
    /\ mode' = [mode EXCEPT ![t] = m]
    /\ UNCHANGED <<running, tick, walk>>

\* Anbo_Timer_Start, or restart.
Start(t) ==
    /\ MayTouch(t)
    /\ deadline' = [deadline EXCEPT ![t] = After(tick, period[t])]
    /\ running' = running \cup {t}
    /\ list' = InsertSorted(IF t \in running THEN Unlink(list, t) ELSE list, deadline', t)
    /\ UNCHANGED <<tick, setup, walk>>

\* Anbo_Timer_Stop, on a timer that runs.
Stop(t) ==
    /\ MayTouch(t)
    /\ t \in running
    /\ list' = Unlink(list, t)
    /\ running' = running \ {t}
    /\ UNCHANGED <<deadline, tick, setup, walk>>

SetPeriod(t, p) ==
    /\ <<mode[t], p>> \in Setting
    /\ period' = [period EXCEPT ![t] = p]
    /\ UNCHANGED <<list, deadline, running, tick, mode, walk>>

MsToNext(now) ==
    LET ms == Diff(deadline[list.next[Sentinel]], now)
    IN  IF IsEmptyList(list, Sentinel) THEN Wrap - 1 ELSE IF ms > 0 THEN ms ELSE 0

----------------------------------------------------------------------------
\* SysTick_Handler and Anbo_Timer_Update

SysTick ==
    /\ upc = "idle"
    /\ tick' = After(tick, 1)
    /\ upc' = "enter"
    /\ UNCHANGED <<list, deadline, running, setup, cur, saved>>

\* The node the loop of the update looks at next.
Position == IF upc = "enter" THEN list.next[Sentinel] ELSE saved

\* Faulty: a timer is due a tick after its deadline.
Due_Late(t) == Diff(deadline[t], tick) < 0

\* Faulty: a timer is due a tick before its deadline.
Due_Early(t) == Diff(deadline[t], tick) <= 1

Due(t) == Diff(deadline[t], tick) <= 0

\* Faulty: a periodic timer is put back with the deadline it had.
FireNext_SameDeadline ==
    /\ upc \in {"enter", "callback"}
    /\ Position # Sentinel
    /\ Due(Position)
    /\ saved' = list.next[Position] /\ cur' = Position /\ upc' = "callback"
    /\ IF mode[Position] = "periodic"
       THEN /\ list' = InsertSorted(Unlink(list, Position), deadline, Position)
            /\ running' = running \cup {Position}
       ELSE /\ list' = Unlink(list, Position)
            /\ running' = running \ {Position}
    /\ UNCHANGED <<deadline, tick, setup>>

\* An expired timer leaves the list, a periodic one returns with its next
\* deadline, and its callback starts.
FireNext ==
    /\ upc \in {"enter", "callback"}
    /\ Position # Sentinel
    /\ Due(Position)
    /\ saved' = list.next[Position] /\ cur' = Position /\ upc' = "callback"
    /\ IF mode[Position] = "periodic"
       THEN /\ deadline' = [deadline EXCEPT ![Position] = After(tick, period[Position])]
            /\ list' = InsertSorted(Unlink(list, Position), deadline', Position)
            /\ running' = running \cup {Position}
       ELSE /\ list' = Unlink(list, Position)
            /\ running' = running \ {Position}
            /\ UNCHANGED deadline
    /\ UNCHANGED <<tick, setup>>

\* The head has come round, or the rest of the list expires later.
EndUpdate ==
    /\ upc \in {"enter", "callback"}
    /\ Position # Sentinel => ~Due(Position)
    /\ upc' = "idle" /\ cur' = Sentinel /\ saved' = Sentinel
    /\ UNCHANGED <<list, deadline, running, tick, setup>>

Update == FireNext \/ EndUpdate

----------------------------------------------------------------------------
\* Sleep

\* Anbo_Arch_Idle(Anbo_Timer_MsToNext()) in Stop 2, from which any interrupt
\* may wake the processor; the elapsed time is added to the tick.
Idle(elapsed) ==
    /\ upc = "idle"
    /\ MsToNext(tick) > WfiMax
    /\ tick' = After(tick, elapsed)
    /\ UNCHANGED <<list, deadline, running, setup, walk>>

\* A deep sleep of the application, with SysTick suspended until
\* Anbo_Timer_CompensateAll has been called.
DeepSleep(elapsed) ==
    /\ upc = "idle"
    /\ tick' = After(tick, elapsed)
    /\ upc' = "woken"
    /\ UNCHANGED <<list, deadline, running, setup, cur, saved>>

\* The deadline of an expired timer moves forward.
Snapped(t) ==
    IF ~Due(t) THEN deadline[t]
    ELSE IF mode[t] = "periodic" THEN After(tick, period[t]) ELSE After(tick, 1)

\* The timers of a sequence, inserted one after another.
InsertAll(l, dl, c) ==
    LET ins[i \in 0..Len(c)] == IF i = 0 THEN l ELSE InsertSorted(ins[i - 1], dl, c[i])
    IN  ins[Len(c)]

\* Anbo_Timer_CompensateAll: the deadlines are moved, the list is sorted anew.
CompensateAll ==
    /\ upc = "woken"
    /\ deadline' = [t \in Timer |-> IF t \in Members(list, Sentinel) THEN Snapped(t) ELSE deadline[t]]
    /\ list' = InsertAll(Detached(Node), deadline', Chain(list, Sentinel))
    /\ upc' = "idle"
    /\ UNCHANGED <<running, tick, setup, cur, saved>>

----------------------------------------------------------------------------
Call(t) ==
    \/ Start(t)
    \/ Stop(t)
    \/ \E p \in Period : SetPeriod(t, p) \/ \E m \in Mode : Create(t, m, p)

Next ==
    \/ \E t \in Timer : Call(t)
    \/ SysTick
    \/ Update
    \/ \E n \in 0..MaxSleep : Idle(n) \/ DeepSleep(n)
    \/ CompensateAll

Spec == Init /\ [][Next]_vars

----------------------------------------------------------------------------
\* Properties

\* How long each running timer has left.
Left == [t \in Timer |-> IF t \in running THEN Diff(deadline[t], tick) ELSE 0]

\* The active list holds exactly the running timers, its links agree in both
\* directions, every other timer is linked to itself, and the list is in the
\* order of expiry across the wrap of the tick, whatever callbacks and
\* interrupts call during an update.
ActiveListSound ==
    LET c == Chain(list, Sentinel) IN
    /\ TypeOK
    /\ Coherent(list)
    /\ Members(list, Sentinel) = running
    /\ \A t \in Timer \ running : list.next[t] = t
    /\ \A i, j \in 1..Len(c) : i < j => Left[c[i]] <= Left[c[j]]

\* The sleep the main loop is told it can take ends exactly when the first
\* timer expires.
MsToNextExact ==
    running # {} =>
        \E t \in running :
            /\ \A u \in running : Left[t] <= Left[u]
            /\ MsToNext(tick) = IF Left[t] > 0 THEN Left[t] ELSE 0

\* When Anbo_Timer_Update returns, every timer that was due has fired.
NoneLeftDue ==
    [][EndUpdate => \A t \in running : Left[t] > 0]_vars

\* The wrapping tick and deadlines implement timers in unbounded time: a
\* callback starts only for a running timer whose time has passed, the earliest
\* first, the update returns only when nobody is due, and after a deep sleep a
\* late timer catches up without a burst.
Abstract == INSTANCE TimerService WITH
    armed <- running, left <- Left, Nobody <- Sentinel,
    calling <- IF upc = "callback" THEN cur ELSE Sentinel
ImplementsTimerService == Abstract!TimerSpec

\* A timer that has been stopped does not fire: the update is never at a node
\* that is due and no longer in the active list.
OnlyRunningFire ==
    upc \in {"enter", "callback"} /\ Position # Sentinel /\ Due(Position) =>
        Position \in running

\* The running timers that have expired.
DueTimers == {t \in running : Left[t] <= 0}

\* Anbo_Timer_Update returns, so SysTick does not keep the main loop out:
\* every callback it starts leaves fewer timers due, and no callback or
\* interrupt makes another one due meanwhile.
UpdateAdvances ==
    [][upc = "enter" \/ upc = "callback" =>
          /\ DueTimers' \subseteq DueTimers
          /\ FireNext => DueTimers' # DueTimers]_vars
=============================================================================
