---------------------------- MODULE TimerService ----------------------------
(***************************************************************************)
(* What the software timers promise, in unbounded time.  An armed timer    *)
(* has some milliseconds left, which fall below zero when it is late.      *)
(* What a user of the timers sees is whose callback runs: a callback       *)
(* starts only for an armed timer with nothing left, never before that of  *)
(* a timer that expires earlier, and they end when nobody is due.          *)
(***************************************************************************)
EXTENDS Integers

CONSTANTS Timer, Nobody, MaxSleep

VARIABLES armed, left, period, mode, calling

timerVars == <<armed, left, period, mode, calling>>

TimerInit ==
    /\ armed = {}
    /\ left = [t \in Timer |-> 0]
    /\ period \in [Timer -> Nat]
    /\ mode \in [Timer -> {"oneshot", "periodic"}]
    /\ calling = Nobody

Define(t) ==
    /\ t \notin armed
    /\ \E m \in {"oneshot", "periodic"} : mode' = [mode EXCEPT ![t] = m]
    /\ period'[t] \in Nat
    /\ period' = [period EXCEPT ![t] = period'[t]]
    /\ UNCHANGED <<armed, left, calling>>

Retune(t) ==
    /\ period'[t] \in Nat
    /\ period' = [period EXCEPT ![t] = period'[t]]
    /\ UNCHANGED <<armed, left, mode, calling>>

Arm(t) ==
    /\ armed' = armed \cup {t}
    /\ left' = [left EXCEPT ![t] = period[t]]
    /\ UNCHANGED <<period, mode, calling>>

Disarm(t) ==
    /\ armed' = armed \ {t}
    /\ left' = [left EXCEPT ![t] = 0]
    /\ UNCHANGED <<period, mode, calling>>

\* The time of the timers stands still while their callbacks run.
Pass(n) ==
    /\ calling = Nobody
    /\ left' = [t \in Timer |-> IF t \in armed THEN left[t] - n ELSE 0]
    /\ UNCHANGED <<armed, period, mode, calling>>

\* The only step in which the callback of t starts.
Fire(t) ==
    /\ t \in armed
    /\ left[t] <= 0
    /\ \A u \in armed : left[t] <= left[u]
    /\ IF mode[t] = "periodic"
       THEN armed' = armed /\ left' = [left EXCEPT ![t] = period[t]]
       ELSE armed' = armed \ {t} /\ left' = [left EXCEPT ![t] = 0]
    /\ calling' = t
    /\ UNCHANGED <<period, mode>>

\* The last callback ends, and every timer that was due has fired.
Quiesce ==
    /\ \A t \in armed : left[t] > 0
    /\ calling' = Nobody
    /\ UNCHANGED <<armed, left, period, mode>>

\* After a long sleep no timer is late: a periodic one skips the periods it
\* missed, a one-shot one fires at the next tick.
CatchUp ==
    /\ calling = Nobody
    /\ left' = [t \in Timer |->
                  IF t \notin armed \/ left[t] > 0 THEN left[t]
                  ELSE IF mode[t] = "periodic" THEN period[t] ELSE 1]
    /\ UNCHANGED <<armed, period, mode, calling>>

TimerNext ==
    \/ \E t \in Timer : Define(t) \/ Retune(t) \/ Arm(t) \/ Disarm(t) \/ Fire(t)
    \/ \E n \in 0..MaxSleep : Pass(n)
    \/ Quiesce
    \/ CatchUp

TimerSpec == TimerInit /\ [][TimerNext]_timerVars
=============================================================================
