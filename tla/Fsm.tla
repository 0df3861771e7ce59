-------------------------------- MODULE Fsm --------------------------------
(***************************************************************************)
(* The state machine engine of kernel/src/anbo_fsm.c on the event bus of   *)
(* EBus: one machine, whose subscriber nodes are among those of the bus.   *)
(*                                                                         *)
(* The engine has no critical section.  Its calls run the callbacks of     *)
(* the states, and callbacks and interrupts call the engine and the bus    *)
(* again.  Every state has all its callbacks, and the machine an initial   *)
(* state.  calls holds what the engine's unfinished calls have still to    *)
(* do, the innermost last; the level of each is the number of bus          *)
(* dispatches in progress when it began, so that the two stacks together   *)
(* tell what runs: only the innermost activity of both goes on.            *)
(***************************************************************************)
EXTENDS EBus

CONSTANTS
    State,     \* the states of the machine
    FsmSub,    \* subs: the machine's subscriber nodes, FsmSub[1] first
    Atomic,    \* whether interrupts leave the machine alone in the midst of its calls,
               \* as MayDrive and MaySubscribe say
    MaxCalls   \* bound: fewer calls are in progress when one begins, but for those
               \* the bus makes and what they lead to, MaxNest more

ASSUME FsmAssumption ==
    /\ State # {}
    /\ IsInjective(FsmSub) /\ FsmSub \in Seq(Sub)
    /\ MaxCalls \in Nat \ {0} /\ Atomic \in BOOLEAN
    /\ 0 \in Sig

VARIABLES
    current,   \* current
    subCount,  \* sub_count
    calls,     \* the calls of the engine in progress, the innermost last
    mark       \* history: the states whose on_entry and on_exit were called last

fsmVars == <<current, subCount, calls, mark>>
allVars == <<vars, fsmVars>>

MaxSubs == Len(FsmSub)
FsmNodes == Range(FsmSub)

\* Only a transfer has a target, and no state has been left at first.
NoState == "none"

\* What a call has still to do:
\*   event   the on_event callback of the state runs
\*   exit    Transfer to the state runs on_exit of the current one,
\*   enter   has assigned current,
\*   entry   runs on_entry
\*   count   Subscribe has registered a node and not counted it
\*   drop    UnsubscribeAll is at node i
Call == [what : {"event", "exit", "enter", "entry", "count", "drop"},
         state : State \cup {NoState}, i : 1..(MaxSubs + 1), level : 0..MaxNest]

\* Anbo_FSM_Init clears the nodes and enters the initial state, whose on_entry runs.
FsmInit ==
    /\ Init
    /\ \A s \in Sub : sigOf[s] = 0
    /\ current \in State
    /\ subCount = 0
    /\ calls = <<[what |-> "entry", state |-> current, i |-> 1, level |-> 0]>>
    /\ mark = [entered |-> current, left |-> NoState]

----------------------------------------------------------------------------
\* The call that runs, if no bus dispatch has been started above it.
Running(what) ==
    /\ calls # << >>
    /\ Last(calls).what \in what
    /\ Last(calls).level = Len(stack)

\* The innermost dispatch of the bus runs, no call of the engine above it.
BusRuns == calls # << >> => Last(calls).level < Len(stack)

Push(what, s, i) ==
    /\ Len(calls) < IF what \in {"exit", "drop"} THEN MaxCalls + MaxNest ELSE MaxCalls
    /\ calls' = Append(calls, [what |-> what, state |-> s, i |-> i, level |-> Len(stack)])

Become(what) == calls' = [calls EXCEPT ![Len(calls)].what = what]

\* A transfer has assigned current and not called on_entry yet.
InWindow == \E i \in 1..Len(calls) : calls[i].what = "enter"

\* Subscriptions of the machine are being changed.
Subscribing == \E i \in 1..Len(calls) : calls[i].what \in {"count", "drop"}

\* Nothing drives the machine in that window, where it does not subscribe either,
\* and its subscriptions are changed by one call at a time.
MayDrive == Atomic => ~InWindow

MaySubscribe == Atomic => ~Subscribing /\ ~InWindow

----------------------------------------------------------------------------
\* The bus

\* fsm_ebus_handler, for the subscriber a dispatch has come to: on_event of the
\* current state is called.
Handler ==
    IF stack'[Len(stack')].at \in FsmNodes
    THEN calls' = Append(calls, [what |-> "event", state |-> NoState, i |-> 1,
                                 level |-> Len(stack')])
    ELSE UNCHANGED calls

PublishAny(g) ==
    /\ Subscribers(g) \cap FsmNodes # {} => MayDrive
    /\ Publish(g)
    /\ Handler
    /\ UNCHANGED <<current, subCount, mark>>

BusNext ==
    /\ BusRuns
    /\ CallNext
    /\ Handler
    /\ UNCHANGED <<current, subCount, mark>>

BusEnd == BusRuns /\ EndPublish /\ UNCHANGED fsmVars

\* The subscribers that are not the machine's come and go.
OtherSubscribe(s, g) == s \notin FsmNodes /\ Subscribe(s, g) /\ UNCHANGED fsmVars
OtherUnsubscribe(s) == s \notin FsmNodes /\ Unsubscribe(s) /\ UNCHANGED fsmVars

----------------------------------------------------------------------------
\* The engine

\* Anbo_FSM_Dispatch, from an interrupt or from another module.
Dispatch ==
    /\ MayDrive
    /\ Push("event", NoState, 1)
    /\ UNCHANGED <<vars, current, subCount, mark>>

EventReturns ==
    /\ Running({"event"})
    /\ calls' = Front(calls)
    /\ UNCHANGED <<vars, current, subCount, mark>>

\* Faulty: current is assigned before on_exit is called.
Transfer_SwitchFirst(t) ==
    /\ Running({"event", "entry"})
    /\ Push("exit", t, 1)
    /\ current' = t
    /\ mark' = [mark EXCEPT !.left = current]
    /\ UNCHANGED <<vars, subCount>>

\* Anbo_FSM_Transfer from on_event or on_entry: on_exit of the current state;
Transfer(t) ==
    /\ Running({"event", "entry"})
    /\ Push("exit", t, 1)
    /\ mark' = [mark EXCEPT !.left = current]
    /\ UNCHANGED <<vars, current, subCount>>

\* when it has returned, current = target,
Switch ==
    /\ Running({"exit"})
    /\ current' = Last(calls).state
    /\ Become("enter")
    /\ UNCHANGED <<vars, subCount, mark>>

\* and on_entry of the target is called.
CallEntry ==
    /\ Running({"enter"})
    /\ Become("entry")
    /\ mark' = [mark EXCEPT !.entered = Last(calls).state]
    /\ UNCHANGED <<vars, current, subCount>>

EntryReturns ==
    /\ Running({"entry"})
    /\ calls' = Front(calls)
    /\ UNCHANGED <<vars, current, subCount, mark>>

\* Anbo_FSM_Subscribe: the node is registered, then counted.  The pool of nodes
\* may be full.
FsmSubscribe(g) ==
    /\ MaySubscribe
    /\ subCount < MaxSubs
    /\ Subscribe(FsmSub[subCount + 1], g)
    /\ Push("count", NoState, 1)
    /\ UNCHANGED <<current, subCount, mark>>

CountNode ==
    /\ Running({"count"})
    /\ subCount' = subCount + 1
    /\ calls' = Front(calls)
    /\ UNCHANGED <<vars, current, mark>>

\* No dispatch in progress goes on with a node of the machine.
SafeToRemoveAll == \A i \in 1..subCount : SafeToRemove(FsmSub[i])

\* Anbo_FSM_UnsubscribeAll: one node after another,
UnsubscribeAll ==
    /\ Atomic => ~Subscribing
    /\ Disciplined => SafeToRemoveAll
    /\ Push("drop", NoState, 1)
    /\ UNCHANGED <<vars, current, subCount, mark>>

\* Anbo_EBus_Unsubscribe of a node, which does nothing to one that is in no list.
Drop(s) == IF s \in Subscribed THEN Unsubscribe(s) ELSE UNCHANGED vars

\* Faulty: the last node in use is left out.
DropNode_ButLast ==
    /\ Running({"drop"})
    /\ LET i == Last(calls).i IN
       IF i < subCount
       THEN /\ Drop(FsmSub[i])
            /\ calls' = [calls EXCEPT ![Len(calls)].i = i + 1]
            /\ UNCHANGED subCount
       ELSE /\ calls' = Front(calls)
            /\ subCount' = 0
            /\ UNCHANGED vars
    /\ UNCHANGED <<current, mark>>

DropNode ==
    /\ Running({"drop"})
    /\ LET i == Last(calls).i IN
       IF i <= subCount
       THEN /\ Drop(FsmSub[i])
            /\ calls' = [calls EXCEPT ![Len(calls)].i = i + 1]
            /\ UNCHANGED subCount
       ELSE /\ calls' = Front(calls)
            /\ subCount' = 0
            /\ UNCHANGED vars
    /\ UNCHANGED <<current, mark>>

----------------------------------------------------------------------------
FsmNext ==
    \/ \E g \in Sig : PublishAny(g) \/ FsmSubscribe(g)
    \/ BusNext
    \/ BusEnd
    \/ \E s \in Sub, g \in Sig : OtherSubscribe(s, g)
    \/ \E s \in Sub : OtherUnsubscribe(s)
    \/ Dispatch
    \/ EventReturns
    \/ \E t \in State : Transfer(t)
    \/ Switch
    \/ CallEntry
    \/ EntryReturns
    \/ CountNode
    \/ UnsubscribeAll
    \/ DropNode

FsmSpec == FsmInit /\ [][FsmNext]_allVars

----------------------------------------------------------------------------
\* Properties

\* A node of the machine is on the bus if it is counted and no UnsubscribeAll has
\* removed it yet, or is the one that Subscribe is about to count: none is
\* forgotten on the bus, and none handed out again while it is in use.
NodesCounted ==
    /\ TypeOK
    /\ current \in State /\ subCount \in 0..MaxSubs
    /\ calls \in Seq(Call) /\ Len(calls) <= MaxCalls + 2 * MaxNest
    /\ mark \in [entered : State, left : State \cup {NoState}]
    /\ \A k \in 1..MaxSubs :
          FsmSub[k] \in Subscribed <=>
              \/ /\ k <= subCount
                 /\ \A i \in 1..Len(calls) : calls[i].what = "drop" => calls[i].i <= k
              \/ /\ k = subCount + 1
                 /\ \E i \in 1..Len(calls) : calls[i].what = "count"

\* The current state is the one entered last, but for the moment in a transfer
\* between the assignment of current and the call of on_entry, although callbacks
\* and interrupts publish, dispatch and transfer again inside each other, inside
\* on_exit too.
EnteredIsCurrent == ~InWindow => mark.entered = current

\* When a transfer switches, on_exit of the state it replaces is the one called last.
OldStateWasLeft == Running({"exit"}) => mark.left = current

\* The bus calls the machine only for a node it has subscribed, and on_event
\* only of the state it has entered last: UnsubscribeAll, from a callback of the
\* machine or elsewhere, leaves no dispatch behind that comes to a removed node.
OnlyLiveStateCalled ==
    [][BusNext => LET s == stack'[Len(stack)].at IN
                  /\ s \in Subscribers(Top.sig)
                  /\ s \in FsmNodes => mark.entered = current]_allVars
=============================================================================
