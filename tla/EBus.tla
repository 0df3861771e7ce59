-------------------------------- MODULE EBus --------------------------------
(***************************************************************************)
(* The synchronous event bus of kernel/src/anbo_ebus.c: subscribers hang   *)
(* in hash buckets, and a publish calls the handlers of the signal one     *)
(* after another in the publisher's context.                               *)
(*                                                                         *)
(* ebus_dispatch leaves its critical section around every handler.  There  *)
(* the handler, and any interrupt, may subscribe, unsubscribe and publish  *)
(* again.  On one core these dispatches nest: stack holds the unfinished   *)
(* ones, and only the innermost one advances.  Of each, the code keeps the *)
(* signal and the node to visit next; must and got are history.            *)
(***************************************************************************)
EXTENDS IntrusiveList, SequencesExt

CONSTANTS
    Sub,         \* the subscriber descriptors
    Sig,         \* the signals in use
    Topics,      \* ANBO_CONF_EBUS_MAX_TOPICS
    Bucket,      \* s_buckets: the head of each bucket
    MaxNest,     \* bound: dispatches in progress at once
    MaxServed,   \* bound: handlers that a dispatch calls
    Disciplined  \* whether one may only unsubscribe as SafeToRemove says

ASSUME EBusAssumption ==
    /\ IsFiniteSet(Sub) /\ Sig \subseteq Nat
    /\ Topics \in Nat \ {0}
    /\ DOMAIN Bucket = 0..(Topics - 1)
    /\ \A i \in DOMAIN Bucket : Bucket[i] \notin Sub
    /\ \A i, j \in DOMAIN Bucket : Bucket[i] = Bucket[j] => i = j
    /\ MaxNest \in Nat /\ MaxServed \in Nat
    /\ Disciplined \in BOOLEAN

Heads == {Bucket[i] : i \in DOMAIN Bucket}
Node == Sub \cup Heads

VARIABLES
    list,   \* the links of the subscribers and of s_buckets
    sigOf,  \* the sig of each subscriber
    stack   \* the dispatches in progress, the innermost last

vars == <<list, sigOf, stack>>

\* A dispatch: the event's signal, the subscriber whose handler runs, and the
\* node after it that was saved when the handler was called.  must holds those
\* subscribed to the signal ever since the publish, got those called so far.
Frame == [sig : Sig, at : Node, next : Node, must : SUBSET Sub, got : Seq(Sub)]

TypeOK ==
    /\ list \in [next : [Node -> Node], prev : [Node -> Node]]
    /\ sigOf \in [Sub -> Sig]
    /\ stack \in Seq(Frame)
    /\ Len(stack) <= MaxNest

\* Anbo_EBus_Init; the descriptors have not been used yet.
Init ==
    /\ list = Detached(Node)
    /\ sigOf \in [Sub -> Sig]
    /\ stack = << >>

----------------------------------------------------------------------------
SigToIdx(g) == g % Topics
BucketOf(g) == Bucket[SigToIdx(g)]

Subscribed == {s \in Sub : list.next[s] # s}
Subscribers(g) == {s \in Subscribed : sigOf[s] = g}

\* No dispatch in progress has saved s as the node it goes on with.
SafeToRemove(s) == \A k \in 1..Len(stack) : stack[k].next # s

----------------------------------------------------------------------------
\* Faulty: a subscriber always goes to the first bucket.
Subscribe_WrongBucket(s, g) ==
    /\ s \notin Subscribed
    /\ sigOf' = [sigOf EXCEPT ![s] = g]
    /\ list' = InsertTail(list, Bucket[0], s)
    /\ stack' = [i \in 1..Len(stack) |->
                    [stack[i] EXCEPT !.got = RemoveFirst(@, s)]]

\* Anbo_EBus_Subscribe: the same descriptor is never subscribed twice.
Subscribe(s, g) ==
    /\ s \notin Subscribed
    /\ sigOf' = [sigOf EXCEPT ![s] = g]
    /\ list' = InsertTail(list, BucketOf(g), s)
    /\ stack' = [i \in 1..Len(stack) |->
                    [stack[i] EXCEPT !.got = RemoveFirst(@, s)]]

\* Anbo_EBus_Unsubscribe
Unsubscribe(s) ==
    /\ s \in Subscribed
    /\ Disciplined => SafeToRemove(s)
    /\ list' = Unlink(list, s)
    /\ stack' = [i \in 1..Len(stack) |-> [stack[i] EXCEPT !.must = @ \ {s}]]
    /\ UNCHANGED sigOf

\* Faulty: the loop calls everyone in the bucket.
Matches_Bucket(g, p) ==
    LET f == Following(list, BucketOf(g), p) IN {i \in 1..Len(f) : f[i] \in Sub}

\* The positions, from node p on, of the subscribers the loop calls.  A walk that
\* has been led into another bucket also reads the head there as a subscriber,
\* which is left out.
Matches(g, p) ==
    LET f == Following(list, BucketOf(g), p)
    IN  {i \in 1..Len(f) : f[i] \in Sub /\ sigOf[f[i]] = g}

\* From p on the loop comes to the head of the bucket.  It does not when p has
\* left the bucket: the loop turns for ever, in its critical section if there is
\* nobody to call.
Ends(g, p) == Len(Following(list, BucketOf(g), p)) < Cardinality(Node)

\* The next subscriber to call from p on.  The nodes passed over are skipped
\* in one critical section.
NextCall(g, p) ==
    LET m == Matches(g, p) IN
    Following(list, BucketOf(g), p)[CHOOSE i \in m : \A j \in m : i <= j]

\* Anbo_EBus_Publish, PublishSilent, PublishSig and PublishSigSilent: the
\* first handler is called, if the signal has one.
Publish(g) ==
    LET p == list.next[BucketOf(g)]
        s == NextCall(g, p)
    IN
    /\ Len(stack) < MaxNest
    /\ Matches(g, p) # {}
    /\ stack' = Append(stack, [sig |-> g, at |-> s, next |-> list.next[s],
                               must |-> Subscribers(g), got |-> <<s>>])
    /\ UNCHANGED <<list, sigOf>>

Top == Last(stack)

\* Faulty: the loop goes on from the node whose handler has returned.
CallNext_FromCurrent ==
    /\ stack # << >>
    /\ Len(Top.got) < MaxServed
    /\ Matches(Top.sig, list.next[Top.at]) # {}
    /\ LET s == NextCall(Top.sig, list.next[Top.at]) IN
       stack' = [stack EXCEPT ![Len(stack)].at = s,
                              ![Len(stack)].next = list.next[s],
                              ![Len(stack)].got = Append(@, s)]
    /\ UNCHANGED <<list, sigOf>>

\* A handler returns and the loop calls the next one ...
CallNext ==
    /\ stack # << >>
    /\ Len(Top.got) < MaxServed
    /\ Matches(Top.sig, Top.next) # {}
    /\ LET s == NextCall(Top.sig, Top.next) IN
       stack' = [stack EXCEPT ![Len(stack)].at = s,
                              ![Len(stack)].next = list.next[s],
                              ![Len(stack)].got = Append(@, s)]
    /\ UNCHANGED <<list, sigOf>>

\* Faulty: the loop stops at the first subscriber of another signal.
EndPublish_AtOther ==
    /\ stack # << >>
    /\ Top.next \in Sub => sigOf[Top.next] # Top.sig
    /\ stack' = Front(stack)
    /\ UNCHANGED <<list, sigOf>>

\* ... or has reached the head of the bucket.
EndPublish ==
    /\ stack # << >>
    /\ Matches(Top.sig, Top.next) = {}
    /\ Ends(Top.sig, Top.next)
    /\ stack' = Front(stack)
    /\ UNCHANGED <<list, sigOf>>

----------------------------------------------------------------------------
Next ==
    \/ \E s \in Sub, g \in Sig : Subscribe(s, g)
    \/ \E s \in Sub : Unsubscribe(s)
    \/ \E g \in Sig : Publish(g)
    \/ CallNext
    \/ EndPublish

Spec == Init /\ [][Next]_vars

----------------------------------------------------------------------------
\* Properties

\* Every subscribed descriptor is in the bucket of its signal and in no other,
\* and the links agree in both directions, whatever handlers and interrupts
\* change during a dispatch.
BucketsSound ==
    /\ TypeOK
    /\ Coherent(list)
    /\ \A i \in DOMAIN Bucket :
          Members(list, Bucket[i]) = {s \in Subscribed : SigToIdx(sigOf[s]) = i}

\* A dispatch ends only after it has called everybody who was subscribed to
\* the signal from the publish on.
EveryoneServed ==
    [][EndPublish => \A s \in Top.must : Contains(Top.got, s)]_vars

\* Whatever is unsubscribed during a dispatch, the loop calls the handler of a
\* subscriber of the event's signal, or that of the one node it had saved when
\* this was removed.
OnlySubscribersCalled ==
    [][CallNext => LET s == stack'[Len(stack)].at IN
                   \/ s \in Subscribers(Top.sig)
                   \/ s = Top.next /\ s \notin Subscribed]_vars

\* The handler that a dispatch calls next is that of a subscriber who has not
\* been unsubscribed.
RemovedNotCalled ==
    stack # << >> /\ Matches(Top.sig, Top.next) # {} =>
        NextCall(Top.sig, Top.next) \in Subscribed

\* Every dispatch in progress can come to the end of its bucket.
WalksEnd == \A k \in 1..Len(stack) : Ends(stack[k].sig, stack[k].next)

\* A dispatch calls its subscribers in the order of their subscription, and
\* nobody twice who has not subscribed again.
ServedInOrder ==
    \A k \in 1..Len(stack) :
        LET c == Chain(list, BucketOf(stack[k].sig))
            g == stack[k].got
        IN  \A i, j \in 1..Len(g) : i < j =>
                /\ g[i] # g[j]
                /\ \A m, n \in 1..Len(c) : c[m] = g[i] /\ c[n] = g[j] => m < n
=============================================================================
