------------------------------ MODULE EvtPool ------------------------------
(***************************************************************************)
(* The pooled events of kernel/src/anbo_pool.c: the fixed-size block pool  *)
(* with its embedded free list, the event pointer queue, the reference     *)
(* count and the dispatch with automatic reclamation.                      *)
(*                                                                         *)
(* Execution contexts are numbered by preemption priority: 0 is the main   *)
(* loop, the others are interrupt levels.  A context runs only when every  *)
(* higher one has returned, and a critical section is one step.  What the  *)
(* code does outside a critical section is a step of its own: the fill of  *)
(* an allocated block, the store of the reference count in                 *)
(* Anbo_Pool_Dispatch, and the return of a block after Anbo_Pool_Release   *)
(* has dropped the last reference in an earlier critical section.          *)
(*                                                                         *)
(* The application is the discipline of anbo_pool.h: a publisher that is   *)
(* refused frees its event or tries again, a subscriber that retains an    *)
(* event in its callback releases it once, from any context.               *)
(***************************************************************************)
EXTENDS Integers, Sequences, FiniteSets

CONSTANTS
    Block,     \* ANBO_CONF_POOL_BLOCK_COUNT blocks
    NULL,      \* the null pointer
    Depth,     \* ANBO_CONF_EVTQ_DEPTH
    MaxCtx,    \* the highest interrupt level
    Sub,       \* subscribers that may retain an event
    RefMod,    \* the number of values of ref_count (2^8)
    LinkByte   \* the byte of a free-list link that overlays ref_count

ASSUME PoolAssumption ==
    /\ NULL \notin Block
    /\ IsFiniteSet(Block) /\ Block # {}
    /\ Depth \in Nat /\ Depth >= 2
    /\ MaxCtx \in Nat
    /\ IsFiniteSet(Sub)
    /\ RefMod \in Nat /\ Cardinality(Sub) + 1 < RefMod
    /\ LinkByte \in [Block \cup {NULL} -> 0..(RefMod - 1)]

Ctx == 0..MaxCtx
Main == 0

VARIABLES
    freeHead,   \* s_free_head
    link,       \* the next pointer of each block
    freeCount,  \* s_free_count
    ref,        \* the ref_count byte of each block
    evtq,       \* s_evtq
    qhead,      \* s_evtq_head
    qtail,      \* s_evtq_tail
    pc,         \* where each context is in a publisher or release call
    blk,        \* the block that call works on
    dpc,        \* where the main loop is in Anbo_Pool_Dispatch
    devt,       \* the event it dispatches
    held,       \* the subscribers that have retained each block
    chain       \* history: the free blocks in the order of the free list

poolVars == <<freeHead, link, freeCount, chain>>
queueVars == <<evtq, qhead, qtail>>
callVars == <<pc, blk>>
dispVars == <<dpc, devt>>
vars == <<poolVars, queueVars, callVars, dispVars, ref, held>>

----------------------------------------------------------------------------
TypeOK ==
    /\ freeHead \in Block \cup {NULL}
    /\ link \in [Block -> Block \cup {NULL}]
    /\ freeCount \in Nat
    /\ ref \in [Block -> 0..(RefMod - 1)]
    /\ evtq \in [0..(Depth - 1) -> Block \cup {NULL}]
    /\ qhead \in 0..(Depth - 1)
    /\ qtail \in 0..(Depth - 1)
    /\ pc \in [Ctx -> {"idle", "fill", "refused", "reclaim"}]
    /\ blk \in [Ctx -> Block \cup {NULL}]
    /\ dpc \in {"idle", "got", "publish"}
    /\ devt \in Block \cup {NULL}
    /\ held \in [Block -> SUBSET Sub]
    /\ chain \in Seq(Block)

\* Anbo_Pool_Init links the blocks in array order, whatever that order is;
\* the memory it has not written yet is arbitrary.
Init ==
    /\ chain \in {s \in [1..Cardinality(Block) -> Block] :
                     \A i, j \in DOMAIN s : s[i] = s[j] => i = j}
    /\ freeHead = chain[1]
    /\ freeCount = Cardinality(Block)
    /\ link \in [Block -> Block \cup {NULL}]
    /\ \A i \in DOMAIN chain :
          link[chain[i]] = IF i < Len(chain) THEN chain[i + 1] ELSE NULL
    /\ ref = [b \in Block |-> LinkByte[link[b]]]
    /\ evtq = [i \in 0..(Depth - 1) |-> NULL]
    /\ qhead = 0 /\ qtail = 0
    /\ pc = [c \in Ctx |-> "idle"] /\ blk = [c \in Ctx |-> NULL]
    /\ dpc = "idle" /\ devt = NULL
    /\ held = [b \in Block |-> {}]

----------------------------------------------------------------------------
\* Control

\* Every interrupt level above c has returned.
MayRun(c) == \A d \in Ctx : d > c => pc[d] = "idle"

\* c can start a call.  The main loop also calls from inside the subscriber
\* callbacks of a dispatch, but not between the steps of the dispatch itself.
MayCall(c) ==
    /\ MayRun(c)
    /\ pc[c] = "idle"
    /\ c = Main => dpc \in {"idle", "publish"}

Enter(c, step, b) ==
    /\ pc' = [pc EXCEPT ![c] = step]
    /\ blk' = [blk EXCEPT ![c] = b]

Return(c) == Enter(c, "idle", NULL)

----------------------------------------------------------------------------
\* Block pool

\* Anbo_Pool_Alloc: an exhausted pool returns NULL and changes nothing.
Alloc(c) ==
    /\ MayCall(c)
    /\ freeHead # NULL
    /\ freeHead' = link[freeHead]
    /\ freeCount' = freeCount - 1
    /\ chain' = Tail(chain)
    /\ Enter(c, "fill", freeHead)
    /\ UNCHANGED <<link, ref, queueVars, dispVars, held>>

\* Faulty: the list head moves before the link is taken from it.
PoolFree_HeadFirst(b) ==
    /\ link' = [link EXCEPT ![b] = b]
    /\ ref' = [ref EXCEPT ![b] = LinkByte[b]]
    /\ freeHead' = b
    /\ freeCount' = freeCount + 1
    /\ chain' = <<b>> \o chain

\* Anbo_Pool_Free: the link overwrites the first bytes of the event.
PoolFree(b) ==
    /\ link' = [link EXCEPT ![b] = freeHead]
    /\ ref' = [ref EXCEPT ![b] = LinkByte[freeHead]]
    /\ freeHead' = b
    /\ freeCount' = freeCount + 1
    /\ chain' = <<b>> \o chain

----------------------------------------------------------------------------
\* Event queue

\* Faulty: the index is not masked.
NextIndex_NoMask(i) == i + 1

NextIndex(i) == (i + 1) % Depth
QueueFull == NextIndex(qhead) = qtail
QueueEmpty == qhead = qtail

\* Faulty: the event is stored behind the new write index.
PostAccepted_AfterIndex(c) ==
    /\ MayRun(c)
    /\ pc[c] \in {"fill", "refused"}
    /\ ~QueueFull
    /\ evtq' = [evtq EXCEPT ![NextIndex(qhead)] = blk[c]]
    /\ qhead' = NextIndex(qhead)
    /\ Return(c)
    /\ UNCHANGED <<qtail, poolVars, ref, dispVars, held>>

\* Anbo_EvtQ_Post on the event the caller has filled, or posts once more.  A
\* refused event stays with the caller.
PostAccepted(c) ==
    /\ MayRun(c)
    /\ pc[c] \in {"fill", "refused"}
    /\ ~QueueFull
    /\ evtq' = [evtq EXCEPT ![qhead] = blk[c]]
    /\ qhead' = NextIndex(qhead)
    /\ Return(c)
    /\ UNCHANGED <<qtail, poolVars, ref, dispVars, held>>

PostRefused(c) ==
    /\ MayRun(c)
    /\ pc[c] = "fill"
    /\ QueueFull
    /\ Enter(c, "refused", blk[c])
    /\ UNCHANGED <<queueVars, poolVars, ref, dispVars, held>>

\* The refused caller gives its event up.
FreeRefused(c) ==
    /\ MayRun(c)
    /\ pc[c] = "refused"
    /\ PoolFree(blk[c])
    /\ Return(c)
    /\ UNCHANGED <<queueVars, dispVars, held>>

\* Anbo_EvtQ_Get in the main loop.
Get ==
    /\ MayCall(Main) /\ dpc = "idle"
    /\ ~QueueEmpty
    /\ devt' = evtq[qtail]
    /\ dpc' = "got"
    /\ qtail' = NextIndex(qtail)
    /\ UNCHANGED <<evtq, qhead, poolVars, ref, callVars, held>>

----------------------------------------------------------------------------
\* Dispatch, retain and release

\* Faulty: the framework takes no reference of its own.
BeginDispatch_NoReference ==
    /\ MayRun(Main)
    /\ dpc = "got"
    /\ dpc' = "publish"
    /\ UNCHANGED <<devt, ref, poolVars, queueVars, callVars, held>>

\* Anbo_Pool_Dispatch takes the framework's reference and starts to publish.
BeginDispatch ==
    /\ MayRun(Main)
    /\ dpc = "got"
    /\ ref' = [ref EXCEPT ![devt] = 1]
    /\ dpc' = "publish"
    /\ UNCHANGED <<devt, poolVars, queueVars, callVars, held>>

\* A subscriber callback retains the event it has been handed.
Retain(s) ==
    /\ MayCall(Main) /\ dpc = "publish"
    /\ s \notin held[devt]
    /\ ref' = [ref EXCEPT ![devt] = (@ + 1) % RefMod]
    /\ held' = [held EXCEPT ![devt] = @ \cup {s}]
    /\ UNCHANGED <<poolVars, queueVars, callVars, dispVars>>

\* Faulty: the block is returned while one reference is left.
Drop_Early(c, b) ==
    LET rc == IF ref[b] > 0 THEN ref[b] - 1 ELSE 0 IN
    /\ ref' = [ref EXCEPT ![b] = rc]
    /\ IF rc <= 1 THEN Enter(c, "reclaim", b) ELSE UNCHANGED callVars

\* Faulty: the count is tested before it is decremented.
Drop_TestFirst(c, b) ==
    LET rc == IF ref[b] > 0 THEN ref[b] - 1 ELSE 0 IN
    /\ ref' = [ref EXCEPT ![b] = rc]
    /\ IF ref[b] = 0 THEN Enter(c, "reclaim", b) ELSE UNCHANGED callVars

\* The critical section of Anbo_Pool_Release; the block is freed after it.
Drop(c, b) ==
    LET rc == IF ref[b] > 0 THEN ref[b] - 1 ELSE 0 IN
    /\ ref' = [ref EXCEPT ![b] = rc]
    /\ IF rc = 0 THEN Enter(c, "reclaim", b) ELSE UNCHANGED callVars

\* Anbo_EBus_Publish has returned: the framework's reference is dropped.
EndDispatch ==
    /\ MayCall(Main) /\ dpc = "publish"
    /\ Drop(Main, devt)
    /\ dpc' = "idle" /\ devt' = NULL
    /\ UNCHANGED <<poolVars, queueVars, held>>

\* A subscriber is done with an event it retained earlier.
Release(c, s, b) ==
    /\ MayCall(c)
    /\ s \in held[b]
    /\ held' = [held EXCEPT ![b] = @ \ {s}]
    /\ Drop(c, b)
    /\ UNCHANGED <<poolVars, queueVars, dispVars>>

\* Anbo_Pool_Release returns the block whose last reference it dropped.
Reclaim(c) ==
    /\ MayRun(c)
    /\ pc[c] = "reclaim"
    /\ PoolFree(blk[c])
    /\ Return(c)
    /\ UNCHANGED <<queueVars, dispVars, held>>

----------------------------------------------------------------------------
Publisher(c) == Alloc(c) \/ PostAccepted(c) \/ PostRefused(c) \/ FreeRefused(c)

Dispatcher == Get \/ BeginDispatch \/ EndDispatch

Next ==
    \/ \E c \in Ctx : Publisher(c) \/ Reclaim(c)
    \/ Dispatcher
    \/ \E s \in Sub : Retain(s)
    \/ \E c \in Ctx, s \in Sub, b \in Block : Release(c, s, b)

\* The next step of a context that is inside a call.
FinishCall(c) == PostAccepted(c) \/ PostRefused(c) \/ FreeRefused(c) \/ Reclaim(c)

\* A context that has entered a call finishes it, the main loop keeps polling
\* the queue, and whoever retained an event releases it.  Interrupts do not
\* take the whole processor, so what becomes possible again and again in the
\* main loop happens.
Fairness ==
    /\ \A c \in Ctx : SF_vars(FinishCall(c))
    /\ SF_vars(Dispatcher)
    /\ \A b \in Block : SF_vars(\E s \in Sub : Release(Main, s, b))

Spec == Init /\ [][Next]_vars
FairSpec == Spec /\ Fairness

----------------------------------------------------------------------------
\* Properties

Count == (qhead - qtail) % Depth
Contents == [i \in 1..Count |-> evtq[(qtail + i - 1) % Depth]]
Queued == {Contents[i] : i \in 1..Count}
FreeBlocks == {chain[i] : i \in 1..Len(chain)}

\* The block is in the hands of a caller, of the dispatcher or of subscribers.
InHands(b) ==
    \/ \E c \in Ctx : pc[c] # "idle" /\ blk[c] = b
    \/ dpc # "idle" /\ devt = b
    \/ held[b] # {}

\* Every block is in exactly one place: none is lost, none is handed to two
\* owners, whatever calls interrupt each other between critical sections.
OnePlace ==
    \A b \in Block :
        /\ b \in FreeBlocks \/ b \in Queued \/ InHands(b)
        /\ ~(b \in FreeBlocks /\ b \in Queued)
        /\ ~(b \in FreeBlocks /\ InHands(b))
        /\ ~(b \in Queued /\ InHands(b))

\* The free list is intact: following the links from s_free_head visits each
\* free block once and ends in NULL, and s_free_count is its length.
FreeListIntact ==
    /\ freeCount = Len(chain)
    /\ \A i, j \in 1..Len(chain) : chain[i] = chain[j] => i = j
    /\ freeHead = IF chain = << >> THEN NULL ELSE chain[1]
    /\ \A i \in 1..Len(chain) :
          link[chain[i]] = IF i < Len(chain) THEN chain[i + 1] ELSE NULL

\* The count of an event being published or held is exact, so the block goes
\* back precisely when the framework and every retaining subscriber let go.
RefCountExact ==
    \A b \in Block :
        (dpc = "publish" /\ devt = b) \/ held[b] # {} =>
            ref[b] = Cardinality(held[b]) + (IF dpc = "publish" /\ devt = b THEN 1 ELSE 0)

\* The pool implements the abstract ownership discipline and event queue.
Abstract == INSTANCE EventPool WITH
    Capacity <- Depth - 1, free <- FreeBlocks, q <- Contents
ImplementsEventPool == Abstract!PoolSpec

\* No leak: whatever is posted, refused, retained or dispatched, its block
\* comes back to the pool.
EveryBlockReturns == \A b \in Block : b \notin FreeBlocks ~> b \in FreeBlocks

----------------------------------------------------------------------------
\* The inductive invariant behind these properties.  It says of each possible
\* owner of a block where that block is not.

Busy(c) == pc[c] # "idle"
Elsewhere(b) == b \notin FreeBlocks /\ b \notin Queued

QueueInv ==
    /\ \A i \in 1..Count : Contents[i] \in Block
    /\ \A i, j \in 1..Count : Contents[i] = Contents[j] => i = j
    /\ FreeBlocks \cap Queued = {}

CallInv ==
    /\ \A c \in Ctx : Busy(c) =>
          /\ blk[c] \in Block /\ Elsewhere(blk[c])
          /\ held[blk[c]] = {}
    /\ \A c, d \in Ctx : Busy(c) /\ Busy(d) /\ blk[c] = blk[d] => c = d

DispatchInv ==
    dpc # "idle" =>
        /\ devt \in Block /\ Elsewhere(devt)
        /\ dpc = "got" => held[devt] = {}
        /\ \A c \in Ctx : Busy(c) => blk[c] # devt

HeldInv == \A b \in Block : held[b] # {} => Elsewhere(b)

NoneLost == \A b \in Block : b \in FreeBlocks \/ b \in Queued \/ InHands(b)

IInv ==
    /\ TypeOK /\ FreeListIntact /\ QueueInv /\ CallInv
    /\ DispatchInv /\ HeldInv /\ NoneLost /\ RefCountExact
=============================================================================
