----------------------------- MODULE RingBuffer -----------------------------
(***************************************************************************)
(* The static ring buffer of kernel/src/anbo_rb.c, step by step.           *)
(*                                                                         *)
(* One producer context and one consumer context (an interrupt handler and *)
(* the main loop, in either role) share buf, head and tail without a lock. *)
(* Every access to memory the other side can see is a step of its own: the *)
(* opening check of a call, the store or load of one byte, the advance of  *)
(* an index.  head and tail are free-running unsigned integers that wrap   *)
(* at Modulus (2^32 in the code).  A check reads the caller's own index,   *)
(* which only the caller changes, and the other side's index once, so it   *)
(* is one atomic step.                                                     *)
(*                                                                         *)
(* sent and taken are history: every byte ever published by advancing      *)
(* head, and how many of them the consumer has released by advancing tail. *)
(* from is history too: the consumed count when the call that fills out    *)
(* began.                                                                  *)
(***************************************************************************)
EXTENDS Integers, Sequences

CONSTANTS
    Byte,      \* the values a slot can hold
    Size,      \* the capacity in bytes
    Modulus,   \* the number of values of head and tail
    MaxLen,    \* bound: the longest request of one call
    MaxSent    \* bound: bytes published between two resets

\* Anbo_RB_Init accepts only a power of two, so the capacity divides the
\* range of the free-running indices; the range is at least twice as large.
ASSUME RingAssumption ==
    /\ Size \in Nat \ {0}
    /\ Modulus \in Nat
    /\ \E k \in 2..Modulus : Modulus = k * Size
    /\ MaxLen \in Nat
    /\ MaxSent \in Nat

VARIABLES
    buf,     \* the bytes of the buffer
    head,    \* write index, modified only by the producer
    tail,    \* read index, modified only by the consumer
    ppc,     \* what the producer does next
    pdata,   \* the bytes its call still has to store
    cpc,     \* what the consumer does next
    cleft,   \* the bytes its call still has to load, or to skip
    cidx,    \* the private index of Anbo_RB_Peek
    out,     \* the bytes its call has loaded
    sent,    \* history: the bytes published
    taken,   \* history: how many of them were consumed
    from     \* history: where in the stream out begins

ringVars == <<buf, head, tail>>
prodVars == <<ppc, pdata>>
consVars == <<cpc, cleft, cidx, out>>
vars == <<ringVars, prodVars, consVars, sent, taken, from>>

----------------------------------------------------------------------------
\* Index arithmetic: unsigned subtraction and increment wrap, a mask picks
\* the slot.

Count(h, t) == (h - t) % Modulus
Free(h, t) == Size - Count(h, t)
IsEmpty(h, t) == h = t
\* Faulty: full is noticed one byte too late.
IsFull_Late(h, t) == Count(h, t) > Size

IsFull(h, t) == Count(h, t) = Size
\* Faulty: the index does not wrap.
Advance_NoWrap(i, n) == i + n

Advance(i, n) == (i + n) % Modulus
Slot(i) == i % Size

\* Faulty: the request is granted whole.
Clamp_Missing(n, limit) == n

\* How much of a request for n bytes the call grants.
Clamp(n, limit) == IF n > limit THEN limit ELSE n

Requests == UNION {[1..n -> Byte] : n \in 0..MaxLen}

TypeOK ==
    /\ buf \in [0..(Size - 1) -> Byte]
    /\ head \in 0..(Modulus - 1)
    /\ tail \in 0..(Modulus - 1)
    /\ ppc \in {"idle", "store", "advance"}
    /\ pdata \in Seq(Byte)
    /\ cpc \in {"idle", "load", "advance", "peek", "skip"}
    /\ cleft \in Nat
    /\ cidx \in 0..(Modulus - 1)
    /\ out \in Seq(Byte)
    /\ sent \in Seq(Byte)
    /\ taken \in Nat
    /\ from \in Nat

Init ==
    /\ buf \in [0..(Size - 1) -> Byte]
    /\ head = 0 /\ tail = 0
    /\ ppc = "idle" /\ pdata = << >>
    /\ cpc = "idle" /\ cleft = 0 /\ cidx = 0 /\ out = << >>
    /\ sent = << >> /\ taken = 0 /\ from = 0

\* Anbo_RB_Reset, which its callers run before either side is active.
Reset ==
    /\ ppc = "idle" /\ cpc = "idle"
    /\ head' = 0 /\ tail' = 0
    /\ sent' = << >> /\ taken' = 0 /\ from' = 0 /\ out' = << >>
    /\ UNCHANGED <<buf, ppc, pdata, cpc, cleft, cidx>>

----------------------------------------------------------------------------
\* Producer

\* Anbo_RB_PutByte: refuse when full, otherwise go on to store the byte.
PutByte(b) ==
    /\ ppc = "idle"
    /\ Len(sent) < MaxSent
    /\ ~IsFull(head, tail)
    /\ ppc' = "store" /\ pdata' = <<b>>
    /\ UNCHANGED <<ringVars, consVars, sent, taken, from>>

\* Faulty: the first byte is published before it is stored.
Write_PublishFirst(data) ==
    LET n == Clamp(Len(data), Free(head, tail)) IN
    /\ ppc = "idle"
    /\ Len(sent) + Len(data) <= MaxSent
    /\ n > 0
    /\ ppc' = "advance" /\ pdata' = SubSeq(data, 1, n)
    /\ UNCHANGED <<ringVars, consVars, sent, taken, from>>

\* Anbo_RB_Write: the free space is read once and bounds the whole copy.
Write(data) ==
    LET n == Clamp(Len(data), Free(head, tail)) IN
    /\ ppc = "idle"
    /\ Len(sent) + Len(data) <= MaxSent
    /\ n > 0
    /\ ppc' = "store" /\ pdata' = SubSeq(data, 1, n)
    /\ UNCHANGED <<ringVars, consVars, sent, taken, from>>

\* buf[head & mask] = byte
StoreByte ==
    /\ ppc = "store"
    /\ buf' = [buf EXCEPT ![Slot(head)] = Head(pdata)]
    /\ ppc' = "advance"
    /\ UNCHANGED <<head, tail, pdata, consVars, sent, taken, from>>

\* head++, then the next byte of the call or its return
AdvanceHead ==
    /\ ppc = "advance"
    /\ head' = Advance(head, 1)
    /\ sent' = Append(sent, Head(pdata))
    /\ pdata' = Tail(pdata)
    /\ ppc' = IF Len(pdata) = 1 THEN "idle" ELSE "store"
    /\ UNCHANGED <<buf, tail, consVars, taken, from>>

----------------------------------------------------------------------------
\* Consumer

\* Anbo_RB_GetByte: refuse when empty, otherwise go on to load one byte.
GetByte ==
    /\ cpc = "idle"
    /\ ~IsEmpty(head, tail)
    /\ cpc' = "load" /\ cleft' = 1 /\ out' = << >> /\ from' = taken
    /\ UNCHANGED <<ringVars, prodVars, cidx, sent, taken>>

\* Anbo_RB_Read: the fill level is read once and bounds the whole copy.
Read(len) ==
    LET n == Clamp(len, Count(head, tail)) IN
    /\ cpc = "idle"
    /\ n > 0
    /\ cpc' = "load" /\ cleft' = n /\ out' = << >> /\ from' = taken
    /\ UNCHANGED <<ringVars, prodVars, cidx, sent, taken>>

\* data[i] = buf[tail & mask]
LoadByte ==
    /\ cpc = "load"
    /\ out' = Append(out, buf[Slot(tail)])
    /\ cpc' = "advance"
    /\ UNCHANGED <<ringVars, prodVars, cleft, cidx, sent, taken, from>>

\* tail++, then the next byte of the call or its return
AdvanceTail ==
    /\ cpc = "advance"
    /\ tail' = Advance(tail, 1)
    /\ taken' = taken + 1
    /\ cleft' = cleft - 1
    /\ cpc' = IF cleft = 1 THEN "idle" ELSE "load"
    /\ UNCHANGED <<buf, head, prodVars, cidx, out, sent, from>>

\* Anbo_RB_Peek: copies through a private index and leaves tail alone.
Peek(len) ==
    LET n == Clamp(len, Count(head, tail)) IN
    /\ cpc = "idle"
    /\ n > 0
    /\ cpc' = "peek" /\ cleft' = n /\ cidx' = tail
    /\ out' = << >> /\ from' = taken
    /\ UNCHANGED <<ringVars, prodVars, sent, taken>>

\* Faulty: peek copies from the consumer's index instead of its own.
PeekByte_SameSlot ==
    /\ cpc = "peek"
    /\ out' = Append(out, buf[Slot(tail)])
    /\ cidx' = Advance(cidx, 1)
    /\ cleft' = cleft - 1
    /\ cpc' = IF cleft = 1 THEN "idle" ELSE "peek"
    /\ UNCHANGED <<ringVars, prodVars, sent, taken, from>>

\* data[i] = buf[idx & mask]; idx++
PeekByte ==
    /\ cpc = "peek"
    /\ out' = Append(out, buf[Slot(cidx)])
    /\ cidx' = Advance(cidx, 1)
    /\ cleft' = cleft - 1
    /\ cpc' = IF cleft = 1 THEN "idle" ELSE "peek"
    /\ UNCHANGED <<ringVars, prodVars, sent, taken, from>>

\* Anbo_RB_Skip: the fill level is read first ...
Skip(len) ==
    LET n == Clamp(len, Count(head, tail)) IN
    /\ cpc = "idle"
    /\ n > 0
    /\ cpc' = "skip" /\ cleft' = n
    /\ UNCHANGED <<ringVars, prodVars, cidx, out, sent, taken, from>>

\* ... and tail += len later.
AdvanceSkip ==
    /\ cpc = "skip"
    /\ tail' = Advance(tail, cleft)
    /\ taken' = taken + cleft
    /\ cpc' = "idle" /\ cleft' = 0
    /\ UNCHANGED <<buf, head, prodVars, cidx, out, sent, from>>

----------------------------------------------------------------------------
Producer ==
    \/ \E b \in Byte : PutByte(b)
    \/ \E data \in Requests : Write(data)
    \/ StoreByte
    \/ AdvanceHead

Consumer ==
    \/ GetByte
    \/ \E len \in 1..MaxLen : Read(len) \/ Peek(len) \/ Skip(len)
    \/ LoadByte
    \/ AdvanceTail
    \/ PeekByte
    \/ AdvanceSkip

Next == Reset \/ Producer \/ Consumer

Spec == Init /\ [][Next]_vars

----------------------------------------------------------------------------
\* Properties

\* The bytes between tail and head, as either side would read them.
Contents == [i \in 1..Count(head, tail) |-> buf[Slot(Advance(tail, i - 1))]]

\* Wherever the other side has been interrupted, the slots between tail and
\* head hold exactly the bytes published and not yet consumed: nothing is
\* overwritten, lost or repeated, across any number of index wrap-arounds
\* (StoreByte, AdvanceHead, AdvanceTail of anbo_rb.c).
ContentsIntact == Contents = SubSeq(sent, taken + 1, Len(sent))

\* Every byte a Read, GetByte or Peek has copied out is the byte of the
\* published stream at that position, and the copy never runs ahead of what
\* was published, although the fill level was read only once at its start.
DeliveredInOrder ==
    /\ from + Len(out) <= Len(sent)
    /\ out = SubSeq(sent, from + 1, from + Len(out))

\* The room (or fill level) a call has read stays available until the call
\* ends, whatever the other side does meanwhile.
GrantsHold ==
    /\ ppc # "idle" => Len(pdata) <= Free(head, tail)
    /\ cpc # "idle" => cleft <= Count(head, tail) - (IF cpc = "peek" THEN Len(out) ELSE 0)

\* The ring buffer implements a bounded first-in first-out queue: every step
\* of either side adds one byte at the back, drops bytes from the front,
\* clears the queue or leaves it as it is.
Fifo == INSTANCE ByteFifo WITH q <- Contents
ImplementsFifo == Fifo!FifoSpec

----------------------------------------------------------------------------
\* The inductive invariant behind these properties: the wrapping indices
\* stand for the unbounded positions Len(sent) and taken.

PositionInv ==
    /\ taken <= Len(sent)
    /\ Len(sent) - taken <= Size
    /\ head = Len(sent) % Modulus
    /\ tail = taken % Modulus

BufferInv == \A k \in taken..(Len(sent) - 1) : buf[k % Size] = sent[k + 1]

ProducerInv ==
    /\ ppc # "idle" =>
          /\ Len(pdata) >= 1
          /\ Len(sent) + Len(pdata) - taken <= Size
    /\ ppc = "advance" => buf[Len(sent) % Size] = Head(pdata)

ConsumerInv ==
    /\ cpc # "idle" => cleft >= 1
    /\ cpc \in {"load", "advance", "skip"} => taken + cleft <= Len(sent)
    /\ cpc = "load" => from + Len(out) = taken
    /\ cpc = "advance" => from + Len(out) = taken + 1
    /\ cpc = "peek" =>
          /\ from = taken
          /\ cidx = (taken + Len(out)) % Modulus
          /\ taken + Len(out) + cleft <= Len(sent)

CopyInv ==
    /\ from + Len(out) <= Len(sent)
    /\ \A i \in 1..Len(out) : out[i] = sent[from + i]

IInv == TypeOK /\ PositionInv /\ BufferInv /\ ProducerInv /\ ConsumerInv /\ CopyInv
=============================================================================
