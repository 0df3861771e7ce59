-------------------------- MODULE RingBufferProofs --------------------------
(***************************************************************************)
(* Proofs about RingBuffer for every capacity, index width and stream.     *)
(*                                                                         *)
(* The argument replaces the wrapping indices by the unbounded positions   *)
(* they stand for: head is Len(sent) and tail is taken, both modulo the    *)
(* index range.  Because the capacity divides that range, the slot of a    *)
(* position does not depend on how often the index has wrapped.            *)
(***************************************************************************)
EXTENDS RingBuffer, Lemmas, SequenceTheorems

----------------------------------------------------------------------------
\* Index facts of RingBuffer

\* Wrapped and unwrapped positions agree on slots, distances and advances.
LEMMA IndexFacts ==
    ASSUME NEW a \in Nat
    PROVE  /\ a % Modulus \in 0..(Modulus - 1)
           /\ a % Size \in 0..(Size - 1)
           /\ Slot(a % Modulus) = a % Size
           /\ \A n \in Nat : Advance(a % Modulus, n) = (a + n) % Modulus
           /\ \A b \in Nat : a - b \in 0..Size => Count(a % Modulus, b % Modulus) = a - b
<1>1. Size \in Nat \ {0} /\ Modulus \in Nat \ {0} /\ Modulus > Size
  <2>1. PICK k \in 2..Modulus : Modulus = k * Size
    BY RingAssumption
  <2>2. Size \in Nat \ {0} /\ k \in Nat /\ k >= 2
    BY RingAssumption
  <2>3. k * Size >= 2 * Size
    BY <2>2, SMT
  <2>4. QED
    BY <2>1, <2>2, <2>3
<1>2. PICK k \in 2..Modulus : Modulus = k * Size
    BY RingAssumption
<1>3. a % Modulus \in 0..(Modulus - 1) /\ a % Size \in 0..(Size - 1)
    BY <1>1, DivisionFact
<1>4. Slot(a % Modulus) = a % Size
  <2>1. a \in Int /\ k \in Nat
    OBVIOUS
  <2>2. (a % Modulus) % Size = a % Size
    BY <1>1, <1>2, <2>1, SlotOfWrapped
  <2>3. QED
    BY <2>2 DEF Slot
<1>5. ASSUME NEW n \in Nat PROVE Advance(a % Modulus, n) = (a + n) % Modulus
  <2>1. a \in Int /\ n \in Int
    OBVIOUS
  <2>2. ((a % Modulus) + n) % Modulus = (a + n) % Modulus
    BY <1>1, <2>1, WrapSum
  <2>3. QED
    BY <2>2 DEF Advance
<1>6. ASSUME NEW b \in Nat, a - b \in 0..Size
      PROVE  Count(a % Modulus, b % Modulus) = a - b
  <2>1. a - b \in 0..(Modulus - 1)
    BY <1>1, <1>6
  <2>2. a \in Int /\ b \in Int
    OBVIOUS
  <2>3. ((a % Modulus) - (b % Modulus)) % Modulus = a - b
    BY <1>1, <2>1, <2>2, WrapDistance
  <2>4. QED
    BY <2>3 DEF Count
<1>7. QED
    BY <1>3, <1>4, <1>5, <1>6

\* Under the invariant the fill level either side computes is the true one.
LEMMA TrueCount ==
    ASSUME TypeOK, PositionInv
    PROVE  Count(head, tail) = Len(sent) - taken
<1>1. Len(sent) \in Nat /\ taken \in Nat
    BY DEF TypeOK
<1>2. Len(sent) - taken \in 0..Size
    BY <1>1, RingAssumption DEF PositionInv
<1>3. QED
    BY <1>1, <1>2, IndexFacts DEF PositionInv

----------------------------------------------------------------------------
\* The inductive invariant

\* An initialised buffer is empty, so the invariant holds at once.
LEMMA InitInv == Init => IInv
<1> SUFFICES ASSUME Init PROVE IInv
    OBVIOUS
<1>1. 0 \in 0..(Modulus - 1) /\ 0 % Modulus = 0
  <2>1. Modulus \in Nat \ {0}
    BY RingAssumption
  <2>2. 0 \in 0..(Modulus - 1)
    BY <2>1
  <2>3. QED
    BY <2>1, <2>2, SmallRemainder
<1>2. TypeOK
    BY <1>1 DEF Init, TypeOK
<1>3. PositionInv /\ BufferInv /\ ProducerInv /\ ConsumerInv /\ CopyInv
    BY <1>1, RingAssumption
       DEF Init, PositionInv, BufferInv, ProducerInv, ConsumerInv, CopyInv
<1>4. QED
    BY <1>2, <1>3 DEF IInv

\* Storing a byte leaves the live bytes alone: its slot is none of theirs.
LEMMA StoreByteInv == IInv /\ StoreByte => IInv'
<1> SUFFICES ASSUME IInv, StoreByte PROVE IInv'
    OBVIOUS
<1> USE DEF IInv
<1>1. Len(sent) \in Nat /\ taken \in Nat /\ Len(pdata) \in Nat /\ Len(pdata) >= 1
    BY DEF TypeOK, ProducerInv, StoreByte
<1>2. Slot(head) = Len(sent) % Size /\ Len(sent) % Size \in 0..(Size - 1)
    BY <1>1, IndexFacts DEF PositionInv
<1>3. Head(pdata) \in Byte
    BY <1>1 DEF TypeOK
<1>4. buf' = [buf EXCEPT ![Len(sent) % Size] = Head(pdata)]
    BY <1>2 DEF StoreByte
<1>5. TypeOK'
    BY <1>2, <1>3, <1>4 DEF TypeOK, StoreByte, consVars
<1>6. BufferInv'
  <2> SUFFICES ASSUME NEW k \in taken..(Len(sent) - 1)
               PROVE  buf'[k % Size] = sent[k + 1]
    BY DEF BufferInv, StoreByte
  <2> k \in Nat
    BY <1>1
  <2>1. k % Size \in 0..(Size - 1)
    BY IndexFacts
  <2>2. Len(sent) - k \in 0..(Size - 1)
    BY <1>1, RingAssumption DEF ProducerInv, StoreByte
  <2>3. k % Size # Len(sent) % Size
    <3>1. k \in Int /\ Len(sent) \in Int /\ Len(sent) # k /\ Size \in Nat \ {0}
      BY <1>1, RingAssumption
    <3>2. QED
      BY <2>2, <3>1, SlotsDistinct
  <2>4. buf'[k % Size] = buf[k % Size]
    BY <1>4, <2>1, <2>3 DEF TypeOK
  <2>5. QED
    BY <2>4 DEF BufferInv
<1>7. ProducerInv'
    BY <1>2, <1>4 DEF ProducerInv, StoreByte, TypeOK
<1>8. PositionInv' /\ ConsumerInv' /\ CopyInv'
    BY DEF PositionInv, ConsumerInv, CopyInv, StoreByte, consVars
<1>9. QED
    BY <1>5, <1>6, <1>7, <1>8

\* Publishing a byte extends the stream by the byte just stored.
LEMMA AdvanceHeadInv == IInv /\ AdvanceHead => IInv'
<1> SUFFICES ASSUME IInv, AdvanceHead PROVE IInv'
    OBVIOUS
<1> USE DEF IInv
<1>1. /\ Len(sent) \in Nat /\ taken \in Nat /\ Len(pdata) \in Nat /\ Len(pdata) >= 1
      /\ Size \in Nat
    BY RingAssumption DEF TypeOK, ProducerInv, AdvanceHead
<1>2. Head(pdata) \in Byte /\ Tail(pdata) \in Seq(Byte) /\ Len(Tail(pdata)) = Len(pdata) - 1
    BY <1>1 DEF TypeOK
<1>3. /\ sent' = Append(sent, Head(pdata)) /\ sent' \in Seq(Byte)
      /\ Len(sent') = Len(sent) + 1
      /\ \A k \in 1..Len(sent) : sent'[k] = sent[k]
      /\ sent'[Len(sent) + 1] = Head(pdata)
    BY <1>2 DEF AdvanceHead, TypeOK
<1>4. head' = (Len(sent) + 1) % Modulus /\ head' \in 0..(Modulus - 1)
  <2>1. head' = (Len(sent) + 1) % Modulus
    BY <1>1, IndexFacts DEF PositionInv, AdvanceHead
  <2>2. Len(sent) + 1 \in Nat
    BY <1>1
  <2>3. QED
    BY <2>1, <2>2, IndexFacts
<1>5. TypeOK'
    BY <1>2, <1>3, <1>4 DEF TypeOK, AdvanceHead, consVars
<1>6. PositionInv'
    BY <1>1, <1>3, <1>4 DEF PositionInv, ProducerInv, AdvanceHead
<1>7. BufferInv'
    BY <1>1, <1>3 DEF BufferInv, ProducerInv, AdvanceHead
<1>8. ProducerInv'
  <2>1. ppc' # "idle" => Len(pdata) # 1
    BY Zenon DEF AdvanceHead
  <2>2. pdata' = Tail(pdata) /\ ppc' # "advance"
    BY DEF AdvanceHead
  <2>3. ppc' # "idle" => Len(pdata') >= 1
    BY <1>1, <1>2, <2>1, <2>2
  <2>4. ppc' # "idle" => Len(sent') + Len(pdata') - taken' <= Size
    BY <1>1, <1>2, <1>3, <2>2 DEF ProducerInv, AdvanceHead
  <2>5. QED
    BY <2>2, <2>3, <2>4 DEF ProducerInv
<1>9. ConsumerInv' /\ CopyInv'
    BY <1>1, <1>3 DEF ConsumerInv, CopyInv, AdvanceHead, consVars, TypeOK
<1>10. QED
    BY <1>5, <1>6, <1>7, <1>8, <1>9

\* A producer call opens: its grant fits in the room it has read.
LEMMA GrantInv ==
    ASSUME IInv, NEW n \in Nat, n > 0, n <= Free(head, tail),
           pdata' \in Seq(Byte), Len(pdata') = n, ppc' = "store",
           UNCHANGED <<ringVars, consVars, sent, taken, from>>
    PROVE  IInv'
<1> USE DEF IInv
<1>1. Count(head, tail) = Len(sent) - taken
    BY TrueCount
<1>2. /\ Len(sent) \in Nat /\ taken \in Nat /\ Size \in Nat
    BY RingAssumption DEF TypeOK
<1>3. n <= Size - (Len(sent) - taken)
    BY <1>1 DEF Free
<1>4. ProducerInv'
    BY <1>2, <1>3 DEF ProducerInv, ringVars
<1>5. TypeOK' /\ PositionInv' /\ BufferInv' /\ ConsumerInv' /\ CopyInv'
    BY DEF TypeOK, PositionInv, BufferInv, ConsumerInv, CopyInv, ringVars, consVars
<1>6. QED
    BY <1>4, <1>5

\* Anbo_RB_PutByte keeps the invariant: a refused byte changes nothing, an
\* accepted one goes to the free slot behind the newest byte.
LEMMA PutByteInv == ASSUME IInv, NEW b \in Byte, PutByte(b) PROVE IInv'
<1>1. Count(head, tail) = Len(sent) - taken
    BY TrueCount DEF IInv
<1>2. Count(head, tail) \in Nat /\ Count(head, tail) # Size /\ Count(head, tail) <= Size
    BY <1>1 DEF IInv, TypeOK, PositionInv, PutByte, IsFull
<1>3. 1 <= Free(head, tail)
    BY <1>2, RingAssumption DEF Free
<1>4. pdata' = <<b>> /\ pdata' \in Seq(Byte) /\ Len(pdata') = 1
    BY DEF PutByte
<1>5. QED
    BY <1>3, <1>4, GrantInv DEF PutByte

\* Anbo_RB_Write keeps the invariant: the slots it fills are free, so what is
\* stored and what is granted to a reader are not touched.
LEMMA WriteInv == ASSUME IInv, NEW data \in Requests, Write(data) PROVE IInv'
<1> DEFINE n == Clamp(Len(data), Free(head, tail))
<1>1. Count(head, tail) = Len(sent) - taken
    BY TrueCount DEF IInv
<1>2. Free(head, tail) \in Int
    BY <1>1, RingAssumption DEF IInv, TypeOK, Free
<1>3. data \in Seq(Byte) /\ Len(data) \in Nat
    BY RingAssumption DEF Requests
<1>4. n \in Nat /\ n > 0 /\ n <= Free(head, tail) /\ n <= Len(data)
    BY <1>2, <1>3 DEF Write, Clamp
<1> HIDE DEF n
<1>5. pdata' = SubSeq(data, 1, n)
    BY DEF Write, n
<1>6. pdata' \in Seq(Byte) /\ Len(pdata') = n
    BY <1>3, <1>4, <1>5
<1>7. ppc' = "store" /\ UNCHANGED <<ringVars, consVars, sent, taken, from>>
    BY DEF Write
<1>8. QED
    BY <1>4, <1>6, <1>7, GrantInv

\* The slot the consumer reads holds the published byte at its position.
LEMMA ReadSlot ==
    ASSUME IInv, NEW k \in taken..(Len(sent) - 1)
    PROVE  /\ buf[Slot(k % Modulus)] = sent[k + 1]
           /\ sent[k + 1] \in Byte
<1>1. k \in Nat /\ k + 1 \in 1..Len(sent)
    BY DEF IInv, TypeOK
<1>2. Slot(k % Modulus) = k % Size
    BY <1>1, IndexFacts
<1>3. QED
    BY <1>1, <1>2 DEF IInv, BufferInv, TypeOK

\* Copying out the next byte keeps the copy equal to the stream.
LEMMA CopyExtends ==
    ASSUME IInv, NEW b, from + Len(out) + 1 <= Len(sent),
           b = sent[from + Len(out) + 1], b \in Byte,
           out' = Append(out, b), from' = from, sent' = sent
    PROVE  CopyInv' /\ out' \in Seq(Byte) /\ Len(out') = Len(out) + 1
<1>1. /\ Len(out) \in Nat /\ from \in Nat /\ Len(sent) \in Nat
      /\ out \in Seq(Byte)
    BY DEF IInv, TypeOK
<1>2. /\ out' \in Seq(Byte) /\ Len(out') = Len(out) + 1
      /\ \A i \in 1..Len(out) : out'[i] = out[i]
      /\ out'[Len(out) + 1] = b
    BY <1>1
<1>3. ASSUME NEW i \in 1..Len(out') PROVE out'[i] = sent'[from' + i]
  <2>1. CASE i = Len(out) + 1
    BY <1>1, <1>2, <2>1
  <2>2. CASE i \in 1..Len(out)
    BY <1>1, <1>2, <2>2 DEF IInv, CopyInv
  <2>3. QED
    BY <1>1, <1>2, <2>1, <2>2
<1>4. QED
    BY <1>1, <1>2, <1>3 DEF CopyInv

\* Anbo_RB_Read copies its next byte: what it has copied so far is what is
\* stored from the tail on.
LEMMA LoadByteInv == IInv /\ LoadByte => IInv'
<1> SUFFICES ASSUME IInv, LoadByte PROVE IInv'
    OBVIOUS
<1>1. /\ Len(sent) \in Nat /\ taken \in Nat /\ Len(out) \in Nat /\ from \in Nat
      /\ cleft \in Nat /\ cleft >= 1
      /\ taken + cleft <= Len(sent) /\ from + Len(out) = taken
    BY DEF IInv, TypeOK, ConsumerInv, LoadByte
<1>2. taken \in taken..(Len(sent) - 1)
    BY <1>1
<1>3. buf[Slot(tail)] = sent[taken + 1] /\ sent[taken + 1] \in Byte
    BY <1>2, ReadSlot DEF IInv, PositionInv
<1>4. CopyInv' /\ out' \in Seq(Byte) /\ Len(out') = Len(out) + 1
  <2>1. /\ from + Len(out) + 1 <= Len(sent)
        /\ buf[Slot(tail)] = sent[from + Len(out) + 1]
    BY <1>1, <1>3
  <2>2. out' = Append(out, buf[Slot(tail)]) /\ from' = from /\ sent' = sent
    BY DEF LoadByte
  <2>3. QED
    BY <1>3, <2>1, <2>2, CopyExtends
<1>5. ConsumerInv'
    BY <1>1, <1>4 DEF ConsumerInv, LoadByte
<1>6. TypeOK'
    BY <1>4 DEF IInv, TypeOK, LoadByte, ringVars, prodVars
<1>7. PositionInv' /\ BufferInv' /\ ProducerInv'
    BY DEF IInv, PositionInv, BufferInv, ProducerInv, LoadByte, ringVars, prodVars
<1>8. QED
    BY <1>4, <1>5, <1>6, <1>7 DEF IInv

\* Anbo_RB_Peek copies its next byte, from a slot of its own count.
LEMMA PeekByteInv == IInv /\ PeekByte => IInv'
<1> SUFFICES ASSUME IInv, PeekByte PROVE IInv'
    OBVIOUS
<1>1. /\ Len(sent) \in Nat /\ taken \in Nat /\ Len(out) \in Nat /\ from \in Nat
      /\ cleft \in Nat /\ cleft >= 1 /\ from = taken
      /\ taken + Len(out) + cleft <= Len(sent)
      /\ cidx = (taken + Len(out)) % Modulus
    BY DEF IInv, TypeOK, ConsumerInv, PeekByte
<1> DEFINE k == taken + Len(out)
<1>2. k \in taken..(Len(sent) - 1) /\ k \in Nat
    BY <1>1
<1>3. cidx = k % Modulus
    BY <1>1
<1>4. buf[Slot(cidx)] = sent[k + 1] /\ sent[k + 1] \in Byte
    BY <1>2, <1>3, ReadSlot
<1>5. cidx' = (k + 1) % Modulus /\ cidx' \in 0..(Modulus - 1)
  <2>1. cidx' = (k + 1) % Modulus
    BY <1>2, <1>3, IndexFacts DEF PeekByte
  <2>2. k + 1 \in Nat
    BY <1>2
  <2>3. QED
    BY <2>1, <2>2, IndexFacts
<1>6. CopyInv' /\ out' \in Seq(Byte) /\ Len(out') = Len(out) + 1
  <2>1. from + Len(out) + 1 <= Len(sent) /\ buf[Slot(cidx)] = sent[from + Len(out) + 1]
    BY <1>1, <1>4
  <2>2. out' = Append(out, buf[Slot(cidx)]) /\ from' = from /\ sent' = sent
    BY DEF PeekByte
  <2>3. QED
    BY <1>4, <2>1, <2>2, CopyExtends
<1>7. cleft' \in Nat /\ cleft' = cleft - 1 /\ (cpc' # "idle" => cleft' >= 1 /\ cpc' = "peek")
  <2>1. cleft' = cleft - 1 /\ cleft' \in Nat
    BY <1>1 DEF PeekByte
  <2>2. cpc' # "idle" => cleft # 1 /\ cpc' = "peek"
    BY Zenon DEF PeekByte
  <2>3. QED
    BY <1>1, <2>1, <2>2
<1>8. taken' = taken /\ from' = from /\ sent' = sent
    BY DEF PeekByte
<1>9. ConsumerInv'
  <2>1. k + 1 = taken' + Len(out')
    BY <1>1, <1>6, <1>8
  <2>2. taken' + Len(out') + cleft' <= Len(sent')
    BY <1>1, <1>6, <1>7, <1>8
  <2>3. QED
    BY <1>1, <1>5, <1>7, <1>8, <2>1, <2>2 DEF ConsumerInv
<1>10. TypeOK'
  <2>1. cpc' \in {"idle", "peek"}
    BY Zenon DEF PeekByte
  <2>2. QED
    BY <1>5, <1>6, <1>7, <2>1 DEF IInv, TypeOK, PeekByte, ringVars, prodVars
<1>11. PositionInv' /\ BufferInv' /\ ProducerInv'
    BY DEF IInv, PositionInv, BufferInv, ProducerInv, PeekByte, ringVars, prodVars
<1>12. QED
    BY <1>6, <1>9, <1>10, <1>11 DEF IInv

\* Releasing n consumed bytes moves tail to the wrapped new position and
\* leaves the later bytes where they are.
LEMMA ReleaseInv ==
    ASSUME IInv, NEW n \in Nat, taken + n <= Len(sent),
           tail' = Advance(tail, n), taken' = taken + n,
           UNCHANGED <<buf, head, prodVars, sent>>
    PROVE  PositionInv' /\ BufferInv' /\ ProducerInv' /\ tail' \in 0..(Modulus - 1)
<1> USE DEF IInv
<1>1. /\ Len(sent) \in Nat /\ taken \in Nat /\ Len(pdata) \in Nat /\ Size \in Nat
      /\ taken + n \in Nat
    BY RingAssumption DEF TypeOK
<1>2. tail' = (taken + n) % Modulus
    BY <1>1, IndexFacts DEF PositionInv
<1>3. tail' \in 0..(Modulus - 1)
    BY <1>1, <1>2, IndexFacts
<1>4. PositionInv'
    BY <1>1, <1>2 DEF PositionInv
<1>5. BufferInv'
  <2>1. ASSUME NEW k \in (taken + n)..(Len(sent) - 1)
        PROVE  buf[k % Size] = sent[k + 1]
    <3>1. k \in taken..(Len(sent) - 1)
      BY <1>1
    <3>2. QED
      BY <3>1 DEF BufferInv
  <2>2. QED
    BY <2>1 DEF BufferInv
<1>6. ProducerInv'
    BY <1>1 DEF ProducerInv, prodVars
<1>7. QED
    BY <1>3, <1>4, <1>5, <1>6

\* Anbo_RB_Read publishes its tail: what remains stored is the old contents
\* without the bytes it has copied.
LEMMA AdvanceTailInv == IInv /\ AdvanceTail => IInv'
<1> SUFFICES ASSUME IInv, AdvanceTail PROVE IInv'
    OBVIOUS
<1>1. /\ Len(sent) \in Nat /\ taken \in Nat /\ Len(out) \in Nat /\ from \in Nat
      /\ cleft \in Nat /\ cleft >= 1
      /\ taken + cleft <= Len(sent) /\ from + Len(out) = taken + 1
    BY DEF IInv, TypeOK, ConsumerInv, AdvanceTail
<1>2. PositionInv' /\ BufferInv' /\ ProducerInv' /\ tail' \in 0..(Modulus - 1)
  <2>1. 1 \in Nat /\ taken + 1 <= Len(sent)
    BY <1>1
  <2>2. QED
    BY <2>1, ReleaseInv DEF AdvanceTail
<1>3. /\ cleft' = cleft - 1 /\ cleft' \in Nat /\ cpc' \in {"idle", "load"}
      /\ (cpc' # "idle" => cleft' >= 1)
  <2>1. cleft' = cleft - 1 /\ cleft' \in Nat
    BY <1>1 DEF AdvanceTail
  <2>2. cpc' \in {"idle", "load"} /\ (cpc' # "idle" => cleft # 1)
    BY Zenon DEF AdvanceTail
  <2>3. QED
    BY <1>1, <2>1, <2>2
<1>4. ConsumerInv'
    BY <1>1, <1>3 DEF ConsumerInv, AdvanceTail
<1>5. TypeOK'
    BY <1>1, <1>2, <1>3 DEF IInv, TypeOK, AdvanceTail, prodVars
<1>6. CopyInv'
    BY DEF IInv, CopyInv, AdvanceTail
<1>7. QED
    BY <1>2, <1>4, <1>5, <1>6 DEF IInv

\* Anbo_RB_Skip publishes its tail.
LEMMA AdvanceSkipInv == IInv /\ AdvanceSkip => IInv'
<1> SUFFICES ASSUME IInv, AdvanceSkip PROVE IInv'
    OBVIOUS
<1>1. cleft \in Nat /\ taken \in Nat /\ taken + cleft <= Len(sent)
    BY DEF IInv, TypeOK, ConsumerInv, AdvanceSkip
<1>2. PositionInv' /\ BufferInv' /\ ProducerInv' /\ tail' \in 0..(Modulus - 1)
    BY <1>1, ReleaseInv DEF AdvanceSkip
<1>3. ConsumerInv' /\ CopyInv'
    BY DEF IInv, ConsumerInv, CopyInv, AdvanceSkip
<1>4. TypeOK'
    BY <1>1, <1>2 DEF IInv, TypeOK, AdvanceSkip, prodVars
<1>5. QED
    BY <1>2, <1>3, <1>4 DEF IInv

\* A consumer call opens: what it may read is no more than was published.
LEMMA ConsumerGrant ==
    ASSUME IInv, NEW len \in 1..MaxLen
    PROVE  /\ taken \in Nat /\ Len(sent) \in Nat
           /\ Clamp(len, Count(head, tail)) \in Nat
           /\ taken + Clamp(len, Count(head, tail)) <= Len(sent)
<1>1. Count(head, tail) = Len(sent) - taken
    BY TrueCount DEF IInv
<1>2. Count(head, tail) \in Nat /\ taken \in Nat /\ Len(sent) \in Nat /\ len \in Nat
    BY <1>1, RingAssumption DEF IInv, TypeOK, PositionInv
<1>3. QED
    BY <1>1, <1>2 DEF Clamp

\* Anbo_RB_GetByte takes the oldest byte.
LEMMA GetByteInv == IInv /\ GetByte => IInv'
<1> SUFFICES ASSUME IInv, GetByte PROVE IInv'
    OBVIOUS
<1> USE DEF IInv
<1>1. Len(sent) \in Nat /\ taken \in Nat /\ taken <= Len(sent)
    BY DEF TypeOK, PositionInv
<1>2. Len(sent) # taken
    BY DEF PositionInv, GetByte, IsEmpty
<1>3. ConsumerInv' /\ CopyInv'
    BY <1>1, <1>2 DEF ConsumerInv, CopyInv, GetByte
<1>4. TypeOK' /\ PositionInv' /\ BufferInv' /\ ProducerInv'
    BY DEF TypeOK, PositionInv, BufferInv, ProducerInv, GetByte, ringVars, prodVars
<1>5. QED
    BY <1>3, <1>4

\* A reader that enters Anbo_RB_Read claims no more than is stored.
LEMMA ReadInv == ASSUME IInv, NEW len \in 1..MaxLen, Read(len) PROVE IInv'
<1> USE DEF IInv
<1> DEFINE n == Clamp(len, Count(head, tail))
<1>1. n \in Nat /\ taken + n <= Len(sent) /\ taken \in Nat /\ Len(sent) \in Nat
    BY ConsumerGrant DEF TypeOK
<1> HIDE DEF n
<1>2. n > 0 /\ cleft' = n /\ cpc' = "load" /\ out' = << >> /\ from' = taken
    BY DEF Read, n
<1>3. UNCHANGED <<ringVars, prodVars, cidx, sent, taken>>
    BY DEF Read
<1>4. ConsumerInv' /\ CopyInv'
    BY <1>1, <1>2, <1>3 DEF ConsumerInv, CopyInv
<1>5. TypeOK' /\ PositionInv' /\ BufferInv' /\ ProducerInv'
    BY <1>1, <1>2, <1>3 DEF TypeOK, PositionInv, BufferInv, ProducerInv, ringVars, prodVars
<1>6. QED
    BY <1>4, <1>5

\* A reader that enters Anbo_RB_Peek claims no more than is stored.
LEMMA PeekInv == ASSUME IInv, NEW len \in 1..MaxLen, Peek(len) PROVE IInv'
<1> USE DEF IInv
<1> DEFINE n == Clamp(len, Count(head, tail))
<1>1. n \in Nat /\ taken + n <= Len(sent) /\ taken \in Nat /\ Len(sent) \in Nat
    BY ConsumerGrant DEF TypeOK
<1> HIDE DEF n
<1>2. /\ n > 0 /\ cleft' = n /\ cpc' = "peek" /\ out' = << >> /\ from' = taken
      /\ cidx' = tail
    BY DEF Peek, n
<1>3. UNCHANGED <<ringVars, prodVars, sent, taken>>
    BY DEF Peek
<1>4. ConsumerInv' /\ CopyInv'
    BY <1>1, <1>2, <1>3 DEF ConsumerInv, CopyInv, PositionInv
<1>5. TypeOK' /\ PositionInv' /\ BufferInv' /\ ProducerInv'
    BY <1>1, <1>2, <1>3 DEF TypeOK, PositionInv, BufferInv, ProducerInv, ringVars, prodVars
<1>6. QED
    BY <1>4, <1>5

\* A reader that enters Anbo_RB_Skip claims no more than is stored.
LEMMA SkipInv == ASSUME IInv, NEW len \in 1..MaxLen, Skip(len) PROVE IInv'
<1> USE DEF IInv
<1> DEFINE n == Clamp(len, Count(head, tail))
<1>1. n \in Nat /\ taken + n <= Len(sent) /\ taken \in Nat /\ Len(sent) \in Nat
    BY ConsumerGrant DEF TypeOK
<1> HIDE DEF n
<1>2. n > 0 /\ cleft' = n /\ cpc' = "skip"
    BY DEF Skip, n
<1>3. UNCHANGED <<ringVars, prodVars, cidx, out, sent, taken, from>>
    BY DEF Skip
<1>4. ConsumerInv' /\ CopyInv'
    BY <1>1, <1>2, <1>3 DEF ConsumerInv, CopyInv
<1>5. TypeOK' /\ PositionInv' /\ BufferInv' /\ ProducerInv'
    BY <1>1, <1>2, <1>3 DEF TypeOK, PositionInv, BufferInv, ProducerInv, ringVars, prodVars
<1>6. QED
    BY <1>4, <1>5

\* Anbo_RB_Reset empties the buffer while nobody is inside a call.
LEMMA ResetInv == IInv /\ Reset => IInv'
<1> SUFFICES ASSUME IInv, Reset PROVE IInv'
    OBVIOUS
<1>1. 0 \in 0..(Modulus - 1) /\ 0 % Modulus = 0 /\ Size \in Nat
  <2>1. Modulus \in Nat \ {0} /\ 0 \in 0..(Modulus - 1)
    BY RingAssumption
  <2>2. QED
    BY <2>1, SmallRemainder, RingAssumption
<1>2. TypeOK'
    BY <1>1 DEF IInv, TypeOK, Reset
<1>3. PositionInv' /\ BufferInv' /\ ProducerInv' /\ ConsumerInv' /\ CopyInv'
    BY <1>1 DEF PositionInv, BufferInv, ProducerInv, ConsumerInv, CopyInv, Reset
<1>4. QED
    BY <1>2, <1>3 DEF IInv

\* Every step of the producer and of the consumer keeps the invariant.
LEMMA StepInv == IInv /\ [Next]_vars => IInv'
<1> SUFFICES ASSUME IInv, [Next]_vars PROVE IInv'
    OBVIOUS
<1>1. CASE Reset
    BY <1>1, ResetInv
<1>2. CASE Producer
    BY <1>2, PutByteInv, WriteInv, StoreByteInv, AdvanceHeadInv DEF Producer
<1>3. CASE Consumer
    BY <1>3, GetByteInv, ReadInv, PeekInv, SkipInv, LoadByteInv, AdvanceTailInv,
       PeekByteInv, AdvanceSkipInv DEF Consumer
<1>4. CASE UNCHANGED vars
    BY <1>4 DEF IInv, TypeOK, PositionInv, BufferInv, ProducerInv, ConsumerInv, CopyInv,
                vars, ringVars, prodVars, consVars
<1>5. QED
    BY <1>1, <1>2, <1>3, <1>4 DEF Next

\* The inductive invariant holds in every reachable state.
THEOREM Invariance == Spec => []IInv
<1>1. QED
    BY InitInv, StepInv, PTL DEF Spec

\* The live slots, read through the indices, are the unconsumed stream.
LEMMA InvImpliesIntact == IInv => ContentsIntact
<1> SUFFICES ASSUME IInv PROVE ContentsIntact
    OBVIOUS
<1> DEFINE n == Len(sent) - taken
<1>1. n \in Nat /\ taken \in Nat /\ Len(sent) \in Nat /\ sent \in Seq(Byte)
    BY DEF IInv, TypeOK, PositionInv
<1>2. Count(head, tail) = n
    BY TrueCount DEF IInv
<1>3. ASSUME NEW i \in 1..n
      PROVE  buf[Slot(Advance(tail, i - 1))] = sent[taken + i]
  <2>1. i - 1 \in Nat /\ taken + (i - 1) \in taken..(Len(sent) - 1)
    BY <1>1
  <2>2. Advance(tail, i - 1) = (taken + (i - 1)) % Modulus
    BY <1>1, <2>1, IndexFacts DEF IInv, PositionInv
  <2>3. buf[Slot(Advance(tail, i - 1))] = sent[(taken + (i - 1)) + 1]
    BY <2>1, <2>2, ReadSlot
  <2>4. (taken + (i - 1)) + 1 = taken + i
    BY <1>1
  <2>5. QED
    BY <2>3, <2>4
<1>4. Contents = [i \in 1..n |-> sent[taken + i]]
    BY <1>2, <1>3 DEF Contents
<1>5. SubSeq(sent, taken + 1, Len(sent)) = [i \in 1..n |-> sent[taken + i]]
    BY <1>1
<1>6. QED
    BY <1>4, <1>5 DEF ContentsIntact

----------------------------------------------------------------------------
\* Results

\* head, tail and every control variable of the two sides keep their ranges,
\* for every capacity and index width (anbo_rb.c indices and call states).
THEOREM TypeCorrect == Spec => []TypeOK
<1>1. IInv => TypeOK
    BY DEF IInv
<1>2. QED
    BY <1>1, Invariance, PTL

\* Lock-free use by one producer and one consumer never overwrites, loses or
\* repeats a byte: between tail and head stand exactly the bytes published
\* and not yet consumed (Anbo_RB_PutByte, Anbo_RB_Write, Anbo_RB_Skip ...).
THEOREM ContentsAreIntact == Spec => []ContentsIntact
<1>1. QED
    BY InvImpliesIntact, Invariance, PTL

\* What a consumer call copies out is the published stream, in order, from
\* the position where the call began (Anbo_RB_Read, Anbo_RB_Peek).
THEOREM CopiesAreInOrder == Spec => []DeliveredInOrder
<1>1. IInv => DeliveredInOrder
  <2> SUFFICES ASSUME IInv PROVE DeliveredInOrder
    OBVIOUS
  <2>1. /\ Len(out) \in Nat /\ from \in Nat /\ Len(sent) \in Nat
        /\ out \in Seq(Byte) /\ sent \in Seq(Byte) /\ from + Len(out) <= Len(sent)
        /\ \A i \in 1..Len(out) : out[i] = sent[from + i]
    BY DEF IInv, TypeOK, CopyInv
  <2>2. out = [i \in 1..Len(out) |-> sent[from + i]]
    BY <2>1
  <2>3. SubSeq(sent, from + 1, from + Len(out)) = [i \in 1..Len(out) |-> sent[from + i]]
    BY <2>1
  <2>4. QED
    BY <2>1, <2>2, <2>3 DEF DeliveredInOrder
<1>2. QED
    BY <1>1, Invariance, PTL

\* The room or fill level a call read at its start holds until it returns,
\* although the other side keeps moving (the single Anbo_RB_Free or
\* Anbo_RB_Count at the head of Anbo_RB_Write, Read, Peek and Skip).
THEOREM GrantsAreKept == Spec => []GrantsHold
<1>1. IInv => GrantsHold
  <2> SUFFICES ASSUME IInv PROVE GrantsHold
    OBVIOUS
  <2>1. /\ Count(head, tail) = Len(sent) - taken
        /\ Len(sent) \in Nat /\ taken \in Nat /\ Len(pdata) \in Nat /\ Size \in Nat
        /\ cleft \in Nat /\ Len(out) \in Nat
    BY TrueCount, RingAssumption DEF IInv, TypeOK
  <2>2. ppc # "idle" => Len(pdata) <= Free(head, tail)
    BY <2>1 DEF IInv, ProducerInv, Free
  <2>3. cpc = "peek" => cleft <= Count(head, tail) - Len(out)
    BY <2>1 DEF IInv, ConsumerInv
  <2>4. cpc \in {"load", "advance", "skip"} => cleft <= Count(head, tail) - 0
    BY <2>1 DEF IInv, ConsumerInv
  <2>5. cpc \in {"idle", "load", "advance", "peek", "skip"}
    BY DEF IInv, TypeOK
  <2>6. QED
    BY <2>2, <2>3, <2>4, <2>5 DEF GrantsHold
<1>2. QED
    BY <1>1, Invariance, PTL

----------------------------------------------------------------------------
\* Refinement

\* Appending to the stream appends to every window that reaches its end.
LEMMA WindowGrows ==
    ASSUME NEW S, NEW s \in Seq(S), NEW e \in S, NEW k \in Nat, k <= Len(s)
    PROVE  SubSeq(Append(s, e), k + 1, Len(Append(s, e)))
               = Append(SubSeq(s, k + 1, Len(s)), e)
<1> DEFINE t == Append(s, e)
           u == SubSeq(t, k + 1, Len(t))
           v == SubSeq(s, k + 1, Len(s))
           w == Append(v, e)
<1>1. /\ t \in Seq(S) /\ Len(s) \in Nat /\ Len(t) = Len(s) + 1
      /\ \A i \in 1..Len(s) : t[i] = s[i]
      /\ t[Len(s) + 1] = e
    OBVIOUS
<1>2. /\ v \in Seq(S) /\ Len(v) = Len(s) - k
      /\ \A i \in 1..(Len(s) - k) : v[i] = s[k + i]
    OBVIOUS
<1> HIDE DEF t, v
<1>3. /\ u \in Seq(S) /\ Len(u) = Len(s) + 1 - k
      /\ \A i \in 1..(Len(s) + 1 - k) : u[i] = t[k + i]
    BY <1>1
<1>4. /\ w \in Seq(S) /\ Len(w) = Len(s) - k + 1
      /\ \A i \in 1..(Len(s) - k) : w[i] = v[i]
      /\ w[Len(s) - k + 1] = e
    BY <1>2
<1> HIDE DEF u, w
<1>5. Len(u) = Len(w) /\ Len(u) = Len(s) + 1 - k
    BY <1>1, <1>3, <1>4
<1>6. ASSUME NEW i \in 1..Len(u) PROVE u[i] = w[i]
  <2>1. CASE i = Len(s) + 1 - k
    BY <1>1, <1>3, <1>4, <2>1
  <2>2. CASE i # Len(s) + 1 - k
    <3>1. i \in 1..(Len(s) - k) /\ k + i \in 1..Len(s) /\ i \in 1..(Len(s) + 1 - k)
      BY <1>1, <1>5, <2>2
    <3>2. u[i] = s[k + i] /\ w[i] = s[k + i]
      BY <1>1, <1>2, <1>3, <1>4, <3>1
    <3>3. QED
      BY <3>2
  <2>3. QED
    BY <2>1, <2>2
<1>7. u = w
    BY <1>3, <1>4, <1>5, <1>6, SeqEqual
<1>8. QED
    BY <1>7 DEF t, u, v, w

\* An initialised buffer is the empty queue.
LEMMA InitRefines == Init => Fifo!FifoInit
<1> SUFFICES ASSUME Init PROVE Contents = << >>
    BY DEF Fifo!FifoInit
<1>1. IInv
    BY InitInv
<1>2. Contents = SubSeq(sent, taken + 1, Len(sent))
    BY <1>1, InvImpliesIntact DEF ContentsIntact
<1>3. QED
    BY <1>2 DEF Init

\* Every step of the buffer is a step of the byte queue or leaves the
\* stored bytes alone.
LEMMA StepRefines == IInv /\ IInv' /\ [Next]_vars => [Fifo!FifoNext]_Contents
<1> SUFFICES ASSUME IInv, IInv', [Next]_vars PROVE [Fifo!FifoNext]_Contents
    OBVIOUS
<1>1. /\ Contents = SubSeq(sent, taken + 1, Len(sent))
      /\ Contents' = SubSeq(sent', taken' + 1, Len(sent'))
  <2>1. ContentsIntact
    BY InvImpliesIntact
  <2>2. ContentsIntact'
    BY InvImpliesIntact, PTL
  <2>3. QED
    BY <2>1, <2>2 DEF ContentsIntact
<1>2. /\ sent \in Seq(Byte) /\ taken \in Nat /\ taken <= Len(sent) /\ Len(sent) \in Nat
      /\ Size \in Nat
    BY RingAssumption DEF IInv, TypeOK, PositionInv
<1>3. Len(Contents) = Len(sent) - taken
    BY <1>1, <1>2
<1>4. ASSUME sent' = sent, taken' = taken PROVE [Fifo!FifoNext]_Contents
    BY <1>1, <1>4
<1>5. ASSUME NEW n \in Nat, n >= 1, taken + n <= Len(sent), sent' = sent, taken' = taken + n
      PROVE  Fifo!FifoNext
  <2>1. n \in 1..Len(Contents)
    BY <1>2, <1>3, <1>5
  <2>2. Contents' = SubSeq(Contents, n + 1, Len(Contents))
    BY <1>1, <1>2, <1>3, <1>5
  <2>3. Fifo!Take(n)
    BY <2>2 DEF Fifo!Take
  <2>4. QED
    BY <2>1, <2>3 DEF Fifo!FifoNext
<1>6. CASE Reset
  <2>1. Contents' = << >>
    BY <1>1, <1>6 DEF Reset
  <2>2. QED
    BY <2>1 DEF Fifo!FifoNext, Fifo!Clear
<1>7. CASE AdvanceHead
  <2>1. /\ sent' = Append(sent, Head(pdata)) /\ taken' = taken
        /\ Head(pdata) \in Byte
    BY <1>7 DEF AdvanceHead, IInv, TypeOK, ProducerInv
  <2>2. Len(Contents) < Size
    BY <1>2, <1>3, <1>7 DEF AdvanceHead, IInv, TypeOK, ProducerInv
  <2>3. Contents' = Append(Contents, Head(pdata))
    BY <1>1, <1>2, <2>1, WindowGrows
  <2>4. Fifo!Put(Head(pdata))
    BY <2>2, <2>3 DEF Fifo!Put
  <2>5. QED
    BY <2>1, <2>4 DEF Fifo!FifoNext
<1>8. CASE AdvanceTail
  <2>1. taken + 1 <= Len(sent)
    BY <1>2, <1>8 DEF AdvanceTail, IInv, TypeOK, ConsumerInv
  <2>2. QED
    BY <1>5, <1>8, <2>1 DEF AdvanceTail
<1>9. CASE AdvanceSkip
  <2>1. cleft \in Nat /\ cleft >= 1 /\ taken + cleft <= Len(sent)
    BY <1>9 DEF AdvanceSkip, IInv, TypeOK, ConsumerInv
  <2>2. QED
    BY <1>5, <1>9, <2>1 DEF AdvanceSkip
<1>10. CASE Producer /\ ~AdvanceHead
    BY <1>4, <1>10 DEF Producer, PutByte, Write, StoreByte
<1>11. CASE Consumer /\ ~AdvanceTail /\ ~AdvanceSkip
    BY <1>4, <1>11 DEF Consumer, GetByte, Read, Peek, Skip, LoadByte, PeekByte
<1>12. CASE UNCHANGED vars
    BY <1>4, <1>12 DEF vars
<1>13. QED
    BY <1>6, <1>7, <1>8, <1>9, <1>10, <1>11, <1>12 DEF Next

\* Seen through its indices the buffer behaves as a bounded queue: every step
\* of the producer or the consumer puts one byte, takes a prefix, clears the
\* queue or leaves it as it is (the whole of anbo_rb.c).
THEOREM RefinesFifo == Spec => ImplementsFifo
<1>1. QED
    BY InitRefines, StepRefines, Invariance, PTL DEF Spec, ImplementsFifo, Fifo!FifoSpec
=============================================================================
