--------------------------- MODULE EvtPoolProofs ---------------------------
(***************************************************************************)
(* Proofs about EvtPool for any number of blocks, contexts and subscribers *)
(* and any queue depth.                                                    *)
(*                                                                         *)
(* The history variable chain turns the linked free list into a sequence,  *)
(* and Contents turns the masked indices of the event queue into one.  The *)
(* first lemmas say what the operations do to the two sequences and to the *)
(* sets FreeBlocks and Queued; the rest of the argument is about who owns  *)
(* a block and needs only those sets.                                      *)
(***************************************************************************)
EXTENDS EvtPool, Lemmas, SequenceTheorems

----------------------------------------------------------------------------
\* The event queue as a sequence

\* The masked difference of two indices.
LEMMA CountIs ==
    ASSUME NEW h \in 0..(Depth - 1), NEW t \in 0..(Depth - 1)
    PROVE  /\ (h - t) % Depth = IF h >= t THEN h - t ELSE h - t + Depth
           /\ (h - t) % Depth \in 0..(Depth - 1)
<1>1. Depth \in Nat \ {0}
    BY PoolAssumption
<1>2. h - t \in Int
    BY <1>1
<1>3. CASE h >= t
  <2>1. h - t \in 0..(Depth - 1)
    BY <1>1, <1>3
  <2>2. QED
    BY <1>1, <1>2, <1>3, <2>1, NearRemainder
<1>4. CASE h < t
  <2>1. h - t \in (0 - Depth)..(0 - 1) /\ h - t + Depth \in 0..(Depth - 1)
    BY <1>1, <1>4
  <2>2. (h - t) % Depth = h - t + Depth
    BY <1>1, <1>2, <2>1, NearRemainder
  <2>3. ~(h >= t)
    BY <1>1, <1>4
  <2>4. QED
    BY <2>1, <2>2, <2>3
<1>5. QED
    BY <1>1, <1>3, <1>4

\* The slot of the i-th event after index t.
LEMMA SlotIs ==
    ASSUME NEW t \in 0..(Depth - 1), NEW i \in 1..Depth
    PROVE  /\ (t + i - 1) % Depth = IF t + i - 1 < Depth THEN t + i - 1 ELSE t + i - 1 - Depth
           /\ (t + i - 1) % Depth \in 0..(Depth - 1)
<1>1. Depth \in Nat \ {0}
    BY PoolAssumption
<1>2. t + i - 1 \in Int
    BY <1>1
<1>3. CASE t + i - 1 < Depth
  <2>1. t + i - 1 \in 0..(Depth - 1)
    BY <1>1, <1>3
  <2>2. QED
    BY <1>1, <1>2, <1>3, <2>1, NearRemainder
<1>4. CASE t + i - 1 >= Depth
  <2>1. t + i - 1 \in Depth..(2 * Depth - 1) /\ t + i - 1 - Depth \in 0..(Depth - 1)
    BY <1>1, <1>4
  <2>2. (t + i - 1) % Depth = t + i - 1 - Depth
    BY <1>1, <1>2, <2>1, NearRemainder
  <2>3. ~(t + i - 1 < Depth)
    BY <1>1, <1>2, <1>4
  <2>4. QED
    BY <2>1, <2>2, <2>3
<1>5. QED
    BY <1>1, <1>3, <1>4

\* The successor of an index.
LEMMA NextIs ==
    ASSUME NEW t \in 0..(Depth - 1)
    PROVE  /\ NextIndex(t) = IF t + 1 = Depth THEN 0 ELSE t + 1
           /\ NextIndex(t) \in 0..(Depth - 1)
<1>1. Depth \in Nat /\ Depth >= 2 /\ 2 \in 1..Depth
    BY PoolAssumption
<1>2. t + 2 - 1 = t + 1
    BY <1>1
<1>3. QED
    BY <1>1, <1>2, SlotIs DEF NextIndex

\* A posted event becomes the last one of a queue that was not full.
LEMMA QueuePut ==
    ASSUME TypeOK, NEW b \in Block, ~QueueFull,
           evtq' = [evtq EXCEPT ![qhead] = b], qhead' = NextIndex(qhead), qtail' = qtail
    PROVE  /\ Count \in Nat /\ Count + 1 <= Depth - 1
           /\ Count' = Count + 1
           /\ \A i \in 1..Count : Contents'[i] = Contents[i]
           /\ Contents'[Count + 1] = b
           /\ Queued' = Queued \cup {b}
           /\ evtq' \in [0..(Depth - 1) -> Block \cup {NULL}]
           /\ qhead' \in 0..(Depth - 1) /\ qtail' \in 0..(Depth - 1)
<1>1. /\ Depth \in Nat /\ Depth >= 2
      /\ qhead \in 0..(Depth - 1) /\ qtail \in 0..(Depth - 1)
      /\ evtq \in [0..(Depth - 1) -> Block \cup {NULL}]
    BY PoolAssumption DEF TypeOK
<1>2. /\ qhead' = IF qhead + 1 = Depth THEN 0 ELSE qhead + 1
      /\ qhead' \in 0..(Depth - 1) /\ qhead' # qtail
    BY <1>1, NextIs DEF QueueFull
<1>3. Count = IF qhead >= qtail THEN qhead - qtail ELSE qhead - qtail + Depth
    BY <1>1, CountIs DEF Count
<1>4. Count' = IF qhead' >= qtail THEN qhead' - qtail ELSE qhead' - qtail + Depth
    BY <1>1, <1>2, CountIs DEF Count
<1>5. Count \in Nat /\ Count + 1 <= Depth - 1 /\ Count' = Count + 1
    BY <1>1, <1>2, <1>3, <1>4
<1> HIDE DEF Count
<1>6. ASSUME NEW i \in 1..(Count + 1)
      PROVE  Contents'[i] = IF i = Count + 1 THEN b ELSE Contents[i]
  <2>1. i \in 1..Depth /\ i \in Int
    BY <1>1, <1>5
  <2>2. /\ (qtail + i - 1) % Depth = IF qtail + i - 1 < Depth THEN qtail + i - 1 ELSE qtail + i - 1 - Depth
        /\ (qtail + i - 1) % Depth \in 0..(Depth - 1)
    BY <1>1, <2>1, SlotIs
  <2>3. (qtail + i - 1) % Depth = qhead <=> i = Count + 1
    BY <1>1, <1>3, <1>5, <2>1, <2>2
  <2>4. Contents'[i] = evtq'[(qtail + i - 1) % Depth]
    BY <1>5, <2>1 DEF Contents
  <2>5. i # Count + 1 => Contents[i] = evtq[(qtail + i - 1) % Depth]
    BY <1>5, <2>1 DEF Contents
  <2>6. QED
    BY <1>1, <2>2, <2>3, <2>4, <2>5
<1>7. /\ \A i \in 1..Count : Contents'[i] = Contents[i]
      /\ Contents'[Count + 1] = b
    BY <1>5, <1>6
<1>8. Queued' = Queued \cup {b}
  <2>1. Queued' = {Contents'[i] : i \in 1..(Count + 1)}
    BY <1>5 DEF Queued
  <2>2. QED
    BY <1>5, <1>7, <2>1 DEF Queued
<1>9. evtq' \in [0..(Depth - 1) -> Block \cup {NULL}]
    BY <1>1
<1>10. QED
    BY <1>1, <1>2, <1>5, <1>7, <1>8, <1>9

\* The event taken from the queue was the first one.
LEMMA QueueTake ==
    ASSUME TypeOK, ~QueueEmpty, qtail' = NextIndex(qtail), UNCHANGED <<evtq, qhead>>
    PROVE  /\ Count \in Nat /\ Count >= 1
           /\ Count' = Count - 1
           /\ Contents[1] = evtq[qtail]
           /\ \A i \in 1..(Count - 1) : Contents'[i] = Contents[i + 1]
           /\ qtail' \in 0..(Depth - 1)
<1>1. /\ Depth \in Nat /\ Depth >= 2
      /\ qhead \in 0..(Depth - 1) /\ qtail \in 0..(Depth - 1) /\ qhead # qtail
    BY PoolAssumption DEF TypeOK, QueueEmpty
<1>2. /\ qtail' = IF qtail + 1 = Depth THEN 0 ELSE qtail + 1
      /\ qtail' \in 0..(Depth - 1)
    BY <1>1, NextIs
<1>3. Count = IF qhead >= qtail THEN qhead - qtail ELSE qhead - qtail + Depth
    BY <1>1, CountIs DEF Count
<1>4. Count' = IF qhead >= qtail' THEN qhead - qtail' ELSE qhead - qtail' + Depth
    BY <1>1, <1>2, CountIs DEF Count
<1>5. Count \in Nat /\ Count >= 1 /\ Count <= Depth - 1 /\ Count' = Count - 1
    BY <1>1, <1>2, <1>3, <1>4
<1> HIDE DEF Count
<1>6. Contents[1] = evtq[qtail]
  <2>1. 1 \in 1..Depth /\ 1 \in 1..Count
    BY <1>1, <1>5
  <2>2. (qtail + 1 - 1) % Depth = qtail
    BY <1>1, <2>1, SlotIs
  <2>3. Contents[1] = evtq[(qtail + 1 - 1) % Depth]
    BY <2>1 DEF Contents
  <2>4. QED
    BY <2>2, <2>3
<1>7. ASSUME NEW i \in 1..(Count - 1) PROVE Contents'[i] = Contents[i + 1]
  <2>1. i \in 1..Depth /\ i + 1 \in 1..Depth /\ i + 1 \in 1..Count
    BY <1>1, <1>5
  <2>2. (qtail' + i - 1) % Depth = IF qtail' + i - 1 < Depth THEN qtail' + i - 1 ELSE qtail' + i - 1 - Depth
    BY <1>2, <2>1, SlotIs
  <2>3. (qtail + (i + 1) - 1) % Depth = IF qtail + (i + 1) - 1 < Depth THEN qtail + (i + 1) - 1 ELSE qtail + (i + 1) - 1 - Depth
    BY <1>1, <2>1, SlotIs
  <2>4. (qtail' + i - 1) % Depth = (qtail + (i + 1) - 1) % Depth
    BY <1>1, <1>2, <2>1, <2>2, <2>3
  <2>5. Contents'[i] = evtq[(qtail' + i - 1) % Depth]
    BY <1>5, <2>1 DEF Contents
  <2>6. Contents[i + 1] = evtq[(qtail + (i + 1) - 1) % Depth]
    BY <2>1 DEF Contents
  <2>7. QED
    BY <2>4, <2>5, <2>6
<1>8. QED
    BY <1>2, <1>5, <1>6, <1>7

----------------------------------------------------------------------------
\* The free list as a sequence

\* Taking the head of the free list takes the first block of the sequence.
LEMMA FreeListTake ==
    ASSUME TypeOK, FreeListIntact, freeHead # NULL,
           freeHead' = link[freeHead], freeCount' = freeCount - 1,
           chain' = Tail(chain), link' = link
    PROVE  /\ freeHead \in Block /\ freeHead \in FreeBlocks
           /\ FreeBlocks' = FreeBlocks \ {freeHead}
           /\ FreeListIntact'
           /\ freeHead' \in Block \cup {NULL} /\ freeCount' \in Nat /\ chain' \in Seq(Block)
<1>1. chain \in Seq(Block) /\ Len(chain) \in Nat
    BY DEF TypeOK
<1>2. chain # << >> /\ freeHead = chain[1] /\ Len(chain) >= 1
    BY <1>1 DEF FreeListIntact
<1>3. /\ chain' \in Seq(Block) /\ Len(chain') = Len(chain) - 1
      /\ \A i \in 1..Len(chain') : chain'[i] = chain[i + 1]
    BY <1>1, <1>2
<1>4. freeHead \in Block /\ freeHead \in FreeBlocks
    BY <1>1, <1>2 DEF FreeBlocks
<1>5. FreeBlocks' = FreeBlocks \ {freeHead}
  <2>1. ASSUME NEW x \in FreeBlocks' PROVE x \in FreeBlocks /\ x # freeHead
    <3>1. PICK i \in 1..Len(chain') : x = chain'[i]
      BY DEF FreeBlocks
    <3>2. i + 1 \in 1..Len(chain) /\ 1 \in 1..Len(chain) /\ i + 1 # 1 /\ x = chain[i + 1]
      BY <1>1, <1>2, <1>3, <3>1
    <3>3. QED
      BY <1>2, <3>2 DEF FreeBlocks, FreeListIntact
  <2>2. ASSUME NEW x \in FreeBlocks, x # freeHead PROVE x \in FreeBlocks'
    <3>1. PICK i \in 1..Len(chain) : x = chain[i]
      BY DEF FreeBlocks
    <3>2. i - 1 \in 1..Len(chain') /\ (i - 1) + 1 = i
      BY <1>1, <1>2, <1>3, <2>2, <3>1
    <3>3. QED
      BY <1>3, <3>1, <3>2 DEF FreeBlocks
  <2>3. QED
    BY <2>1, <2>2
<1>6. freeCount' \in Nat /\ freeCount' = Len(chain')
    BY <1>1, <1>2, <1>3 DEF FreeListIntact
<1>7. freeHead' = IF chain' = << >> THEN NULL ELSE chain'[1]
  <2>1. link[chain[1]] = IF 1 < Len(chain) THEN chain[2] ELSE NULL
    BY <1>1, <1>2 DEF FreeListIntact
  <2>2. chain' = << >> <=> Len(chain) = 1
    BY <1>1, <1>2, <1>3
  <2>3. Len(chain) # 1 => chain'[1] = chain[2]
    BY <1>1, <1>2, <1>3
  <2>4. QED
    BY <1>1, <1>2, <2>1, <2>2, <2>3
<1>8. FreeListIntact'
  <2>1. \A i, j \in 1..Len(chain') : chain'[i] = chain'[j] => i = j
    <3> SUFFICES ASSUME NEW i \in 1..Len(chain'), NEW j \in 1..Len(chain'), chain'[i] = chain'[j]
                 PROVE  i = j
      OBVIOUS
    <3>1. i + 1 \in 1..Len(chain) /\ j + 1 \in 1..Len(chain) /\ chain[i + 1] = chain[j + 1]
      BY <1>1, <1>3
    <3>2. i + 1 = j + 1
      BY <3>1 DEF FreeListIntact
    <3>3. QED
      BY <1>1, <3>2
  <2>2. ASSUME NEW i \in 1..Len(chain')
        PROVE  link'[chain'[i]] = IF i < Len(chain') THEN chain'[i + 1] ELSE NULL
    <3>1. i + 1 \in 1..Len(chain) /\ i \in Int
      BY <1>1, <1>3
    <3>2. link[chain[i + 1]] = IF i + 1 < Len(chain) THEN chain[(i + 1) + 1] ELSE NULL
      BY <3>1 DEF FreeListIntact
    <3>3. i < Len(chain') <=> i + 1 < Len(chain)
      BY <1>1, <1>3, <3>1
    <3>4. i < Len(chain') => chain'[i + 1] = chain[(i + 1) + 1]
      BY <1>1, <1>3, <3>1
    <3>5. chain'[i] = chain[i + 1]
      BY <1>3
    <3>6. QED
      BY <3>2, <3>3, <3>4, <3>5
  <2>3. QED
    BY <1>6, <1>7, <2>1, <2>2 DEF FreeListIntact
<1>9. freeHead' \in Block \cup {NULL}
    BY <1>4 DEF TypeOK
<1>10. QED
    BY <1>3, <1>4, <1>5, <1>6, <1>8, <1>9

\* Giving a block back puts it in front of the sequence.
LEMMA FreeListPut ==
    ASSUME TypeOK, FreeListIntact, NEW b \in Block, b \notin FreeBlocks, PoolFree(b)
    PROVE  /\ FreeBlocks' = FreeBlocks \cup {b}
           /\ FreeListIntact'
           /\ freeHead' \in Block \cup {NULL} /\ freeCount' \in Nat /\ chain' \in Seq(Block)
           /\ link' \in [Block -> Block \cup {NULL}] /\ ref' \in [Block -> 0..(RefMod - 1)]
           /\ \A x \in Block : x # b => ref'[x] = ref[x]
<1>1. /\ chain \in Seq(Block) /\ Len(chain) \in Nat /\ freeHead \in Block \cup {NULL}
      /\ freeCount = Len(chain)
      /\ link \in [Block -> Block \cup {NULL}] /\ ref \in [Block -> 0..(RefMod - 1)]
      /\ LinkByte \in [Block \cup {NULL} -> 0..(RefMod - 1)]
    BY PoolAssumption DEF TypeOK, FreeListIntact
<1>2. /\ chain' = <<b>> \o chain /\ freeHead' = b /\ freeCount' = freeCount + 1
      /\ link' = [link EXCEPT ![b] = freeHead]
      /\ ref' = [ref EXCEPT ![b] = LinkByte[freeHead]]
    BY DEF PoolFree
<1>3. /\ chain' \in Seq(Block) /\ Len(chain') = Len(chain) + 1 /\ chain'[1] = b
      /\ \A i \in 1..Len(chain) : chain'[i + 1] = chain[i]
    BY <1>1, <1>2
<1>4. ASSUME NEW i \in 1..Len(chain'), i # 1
      PROVE  i - 1 \in 1..Len(chain) /\ chain'[i] = chain[i - 1]
  <2>1. i - 1 \in 1..Len(chain) /\ (i - 1) + 1 = i
    BY <1>1, <1>3, <1>4
  <2>2. QED
    BY <1>3, <2>1
<1>5. FreeBlocks' = FreeBlocks \cup {b}
  <2>1. ASSUME NEW x \in FreeBlocks' PROVE x \in FreeBlocks \cup {b}
    BY <1>3, <1>4 DEF FreeBlocks
  <2>2. b \in FreeBlocks'
    BY <1>1, <1>3 DEF FreeBlocks
  <2>3. ASSUME NEW x \in FreeBlocks PROVE x \in FreeBlocks'
    <3>1. PICK i \in 1..Len(chain) : x = chain[i]
      BY DEF FreeBlocks
    <3>2. i + 1 \in 1..Len(chain')
      BY <1>1, <1>3
    <3>3. QED
      BY <1>3, <3>1, <3>2 DEF FreeBlocks
  <2>4. QED
    BY <2>1, <2>2, <2>3
<1>6. FreeListIntact'
  <2>1. \A i, j \in 1..Len(chain') : chain'[i] = chain'[j] => i = j
    <3> SUFFICES ASSUME NEW i \in 1..Len(chain'), NEW j \in 1..Len(chain'), chain'[i] = chain'[j]
                 PROVE  i = j
      OBVIOUS
    <3>1. \A k \in 1..Len(chain) : chain[k] # b
      BY DEF FreeBlocks
    <3>2. i = 1 <=> j = 1
      BY <1>3, <1>4, <3>1
    <3>3. CASE i # 1 /\ j # 1
      <4>1. i - 1 = j - 1
        BY <1>4, <3>3 DEF FreeListIntact
      <4>2. QED
        BY <1>1, <1>3, <4>1
    <3>4. QED
      BY <3>2, <3>3
  <2>2. ASSUME NEW i \in 1..Len(chain')
        PROVE  link'[chain'[i]] = IF i < Len(chain') THEN chain'[i + 1] ELSE NULL
    <3>1. CASE i = 1
      <4>1. link'[chain'[i]] = freeHead
        BY <1>1, <1>2, <1>3, <3>1
      <4>2. chain = << >> <=> Len(chain) = 0
        BY <1>1
      <4>3. Len(chain) # 0 => chain'[1 + 1] = chain[1]
        BY <1>1, <1>3
      <4>4. i < Len(chain') <=> Len(chain) # 0
        BY <1>1, <1>3, <3>1
      <4>5. QED
        BY <3>1, <4>1, <4>2, <4>3, <4>4 DEF FreeListIntact
    <3>2. CASE i # 1
      <4>1. i - 1 \in 1..Len(chain) /\ chain'[i] = chain[i - 1]
        BY <1>4, <3>2
      <4>2. chain[i - 1] \in Block /\ chain[i - 1] # b
        BY <1>1, <4>1 DEF FreeBlocks
      <4>3. link'[chain'[i]] = link[chain[i - 1]]
        BY <1>1, <1>2, <4>1, <4>2
      <4>4. link[chain[i - 1]] = IF i - 1 < Len(chain) THEN chain[(i - 1) + 1] ELSE NULL
        BY <4>1 DEF FreeListIntact
      <4>5. i < Len(chain') <=> i - 1 < Len(chain)
        <5>1. i \in Int /\ Len(chain) \in Int /\ Len(chain') = Len(chain) + 1
          BY <1>1, <1>3
        <5>2. QED
          BY <5>1
      <4>6. i < Len(chain') => chain'[i + 1] = chain[(i - 1) + 1]
        <5>1. (i - 1) + 1 = i
          BY <1>1, <1>3
        <5>2. i < Len(chain') => i \in 1..Len(chain)
          BY <1>1, <1>3
        <5>3. QED
          BY <1>3, <5>1, <5>2
      <4>7. QED
        BY <4>3, <4>4, <4>5, <4>6
    <3>3. QED
      BY <3>1, <3>2
  <2>3. chain' # << >> /\ freeHead' = chain'[1] /\ freeCount' = Len(chain')
    BY <1>1, <1>2, <1>3
  <2>4. QED
    BY <2>1, <2>2, <2>3 DEF FreeListIntact
<1>7. /\ link' \in [Block -> Block \cup {NULL}]
      /\ ref' \in [Block -> 0..(RefMod - 1)]
      /\ \A x \in Block : x # b => ref'[x] = ref[x]
  <2>1. LinkByte[freeHead] \in 0..(RefMod - 1)
    BY <1>1
  <2>2. QED
    BY <1>1, <1>2, <2>1
<1>8. freeHead' \in Block \cup {NULL} /\ freeCount' \in Nat
    BY <1>1, <1>2
<1>9. QED
    BY <1>3, <1>5, <1>6, <1>7, <1>8

----------------------------------------------------------------------------
\* Steps that leave the queue, or the pool, alone

\* A step that leaves the queue alone leaves its contents alone.
LEMMA QueueSame ==
    ASSUME UNCHANGED queueVars
    PROVE  Count' = Count /\ Contents' = Contents /\ Queued' = Queued
<1>1. Count' = Count
    BY DEF queueVars, Count
<1>2. Contents' = Contents
    BY <1>1 DEF queueVars, Contents
<1>3. QED
    BY <1>1, <1>2 DEF Queued

\* A step that leaves the pool alone leaves the free list intact.
LEMMA PoolSame ==
    ASSUME UNCHANGED poolVars, FreeListIntact
    PROVE  FreeBlocks' = FreeBlocks /\ FreeListIntact'
BY DEF poolVars, FreeBlocks, FreeListIntact

\* What a context works on is nobody else's.
LEMMA BusyBlock ==
    ASSUME IInv, NEW c \in Ctx, Busy(c)
    PROVE  /\ blk[c] \in Block /\ blk[c] \notin FreeBlocks /\ blk[c] \notin Queued
           /\ held[blk[c]] = {}
           /\ dpc # "idle" => devt # blk[c]
           /\ \A d \in Ctx : Busy(d) /\ d # c => blk[d] # blk[c]
BY DEF IInv, CallInv, DispatchInv, Elsewhere

----------------------------------------------------------------------------
\* Each action preserves the invariant

\* An allocation moves a free block into the hands of its caller.
LEMMA AllocInv == ASSUME IInv, NEW c \in Ctx, Alloc(c) PROVE IInv'
<1>1. TypeOK /\ FreeListIntact /\ QueueInv /\ CallInv /\ DispatchInv /\ HeldInv /\ NoneLost /\ RefCountExact
    BY DEF IInv
<1>2. /\ freeHead \in Block /\ freeHead \in FreeBlocks
      /\ FreeBlocks' = FreeBlocks \ {freeHead}
      /\ FreeListIntact'
      /\ freeHead' \in Block \cup {NULL} /\ freeCount' \in Nat /\ chain' \in Seq(Block)
    BY <1>1, FreeListTake DEF Alloc
<1>3. Count' = Count /\ Contents' = Contents /\ Queued' = Queued
    BY QueueSame DEF Alloc
<1>4. /\ pc[c] = "idle"
      /\ pc' = [pc EXCEPT ![c] = "fill"] /\ blk' = [blk EXCEPT ![c] = freeHead]
      /\ link' = link /\ ref' = ref /\ held' = held /\ dpc' = dpc /\ devt' = devt
      /\ evtq' = evtq /\ qhead' = qhead /\ qtail' = qtail
    BY DEF Alloc, MayCall, Enter, dispVars, queueVars
<1>5. /\ freeHead \notin Queued /\ held[freeHead] = {}
      /\ dpc # "idle" => devt # freeHead
      /\ \A d \in Ctx : Busy(d) => blk[d] # freeHead
    BY <1>1, <1>2 DEF QueueInv, HeldInv, DispatchInv, CallInv, Elsewhere
<1>6. pc \in [Ctx -> {"idle", "fill", "refused", "reclaim"}] /\ blk \in [Ctx -> Block \cup {NULL}]
    BY <1>1 DEF TypeOK
<1>7. /\ pc'[c] = "fill" /\ blk'[c] = freeHead
      /\ \A d \in Ctx : d # c => pc'[d] = pc[d] /\ blk'[d] = blk[d]
    BY <1>4, <1>6
<1>8. TypeOK'
    BY <1>1, <1>2, <1>4 DEF TypeOK
<1>9. QueueInv'
    BY <1>1, <1>2, <1>3 DEF QueueInv
<1>10. CallInv'
    BY <1>1, <1>2, <1>3, <1>4, <1>5, <1>7 DEF CallInv, Busy, Elsewhere
<1>11. DispatchInv'
    BY <1>1, <1>2, <1>3, <1>4, <1>5, <1>7 DEF DispatchInv, Busy, Elsewhere
<1>12. HeldInv'
    BY <1>1, <1>2, <1>3, <1>4 DEF HeldInv, Elsewhere
<1>13. NoneLost'
  <2> SUFFICES ASSUME NEW b \in Block PROVE b \in FreeBlocks' \/ b \in Queued' \/ InHands(b)'
    BY DEF NoneLost
  <2>1. CASE b = freeHead
    BY <1>7, <2>1 DEF InHands
  <2>2. CASE b # freeHead
    <3>1. InHands(b) => InHands(b)'
      BY <1>4, <1>7 DEF InHands
    <3>2. QED
      BY <1>1, <1>2, <1>3, <2>2, <3>1 DEF NoneLost
  <2>3. QED
    BY <2>1, <2>2
<1>14. RefCountExact'
    BY <1>1, <1>4 DEF RefCountExact
<1>15. QED
    BY <1>2, <1>8, <1>9, <1>10, <1>11, <1>12, <1>13, <1>14 DEF IInv

\* A call that ends by returning its block moves it from its hands to the
\* free list (FreeRefused and Reclaim).
LEMMA GiveBackInv ==
    ASSUME IInv, NEW c \in Ctx, Busy(c), PoolFree(blk[c]), Return(c),
           UNCHANGED <<queueVars, dispVars, held>>
    PROVE  IInv'
<1> DEFINE f == blk[c]
<1>1. TypeOK /\ FreeListIntact /\ QueueInv /\ CallInv /\ DispatchInv /\ HeldInv /\ NoneLost /\ RefCountExact
    BY DEF IInv
<1>2. /\ f \in Block /\ f \notin FreeBlocks /\ f \notin Queued
      /\ held[f] = {}
      /\ dpc # "idle" => devt # f
      /\ \A d \in Ctx : Busy(d) /\ d # c => blk[d] # f
    BY BusyBlock
<1>3. /\ FreeBlocks' = FreeBlocks \cup {f}
      /\ FreeListIntact'
      /\ freeHead' \in Block \cup {NULL} /\ freeCount' \in Nat /\ chain' \in Seq(Block)
      /\ link' \in [Block -> Block \cup {NULL}] /\ ref' \in [Block -> 0..(RefMod - 1)]
      /\ \A x \in Block : x # f => ref'[x] = ref[x]
    BY <1>1, <1>2, FreeListPut
<1>4. Count' = Count /\ Contents' = Contents /\ Queued' = Queued
    BY QueueSame
<1>5. /\ pc' = [pc EXCEPT ![c] = "idle"] /\ blk' = [blk EXCEPT ![c] = NULL]
      /\ held' = held /\ dpc' = dpc /\ devt' = devt
      /\ evtq' = evtq /\ qhead' = qhead /\ qtail' = qtail
    BY DEF Return, Enter, dispVars, queueVars
<1>6. pc \in [Ctx -> {"idle", "fill", "refused", "reclaim"}] /\ blk \in [Ctx -> Block \cup {NULL}]
    BY <1>1 DEF TypeOK
<1> HIDE DEF f
<1>7. /\ pc'[c] = "idle"
      /\ \A d \in Ctx : d # c => pc'[d] = pc[d] /\ blk'[d] = blk[d]
    BY <1>5, <1>6
<1>8. TypeOK'
    BY <1>1, <1>3, <1>5 DEF TypeOK
<1>9. QueueInv'
    BY <1>1, <1>2, <1>3, <1>4 DEF QueueInv
<1>10. CallInv'
  <2>1. ASSUME NEW d \in Ctx, pc'[d] # "idle"
        PROVE  /\ Busy(d) /\ blk'[d] = blk[d]
               /\ blk[d] \in Block /\ Elsewhere(blk[d]) /\ held[blk[d]] = {}
               /\ blk[d] # f
    BY <1>1, <1>2, <1>7, <2>1 DEF CallInv, Busy
  <2>2. ASSUME NEW d \in Ctx, pc'[d] # "idle"
        PROVE  blk'[d] \in Block /\ Elsewhere(blk[d])' /\ held'[blk'[d]] = {}
    <3>1. blk'[d] = blk[d] /\ blk[d] \in Block /\ Elsewhere(blk[d]) /\ blk[d] # f /\ held[blk[d]] = {}
      BY <2>1, <2>2
    <3>2. blk[d] \notin FreeBlocks' /\ blk[d] \notin Queued'
      BY <1>3, <1>4, <3>1 DEF Elsewhere
    <3>3. QED
      BY <1>5, <3>1, <3>2 DEF Elsewhere
  <2>3. \A d, e \in Ctx : pc'[d] # "idle" /\ pc'[e] # "idle" /\ blk'[d] = blk'[e] => d = e
    BY <1>1, <2>1 DEF CallInv
  <2>4. QED
    BY <2>2, <2>3 DEF CallInv, Busy, Elsewhere
<1>11. DispatchInv'
    BY <1>1, <1>2, <1>3, <1>4, <1>5, <1>7 DEF DispatchInv, Busy, Elsewhere
<1>12. HeldInv'
    BY <1>1, <1>2, <1>3, <1>4, <1>5 DEF HeldInv, Elsewhere
<1>13. NoneLost'
  <2> SUFFICES ASSUME NEW b \in Block PROVE b \in FreeBlocks' \/ b \in Queued' \/ InHands(b)'
    BY DEF NoneLost
  <2>1. CASE b = f
    BY <1>3, <2>1
  <2>2. CASE b # f
    <3>1. InHands(b) => InHands(b)'
      BY <1>5, <1>7, <2>2 DEF InHands, f
    <3>2. QED
      BY <1>1, <1>3, <1>4, <2>2, <3>1 DEF NoneLost
  <2>3. QED
    BY <2>1, <2>2
<1>14. RefCountExact'
  <2> SUFFICES ASSUME NEW b \in Block, ((dpc = "publish" /\ devt = b) \/ held[b] # {})'
               PROVE  (ref[b] = Cardinality(held[b]) + (IF dpc = "publish" /\ devt = b THEN 1 ELSE 0))'
    BY DEF RefCountExact
  <2>1. b # f
    BY <1>2, <1>5
  <2>2. QED
    BY <1>1, <1>3, <1>5, <2>1 DEF RefCountExact
<1>15. QED
    BY <1>3, <1>8, <1>9, <1>10, <1>11, <1>12, <1>13, <1>14 DEF IInv

\* A post moves the block from the hands of its caller to the queue.
LEMMA PostAcceptedInv == ASSUME IInv, NEW c \in Ctx, PostAccepted(c) PROVE IInv'
<1> DEFINE f == blk[c]
<1>1. TypeOK /\ FreeListIntact /\ QueueInv /\ CallInv /\ DispatchInv /\ HeldInv /\ NoneLost /\ RefCountExact
    BY DEF IInv
<1>2. Busy(c)
    BY DEF PostAccepted, Busy
<1>3. /\ f \in Block /\ f \notin FreeBlocks /\ f \notin Queued
      /\ held[f] = {}
      /\ dpc # "idle" => devt # f
      /\ \A d \in Ctx : Busy(d) /\ d # c => blk[d] # f
    BY <1>2, BusyBlock
<1>4. /\ Count \in Nat
      /\ Count' = Count + 1
      /\ \A i \in 1..Count : Contents'[i] = Contents[i]
      /\ Contents'[Count + 1] = f
      /\ Queued' = Queued \cup {f}
      /\ evtq' \in [0..(Depth - 1) -> Block \cup {NULL}]
      /\ qhead' \in 0..(Depth - 1) /\ qtail' \in 0..(Depth - 1)
    BY <1>1, <1>3, QueuePut DEF PostAccepted
<1>5. FreeBlocks' = FreeBlocks /\ FreeListIntact'
    BY <1>1, PoolSame DEF PostAccepted
<1>6. /\ pc' = [pc EXCEPT ![c] = "idle"] /\ blk' = [blk EXCEPT ![c] = NULL]
      /\ held' = held /\ ref' = ref /\ dpc' = dpc /\ devt' = devt
      /\ freeHead' = freeHead /\ freeCount' = freeCount /\ link' = link /\ chain' = chain
    BY DEF PostAccepted, Return, Enter, dispVars, poolVars
<1>7. pc \in [Ctx -> {"idle", "fill", "refused", "reclaim"}] /\ blk \in [Ctx -> Block \cup {NULL}]
    BY <1>1 DEF TypeOK
<1> HIDE DEF f
<1>8. /\ pc'[c] = "idle"
      /\ \A d \in Ctx : d # c => pc'[d] = pc[d] /\ blk'[d] = blk[d]
    BY <1>6, <1>7
<1>9. TypeOK'
    BY <1>1, <1>4, <1>6 DEF TypeOK
<1>10. QueueInv'
  <2>1. \A i \in 1..Count : Contents[i] \in Queued
    BY DEF Queued
  <2>2. ASSUME NEW i \in 1..Count'
        PROVE  i \in 1..Count \/ i = Count + 1
    BY <1>4
  <2>3. \A i \in 1..Count' : Contents'[i] \in Block
    BY <1>1, <1>3, <1>4, <2>2 DEF QueueInv
  <2>4. ASSUME NEW i \in 1..Count', NEW j \in 1..Count', Contents'[i] = Contents'[j]
        PROVE  i = j
    BY <1>1, <1>3, <1>4, <2>1, <2>2, <2>4 DEF QueueInv
  <2>5. QED
    BY <1>1, <1>3, <1>4, <1>5, <2>3, <2>4 DEF QueueInv
<1>11. CallInv'
    BY <1>1, <1>3, <1>4, <1>5, <1>6, <1>8 DEF CallInv, Busy, Elsewhere
<1>12. DispatchInv'
    BY <1>1, <1>3, <1>4, <1>5, <1>6, <1>8 DEF DispatchInv, Busy, Elsewhere
<1>13. HeldInv'
    BY <1>1, <1>3, <1>4, <1>5, <1>6 DEF HeldInv, Elsewhere
<1>14. NoneLost'
  <2> SUFFICES ASSUME NEW b \in Block PROVE b \in FreeBlocks' \/ b \in Queued' \/ InHands(b)'
    BY DEF NoneLost
  <2>1. CASE b = f
    BY <1>4, <2>1
  <2>2. CASE b # f
    <3>1. InHands(b) => InHands(b)'
      BY <1>6, <1>8, <2>2 DEF InHands, f
    <3>2. QED
      BY <1>1, <1>4, <1>5, <2>2, <3>1 DEF NoneLost
  <2>3. QED
    BY <2>1, <2>2
<1>15. RefCountExact'
    BY <1>1, <1>6 DEF RefCountExact
<1>16. QED
    BY <1>5, <1>9, <1>10, <1>11, <1>12, <1>13, <1>14, <1>15 DEF IInv

\* A refused post leaves the block with its caller.
LEMMA PostRefusedInv == ASSUME IInv, NEW c \in Ctx, PostRefused(c) PROVE IInv'
<1>1. TypeOK /\ FreeListIntact /\ QueueInv /\ CallInv /\ DispatchInv /\ HeldInv /\ NoneLost /\ RefCountExact
    BY DEF IInv
<1>2. Count' = Count /\ Contents' = Contents /\ Queued' = Queued
    BY QueueSame DEF PostRefused
<1>3. FreeBlocks' = FreeBlocks /\ FreeListIntact'
    BY <1>1, PoolSame DEF PostRefused
<1>4. /\ pc[c] = "fill"
      /\ pc' = [pc EXCEPT ![c] = "refused"] /\ blk' = [blk EXCEPT ![c] = blk[c]]
      /\ held' = held /\ ref' = ref /\ dpc' = dpc /\ devt' = devt
      /\ freeHead' = freeHead /\ freeCount' = freeCount /\ link' = link /\ chain' = chain
      /\ evtq' = evtq /\ qhead' = qhead /\ qtail' = qtail
    BY DEF PostRefused, Enter, dispVars, poolVars, queueVars
<1>5. pc \in [Ctx -> {"idle", "fill", "refused", "reclaim"}] /\ blk \in [Ctx -> Block \cup {NULL}]
    BY <1>1 DEF TypeOK
<1>6. blk' = blk /\ \A d \in Ctx : pc'[d] # "idle" <=> pc[d] # "idle"
    BY <1>4, <1>5
<1>7. TypeOK'
    BY <1>1, <1>4 DEF TypeOK
<1>8. QueueInv' /\ CallInv' /\ DispatchInv' /\ HeldInv'
    BY <1>1, <1>2, <1>3, <1>4, <1>6 DEF QueueInv, CallInv, DispatchInv, HeldInv, Busy, Elsewhere
<1>9. NoneLost'
    BY <1>1, <1>2, <1>3, <1>4, <1>6 DEF NoneLost, InHands
<1>10. RefCountExact'
    BY <1>1, <1>4 DEF RefCountExact
<1>11. QED
    BY <1>3, <1>7, <1>8, <1>9, <1>10 DEF IInv

\* Taking an event moves it from the queue to the dispatcher.
LEMMA GetInv == IInv /\ Get => IInv'
<1> SUFFICES ASSUME IInv, Get PROVE IInv'
    OBVIOUS
<1> DEFINE f == evtq[qtail]
<1>1. TypeOK /\ FreeListIntact /\ QueueInv /\ CallInv /\ DispatchInv /\ HeldInv /\ NoneLost /\ RefCountExact
    BY DEF IInv
<1>2. /\ Count \in Nat /\ Count >= 1
      /\ Count' = Count - 1
      /\ Contents[1] = f
      /\ \A i \in 1..(Count - 1) : Contents'[i] = Contents[i + 1]
      /\ qtail' \in 0..(Depth - 1)
    BY <1>1, QueueTake DEF Get
<1>3. FreeBlocks' = FreeBlocks /\ FreeListIntact'
    BY <1>1, PoolSame DEF Get
<1>4. /\ devt' = f /\ dpc = "idle" /\ dpc' = "got"
      /\ pc' = pc /\ blk' = blk /\ held' = held /\ ref' = ref
      /\ freeHead' = freeHead /\ freeCount' = freeCount /\ link' = link /\ chain' = chain
      /\ evtq' = evtq /\ qhead' = qhead
    BY DEF Get, MayCall, callVars, poolVars
<1> HIDE DEF f
<1>5. \A i \in 1..Count : Contents[i] \in Queued /\ Contents[i] \in Block
    BY <1>1 DEF Queued, QueueInv
<1>6. Queued' = Queued \ {f}
  <2>1. ASSUME NEW x \in Queued' PROVE x \in Queued /\ x # f
    <3>1. PICK i \in 1..(Count - 1) : x = Contents[i + 1]
      BY <1>2 DEF Queued
    <3>2. i + 1 \in 1..Count /\ 1 \in 1..Count /\ i + 1 # 1
      BY <1>2
    <3>3. QED
      BY <1>1, <1>2, <1>5, <3>1, <3>2 DEF QueueInv
  <2>2. ASSUME NEW x \in Queued, x # f PROVE x \in Queued'
    <3>1. PICK i \in 1..Count : x = Contents[i]
      BY DEF Queued
    <3>2. i - 1 \in 1..Count' /\ i - 1 \in 1..(Count - 1) /\ (i - 1) + 1 = i
      BY <1>2, <2>2, <3>1
    <3>3. QED
      BY <1>2, <3>1, <3>2 DEF Queued
  <2>3. QED
    BY <2>1, <2>2
<1>7. f \in Queued /\ f \in Block
    BY <1>2, <1>5
<1>8. /\ f \notin FreeBlocks /\ held[f] = {}
      /\ \A c \in Ctx : Busy(c) => blk[c] # f
    BY <1>1, <1>7 DEF QueueInv, HeldInv, CallInv, Elsewhere
<1>9. TypeOK'
    BY <1>1, <1>2, <1>4, <1>7 DEF TypeOK
<1>10. QueueInv'
  <2>1. ASSUME NEW i \in 1..Count'
        PROVE  i + 1 \in 1..Count /\ Contents'[i] = Contents[i + 1] /\ i \in Int
    BY <1>2
  <2>2. \A i \in 1..Count' : Contents'[i] \in Block
    BY <1>5, <2>1
  <2>3. ASSUME NEW i \in 1..Count', NEW j \in 1..Count', Contents'[i] = Contents'[j]
        PROVE  i = j
    <3>1. i + 1 = j + 1
      BY <1>1, <2>1, <2>3 DEF QueueInv
    <3>2. QED
      BY <2>1, <3>1
  <2>4. QED
    BY <1>1, <1>3, <1>6, <2>2, <2>3 DEF QueueInv
<1>11. CallInv' /\ HeldInv'
    BY <1>1, <1>3, <1>4, <1>6 DEF CallInv, HeldInv, Busy, Elsewhere
<1>12. DispatchInv'
    BY <1>3, <1>4, <1>6, <1>7, <1>8 DEF DispatchInv, Busy, Elsewhere
<1>13. NoneLost'
    BY <1>1, <1>3, <1>4, <1>6 DEF NoneLost, InHands
<1>14. RefCountExact'
    BY <1>1, <1>4, <1>8 DEF RefCountExact
<1>15. QED
    BY <1>3, <1>9, <1>10, <1>11, <1>12, <1>13, <1>14 DEF IInv

\* The dispatcher's own reference is the only one when the publish begins.
LEMMA BeginDispatchInv == IInv /\ BeginDispatch => IInv'
<1> SUFFICES ASSUME IInv, BeginDispatch PROVE IInv'
    OBVIOUS
<1>1. TypeOK /\ FreeListIntact /\ QueueInv /\ CallInv /\ DispatchInv /\ HeldInv /\ NoneLost /\ RefCountExact
    BY DEF IInv
<1>2. Count' = Count /\ Contents' = Contents /\ Queued' = Queued
    BY QueueSame DEF BeginDispatch
<1>3. FreeBlocks' = FreeBlocks /\ FreeListIntact'
    BY <1>1, PoolSame DEF BeginDispatch
<1>4. /\ dpc = "got" /\ dpc' = "publish" /\ ref' = [ref EXCEPT ![devt] = 1]
      /\ devt' = devt /\ pc' = pc /\ blk' = blk /\ held' = held
      /\ freeHead' = freeHead /\ freeCount' = freeCount /\ link' = link /\ chain' = chain
      /\ evtq' = evtq /\ qhead' = qhead /\ qtail' = qtail
    BY DEF BeginDispatch, callVars, poolVars, queueVars
<1>5. devt \in Block /\ held[devt] = {} /\ ref \in [Block -> 0..(RefMod - 1)]
    BY <1>1, <1>4 DEF DispatchInv, TypeOK
<1>6. 1 \in 0..(RefMod - 1)
  <2>1. Cardinality(Sub) \in Nat
    BY PoolAssumption, FS_CardinalityType
  <2>2. QED
    BY <2>1, PoolAssumption
<1>7. TypeOK'
    BY <1>1, <1>4, <1>5, <1>6 DEF TypeOK
<1>8. QueueInv' /\ CallInv' /\ DispatchInv' /\ HeldInv'
    BY <1>1, <1>2, <1>3, <1>4 DEF QueueInv, CallInv, DispatchInv, HeldInv, Busy, Elsewhere
<1>9. NoneLost'
    BY <1>1, <1>2, <1>3, <1>4 DEF NoneLost, InHands
<1>10. RefCountExact'
  <2> SUFFICES ASSUME NEW b \in Block, devt = b \/ held[b] # {}
               PROVE  ref'[b] = Cardinality(held[b]) + (IF devt = b THEN 1 ELSE 0)
    BY <1>4 DEF RefCountExact
  <2>1. CASE b = devt
    BY <1>4, <1>5, <2>1, FS_EmptySet
  <2>2. CASE b # devt
    BY <1>1, <1>4, <1>5, <2>2 DEF RefCountExact
  <2>3. QED
    BY <2>1, <2>2
<1>11. QED
    BY <1>3, <1>7, <1>8, <1>9, <1>10 DEF IInv

\* The subscribers that hold a block are finitely many, fewer than ref_count
\* can count.
LEMMA HoldersFit ==
    ASSUME TypeOK, NEW b \in Block
    PROVE  /\ IsFiniteSet(held[b]) /\ Cardinality(held[b]) \in Nat
           /\ Cardinality(held[b]) + 1 < RefMod
           /\ \A s \in Sub : s \notin held[b] => Cardinality(held[b]) + 2 < RefMod
<1>1. held[b] \in SUBSET Sub /\ IsFiniteSet(Sub)
    BY PoolAssumption DEF TypeOK
<1>2. /\ IsFiniteSet(held[b]) /\ Cardinality(held[b]) <= Cardinality(Sub)
      /\ Cardinality(Sub) = Cardinality(held[b]) => Sub = held[b]
    BY <1>1, FS_Subset
<1>3. Cardinality(Sub) \in Nat /\ Cardinality(held[b]) \in Nat
    BY <1>1, <1>2, FS_CardinalityType
<1>4. QED
    BY <1>2, <1>3, PoolAssumption

\* A subscriber that retains is counted, without wrapping the count.
LEMMA RetainInv == ASSUME IInv, NEW s \in Sub, Retain(s) PROVE IInv'
<1>1. TypeOK /\ FreeListIntact /\ QueueInv /\ CallInv /\ DispatchInv /\ HeldInv /\ NoneLost /\ RefCountExact
    BY DEF IInv
<1>2. Count' = Count /\ Contents' = Contents /\ Queued' = Queued
    BY QueueSame DEF Retain
<1>3. FreeBlocks' = FreeBlocks /\ FreeListIntact'
    BY <1>1, PoolSame DEF Retain
<1>4. /\ dpc = "publish" /\ s \notin held[devt]
      /\ ref' = [ref EXCEPT ![devt] = (ref[devt] + 1) % RefMod]
      /\ held' = [held EXCEPT ![devt] = held[devt] \cup {s}]
      /\ dpc' = dpc /\ devt' = devt /\ pc' = pc /\ blk' = blk
      /\ freeHead' = freeHead /\ freeCount' = freeCount /\ link' = link /\ chain' = chain
      /\ evtq' = evtq /\ qhead' = qhead /\ qtail' = qtail
    BY DEF Retain, callVars, dispVars, poolVars, queueVars
<1>5. /\ devt \in Block /\ Elsewhere(devt) /\ \A c \in Ctx : Busy(c) => blk[c] # devt
      /\ ref \in [Block -> 0..(RefMod - 1)] /\ held \in [Block -> SUBSET Sub]
    BY <1>1, <1>4 DEF DispatchInv, TypeOK
<1>6. /\ IsFiniteSet(held[devt]) /\ Cardinality(held[devt]) \in Nat
      /\ Cardinality(held[devt]) + 2 < RefMod
      /\ ref[devt] = Cardinality(held[devt]) + 1
    BY <1>1, <1>4, <1>5, HoldersFit DEF RefCountExact
<1>7. (ref[devt] + 1) % RefMod = ref[devt] + 1 /\ ref[devt] + 1 \in 0..(RefMod - 1)
  <2>1. RefMod \in Nat \ {0} /\ ref[devt] + 1 \in 0..(RefMod - 1)
    BY <1>6, PoolAssumption
  <2>2. QED
    BY <2>1, SmallRemainder
<1>8. Cardinality(held[devt] \cup {s}) = Cardinality(held[devt]) + 1
    BY <1>4, <1>6, FS_AddElement
<1>9. /\ ref'[devt] = ref[devt] + 1 /\ held'[devt] = held[devt] \cup {s}
      /\ \A b \in Block : b # devt => ref'[b] = ref[b] /\ held'[b] = held[b]
    BY <1>4, <1>5, <1>7
<1>10. TypeOK'
    BY <1>1, <1>4, <1>5, <1>7 DEF TypeOK
<1>11. QueueInv' /\ HeldInv' /\ DispatchInv'
    BY <1>1, <1>2, <1>3, <1>4, <1>5, <1>9 DEF QueueInv, HeldInv, DispatchInv, Busy, Elsewhere
<1>12. CallInv'
    BY <1>1, <1>2, <1>3, <1>4, <1>5, <1>9 DEF CallInv, Busy, Elsewhere
<1>13. NoneLost'
  <2> SUFFICES ASSUME NEW b \in Block PROVE b \in FreeBlocks' \/ b \in Queued' \/ InHands(b)'
    BY DEF NoneLost
  <2>1. InHands(b) => InHands(b)'
    BY <1>4, <1>9 DEF InHands
  <2>2. QED
    BY <1>1, <1>2, <1>3, <2>1 DEF NoneLost
<1>14. RefCountExact'
  <2> SUFFICES ASSUME NEW b \in Block, devt = b \/ held'[b] # {}
               PROVE  ref'[b] = Cardinality(held'[b]) + (IF devt = b THEN 1 ELSE 0)
    BY <1>4 DEF RefCountExact
  <2>1. CASE b = devt
    BY <1>6, <1>8, <1>9, <2>1
  <2>2. CASE b # devt
    BY <1>1, <1>4, <1>9, <2>2 DEF RefCountExact
  <2>3. QED
    BY <2>1, <2>2
<1>15. QED
    BY <1>3, <1>10, <1>11, <1>12, <1>13, <1>14 DEF IInv

\* Dropping a reference to a block somebody counts on never underflows, and
\* leaves the number of the others.
LEMMA DropExact ==
    ASSUME IInv, NEW b \in Block, NEW c \in Ctx,
           (dpc = "publish" /\ devt = b) \/ held[b] # {}, Drop(c, b)
    PROVE  /\ ref[b] \in 1..(RefMod - 1)
           /\ ref' = [ref EXCEPT ![b] = ref[b] - 1]
           /\ IF ref[b] = 1 THEN Enter(c, "reclaim", b) ELSE UNCHANGED callVars
           /\ ref[b] = Cardinality(held[b]) + (IF dpc = "publish" /\ devt = b THEN 1 ELSE 0)
<1>1. TypeOK /\ RefCountExact
    BY DEF IInv
<1>2. ref[b] = Cardinality(held[b]) + (IF dpc = "publish" /\ devt = b THEN 1 ELSE 0)
    BY <1>1 DEF RefCountExact
<1>3. IsFiniteSet(held[b]) /\ Cardinality(held[b]) \in Nat
    BY <1>1, HoldersFit
<1>4. held[b] # {} => Cardinality(held[b]) # 0
    BY <1>3, FS_EmptySet
<1>5. ref[b] \in 0..(RefMod - 1) /\ ref[b] # 0
    BY <1>1, <1>2, <1>3, <1>4 DEF TypeOK
<1>6. RefMod \in Nat
    BY PoolAssumption
<1>7. ref[b] \in 1..(RefMod - 1) /\ ref[b] > 0 /\ (ref[b] - 1 = 0 <=> ref[b] = 1)
    BY <1>5, <1>6
<1>8. QED
    BY <1>2, <1>7 DEF Drop

\* Without holders left the dispatched event is reclaimed, otherwise it stays
\* with them.
LEMMA EndDispatchInv == IInv /\ EndDispatch => IInv'
<1> SUFFICES ASSUME IInv, EndDispatch PROVE IInv'
    OBVIOUS
<1> DEFINE f == devt
<1>1. TypeOK /\ FreeListIntact /\ QueueInv /\ CallInv /\ DispatchInv /\ HeldInv /\ NoneLost /\ RefCountExact
    BY DEF IInv
<1>2. Count' = Count /\ Contents' = Contents /\ Queued' = Queued
    BY QueueSame DEF EndDispatch
<1>3. FreeBlocks' = FreeBlocks /\ FreeListIntact'
    BY <1>1, PoolSame DEF EndDispatch
<1>4. /\ dpc = "publish" /\ pc[Main] = "idle" /\ dpc' = "idle" /\ devt' = NULL
      /\ held' = held
      /\ freeHead' = freeHead /\ freeCount' = freeCount /\ link' = link /\ chain' = chain
      /\ evtq' = evtq /\ qhead' = qhead /\ qtail' = qtail
    BY DEF EndDispatch, MayCall, poolVars, queueVars
<1>5. /\ f \in Block /\ Elsewhere(f) /\ \A c \in Ctx : Busy(c) => blk[c] # f
      /\ ref \in [Block -> 0..(RefMod - 1)]
    BY <1>1, <1>4 DEF DispatchInv, TypeOK
<1>6. Main \in Ctx
    BY PoolAssumption DEF Main, Ctx
<1>7. /\ ref[f] \in 1..(RefMod - 1)
      /\ ref' = [ref EXCEPT ![f] = ref[f] - 1]
      /\ IF ref[f] = 1 THEN Enter(Main, "reclaim", f) ELSE UNCHANGED callVars
      /\ ref[f] = Cardinality(held[f]) + 1
    BY <1>4, <1>5, <1>6, DropExact DEF EndDispatch
<1>8. IsFiniteSet(held[f]) /\ Cardinality(held[f]) \in Nat
    BY <1>1, <1>5, HoldersFit
<1>9. ref[f] = 1 <=> held[f] = {}
    BY <1>7, <1>8, FS_EmptySet
<1> HIDE DEF f
<1>10. /\ ref'[f] = Cardinality(held[f]) /\ ref'[f] \in 0..(RefMod - 1)
       /\ \A b \in Block : b # f => ref'[b] = ref[b]
  <2>1. ref[f] - 1 = Cardinality(held[f]) /\ ref[f] - 1 \in 0..(RefMod - 1)
    BY <1>7, <1>8, PoolAssumption
  <2>2. QED
    BY <1>5, <1>7, <2>1
<1>11. pc \in [Ctx -> {"idle", "fill", "refused", "reclaim"}] /\ blk \in [Ctx -> Block \cup {NULL}]
    BY <1>1 DEF TypeOK
<1>12. /\ pc' \in [Ctx -> {"idle", "fill", "refused", "reclaim"}] /\ blk' \in [Ctx -> Block \cup {NULL}]
       /\ held[f] = {} => pc'[Main] = "reclaim" /\ blk'[Main] = f
       /\ held[f] # {} => pc' = pc /\ blk' = blk
       /\ \A d \in Ctx : d # Main => pc'[d] = pc[d] /\ blk'[d] = blk[d]
  <2>1. CASE held[f] = {}
    <3>1. pc' = [pc EXCEPT ![Main] = "reclaim"] /\ blk' = [blk EXCEPT ![Main] = f]
      BY <1>7, <1>9, <2>1 DEF Enter
    <3>2. QED
      BY <1>5, <1>6, <1>11, <2>1, <3>1
  <2>2. CASE held[f] # {}
    <3>1. pc' = pc /\ blk' = blk
      BY <1>7, <1>9, <2>2 DEF callVars
    <3>2. QED
      BY <1>11, <2>2, <3>1
  <2>3. QED
    BY <2>1, <2>2
<1>13. TypeOK'
  <2>1. ref' \in [Block -> 0..(RefMod - 1)]
    BY <1>5, <1>7, <1>10
  <2>2. QED
    BY <1>1, <1>4, <1>12, <2>1 DEF TypeOK
<1>14. QueueInv' /\ HeldInv' /\ DispatchInv'
    BY <1>1, <1>2, <1>3, <1>4 DEF QueueInv, HeldInv, DispatchInv, Elsewhere
<1>15. CallInv'
  <2>1. CASE held[f] = {}
    <3>1. ASSUME NEW d \in Ctx, pc'[d] # "idle"
          PROVE  /\ d = Main => blk'[d] = f
                 /\ d # Main => Busy(d) /\ blk'[d] = blk[d] /\ blk'[d] # f
      BY <1>5, <1>12, <2>1, <3>1 DEF Busy
    <3>2. ASSUME NEW d \in Ctx, pc'[d] # "idle"
          PROVE  /\ blk'[d] \in Block /\ blk'[d] \notin FreeBlocks /\ blk'[d] \notin Queued
                 /\ held[blk'[d]] = {}
      BY <1>1, <1>5, <2>1, <3>1, <3>2 DEF CallInv, Elsewhere
    <3>3. \A d, e \in Ctx : pc'[d] # "idle" /\ pc'[e] # "idle" /\ blk'[d] = blk'[e] => d = e
      BY <1>1, <3>1 DEF CallInv
    <3>4. QED
      BY <1>2, <1>3, <1>4, <3>2, <3>3 DEF CallInv, Busy, Elsewhere
  <2>2. CASE held[f] # {}
    BY <1>1, <1>2, <1>3, <1>4, <1>12, <2>2 DEF CallInv, Busy, Elsewhere
  <2>3. QED
    BY <2>1, <2>2
<1>16. NoneLost'
  <2> SUFFICES ASSUME NEW b \in Block PROVE b \in FreeBlocks' \/ b \in Queued' \/ InHands(b)'
    BY DEF NoneLost
  <2>1. CASE b = f
    BY <1>4, <1>6, <1>12, <2>1 DEF InHands
  <2>2. CASE b # f
    <3>1. InHands(b) => InHands(b)'
      BY <1>4, <1>12, <2>2 DEF InHands, f
    <3>2. QED
      BY <1>1, <1>2, <1>3, <3>1 DEF NoneLost
  <2>3. QED
    BY <2>1, <2>2
<1>17. RefCountExact'
  <2> SUFFICES ASSUME NEW b \in Block, held[b] # {} PROVE ref'[b] = Cardinality(held[b])
    BY <1>4, <1>1, HoldersFit DEF RefCountExact
  <2>1. CASE b = f
    BY <1>10, <2>1
  <2>2. CASE b # f
    <3>1. ref[b] = Cardinality(held[b]) + 0
      BY <1>1, <2>2 DEF RefCountExact, f
    <3>2. Cardinality(held[b]) \in Nat
      BY <1>1, HoldersFit
    <3>3. QED
      BY <1>10, <2>2, <3>1, <3>2
  <2>3. QED
    BY <2>1, <2>2
<1>18. QED
    BY <1>3, <1>13, <1>14, <1>15, <1>16, <1>17 DEF IInv

\* The last holder of an event that is no longer dispatched reclaims it.
LEMMA ReleaseInv ==
    ASSUME IInv, NEW c \in Ctx, NEW s \in Sub, NEW f \in Block, Release(c, s, f)
    PROVE  IInv'
<1> DEFINE out == dpc = "publish" /\ devt = f
           rest == held[f] \ {s}
<1>1. TypeOK /\ FreeListIntact /\ QueueInv /\ CallInv /\ DispatchInv /\ HeldInv /\ NoneLost /\ RefCountExact
    BY DEF IInv
<1>2. Count' = Count /\ Contents' = Contents /\ Queued' = Queued
    BY QueueSame DEF Release
<1>3. FreeBlocks' = FreeBlocks /\ FreeListIntact'
    BY <1>1, PoolSame DEF Release
<1>4. /\ pc[c] = "idle" /\ s \in held[f] /\ dpc' = dpc /\ devt' = devt
      /\ held' = [held EXCEPT ![f] = held[f] \ {s}]
      /\ freeHead' = freeHead /\ freeCount' = freeCount /\ link' = link /\ chain' = chain
      /\ evtq' = evtq /\ qhead' = qhead /\ qtail' = qtail
    BY DEF Release, MayCall, dispVars, poolVars, queueVars
<1>5. /\ Elsewhere(f) /\ \A d \in Ctx : Busy(d) => blk[d] # f
      /\ ref \in [Block -> 0..(RefMod - 1)] /\ held \in [Block -> SUBSET Sub]
      /\ dpc = "got" => devt # f
    BY <1>1, <1>4 DEF HeldInv, CallInv, DispatchInv, TypeOK
<1>6. /\ ref[f] \in 1..(RefMod - 1)
      /\ ref' = [ref EXCEPT ![f] = ref[f] - 1]
      /\ IF ref[f] = 1 THEN Enter(c, "reclaim", f) ELSE UNCHANGED callVars
      /\ ref[f] = Cardinality(held[f]) + (IF out THEN 1 ELSE 0)
    BY <1>4, DropExact DEF Release
<1>7. IsFiniteSet(held[f]) /\ Cardinality(held[f]) \in Nat
    BY <1>1, HoldersFit
<1>8. IsFiniteSet(rest) /\ Cardinality(rest) = Cardinality(held[f]) - 1 /\ Cardinality(rest) \in Nat
    BY <1>4, <1>7, FS_RemoveElement, FS_CardinalityType
<1>9. ref[f] = 1 <=> rest = {} /\ ~out
    BY <1>6, <1>7, <1>8, FS_EmptySet
<1>10. /\ held'[f] = rest /\ rest \in SUBSET Sub
       /\ \A b \in Block : b # f => held'[b] = held[b]
    BY <1>4, <1>5
<1> HIDE DEF rest, out
<1>11. /\ ref'[f] = Cardinality(rest) + (IF out THEN 1 ELSE 0) /\ ref'[f] \in 0..(RefMod - 1)
       /\ \A b \in Block : b # f => ref'[b] = ref[b]
  <2>1. /\ ref[f] - 1 = Cardinality(rest) + (IF out THEN 1 ELSE 0)
        /\ ref[f] - 1 \in 0..(RefMod - 1)
    BY <1>6, <1>7, <1>8, PoolAssumption
  <2>2. QED
    BY <1>5, <1>6, <2>1
<1>12. pc \in [Ctx -> {"idle", "fill", "refused", "reclaim"}] /\ blk \in [Ctx -> Block \cup {NULL}]
    BY <1>1 DEF TypeOK
<1>13. /\ pc' \in [Ctx -> {"idle", "fill", "refused", "reclaim"}] /\ blk' \in [Ctx -> Block \cup {NULL}]
       /\ rest = {} /\ ~out => pc'[c] = "reclaim" /\ blk'[c] = f
       /\ rest # {} \/ out => pc' = pc /\ blk' = blk
       /\ \A d \in Ctx : d # c => pc'[d] = pc[d] /\ blk'[d] = blk[d]
  <2>1. CASE rest = {} /\ ~out
    <3>1. pc' = [pc EXCEPT ![c] = "reclaim"] /\ blk' = [blk EXCEPT ![c] = f]
      BY <1>6, <1>9, <2>1 DEF Enter
    <3>2. QED
      BY <1>12, <2>1, <3>1
  <2>2. CASE rest # {} \/ out
    <3>1. pc' = pc /\ blk' = blk
      BY <1>6, <1>9, <2>2 DEF callVars
    <3>2. QED
      BY <1>12, <2>2, <3>1
  <2>3. QED
    BY <2>1, <2>2
<1>14. TypeOK'
  <2>1. ref' \in [Block -> 0..(RefMod - 1)] /\ held' \in [Block -> SUBSET Sub]
    BY <1>4, <1>5, <1>6, <1>10, <1>11 DEF rest
  <2>2. QED
    BY <1>1, <1>4, <1>13, <2>1 DEF TypeOK
<1>15. QueueInv'
    BY <1>1, <1>2, <1>3 DEF QueueInv
<1>16. HeldInv'
    BY <1>1, <1>2, <1>3, <1>5, <1>10 DEF HeldInv, Elsewhere
<1>17. DispatchInv'
  <2>1. ASSUME dpc # "idle"
        PROVE  /\ devt \in Block /\ Elsewhere(devt) /\ (dpc = "got" => held[devt] = {})
               /\ \A d \in Ctx : Busy(d) => blk[d] # devt
    BY <1>1, <2>1 DEF DispatchInv
  <2>2. ASSUME dpc # "idle" PROVE dpc = "got" => held'[devt] = {}
    BY <1>5, <1>10, <2>1, <2>2
  <2>3. ASSUME dpc # "idle", NEW d \in Ctx, pc'[d] # "idle" PROVE blk'[d] # devt
    <3>1. CASE rest # {} \/ out
      BY <1>13, <2>1, <2>3, <3>1 DEF Busy
    <3>2. CASE rest = {} /\ ~out
      <4>1. devt # f
        <5>1. dpc = "got" \/ dpc = "publish"
          BY <1>1, <2>3 DEF TypeOK
        <5>2. QED
          BY <1>5, <3>2, <5>1 DEF out
      <4>2. QED
        BY <1>13, <2>1, <2>3, <3>2, <4>1 DEF Busy
    <3>3. QED
      BY <3>1, <3>2
  <2>4. QED
    BY <1>2, <1>3, <1>4, <2>1, <2>2, <2>3 DEF DispatchInv, Busy, Elsewhere
<1>18. CallInv'
  <2>1. ASSUME NEW d \in Ctx, Busy(d)
        PROVE  /\ blk[d] \in Block /\ blk[d] # f /\ Elsewhere(blk[d]) /\ held'[blk[d]] = {}
    BY <1>1, <1>5, <1>10, <2>1 DEF CallInv
  <2>2. CASE rest = {} /\ ~out
    <3>1. ASSUME NEW d \in Ctx, pc'[d] # "idle"
          PROVE  /\ d = c => blk'[d] = f
                 /\ d # c => Busy(d) /\ blk'[d] = blk[d] /\ blk'[d] # f
      BY <1>5, <1>13, <2>2, <3>1 DEF Busy
    <3>2. ASSUME NEW d \in Ctx, pc'[d] # "idle"
          PROVE  /\ blk'[d] \in Block /\ blk'[d] \notin FreeBlocks /\ blk'[d] \notin Queued
                 /\ held'[blk'[d]] = {}
      BY <1>5, <1>10, <2>1, <2>2, <3>1, <3>2 DEF Elsewhere
    <3>3. \A d, e \in Ctx : pc'[d] # "idle" /\ pc'[e] # "idle" /\ blk'[d] = blk'[e] => d = e
      BY <1>1, <3>1 DEF CallInv
    <3>4. QED
      BY <1>2, <1>3, <3>2, <3>3 DEF CallInv, Busy, Elsewhere
  <2>3. CASE rest # {} \/ out
    BY <1>1, <1>2, <1>3, <1>13, <2>1, <2>3 DEF CallInv, Busy, Elsewhere
  <2>4. QED
    BY <2>2, <2>3
<1>19. NoneLost'
  <2> SUFFICES ASSUME NEW b \in Block PROVE b \in FreeBlocks' \/ b \in Queued' \/ InHands(b)'
    BY DEF NoneLost
  <2>1. CASE b = f
    <3>1. CASE rest = {} /\ ~out
      BY <1>13, <2>1, <3>1 DEF InHands
    <3>2. CASE rest # {}
      BY <1>10, <2>1, <3>2 DEF InHands
    <3>3. CASE out
      BY <1>4, <2>1, <3>3 DEF InHands, out
    <3>4. QED
      BY <3>1, <3>2, <3>3
  <2>2. CASE b # f
    <3>1. InHands(b) => InHands(b)'
      BY <1>4, <1>10, <1>13, <2>2 DEF InHands
    <3>2. QED
      BY <1>1, <1>2, <1>3, <3>1 DEF NoneLost
  <2>3. QED
    BY <2>1, <2>2
<1>20. RefCountExact'
  <2> SUFFICES ASSUME NEW b \in Block, (dpc = "publish" /\ devt = b) \/ held'[b] # {}
               PROVE  ref'[b] = Cardinality(held'[b]) + (IF dpc = "publish" /\ devt = b THEN 1 ELSE 0)
    BY <1>4 DEF RefCountExact
  <2>1. CASE b = f
    BY <1>10, <1>11, <2>1 DEF out
  <2>2. CASE b # f
    BY <1>1, <1>10, <1>11, <2>2 DEF RefCountExact
  <2>3. QED
    BY <2>1, <2>2
<1>21. QED
    BY <1>3, <1>14, <1>15, <1>16, <1>17, <1>18, <1>19, <1>20 DEF IInv

----------------------------------------------------------------------------
\* The invariant holds

\* An injective enumeration of as many elements as there are blocks reaches
\* every block.
LEMMA AllLinked ==
    ASSUME NEW n \in Nat, n = Cardinality(Block), NEW f \in [1..n -> Block],
           \A i, j \in 1..n : f[i] = f[j] => i = j
    PROVE  {f[i] : i \in 1..n} = Block
<1>1. f \in Injection(1..n, Block)
    BY DEF Injection, IsInjective
<1>2. Cardinality(1..n) = n
    BY FS_Interval
<1>3. f \in Surjection(1..n, Block)
    BY <1>1, <1>2, PoolAssumption, FS_Injection
<1>4. QED
    BY <1>3 DEF Surjection

\* The state Anbo_Pool_Init and Anbo_EvtQ_Init leave.
LEMMA InitInv == Init => IInv
<1> SUFFICES ASSUME Init PROVE IInv
    OBVIOUS
<1> DEFINE n == Cardinality(Block)
<1>1. n \in Nat /\ n # 0
    BY PoolAssumption, FS_CardinalityType, FS_EmptySet
<1>2. /\ chain \in [1..n -> Block] /\ DOMAIN chain = 1..n
      /\ \A i, j \in 1..n : chain[i] = chain[j] => i = j
    BY DEF Init
<1> HIDE DEF n
<1>3. chain \in Seq(Block) /\ Len(chain) = n /\ chain # << >>
    BY <1>1, <1>2
<1>4. FreeBlocks = Block
    BY <1>1, <1>2, <1>3, AllLinked DEF FreeBlocks, n
<1>5. FreeListIntact
    BY <1>1, <1>2, <1>3 DEF Init, FreeListIntact, n
<1>6. /\ Depth \in Nat /\ Depth >= 2 /\ 0 \in 0..(Depth - 1)
    BY PoolAssumption
<1>7. Count = 0
  <2>1. (0 - 0) % Depth = 0
    BY <1>6, CountIs
  <2>2. QED
    BY <2>1 DEF Init, Count
<1>8. Queued = {}
    BY <1>7 DEF Queued
<1>9. TypeOK
  <2>1. freeHead \in Block \cup {NULL} /\ freeCount \in Nat
    BY <1>1, <1>2 DEF Init, n
  <2>2. ref \in [Block -> 0..(RefMod - 1)]
    BY PoolAssumption DEF Init
  <2>3. QED
    BY <1>3, <1>6, <2>1, <2>2 DEF Init, TypeOK
<1>10. QueueInv /\ CallInv /\ DispatchInv /\ HeldInv /\ NoneLost /\ RefCountExact
    BY <1>4, <1>7, <1>8
       DEF Init, QueueInv, CallInv, DispatchInv, HeldInv, NoneLost, RefCountExact, Busy
<1>11. QED
    BY <1>5, <1>9, <1>10 DEF IInv

\* A step that changes nothing preserves the invariant.
LEMMA StutterInv == IInv /\ UNCHANGED vars => IInv'
<1> SUFFICES ASSUME IInv, UNCHANGED vars PROVE IInv'
    OBVIOUS
<1>1. TypeOK /\ FreeListIntact /\ QueueInv /\ CallInv /\ DispatchInv /\ HeldInv /\ NoneLost /\ RefCountExact
    BY DEF IInv
<1>2. Count' = Count /\ Contents' = Contents /\ Queued' = Queued
    BY QueueSame DEF vars
<1>3. FreeBlocks' = FreeBlocks /\ FreeListIntact'
    BY <1>1, PoolSame DEF vars
<1>4. /\ pc' = pc /\ blk' = blk /\ held' = held /\ ref' = ref /\ dpc' = dpc /\ devt' = devt
      /\ freeHead' = freeHead /\ freeCount' = freeCount /\ link' = link /\ chain' = chain
      /\ evtq' = evtq /\ qhead' = qhead /\ qtail' = qtail
    BY DEF vars, poolVars, queueVars, callVars, dispVars
<1>5. TypeOK' /\ RefCountExact'
    BY <1>1, <1>4 DEF TypeOK, RefCountExact
<1>6. QueueInv' /\ CallInv' /\ DispatchInv' /\ HeldInv' /\ NoneLost'
    BY <1>1, <1>2, <1>3, <1>4
       DEF QueueInv, CallInv, DispatchInv, HeldInv, NoneLost, InHands, Busy, Elsewhere
<1>7. QED
    BY <1>3, <1>5, <1>6 DEF IInv

\* Every step preserves the invariant.
LEMMA StepInv == IInv /\ [Next]_vars => IInv'
<1> SUFFICES ASSUME IInv, [Next]_vars PROVE IInv'
    OBVIOUS
<1>1. CASE \E c \in Ctx : Publisher(c) \/ Reclaim(c)
  <2> PICK c \in Ctx : Publisher(c) \/ Reclaim(c)
    BY <1>1
  <2>1. CASE Alloc(c)
    BY <2>1, AllocInv
  <2>2. CASE PostAccepted(c)
    BY <2>2, PostAcceptedInv
  <2>3. CASE PostRefused(c)
    BY <2>3, PostRefusedInv
  <2>4. CASE FreeRefused(c)
    BY <2>4, GiveBackInv DEF FreeRefused, Busy
  <2>5. CASE Reclaim(c)
    BY <2>5, GiveBackInv DEF Reclaim, Busy
  <2>6. QED
    BY <2>1, <2>2, <2>3, <2>4, <2>5 DEF Publisher
<1>2. CASE Dispatcher
    BY <1>2, GetInv, BeginDispatchInv, EndDispatchInv DEF Dispatcher
<1>3. CASE \E s \in Sub : Retain(s)
    BY <1>3, RetainInv
<1>4. CASE \E c \in Ctx, s \in Sub, b \in Block : Release(c, s, b)
    BY <1>4, ReleaseInv
<1>5. CASE UNCHANGED vars
    BY <1>5, StutterInv
<1>6. QED
    BY <1>1, <1>2, <1>3, <1>4, <1>5 DEF Next

\* The inductive invariant holds in every state of the pool.
THEOREM Invariance == Spec => []IInv
<1>1. QED
    BY InitInv, StepInv, PTL DEF Spec

\* Every variable of the pool keeps its type (TypeOK).
THEOREM TypeCorrect == Spec => []TypeOK
<1>1. IInv => TypeOK
    BY DEF IInv
<1>2. QED
    BY <1>1, Invariance, PTL

\* Every block is free, queued or in somebody's hands, and never two of these
\* (OnePlace), for any interleaving of publishers, dispatcher and releases.
THEOREM BlocksHaveOnePlace == Spec => []OnePlace
<1>1. IInv => OnePlace
  <2> SUFFICES ASSUME IInv, NEW b \in Block
               PROVE  /\ b \in FreeBlocks \/ b \in Queued \/ InHands(b)
                      /\ ~(b \in FreeBlocks /\ b \in Queued)
                      /\ ~(b \in FreeBlocks /\ InHands(b))
                      /\ ~(b \in Queued /\ InHands(b))
    BY DEF OnePlace
  <2>1. QueueInv /\ CallInv /\ DispatchInv /\ HeldInv /\ NoneLost
    BY DEF IInv
  <2>2. InHands(b) => Elsewhere(b)
    BY <2>1 DEF InHands, CallInv, DispatchInv, HeldInv, Busy
  <2>3. QED
    BY <2>1, <2>2 DEF QueueInv, NoneLost, Elsewhere
<1>2. QED
    BY <1>1, Invariance, PTL

\* The links from s_free_head visit each free block once and s_free_count is
\* their number (FreeListIntact).
THEOREM FreeListStaysIntact == Spec => []FreeListIntact
<1>1. IInv => FreeListIntact
    BY DEF IInv
<1>2. QED
    BY <1>1, Invariance, PTL

\* The reference count of a published or retained event is exact
\* (RefCountExact).
THEOREM RefCountsAreExact == Spec => []RefCountExact
<1>1. IInv => RefCountExact
    BY DEF IInv
<1>2. QED
    BY <1>1, Invariance, PTL

----------------------------------------------------------------------------
\* Refinement

\* The initial pool is an initial abstract pool.
LEMMA InitRefines == Init => Abstract!PoolInit
<1> SUFFICES ASSUME Init PROVE Abstract!PoolInit
    OBVIOUS
<1>1. Cardinality(Block) \in Nat
    BY PoolAssumption, FS_CardinalityType
<1>2. /\ chain \in [1..Cardinality(Block) -> Block]
      /\ \A i, j \in 1..Cardinality(Block) : chain[i] = chain[j] => i = j
      /\ Len(chain) = Cardinality(Block)
    BY <1>1 DEF Init
<1>3. FreeBlocks = Block
    BY <1>1, <1>2, AllLinked DEF FreeBlocks
<1>4. Count = 0
  <2>1. Depth \in Nat /\ 0 \in 0..(Depth - 1)
    BY PoolAssumption
  <2>2. (0 - 0) % Depth = 0
    BY <2>1, CountIs
  <2>3. QED
    BY <2>2 DEF Init, Count
<1>5. Contents = << >>
    BY <1>4 DEF Contents
<1>6. QED
    BY <1>3, <1>5 DEF Abstract!PoolInit

\* The queued events are a sequence of blocks, none of them free.
LEMMA ContentsIsSeq ==
    ASSUME IInv
    PROVE  /\ Count \in Nat /\ Contents \in Seq(Block) /\ Len(Contents) = Count
           /\ Abstract!Queued = Queued
<1>1. Count \in Nat
  <2>1. Depth \in Nat /\ qhead \in 0..(Depth - 1) /\ qtail \in 0..(Depth - 1)
    BY PoolAssumption DEF IInv, TypeOK
  <2>2. QED
    BY <2>1, CountIs DEF Count
<1> HIDE DEF Count
<1>2. \A i \in 1..Count : Contents[i] \in Block
    BY DEF IInv, QueueInv
<1>3. Contents \in Seq(Block) /\ Len(Contents) = Count
    BY <1>1, <1>2 DEF Contents
<1>4. Abstract!Queued = Queued
    BY <1>3 DEF Abstract!Queued, Queued
<1>5. QED
    BY <1>1, <1>3, <1>4

\* The same of the state after a step.
LEMMA ContentsIsSeqNext ==
    IInv' => /\ Contents' \in Seq(Block)
             /\ Len(Contents') = Count'
<1>1. IInv => Contents \in Seq(Block) /\ Len(Contents) = Count
    BY ContentsIsSeq
<1>2. IInv' => (Contents \in Seq(Block) /\ Len(Contents) = Count)'
    BY <1>1, PTL
<1>3. QED
    BY <1>2

\* A block that goes back to the free list is an abstract GiveBack.
LEMMA GiveBackRefines ==
    ASSUME IInv, NEW c \in Ctx, Busy(c), PoolFree(blk[c]), UNCHANGED queueVars
    PROVE  Abstract!GiveBack(blk[c]) /\ blk[c] \in Block
<1>1. blk[c] \in Block /\ blk[c] \notin FreeBlocks /\ blk[c] \notin Queued
    BY BusyBlock
<1>2. FreeBlocks' = FreeBlocks \cup {blk[c]}
    BY <1>1, FreeListPut DEF IInv
<1>3. Contents' = Contents
    BY QueueSame
<1>4. QED
    BY <1>1, <1>2, <1>3, ContentsIsSeq DEF Abstract!GiveBack

\* Every step of the pool is an abstract step or changes nothing abstract.
LEMMA StepRefines ==
    IInv /\ IInv' /\ [Next]_vars => [Abstract!PoolNext]_<<FreeBlocks, Contents>>
<1> SUFFICES ASSUME IInv, IInv', [Next]_vars
             PROVE  Abstract!PoolNext \/ (FreeBlocks' = FreeBlocks /\ Contents' = Contents)
    OBVIOUS
<1>1. TypeOK /\ FreeListIntact /\ QueueInv
    BY DEF IInv
<1>2. ASSUME UNCHANGED poolVars, UNCHANGED queueVars
      PROVE  FreeBlocks' = FreeBlocks /\ Contents' = Contents
    BY <1>1, <1>2, PoolSame, QueueSame
<1>3. ASSUME NEW c \in Ctx, Alloc(c) PROVE Abstract!PoolNext
  <2>1. /\ freeHead \in Block /\ freeHead \in FreeBlocks
        /\ FreeBlocks' = FreeBlocks \ {freeHead}
    BY <1>1, <1>3, FreeListTake DEF Alloc
  <2>2. Contents' = Contents
    BY <1>3, QueueSame DEF Alloc
  <2>3. freeHead \notin Queued
    BY <1>1, <2>1 DEF QueueInv
  <2>4. Abstract!HandOut(freeHead)
    BY <2>1, <2>2, <2>3, ContentsIsSeq DEF Abstract!HandOut
  <2>5. QED
    BY <2>1, <2>4 DEF Abstract!PoolNext
<1>4. ASSUME NEW c \in Ctx, PostAccepted(c) PROVE Abstract!PoolNext
  <2> DEFINE f == blk[c]
  <2>1. f \in Block /\ f \notin FreeBlocks /\ f \notin Queued
    BY <1>4, BusyBlock DEF PostAccepted, Busy
  <2>2. /\ Count \in Nat /\ Count + 1 <= Depth - 1 /\ Count' = Count + 1
        /\ \A i \in 1..Count : Contents'[i] = Contents[i]
        /\ Contents'[Count + 1] = f
    BY <1>1, <1>4, <2>1, QueuePut DEF PostAccepted
  <2>3. FreeBlocks' = FreeBlocks
    BY <1>1, <1>4, PoolSame DEF PostAccepted
  <2>4. /\ Contents \in Seq(Block) /\ Len(Contents) = Count
        /\ Contents' \in Seq(Block) /\ Len(Contents') = Count'
        /\ Abstract!Queued = Queued
    BY ContentsIsSeq, ContentsIsSeqNext
  <2> HIDE DEF f
  <2>5. Contents' = Append(Contents, f)
    <3>1. Append(Contents, f) \in Seq(Block) /\ Len(Append(Contents, f)) = Count + 1
      BY <2>1, <2>2, <2>4
    <3>2. ASSUME NEW i \in 1..(Count + 1) PROVE Contents'[i] = Append(Contents, f)[i]
      BY <2>1, <2>2, <2>4
    <3>3. QED
      BY <2>2, <2>4, <3>1, <3>2, SeqEqual
  <2>6. Len(Contents) < Depth - 1
    BY <2>2, <2>4, PoolAssumption
  <2>7. Abstract!Enqueue(f)
    BY <2>1, <2>3, <2>4, <2>5, <2>6 DEF Abstract!Enqueue
  <2>8. QED
    BY <2>1, <2>7 DEF Abstract!PoolNext
<1>5. ASSUME Get PROVE Abstract!PoolNext
  <2>1. /\ Count \in Nat /\ Count >= 1 /\ Count' = Count - 1
        /\ \A i \in 1..(Count - 1) : Contents'[i] = Contents[i + 1]
    BY <1>1, <1>5, QueueTake DEF Get
  <2>2. FreeBlocks' = FreeBlocks
    BY <1>1, <1>5, PoolSame DEF Get
  <2>3. /\ Contents \in Seq(Block) /\ Len(Contents) = Count
        /\ Contents' \in Seq(Block) /\ Len(Contents') = Count'
    BY ContentsIsSeq, ContentsIsSeqNext
  <2>4. Contents # << >>
    BY <2>1, <2>3
  <2>5. Contents' = Tail(Contents)
    <3>1. Tail(Contents) \in Seq(Block) /\ Len(Tail(Contents)) = Count - 1
      BY <2>1, <2>3, <2>4
    <3>2. ASSUME NEW i \in 1..(Count - 1) PROVE Contents'[i] = Tail(Contents)[i]
      BY <2>1, <2>3, <2>4
    <3>3. QED
      BY <2>1, <2>3, <3>1, <3>2, SeqEqual
  <2>6. QED
    BY <2>2, <2>4, <2>5 DEF Abstract!PoolNext, Abstract!Dequeue
<1>6. ASSUME NEW c \in Ctx, FreeRefused(c) \/ Reclaim(c) PROVE Abstract!PoolNext
  <2>1. Busy(c) /\ PoolFree(blk[c]) /\ UNCHANGED queueVars
    BY <1>6 DEF FreeRefused, Reclaim, Busy
  <2>2. QED
    BY <2>1, GiveBackRefines DEF Abstract!PoolNext
<1>7. CASE \E c \in Ctx : Publisher(c) \/ Reclaim(c)
  <2>1. ASSUME NEW c \in Ctx, PostRefused(c) PROVE UNCHANGED poolVars /\ UNCHANGED queueVars
    BY <2>1 DEF PostRefused
  <2>2. QED
    BY <1>2, <1>3, <1>4, <1>6, <1>7, <2>1 DEF Publisher
<1>8. CASE Dispatcher
  <2>1. ASSUME BeginDispatch \/ EndDispatch PROVE UNCHANGED poolVars /\ UNCHANGED queueVars
    BY <2>1 DEF BeginDispatch, EndDispatch
  <2>2. QED
    BY <1>2, <1>5, <1>8, <2>1 DEF Dispatcher
<1>9. CASE \E s \in Sub : Retain(s)
    BY <1>2, <1>9 DEF Retain
<1>10. CASE \E c \in Ctx, s \in Sub, b \in Block : Release(c, s, b)
    BY <1>2, <1>10 DEF Release
<1>11. CASE UNCHANGED vars
    BY <1>2, <1>11 DEF vars
<1>12. QED
    BY <1>7, <1>8, <1>9, <1>10, <1>11 DEF Next

\* The pool implements the abstract ownership discipline and its queue
\* (ImplementsEventPool).
THEOREM RefinesEventPool == Spec => ImplementsEventPool
<1>1. Init => Abstract!PoolInit
    BY InitRefines
<1>2. IInv /\ IInv' /\ [Next]_vars => [Abstract!PoolNext]_<<FreeBlocks, Contents>>
    BY StepRefines
<1>3. [Abstract!PoolNext]_<<FreeBlocks, Contents>> => [Abstract!PoolNext]_(Abstract!poolVars)
    BY DEF Abstract!poolVars
<1>4. QED
    BY <1>1, <1>2, <1>3, Invariance, PTL DEF Spec, ImplementsEventPool, Abstract!PoolSpec
=============================================================================
