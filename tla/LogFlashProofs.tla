--------------------------- MODULE LogFlashProofs ---------------------------
(***************************************************************************)
(* Proofs about LogFlash, for power failures of the kinds the driver is    *)
(* meant to survive.  From the head page on the entries lie in the ring in *)
(* the order in which they were written.  A later one is newer by a number *)
(* that is not larger than its distance in slots, so that the comparison   *)
(* of numbers that wrap is right for any two entries on the chip.  What a  *)
(* walk around the ring meets of entries is the log of RingLog.            *)
(***************************************************************************)
EXTENDS LogFlash, Lemmas, SequenceTheorems

\* The slots, and what is in one of them.
Place == Page \X Slot
At(f, c) == f[c[1]][c[2]]

\* Where place c is in the ring that begins at page h.
Pos(h, c) == Turn(h, c[1]) * Slots + c[2]

\* The places of entries.
Entries(f) == {c \in Place : At(f, c) \in Seqs}

\* How many numbers come after b up to a.
Lag(a, b) == IF a >= b THEN a - b ELSE a - b + SEQ_EMPTY

\* In the ring from page h an entry is newer than those before it, by a slot for
\* each at most.
Ordered(f, h) ==
    \A c, d \in Entries(f) :
        Pos(h, c) < Pos(h, d) => Lag(At(f, d), At(f, c)) \in 1..(Pos(h, d) - Pos(h, c))

\* The number s at place t would continue this order.
Fresh(f, h, t, s) ==
    \A c \in Entries(f) : Lag(s, At(f, c)) \in 1..(Pos(h, t) - Pos(h, c))

\* A page is filled from its first slot on,
Filled(f) ==
    \A p \in Page : \A i, j \in Slot : i < j /\ f[p][i] = SEQ_EMPTY => f[p][j] = SEQ_EMPTY

\* and its first entry is in the first slot.
Begun(f) == \A c \in Entries(f) : f[c[1]][0] \in Seqs

\* From page h up to page p no page is erased.
Solid(f, h, p) == \A q \in Page : Turn(h, q) < Turn(h, p) => f[q][0] # SEQ_EMPTY

\* Slot t is the first erased one of its page.
FilledTo(f, t) == \A i \in Slot : f[t[1]][i] = SEQ_EMPTY <=> i >= t[2]

\* Page p has entries if slot i is not its first one.
BegunBefore(f, t) == t[2] > 0 => f[t[1]][0] \in Seqs

\* The cursor between two calls and in one.
CursorInv ==
    /\ pc \in {"ready", "erase", "program", "rest"} =>
          /\ Fresh(cells, head[1], cur, seq)
          /\ Solid(cells, head[1], cur[1])
          /\ BegunBefore(cells, cur)
    /\ pc \in {"ready", "erase", "program"} => FilledTo(cells, cur)
    /\ pc = "erase" => cur[2] = Slots
    /\ pc \in {"program", "rest"} => cur[2] < Slots
    /\ pc = "rest" => FilledTo(cells, <<cur[1], cur[2] + 1>>)

\* What find_cursors needs.
BootInv == pc = "off" => (FoundPages = {} => PageIsEmpty(0)) /\ ~Gap

IInv ==
    /\ TypeOK
    /\ Filled(cells) /\ Begun(cells)
    /\ \E h \in Page : Ordered(cells, h) /\ (pc # "off" => h = head[1])
    /\ CursorInv
    /\ BootInv

----------------------------------------------------------------------------
\* Pages, places and numbers

\* Products by the same factor.
LEMMA Products ==
    ASSUME NEW s \in Nat, NEW a \in Nat, NEW b \in Nat
    PROVE  /\ a * s \in Nat
           /\ a < b => a * s + s <= b * s
           /\ (a + 1) * s = a * s + s
           /\ a <= b => (b - a) \in Nat /\ (b - a) * s = b * s - a * s
<1>1. a * s \in Nat /\ (a + 1) * s = a * s + s
    BY SMT
<1>2. a <= b => (b - a) \in Nat /\ (b - a) * s = b * s - a * s
    BY SMT
<1>3. ASSUME a < b PROVE a * s + s <= b * s
  <2> DEFINE k == b - (a + 1)
  <2>1. k \in Nat /\ b = (a + 1) + k
      BY <1>3
  <2>2. b * s = (a + 1) * s + k * s
      BY <2>1, SMT
  <2>3. k * s \in Nat /\ b * s \in Nat
      BY <2>1, SMT
  <2>4. QED
      BY <1>1, <2>2, <2>3
<1>4. QED
    BY <1>1, <1>2, <1>3

\* What the assumption says of the number of slots.
LEMMA SizeFacts ==
    /\ Pages \in Nat /\ Pages >= 2 /\ Slots \in Nat /\ Slots >= 1
    /\ Pages * Slots \in Nat /\ SeqMod \in Nat /\ 2 * (Pages * Slots + 1) < SeqMod
    /\ SEQ_EMPTY \in Nat /\ Corrupt \notin Seqs /\ Corrupt # SEQ_EMPTY /\ SEQ_EMPTY \notin Seqs
    /\ \A p \in Page : p \in Nat
    /\ \A i \in Slot : i \in Nat
    /\ 0 \in Slot /\ 0 \in Page
<1>1. Pages \in Nat /\ Pages >= 2 /\ Slots \in Nat /\ Slots >= 1
    BY LogFlashAssumption
<1>2. Pages * Slots \in Nat
    BY <1>1, Products
<1>3. SeqMod \in Nat /\ 2 * (Pages * Slots + 1) < SeqMod
    BY LogFlashAssumption
<1>4. SEQ_EMPTY \in Nat
    BY <1>2, <1>3 DEF SEQ_EMPTY
<1>5. QED
    BY <1>1, <1>2, <1>3, <1>4 DEF SEQ_EMPTY, Seqs, Corrupt, Page, Slot

\* How far a page is behind another one in the ring.
LEMMA TurnFacts ==
    ASSUME NEW h \in Page, NEW p \in Page
    PROVE  /\ Turn(h, p) \in Nat /\ Turn(h, p) < Pages
           /\ Turn(h, p) = IF p >= h THEN p - h ELSE p - h + Pages
<1>1. p - h \in Int /\ Pages \in Nat \ {0}
    BY SizeFacts DEF Page
<1>2. p >= h => p - h \in 0..(Pages - 1)
    BY SizeFacts DEF Page
<1>3. p < h => p - h \in (0 - Pages)..(0 - 1)
    BY SizeFacts DEF Page
<1>4. Turn(h, p) = IF p >= h THEN p - h ELSE p - h + Pages
    BY <1>1, <1>2, <1>3, NearRemainder, SizeFacts DEF Turn
<1>5. QED
    BY <1>4, SizeFacts DEF Page

\* The page that follows another one.
LEMMA NextFacts ==
    ASSUME NEW p \in Page
    PROVE  /\ NextPage(p) \in Page /\ NextPage(p) # p
           /\ NextPage(p) = IF p = Pages - 1 THEN 0 ELSE p + 1
<1>1. p + 1 \in Int /\ Pages \in Nat \ {0}
    BY SizeFacts DEF Page
<1>2. p # Pages - 1 => p + 1 \in 0..(Pages - 1)
    BY SizeFacts DEF Page
<1>3. p = Pages - 1 => p + 1 \in Pages..(2 * Pages - 1)
    BY SizeFacts DEF Page
<1>4. NextPage(p) = IF p = Pages - 1 THEN 0 ELSE p + 1
    BY <1>1, <1>2, <1>3, NearRemainder, SizeFacts DEF NextPage
<1>5. QED
    BY <1>4, SizeFacts DEF Page

\* Pages in the ring.
LEMMA RingFacts ==
    ASSUME NEW h \in Page
    PROVE  /\ Turn(h, h) = 0
           /\ \A p, q \in Page : Turn(h, p) = Turn(h, q) => p = q
           /\ \A p \in Page : NextPage(p) # h => Turn(h, NextPage(p)) = Turn(h, p) + 1
           /\ \A p \in Page : NextPage(p) = h => Turn(h, p) = Pages - 1
           /\ \A p \in Page : p # h => Turn(NextPage(h), p) = Turn(h, p) - 1
           /\ Turn(NextPage(h), h) = Pages - 1
           /\ \A o, p \in Page : Turn(h, o) <= Turn(h, p) => Turn(o, p) = Turn(h, p) - Turn(h, o)
<1>1. \A p, q \in Page : Turn(p, q) = IF q >= p THEN q - p ELSE q - p + Pages
    BY TurnFacts
<1>2. \A p \in Page : NextPage(p) \in Page /\ NextPage(p) = IF p = Pages - 1 THEN 0 ELSE p + 1
    BY NextFacts
<1>3. \A p \in Page : p \in Nat /\ p < Pages
    BY SizeFacts DEF Page
<1>4. Turn(h, h) = 0 /\ \A p, q \in Page : Turn(h, p) = Turn(h, q) => p = q
    BY <1>1, <1>3, SizeFacts
<1>0. Pages \in Nat /\ Pages >= 2
    BY SizeFacts
<1>5. ASSUME NEW p \in Page, NextPage(p) # h PROVE Turn(h, NextPage(p)) = Turn(h, p) + 1
  <2> DEFINE q == NextPage(p)
  <2>1. /\ Turn(h, q) = IF q >= h THEN q - h ELSE q - h + Pages
        /\ Turn(h, p) = IF p >= h THEN p - h ELSE p - h + Pages
      BY <1>1, <1>2
  <2>2. q = IF p = Pages - 1 THEN 0 ELSE p + 1
      BY <1>2
  <2>3. p \in Nat /\ p < Pages /\ h \in Nat /\ h < Pages /\ q # h
      BY <1>3, <1>5
  <2> HIDE DEF q
  <2>4. Turn(h, q) = Turn(h, p) + 1
      BY <1>0, <2>1, <2>2, <2>3
  <2>5. QED
      BY <2>4 DEF q
<1>6. ASSUME NEW p \in Page, NextPage(p) = h PROVE Turn(h, p) = Pages - 1
    BY <1>0, <1>1, <1>2, <1>3, <1>6
<1>7. ASSUME NEW p \in Page, p # h PROVE Turn(NextPage(h), p) = Turn(h, p) - 1
  <2> DEFINE q == NextPage(h)
  <2>1. /\ Turn(q, p) = IF p >= q THEN p - q ELSE p - q + Pages
        /\ Turn(h, p) = IF p >= h THEN p - h ELSE p - h + Pages
      BY <1>1, <1>2
  <2>2. q = IF h = Pages - 1 THEN 0 ELSE h + 1
      BY <1>2
  <2>3. p \in Nat /\ p < Pages /\ h \in Nat /\ h < Pages /\ p # h
      BY <1>3, <1>7
  <2> HIDE DEF q
  <2>4. Turn(q, p) = Turn(h, p) - 1
      BY <1>0, <2>1, <2>2, <2>3
  <2>5. QED
      BY <2>4 DEF q
<1>8. Turn(NextPage(h), h) = Pages - 1
    BY <1>0, <1>1, <1>2, <1>3
<1>9. ASSUME NEW o \in Page, NEW p \in Page, Turn(h, o) <= Turn(h, p)
      PROVE  Turn(o, p) = Turn(h, p) - Turn(h, o)
    BY <1>0, <1>1, <1>3, <1>9
<1>10. QED
    BY <1>4, <1>5, <1>6, <1>7, <1>8, <1>9

\* The places a cursor may be at, those behind the last slot of a page among them.
Cursor == Page \X (0..Slots)

\* Positions are those of a walk around the ring.
LEMMA PosFacts ==
    ASSUME NEW h \in Page, NEW c \in Cursor
    PROVE  /\ c[1] \in Page /\ c[2] \in Nat /\ c[2] <= Slots /\ c = <<c[1], c[2]>>
           /\ c \in Place <=> c[2] < Slots
           /\ Pos(h, c) \in Nat /\ Pos(h, c) <= Pages * Slots
           /\ c[2] < Slots => Pos(h, c) < Pages * Slots
<1>1. c[1] \in Page /\ c[2] \in Nat /\ c[2] <= Slots /\ c = <<c[1], c[2]>>
    BY SizeFacts DEF Cursor
<1>2. c \in Place <=> c[2] < Slots
    BY <1>1, SizeFacts DEF Place, Slot
<1>3. Turn(h, c[1]) \in Nat /\ Turn(h, c[1]) < Pages /\ Pages \in Nat /\ Slots \in Nat
    BY <1>1, TurnFacts, SizeFacts
<1>4. Turn(h, c[1]) * Slots \in Nat /\ Turn(h, c[1]) * Slots + Slots <= Pages * Slots
    BY <1>3, Products
<1>5. QED
    BY <1>1, <1>2, <1>3, <1>4, SizeFacts DEF Pos

\* Places and cursors that contain them.
LEMMA PlacesAreCursors == Place \subseteq Cursor /\ \A c \in Place : c[1] \in Page /\ c[2] \in Slot
<1>1. Slot \subseteq 0..Slots
    BY SizeFacts DEF Slot
<1>2. QED
    BY <1>1 DEF Place, Cursor

\* The order of positions.
LEMMA PosOrder ==
    ASSUME NEW h \in Page, NEW c \in Cursor, NEW d \in Cursor
    PROVE  /\ c[1] = d[1] => Pos(h, d) - Pos(h, c) = d[2] - c[2]
           /\ Turn(h, c[1]) < Turn(h, d[1]) =>
                 /\ Pos(h, c) <= Pos(h, d)
                 /\ c[2] < Slots => Pos(h, c) < Pos(h, d)
<1>1. c[1] \in Page /\ c[2] \in Nat /\ c[2] <= Slots /\ d[1] \in Page /\ d[2] \in Nat
    BY PosFacts
<1> DEFINE a == Turn(h, c[1])
           b == Turn(h, d[1])
<1>2. a \in Nat /\ b \in Nat /\ Slots \in Nat
    BY <1>1, TurnFacts, SizeFacts
<1>3. c[1] = d[1] => a = b
    OBVIOUS
<1>4. Pos(h, c) = a * Slots + c[2] /\ Pos(h, d) = b * Slots + d[2]
    BY DEF Pos
<1> HIDE DEF a, b
<1>5. a * Slots \in Nat /\ b * Slots \in Nat /\ (a < b => a * Slots + Slots <= b * Slots)
    BY <1>2, Products
<1>6. c[1] = d[1] => Pos(h, d) - Pos(h, c) = d[2] - c[2]
    BY <1>1, <1>3, <1>4, <1>5
<1>7. a < b => Pos(h, c) <= Pos(h, d) /\ (c[2] < Slots => Pos(h, c) < Pos(h, d))
    BY <1>1, <1>2, <1>4, <1>5
<1>8. QED
    BY <1>6, <1>7 DEF a, b

\* Two places do not have the same position.
LEMMA PosInjective ==
    ASSUME NEW h \in Page, NEW c \in Place, NEW d \in Place, Pos(h, c) = Pos(h, d)
    PROVE  c = d
<1>1. c \in Cursor /\ d \in Cursor
    BY PlacesAreCursors
<1>2. /\ c[1] \in Page /\ c[2] \in Nat /\ c = <<c[1], c[2]>> /\ Pos(h, c) \in Nat /\ c[2] < Slots
      /\ d[1] \in Page /\ d[2] \in Nat /\ d = <<d[1], d[2]>> /\ Pos(h, d) \in Nat /\ d[2] < Slots
    BY <1>1, PosFacts
<1>3. ~(Turn(h, c[1]) < Turn(h, d[1])) /\ ~(Turn(h, d[1]) < Turn(h, c[1]))
    BY <1>1, <1>2, PosOrder
<1>4. Turn(h, c[1]) = Turn(h, d[1])
    BY <1>2, <1>3, TurnFacts
<1>5. c[1] = d[1]
    BY <1>2, <1>4, RingFacts
<1>6. c[2] = d[2]
    BY <1>1, <1>2, <1>5, PosOrder
<1>7. QED
    BY <1>2, <1>5, <1>6

\* Positions counted from another page.
LEMMA PosShift ==
    ASSUME NEW h \in Page, NEW o \in Page, NEW c \in Cursor, Turn(h, o) <= Turn(h, c[1])
    PROVE  Pos(o, c) = Pos(h, c) - Turn(h, o) * Slots /\ Turn(h, o) * Slots \in Nat
<1>1. c[1] \in Page /\ c[2] \in Nat
    BY PosFacts
<1> DEFINE a == Turn(h, o)
           b == Turn(h, c[1])
<1>2. a \in Nat /\ b \in Nat /\ Slots \in Nat /\ a <= b
    BY <1>1, TurnFacts, SizeFacts
<1>3. Turn(o, c[1]) = b - a
    BY <1>1, RingFacts
<1>4. Pos(h, c) = b * Slots + c[2] /\ Pos(o, c) = (b - a) * Slots + c[2]
    BY <1>3 DEF Pos
<1> HIDE DEF a, b
<1>5. a * Slots \in Nat /\ b * Slots \in Nat /\ (b - a) * Slots = b * Slots - a * Slots
    BY <1>2, Products
<1>6. Pos(o, c) = Pos(h, c) - a * Slots
    BY <1>1, <1>4, <1>5
<1>7. QED
    BY <1>5, <1>6 DEF a

----------------------------------------------------------------------------
\* Sequence numbers

\* The difference of two numbers, counted as they are assigned.
LEMMA LagFacts ==
    ASSUME NEW a \in Seqs, NEW b \in Seqs
    PROVE  /\ SeqNext(a) \in Seqs
           /\ Lag(a, b) \in Nat /\ Lag(a, b) < SEQ_EMPTY
           /\ Lag(a, b) + 1 < SEQ_EMPTY => Lag(SeqNext(a), b) = Lag(a, b) + 1
           /\ Lag(SeqNext(a), a) = 1
<1>1. a \in Nat /\ b \in Nat /\ a < SEQ_EMPTY /\ b < SEQ_EMPTY /\ SEQ_EMPTY \in Nat
    BY SizeFacts DEF Seqs, SEQ_EMPTY
<1>2. SEQ_EMPTY > 1
    BY SizeFacts DEF SEQ_EMPTY
<1>3. \A x \in Nat : x \in Seqs <=> x < SEQ_EMPTY
    BY SizeFacts DEF Seqs, SEQ_EMPTY
<1>4. SeqNext(a) \in Seqs
    BY <1>1, <1>2, <1>3 DEF SeqNext
<1>5. Lag(a, b) \in Nat /\ Lag(a, b) < SEQ_EMPTY
    BY <1>1 DEF Lag
<1>6. Lag(a, b) + 1 < SEQ_EMPTY => Lag(SeqNext(a), b) = Lag(a, b) + 1
    BY <1>1 DEF Lag, SeqNext
<1>7. Lag(SeqNext(a), a) = 1
    BY <1>1, <1>2 DEF Lag, SeqNext
<1>8. QED
    BY <1>4, <1>5, <1>6, <1>7

\* Numbers not farther apart than there are slots compare as they were assigned
\* (seq_after).
LEMMA LagAfter ==
    ASSUME NEW a \in Seqs, NEW b \in Seqs, NEW n \in Int, n <= Pages * Slots, Lag(a, b) \in 1..n
    PROVE  SeqAfter(a, b) /\ ~SeqAfter(b, a)
<1> DEFINE d == (a - b) % SeqMod
           e == (b - a) % SeqMod
           m == SeqMod
           k == Pages * Slots
<1>1. a \in Nat /\ b \in Nat /\ a < m - 1 /\ b < m - 1 /\ m \in Nat \ {0}
    BY SizeFacts DEF Seqs
<1>2. k \in Nat /\ 2 * (k + 1) < m
    BY SizeFacts
<1>3. Lag(a, b) \in Int /\ Lag(a, b) >= 1 /\ Lag(a, b) <= k
    BY <1>1, <1>2
<1>4. Lag(a, b) = IF a >= b THEN a - b ELSE a - b + m - 1
    BY <1>1 DEF Lag, SEQ_EMPTY
<1>5. a >= b => a - b \in 0..(m - 1) /\ (a # b => b - a \in (0 - m)..(0 - 1))
    BY <1>1
<1>6. a < b => a - b \in (0 - m)..(0 - 1) /\ b - a \in 0..(m - 1)
    BY <1>1
<1>7. a - b \in Int /\ b - a \in Int
    BY <1>1
<1>8. /\ a >= b => d = a - b /\ (a # b => e = b - a + m)
      /\ a < b => d = a - b + m /\ e = b - a
    BY <1>1, <1>5, <1>6, <1>7, NearRemainder
<1>9. SeqAfter(a, b) <=> d > 0 /\ 2 * d < m
    BY DEF SeqAfter
<1>10. SeqAfter(b, a) <=> e > 0 /\ 2 * e < m
    BY DEF SeqAfter
<1> HIDE DEF d, e, m, k
<1>11. d > 0 /\ 2 * d < m
    BY <1>1, <1>2, <1>3, <1>4, <1>8
<1>12. ~(2 * e < m)
    BY <1>1, <1>2, <1>3, <1>4, <1>8
<1>13. QED
    BY <1>9, <1>10, <1>11, <1>12

----------------------------------------------------------------------------
\* The chip

Cell == Seqs \cup {SEQ_EMPTY, Corrupt}
Chip == [Page -> [Slot -> Cell]]

\* f with v in slot t, and with row as its page p.
Put(f, t, v) == [f EXCEPT ![t[1]][t[2]] = v]
Replaced(f, p, row) == [f EXCEPT ![p] = row]

\* Programming changes one slot.
LEMMA PutFacts ==
    ASSUME NEW f \in Chip, NEW t \in Place, NEW v \in Cell
    PROVE  /\ Put(f, t, v) \in Chip
           /\ \A d \in Place : At(Put(f, t, v), d) = IF d = t THEN v ELSE At(f, d)
           /\ \A p \in Page, i \in Slot :
                 Put(f, t, v)[p][i] = IF p = t[1] /\ i = t[2] THEN v ELSE f[p][i]
<1> DEFINE p == t[1]
           i == t[2]
           row == [f[p] EXCEPT ![i] = v]
           g == [f EXCEPT ![p] = row]
<1>1. p \in Page /\ i \in Slot /\ t = <<p, i>>
    BY DEF Place
<1>2. Put(f, t, v) = g
    BY DEF Put
<1>3. f \in [Page -> [Slot -> Cell]] /\ f[p] \in [Slot -> Cell]
    BY <1>1 DEF Chip
<1>4. row \in [Slot -> Cell] /\ \A j \in Slot : row[j] = IF j = i THEN v ELSE f[p][j]
    BY <1>1, <1>3
<1> HIDE DEF p, i, row
<1>5. g \in Chip /\ \A q \in Page : g[q] = IF q = p THEN row ELSE f[q]
    BY <1>1, <1>3, <1>4 DEF Chip
<1> HIDE DEF g
<1>6. \A q \in Page, j \in Slot : g[q][j] = IF q = p /\ j = i THEN v ELSE f[q][j]
    BY <1>4, <1>5
<1>7. ASSUME NEW d \in Place PROVE At(g, d) = IF d = t THEN v ELSE At(f, d)
  <2>1. d[1] \in Page /\ d[2] \in Slot /\ d = <<d[1], d[2]>>
      BY DEF Place
  <2>2. d = t <=> d[1] = p /\ d[2] = i
      BY <1>1, <2>1
  <2>3. QED
      BY <1>6, <2>1, <2>2 DEF At
<1>8. QED
    BY <1>2, <1>5, <1>6, <1>7 DEF p, i

\* What an erase leaves of a page: nothing readable, and nothing or all erased.
Blank == {row \in [Slot -> {SEQ_EMPTY, Corrupt}] : \A i, j \in Slot : row[i] = row[j]}

\* The entries of f that are on the pages kept are those of g.
Kept(f, g) == Entries(g) \subseteq Entries(f) /\ \A c \in Entries(g) : At(g, c) = At(f, c)

\* Erasing takes away the entries of one page.
LEMMA EraseFacts ==
    ASSUME NEW f \in Chip, NEW p \in Page, NEW row \in Blank
    PROVE  /\ Replaced(f, p, row) \in Chip
           /\ \A q \in Page : Replaced(f, p, row)[q] = IF q = p THEN row ELSE f[q]
           /\ \A c \in Entries(Replaced(f, p, row)) : c[1] # p
           /\ Kept(f, Replaced(f, p, row))
           /\ Filled(f) => Filled(Replaced(f, p, row))
           /\ Begun(f) => Begun(Replaced(f, p, row))
<1> DEFINE g == Replaced(f, p, row)
<1>1. row \in [Slot -> Cell] /\ f \in [Page -> [Slot -> Cell]]
    BY DEF Blank, Cell, Chip
<1>2. g \in Chip /\ \A q \in Page : g[q] = IF q = p THEN row ELSE f[q]
    BY <1>1 DEF Replaced, Chip
<1> HIDE DEF g
<1>3. \A i \in Slot : row[i] \notin Seqs
    BY SizeFacts DEF Blank
<1>4. ASSUME NEW c \in Entries(g) PROVE c[1] # p /\ c \in Entries(f) /\ At(g, c) = At(f, c)
  <2>1. c \in Place /\ c[1] \in Page /\ c[2] \in Slot /\ At(g, c) \in Seqs
      BY PlacesAreCursors DEF Entries
  <2>2. c[1] # p
      BY <1>2, <1>3, <2>1 DEF At
  <2>3. At(g, c) = At(f, c)
      BY <1>2, <2>1, <2>2 DEF At
  <2>4. QED
      BY <2>1, <2>2, <2>3 DEF Entries
<1>5. ASSUME Filled(f) PROVE Filled(g)
  <2>1. SUFFICES ASSUME NEW q \in Page, NEW i \in Slot, NEW j \in Slot, i < j, g[q][i] = SEQ_EMPTY
                 PROVE  g[q][j] = SEQ_EMPTY
      BY DEF Filled
  <2>2. CASE q = p
    <3>1. row[i] = row[j]
        BY DEF Blank
    <3>2. QED
        BY <1>2, <2>1, <2>2, <3>1
  <2>3. CASE q # p
      BY <1>2, <1>5, <2>1, <2>3 DEF Filled
  <2>4. QED
      BY <2>2, <2>3
<1>6. ASSUME Begun(f) PROVE Begun(g)
  <2>1. SUFFICES ASSUME NEW c \in Entries(g) PROVE g[c[1]][0] \in Seqs
      BY DEF Begun
  <2>2. c[1] \in Page
      BY PlacesAreCursors DEF Entries
  <2>3. QED
      BY <1>2, <1>4, <1>6, <2>2 DEF Begun
<1>7. QED
    BY <1>2, <1>4, <1>5, <1>6 DEF g, Kept

\* The order outlives the loss of entries.
LEMMA FewerInOrder ==
    ASSUME NEW f, NEW g, Kept(f, g), NEW h
    PROVE  /\ Ordered(f, h) => Ordered(g, h)
           /\ \A t, s : Fresh(f, h, t, s) => Fresh(g, h, t, s)
BY DEF Kept, Ordered, Fresh

\* Pages that are erased.
LEMMA BlankPages ==
    /\ Erased \in Blank
    /\ \A i \in Slot : Erased[i] = SEQ_EMPTY
    /\ "uniform" \in Careful => HalfErased \subseteq Blank
BY DEF Blank, Erased, HalfErased

\* An entry that is programmed at a place beyond all others continues the order.
LEMMA EntryAdded ==
    ASSUME NEW f \in Chip, NEW h \in Page, NEW t \in Place, NEW s \in Seqs,
           Ordered(f, h), Fresh(f, h, t, s)
    PROVE  /\ Ordered(Put(f, t, s), h)
           /\ Fresh(Put(f, t, s), h, <<t[1], t[2] + 1>>, SeqNext(s))
<1> DEFINE g == Put(f, t, s)
           u == <<t[1], t[2] + 1>>
<1>1. s \in Cell
    BY DEF Cell
<1>2. \A d \in Place : At(g, d) = IF d = t THEN s ELSE At(f, d)
    BY <1>1, PutFacts
<1>3. t \in Cursor /\ t[1] \in Page /\ t[2] \in Slot
    BY PlacesAreCursors
<1>4. u \in Cursor
    BY <1>3, SizeFacts DEF Cursor, Slot
<1>5. Pos(h, t) \in Nat /\ Pos(h, u) \in Nat /\ Pos(h, u) <= Pages * Slots
    BY <1>3, <1>4, PosFacts
<1>6. Pos(h, u) = Pos(h, t) + 1
  <2>1. Pos(h, u) - Pos(h, t) = u[2] - t[2]
      BY <1>3, <1>4, PosOrder
  <2>2. QED
      BY <1>3, <1>5, <2>1, SizeFacts
<1> HIDE DEF g, u
<1>7. ASSUME NEW c \in Entries(g), c # t
      PROVE  /\ c \in Entries(f) /\ At(g, c) = At(f, c) /\ At(f, c) \in Seqs
             /\ Pos(h, c) \in Nat
             /\ Lag(s, At(f, c)) \in 1..(Pos(h, t) - Pos(h, c))
  <2>1. c \in Place /\ At(g, c) \in Seqs
      BY DEF Entries
  <2>2. At(g, c) = At(f, c)
      BY <1>2, <1>7, <2>1
  <2>3. c \in Entries(f)
      BY <2>1, <2>2 DEF Entries
  <2>4. QED
      BY <2>1, <2>2, <2>3, PosFacts, PlacesAreCursors DEF Fresh
<1>8. At(g, t) = s
    BY <1>2
<1>9. ASSUME NEW c \in Entries(g), NEW d \in Entries(g), Pos(h, c) < Pos(h, d)
      PROVE  Lag(At(g, d), At(g, c)) \in 1..(Pos(h, d) - Pos(h, c))
  <2>1. CASE c = t
    <3>1. d # t
        BY <1>5, <1>9, <2>1
    <3>2. 1 <= Pos(h, t) - Pos(h, d)
        BY <1>5, <1>7, <3>1
    <3>3. QED
        BY <1>5, <1>7, <1>9, <2>1, <3>1, <3>2
  <2>2. CASE c # t /\ d = t
      BY <1>7, <1>8, <2>2
  <2>3. CASE c # t /\ d # t
    <3>1. Lag(At(f, d), At(f, c)) \in 1..(Pos(h, d) - Pos(h, c))
        BY <1>7, <1>9, <2>3 DEF Ordered
    <3>2. QED
        BY <1>7, <2>3, <3>1
  <2>4. QED
      BY <2>1, <2>2, <2>3
<1>10. ASSUME NEW c \in Entries(g) PROVE Lag(SeqNext(s), At(g, c)) \in 1..(Pos(h, u) - Pos(h, c))
  <2>1. CASE c = t
    <3>1. Lag(SeqNext(s), s) = 1
        BY LagFacts
    <3>2. QED
        BY <1>5, <1>6, <1>8, <2>1, <3>1
  <2>2. CASE c # t
    <3> DEFINE b == At(f, c)
    <3>1. b \in Seqs /\ At(g, c) = b /\ Pos(h, c) \in Nat /\ Lag(s, b) \in 1..(Pos(h, t) - Pos(h, c))
        BY <1>7, <2>2
    <3> HIDE DEF b
    <3>2. Lag(s, b) \in Nat /\ Lag(s, b) >= 1 /\ Lag(s, b) <= Pos(h, t) - Pos(h, c)
        BY <1>5, <3>1
    <3>3. Lag(s, b) + 1 <= Pages * Slots
      <4>1. Pages * Slots \in Nat
          BY SizeFacts
      <4>2. QED
          BY <1>5, <1>6, <3>1, <3>2, <4>1
    <3>4. Lag(s, b) + 1 < SEQ_EMPTY
        BY <3>2, <3>3, SizeFacts DEF SEQ_EMPTY
    <3>5. Lag(SeqNext(s), b) = Lag(s, b) + 1
        BY <3>1, <3>4, LagFacts
    <3>6. QED
        BY <1>5, <1>6, <3>1, <3>2, <3>5
  <2>3. QED
      BY <2>1, <2>2
<1>11. Ordered(g, h) /\ Fresh(g, h, u, SeqNext(s))
    BY <1>9, <1>10 DEF Ordered, Fresh
<1>12. QED
    BY <1>11 DEF g, u

----------------------------------------------------------------------------
\* Cursor recovery

\* The place the binary search comes to from lo and hi in a page filled up to n.
Clamp(n, lo, hi) == IF n <= lo \/ hi <= lo THEN lo ELSE IF n >= hi THEN hi ELSE n

\* One step of the search keeps that place.
LEMMA ClampStep ==
    ASSUME NEW n \in Nat, NEW lo \in Nat, NEW hi \in Nat, lo < hi
    PROVE  LET mid == lo + (hi - lo) \div 2 IN
           /\ mid \in Nat /\ lo <= mid /\ mid < hi
           /\ n <= mid => Clamp(n, lo, mid) = Clamp(n, lo, hi)
           /\ n > mid => Clamp(n, mid + 1, hi) = Clamp(n, lo, hi)
<1> DEFINE half == (hi - lo) \div 2
           rest == (hi - lo) % 2
           mid == lo + half
<1>1. hi - lo \in Int /\ 2 \in Nat \ {0}
    OBVIOUS
<1>2. half \in Int /\ rest \in 0..1 /\ hi - lo = 2 * half + rest
    BY <1>1, DivisionFact
<1> HIDE DEF half, rest
<1>3. mid \in Nat /\ lo <= mid /\ mid < hi
    BY <1>2
<1> HIDE DEF mid
<1>4. n <= mid => Clamp(n, lo, mid) = Clamp(n, lo, hi)
    BY <1>3 DEF Clamp
<1>5. n > mid => Clamp(n, mid + 1, hi) = Clamp(n, lo, hi)
    BY <1>3 DEF Clamp
<1>6. QED
    BY <1>3, <1>4, <1>5 DEF mid, half

\* In a page filled from its first slot on there is a first erased one, or none.
LEMMA FilledUpTo ==
    ASSUME NEW f \in Chip, Filled(f), NEW p \in Page
    PROVE  \E n \in 0..Slots : FilledTo(f, <<p, n>>)
<1>0. Slots \in Nat /\ \A i \in Slot : i \in Nat /\ i < Slots
    BY SizeFacts DEF Slot
<1> DEFINE T == {i \in Slot : f[p][i] = SEQ_EMPTY}
<1>1. CASE T = {}
  <2>1. FilledTo(f, <<p, Slots>>)
      BY <1>0, <1>1 DEF FilledTo
  <2>2. QED
      BY <1>0, <2>1
<1>2. CASE T # {}
  <2>1. T \subseteq Nat
      BY <1>0
  <2> HIDE DEF T
  <2>2. PICK n \in T : \A i \in T : n <= i
      BY <1>2, <2>1, LeastMember
  <2> USE DEF T
  <2>3. n \in Slot /\ f[p][n] = SEQ_EMPTY /\ n \in 0..Slots
      BY <1>0, <2>2
  <2>4. ASSUME NEW i \in Slot PROVE f[p][i] = SEQ_EMPTY <=> i >= n
    <3>1. i >= n => f[p][i] = SEQ_EMPTY
        BY <1>0, <2>3 DEF Filled
    <3>2. f[p][i] = SEQ_EMPTY => i >= n
        BY <1>0, <2>2, <2>3
    <3>3. QED
        BY <3>1, <3>2
  <2>5. QED
      BY <2>3, <2>4 DEF FilledTo
<1>3. QED
    BY <1>1, <1>2

\* The search of find_cursors as a function of the bounds it begins with.
Bounds == (0..Slots) \X (0..Slots)

Narrowed(p, b) ==
    LET mid == b[1] + (b[2] - b[1]) \div 2 IN
    IF SlotIsEmpty(p, mid) THEN <<b[1], mid>> ELSE <<mid + 1, b[2]>>

Searches(p, find) == find = [b \in Bounds |-> IF b[1] >= b[2] THEN b[1] ELSE find[Narrowed(p, b)]]

\* Each step comes nearer to the place.
LEMMA NarrowFacts ==
    ASSUME NEW p \in Page, NEW n \in 0..Slots, FilledTo(cells, <<p, n>>),
           NEW b \in Bounds, b[1] < b[2]
    PROVE  LET c == Narrowed(p, b) IN
           /\ c \in Bounds /\ c[2] - c[1] < b[2] - b[1] /\ b[1] <= c[1] /\ c[1] <= c[2]
           /\ Clamp(n, c[1], c[2]) = Clamp(n, b[1], b[2])
<1> DEFINE lo == b[1]
           hi == b[2]
           mid == lo + (hi - lo) \div 2
           c == Narrowed(p, b)
<1>1. Slots \in Nat /\ n \in Nat /\ n <= Slots /\ lo \in Nat /\ hi \in Nat /\ hi <= Slots /\ lo < hi
    BY SizeFacts DEF Bounds
<1>2. /\ mid \in Nat /\ lo <= mid /\ mid < hi
      /\ n <= mid => Clamp(n, lo, mid) = Clamp(n, lo, hi)
      /\ n > mid => Clamp(n, mid + 1, hi) = Clamp(n, lo, hi)
    BY <1>1, ClampStep
<1>3. c = IF SlotIsEmpty(p, mid) THEN <<lo, mid>> ELSE <<mid + 1, hi>>
    BY DEF Narrowed
<1> HIDE DEF mid, lo, hi, c
<1>4. mid \in Slot /\ mid \in 0..Slots /\ lo \in 0..Slots /\ hi \in 0..Slots /\ mid + 1 \in 0..Slots
    BY <1>1, <1>2 DEF Slot
<1>5. SlotIsEmpty(p, mid) <=> mid >= n
    BY <1>4 DEF FilledTo, SlotIsEmpty
<1>6. CASE SlotIsEmpty(p, mid)
  <2>1. c = <<lo, mid>> /\ n <= mid
      BY <1>1, <1>2, <1>3, <1>5, <1>6
  <2>2. c \in Bounds /\ c[1] = lo /\ c[2] = mid
      BY <1>4, <2>1 DEF Bounds
  <2>3. QED
      BY <1>1, <1>2, <2>1, <2>2 DEF lo, hi, c
<1>7. CASE ~SlotIsEmpty(p, mid)
  <2>1. c = <<mid + 1, hi>> /\ n > mid
      BY <1>1, <1>2, <1>3, <1>5, <1>7
  <2>2. c \in Bounds /\ c[1] = mid + 1 /\ c[2] = hi
      BY <1>4, <2>1 DEF Bounds
  <2>3. QED
      BY <1>1, <1>2, <2>1, <2>2 DEF lo, hi, c
<1>8. QED
    BY <1>6, <1>7

\* There is such a function,
LEMMA SearchExists ==
    ASSUME NEW p \in Page, NEW n \in 0..Slots, FilledTo(cells, <<p, n>>)
    PROVE  Searches(p, [b \in Bounds |-> Clamp(n, b[1], b[2])])
<1> DEFINE g == [b \in Bounds |-> Clamp(n, b[1], b[2])]
           step(b) == IF b[1] >= b[2] THEN b[1] ELSE g[Narrowed(p, b)]
<1>1. ASSUME NEW b \in Bounds PROVE g[b] = step(b)
  <2>1. b[1] \in Nat /\ b[2] \in Nat /\ g[b] = Clamp(n, b[1], b[2])
      BY SizeFacts DEF Bounds
  <2>2. CASE b[1] >= b[2]
      BY <2>1, <2>2 DEF Clamp
  <2>3. CASE b[1] < b[2]
    <3>1. Narrowed(p, b) \in Bounds
        BY <2>3, NarrowFacts
    <3>2. g[Narrowed(p, b)] = Clamp(n, Narrowed(p, b)[1], Narrowed(p, b)[2])
        BY <3>1
    <3>3. Clamp(n, Narrowed(p, b)[1], Narrowed(p, b)[2]) = Clamp(n, b[1], b[2])
        BY <2>3, NarrowFacts
    <3>4. ~(b[1] >= b[2])
        BY <2>1, <2>3
    <3> HIDE DEF g
    <3>5. QED
        BY <2>1, <3>2, <3>3, <3>4
  <2>4. QED
      BY <2>1, <2>2, <2>3
<1>2. g = [b \in Bounds |-> g[b]]
    OBVIOUS
<1> HIDE DEF g
<1>3. g = [b \in Bounds |-> step(b)]
    BY <1>1, <1>2
<1>4. QED
    BY <1>3 DEF Searches, g

\* and it comes to that place from anywhere.
LEMMA SearchFinds ==
    ASSUME NEW p \in Page, NEW n \in 0..Slots, FilledTo(cells, <<p, n>>),
           NEW find, Searches(p, find), NEW a \in Bounds
    PROVE  find[a] = Clamp(n, a[1], a[2])
<1> DEFINE Width(b) == IF b[1] >= b[2] THEN 0 ELSE b[2] - b[1]
           Wrong == {b \in Bounds : find[b] # Clamp(n, b[1], b[2])}
           T == {Width(b) : b \in Wrong}
<1>1. \A b \in Bounds : b[1] \in Nat /\ b[2] \in Nat /\ Width(b) \in Nat
    BY SizeFacts DEF Bounds
<1>2. SUFFICES ASSUME Wrong # {} PROVE FALSE
    OBVIOUS
<1>3. T \subseteq Nat /\ T # {}
    BY <1>1, <1>2
<1>4. \E x \in T : \A y \in T : x <= y
    BY <1>3, LeastMember
<1>5. PICK b \in Wrong : \A d \in Wrong : Width(b) <= Width(d)
    BY <1>4
<1>6. find[b] = IF b[1] >= b[2] THEN b[1] ELSE find[Narrowed(p, b)]
    BY DEF Searches
<1>7. b \in Bounds /\ b[1] \in Nat /\ b[2] \in Nat
    BY <1>1
<1>8. CASE b[1] >= b[2]
    BY <1>6, <1>7, <1>8 DEF Clamp
<1>9. CASE b[1] < b[2]
  <2> DEFINE c == Narrowed(p, b)
  <2>1. /\ c \in Bounds /\ c[2] - c[1] < b[2] - b[1]
        /\ Clamp(n, c[1], c[2]) = Clamp(n, b[1], b[2])
      BY <1>7, <1>9, NarrowFacts
  <2> HIDE DEF c
  <2>2. Width(c) < Width(b)
      BY <1>1, <1>7, <1>9, <2>1
  <2>3. c \notin Wrong
      BY <1>1, <1>5, <1>7, <2>1, <2>2
  <2>4. find[c] = Clamp(n, b[1], b[2])
      BY <2>1, <2>3
  <2>5. ~(b[1] >= b[2])
      BY <1>7, <1>9
  <2>6. find[b] = find[c]
      BY <1>6, <2>5 DEF c
  <2>7. QED
      BY <1>5, <2>4, <2>6
<1>10. QED
    BY <1>7, <1>8, <1>9

\* The binary search finds the first erased slot.
LEMMA FirstEmptyFacts ==
    ASSUME cells \in Chip, Filled(cells), NEW p \in Page
    PROVE  FirstEmpty(p) \in 0..Slots /\ FilledTo(cells, <<p, FirstEmpty(p)>>)
<1>1. PICK n \in 0..Slots : FilledTo(cells, <<p, n>>)
    BY FilledUpTo
<1> DEFINE find == CHOOSE f : Searches(p, f)
<1>2. FirstEmpty(p) = find[<<0, Slots>>]
    BY Zenon DEF FirstEmpty, Searches, Narrowed, Bounds
<1>3. Searches(p, find)
    BY <1>1, SearchExists, Zenon
<1> HIDE DEF find
<1>4. <<0, Slots>> \in Bounds
    BY SizeFacts DEF Bounds
<1>5. find[<<0, Slots>>] = Clamp(n, 0, Slots)
    BY <1>1, <1>3, <1>4, SearchFinds
<1>6. Clamp(n, 0, Slots) = n
    BY SizeFacts DEF Clamp
<1>7. QED
    BY <1>1, <1>2, <1>5, <1>6

\* The largest member of a set of slots, and the least one of a set of pages.
LEMMA LargestSlot ==
    ASSUME NEW S, S \subseteq Slot, S # {}
    PROVE  Max(S) \in S /\ \A i \in S : i <= Max(S)
<1> DEFINE T == {Slots - i : i \in S}
<1>0. Slots \in Nat /\ \A i \in S : i \in Nat /\ i < Slots
    BY SizeFacts DEF Slot
<1>1. T \subseteq Nat /\ T # {}
    BY <1>0
<1>2. \E x \in T : \A y \in T : x <= y
    BY <1>1, LeastMember
<1>3. PICK m \in S : \A y \in T : Slots - m <= y
    BY <1>2
<1>4. ASSUME NEW i \in S PROVE m >= i
  <2>1. Slots - m <= Slots - i
      BY <1>3
  <2>2. QED
      BY <1>0, <2>1
<1>5. \E x \in S : \A y \in S : x >= y
    BY <1>4
<1>6. Max(S) \in S /\ \A y \in S : Max(S) >= y
    BY <1>5, Zenon DEF Max
<1>7. QED
    BY <1>0, <1>6

LEMMA LeastPage ==
    ASSUME NEW S, S \subseteq Page, S # {}
    PROVE  Min(S) \in S
<1>1. S \subseteq Nat
    BY SizeFacts
<1>2. \E x \in S : \A y \in S : x <= y
    BY <1>1, LeastMember
<1>3. QED
    BY <1>2, Zenon DEF Min

\* A number is not newer than itself.
LEMMA NotAfterItself ==
    ASSUME NEW a \in Seqs
    PROVE  ~SeqAfter(a, a)
<1>1. a - a = 0
    BY SizeFacts DEF Seqs
<1>2. SeqMod \in Nat \ {0} /\ 0 \in 0..(SeqMod - 1)
    BY SizeFacts
<1>3. 0 % SeqMod = 0
    BY <1>2, SmallRemainder
<1>4. QED
    BY <1>1, <1>3 DEF SeqAfter

\* The first slots of readable pages compare as the pages follow each other.
LEMMA FoundInOrder ==
    ASSUME NEW h \in Page, Ordered(cells, h), NEW p \in FoundPages, NEW q \in FoundPages,
           Turn(h, p) < Turn(h, q)
    PROVE  SeqAfter(cells[q][0], cells[p][0]) /\ ~SeqAfter(cells[p][0], cells[q][0])
<1> DEFINE c == <<p, 0>>
           d == <<q, 0>>
<1>1. p \in Page /\ q \in Page /\ cells[p][0] \in Seqs /\ cells[q][0] \in Seqs
    BY DEF FoundPages, SlotValid
<1>2. c \in Place /\ d \in Place
    BY <1>1, SizeFacts DEF Place
<1>3. c \in Cursor /\ d \in Cursor
    BY <1>2, PlacesAreCursors
<1>4. At(cells, c) = cells[p][0] /\ At(cells, d) = cells[q][0]
    BY DEF At
<1>5. c \in Entries(cells) /\ d \in Entries(cells)
    BY <1>1, <1>2, <1>4 DEF Entries
<1>6. c[1] = p /\ d[1] = q /\ c[2] < Slots
    BY SizeFacts
<1> HIDE DEF c, d
<1>7. Pos(h, c) < Pos(h, d)
    BY <1>3, <1>6, PosOrder
<1>8. Lag(cells[q][0], cells[p][0]) \in 1..(Pos(h, d) - Pos(h, c))
    BY <1>4, <1>5, <1>7 DEF Ordered
<1> DEFINE n == Pos(h, d) - Pos(h, c)
<1>9. Pos(h, c) \in Nat /\ Pos(h, d) \in Nat /\ Pos(h, d) <= Pages * Slots /\ Pages * Slots \in Nat
    BY <1>3, PosFacts, SizeFacts
<1>10. n \in Int /\ n <= Pages * Slots
    BY <1>9
<1> HIDE DEF n
<1>11. QED
    BY <1>1, <1>8, <1>10, LagAfter DEF n

\* The oldest and the newest page are the first and the last readable one in the ring
\* (find_cursors).
LEMMA EndsFound ==
    ASSUME NEW h \in Page, Ordered(cells, h), FoundPages # {}
    PROVE  /\ OldestPage \in FoundPages /\ NewestPage \in FoundPages
           /\ \A q \in FoundPages : Turn(h, OldestPage) <= Turn(h, q)
           /\ \A q \in FoundPages : Turn(h, q) <= Turn(h, NewestPage)
<1>1. \A q \in FoundPages : q \in Page /\ cells[q][0] \in Seqs
    BY DEF FoundPages, SlotValid
<1>2. \A q \in FoundPages : Turn(h, q) \in Nat /\ Turn(h, q) < Pages
    BY <1>1, TurnFacts
<1>3. \A q \in FoundPages : ~SeqAfter(cells[q][0], cells[q][0])
    BY <1>1, NotAfterItself
<1>4. \A p, q \in FoundPages :
         Turn(h, p) < Turn(h, q) =>
            SeqAfter(cells[q][0], cells[p][0]) /\ ~SeqAfter(cells[p][0], cells[q][0])
    BY FoundInOrder
<1>5. \A p, q \in FoundPages : p # q => Turn(h, p) < Turn(h, q) \/ Turn(h, q) < Turn(h, p)
  <2>1. \A p, q \in FoundPages : Turn(h, p) = Turn(h, q) => p = q
      BY <1>1, RingFacts
  <2>2. QED
      BY <1>2, <2>1
<1>6. \E p \in FoundPages : \A q \in FoundPages : ~SeqAfter(cells[p][0], cells[q][0])
  <2> DEFINE T == {Turn(h, q) : q \in FoundPages}
  <2>1. T \subseteq Nat /\ T # {}
      BY <1>2
  <2>2. \E x \in T : \A y \in T : x <= y
      BY <2>1, LeastMember
  <2>3. PICK p \in FoundPages : \A q \in FoundPages : Turn(h, p) <= Turn(h, q)
      BY <2>2
  <2>4. ASSUME NEW q \in FoundPages PROVE ~SeqAfter(cells[p][0], cells[q][0])
      BY <1>2, <1>3, <1>4, <1>5, <2>3
  <2>5. QED
      BY <2>4
<1>7. \E p \in FoundPages : \A q \in FoundPages : ~SeqAfter(cells[q][0], cells[p][0])
  <2> DEFINE T == {Pages - Turn(h, q) : q \in FoundPages}
  <2>1. T \subseteq Nat /\ T # {}
      BY <1>2, SizeFacts
  <2>2. \E x \in T : \A y \in T : x <= y
      BY <2>1, LeastMember
  <2>3. PICK p \in FoundPages : \A y \in T : Pages - Turn(h, p) <= y
      BY <2>2
  <2>4. ASSUME NEW q \in FoundPages PROVE ~SeqAfter(cells[q][0], cells[p][0])
    <3>1. Pages - Turn(h, p) <= Pages - Turn(h, q)
        BY <2>3
    <3>2. ~(Turn(h, p) < Turn(h, q))
        BY <1>2, <3>1, SizeFacts
    <3>3. QED
        BY <1>3, <1>4, <1>5, <3>2
  <2>5. QED
      BY <2>4
<1>8. OldestPage \in FoundPages /\ \A q \in FoundPages : ~SeqAfter(cells[OldestPage][0], cells[q][0])
    BY <1>6, Zenon DEF OldestPage
<1>9. NewestPage \in FoundPages /\ \A q \in FoundPages : ~SeqAfter(cells[q][0], cells[NewestPage][0])
    BY <1>7, Zenon DEF NewestPage
<1>10. \A q \in FoundPages : Turn(h, OldestPage) <= Turn(h, q)
    BY <1>2, <1>4, <1>8
<1>11. \A q \in FoundPages : Turn(h, q) <= Turn(h, NewestPage)
    BY <1>2, <1>4, <1>9
<1>12. QED
    BY <1>8, <1>9, <1>10, <1>11

\* The order seen from a page that no entry lies before.
LEMMA OrderFrom ==
    ASSUME NEW f, NEW h \in Page, NEW o \in Page,
           \A c \in Entries(f) : Turn(h, o) <= Turn(h, c[1])
    PROVE  /\ Ordered(f, h) => Ordered(f, o)
           /\ \A t \in Cursor : \A s : Fresh(f, h, t, s) /\ Turn(h, o) <= Turn(h, t[1]) => Fresh(f, o, t, s)
<1> DEFINE k == Turn(h, o) * Slots
<1>1. \A c \in Entries(f) : c \in Cursor
    BY PlacesAreCursors DEF Entries
<1>2. \A c \in Cursor : Pos(h, c) \in Nat /\ Pos(o, c) \in Nat
    BY PosFacts
<1>3. \A c \in Cursor : Turn(h, o) <= Turn(h, c[1]) => Pos(o, c) = Pos(h, c) - k
    BY PosShift
<1>4. k \in Nat
    BY Products, TurnFacts, SizeFacts
<1> HIDE DEF k
<1>5. \A c, d \in Cursor :
         Turn(h, o) <= Turn(h, c[1]) /\ Turn(h, o) <= Turn(h, d[1]) =>
            Pos(o, d) - Pos(o, c) = Pos(h, d) - Pos(h, c)
    BY <1>2, <1>3, <1>4
<1>6. ASSUME Ordered(f, h) PROVE Ordered(f, o)
  <2>1. SUFFICES ASSUME NEW c \in Entries(f), NEW d \in Entries(f), Pos(o, c) < Pos(o, d)
                 PROVE  Lag(At(f, d), At(f, c)) \in 1..(Pos(o, d) - Pos(o, c))
      BY DEF Ordered
  <2>2. Pos(o, d) - Pos(o, c) = Pos(h, d) - Pos(h, c)
      BY <1>1, <1>5
  <2>3. Pos(h, c) < Pos(h, d)
      BY <1>1, <1>2, <2>1, <2>2
  <2>4. Lag(At(f, d), At(f, c)) \in 1..(Pos(h, d) - Pos(h, c))
      BY <1>6, <2>3 DEF Ordered
  <2>5. QED
      BY <2>2, <2>4
<1>7. ASSUME NEW t \in Cursor, NEW s, Fresh(f, h, t, s), Turn(h, o) <= Turn(h, t[1])
      PROVE  Fresh(f, o, t, s)
  <2>1. SUFFICES ASSUME NEW c \in Entries(f) PROVE Lag(s, At(f, c)) \in 1..(Pos(o, t) - Pos(o, c))
      BY DEF Fresh
  <2>2. Pos(o, t) - Pos(o, c) = Pos(h, t) - Pos(h, c)
      BY <1>1, <1>5, <1>7
  <2>3. QED
      BY <1>7, <2>2 DEF Fresh
<1>8. QED
    BY <1>6, <1>7

\* Where there is an entry, the page is found.
LEMMA EntriesAreFound ==
    ASSUME Begun(cells), NEW c \in Entries(cells)
    PROVE  c[1] \in FoundPages /\ c \in Place /\ c \in Cursor /\ At(cells, c) \in Seqs
<1>1. c \in Place /\ c[1] \in Page /\ c \in Cursor /\ At(cells, c) \in Seqs
    BY PlacesAreCursors DEF Entries
<1>2. QED
    BY <1>1 DEF Begun, FoundPages, SlotValid

\* What BSP_LogFlash_Init makes of the pages it finds.
LEMMA Recovered ==
    ASSUME cells \in Chip, Filled(cells), Begun(cells), NEW h \in Page, Ordered(cells, h),
           FoundPages # {}
    PROVE  LET t == <<NewestPage, WriteSlot(NewestPage)>>
               s == SeqNext(LastSeq(NewestPage))
           IN  /\ OldestPage \in Page /\ t \in Cursor /\ s \in Seqs
               /\ FilledTo(cells, t) /\ BegunBefore(cells, t)
               /\ Ordered(cells, OldestPage) /\ Fresh(cells, OldestPage, t, s)
<1> DEFINE n == NewestPage
           e == FirstEmpty(n)
           S == {i \in Slot : i < e /\ SlotValid(n, i)}
           m == Max(S)
           t == <<n, e>>
           last == <<n, m>>
           v == cells[n][m]
<1>1. /\ OldestPage \in FoundPages /\ n \in FoundPages
      /\ \A q \in FoundPages : Turn(h, OldestPage) <= Turn(h, q) /\ Turn(h, q) <= Turn(h, n)
    BY EndsFound
<1>2. OldestPage \in Page /\ n \in Page /\ cells[n][0] \in Seqs
    BY <1>1 DEF FoundPages, SlotValid
<1>3. e \in 0..Slots /\ FilledTo(cells, <<n, e>>)
    BY <1>2, FirstEmptyFacts
<1> HIDE DEF n, e
<1>4. t \in Cursor
    BY <1>2, <1>3 DEF Cursor
<1>5. e \in Nat /\ \A i \in Slot : i \in Nat /\ (cells[n][i] \in Seqs => i < e)
    BY <1>3, SizeFacts DEF FilledTo
<1>6. 0 \in S /\ S \subseteq Slot
    BY <1>2, <1>5, SizeFacts DEF SlotValid
<1>7. m \in S /\ \A i \in S : i <= m
    BY <1>6, LargestSlot
<1>8. LastSeq(n) = v
    BY DEF LastSeq, e
<1>9. m \in Slot /\ m < e /\ v \in Seqs /\ m \in Nat
    BY <1>5, <1>7 DEF SlotValid
<1>10. \A i \in Slot : cells[n][i] \in Seqs => i <= m
    BY <1>5, <1>7 DEF SlotValid
<1> HIDE DEF m, S
<1>11. last \in Place /\ last \in Cursor
    BY <1>2, <1>9, PlacesAreCursors DEF Place
<1>12. /\ Pos(h, t) \in Nat /\ Pos(h, last) \in Nat /\ Pos(h, last) < Pos(h, t)
       /\ Pos(h, t) <= Pages * Slots
  <2>1. Pos(h, t) - Pos(h, last) = t[2] - last[2]
      BY <1>4, <1>11, PosOrder
  <2>2. Pos(h, t) \in Nat /\ Pos(h, last) \in Nat /\ Pos(h, t) <= Pages * Slots
      BY <1>4, <1>11, PosFacts
  <2>3. QED
      BY <1>5, <1>9, <2>1, <2>2
<1>13. last \in Entries(cells) /\ At(cells, last) = v
    BY <1>9, <1>11 DEF Entries, At
<1>14. SeqNext(v) \in Seqs /\ Lag(SeqNext(v), v) = 1
    BY <1>9, LagFacts
<1>15. ASSUME NEW c \in Entries(cells)
       PROVE  Lag(SeqNext(v), At(cells, c)) \in 1..(Pos(h, t) - Pos(h, c))
  <2>1. c[1] \in FoundPages /\ c \in Place /\ c \in Cursor /\ At(cells, c) \in Seqs
      BY EntriesAreFound
  <2>2. c[1] \in Page /\ c[2] \in Slot /\ c = <<c[1], c[2]>> /\ Pos(h, c) \in Nat
      BY <2>1, PlacesAreCursors, PosFacts
  <2>3. CASE c = last
      BY <1>12, <1>13, <1>14, <2>3
  <2>4. CASE c # last
    <3>1. Pos(h, c) < Pos(h, last)
      <4>1. CASE c[1] = n
        <5>1. c[2] <= m /\ c[2] # m
            BY <1>10, <2>1, <2>2, <2>4, <4>1 DEF At
        <5>2. Pos(h, last) - Pos(h, c) = m - c[2]
            BY <1>11, <2>1, <4>1, PosOrder
        <5>3. QED
            BY <1>5, <1>9, <1>12, <2>2, <5>1, <5>2
      <4>2. CASE c[1] # n
        <5>1. Turn(h, c[1]) <= Turn(h, n) /\ Turn(h, c[1]) # Turn(h, n)
            BY <1>1, <1>2, <2>1, <2>2, <4>2, RingFacts
        <5>2. Turn(h, c[1]) < Turn(h, n)
            BY <1>2, <2>2, <5>1, TurnFacts
        <5>3. c[2] < Slots /\ last[1] = n
            BY <2>2, SizeFacts DEF Slot
        <5>4. QED
            BY <1>11, <2>1, <5>2, <5>3, PosOrder
      <4>3. QED
          BY <4>1, <4>2
    <3> DEFINE b == At(cells, c)
               l == Lag(v, b)
    <3>2. l \in 1..(Pos(h, last) - Pos(h, c))
        BY <1>13, <3>1 DEF Ordered
    <3>3. l + 1 < SEQ_EMPTY => Lag(SeqNext(v), b) = l + 1
        BY <1>9, <2>1, LagFacts
    <3> HIDE DEF l, b
    <3>4. l \in Nat /\ l >= 1 /\ l + 1 <= Pos(h, t) - Pos(h, c) /\ l + 1 <= Pages * Slots
        BY <1>12, <2>2, <3>2, SizeFacts
    <3>5. l + 1 < SEQ_EMPTY
        BY <3>4, SizeFacts DEF SEQ_EMPTY
    <3>6. QED
        BY <1>12, <2>2, <3>3, <3>4, <3>5 DEF b
  <2>5. QED
      BY <2>3, <2>4
<1>16. Fresh(cells, h, t, SeqNext(v))
    BY <1>15 DEF Fresh
<1>17. \A c \in Entries(cells) : Turn(h, OldestPage) <= Turn(h, c[1])
    BY <1>1, EntriesAreFound
<1>18. Turn(h, OldestPage) <= Turn(h, t[1])
    BY <1>1
<1>19. Ordered(cells, OldestPage) /\ Fresh(cells, OldestPage, t, SeqNext(v))
    BY <1>2, <1>4, <1>16, <1>17, <1>18, OrderFrom
<1>20. FilledTo(cells, t) /\ BegunBefore(cells, t)
    BY <1>2, <1>3 DEF BegunBefore
<1>21. QED
    BY <1>2, <1>4, <1>8, <1>14, <1>19, <1>20 DEF WriteSlot, n, e

----------------------------------------------------------------------------
\* The steps

\* The power fails in the ways that the driver is meant to survive.
Survivable == {"restart", "page0", "whole", "uniform"} \subseteq Careful

\* A full page is left for the next one.
LEMMA NextPageBegun ==
    ASSUME NEW f \in Chip, NEW h \in Page, NEW t \in Cursor, t[2] = Slots, NextPage(t[1]) # h,
           Solid(f, h, t[1]), FilledTo(f, t), NEW s, Fresh(f, h, t, s)
    PROVE  LET u == <<NextPage(t[1]), 0>> IN
           u \in Cursor /\ Fresh(f, h, u, s) /\ Solid(f, h, u[1]) /\ BegunBefore(f, u)
<1> DEFINE p == t[1]
           q == NextPage(p)
           u == <<q, 0>>
<1>1. p \in Page /\ q \in Page /\ t = <<p, Slots>>
    BY NextFacts, PosFacts
<1>2. u \in Cursor
    BY <1>1, SizeFacts DEF Cursor
<1>3. Turn(h, q) = Turn(h, p) + 1 /\ Turn(h, p) \in Nat
    BY <1>1, RingFacts, TurnFacts
<1>4. (Turn(h, p) + 1) * Slots = Turn(h, p) * Slots + Slots /\ Turn(h, p) * Slots \in Nat
    BY <1>3, Products, SizeFacts
<1>5. Pos(h, u) = Pos(h, t)
  <2>1. Pos(h, u) = (Turn(h, p) + 1) * Slots + 0
      BY <1>3 DEF Pos
  <2>2. Pos(h, t) = Turn(h, p) * Slots + Slots
      BY DEF Pos
  <2>3. QED
      BY <1>4, <2>1, <2>2, SizeFacts
<1>6. ASSUME NEW r \in Page, Turn(h, r) < Turn(h, q) PROVE f[r][0] # SEQ_EMPTY
  <2>1. CASE r = p
      BY <2>1, SizeFacts DEF FilledTo
  <2>2. CASE r # p
    <3>1. Turn(h, r) # Turn(h, p) /\ Turn(h, r) \in Nat
        BY <1>1, <2>2, RingFacts, TurnFacts
    <3>2. Turn(h, r) < Turn(h, p)
        BY <1>3, <1>6, <3>1
    <3>3. QED
        BY <3>2 DEF Solid
  <2>3. QED
      BY <2>1, <2>2
<1>7. QED
    BY <1>2, <1>5, <1>6 DEF Fresh, Solid, BegunBefore

\* A chip without entries, as the cursors of an empty log see it.
LEMMA EmptyLog ==
    ASSUME NEW f \in Chip, Filled(f), Entries(f) = {}, f[0][0] = SEQ_EMPTY, NEW s
    PROVE  LET t == <<0, 0>> IN
           /\ 0 \in Page /\ t \in Cursor /\ t \in Page \X Slot
           /\ Ordered(f, 0) /\ Fresh(f, 0, t, s) /\ Solid(f, 0, 0)
           /\ FilledTo(f, t) /\ BegunBefore(f, t)
<1>1. 0 \in Page /\ 0 \in Slot /\ \A i \in Slot : i \in Nat
    BY SizeFacts
<1>2. <<0, 0>> \in Cursor /\ <<0, 0>> \in Page \X Slot
    BY <1>1, SizeFacts DEF Cursor
<1>3. Ordered(f, 0) /\ Fresh(f, 0, <<0, 0>>, s)
    BY DEF Ordered, Fresh
<1>4. \A q \in Page : ~(Turn(0, q) < Turn(0, 0))
    BY <1>1, RingFacts, TurnFacts
<1>5. \A i \in Slot : f[0][i] = SEQ_EMPTY
    BY <1>1 DEF Filled
<1>6. FilledTo(f, <<0, 0>>)
    BY <1>1, <1>5 DEF FilledTo
<1>7. QED
    BY <1>1, <1>2, <1>3, <1>4, <1>6 DEF Solid, BegunBefore

\* What holds of the chip in every state.
LEMMA InvFacts ==
    ASSUME IInv
    PROVE  /\ cells \in Chip /\ cur \in Cursor /\ head \in Page \X Slot /\ head[1] \in Page
           /\ seq \in Seqs /\ Filled(cells) /\ Begun(cells)
           /\ pc # "off" => Ordered(cells, head[1])
BY DEF IInv, TypeOK, Chip, Cell, Cursor

\* Init
LEMMA InitInv == Init => IInv
<1>1. SUFFICES ASSUME Init PROVE IInv
    OBVIOUS
<1>2. cells = [p \in Page |-> Erased] /\ \A i \in Slot : Erased[i] = SEQ_EMPTY
    BY <1>1, BlankPages DEF Init
<1>3. cells \in Chip
    BY <1>2 DEF Chip, Cell, Erased
<1>4. \A p \in Page, i \in Slot : cells[p][i] = SEQ_EMPTY
    BY <1>2
<1>5. Filled(cells)
    BY <1>4 DEF Filled
<1>6. Entries(cells) = {} /\ FoundPages = {}
    BY <1>4, SizeFacts, PlacesAreCursors DEF Entries, At, FoundPages, SlotValid
<1>7. cells[0][0] = SEQ_EMPTY
    BY <1>4, SizeFacts
<1>8. /\ 0 \in Page /\ <<0, 0>> \in Cursor /\ <<0, 0>> \in Page \X Slot
      /\ Ordered(cells, 0)
    BY <1>3, <1>5, <1>6, <1>7, EmptyLog
<1>9. 0 \in Seqs
    BY SizeFacts DEF Seqs
<1>10. TypeOK
    BY <1>1, <1>3, <1>8, <1>9 DEF TypeOK, Init, Chip, Cell, Cursor
<1>11. Begun(cells)
    BY <1>6 DEF Begun
<1>12. CursorInv
    BY <1>1 DEF CursorInv, Init
<1>13. BootInv
    BY <1>6, <1>7 DEF BootInv, Gap, PageIsEmpty, SlotIsEmpty
<1>14. QED
    BY <1>1, <1>5, <1>8, <1>10, <1>11, <1>12, <1>13 DEF IInv, Init

\* BSP_LogFlash_Init
LEMMA BootKeeps == IInv /\ Boot => IInv'
<1>1. SUFFICES ASSUME IInv, Boot PROVE IInv'
    OBVIOUS
<1>2. cells \in Chip /\ Filled(cells) /\ Begun(cells)
    BY <1>1, InvFacts
<1>3. pc = "off" /\ pc' = "ready" /\ cells' = cells
    BY <1>1 DEF Boot
<1>4. PICK h \in Page : Ordered(cells, h)
    BY <1>1 DEF IInv
<1>5. (FoundPages = {} => PageIsEmpty(0)) /\ ~Gap
    BY <1>1, <1>3 DEF IInv, BootInv
<1>6. /\ cur' \in Cursor /\ head' \in Page \X Slot /\ head'[1] \in Page /\ seq' \in Seqs
      /\ Ordered(cells, head'[1])
      /\ Fresh(cells, head'[1], cur', seq') /\ Solid(cells, head'[1], cur'[1])
      /\ BegunBefore(cells, cur') /\ FilledTo(cells, cur')
  <2>1. CASE FoundPages = {}
    <3>1. cur' = <<0, 0>> /\ head' = <<0, 0>> /\ seq' = 0
        BY <1>1, <2>1 DEF Boot
    <3>2. Entries(cells) = {}
        BY <1>2, <2>1, EntriesAreFound
    <3>3. cells[0][0] = SEQ_EMPTY
        BY <1>5, <2>1 DEF PageIsEmpty, SlotIsEmpty
    <3>4. 0 \in Seqs
        BY SizeFacts DEF Seqs
    <3>5. /\ 0 \in Page /\ <<0, 0>> \in Cursor /\ <<0, 0>> \in Page \X Slot
          /\ Ordered(cells, 0) /\ Fresh(cells, 0, <<0, 0>>, 0) /\ Solid(cells, 0, 0)
          /\ FilledTo(cells, <<0, 0>>) /\ BegunBefore(cells, <<0, 0>>)
        BY <1>2, <3>2, <3>3, EmptyLog
    <3>6. QED
        BY <3>1, <3>4, <3>5
  <2>2. CASE FoundPages # {}
    <3> DEFINE t == <<NewestPage, WriteSlot(NewestPage)>>
               s == SeqNext(LastSeq(NewestPage))
    <3>1. cur' = t /\ head' = <<OldestPage, 0>> /\ seq' = s
        BY <1>1, <2>2 DEF Boot, HeadPage
    <3>2. /\ OldestPage \in Page /\ t \in Cursor /\ s \in Seqs
          /\ FilledTo(cells, t) /\ BegunBefore(cells, t)
          /\ Ordered(cells, OldestPage) /\ Fresh(cells, OldestPage, t, s)
        BY <1>2, <1>4, <2>2, Recovered
    <3>3. Solid(cells, OldestPage, NewestPage)
        BY <1>5, <2>2 DEF Gap, Solid, PageIsEmpty, SlotIsEmpty
    <3>4. t[1] = NewestPage
        OBVIOUS
    <3> HIDE DEF t, s
    <3>5. head' \in Page \X Slot /\ head'[1] = OldestPage
        BY <3>1, <3>2, SizeFacts
    <3>6. QED
        BY <3>1, <3>2, <3>3, <3>4, <3>5
  <2>3. QED
      BY <2>1, <2>2
<1>7. TypeOK'
    BY <1>2, <1>3, <1>6 DEF TypeOK, Chip, Cell, Cursor
<1>8. CursorInv'
    BY <1>3, <1>6 DEF CursorInv
<1>9. BootInv'
    BY <1>3 DEF BootInv
<1>10. QED
    BY <1>2, <1>3, <1>6, <1>7, <1>8, <1>9 DEF IInv

\* BSP_LogFlash_Write up to the first operation of the chip
LEMMA BeginWriteKeeps == ASSUME Survivable PROVE IInv /\ BeginWrite => IInv'
<1>1. SUFFICES ASSUME IInv, BeginWrite PROVE IInv'
    OBVIOUS
<1>2. /\ cells \in Chip /\ cur \in Cursor /\ head[1] \in Page /\ Filled(cells) /\ Begun(cells)
      /\ Ordered(cells, head[1]) \/ pc = "off"
    BY <1>1, InvFacts
<1>3. pc = "ready" /\ pc' = "program" /\ UNCHANGED <<cells, head, seq>>
    BY <1>1 DEF BeginWrite, CallOpen, Survivable
<1>4. /\ Fresh(cells, head[1], cur, seq) /\ Solid(cells, head[1], cur[1])
      /\ BegunBefore(cells, cur) /\ FilledTo(cells, cur)
    BY <1>1, <1>3 DEF IInv, CursorInv
<1>5. cur[1] \in Page /\ cur[2] \in Nat /\ cur[2] <= Slots /\ Slots \in Nat /\ Slots >= 1
    BY <1>2, PosFacts, SizeFacts
<1>6. /\ cur' \in Cursor /\ cur'[2] < Slots
      /\ Fresh(cells, head[1], cur', seq) /\ Solid(cells, head[1], cur'[1])
      /\ BegunBefore(cells, cur') /\ FilledTo(cells, cur')
  <2>1. CASE PageFull
    <3> DEFINE q == NextPage(cur[1])
               u == <<q, 0>>
    <3>1. cur[2] = Slots /\ cur' = u /\ cells[q][0] = SEQ_EMPTY /\ q \in Page
        BY <1>1, <1>5, <2>1, NextFacts DEF BeginWrite, PageFull, PageIsEmpty, SlotIsEmpty
    <3>2. q # head[1]
      <4>1. SUFFICES ASSUME q = head[1] PROVE FALSE
          OBVIOUS
      <4>2. Turn(q, q) = 0 /\ Turn(q, cur[1]) = Pages - 1
          BY <1>5, <3>1, RingFacts
      <4>3. Turn(q, q) < Turn(q, cur[1])
          BY <4>2, SizeFacts
      <4>4. QED
          BY <1>4, <3>1, <4>1, <4>3 DEF Solid
    <3>3. /\ u \in Cursor /\ Fresh(cells, head[1], u, seq) /\ Solid(cells, head[1], u[1])
          /\ BegunBefore(cells, u)
        BY <1>2, <1>4, <3>1, <3>2, NextPageBegun
    <3>4. \A i \in Slot : i \in Nat /\ cells[q][i] = SEQ_EMPTY
        BY <1>2, <3>1, SizeFacts DEF Filled
    <3>5. FilledTo(cells, u)
        BY <3>4 DEF FilledTo
    <3>6. u[2] < Slots
        BY <1>5
    <3> HIDE DEF u
    <3>7. QED
        BY <3>1, <3>3, <3>5, <3>6
  <2>2. CASE ~PageFull
    <3>1. cur' = cur /\ cur[2] < Slots
        BY <1>1, <1>5, <2>2 DEF BeginWrite, PageFull
    <3>2. QED
        BY <1>2, <1>4, <3>1
  <2>3. QED
      BY <2>1, <2>2
<1>7. TypeOK'
    BY <1>1, <1>3, <1>6 DEF IInv, TypeOK, Cursor
<1>8. CursorInv'
    BY <1>3, <1>6 DEF CursorInv
<1>9. BootInv'
    BY <1>3 DEF BootInv
<1>10. QED
    BY <1>2, <1>3, <1>7, <1>8, <1>9 DEF IInv

LEMMA BeginRotateKeeps == ASSUME Survivable PROVE IInv /\ BeginRotate => IInv'
<1>1. SUFFICES ASSUME IInv, BeginRotate PROVE IInv'
    OBVIOUS
<1>2. pc = "ready" /\ pc' = "erase" /\ PageFull /\ UNCHANGED <<cells, cur, head, seq>>
    BY <1>1 DEF BeginRotate, CallOpen, Survivable, cursors
<1>3. cur[2] = Slots
    BY <1>1, <1>2, InvFacts, PosFacts, SizeFacts DEF PageFull
<1>4. TypeOK'
    BY <1>1, <1>2 DEF IInv, TypeOK
<1>5. CursorInv'
    BY <1>1, <1>2, <1>3 DEF IInv, CursorInv
<1>6. BootInv'
    BY <1>2 DEF BootInv
<1>7. QED
    BY <1>1, <1>2, <1>4, <1>5, <1>6 DEF IInv

\* The head moves on when its page is erased.
LEMMA RotateDoneKeeps == IInv /\ RotateDone => IInv'
<1>1. SUFFICES ASSUME IInv, RotateDone PROVE IInv'
    OBVIOUS
<1> DEFINE p == NextPage(cur[1])
           g == Replaced(cells, p, Erased)
           u == <<p, 0>>
           h == head[1]
           k == head'[1]
<1>2. /\ cells \in Chip /\ cur \in Cursor /\ head \in Page \X Slot /\ h \in Page
      /\ Filled(cells) /\ Begun(cells)
    BY <1>1, InvFacts
<1>3. /\ pc = "erase" /\ pc' = "program" /\ cells' = g /\ cur' = u /\ seq' = seq
      /\ head' = IF h = p THEN <<NextPage(p), 0>> ELSE head
    BY <1>1 DEF RotateDone, Replaced
<1>4. /\ Fresh(cells, h, cur, seq) /\ Solid(cells, h, cur[1]) /\ Ordered(cells, h)
      /\ FilledTo(cells, cur) /\ cur[2] = Slots
    BY <1>1, <1>3, InvFacts DEF IInv, CursorInv
<1>5. cur[1] \in Page /\ p \in Page /\ p # cur[1] /\ NextPage(p) \in Page /\ NextPage(p) # p
    BY <1>2, PosFacts, NextFacts
<1>6. /\ g \in Chip /\ Filled(g) /\ Begun(g) /\ Kept(cells, g)
      /\ \A q \in Page : g[q] = IF q = p THEN Erased ELSE cells[q]
      /\ \A c \in Entries(g) : c[1] # p
    BY <1>2, <1>5, EraseFacts, BlankPages
<1>7. Ordered(g, h) /\ Fresh(g, h, cur, seq)
    BY <1>4, <1>6, FewerInOrder
<1>8. g[cur[1]] = cells[cur[1]]
    BY <1>5, <1>6
<1>9. FilledTo(g, cur)
    BY <1>4, <1>8 DEF FilledTo
<1>10. g[p] = Erased
    BY <1>5, <1>6
<1> HIDE DEF g
<1>11. head' \in Page \X Slot /\ k \in Page /\ k # p
    BY <1>2, <1>3, <1>5, SizeFacts
<1>12. Ordered(g, k) /\ Fresh(g, k, cur, seq) /\ Solid(g, k, cur[1])
  <2>1. CASE h # p
    <3>1. k = h
        BY <1>3, <2>1
    <3>2. ASSUME NEW q \in Page, Turn(h, q) < Turn(h, cur[1]) PROVE g[q][0] # SEQ_EMPTY
      <4>1. q # p
        <5>1. Turn(h, p) = Turn(h, cur[1]) + 1 /\ Turn(h, cur[1]) \in Nat
            BY <1>2, <1>5, <2>1, RingFacts, TurnFacts
        <5>2. QED
            BY <3>2, <5>1
      <4>2. QED
          BY <1>4, <1>6, <3>2, <4>1 DEF Solid
    <3>3. QED
        BY <1>7, <3>1, <3>2 DEF Solid
  <2>2. CASE h = p
    <3>1. k = NextPage(h) /\ Turn(h, k) = 1
      <4>1. k = NextPage(h)
          BY <1>3, <2>2
      <4>2. Turn(h, h) = 0 /\ Turn(h, NextPage(h)) = Turn(h, h) + 1
          BY <1>2, <1>5, <2>2, RingFacts
      <4>3. QED
          BY <4>1, <4>2
    <3>2. \A q \in Page : q # h => Turn(k, q) = Turn(h, q) - 1 /\ Turn(h, q) \in Nat /\ Turn(h, q) >= 1
      <4>1. \A q \in Page : q # h => Turn(k, q) = Turn(h, q) - 1
          BY <1>2, <3>1, RingFacts
      <4>2. \A q \in Page : Turn(h, q) \in Nat /\ Turn(k, q) \in Nat
          BY <1>2, <1>11, TurnFacts
      <4>3. QED
          BY <4>1, <4>2
    <3>3. \A c \in Entries(g) : Turn(h, k) <= Turn(h, c[1])
      <4>1. \A c \in Entries(g) : c[1] \in Page /\ c[1] # h
          BY <1>6, <2>2, PlacesAreCursors DEF Entries
      <4>2. QED
          BY <3>1, <3>2, <4>1
    <3>4. Turn(h, k) <= Turn(h, cur[1])
        BY <1>5, <2>2, <3>1, <3>2
    <3>5. Ordered(g, k) /\ Fresh(g, k, cur, seq)
        BY <1>2, <1>7, <1>11, <3>3, <3>4, OrderFrom
    <3>6. ASSUME NEW q \in Page, Turn(k, q) < Turn(k, cur[1]) PROVE g[q][0] # SEQ_EMPTY
      <4>1. Turn(h, cur[1]) = Pages - 1 /\ Turn(k, h) = Pages - 1 /\ Turn(k, cur[1]) = Pages - 2
        <5>1. Turn(h, cur[1]) = Pages - 1 /\ Turn(k, h) = Pages - 1
            BY <1>2, <1>5, <2>2, <3>1, RingFacts
        <5>2. Turn(k, cur[1]) = Turn(h, cur[1]) - 1
            BY <1>5, <2>2, <3>2
        <5>3. QED
            BY <5>1, <5>2, SizeFacts
      <4>2. q # h
          BY <3>6, <4>1, SizeFacts
      <4>3. Turn(h, q) < Turn(h, cur[1])
          BY <3>2, <3>6, <4>1, <4>2, SizeFacts
      <4>4. QED
          BY <1>4, <1>6, <2>2, <4>2, <4>3 DEF Solid
    <3>7. QED
        BY <3>5, <3>6 DEF Solid
  <2>3. QED
      BY <2>1, <2>2
<1>13. u \in Cursor /\ Fresh(g, k, u, seq) /\ Solid(g, k, u[1]) /\ BegunBefore(g, u)
    BY <1>2, <1>4, <1>6, <1>9, <1>11, <1>12, NextPageBegun
<1>14. FilledTo(g, u)
    BY <1>10, BlankPages, SizeFacts DEF FilledTo
<1>15. u[2] < Slots
    BY SizeFacts
<1> HIDE DEF u
<1>16. TypeOK'
    BY <1>1, <1>3, <1>6, <1>11, <1>13 DEF IInv, TypeOK, Chip, Cell, Cursor
<1>17. CursorInv'
    BY <1>3, <1>13, <1>14, <1>15 DEF CursorInv
<1>18. BootInv'
    BY <1>3 DEF BootInv
<1>19. QED
    BY <1>3, <1>6, <1>11, <1>12, <1>16, <1>17, <1>18 DEF IInv

LEMMA RefusedKeeps == IInv /\ CallRefused => IInv'
<1>1. SUFFICES ASSUME IInv, CallRefused PROVE IInv'
    OBVIOUS
<1>2. pc \in {"erase", "program"} /\ pc' = "ready" /\ UNCHANGED <<cells, cur, head, seq>>
    BY <1>1 DEF CallRefused, cursors
<1>3. TypeOK' /\ CursorInv'
    BY <1>1, <1>2 DEF IInv, TypeOK, CursorInv
<1>4. BootInv'
    BY <1>2 DEF BootInv
<1>5. QED
    BY <1>1, <1>2, <1>3, <1>4 DEF IInv

\* A slot is torn until its last operation.
LEMMA ProgramFirstKeeps == IInv /\ ProgramFirst => IInv'
<1>1. SUFFICES ASSUME IInv, ProgramFirst PROVE IInv'
    OBVIOUS
<1> DEFINE g == Put(cells, cur, Corrupt)
           h == head[1]
<1>2. /\ cells \in Chip /\ cur \in Cursor /\ h \in Page /\ Filled(cells) /\ Begun(cells)
    BY <1>1, InvFacts
<1>3. pc = "program" /\ pc' = "rest" /\ cells' = g /\ UNCHANGED <<cur, head, seq>>
    BY <1>1 DEF ProgramFirst, Put, cursors
<1>4. /\ Fresh(cells, h, cur, seq) /\ Solid(cells, h, cur[1]) /\ BegunBefore(cells, cur)
      /\ FilledTo(cells, cur) /\ cur[2] < Slots /\ Ordered(cells, h)
    BY <1>1, <1>3, InvFacts DEF IInv, CursorInv
<1>5. cur \in Place /\ cur[1] \in Page /\ cur[2] \in Slot
    BY <1>2, <1>4, PosFacts, PlacesAreCursors
<1>6. /\ g \in Chip
      /\ \A d \in Place : At(g, d) = IF d = cur THEN Corrupt ELSE At(cells, d)
      /\ \A p \in Page, i \in Slot :
            g[p][i] = IF p = cur[1] /\ i = cur[2] THEN Corrupt ELSE cells[p][i]
    BY <1>2, <1>5, PutFacts DEF Cell
<1> HIDE DEF g
<1>7. Kept(cells, g)
    BY <1>6, SizeFacts DEF Kept, Entries
<1>8. Ordered(g, h) /\ Fresh(g, h, cur, seq)
    BY <1>4, <1>7, FewerInOrder
<1>9. \A i \in Slot : i \in Nat /\ (g[cur[1]][i] = SEQ_EMPTY <=> i > cur[2])
    BY <1>4, <1>5, <1>6, SizeFacts DEF FilledTo
<1>10. Filled(g)
  <2>1. SUFFICES ASSUME NEW p \in Page, NEW i \in Slot, NEW j \in Slot, i < j, g[p][i] = SEQ_EMPTY
                 PROVE  g[p][j] = SEQ_EMPTY
      BY DEF Filled
  <2>2. CASE p = cur[1]
      BY <1>5, <1>9, <2>1, <2>2, SizeFacts
  <2>3. CASE p # cur[1]
      BY <1>2, <1>6, <2>1, <2>3 DEF Filled
  <2>4. QED
      BY <2>2, <2>3
<1>11. Begun(g)
  <2>1. SUFFICES ASSUME NEW c \in Entries(g) PROVE g[c[1]][0] \in Seqs
      BY DEF Begun
  <2>2. c \in Entries(cells) /\ At(g, c) = At(cells, c) /\ c \in Place /\ At(g, c) \in Seqs
      BY <1>7, <2>1 DEF Kept, Entries
  <2>3. c[1] \in Page /\ c[2] \in Slot /\ c = <<c[1], c[2]>>
      BY <2>2 DEF Place
  <2>4. cells[c[1]][0] \in Seqs
      BY <1>2, <2>2 DEF Begun
  <2>5. ~(c[1] = cur[1] /\ 0 = cur[2])
    <3>1. SUFFICES ASSUME c[1] = cur[1], 0 = cur[2] PROVE FALSE
        OBVIOUS
    <3>2. cells[cur[1]][0] = SEQ_EMPTY
        BY <1>4, <3>1, SizeFacts DEF FilledTo
    <3>3. QED
        BY <2>4, <3>1, <3>2, SizeFacts
  <2>6. QED
      BY <1>6, <2>3, <2>4, <2>5, SizeFacts
<1>12. BegunBefore(g, cur)
    BY <1>4, <1>5, <1>6, SizeFacts DEF BegunBefore
<1>13. Solid(g, h, cur[1])
    BY <1>4, <1>6, SizeFacts DEF Solid
<1>14. FilledTo(g, <<cur[1], cur[2] + 1>>)
    BY <1>5, <1>9, SizeFacts DEF FilledTo
<1>15. TypeOK'
    BY <1>1, <1>3, <1>6 DEF IInv, TypeOK, Chip, Cell
<1>16. CursorInv'
    BY <1>3, <1>4, <1>8, <1>12, <1>13, <1>14 DEF CursorInv
<1>17. BootInv'
    BY <1>3 DEF BootInv
<1>18. QED
    BY <1>2, <1>3, <1>8, <1>10, <1>11, <1>15, <1>16, <1>17 DEF IInv

\* The entry is in the log.
LEMMA ProgramRestKeeps == IInv /\ ProgramRest => IInv'
<1>1. SUFFICES ASSUME IInv, ProgramRest PROVE IInv'
    OBVIOUS
<1> DEFINE g == Put(cells, cur, seq)
           h == head[1]
           u == <<cur[1], cur[2] + 1>>
<1>2. /\ cells \in Chip /\ cur \in Cursor /\ h \in Page /\ Filled(cells) /\ Begun(cells)
      /\ seq \in Seqs
    BY <1>1, InvFacts
<1>3. /\ pc = "rest" /\ pc' = "ready" /\ cells' = g /\ cur' = u /\ seq' = SeqNext(seq)
      /\ UNCHANGED head
    BY <1>1 DEF ProgramRest, Put
<1>4. /\ Fresh(cells, h, cur, seq) /\ Solid(cells, h, cur[1]) /\ BegunBefore(cells, cur)
      /\ FilledTo(cells, u) /\ cur[2] < Slots /\ Ordered(cells, h)
    BY <1>1, <1>3, InvFacts DEF IInv, CursorInv
<1>5. cur \in Place /\ cur[1] \in Page /\ cur[2] \in Slot
    BY <1>2, <1>4, PosFacts, PlacesAreCursors
<1>6. u \in Cursor
    BY <1>5, SizeFacts DEF Cursor, Slot
<1>7. /\ g \in Chip
      /\ \A d \in Place : At(g, d) = IF d = cur THEN seq ELSE At(cells, d)
      /\ \A p \in Page, i \in Slot :
            g[p][i] = IF p = cur[1] /\ i = cur[2] THEN seq ELSE cells[p][i]
    BY <1>2, <1>5, PutFacts DEF Cell
<1>8. Ordered(g, h) /\ Fresh(g, h, u, SeqNext(seq))
    BY <1>2, <1>4, <1>5, EntryAdded
<1> HIDE DEF g
<1>9. \A i \in Slot : i \in Nat /\ (g[cur[1]][i] = SEQ_EMPTY <=> i >= cur[2] + 1)
  <2>1. \A i \in Slot : i \in Nat /\ (cells[cur[1]][i] = SEQ_EMPTY <=> i >= cur[2] + 1)
      BY <1>4, SizeFacts DEF FilledTo
  <2>2. seq # SEQ_EMPTY
      BY <1>2, SizeFacts
  <2>3. QED
      BY <1>5, <1>7, <2>1, <2>2, SizeFacts
<1>10. Filled(g)
  <2>1. SUFFICES ASSUME NEW p \in Page, NEW i \in Slot, NEW j \in Slot, i < j, g[p][i] = SEQ_EMPTY
                 PROVE  g[p][j] = SEQ_EMPTY
      BY DEF Filled
  <2>2. CASE p = cur[1]
      BY <1>5, <1>9, <2>1, <2>2, SizeFacts
  <2>3. CASE p # cur[1]
      BY <1>2, <1>7, <2>1, <2>3 DEF Filled
  <2>4. QED
      BY <2>2, <2>3
<1>11. g[cur[1]][0] \in Seqs
    BY <1>2, <1>4, <1>5, <1>7, SizeFacts DEF BegunBefore
<1>12. Begun(g)
  <2>1. SUFFICES ASSUME NEW c \in Entries(g) PROVE g[c[1]][0] \in Seqs
      BY DEF Begun
  <2>2. c \in Place /\ At(g, c) \in Seqs /\ c[1] \in Page
      BY PlacesAreCursors DEF Entries
  <2>3. CASE c[1] = cur[1]
      BY <1>11, <2>3
  <2>4. CASE c[1] # cur[1]
    <3>1. c \in Entries(cells)
        BY <1>7, <2>2, <2>4 DEF Entries
    <3>2. QED
        BY <1>2, <1>7, <2>2, <2>4, <3>1, SizeFacts DEF Begun
  <2>5. QED
      BY <2>3, <2>4
<1>13. BegunBefore(g, u)
    BY <1>11 DEF BegunBefore
<1>14. Solid(g, h, cur[1])
    BY <1>2, <1>4, <1>7, SizeFacts DEF Solid
<1>15. FilledTo(g, u)
    BY <1>9 DEF FilledTo
<1>16. u[1] = cur[1]
    OBVIOUS
<1> HIDE DEF u
<1>17. SeqNext(seq) \in Seqs
    BY <1>2, LagFacts
<1>18. TypeOK'
    BY <1>1, <1>3, <1>6, <1>7, <1>17 DEF IInv, TypeOK, Chip, Cell, Cursor
<1>19. CursorInv'
    BY <1>3, <1>8, <1>13, <1>14, <1>15, <1>16 DEF CursorInv
<1>20. BootInv'
    BY <1>3 DEF BootInv
<1>21. QED
    BY <1>2, <1>3, <1>8, <1>10, <1>12, <1>18, <1>19, <1>20 DEF IInv

\* Failures, after which a call returns, and the begin of an erasure of the log.
LEMMA StopsKeep == IInv /\ (ProgramFails \/ BeginWipe \/ WipeFails) => IInv'
<1>1. SUFFICES ASSUME IInv, ProgramFails \/ BeginWipe \/ WipeFails PROVE IInv'
    OBVIOUS
<1>2. pc # "off" /\ pc' \in {"failed", "wipe"} /\ UNCHANGED <<cells, cur, head, seq>>
    BY <1>1 DEF ProgramFails, BeginWipe, WipeFails, cursors
<1>3. TypeOK'
    BY <1>1, <1>2 DEF IInv, TypeOK
<1>4. CursorInv' /\ BootInv'
    BY <1>2 DEF CursorInv, BootInv
<1>5. QED
    BY <1>1, <1>2, <1>3, <1>4 DEF IInv

\* BSP_LogFlash_Erase
LEMMA WipePageKeeps == IInv /\ WipePage => IInv'
<1>1. SUFFICES ASSUME IInv, WipePage PROVE IInv'
    OBVIOUS
<1> DEFINE p == Min(UsedPages)
           g == Replaced(cells, p, Erased)
           h == head[1]
<1>2. /\ pc = "wipe" /\ cells' = g /\ UsedPages # {} /\ UNCHANGED <<cur, head, seq, pc>>
    BY <1>1 DEF WipePage, Replaced, cursors
<1>3. cells \in Chip /\ h \in Page /\ Filled(cells) /\ Begun(cells) /\ Ordered(cells, h)
    BY <1>1, <1>2, InvFacts
<1>4. p \in Page
    BY <1>2, LeastPage DEF UsedPages
<1>5. g \in Chip /\ Filled(g) /\ Begun(g) /\ Ordered(g, h)
    BY <1>3, <1>4, EraseFacts, BlankPages, FewerInOrder
<1> HIDE DEF g
<1>6. TypeOK'
    BY <1>1, <1>2, <1>5 DEF IInv, TypeOK, Chip, Cell
<1>7. CursorInv' /\ BootInv'
    BY <1>2 DEF CursorInv, BootInv
<1>8. QED
    BY <1>2, <1>3, <1>5, <1>6, <1>7 DEF IInv

LEMMA WipeDoneKeeps == IInv /\ WipeDone => IInv'
<1>1. SUFFICES ASSUME IInv, WipeDone PROVE IInv'
    OBVIOUS
<1>2. /\ pc' = "ready" /\ cells' = cells /\ UsedPages = {}
      /\ cur' = <<0, 0>> /\ head' = <<0, 0>> /\ seq' = 0
    BY <1>1 DEF WipeDone
<1>3. cells \in Chip /\ Filled(cells) /\ Begun(cells)
    BY <1>1, InvFacts
<1>4. \A p \in Page : cells[p][0] = SEQ_EMPTY
    BY <1>2 DEF UsedPages, PageIsEmpty, SlotIsEmpty
<1>5. Entries(cells) = {}
    BY <1>3, <1>4, SizeFacts, PlacesAreCursors DEF Entries, Begun
<1>6. cells[0][0] = SEQ_EMPTY /\ 0 \in Seqs
    BY <1>4, SizeFacts DEF Seqs
<1>7. /\ 0 \in Page /\ <<0, 0>> \in Cursor /\ <<0, 0>> \in Page \X Slot
      /\ Ordered(cells, 0) /\ Fresh(cells, 0, <<0, 0>>, 0) /\ Solid(cells, 0, 0)
      /\ FilledTo(cells, <<0, 0>>) /\ BegunBefore(cells, <<0, 0>>)
    BY <1>3, <1>5, <1>6, EmptyLog
<1>8. TypeOK'
    BY <1>2, <1>3, <1>6, <1>7 DEF TypeOK, Chip, Cell, Cursor
<1>9. CursorInv' /\ BootInv'
    BY <1>2, <1>7 DEF CursorInv, BootInv
<1>10. QED
    BY <1>2, <1>3, <1>7, <1>8, <1>9 DEF IInv

\* RAM is lost; of a page being erased nothing is left or all of it erased.
LEMMA PowerFailKeeps == ASSUME Survivable PROVE IInv /\ PowerFail => IInv'
<1>1. SUFFICES ASSUME IInv, PowerFail PROVE IInv'
    OBVIOUS
<1> DEFINE h == head[1]
<1>2. /\ pc # "off" /\ pc' = "off" /\ cur' = <<0, 0>> /\ head' = <<0, 0>> /\ seq' = 0
      /\ FoundPages' = {} => PageIsEmpty(0)'
      /\ ~Gap'
    BY <1>1 DEF PowerFail, Survivable
<1>3. cells \in Chip /\ h \in Page /\ Filled(cells) /\ Begun(cells) /\ Ordered(cells, h)
    BY <1>1, <1>2, InvFacts
<1>4. Erasing \subseteq Page
  <2>1. pc = "erase" => NextPage(cur[1]) \in Page
      BY <1>1, InvFacts, PosFacts, NextFacts
  <2>2. UsedPages # {} => Min(UsedPages) \in Page
      BY LeastPage DEF UsedPages
  <2>3. Erasing \subseteq {q \in {NextPage(cur[1])} : pc = "erase"} \cup {q \in {Min(UsedPages)} : UsedPages # {}}
      BY Zenon DEF Erasing
  <2>4. QED
      BY <2>1, <2>2, <2>3
<1>5. cells' \in Chip /\ Filled(cells') /\ Begun(cells') /\ Ordered(cells', h)
  <2>1. CASE cells' = cells
      BY <1>3, <2>1
  <2>2. CASE cells' # cells
    <3>1. PICK p \in Erasing, row \in HalfErased : cells' = [cells EXCEPT ![p] = row]
        BY <1>1, <2>2 DEF PowerFail
    <3>2. p \in Page /\ row \in Blank
        BY <1>4, BlankPages DEF Survivable
    <3>3. cells' = Replaced(cells, p, row)
        BY <3>1 DEF Replaced
    <3>4. QED
        BY <1>3, <3>2, <3>3, EraseFacts, FewerInOrder
  <2>3. QED
      BY <2>1, <2>2
<1>6. 0 \in Seqs /\ <<0, 0>> \in Cursor /\ <<0, 0>> \in Page \X Slot
    BY SizeFacts DEF Seqs, Cursor
<1>7. TypeOK'
    BY <1>2, <1>5, <1>6 DEF TypeOK, Chip, Cell, Cursor
<1>8. CursorInv'
    BY <1>2 DEF CursorInv
<1>9. BootInv'
    BY <1>2 DEF BootInv
<1>10. QED
    BY <1>2, <1>3, <1>5, <1>7, <1>8, <1>9 DEF IInv

----------------------------------------------------------------------------
\* The properties

\* Every step keeps the invariant.
LEMMA StepInv == ASSUME Survivable PROVE IInv /\ [Next]_vars => IInv'
<1>1. SUFFICES ASSUME IInv, [Next]_vars PROVE IInv'
    OBVIOUS
<1>2. CASE Boot
    BY <1>1, <1>2, BootKeeps
<1>3. CASE BeginWrite
    BY <1>1, <1>3, BeginWriteKeeps
<1>4. CASE BeginRotate
    BY <1>1, <1>4, BeginRotateKeeps
<1>5. CASE RotateDone
    BY <1>1, <1>5, RotateDoneKeeps
<1>6. CASE CallRefused
    BY <1>1, <1>6, RefusedKeeps
<1>7. CASE ProgramFirst
    BY <1>1, <1>7, ProgramFirstKeeps
<1>8. CASE ProgramRest
    BY <1>1, <1>8, ProgramRestKeeps
<1>9. CASE ProgramFails \/ BeginWipe \/ WipeFails
    BY <1>1, <1>9, StopsKeep
<1>10. CASE WipePage
    BY <1>1, <1>10, WipePageKeeps
<1>11. CASE WipeDone
    BY <1>1, <1>11, WipeDoneKeeps
<1>12. CASE PowerFail
    BY <1>1, <1>12, PowerFailKeeps
<1>13. CASE UNCHANGED vars
  <2>1. UNCHANGED <<cells, cur, head, seq, pc>>
      BY <1>13 DEF vars, cursors
  <2>2. TypeOK' /\ CursorInv'
      BY <1>1, <2>1 DEF IInv, TypeOK, CursorInv
  <2>3. Gap' = Gap /\ FoundPages' = FoundPages /\ PageIsEmpty(0)' = PageIsEmpty(0)
      BY <2>1 DEF Gap, FoundPages, PageIsEmpty, SlotIsEmpty, SlotValid, OldestPage, NewestPage
  <2>4. BootInv'
      BY <1>1, <2>1, <2>3 DEF IInv, BootInv
  <2>5. QED
      BY <1>1, <2>1, <2>2, <2>4 DEF IInv
<1>14. QED
    BY <1>1, <1>2, <1>3, <1>4, <1>5, <1>6, <1>7, <1>8, <1>9, <1>10, <1>11, <1>12, <1>13 DEF Next

\* The entries lie in the ring in the order of their numbers, and while the driver
\* runs its cursor is at the first erased slot behind them.
THEOREM Invariance == ASSUME Survivable PROVE Spec => []IInv
<1>1. Init => IInv
    BY InitInv
<1>2. IInv /\ [Next]_vars => IInv'
    BY StepInv
<1>3. QED
    BY <1>1, <1>2, PTL DEF Spec

\* NeverReprogram: after all the power failures Careful allows, a write finds its
\* slot erased (find_cursors, BSP_LogFlash_Write).
THEOREM ErasedWhenProgrammed == ASSUME Survivable PROVE Spec => []NeverReprogram
<1>1. ASSUME IInv PROVE NeverReprogram
  <2>1. SUFFICES ASSUME pc = "program" PROVE CurCell = SEQ_EMPTY
      BY DEF NeverReprogram
  <2>2. FilledTo(cells, cur) /\ cur[2] < Slots
      BY <1>1, <2>1 DEF IInv, CursorInv
  <2>3. cur[2] \in Slot
      BY <1>1, <2>2, InvFacts, PosFacts, PlacesAreCursors
  <2>4. QED
      BY <2>2, <2>3, SizeFacts DEF FilledTo, CurCell
<1>2. QED
    BY <1>1, Invariance, PTL

\* The places of a walk around the ring.
LEMMA RingPlaces ==
    ASSUME NEW h \in Page, NEW j \in 1..(Pages * Slots)
    PROVE  LET c == <<(h + (j - 1) \div Slots) % Pages, (j - 1) % Slots>> IN
           c \in Place /\ Pos(h, c) = j - 1 /\ RingFrom(h)[j] = At(cells, c)
<1> DEFINE q == (j - 1) \div Slots
           i == (j - 1) % Slots
           p == (h + q) % Pages
           c == <<p, i>>
<1>1. j - 1 \in Int /\ Slots \in Nat \ {0} /\ Pages \in Nat \ {0} /\ Pages * Slots \in Nat /\ j - 1 >= 0
    BY SizeFacts
<1>2. i \in 0..(Slots - 1) /\ q \in Int /\ j - 1 = Slots * q + i
    BY <1>1, DivisionFact
<1>3. RingFrom(h)[j] = At(cells, c)
    BY DEF RingFrom, At
<1> HIDE DEF q, i
<1>4. q >= 0
  <2>1. SUFFICES ASSUME q < 0 PROVE FALSE
      BY <1>2
  <2>2. 0 - q \in Nat /\ 0 < 0 - q
      BY <1>2, <2>1
  <2>3. 0 * Slots + Slots <= (0 - q) * Slots
      BY <1>1, <2>2, Products
  <2>4. (0 - q) * Slots = 0 - Slots * q
      BY <1>1, <1>2, SMT
  <2>5. Slots * q \in Int
      BY <1>1, <1>2
  <2>6. QED
      BY <1>1, <1>2, <2>3, <2>4, <2>5
<1>5. q < Pages
  <2>1. SUFFICES ASSUME q >= Pages PROVE FALSE
      BY <1>1, <1>2
  <2>2. q \in Nat /\ Pages \in Nat /\ Slots \in Nat /\ Pages <= q
      BY <1>1, <1>2, <1>4, <2>1
  <2>3. (q - Pages) * Slots = q * Slots - Pages * Slots /\ (q - Pages) \in Nat
      BY <2>2, Products
  <2>4. (q - Pages) * Slots \in Nat /\ q * Slots \in Nat
      BY <2>2, <2>3, Products
  <2>5. q * Slots = Slots * q
      BY <2>2
  <2>6. QED
      BY <1>1, <1>2, <2>3, <2>4, <2>5
<1>6. h + q \in Int /\ h \in Nat /\ h < Pages
    BY <1>2, SizeFacts DEF Page
<1>7. p = IF h + q < Pages THEN h + q ELSE h + q - Pages
  <2>1. h + q < Pages => h + q \in 0..(Pages - 1)
      BY <1>1, <1>2, <1>4, <1>6
  <2>2. h + q >= Pages => h + q \in Pages..(2 * Pages - 1)
      BY <1>1, <1>2, <1>5, <1>6
  <2> DEFINE x == h + q
  <2>3. /\ x \in Int /\ p = x % Pages
        /\ x < Pages => x \in 0..(Pages - 1)
        /\ x >= Pages => x \in Pages..(2 * Pages - 1)
      BY <1>6, <2>1, <2>2
  <2> HIDE DEF x, p
  <2>4. p = IF x < Pages THEN x ELSE x - Pages
      BY <1>1, <2>3, NearRemainder
  <2>5. QED
      BY <1>2, <1>6, <2>4, SizeFacts DEF x
<1> HIDE DEF p
<1>8. p \in Page /\ i \in Slot
    BY <1>1, <1>2, <1>4, <1>5, <1>6, <1>7 DEF Page, Slot
<1>9. Turn(h, p) = q
    BY <1>1, <1>2, <1>4, <1>5, <1>6, <1>7, <1>8, TurnFacts
<1>10. Pos(h, c) = q * Slots + i
    BY <1>9 DEF Pos
<1>11. q * Slots = Slots * q
    BY <1>1, <1>2
<1>12. c \in Place /\ Pos(h, c) = j - 1
    BY <1>2, <1>8, <1>10, <1>11 DEF Place
<1>13. QED
    BY <1>3, <1>12 DEF p, q, i

\* RingInOrder: after every recovery, rotation and failure the entries follow the
\* head in the order in which they were written, and the next one will be newer than
\* all of them (find_cursors, seq_after, BSP_LogFlash_Write).
THEOREM RingStaysInOrder == ASSUME Survivable PROVE Spec => []RingInOrder
<1>1. ASSUME IInv PROVE RingInOrder
  <2> DEFINE h == head[1]
             n == Pages * Slots
             ring == RingFrom(h)
             PlaceOf(j) == <<(h + (j - 1) \div Slots) % Pages, (j - 1) % Slots>>
  <2>1. TypeOK
      BY <1>1 DEF IInv
  <2>2. SUFFICES ASSUME pc = "ready", NEW j \in DOMAIN ring, IsEntry(ring[j])
                 PROVE  /\ \A i \in 1..(j - 1) : IsEntry(ring[i]) => SeqAfter(ring[j], ring[i])
                        /\ SeqAfter(seq, ring[j])
      BY <2>1 DEF RingInOrder
  <2>3. /\ cells \in Chip /\ cur \in Cursor /\ h \in Page /\ seq \in Seqs
        /\ Ordered(cells, h) /\ Fresh(cells, h, cur, seq)
      BY <1>1, <2>2, InvFacts DEF IInv, CursorInv
  <2>4. n \in Nat /\ DOMAIN ring = 1..n
      BY SizeFacts DEF RingFrom
  <2>5. j \in 1..n
      BY <2>2, <2>4
  <2>6. ASSUME NEW i \in 1..n, IsEntry(ring[i])
        PROVE  /\ ring[i] \in Seqs /\ ring[i] = At(cells, PlaceOf(i))
               /\ PlaceOf(i) \in Entries(cells) /\ Pos(h, PlaceOf(i)) = i - 1
    <3>1. PlaceOf(i) \in Place /\ Pos(h, PlaceOf(i)) = i - 1 /\ ring[i] = At(cells, PlaceOf(i))
        BY <2>3, RingPlaces
    <3> HIDE DEF ring, PlaceOf
    <3>2. ring[i] \in Seqs
        BY <2>6 DEF IsEntry
    <3>3. QED
        BY <3>1, <3>2 DEF Entries
  <2> HIDE DEF ring, PlaceOf
  <2>7. ASSUME NEW i \in 1..(j - 1), IsEntry(ring[i]) PROVE SeqAfter(ring[j], ring[i])
    <3>1. i \in 1..n /\ i < j /\ j \in Int
        BY <2>4, <2>5, <2>7
    <3> DEFINE c == PlaceOf(i)
               d == PlaceOf(j)
    <3>2. /\ ring[i] \in Seqs /\ ring[i] = At(cells, c) /\ c \in Entries(cells) /\ Pos(h, c) = i - 1
          /\ ring[j] \in Seqs /\ ring[j] = At(cells, d) /\ d \in Entries(cells) /\ Pos(h, d) = j - 1
        BY <2>2, <2>5, <2>6, <2>7, <3>1
    <3> HIDE DEF c, d
    <3>3. Pos(h, c) < Pos(h, d) /\ Pos(h, d) - Pos(h, c) = j - i
        BY <3>1, <3>2
    <3>4. Lag(ring[j], ring[i]) \in 1..(j - i)
        BY <2>3, <3>2, <3>3 DEF Ordered
    <3>5. j - i \in Int /\ j - i <= Pages * Slots
        BY <2>4, <2>5, <3>1
    <3>6. QED
        BY <3>2, <3>4, <3>5, LagAfter
  <2>8. SeqAfter(seq, ring[j])
    <3> DEFINE d == PlaceOf(j)
               m == Pos(h, cur) - Pos(h, d)
    <3>1. ring[j] \in Seqs /\ ring[j] = At(cells, d) /\ d \in Entries(cells) /\ Pos(h, d) = j - 1
        BY <2>2, <2>5, <2>6
    <3>2. Lag(seq, ring[j]) \in 1..m
        BY <2>3, <3>1 DEF Fresh
    <3>3. Pos(h, cur) \in Nat /\ Pos(h, cur) <= Pages * Slots /\ Pages * Slots \in Nat
        BY <2>3, PosFacts, SizeFacts
    <3>4. m \in Int /\ m <= Pages * Slots
        BY <2>5, <3>1, <3>3
    <3> HIDE DEF d, m
    <3>5. QED
        BY <2>3, <3>1, <3>2, <3>4, LagAfter
  <2>9. QED
      BY <2>7, <2>8
<1>2. QED
    BY <1>1, Invariance, PTL

----------------------------------------------------------------------------
\* The entries among the slots of a walk

\* g[k] has the entries among the first k slots of r.
Collects(r, n, g) ==
    /\ g \in [0..n -> Seq(Seqs)]
    /\ g[0] = << >>
    /\ \A k \in 1..n : g[k] = IF r[k] \in Seqs THEN Append(g[k - 1], r[k]) ELSE g[k - 1]

LEMMA CollectionExists ==
    ASSUME NEW r, NEW n \in Nat
    PROVE  \E g : Collects(r, n, g)
<1> DEFINE T == {k \in Nat : \E g : Collects(r, k, g)}
<1>1. 0 \in T
  <2> DEFINE g == [k \in 0..0 |-> << >>]
  <2>1. << >> \in Seq(Seqs)
      OBVIOUS
  <2>2. Collects(r, 0, g)
      BY <2>1 DEF Collects
  <2>3. QED
      BY <2>2
<1>2. ASSUME NEW k \in Nat, k \in T PROVE k + 1 \in T
  <2>1. PICK g : Collects(r, k, g)
      BY <1>2
  <2> DEFINE last == IF r[k + 1] \in Seqs THEN Append(g[k], r[k + 1]) ELSE g[k]
             f == [j \in 0..(k + 1) |-> IF j = k + 1 THEN last ELSE g[j]]
  <2>2. g \in [0..k -> Seq(Seqs)] /\ g[k] \in Seq(Seqs)
      BY <2>1 DEF Collects
  <2>3. last \in Seq(Seqs)
      BY <2>2
  <2>4. last = IF r[k + 1] \in Seqs THEN Append(g[k], r[k + 1]) ELSE g[k]
      OBVIOUS
  <2> HIDE DEF last
  <2>5. f \in [0..(k + 1) -> Seq(Seqs)]
      BY <2>2, <2>3
  <2>6. f[0] = << >>
      BY <2>1 DEF Collects
  <2>7. ASSUME NEW j \in 1..(k + 1)
        PROVE  f[j] = IF r[j] \in Seqs THEN Append(f[j - 1], r[j]) ELSE f[j - 1]
    <3>1. CASE j = k + 1
      <4>1. f[j] = last /\ f[j - 1] = g[k]
          BY <3>1
      <4> HIDE DEF f
      <4>2. QED
          BY <2>4, <3>1, <4>1
    <3>2. CASE j # k + 1
      <4>1. j \in 1..k /\ j - 1 \in 0..k /\ f[j] = g[j] /\ f[j - 1] = g[j - 1]
          BY <3>2
      <4> HIDE DEF f
      <4>2. QED
          BY <2>1, <4>1 DEF Collects
    <3>3. QED
        BY <3>1, <3>2
  <2> HIDE DEF f
  <2>8. Collects(r, k + 1, f)
      BY <2>5, <2>6, <2>7 DEF Collects
  <2>9. QED
      BY <2>8
<1> HIDE DEF T
<1>3. Nat \subseteq T
    BY <1>1, <1>2, AllNaturals
<1>4. QED
    BY <1>3 DEF T

\* Slots with the same entry, or both without one.
SameSlot(x, y) == (x \in Seqs \/ y \in Seqs) => x = y

\* The slots of two walks after slot a up to slot b are the same,
Alike(r, s, a, b) == \A k \in (a + 1)..b : SameSlot(r[k], s[k])

\* the first n of one are those of the other from m on,
Behind(r, s, m, n) == \A k \in 1..n : SameSlot(r[m + k], s[k])

\* those after slot a up to slot b have no entries.
Quiet(r, a, b) == \A k \in (a + 1)..b : r[k] \notin Seqs

\* Walks that meet the same entries collect the same.
LEMMA SameEntries ==
    ASSUME NEW n \in Nat, NEW r, NEW s, NEW f, NEW g, Collects(r, n, f), Collects(s, n, g),
           NEW a \in Nat, a <= n, Alike(r, s, 0, a)
    PROVE  \A k \in 0..a : f[k] = g[k]
<1> DEFINE T == {k \in Nat : k <= a => f[k] = g[k]}
<1>1. 0 \in T
    BY DEF Collects
<1>2. ASSUME NEW k \in Nat, k \in T PROVE k + 1 \in T
  <2>1. SUFFICES ASSUME k + 1 <= a PROVE f[k + 1] = g[k + 1]
      OBVIOUS
  <2>2. f[k] = g[k] /\ k + 1 \in 1..n /\ k + 1 \in 1..a /\ (k + 1) - 1 = k
      BY <1>2, <2>1
  <2>3. /\ f[k + 1] = IF r[k + 1] \in Seqs THEN Append(f[k], r[k + 1]) ELSE f[k]
        /\ g[k + 1] = IF s[k + 1] \in Seqs THEN Append(g[k], s[k + 1]) ELSE g[k]
      BY <2>2 DEF Collects
  <2>4. SameSlot(r[k + 1], s[k + 1])
      BY <2>2 DEF Alike
  <2>5. QED
      BY <2>2, <2>3, <2>4 DEF SameSlot
<1> HIDE DEF T
<1>3. Nat \subseteq T
    BY <1>1, <1>2, AllNaturals
<1>4. QED
    BY <1>3 DEF T

\* A sequence without n elements that follow the first i.
WithoutOf(x, i, n) == [k \in 1..(Len(x) - n) |-> IF k <= i THEN x[k] ELSE x[k + n]]

\* What is appended is behind what is taken out.
LEMMA AppendWithout ==
    ASSUME NEW x \in Seq(Seqs), NEW e \in Seqs, NEW i \in Nat, NEW n \in Nat, i + n <= Len(x)
    PROVE  WithoutOf(Append(x, e), i, n) = Append(WithoutOf(x, i, n), e)
<1> DEFINE l == Len(x)
           y == Append(x, e)
           w == WithoutOf(x, i, n)
           v == WithoutOf(y, i, n)
<1>1. l \in Nat /\ l - n \in Nat /\ i <= l - n
    OBVIOUS
<1>2. y \in Seq(Seqs) /\ Len(y) = l + 1 /\ y[l + 1] = e /\ \A k \in 1..l : y[k] = x[k]
    OBVIOUS
<1>3. w = [k \in 1..(l - n) |-> IF k <= i THEN x[k] ELSE x[k + n]]
    BY DEF WithoutOf
<1>4. v = [k \in 1..(l + 1 - n) |-> IF k <= i THEN y[k] ELSE y[k + n]]
    BY <1>2 DEF WithoutOf
<1>5. \A k \in 1..l : x[k] \in Seqs
    OBVIOUS
<1> HIDE DEF l, y, w, v
<1>6. \A k \in 1..(l - n) : k + n \in 1..l /\ k \in 1..l
    BY <1>1
<1>7. w \in [1..(l - n) -> Seqs]
    BY <1>3, <1>5, <1>6
<1>8. w \in Seq(Seqs) /\ Len(w) = l - n
    BY <1>1, <1>7
<1>9. \A k \in 1..(l - n) : v[k] = w[k]
    BY <1>1, <1>2, <1>3, <1>4, <1>6
<1>10. v[l - n + 1] = e
  <2>1. l - n + 1 \in 1..(l + 1 - n) /\ ~(l - n + 1 <= i) /\ l - n + 1 + n = l + 1
      BY <1>1
  <2>2. QED
      BY <1>2, <1>4, <2>1
<1>11. /\ Append(w, e) \in Seq(Seqs) /\ Len(Append(w, e)) = l - n + 1
       /\ \A k \in 1..(l - n) : Append(w, e)[k] = w[k]
       /\ Append(w, e)[l - n + 1] = e
    BY <1>8, AppendProperties
<1>12. l + 1 - n = l - n + 1
    BY <1>1
<1>13. l - n + 1 \in Nat /\ \A k \in 1..(l - n + 1) : k \in 1..(l - n) \/ k = l - n + 1
    BY <1>1
<1>14. \A k \in 1..(l - n + 1) : v[k] \in Seqs /\ v[k] = Append(w, e)[k]
    BY <1>7, <1>9, <1>10, <1>11, <1>13
<1>15. v = [k \in 1..(l - n + 1) |-> v[k]]
    BY <1>4, <1>12
<1>16. v \in [1..(l - n + 1) -> Seqs]
    BY <1>14, <1>15
<1>17. v \in Seq(Seqs) /\ Len(v) = l - n + 1
    BY <1>13, <1>16
<1>18. v = Append(w, e)
    BY <1>11, <1>14, <1>17, SeqEqual
<1>19. QED
    BY <1>18 DEF v, w, y

\* A walk that begins later, where the first entry is or before it, collects the same.
LEMMA LaterEntries ==
    ASSUME NEW l \in Nat, NEW r, NEW s, NEW f, NEW g, Collects(r, l, f), Collects(s, l, g),
           NEW m \in Nat, NEW n \in Nat, l = m + n, f[m] = << >>, Behind(r, s, m, n)
    PROVE  \A k \in 0..n : f[m + k] = g[k]
<1> DEFINE T == {k \in Nat : k <= n => f[m + k] = g[k]}
<1>1. 0 \in T
    BY DEF Collects
<1>2. ASSUME NEW k \in Nat, k \in T PROVE k + 1 \in T
  <2>1. SUFFICES ASSUME k + 1 <= n PROVE f[m + (k + 1)] = g[k + 1]
      OBVIOUS
  <2>2. /\ m + (k + 1) \in 1..l /\ k + 1 \in 1..n /\ k + 1 \in 1..l
        /\ (k + 1) - 1 = k /\ (m + (k + 1)) - 1 = m + k
      BY <2>1
  <2>3. f[m + k] = g[k]
      BY <1>2, <2>1
  <2> DEFINE e == r[m + (k + 1)]
             t == s[k + 1]
             j == m + (k + 1)
  <2>4. /\ f[j] = IF e \in Seqs THEN Append(f[m + k], e) ELSE f[m + k]
        /\ g[k + 1] = IF t \in Seqs THEN Append(g[k], t) ELSE g[k]
      BY <2>2 DEF Collects
  <2>5. SameSlot(e, t)
      BY <2>2 DEF Behind
  <2> HIDE DEF e, t, j
  <2>6. f[j] = g[k + 1]
      BY <2>3, <2>4, <2>5 DEF SameSlot
  <2>7. QED
      BY <2>6 DEF j
<1> HIDE DEF T
<1>3. Nat \subseteq T
    BY <1>1, <1>2, AllNaturals
<1>4. QED
  <2>1. \A k \in 0..n : k \in T /\ k <= n
      BY <1>3
  <2>2. QED
      BY <2>1 DEF T

\* A slot adds an entry at most, and none if it has none.
LEMMA OneSlot ==
    ASSUME NEW r, NEW n \in Nat, NEW g, Collects(r, n, g), NEW k \in 0..(n - 1)
    PROVE  /\ g[k] \in Seq(Seqs) /\ g[k + 1] \in Seq(Seqs)
           /\ Len(g[k]) \in Nat /\ Len(g[k + 1]) \in Nat
           /\ Len(g[k]) <= Len(g[k + 1]) /\ Len(g[k + 1]) <= Len(g[k]) + 1
           /\ r[k + 1] \notin Seqs => g[k + 1] = g[k]
<1>1. k \in 0..n /\ k + 1 \in 0..n /\ k + 1 \in 1..n /\ (k + 1) - 1 = k
    OBVIOUS
<1>2. g[k] \in Seq(Seqs) /\ g[k + 1] \in Seq(Seqs)
    BY <1>1 DEF Collects
<1>3. g[k + 1] = IF r[k + 1] \in Seqs THEN Append(g[k], r[k + 1]) ELSE g[k]
    BY <1>1 DEF Collects
<1>4. r[k + 1] \in Seqs => Len(g[k + 1]) = Len(g[k]) + 1
    BY <1>2, <1>3, AppendProperties
<1>5. Len(g[k]) \in Nat /\ Len(g[k + 1]) \in Nat
    BY <1>2, LenProperties
<1>6. r[k + 1] \notin Seqs => g[k + 1] = g[k]
    BY <1>3
<1>7. QED
    BY <1>2, <1>4, <1>5, <1>6

\* Slots without entries add nothing, and others one each.
LEMMA FewEntries ==
    ASSUME NEW r, NEW n \in Nat, NEW g, Collects(r, n, g), NEW a \in Nat
    PROVE  \A b \in Nat : a <= b /\ b <= n =>
              /\ Len(g[b]) \in Nat /\ Len(g[a]) \in Nat
              /\ Len(g[a]) <= Len(g[b]) /\ Len(g[b]) <= Len(g[a]) + (b - a)
              /\ Quiet(r, a, b) => g[b] = g[a]
<1> DEFINE Fits(b) == a <= b /\ b <= n =>
              /\ Len(g[b]) \in Nat /\ Len(g[a]) \in Nat
              /\ Len(g[a]) <= Len(g[b]) /\ Len(g[b]) <= Len(g[a]) + (b - a)
              /\ Quiet(r, a, b) => g[b] = g[a]
           T == {b \in Nat : Fits(b)}
<1>1. a <= n => a \in 0..n /\ g[a] \in Seq(Seqs)
    BY DEF Collects
<1>2. a <= n => Len(g[a]) \in Nat
    BY <1>1, LenProperties
<1>3. a <= n => Fits(a)
    BY <1>2
<1>4. 0 \in T
  <2>1. a <= 0 => a = 0
      OBVIOUS
  <2>2. Fits(0)
      BY <1>3, <2>1
  <2>3. QED
      BY <2>2
<1>5. ASSUME NEW b \in Nat, b \in T PROVE b + 1 \in T
  <2>1. Fits(b)
      BY <1>5
  <2>2. CASE a = b + 1
      BY <1>3, <2>2
  <2>3. CASE a # b + 1
    <3> DEFINE c == b + 1
    <3>0. c = b + 1 /\ c \in Nat
        OBVIOUS
    <3> SUFFICES Fits(c)
        BY <3>0
    <3> HIDE DEF c
    <3>1. SUFFICES ASSUME a <= c, c <= n
                   PROVE  /\ Len(g[c]) \in Nat /\ Len(g[a]) \in Nat
                          /\ Len(g[a]) <= Len(g[c]) /\ Len(g[c]) <= Len(g[a]) + (c - a)
                          /\ Quiet(r, a, c) => g[c] = g[a]
        BY Zenon
    <3>2. a <= b /\ b <= n /\ b \in 0..(n - 1)
        BY <2>3, <3>0, <3>1
    <3>3. /\ Len(g[c]) \in Nat
          /\ Len(g[b]) <= Len(g[c]) /\ Len(g[c]) <= Len(g[b]) + 1
          /\ r[c] \notin Seqs => g[c] = g[b]
        BY <3>0, <3>2, OneSlot
    <3>4. Quiet(r, a, c) => Quiet(r, a, b) /\ r[c] \notin Seqs
      <4>1. c \in (a + 1)..c /\ \A k \in (a + 1)..b : k \in (a + 1)..c
          BY <3>0, <3>2
      <4>2. QED
          BY <4>1, Zenon DEF Quiet
    <3>5. /\ Len(g[b]) \in Nat /\ Len(g[a]) \in Nat
          /\ Len(g[a]) <= Len(g[b]) /\ Len(g[b]) <= Len(g[a]) + (b - a)
          /\ Quiet(r, a, b) => g[b] = g[a]
        BY <2>1, <3>2
    <3>6. Quiet(r, a, c) => g[c] = g[a]
        BY <3>3, <3>4, <3>5
    <3>7. Len(g[a]) <= Len(g[c]) /\ Len(g[c]) <= Len(g[a]) + (c - a)
      <4> DEFINE x == Len(g[a])
                 y == Len(g[b])
                 z == Len(g[c])
      <4>1. x \in Nat /\ y \in Nat /\ z \in Nat /\ x <= y /\ y <= x + (b - a) /\ y <= z /\ z <= y + 1
          BY <3>3, <3>5
      <4> HIDE DEF x, y, z
      <4>2. x <= z /\ z <= x + (c - a)
          BY <3>0, <4>1
      <4>3. QED
          BY <4>2 DEF x, z
    <3>8. QED
        BY <3>3, <3>5, <3>6, <3>7
  <2>4. QED
      BY <2>2, <2>3
<1> HIDE DEF T
<1>6. Nat \subseteq T
    BY <1>4, <1>5, AllNaturals
<1>7. QED
    BY <1>6 DEF T

\* What is collected stays.
LEMMA FirstEntriesStay ==
    ASSUME NEW r, NEW n \in Nat, NEW g, Collects(r, n, g), NEW a \in Nat
    PROVE  \A b \in Nat : a <= b /\ b <= n => \A j \in 1..Len(g[a]) : g[b][j] = g[a][j]
<1> DEFINE Stays(b) == \A j \in 1..Len(g[a]) : g[b][j] = g[a][j]
           T == {b \in Nat : a <= b /\ b <= n => Stays(b)}
<1>1. 0 \in T
  <2>1. a <= 0 => a = 0
      OBVIOUS
  <2>2. Stays(a)
      OBVIOUS
  <2> HIDE DEF Stays
  <2>3. QED
      BY <2>1, <2>2
<1>2. ASSUME NEW b \in Nat, b \in T PROVE b + 1 \in T
  <2> DEFINE c == b + 1
  <2>1. c = b + 1 /\ c \in Nat
      OBVIOUS
  <2>2. SUFFICES ASSUME a <= c, c <= n PROVE Stays(c)
      BY <2>1
  <2> HIDE DEF c
  <2>3. CASE a = c
      BY <2>3
  <2>4. CASE a # c
    <3>1. a <= b /\ b <= n /\ b \in 0..(n - 1) /\ b \in 0..n /\ c \in 1..n /\ c - 1 = b
        BY <2>1, <2>2, <2>4
    <3>2. Stays(b)
        BY <1>2, <3>1
    <3>3. g[b] \in Seq(Seqs) /\ g[c] = IF r[c] \in Seqs THEN Append(g[b], r[c]) ELSE g[b]
        BY <3>1 DEF Collects
    <3>4. \A j \in 1..Len(g[b]) : g[c][j] = g[b][j]
        BY <3>3, AppendProperties
    <3>5. Len(g[a]) \in Nat /\ Len(g[b]) \in Nat /\ Len(g[a]) <= Len(g[b])
        BY <3>1, FewEntries
    <3>6. \A j \in 1..Len(g[a]) : j \in 1..Len(g[b])
        BY <3>5
    <3>7. QED
        BY <3>2, <3>4, <3>6
  <2>5. QED
      BY <2>3, <2>4
<1> HIDE DEF T
<1>3. Nat \subseteq T
    BY <1>1, <1>2, AllNaturals
<1>4. QED
    BY <1>3 DEF T

\* A block of slots without entries, where there were some, takes these out.
LEMMA BlockGone ==
    ASSUME NEW n \in Nat, NEW r, NEW s, NEW f, NEW g, Collects(r, n, f), Collects(s, n, g),
           NEW a \in Nat, NEW b \in Nat, a <= b, b <= n,
           Alike(r, s, 0, a), Quiet(s, a, b), Alike(r, s, b, n)
    PROVE  \E i, m \in Nat :
              /\ i = Len(f[a]) /\ m <= b - a /\ i + m <= Len(f[n])
              /\ Len(f[n]) \in Nat /\ g[n] = WithoutOf(f[n], i, m)
<1> DEFINE i == Len(f[a])
           m == Len(f[b]) - Len(f[a])
           T == {k \in Nat : b <= k /\ k <= n => g[k] = WithoutOf(f[k], i, m)}
<1>1. /\ Len(f[b]) \in Nat /\ Len(f[a]) \in Nat
      /\ Len(f[a]) <= Len(f[b]) /\ Len(f[b]) <= Len(f[a]) + (b - a)
    BY FewEntries
<1>2. i \in Nat /\ m \in Nat /\ m <= b - a /\ i + m = Len(f[b])
    BY <1>1
<1>3. ASSUME NEW k \in Nat, b <= k, k <= n PROVE Len(f[k]) \in Nat /\ i + m <= Len(f[k])
  <2>1. Len(f[k]) \in Nat /\ Len(f[b]) <= Len(f[k])
      BY <1>3, FewEntries
  <2>2. QED
      BY <1>2, <2>1
<1>4. g[b] = WithoutOf(f[b], i, m)
  <2>1. a <= n /\ a \in 0..a /\ a \in 0..n
      OBVIOUS
  <2>2. \A k \in 0..a : f[k] = g[k]
      BY <2>1, SameEntries
  <2>3. g[b] = g[a]
      BY FewEntries
  <2>4. \A j \in 1..Len(f[a]) : f[b][j] = f[a][j]
      BY FirstEntriesStay
  <2>5. f[a] \in Seq(Seqs)
      BY <2>1 DEF Collects
  <2>6. f[a] = [j \in 1..i |-> f[a][j]]
      BY <2>5
  <2>7. Len(f[b]) - m = i
      BY <1>1
  <2>8. WithoutOf(f[b], i, m) = [j \in 1..i |-> IF j <= i THEN f[b][j] ELSE f[b][j + m]]
      BY <2>7 DEF WithoutOf
  <2>9. \A j \in 1..i : j <= i /\ f[b][j] = f[a][j]
      BY <2>4, <1>2
  <2> HIDE DEF i, m
  <2>10. WithoutOf(f[b], i, m) = [j \in 1..i |-> f[a][j]]
      BY <2>8, <2>9
  <2>11. QED
      BY <2>1, <2>2, <2>3, <2>6, <2>10
<1> HIDE DEF i, m
<1>5. 0 \in T
  <2>1. b <= 0 => b = 0
      OBVIOUS
  <2>2. QED
      BY <1>4, <2>1
<1>6. ASSUME NEW k \in Nat, k \in T PROVE k + 1 \in T
  <2> DEFINE c == k + 1
  <2>1. c = k + 1 /\ c \in Nat
      OBVIOUS
  <2>2. SUFFICES ASSUME b <= c, c <= n PROVE g[c] = WithoutOf(f[c], i, m)
      BY <2>1
  <2> HIDE DEF c
  <2>3. CASE b = c
      BY <1>4, <2>3
  <2>4. CASE b # c
    <3>1. /\ b <= k /\ k <= n /\ k \in 0..n /\ c \in 1..n /\ c - 1 = k
          /\ c \in (b + 1)..n
        BY <2>1, <2>2, <2>4
    <3>2. g[k] = WithoutOf(f[k], i, m)
        BY <1>6, <3>1
    <3>3. /\ f[c] = IF r[c] \in Seqs THEN Append(f[k], r[c]) ELSE f[k]
          /\ g[c] = IF s[c] \in Seqs THEN Append(g[k], s[c]) ELSE g[k]
          /\ f[k] \in Seq(Seqs)
        BY <3>1 DEF Collects
    <3>4. SameSlot(r[c], s[c])
        BY <3>1 DEF Alike
    <3>5. i + m <= Len(f[k])
        BY <1>3, <3>1
    <3>6. CASE r[c] \in Seqs
      <4>1. WithoutOf(Append(f[k], r[c]), i, m) = Append(WithoutOf(f[k], i, m), r[c])
          BY <1>2, <3>3, <3>5, <3>6, AppendWithout
      <4>2. f[c] = Append(f[k], r[c]) /\ g[c] = Append(g[k], r[c])
          BY <3>3, <3>4, <3>6 DEF SameSlot
      <4>3. QED
          BY <3>2, <4>1, <4>2
    <3>7. CASE r[c] \notin Seqs
        BY <3>2, <3>3, <3>4, <3>7 DEF SameSlot
    <3>8. QED
        BY <3>6, <3>7
  <2>5. QED
      BY <2>3, <2>4
<1> HIDE DEF T
<1>7. Nat \subseteq T
    BY <1>5, <1>6, AllNaturals
<1>8. g[n] = WithoutOf(f[n], i, m)
    BY <1>7 DEF T
<1>9. QED
  <2>1. i = Len(f[a])
      BY DEF i
  <2>2. QED
      BY <1>2, <1>3, <1>8, <2>1

\* An entry more, behind all others.
LEMMA OneMore ==
    ASSUME NEW n \in Nat, NEW r, NEW s, NEW f, NEW g, Collects(r, n, f), Collects(s, n, g),
           NEW q \in Nat, NEW t \in 1..n, t = q + 1, r[t] \notin Seqs, s[t] \in Seqs,
           Alike(r, s, 0, q), Quiet(r, t, n), Quiet(s, t, n)
    PROVE  g[n] = Append(f[n], s[t])
<1>1. /\ t \in Nat /\ q <= n /\ t <= n /\ q \in 0..q /\ n <= n /\ t - 1 = q
    OBVIOUS
<1>2. \A k \in 0..q : f[k] = g[k]
    BY <1>1, SameEntries
<1>3. f[t] = f[q] /\ g[t] = Append(g[q], s[t])
    BY <1>1 DEF Collects
<1>4. f[n] = f[t] /\ g[n] = g[t]
    BY <1>1, FewEntries
<1>5. QED
    BY <1>1, <1>2, <1>3, <1>4

\* Where a walk begins does not matter as long as no entry is passed over.
LEMMA Turned ==
    ASSUME NEW r, NEW s, NEW m \in Nat, NEW n \in Nat, NEW l \in Nat, l = m + n, NEW f, NEW g,
           Collects(r, l, f), Collects(s, l, g),
           Quiet(r, 0, m), Behind(r, s, m, n), Quiet(s, n, l)
    PROVE  f[l] = g[l]
<1>1. n <= l /\ m <= l /\ 0 <= m /\ n \in 0..n /\ 0 \in Nat /\ l <= l
    OBVIOUS
<1>2. f[0] = << >>
    BY DEF Collects
<1>3. f[m] = << >>
    BY <1>1, <1>2, FewEntries
<1>4. \A k \in 0..n : f[m + k] = g[k]
    BY <1>3, LaterEntries
<1>5. g[l] = g[n]
    BY <1>1, FewEntries
<1>6. QED
    BY <1>1, <1>4, <1>5

\* EntriesOf collects along its slots.
LEMMA EntriesCollected ==
    ASSUME NEW r, NEW n \in Nat, Len(r) = n, NEW g, Collects(r, n, g)
    PROVE  EntriesOf(r) = g[n]
<1> DEFINE F == CHOOSE f : f = [k \in 0..Len(r) |->
                    IF k = 0 THEN << >>
                    ELSE IF IsEntry(r[k]) THEN Append(f[k - 1], r[k]) ELSE f[k - 1]]
<1>1. EntriesOf(r) = F[n]
    BY DEF EntriesOf
<1>2. \E f : f = [k \in 0..Len(r) |->
                    IF k = 0 THEN << >>
                    ELSE IF IsEntry(r[k]) THEN Append(f[k - 1], r[k]) ELSE f[k - 1]]
  <2>1. g = [k \in 0..n |-> g[k]]
      BY DEF Collects
  <2>2. ASSUME NEW k \in 0..n
        PROVE  g[k] = IF k = 0 THEN << >>
                    ELSE IF IsEntry(r[k]) THEN Append(g[k - 1], r[k]) ELSE g[k - 1]
    <3>1. k = 0 \/ k \in 1..n
        OBVIOUS
    <3>2. QED
        BY <3>1, Zenon DEF Collects, IsEntry
  <2>3. g = [k \in 0..n |-> IF k = 0 THEN << >>
                    ELSE IF IsEntry(r[k]) THEN Append(g[k - 1], r[k]) ELSE g[k - 1]]
      BY <2>1, <2>2
  <2>4. QED
      BY <2>3
<1>3. F = [k \in 0..Len(r) |->
                    IF k = 0 THEN << >>
                    ELSE IF IsEntry(r[k]) THEN Append(F[k - 1], r[k]) ELSE F[k - 1]]
    BY <1>2, Zenon
<1> HIDE DEF F
<1> DEFINE T == {k \in Nat : k <= n => F[k] = g[k]}
<1>4. 0 \in T
  <2>1. F[0] = << >>
      BY <1>3
  <2>2. QED
      BY <2>1 DEF Collects
<1>5. ASSUME NEW k \in Nat, k \in T PROVE k + 1 \in T
  <2>1. SUFFICES ASSUME k + 1 <= n PROVE F[k + 1] = g[k + 1]
      OBVIOUS
  <2>2. F[k] = g[k] /\ k + 1 \in 1..n /\ k + 1 \in 0..Len(r) /\ (k + 1) - 1 = k /\ k + 1 # 0
      BY <1>5, <2>1
  <2>3. F[k + 1] = IF IsEntry(r[k + 1]) THEN Append(F[k], r[k + 1]) ELSE F[k]
      BY <1>3, <2>2
  <2>4. g[k + 1] = IF r[k + 1] \in Seqs THEN Append(g[k], r[k + 1]) ELSE g[k]
      BY <2>2 DEF Collects
  <2>5. QED
      BY <2>2, <2>3, <2>4 DEF IsEntry
<1> HIDE DEF T
<1>6. Nat \subseteq T
    BY <1>4, <1>5, AllNaturals
<1>7. QED
    BY <1>1, <1>6 DEF T

----------------------------------------------------------------------------
\* The log on the chip

RingSize == Pages * Slots

\* The place where a walk around the ring from page h is after j slots.
RingPlace(h, j) == <<(h + (j - 1) \div Slots) % Pages, (j - 1) % Slots>>

Walk(f, h) == [j \in 1..RingSize |-> At(f, RingPlace(h, j))]

\* The entries of f in the order of the ring from page h.
LogOf(f, h) == EntriesOf(Walk(f, h))

\* A walk comes to each place once.
LEMMA WalkPlaces ==
    ASSUME NEW h \in Page, NEW f
    PROVE  /\ RingSize \in Nat /\ Len(Walk(f, h)) = RingSize
           /\ \A j \in 1..RingSize :
                 /\ RingPlace(h, j) \in Place /\ Pos(h, RingPlace(h, j)) = j - 1
                 /\ Walk(f, h)[j] = At(f, RingPlace(h, j))
           /\ \A c \in Place, j \in 1..RingSize : Pos(h, c) = j - 1 => RingPlace(h, j) = c
<1>1. RingSize \in Nat
    BY SizeFacts DEF RingSize
<1>2. Len(Walk(f, h)) = RingSize
    BY <1>1 DEF Walk
<1>3. ASSUME NEW j \in 1..RingSize
      PROVE  RingPlace(h, j) \in Place /\ Pos(h, RingPlace(h, j)) = j - 1
    BY RingPlaces DEF RingPlace, RingSize
<1>4. \A j \in 1..RingSize : Walk(f, h)[j] = At(f, RingPlace(h, j))
    BY DEF Walk
<1>5. ASSUME NEW c \in Place, NEW j \in 1..RingSize, Pos(h, c) = j - 1 PROVE RingPlace(h, j) = c
    BY <1>3, <1>5, PosInjective
<1>6. QED
    BY <1>1, <1>2, <1>3, <1>4, <1>5

\* The log is what a walk collects.
LEMMA LogCollected ==
    ASSUME NEW h \in Page, NEW f
    PROVE  /\ \E g : Collects(Walk(f, h), RingSize, g)
           /\ \A g : Collects(Walk(f, h), RingSize, g) => LogOf(f, h) = g[RingSize]
           /\ LogOf(f, h) \in Seq(Seqs)
<1>1. RingSize \in Nat /\ Len(Walk(f, h)) = RingSize
    BY WalkPlaces
<1>2. PICK g : Collects(Walk(f, h), RingSize, g)
    BY <1>1, CollectionExists
<1>3. ASSUME NEW d, Collects(Walk(f, h), RingSize, d) PROVE LogOf(f, h) = d[RingSize]
    BY <1>1, <1>3, EntriesCollected DEF LogOf
<1>4. RingSize \in 0..RingSize
    BY <1>1
<1>5. g[RingSize] \in Seq(Seqs)
    BY <1>2, <1>4 DEF Collects
<1>6. QED
    BY <1>2, <1>3, <1>5

\* The same entries make the same log.
LEMMA SameLog ==
    ASSUME NEW h \in Page, NEW f, NEW g, \A c \in Place : SameSlot(At(f, c), At(g, c))
    PROVE  LogOf(g, h) = LogOf(f, h)
<1> DEFINE r == Walk(f, h)
           s == Walk(g, h)
<1>1. RingSize \in Nat /\ RingSize <= RingSize /\ RingSize \in 0..RingSize
    BY WalkPlaces
<1>2. PICK x : Collects(r, RingSize, x)
    BY LogCollected
<1>3. PICK y : Collects(s, RingSize, y)
    BY LogCollected
<1>4. Alike(r, s, 0, RingSize)
  <2>1. ASSUME NEW k \in 1..RingSize PROVE SameSlot(r[k], s[k])
      BY WalkPlaces
  <2> HIDE DEF r, s
  <2>2. 0 + 1 = 1
      OBVIOUS
  <2>3. QED
      BY <2>1, <2>2 DEF Alike
<1> HIDE DEF r, s
<1>5. \A k \in 0..RingSize : x[k] = y[k]
    BY <1>1, <1>2, <1>3, <1>4, SameEntries
<1>6. x[RingSize] = y[RingSize]
    BY <1>1, <1>5
<1>7. LogOf(f, h) = x[RingSize] /\ LogOf(g, h) = y[RingSize]
    BY <1>2, <1>3, LogCollected DEF r, s
<1>8. QED
    BY <1>6, <1>7

\* A chip without entries holds no log.
LEMMA NoLog ==
    ASSUME NEW h \in Page, NEW f, Entries(f) = {}
    PROVE  LogOf(f, h) = << >>
<1> DEFINE r == Walk(f, h)
<1>1. RingSize \in Nat /\ 0 <= RingSize /\ RingSize <= RingSize /\ 0 \in Nat
    BY WalkPlaces
<1>2. PICK x : Collects(r, RingSize, x)
    BY LogCollected
<1>3. Quiet(r, 0, RingSize)
  <2>1. ASSUME NEW k \in 1..RingSize PROVE r[k] \notin Seqs
      BY WalkPlaces DEF Entries
  <2> HIDE DEF r
  <2>2. 0 + 1 = 1
      OBVIOUS
  <2>3. QED
      BY <2>1, <2>2 DEF Quiet
<1> HIDE DEF r
<1>4. x[RingSize] = x[0]
    BY <1>1, <1>2, <1>3, FewEntries
<1>5. x[0] = << >>
    BY <1>2 DEF Collects
<1>6. LogOf(f, h) = x[RingSize]
    BY <1>2, LogCollected DEF r
<1>7. QED
    BY <1>4, <1>5, <1>6

\* Where page p is in the ring from page h.
PageStart(h, p) == Turn(h, p) * Slots

\* The places of a page are a block of the ring.
LEMMA PageBlock ==
    ASSUME NEW h \in Page, NEW p \in Page
    PROVE  /\ PageStart(h, p) \in Nat /\ PageStart(h, p) + Slots <= RingSize
           /\ PageStart(h, h) = 0
           /\ \A c \in Place :
                 /\ Turn(h, c[1]) < Turn(h, p) => Pos(h, c) < PageStart(h, p)
                 /\ c[1] = p => PageStart(h, p) <= Pos(h, c) /\ Pos(h, c) < PageStart(h, p) + Slots
                 /\ Turn(h, c[1]) > Turn(h, p) => Pos(h, c) >= PageStart(h, p) + Slots
<1> DEFINE t == Turn(h, p)
<1>1. /\ t \in Nat /\ t < Pages /\ Pages \in Nat /\ Slots \in Nat /\ Pages * Slots \in Nat
      /\ Turn(h, h) = 0
    BY TurnFacts, RingFacts, SizeFacts
<1>2. t * Slots \in Nat /\ t * Slots + Slots <= Pages * Slots
    BY <1>1, Products
<1>3. PageStart(h, h) = 0
    BY <1>1 DEF PageStart
<1>4. ASSUME NEW c \in Place
      PROVE  /\ Turn(h, c[1]) < t => Pos(h, c) < t * Slots
             /\ c[1] = p => t * Slots <= Pos(h, c) /\ Pos(h, c) < t * Slots + Slots
             /\ Turn(h, c[1]) > t => Pos(h, c) >= t * Slots + Slots
  <2> DEFINE u == Turn(h, c[1])
             i == c[2]
  <2>1. u \in Nat /\ i \in Nat /\ i < Slots
      BY PlacesAreCursors, TurnFacts, SizeFacts DEF Slot
  <2>2. Pos(h, c) = u * Slots + i
      BY DEF Pos
  <2>3. c[1] = p => u = t
      OBVIOUS
  <2> HIDE DEF u, i, t
  <2>4. /\ u * Slots \in Nat /\ t * Slots \in Nat
        /\ u < t => u * Slots + Slots <= t * Slots
        /\ t < u => t * Slots + Slots <= u * Slots
      BY <1>1, <2>1, Products
  <2>5. /\ u < t => Pos(h, c) < t * Slots
        /\ u = t => t * Slots <= Pos(h, c) /\ Pos(h, c) < t * Slots + Slots
        /\ u > t => Pos(h, c) >= t * Slots + Slots
      BY <1>1, <2>1, <2>2, <2>4
  <2>6. QED
      BY <2>3, <2>5 DEF u
<1>5. QED
    BY <1>2, <1>3, <1>4 DEF PageStart, RingSize

\* The log begins wherever no entry is passed over.
LEMMA LogFrom ==
    ASSUME NEW h \in Page, NEW o \in Page, NEW f, \A c \in Entries(f) : Turn(h, o) <= Turn(h, c[1])
    PROVE  LogOf(f, o) = LogOf(f, h)
<1> DEFINE r == Walk(f, h)
           s == Walk(f, o)
           m == PageStart(h, o)
           n == RingSize - m
<1>1. RingSize \in Nat /\ m \in Nat /\ n \in Nat /\ RingSize = m + n
  <2>1. RingSize \in Nat /\ m \in Nat /\ m + Slots <= RingSize /\ Slots \in Nat
      BY PageBlock, WalkPlaces, SizeFacts
  <2> HIDE DEF m
  <2>2. QED
      BY <2>1
<1>2. PICK x : Collects(r, RingSize, x)
    BY LogCollected
<1>3. PICK y : Collects(s, RingSize, y)
    BY LogCollected
<1>4. \A c \in Place : At(f, c) \in Seqs => Turn(h, o) <= Turn(h, c[1])
    BY DEF Entries
<1>5. \A c \in Place : Turn(h, o) \in Nat /\ Turn(h, c[1]) \in Nat /\ Pos(h, c) \in Nat /\ Pos(o, c) \in Nat
    BY TurnFacts, PosFacts, PlacesAreCursors
<1>6. \A c \in Place : Turn(h, o) <= Turn(h, c[1]) => Pos(o, c) = Pos(h, c) - m /\ Pos(h, c) >= m
  <2>1. SUFFICES ASSUME NEW c \in Place, Turn(h, o) <= Turn(h, c[1])
                 PROVE  Pos(o, c) = Pos(h, c) - m /\ Pos(h, c) >= m
      OBVIOUS
  <2>2. c \in Cursor
      BY PlacesAreCursors
  <2>3. Pos(o, c) = Pos(h, c) - m
      BY <2>1, <2>2, PosShift DEF PageStart
  <2> HIDE DEF m
  <2>4. QED
      BY <1>1, <1>5, <2>3
<1>7. \A c \in Place : Turn(h, c[1]) < Turn(h, o) => Pos(h, c) < m
    BY PageBlock
<1>8. \A j \in 1..RingSize :
         /\ RingPlace(h, j) \in Place /\ Pos(h, RingPlace(h, j)) = j - 1 /\ r[j] = At(f, RingPlace(h, j))
         /\ RingPlace(o, j) \in Place /\ Pos(o, RingPlace(o, j)) = j - 1 /\ s[j] = At(f, RingPlace(o, j))
    BY WalkPlaces
<1>9. \A c \in Place, j \in 1..RingSize : Pos(o, c) = j - 1 => RingPlace(o, j) = c
    BY WalkPlaces
<1>10. LogOf(f, h) = x[RingSize] /\ LogOf(f, o) = y[RingSize]
    BY <1>2, <1>3, LogCollected
<1>11. 0 + 1 = 1
    OBVIOUS
<1> HIDE DEF r, s, m, n
<1>12. Quiet(r, 0, m)
  <2>1. ASSUME NEW k \in 1..m PROVE r[k] \notin Seqs
    <3> DEFINE c == RingPlace(h, k)
    <3>1. k \in 1..RingSize
        BY <1>1
    <3>2. c \in Place /\ Pos(h, c) = k - 1 /\ r[k] = At(f, c)
        BY <1>8, <3>1
    <3> HIDE DEF c
    <3>3. ~(Pos(h, c) >= m)
        BY <1>1, <3>2
    <3>4. QED
        BY <1>4, <1>6, <3>2, <3>3
  <2>2. QED
      BY <1>11, <2>1 DEF Quiet
<1>13. Behind(r, s, m, n)
  <2>1. ASSUME NEW k \in 1..n PROVE SameSlot(r[m + k], s[k])
    <3> DEFINE j == m + k
               c == RingPlace(h, j)
    <3>1. j \in 1..RingSize /\ k \in 1..RingSize /\ j - 1 >= m /\ j - 1 - m = k - 1
        BY <1>1
    <3>2. c \in Place /\ Pos(h, c) = j - 1 /\ r[j] = At(f, c)
        BY <1>8, <3>1
    <3> HIDE DEF c, j
    <3>3. Turn(h, o) <= Turn(h, c[1])
        BY <1>1, <1>5, <1>7, <3>1, <3>2
    <3>4. Pos(o, c) = k - 1
        BY <1>6, <3>1, <3>2, <3>3
    <3>5. s[k] = r[j]
        BY <1>8, <1>9, <3>1, <3>2, <3>4
    <3>6. QED
        BY <3>5 DEF SameSlot, j
  <2>2. QED
      BY <2>1 DEF Behind
<1>14. Quiet(s, n, RingSize)
  <2>1. ASSUME NEW k \in (n + 1)..RingSize PROVE s[k] \notin Seqs
    <3> DEFINE c == RingPlace(o, k)
    <3>1. k \in 1..RingSize /\ k - 1 >= n
        BY <1>1
    <3>2. c \in Place /\ Pos(o, c) = k - 1 /\ s[k] = At(f, c)
        BY <1>8, <3>1
    <3>3. Pos(h, c) \in Nat /\ Pos(h, c) < m + n
      <4>1. c \in Cursor /\ c[2] < Slots
          BY <3>2, PlacesAreCursors, SizeFacts DEF Slot
      <4>2. Pos(h, c) \in Nat /\ Pos(h, c) < Pages * Slots
          BY <4>1, PosFacts
      <4>3. QED
          BY <1>1, <4>2 DEF RingSize
    <3> HIDE DEF c
    <3>4. Pos(o, c) # Pos(h, c) - m
        BY <1>1, <3>1, <3>2, <3>3
    <3>5. QED
        BY <1>4, <1>6, <3>2, <3>4
  <2>2. QED
      BY <2>1 DEF Quiet
<1>15. x[RingSize] = y[RingSize]
    BY <1>1, <1>2, <1>3, <1>12, <1>13, <1>14, Turned
<1>16. QED
    BY <1>10, <1>15

\* What the chip holds begins at the head page as well.
LEMMA StoredFromHead ==
    ASSUME Begun(cells), NEW h \in Page, Ordered(cells, h)
    PROVE  Stored = LogOf(cells, h)
<1>1. CASE FoundPages = {}
  <2>1. \A c \in Entries(cells) : c[1] \in FoundPages
      BY EntriesAreFound
  <2>2. Entries(cells) = {}
      BY <1>1, <2>1
  <2>3. LogOf(cells, h) = << >>
      BY <2>2, NoLog
  <2>4. QED
      BY <1>1, <2>3 DEF Stored
<1>2. CASE FoundPages # {}
  <2> DEFINE o == OldestPage
  <2>1. o \in FoundPages /\ \A q \in FoundPages : Turn(h, o) <= Turn(h, q)
      BY <1>2, EndsFound
  <2>2. o \in Page
      BY <2>1 DEF FoundPages
  <2>3. \A c \in Entries(cells) : c[1] \in FoundPages
      BY EntriesAreFound
  <2> HIDE DEF o
  <2>4. LogOf(cells, o) = LogOf(cells, h)
      BY <2>1, <2>2, <2>3, LogFrom
  <2>5. RingFrom(o) = Walk(cells, o)
      BY DEF RingFrom, Walk, RingPlace, RingSize, At
  <2>6. Stored = EntriesOf(RingFrom(o))
      BY <1>2 DEF Stored, o
  <2>7. QED
      BY <2>4, <2>5, <2>6 DEF LogOf
<1>3. QED
    BY <1>1, <1>2

\* An entry that continues the order is the last one of the log.
LEMMA LogGrows ==
    ASSUME NEW h \in Page, NEW f \in Chip, NEW t \in Place, NEW e \in Seqs, Fresh(f, h, t, e)
    PROVE  LogOf(Put(f, t, e), h) = Append(LogOf(f, h), e)
<1> DEFINE g == Put(f, t, e)
           r == Walk(f, h)
           s == Walk(g, h)
           q == Pos(h, t)
           j == q + 1
<1>1. RingSize \in Nat
    BY WalkPlaces
<1>2. q \in Nat /\ q < RingSize
  <2>1. t \in Cursor /\ t[2] < Slots
      BY PlacesAreCursors, SizeFacts DEF Slot
  <2>2. QED
      BY <2>1, PosFacts DEF RingSize
<1>3. \A c \in Place : At(g, c) = IF c = t THEN e ELSE At(f, c)
    BY PutFacts DEF Cell
<1>4. \A c \in Place : At(f, c) \in Seqs => Pos(h, c) < q
  <2>1. SUFFICES ASSUME NEW c \in Entries(f) PROVE Pos(h, c) < q
      BY DEF Entries
  <2>2. c \in Place /\ Lag(e, At(f, c)) \in 1..(q - Pos(h, c))
      BY DEF Entries, Fresh
  <2>3. Pos(h, c) \in Nat
      BY <2>2, PosFacts, PlacesAreCursors
  <2> HIDE DEF q
  <2>4. QED
      BY <1>2, <2>2, <2>3
<1>5. \A k \in 1..RingSize :
         /\ RingPlace(h, k) \in Place /\ Pos(h, RingPlace(h, k)) = k - 1
         /\ r[k] = At(f, RingPlace(h, k)) /\ s[k] = At(g, RingPlace(h, k))
    BY WalkPlaces
<1>6. \A c \in Place, k \in 1..RingSize : Pos(h, c) = k - 1 => RingPlace(h, k) = c
    BY WalkPlaces
<1>7. PICK x : Collects(r, RingSize, x)
    BY LogCollected
<1>8. PICK y : Collects(s, RingSize, y)
    BY LogCollected
<1>9. LogOf(f, h) = x[RingSize] /\ LogOf(g, h) = y[RingSize]
    BY <1>7, <1>8, LogCollected
<1> HIDE DEF g, r, s, q
<1>10. j \in 1..RingSize /\ j = q + 1 /\ 0 + 1 = 1
    BY <1>1, <1>2
<1>11. RingPlace(h, j) = t
    BY <1>2, <1>6, <1>10 DEF q
<1>12. r[j] \notin Seqs /\ s[j] = e
    BY <1>2, <1>3, <1>4, <1>5, <1>10, <1>11
<1>13. \A k \in 1..RingSize : k # j => s[k] = r[k]
  <2>1. SUFFICES ASSUME NEW k \in 1..RingSize, k # j PROVE s[k] = r[k]
      OBVIOUS
  <2>2. RingPlace(h, k) # t
      BY <1>5, <1>10, <1>11, <2>1
  <2>3. QED
      BY <1>3, <1>5, <2>2
<1>14. \A k \in 1..RingSize : k > j => r[k] \notin Seqs
  <2>1. SUFFICES ASSUME NEW k \in 1..RingSize, k > j, r[k] \in Seqs PROVE FALSE
      OBVIOUS
  <2>2. k - 1 < q
      BY <1>4, <1>5, <2>1
  <2>3. QED
      BY <1>2, <1>10, <2>1, <2>2
<1> HIDE DEF j
<1>15. Alike(r, s, 0, q)
  <2>1. \A k \in 1..q : k \in 1..RingSize /\ k # j
      BY <1>1, <1>2, <1>10
  <2>2. \A k \in 1..q : s[k] = r[k]
      BY <1>13, <2>1
  <2>3. QED
      BY <1>10, <2>2 DEF Alike, SameSlot
<1>16. \A k \in (j + 1)..RingSize : k \in 1..RingSize /\ k > j /\ k # j
    BY <1>1, <1>10
<1>17. Quiet(r, j, RingSize)
    BY <1>14, <1>16 DEF Quiet
<1>18. Quiet(s, j, RingSize)
    BY <1>13, <1>14, <1>16 DEF Quiet
<1>19. y[RingSize] = Append(x[RingSize], s[j])
  <2>1. s[j] \in Seqs
      BY <1>12
  <2>2. q \in Nat /\ RingSize \in Nat /\ j \in 1..RingSize /\ j = q + 1
      BY <1>1, <1>2, <1>10
  <2>3. QED
      BY <1>7, <1>8, <1>12, <1>15, <1>17, <1>18, <2>1, <2>2, OneMore
<1>20. QED
    BY <1>9, <1>12, <1>19 DEF g

\* Erasing a page takes the entries of that page out, the oldest if it is the first.
LEMMA LogLoses ==
    ASSUME NEW h \in Page, NEW f \in Chip, NEW p \in Page, NEW row \in Blank
    PROVE  LET log == LogOf(f, h) IN
           \E i \in 0..Len(log), n \in 0..Slots :
              /\ i + n <= Len(log)
              /\ LogOf(Replaced(f, p, row), h) = WithoutOf(log, i, n)
              /\ p = h => i = 0
<1> DEFINE g == Replaced(f, p, row)
           r == Walk(f, h)
           s == Walk(g, h)
           a == PageStart(h, p)
           b == a + Slots
<1>1. RingSize \in Nat /\ Slots \in Nat /\ a \in Nat /\ a + Slots <= RingSize /\ (p = h => a = 0)
    BY WalkPlaces, PageBlock, SizeFacts
<1>2. \A c \in Place : c[1] # p => At(g, c) = At(f, c)
    BY EraseFacts, PlacesAreCursors DEF At
<1>3. \A c \in Place : c[1] = p => At(g, c) \notin Seqs
    BY EraseFacts DEF Entries
<1>4. \A c \in Place : a <= Pos(h, c) /\ Pos(h, c) < b <=> c[1] = p
  <2>1. SUFFICES ASSUME NEW c \in Place PROVE a <= Pos(h, c) /\ Pos(h, c) < b <=> c[1] = p
      OBVIOUS
  <2>2. c[1] \in Page /\ Pos(h, c) \in Nat
      BY PlacesAreCursors, PosFacts
  <2>3. Turn(h, c[1]) \in Nat /\ Turn(h, p) \in Nat /\ (Turn(h, c[1]) = Turn(h, p) => c[1] = p)
      BY <2>2, TurnFacts, RingFacts
  <2>4. /\ Turn(h, c[1]) < Turn(h, p) => Pos(h, c) < a
        /\ c[1] = p => a <= Pos(h, c) /\ Pos(h, c) < b
        /\ Turn(h, c[1]) > Turn(h, p) => Pos(h, c) >= b
      BY PageBlock
  <2> HIDE DEF a
  <2>5. QED
      BY <1>1, <2>2, <2>3, <2>4
<1>5. \A k \in 1..RingSize :
         /\ RingPlace(h, k) \in Place /\ Pos(h, RingPlace(h, k)) = k - 1
         /\ r[k] = At(f, RingPlace(h, k)) /\ s[k] = At(g, RingPlace(h, k))
    BY WalkPlaces
<1>6. PICK x : Collects(r, RingSize, x)
    BY LogCollected
<1>7. PICK y : Collects(s, RingSize, y)
    BY LogCollected
<1>8. LogOf(f, h) = x[RingSize] /\ LogOf(g, h) = y[RingSize]
    BY <1>6, <1>7, LogCollected
<1> HIDE DEF g, r, s, a
<1>9. b \in Nat /\ a <= b /\ b <= RingSize /\ b = a + Slots /\ 0 + 1 = 1
    BY <1>1
<1> HIDE DEF b
<1>10. ASSUME NEW k \in 1..RingSize
       PROVE  /\ k <= a \/ k > b => s[k] = r[k]
              /\ k > a /\ k <= b => s[k] \notin Seqs
  <2> DEFINE c == RingPlace(h, k)
  <2>1. c \in Place /\ Pos(h, c) = k - 1 /\ r[k] = At(f, c) /\ s[k] = At(g, c)
      BY <1>5
  <2> HIDE DEF c
  <2>2. /\ k <= a \/ k > b => c[1] # p
        /\ k > a /\ k <= b => c[1] = p
      BY <1>1, <1>4, <1>9, <2>1
  <2>3. QED
      BY <1>2, <1>3, <2>1, <2>2
<1>11. Alike(r, s, 0, a)
  <2>1. \A k \in 1..a : k \in 1..RingSize /\ k <= a
      BY <1>1, <1>9
  <2>2. \A k \in 1..a : s[k] = r[k]
      BY <1>10, <2>1
  <2>3. QED
      BY <1>9, <2>2 DEF Alike, SameSlot
<1>12. Quiet(s, a, b)
  <2>1. \A k \in (a + 1)..b : k \in 1..RingSize /\ k > a /\ k <= b
      BY <1>1, <1>9
  <2>2. QED
      BY <1>10, <2>1 DEF Quiet
<1>13. Alike(r, s, b, RingSize)
  <2>1. \A k \in (b + 1)..RingSize : k \in 1..RingSize /\ k > b
      BY <1>1, <1>9
  <2>2. \A k \in (b + 1)..RingSize : s[k] = r[k]
      BY <1>10, <2>1
  <2>3. QED
      BY <2>2 DEF Alike, SameSlot
<1>14. PICK i \in Nat, n \in Nat :
          /\ i = Len(x[a]) /\ n <= b - a /\ i + n <= Len(x[RingSize])
          /\ Len(x[RingSize]) \in Nat /\ y[RingSize] = WithoutOf(x[RingSize], i, n)
  <2>1. RingSize \in Nat /\ a \in Nat /\ b \in Nat /\ a <= b /\ b <= RingSize
      BY <1>1, <1>9
  <2>2. QED
      BY <1>6, <1>7, <1>11, <1>12, <1>13, <2>1, BlockGone
<1>15. p = h => i = 0
  <2>1. x[0] = << >> /\ Len(<< >>) = 0
      BY <1>6 DEF Collects
  <2>2. QED
      BY <1>1, <1>14, <2>1
<1>16. i \in 0..Len(x[RingSize]) /\ n \in 0..Slots
    BY <1>1, <1>9, <1>14
<1>17. QED
    BY <1>8, <1>14, <1>15, <1>16 DEF g

\* Nothing taken out.
LEMMA WithoutNone ==
    ASSUME NEW x \in Seq(Seqs), NEW i \in Nat
    PROVE  WithoutOf(x, i, 0) = x
<1>1. Len(x) \in Nat /\ Len(x) - 0 = Len(x)
    OBVIOUS
<1>2. WithoutOf(x, i, 0) = [k \in 1..Len(x) |-> IF k <= i THEN x[k] ELSE x[k + 0]]
    BY <1>1 DEF WithoutOf
<1>3. \A k \in 1..Len(x) : k + 0 = k
    OBVIOUS
<1>4. WithoutOf(x, i, 0) = [k \in 1..Len(x) |-> x[k]]
    BY <1>2, <1>3
<1>5. QED
    BY <1>4

----------------------------------------------------------------------------
\* The abstract log

\* What the chip holds, seen from any page from which its entries are in order.
LEMMA StoredInOrder ==
    \A h \in Page : Begun(cells) /\ Ordered(cells, h) => Stored = LogOf(cells, h)
BY StoredFromHead

LEMMA StoredInOrderNext ==
    \A h \in Page : Begun(cells') /\ Ordered(cells', h) => Stored' = LogOf(cells', h)
<1>1. (\A h \in Page : Begun(cells) /\ Ordered(cells, h) => Stored = LogOf(cells, h))'
    BY StoredInOrder, PTL
<1>2. QED
    BY <1>1

\* The variables of RingLog.
abstract == <<Stored, pc = "wipe">>

\* The same entries on the chip are the same log.
LEMMA SameStored ==
    ASSUME cells' \in Chip, NEW h \in Page, Begun(cells), Ordered(cells, h),
           Begun(cells'), Ordered(cells', h), \A c \in Place : SameSlot(At(cells, c), At(cells', c))
    PROVE  Stored' = Stored
<1>1. Stored = LogOf(cells, h) /\ Stored' = LogOf(cells', h)
    BY StoredInOrder, StoredInOrderNext
<1> DEFINE g == cells'
<1>2. \A c \in Place : SameSlot(At(cells, c), At(g, c))
    OBVIOUS
<1> HIDE DEF g
<1>3. LogOf(g, h) = LogOf(cells, h)
    BY <1>2, SameLog
<1>4. QED
    BY <1>1, <1>3 DEF g

\* Erasing a page drops a block of entries.
LEMMA PageDropped ==
    ASSUME cells \in Chip, NEW h \in Page, Begun(cells), Ordered(cells, h),
           NEW p \in Page, NEW row \in Blank, cells' = Replaced(cells, p, row)
    PROVE  /\ Begun(cells') /\ Ordered(cells', h)
           /\ Stored \in Seq(Seqs)
           /\ \E i \in 0..Len(Stored), n \in 0..Slots :
                 i + n <= Len(Stored) /\ Stored' = WithoutOf(Stored, i, n) /\ (p = h => i = 0)
<1> DEFINE g == Replaced(cells, p, row)
<1>1. Begun(g) /\ Ordered(g, h)
    BY EraseFacts, FewerInOrder
<1>2. LET log == LogOf(cells, h) IN
      \E i \in 0..Len(log), n \in 0..Slots :
          /\ i + n <= Len(log)
          /\ LogOf(g, h) = WithoutOf(log, i, n)
          /\ p = h => i = 0
    BY LogLoses
<1> HIDE DEF g
<1>3. cells' = g
    BY DEF g
<1>4. Stored = LogOf(cells, h) /\ Stored' = LogOf(g, h)
    BY <1>1, <1>3, StoredInOrder, StoredInOrderNext
<1>5. LogOf(cells, h) \in Seq(Seqs)
    BY LogCollected
<1>6. QED
    BY <1>1, <1>2, <1>3, <1>4, <1>5

\* RingLog's actions on what the chip holds.
LEMMA AbstractSteps ==
    /\ Stored' = Stored /\ (pc' = "wipe" <=> pc = "wipe") => UNCHANGED abstract
    /\ pc # "wipe" /\ pc' # "wipe" /\ (\E e \in Seqs : Stored' = Append(Stored, e)) => Abstract!LogNext
    /\ pc # "wipe" /\ pc' # "wipe" /\ Stored \in Seq(Seqs)
          /\ (\E n \in 0..Slots : n <= Len(Stored) /\ Stored' = WithoutOf(Stored, 0, n))
          => [Abstract!LogNext]_abstract
    /\ pc # "wipe" /\ pc' = "wipe" /\ Stored' = Stored => Abstract!LogNext
    /\ pc = "wipe" /\ Stored \in Seq(Seqs)
          /\ (\E i \in 0..Len(Stored), n \in 0..Slots :
                 i + n <= Len(Stored) /\ Stored' = WithoutOf(Stored, i, n))
          => Abstract!LogNext
<1>1. ASSUME Stored' = Stored, pc' = "wipe" <=> pc = "wipe" PROVE UNCHANGED abstract
    BY <1>1, Zenon DEF abstract
<1>2. ASSUME pc # "wipe", pc' # "wipe", NEW e \in Seqs, Stored' = Append(Stored, e)
      PROVE  Abstract!LogNext
  <2>1. (pc' = "wipe") = (pc = "wipe")
      BY <1>2
  <2>2. Abstract!Grow
      BY <1>2, <2>1, Zenon DEF Abstract!Grow
  <2>3. QED
      BY <2>2 DEF Abstract!LogNext
<1>3. ASSUME pc # "wipe", pc' # "wipe", Stored \in Seq(Seqs), NEW n \in 0..Slots, n <= Len(Stored),
             Stored' = WithoutOf(Stored, 0, n)
      PROVE  [Abstract!LogNext]_abstract
  <2>1. (pc' = "wipe") = (pc = "wipe")
      BY <1>3
  <2>2. CASE n = 0
    <3>1. Stored' = Stored
        BY <1>3, <2>2, WithoutNone
    <3>2. QED
        BY <2>1, <3>1, Zenon DEF abstract
  <2>3. CASE n # 0
    <3>1. n \in 1..Slots
        BY <2>3
    <3>2. Abstract!DropOldest
        BY <1>3, <2>1, <3>1, Zenon DEF Abstract!DropOldest, Abstract!Without, WithoutOf
    <3>3. QED
        BY <3>2 DEF Abstract!LogNext
  <2>4. QED
      BY <2>2, <2>3
<1>4. ASSUME pc # "wipe", pc' = "wipe", Stored' = Stored PROVE Abstract!LogNext
  <2>1. (pc' = "wipe") = TRUE
      BY <1>4
  <2>2. Abstract!BeginClear
      BY <1>4, <2>1, Zenon DEF Abstract!BeginClear
  <2>3. QED
      BY <2>2 DEF Abstract!LogNext
<1>5. ASSUME pc = "wipe", NEW i \in 0..Len(Stored), NEW n \in 0..Slots,
             i + n <= Len(Stored), Stored' = WithoutOf(Stored, i, n)
      PROVE  Abstract!LogNext
  <2>1. (pc' = "wipe") \in BOOLEAN
      BY Zenon
  <2>2. Abstract!Clear
      BY <1>5, <2>1, Zenon DEF Abstract!Clear, Abstract!Without, WithoutOf
  <2>3. QED
      BY <2>2 DEF Abstract!LogNext
<1>6. QED
    BY <1>1, <1>2, <1>3, <1>4, <1>5

\* Steps that write no entry and erase no page leave the log as it is.
LEMMA QuietSteps ==
    ASSUME IInv, Boot \/ BeginWrite \/ BeginRotate \/ CallRefused \/ ProgramFails
    PROVE  UNCHANGED abstract
<1>1. cells' = cells /\ pc # "wipe" /\ pc' # "wipe"
    BY DEF Boot, BeginWrite, BeginRotate, CallRefused, ProgramFails, CallOpen
<1>2. Stored' = Stored
  <2>1. PICK h \in Page : Ordered(cells, h)
      BY DEF IInv
  <2>2. Begun(cells) /\ cells' \in Chip
      BY <1>1, InvFacts
  <2>3. QED
      BY <1>1, <2>1, <2>2, StoredInOrder, StoredInOrderNext
<1>3. QED
    BY <1>1, <1>2, AbstractSteps

\* The first programming operation makes no entry.
LEMMA FirstOperation ==
    ASSUME IInv, IInv', ProgramFirst
    PROVE  UNCHANGED abstract
<1> DEFINE h == head[1]
           g == Put(cells, cur, Corrupt)
<1>1. /\ cells \in Chip /\ cur \in Cursor /\ h \in Page /\ Begun(cells) /\ Ordered(cells, h)
    BY InvFacts DEF ProgramFirst
<1>2. /\ pc = "program" /\ pc' = "rest" /\ cells' = g /\ head' = head /\ cells[cur[1]][cur[2]] = SEQ_EMPTY
    BY DEF ProgramFirst, Put, CurCell, cursors
<1>3. cur \in Place
    BY <1>1, <1>2, PosFacts DEF IInv, CursorInv
<1>4. \A c \in Place : At(g, c) = IF c = cur THEN Corrupt ELSE At(cells, c)
    BY <1>1, <1>3, PutFacts DEF Cell
<1>5. At(cells, cur) = SEQ_EMPTY
    BY <1>2 DEF At
<1> HIDE DEF g
<1>6. \A c \in Place : SameSlot(At(cells, c), At(g, c))
    BY <1>4, <1>5, SizeFacts DEF SameSlot
<1>7. cells' \in Chip /\ Begun(cells') /\ Ordered(cells', h)
    BY <1>2 DEF IInv, TypeOK, Chip, Cell
<1>8. Stored' = Stored
    BY <1>1, <1>2, <1>6, <1>7, SameStored
<1>9. QED
    BY <1>2, <1>8, AbstractSteps

\* The last one makes the entry that the log grows by.
LEMMA LastOperation ==
    ASSUME IInv, IInv', ProgramRest
    PROVE  Abstract!LogNext
<1> DEFINE h == head[1]
           g == Put(cells, cur, seq)
<1>1. /\ cells \in Chip /\ cur \in Cursor /\ h \in Page /\ seq \in Seqs /\ Begun(cells)
      /\ Ordered(cells, h) /\ Fresh(cells, h, cur, seq) /\ cur[2] < Slots
    BY InvFacts DEF ProgramRest, IInv, CursorInv
<1>2. pc = "rest" /\ pc' = "ready" /\ cells' = g /\ head' = head
    BY DEF ProgramRest, Put
<1>3. cur \in Place
    BY <1>1, PosFacts
<1>4. LogOf(g, h) = Append(LogOf(cells, h), seq)
    BY <1>1, <1>3, LogGrows
<1> HIDE DEF g
<1>5. Begun(cells') /\ Ordered(cells', h)
    BY <1>2 DEF IInv
<1>6. Stored = LogOf(cells, h) /\ Stored' = LogOf(g, h)
    BY <1>1, <1>2, <1>5, StoredInOrder, StoredInOrderNext
<1>7. QED
    BY <1>1, <1>2, <1>4, <1>6, AbstractSteps

\* Erasing the next page, to its end or not, drops the oldest entries, or none where
\* the log does not begin there.
LEMMA NextPageErased ==
    ASSUME IInv, pc = "erase", pc' # "wipe", NEW row \in Blank,
           cells' = Replaced(cells, NextPage(cur[1]), row)
    PROVE  [Abstract!LogNext]_abstract
<1> DEFINE h == head[1]
           p == NextPage(cur[1])
           g == Replaced(cells, p, row)
<1>1. /\ cells \in Chip /\ cur \in Cursor /\ h \in Page /\ Begun(cells)
      /\ Ordered(cells, h) /\ Fresh(cells, h, cur, seq) /\ cur[2] = Slots
    BY InvFacts DEF IInv, CursorInv
<1>2. cur[1] \in Page /\ p \in Page
    BY <1>1, PosFacts, NextFacts
<1>3. cells' = g
    OBVIOUS
<1>4. /\ Begun(g) /\ Ordered(g, h) /\ Stored \in Seq(Seqs)
      /\ \E i \in 0..Len(Stored), n \in 0..Slots :
            i + n <= Len(Stored) /\ Stored' = WithoutOf(Stored, i, n) /\ (p = h => i = 0)
    BY <1>1, <1>2, PageDropped
<1>5. CASE p = h
  <2>1. PICK n \in 0..Slots : n <= Len(Stored) /\ Stored' = WithoutOf(Stored, 0, n)
    <3>1. PICK i \in 0..Len(Stored), n \in 0..Slots :
             i + n <= Len(Stored) /\ Stored' = WithoutOf(Stored, i, n) /\ i = 0
        BY <1>4, <1>5
    <3>2. n <= Len(Stored) /\ Stored' = WithoutOf(Stored, 0, n)
        BY <3>1
    <3>3. QED
        BY <3>2
  <2>2. QED
      BY <1>4, <2>1, AbstractSteps
<1>6. CASE p # h
  <2>1. \A c \in Place : At(cells, c) \in Seqs => c[1] # p
    <3>1. SUFFICES ASSUME NEW c \in Entries(cells), c[1] = p PROVE FALSE
        BY DEF Entries
    <3>2. c \in Place /\ c \in Cursor /\ c[1] \in Page /\ Lag(seq, At(cells, c)) \in 1..(Pos(h, cur) - Pos(h, c))
        BY <1>1, PlacesAreCursors DEF Fresh, Entries
    <3>3. Turn(h, p) = Turn(h, cur[1]) + 1 /\ Turn(h, cur[1]) \in Nat
        BY <1>1, <1>2, <1>6, RingFacts, TurnFacts
    <3>4. Pos(h, cur) <= Pos(h, c)
        BY <1>1, <3>1, <3>2, <3>3, PosOrder
    <3>5. Pos(h, cur) \in Nat /\ Pos(h, c) \in Nat
        BY <1>1, <3>2, PosFacts
    <3>6. QED
        BY <3>2, <3>4, <3>5
  <2>2. \A c \in Place : c[1] # p => At(g, c) = At(cells, c)
      BY <1>1, <1>2, EraseFacts, PlacesAreCursors DEF At
  <2>3. \A c \in Place : c[1] = p => At(g, c) \notin Seqs
      BY <1>1, <1>2, EraseFacts DEF Entries
  <2>4. g \in Chip
      BY <1>1, <1>2, EraseFacts
  <2> HIDE DEF g
  <2>5. \A c \in Place : SameSlot(At(cells, c), At(g, c))
      BY <2>1, <2>2, <2>3 DEF SameSlot
  <2>6. Stored' = Stored
      BY <1>1, <1>3, <1>4, <2>4, <2>5, SameStored
  <2>7. QED
      BY <2>6, AbstractSteps
<1>7. QED
    BY <1>5, <1>6

\* Erasing a page while the log is being erased, to its end or not.
LEMMA PageWiped ==
    ASSUME IInv, pc = "wipe", NEW p \in Page, NEW row \in Blank, cells' = Replaced(cells, p, row)
    PROVE  Abstract!LogNext
<1>1. cells \in Chip /\ head[1] \in Page /\ Begun(cells) /\ Ordered(cells, head[1])
    BY InvFacts
<1>2. /\ Stored \in Seq(Seqs)
      /\ \E i \in 0..Len(Stored), n \in 0..Slots :
            i + n <= Len(Stored) /\ Stored' = WithoutOf(Stored, i, n)
    BY <1>1, PageDropped
<1>3. QED
    BY <1>2, AbstractSteps

\* The erasure of the log begins and ends without a change.
LEMMA SameWhileWiping ==
    ASSUME IInv, pc # "off", cells' = cells
    PROVE  /\ Stored' = Stored
           /\ pc = "wipe" => Abstract!LogNext
<1> DEFINE h == head[1]
<1>1. cells \in Chip /\ h \in Page /\ Begun(cells) /\ Ordered(cells, h)
    BY InvFacts
<1>2. Stored = LogOf(cells, h) /\ Stored' = LogOf(cells, h)
    BY <1>1, StoredInOrder, StoredInOrderNext
<1>3. LogOf(cells, h) \in Seq(Seqs)
    BY <1>1, LogCollected
<1>4. 0 \in 0..Len(Stored) /\ 0 \in 0..Slots /\ 0 + 0 <= Len(Stored)
  <2>1. Len(Stored) \in Nat
      BY <1>2, <1>3
  <2>2. QED
      BY <2>1, SizeFacts
<1>5. Stored' = WithoutOf(Stored, 0, 0)
    BY <1>2, <1>3, WithoutNone
<1>6. ASSUME pc = "wipe" PROVE Abstract!LogNext
    BY <1>2, <1>3, <1>4, <1>5, <1>6, AbstractSteps
<1>7. QED
    BY <1>2, <1>6

\* Power fails.
LEMMA FailureSteps ==
    ASSUME Survivable, IInv, PowerFail
    PROVE  [Abstract!LogNext]_abstract
<1>1. pc # "off" /\ pc' = "off"
    BY DEF PowerFail
<1>2. CASE cells' = cells
  <2>1. Stored' = Stored /\ (pc = "wipe" => Abstract!LogNext)
      BY <1>1, <1>2, SameWhileWiping
  <2>2. pc # "wipe" => UNCHANGED abstract
      BY <1>1, <2>1, AbstractSteps
  <2>3. QED
      BY <2>1, <2>2
<1>3. CASE cells' # cells
  <2>1. PICK p \in Erasing, row \in HalfErased : cells' = [cells EXCEPT ![p] = row]
      BY <1>3 DEF PowerFail
  <2>2. row \in Blank /\ cells' = Replaced(cells, p, row)
      BY <2>1, BlankPages DEF Survivable, Replaced
  <2>3. CASE pc = "erase"
    <3>1. p = NextPage(cur[1])
        BY <2>1, <2>3 DEF Erasing
    <3>2. QED
        BY <1>1, <2>2, <2>3, <3>1, NextPageErased
  <2>4. CASE pc = "wipe"
    <3>1. UsedPages # {} /\ p = Min(UsedPages)
        BY <2>1, <2>4 DEF Erasing
    <3>2. p \in Page
        BY <3>1, LeastPage DEF UsedPages
    <3>3. QED
        BY <2>2, <2>4, <3>2, PageWiped
  <2>5. CASE pc # "erase" /\ pc # "wipe"
      BY <2>1, <2>5 DEF Erasing
  <2>6. QED
      BY <2>3, <2>4, <2>5
<1>4. QED
    BY <1>2, <1>3

\* Every step of the driver is one of the abstract log, or leaves it alone.
LEMMA LogStep ==
    ASSUME Survivable, IInv, IInv', [Next]_vars
    PROVE  [Abstract!LogNext]_abstract
<1>1. CASE Boot \/ BeginWrite \/ BeginRotate \/ CallRefused \/ ProgramFails
    BY <1>1, QuietSteps
<1>2. CASE RotateDone
  <2>1. pc = "erase" /\ pc' # "wipe" /\ cells' = Replaced(cells, NextPage(cur[1]), Erased)
      BY <1>2 DEF RotateDone, Replaced
  <2>2. QED
      BY <2>1, BlankPages, NextPageErased
<1>3. CASE ProgramFirst
    BY <1>3, FirstOperation
<1>4. CASE ProgramRest
    BY <1>4, LastOperation
<1>5. CASE BeginWipe
  <2>1. pc # "wipe" /\ pc # "off" /\ pc' = "wipe" /\ cells' = cells
      BY <1>5 DEF BeginWipe
  <2>2. QED
      BY <2>1, SameWhileWiping, AbstractSteps
<1>6. CASE WipePage
  <2>1. /\ pc = "wipe" /\ UsedPages # {}
        /\ cells' = Replaced(cells, Min(UsedPages), Erased)
      BY <1>6 DEF WipePage, Replaced
  <2>2. Min(UsedPages) \in Page
      BY <2>1, LeastPage DEF UsedPages
  <2>3. QED
      BY <2>1, <2>2, BlankPages, PageWiped
<1>7. CASE WipeFails \/ WipeDone
  <2>1. pc = "wipe" /\ cells' = cells
      BY <1>7 DEF WipeFails, WipeDone
  <2>2. QED
      BY <2>1, SameWhileWiping
<1>8. CASE PowerFail
    BY <1>8, FailureSteps
<1>9. CASE UNCHANGED vars
  <2>1. UNCHANGED <<cells, pc>>
      BY <1>9 DEF vars
  <2>2. PICK h \in Page : Ordered(cells, h)
      BY DEF IInv
  <2>3. Begun(cells)
      BY InvFacts
  <2>4. Stored' = Stored
      BY <2>1, <2>2, <2>3, StoredInOrder, StoredInOrderNext
  <2>5. QED
      BY <2>1, <2>4, AbstractSteps
<1>10. QED
    BY <1>1, <1>2, <1>3, <1>4, <1>5, <1>6, <1>7, <1>8, <1>9 DEF Next

\* ImplementsRingLog: what is on the chip grows at its end one entry at a time and
\* loses its oldest entries a page of them at most, through power failures and
\* failed calls, unless it is being erased (BSP_LogFlash_Write, find_cursors,
\* BSP_LogFlash_Erase).
THEOREM LogIsARing == ASSUME Survivable PROVE Spec => ImplementsRingLog
<1>1. Init => Abstract!LogInit
  <2>1. SUFFICES ASSUME Init PROVE Abstract!LogInit
      OBVIOUS
  <2>2. \A p \in Page : cells[p][0] = SEQ_EMPTY
      BY <2>1, BlankPages, SizeFacts DEF Init
  <2>3. FoundPages = {}
      BY <2>2, SizeFacts DEF FoundPages, SlotValid
  <2>4. Stored = << >> /\ pc = "off"
      BY <2>1, <2>3 DEF Stored, Init
  <2>5. (pc = "wipe") = FALSE
      BY <2>4
  <2>6. QED
      BY <2>4, <2>5 DEF Abstract!LogInit
<1>2. IInv /\ IInv' /\ [Next]_vars => [Abstract!LogNext]_<<Stored, pc = "wipe">>
    BY LogStep DEF abstract
<1>3. Spec => []IInv
    BY Invariance
<1>4. QED
    BY <1>1, <1>2, <1>3, PTL DEF Spec, ImplementsRingLog, Abstract!LogSpec

----------------------------------------------------------------------------
\* Reading

\* The least member of a set of numbers.
LEMMA LeastOf ==
    ASSUME NEW S, S \subseteq Nat, S # {}
    PROVE  Min(S) \in S /\ \A i \in S : Min(S) <= i
<1>1. \E x \in S : \A y \in S : x <= y
    BY LeastMember
<1>2. QED
    BY <1>1, Zenon DEF Min

\* The page k pages behind page p.
PageBehind(p, k) == (p + k) % Pages

LEMMA PagesBehind ==
    ASSUME NEW p \in Page
    PROVE  /\ \A k \in 0..(Pages - 1) : PageBehind(p, k) \in Page /\ Turn(p, PageBehind(p, k)) = k
           /\ \A q \in Page : Turn(p, q) \in 0..(Pages - 1) /\ PageBehind(p, Turn(p, q)) = q
<1>0. Pages \in Nat \ {0} /\ p \in Nat /\ p < Pages
    BY SizeFacts DEF Page
<1>1. ASSUME NEW k \in 0..(Pages - 1)
      PROVE  PageBehind(p, k) \in Page /\ Turn(p, PageBehind(p, k)) = k
  <2> DEFINE x == p + k
             q == PageBehind(p, k)
  <2>1. /\ x \in Int /\ q = x % Pages
        /\ x < Pages => x \in 0..(Pages - 1)
        /\ x >= Pages => x \in Pages..(2 * Pages - 1)
      BY <1>0 DEF PageBehind
  <2>2. k \in Nat /\ k < Pages /\ x = p + k
      BY <1>0
  <2> HIDE DEF x, q
  <2>3. q = IF x < Pages THEN x ELSE x - Pages
    <3>1. /\ x \in 0..(Pages - 1) => x % Pages = x
          /\ x \in Pages..(2 * Pages - 1) => x % Pages = x - Pages
        BY <1>0, <2>1, NearRemainder
    <3>2. x < Pages \/ x >= Pages
        BY <1>0, <2>1
    <3>3. QED
        BY <2>1, <3>1, <3>2
  <2>4. q \in Page
      BY <1>0, <2>1, <2>2, <2>3 DEF Page
  <2>5. Turn(p, q) = IF q >= p THEN q - p ELSE q - p + Pages
      BY <2>4, TurnFacts
  <2>6. Turn(p, q) = k
      BY <1>0, <2>2, <2>3, <2>5
  <2>7. QED
      BY <2>4, <2>6 DEF q
<1>2. ASSUME NEW q \in Page
      PROVE  Turn(p, q) \in 0..(Pages - 1) /\ PageBehind(p, Turn(p, q)) = q
  <2>1. Turn(p, q) \in 0..(Pages - 1)
      BY <1>0, TurnFacts
  <2>2. PageBehind(p, Turn(p, q)) \in Page /\ Turn(p, PageBehind(p, Turn(p, q))) = Turn(p, q)
      BY <1>1, <2>1
  <2>3. QED
      BY <2>1, <2>2, RingFacts
<1>3. QED
    BY <1>1, <1>2

\* The slot at which a read that starts at c begins in the k-th page.
FirstSlot(c, k) == IF k = 0 THEN c[2] ELSE 0

\* Where a page is filled from its first slot on, the entries from a slot on can be read.
LEMMA ReadableEntries ==
    ASSUME Filled(cells), NEW p \in Page, NEW i \in Slot, NEW j
    PROVE  j \in Readable(p, i) <=> j \in Slot /\ j >= i /\ cells[p][j] \in Seqs
<1>1. ASSUME j \in Slot, j >= i, cells[p][j] \in Seqs, NEW l \in i..j PROVE ~SlotIsEmpty(p, l)
  <2>1. l \in Slot /\ l <= j /\ i \in Nat /\ j \in Nat
      BY <1>1, SizeFacts DEF Slot
  <2>2. cells[p][j] # SEQ_EMPTY
      BY <1>1, SizeFacts
  <2>3. l < j => cells[p][l] # SEQ_EMPTY
      BY <1>1, <2>1, <2>2 DEF Filled
  <2>4. l = j \/ l < j
      BY <2>1, SizeFacts
  <2>5. QED
      BY <2>2, <2>3, <2>4 DEF SlotIsEmpty
<1>2. QED
    BY <1>1 DEF Readable, SlotValid

\* Reads go through the pages in the order of the ring.
LEMMA VisitedPages ==
    ASSUME NEW c \in Place
    PROVE  /\ Visited(c) = {k \in 0..(Pages - 1) : Readable(PageBehind(c[1], k), FirstSlot(c, k)) # {}}
           /\ Visited(c) # {} =>
                 LET k == Min(Visited(c)) IN
                 /\ k \in Visited(c) /\ \A l \in Visited(c) : k <= l
                 /\ Found(c) = <<PageBehind(c[1], k), Min(Readable(PageBehind(c[1], k), FirstSlot(c, k)))>>
<1>1. Visited(c) = {k \in 0..(Pages - 1) : Readable(PageBehind(c[1], k), FirstSlot(c, k)) # {}}
    BY DEF Visited, PageBehind, FirstSlot
<1>2. Visited(c) \subseteq Nat
    BY <1>1, SizeFacts
<1>3. Found(c) = LET k == Min(Visited(c)) IN
                 <<PageBehind(c[1], k), Min(Readable(PageBehind(c[1], k), FirstSlot(c, k)))>>
    BY DEF Found, PageBehind, FirstSlot
<1>4. QED
    BY <1>1, <1>2, <1>3, LeastOf

\* What a read finds is a place, and so is the next one.
LEMMA FoundPlaces ==
    ASSUME NEW c \in Place, Visited(c) # {}
    PROVE  Found(c) \in Place /\ SlotValid(Found(c)[1], Found(c)[2])
<1> DEFINE k == Min(Visited(c))
           p == PageBehind(c[1], k)
           i == FirstSlot(c, k)
           j == Min(Readable(p, i))
<1>1. k \in 0..(Pages - 1) /\ Readable(p, i) # {} /\ Found(c) = <<p, j>>
    BY VisitedPages
<1>2. p \in Page
    BY <1>1, PagesBehind, PlacesAreCursors
<1> HIDE DEF k, p, i
<1>3. Readable(p, i) \subseteq Nat
    BY SizeFacts DEF Readable
<1>4. j \in Readable(p, i)
    BY <1>1, <1>3, LeastOf
<1>5. j \in Slot /\ SlotValid(p, j)
    BY <1>4 DEF Readable
<1> HIDE DEF j
<1>6. Found(c) \in Place /\ Found(c)[1] = p /\ Found(c)[2] = j
    BY <1>1, <1>2, <1>5 DEF Place
<1>7. QED
    BY <1>5, <1>6

LEMMA AfterPlaces ==
    ASSUME NEW h \in Page, NEW d \in Place
    PROVE  /\ After(d) \in Place
           /\ Pos(h, d) + 1 < RingSize => Pos(h, After(d)) = Pos(h, d) + 1
<1> DEFINE p == d[1]
           i == d[2]
           t == Turn(h, p)
           n == NextPage(p)
<1>1. /\ p \in Page /\ i \in Slot /\ i \in Nat /\ i < Slots /\ d = <<p, i>>
      /\ n \in Page /\ t \in Nat /\ t < Pages /\ Slots \in Nat /\ Pages \in Nat /\ Slots >= 1
    BY NextFacts, TurnFacts, SizeFacts DEF Place, Slot
<1>2. After(d) = IF i + 1 < Slots THEN <<p, i + 1>> ELSE <<n, 0>>
    BY DEF After
<1>3. After(d) \in Place
    BY <1>1, <1>2, SizeFacts DEF Place, Slot
<1>4. Pos(h, d) = t * Slots + i
    BY DEF Pos
<1>5. n # h => Turn(h, n) = t + 1
    BY <1>1, RingFacts
<1>6. n = h => t = Pages - 1
    BY <1>1, RingFacts
<1>7. (t + 1) * Slots = t * Slots + Slots /\ t * Slots \in Nat
    BY <1>1, Products
<1>8. CASE i + 1 < Slots
  <2>1. Pos(h, After(d)) = t * Slots + (i + 1)
      BY <1>2, <1>8 DEF Pos
  <2> HIDE DEF t, i
  <2>2. QED
      BY <1>1, <1>3, <1>4, <1>7, <2>1
<1>9. CASE ~(i + 1 < Slots)
  <2>1. After(d) = <<n, 0>>
      BY <1>2, <1>9
  <2>2. Pos(h, After(d)) = Turn(h, n) * Slots + 0
      BY <2>1 DEF Pos
  <2>3. i + 1 = Slots
      BY <1>1, <1>9
  <2> HIDE DEF t, i, n, p
  <2>4. n # h => Pos(h, After(d)) = Pos(h, d) + 1
      BY <1>1, <1>4, <1>5, <1>7, <2>2, <2>3
  <2>5. n = h => Pos(h, d) + 1 = Pages * Slots
    <3>1. n = h => t + 1 = Pages
        BY <1>1, <1>6
    <3>2. n = h => Pages * Slots = t * Slots + Slots
        BY <1>7, <3>1
    <3>3. QED
        BY <1>1, <1>4, <1>7, <2>3, <3>2
  <2>6. QED
      BY <1>3, <2>4, <2>5, SizeFacts DEF RingSize
<1>10. QED
    BY <1>8, <1>9

\* A log that has not wrapped: the places before position u from the head page are
\* used, the last of them by an entry, and the cursor is at u.
Unwrapped(h, u) ==
    /\ head = <<h, 0>> /\ cur \in Cursor /\ u = Pos(h, cur)
    /\ u < RingSize
    /\ \A c \in Place : At(cells, c) = SEQ_EMPTY <=> Pos(h, c) >= u
    /\ \A c \in Place : Pos(h, c) = u - 1 => At(cells, c) \in Seqs
    /\ \A c \in Place : Pos(h, c) < u => c[1] >= h

\* After the last entry reading ends, and elsewhere it goes on with the next place.
LEMMA NextContexts ==
    ASSUME NEW h \in Page, NEW u \in Nat, Unwrapped(h, u), NEW d \in Place, Pos(h, d) < u
    PROVE  /\ Pos(h, d) + 1 = u => NextContext(d) = Done
           /\ Pos(h, d) + 1 < u =>
                 /\ NextContext(d) = After(d) /\ After(d) \in Place
                 /\ Pos(h, After(d)) = Pos(h, d) + 1
<1> DEFINE n == After(d)
<1>1. Pos(h, d) \in Nat /\ RingSize \in Nat /\ u < RingSize
    BY PosFacts, PlacesAreCursors, WalkPlaces DEF Unwrapped
<1>2. n \in Place /\ Pos(h, n) = Pos(h, d) + 1
    BY <1>1, AfterPlaces
<1>3. NextContext(d) = IF n = cur \/ SlotIsEmpty(n[1], n[2]) THEN Done ELSE n
    BY DEF NextContext
<1>4. SlotIsEmpty(n[1], n[2]) <=> Pos(h, n) >= u
    BY <1>2 DEF SlotIsEmpty, Unwrapped, At
<1>5. n = cur => Pos(h, n) = u
    BY DEF Unwrapped
<1> HIDE DEF n
<1>6. Pos(h, d) + 1 = u => NextContext(d) = Done
    BY <1>1, <1>2, <1>3, <1>4
<1>7. Pos(h, d) + 1 < u => NextContext(d) = n
    BY <1>1, <1>2, <1>3, <1>4, <1>5
<1>8. QED
    BY <1>2, <1>6, <1>7 DEF n

\* A context other than that of the head is not taken for it.
LEMMA ContextsMean ==
    ASSUME NEW h \in Page, NEW u \in Nat, Unwrapped(h, u)
    PROVE  /\ \A c \in Place : 0 < Pos(h, c) /\ Pos(h, c) < u => StartOf(c) = c
           /\ <<h, 0>> \in Place /\ Pos(h, <<h, 0>>) = 0
           /\ StartOf(<<h, 0>>) = <<h, 0>> /\ StartOf(<<0, 0>>) = <<h, 0>>
<1>1. h \in Nat /\ Turn(h, h) = 0 /\ Slots \in Nat
    BY RingFacts, SizeFacts
<1>2. <<h, 0>> \in Place /\ Pos(h, <<h, 0>>) = 0
    BY <1>1, SizeFacts DEF Pos, Place
<1>3. head = <<h, 0>>
    BY DEF Unwrapped
<1>4. ASSUME NEW c \in Place, 0 < Pos(h, c), Pos(h, c) < u PROVE c # <<0, 0>>
  <2>1. SUFFICES ASSUME c = <<0, 0>> PROVE FALSE
      OBVIOUS
  <2>2. c[1] >= h /\ c[1] = 0
      BY <1>4, <2>1 DEF Unwrapped
  <2>3. c = <<h, 0>>
      BY <1>1, <2>1, <2>2
  <2>4. QED
      BY <1>2, <1>4, <2>3
<1>5. QED
    BY <1>2, <1>3, <1>4 DEF StartOf

\* Pages behind each other, seen from a page before both.
LEMMA TurnsAdd ==
    ASSUME NEW h \in Page, NEW o \in Page, NEW p \in Page, Turn(h, o) + Turn(o, p) < Pages
    PROVE  Turn(h, p) = Turn(h, o) + Turn(o, p)
<1>1. /\ Turn(h, o) = IF o >= h THEN o - h ELSE o - h + Pages
      /\ Turn(o, p) = IF p >= o THEN p - o ELSE p - o + Pages
      /\ Turn(h, p) = IF p >= h THEN p - h ELSE p - h + Pages
    BY TurnFacts
<1>2. h \in Nat /\ o \in Nat /\ p \in Nat /\ h < Pages /\ o < Pages /\ p < Pages /\ Pages \in Nat
    BY SizeFacts DEF Page
<1>3. QED
    BY <1>1, <1>2

\* A read finds the first entry from where it starts on.
LEMMA ReadsFirst ==
    ASSUME Filled(cells), NEW h \in Page, NEW u \in Nat, Unwrapped(h, u),
           NEW c \in Place, Pos(h, c) < u
    PROVE  /\ Visited(c) # {} /\ Found(c) \in Place /\ At(cells, Found(c)) \in Seqs
           /\ Pos(h, c) <= Pos(h, Found(c)) /\ Pos(h, Found(c)) < u
           /\ \A e \in Entries(cells) : Pos(h, c) <= Pos(h, e) => Pos(h, Found(c)) <= Pos(h, e)
<1> DEFINE o == c[1]
           at == Found(c)
<1>1. o \in Page /\ c[2] \in Slot /\ 0 \in Slot
    BY PlacesAreCursors, SizeFacts
<1>2. \A d \in Place : /\ d \in Cursor /\ d[1] \in Page /\ d[2] \in Slot /\ d[2] \in Nat /\ d[2] < Slots
                       /\ d = <<d[1], d[2]>>
                       /\ Pos(h, d) \in Nat /\ Turn(h, d[1]) \in Nat /\ Turn(h, d[1]) < Pages
    BY PlacesAreCursors, PosFacts, TurnFacts, SizeFacts DEF Slot, Place
<1>3. \A d, e \in Place : Turn(h, d[1]) < Turn(h, e[1]) => Pos(h, d) < Pos(h, e)
    BY <1>2, PosOrder
<1>4. \A d, e \in Place : d[1] = e[1] => Pos(h, e) - Pos(h, d) = e[2] - d[2]
    BY <1>2, PosOrder
<1>5. \A k \in 0..(Pages - 1) : FirstSlot(c, k) \in Slot /\ (k # 0 => FirstSlot(c, k) = 0)
    BY <1>1 DEF FirstSlot
<1>6. \A e \in Entries(cells) : e \in Place /\ cells[e[1]][e[2]] \in Seqs
    BY DEF Entries, At
\* Where an entry is, the read looks.
<1>7. ASSUME NEW e \in Entries(cells), Pos(h, c) <= Pos(h, e)
      PROVE  LET k == Turn(o, e[1]) IN
             /\ k \in Visited(c) /\ Turn(h, e[1]) = Turn(h, o) + k
             /\ e[2] \in Readable(e[1], FirstSlot(c, k))
  <2> DEFINE k == Turn(o, e[1])
  <2>1. Turn(h, o) <= Turn(h, e[1])
      BY <1>2, <1>3, <1>6, <1>7
  <2>2. k = Turn(h, e[1]) - Turn(h, o)
      BY <1>1, <1>2, <1>6, <2>1, RingFacts
  <2>3. k \in 0..(Pages - 1) /\ PageBehind(o, k) = e[1]
      BY <1>1, <1>2, <1>6, PagesBehind
  <2> HIDE DEF k
  <2>4. k = 0 => e[2] >= c[2]
    <3>1. k = 0 => e[1] = o
        BY <1>1, <1>2, <1>6, <2>2, RingFacts
    <3>2. k = 0 => Pos(h, e) - Pos(h, c) = e[2] - c[2]
        BY <1>4, <1>6, <3>1
    <3>3. QED
        BY <1>2, <1>6, <1>7, <3>2
  <2>5. e[2] >= FirstSlot(c, k)
      BY <1>2, <1>6, <2>4 DEF FirstSlot
  <2>6. e[2] \in Readable(e[1], FirstSlot(c, k))
      BY <1>2, <1>5, <1>6, <2>3, <2>5, ReadableEntries
  <2>7. k \in Visited(c)
      BY <2>3, <2>6, VisitedPages
  <2>8. Turn(h, e[1]) = Turn(h, o) + k
      BY <1>2, <1>6, <2>2
  <2>9. QED
      BY <2>6, <2>7, <2>8 DEF k
\* The last entry is one of them.
<1>8. PICK e \in Entries(cells) : Pos(h, c) <= Pos(h, e)
  <2> DEFINE d == RingPlace(h, u)
  <2>1. u \in 1..RingSize
      BY <1>2, WalkPlaces DEF Unwrapped
  <2>2. d \in Place /\ Pos(h, d) = u - 1
      BY <2>1, WalkPlaces
  <2>3. d \in Entries(cells)
      BY <2>2 DEF Unwrapped, Entries
  <2>4. Pos(h, c) <= Pos(h, d)
      BY <1>2, <2>2
  <2>5. QED
      BY <2>3, <2>4
<1>9. Visited(c) # {}
    BY <1>7, <1>8
<1> DEFINE k == Min(Visited(c))
           p == PageBehind(o, k)
           j == Min(Readable(p, FirstSlot(c, k)))
<1>10. /\ k \in Visited(c) /\ (\A l \in Visited(c) : k <= l) /\ at = <<p, j>>
       /\ k \in 0..(Pages - 1) /\ Readable(p, FirstSlot(c, k)) # {}
    BY <1>9, VisitedPages
<1>11. p \in Page /\ Turn(o, p) = k
    BY <1>1, <1>10, PagesBehind
<1>12. Turn(h, p) = Turn(h, o) + k
  <2>1. Turn(h, e[1]) = Turn(h, o) + Turn(o, e[1]) /\ k <= Turn(o, e[1])
      BY <1>7, <1>8, <1>10
  <2> HIDE DEF k, p
  <2>2. Turn(h, o) + k < Pages
    <3>1. Turn(h, e[1]) \in Nat /\ Turn(h, e[1]) < Pages /\ Turn(h, o) \in Nat /\ k \in Nat
          /\ Turn(o, e[1]) \in Nat
        BY <1>1, <1>2, <1>6, <1>10, TurnFacts
    <3>2. QED
        BY <2>1, <3>1, SizeFacts
  <2>3. QED
      BY <1>1, <1>11, <2>2, TurnsAdd
<1>13. at \in Place /\ At(cells, at) \in Seqs
    BY <1>9, FoundPlaces DEF SlotValid, At
<1>14. at[1] = p /\ at[2] = j
    BY <1>10
<1>15. j \in Readable(p, FirstSlot(c, k)) /\ \A l \in Readable(p, FirstSlot(c, k)) : j <= l
  <2>1. Readable(p, FirstSlot(c, k)) \subseteq Nat
      BY SizeFacts DEF Readable
  <2>2. QED
      BY <1>10, <2>1, LeastOf
<1>16. j \in Slot /\ j >= FirstSlot(c, k)
    BY <1>15 DEF Readable
<1> HIDE DEF k, p, j, at
<1>17. Pos(h, at) < u
  <2>1. At(cells, at) # SEQ_EMPTY
      BY <1>13, SizeFacts
  <2>2. ~(Pos(h, at) >= u)
      BY <1>13, <2>1 DEF Unwrapped
  <2>3. QED
      BY <1>2, <1>13, <2>2
<1>18. Pos(h, c) <= Pos(h, at)
  <2>1. CASE k = 0
    <3>1. at[1] = c[1]
        BY <1>1, <1>2, <1>11, <1>12, <1>14, <2>1, RingFacts
    <3>2. at[2] >= c[2]
        BY <1>14, <1>16, <2>1 DEF FirstSlot
    <3>3. Pos(h, at) - Pos(h, c) = at[2] - c[2]
        BY <1>4, <1>13, <3>1
    <3>4. QED
        BY <1>2, <1>13, <3>2, <3>3
  <2>2. CASE k # 0
    <3>1. Turn(h, c[1]) < Turn(h, at[1])
        BY <1>2, <1>10, <1>12, <1>14, <2>2, SizeFacts
    <3>2. QED
        BY <1>2, <1>3, <1>13, <3>1
  <2>3. QED
      BY <2>1, <2>2
<1>19. ASSUME NEW d \in Entries(cells), Pos(h, c) <= Pos(h, d) PROVE Pos(h, at) <= Pos(h, d)
  <2> DEFINE l == Turn(o, d[1])
  <2>1. /\ l \in Visited(c) /\ Turn(h, d[1]) = Turn(h, o) + l
        /\ d[2] \in Readable(d[1], FirstSlot(c, l))
      BY <1>7, <1>19
  <2>2. k <= l /\ k \in Nat /\ l \in Nat
      BY <1>1, <1>2, <1>6, <1>10, <2>1, TurnFacts, SizeFacts
  <2> HIDE DEF l
  <2>3. CASE k < l
    <3>1. Turn(h, at[1]) < Turn(h, d[1])
        BY <1>2, <1>12, <1>14, <2>1, <2>2, <2>3
    <3>2. QED
        BY <1>2, <1>3, <1>6, <1>13, <3>1
  <2>4. CASE k = l
    <3>1. d[1] = at[1]
        BY <1>2, <1>6, <1>11, <1>12, <1>14, <2>1, <2>4, RingFacts
    <3>2. at[2] <= d[2]
        BY <1>14, <1>15, <2>1, <2>4, <3>1
    <3>3. Pos(h, d) - Pos(h, at) = d[2] - at[2]
        BY <1>4, <1>6, <1>13, <3>1
    <3>4. QED
        BY <1>2, <1>6, <1>13, <3>2, <3>3
  <2>5. QED
      BY <2>2, <2>3, <2>4
<1>20. QED
    BY <1>9, <1>13, <1>17, <1>18, <1>19 DEF at

\* The contexts of reads.
Context == (Page \X Slot) \cup {Done}

\* One read, with what later ones return.
NothingAt(c) == c = Done \/ Visited(StartOf(c)) = {}
ReadAt(c, rest) ==
    IF NothingAt(c) THEN << >>
    ELSE LET at == Found(StartOf(c)) IN <<cells[at[1]][at[2]]>> \o rest[NextContext(at)]

\* read[b] returns what b[1] reads from context b[2] on return.
Reads(n, read) ==
    read = [b \in (0..n) \X Context |->
              IF b[1] = 0 \/ b[2] = Done \/ Visited(StartOf(b[2])) = {} THEN << >>
              ELSE LET at == Found(StartOf(b[2])) IN
                   <<cells[at[1]][at[2]]>> \o read[<<b[1] - 1, NextContext(at)>>]]

\* The next context is one of them.
LEMMA NextIsContext ==
    ASSUME head \in Place, NEW c \in Context, ~NothingAt(c)
    PROVE  /\ Found(StartOf(c)) \in Place /\ At(cells, Found(StartOf(c))) \in Seqs
           /\ NextContext(Found(StartOf(c))) \in Context
<1> DEFINE d == StartOf(c)
<1>1. d \in Place /\ Visited(d) # {}
    BY DEF NothingAt, StartOf, Context, Place
<1> HIDE DEF d
<1>2. Found(d) \in Place /\ At(cells, Found(d)) \in Seqs
    BY <1>1, FoundPlaces DEF SlotValid, At
<1>3. After(Found(d)) \in Place
    BY <1>2, SizeFacts, AfterPlaces
<1>4. NextContext(Found(d)) \in Context
    BY <1>3 DEF NextContext, Context, Place
<1>5. QED
    BY <1>2, <1>4 DEF d

\* The recursion of Dump has a solution.
LEMMA ReadsExist ==
    ASSUME head \in Place, NEW n \in Nat
    PROVE  \E read : Reads(n, read)
<1> DEFINE Rounds(k, F) == /\ F[0] = [c \in Context |-> << >>]
                           /\ \A m \in 1..k : F[m] = [c \in Context |-> ReadAt(c, F[m - 1])]
           T == {k \in Nat : \E F : Rounds(k, F)}
<1>1. 0 \in T
  <2> DEFINE F == [m \in {0} |-> [c \in Context |-> << >>]]
  <2>1. F[0] = [c \in Context |-> << >>]
      OBVIOUS
  <2> HIDE DEF F
  <2>2. \A m \in 1..0 : FALSE
      OBVIOUS
  <2>3. Rounds(0, F)
      BY <2>1, <2>2
  <2>4. QED
      BY <2>3
<1>2. ASSUME NEW k \in Nat, k \in T PROVE k + 1 \in T
  <2>1. PICK F : Rounds(k, F)
      BY <1>2
  <2> DEFINE last == [c \in Context |-> ReadAt(c, F[k])]
             G == [m \in 0..(k + 1) |-> IF m = k + 1 THEN last ELSE F[m]]
  <2> HIDE DEF last
  <2>2. \A m \in 0..(k + 1) : G[m] = IF m = k + 1 THEN last ELSE F[m]
      OBVIOUS
  <2> HIDE DEF G
  <2>3. G[0] = F[0] /\ G[k] = F[k] /\ G[k + 1] = last
      BY <2>2
  <2>4. ASSUME NEW m \in 1..(k + 1) PROVE G[m] = [c \in Context |-> ReadAt(c, G[m - 1])]
    <3>1. CASE m = k + 1
      <4>1. m - 1 = k
          BY <3>1
      <4>2. QED
          BY <2>3, <3>1, <4>1, Zenon DEF last
    <3>2. CASE m # k + 1
      <4>1. m \in 1..k /\ G[m] = F[m] /\ G[m - 1] = F[m - 1]
          BY <2>2, <3>2
      <4>2. F[m] = [c \in Context |-> ReadAt(c, F[m - 1])]
          BY <2>1, <4>1
      <4>3. QED
          BY <4>1, <4>2, Zenon
    <3>3. QED
        BY <3>1, <3>2
  <2>5. Rounds(k + 1, G)
      BY <2>1, <2>3, <2>4
  <2>6. QED
      BY <2>5
<1> HIDE DEF T
<1>3. n \in T
    BY <1>1, <1>2, AllNaturals
<1>4. PICK F : Rounds(n, F)
    BY <1>3 DEF T
<1> DEFINE read == [b \in (0..n) \X Context |-> F[b[1]][b[2]]]
           step(b) == IF b[1] = 0 \/ b[2] = Done \/ Visited(StartOf(b[2])) = {} THEN << >>
                      ELSE LET at == Found(StartOf(b[2])) IN
                           <<cells[at[1]][at[2]]>> \o read[<<b[1] - 1, NextContext(at)>>]
<1>5. \A m \in 0..n, c \in Context : read[<<m, c>>] = F[m][c]
    OBVIOUS
<1>6. read = [b \in (0..n) \X Context |-> read[b]]
    OBVIOUS
<1> HIDE DEF read
<1>7. ASSUME NEW b \in (0..n) \X Context PROVE read[b] = step(b)
  <2> DEFINE m == b[1]
             c == b[2]
             at == Found(StartOf(c))
  <2>1. m \in 0..n /\ c \in Context /\ b = <<m, c>>
      OBVIOUS
  <2> HIDE DEF m, c
  <2>2. read[b] = F[m][c]
      BY <1>5, <2>1
  <2>3. CASE m = 0
    <3>1. F[m][c] = << >>
        BY <1>4, <2>1, <2>3
    <3>2. QED
        BY <2>2, <2>3, <3>1 DEF m
  <2>4. CASE m # 0
    <3>1. m \in 1..n /\ m - 1 \in 0..n
        BY <2>1, <2>4
    <3>2. F[m] = [d \in Context |-> ReadAt(d, F[m - 1])]
        BY <1>4, <3>1
    <3>3. F[m][c] = ReadAt(c, F[m - 1])
        BY <2>1, <3>2
    <3>4. CASE NothingAt(c)
      <4>1. step(b) = << >>
          BY <3>4, Zenon DEF NothingAt, c
      <4>2. F[m][c] = << >>
          BY <3>3, <3>4 DEF ReadAt
      <4>3. QED
          BY <2>2, <4>1, <4>2
    <3>5. CASE ~NothingAt(c)
      <4>1. step(b) = <<cells[at[1]][at[2]]>> \o read[<<m - 1, NextContext(at)>>]
          BY <2>4, <3>5, Zenon DEF NothingAt, c, m
      <4>2. F[m][c] = <<cells[at[1]][at[2]]>> \o F[m - 1][NextContext(at)]
          BY <3>3, <3>5, Zenon DEF ReadAt
      <4>3. NextContext(at) \in Context
          BY <2>1, <3>5, NextIsContext
      <4> HIDE DEF at
      <4>4. read[<<m - 1, NextContext(at)>>] = F[m - 1][NextContext(at)]
          BY <1>5, <3>1, <4>3
      <4> HIDE DEF step
      <4>5. QED
          BY <2>2, <4>1, <4>2, <4>4
    <3>6. QED
        BY <3>4, <3>5
  <2>5. QED
      BY <2>3, <2>4
<1>8. read = [b \in (0..n) \X Context |-> step(b)]
    BY <1>6, <1>7, Zenon
<1>9. Reads(n, read)
    BY <1>8, Zenon DEF Reads
<1>10. QED
    BY <1>9

\* Repeated reads return the entries from the place where they start on.
GoesOn(read, g, h, u) ==
    \A c \in Place :
        Pos(h, c) < u /\ StartOf(c) = c =>
            /\ read[<<RingSize, c>>] \in Seq(Seqs)
            /\ g[Pos(h, c)] \o read[<<RingSize, c>>] = g[RingSize]

LEMMA ReadsRest ==
    ASSUME Filled(cells), NEW h \in Page, NEW u \in Nat, Unwrapped(h, u),
           NEW read, Reads(RingSize, read), NEW g, Collects(Walk(cells, h), RingSize, g)
    PROVE  GoesOn(read, g, h, u)
<1> DEFINE r == Walk(cells, h)
           Goes(n, c) == /\ read[<<n, c>>] \in Seq(Seqs)
                         /\ g[Pos(h, c)] \o read[<<n, c>>] = g[RingSize]
           T == {n \in Nat : n <= RingSize =>
                    \A c \in Place : Pos(h, c) < u /\ u - Pos(h, c) <= n /\ StartOf(c) = c => Goes(n, c)}
<1>1. RingSize \in Nat /\ u < RingSize /\ Pages * Slots = RingSize
    BY WalkPlaces DEF Unwrapped, RingSize
<1>2. head \in Place
  <2>1. <<h, 0>> \in Place /\ head = <<h, 0>>
      BY ContextsMean DEF Unwrapped
  <2>2. QED
      BY <2>1
<1>3. \A c \in Place : Pos(h, c) \in Nat
    BY PosFacts, PlacesAreCursors
<1>4. \A k \in 1..RingSize :
         RingPlace(h, k) \in Place /\ Pos(h, RingPlace(h, k)) = k - 1 /\ r[k] = At(cells, RingPlace(h, k))
    BY WalkPlaces
<1>5. \A c \in Place, k \in 1..RingSize : Pos(h, c) = k - 1 => RingPlace(h, k) = c
    BY WalkPlaces
<1> HIDE DEF r
<1>6. Collects(r, RingSize, g) /\ \A k \in 0..RingSize : g[k] \in Seq(Seqs)
    BY DEF Collects, r
<1> HIDE DEF Goes
<1>7. 0 \in T
  <2>1. \A c \in Place : Pos(h, c) < u => ~(u - Pos(h, c) <= 0)
      BY <1>3
  <2>2. QED
      BY <2>1
<1>8. ASSUME NEW n \in Nat, n \in T PROVE n + 1 \in T
  <2>1. SUFFICES ASSUME n + 1 <= RingSize, NEW c \in Place,
                        Pos(h, c) < u, u - Pos(h, c) <= n + 1, StartOf(c) = c
                 PROVE  Goes(n + 1, c)
      OBVIOUS
  <2> DEFINE at == Found(c)
             x == Pos(h, c)
             y == Pos(h, at)
             e == At(cells, at)
             d == NextContext(at)
             rest == read[<<n, d>>]
  <2>2. /\ Visited(c) # {} /\ at \in Place /\ e \in Seqs /\ x <= y /\ y < u
        /\ \A f \in Entries(cells) : x <= Pos(h, f) => y <= Pos(h, f)
      BY <2>1, ReadsFirst
  <2>3. x \in Nat /\ y \in Nat
      BY <1>3, <2>2
  <2>4. c \in Context /\ c # Done /\ ~NothingAt(c)
    <3>1. c \in Context
        BY DEF Context, Place
    <3>2. c # Done
      <4>1. c[1] \in Page
          BY DEF Place
      <4>2. Pages \notin Page
          BY SizeFacts DEF Page
      <4>3. QED
          BY <4>1, <4>2 DEF Done
    <3>3. QED
        BY <2>1, <2>2, <3>1, <3>2 DEF NothingAt
  <2>5. d \in Context
      BY <1>2, <2>1, <2>4, NextIsContext
  <2>6. read[<<n + 1, c>>] = <<e>> \o rest
    <3> DEFINE b == <<n + 1, c>>
    <3>1. b \in (0..RingSize) \X Context /\ b[1] = n + 1 /\ b[2] = c /\ n + 1 # 0 /\ (n + 1) - 1 = n
        BY <1>1, <2>1, <2>4
    <3>2. read[b] = IF b[1] = 0 \/ b[2] = Done \/ Visited(StartOf(b[2])) = {} THEN << >>
                    ELSE LET a == Found(StartOf(b[2])) IN
                         <<cells[a[1]][a[2]]>> \o read[<<b[1] - 1, NextContext(a)>>]
        BY <3>1 DEF Reads
    <3> HIDE DEF b
    <3>3. read[b] = <<cells[at[1]][at[2]]>> \o read[<<n, NextContext(at)>>]
        BY <2>1, <2>2, <2>4, <3>1, <3>2
    <3>4. QED
        BY <3>3 DEF b, At
  <2>7. /\ y = u - 1 => d = Done
        /\ y + 1 < u => d = After(at) /\ d \in Place /\ Pos(h, d) = y + 1
      BY <2>2, <2>3, NextContexts
  <2> HIDE DEF at, x, d
  <2>8. x \in 0..RingSize /\ y \in 0..RingSize /\ y + 1 \in 1..RingSize /\ (y + 1) - 1 = y
      BY <1>1, <2>2, <2>3
  <2>9. r[y + 1] = e
      BY <1>4, <1>5, <2>2, <2>8
  <2> HIDE DEF y, e
  <2>10. g[y] = g[x]
    <3>1. Quiet(r, x, y)
      <4>1. ASSUME NEW k \in (x + 1)..y PROVE r[k] \notin Seqs
        <5>1. k \in 1..RingSize /\ x <= k - 1 /\ k - 1 < y
            BY <1>1, <2>3, <2>8
        <5>2. RingPlace(h, k) \notin Entries(cells)
            BY <1>4, <2>2, <2>3, <5>1
        <5>3. QED
            BY <1>4, <5>1, <5>2 DEF Entries
      <4>2. QED
          BY <4>1 DEF Quiet
    <3>2. y <= RingSize
        BY <2>8
    <3>3. QED
        BY <1>1, <1>6, <2>2, <2>3, <3>1, <3>2, FewEntries
  <2>11. g[y + 1] = Append(g[y], e)
      BY <1>6, <2>2, <2>8, <2>9 DEF Collects
  <2>12. g[y] \in Seq(Seqs) /\ <<e>> \in Seq(Seqs)
      BY <1>6, <2>2, <2>8
  <2>13. g[y + 1] = g[y] \o <<e>>
      BY <2>2, <2>11, <2>12, AppendIsConcat
  <2>14. rest \in Seq(Seqs) /\ g[y + 1] \o rest = g[RingSize]
    <3>1. CASE y = u - 1
      <4>1. rest = << >>
        <5> DEFINE b == <<n, d>>
        <5>1. b \in (0..RingSize) \X Context /\ b[2] = Done
            BY <1>1, <2>1, <2>5, <2>7, <3>1
        <5>2. read[b] = IF b[1] = 0 \/ b[2] = Done \/ Visited(StartOf(b[2])) = {} THEN << >>
                        ELSE LET a == Found(StartOf(b[2])) IN
                             <<cells[a[1]][a[2]]>> \o read[<<b[1] - 1, NextContext(a)>>]
            BY <5>1 DEF Reads
        <5> HIDE DEF b
        <5>3. read[b] = << >>
            BY <5>1, <5>2
        <5>4. QED
            BY <5>3 DEF b
      <4>2. Quiet(r, u, RingSize)
        <5>1. ASSUME NEW k \in (u + 1)..RingSize PROVE r[k] \notin Seqs
          <6>1. k \in 1..RingSize /\ k - 1 >= u
              BY <1>1
          <6>2. At(cells, RingPlace(h, k)) = SEQ_EMPTY
              BY <1>4, <6>1 DEF Unwrapped
          <6>3. QED
              BY <1>4, <6>1, <6>2, SizeFacts
        <5>2. QED
            BY <5>1 DEF Quiet
      <4>3. g[RingSize] = g[u]
        <5>1. u <= RingSize /\ RingSize <= RingSize
            BY <1>1
        <5>2. QED
            BY <1>1, <1>6, <4>2, <5>1, FewEntries
      <4>4. y + 1 = u /\ u \in 0..RingSize
          BY <1>1, <2>3, <3>1
      <4>5. g[u] \in Seq(Seqs)
          BY <1>6, <4>4
      <4>6. g[u] \o << >> = g[u] /\ << >> \in Seq(Seqs)
          BY <4>5, ConcatEmptySeq
      <4>7. QED
          BY <4>1, <4>3, <4>4, <4>6
    <3>2. CASE y # u - 1
      <4>1. y + 1 < u
          BY <2>2, <2>3, <3>2
      <4>2. d \in Place /\ Pos(h, d) = y + 1
          BY <2>7, <4>1
      <4>3. 0 < Pos(h, d) /\ Pos(h, d) < u /\ u - Pos(h, d) <= n /\ n <= RingSize
          BY <1>1, <2>1, <2>2, <2>3, <4>1, <4>2 DEF x
      <4>4. StartOf(d) = d
          BY <4>2, <4>3, ContextsMean
      <4>5. Goes(n, d)
          BY <1>8, <4>2, <4>3, <4>4
      <4>6. QED
          BY <4>2, <4>5 DEF Goes
    <3>3. QED
        BY <3>1, <3>2
  <2> HIDE DEF rest
  <2>15. <<e>> \o rest \in Seq(Seqs)
      BY <2>12, <2>14, ConcatProperties
  <2>16. (g[y] \o <<e>>) \o rest = g[y] \o (<<e>> \o rest)
    <3> DEFINE a == g[y]
               b == <<e>>
    <3>1. a \in Seq(Seqs) /\ b \in Seq(Seqs) /\ rest \in Seq(Seqs)
        BY <2>12, <2>14
    <3> HIDE DEF a, b
    <3>2. (a \o b) \o rest = a \o (b \o rest)
        BY <3>1, ConcatAssociative
    <3>3. QED
        BY <3>2 DEF a, b
  <2>17. g[x] \o (<<e>> \o rest) = g[RingSize]
      BY <2>10, <2>13, <2>14, <2>16
  <2>18. QED
      BY <2>6, <2>15, <2>17 DEF x, Goes
<1> HIDE DEF T
<1>9. RingSize \in T
    BY <1>1, <1>7, <1>8, AllNaturals
<1>10. \A c \in Place : Pos(h, c) < u => u - Pos(h, c) <= RingSize
    BY <1>1, <1>3
<1>11. QED
  <2>1. \A c \in Place : Pos(h, c) < u /\ u - Pos(h, c) <= RingSize /\ StartOf(c) = c => Goes(RingSize, c)
    <3>1. RingSize <= RingSize
        BY <1>1
    <3>2. QED
        BY <1>9, <3>1 DEF T
  <2>2. QED
      BY <1>10, <2>1 DEF Goes, GoesOn

\* The walk of a log that has not wrapped.
LEMMA NotWrappedMeans ==
    ASSUME NEW h \in Page, head = <<h, 0>>, cur \in Cursor, NotWrapped
    PROVE  Unwrapped(h, Pos(h, cur))
<1> DEFINE u == Pos(h, cur)
           ring == Walk(cells, h)
           last == <<Pages - 1, Slots - 1>>
<1>1. /\ RingSize \in Nat /\ Len(ring) = RingSize /\ u \in Nat
      /\ \A c \in Place : Pos(h, c) \in Nat /\ Pos(h, c) < RingSize
  <2>1. \A c \in Place : c \in Cursor /\ c[2] < Slots
      BY PlacesAreCursors, PosFacts
  <2>2. QED
      BY <2>1, WalkPlaces, PosFacts DEF RingSize
<1>2. RingFrom(h) = ring
    BY DEF RingFrom, Walk, RingPlace, RingSize, At
<1>3. ((cur[1] - head[1]) % Pages) * Slots + cur[2] = u
    BY DEF Pos, Turn
<1>4. \A c \in Place, k \in 1..RingSize : Pos(h, c) = k - 1 => ring[k] = At(cells, c)
    BY WalkPlaces
<1> HIDE DEF u, ring
<1>5. /\ cells[Pages - 1][Slots - 1] = SEQ_EMPTY
      /\ \A k \in 1..RingSize : ring[k] = SEQ_EMPTY <=> k > u
      /\ u > 0 => ring[u] \in Seqs
  <2>1. head[1] = h
      OBVIOUS
  <2>2. QED
      BY <1>1, <1>2, <1>3, <2>1 DEF NotWrapped, IsEntry
<1>6. last \in Place /\ last[1] = Pages - 1 /\ At(cells, last) = SEQ_EMPTY
    BY <1>5, SizeFacts DEF Place, At, Page, Slot
<1> HIDE DEF last
<1>7. ASSUME NEW c \in Place PROVE At(cells, c) = SEQ_EMPTY <=> Pos(h, c) >= u
  <2>1. PICK k \in 1..RingSize : k = Pos(h, c) + 1
      BY <1>1
  <2>2. ring[k] = At(cells, c)
      BY <1>1, <1>4, <2>1
  <2>3. k > u <=> Pos(h, c) >= u
      BY <1>1, <2>1
  <2>4. QED
      BY <1>5, <2>2, <2>3
<1>8. ASSUME NEW c \in Place, Pos(h, c) = u - 1 PROVE At(cells, c) \in Seqs
  <2>1. u > 0 /\ u \in 1..RingSize
      BY <1>1, <1>8
  <2>2. QED
      BY <1>4, <1>5, <1>8, <2>1
<1>9. u <= Pos(h, last)
    BY <1>1, <1>6, <1>7
<1>10. ASSUME NEW c \in Place, Pos(h, c) < u PROVE c[1] >= h
  <2>1. SUFFICES ASSUME c[1] < h PROVE FALSE
    <3>1. c[1] \in Nat /\ h \in Nat
        BY PlacesAreCursors, SizeFacts
    <3>2. QED
        BY <3>1
  <2>2. c[1] \in Page /\ last[1] \in Page /\ c[1] \in Nat /\ h \in Nat /\ h < Pages
      BY <1>6, PlacesAreCursors, SizeFacts DEF Page
  <2>3. Turn(h, last[1]) < Turn(h, c[1])
      BY <1>6, <2>1, <2>2, TurnFacts, SizeFacts
  <2>4. last \in Cursor /\ c \in Cursor /\ last[2] < Slots
      BY <1>6, PlacesAreCursors, PosFacts
  <2>5. Pos(h, last) < Pos(h, c)
      BY <2>3, <2>4, PosOrder
  <2>6. QED
      BY <1>1, <1>6, <1>9, <1>10, <2>5
<1>11. u < RingSize
    BY <1>1, <1>6, <1>9
<1>12. QED
    BY <1>7, <1>8, <1>10, <1>11 DEF Unwrapped, u

\* The head cursor is at the beginning of a page.
PageBegins == head[2] = 0

LEMMA HeadBeginsPage == Spec => []PageBegins
<1>1. Init => PageBegins
    BY DEF Init, PageBegins
<1>2. PageBegins /\ [Next]_vars => PageBegins'
    BY DEF PageBegins, Next, vars, cursors, Boot, BeginWrite, BeginRotate, RotateDone, CallRefused,
           ProgramFirst, ProgramRest, ProgramFails, BeginWipe, WipePage, WipeFails, WipeDone,
           PowerFail
<1>3. QED
    BY <1>1, <1>2, PTL DEF Spec

\* Repeated reads from the context zero return what is stored.
LEMMA ReadsStored ==
    ASSUME IInv, pc = "ready", NEW h \in Page, head = <<h, 0>>, NotWrapped,
           NEW read, Reads(RingSize, read)
    PROVE  read[<<RingSize, <<0, 0>>>>] = Stored
<1> DEFINE u == Pos(h, cur)
           z == <<0, 0>>
           o == <<h, 0>>
<1>1. /\ Filled(cells) /\ Begun(cells) /\ cur \in Cursor /\ head[1] = h
      /\ Ordered(cells, h)
    BY InvFacts
<1>2. Unwrapped(h, u) /\ u \in Nat
    BY <1>1, NotWrappedMeans, PosFacts
<1> HIDE DEF u
<1>3. PICK g : Collects(Walk(cells, h), RingSize, g)
    BY LogCollected
<1>4. Stored = g[RingSize]
    BY <1>1, <1>3, StoredFromHead, LogCollected
<1>5. RingSize \in Nat /\ RingSize > 0
  <2>1. Pages * Slots >= 1
      BY SizeFacts, SMT
  <2>2. QED
      BY <2>1, SizeFacts DEF RingSize
<1>6. z \in Place /\ o \in Place /\ Pos(h, o) = 0 /\ StartOf(o) = o /\ StartOf(z) = o
    BY <1>2, ContextsMean, SizeFacts DEF Place
<1> HIDE DEF z, o
<1>7. ASSUME NEW c \in Place, StartOf(c) = o
      PROVE  read[<<RingSize, c>>] =
                IF Visited(o) = {} THEN << >>
                ELSE <<cells[Found(o)[1]][Found(o)[2]]>> \o read[<<RingSize - 1, NextContext(Found(o))>>]
  <2> DEFINE b == <<RingSize, c>>
  <2>1. c \in Context /\ c # Done
    <3>1. c[1] \in Page /\ Pages \notin Page
        BY PlacesAreCursors, SizeFacts DEF Page
    <3>2. QED
        BY <3>1 DEF Context, Place, Done
  <2>2. b \in (0..RingSize) \X Context /\ b[1] = RingSize /\ b[2] = c /\ RingSize # 0
      BY <1>5, <2>1
  <2>3. read[b] = IF b[1] = 0 \/ b[2] = Done \/ Visited(StartOf(b[2])) = {} THEN << >>
                  ELSE LET a == Found(StartOf(b[2])) IN
                       <<cells[a[1]][a[2]]>> \o read[<<b[1] - 1, NextContext(a)>>]
      BY <2>2 DEF Reads
  <2> HIDE DEF b
  <2>4. QED
      BY <1>7, <2>1, <2>2, <2>3, Zenon DEF b
<1>8. CASE u = 0
  <2>1. \A c \in Place : cells[c[1]][c[2]] = SEQ_EMPTY
    <3>1. \A c \in Place : Pos(h, c) \in Nat
        BY PosFacts, PlacesAreCursors
    <3>2. QED
        BY <1>2, <1>8, <3>1 DEF Unwrapped, At
  <2>2. Entries(cells) = {}
      BY <2>1, SizeFacts DEF Entries, At
  <2>3. Visited(o) = {}
    <3>1. SUFFICES ASSUME Visited(o) # {} PROVE FALSE
        OBVIOUS
    <3>2. Found(o) \in Place /\ SlotValid(Found(o)[1], Found(o)[2])
        BY <1>6, <3>1, FoundPlaces
    <3>3. QED
        BY <2>1, <3>2, SizeFacts DEF SlotValid
  <2>4. read[<<RingSize, z>>] = << >>
      BY <1>6, <1>7, <2>3
  <2>5. Stored = << >>
      BY <1>1, <2>2, NoLog, StoredFromHead
  <2>6. QED
      BY <2>4, <2>5 DEF z
<1>9. CASE u # 0
  <2>1. 0 < u
      BY <1>2, <1>9
  <2>2. read[<<RingSize, z>>] = read[<<RingSize, o>>]
      BY <1>6, <1>7, Zenon
  <2>3. /\ read[<<RingSize, o>>] \in Seq(Seqs)
        /\ g[Pos(h, o)] \o read[<<RingSize, o>>] = g[RingSize]
    <3>1. Pos(h, o) < u
        BY <1>6, <2>1
    <3>2. GoesOn(read, g, h, u)
        BY <1>1, <1>2, <1>3, ReadsRest
    <3>3. QED
        BY <1>6, <3>1, <3>2 DEF GoesOn
  <2>4. g[Pos(h, o)] = << >>
      BY <1>3, <1>6 DEF Collects
  <2>5. << >> \o read[<<RingSize, o>>] = read[<<RingSize, o>>]
      BY <2>3, ConcatEmptySeq
  <2>6. QED
      BY <1>4, <2>2, <2>3, <2>4, <2>5 DEF z
<1>10. QED
    BY <1>8, <1>9

\* DumpExact: from a log that has not wrapped, repeated reads return every entry once,
\* the oldest first, and pass over torn slots (BSP_LogFlash_Read, BSP_LogFlash_Dump).
THEOREM DumpIsExact == ASSUME Survivable PROVE Spec => []DumpExact
<1>1. ASSUME IInv, PageBegins PROVE DumpExact
  <2>1. SUFFICES ASSUME pc = "ready", NotWrapped PROVE Dump = Stored
      BY DEF DumpExact
  <2> DEFINE h == head[1]
  <2>2. h \in Page /\ head = <<h, 0>>
      BY <1>1, InvFacts DEF PageBegins
  <2>3. head \in Place
      BY <2>2, SizeFacts DEF Place
  <2> HIDE DEF h
  <2>4. RingSize \in Nat
      BY SizeFacts DEF RingSize
  <2> DEFINE read == CHOOSE f : Reads(RingSize, f)
  <2>5. Reads(RingSize, read)
      BY <2>3, <2>4, ReadsExist, Zenon
  <2>6. Dump = read[<<RingSize, <<0, 0>>>>]
      BY Zenon DEF Dump, Reads, Context, RingSize
  <2> HIDE DEF read
  <2>7. QED
      BY <1>1, <2>1, <2>2, <2>5, <2>6, ReadsStored
<1>2. QED
    BY <1>1, Invariance, HeadBeginsPage, PTL
=============================================================================
