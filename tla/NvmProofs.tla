------------------------------ MODULE NvmProofs ------------------------------
(***************************************************************************)
(* Proofs about Nvm, for a caller that waits for the external chip and for *)
(* a store of several pages that is not written beyond its last one.  The  *)
(* records in the flash are in the order in which they were written: a     *)
(* record has nothing erased before it, the place of the next one lies     *)
(* behind all of them, and the last one is the newest.                     *)
(***************************************************************************)
EXTENDS Nvm, Lemmas

\* The places of records in n pages, and what is at one of them.
Place(n) == (0..(n - 1)) \X Slot
At(f, c) == f[c[1]][c[2]]

Cell == Record \cup {Erased, Torn, Corrupt}
Flash(n) == [0..(n - 1) -> [Slot -> Cell]]

\* Place c comes after place d.
Later(c, d) == c[1] > d[1] \/ (c[1] = d[1] /\ c[2] > d[2])

\* The places of complete records.
Held(f, n) == {c \in Place(n) : At(f, c) \in Record}

\* Nothing is erased before a complete record,
RecordsInOrder(f, n) ==
    \A c \in Held(f, n), d \in Place(n) : Later(c, d) => At(f, d) # Erased

\* nor in the pages before one in use.
PagesInOrder(f, n) ==
    \A c, d \in Place(n) : c[2] = 0 /\ At(f, c) # Erased /\ d[1] < c[1] => At(f, d) # Erased

\* The record at place c is v and all others come before it.
NewestAt(f, n, c, v) ==
    /\ c \in Held(f, n) /\ At(f, c) = v
    /\ \A d \in Held(f, n) : d # c => Later(c, d)

\* v is the newest record, if there is one at all.
Newest(f, n, v) == Held(f, n) # {} => \E c \in Place(n) : NewestAt(f, n, c, v)

\* Place t is behind all records, and all before it is in use.
Beyond(f, n, t) ==
    /\ \A d \in Held(f, n) : Later(t, d)
    /\ \A d \in Place(n) : Later(t, d) => At(f, d) # Erased

\* The state of the flash.
InOrder(f, n, v) == RecordsInOrder(f, n) /\ PagesInOrder(f, n) /\ Newest(f, n, v)

\* What an operation may be done to: a store of one page is erased, a record goes
\* behind all others.
Safe(f, n, job) ==
    /\ job \in {"erase", "program", "rest", "part"} \X Place(n) \X Record
    /\ IF job[1] = "erase" THEN n = 1 /\ job[2] = <<0, 0>> ELSE Beyond(f, n, job[2])

\* An operation that has not been done.
Pending(f, n, job) ==
    /\ Safe(f, n, job)
    /\ job[1] = "program" => At(f, job[2]) = Erased
    /\ job[1] = "rest" => At(f, job[2]) = Torn

\* An operation that has been done.
Done(f, n, job) ==
    CASE job[1] = "erase" -> n = 1 /\ job[2] = <<0, 0>> /\ f[0] = ErasedPage
      [] job[1] = "program" -> Beyond(f, n, job[2]) /\ At(f, job[2]) = Torn
      [] job[1] = "rest" -> NewestAt(f, n, job[2], job[3])

\* Where a call is, and what the chip does for it.
CallInv ==
    pc # "idle" =>
        /\ up = "ready" /\ ~returned /\ storing \in Record
        /\ phase # "wait" => busy = NoJob
        /\ phase = "wait" => busy \in {Job, NoJob}
        /\ phase = "command" => wel
        /\ IF phase = "wait" /\ busy = NoJob
           THEN Done(cells, pages, Job) ELSE Pending(cells, pages, Job)

\* What is left of a call that has ended.
RestInv ==
    pc = "idle" => storing = IF busy = NoJob THEN None ELSE busy[3]

\* Places are used one after the other, and nothing behind t is in use.
Packed(f, n) == \A c, d \in Place(n) : Later(c, d) /\ At(f, d) = Erased => At(f, c) = Erased
Front(f, n, t) == \A d \in Place(n) : Later(d, t) => At(f, d) = Erased

\* A store of several pages, which are never erased: none of its records goes, the place
\* of the next one is the first that has not been used, and the record of a call that
\* has returned true is in the last one that has.
Growing ==
    pages > 1 =>
        /\ Packed(cells, pages)
        /\ last # None => Held(cells, pages) # {}
        /\ pc # "idle" => Front(cells, pages, target)
        /\ pc = "idle" /\ returned =>
              /\ busy = NoJob
              /\ NewestAt(cells, pages, target, last)
              /\ Front(cells, pages, target)

IInv ==
    /\ TypeOK
    /\ ~ext => phase = "wren" /\ busy = NoJob
    /\ busy # NoJob => Pending(cells, pages, busy)
    /\ CallInv
    /\ RestInv
    /\ InOrder(cells, pages, last)
----------------------------------------------------------------------------
\* Places and what is written there

\* g is f with v at place t.
Wrote(f, g, n, t, v) == \A d \in Place(n) : At(g, d) = IF d = t THEN v ELSE At(f, d)

\* f with v at place t, and with c as its page 0.
Written(f, t, v) == [f EXCEPT ![t[1]][t[2]] = v]
Wiped(f, c) == [f EXCEPT ![0] = c]

\* A write changes one place.
LEMMA WriteOne ==
    ASSUME NEW n \in Nat \ {0}, NEW f \in Flash(n), NEW t \in Place(n), NEW v \in Cell
    PROVE  Written(f, t, v) \in Flash(n) /\ Wrote(f, Written(f, t, v), n, t, v)
<1> DEFINE p == t[1]
           i == t[2]
           row == [f[p] EXCEPT ![i] = v]
           g == [f EXCEPT ![p] = row]
<1>1. p \in 0..(n - 1) /\ i \in Slot /\ t = <<p, i>>
    BY DEF Place
<1>2. Written(f, t, v) = g
    BY DEF Written
<1>3. f \in [0..(n - 1) -> [Slot -> Cell]] /\ f[p] \in [Slot -> Cell]
    BY <1>1 DEF Flash
<1>4. row \in [Slot -> Cell] /\ \A j \in Slot : row[j] = IF j = i THEN v ELSE f[p][j]
    BY <1>1, <1>3
<1> HIDE DEF p, i, row
<1>5. g \in Flash(n) /\ \A q \in 0..(n - 1) : g[q] = IF q = p THEN row ELSE f[q]
    BY <1>1, <1>3, <1>4 DEF Flash
<1> HIDE DEF g
<1>6. ASSUME NEW d \in Place(n) PROVE At(g, d) = IF d = t THEN v ELSE At(f, d)
  <2>1. d[1] \in 0..(n - 1) /\ d[2] \in Slot /\ d = <<d[1], d[2]>>
      BY DEF Place
  <2>2. d = t <=> d[1] = p /\ d[2] = i
      BY <1>1, <2>1
  <2>3. g[d[1]] = IF d[1] = p THEN row ELSE f[d[1]]
      BY <1>5, <2>1
  <2>4. row[d[2]] = IF d[2] = i THEN v ELSE f[p][d[2]]
      BY <1>4, <2>1
  <2>5. QED
      BY <2>2, <2>3, <2>4 DEF At
<1>7. QED
    BY <1>2, <1>5, <1>6 DEF Wrote

\* The order of places is a strict linear order.
LEMMA PlaceOrder ==
    ASSUME NEW n \in Nat
    PROVE  /\ \A c, d \in Place(n) : c = d \/ Later(c, d) \/ Later(d, c)
           /\ \A c, d \in Place(n) : ~(Later(c, d) /\ Later(d, c))
           /\ \A c \in Place(n) : ~Later(c, c)
           /\ \A b, c, d \in Place(n) : Later(b, c) /\ Later(c, d) => Later(b, d)
<1>1. ASSUME NEW c \in Place(n)
      PROVE  c[1] \in Int /\ c[2] \in Int /\ c = <<c[1], c[2]>>
    BY NvmAssumption DEF Place, Slot
<1>2. \A c, d \in Place(n) : c = d <=> c[1] = d[1] /\ c[2] = d[2]
    BY <1>1
<1>3. QED
    BY <1>1, <1>2 DEF Later

\* None of the marks is a record.
LEMMA Marks ==
    /\ Erased \notin Record /\ Torn \notin Record /\ Corrupt \notin Record /\ None \notin Record
    /\ Erased # Torn /\ Erased # Corrupt /\ Torn # Corrupt
BY NvmAssumption DEF Erased, Torn, Corrupt, None

\* Writing behind all records something that is no record leaves them as they are.
LEMMA SpoilKeeps ==
    ASSUME NEW n \in Nat, NEW f, NEW g, NEW t \in Place(n), NEW v, NEW u,
           InOrder(f, n, u), Beyond(f, n, t), Wrote(f, g, n, t, v),
           v \notin Record, v # Erased
    PROVE  Held(g, n) = Held(f, n) /\ InOrder(g, n, u) /\ Beyond(g, n, t)
<1>1. \A d \in Place(n) : At(g, d) = IF d = t THEN v ELSE At(f, d)
    BY DEF Wrote
<1>2. t \notin Held(f, n)
    BY PlaceOrder DEF Beyond
<1>3. Held(g, n) = Held(f, n)
    BY <1>1, <1>2 DEF Held
<1>4. \A d \in Place(n) : At(f, d) # Erased => At(g, d) # Erased
    BY <1>1
<1>5. RecordsInOrder(g, n)
    BY <1>3, <1>4 DEF RecordsInOrder, InOrder
<1>6. PagesInOrder(g, n)
  <2> SUFFICES ASSUME NEW c \in Place(n), NEW d \in Place(n),
                      c[2] = 0, At(g, c) # Erased, d[1] < c[1]
               PROVE  At(g, d) # Erased
      BY DEF PagesInOrder
  <2>1. CASE c = t
    <3>1. Later(t, d)
        BY <2>1 DEF Later, Place
    <3>2. QED
        BY <1>4, <3>1 DEF Beyond
  <2>2. CASE c # t
      BY <1>1, <1>4, <2>2 DEF PagesInOrder, InOrder
  <2>3. QED
      BY <2>1, <2>2
<1>7. \A c \in Held(f, n) : At(g, c) = At(f, c)
    BY <1>1, <1>2 DEF Held
<1>8. Newest(g, n, u)
    BY <1>3, <1>7 DEF Newest, NewestAt, InOrder
<1>9. Beyond(g, n, t)
    BY <1>3, <1>4 DEF Beyond
<1>10. QED
    BY <1>3, <1>5, <1>6, <1>8, <1>9 DEF InOrder

\* A record written behind all others is the newest.
LEMMA RecordAdded ==
    ASSUME NEW n \in Nat, NEW f, NEW g, NEW t \in Place(n), NEW v \in Record, NEW u,
           InOrder(f, n, u), Beyond(f, n, t), Wrote(f, g, n, t, v)
    PROVE  InOrder(g, n, v) /\ NewestAt(g, n, t, v)
<1>1. \A d \in Place(n) : At(g, d) = IF d = t THEN v ELSE At(f, d)
    BY DEF Wrote
<1>2. Held(g, n) = Held(f, n) \cup {t}
    BY <1>1 DEF Held
<1>3. \A d \in Place(n) : At(f, d) # Erased => At(g, d) # Erased
    BY <1>1, Marks
<1>4. RecordsInOrder(g, n)
  <2> SUFFICES ASSUME NEW c \in Held(g, n), NEW d \in Place(n), Later(c, d)
               PROVE  At(g, d) # Erased
      BY DEF RecordsInOrder
  <2>1. CASE c = t
      BY <1>3, <2>1 DEF Beyond
  <2>2. CASE c # t
      BY <1>2, <1>3, <2>2 DEF RecordsInOrder, InOrder
  <2>3. QED
      BY <2>1, <2>2
<1>5. PagesInOrder(g, n)
  <2> SUFFICES ASSUME NEW c \in Place(n), NEW d \in Place(n),
                      c[2] = 0, At(g, c) # Erased, d[1] < c[1]
               PROVE  At(g, d) # Erased
      BY DEF PagesInOrder
  <2>1. CASE c = t
    <3>1. Later(t, d)
        BY <2>1 DEF Later, Place
    <3>2. QED
        BY <1>3, <3>1 DEF Beyond
  <2>2. CASE c # t
      BY <1>1, <1>3, <2>2 DEF PagesInOrder, InOrder
  <2>3. QED
      BY <2>1, <2>2
<1>6. NewestAt(g, n, t, v)
    BY <1>1, <1>2 DEF NewestAt, Beyond
<1>7. Newest(g, n, v)
    BY <1>6 DEF Newest
<1>8. QED
    BY <1>4, <1>5, <1>6, <1>7 DEF InOrder

\* A page whose slots are erased or spoilt, the only one, is in order.
LEMMA WipedInOrder ==
    ASSUME NEW f \in Flash(1), NEW c \in [Slot -> {Erased, Corrupt}], NEW u
    PROVE  /\ Wiped(f, c) \in Flash(1) /\ Wiped(f, c)[0] = c
           /\ Held(Wiped(f, c), 1) = {}
           /\ InOrder(Wiped(f, c), 1, u)
<1> DEFINE g == Wiped(f, c)
<1>1. c \in [Slot -> Cell]
    BY DEF Cell
<1>2. g \in Flash(1) /\ g[0] = c
    BY <1>1 DEF Flash, Wiped
<1> HIDE DEF g
<1>3. \A d \in Place(1) : d[1] = 0 /\ d[2] \in Slot /\ d[2] \in Nat
    BY NvmAssumption DEF Place, Slot
<1>4. Held(g, 1) = {}
    BY <1>2, <1>3, Marks DEF Held, At
<1>5. InOrder(g, 1, u)
    BY <1>3, <1>4 DEF InOrder, RecordsInOrder, PagesInOrder, Newest
<1>6. QED
    BY <1>2, <1>4, <1>5 DEF g
----------------------------------------------------------------------------
\* Looking for the newest record

\* The largest and the smallest number of a set.
LEMMA MaxOf ==
    ASSUME NEW n \in Nat, NEW S, S \subseteq 0..n, S # {}
    PROVE  Max(S) \in S /\ \A x \in S : x <= Max(S)
<1> DEFINE T == {n - x : x \in S}
<1>0. \A x \in S : n - x \in Nat
    OBVIOUS
<1>1. T \subseteq Nat /\ T # {}
    BY <1>0
<1> HIDE DEF T
<1>2. PICK y \in T : \A z \in T : y <= z
    BY <1>1, LeastMember
<1>3. PICK x \in S : y = n - x
    BY <1>2 DEF T
<1>4. \A z \in S : n - z \in T
    BY DEF T
<1>5. \A z \in S : x >= z
    BY <1>2, <1>3, <1>4
<1>6. Max(S) \in S /\ \A z \in S : Max(S) >= z
    BY <1>5, Zenon DEF Max
<1>7. QED
    BY <1>6

LEMMA MinOf ==
    ASSUME NEW S, S \subseteq Nat, S # {}
    PROVE  Min(S) \in S /\ \A x \in S : Min(S) <= x
<1>1. PICK x \in S : \A z \in S : x <= z
    BY LeastMember
<1>2. Min(S) \in S /\ \A z \in S : Min(S) =< z
    BY <1>1, Zenon DEF Min
<1>3. QED
    BY <1>2

\* What the searches rely on in a state that is in order.
FlashOK == pages \in Nat \ {0} /\ cells \in Flash(pages) /\ InOrder(cells, pages, last)

\* The active page is the last one in use.
LEMMA ActiveFact ==
    ASSUME FlashOK, UsedPages # {}
    PROVE  /\ ActivePage \in Page /\ cells[ActivePage][0] # Erased
           /\ \A p \in Page : cells[p][0] # Erased => p <= ActivePage
<1>1. UsedPages \subseteq 0..(pages - 1) /\ pages - 1 \in Nat
    BY DEF UsedPages, Page, FlashOK
<1>2. Max(UsedPages) \in UsedPages /\ \A x \in UsedPages : x <= Max(UsedPages)
    BY <1>1, MaxOf
<1>3. QED
    BY <1>2 DEF ActivePage, UsedPages, PageIsEmpty, SlotIsEmpty

\* Every complete record is in a page that is found in use.
LEMMA CandidatesAreHeld ==
    ASSUME FlashOK
    PROVE  Candidates = Held(cells, pages)
<1>1. ASSUME NEW c \in Held(cells, pages) PROVE cells[c[1]][0] # Erased
  <2>1. c[1] \in 0..(pages - 1) /\ c[2] \in Slot /\ c = <<c[1], c[2]>> /\ At(cells, c) \in Record
      BY DEF Held, Place
  <2>2. CASE c[2] = 0
      BY <2>1, <2>2, Marks DEF At
  <2>3. CASE c[2] # 0
    <3>1. <<c[1], 0>> \in Place(pages)
        BY <2>1, NvmAssumption DEF Place, Slot
    <3>2. Later(c, <<c[1], 0>>)
        BY <2>1, <2>3 DEF Later, Slot
    <3>3. At(cells, <<c[1], 0>>) # Erased
        BY <3>1, <3>2 DEF FlashOK, InOrder, RecordsInOrder
    <3>4. QED
        BY <3>3 DEF At
  <2>4. QED
      BY <2>2, <2>3
<1>2. Candidates \subseteq Held(cells, pages)
    BY DEF Candidates, Held, Place, Page, ValidSlots, At
<1>3. ASSUME NEW c \in Held(cells, pages) PROVE c \in Candidates
  <2>1. c \in Page \X Slot /\ cells[c[1]][c[2]] \in Record
      BY DEF Held, Place, Page, At
  <2>2. c[2] \in ValidSlots(c[1])
      BY <2>1 DEF ValidSlots
  <2>3. QED
      BY <1>1, <2>1, <2>2 DEF Candidates, PageIsEmpty, SlotIsEmpty
<1>4. QED
    BY <1>2, <1>3

\* The search meets the records from the newest to the oldest.
LEMMA SearchOrder ==
    ASSUME FlashOK, NEW c \in Candidates, NEW d \in Candidates
    PROVE  Before(c, d) <=> Later(c, d)
<1>1. /\ c[1] \in Page /\ d[1] \in Page /\ c[2] \in Int /\ d[2] \in Int
      /\ c[1] \in UsedPages /\ d[1] \in UsedPages
    BY DEF Candidates, UsedPages, Slot
<1>2. /\ ActivePage \in Page /\ pages \in Nat \ {0}
      /\ \A p \in UsedPages : p <= ActivePage
    BY <1>1, ActiveFact DEF UsedPages, PageIsEmpty, SlotIsEmpty, FlashOK
<1>3. ASSUME NEW p \in UsedPages PROVE PagesBack(p) = ActivePage - p
  <2>1. p \in 0..(pages - 1) /\ ActivePage \in 0..(pages - 1) /\ p <= ActivePage
      BY <1>2 DEF UsedPages, Page
  <2> DEFINE x == ActivePage + pages - p
             r == ActivePage - p
  <2>2. x = pages * 1 + r /\ r \in 0..(pages - 1) /\ x \in Int
      BY <1>2, <2>1
  <2> HIDE DEF x, r
  <2>3. x % pages = r
      BY <1>2, <2>2, RemainderOf
  <2>4. QED
      BY <2>3 DEF PagesBack, x, r
<1>4. PagesBack(c[1]) = ActivePage - c[1] /\ PagesBack(d[1]) = ActivePage - d[1]
    BY <1>1, <1>3
<1>5. c[1] \in Int /\ d[1] \in Int /\ ActivePage \in Int
    BY <1>1, <1>2 DEF Page
<1>6. QED
    BY <1>1, <1>4, <1>5 DEF Before, Later

\* What is read back is the newest complete record.
LEMMA ValidatedIsLast ==
    ASSUME FlashOK
    PROVE  ReadValidated = IF Held(cells, pages) = {} THEN None ELSE last
<1>1. CASE Held(cells, pages) = {}
    BY <1>1, CandidatesAreHeld DEF ReadValidated
<1>2. CASE Held(cells, pages) # {}
  <2> DEFINE Found(r) == \E c \in Candidates :
                            r = cells[c[1]][c[2]] /\ \A d \in Candidates \ {c} : Before(c, d)
  <2>1. PICK c \in Place(pages) : NewestAt(cells, pages, c, last)
      BY <1>2 DEF FlashOK, InOrder, Newest
  <2>2. /\ c \in Candidates /\ cells[c[1]][c[2]] = last /\ last \in Record
        /\ \A d \in Candidates : d # c => Later(c, d)
      BY <2>1, CandidatesAreHeld DEF NewestAt, Held, At
  <2>3. \A d \in Candidates \ {c} : Before(c, d)
      BY <2>2, SearchOrder
  <2>4. Found(last)
      BY <2>2, <2>3
  <2>5. ASSUME NEW r \in Record, Found(r) PROVE r = last
    <3>1. PICK b \in Candidates :
              r = cells[b[1]][b[2]] /\ \A d \in Candidates \ {b} : Before(b, d)
        BY <2>5
    <3>2. b # c => Later(b, c) /\ Later(c, b)
        BY <2>2, <3>1, SearchOrder
    <3>3. b \in Place(pages) /\ pages \in Nat
        BY CandidatesAreHeld DEF Held, FlashOK
    <3>4. b = c
        BY <2>1, <3>2, <3>3, PlaceOrder
    <3>5. QED
        BY <2>2, <3>1, <3>4
  <2>6. ReadValidated = CHOOSE r \in Record : Found(r)
      BY <1>2, CandidatesAreHeld DEF ReadValidated
  <2> HIDE DEF Found
  <2>7. (CHOOSE r \in Record : Found(r)) = last
      BY <2>2, <2>4, <2>5, Zenon
  <2>8. QED
      BY <1>2, <2>6, <2>7
<1>3. QED
    BY <1>1, <1>2

\* The other search finds the last place in use.
LEMMA LatestPlace ==
    ASSUME FlashOK, UsedPages # {}
    PROVE  \E c \in Place(pages) :
              /\ ReadLatest = At(cells, c) /\ At(cells, c) # Erased
              /\ \A d \in Place(pages) :
                    d # c /\ At(cells, d) # Erased /\ cells[d[1]][0] # Erased => Later(c, d)
<1> DEFINE a == ActivePage
           m == Max(UsedSlots(ActivePage))
           c == <<a, m>>
<1>2. /\ a \in Page /\ cells[a][0] # Erased
      /\ \A p \in Page : cells[p][0] # Erased => p <= a
    BY ActiveFact
<1>3. UsedSlots(a) \subseteq 0..(Slots - 1) /\ Slots - 1 \in Nat /\ 0 \in UsedSlots(a)
    BY <1>2, NvmAssumption DEF UsedSlots, SlotIsEmpty, Slot
<1>4. m \in UsedSlots(a) /\ \A x \in UsedSlots(a) : x <= m
    BY <1>3, MaxOf
<1>5. m \in Slot /\ cells[a][m] # Erased /\ \A i \in Slot : cells[a][i] # Erased => i <= m
    BY <1>4 DEF UsedSlots, SlotIsEmpty
<1>6. ReadLatest = cells[a][m]
    BY DEF ReadLatest
<1> HIDE DEF a, m
<1>7. c \in Place(pages) /\ c[1] = a /\ c[2] = m
    BY <1>2, <1>5 DEF Place, Page
<1> HIDE DEF c
<1>8. ASSUME NEW d \in Place(pages), d # c, At(cells, d) # Erased, cells[d[1]][0] # Erased
      PROVE  Later(c, d)
  <2>1. d[1] \in Page /\ d[2] \in Slot /\ d = <<d[1], d[2]>> /\ c = <<a, m>>
      BY DEF Place, Page, c
  <2>2. d[1] <= a /\ (d[1] = a => d[2] <= m)
      BY <1>2, <1>5, <1>8, <2>1 DEF At
  <2>3. d[1] \in Int /\ d[2] \in Int /\ a \in Int /\ m \in Int
      BY <1>2, <1>5, <2>1 DEF Page, Slot
  <2>4. d[1] = a /\ d[2] = m => d = c
      BY <2>1
  <2>5. QED
      BY <1>7, <1>8, <2>2, <2>3, <2>4 DEF Later
<1>9. ReadLatest = At(cells, c) /\ At(cells, c) # Erased
    BY <1>5, <1>6, <1>7 DEF At
<1>10. QED
    BY <1>7, <1>8, <1>9

\* A complete record is found in use.
LEMMA HeldIsUsed ==
    ASSUME FlashOK, NEW c \in Held(cells, pages)
    PROVE  /\ c \in Place(pages) /\ At(cells, c) \in Record /\ At(cells, c) # Erased
           /\ cells[c[1]][0] # Erased /\ UsedPages # {}
<1>1. c \in Candidates
    BY CandidatesAreHeld
<1>2. c[1] \in Page /\ cells[c[1]][0] # Erased
    BY <1>1 DEF Candidates, PageIsEmpty, SlotIsEmpty
<1>3. UsedPages # {}
    BY <1>2 DEF UsedPages, PageIsEmpty, SlotIsEmpty
<1>4. QED
    BY <1>2, <1>3, Marks DEF Held

\* It is the newest record, if it is a complete one,
LEMMA LatestIsNewest ==
    ASSUME FlashOK, ReadLatest \in Record
    PROVE  ReadLatest = last
<1>1. UsedPages # {} /\ pages \in Nat
    BY Marks DEF ReadLatest, FlashOK
<1>2. PICK c \in Place(pages) :
          /\ ReadLatest = At(cells, c)
          /\ \A d \in Place(pages) :
                d # c /\ At(cells, d) # Erased /\ cells[d[1]][0] # Erased => Later(c, d)
    BY <1>1, LatestPlace
<1>3. c \in Held(cells, pages)
    BY <1>2 DEF Held
<1>4. PICK b \in Place(pages) : NewestAt(cells, pages, b, last)
    BY <1>3 DEF FlashOK, InOrder, Newest
<1>5. b \in Held(cells, pages) /\ At(cells, b) = last /\ (b # c => Later(b, c))
    BY <1>3, <1>4 DEF NewestAt
<1>6. b # c => Later(c, b)
    BY <1>2, <1>5, HeldIsUsed
<1>7. b = c
    BY <1>1, <1>2, <1>4, <1>5, <1>6, PlaceOrder
<1>8. QED
    BY <1>2, <1>5, <1>7

\* and it is there when nothing behind it has been used.
LEMMA LatestIsThere ==
    ASSUME FlashOK, NEW t, NewestAt(cells, pages, t, last), Front(cells, pages, t)
    PROVE  ReadLatest = last
<1>1. /\ t \in Held(cells, pages) /\ t \in Place(pages) /\ At(cells, t) = last
      /\ At(cells, t) # Erased /\ cells[t[1]][0] # Erased /\ UsedPages # {}
    BY HeldIsUsed DEF NewestAt
<1>2. PICK c \in Place(pages) :
          /\ ReadLatest = At(cells, c) /\ At(cells, c) # Erased
          /\ \A d \in Place(pages) :
                d # c /\ At(cells, d) # Erased /\ cells[d[1]][0] # Erased => Later(c, d)
    BY <1>1, LatestPlace
<1>3. t # c => Later(c, t)
    BY <1>1, <1>2
<1>4. ~Later(c, t)
    BY <1>2 DEF Front
<1>5. QED
    BY <1>1, <1>2, <1>3, <1>4

\* A write goes behind all records.
LEMMA TargetBeyond ==
    ASSUME FlashOK, UsedPages # {}, EmptySlots(ActivePage) # {}
    PROVE  /\ <<ActivePage, FreeSlot(ActivePage)>> \in Place(pages)
           /\ Beyond(cells, pages, <<ActivePage, FreeSlot(ActivePage)>>)
           /\ At(cells, <<ActivePage, FreeSlot(ActivePage)>>) = Erased
<1> DEFINE a == ActivePage
           m == FreeSlot(ActivePage)
           t == <<a, m>>
<1>1. /\ a \in Page /\ cells[a][0] # Erased
      /\ \A p \in Page : cells[p][0] # Erased => p <= a
    BY ActiveFact
<1>2. EmptySlots(a) \subseteq Nat
    BY NvmAssumption DEF EmptySlots, Slot
<1>3. m \in EmptySlots(a) /\ \A x \in EmptySlots(a) : m <= x
    BY <1>2, MinOf DEF FreeSlot
<1>4. /\ m \in Slot /\ m \in Nat /\ cells[a][m] = Erased
      /\ \A i \in Slot : i < m => cells[a][i] # Erased
    BY <1>3, NvmAssumption DEF EmptySlots, SlotIsEmpty, Slot
<1> HIDE DEF a, m
<1>5. t \in Place(pages) /\ t[1] = a /\ t[2] = m /\ At(cells, t) = Erased
    BY <1>1, <1>4 DEF Place, Page, At
<1> HIDE DEF t
<1>6. ASSUME NEW d \in Place(pages), Later(t, d) PROVE At(cells, d) # Erased
  <2>1. d[1] \in Page /\ d[2] \in Slot /\ d[1] \in Nat /\ a \in Nat
      BY <1>1 DEF Place, Page
  <2>2. CASE d[1] < a
    <3>1. <<a, 0>> \in Place(pages) /\ At(cells, <<a, 0>>) # Erased
        BY <1>1, NvmAssumption DEF Place, Page, Slot, At
    <3>2. <<a, 0>>[1] = a /\ <<a, 0>>[2] = 0
        OBVIOUS
    <3>3. QED
        BY <2>2, <3>1, <3>2 DEF FlashOK, InOrder, PagesInOrder
  <2>3. CASE ~(d[1] < a)
      BY <1>4, <1>5, <1>6, <2>1, <2>3 DEF Later, At
  <2>4. QED
      BY <2>2, <2>3
<1>7. ASSUME NEW d \in Held(cells, pages) PROVE Later(t, d)
  <2>1. d \in Place(pages) /\ At(cells, d) \in Record
      BY DEF Held
  <2>2. d # t
      BY <1>5, <2>1, Marks
  <2>3. ~Later(d, t)
      BY <1>5, <1>7 DEF FlashOK, InOrder, RecordsInOrder
  <2>4. QED
      BY <1>5, <2>1, <2>2, <2>3, PlaceOrder DEF FlashOK
<1>8. Beyond(cells, pages, t)
    BY <1>6, <1>7 DEF Beyond
<1>9. QED
    BY <1>5, <1>8 DEF t, a, m

\* The page that is written when the active one is full: there is nothing in it
\* yet, unless it is the only one.
LEMMA NextPageFact ==
    ASSUME FlashOK, UsedPages # {}, EmptySlots(ActivePage) = {},
           pages > 1 => ActivePage # pages - 1
    PROVE  /\ pages = 1 => NextPage = 0 /\ ~PageIsEmpty(NextPage)
           /\ pages > 1 => /\ PageIsEmpty(NextPage)
                           /\ <<NextPage, 0>> \in Place(pages)
                           /\ Beyond(cells, pages, <<NextPage, 0>>)
<1>1. /\ ActivePage \in Page /\ cells[ActivePage][0] # Erased
      /\ \A p \in Page : cells[p][0] # Erased => p <= ActivePage
    BY ActiveFact
<1>2. pages \in Nat \ {0} /\ ActivePage \in 0..(pages - 1)
    BY <1>1 DEF FlashOK, Page
<1>3. ASSUME pages = 1 PROVE NextPage = 0 /\ ~PageIsEmpty(NextPage)
  <2>1. ActivePage = 0
      BY <1>2, <1>3
  <2>2. 1 % 1 = 0
      BY SMT
  <2>3. NextPage = 0
      BY <1>3, <2>1, <2>2 DEF NextPage
  <2>4. QED
      BY <1>1, <2>1, <2>3 DEF PageIsEmpty, SlotIsEmpty
<1>4. ASSUME pages > 1
      PROVE  /\ PageIsEmpty(NextPage)
             /\ <<NextPage, 0>> \in Place(pages)
             /\ Beyond(cells, pages, <<NextPage, 0>>)
  <2> DEFINE a == ActivePage
             t == <<NextPage, 0>>
  <2>1. a + 1 \in 0..(pages - 1)
      BY <1>2, <1>4
  <2>2. NextPage = a + 1
      BY <1>2, <2>1, SmallRemainder DEF NextPage
  <2>3. NextPage \in Page /\ NextPage > a /\ NextPage \in Nat /\ a \in Nat
      BY <1>2, <2>1, <2>2 DEF Page
  <2>4. PageIsEmpty(NextPage)
      BY <1>1, <2>3 DEF PageIsEmpty, SlotIsEmpty
  <2>5. t \in Place(pages) /\ t[1] = a + 1 /\ t[2] = 0 /\ 0 \in Slot
      BY <2>2, <2>3, NvmAssumption DEF Place, Page, Slot
  <2> HIDE DEF a
  <2>6. ASSUME NEW d \in Held(cells, pages) PROVE Later(t, d)
    <3>1. d[1] \in Page /\ cells[d[1]][0] # Erased
        BY CandidatesAreHeld DEF Candidates, PageIsEmpty, SlotIsEmpty
    <3>2. d[1] <= a /\ d[1] \in Int
        BY <1>1, <3>1 DEF a, Page
    <3>3. QED
        BY <2>3, <2>5, <3>2 DEF Later
  <2>7. ASSUME NEW d \in Place(pages), Later(t, d) PROVE At(cells, d) # Erased
    <3>1. d[1] \in Int /\ d[1] \in Page /\ d[2] \in Slot /\ d[2] \in Nat
        BY NvmAssumption DEF Place, Page, Slot
    <3>2. d[1] <= a
        BY <2>3, <2>5, <2>7, <3>1 DEF Later
    <3>3. CASE d[1] = a
        BY <3>1, <3>3 DEF At, EmptySlots, SlotIsEmpty, a
    <3>4. CASE d[1] # a
      <4>1. /\ <<a, 0>> \in Place(pages) /\ At(cells, <<a, 0>>) # Erased
            /\ <<a, 0>>[1] = a /\ <<a, 0>>[2] = 0
          BY <1>1, <2>5 DEF Place, Page, At, a
      <4>2. d[1] < a
          BY <2>3, <3>1, <3>2, <3>4
      <4>3. QED
          BY <4>1, <4>2 DEF FlashOK, InOrder, PagesInOrder
    <3>5. QED
        BY <3>3, <3>4
  <2>8. QED
      BY <2>4, <2>5, <2>6, <2>7 DEF Beyond
<1>5. QED
    BY <1>2, <1>3, <1>4

\* Nothing is behind the first place of an empty flash.
LEMMA FirstPlace ==
    ASSUME FlashOK, UsedPages = {}
    PROVE  /\ <<0, 0>> \in Place(pages) /\ Beyond(cells, pages, <<0, 0>>)
           /\ At(cells, <<0, 0>>) = Erased
<1>1. 0 \in Page /\ 0 \in Slot /\ \A i \in Slot : i \in Nat
    BY NvmAssumption DEF FlashOK, Page, Slot
<1>2. Held(cells, pages) = {}
    BY CandidatesAreHeld DEF Candidates, UsedPages
<1>3. \A d \in Place(pages) : ~Later(<<0, 0>>, d)
    BY <1>1 DEF Place, Later
<1>4. <<0, 0>> \in Place(pages) /\ At(cells, <<0, 0>>) = Erased
    BY <1>1 DEF Place, Page, UsedPages, PageIsEmpty, SlotIsEmpty, At
<1>5. QED
    BY <1>2, <1>3, <1>4 DEF Beyond

----------------------------------------------------------------------------
\* What the operations do

\* What is read back from f when the last record was v.
Value(f, n, v) == IF Held(f, n) = {} THEN None ELSE v

\* The parts of a job.
LEMMA JobParts ==
    ASSUME NEW n, NEW f, NEW job, Safe(f, n, job)
    PROVE  /\ job[1] \in {"erase", "program", "rest", "part"}
           /\ job[2] \in Place(n) /\ job[3] \in Record
           /\ job = <<job[1], job[2], job[3]>>
BY DEF Safe

\* An operation leaves the flash in order, and what it is to leave there.
LEMMA JobEffect ==
    ASSUME FlashOK, NEW job, Pending(cells, pages, job), last \in Record \cup {None}
    PROVE  /\ Result(job) \in Flash(pages)
           /\ LastOf(job) \in Record \cup {None}
           /\ InOrder(Result(job), pages, LastOf(job))
           /\ job[1] # "part" => Done(Result(job), pages, job)
           /\ job[1] = "erase" => Value(Result(job), pages, LastOf(job)) = None
           /\ job[1] = "rest" => Value(Result(job), pages, LastOf(job)) = job[3]
           /\ job[1] \in {"program", "part"} =>
                Value(Result(job), pages, LastOf(job)) = Value(cells, pages, last)
<1> DEFINE t == job[2]
           g == Result(job)
           c == CASE job[1] = "program" /\ cells[t[1]][t[2]] = Erased -> Torn
                  [] job[1] = "rest" /\ cells[t[1]][t[2]] = Torn -> job[3]
                  [] OTHER -> Corrupt
<1>1. /\ job[1] \in {"erase", "program", "rest", "part"}
      /\ t \in Place(pages) /\ job[3] \in Record /\ Safe(cells, pages, job)
    BY JobParts DEF Pending
<1>2. pages \in Nat \ {0} /\ cells \in Flash(pages) /\ InOrder(cells, pages, last)
    BY DEF FlashOK
<1>3. CASE job[1] = "erase"
  <2>1. pages = 1 /\ t = <<0, 0>> /\ t[1] = 0
      BY <1>1, <1>3 DEF Safe
  <2>2. g = Wiped(cells, ErasedPage)
      BY <1>3, <2>1 DEF Result, Wiped
  <2>3. ErasedPage \in [Slot -> {Erased, Corrupt}]
      BY DEF ErasedPage
  <2>4. cells \in Flash(1)
      BY <1>2, <2>1
  <2>5. g \in Flash(1) /\ g[0] = ErasedPage /\ Held(g, 1) = {} /\ InOrder(g, 1, last)
      BY <2>2, <2>3, <2>4, WipedInOrder
  <2>6. LastOf(job) = last
      BY <1>3 DEF LastOf
  <2> HIDE DEF g, t
  <2>7. Done(g, pages, job)
      BY <1>3, <2>1, <2>5 DEF Done, t
  <2>8. Value(g, pages, last) = None
      BY <2>1, <2>5 DEF Value
  <2>9. QED
      BY <1>3, <2>1, <2>5, <2>6, <2>7, <2>8 DEF g
<1>4. CASE job[1] # "erase"
  <2>1. Beyond(cells, pages, t) /\ c \in Cell
      BY <1>1, <1>4 DEF Safe, Cell
  <2>2. g = Written(cells, t, c)
      BY <1>4 DEF Result, Written
  <2>3. g \in Flash(pages) /\ Wrote(cells, g, pages, t, c)
      BY <1>1, <1>2, <2>1, <2>2, WriteOne
  <2>4. At(g, t) = c /\ g[t[1]][t[2]] = c
      BY <1>1, <2>3 DEF Wrote, At
  <2>5. CASE job[1] = "rest"
    <3>1. c = job[3]
        BY <1>1, <2>5, Marks DEF Pending, At
    <3>2. LastOf(job) = job[3]
        BY <2>4, <2>5, <3>1 DEF LastOf
    <3> HIDE DEF g, c
    <3>3. InOrder(g, pages, job[3]) /\ NewestAt(g, pages, t, job[3])
        BY <1>1, <1>2, <2>1, <2>3, <3>1, RecordAdded
    <3> HIDE DEF t
    <3>4. Done(g, pages, job)
        BY <2>5, <3>3 DEF Done, t
    <3>5. Value(g, pages, job[3]) = job[3]
        BY <3>3 DEF Value, NewestAt
    <3>6. QED
        BY <1>1, <2>3, <2>5, <3>2, <3>3, <3>4, <3>5 DEF g
  <2>6. CASE job[1] # "rest"
    <3>1. c \notin Record /\ c # Erased /\ (job[1] = "program" => c = Torn)
        BY <1>1, <2>6, Marks DEF Pending, At
    <3>2. LastOf(job) = last
        BY <2>6 DEF LastOf
    <3> HIDE DEF g, c
    <3>3. /\ Held(g, pages) = Held(cells, pages) /\ InOrder(g, pages, last)
          /\ Beyond(g, pages, t)
        BY <1>1, <1>2, <2>1, <2>3, <3>1, SpoilKeeps
    <3> HIDE DEF t
    <3>4. job[1] = "program" => Done(g, pages, job)
        BY <2>4, <3>1, <3>3 DEF Done, t
    <3>5. Value(g, pages, last) = Value(cells, pages, last)
        BY <3>3 DEF Value
    <3>6. QED
        BY <1>1, <1>4, <2>3, <2>6, <3>2, <3>3, <3>4, <3>5 DEF g
  <2>7. QED
      BY <2>5, <2>6
<1>5. QED
    BY <1>3, <1>4

\* When one operation of a call has been done the next one is due.
LEMMA NextJob ==
    ASSUME NEW n \in Nat \ {0}, NEW f \in Flash(n), NEW t \in Place(n), NEW r \in Record
    PROVE  /\ Done(f, n, <<"erase", t, r>>) => Pending(f, n, <<"program", t, r>>)
           /\ Done(f, n, <<"program", t, r>>) => Pending(f, n, <<"rest", t, r>>)
<1>1. ASSUME Done(f, n, <<"erase", t, r>>) PROVE Pending(f, n, <<"program", t, r>>)
  <2>1. n = 1 /\ t = <<0, 0>> /\ f[0] = ErasedPage
      BY <1>1 DEF Done
  <2>2. \A d \in Place(1) : d[1] = 0 /\ d[2] \in Slot /\ d[2] \in Nat
      BY NvmAssumption DEF Place, Slot
  <2>3. \A d \in Place(1) : At(f, d) = Erased
      BY <2>1, <2>2 DEF At, ErasedPage
  <2>4. Held(f, n) = {}
      BY <2>1, <2>3, Marks DEF Held
  <2>5. \A d \in Place(n) : ~Later(t, d)
      BY <2>1, <2>2 DEF Later
  <2>6. Beyond(f, n, t)
      BY <2>4, <2>5 DEF Beyond
  <2>7. At(f, t) = Erased
      BY <2>1, <2>3
  <2>8. QED
      BY <2>6, <2>7 DEF Pending, Safe
<1>2. ASSUME Done(f, n, <<"program", t, r>>) PROVE Pending(f, n, <<"rest", t, r>>)
  <2>1. Beyond(f, n, t) /\ At(f, t) = Torn
      BY <1>2 DEF Done
  <2>2. QED
      BY <2>1 DEF Pending, Safe
<1>3. QED
    BY <1>1, <1>2

----------------------------------------------------------------------------
\* Each action keeps the invariant and does what the store of one value may do.

\* What is read back.
Stored == Value(cells, pages, last)

\* The abstract store with that value.
Durable == INSTANCE DurableValue WITH value <- Stored, MayForget <- pages = 1

Follows == Durable!Step \/ UNCHANGED <<Stored, storing, returned>>

\* What the invariant says of the flash.
LEMMA InvFacts ==
    ASSUME IInv
    PROVE  /\ FlashOK /\ last \in Record \cup {None}
           /\ target \in Place(pages) /\ target \in Page \X Slot
BY DEF IInv, TypeOK, FlashOK, Flash, Cell, Place, Page

\* The types of what changes.
LEMMA TypeNext ==
    ASSUME TypeOK, UNCHANGED build, cells' \in Flash(pages), target' \in Place(pages),
           last' \in Record \cup {None}, pc' \in {"idle", "erase", "program", "rest"},
           storing' \in Record \cup {None}, up' \in {"no", "ready", "failed"},
           ~ext => up' = "ready", phase' \in {"wren", "command", "wait"},
           pc' = "idle" => phase' = "wren", wel' \in BOOLEAN, returned' \in BOOLEAN
    PROVE  TypeOK'
<1>1. pages' = pages /\ ext' = ext
    BY DEF build
<1>2. Page' = Page /\ Page = 0..(pages - 1)
    BY <1>1 DEF Page
<1>3. QED
    BY <1>1, <1>2 DEF TypeOK, Flash, Cell, Place

LEMMA WriteAppendStep ==
    ASSUME Patient, ~MayWrap, IInv, WriteAppend
    PROVE  IInv' /\ Follows
<1>1. /\ pc = "idle" /\ up = "ready" /\ busy = NoJob /\ phase = "wren" /\ storing = None
      /\ storing' \in Record /\ ~returned'
      /\ UNCHANGED <<build, cells, up, last, ospiVars>>
    BY DEF WriteAppend, IInv, RestInv, TypeOK
<1>2. FlashOK /\ last \in Record \cup {None}
    BY InvFacts
<1>3. SeenPages = UsedPages
    BY <1>1 DEF SeenPages
<1>4. /\ pc' \in {"erase", "program"} /\ target' \in Place(pages)
      /\ Pending(cells, pages, <<pc', target', storing'>>)
  <2>1. CASE UsedPages = {}
    <3>1. target' = <<0, 0>> /\ pc' = "program"
        BY <1>3, <2>1 DEF WriteAppend
    <3>2. QED
        BY <1>1, <1>2, <2>1, <3>1, FirstPlace DEF Pending, Safe
  <2>2. CASE UsedPages # {} /\ EmptySlots(ActivePage) # {}
    <3>1. target' = <<ActivePage, FreeSlot(ActivePage)>> /\ pc' = "program"
        BY <1>3, <2>2 DEF WriteAppend
    <3>2. QED
        BY <1>1, <1>2, <2>2, <3>1, TargetBeyond DEF Pending, Safe
  <2>3. CASE UsedPages # {} /\ EmptySlots(ActivePage) = {}
    <3>1. /\ pages > 1 => ActivePage # pages - 1
          /\ target' = <<NextPage, 0>>
          /\ PageIsEmpty(NextPage) => pc' = "program"
          /\ ~PageIsEmpty(NextPage) => pc' = "erase"
        BY <1>3, <2>3 DEF WriteAppend
    <3>2. pages \in Nat \ {0} /\ 0 \in Slot
        BY <1>2, NvmAssumption DEF FlashOK, Slot
    <3>3. CASE pages = 1
      <4>1. NextPage = 0 /\ ~PageIsEmpty(NextPage)
          BY <1>2, <2>3, <3>1, <3>3, NextPageFact
      <4>2. pc' = "erase" /\ target' = <<0, 0>> /\ target' \in Place(pages)
          BY <3>1, <3>2, <3>3, <4>1 DEF Place
      <4>3. QED
          BY <1>1, <3>3, <4>2 DEF Pending, Safe
    <3>4. CASE pages > 1
      <4>1. /\ PageIsEmpty(NextPage) /\ <<NextPage, 0>> \in Place(pages)
            /\ Beyond(cells, pages, <<NextPage, 0>>)
          BY <1>2, <2>3, <3>1, <3>4, NextPageFact
      <4>2. At(cells, <<NextPage, 0>>) = Erased
          BY <4>1 DEF PageIsEmpty, SlotIsEmpty, At
      <4>3. QED
          BY <1>1, <3>1, <4>1, <4>2 DEF Pending, Safe
    <3>5. QED
        BY <3>2, <3>3, <3>4
  <2>4. QED
      BY <2>1, <2>2, <2>3
<1>5. returned' \in BOOLEAN
    BY DEF WriteAppend
<1>6. TypeOK'
  <2>1. cells' \in Flash(pages)
      BY <1>1, <1>2 DEF FlashOK
  <2>2. QED
      BY <1>1, <1>2, <1>4, <1>5, <2>1, TypeNext DEF IInv, TypeOK, ospiVars
<1>7. CallInv'
    BY <1>1, <1>4 DEF CallInv, Job, ospiVars, build
<1>8. IInv'
    BY <1>1, <1>4, <1>6, <1>7 DEF IInv, RestInv, ospiVars, build
<1>9. Stored' = Stored
    BY <1>1 DEF Stored, build
<1>10. Follows
    BY <1>1, <1>5, <1>9 DEF Follows, Durable!Step, Durable!Begin
<1>11. QED
    BY <1>8, <1>10

\* What Proceed makes of a job, and that the operation pc is at is one.
LEMMA Steps ==
    ASSUME IInv, pc # "idle", Proceed
    PROVE  /\ pc \in {"erase", "program", "rest"}
           /\ pc = "erase" => pc' = "program" /\ Job' = <<"program", target, storing>>
           /\ pc = "program" => pc' = "rest" /\ Job' = <<"rest", target, storing>>
           /\ pc = "rest" => pc' = "idle" /\ storing' = None
           /\ pc # "rest" => storing' = storing
           /\ target' = target /\ returned' = (pc = "rest") /\ returned' \in BOOLEAN
<1>1. pc \in {"erase", "program", "rest"}
    BY DEF IInv, TypeOK
<1>2. /\ pc' = [erase |-> "program", program |-> "rest", rest |-> "idle"][pc]
      /\ storing' = IF pc = "rest" THEN None ELSE storing
      /\ returned' = (pc = "rest") /\ target' = target
    BY DEF Proceed
<1>3. /\ pc = "erase" => pc' = "program"
      /\ pc = "program" => pc' = "rest"
      /\ pc = "rest" => pc' = "idle"
    BY <1>2
<1>4. /\ pc = "erase" => Job' = <<"program", target, storing>>
      /\ pc = "program" => Job' = <<"rest", target, storing>>
    BY <1>2, <1>3 DEF Job
<1>5. returned' \in BOOLEAN
    BY <1>2
<1>6. QED
    BY <1>1, <1>2, <1>3, <1>4, <1>5

\* An operation of the processor's flash.
LEMMA OperateStep ==
    ASSUME IInv, Operate
    PROVE  IInv' /\ Follows
<1>1. /\ ~ext /\ pc # "idle" /\ phase = "wren" /\ busy = NoJob /\ storing \in Record /\ ~returned
      /\ up = "ready" /\ Pending(cells, pages, Job)
      /\ cells' = Result(Job) /\ last' = LastOf(Job)
      /\ UNCHANGED <<build, up, ospiVars>>
    BY DEF Operate, IInv, CallInv
<1>2. FlashOK /\ last \in Record \cup {None} /\ target \in Place(pages)
    BY InvFacts
<1>3. Job[1] = pc /\ Job[2] = target /\ Job[3] = storing /\ Job = <<pc, target, storing>>
    BY DEF Job
<1>4. /\ pc \in {"erase", "program", "rest"}
      /\ pc = "erase" => pc' = "program" /\ Job' = <<"program", target, storing>>
      /\ pc = "program" => pc' = "rest" /\ Job' = <<"rest", target, storing>>
      /\ pc = "rest" => pc' = "idle" /\ storing' = None
      /\ pc # "rest" => storing' = storing
      /\ target' = target /\ returned' = (pc = "rest") /\ returned' \in BOOLEAN
    BY <1>1, Steps DEF Operate
<1>5. /\ cells' \in Flash(pages) /\ last' \in Record \cup {None}
      /\ InOrder(cells', pages, last') /\ Done(cells', pages, Job)
      /\ pc = "erase" => Value(cells', pages, last') = None
      /\ pc = "rest" => Value(cells', pages, last') = storing
      /\ pc = "program" => Value(cells', pages, last') = Value(cells, pages, last)
    BY <1>1, <1>2, <1>3, <1>4, JobEffect
<1>6. pages' = pages /\ ext' = ext /\ busy' = NoJob /\ phase' = "wren" /\ up' = "ready"
    BY <1>1 DEF build, ospiVars
<1>7. TypeOK'
    BY <1>1, <1>2, <1>4, <1>5, <1>6, TypeNext DEF IInv, TypeOK, ospiVars
<1>8. pc # "rest" => Pending(cells', pages, Job')
    BY <1>1, <1>2, <1>3, <1>4, <1>5, NextJob DEF FlashOK
<1>9. CallInv'
    BY <1>1, <1>4, <1>6, <1>8 DEF CallInv
<1>10. RestInv'
    BY <1>4, <1>6 DEF RestInv
<1>11. IInv'
    BY <1>5, <1>6, <1>7, <1>9, <1>10 DEF IInv
<1>12. Stored' = Value(cells', pages, last')
    BY <1>6 DEF Stored
<1>13. Follows
  <2>1. storing # None
      BY <1>1, Marks
  <2>2. CASE pc = "erase"
    <3>1. pages = 1
        BY <1>1, <1>3, <2>2 DEF Pending, Safe
    <3>2. Stored' = None /\ storing' = storing /\ returned' = returned
        BY <1>1, <1>4, <1>5, <1>12, <2>2, IInv DEF IInv, TypeOK
    <3>3. QED
        BY <2>1, <3>1, <3>2 DEF Follows, Durable!Step, Durable!Forget
  <2>3. CASE pc = "program"
    <3>1. Stored' = Stored /\ storing' = storing /\ returned' = returned
        BY <1>1, <1>4, <1>5, <1>12, <2>3, IInv DEF IInv, TypeOK, Stored
    <3>2. QED
        BY <3>1 DEF Follows
  <2>4. CASE pc = "rest"
    <3>1. Stored' = storing /\ storing' = None /\ returned'
        BY <1>4, <1>5, <1>12, <2>4
    <3>2. QED
        BY <2>1, <3>1 DEF Follows, Durable!Step, Durable!Succeed
  <2>5. QED
      BY <1>4, <2>2, <2>3, <2>4
<1>14. QED
    BY <1>11, <1>13

\* A step of the driver of the external chip.
LEMMA OspiStepStep ==
    ASSUME IInv, OspiStep
    PROVE  IInv' /\ Follows
<1>1. /\ ext /\ pc # "idle" /\ UNCHANGED <<build, cells, call, up, last>>
      /\ WriteEnable \/ SendCommand(Job)
    BY DEF OspiStep
<1>2. /\ pages' = pages /\ ext' = ext /\ cells' = cells /\ pc' = pc /\ target' = target
      /\ storing' = storing /\ returned' = returned /\ up' = up /\ last' = last /\ Job' = Job
    BY <1>1 DEF build, call, Job
<1>3. FlashOK /\ last \in Record \cup {None} /\ target \in Place(pages)
    BY InvFacts
<1>4. /\ phase # "wait" => busy = NoJob /\ Pending(cells, pages, Job)
      /\ phase = "command" => wel
      /\ up = "ready" /\ ~returned /\ storing \in Record /\ Job # NoJob
    BY <1>1 DEF IInv, CallInv, Job, NoJob
<1>5. CASE WriteEnable
  <2>1. phase = "wren" /\ phase' = "command" /\ wel' = TRUE /\ busy' = busy
      BY <1>4, <1>5 DEF WriteEnable, Enabled
  <2>2. TypeOK'
      BY <1>1, <1>2, <1>3, <2>1, TypeNext DEF IInv, TypeOK, FlashOK
  <2>3. QED
      BY <1>1, <1>2, <1>4, <2>1, <2>2 DEF IInv, CallInv, RestInv, Follows, Stored
<1>6. CASE SendCommand(Job)
  <2>1. phase = "command" /\ phase' = "wait" /\ wel' = wel /\ busy' = Job
      BY <1>4, <1>6 DEF SendCommand, Started
  <2>2. TypeOK'
      BY <1>1, <1>2, <1>3, <2>1, TypeNext DEF IInv, TypeOK, FlashOK
  <2>3. QED
      BY <1>1, <1>2, <1>4, <2>1, <2>2 DEF IInv, CallInv, RestInv, Follows, Stored
<1>7. QED
    BY <1>1, <1>5, <1>6

\* The driver has waited until the chip is ready.
LEMMA OspiReturnsStep ==
    ASSUME IInv, OspiReturns
    PROVE  IInv' /\ Follows
<1>1. /\ ext /\ pc # "idle" /\ phase = "wait" /\ busy = NoJob
      /\ phase' = "wren" /\ wel' = wel /\ busy' = NoJob
      /\ UNCHANGED <<build, cells, up, last>>
    BY DEF OspiReturns, WaitReady
<1>2. /\ up = "ready" /\ ~returned /\ storing \in Record /\ Done(cells, pages, Job)
    BY <1>1 DEF IInv, CallInv
<1>3. FlashOK /\ last \in Record \cup {None} /\ target \in Place(pages)
    BY InvFacts
<1>4. /\ pc \in {"erase", "program", "rest"}
      /\ pc = "erase" => pc' = "program" /\ Job' = <<"program", target, storing>>
      /\ pc = "program" => pc' = "rest" /\ Job' = <<"rest", target, storing>>
      /\ pc = "rest" => pc' = "idle" /\ storing' = None
      /\ pc # "rest" => storing' = storing
      /\ target' = target /\ returned' = (pc = "rest") /\ returned' \in BOOLEAN
    BY <1>1, Steps DEF OspiReturns
<1>5. pages' = pages /\ ext' = ext /\ cells' = cells /\ up' = up /\ last' = last
    BY <1>1 DEF build
<1>6. pc # "rest" => Pending(cells, pages, Job')
    BY <1>2, <1>3, <1>4, NextJob DEF FlashOK, Job
<1>7. TypeOK'
    BY <1>1, <1>2, <1>3, <1>4, <1>5, TypeNext DEF IInv, TypeOK, FlashOK
<1>8. IInv'
    BY <1>1, <1>2, <1>4, <1>5, <1>6, <1>7 DEF IInv, CallInv, RestInv
<1>9. Stored' = Stored
    BY <1>5 DEF Stored
<1>10. Follows
  <2>1. CASE pc = "rest"
    <3>1. NewestAt(cells, pages, target, storing)
        BY <1>2, <2>1 DEF Done, Job
    <3>2. PICK c \in Place(pages) : NewestAt(cells, pages, c, last)
        BY <1>3, <3>1 DEF FlashOK, InOrder, Newest, NewestAt
    <3>3. c = target
        BY <1>3, <3>1, <3>2, PlaceOrder DEF NewestAt, FlashOK
    <3>4. Stored' = storing
        BY <1>9, <3>1, <3>2, <3>3 DEF Stored, Value, NewestAt
    <3>5. QED
        BY <1>2, <1>4, <2>1, <3>4, Marks DEF Follows, Durable!Step, Durable!Succeed
  <2>2. CASE pc # "rest"
      BY <1>2, <1>4, <1>9, <2>2 DEF Follows, IInv, TypeOK
  <2>3. QED
      BY <2>1, <2>2
<1>11. QED
    BY <1>8, <1>10

\* The chip has done its job.
LEMMA JobEndsStep ==
    ASSUME IInv, JobEnds
    PROVE  IInv' /\ Follows
<1>1. /\ busy # NoJob /\ busy' = NoJob /\ wel' = FALSE /\ phase' = phase
      /\ cells' = Result(busy) /\ last' = LastOf(busy)
      /\ storing' = IF pc = "idle" THEN None ELSE storing
      /\ UNCHANGED <<build, pc, target, returned, up>>
    BY DEF JobEnds, JobDone
<1>2. ext /\ Pending(cells, pages, busy)
    BY <1>1 DEF IInv
<1>3. FlashOK /\ last \in Record \cup {None} /\ target \in Place(pages)
    BY InvFacts
<1>4. busy[1] \in {"erase", "program", "rest", "part"} /\ busy[3] \in Record
    BY <1>2, JobParts DEF Pending
<1>5. /\ cells' \in Flash(pages) /\ last' \in Record \cup {None}
      /\ InOrder(cells', pages, last')
      /\ busy[1] # "part" => Done(cells', pages, busy)
      /\ busy[1] = "erase" => Value(cells', pages, last') = None
      /\ busy[1] = "rest" => Value(cells', pages, last') = busy[3]
      /\ busy[1] \in {"program", "part"} =>
            Value(cells', pages, last') = Value(cells, pages, last)
    BY <1>1, <1>2, <1>3, JobEffect
<1>6. pages' = pages /\ ext' = ext /\ Job' = <<pc, target, storing'>>
    BY <1>1 DEF build, Job
<1>7. /\ pc = "idle" => storing = busy[3] /\ storing' = None
      /\ pc # "idle" => /\ storing' = storing /\ storing \in Record /\ up = "ready" /\ ~returned
                        /\ busy = Job /\ phase = "wait"
    BY <1>1 DEF IInv, CallInv, RestInv
<1>8. TypeOK'
  <2>1. storing' \in Record \cup {None}
      BY <1>7
  <2>2. QED
      BY <1>1, <1>2, <1>3, <1>5, <2>1, TypeNext DEF IInv, TypeOK
<1>9. CallInv'
  <2> SUFFICES ASSUME pc # "idle" PROVE CallInv'
      BY <1>1 DEF CallInv
  <2>1. Job' = Job /\ busy[1] # "part" /\ busy = Job
      BY <1>1, <1>6, <1>7 DEF Job, IInv, TypeOK
  <2>2. QED
      BY <1>1, <1>5, <1>6, <1>7, <2>1 DEF CallInv
<1>10. IInv'
    BY <1>1, <1>2, <1>5, <1>6, <1>7, <1>8, <1>9 DEF IInv, RestInv
<1>11. /\ Stored' = Value(cells', pages, last') /\ storing = busy[3] /\ storing # None
       /\ storing' \in {storing, None} /\ returned' = returned
    BY <1>1, <1>4, <1>6, <1>7, Marks DEF Stored, Job
<1>12. Follows
  <2>1. CASE busy[1] = "erase"
    <3>1. pages = 1
        BY <1>2, <2>1 DEF Pending, Safe
    <3>2. QED
        BY <1>5, <1>11, <2>1, <3>1 DEF Follows, Durable!Step, Durable!Forget
  <2>2. CASE busy[1] = "rest"
      BY <1>5, <1>11, <2>2 DEF Follows, Durable!Step, Durable!Commit
  <2>3. CASE busy[1] \in {"program", "part"}
    <3>1. Stored' = Stored
        BY <1>5, <1>11, <2>3 DEF Stored
    <3>2. QED
        BY <1>11, <3>1 DEF Follows, Durable!Step, Durable!Abandon
  <2>4. QED
      BY <1>4, <2>1, <2>2, <2>3
<1>13. QED
    BY <1>10, <1>12

\* An erase that is cut short leaves no record.
LEMMA HalfErasedFact ==
    ASSUME FlashOK, pages = 1, NEW g \in HalfErased(0)
    PROVE  g \in Flash(pages) /\ InOrder(g, pages, last) /\ Value(g, pages, last) = None
<1>1. PICK c \in [Slot -> {Erased, Corrupt}] : g = [cells EXCEPT ![0] = c]
    BY DEF HalfErased
<1>2. g = Wiped(cells, c) /\ cells \in Flash(1)
    BY <1>1 DEF Wiped, FlashOK
<1>3. g \in Flash(1) /\ Held(g, 1) = {} /\ InOrder(g, 1, last)
    BY <1>2, WipedInOrder
<1>4. QED
    BY <1>3 DEF Value

\* The invariant after a call has ended, from what has happened to the flash.
LEMMA EndedInv ==
    ASSUME IInv, UNCHANGED <<build, last>>, CallEnds, phase' = "wren", wel' \in BOOLEAN,
           up' \in {"no", up}, ~ext => up' = up /\ busy' = NoJob,
           cells' \in Flash(pages), InOrder(cells', pages, last),
           busy' # NoJob => Pending(cells', pages, busy') /\ busy'[3] = storing
    PROVE  IInv'
<1>1. /\ pc' = "idle" /\ storing' = (IF busy' = NoJob THEN None ELSE storing)
      /\ returned' = (returned /\ pc = "idle") /\ target' = target
      /\ pages' = pages /\ ext' = ext /\ last' = last
    BY DEF CallEnds, build
<1>2. storing' \in Record \cup {None} /\ returned' \in BOOLEAN
    BY <1>1 DEF IInv, TypeOK
<1>3. FlashOK /\ last \in Record \cup {None} /\ target \in Place(pages)
    BY InvFacts
<1>4. up' \in {"no", "ready", "failed"} /\ (~ext => up' = "ready")
    BY DEF IInv, TypeOK
<1>5. TypeOK'
    BY <1>1, <1>2, <1>3, <1>4, TypeNext DEF IInv
<1>6. QED
    BY <1>1, <1>5 DEF IInv, CallInv, RestInv

\* A call that ends leaves what is read back alone, or has forgotten it.
LEMMA EndedFollows ==
    ASSUME IInv, UNCHANGED <<build, last>>, CallEnds, busy # NoJob => busy'  \in {busy, NoJob},
           \/ Value(cells', pages, last) = Value(cells, pages, last)
           \/ /\ Value(cells', pages, last) = None
              /\ pages = 1 /\ (pc # "idle" \/ busy # NoJob)
    PROVE  Follows
<1>1. /\ storing' = (IF busy' = NoJob THEN None ELSE storing)
      /\ returned' = (returned /\ pc = "idle")
      /\ pages' = pages /\ ext' = ext /\ last' = last
    BY DEF CallEnds, build
<1>2. returned' = returned
    BY <1>1 DEF IInv, CallInv, TypeOK
<1>3. Stored' = Value(cells', pages, last) /\ Stored = Value(cells, pages, last)
    BY <1>1 DEF Stored
<1>4. storing' \in {storing, None}
    BY <1>1
<1>5. pc # "idle" \/ busy # NoJob => storing # None
  <2>1. busy # NoJob => busy[3] \in Record
      BY JobParts DEF IInv, Pending
  <2>2. QED
      BY <2>1, Marks DEF IInv, CallInv, RestInv
<1>6. CASE Stored' = Stored
  <2>1. CASE storing' = storing
      BY <1>2, <1>6, <2>1 DEF Follows
  <2>2. CASE storing' # storing
      BY <1>2, <1>4, <1>6, <2>2 DEF Follows, Durable!Step, Durable!Abandon
  <2>3. QED
      BY <2>1, <2>2
<1>7. CASE Stored' # Stored
    BY <1>2, <1>3, <1>4, <1>5, <1>7 DEF Follows, Durable!Step, Durable!Forget
<1>8. QED
    BY <1>6, <1>7

\* Power fails, or the flash refuses.
LEMMA CutShortStep ==
    ASSUME IInv, CutShort
    PROVE  IInv' /\ Follows
<1>1. /\ ~ext /\ pc # "idle" /\ phase = "wren" /\ busy = NoJob /\ Pending(cells, pages, Job)
      /\ UNCHANGED <<build, up, last, ospiVars>> /\ CallEnds
    BY DEF CutShort, IInv, CallInv
<1>2. FlashOK
    BY InvFacts
<1>3. /\ cells' \in Flash(pages) /\ InOrder(cells', pages, last)
      /\ \/ Value(cells', pages, last) = Value(cells, pages, last)
         \/ Value(cells', pages, last) = None /\ pages = 1
  <2>1. CASE pc = "erase"
    <3>1. pages = 1 /\ target = <<0, 0>> /\ target[1] = 0
        BY <1>1, <2>1 DEF Pending, Safe, Job
    <3>2. cells' = cells \/ cells' \in HalfErased(0)
        BY <2>1, <3>1 DEF CutShort
    <3>3. QED
        BY <1>2, <3>1, <3>2, HalfErasedFact DEF FlashOK
  <2>2. CASE pc # "erase"
    <3>1. cells' = cells
        BY <2>2 DEF CutShort
    <3>2. QED
        BY <1>2, <3>1 DEF FlashOK
  <2>3. QED
      BY <2>1, <2>2
<1>4. phase' = "wren" /\ wel' \in BOOLEAN /\ busy' = NoJob /\ up' = up
    BY <1>1 DEF ospiVars, IInv, TypeOK
<1>5. IInv'
    BY <1>1, <1>3, <1>4, EndedInv
<1>6. Follows
    BY <1>1, <1>3, <1>4, EndedFollows
<1>7. QED
    BY <1>5, <1>6

\* The bus fails.
LEMMA OspiFailsStep ==
    ASSUME IInv, OspiFails
    PROVE  IInv' /\ Follows
<1>1. /\ ext /\ pc # "idle" /\ StepFails(Job, Part) /\ CallEnds
      /\ UNCHANGED <<build, cells, up, last>>
    BY DEF OspiFails
<1>2. FlashOK /\ phase \in {"wren", "command", "wait"} /\ wel \in BOOLEAN
    BY InvFacts DEF IInv, TypeOK
<1>3. /\ phase # "wait" => busy = NoJob /\ Pending(cells, pages, Job)
      /\ phase = "wait" => busy \in {Job, NoJob}
      /\ busy # NoJob => Pending(cells, pages, busy)
    BY <1>1 DEF IInv, CallInv
<1>4. phase' = "wren" /\ wel' \in BOOLEAN
    BY <1>2 DEF OspiFails, StepFails, Enabled
<1>5. busy' \in {busy, Job, Part} /\ (busy' # busy => phase = "command")
    BY <1>1, <1>2 DEF StepFails, Started
<1>6. Pending(cells, pages, Job) => Pending(cells, pages, Part)
  <2>1. CASE pc = "erase"
      BY <2>1 DEF Part, Job
  <2>2. CASE pc # "erase"
      BY <2>2 DEF Part, Job, Pending, Safe
  <2>3. QED
      BY <2>1, <2>2
<1>7. Job[3] = storing /\ Part[3] = storing
    BY DEF Job, Part
<1>8. busy' # NoJob => Pending(cells', pages, busy') /\ busy'[3] = storing
  <2>1. CASE busy' = busy
      BY <1>1, <1>3, <1>7, <2>1
  <2>2. CASE busy' # busy
      BY <1>1, <1>3, <1>5, <1>6, <1>7, <2>2
  <2>3. QED
      BY <2>1, <2>2
<1>9. cells' = cells /\ up' = up
    BY <1>1
<1>10. IInv'
    BY <1>1, <1>2, <1>4, <1>8, <1>9, EndedInv DEF FlashOK
<1>11. busy # NoJob => busy' \in {busy, NoJob}
    BY <1>3, <1>5
<1>12. Follows
    BY <1>1, <1>9, <1>11, EndedFollows
<1>13. QED
    BY <1>10, <1>12

\* What is left of a call, and what the chip is doing then.
LEMMA JobIsStored ==
    ASSUME IInv, busy # NoJob
    PROVE  busy[3] = storing /\ Pending(cells, pages, busy)
BY DEF IInv, CallInv, RestInv, Job

\* The processor is reset.
LEMMA ResetStep ==
    ASSUME IInv, Reset
    PROVE  IInv' /\ Follows
<1>1. /\ ext /\ phase' = "wren" /\ wel' = wel /\ busy' = busy /\ up' = "no" /\ CallEnds
      /\ UNCHANGED <<build, cells, last>>
    BY DEF Reset, DriverReset
<1>2. FlashOK /\ wel \in BOOLEAN
    BY InvFacts DEF IInv, TypeOK
<1>3. IInv'
    BY <1>1, <1>2, JobIsStored, EndedInv DEF FlashOK
<1>4. Follows
    BY <1>1, EndedFollows
<1>5. QED
    BY <1>3, <1>4

\* Power fails.
LEMMA PowerFailStep ==
    ASSUME IInv, PowerFail
    PROVE  IInv' /\ Follows
<1>1. /\ ext /\ phase' = "wren" /\ wel' = FALSE /\ busy' = NoJob /\ up' = "no" /\ CallEnds
      /\ UNCHANGED <<build, last>>
    BY DEF PowerFail, PowerOff
<1>2. FlashOK /\ last \in Record \cup {None}
    BY InvFacts
<1>3. /\ cells' \in Flash(pages) /\ InOrder(cells', pages, last)
      /\ \/ Value(cells', pages, last) = Value(cells, pages, last)
         \/ Value(cells', pages, last) = None /\ pages = 1 /\ busy # NoJob
  <2>1. CASE busy = NoJob
    <3>1. cells' = cells
        BY <2>1 DEF PowerFail
    <3>2. QED
        BY <1>2, <3>1 DEF FlashOK
  <2>2. CASE busy # NoJob /\ busy[1] = "erase"
    <3>1. pages = 1 /\ busy[2] = <<0, 0>> /\ busy[2][1] = 0
        BY <2>2, JobIsStored DEF Pending, Safe
    <3>2. cells' \in HalfErased(0)
        BY <2>2, <3>1 DEF PowerFail
    <3>3. QED
        BY <1>2, <2>2, <3>1, <3>2, HalfErasedFact
  <2>3. CASE busy # NoJob /\ busy[1] # "erase"
    <3> DEFINE part == <<"part", busy[2], busy[3]>>
    <3>1. cells' \in {cells, Result(part)}
        BY <2>3 DEF PowerFail
    <3>2. Pending(cells, pages, part) /\ part[1] = "part"
        BY <2>3, JobIsStored, JobParts DEF Pending, Safe
    <3> HIDE DEF part
    <3>3. LastOf(part) = last
        BY <3>2 DEF LastOf
    <3>4. /\ Result(part) \in Flash(pages) /\ InOrder(Result(part), pages, last)
          /\ Value(Result(part), pages, last) = Value(cells, pages, last)
        BY <1>2, <3>2, <3>3, JobEffect
    <3>5. QED
        BY <1>2, <3>1, <3>4 DEF FlashOK
  <2>4. QED
      BY <2>1, <2>2, <2>3
<1>4. IInv'
    BY <1>1, <1>3, EndedInv
<1>5. Follows
    BY <1>1, <1>3, EndedFollows
<1>6. QED
    BY <1>4, <1>5

\* The external chip is looked for.
LEMMA FlashInitStep ==
    ASSUME IInv, FlashInit
    PROVE  IInv' /\ Follows
<1>1. /\ up = "no" /\ up' \in {"ready", "failed"}
      /\ UNCHANGED <<build, cells, call, last, ospiVars>>
    BY DEF FlashInit
<1>2. /\ pages' = pages /\ ext' = ext /\ cells' = cells /\ pc' = pc /\ target' = target
      /\ storing' = storing /\ returned' = returned /\ last' = last
      /\ phase' = phase /\ wel' = wel /\ busy' = busy
    BY <1>1 DEF build, call, ospiVars
<1>3. FlashOK /\ last \in Record \cup {None} /\ target \in Place(pages)
    BY InvFacts
<1>4. pc = "idle" /\ ext
    BY <1>1 DEF IInv, CallInv, TypeOK
<1>5. TypeOK'
    BY <1>1, <1>2, <1>3, <1>4, TypeNext DEF IInv, TypeOK, FlashOK
<1>6. IInv'
    BY <1>2, <1>4, <1>5 DEF IInv, CallInv, RestInv
<1>7. Follows
    BY <1>2 DEF Follows, Stored
<1>8. QED
    BY <1>6, <1>7

----------------------------------------------------------------------------
\* A store of several pages

\* What is written behind all records leaves the places before it in use and those
\* behind it erased.
LEMMA StillPacked ==
    ASSUME NEW n \in Nat, NEW f, NEW g, NEW t \in Place(n), NEW v,
           Beyond(f, n, t), Wrote(f, g, n, t, v), v # Erased
    PROVE  /\ Packed(f, n) => Packed(g, n)
           /\ Front(f, n, t) => Front(g, n, t)
<1>1. \A d \in Place(n) : At(g, d) = IF d = t THEN v ELSE At(f, d)
    BY DEF Wrote
<1>2. ASSUME Packed(f, n), NEW c \in Place(n), NEW d \in Place(n), Later(c, d), At(g, d) = Erased
      PROVE  At(g, c) = Erased
  <2>1. d # t /\ At(f, d) = Erased
      BY <1>1, <1>2
  <2>2. c # t
      BY <1>2, <2>1 DEF Beyond
  <2>3. QED
      BY <1>1, <1>2, <2>1, <2>2 DEF Packed
<1>3. ASSUME Front(f, n, t), NEW d \in Place(n), Later(d, t)
      PROVE  At(g, d) = Erased
    BY <1>1, <1>3, PlaceOrder DEF Front
<1>4. QED
    BY <1>2, <1>3 DEF Packed, Front

\* An operation, which is no erase when there are several pages.
LEMMA JobGrows ==
    ASSUME FlashOK, last \in Record \cup {None}, pages > 1, NEW job, Pending(cells, pages, job),
           Packed(cells, pages), last # None => Held(cells, pages) # {}
    PROVE  /\ job[1] # "erase"
           /\ Packed(Result(job), pages)
           /\ LastOf(job) # None => Held(Result(job), pages) # {}
           /\ Front(cells, pages, job[2]) => Front(Result(job), pages, job[2])
<1> DEFINE t == job[2]
           g == Result(job)
           c == CASE job[1] = "program" /\ cells[t[1]][t[2]] = Erased -> Torn
                  [] job[1] = "rest" /\ cells[t[1]][t[2]] = Torn -> job[3]
                  [] OTHER -> Corrupt
<1>1. /\ job[1] \in {"erase", "program", "rest", "part"}
      /\ t \in Place(pages) /\ job[3] \in Record /\ Safe(cells, pages, job)
    BY JobParts DEF Pending
<1>2. pages \in Nat \ {0} /\ cells \in Flash(pages)
    BY DEF FlashOK
<1>3. job[1] # "erase" /\ Beyond(cells, pages, t)
    BY <1>1, <1>2 DEF Safe
<1>4. g = Written(cells, t, c) /\ c \in Cell /\ c # Erased
    BY <1>1, <1>3, Marks DEF Result, Written, Cell
<1>5. Wrote(cells, g, pages, t, c)
    BY <1>1, <1>2, <1>4, WriteOne
<1> HIDE DEF c
<1>6. Packed(g, pages) /\ (Front(cells, pages, t) => Front(g, pages, t))
  <2> HIDE DEF t, g
  <2>1. pages \in Nat /\ t \in Place(pages)
      BY <1>1, <1>2
  <2>2. QED
      BY <1>3, <1>4, <1>5, <2>1, StillPacked
<1>7. LastOf(job) # None => Held(g, pages) # {}
  <2>1. CASE job[1] = "rest"
    <3>1. Value(g, pages, LastOf(job)) = job[3]
        BY <2>1, JobEffect
    <3>2. QED
        BY <1>1, <3>1, Marks DEF Value
  <2>2. CASE job[1] \in {"program", "part"}
    <3>1. LastOf(job) = last /\ Value(g, pages, LastOf(job)) = Value(cells, pages, last)
        BY <2>2, JobEffect DEF LastOf
    <3>2. QED
        BY <3>1 DEF Value
  <2>3. QED
      BY <1>1, <1>3, <2>1, <2>2
<1>8. QED
    BY <1>3, <1>6, <1>7

\* A step that leaves the flash alone, and ends no call with success.
LEMMA GrowingIdle ==
    ASSUME Growing, pages' = pages, cells' = cells, last' = last,
           \/ pc' # "idle" /\ pc # "idle" /\ target' = target
           \/ pc' = "idle" /\ ~returned'
           \/ /\ pc' = "idle" /\ pc = "idle" /\ returned' = returned /\ target' = target
              /\ busy = NoJob => busy' = NoJob
    PROVE  Growing'
BY DEF Growing

\* A step that writes.
LEMMA GrowingWritten ==
    ASSUME IInv, Growing, NEW job, Pending(cells, pages, job), pages' = pages,
           cells' = Result(job), last' = LastOf(job), target' = target,
           pc # "idle" => job[2] = target,
           \/ pc' # "idle" /\ pc # "idle"
           \/ pc' = "idle" /\ ~returned'
           \/ /\ pc' = "idle" /\ pc # "idle" /\ busy' = NoJob
              /\ NewestAt(cells', pages, target, last')
    PROVE  Growing'
<1> SUFFICES ASSUME pages > 1 PROVE Growing'
    BY DEF Growing
<1>1. FlashOK /\ last \in Record \cup {None}
    BY InvFacts
<1>2. /\ Packed(cells', pages)
      /\ last' # None => Held(cells', pages) # {}
      /\ pc # "idle" => Front(cells', pages, target)
    BY <1>1, JobGrows DEF Growing
<1>3. QED
    BY <1>2 DEF Growing

\* Every step keeps the store growing.
LEMMA GrowingStep ==
    ASSUME Patient, ~MayWrap, IInv, IInv', Growing, Next
    PROVE  Growing'
<1> USE DEF build, call, ospiVars
<1>1. CASE WriteAppend
  <2>1. /\ pc = "idle" /\ ~returned' /\ pages' = pages /\ cells' = cells /\ last' = last
        /\ busy' = busy
      BY <1>1 DEF WriteAppend
  <2>2. pc' \in {"erase", "program"} /\ busy = NoJob /\ phase' = phase /\ phase = "wren"
      BY <1>1 DEF WriteAppend, IInv, TypeOK
  <2>3. Pending(cells, pages, <<pc', target', storing'>>)
      BY <2>1, <2>2 DEF IInv, CallInv, Job
  <2>4. pages > 1 => /\ target' \in Place(pages) /\ At(cells, target') = Erased
    <3>1. pages > 1 => pc' = "program"
        BY <2>2, <2>3 DEF Pending, Safe
    <3>2. QED
        BY <2>3, <3>1 DEF Pending, Safe
  <2>5. pages > 1 => Front(cells, pages, target')
      BY <2>4 DEF Growing, Packed, Front
  <2>6. QED
      BY <2>1, <2>2, <2>5 DEF Growing
<1>2. CASE Operate
  <2>1. /\ pc # "idle" /\ pages' = pages /\ cells' = Result(Job) /\ last' = LastOf(Job)
        /\ Pending(cells, pages, Job) /\ busy' = NoJob
      BY <1>2 DEF Operate, IInv, CallInv
  <2>2. /\ pc \in {"erase", "program", "rest"} /\ target' = target
        /\ pc # "rest" => pc' # "idle"
        /\ pc = "rest" => pc' = "idle"
      BY <1>2, <2>1, Steps DEF Operate
  <2>3. Job[1] = pc /\ Job[2] = target
      BY DEF Job
  <2>4. pc = "rest" => NewestAt(cells', pages, target, last')
    <3> SUFFICES ASSUME pc = "rest" PROVE NewestAt(cells', pages, target, last')
        OBVIOUS
    <3>1. Done(cells', pages, Job) /\ Job[3] = storing /\ storing \in Record
      <4>1. FlashOK /\ last \in Record \cup {None}
          BY InvFacts
      <4>2. QED
          BY <2>1, <2>3, <4>1, JobEffect DEF Job, IInv, CallInv
    <3>2. NewestAt(cells', pages, target, storing)
        BY <2>3, <3>1 DEF Done
    <3>3. PICK c \in Place(pages) : NewestAt(cells', pages, c, last')
        BY <2>1, <3>2 DEF IInv, InOrder, Newest, NewestAt
    <3>4. target \in Place(pages) /\ pages \in Nat
        BY InvFacts DEF FlashOK
    <3>5. c = target
        BY <3>2, <3>3, <3>4, PlaceOrder DEF NewestAt
    <3>6. QED
        BY <3>3, <3>5
  <2> HIDE DEF Job
  <2>5. QED
      BY <2>1, <2>2, <2>3, <2>4, GrowingWritten
<1>3. CASE OspiStep
  <2>1. /\ pc # "idle" /\ pc' = pc /\ pages' = pages /\ cells' = cells /\ last' = last
        /\ target' = target
      BY <1>3 DEF OspiStep
  <2>2. QED
      BY <2>1, GrowingIdle
<1>4. CASE OspiReturns
  <2>1. /\ pc # "idle" /\ pages' = pages /\ cells' = cells /\ last' = last
        /\ phase = "wait" /\ busy = NoJob /\ busy' = NoJob
      BY <1>4 DEF OspiReturns, WaitReady
  <2>2. /\ pc \in {"erase", "program", "rest"} /\ target' = target
        /\ pc # "rest" => pc' # "idle"
        /\ pc = "rest" => pc' = "idle"
      BY <1>4, <2>1, Steps DEF OspiReturns
  <2>3. CASE pc # "rest"
      BY <2>1, <2>2, <2>3, GrowingIdle
  <2>4. CASE pc = "rest"
    <3>1. NewestAt(cells, pages, target, storing)
        BY <2>1, <2>4 DEF IInv, CallInv, Done, Job
    <3>2. PICK c \in Place(pages) : NewestAt(cells, pages, c, last)
        BY <3>1 DEF IInv, InOrder, Newest, NewestAt
    <3>3. target \in Place(pages) /\ pages \in Nat
        BY InvFacts DEF FlashOK
    <3>4. c = target
        BY <3>1, <3>2, <3>3, PlaceOrder DEF NewestAt
    <3>5. QED
        BY <2>1, <2>2, <2>4, <3>2, <3>4 DEF Growing
  <2>5. QED
      BY <2>3, <2>4
<1>5. CASE JobEnds
  <2>1. /\ busy # NoJob /\ cells' = Result(busy) /\ last' = LastOf(busy)
        /\ pages' = pages /\ pc' = pc /\ target' = target /\ returned' = returned
        /\ Pending(cells, pages, busy)
      BY <1>5 DEF JobEnds, JobDone, IInv
  <2>2. pc # "idle" => busy[2] = target
      BY <2>1 DEF IInv, CallInv, Job
  <2>3. CASE pc # "idle" \/ ~returned
      BY <2>1, <2>2, <2>3, GrowingWritten
  <2>4. CASE pc = "idle" /\ returned
      BY <2>1, <2>4 DEF Growing
  <2>5. QED
      BY <2>3, <2>4
<1>6. CASE CutShort
  <2>1. /\ pc # "idle" /\ pages' = pages /\ last' = last /\ pc' = "idle" /\ ~returned'
      BY <1>6 DEF CutShort, CallEnds
  <2>2. pages > 1 => cells' = cells
    <3>1. pages > 1 => pc # "erase"
        BY <1>6 DEF CutShort, IInv, CallInv, Pending, Safe, Job
    <3>2. QED
        BY <1>6, <3>1 DEF CutShort
  <2>3. QED
      BY <2>1, <2>2, GrowingIdle DEF Growing
<1>7. CASE OspiFails
  <2>1. /\ pc # "idle" /\ pages' = pages /\ cells' = cells /\ last' = last
        /\ pc' = "idle" /\ ~returned'
      BY <1>7 DEF OspiFails, CallEnds
  <2>2. QED
      BY <2>1, GrowingIdle
<1>8. CASE Reset
  <2>1. /\ pages' = pages /\ cells' = cells /\ last' = last /\ pc' = "idle"
        /\ returned' = (returned /\ pc = "idle") /\ target' = target /\ busy' = busy
      BY <1>8 DEF Reset, DriverReset, CallEnds
  <2>2. pc # "idle" => ~returned'
      BY <2>1
  <2>3. QED
      BY <2>1, <2>2, GrowingIdle DEF IInv, TypeOK
<1>9. CASE PowerFail
  <2>1. /\ pages' = pages /\ last' = last /\ pc' = "idle"
        /\ returned' = (returned /\ pc = "idle") /\ target' = target /\ busy' = NoJob
      BY <1>9 DEF PowerFail, PowerOff, CallEnds
  <2>2. CASE cells' = cells
    <3>1. pc # "idle" => ~returned'
        BY <2>1
    <3>2. QED
        BY <2>1, <2>2, <3>1, GrowingIdle DEF IInv, TypeOK
  <2>3. CASE cells' # cells
    <3> SUFFICES ASSUME pages > 1 PROVE Growing'
        BY <2>1 DEF Growing
    <3>1. busy # NoJob
        BY <1>9, <2>3 DEF PowerFail
    <3>2. busy[3] = storing /\ Pending(cells, pages, busy)
        BY <3>1, JobIsStored
    <3>3. busy[1] # "erase"
        BY <3>2 DEF Pending, Safe
    <3> DEFINE part == <<"part", busy[2], busy[3]>>
    <3>4. cells' = Result(part)
        BY <1>9, <2>3, <3>1, <3>3 DEF PowerFail
    <3>5. Pending(cells, pages, part) /\ part[1] = "part" /\ part[2] = busy[2]
        BY <3>2, <3>3, JobParts DEF Pending, Safe
    <3>6. pc # "idle" => busy[2] = target
        BY <3>1 DEF IInv, CallInv, Job
    <3> HIDE DEF part
    <3>7. LastOf(part) = last
        BY <3>5 DEF LastOf
    <3>8. ~returned'
        BY <2>1, <3>1 DEF Growing
    <3>9. QED
        BY <2>1, <3>4, <3>5, <3>6, <3>7, <3>8, GrowingWritten
  <2>4. QED
      BY <2>2, <2>3
<1>10. CASE FlashInit
  <2>1. /\ pages' = pages /\ cells' = cells /\ last' = last /\ pc' = pc /\ target' = target
        /\ returned' = returned /\ busy' = busy
      BY <1>10 DEF FlashInit
  <2>2. QED
      BY <2>1, GrowingIdle
<1>11. QED
    BY <1>1, <1>2, <1>3, <1>4, <1>5, <1>6, <1>7, <1>8, <1>9, <1>10 DEF Next

----------------------------------------------------------------------------
\* The theorems

\* The store starts empty and in order.
LEMMA InitInv ==
    ASSUME Init
    PROVE  IInv /\ Durable!Start
<1>1. /\ pages \in Nat \ {0} /\ pages \in 1..MaxPages /\ ext \in BOOLEAN
      /\ up \in {"no", "ready", "failed"} /\ (~ext => up = "ready")
      /\ cells = [p \in 0..(pages - 1) |-> ErasedPage] /\ pc = "idle" /\ target = <<0, 0>>
      /\ storing = None /\ last = None /\ returned = FALSE
      /\ phase = "wren" /\ wel = FALSE /\ busy = NoJob
    BY NvmAssumption DEF Init, OspiInit, Page
<1>2. cells \in Flash(pages)
    BY <1>1 DEF Flash, ErasedPage, Cell
<1>3. \A d \in Place(pages) : At(cells, d) = Erased
    BY <1>1 DEF Place, At, ErasedPage
<1>4. Held(cells, pages) = {}
    BY <1>3, Marks DEF Held
<1>5. InOrder(cells, pages, last)
    BY <1>3, <1>4 DEF InOrder, RecordsInOrder, PagesInOrder, Newest
<1>6. target \in Page \X Slot
    BY <1>1, NvmAssumption DEF Page, Slot
<1>7. TypeOK
    BY <1>1, <1>2, <1>6 DEF TypeOK, Flash, Cell, Page
<1>8. IInv
    BY <1>1, <1>5, <1>7 DEF IInv, CallInv, RestInv
<1>9. QED
    BY <1>1, <1>4, <1>8 DEF Durable!Start, Stored, Value

\* Every step keeps the invariant and is one of the abstract store.
LEMMA StepInv ==
    ASSUME Patient, ~MayWrap, IInv, [Next]_vars
    PROVE  IInv' /\ Follows /\ pages' = pages
<1>1. CASE Next
  <2>1. IInv' /\ Follows
      BY <1>1, WriteAppendStep, OperateStep, OspiStepStep, OspiReturnsStep, JobEndsStep,
         CutShortStep, OspiFailsStep, ResetStep, PowerFailStep, FlashInitStep DEF Next
  <2>2. pages' = pages
      BY <1>1 DEF Next, WriteAppend, Operate, OspiStep, OspiReturns, JobEnds, CutShort,
                  OspiFails, Reset, PowerFail, FlashInit, build
  <2>3. QED
      BY <2>1, <2>2
<1>2. CASE UNCHANGED vars
    BY <1>2 DEF vars, build, call, ospiVars, IInv, TypeOK, CallInv, RestInv, Page, Job,
                Follows, Stored
<1>3. QED
    BY <1>1, <1>2

\* The records are in the order in which they were written, whatever has failed
\* meanwhile, and a call that is in progress works behind them.
THEOREM Invariance ==
    ASSUME Patient, ~MayWrap
    PROVE  Spec => []IInv
<1>1. Init => IInv
    BY InitInv
<1>2. IInv /\ [Next]_vars => IInv'
    BY StepInv
<1>3. QED
    BY <1>1, <1>2, PTL DEF Spec

\* The places of a store of several pages are used one after the other, none of its
\* records goes, and the record of a call that has returned true is in the last of them.
THEOREM StoreGrows ==
    ASSUME Patient, ~MayWrap
    PROVE  Spec => []Growing
<1>1. Init => Growing
  <2> SUFFICES ASSUME Init PROVE Growing
      OBVIOUS
  <2>1. /\ cells = [p \in 0..(pages - 1) |-> ErasedPage] /\ pc = "idle" /\ last = None /\ ~returned
      BY DEF Init, Page
  <2>2. Packed(cells, pages)
      BY <2>1 DEF Packed, Place, At, ErasedPage
  <2>3. QED
      BY <2>1, <2>2 DEF Growing
<1>2. IInv /\ IInv' /\ Growing /\ [Next]_vars => Growing'
  <2>1. IInv /\ IInv' /\ Growing /\ Next => Growing'
      BY GrowingStep
  <2>2. Growing /\ UNCHANGED vars => Growing'
      BY DEF vars, build, call, ospiVars, Growing
  <2>3. QED
      BY <2>1, <2>2
<1>3. QED
    BY <1>1, <1>2, Invariance, PTL DEF Spec

\* LatestIsLast: when no write is in progress BSP_Flash_ReadLatest returns no complete
\* record but the last one, and in a store of several pages that is not written beyond
\* its last one it returns the record of a call that has returned true, until the next
\* call, and a record or the rest of one for ever after the first.
THEOREM ReadsLast ==
    ASSUME Patient, ~MayWrap
    PROVE  Spec => []LatestIsLast
<1>1. ASSUME IInv, Growing PROVE LatestIsLast
  <2>1. FlashOK /\ TypeOK
      BY <1>1, InvFacts DEF IInv
  <2>2. ReadLatest \in Record => ReadLatest = last
      BY <2>1, LatestIsNewest
  <2>3. pages > 1 /\ pc = "idle" /\ returned => ReadLatest = last
      BY <1>1, <2>1, LatestIsThere DEF Growing
  <2>4. ASSUME pages > 1, last # None PROVE ReadLatest # None
    <3>1. PICK c \in Held(cells, pages) : TRUE
        BY <1>1, <2>4 DEF Growing
    <3>2. UsedPages # {}
        BY <2>1, HeldIsUsed
    <3>3. QED
        BY <2>1, <3>2, LatestPlace DEF None, Erased
  <2>5. QED
      BY <2>1, <2>2, <2>3, <2>4 DEF LatestIsLast
<1>2. QED
    BY <1>1, Invariance, StoreGrows, PTL

\* What validation lets through is the last record, in every state.
LEMMA ReadsStored == IInv => ReadValidated = Stored
BY InvFacts, ValidatedIsLast DEF Stored, Value

\* The same at the end of a step.
LEMMA ReadsStoredNext == IInv' => ReadValidated' = Stored'
<1>1. IInv => ReadValidated = Stored
    BY ReadsStored
<1>2. IInv' => (ReadValidated = Stored)'
    BY <1>1, PTL
<1>3. QED
    BY <1>2

\* The store keeps one value across failures at any step
\* (ImplementsDurableValue).
THEOREM KeepsOneValue ==
    ASSUME Patient, ~MayWrap
    PROVE  Spec => ImplementsDurableValue
<1>1. Init => Store!Start
    BY InitInv, ReadsStored DEF Store!Start, Durable!Start
<1>2. IInv /\ IInv' /\ [Next]_vars =>
          [Store!Step /\ UNCHANGED (pages = 1)]_<<ReadValidated, storing, returned, pages = 1>>
  <2> SUFFICES ASSUME IInv, IInv', [Next]_vars
               PROVE  \/ Store!Step /\ UNCHANGED (pages = 1)
                      \/ UNCHANGED <<ReadValidated, storing, returned, pages = 1>>
      OBVIOUS
  <2>1. ReadValidated = Stored /\ ReadValidated' = Stored'
      BY ReadsStored, ReadsStoredNext
  <2>2. Follows /\ (pages = 1)' = (pages = 1)
      BY StepInv
  <2>3. Store!Step \/ UNCHANGED <<ReadValidated, storing, returned>>
      BY <2>1, <2>2 DEF Follows, Store!Step, Durable!Step, Store!Begin, Durable!Begin,
         Store!Commit, Durable!Commit, Store!Succeed, Durable!Succeed, Store!Forget,
         Durable!Forget, Store!Abandon, Durable!Abandon
  <2>4. QED
      BY <2>2, <2>3
<1>3. QED
    BY <1>1, <1>2, Invariance, PTL DEF Spec, ImplementsDurableValue, Store!DurableSpec
=============================================================================
