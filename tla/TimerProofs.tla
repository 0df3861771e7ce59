---------------------------- MODULE TimerProofs ----------------------------
(***************************************************************************)
(* Theorems about Timer, for every number of timers, every wrap, period    *)
(* and sleep that TimerAssumption allows, when callbacks leave other       *)
(* running timers alone.                                                   *)
(*                                                                         *)
(* The argument: whatever is compared lies less than half a wrap apart, so *)
(* the signed difference of two deadlines is the difference of the times   *)
(* the timers have left, and the list is in the order of these times.  A   *)
(* timer is late by less than the two sleeps that may precede its update.  *)
(* While a callback runs, the node the update saved is the first of the    *)
(* list as long as any timer is due, so no timer that is due is passed by. *)
(***************************************************************************)
EXTENDS Timer, Lemmas

\* What the assumption says of the constants.
LEMMA Numbers ==
    /\ Wrap \in Nat \ {0} /\ MaxPeriod \in Nat \ {0} /\ MaxSleep \in Nat \ {0} /\ WfiMax \in Nat
    /\ 2 * (MaxPeriod + 2 * MaxSleep) < Wrap
    /\ IsFiniteSet(Node) /\ Sentinel \notin Timer /\ Node = Timer \cup {Sentinel}
<1>1. IsFiniteSet({Sentinel}) /\ IsFiniteSet(Timer)
    BY FS_Singleton, TimerAssumption
<1>2. IsFiniteSet(Node)
    BY <1>1, FS_Union DEF Node
<1>3. QED
    BY <1>2, TimerAssumption DEF Node

\* time_diff of two ticks is the signed way from one to the other if it is short,
LEMMA DiffIs ==
    ASSUME NEW a \in 0..(Wrap - 1), NEW b \in 0..(Wrap - 1), NEW x \in Int,
           (b + x) % Wrap = a, 0 - Wrap <= 2 * x, 2 * x < Wrap
    PROVE  Diff(a, b) = x
<1>1. Wrap \in Nat \ {0} /\ b % Wrap = b /\ b \in Int
    BY Numbers, SmallRemainder
<1>2. CASE x >= 0
  <2>1. (b + x) - b \in 0..(Wrap - 1) /\ (b + x) - b = x /\ b + x \in Int
      BY <1>1, <1>2
  <2>2. (a - b) % Wrap = x
      BY <1>1, <2>1, WrapDistance
  <2>3. QED
      BY <1>1, <2>2 DEF Diff
<1>3. CASE x < 0
  <2> DEFINE y == x + Wrap
  <2>1. y \in Int /\ (b + y) - b = y /\ y \in 0..(Wrap - 1) /\ b + y \in Int /\ 2 * y >= Wrap
      BY <1>1, <1>3
  <2>2. (b + y) % Wrap = a
    <3>1. (b + x) \div Wrap \in Int /\ b + x = Wrap * ((b + x) \div Wrap) + a
        BY <1>1, DivisionFact
    <3>2. b + y = Wrap * (((b + x) \div Wrap) + 1) + a
        BY <1>1, <3>1
    <3>3. QED
        BY <1>1, <3>1, <3>2, <2>1, RemainderOf
  <2> HIDE DEF y
  <2>3. (a - b) % Wrap = y
      BY <1>1, <2>1, <2>2, WrapDistance
  <2>4. QED
      BY <1>1, <2>1, <2>3 DEF Diff, y
<1>4. QED
    BY <1>2, <1>3, <1>1

\* and always leads from one to the other.
LEMMA DiffLeads ==
    ASSUME NEW a \in 0..(Wrap - 1), NEW b \in 0..(Wrap - 1)
    PROVE  Diff(a, b) \in Int /\ (b + Diff(a, b)) % Wrap = a
<1> DEFINE d == (a - b) % Wrap
<1>1. Wrap \in Nat \ {0} /\ a - b \in Int
    BY Numbers
<1>2. d \in 0..(Wrap - 1) /\ (a - b) \div Wrap \in Int /\ a - b = Wrap * ((a - b) \div Wrap) + d
    BY <1>1, DivisionFact
<1> HIDE DEF d
<1> DEFINE k == (a - b) \div Wrap
<1>3. k \in Int /\ a - b = Wrap * k + d
    BY <1>2
<1> HIDE DEF k
<1>4. Diff(a, b) = d \/ Diff(a, b) = d - Wrap
    BY DEF Diff, d
<1>5. b + d = Wrap * (0 - k) + a /\ b + (d - Wrap) = Wrap * (0 - k - 1) + a
    BY <1>1, <1>2, <1>3
<1>6. (b + d) % Wrap = a /\ (b + (d - Wrap)) % Wrap = a
  <2>1. 0 - k \in Int /\ 0 - k - 1 \in Int /\ b + d \in Int /\ b + (d - Wrap) \in Int
      BY <1>1, <1>2, <1>3
  <2>2. QED
      BY <1>1, <1>5, <2>1, RemainderOf
<1>7. QED
    BY <1>1, <1>2, <1>4, <1>6

\* Deadlines that are x and y away from the tick are x - y away from each other.
LEMMA DiffOfDeadlines ==
    ASSUME NEW now \in 0..(Wrap - 1), NEW x \in Int, NEW y \in Int,
           NEW a \in 0..(Wrap - 1), NEW b \in 0..(Wrap - 1),
           (now + x) % Wrap = a, (now + y) % Wrap = b,
           0 - Wrap <= 2 * (x - y), 2 * (x - y) < Wrap
    PROVE  Diff(a, b) = x - y
<1>1. Wrap \in Nat \ {0} /\ now + y \in Int /\ x - y \in Int /\ (now + y) + (x - y) = now + x
    BY Numbers
<1>2. (b + (x - y)) % Wrap = a
  <2>1. (((now + y) % Wrap) + (x - y)) % Wrap = ((now + y) + (x - y)) % Wrap
      BY <1>1, WrapSum
  <2>2. QED
      BY <1>1, <2>1
<1>3. QED
    BY <1>1, <1>2, DiffIs

\* When the tick advances, every deadline comes nearer.
LEMMA DiffAfter ==
    ASSUME NEW now \in 0..(Wrap - 1), NEW a \in 0..(Wrap - 1), NEW n \in Nat,
           0 - Wrap <= 2 * (Diff(a, now) - n), 2 * (Diff(a, now) - n) < Wrap
    PROVE  Diff(a, After(now, n)) = Diff(a, now) - n /\ After(now, n) \in 0..(Wrap - 1)
<1> DEFINE x == Diff(a, now)
           b == After(now, n)
<1>1. Wrap \in Nat \ {0} /\ x \in Int /\ (now + x) % Wrap = a
    BY Numbers, DiffLeads
<1> HIDE DEF x
<1>2. now + n \in Int /\ x - n \in Int /\ (now + n) + (x - n) = now + x
    BY <1>1
<1>3. b \in 0..(Wrap - 1)
    BY <1>1, <1>2, DivisionFact DEF After
<1>4. (b + (x - n)) % Wrap = a
  <2>1. (((now + n) % Wrap) + (x - n)) % Wrap = ((now + n) + (x - n)) % Wrap
      BY <1>1, <1>2, WrapSum
  <2>2. QED
      BY <1>1, <1>2, <2>1 DEF After
<1> HIDE DEF b
<1>5. Diff(a, b) = x - n
    BY <1>2, <1>3, <1>4, DiffIs DEF x
<1>6. QED
    BY <1>3, <1>5 DEF x, b

\* A deadline set n milliseconds ahead is n away.
LEMMA DiffOfAfter ==
    ASSUME NEW now \in 0..(Wrap - 1), NEW n \in Nat, 2 * n < Wrap
    PROVE  After(now, n) \in 0..(Wrap - 1) /\ Diff(After(now, n), now) = n
<1>1. Wrap \in Nat \ {0} /\ now + n \in Int
    BY Numbers
<1>2. After(now, n) \in 0..(Wrap - 1) /\ (now + n) % Wrap = After(now, n)
    BY <1>1, DivisionFact DEF After
<1>3. QED
    BY <1>1, <1>2, DiffIs

----------------------------------------------------------------------------
\* The active list l with the timers R in the order of K
ListOK(l, R, pos) ==
    /\ l \in LinksOf(Node)
    /\ Coherent(l)
    /\ Ring(l, Sentinel, R, pos)
    /\ R \subseteq Timer
    /\ \A t \in Timer \ R : l.next[t] = t

\* Along the list, K does not fall.
Sorted(R, pos, K) == \A s, u \in R : pos[s] < pos[u] => K[s] <= K[u]

\* The first timer of the list is one of those that expire first.
LEMMA FirstExpiresFirst ==
    ASSUME NEW l, NEW R, NEW pos, NEW K, ListOK(l, R, pos), Sorted(R, pos, K),
           \A t \in R : K[t] \in Int
    PROVE  /\ R = {} <=> l.next[Sentinel] = Sentinel
           /\ R # {} => l.next[Sentinel] \in R
           /\ \A t \in R : K[l.next[Sentinel]] <= K[t]
<1>1. Ring(l, Sentinel, R, pos) /\ Sentinel \notin R
    BY DEF ListOK, Ring
<1>2. ASSUME NEW t \in R
      PROVE  /\ l.next[Sentinel] \in R /\ l.next[Sentinel] # Sentinel
             /\ K[l.next[Sentinel]] <= K[t]
  <2>1. /\ l.next[Sentinel] \in R /\ l.next[Sentinel] # Sentinel
        /\ t = l.next[Sentinel] \/ pos[l.next[Sentinel]] < pos[t]
      BY <1>1, FirstIsFirst
  <2>2. QED
      BY <2>1 DEF Sorted
<1>3. R = {} => l.next[Sentinel] = Sentinel
    BY <1>1 DEF Ring
<1>4. QED
    BY <1>2, <1>3

\* timer_insert_sorted keeps the order.
LEMMA InsertSortedOK ==
    ASSUME NEW l, NEW R, NEW pos, NEW K, ListOK(l, R, pos), Sorted(R, pos, K),
           NEW t \in Timer, t \notin R, NEW dl, NEW l2, l2 = InsertSorted(l, dl, t),
           \A u \in R \cup {t} : K[u] \in Int,
           \A u \in R : Diff(dl[u], dl[t]) > 0 <=> K[u] > K[t]
    PROVE  /\ \E pos2 : ListOK(l2, R \cup {t}, pos2) /\ Sorted(R \cup {t}, pos2, K)
           /\ R # {} /\ K[l.next[Sentinel]] <= K[t] => l2.next[Sentinel] = l.next[Sentinel]
<1> DEFINE c == Chain(l, Sentinel)
           later == {i \in 1..Len(c) : Diff(dl[c[i]], dl[t]) > 0}
           i == CHOOSE i \in later : \A j \in later : i <= j
           p == IF later = {} THEN Sentinel ELSE c[i]
<1>1. l2 = InsertBetween(l, t, l.prev[p], p)
    BY DEF InsertSorted
<1>2. Ring(l, Sentinel, R, pos) /\ Sentinel \notin R /\ l \in LinksOf(Node) /\ Coherent(l)
    BY DEF ListOK, Ring
<1>3. /\ Len(c) \in Nat /\ c \in [1..Len(c) -> R]
      /\ \A s \in R : \E j \in 1..Len(c) : c[j] = s
      /\ \A x, y \in 1..Len(c) : x < y => pos[c[x]] < pos[c[y]]
    BY <1>2, ChainFacts
<1> HIDE DEF c
<1>4. \A u \in R : pos[u] \in Nat /\ u \in Timer /\ u # t
    BY <1>2 DEF Ring, ListOK
\* Everyone in front of p stays in front of t, everyone else stays behind it.
<1>5. /\ p \in R \cup {Sentinel}
      /\ \A u \in R : IF p = Sentinel \/ pos[u] < pos[p] THEN K[u] <= K[t] ELSE K[u] > K[t]
  <2>1. CASE later = {}
    <3>1. ASSUME NEW u \in R PROVE K[u] <= K[t]
      <4>1. PICK j \in 1..Len(c) : c[j] = u
          BY <1>3
      <4>2. ~(Diff(dl[u], dl[t]) > 0)
          BY <2>1, <4>1
      <4>3. ~(K[u] > K[t])
          BY <4>2
      <4>4. QED
          BY <4>3
    <3>2. QED
        BY <2>1, <3>1
  <2>2. CASE later # {}
    <3>1. \E x \in later : \A y \in later : x <= y
      <4>1. later \subseteq Nat
          OBVIOUS
      <4> HIDE DEF later
      <4>2. QED
          BY <2>2, <4>1, LeastMember
    <3>2. i \in later /\ \A y \in later : i <= y
      <4> HIDE DEF later
      <4>1. QED
          BY <3>1
    <3> HIDE DEF i
    <3>3. i \in 1..Len(c) /\ p = c[i] /\ p \in R /\ p # Sentinel /\ Diff(dl[p], dl[t]) > 0
        BY <1>2, <1>3, <2>2, <3>2
    <3>4. \A j \in 1..Len(c) : j < i => ~(Diff(dl[c[j]], dl[t]) > 0)
        BY <1>3, <3>2
    <3> HIDE DEF p, later
    <3>5. K[p] > K[t] /\ K[p] \in Int /\ K[t] \in Int
        BY <3>3
    <3>6. ASSUME NEW u \in R, pos[u] < pos[p] PROVE K[u] <= K[t]
      <4>1. PICK j \in 1..Len(c) : c[j] = u
          BY <1>3
      <4>2. j < i
        <5>1. i < j => pos[p] < pos[u]
            BY <1>3, <3>3, <4>1
        <5>2. i # j
            BY <1>4, <3>3, <3>6, <4>1
        <5>3. QED
            BY <1>3, <1>4, <3>3, <3>6, <4>1, <5>1, <5>2
      <4>3. ~(Diff(dl[u], dl[t]) > 0)
          BY <3>4, <4>1, <4>2
      <4>4. QED
          BY <4>3
    <3>7. ASSUME NEW u \in R, ~(pos[u] < pos[p]) PROVE K[u] > K[t]
      <4>1. u = p \/ pos[p] < pos[u]
          BY <1>2, <3>3, <3>7, LastIsLast
      <4>2. u = p \/ K[p] <= K[u]
          BY <3>3, <4>1 DEF Sorted
      <4>3. QED
          BY <3>5, <4>2
    <3>8. QED
        BY <3>3, <3>6, <3>7
  <2>3. QED
      BY <2>1, <2>2
<1> HIDE DEF p
<1>6. t \in Node /\ t # Sentinel /\ l.next[t] = t
    BY Numbers DEF ListOK
<1>7. Inserted(Node, l, Sentinel, R, pos, t, p, l2)
  <2> HIDE DEF later, i
  <2>1. QED
      BY <1>1, <1>2, <1>5, <1>6, InsertKeepsRing
<1>8. PICK pos2 : Placed(l2, Sentinel, R, pos, t, p, pos2)
    BY <1>7 DEF Inserted
<1>9. /\ Ring(l2, Sentinel, R \cup {t}, pos2)
      /\ \A u, v \in R : pos2[u] < pos2[v] <=> pos[u] < pos[v]
      /\ \A u \in R : pos2[u] < pos2[t] <=> p = Sentinel \/ pos[u] < pos[p]
    BY <1>8 DEF Placed
<1>10. ListOK(l2, R \cup {t}, pos2)
  <2>1. \A n \in Timer : n \notin R \cup {t} => l2.next[n] = n
      BY <1>7, Numbers DEF ListOK, Inserted
  <2>2. R \cup {t} \subseteq Timer
      BY DEF ListOK
  <2>3. QED
      BY <1>7, <1>9, <2>1, <2>2 DEF ListOK, Inserted
<1>11. Sorted(R \cup {t}, pos2, K)
  <2>1. ASSUME NEW s \in R \cup {t}, NEW u \in R \cup {t}, pos2[s] < pos2[u]
        PROVE  K[s] <= K[u]
    <3>0. \A v \in R \cup {t} : pos2[v] \in Nat
        BY <1>9 DEF Ring
    <3>1. CASE s \in R /\ u \in R
        BY <1>9, <2>1, <3>1 DEF Sorted
    <3>2. CASE s \in R /\ u = t
      <4>1. p = Sentinel \/ pos[s] < pos[p]
          BY <1>9, <2>1, <3>2
      <4>2. QED
          BY <1>5, <3>2, <4>1
    <3>3. CASE s = t /\ u \in R
      <4>1. ~(pos2[u] < pos2[t])
          BY <2>1, <3>0, <3>3
      <4>2. ~(p = Sentinel \/ pos[u] < pos[p])
          BY <1>9, <3>3, <4>1
      <4>3. K[u] > K[t]
          BY <1>5, <3>3, <4>2
      <4>4. K[u] \in Int /\ K[t] \in Int
          BY <3>3
      <4>5. QED
          BY <3>3, <4>3, <4>4
    <3>4. CASE s = t /\ u = t
        BY <3>4
    <3>5. QED
        BY <3>1, <3>2, <3>3, <3>4
  <2>2. QED
      BY <2>1 DEF Sorted
<1>12. ASSUME R # {}, K[l.next[Sentinel]] <= K[t] PROVE l2.next[Sentinel] = l.next[Sentinel]
  <2>1. l.next[Sentinel] \in R
      BY <1>12, FirstExpiresFirst
  <2>2. ASSUME p = l.next[Sentinel] PROVE FALSE
    <3>1. ~(pos[p] < pos[p]) /\ p # Sentinel /\ p \in R
        BY <1>2, <1>4, <2>1, <2>2
    <3>2. K[p] > K[t]
        BY <1>5, <3>1
    <3>3. QED
        BY <1>12, <2>2, <3>1, <3>2
  <2>3. QED
      BY <1>7, <2>2 DEF Inserted
<1>13. QED
    BY <1>10, <1>11, <1>12

\* The active list l holds the timers R in the order of K.
Good(l, R, K) == \E pos : ListOK(l, R, pos) /\ Sorted(R, pos, K)

\* What a sound list is made of.
LEMMA GoodParts ==
    ASSUME NEW l, NEW R, NEW K, Good(l, R, K)
    PROVE  /\ l \in [next : [Node -> Node], prev : [Node -> Node]]
           /\ R \subseteq Timer /\ Sentinel \notin R /\ Sentinel \in Node
           /\ \A t \in Timer \ R : l.next[t] = t /\ l.prev[t] = t
<1>1. PICK pos : ListOK(l, R, pos)
    BY DEF Good
<1>2. l \in [next : [Node -> Node], prev : [Node -> Node]] /\ R \subseteq Timer
      /\ Coherent(l) /\ \A t \in Timer \ R : l.next[t] = t
    BY <1>1 DEF ListOK, LinksOf
<1>3. Timer \subseteq Node /\ Sentinel \in Node /\ Sentinel \notin Timer
    BY Numbers
<1>4. \A t \in Timer \ R : l.prev[t] = t
  <2>1. DOMAIN l.next = Node
      BY <1>2
  <2>2. QED
      BY <1>2, <1>3, <2>1 DEF Coherent
<1>5. QED
    BY <1>2, <1>3, <1>4

\* An order that agrees with K on the timers of the list will do.
LEMMA GoodAgain ==
    ASSUME NEW l, NEW R, NEW K, Good(l, R, K), NEW K2,
           \A s, u \in R : K[s] <= K[u] => K2[s] <= K2[u]
    PROVE  Good(l, R, K2)
<1>1. PICK pos : ListOK(l, R, pos) /\ Sorted(R, pos, K)
    BY DEF Good
<1>2. Sorted(R, pos, K2)
    BY <1>1 DEF Sorted
<1>3. QED
    BY <1>1, <1>2 DEF Good

\* The list is empty when no timer runs, and begins with one that is first in K.
LEMMA GoodFirst ==
    ASSUME NEW l, NEW R, NEW K, Good(l, R, K), \A t \in R : K[t] \in Int
    PROVE  /\ R = {} <=> l.next[Sentinel] = Sentinel
           /\ R # {} => l.next[Sentinel] \in R
           /\ \A t \in R : K[l.next[Sentinel]] <= K[t]
<1>1. PICK pos : ListOK(l, R, pos) /\ Sorted(R, pos, K)
    BY DEF Good
<1>2. QED
    BY <1>1, FirstExpiresFirst

\* A traversal visits every timer of the list once, in the order of K.
LEMMA GoodChain ==
    ASSUME NEW l, NEW R, NEW K, Good(l, R, K)
    PROVE  /\ Len(Chain(l, Sentinel)) \in Nat
           /\ Chain(l, Sentinel) \in [1..Len(Chain(l, Sentinel)) -> R]
           /\ \A s \in R : \E i \in 1..Len(Chain(l, Sentinel)) : Chain(l, Sentinel)[i] = s
           /\ \A i, j \in 1..Len(Chain(l, Sentinel)) :
                 i < j => /\ Chain(l, Sentinel)[i] # Chain(l, Sentinel)[j]
                          /\ K[Chain(l, Sentinel)[i]] <= K[Chain(l, Sentinel)[j]]
           /\ Members(l, Sentinel) = R
           /\ Coherent(l)
<1> DEFINE c == Chain(l, Sentinel)
<1>1. PICK pos : ListOK(l, R, pos) /\ Sorted(R, pos, K)
    BY DEF Good
<1>2. Ring(l, Sentinel, R, pos) /\ Coherent(l)
    BY <1>1 DEF ListOK
<1>3. /\ Len(c) \in Nat /\ c \in [1..Len(c) -> R]
      /\ \A s \in R : \E i \in 1..Len(c) : c[i] = s
      /\ Members(l, Sentinel) = R
      /\ \A i, j \in 1..Len(c) : i < j => pos[c[i]] < pos[c[j]]
    BY <1>2, ChainFacts
<1> HIDE DEF c
<1>4. \A s \in R : pos[s] \in Nat
    BY <1>2 DEF Ring
<1>5. ASSUME NEW i \in 1..Len(c), NEW j \in 1..Len(c), i < j
      PROVE  c[i] # c[j] /\ K[c[i]] <= K[c[j]]
  <2>1. c[i] \in R /\ c[j] \in R /\ pos[c[i]] < pos[c[j]]
      BY <1>3, <1>5
  <2>2. c[i] # c[j]
      BY <1>4, <2>1
  <2>3. K[c[i]] <= K[c[j]]
      BY <1>1, <2>1 DEF Sorted
  <2>4. QED
      BY <2>2, <2>3
<1>6. QED
    BY <1>2, <1>3, <1>5 DEF c

\* The list that Anbo_Timer_Init leaves.
LEMMA GoodEmpty ==
    ASSUME NEW K
    PROVE  Good(Detached(Node), {}, K)
<1> DEFINE l == Detached(Node)
<1>1. l.next = [n \in Node |-> n] /\ l.prev = [n \in Node |-> n]
      /\ l = [next |-> l.next, prev |-> l.prev]
    BY DEF Detached
<1> HIDE DEF l
<1>2. IsFiniteSet(Node) /\ Sentinel \in Node /\ Timer \subseteq Node
    BY Numbers
<1>3. l \in LinksOf(Node) /\ Coherent(l)
    BY <1>1 DEF LinksOf, Coherent
<1>4. Ring(l, Sentinel, {}, [t \in {} |-> 0])
    BY <1>1, <1>2 DEF Ring
<1>5. ListOK(l, {}, [t \in {} |-> 0])
    BY <1>1, <1>2, <1>3, <1>4 DEF ListOK
<1>6. Sorted({}, [t \in {} |-> 0], K)
    BY DEF Sorted
<1>7. QED
    BY <1>5, <1>6 DEF Good, l

\* Anbo_List_Remove on an active timer.
LEMMA GoodUnlink ==
    ASSUME NEW l, NEW R, NEW K, Good(l, R, K), NEW t \in R, NEW l2, l2 = Unlink(l, t)
    PROVE  /\ Good(l2, R \ {t}, K)
           /\ l2.next[Sentinel] = IF t = l.next[Sentinel] THEN l.next[t] ELSE l.next[Sentinel]
           /\ l.next[t] \in (R \ {t}) \cup {Sentinel}
<1>1. PICK pos : ListOK(l, R, pos) /\ Sorted(R, pos, K)
    BY DEF Good
<1>2. /\ Ring(l, Sentinel, R, pos) /\ l \in LinksOf(Node) /\ Coherent(l)
      /\ R \subseteq Timer /\ \A u \in Timer \ R : l.next[u] = u
    BY <1>1 DEF ListOK
<1>3. /\ l2 \in LinksOf(Node) /\ Coherent(l2)
      /\ \A n \in Node : n \notin R \cup {Sentinel} => l2.next[n] = l.next[n]
      /\ l2.next[t] = t
      /\ l2.next[Sentinel] = IF t = l.next[Sentinel] THEN l.next[t] ELSE l.next[Sentinel]
      /\ Ring(l2, Sentinel, R \ {t}, pos)
    BY <1>2, UnlinkKeepsRing
<1>4. \A u \in Timer \ (R \ {t}) : l2.next[u] = u
    BY <1>2, <1>3, Numbers
<1>5. ListOK(l2, R \ {t}, pos)
    BY <1>2, <1>3, <1>4 DEF ListOK
<1>6. Sorted(R \ {t}, pos, K)
    BY <1>1 DEF Sorted
<1>7. l.next[t] \in (R \ {t}) \cup {Sentinel}
  <2>1. pos[t] \in Nat /\ (l.next[t] = Sentinel \/ (l.next[t] \in R /\ pos[t] < pos[l.next[t]]))
      BY <1>2 DEF Ring
  <2>2. QED
      BY <2>1
<1>8. QED
    BY <1>3, <1>5, <1>6, <1>7 DEF Good

\* The deadlines dl of the timers R are in the order of K.
Spaced(R, dl, K) ==
    /\ \A t \in R : K[t] \in Int
    /\ \A u, t \in R : Diff(dl[u], dl[t]) > 0 <=> K[u] > K[t]

\* timer_insert_sorted on a timer that is not active.
LEMMA GoodInsert ==
    ASSUME NEW l, NEW R, NEW K, Good(l, R, K), NEW t \in Timer, t \notin R,
           NEW dl, NEW l2, l2 = InsertSorted(l, dl, t), Spaced(R \cup {t}, dl, K)
    PROVE  /\ Good(l2, R \cup {t}, K)
           /\ R # {} /\ K[l.next[Sentinel]] <= K[t] => l2.next[Sentinel] = l.next[Sentinel]
<1>1. PICK pos : ListOK(l, R, pos) /\ Sorted(R, pos, K)
    BY DEF Good
<1>2. /\ \E pos2 : ListOK(l2, R \cup {t}, pos2) /\ Sorted(R \cup {t}, pos2, K)
      /\ R # {} /\ K[l.next[Sentinel]] <= K[t] => l2.next[Sentinel] = l.next[Sentinel]
  <2>1. /\ \A u \in R \cup {t} : K[u] \in Int
        /\ \A u \in R : Diff(dl[u], dl[t]) > 0 <=> K[u] > K[t]
      BY DEF Spaced
  <2>2. QED
      BY <1>1, <2>1, InsertSortedOK
<1>3. QED
    BY <1>2 DEF Good

\* The first lists of the loop that inserts the timers of c one after another.
Inserting(g, n, l, dl, c) ==
    g = [i \in 0..n |-> IF i = 0 THEN l ELSE InsertSorted(g[i - 1], dl, c[i])]

\* The loop can be unfolded as far as needed.
LEMMA InsertingExists ==
    ASSUME NEW n \in Nat, NEW l, NEW dl, NEW c
    PROVE  \E g : Inserting(g, n, l, dl, c)
<1> DEFINE T == {k \in Nat : \E g : Inserting(g, k, l, dl, c)}
<1>1. 0 \in T
  <2>1. Inserting([i \in 0..0 |-> l], 0, l, dl, c)
    <3>1. [i \in 0..0 |-> l] = [i \in 0..0 |-> IF i = 0 THEN l
                                 ELSE InsertSorted([j \in 0..0 |-> l][i - 1], dl, c[i])]
        OBVIOUS
    <3>2. QED
        BY <3>1 DEF Inserting
  <2>2. QED
      BY <2>1
<1>2. ASSUME NEW k \in Nat, k \in T PROVE k + 1 \in T
  <2>1. PICK g : Inserting(g, k, l, dl, c)
      BY <1>2
  <2> DEFINE e == InsertSorted(g[k], dl, c[k + 1])
             g2 == [i \in 0..(k + 1) |-> IF i = k + 1 THEN e ELSE g[i]]
             b(i) == IF i = 0 THEN l ELSE InsertSorted(g[i - 1], dl, c[i])
             b2(i) == IF i = 0 THEN l ELSE InsertSorted(g2[i - 1], dl, c[i])
  <2>2. \A i \in 0..k : g[i] = b(i)
    <3>1. g = [i \in 0..k |-> b(i)]
        BY <2>1 DEF Inserting
    <3> HIDE DEF b
    <3>2. QED
        BY <3>1
  <2>3. \A i \in 0..(k + 1) : g2[i] = b2(i)
    <3>1. ASSUME NEW i \in 0..(k + 1) PROVE g2[i] = b2(i)
      <4>1. CASE i = 0
        <5>1. i # k + 1 /\ i \in 0..k
            BY <4>1
        <5>2. g2[i] = g[i]
            BY <5>1
        <5>3. g[i] = l
            BY <2>2, <4>1, <5>1
        <5>4. QED
            BY <4>1, <5>2, <5>3
      <4>2. CASE i = k + 1
        <5>1. i # 0 /\ i - 1 = k /\ k # k + 1 /\ k \in 0..(k + 1)
            BY <4>2
        <5>2. g2[i] = e /\ g2[i - 1] = g[k]
            BY <4>2, <5>1
        <5> HIDE DEF g2
        <5>3. QED
            BY <4>2, <5>1, <5>2
      <4>3. CASE i # 0 /\ i # k + 1
        <5>1. i \in 0..k /\ i - 1 \in 0..(k + 1) /\ i - 1 # k + 1
            BY <4>3
        <5>2. g2[i] = g[i] /\ g2[i - 1] = g[i - 1]
            BY <4>3, <5>1
        <5>3. g[i] = InsertSorted(g[i - 1], dl, c[i])
            BY <2>2, <4>3, <5>1
        <5> HIDE DEF g2
        <5>4. QED
            BY <4>3, <5>2, <5>3
      <4>4. QED
          BY <4>1, <4>2, <4>3
    <3>2. QED
        BY <3>1
  <2>4. g2 = [i \in 0..(k + 1) |-> b2(i)]
    <3>1. g2 = [i \in 0..(k + 1) |-> g2[i]]
        OBVIOUS
    <3> HIDE DEF g2, b2
    <3>2. QED
        BY <2>3, <3>1
  <2>5. Inserting(g2, k + 1, l, dl, c)
    <3> HIDE DEF g2
    <3>1. QED
        BY <2>4 DEF Inserting
  <2> HIDE DEF g2
  <2>6. QED
      BY <2>5
<1> HIDE DEF T
<1>3. Nat \subseteq T
    BY <1>1, <1>2, AllNaturals
<1>4. QED
    BY <1>3 DEF T

\* A list that is built anew from the timers c.
LEMMA GoodAll ==
    ASSUME NEW R, R \subseteq Timer, NEW K, NEW dl, NEW c,
           Len(c) \in Nat, c \in [1..Len(c) -> R],
           \A s \in R : \E i \in 1..Len(c) : c[i] = s,
           \A i, j \in 1..Len(c) : i < j => c[i] # c[j],
           Spaced(R, dl, K)
    PROVE  Good(InsertAll(Detached(Node), dl, c), R, K)
<1> DEFINE l == Detached(Node)
           n == Len(c)
           ins[i \in 0..Len(c)] == IF i = 0 THEN l ELSE InsertSorted(ins[i - 1], dl, c[i])
<1>1. InsertAll(l, dl, c) = ins[n]
    BY DEF InsertAll
<1>2. Inserting(ins, n, l, dl, c)
  <2>1. PICK g : Inserting(g, n, l, dl, c)
      BY InsertingExists
  <2>2. g = [i \in 0..Len(c) |-> IF i = 0 THEN l ELSE InsertSorted(g[i - 1], dl, c[i])]
      BY <2>1 DEF Inserting
  <2> HIDE DEF l, n
  <2>3. ins = [i \in 0..Len(c) |-> IF i = 0 THEN l ELSE InsertSorted(ins[i - 1], dl, c[i])]
      BY <2>2 DEF ins
  <2> HIDE DEF ins
  <2>4. QED
      BY <2>3 DEF Inserting, n
<1> HIDE DEF ins, n
<1>3. n \in Nat /\ c \in [1..n -> R]
    BY DEF n
<1>4. ins[0] = l /\ \A k \in 0..(n - 1) : ins[k + 1] = InsertSorted(ins[k], dl, c[k + 1])
  <2> DEFINE b(i) == IF i = 0 THEN l ELSE InsertSorted(ins[i - 1], dl, c[i])
  <2>1. ins = [i \in 0..n |-> b(i)]
      BY <1>2 DEF Inserting
  <2> HIDE DEF b
  <2>2. ins[0] = b(0)
      BY <1>3, <2>1
  <2>3. ASSUME NEW k \in 0..(n - 1) PROVE ins[k + 1] = InsertSorted(ins[k], dl, c[k + 1])
    <3>1. k + 1 \in 0..n /\ k + 1 # 0 /\ (k + 1) - 1 = k
        BY <1>3
    <3>2. ins[k + 1] = b(k + 1)
        BY <2>1, <3>1
    <3>3. QED
        BY <3>1, <3>2 DEF b
  <2>4. QED
      BY <2>2, <2>3 DEF b
<1> DEFINE Done(k) == {c[i] : i \in 1..k}
           T == {k \in Nat : k <= n => Good(ins[k], Done(k), K)}
<1>5. 0 \in T
  <2>1. Done(0) = {}
      OBVIOUS
  <2> HIDE DEF Done
  <2>2. Good(ins[0], Done(0), K)
      BY <1>4, <2>1, GoodEmpty
  <2>3. QED
      BY <2>2
<1>6. ASSUME NEW k \in Nat, k \in T PROVE k + 1 \in T
  <2>1. SUFFICES ASSUME k + 1 <= n PROVE Good(ins[k + 1], Done(k + 1), K)
      OBVIOUS
  <2>2. Good(ins[k], Done(k), K)
    <3> HIDE DEF Done
    <3>1. QED
        BY <1>3, <1>6, <2>1
  <2> DEFINE t == c[k + 1]
  <2>3. k \in 0..(n - 1) /\ k + 1 \in 1..n /\ t \in R /\ t \in Timer
      BY <1>3, <2>1
  <2>4. Done(k) \subseteq R /\ t \notin Done(k)
      BY <1>3, <2>1, <2>3 DEF n
  <2>5. Done(k + 1) = Done(k) \cup {t}
    <3>1. 1..(k + 1) = (1..k) \cup {k + 1}
        OBVIOUS
    <3>2. QED
        BY <3>1
  <2>6. ins[k + 1] = InsertSorted(ins[k], dl, t)
      BY <1>4, <2>3
  <2> HIDE DEF Done, t
  <2>7. Good(ins[k + 1], Done(k) \cup {t}, K)
    <3>1. Spaced(Done(k) \cup {t}, dl, K)
        BY <2>3, <2>4 DEF Spaced
    <3>2. QED
        BY <2>2, <2>3, <2>4, <2>6, <3>1, GoodInsert
  <2>8. QED
      BY <2>5, <2>7
<1>7. Done(n) = R
    BY <1>3 DEF n
<1>8. n \in T
  <2> HIDE DEF T
  <2>1. QED
      BY <1>3, <1>5, <1>6, AllNaturals
<1> HIDE DEF Done
<1>9. QED
    BY <1>1, <1>3, <1>7, <1>8

\* The values of the tick and of a deadline.
Ticks == 0..(Wrap - 1)

\* How long each of the timers R has left at the tick now.
LeftOf(R, dl, now) == [t \in Timer |-> IF t \in R THEN Diff(dl[t], now) ELSE 0]

\* It is what the properties call Left.
LEMMA LeftIsLeftOf == Left = LeftOf(running, deadline, tick)
BY DEF Left, LeftOf

\* The timers R with the deadlines dl at the tick now, each at least f from its expiry.
Clocks(R, dl, now, f) ==
    /\ R \subseteq Timer
    /\ dl \in [Timer -> Ticks]
    /\ now \in Ticks
    /\ f \in Int /\ 0 - 2 * MaxSleep < f /\ f <= 1
    /\ \A t \in R : LeftOf(R, dl, now)[t] \in f..MaxPeriod

\* Deadlines are as far apart as the times that are left.
LEMMA Apart ==
    ASSUME NEW R, NEW dl, NEW now, NEW f, Clocks(R, dl, now, f)
    PROVE  /\ \A t \in R : /\ LeftOf(R, dl, now)[t] = Diff(dl[t], now)
                           /\ LeftOf(R, dl, now)[t] \in Int
                           /\ LeftOf(R, dl, now)[t] \in f..MaxPeriod
           /\ Spaced(R, dl, LeftOf(R, dl, now))
<1> DEFINE L == LeftOf(R, dl, now)
<1>1. /\ R \subseteq Timer /\ dl \in [Timer -> Ticks] /\ now \in Ticks
      /\ f \in Int /\ 0 - 2 * MaxSleep < f /\ f <= 1
      /\ \A t \in R : L[t] \in f..MaxPeriod
    BY DEF Clocks
<1>2. \A t \in R : L[t] = Diff(dl[t], now)
    BY <1>1 DEF LeftOf
<1> HIDE DEF L
<1>3. ASSUME NEW u \in R, NEW t \in R PROVE Diff(dl[u], dl[t]) = L[u] - L[t]
  <2>1. dl[u] \in 0..(Wrap - 1) /\ dl[t] \in 0..(Wrap - 1) /\ now \in 0..(Wrap - 1)
      BY <1>1 DEF Ticks
  <2>2. L[u] \in Int /\ L[t] \in Int /\ 0 - Wrap <= 2 * (L[u] - L[t]) /\ 2 * (L[u] - L[t]) < Wrap
    <3>1. L[u] \in f..MaxPeriod /\ L[t] \in f..MaxPeriod
        BY <1>1
    <3>2. QED
        BY <1>1, <3>1, Numbers
  <2>3. (now + L[u]) % Wrap = dl[u] /\ (now + L[t]) % Wrap = dl[t]
      BY <1>2, <2>1, DiffLeads
  <2>4. QED
      BY <2>1, <2>2, <2>3, DiffOfDeadlines
<1>4. \A t \in R : L[t] \in Int
    BY <1>1
<1>5. \A u, t \in R : Diff(dl[u], dl[t]) > 0 <=> L[u] > L[t]
  <2>1. TAKE u \in R, t \in R
  <2>2. Diff(dl[u], dl[t]) = L[u] - L[t] /\ L[u] \in Int /\ L[t] \in Int
      BY <1>3, <1>4
  <2>3. QED
      BY <2>2
<1>6. QED
    BY <1>1, <1>2, <1>4, <1>5 DEF L, Spaced

\* The function f with another value at t.
Changed(f, t, x) == [f EXCEPT ![t] = x]

\* A timer that is given a deadline n ahead has n left.
LEMMA ClocksArm ==
    ASSUME NEW R, NEW dl, NEW now, NEW f, Clocks(R, dl, now, f), NEW t \in Timer,
           NEW n \in 1..MaxPeriod, NEW dl2, dl2 = Changed(dl, t, After(now, n))
    PROVE  /\ LeftOf(R \cup {t}, dl2, now) = Changed(LeftOf(R, dl, now), t, n)
           /\ Clocks(R \cup {t}, dl2, now, f)
<1>1. /\ R \subseteq Timer /\ dl \in [Timer -> Ticks] /\ now \in Ticks
      /\ f \in Int /\ 0 - 2 * MaxSleep < f /\ f <= 1
      /\ \A u \in R : LeftOf(R, dl, now)[u] \in f..MaxPeriod
    BY DEF Clocks
<1>2. After(now, n) \in Ticks /\ Diff(After(now, n), now) = n
  <2>1. n \in Nat /\ 2 * n < Wrap
      BY Numbers
  <2>2. QED
      BY <1>1, <2>1, DiffOfAfter DEF Ticks
<1>3. dl2 \in [Timer -> Ticks] /\ dl2[t] = After(now, n) /\ \A u \in Timer : u # t => dl2[u] = dl[u]
    BY <1>1, <1>2 DEF Changed
<1> DEFINE L == LeftOf(R, dl, now)
           L2 == LeftOf(R \cup {t}, dl2, now)
<1>4. /\ L = [u \in Timer |-> IF u \in R THEN Diff(dl[u], now) ELSE 0]
      /\ L2 = [u \in Timer |-> IF u \in R \cup {t} THEN Diff(dl2[u], now) ELSE 0]
    BY DEF LeftOf
<1> HIDE DEF L, L2
<1>5. L2[t] = n /\ \A u \in Timer : u # t => L2[u] = L[u]
    BY <1>2, <1>3, <1>4
<1>6. L2 = [L EXCEPT ![t] = n]
  <2>1. DOMAIN L = Timer /\ DOMAIN L2 = Timer
      BY <1>4
  <2>2. L2 = [u \in Timer |-> L2[u]]
      BY <1>4
  <2>3. [L EXCEPT ![t] = n] = [u \in Timer |-> IF u = t THEN n ELSE L[u]]
      BY <1>4
  <2>4. QED
      BY <1>5, <2>2, <2>3
<1>7. \A u \in R \cup {t} : L2[u] \in f..MaxPeriod
  <2>1. n \in f..MaxPeriod
      BY <1>1, Numbers
  <2>2. \A u \in R : L[u] \in f..MaxPeriod
      BY <1>1 DEF L
  <2>3. QED
      BY <1>1, <1>5, <2>1, <2>2
<1>8. QED
    BY <1>1, <1>3, <1>6, <1>7 DEF Clocks, L, L2, Changed

\* A timer that is disarmed has nothing left.
LEMMA ClocksDisarm ==
    ASSUME NEW R, NEW dl, NEW now, NEW f, Clocks(R, dl, now, f), NEW t \in Timer
    PROVE  /\ LeftOf(R \ {t}, dl, now) = Changed(LeftOf(R, dl, now), t, 0)
           /\ Clocks(R \ {t}, dl, now, f)
<1>1. /\ R \subseteq Timer /\ dl \in [Timer -> Ticks] /\ now \in Ticks
      /\ f \in Int /\ 0 - 2 * MaxSleep < f /\ f <= 1
      /\ \A u \in R : LeftOf(R, dl, now)[u] \in f..MaxPeriod
    BY DEF Clocks
<1> DEFINE L == LeftOf(R, dl, now)
           L2 == LeftOf(R \ {t}, dl, now)
<1>4. /\ L = [u \in Timer |-> IF u \in R THEN Diff(dl[u], now) ELSE 0]
      /\ L2 = [u \in Timer |-> IF u \in R \ {t} THEN Diff(dl[u], now) ELSE 0]
    BY DEF LeftOf
<1> HIDE DEF L, L2
<1>5. L2[t] = 0 /\ \A u \in Timer : u # t => L2[u] = L[u]
    BY <1>4
<1>6. L2 = [L EXCEPT ![t] = 0]
  <2>2. L2 = [u \in Timer |-> L2[u]]
      BY <1>4
  <2>3. [L EXCEPT ![t] = 0] = [u \in Timer |-> IF u = t THEN 0 ELSE L[u]]
      BY <1>4
  <2>4. QED
      BY <1>5, <2>2, <2>3
<1>7. \A u \in R \ {t} : L2[u] \in f..MaxPeriod
    BY <1>1, <1>5 DEF L
<1>8. QED
    BY <1>1, <1>6, <1>7 DEF Clocks, L, L2, Changed

\* The deadline of a timer that does not run does not matter.
LEMMA ClocksCreate ==
    ASSUME NEW R, NEW dl, NEW now, NEW f, Clocks(R, dl, now, f), NEW t \in Timer, t \notin R,
           NEW dl2, dl2 = [dl EXCEPT ![t] = 0]
    PROVE  /\ LeftOf(R, dl2, now) = LeftOf(R, dl, now)
           /\ Clocks(R, dl2, now, f)
<1>1. /\ R \subseteq Timer /\ dl \in [Timer -> Ticks] /\ now \in Ticks
      /\ f \in Int /\ 0 - 2 * MaxSleep < f /\ f <= 1
      /\ \A u \in R : LeftOf(R, dl, now)[u] \in f..MaxPeriod
    BY DEF Clocks
<1>2. 0 \in Ticks
    BY Numbers DEF Ticks
<1>3. dl2 \in [Timer -> Ticks] /\ \A u \in Timer : u # t => dl2[u] = dl[u]
    BY <1>1, <1>2
<1>4. LeftOf(R, dl2, now) = LeftOf(R, dl, now)
  <2>1. \A u \in Timer : u \in R => dl2[u] = dl[u]
      BY <1>3
  <2>2. QED
      BY <2>1 DEF LeftOf
<1>5. QED
    BY <1>1, <1>3, <1>4 DEF Clocks

\* Time that passes is taken from every timer.
LEMMA ClocksPass ==
    ASSUME NEW R, NEW dl, NEW now, NEW f, Clocks(R, dl, now, f), NEW n \in 0..MaxSleep,
           0 - 2 * MaxSleep < f - n
    PROVE  /\ LeftOf(R, dl, After(now, n))
                  = [t \in Timer |-> IF t \in R THEN LeftOf(R, dl, now)[t] - n ELSE 0]
           /\ Clocks(R, dl, After(now, n), f - n)
<1>1. /\ R \subseteq Timer /\ dl \in [Timer -> Ticks] /\ now \in Ticks
      /\ f \in Int /\ f <= 1
    BY DEF Clocks
<1> DEFINE L == LeftOf(R, dl, now)
           L2 == LeftOf(R, dl, After(now, n))
<1>2. \A t \in R : L[t] = Diff(dl[t], now) /\ L[t] \in Int /\ L[t] \in f..MaxPeriod
    BY Apart
<1>3. L2 = [t \in Timer |-> IF t \in R THEN Diff(dl[t], After(now, n)) ELSE 0]
    BY DEF LeftOf
<1> HIDE DEF L, L2
<1>4. ASSUME NEW t \in R PROVE Diff(dl[t], After(now, n)) = L[t] - n
  <2>1. dl[t] \in 0..(Wrap - 1) /\ now \in 0..(Wrap - 1) /\ n \in Nat
      BY <1>1, Numbers DEF Ticks
  <2>2. L[t] = Diff(dl[t], now) /\ L[t] \in f..MaxPeriod
      BY <1>2
  <2>3. 0 - Wrap <= 2 * (L[t] - n) /\ 2 * (L[t] - n) < Wrap
      BY <1>1, <2>2, Numbers
  <2>4. QED
      BY <2>1, <2>2, <2>3, DiffAfter
<1>5. After(now, n) \in Ticks
  <2>1. now + n \in Int
      BY <1>1, Numbers DEF Ticks
  <2>2. QED
      BY <2>1, Numbers, DivisionFact DEF After, Ticks
<1>6. L2 = [t \in Timer |-> IF t \in R THEN L[t] - n ELSE 0]
    BY <1>3, <1>4
<1>7. \A t \in R : L2[t] \in (f - n)..MaxPeriod
  <2>1. TAKE t \in R
  <2>2. L2[t] = L[t] - n /\ L[t] \in f..MaxPeriod
      BY <1>1, <1>2, <1>6
  <2>3. QED
      BY <1>1, <2>2, Numbers
<1>8. f - n \in Int /\ f - n <= 1
    BY <1>1, Numbers
<1>9. QED
    BY <1>1, <1>5, <1>6, <1>7, <1>8 DEF Clocks, L, L2

\* A closer bound may be forgotten, and a farther one follows from the times that are left.
LEMMA ClocksFloor ==
    ASSUME NEW R, NEW dl, NEW now, NEW f, Clocks(R, dl, now, f),
           NEW e \in Int, 0 - 2 * MaxSleep < e, e <= 1,
           \A t \in R : LeftOf(R, dl, now)[t] >= e
    PROVE  Clocks(R, dl, now, e)
<1>1. \A t \in R : LeftOf(R, dl, now)[t] \in f..MaxPeriod
    BY DEF Clocks
<1>2. \A t \in R : LeftOf(R, dl, now)[t] \in e..MaxPeriod
    BY <1>1, Numbers DEF Clocks
<1>3. QED
    BY <1>2 DEF Clocks

\* Where the update is in the list: the node it saved runs or is the head, and is the first
\* one as long as a timer is due.
WalkOK(l, R, K, c, s) ==
    /\ s \in R \cup {Sentinel}
    /\ s # c
    /\ (\E u \in R : K[u] <= 0) => s = l.next[Sentinel]

\* How late a timer may be.
Floor(pc) ==
    IF pc = "idle" THEN 1 - MaxSleep
    ELSE IF pc = "woken" THEN 1 - 2 * MaxSleep ELSE 0 - MaxSleep

\* Where the update is.
Phase == {"idle", "enter", "callback", "woken"}

\* The inductive invariant.
IInv ==
    /\ Good(list, running, LeftOf(running, deadline, tick))
    /\ Clocks(running, deadline, tick, Floor(upc))
    /\ period \in [Timer -> Period] /\ mode \in [Timer -> Mode]
    /\ upc \in Phase /\ cur \in Node /\ saved \in Node
    /\ upc = "callback" => WalkOK(list, running, LeftOf(running, deadline, tick), cur, saved)

\* The invariant follows from its parts in the next state.
LEMMA Assemble ==
    ASSUME Good(list', running', LeftOf(running', deadline', tick')),
           Clocks(running', deadline', tick', Floor(upc')),
           period' \in [Timer -> Period], mode' \in [Timer -> Mode],
           upc' \in Phase, cur' \in Node, saved' \in Node,
           upc' = "callback" =>
               WalkOK(list', running', LeftOf(running', deadline', tick'), cur', saved')
    PROVE  IInv'
BY DEF IInv

\* No timer is ever two sleeps late.
LEMMA Floors ==
    \A pc \in Phase : Floor(pc) \in Int /\ 0 - 2 * MaxSleep < Floor(pc) /\ Floor(pc) <= 0
BY Numbers DEF Floor, Phase

\* What the invariant says of the timers.
LEMMA State ==
    ASSUME IInv
    PROVE  /\ Good(list, running, Left) /\ Left = LeftOf(running, deadline, tick)
           /\ running \subseteq Timer /\ deadline \in [Timer -> Ticks] /\ tick \in Ticks
           /\ \A t \in running : /\ Left[t] = Diff(deadline[t], tick)
                                 /\ Left[t] \in Int
                                 /\ Left[t] \in Floor(upc)..MaxPeriod
           /\ \A t \in Timer \ running : Left[t] = 0
           /\ Left = [t \in Timer |-> Left[t]]
           /\ \A t \in Timer : period[t] \in 1..MaxPeriod /\ mode[t] \in Mode
           /\ upc = "callback" => WalkOK(list, running, Left, cur, saved)
<1>1. Left = LeftOf(running, deadline, tick)
    BY LeftIsLeftOf
<1>2. Clocks(running, deadline, tick, Floor(upc))
    BY DEF IInv
<1>3. \A t \in running : /\ Left[t] = Diff(deadline[t], tick)
                         /\ Left[t] \in Int
                         /\ Left[t] \in Floor(upc)..MaxPeriod
    BY <1>1, <1>2, Apart
<1>4. \A t \in Timer \ running : Left[t] = 0
    BY DEF Left
<1>5. Left = [t \in Timer |-> Left[t]]
    BY DEF Left
<1>6. running \subseteq Timer /\ deadline \in [Timer -> Ticks] /\ tick \in Ticks
    BY <1>2 DEF Clocks
<1>7. \A t \in Timer : period[t] \in 1..MaxPeriod /\ mode[t] \in Mode
    BY DEF IInv, Period
<1>8. QED
    BY <1>1, <1>3, <1>4, <1>5, <1>6, <1>7 DEF IInv

\* The list after timer_insert_sorted of a timer that may run, and what is true of it.
Reinserted(l, R, dl, t) == InsertSorted(IF t \in R THEN Unlink(l, t) ELSE l, dl, t)

\* The timer has n left, the others what they had, and a due timer stays in front.
Rearmed(l, R, dl, now, f, t, n, L, l2, L2) ==
    /\ L2 = LeftOf(R \cup {t}, dl, now)
    /\ L2[t] = n /\ \A u \in Timer : u # t => L2[u] = L[u]
    /\ Good(l2, R \cup {t}, L2)
    /\ Clocks(R \cup {t}, dl, now, f)
    /\ (\E u \in R \cup {t} : L2[u] <= 0) =>
          l2.next[Sentinel] = IF t = l.next[Sentinel] THEN l.next[t] ELSE l.next[Sentinel]

\* A timer is taken from the list if it is there, and put back n ahead.
LEMMA Rearm ==
    ASSUME NEW l, NEW R, NEW dl, NEW now, NEW f, NEW L, L = LeftOf(R, dl, now),
           Good(l, R, L), Clocks(R, dl, now, f),
           NEW t \in Timer, NEW n \in 1..MaxPeriod,
           NEW dl2, dl2 = Changed(dl, t, After(now, n)),
           NEW l2, l2 = Reinserted(l, R, dl2, t),
           NEW L2, L2 = Changed(L, t, n)
    PROVE  Rearmed(l, R, dl2, now, f, t, n, L, l2, L2)
<1> DEFINE m == IF t \in R THEN Unlink(l, t) ELSE l
           Q == R \ {t}
<1>1. /\ L2 = LeftOf(R \cup {t}, dl2, now) /\ Clocks(R \cup {t}, dl2, now, f)
    BY ClocksArm
<1>2. DOMAIN L = Timer /\ R \subseteq Timer /\ Sentinel \notin R
    BY GoodParts DEF LeftOf
<1>3. L2[t] = n /\ \A u \in Timer : u # t => L2[u] = L[u]
    BY <1>2 DEF Changed
<1>4. /\ Good(m, Q, L)
      /\ m.next[Sentinel] = IF t = l.next[Sentinel] THEN l.next[t] ELSE l.next[Sentinel]
  <2>1. CASE t \in R
      BY <2>1, GoodUnlink
  <2>2. CASE t \notin R
    <3>1. Q = R
        BY <2>2
    <3>2. \A u \in R : L[u] \in Int
        BY Apart
    <3>3. l.next[Sentinel] \in R \cup {Sentinel}
        BY <3>2, GoodFirst
    <3>4. t # l.next[Sentinel]
        BY <2>2, <3>3, Numbers
    <3>5. QED
        BY <2>2, <3>1, <3>4
  <2>3. QED
      BY <2>1, <2>2
<1> HIDE DEF m
<1>5. \A s, u \in Q : L[s] <= L[u] => L2[s] <= L2[u]
    BY <1>2, <1>3
<1>6. Good(m, Q, L2)
  <2> HIDE DEF Q
  <2>1. QED
      BY <1>4, <1>5, GoodAgain
<1>7. Spaced(R \cup {t}, dl2, L2)
    BY <1>1, Apart
<1>8. Q \cup {t} = R \cup {t} /\ t \notin Q /\ Q \subseteq Timer
    BY <1>2
<1> HIDE DEF Q
<1>9. l2 = InsertSorted(m, dl2, t)
    BY DEF m, Reinserted
<1>10. /\ Good(l2, Q \cup {t}, L2)
       /\ Q # {} /\ L2[m.next[Sentinel]] <= L2[t] => l2.next[Sentinel] = m.next[Sentinel]
  <2>1. Spaced(Q \cup {t}, dl2, L2)
      BY <1>7, <1>8
  <2>2. QED
      BY <1>6, <1>8, <1>9, <2>1, GoodInsert
<1>11. ASSUME NEW u \in R \cup {t}, L2[u] <= 0 PROVE l2.next[Sentinel] = m.next[Sentinel]
  <2>1. u \in Q
      BY <1>3, <1>8, <1>11
  <2>2. L2[m.next[Sentinel]] <= L2[u] /\ m.next[Sentinel] \in Q
      BY <1>6, <1>7, <1>8, <2>1, GoodFirst DEF Spaced
  <2>3. L2[m.next[Sentinel]] \in Int /\ L2[u] \in Int /\ L2[t] \in Int
      BY <1>7, <1>8, <2>1, <2>2 DEF Spaced
  <2>4. L2[m.next[Sentinel]] <= L2[t]
      BY <1>3, <1>11, <2>2, <2>3
  <2>5. QED
      BY <1>10, <2>1, <2>4
<1>12. QED
    BY <1>1, <1>3, <1>4, <1>8, <1>10, <1>11 DEF Rearmed

----------------------------------------------------------------------------
\* The invariant holds after Anbo_Timer_Init.
LEMMA InitInv == Init => IInv /\ Left = [t \in Timer |-> 0]
<1> SUFFICES ASSUME Init PROVE IInv /\ Left = [t \in Timer |-> 0]
    OBVIOUS
<1>1. /\ list = Detached(Node) /\ deadline = [t \in Timer |-> 0] /\ running = {} /\ tick = 0
      /\ upc = "idle" /\ cur = Sentinel /\ saved = Sentinel
    BY DEF Init
<1>2. Good(list, running, LeftOf(running, deadline, tick))
    BY <1>1, GoodEmpty
<1>3. Clocks(running, deadline, tick, Floor(upc))
  <2>1. Floor(upc) \in Int /\ 0 - 2 * MaxSleep < Floor(upc) /\ Floor(upc) <= 1
      BY <1>1, Numbers DEF Floor
  <2>2. 0 \in Ticks
      BY Numbers DEF Ticks
  <2>3. QED
      BY <1>1, <2>1, <2>2 DEF Clocks
<1>4. period \in [Timer -> Period] /\ mode \in [Timer -> Mode]
  <2>1. PICK s \in [Timer -> Setting] : /\ mode = [t \in Timer |-> s[t][1]]
                                        /\ period = [t \in Timer |-> s[t][2]]
      BY DEF Init
  <2>2. \A t \in Timer : s[t][1] \in Mode /\ s[t][2] \in Period
    <3>1. TAKE t \in Timer
    <3>2. s[t] \in {"oneshot", "periodic"} \X (1..MaxPeriod)
        BY TimerAssumption
    <3>3. QED
        BY <3>2 DEF Mode, Period
  <2>3. QED
      BY <2>1, <2>2
<1>5. Left = [t \in Timer |-> 0]
    BY <1>1 DEF Left
<1>6. QED
    BY <1>1, <1>2, <1>3, <1>4, <1>5, Numbers DEF IInv, Phase

\* Anbo_Timer_Start keeps it,
LEMMA StartStep ==
    ASSUME IInv, Disciplined, NEW t \in Timer, Start(t)
    PROVE  IInv' /\ Left' = [Left EXCEPT ![t] = period[t]]
<1>1. /\ upc # "callback" \/ t = cur \/ t \notin running
      /\ deadline' = Changed(deadline, t, After(tick, period[t]))
      /\ running' = running \cup {t}
      /\ list' = Reinserted(list, running, deadline', t)
      /\ tick' = tick /\ period' = period /\ mode' = mode
      /\ upc' = upc /\ cur' = cur /\ saved' = saved
    BY DEF Start, MayTouch, setup, walk, Changed, Reinserted
<1>2. /\ Good(list, running, Left) /\ Left = LeftOf(running, deadline, tick)
      /\ running \subseteq Timer /\ period[t] \in 1..MaxPeriod
      /\ upc = "callback" => WalkOK(list, running, Left, cur, saved)
    BY State
<1>3. Clocks(running, deadline, tick, Floor(upc))
    BY DEF IInv
<1> DEFINE L2 == Changed(Left, t, period[t])
<1>4. /\ L2 = LeftOf(running', deadline', tick)
      /\ L2[t] = period[t] /\ \A u \in Timer : u # t => L2[u] = Left[u]
      /\ Good(list', running', L2)
      /\ Clocks(running', deadline', tick, Floor(upc))
      /\ (\E u \in running' : L2[u] <= 0) =>
            list'.next[Sentinel]
                = IF t = list.next[Sentinel] THEN list.next[t] ELSE list.next[Sentinel]
  <2>1. Rearmed(list, running, deadline', tick, Floor(upc), t, period[t], Left, list', L2)
      BY <1>1, <1>2, <1>3, Rearm
  <2> HIDE DEF L2
  <2>2. QED
      BY <1>1, <2>1 DEF Rearmed
<1> HIDE DEF L2, Changed
<1>5. ASSUME upc = "callback" PROVE WalkOK(list', running', L2, cur, saved)
  <2>1. /\ saved \in running \cup {Sentinel} /\ saved # cur
        /\ (\E u \in running : Left[u] <= 0) => saved = list.next[Sentinel]
      BY <1>2, <1>5 DEF WalkOK
  <2>2. ASSUME NEW u \in running', L2[u] <= 0 PROVE saved = list'.next[Sentinel]
    <3>1. u # t
        BY <1>2, <1>4, <2>2
    <3>2. u \in running /\ Left[u] <= 0
        BY <1>1, <1>2, <1>4, <2>2, <3>1
    <3>3. saved = list.next[Sentinel]
        BY <2>1, <3>2
    <3>4. \A s \in running : Left[s] \in Int
        BY State
    <3>5. list.next[Sentinel] \in running
        BY <1>2, <3>2, <3>4, GoodFirst
    <3>6. t # list.next[Sentinel]
        BY <1>1, <1>5, <2>1, <3>3, <3>5
    <3>7. QED
        BY <1>4, <2>2, <3>3, <3>6
  <2>3. QED
      BY <1>1, <2>1, <2>2 DEF WalkOK
<1>6. Left' = LeftOf(running', deadline', tick')
    BY LeftIsLeftOf DEF Left, LeftOf
<1>7. IInv'
    BY <1>1, <1>4, <1>5, Assemble DEF IInv
<1>8. QED
    BY <1>1, <1>4, <1>6, <1>7 DEF L2, Changed

\* Anbo_Timer_Stop,
LEMMA StopStep ==
    ASSUME IInv, Disciplined, NEW t \in Timer, Stop(t)
    PROVE  IInv' /\ Left' = [Left EXCEPT ![t] = 0]
<1>1. /\ upc # "callback" \/ t = cur
      /\ t \in running /\ running' = running \ {t}
      /\ list' = Unlink(list, t)
      /\ deadline' = deadline /\ tick' = tick /\ period' = period /\ mode' = mode
      /\ upc' = upc /\ cur' = cur /\ saved' = saved
    BY DEF Stop, MayTouch, setup, walk
<1>2. /\ Good(list, running, Left) /\ Left = LeftOf(running, deadline, tick)
      /\ running \subseteq Timer /\ Left = [u \in Timer |-> Left[u]]
      /\ upc = "callback" => WalkOK(list, running, Left, cur, saved)
    BY State
<1>3. Clocks(running, deadline, tick, Floor(upc))
    BY DEF IInv
<1> DEFINE L2 == Changed(Left, t, 0)
<1>4. /\ L2 = LeftOf(running', deadline', tick)
      /\ Clocks(running', deadline', tick, Floor(upc))
    BY <1>1, <1>2, <1>3, ClocksDisarm
<1>5. \A u \in Timer : u # t => L2[u] = Left[u]
    BY <1>2 DEF Changed
<1> HIDE DEF L2, Changed
<1>6. /\ Good(list', running', Left)
      /\ list'.next[Sentinel]
            = IF t = list.next[Sentinel] THEN list.next[t] ELSE list.next[Sentinel]
    BY <1>1, <1>2, GoodUnlink
<1>7. Good(list', running', L2)
  <2>1. \A s, u \in running' : Left[s] <= Left[u] => L2[s] <= L2[u]
      BY <1>1, <1>2, <1>5
  <2>2. QED
      BY <1>6, <2>1, GoodAgain
<1>8. ASSUME upc = "callback" PROVE WalkOK(list', running', L2, cur, saved)
  <2>1. /\ saved \in running \cup {Sentinel} /\ saved # cur
        /\ (\E u \in running : Left[u] <= 0) => saved = list.next[Sentinel]
      BY <1>2, <1>8 DEF WalkOK
  <2>2. ASSUME NEW u \in running', L2[u] <= 0 PROVE saved = list'.next[Sentinel]
      BY <1>1, <1>2, <1>5, <1>6, <1>8, <2>1, <2>2
  <2>3. saved \in running' \cup {Sentinel}
      BY <1>1, <1>8, <2>1
  <2>4. QED
      BY <2>1, <2>2, <2>3 DEF WalkOK
<1>9. Left' = LeftOf(running', deadline', tick')
    BY DEF Left, LeftOf
<1>10. IInv'
    BY <1>1, <1>4, <1>7, <1>8, Assemble DEF IInv
<1>11. QED
    BY <1>1, <1>4, <1>9, <1>10 DEF L2, Changed

\* Anbo_Timer_Create,
LEMMA CreateStep ==
    ASSUME IInv, NEW t \in Timer, NEW m \in Mode, NEW p \in Period, Create(t, m, p)
    PROVE  IInv' /\ Left' = Left
<1>1. /\ t \notin running
      /\ list' = [next |-> [list.next EXCEPT ![t] = t], prev |-> [list.prev EXCEPT ![t] = t]]
      /\ deadline' = [deadline EXCEPT ![t] = 0]
      /\ period' = [period EXCEPT ![t] = p]
      /\ mode' = [mode EXCEPT ![t] = m]
      /\ running' = running /\ tick' = tick /\ upc' = upc /\ cur' = cur /\ saved' = saved
    BY DEF Create, walk
<1>2. Good(list, running, Left) /\ Left = LeftOf(running, deadline, tick)
    BY State
<1>3. Clocks(running, deadline, tick, Floor(upc))
    BY DEF IInv
<1>4. list' = list
  <2>1. /\ list \in [next : [Node -> Node], prev : [Node -> Node]]
        /\ list.next[t] = t /\ list.prev[t] = t
      BY <1>1, <1>2, GoodParts
  <2>2. [list.next EXCEPT ![t] = t] = list.next /\ [list.prev EXCEPT ![t] = t] = list.prev
      BY <2>1
  <2>3. QED
      BY <1>1, <2>1, <2>2
<1>5. LeftOf(running, deadline', tick) = LeftOf(running, deadline, tick)
      /\ Clocks(running, deadline', tick, Floor(upc))
    BY <1>1, <1>3, ClocksCreate
<1>6. period' \in [Timer -> Period] /\ mode' \in [Timer -> Mode]
    BY <1>1 DEF IInv
<1>7. Left' = LeftOf(running', deadline', tick')
    BY DEF Left, LeftOf
<1>8. IInv'
    BY <1>1, <1>4, <1>5, <1>6, Assemble DEF IInv
<1>9. QED
    BY <1>1, <1>2, <1>5, <1>7, <1>8

\* and Anbo_Timer_SetPeriod.
LEMMA SetPeriodStep ==
    ASSUME IInv, NEW t \in Timer, NEW p \in Period, SetPeriod(t, p)
    PROVE  IInv' /\ Left' = Left
<1>1. /\ period' = [period EXCEPT ![t] = p]
      /\ list' = list /\ deadline' = deadline /\ running' = running /\ tick' = tick
      /\ mode' = mode /\ upc' = upc /\ cur' = cur /\ saved' = saved
    BY DEF SetPeriod, walk
<1>2. period' \in [Timer -> Period]
    BY <1>1 DEF IInv
<1>3. IInv'
    BY <1>1, <1>2, Assemble DEF IInv
<1>4. Left' = Left
    BY <1>1 DEF Left
<1>5. QED
    BY <1>3, <1>4

\* The update looks at an active timer, at the first one as long as one is due.
LEMMA PositionFacts ==
    ASSUME IInv, upc \in {"enter", "callback"}
    PROVE  /\ Position \in running \cup {Sentinel}
           /\ (\E u \in running : Left[u] <= 0) =>
                 /\ Position = list.next[Sentinel] /\ Position \in running
                 /\ \A u \in running : Left[Position] <= Left[u]
<1>1. /\ Good(list, running, Left)
      /\ \A t \in running : Left[t] \in Int
      /\ upc = "callback" => WalkOK(list, running, Left, cur, saved)
    BY State
<1>2. /\ running = {} <=> list.next[Sentinel] = Sentinel
      /\ running # {} => list.next[Sentinel] \in running
      /\ \A t \in running : Left[list.next[Sentinel]] <= Left[t]
    BY <1>1, GoodFirst
<1>3. CASE upc = "enter"
    BY <1>2, <1>3 DEF Position
<1>4. CASE upc = "callback"
  <2>1. /\ Position = saved /\ saved \in running \cup {Sentinel}
        /\ (\E u \in running : Left[u] <= 0) => saved = list.next[Sentinel]
      BY <1>1, <1>4 DEF WalkOK, Position
  <2>2. QED
      BY <1>2, <2>1
<1>5. QED
    BY <1>3, <1>4

\* A timer that fires is active, due, and one of those that expire first.
LEMMA FireNextStep ==
    ASSUME IInv, FireNext
    PROVE  /\ IInv'
           /\ Position \in running /\ Left[Position] <= 0
           /\ \A u \in running : Left[Position] <= Left[u]
           /\ IF mode[Position] = "periodic"
              THEN running' = running /\ Left' = Changed(Left, Position, period[Position])
              ELSE running' = running \ {Position} /\ Left' = Changed(Left, Position, 0)
<1> DEFINE t == Position
<1>1. /\ upc \in {"enter", "callback"} /\ t # Sentinel /\ Due(t)
      /\ saved' = list.next[t] /\ cur' = t /\ upc' = "callback"
      /\ tick' = tick /\ period' = period /\ mode' = mode
    BY DEF FireNext, setup
<1>2. /\ Good(list, running, Left) /\ Left = LeftOf(running, deadline, tick)
      /\ running \subseteq Timer /\ \A u \in Timer : period[u] \in 1..MaxPeriod
      /\ \A u \in running : Left[u] = Diff(deadline[u], tick) /\ Left[u] \in Int
      /\ Left = [u \in Timer |-> Left[u]]
    BY State
<1>3. Clocks(running, deadline, tick, Floor(upc)) /\ Floor(upc') = Floor(upc)
    BY <1>1 DEF IInv, Floor
<1>4. t \in running /\ Left[t] <= 0
    BY <1>1, <1>2, PositionFacts DEF Due
<1>5. t = list.next[Sentinel] /\ \A u \in running : Left[t] <= Left[u]
    BY <1>1, <1>4, PositionFacts
<1>6. IF mode[t] = "periodic"
      THEN /\ deadline' = Changed(deadline, t, After(tick, period[t]))
           /\ list' = Reinserted(list, running, deadline', t)
           /\ running' = running
      ELSE /\ list' = Unlink(list, t) /\ running' = running \ {t}
           /\ deadline' = deadline
    BY <1>4 DEF FireNext, Changed, Reinserted
<1> HIDE DEF t
<1>7. /\ list.next[t] \in (running \ {t}) \cup {Sentinel}
      /\ Good(Unlink(list, t), running \ {t}, Left)
      /\ Unlink(list, t).next[Sentinel] = list.next[t]
    BY <1>2, <1>4, <1>5, GoodUnlink
<1>8. /\ period' \in [Timer -> Period] /\ mode' \in [Timer -> Mode]
      /\ upc' \in Phase /\ cur' \in Node /\ saved' \in Node
    BY <1>1, <1>2, <1>4, <1>7, Numbers DEF IInv, Phase
<1>9. Left' = LeftOf(running', deadline', tick')
    BY DEF Left, LeftOf
<1>10. CASE mode[t] = "periodic"
  <2> DEFINE L2 == Changed(Left, t, period[t])
  <2>1. Rearmed(list, running, deadline', tick, Floor(upc), t, period[t], Left, list', L2)
      BY <1>2, <1>3, <1>4, <1>6, <1>10, Rearm
  <2> HIDE DEF L2
  <2>2. running \cup {t} = running /\ running' = running
      BY <1>4, <1>6, <1>10
  <2>3. /\ L2 = LeftOf(running', deadline', tick)
        /\ Good(list', running', L2)
        /\ Clocks(running', deadline', tick, Floor(upc))
        /\ (\E u \in running' : L2[u] <= 0) => list'.next[Sentinel] = list.next[t]
      BY <1>5, <2>1, <2>2 DEF Rearmed
  <2>4. WalkOK(list', running', L2, cur', saved')
      BY <1>1, <1>7, <2>2, <2>3 DEF WalkOK, t
  <2>5. IInv'
      BY <1>1, <1>3, <1>8, <2>3, <2>4, Assemble
  <2>6. QED
      BY <1>1, <1>4, <1>5, <1>9, <1>10, <2>2, <2>3, <2>5 DEF L2, t
<1>11. CASE mode[t] # "periodic"
  <2> DEFINE L2 == Changed(Left, t, 0)
  <2>1. list' = Unlink(list, t) /\ running' = running \ {t} /\ deadline' = deadline
      BY <1>6, <1>11
  <2>2. L2 = LeftOf(running', deadline', tick) /\ Clocks(running', deadline', tick, Floor(upc))
      BY <1>2, <1>3, <1>4, <2>1, ClocksDisarm
  <2>3. \A u \in Timer : u # t => L2[u] = Left[u]
      BY <1>2 DEF Changed
  <2> HIDE DEF L2
  <2>4. Good(list', running', L2)
    <3>1. \A s, u \in running' : Left[s] <= Left[u] => L2[s] <= L2[u]
        BY <1>2, <2>1, <2>3
    <3>2. QED
        BY <1>7, <2>1, <3>1, GoodAgain
  <2>5. WalkOK(list', running', L2, cur', saved')
      BY <1>1, <1>7, <2>1 DEF WalkOK, t
  <2>6. IInv'
      BY <1>1, <1>3, <1>8, <2>2, <2>4, <2>5, Assemble
  <2>7. QED
      BY <1>1, <1>4, <1>5, <1>9, <1>11, <2>1, <2>2, <2>6 DEF L2, t
<1>12. QED
    BY <1>10, <1>11

\* When the update returns no timer is due,
LEMMA EndUpdateStep ==
    ASSUME IInv, EndUpdate
    PROVE  /\ IInv' /\ Left' = Left
           /\ \A t \in running : Left[t] > 0
<1>1. /\ upc \in {"enter", "callback"} /\ (Position # Sentinel => ~Due(Position))
      /\ upc' = "idle" /\ cur' = Sentinel /\ saved' = Sentinel
      /\ list' = list /\ deadline' = deadline /\ running' = running /\ tick' = tick
      /\ period' = period /\ mode' = mode
    BY DEF EndUpdate, setup
<1>2. /\ Left = LeftOf(running, deadline, tick) /\ Sentinel \notin running
      /\ \A u \in running : Left[u] = Diff(deadline[u], tick) /\ Left[u] \in Int
    BY State, GoodParts
<1>3. \A t \in running : Left[t] > 0
  <2>1. SUFFICES ASSUME NEW t \in running, ~(Left[t] > 0) PROVE FALSE
      OBVIOUS
  <2>2. Left[t] <= 0
      BY <1>2, <2>1
  <2>3. Position \in running /\ Left[Position] <= Left[t]
      BY <1>1, <2>2, PositionFacts
  <2>4. Left[Position] <= 0
      BY <1>2, <2>2, <2>3
  <2>5. QED
      BY <1>1, <1>2, <2>3, <2>4 DEF Due
<1>4. Clocks(running, deadline, tick, Floor("idle"))
  <2>1. Clocks(running, deadline, tick, Floor(upc))
      BY DEF IInv
  <2>2. Floor("idle") \in Int /\ 0 - 2 * MaxSleep < Floor("idle") /\ Floor("idle") <= 0
      BY Floors DEF Phase
  <2>3. \A t \in running : LeftOf(running, deadline, tick)[t] >= Floor("idle")
      BY <1>2, <1>3, <2>2
  <2>4. QED
      BY <2>1, <2>2, <2>3, ClocksFloor
<1>5. IInv'
    BY <1>1, <1>4, Numbers, Assemble DEF IInv, Phase
<1>6. Left' = Left
    BY <1>1 DEF Left
<1>7. QED
    BY <1>3, <1>5, <1>6

\* the times that are left after n more milliseconds,
Later(R, L, n) == [t \in Timer |-> IF t \in R THEN L[t] - n ELSE 0]

\* a step that only lets time pass,
LEMMA PassStep ==
    ASSUME IInv, NEW n \in 0..MaxSleep, tick' = After(tick, n),
           UNCHANGED <<list, deadline, running, setup, cur, saved>>,
           upc' \in Phase, upc' # "callback",
           NEW e, Clocks(running, deadline, tick, e), Floor(upc') <= e - n
    PROVE  IInv' /\ Left' = Later(running, Left, n)
<1>1. /\ list' = list /\ deadline' = deadline /\ running' = running
      /\ period' = period /\ mode' = mode /\ cur' = cur /\ saved' = saved
    BY DEF setup
<1>2. /\ Good(list, running, Left) /\ Left = LeftOf(running, deadline, tick)
      /\ running \subseteq Timer /\ \A t \in running : Left[t] \in Int
    BY State
<1>3. /\ e \in Int /\ e <= 1
      /\ Floor(upc') \in Int /\ 0 - 2 * MaxSleep < Floor(upc') /\ Floor(upc') <= 0
    BY Floors DEF Clocks
<1>4. 0 - 2 * MaxSleep < e - n
    BY <1>3, Numbers
<1> DEFINE L2 == LeftOf(running, deadline, After(tick, n))
<1>5. /\ L2 = Later(running, Left, n)
      /\ Clocks(running, deadline, After(tick, n), e - n)
    BY <1>2, <1>4, ClocksPass DEF Later
<1>6. \A t \in running : L2[t] \in (e - n)..MaxPeriod
    BY <1>5 DEF Clocks
<1>7. Clocks(running, deadline, After(tick, n), Floor(upc'))
  <2>1. \A t \in running : L2[t] >= Floor(upc')
      BY <1>3, <1>6, Numbers
  <2>2. Floor(upc') <= 1
      BY <1>3
  <2>3. QED
      BY <1>3, <1>5, <2>1, <2>2, ClocksFloor
<1> HIDE DEF L2
<1>8. Good(list, running, L2)
  <2>1. \A s, u \in running : Left[s] <= Left[u] => L2[s] <= L2[u]
    <3>1. \A s \in running : L2[s] = Left[s] - n
        BY <1>2, <1>5 DEF Later
    <3>2. QED
        BY <1>2, <3>1
  <2>2. QED
      BY <1>2, <2>1, GoodAgain
<1>9. IInv'
    BY <1>1, <1>7, <1>8, Assemble DEF IInv, L2
<1>10. Left' = LeftOf(running', deadline', tick')
    BY DEF Left, LeftOf
<1>11. QED
    BY <1>1, <1>5, <1>9, <1>10 DEF L2

\* the tick interrupt,
LEMMA SysTickStep ==
    ASSUME IInv, SysTick
    PROVE  /\ IInv' /\ Left' = Later(running, Left, 1) /\ 1 \in 0..MaxSleep
           /\ running' = running /\ period' = period /\ mode' = mode
<1>1. /\ upc = "idle" /\ tick' = After(tick, 1) /\ upc' = "enter"
      /\ UNCHANGED <<list, deadline, running, setup, cur, saved>>
    BY DEF SysTick
<1>2. Clocks(running, deadline, tick, 1 - MaxSleep)
    BY <1>1 DEF IInv, Floor
<1>3. upc' \in Phase /\ upc' # "callback" /\ Floor(upc') <= (1 - MaxSleep) - 1 /\ 1 \in 0..MaxSleep
    BY <1>1, Numbers DEF Phase, Floor
<1>4. IInv' /\ Left' = Later(running, Left, 1)
    BY <1>1, <1>2, <1>3, PassStep
<1>5. QED
    BY <1>1, <1>3, <1>4 DEF setup

\* a deep sleep,
LEMMA DeepSleepStep ==
    ASSUME IInv, NEW n \in 0..MaxSleep, DeepSleep(n)
    PROVE  /\ IInv' /\ Left' = Later(running, Left, n)
           /\ running' = running /\ period' = period /\ mode' = mode
<1>1. /\ upc = "idle" /\ tick' = After(tick, n) /\ upc' = "woken"
      /\ UNCHANGED <<list, deadline, running, setup, cur, saved>>
    BY DEF DeepSleep
<1>2. Clocks(running, deadline, tick, 1 - MaxSleep)
    BY <1>1 DEF IInv, Floor
<1>3. upc' \in Phase /\ upc' # "callback" /\ Floor(upc') <= (1 - MaxSleep) - n
    BY <1>1, Numbers DEF Phase, Floor
<1>4. IInv' /\ Left' = Later(running, Left, n)
    BY <1>1, <1>2, <1>3, PassStep
<1>5. QED
    BY <1>1, <1>4 DEF setup

\* and the sleep of the idle loop, which is not taken when a timer is due.
LEMMA IdleStep ==
    ASSUME IInv, NEW n \in 0..MaxSleep, Idle(n)
    PROVE  /\ IInv' /\ Left' = Later(running, Left, n)
           /\ running' = running /\ period' = period /\ mode' = mode
<1>1. /\ upc = "idle" /\ tick' = After(tick, n) /\ upc' = "idle"
      /\ MsToNext(tick) > WfiMax
      /\ UNCHANGED <<list, deadline, running, setup, cur, saved>>
    BY DEF Idle, walk
<1>2. Clocks(running, deadline, tick, Floor("idle"))
    BY <1>1 DEF IInv
<1>3. /\ Good(list, running, Left) /\ Left = LeftOf(running, deadline, tick)
      /\ \A u \in running : Left[u] = Diff(deadline[u], tick) /\ Left[u] \in Int
    BY State
<1>4. ASSUME NEW t \in running PROVE Left[t] >= 1
  <2>1. /\ list.next[Sentinel] \in running /\ list.next[Sentinel] # Sentinel
        /\ Left[list.next[Sentinel]] <= Left[t]
      BY <1>3, GoodFirst
  <2>2. MsToNext(tick)
            = IF Left[list.next[Sentinel]] > 0 THEN Left[list.next[Sentinel]] ELSE 0
      BY <1>3, <2>1 DEF MsToNext, IsEmptyList
  <2>3. Left[list.next[Sentinel]] \in Int /\ Left[t] \in Int /\ WfiMax \in Nat
      BY <1>3, <2>1, Numbers
  <2>4. QED
      BY <1>1, <2>1, <2>2, <2>3
<1>5. Clocks(running, deadline, tick, 1)
  <2>1. 1 \in Int /\ 0 - 2 * MaxSleep < 1 /\ 1 <= 1
      BY Numbers
  <2>2. QED
      BY <1>2, <1>3, <1>4, <2>1, ClocksFloor
<1>6. upc' \in Phase /\ upc' # "callback" /\ Floor(upc') <= 1 - n
    BY <1>1, Numbers DEF Phase, Floor
<1>7. IInv' /\ Left' = Later(running, Left, n)
    BY <1>1, <1>5, <1>6, PassStep
<1>8. QED
    BY <1>1, <1>7 DEF setup

\* Anbo_Timer_CompensateAll sets the deadlines of the timers that are due, and sorts the
\* list anew.
LEMMA CompensateAllStep ==
    ASSUME IInv, CompensateAll
    PROVE  /\ IInv'
           /\ Left' = [t \in Timer |->
                          IF t \notin running \/ Left[t] > 0 THEN Left[t]
                          ELSE IF mode[t] = "periodic" THEN period[t] ELSE 1]
           /\ running' = running /\ period' = period /\ mode' = mode
<1> DEFINE c == Chain(list, Sentinel)
           L2 == [t \in Timer |-> IF t \notin running \/ Left[t] > 0 THEN Left[t]
                                  ELSE IF mode[t] = "periodic" THEN period[t] ELSE 1]
<1>1. /\ deadline' = [t \in Timer |-> IF t \in Members(list, Sentinel)
                                     THEN Snapped(t) ELSE deadline[t]]
      /\ list' = InsertAll(Detached(Node), deadline', c)
      /\ upc' = "idle" /\ running' = running /\ tick' = tick
      /\ period' = period /\ mode' = mode /\ cur' = cur /\ saved' = saved
    BY DEF CompensateAll, setup
<1>2. /\ Good(list, running, Left) /\ Left = LeftOf(running, deadline, tick)
      /\ running \subseteq Timer /\ deadline \in [Timer -> Ticks] /\ tick \in Ticks
      /\ \A t \in running : /\ Left[t] = Diff(deadline[t], tick)
                            /\ Left[t] \in Int
                            /\ Left[t] \in Floor(upc)..MaxPeriod
      /\ \A t \in Timer \ running : Left[t] = 0
      /\ \A t \in Timer : period[t] \in 1..MaxPeriod
    BY State
<1>3. /\ Len(c) \in Nat /\ c \in [1..Len(c) -> running]
      /\ \A s \in running : \E i \in 1..Len(c) : c[i] = s
      /\ \A i, j \in 1..Len(c) : i < j => c[i] # c[j]
      /\ Members(list, Sentinel) = running
    BY <1>2, GoodChain
<1> HIDE DEF c, L2
<1>4. \A t \in Timer : L2[t] = IF t \notin running \/ Left[t] > 0 THEN Left[t]
                               ELSE IF mode[t] = "periodic" THEN period[t] ELSE 1
    BY DEF L2
\* Every timer is given a deadline that leaves it as much.
<1>5. ASSUME NEW t \in running
      PROVE  /\ L2[t] \in 1..MaxPeriod
             /\ deadline'[t] \in Ticks /\ Diff(deadline'[t], tick) = L2[t]
  <2>1. t \in Timer /\ deadline[t] \in Ticks /\ deadline'[t] = Snapped(t)
      BY <1>1, <1>2, <1>3
  <2>2. ASSUME NEW n \in 1..MaxPeriod
        PROVE  After(tick, n) \in Ticks /\ Diff(After(tick, n), tick) = n
    <3>1. n \in Nat /\ 2 * n < Wrap
        BY Numbers
    <3>2. QED
        BY <1>2, <3>1, DiffOfAfter DEF Ticks
  <2>3. CASE Left[t] > 0
    <3>1. ~Due(t)
        BY <1>2, <2>3 DEF Due
    <3>2. deadline'[t] = deadline[t]
        BY <2>1, <3>1 DEF Snapped
    <3>3. L2[t] = Left[t] /\ Left[t] \in Floor(upc)..MaxPeriod /\ Left[t] \in Int
        BY <1>2, <1>4, <2>1, <2>3
    <3>4. Floor(upc) \in Int
        BY Floors DEF IInv
    <3>5. QED
        BY <1>2, <2>1, <2>3, <3>2, <3>3, <3>4, Numbers
  <2>4. CASE ~(Left[t] > 0)
    <3>1. Due(t)
        BY <1>2, <2>4 DEF Due
    <3> DEFINE n == IF mode[t] = "periodic" THEN period[t] ELSE 1
    <3>2. deadline'[t] = After(tick, n) /\ L2[t] = n
        BY <1>4, <2>1, <2>4, <3>1 DEF Snapped
    <3>3. n \in 1..MaxPeriod
        BY <1>2, <2>1, Numbers
    <3> HIDE DEF n
    <3>4. QED
        BY <2>2, <3>2, <3>3
  <2>5. QED
      BY <2>3, <2>4
<1>6. deadline' \in [Timer -> Ticks]
    BY <1>1, <1>2, <1>3, <1>5
<1>7. L2 = LeftOf(running, deadline', tick)
  <2>1. \A t \in Timer : L2[t] = IF t \in running THEN Diff(deadline'[t], tick) ELSE 0
      BY <1>2, <1>4, <1>5
  <2>2. L2 = [t \in Timer |-> L2[t]]
      BY DEF L2
  <2> HIDE DEF L2
  <2>3. QED
      BY <2>1, <2>2 DEF LeftOf
<1>8. Clocks(running, deadline', tick, 1)
  <2>1. 1 \in Int /\ 0 - 2 * MaxSleep < 1 /\ 1 <= 1
      BY Numbers
  <2>2. \A t \in running : LeftOf(running, deadline', tick)[t] \in 1..MaxPeriod
      BY <1>5, <1>7
  <2>3. QED
      BY <1>2, <1>6, <2>1, <2>2 DEF Clocks
<1>9. Clocks(running, deadline', tick, Floor("idle"))
  <2>1. Floor("idle") \in Int /\ 0 - 2 * MaxSleep < Floor("idle") /\ Floor("idle") <= 0
      BY Floors DEF Phase
  <2>2. \A t \in running : LeftOf(running, deadline', tick)[t] >= Floor("idle")
      BY <1>5, <1>7, <2>1
  <2>3. Floor("idle") <= 1
      BY <2>1
  <2>4. QED
      BY <1>8, <2>1, <2>2, <2>3, ClocksFloor
<1>10. Good(list', running, L2)
  <2>1. Spaced(running, deadline', L2)
      BY <1>7, <1>8, Apart
  <2>2. QED
      BY <1>1, <1>2, <1>3, <2>1, GoodAll
<1>11. IInv'
    BY <1>1, <1>7, <1>9, <1>10, Assemble DEF IInv, Phase
<1>12. Left' = LeftOf(running', deadline', tick')
    BY DEF Left, LeftOf
<1>13. QED
    BY <1>1, <1>7, <1>11, <1>12 DEF L2

\* A stuttering step keeps the invariant.
LEMMA StutterStep ==
    ASSUME IInv, UNCHANGED vars
    PROVE  IInv' /\ Left' = Left
<1>1. /\ list' = list /\ deadline' = deadline /\ running' = running /\ tick' = tick
      /\ period' = period /\ mode' = mode /\ upc' = upc /\ cur' = cur /\ saved' = saved
    BY DEF vars, setup, walk
<1>2. IInv'
    BY <1>1, Assemble DEF IInv
<1>3. QED
    BY <1>1, <1>2 DEF Left

\* The calls of the API.
LEMMA CallStep ==
    ASSUME IInv, Disciplined, NEW t \in Timer, Call(t)
    PROVE  IInv'
<1>1. ASSUME NEW p \in Period, NEW m \in Mode, Create(t, m, p) PROVE IInv'
    BY <1>1, CreateStep
<1>2. QED
    BY <1>1, StartStep, StopStep, SetPeriodStep DEF Call

\* The invariant is inductive when callbacks leave other running timers alone.
LEMMA Inductive == ASSUME Disciplined PROVE Spec => []IInv
<1>1. Init => IInv
    BY InitInv
<1>2. IInv /\ [Next]_vars => IInv'
  <2>1. SUFFICES ASSUME IInv, [Next]_vars PROVE IInv'
      OBVIOUS
  <2>2. ASSUME NEW t \in Timer, Call(t) PROVE IInv'
      BY <2>1, <2>2, CallStep
  <2>3. ASSUME NEW n \in 0..MaxSleep, Idle(n) \/ DeepSleep(n) PROVE IInv'
      BY <2>1, <2>3, IdleStep, DeepSleepStep
  <2>4. CASE SysTick
      BY <2>1, <2>4, SysTickStep
  <2>5. CASE FireNext
      BY <2>1, <2>5, FireNextStep
  <2>6. CASE EndUpdate
      BY <2>1, <2>6, EndUpdateStep
  <2>7. CASE CompensateAll
      BY <2>1, <2>7, CompensateAllStep
  <2>8. CASE UNCHANGED vars
      BY <2>1, <2>8, StutterStep
  <2>9. QED
      BY <2>1, <2>2, <2>3, <2>4, <2>5, <2>6, <2>7, <2>8 DEF Next, Update
<1>3. QED
    BY <1>1, <1>2, PTL DEF Spec

\* The variables have their types.
LEMMA Types == ASSUME IInv PROVE TypeOK
<1>1. Good(list, running, Left) /\ deadline \in [Timer -> Ticks] /\ tick \in Ticks
    BY State
<1>2. list \in [next : [Node -> Node], prev : [Node -> Node]] /\ running \subseteq Timer
    BY <1>1, GoodParts
<1>3. QED
    BY <1>1, <1>2 DEF TypeOK, IInv, Ticks, Phase

----------------------------------------------------------------------------
\* ActiveListSound: the list of active timers holds exactly the running ones, with links
\* that agree in both directions, in the order of expiry across the wrap of the tick, for
\* every number of timers and every interleaving of calls with an update
\* (timer_insert_sorted, Anbo_Timer_Update).
THEOREM ListIsSound == ASSUME Disciplined PROVE Spec => []ActiveListSound
<1>1. ASSUME IInv PROVE ActiveListSound
  <2> DEFINE c == Chain(list, Sentinel)
  <2>1. Good(list, running, Left) /\ TypeOK
      BY <1>1, State, Types
  <2>2. /\ Coherent(list) /\ Members(list, Sentinel) = running
        /\ \A i, j \in 1..Len(c) : i < j => Left[c[i]] <= Left[c[j]]
      BY <2>1, GoodChain
  <2>3. \A t \in Timer \ running : list.next[t] = t
      BY <2>1, GoodParts
  <2>4. QED
      BY <2>1, <2>2, <2>3 DEF ActiveListSound
<1>2. QED
    BY <1>1, Inductive, PTL

\* MsToNextExact: the sleep that Anbo_Timer_MsToNext allows ends when the first timer
\* expires, on whichever side of the wrap its deadline lies.
THEOREM SleepEndsInTime == ASSUME Disciplined PROVE Spec => []MsToNextExact
<1>1. ASSUME IInv PROVE MsToNextExact
  <2>1. SUFFICES ASSUME running # {}
                 PROVE  \E t \in running :
                            /\ \A u \in running : Left[t] <= Left[u]
                            /\ MsToNext(tick) = IF Left[t] > 0 THEN Left[t] ELSE 0
      BY DEF MsToNextExact
  <2>2. /\ Good(list, running, Left)
        /\ \A u \in running : Left[u] = Diff(deadline[u], tick) /\ Left[u] \in Int
      BY <1>1, State
  <2>3. /\ list.next[Sentinel] \in running /\ list.next[Sentinel] # Sentinel
        /\ \A u \in running : Left[list.next[Sentinel]] <= Left[u]
      BY <2>1, <2>2, GoodFirst
  <2>4. MsToNext(tick)
            = IF Left[list.next[Sentinel]] > 0 THEN Left[list.next[Sentinel]] ELSE 0
      BY <2>2, <2>3 DEF MsToNext, IsEmptyList
  <2>5. QED
      BY <2>3, <2>4
<1>2. QED
    BY <1>1, Inductive, PTL

\* NoneLeftDue: Anbo_Timer_Update returns only when every timer that was due has fired,
\* although it stops at the first one that is not due.
THEOREM UpdateLeavesNoneDue == ASSUME Disciplined PROVE Spec => NoneLeftDue
<1>1. ASSUME IInv, [Next]_vars PROVE [EndUpdate => \A t \in running : Left[t] > 0]_vars
    BY <1>1, EndUpdateStep
<1>2. QED
    BY <1>1, Inductive, PTL DEF Spec, NoneLeftDue

----------------------------------------------------------------------------
\* The timers of R that have nothing left.
DueOf(R, L) == {u \in R : L[u] <= 0}

\* A timer that is stopped or given time is not due, and no other one becomes due.
LEMMA NoNewDue ==
    ASSUME NEW t \in Timer, NEW x \in Int, x >= 0, NEW R, NEW L, DOMAIN L = Timer,
           NEW R2, R2 \subseteq Timer, NEW L2, L2 = Changed(L, t, x),
           (x > 0 /\ R2 \subseteq R \cup {t}) \/ R2 \subseteq R \ {t}
    PROVE  DueOf(R2, L2) \subseteq DueOf(R, L) /\ t \notin DueOf(R2, L2)
<1>1. L2[t] = x /\ \A u \in Timer : u # t => L2[u] = L[u]
    BY DEF Changed
<1>2. QED
    BY <1>1 DEF DueOf

\* UpdateAdvances: every callback that Anbo_Timer_Update starts leaves fewer timers due,
\* and what callbacks and interrupts call meanwhile makes none due, so it returns.
THEOREM UpdateComesToAnEnd == ASSUME Disciplined PROVE Spec => UpdateAdvances
<1>1. ASSUME Disciplined, IInv, [Next]_vars
      PROVE  [upc = "enter" \/ upc = "callback" =>
                 /\ DueTimers' \subseteq DueTimers
                 /\ FireNext => DueTimers' # DueTimers]_vars
  <2>1. SUFFICES ASSUME Next, upc = "enter" \/ upc = "callback"
                 PROVE  /\ DueTimers' \subseteq DueTimers
                        /\ FireNext => DueTimers' # DueTimers
      BY <1>1
  <2>2. /\ running \subseteq Timer /\ DOMAIN Left = Timer
        /\ \A t \in Timer : period[t] \in 1..MaxPeriod
      BY <1>1, State DEF Left
  <2>3. DueTimers = DueOf(running, Left) /\ DueTimers' = DueOf(running', Left')
      BY DEF DueTimers, DueOf
  <2>4. CASE FireNext
    <3> DEFINE t == Position
    <3>1. /\ t \in running /\ Left[t] <= 0
          /\ IF mode[t] = "periodic"
             THEN running' = running /\ Left' = Changed(Left, t, period[t])
             ELSE running' = running \ {t} /\ Left' = Changed(Left, t, 0)
        BY <1>1, <2>4, FireNextStep
    <3> HIDE DEF t
    <3>2. period[t] \in Int /\ period[t] > 0 /\ t \in Timer
        BY <2>2, <3>1
    <3>3. DueTimers' \subseteq DueTimers /\ t \notin DueTimers'
      <4>1. CASE mode[t] = "periodic"
          BY <2>2, <2>3, <3>1, <3>2, <4>1, NoNewDue
      <4>2. CASE mode[t] # "periodic"
          BY <2>2, <2>3, <3>1, <3>2, <4>2, NoNewDue
      <4>3. QED
          BY <4>1, <4>2
    <3>4. t \in DueTimers
        BY <2>3, <3>1 DEF DueOf
    <3>5. QED
        BY <3>3, <3>4
  <2>5. ASSUME ~FireNext PROVE DueTimers' \subseteq DueTimers
    <3>1. ASSUME running' = running, Left' = Left PROVE DueTimers' \subseteq DueTimers
        BY <2>3, <3>1
    <3>2. ASSUME NEW t \in Timer, Start(t) PROVE DueTimers' \subseteq DueTimers
      <4>1. /\ running' = running \cup {t} /\ Left' = Changed(Left, t, period[t])
            /\ running' \subseteq Timer
          BY <1>1, <2>2, <3>2, StartStep DEF Start, Changed
      <4>2. period[t] \in Int /\ period[t] > 0
          BY <2>2
      <4>3. QED
          BY <2>2, <2>3, <4>1, <4>2, NoNewDue
    <3>3. ASSUME NEW t \in Timer, Stop(t) PROVE DueTimers' \subseteq DueTimers
      <4>1. /\ running' = running \ {t} /\ Left' = Changed(Left, t, 0)
            /\ running' \subseteq Timer
          BY <1>1, <2>2, <3>3, StopStep DEF Stop, Changed
      <4>2. QED
          BY <2>2, <2>3, <4>1, NoNewDue
    <3>4. ASSUME NEW t \in Timer, NEW p \in Period, SetPeriod(t, p)
          PROVE  DueTimers' \subseteq DueTimers
        BY <1>1, <3>1, <3>4, SetPeriodStep DEF SetPeriod
    <3>5. ASSUME NEW t \in Timer, NEW p \in Period, NEW m \in Mode, Create(t, m, p)
          PROVE  DueTimers' \subseteq DueTimers
        BY <1>1, <3>1, <3>5, CreateStep DEF Create
    <3>6. CASE EndUpdate
        BY <1>1, <3>1, <3>6, EndUpdateStep DEF EndUpdate
    <3>7. ~SysTick /\ ~CompensateAll /\ \A n \in 0..MaxSleep : ~Idle(n) /\ ~DeepSleep(n)
        BY <2>1 DEF SysTick, CompensateAll, Idle, DeepSleep
    <3>8. QED
        BY <2>1, <2>5, <3>2, <3>3, <3>4, <3>5, <3>6, <3>7 DEF Next, Update, Call
  <2>6. QED
      BY <2>4, <2>5
<1>2. QED
    BY <1>1, Inductive, PTL DEF Spec, UpdateAdvances

----------------------------------------------------------------------------
\* The initial states are those of the service.
LEMMA InitRefines == Init => Abstract!TimerInit
<1> SUFFICES ASSUME Init PROVE Abstract!TimerInit
    OBVIOUS
<1>1. IInv /\ Left = [t \in Timer |-> 0] /\ running = {}
    BY InitInv DEF Init
<1>2. period \in [Timer -> Nat] /\ mode \in [Timer -> {"oneshot", "periodic"}]
    BY <1>1 DEF IInv, Period, Mode
<1>3. QED
    BY <1>1, <1>2 DEF Abstract!TimerInit, Init

\* Whose callback runs, and what a user of the timers sees.
Calling == IF upc = "callback" THEN cur ELSE Sentinel
shown == <<running, Left, period, mode, Calling>>

\* Every step is one of the service or leaves it as it is.
LEMMA StepRefines ==
    ASSUME Disciplined, IInv, [Next]_vars
    PROVE  [Abstract!TimerNext]_shown
<1>1. SUFFICES ASSUME Next PROVE Abstract!TimerNext \/ shown' = shown
  <2>1. ASSUME UNCHANGED vars PROVE shown' = shown
    <3>1. /\ running' = running /\ Left' = Left
          /\ period' = period /\ mode' = mode /\ upc' = upc /\ cur' = cur
        BY <2>1, StutterStep DEF vars, setup, walk
    <3>2. QED
        BY <3>1 DEF shown, Calling
  <2>2. QED
      BY <2>1
<1>2. ASSUME NEW t \in Timer, Start(t) PROVE Abstract!TimerNext
  <2>1. /\ running' = running \cup {t} /\ Left' = [Left EXCEPT ![t] = period[t]]
        /\ period' = period /\ mode' = mode /\ upc' = upc /\ cur' = cur
      BY <1>2, StartStep DEF Start, setup, walk
  <2>2. QED
      BY <2>1 DEF Abstract!TimerNext, Abstract!Arm
<1>3. ASSUME NEW t \in Timer, Stop(t) PROVE Abstract!TimerNext
  <2>1. /\ running' = running \ {t} /\ Left' = [Left EXCEPT ![t] = 0]
        /\ period' = period /\ mode' = mode /\ upc' = upc /\ cur' = cur
      BY <1>3, StopStep DEF Stop, setup, walk
  <2>2. QED
      BY <2>1 DEF Abstract!TimerNext, Abstract!Disarm
<1>4. ASSUME NEW t \in Timer, NEW p \in Period, SetPeriod(t, p) PROVE Abstract!TimerNext
  <2>1. /\ Left' = Left /\ running' = running /\ mode' = mode
        /\ period' = [period EXCEPT ![t] = p] /\ upc' = upc /\ cur' = cur
      BY <1>4, SetPeriodStep DEF SetPeriod, walk
  <2>2. period'[t] = p /\ p \in Nat
      BY <2>1 DEF IInv, Period
  <2>3. QED
      BY <2>1, <2>2 DEF Abstract!TimerNext, Abstract!Retune
<1>5. ASSUME NEW t \in Timer, NEW p \in Period, NEW m \in Mode, Create(t, m, p)
      PROVE  Abstract!TimerNext
  <2>1. /\ Left' = Left /\ running' = running /\ t \notin running
        /\ mode' = [mode EXCEPT ![t] = m] /\ period' = [period EXCEPT ![t] = p]
        /\ upc' = upc /\ cur' = cur
      BY <1>5, CreateStep DEF Create, walk
  <2>2. period'[t] = p /\ p \in Nat /\ m \in {"oneshot", "periodic"}
      BY <2>1 DEF IInv, Period, Mode
  <2>3. QED
      BY <2>1, <2>2 DEF Abstract!TimerNext, Abstract!Define
<1>6. ASSUME NEW n \in 0..MaxSleep, running' = running, Left' = Later(running, Left, n),
             period' = period, mode' = mode, upc # "callback", upc' # "callback"
      PROVE  Abstract!TimerNext
    BY <1>6 DEF Abstract!TimerNext, Abstract!Pass, Later
<1>7. ASSUME SysTick PROVE Abstract!TimerNext
  <2>1. upc # "callback" /\ upc' # "callback"
      BY <1>7 DEF SysTick
  <2>2. QED
      BY <1>6, <1>7, <2>1, SysTickStep
<1>8. ASSUME NEW n \in 0..MaxSleep, Idle(n) \/ DeepSleep(n) PROVE Abstract!TimerNext
  <2>1. upc # "callback" /\ upc' # "callback"
      BY <1>8 DEF Idle, DeepSleep, walk
  <2>2. QED
      BY <1>6, <1>8, <2>1, IdleStep, DeepSleepStep
<1>9. ASSUME FireNext PROVE Abstract!TimerNext
  <2> DEFINE t == Position
  <2>1. /\ t \in running /\ Left[t] <= 0 /\ \A u \in running : Left[t] <= Left[u]
        /\ IF mode[t] = "periodic"
           THEN running' = running /\ Left' = [Left EXCEPT ![t] = period[t]]
           ELSE running' = running \ {t} /\ Left' = [Left EXCEPT ![t] = 0]
        /\ period' = period /\ mode' = mode /\ upc' = "callback" /\ cur' = t
      BY <1>9, FireNextStep DEF FireNext, setup, Changed
  <2> HIDE DEF t
  <2>2. t \in Timer
      BY <2>1, State
  <2>3. Abstract!Fire(t)
      BY <2>1 DEF Abstract!Fire
  <2>4. QED
      BY <2>2, <2>3 DEF Abstract!TimerNext
<1>10. ASSUME EndUpdate PROVE Abstract!TimerNext
  <2>1. /\ \A t \in running : Left[t] > 0
        /\ Left' = Left /\ running' = running /\ period' = period /\ mode' = mode
        /\ upc' = "idle"
      BY <1>10, EndUpdateStep DEF EndUpdate, setup
  <2>2. QED
      BY <2>1 DEF Abstract!TimerNext, Abstract!Quiesce
<1>11. ASSUME CompensateAll PROVE Abstract!TimerNext
  <2>1. upc # "callback" /\ upc' # "callback"
      BY <1>11 DEF CompensateAll
  <2>2. QED
      BY <1>11, <2>1, CompensateAllStep DEF Abstract!TimerNext, Abstract!CatchUp
<1>12. QED
    BY <1>1, <1>2, <1>3, <1>4, <1>5, <1>7, <1>8, <1>9, <1>10, <1>11 DEF Next, Update, Call

\* ImplementsTimerService: wrapping ticks and deadlines, compared by their signed
\* difference, implement timers in unbounded time: a callback starts only for a running
\* timer whose time has passed, the earliest first, and an update leaves nobody due.
THEOREM WrappingTimeIsTime == ASSUME Disciplined PROVE Spec => ImplementsTimerService
<1>1. ASSUME IInv, [Next]_vars PROVE [Abstract!TimerNext]_shown
    BY <1>1, StepRefines
<1>2. ASSUME [Abstract!TimerNext]_shown
      PROVE  [Abstract!TimerNext]_(Abstract!timerVars)
    BY <1>2 DEF Abstract!timerVars, shown, Calling
<1>3. QED
    BY <1>1, <1>2, InitRefines, Inductive, PTL
       DEF Spec, ImplementsTimerService, Abstract!TimerSpec
=============================================================================
