------------------------------- MODULE Lemmas -------------------------------
(***************************************************************************)
(* What the proofs about several components need: facts about remainders,  *)
(* for wrapping and masked indices and ticks; induction over numbers,      *)
(* taken from their well-founded order; and what a traversal of an         *)
(* intrusive list visits, for any list whose nodes have positions that     *)
(* ascend along it.  Following walks as many steps as there are nodes; as  *)
(* a function on an interval it is unfolded by induction.                  *)
(***************************************************************************)
EXTENDS IntrusiveList, Integers, WellFoundedInduction, FiniteSetTheorems, FunctionTheorems, TLAPS

----------------------------------------------------------------------------
\* Remainders

\* Dividing with remainder, as one fact.
LEMMA DivisionFact ==
    ASSUME NEW a \in Int, NEW n \in Nat \ {0}
    PROVE  /\ a % n \in 0..(n - 1)
           /\ a \div n \in Int
           /\ a = n * (a \div n) + (a % n)
BY SMT

\* Products the solver does not regroup by itself.
LEMMA Regroup ==
    ASSUME NEW k \in Int, NEW s \in Int, NEW d \in Int, NEW e \in Int
    PROVE  /\ (k * s) * d = s * (k * d)
           /\ s * (d + e) = s * d + s * e
BY SMT

\* Quotient and remainder are unique.
LEMMA RemainderUnique ==
    ASSUME NEW n \in Nat \ {0}, NEW q1 \in Int, NEW q2 \in Int,
           NEW r1 \in 0..(n - 1), NEW r2 \in 0..(n - 1),
           n * q1 + r1 = n * q2 + r2
    PROVE  r1 = r2
<1>1. n * (q1 - q2) = r2 - r1
    BY SMT
<1>2. q1 - q2 >= 1 => n * (q1 - q2) >= n
    BY SMT
<1>3. q2 - q1 >= 1 => n * (q2 - q1) >= n
    BY SMT
<1>4. QED
    BY <1>1, <1>2, <1>3, SMT

\* The remainder of a number written as a multiple plus a small rest.
LEMMA RemainderOf ==
    ASSUME NEW n \in Nat \ {0}, NEW a \in Int, NEW q \in Int, NEW r \in 0..(n - 1),
           a = n * q + r
    PROVE  a % n = r
<1>1. /\ a % n \in 0..(n - 1) /\ a \div n \in Int
      /\ a = n * (a \div n) + (a % n)
    BY DivisionFact
<1>2. n * (a \div n) + (a % n) = n * q + r
    BY <1>1
<1>3. QED
    BY <1>1, <1>2, RemainderUnique

\* Adding to a wrapped index and wrapping again is wrapping the sum.
LEMMA WrapSum ==
    ASSUME NEW n \in Nat \ {0}, NEW a \in Int, NEW b \in Int
    PROVE  ((a % n) + b) % n = (a + b) % n
<1> DEFINE x == (a % n) + b
<1>1. /\ a % n \in 0..(n - 1) /\ a \div n \in Int
      /\ a = n * (a \div n) + (a % n)
    BY DivisionFact
<1>2. x \in Int
    BY <1>1
<1>3. /\ x % n \in 0..(n - 1) /\ x \div n \in Int
      /\ x = n * (x \div n) + (x % n)
    BY <1>2, DivisionFact
<1>4. a + b = n * (a \div n) + x
    BY <1>1
<1> HIDE DEF x
<1>5. a + b = n * ((a \div n) + (x \div n)) + (x % n)
    BY <1>1, <1>2, <1>3, <1>4, SMT
<1>6. (a \div n) + (x \div n) \in Int
    BY <1>1, <1>3
<1>7. (a + b) % n = x % n
  <2>1. a + b \in Int
    OBVIOUS
  <2>2. QED
    BY <1>3, <1>5, <1>6, <2>1, RemainderOf
<1>8. QED
    BY <1>7 DEF x

\* A number already in range is its own remainder.
LEMMA SmallRemainder ==
    ASSUME NEW n \in Nat \ {0}, NEW r \in 0..(n - 1)
    PROVE  r % n = r
BY SMT

\* Wrapped indices a short way apart differ by their true distance.
LEMMA WrapDistance ==
    ASSUME NEW n \in Nat \ {0}, NEW a \in Int, NEW b \in Int, a - b \in 0..(n - 1)
    PROVE  ((a % n) - (b % n)) % n = a - b
<1>1. b % n \in 0..(n - 1) /\ b \div n \in Int /\ b = n * (b \div n) + (b % n)
    BY DivisionFact
<1> DEFINE c == 0 - (b % n)
<1>2. c \in Int
    BY <1>1
<1>3. ((a % n) + c) % n = (a + c) % n
    BY <1>2, WrapSum
<1>4. a + c = n * (b \div n) + (a - b) /\ a + c \in Int
    BY <1>1, <1>2
<1> HIDE DEF c
<1>5. (a + c) % n = a - b
    BY <1>1, <1>4, RemainderOf
<1>6. a % n \in Int
    BY DivisionFact
<1>7. (a % n) + c = (a % n) - (b % n)
    BY <1>1, <1>6 DEF c
<1>8. QED
    BY <1>3, <1>5, <1>7

\* The capacity divides the index range, so the slot survives a wrap.
LEMMA SlotOfWrapped ==
    ASSUME NEW s \in Nat \ {0}, NEW m \in Nat \ {0}, NEW k \in Nat, m = k * s,
           NEW a \in Int
    PROVE  (a % m) % s = a % s
<1> DEFINE x == a % m
<1>1. x \in 0..(m - 1) /\ a \div m \in Int /\ a = m * (a \div m) + x
    BY DivisionFact
<1>2. m * (a \div m) = s * (k * (a \div m))
  <2>1. (k * s) * (a \div m) = s * (k * (a \div m))
    BY <1>1, Regroup
  <2>2. QED
    BY <2>1
<1> HIDE DEF x
<1>3. x \in Int
    BY <1>1
<1>4. x % s \in 0..(s - 1) /\ x \div s \in Int /\ x = s * (x \div s) + (x % s)
    BY <1>3, DivisionFact
<1>5. k * (a \div m) \in Int
    BY <1>1
<1>6. a = s * (k * (a \div m) + (x \div s)) + (x % s)
  <2>1. s * (k * (a \div m) + (x \div s)) = s * (k * (a \div m)) + s * (x \div s)
    BY <1>4, <1>5, Regroup
  <2>2. a = s * (k * (a \div m)) + (s * (x \div s) + (x % s))
    BY <1>1, <1>2, <1>4
  <2>3. s * (k * (a \div m)) \in Int /\ s * (x \div s) \in Int
    BY <1>4, <1>5
  <2>4. QED
    BY <1>4, <2>1, <2>2, <2>3
<1>7. k * (a \div m) + (x \div s) \in Int
    BY <1>4, <1>5
<1>8. a % s = x % s
    BY <1>4, <1>6, <1>7, RemainderOf
<1>9. QED
    BY <1>8 DEF x

\* Different positions less than one capacity apart have different slots.
LEMMA SlotsDistinct ==
    ASSUME NEW s \in Nat \ {0}, NEW a \in Int, NEW b \in Int,
           a % s = b % s, a - b \in 0..(s - 1)
    PROVE  a = b
<1>1. a % s \in 0..(s - 1) /\ a \div s \in Int /\ a = s * (a \div s) + (a % s)
    BY DivisionFact
<1>2. b % s \in 0..(s - 1) /\ b \div s \in Int /\ b = s * (b \div s) + (b % s)
    BY DivisionFact
<1>3. s * (a \div s) + 0 = s * (b \div s) + (a - b)
    BY <1>1, <1>2, SMT
<1>4. 0 \in 0..(s - 1)
    OBVIOUS
<1>5. a - b = 0
    BY <1>1, <1>2, <1>3, <1>4, RemainderUnique
<1>6. QED
    BY <1>5

\* The remainder of a number that is off by at most one wrap.
LEMMA NearRemainder ==
    ASSUME NEW n \in Nat \ {0}, NEW a \in Int
    PROVE  /\ a \in 0..(n - 1) => a % n = a
           /\ a \in n..(2 * n - 1) => a % n = a - n
           /\ a \in (0 - n)..(0 - 1) => a % n = a + n
<1>1. a \in 0..(n - 1) => a % n = a
    BY SmallRemainder
<1>2. ASSUME a \in n..(2 * n - 1) PROVE a % n = a - n
  <2>1. a = n * 1 + (a - n) /\ a - n \in 0..(n - 1) /\ 1 \in Int
    BY <1>2
  <2>2. QED
    BY <2>1, RemainderOf
<1>3. ASSUME a \in (0 - n)..(0 - 1) PROVE a % n = a + n
  <2>1. a = n * (0 - 1) + (a + n) /\ a + n \in 0..(n - 1) /\ 0 - 1 \in Int
    BY <1>3
  <2>2. QED
    BY <2>1, RemainderOf
<1>4. QED
    BY <1>1, <1>2, <1>3

----------------------------------------------------------------------------
\* Numbers

\* A set of naturals that is not empty has a least member.
LEMMA LeastMember ==
    ASSUME NEW T, T \subseteq Nat, T # {}
    PROVE  \E x \in T : \A y \in T : x <= y
<1> DEFINE R == OpToRel(<, Nat)
<1>1. IsWellFoundedOn(R, Nat)
    BY NatLessThanWellFounded, Zenon
<1>2. \A x, y \in Nat : <<y, x>> \in R <=> y < x
    BY DEF OpToRel
<1> HIDE DEF R
<1>3. PICK x \in T : \A y \in T : <<y, x>> \notin R
    BY <1>1, WFMin
<1>4. \A y \in T : ~(y < x) /\ y \in Nat /\ x \in Nat
    BY <1>2, <1>3
<1>5. QED
    BY <1>3, <1>4

\* Induction over a set of naturals.
LEMMA AllNaturals ==
    ASSUME NEW T, 0 \in T, \A n \in Nat : n \in T => n + 1 \in T
    PROVE  Nat \subseteq T
<1> DEFINE U == Nat \ T
<1>1. SUFFICES ASSUME U # {} PROVE FALSE
    OBVIOUS
<1>2. PICK x \in U : \A y \in U : x <= y
    BY <1>1, LeastMember
<1>3. x \in Nat /\ x # 0 /\ x - 1 \in Nat /\ x = (x - 1) + 1
    BY <1>2
<1>4. x - 1 \notin U
    BY <1>2, <1>3
<1>5. QED
    BY <1>2, <1>3, <1>4

----------------------------------------------------------------------------
\* Lists

\* The first n nodes g of a walk through the nodes S that ends at the head h.
IsWalk(g, S, h, p, next, n) ==
    /\ g \in [1..n -> S \cup {h}]
    /\ \A i \in 1..n : g[i] = IF i = 1 THEN p ELSE IF g[i - 1] = h THEN h ELSE next[g[i - 1]]

\* What a traversal that takes these steps visits.
VisitedNodes(g, h, n) == [i \in 1..Cardinality({j \in 1..n : g[j] # h}) |-> g[i]]

\* From every node there is a walk of every length.
LEMMA WalkExists ==
    ASSUME NEW S, NEW h, NEW p, NEW next, NEW n,
           p \in S \cup {h}, \A s \in S : next[s] \in S \cup {h}, n \in Nat
    PROVE  \E g : IsWalk(g, S, h, p, next, n)
<1> DEFINE Walks(k) == {g \in [1..k -> S \cup {h}] : IsWalk(g, S, h, p, next, k)}
           T == {k \in Nat : Walks(k) # {}}
<1>1. 0 \in T
  <2>1. [i \in 1..0 |-> p] \in Walks(0)
      BY DEF IsWalk
  <2>2. QED
      BY <2>1
<1>2. ASSUME NEW k \in Nat, k \in T PROVE k + 1 \in T
  <2>0. PICK g : g \in Walks(k)
      BY <1>2
  <2>1. /\ g \in [1..k -> S \cup {h}]
        /\ \A i \in 1..k : g[i] = IF i = 1 THEN p ELSE IF g[i - 1] = h THEN h ELSE next[g[i - 1]]
      BY <2>0 DEF IsWalk
  <2> DEFINE e == IF k = 0 THEN p ELSE IF g[k] = h THEN h ELSE next[g[k]]
             g2 == [i \in 1..(k + 1) |-> IF i <= k THEN g[i] ELSE e]
  <2>2. e \in S \cup {h}
    <3>1. CASE k = 0
        BY <3>1
    <3>2. CASE k # 0
      <4>1. g[k] \in S \cup {h}
          BY <2>1, <3>2
      <4>2. QED
          BY <3>2, <4>1
    <3>3. QED
        BY <3>1, <3>2
  <2>3. g2 \in [1..(k + 1) -> S \cup {h}]
      BY <2>1, <2>2
  <2>4. ASSUME NEW i \in 1..(k + 1)
        PROVE  g2[i] = IF i = 1 THEN p ELSE IF g2[i - 1] = h THEN h ELSE next[g2[i - 1]]
    <3>1. CASE i <= k
      <4>1. i \in 1..k /\ g2[i] = g[i] /\ (i # 1 => i - 1 \in 1..k /\ g2[i - 1] = g[i - 1])
          BY <3>1
      <4>2. QED
          BY <2>1, <4>1
    <3>2. CASE i = k + 1
      <4>1. g2[i] = e /\ (i # 1 => k # 0 /\ i - 1 = k /\ k \in 1..(k + 1) /\ g2[i - 1] = g[k])
          BY <3>2
      <4>2. i = 1 => k = 0
          BY <3>2
      <4>3. QED
          BY <4>1, <4>2
    <3>3. QED
        BY <3>1, <3>2
  <2>5. g2 \in Walks(k + 1)
      BY <2>3, <2>4 DEF IsWalk
  <2> HIDE DEF g2, Walks
  <2>6. QED
      BY <2>5
<1>3. n \in T
  <2> HIDE DEF T
  <2>1. Nat \subseteq T
      BY <1>1, <1>2, AllNaturals
  <2>2. QED
      BY <2>1
<1>4. QED
    BY <1>3

\* The traversal of ANBO_LIST_FOR_EACH visits the nodes of such a walk.
LEMMA FollowingIsWalk ==
    ASSUME NEW l, NEW h, NEW p, NEW S, p \in S \cup {h}, \A s \in S : l.next[s] \in S \cup {h},
           IsFiniteSet(DOMAIN l.next)
    PROVE  \E g : /\ IsWalk(g, S, h, p, l.next, Cardinality(DOMAIN l.next))
                  /\ Following(l, h, p) = VisitedNodes(g, h, Cardinality(DOMAIN l.next))
<1> DEFINE n == Cardinality(DOMAIN l.next)
           at[i \in 1..n] == IF i = 1 THEN p
                          ELSE IF at[i - 1] = h THEN h ELSE l.next[at[i - 1]]
<1>1. n \in Nat
    BY FS_CardinalityType
<1> HIDE DEF n, at
<1>2. PICK g : IsWalk(g, S, h, p, l.next, n)
    BY <1>1, WalkExists
<1>3. /\ g \in [1..n -> S \cup {h}]
      /\ \A i \in 1..n : g[i] = IF i = 1 THEN p ELSE IF g[i - 1] = h THEN h ELSE l.next[g[i - 1]]
    BY <1>2 DEF IsWalk
<1>4. g = [i \in 1..n |-> IF i = 1 THEN p ELSE IF g[i - 1] = h THEN h ELSE l.next[g[i - 1]]]
    BY <1>3
<1>5. at = [i \in 1..n |-> IF i = 1 THEN p ELSE IF at[i - 1] = h THEN h ELSE l.next[at[i - 1]]]
    BY <1>4 DEF at
<1>6. Following(l, h, p) = [i \in 1..Cardinality({j \in 1..n : at[j] # h}) |-> at[i]]
    BY DEF Following, n, at
<1>7. \A i \in 1..n : at[i] = g[i]
  <2> DEFINE U == {i \in 1..n : at[i] # g[i]}
  <2>1. SUFFICES ASSUME U # {} PROVE FALSE
      OBVIOUS
  <2>a. U \subseteq Nat
      OBVIOUS
  <2>2. PICK x \in U : \A y \in U : x <= y
    <3> HIDE DEF U
    <3>1. QED
        BY <2>1, <2>a, LeastMember
  <2>3. x \in 1..n /\ at[x] # g[x]
      BY <2>2
  <2>4. CASE x = 1
      BY <1>3, <1>5, <2>3, <2>4
  <2>5. CASE x # 1
    <3>1. x - 1 \in 1..n /\ x - 1 \notin U
        BY <1>1, <2>2, <2>3, <2>5
    <3>2. at[x - 1] = g[x - 1]
        BY <3>1
    <3>3. g[x] = IF g[x - 1] = h THEN h ELSE l.next[g[x - 1]]
        BY <1>3, <2>3, <2>5, Zenon
    <3>4. at[x] = IF at[x - 1] = h THEN h ELSE l.next[at[x - 1]]
      <4> DEFINE b(i) == IF i = 1 THEN p ELSE IF at[i - 1] = h THEN h ELSE l.next[at[i - 1]]
      <4>1. at = [i \in 1..n |-> b(i)]
          BY <1>5
      <4> HIDE DEF b
      <4>2. at[x] = b(x)
          BY <4>1, <2>3
      <4>3. QED
          BY <4>2, <2>5 DEF b
    <3>5. QED
        BY <2>3, <3>2, <3>3, <3>4, Zenon
  <2>6. QED
      BY <2>4, <2>5
<1>8. at = g
  <2> DEFINE b(i) == IF i = 1 THEN p ELSE IF at[i - 1] = h THEN h ELSE l.next[at[i - 1]]
  <2>1. at = [i \in 1..n |-> b(i)]
      BY <1>5
  <2> HIDE DEF b
  <2>2. QED
      BY <2>1, <1>3, <1>7
<1>9. Following(l, h, p) = VisitedNodes(g, h, n)
    BY <1>6, <1>8 DEF VisitedNodes
<1>10. QED
    BY <1>2, <1>9 DEF n

\* A sequence of numbers each of which is smaller than the next one increases.
LEMMA Increasing ==
    ASSUME NEW k \in Nat, NEW q, \A i \in 1..k : q[i] \in Nat,
           \A i \in 1..(k - 1) : q[i] < q[i + 1]
    PROVE  \A i, j \in 1..k : i < j => q[i] < q[j]
<1> DEFINE U == {j \in 1..k : \E i \in 1..k : i < j /\ ~(q[i] < q[j])}
<1>1. SUFFICES ASSUME U # {} PROVE FALSE
    OBVIOUS
<1>2. U \subseteq Nat
    OBVIOUS
<1>3. PICK x \in U : \A y \in U : x <= y
  <2> HIDE DEF U
  <2>1. QED
      BY <1>1, <1>2, LeastMember
<1>4. PICK i \in 1..k : i < x /\ ~(q[i] < q[x])
    OBVIOUS
<1>5. x \in 1..k /\ x - 1 \in 1..(k - 1) /\ x - 1 \in 1..k /\ (x - 1) + 1 = x
    BY <1>4
<1>6. x - 1 \notin U
    BY <1>3, <1>5
<1>7. i # x - 1 => q[i] < q[x - 1]
    BY <1>4, <1>5, <1>6
<1>8. q[x - 1] < q[x]
    BY <1>5
<1>9. q[i] \in Nat /\ q[x - 1] \in Nat /\ q[x] \in Nat
    BY <1>4, <1>5
<1>10. QED
    BY <1>4, <1>7, <1>8, <1>9

\* The traversal of a list whose nodes have ascending positions starts at p, goes from
\* each node to the next one, and ends in front of the head.
LEMMA Traversal ==
    ASSUME NEW l, NEW h, NEW p, NEW S, NEW pos,
           IsFiniteSet(DOMAIN l.next), S \subseteq DOMAIN l.next, h \in DOMAIN l.next, h \notin S,
           p \in S \cup {h},
           \A s \in S : pos[s] \in Nat,
           \A s \in S : l.next[s] \in S \cup {h},
           \A s \in S : l.next[s] \in S => pos[s] < pos[l.next[s]]
    PROVE  \E k \in Nat :
              /\ Following(l, h, p) \in [1..k -> S]
              /\ k = 0 <=> p = h
              /\ k > 0 => /\ Following(l, h, p)[1] = p
                          /\ l.next[Following(l, h, p)[k]] = h
              /\ \A i \in 1..(k - 1) :
                    Following(l, h, p)[i + 1] = l.next[Following(l, h, p)[i]]
<1> DEFINE n == Cardinality(DOMAIN l.next)
<1>1. /\ n \in Nat
      /\ IsFiniteSet(S) /\ Cardinality(S) \in Nat /\ Cardinality(S) < n
  <2>1. n \in Nat
      BY FS_CardinalityType
  <2>2. S # DOMAIN l.next
      OBVIOUS
  <2>3. QED
      BY <2>1, <2>2, FS_Subset, FS_CardinalityType
<1>2. PICK g : IsWalk(g, S, h, p, l.next, n) /\ Following(l, h, p) = VisitedNodes(g, h, n)
    BY FollowingIsWalk
<1> HIDE DEF n
<1>3. /\ g \in [1..n -> S \cup {h}]
      /\ \A i \in 1..n : g[i] = IF i = 1 THEN p ELSE IF g[i - 1] = h THEN h ELSE l.next[g[i - 1]]
    BY <1>2 DEF IsWalk
<1> DEFINE H == {i \in 1..n : g[i] = h}
<1>4. H # {}
  <2>1. SUFFICES ASSUME \A i \in 1..n : g[i] \in S PROVE FALSE
      BY <1>3
  <2> DEFINE q == [i \in 1..n |-> pos[g[i]]]
  <2>2. \A i \in 1..n : q[i] \in Nat
      BY <2>1
  <2>3. ASSUME NEW i \in 1..(n - 1) PROVE q[i] < q[i + 1]
    <3>1. i \in 1..n /\ i + 1 \in 1..n /\ i + 1 # 1 /\ (i + 1) - 1 = i
        BY <1>1
    <3>2. g[i] \in S /\ g[i + 1] \in S /\ g[i] # h
        BY <2>1, <3>1
    <3>3. g[i + 1] = l.next[g[i]]
        BY <1>3, <3>1, <3>2
    <3>4. pos[g[i]] < pos[g[i + 1]]
        BY <3>2, <3>3
    <3>5. QED
        BY <3>1, <3>4
  <2>4. \A i, j \in 1..n : i < j => q[i] < q[j]
    <3> HIDE DEF q
    <3>1. QED
        BY <1>1, <2>2, <2>3, Increasing
  <2>5. \A i, j \in 1..n : g[i] = g[j] => i = j
    <3>1. \A i, j \in 1..n : i # j => q[i] # q[j]
      <4> HIDE DEF q
      <4>1. QED
          BY <2>2, <2>4
    <3>2. QED
        BY <3>1
  <2>6. g \in Injection(1..n, S)
      BY <1>3, <2>1, <2>5 DEF Injection, IsInjective
  <2>7. IsFiniteSet(1..n) /\ Cardinality(1..n) = n
      BY <1>1, FS_Interval
  <2>8. n <= Cardinality(S)
      BY <1>1, <2>6, <2>7, FS_Injection
  <2>9. QED
      BY <1>1, <2>8
<1>5. PICK m \in H : \A y \in H : m <= y
  <2>1. H \subseteq Nat
      OBVIOUS
  <2> HIDE DEF H
  <2>2. QED
      BY <1>4, <2>1, LeastMember
<1>6. m \in 1..n /\ g[m] = h /\ \A i \in 1..n : i < m => g[i] # h
    BY <1>1, <1>5
<1>7. \A i \in 1..n : i >= m => g[i] = h
  <2> DEFINE U == {i \in 1..n : i >= m /\ g[i] # h}
  <2>1. SUFFICES ASSUME U # {} PROVE FALSE
      OBVIOUS
  <2>2. U \subseteq Nat
      OBVIOUS
  <2>3. PICK x \in U : \A y \in U : x <= y
    <3> HIDE DEF U
    <3>1. QED
        BY <2>1, <2>2, LeastMember
  <2>4. x \in 1..n /\ x >= m /\ x # m /\ g[x] # h
      BY <1>6
  <2>5. x - 1 \in 1..n /\ x - 1 >= m /\ x # 1
      BY <1>1, <1>6, <2>4
  <2>6. x - 1 \notin U
      BY <2>3, <2>4, <2>5
  <2>7. g[x - 1] = h
      BY <2>5, <2>6
  <2>8. QED
      BY <1>3, <2>4, <2>5, <2>7
<1> DEFINE k == m - 1
<1>8. {j \in 1..n : g[j] # h} = 1..k
    BY <1>1, <1>6, <1>7
<1>9. k \in Nat /\ Cardinality(1..k) = k
  <2>1. k \in Nat /\ 1 \in Int
      BY <1>1, <1>6
  <2>2. QED
      BY <2>1, FS_Interval
<1>10. Following(l, h, p) = [i \in 1..k |-> g[i]]
    BY <1>2, <1>8, <1>9 DEF VisitedNodes
<1>11. \A i \in 1..k : i \in 1..n /\ i < m /\ g[i] \in S
  <2>1. \A i \in 1..k : i \in 1..n /\ i < m
      BY <1>1, <1>6
  <2>2. QED
      BY <1>3, <1>6, <2>1
<1>12. g[1] = p
    BY <1>1, <1>3, <1>6
<1>13. \A i \in 1..k : g[i + 1] = l.next[g[i]]
  <2>1. TAKE i \in 1..k
  <2>2. i + 1 \in 1..n /\ i + 1 # 1 /\ (i + 1) - 1 = i
      BY <1>1, <1>6
  <2>3. g[i] # h
      BY <1>6, <1>11
  <2>4. QED
      BY <1>3, <2>2, <2>3
<1>14. /\ Following(l, h, p) \in [1..k -> S]
       /\ k = 0 <=> p = h
       /\ k > 0 => /\ Following(l, h, p)[1] = p
                   /\ l.next[Following(l, h, p)[k]] = h
  <2>1. k = 0 <=> p = h
    <3>1. k = 0 => p = h
        BY <1>6, <1>12
    <3>2. p = h => 1 \in H /\ m <= 1
        BY <1>1, <1>5, <1>6, <1>12
    <3>3. QED
        BY <1>6, <1>9, <3>1, <3>2
  <2>2. k > 0 => l.next[g[k]] = h
    <3>1. k > 0 => k \in 1..k /\ k + 1 = m
        BY <1>6, <1>9
    <3>2. QED
        BY <1>6, <1>13, <3>1
  <2>3. QED
      BY <1>9, <1>10, <1>11, <1>12, <2>1, <2>2
<1>15. ASSUME NEW i \in 1..(k - 1)
       PROVE  Following(l, h, p)[i + 1] = l.next[Following(l, h, p)[i]]
  <2>1. i \in 1..k /\ i + 1 \in 1..k
      BY <1>9
  <2>2. QED
      BY <1>10, <1>13, <2>1
<1> HIDE DEF k
<1>16. QED
    BY <1>9, <1>14, <1>15

----------------------------------------------------------------------------
\* The nodes S hang in the list of the head h, in the order of their positions.
Ring(l, h, S, pos) ==
    /\ IsFiniteSet(DOMAIN l.next) /\ S \subseteq DOMAIN l.next /\ h \in DOMAIN l.next \ S
    /\ \A s \in S : pos[s] \in Nat
    /\ \A s \in S : l.next[s] = h \/ (l.next[s] \in S /\ pos[s] < pos[l.next[s]])
    /\ l.next[h] \in S \cup {h}
    /\ \A s \in S : s # l.next[h] => \E q \in S : l.next[q] = s /\ pos[q] < pos[s]

\* A walk from p to the head h meets the k nodes f.
IsPath(f, k, l, h, S, p, pos) ==
    /\ k \in Nat
    /\ f \in [1..k -> S]
    /\ k = 0 <=> p = h
    /\ k > 0 => f[1] = p /\ l.next[f[k]] = h
    /\ \A i \in 1..(k - 1) : f[i + 1] = l.next[f[i]]
    /\ \A i, j \in 1..k : i < j => pos[f[i]] < pos[f[j]]

Meets(f, k, s) == \E i \in 1..k : f[i] = s

\* What a loop over the list meets from p on is such a path.
LEMMA RingWalk ==
    ASSUME NEW l, NEW h, NEW S, NEW pos, Ring(l, h, S, pos), NEW p, p \in S \cup {h}
    PROVE  \E k : IsPath(Following(l, h, p), k, l, h, S, p, pos)
<1>1. /\ IsFiniteSet(DOMAIN l.next) /\ S \subseteq DOMAIN l.next
      /\ h \in DOMAIN l.next /\ h \notin S
    BY DEF Ring
<1>2. \A s \in S : pos[s] \in Nat /\ l.next[s] \in S \cup {h}
    BY DEF Ring
<1>3. \A s \in S : l.next[s] \in S => pos[s] < pos[l.next[s]]
    BY <1>1 DEF Ring
<1>4. PICK k \in Nat :
              /\ Following(l, h, p) \in [1..k -> S]
              /\ k = 0 <=> p = h
              /\ k > 0 => /\ Following(l, h, p)[1] = p
                          /\ l.next[Following(l, h, p)[k]] = h
              /\ \A i \in 1..(k - 1) :
                    Following(l, h, p)[i + 1] = l.next[Following(l, h, p)[i]]
    BY <1>1, <1>2, <1>3, Traversal
<1> DEFINE f == Following(l, h, p)
           q == [i \in 1..k |-> pos[f[i]]]
<1> HIDE DEF f
<1>5. \A i \in 1..k : q[i] \in Nat
    BY <1>2, <1>4 DEF f
<1>6. \A i \in 1..(k - 1) : q[i] < q[i + 1]
  <2>1. TAKE i \in 1..(k - 1)
  <2>2. i \in 1..k /\ i + 1 \in 1..k
      BY <1>4
  <2>3. f[i] \in S /\ f[i + 1] \in S /\ f[i + 1] = l.next[f[i]]
      BY <1>4, <2>2 DEF f
  <2>4. QED
      BY <1>3, <2>2, <2>3
<1>7. \A i, j \in 1..k : i < j => q[i] < q[j]
  <2> HIDE DEF q
  <2>1. QED
      BY <1>4, <1>5, <1>6, Increasing
<1>8. \A i, j \in 1..k : i < j => pos[f[i]] < pos[f[j]]
    BY <1>7
<1>9. QED
    BY <1>4, <1>8 DEF f, IsPath

\* A walk goes on from each node it meets.
LEMMA PathGoesOn ==
    ASSUME NEW l, NEW h, NEW S, NEW f, NEW k, NEW p, NEW pos, IsPath(f, k, l, h, S, p, pos),
           NEW i \in 1..k, l.next[f[i]] # h
    PROVE  i + 1 \in 1..k /\ f[i + 1] = l.next[f[i]]
<1>1. k \in Nat /\ k > 0
    BY DEF IsPath
<1>2. i # k
    BY <1>1 DEF IsPath
<1>3. i \in 1..(k - 1) /\ i + 1 \in 1..k
    BY <1>1, <1>2
<1>4. QED
    BY <1>3 DEF IsPath

\* Walking from the first node meets everyone in the list,
LEMMA ChainIsComplete ==
    ASSUME NEW l, NEW h, NEW S, NEW pos, Ring(l, h, S, pos), NEW f, NEW k,
           IsPath(f, k, l, h, S, l.next[h], pos), NEW s \in S
    PROVE  Meets(f, k, s)
<1> DEFINE Missed == {t \in S : \A i \in 1..k : f[i] # t}
           T == {pos[t] : t \in Missed}
<1>1. SUFFICES ASSUME Missed # {} PROVE FALSE
    BY DEF Meets
<1>2. \A t \in S : pos[t] \in Nat /\ t # h
    BY DEF Ring
<1>3. T \subseteq Nat /\ T # {}
    BY <1>1, <1>2
<1>4. PICK x \in T : \A y \in T : x <= y
  <2> HIDE DEF T
  <2>1. QED
      BY <1>3, LeastMember
<1>5. PICK t \in Missed : \A u \in Missed : pos[t] <= pos[u]
    BY <1>4
<1>6. t # l.next[h]
  <2>1. ASSUME t = l.next[h] PROVE FALSE
    <3>1. k \in Nat /\ k # 0 /\ f[1] = t
        BY <1>2, <1>5, <2>1 DEF IsPath
    <3>2. QED
        BY <1>5, <3>1
  <2>2. QED
      BY <2>1
<1>7. PICK q \in S : l.next[q] = t /\ pos[q] < pos[t]
    BY <1>5, <1>6 DEF Ring
<1>8. q \notin Missed
    BY <1>2, <1>5, <1>7
<1>9. PICK i \in 1..k : f[i] = q
    BY <1>7, <1>8
<1>10. i + 1 \in 1..k /\ f[i + 1] = t
    BY <1>2, <1>5, <1>7, <1>9, PathGoesOn
<1>11. QED
    BY <1>5, <1>10

\* and walking from any node everyone from there on.
LEMMA PathIsComplete ==
    ASSUME NEW l, NEW h, NEW S, NEW pos, Ring(l, h, S, pos), NEW p \in S, NEW f, NEW k,
           IsPath(f, k, l, h, S, p, pos), NEW s \in S, pos[p] <= pos[s]
    PROVE  Meets(f, k, s)
<1>1. \A t \in S : pos[t] \in Nat /\ t # h
    BY DEF Ring
<1>2. l.next[h] \in S \cup {h}
    BY DEF Ring
<1> DEFINE c == Following(l, h, l.next[h])
<1>3. PICK n : IsPath(c, n, l, h, S, l.next[h], pos)
    BY <1>2, RingWalk
<1> HIDE DEF c
<1>4. PICK a \in 1..n : c[a] = p
    BY <1>3, ChainIsComplete DEF Meets
<1>5. PICK b \in 1..n : c[b] = s
    BY <1>3, ChainIsComplete DEF Meets
<1>6. n \in Nat /\ a <= b
  <2>1. n \in Nat /\ (b < a => pos[s] < pos[p])
      BY <1>3, <1>4, <1>5 DEF IsPath
  <2>2. pos[s] \in Nat /\ pos[p] \in Nat
      BY <1>1
  <2>3. QED
      BY <1>4, <1>5, <2>1, <2>2
<1> DEFINE V == {j \in a..n : \A i \in 1..k : f[i] # c[j]}
<1>7. SUFFICES ASSUME V # {} PROVE FALSE
    BY <1>4, <1>5, <1>6 DEF Meets
<1>8. PICK x \in V : \A y \in V : x <= y
  <2>1. V \subseteq Nat
      BY <1>4
  <2> HIDE DEF V
  <2>2. QED
      BY <1>7, <2>1, LeastMember
<1>9. x \in a..n /\ \A i \in 1..k : f[i] # c[x]
    BY <1>8
<1>10. x # a
  <2>1. k \in Nat /\ k # 0 /\ f[1] = p
      BY <1>1 DEF IsPath
  <2>2. QED
      BY <1>4, <1>9, <2>1
<1>11. x - 1 \in a..n /\ x - 1 \in 1..(n - 1) /\ (x - 1) + 1 = x /\ x \in 1..n
    BY <1>4, <1>6, <1>9, <1>10
<1>12. PICK i \in 1..k : f[i] = c[x - 1]
    BY <1>8, <1>11
<1>13. c[x] = l.next[c[x - 1]] /\ c[x] \in S
    BY <1>3, <1>11 DEF IsPath
<1>14. i + 1 \in 1..k /\ f[i + 1] = c[x]
    BY <1>1, <1>12, <1>13, PathGoesOn
<1>15. QED
    BY <1>9, <1>14

\* The first node of a list is before all others.
LEMMA FirstIsFirst ==
    ASSUME NEW l, NEW h, NEW S, NEW pos, Ring(l, h, S, pos), NEW t \in S
    PROVE  /\ l.next[h] \in S /\ l.next[h] # h /\ pos[l.next[h]] <= pos[t]
           /\ t = l.next[h] \/ pos[l.next[h]] < pos[t]
<1>1. l.next[h] \in S \cup {h}
    BY DEF Ring
<1> DEFINE c == Following(l, h, l.next[h])
<1>2. PICK n : IsPath(c, n, l, h, S, l.next[h], pos)
    BY <1>1, RingWalk
<1> HIDE DEF c
<1>3. PICK a \in 1..n : c[a] = t
  <2>1. Meets(c, n, t)
      BY <1>2, ChainIsComplete, Zenon
  <2>2. QED
      BY <2>1 DEF Meets
<1>4. n \in Nat /\ n # 0 /\ l.next[h] # h /\ c[1] = l.next[h]
    BY <1>2, <1>3 DEF IsPath
<1>5. 1 \in 1..n /\ (a # 1 => 1 < a)
    BY <1>3, <1>4
<1>6. a # 1 => pos[c[1]] < pos[c[a]]
    BY <1>2, <1>3, <1>5 DEF IsPath
<1>7. l.next[h] \in S /\ pos[l.next[h]] \in Nat /\ pos[t] \in Nat
    BY <1>1, <1>4 DEF Ring
<1>8. QED
    BY <1>3, <1>4, <1>6, <1>7

\* What a traversal of a whole list meets: its nodes, each once, in order.
LEMMA ChainFacts ==
    ASSUME NEW l, NEW h, NEW S, NEW pos, Ring(l, h, S, pos)
    PROVE  LET c == Chain(l, h) IN
           /\ Len(c) \in Nat
           /\ c \in [1..Len(c) -> S]
           /\ \A s \in S : \E i \in 1..Len(c) : c[i] = s
           /\ Members(l, h) = S
           /\ \A i, j \in 1..Len(c) : i < j => pos[c[i]] < pos[c[j]]
           /\ Len(c) > 0 => l.next[c[Len(c)]] = h
<1> DEFINE c == Chain(l, h)
<1>1. l.next[h] \in S \cup {h}
    BY DEF Ring
<1>2. PICK k : IsPath(Following(l, h, l.next[h]), k, l, h, S, l.next[h], pos)
    BY <1>1, RingWalk
<1>3. IsPath(c, k, l, h, S, l.next[h], pos)
    BY <1>2 DEF Chain
<1> HIDE DEF c
<1>4. /\ k \in Nat /\ Len(c) = k /\ c \in [1..k -> S]
      /\ \A i, j \in 1..k : i < j => pos[c[i]] < pos[c[j]]
      /\ k > 0 => l.next[c[k]] = h
    BY <1>3 DEF IsPath
<1>5. \A s \in S : Meets(c, k, s)
    BY <1>3, ChainIsComplete
<1>6. \A s \in S : \E i \in 1..k : c[i] = s
    BY <1>5 DEF Meets
<1>7. Members(l, h) = {c[i] : i \in 1..k}
    BY <1>4 DEF Members, c
<1>8. Members(l, h) = S
    BY <1>4, <1>6, <1>7
<1>9. QED
    BY <1>4, <1>6, <1>8 DEF c

\* The last node of a list is behind all others, and no two are in one place.
LEMMA LastIsLast ==
    ASSUME NEW l, NEW h, NEW S, NEW pos, Ring(l, h, S, pos)
    PROVE  /\ \A s, t \in S : s # t => pos[s] < pos[t] \/ pos[t] < pos[s]
           /\ \A q \in S : l.next[q] = h => \A t \in S : t = q \/ pos[t] < pos[q]
<1> DEFINE c == Chain(l, h)
<1>1. /\ Len(c) \in Nat /\ c \in [1..Len(c) -> S]
      /\ \A s \in S : \E i \in 1..Len(c) : c[i] = s
      /\ \A i, j \in 1..Len(c) : i < j => pos[c[i]] < pos[c[j]]
    BY ChainFacts
<1> HIDE DEF c
<1>2. ASSUME NEW s \in S, NEW t \in S, s # t PROVE pos[s] < pos[t] \/ pos[t] < pos[s]
  <2>1. PICK i \in 1..Len(c) : c[i] = s
      BY <1>1
  <2>2. PICK j \in 1..Len(c) : c[j] = t
      BY <1>1
  <2>3. i < j \/ j < i
      BY <1>1, <1>2, <2>1, <2>2
  <2>4. QED
      BY <1>1, <2>1, <2>2, <2>3
<1>3. ASSUME NEW q \in S, l.next[q] = h, NEW t \in S, t # q PROVE pos[t] < pos[q]
  <2>1. PICK i \in 1..Len(c) : c[i] = t
      BY <1>1
  <2>2. PICK j \in 1..Len(c) : c[j] = q
      BY <1>1
  <2>3. ASSUME j < i PROVE FALSE
    <3> DEFINE f == Following(l, h, l.next[h])
    <3>1. PICK k : IsPath(f, k, l, h, S, l.next[h], pos)
        BY RingWalk DEF Ring
    <3>2. f = c /\ k \in Nat /\ Len(c) = k
        BY <3>1 DEF c, Chain, IsPath
    <3> HIDE DEF f
    <3>3. j \in 1..(k - 1) /\ j + 1 \in 1..k
        BY <2>3, <3>2
    <3>4. c[j + 1] = h /\ c[j + 1] \in S
        BY <1>3, <2>2, <3>1, <3>2, <3>3 DEF IsPath
    <3>5. QED
        BY <3>4 DEF Ring
  <2>4. i < j
      BY <1>1, <1>3, <2>1, <2>2, <2>3
  <2>5. QED
      BY <1>1, <2>1, <2>2, <2>4
<1>4. QED
    BY <1>2, <1>3

\* The links of the nodes N.
LinksOf(N) == [next : [N -> N], prev : [N -> N]]

\* The node in front of one in a list is in the list too.
LEMMA InFront ==
    ASSUME NEW N, NEW l \in LinksOf(N), Coherent(l), NEW h, NEW S, NEW pos, Ring(l, h, S, pos),
           NEW p \in S \cup {h}
    PROVE  /\ l.prev[p] \in S \cup {h} /\ l.next[l.prev[p]] = p
           /\ l.prev[p] = h <=> l.next[h] = p
           /\ p # h /\ l.prev[p] # h => pos[l.prev[p]] < pos[p]
<1>1. /\ DOMAIN l.next = N /\ S \subseteq N /\ h \in N /\ h \notin S
      /\ \A n \in N : l.prev[l.next[n]] = n /\ l.next[l.prev[n]] = n
    BY DEF LinksOf, Coherent, Ring
<1>2. \E q \in S \cup {h} : l.next[q] = p /\ (p # h /\ q # h => pos[q] < pos[p])
  <2>1. CASE p = l.next[h]
      BY <2>1
  <2>2. CASE p # l.next[h] /\ p # h
      BY <2>2 DEF Ring
  <2>3. CASE p # l.next[h] /\ p = h
    <3> DEFINE c == Chain(l, h)
    <3>1. /\ Len(c) \in Nat /\ c \in [1..Len(c) -> S]
          /\ \A s \in S : \E i \in 1..Len(c) : c[i] = s
          /\ Len(c) > 0 => l.next[c[Len(c)]] = h
        BY ChainFacts
    <3> HIDE DEF c
    <3>2. l.next[h] \in S
        BY <2>3 DEF Ring
    <3>3. Len(c) > 0
        BY <3>1, <3>2
    <3>4. c[Len(c)] \in S /\ l.next[c[Len(c)]] = h
        BY <3>1, <3>3
    <3>5. QED
        BY <2>3, <3>4
  <2>4. QED
      BY <2>1, <2>2, <2>3
<1>3. PICK q \in S \cup {h} : l.next[q] = p /\ (p # h /\ q # h => pos[q] < pos[p])
    BY <1>2
<1>4. l.prev[p] = q
    BY <1>1, <1>3
<1>5. QED
    BY <1>1, <1>3, <1>4

\* The positions pos2 of a list l2, in which t stands in front of p and the nodes S
\* keep the order they had.
Placed(l2, h, S, pos, t, p, pos2) ==
    /\ Ring(l2, h, S \cup {t}, pos2)
    /\ \A u, v \in S : pos2[u] < pos2[v] <=> pos[u] < pos[v]
    /\ \A u \in S : pos2[u] < pos2[t] <=> p = h \/ pos[u] < pos[p]

\* The list l2 is the list l of the nodes S with t put in front of p.
Inserted(N, l, h, S, pos, t, p, l2) ==
    /\ l2 \in LinksOf(N) /\ Coherent(l2)
    /\ \A m \in N : m \notin S \cup {h, t} => l2.next[m] = l.next[m]
    /\ l2.next[h] = IF p = l.next[h] THEN t ELSE l.next[h]
    /\ \E pos2 : Placed(l2, h, S, pos, t, p, pos2)

\* A node that joins a list in front of another one.
LEMMA InsertKeepsRing ==
    ASSUME NEW N, NEW l \in LinksOf(N), Coherent(l), NEW h, NEW S, NEW pos, Ring(l, h, S, pos),
           NEW t \in N, t \notin S, t # h, l.next[t] = t, NEW p \in S \cup {h},
           NEW l2, l2 = InsertBetween(l, t, l.prev[p], p)
    PROVE  Inserted(N, l, h, S, pos, t, p, l2)
<1> DEFINE q == l.prev[p]
<1>1. /\ DOMAIN l.next = N /\ S \subseteq N /\ h \in N /\ h \notin S /\ IsFiniteSet(N)
      /\ \A n \in N : l.prev[l.next[n]] = n /\ l.next[l.prev[n]] = n
      /\ l.next \in [N -> N] /\ l.prev \in [N -> N]
    BY DEF LinksOf, Coherent, Ring
<1>2. /\ q \in S \cup {h} /\ l.next[q] = p
      /\ q = h <=> l.next[h] = p
      /\ p # h /\ q # h => pos[q] < pos[p]
    BY InFront
<1>3. p \in N /\ q \in N /\ l.prev[t] = t /\ p # t /\ q # t /\ l.prev[p] = q
    BY <1>1, <1>2
<1>4. /\ l2.next = [l.next EXCEPT ![t] = p, ![q] = t]
      /\ l2.prev = [l.prev EXCEPT ![p] = t, ![t] = q]
      /\ l2 = [next |-> l2.next, prev |-> l2.prev]
    BY DEF InsertBetween
<1> HIDE DEF q
<1>5. /\ l2.next \in [N -> N] /\ l2.next[t] = p /\ l2.next[q] = t
      /\ \A n \in N : n # t /\ n # q => l2.next[n] = l.next[n]
  <2>1. l.next \in [N -> N] /\ t \in N /\ p \in N /\ q \in N /\ q # t
      BY <1>1, <1>3
  <2>2. l2.next = [l.next EXCEPT ![t] = p, ![q] = t]
      BY <1>4
  <2>3. QED
      BY <2>1, <2>2
<1>6. /\ l2.prev \in [N -> N] /\ l2.prev[p] = t /\ l2.prev[t] = q
      /\ \A n \in N : n # t /\ n # p => l2.prev[n] = l.prev[n]
  <2>1. l.prev \in [N -> N] /\ t \in N /\ p \in N /\ q \in N /\ p # t
      BY <1>1, <1>3
  <2>2. l2.prev = [l.prev EXCEPT ![p] = t, ![t] = q]
      BY <1>4
  <2>3. QED
      BY <2>1, <2>2
<1>7. l2 \in LinksOf(N)
    BY <1>4, <1>5, <1>6 DEF LinksOf
<1>8. Coherent(l2)
  <2>1. DOMAIN l2.next = N
      BY <1>5
  <2>2. ASSUME NEW n \in N PROVE l2.prev[l2.next[n]] = n /\ l2.next[l2.prev[n]] = n
    <3>1. n # t /\ n # q => l.next[n] # p /\ l.next[n] # t /\ l.next[n] \in N
        BY <1>1, <1>3
    <3>2. n # t /\ n # p => l.prev[n] # t /\ l.prev[n] # q /\ l.prev[n] \in N
        BY <1>1, <1>2, <1>3
    <3>3. QED
        BY <1>1, <1>3, <1>5, <1>6, <3>1, <3>2
  <2>3. QED
      BY <2>1, <2>2 DEF Coherent
<1>9. l2.next[h] = IF p = l.next[h] THEN t ELSE l.next[h]
    BY <1>1, <1>2, <1>5
<1>10. \A m \in N : m \notin S \cup {h, t} => l2.next[m] = l.next[m]
    BY <1>2, <1>5
<1>11. \A s \in S : pos[s] \in Nat
    BY DEF Ring
<1> DEFINE S2 == S \cup {t}
           n == IF p # h THEN 2 * pos[p] ELSE IF q # h THEN 2 * pos[q] + 2 ELSE 0
           pos2 == [u \in S2 |-> IF u = t THEN n ELSE 2 * pos[u] + 1]
<1>12. n \in Nat
    BY <1>2, <1>11
<1>13. /\ pos2[t] = n
       /\ \A u \in S : pos2[u] = 2 * pos[u] + 1
       /\ \A u \in S2 : pos2[u] \in Nat
  <2> HIDE DEF n
  <2>1. QED
      BY <1>11, <1>12
<1> HIDE DEF pos2
<1>14. \A u, v \in S : pos2[u] < pos2[v] <=> pos[u] < pos[v]
    BY <1>11, <1>13
<1>15. \A u \in S : pos2[u] < pos2[t] <=> p = h \/ pos[u] < pos[p]
  <2>1. CASE p # h
      BY <1>11, <1>13, <2>1
  <2>2. CASE p = h
    <3>1. ASSUME NEW u \in S PROVE q # h /\ pos[u] <= pos[q]
      <4>1. l.next[h] # h
          BY FirstIsFirst
      <4>2. q \in S
          BY <1>2, <2>2, <4>1
      <4>3. u = q \/ pos[u] < pos[q]
          BY <1>2, <2>2, <4>2, LastIsLast
      <4>4. QED
          BY <1>1, <1>11, <4>2, <4>3
    <3>2. QED
        BY <1>2, <1>11, <1>13, <2>2, <3>1
  <2>3. QED
      BY <2>1, <2>2
<1>16. p # h => pos2[t] < pos2[p]
    BY <1>11, <1>13
<1>17. q # h => pos2[q] < pos2[t]
    BY <1>2, <1>11, <1>13
<1> HIDE DEF n
<1>18. ASSUME NEW s \in S2 PROVE l2.next[s] = h \/ (l2.next[s] \in S2 /\ pos2[s] < pos2[l2.next[s]])
  <2>1. CASE s = t
      BY <1>5, <1>16, <2>1
  <2>2. CASE s = q
      BY <1>1, <1>3, <1>5, <1>17, <2>2
  <2>3. CASE s # t /\ s # q
    <3>1. s \in S /\ l2.next[s] = l.next[s]
        BY <1>1, <1>5, <2>3
    <3>2. l.next[s] = h \/ (l.next[s] \in S /\ pos[s] < pos[l.next[s]])
        BY <3>1 DEF Ring
    <3>3. QED
        BY <1>14, <3>1, <3>2
  <2>4. QED
      BY <2>1, <2>2, <2>3
<1>19. ASSUME NEW s \in S2, s # l2.next[h] PROVE \E r \in S2 : l2.next[r] = s /\ pos2[r] < pos2[s]
  <2>1. CASE s = t
    <3>1. q # h
        BY <1>5, <1>19, <2>1
    <3>2. QED
        BY <1>2, <1>5, <1>17, <2>1, <3>1
  <2>2. CASE s = p
      BY <1>1, <1>3, <1>5, <1>16, <2>2
  <2>3. CASE s # t /\ s # p
    <3>1. s \in S /\ s # l.next[h]
        BY <1>9, <1>19, <2>3
    <3>2. PICK r \in S : l.next[r] = s /\ pos[r] < pos[s]
        BY <3>1 DEF Ring
    <3>3. r # q /\ r # t /\ r \in N
        BY <1>1, <1>2, <2>3, <3>2
    <3>4. QED
        BY <1>5, <1>14, <3>1, <3>2, <3>3
  <2>4. QED
      BY <2>1, <2>2, <2>3
<1>20. l2.next[h] \in S2 \cup {h}
    BY <1>9 DEF Ring
<1>21. DOMAIN l2.next = N /\ S2 \subseteq N /\ h \in N \ S2
    BY <1>1, <1>5
<1> HIDE DEF S2
<1>22. Ring(l2, h, S2, pos2)
    BY <1>1, <1>13, <1>18, <1>19, <1>20, <1>21 DEF Ring
<1>23. Placed(l2, h, S, pos, t, p, pos2)
    BY <1>14, <1>15, <1>22 DEF S2, Placed
<1>24. QED
    BY <1>7, <1>8, <1>9, <1>10, <1>23, Zenon DEF Inserted

\* A node that leaves a list.
LEMMA UnlinkKeepsRing ==
    ASSUME NEW N, NEW l \in LinksOf(N), Coherent(l), NEW h, NEW S, NEW pos, Ring(l, h, S, pos),
           NEW t \in S, NEW l2, l2 = Unlink(l, t)
    PROVE  /\ l2 \in LinksOf(N) /\ Coherent(l2)
           /\ \A n \in N : n \notin S \cup {h} => l2.next[n] = l.next[n]
           /\ l2.next[t] = t
           /\ l2.next[h] = IF t = l.next[h] THEN l.next[t] ELSE l.next[h]
           /\ Ring(l2, h, S \ {t}, pos)
<1> DEFINE p == l.prev[t]
           x == l.next[t]
           S2 == S \ {t}
<1>1. /\ DOMAIN l.next = N /\ S \subseteq N /\ h \in N /\ h \notin S /\ IsFiniteSet(N)
      /\ \A n \in N : l.prev[l.next[n]] = n /\ l.next[l.prev[n]] = n
      /\ l.next \in [N -> N] /\ l.prev \in [N -> N]
    BY DEF LinksOf, Coherent, Ring
<1>2. /\ p \in S \cup {h} /\ l.next[p] = t
      /\ p = h <=> l.next[h] = t
      /\ p # h => pos[p] < pos[t]
    BY <1>1, InFront
<1>3. \A s \in S : pos[s] \in Nat
    BY DEF Ring
<1>4. x = h \/ (x \in S /\ pos[t] < pos[x])
    BY DEF Ring
<1>5. t \in N /\ p \in N /\ x \in N /\ p # t /\ x # t /\ l.prev[x] = t
    BY <1>1, <1>2, <1>3, <1>4
<1>6. /\ l2.next = [l.next EXCEPT ![p] = x, ![t] = t]
      /\ l2.prev = [l.prev EXCEPT ![x] = p, ![t] = t]
      /\ l2 = [next |-> l2.next, prev |-> l2.prev]
    BY DEF Unlink
<1> HIDE DEF p, x
<1>7. /\ l2.next \in [N -> N] /\ l2.next[t] = t /\ l2.next[p] = x
      /\ \A n \in N : n # t /\ n # p => l2.next[n] = l.next[n]
  <2>1. l.next \in [N -> N] /\ t \in N /\ p \in N /\ x \in N /\ p # t
      BY <1>1, <1>5
  <2>2. l2.next = [l.next EXCEPT ![p] = x, ![t] = t]
      BY <1>6
  <2>3. QED
      BY <2>1, <2>2
<1>8. /\ l2.prev \in [N -> N] /\ l2.prev[t] = t /\ l2.prev[x] = p
      /\ \A n \in N : n # t /\ n # x => l2.prev[n] = l.prev[n]
  <2>1. l.prev \in [N -> N] /\ t \in N /\ p \in N /\ x \in N /\ x # t
      BY <1>1, <1>5
  <2>2. l2.prev = [l.prev EXCEPT ![x] = p, ![t] = t]
      BY <1>6
  <2>3. QED
      BY <2>1, <2>2
<1>9. l2 \in LinksOf(N)
    BY <1>6, <1>7, <1>8 DEF LinksOf
<1>10. Coherent(l2)
  <2>1. DOMAIN l2.next = N
      BY <1>7
  <2>2. ASSUME NEW n \in N PROVE l2.prev[l2.next[n]] = n /\ l2.next[l2.prev[n]] = n
    <3>0. l.next[p] = t /\ l.prev[t] = p /\ l.next[t] = x /\ l.prev[x] = t
        BY <1>2, <1>5 DEF p, x
    <3>1. n # t /\ n # p => l.next[n] # x /\ l.next[n] # t /\ l.next[n] \in N
        BY <1>1, <1>5, <3>0
    <3>2. n # t /\ n # x => l.prev[n] # t /\ l.prev[n] # p /\ l.prev[n] \in N
        BY <1>1, <1>5, <3>0
    <3>3. QED
        BY <1>1, <1>5, <1>7, <1>8, <3>1, <3>2
  <2>3. QED
      BY <2>1, <2>2 DEF Coherent
<1>11. l2.next[h] = IF t = l.next[h] THEN l.next[t] ELSE l.next[h]
    BY <1>1, <1>2, <1>7 DEF x
<1>12. \A n \in N : n \notin S \cup {h} => l2.next[n] = l.next[n]
    BY <1>2, <1>7
<1>13. ASSUME NEW s \in S2 PROVE l2.next[s] = h \/ (l2.next[s] \in S2 /\ pos[s] < pos[l2.next[s]])
  <2>1. CASE s = p
    <3>1. s # h /\ pos[p] < pos[t]
        BY <1>1, <1>2, <2>1
    <3>2. QED
        BY <1>2, <1>3, <1>4, <1>5, <1>7, <2>1, <3>1
  <2>2. CASE s # p
    <3>1. s \in N /\ l2.next[s] = l.next[s] /\ l.next[s] # t
        BY <1>1, <1>5, <1>7, <2>2 DEF p
    <3>2. l.next[s] = h \/ (l.next[s] \in S /\ pos[s] < pos[l.next[s]])
        BY DEF Ring
    <3>3. QED
        BY <3>1, <3>2
  <2>3. QED
      BY <2>1, <2>2
<1>14. ASSUME NEW s \in S2, s # l2.next[h] PROVE \E r \in S2 : l2.next[r] = s /\ pos[r] < pos[s]
  <2>1. CASE s = x
    <3>1. p # h
        BY <1>1, <1>7, <1>14, <2>1
    <3>2. pos[p] < pos[x] /\ p \in S2
        BY <1>2, <1>3, <1>4, <1>5, <2>1, <3>1, <1>1
    <3>3. QED
        BY <1>7, <2>1, <3>2
  <2>2. CASE s # x
    <3>1. s \in S /\ s # l.next[h]
      <4>1. t = l.next[h] => s # l.next[h]
          OBVIOUS
      <4>2. QED
          BY <1>11, <1>14, <4>1
    <3>2. PICK r \in S : l.next[r] = s /\ pos[r] < pos[s]
        BY <3>1 DEF Ring
    <3>3. r # t /\ r # p /\ r \in N
        BY <1>1, <1>2, <2>2, <3>2 DEF x
    <3>4. QED
        BY <1>7, <3>2, <3>3
  <2>3. QED
      BY <2>1, <2>2
<1>15. l2.next[h] \in S2 \cup {h}
  <2>1. l.next[h] \in S \cup {h}
      BY DEF Ring
  <2>2. QED
      BY <1>4, <1>5, <1>11, <2>1 DEF x
<1>16. DOMAIN l2.next = N /\ S2 \subseteq N /\ h \in N \ S2 /\ \A s \in S2 : pos[s] \in Nat
    BY <1>1, <1>3, <1>7
<1> HIDE DEF S2
<1>17. Ring(l2, h, S2, pos)
    BY <1>1, <1>13, <1>14, <1>15, <1>16 DEF Ring
<1>18. QED
    BY <1>7, <1>9, <1>10, <1>11, <1>12, <1>17 DEF S2
=============================================================================
