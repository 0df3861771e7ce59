----------------------------- MODULE BusProofs -----------------------------
(***************************************************************************)
(* The event bus, and the state machine engine on it, for any subscribers, *)
(* states, signals, buckets and depth of nested dispatches.  The first     *)
(* part is about the bus alone and uses nothing of the machine: the lists, *)
(* and who is called, whatever is unsubscribed, and the service of a       *)
(* dispatch when no node is removed that one has saved (SafeToRemove).     *)
(* The theorems about the machine assume this and that no interrupt calls  *)
(* it in the midst of a transfer's switch or of a change of its            *)
(* subscriptions (MayDrive, MaySubscribe).                                 *)
(*                                                                         *)
(* The subscribers of a bucket get positions that ascend along its list:   *)
(* whoever joins the tail gets a greater one, and nobody's position        *)
(* changes while it stays.  The invariant IInv says of the lists that such *)
(* positions exist, and of every dispatch in progress that it goes on with *)
(* a node of its bucket, behind everyone it has called and not behind      *)
(* anyone it still has to call (Walk).  What the loop does next follows    *)
(* from what a traversal of such a list meets (Lemmas).                    *)
(*                                                                         *)
(* The machine's stack of calls and the stack of dispatches are related by *)
(* the levels of the calls: they ascend, so that what the innermost call   *)
(* leaves behind concerns the dispatches above its level only.  The        *)
(* invariant FInv says of the calls in progress that one at most changes   *)
(* the subscriptions, that nothing but UnsubscribeAll runs above a         *)
(* transfer that has assigned current and not called on_entry (Alone) and  *)
(* that no dispatch above one is for the machine (Quiet); and it says what *)
(* the call that runs has still to do to the count of nodes (Counted) and  *)
(* to the current state (Marked).                                          *)
(***************************************************************************)
EXTENDS Fsm, Lemmas, SequenceTheorems

\* What follows speaks of links l and signals sg, which are those of a state or of the
\* next one.  The subscribers that are in a list, and the list one is in:
Linked(l) == {s \in Sub : l.next[s] # s}
InBucket(l, sg, h) == {s \in Linked(l) : BucketOf(sg[s]) = h}

\* Positions of the subscribers that ascend along each list.
Ordered(l, sg, pos) ==
    /\ pos \in [Sub -> Nat]
    /\ \A s \in Linked(l) :
          \/ l.next[s] = BucketOf(sg[s])
          \/ /\ l.next[s] \in InBucket(l, sg, BucketOf(sg[s]))
             /\ pos[s] < pos[l.next[s]]
    /\ \A h \in Heads : l.next[h] = h \/ l.next[h] \in InBucket(l, sg, h)

Lists(l, sg, pos) ==
    /\ l \in [next : [Node -> Node], prev : [Node -> Node]]
    /\ sg \in [Sub -> Sig]
    /\ Coherent(l)
    /\ Ordered(l, sg, pos)

\* Where the walk of a dispatch has come to: it goes on with a subscriber of its
\* bucket, behind everyone called and no later than everyone still to be called.
Walk(f, l, sg, pos) ==
    LET h == BucketOf(f.sig) IN
    /\ f.at # f.next
    /\ f.next = h \/ f.next \in InBucket(l, sg, h)
    /\ \A s \in f.must : s \in Linked(l) /\ sg[s] = f.sig
    /\ \A s \in f.must : ~Contains(f.got, s) => f.next # h /\ pos[f.next] <= pos[s]
    /\ \A i \in 1..Len(f.got) : sg[f.got[i]] = f.sig
    /\ \A i \in 1..Len(f.got) :
          f.got[i] \in Linked(l) /\ f.next # h => pos[f.got[i]] < pos[f.next]
    /\ \A i, j \in 1..Len(f.got) : i < j => f.got[i] # f.got[j]
    /\ \A i, j \in 1..Len(f.got) :
          i < j /\ f.got[i] \in Linked(l) /\ f.got[j] \in Linked(l) =>
              pos[f.got[i]] < pos[f.got[j]]

\* The lists alone, whoever unsubscribes.
ListsSound ==
    /\ TypeOK
    /\ \E pos : Lists(list, sigOf, pos)

IInv ==
    /\ TypeOK
    /\ \E pos : /\ Lists(list, sigOf, pos)
                /\ \A k \in 1..Len(stack) : Walk(stack[k], list, sigOf, pos)

----------------------------------------------------------------------------
\* Every signal has a bucket, and the heads of the buckets are no subscribers.
LEMMA Buckets ==
    /\ \A g \in Sig : SigToIdx(g) \in DOMAIN Bucket /\ BucketOf(g) \in Heads /\ BucketOf(g) \in Node
    /\ Heads \cap Sub = {}
    /\ IsFiniteSet(Node)
<1> USE EBusAssumption
<1>1. ASSUME NEW g \in Sig PROVE SigToIdx(g) \in DOMAIN Bucket
  <2>1. g \in Nat /\ Topics \in Nat \ {0}
      OBVIOUS
  <2>2. g % Topics \in 0..(Topics - 1)
      BY <2>1
  <2>3. QED
      BY <2>2 DEF SigToIdx
<1>2. \A i \in DOMAIN Bucket : Bucket[i] \in Heads
    BY DEF Heads
<1>3. Heads \cap Sub = {}
    BY DEF Heads
<1>4. IsFiniteSet(Heads)
  <2>1. IsFiniteSet(0..(Topics - 1))
      BY FS_Interval
  <2> DEFINE b == [i \in 0..(Topics - 1) |-> Bucket[i]]
  <2>2. b \in Surjection(0..(Topics - 1), Heads)
      BY DEF Surjection, Heads
  <2>3. QED
      BY <2>1, <2>2, FS_Surjection
<1>5. IsFiniteSet(Node)
    BY <1>4, FS_Union DEF Node
<1>6. QED
    BY <1>1, <1>2, <1>3, <1>5 DEF BucketOf, Node

\* A subscriber's predecessor in its list is the head or a subscriber before it.
LEMMA Predecessor ==
    ASSUME NEW l, NEW sg, NEW pos, Lists(l, sg, pos), NEW h \in Heads, NEW s \in InBucket(l, sg, h),
           s # l.next[h]
    PROVE  \E q \in InBucket(l, sg, h) : l.next[q] = s /\ pos[q] < pos[s]
<1> DEFINE q == l.prev[s]
<1>1. s \in Sub /\ s \in Linked(l) /\ BucketOf(sg[s]) = h /\ s \in Node
    BY DEF InBucket, Linked, Node
<1>2. q \in Node /\ l.next[q] = s
    BY <1>1 DEF Lists, Coherent
<1>3. q \notin Heads
  <2>1. ASSUME q \in Heads PROVE FALSE
    <3>1. s # q
        BY <1>1, <2>1, Buckets
    <3>2. s \in InBucket(l, sg, q)
        BY <1>2, <2>1, <3>1 DEF Lists, Ordered
    <3>3. q = h
        BY <1>1, <3>2 DEF InBucket
    <3>4. QED
        BY <1>2, <3>3
  <2>2. QED
      BY <2>1
<1>4. q \in Sub /\ q \in Linked(l)
    BY <1>1, <1>2, <1>3 DEF Node, Linked
<1>5. BucketOf(sg[q]) \in Heads
    BY <1>4, Buckets DEF Lists
<1>6. s # BucketOf(sg[q])
    BY <1>1, <1>5, Buckets
<1>7. s \in InBucket(l, sg, BucketOf(sg[q])) /\ pos[q] < pos[s]
    BY <1>2, <1>4, <1>6 DEF Lists, Ordered
<1>8. BucketOf(sg[q]) = h
    BY <1>1, <1>7 DEF InBucket
<1>9. QED
    BY <1>2, <1>4, <1>7, <1>8 DEF InBucket

\* So a bucket is a list of its own.
LEMMA BucketIsRing ==
    ASSUME NEW l, NEW sg, NEW pos, Lists(l, sg, pos), NEW h \in Heads
    PROVE  Ring(l, h, InBucket(l, sg, h), pos)
<1> DEFINE S == InBucket(l, sg, h)
<1>1. /\ IsFiniteSet(DOMAIN l.next) /\ S \subseteq DOMAIN l.next /\ h \in DOMAIN l.next
      /\ h \notin S
    BY Buckets DEF Lists, Node, InBucket, Linked
<1>2. \A s \in S : pos[s] \in Nat
    BY DEF Lists, Ordered, InBucket, Linked
<1>3. \A s \in S : l.next[s] = h \/ (l.next[s] \in S /\ pos[s] < pos[l.next[s]])
    BY DEF Lists, Ordered, InBucket
<1>4. l.next[h] \in S \cup {h}
    BY DEF Lists, Ordered
<1>5. \A s \in S : s # l.next[h] => \E q \in S : l.next[q] = s /\ pos[q] < pos[s]
    BY Predecessor
<1> HIDE DEF S
<1>6. Ring(l, h, S, pos)
    BY <1>1, <1>2, <1>3, <1>4, <1>5 DEF Ring
<1>7. QED
    BY <1>6 DEF S

\* What a dispatch of the signal g goes on with from p
LEMMA NextCallFacts ==
    ASSUME NEW pos, Lists(list, sigOf, pos), NEW g \in Sig,
           NEW p, p \in InBucket(list, sigOf, BucketOf(g)) \cup {BucketOf(g)}, Matches(g, p) # {}
    PROVE  LET s == NextCall(g, p)
               h == BucketOf(g)
           IN  /\ s \in Subscribers(g)
               /\ p # h /\ pos[p] <= pos[s]
               /\ list.next[s] # s
               /\ list.next[s] = h \/ (list.next[s] \in InBucket(list, sigOf, h) /\ pos[s] < pos[list.next[s]])
               /\ \A t \in Subscribers(g) :
                     pos[p] <= pos[t] /\ t # s => list.next[s] # h /\ pos[list.next[s]] <= pos[t]
<1> DEFINE h == BucketOf(g)
           f == Following(list, h, p)
<1>1. h \in Heads
    BY Buckets
<1>2. PICK k : IsPath(f, k, list, h, InBucket(list, sigOf, h), p, pos)
    BY <1>1, BucketIsRing, RingWalk
<1>3. k \in Nat /\ Len(f) = k /\ \A i \in 1..k : f[i] \in InBucket(list, sigOf, h)
    BY <1>2 DEF IsPath
<1>4. \A t \in InBucket(list, sigOf, h) : pos[t] \in Nat /\ t \in Sub /\ t # h
    BY <1>1, Buckets DEF Lists, Ordered, InBucket, Linked
<1> DEFINE m == Matches(g, p)
<1>5. m = {i \in 1..k : sigOf[f[i]] = g}
    BY <1>3, <1>4 DEF Matches
<1>6. \E i \in m : \A j \in m : i <= j
  <2>1. m \subseteq Nat
      BY <1>3, <1>5
  <2>2. m # {}
      OBVIOUS
  <2> HIDE DEF m
  <2>3. QED
      BY <2>1, <2>2, LeastMember
<1> DEFINE i == CHOOSE x \in m : \A j \in m : x <= j
           s == NextCall(g, p)
<1>7. s = f[i]
    BY DEF NextCall
<1>8. i \in m /\ \A j \in m : i <= j
  <2> HIDE DEF m
  <2>1. QED
      BY <1>6
<1> HIDE DEF i, m, f, s
<1>9. i \in 1..k /\ sigOf[s] = g /\ s \in InBucket(list, sigOf, h)
    BY <1>3, <1>5, <1>7, <1>8
<1>10. s \in Subscribers(g)
    BY <1>9 DEF InBucket, Linked, Subscribers, Subscribed
<1>11. p # h /\ f[1] = p /\ p \in InBucket(list, sigOf, h)
  <2>1. k # 0
      BY <1>3, <1>9
  <2>2. QED
      BY <1>2, <1>3, <2>1 DEF IsPath
<1>12. pos[p] <= pos[s]
  <2>1. 1 \in 1..k /\ (i # 1 => 1 < i)
      BY <1>3, <1>9
  <2>2. i # 1 => pos[p] < pos[s]
      BY <1>2, <1>7, <1>9, <1>11, <2>1 DEF IsPath
  <2>3. QED
      BY <1>4, <1>7, <1>9, <1>11, <2>2
<1>13. s \in Linked(list) /\ BucketOf(sigOf[s]) = h
    BY <1>9 DEF InBucket
<1>14. list.next[s] # s
    BY <1>13 DEF Linked
<1>15. list.next[s] = h \/ (list.next[s] \in InBucket(list, sigOf, h) /\ pos[s] < pos[list.next[s]])
    BY <1>13 DEF Lists, Ordered
<1>16. ASSUME NEW t \in Subscribers(g), pos[p] <= pos[t], t # s
       PROVE  list.next[s] # h /\ pos[list.next[s]] <= pos[t]
  <2>1. t \in InBucket(list, sigOf, h) /\ sigOf[t] = g
      BY DEF Subscribers, Subscribed, Linked, InBucket
  <2>2. PICK j \in 1..k : f[j] = t
      BY <1>1, <1>2, <1>11, <1>16, <2>1, BucketIsRing, PathIsComplete DEF Meets
  <2>3. j \in m
      BY <1>5, <2>1, <2>2
  <2>4. i < j
      BY <1>3, <1>7, <1>8, <1>9, <1>16, <2>2, <2>3
  <2>5. i \in 1..(k - 1) /\ i + 1 \in 1..k /\ (i + 1 # j => i + 1 < j)
      BY <1>3, <1>9, <2>2, <2>4
  <2>6. f[i + 1] = list.next[s] /\ f[i + 1] \in InBucket(list, sigOf, h)
      BY <1>2, <1>3, <1>7, <2>5 DEF IsPath
  <2>7. i + 1 # j => pos[f[i + 1]] < pos[t]
      BY <1>2, <2>2, <2>5 DEF IsPath
  <2>8. QED
      BY <1>4, <2>1, <2>2, <2>6, <2>7
<1>17. QED
    BY <1>10, <1>11, <1>12, <1>14, <1>15, <1>16 DEF s

\* When it finds nobody from p on, nobody from p on is subscribed to g.
LEMMA NoMatchFacts ==
    ASSUME NEW pos, Lists(list, sigOf, pos), NEW g \in Sig, NEW p \in InBucket(list, sigOf, BucketOf(g)),
           Matches(g, p) = {}, NEW t \in Subscribers(g)
    PROVE  ~(pos[p] <= pos[t])
<1> DEFINE h == BucketOf(g)
           f == Following(list, h, p)
<1>1. h \in Heads
    BY Buckets
<1>2. PICK k : IsPath(f, k, list, h, InBucket(list, sigOf, h), p, pos)
    BY <1>1, BucketIsRing, RingWalk
<1>3. k \in Nat /\ Len(f) = k
    BY <1>2 DEF IsPath
<1>4. t \in InBucket(list, sigOf, h) /\ sigOf[t] = g
    BY DEF Subscribers, Subscribed, Linked, InBucket
<1>5. ASSUME pos[p] <= pos[t] PROVE FALSE
  <2>1. PICK j \in 1..k : f[j] = t
      BY <1>1, <1>2, <1>4, <1>5, BucketIsRing, PathIsComplete DEF Meets
  <2>2. t \in Sub
      BY DEF Subscribers, Subscribed
  <2>3. j \in Matches(g, p)
      BY <1>3, <1>4, <2>1, <2>2 DEF Matches
  <2>4. QED
      BY <2>3
<1>6. QED
    BY <1>5

\* Whichever node it goes on with, a dispatch calls a subscriber of its signal that is in
\* a list, or else the node itself.
LEMMA CalledFacts ==
    ASSUME TypeOK, Coherent(list), NEW g \in Sig, NEW p \in Node, Matches(g, p) # {}
    PROVE  LET s == NextCall(g, p)
           IN  /\ s \in Sub /\ sigOf[s] = g
               /\ s \in Subscribed \/ s = p
<1> DEFINE h == BucketOf(g)
           f == Following(list, h, p)
           n == Cardinality(DOMAIN list.next)
           m == Matches(g, p)
           i == CHOOSE x \in m : \A j \in m : x <= j
           s == NextCall(g, p)
<1>1. /\ h \in Heads /\ h \in Node /\ h \notin Sub
      /\ list.next \in [Node -> Node] /\ DOMAIN list.next = Node /\ IsFiniteSet(DOMAIN list.next)
    BY Buckets DEF TypeOK
<1>2. PICK w : IsWalk(w, Node, h, p, list.next, n) /\ f = VisitedNodes(w, h, n)
  <2>1. p \in Node \cup {h} /\ \A x \in Node : list.next[x] \in Node \cup {h}
      BY <1>1
  <2>2. QED
      BY <1>1, <2>1, FollowingIsWalk
<1>3. n \in Nat
    BY <1>1, FS_CardinalityType
<1> HIDE DEF n, f
<1>4. /\ w \in [1..n -> Node \cup {h}]
      /\ \A j \in 1..n : w[j] = IF j = 1 THEN p ELSE IF w[j - 1] = h THEN h ELSE list.next[w[j - 1]]
    BY <1>2 DEF IsWalk
<1> DEFINE V == {j \in 1..n : w[j] # h}
           c == Cardinality(V)
<1>5. c \in Nat /\ c <= n
  <2>1. IsFiniteSet(1..n) /\ Cardinality(1..n) = n
      BY <1>3, FS_Interval
  <2>2. V \in SUBSET (1..n)
      OBVIOUS
  <2> HIDE DEF V
  <2>3. IsFiniteSet(V) /\ Cardinality(V) <= n
      BY <2>1, <2>2, FS_Subset
  <2>4. QED
      BY <2>3, FS_CardinalityType
<1>6. f = [j \in 1..c |-> w[j]]
    BY <1>2 DEF VisitedNodes
<1> HIDE DEF c
<1>7. Len(f) = c /\ \A j \in 1..c : f[j] = w[j] /\ j \in 1..n
    BY <1>3, <1>5, <1>6
<1>8. m = {j \in 1..c : w[j] \in Sub /\ sigOf[w[j]] = g}
    BY <1>7 DEF Matches, f
<1>9. \E x \in m : \A j \in m : x <= j
  <2>1. m \subseteq Nat /\ m # {}
      BY <1>5, <1>8
  <2> HIDE DEF m
  <2>2. QED
      BY <2>1, LeastMember
<1>10. i \in m /\ \A j \in m : i <= j
  <2> HIDE DEF m
  <2>1. QED
      BY <1>9
<1>11. s = f[i]
    BY DEF NextCall, f
<1> HIDE DEF m, i, s
<1>12. i \in 1..c /\ i \in 1..n /\ s = w[i] /\ s \in Sub /\ sigOf[s] = g
    BY <1>7, <1>8, <1>10, <1>11
<1>13. CASE i = 1
    BY <1>4, <1>12, <1>13 DEF s
<1>14. CASE i # 1
  <2>1. ASSUME s \notin Subscribed PROVE FALSE
    <3> DEFINE x == w[i - 1]
    <3>1. i - 1 \in 1..c /\ i - 1 \in 1..n /\ ~(i <= i - 1)
        BY <1>3, <1>5, <1>12, <1>14
    <3>2. x \in Node /\ s = IF x = h THEN h ELSE list.next[x]
      <4>1. w[i] = IF i = 1 THEN p ELSE IF w[i - 1] = h THEN h ELSE list.next[w[i - 1]]
          BY <1>4, <1>12, Zenon
      <4>2. x \in Node
          BY <1>1, <1>4, <3>1
      <4>3. QED
          BY <1>12, <1>14, <4>1, <4>2
    <3> HIDE DEF x
    <3>3. s = list.next[x] /\ list.next[s] = s /\ s \in Node
        BY <1>1, <1>12, <2>1, <3>2 DEF Subscribed, Node
    <3>4. x = s
        BY <1>1, <3>2, <3>3 DEF Coherent
    <3>5. i - 1 \in m
        BY <1>8, <1>12, <3>1, <3>4 DEF x
    <3>6. QED
        BY <1>10, <3>1, <3>5
  <2>2. QED
      BY <1>12, <2>1 DEF s
<1>15. QED
    BY <1>13, <1>14

----------------------------------------------------------------------------
\* Subscribing and unsubscribing

\* What the nodes of consistent lists are
LEMMA InBuckets ==
    ASSUME NEW l, NEW sg, NEW pos, Lists(l, sg, pos)
    PROVE  /\ \A h : \A t \in InBucket(l, sg, h) :
                 t \in Sub /\ t \in Node /\ t \notin Heads /\ t \in Linked(l)
                 /\ l.next[t] # t /\ pos[t] \in Nat
           /\ \A t \in Linked(l) : t \in Sub /\ t \in Node /\ t \notin Heads /\ BucketOf(sg[t]) \in Heads
                                   /\ t \in InBucket(l, sg, BucketOf(sg[t])) /\ pos[t] \in Nat
           /\ l.next \in [Node -> Node] /\ l.prev \in [Node -> Node]
           /\ DOMAIN l.next = Node
           /\ \A n \in Node : l.prev[l.next[n]] = n /\ l.next[l.prev[n]] = n
BY Buckets DEF Lists, Ordered, Coherent, InBucket, Linked, Node

\* A subscriber that joins the tail of a list gets a position of its own.
LEMMA SubscribeLists ==
    ASSUME NEW l, NEW sg, NEW pos, Lists(l, sg, pos), NEW s \in Sub, NEW g \in Sig,
           s \notin Linked(l), NEW l2, NEW sg2,
           sg2 = [sg EXCEPT ![s] = g], l2 = InsertTail(l, BucketOf(g), s)
    PROVE  /\ Linked(l2) = Linked(l) \cup {s}
           /\ \A x : InBucket(l, sg, x) \subseteq InBucket(l2, sg2, x)
           /\ \E n \in Nat : Lists(l2, sg2, [pos EXCEPT ![s] = n])
<1> DEFINE h == BucketOf(g)
           p == l.prev[h]
<1>1. h \in Heads /\ h \in Node /\ s \in Node /\ s \notin Heads /\ h # s
    BY Buckets DEF Node
<1>2. l.next[s] = s /\ l.prev[s] = s
    BY <1>1, InBuckets DEF Linked
<1>3. p \in Node /\ l.next[p] = h /\ p # s
    BY <1>1, <1>2, InBuckets
<1>4. p \in Heads => p = h
  <2>1. ASSUME p \in Heads PROVE h = p \/ h \in InBucket(l, sg, p)
      BY <1>3, <2>1 DEF Lists, Ordered
  <2>2. QED
      BY <1>1, <2>1, InBuckets
<1>5. p \notin Heads => p \in InBucket(l, sg, h)
  <2>1. SUFFICES ASSUME p \notin Heads PROVE p \in InBucket(l, sg, h)
      OBVIOUS
  <2>2. p \in Sub /\ p \in Linked(l)
      BY <1>1, <1>3, <2>1 DEF Node, Linked
  <2>3. h = BucketOf(sg[p]) \/ h \in InBucket(l, sg, BucketOf(sg[p]))
      BY <1>3, <2>2 DEF Lists, Ordered
  <2>4. QED
      BY <1>1, <2>2, <2>3, InBuckets
<1>6. /\ l2.next = [l.next EXCEPT ![s] = h, ![p] = s]
      /\ l2.prev = [l.prev EXCEPT ![h] = s, ![s] = p]
      /\ l2 = [next |-> l2.next, prev |-> l2.prev]
    BY DEF InsertTail, InsertBetween
<1> HIDE DEF p, h
<1>7. /\ l2.next \in [Node -> Node] /\ l2.prev \in [Node -> Node]
      /\ l2.next[s] = h /\ l2.next[p] = s
      /\ \A n \in Node : n # s /\ n # p => l2.next[n] = l.next[n]
      /\ l2.prev[h] = s /\ l2.prev[s] = p
      /\ \A n \in Node : n # s /\ n # h => l2.prev[n] = l.prev[n]
  <2>1. l.next \in [Node -> Node] /\ l.prev \in [Node -> Node]
      BY InBuckets
  <2>2. /\ l2.next \in [Node -> Node] /\ l2.next[s] = h /\ l2.next[p] = s
        /\ \A n \in Node : n # s /\ n # p => l2.next[n] = l.next[n]
      BY <1>1, <1>3, <1>6, <2>1
  <2>3. /\ l2.prev \in [Node -> Node] /\ l2.prev[h] = s /\ l2.prev[s] = p
        /\ \A n \in Node : n # s /\ n # h => l2.prev[n] = l.prev[n]
      BY <1>1, <1>3, <1>6, <2>1
  <2>4. QED
      BY <2>2, <2>3
<1>8. l2 \in [next : [Node -> Node], prev : [Node -> Node]] /\ sg2 \in [Sub -> Sig]
    BY <1>6, <1>7 DEF Lists
<1>9. Coherent(l2)
  <2>1. DOMAIN l2.next = Node
      BY <1>7
  <2>2. ASSUME NEW n \in Node PROVE l2.prev[l2.next[n]] = n /\ l2.next[l2.prev[n]] = n
    <3>1. /\ l.prev[l.next[n]] = n /\ l.next[l.prev[n]] = n
          /\ l.next[n] \in Node /\ l.prev[n] \in Node /\ l.prev[h] = p
        BY InBuckets DEF p
    <3>2. n # s /\ n # p => l.next[n] # h /\ l.next[n] # s
        BY <1>2, <3>1
    <3>3. n # s /\ n # h => l.prev[n] # s /\ l.prev[n] # p
        BY <1>2, <1>3, <3>1
    <3>4. QED
        BY <1>7, <3>1, <3>2, <3>3
  <2>3. QED
      BY <2>1, <2>2 DEF Coherent
<1>10. Linked(l2) = Linked(l) \cup {s}
  <2>1. ASSUME NEW t \in Sub PROVE l2.next[t] # t <=> l.next[t] # t \/ t = s
    <3>1. t \in Node
        BY DEF Node
    <3>2. t = p => l.next[t] # t
        BY <1>1, <1>3, Buckets
    <3>3. QED
        BY <1>1, <1>2, <1>3, <1>7, <3>1, <3>2
  <2>2. QED
      BY <2>1 DEF Linked
<1>11. sg2[s] = g /\ \A t \in Sub : t # s => sg2[t] = sg[t]
    BY DEF Lists
<1>12. \A x : InBucket(l2, sg2, x) = InBucket(l, sg, x) \cup (IF x = h THEN {s} ELSE {})
  <2>1. \A t \in Linked(l) : t # s /\ t \in Sub
      BY InBuckets
  <2>2. QED
      BY <1>10, <1>11, <2>1 DEF InBucket, h
<1> DEFINE n == IF p \in Heads THEN 0 ELSE pos[p] + 1
           pos2 == [pos EXCEPT ![s] = n]
<1>13. n \in Nat
    BY <1>5, InBuckets
<1> HIDE DEF n
<1>14. /\ pos2 \in [Sub -> Nat] /\ pos2[s] = n
       /\ \A t \in Sub : t # s => pos2[t] = pos[t]
    BY <1>13 DEF Lists, Ordered
<1> HIDE DEF pos2
<1>15. ASSUME NEW t \in Linked(l2)
       PROVE  \/ l2.next[t] = BucketOf(sg2[t])
              \/ /\ l2.next[t] \in InBucket(l2, sg2, BucketOf(sg2[t]))
                 /\ pos2[t] < pos2[l2.next[t]]
  <2>1. CASE t = s
      BY <1>7, <1>11, <2>1 DEF h
  <2>2. CASE t = p
    <3>1. p \in Sub
        BY <2>2 DEF Linked
    <3>2. p \in InBucket(l, sg, h)
        BY <1>5, <3>1, Buckets
    <3>3. BucketOf(sg2[p]) = h /\ s \in InBucket(l2, sg2, h)
        BY <1>3, <1>11, <1>12, <3>1, <3>2 DEF InBucket
    <3>4. pos2[p] = pos[p] /\ pos2[s] = pos[p] + 1 /\ pos[p] \in Nat
        BY <1>3, <1>14, <3>1, <3>2, InBuckets DEF n
    <3>5. QED
        BY <1>7, <2>2, <3>3, <3>4
  <2>3. CASE t # s /\ t # p
    <3>1. t \in Linked(l) /\ t \in Sub /\ t \in Node
        BY <1>10, <2>3, InBuckets
    <3>2. l2.next[t] = l.next[t] /\ BucketOf(sg2[t]) = BucketOf(sg[t])
        BY <1>7, <1>11, <2>3, <3>1
    <3>3. \/ l.next[t] = BucketOf(sg[t])
          \/ l.next[t] \in InBucket(l, sg, BucketOf(sg[t])) /\ pos[t] < pos[l.next[t]]
        BY <3>1 DEF Lists, Ordered
    <3>4. l.next[t] \in InBucket(l, sg, BucketOf(sg[t])) =>
             /\ l.next[t] \in InBucket(l2, sg2, BucketOf(sg[t]))
             /\ pos2[t] = pos[t] /\ pos2[l.next[t]] = pos[l.next[t]]
      <4>1. l.next[t] \in InBucket(l, sg, BucketOf(sg[t])) => l.next[t] # s /\ l.next[t] \in Sub
          BY <1>2, InBuckets
      <4>2. QED
          BY <1>12, <1>14, <2>3, <3>1, <4>1
    <3>5. QED
        BY <3>2, <3>3, <3>4
  <2>4. QED
      BY <2>1, <2>2, <2>3
<1>16. ASSUME NEW x \in Heads PROVE l2.next[x] = x \/ l2.next[x] \in InBucket(l2, sg2, x)
  <2>1. CASE x = p
      BY <1>4, <1>7, <1>12, <2>1
  <2>2. CASE x # p
    <3>1. x \in Node /\ x # s
        BY <1>1 DEF Node
    <3>2. l2.next[x] = l.next[x]
        BY <1>7, <2>2, <3>1
    <3>3. QED
        BY <1>12, <3>2 DEF Lists, Ordered
  <2>3. QED
      BY <2>1, <2>2
<1>17. Lists(l2, sg2, pos2)
    BY <1>8, <1>9, <1>14, <1>15, <1>16 DEF Lists, Ordered
<1>18. QED
    BY <1>10, <1>12, <1>13, <1>17 DEF pos2

\* A subscriber that leaves takes nobody else with it.
LEMMA UnsubscribeLists ==
    ASSUME NEW l, NEW sg, NEW pos, Lists(l, sg, pos), NEW s \in Linked(l),
           NEW l2, l2 = Unlink(l, s)
    PROVE  /\ Linked(l2) = Linked(l) \ {s}
           /\ \A x : InBucket(l2, sg, x) = InBucket(l, sg, x) \ {s}
           /\ Lists(l2, sg, pos)
<1> DEFINE p == l.prev[s]
           x == l.next[s]
<1>1. s \in Sub /\ s \in Node /\ s \notin Heads /\ l.next[s] # s
    BY InBuckets DEF Linked
<1>2. /\ p \in Node /\ x \in Node /\ l.next[p] = s /\ l.prev[x] = s
      /\ p # s /\ x # s
    BY <1>1, InBuckets
<1>3. /\ l2.next = [l.next EXCEPT ![p] = x, ![s] = s]
      /\ l2.prev = [l.prev EXCEPT ![x] = p, ![s] = s]
      /\ l2 = [next |-> l2.next, prev |-> l2.prev]
    BY DEF Unlink
<1> HIDE DEF p, x
<1>4. /\ l2.next \in [Node -> Node] /\ l2.prev \in [Node -> Node]
      /\ l2.next[s] = s /\ l2.next[p] = x
      /\ \A n \in Node : n # s /\ n # p => l2.next[n] = l.next[n]
      /\ l2.prev[s] = s /\ l2.prev[x] = p
      /\ \A n \in Node : n # s /\ n # x => l2.prev[n] = l.prev[n]
  <2>1. l.next \in [Node -> Node] /\ l.prev \in [Node -> Node]
      BY InBuckets
  <2>2. /\ l2.next \in [Node -> Node] /\ l2.next[s] = s /\ l2.next[p] = x
        /\ \A n \in Node : n # s /\ n # p => l2.next[n] = l.next[n]
      BY <1>1, <1>2, <1>3, <2>1
  <2>3. /\ l2.prev \in [Node -> Node] /\ l2.prev[s] = s /\ l2.prev[x] = p
        /\ \A n \in Node : n # s /\ n # x => l2.prev[n] = l.prev[n]
      BY <1>1, <1>2, <1>3, <2>1
  <2>4. QED
      BY <2>2, <2>3
<1>5. l2 \in [next : [Node -> Node], prev : [Node -> Node]]
    BY <1>3, <1>4
<1>6. Coherent(l2)
  <2>1. DOMAIN l2.next = Node
      BY <1>4
  <2>2. ASSUME NEW n \in Node PROVE l2.prev[l2.next[n]] = n /\ l2.next[l2.prev[n]] = n
    <3>1. /\ l.prev[l.next[n]] = n /\ l.next[l.prev[n]] = n
          /\ l.next[n] \in Node /\ l.prev[n] \in Node /\ l.prev[s] = p /\ l.next[s] = x
        BY <1>1, InBuckets DEF p, x
    <3>2. n # s /\ n # p => l.next[n] # x /\ l.next[n] # s
        BY <1>2, <3>1
    <3>3. n # s /\ n # x => l.prev[n] # s /\ l.prev[n] # p
        BY <1>2, <3>1
    <3>4. QED
        BY <1>2, <1>4, <3>1, <3>2, <3>3
  <2>3. QED
      BY <2>1, <2>2 DEF Coherent
\* The neighbours are in the same list.
<1>7. p \in Heads \/ (p \in Linked(l) /\ p \in Sub)
    BY <1>1, <1>2 DEF Node, Linked
<1>8. p \in Heads => BucketOf(sg[s]) = p /\ s \in InBucket(l, sg, p)
  <2>1. p \in Heads => s = p \/ s \in InBucket(l, sg, p)
      BY <1>2 DEF Lists, Ordered
  <2>2. QED
      BY <1>1, <2>1 DEF InBucket
<1>9. p \notin Heads => BucketOf(sg[s]) = BucketOf(sg[p]) /\ pos[p] < pos[s]
  <2>1. SUFFICES ASSUME p \notin Heads PROVE BucketOf(sg[s]) = BucketOf(sg[p]) /\ pos[p] < pos[s]
      OBVIOUS
  <2>2. p \in Linked(l) /\ BucketOf(sg[p]) \in Heads
      BY <1>7, <2>1, InBuckets
  <2>3. \/ s = BucketOf(sg[p])
        \/ s \in InBucket(l, sg, BucketOf(sg[p])) /\ pos[p] < pos[s]
      BY <1>2, <2>2 DEF Lists, Ordered
  <2>4. QED
      BY <1>1, <2>2, <2>3 DEF InBucket
<1>10. \/ x = BucketOf(sg[s])
       \/ x \in InBucket(l, sg, BucketOf(sg[s])) /\ pos[s] < pos[x]
    BY DEF Lists, Ordered, x
<1>11. Linked(l2) = Linked(l) \ {s}
  <2>1. ASSUME NEW t \in Sub PROVE l2.next[t] # t <=> l.next[t] # t /\ t # s
    <3>1. t \in Node
        BY DEF Node
    <3>2. CASE t = p
      <4>1. p \in Sub /\ p \notin Heads
          BY <2>1, <3>2, Buckets
      <4>2. p \in Linked(l) /\ BucketOf(sg[p]) \in Heads /\ pos[p] \in Nat
          BY <1>7, <4>1, InBuckets
      <4>3. x # p
        <5>1. x = BucketOf(sg[s]) => x # p
            BY <1>9, <4>1, <4>2
        <5>2. x \in InBucket(l, sg, BucketOf(sg[s])) /\ pos[s] < pos[x] => x # p
          <6>1. pos[s] \in Nat
              BY InBuckets
          <6>2. QED
              BY <1>9, <4>1, <4>2, <6>1
        <5>3. QED
            BY <1>10, <5>1, <5>2
      <4>4. QED
          BY <1>2, <1>4, <3>2, <4>2, <4>3
    <3>3. CASE t # p
        BY <1>4, <3>1, <3>3
    <3>4. QED
        BY <3>2, <3>3
  <2>2. QED
      BY <2>1 DEF Linked
<1>12. \A y : InBucket(l2, sg, y) = InBucket(l, sg, y) \ {s}
    BY <1>11 DEF InBucket
<1>13. ASSUME NEW t \in Linked(l2)
       PROVE  \/ l2.next[t] = BucketOf(sg[t])
              \/ l2.next[t] \in InBucket(l2, sg, BucketOf(sg[t])) /\ pos[t] < pos[l2.next[t]]
  <2>1. t \in Linked(l) /\ t # s /\ t \in Node /\ t \notin Heads
      BY <1>11, InBuckets
  <2>2. CASE t = p
    <3>1. x = BucketOf(sg[t]) \/ (x \in InBucket(l, sg, BucketOf(sg[t])) /\ pos[s] < pos[x] /\ pos[t] < pos[s])
        BY <1>9, <1>10, <2>1, <2>2
    <3>2. pos[s] \in Nat /\ pos[t] \in Nat
        BY <2>1, InBuckets
    <3>3. x \in InBucket(l, sg, BucketOf(sg[t])) => pos[x] \in Nat /\ x \in InBucket(l2, sg, BucketOf(sg[t]))
        BY <1>2, <1>12, InBuckets
    <3>4. QED
        BY <1>4, <2>2, <3>1, <3>2, <3>3
  <2>3. CASE t # p
    <3>1. l2.next[t] = l.next[t] /\ l.next[t] # s
      <4>1. l.prev[l.next[t]] = t
          BY <2>1, InBuckets
      <4>2. QED
          BY <1>4, <2>1, <2>3, <4>1 DEF p
    <3>2. \/ l.next[t] = BucketOf(sg[t])
          \/ l.next[t] \in InBucket(l, sg, BucketOf(sg[t])) /\ pos[t] < pos[l.next[t]]
        BY <2>1 DEF Lists, Ordered
    <3>3. QED
        BY <1>12, <3>1, <3>2
  <2>4. QED
      BY <2>2, <2>3
<1>14. ASSUME NEW y \in Heads PROVE l2.next[y] = y \/ l2.next[y] \in InBucket(l2, sg, y)
  <2>1. CASE y = p
      BY <1>2, <1>4, <1>8, <1>10, <1>12, <2>1
  <2>2. CASE y # p
    <3>1. y \in Node /\ y # s
        BY <1>1 DEF Node
    <3>2. l2.next[y] = l.next[y] /\ l.next[y] # s
      <4>1. l.prev[l.next[y]] = y
          BY <3>1, InBuckets
      <4>2. QED
          BY <1>4, <2>2, <3>1, <4>1 DEF p
    <3>3. QED
        BY <1>12, <3>2 DEF Lists, Ordered
  <2>3. QED
      BY <2>1, <2>2
<1>15. Lists(l2, sg, pos)
    BY <1>5, <1>6, <1>13, <1>14 DEF Lists, Ordered
<1>16. QED
    BY <1>11, <1>12, <1>15

----------------------------------------------------------------------------
\* What is left of a sequence

\* What is left of a sequence when the first of one element is removed.
LEMMA RemoveFirstFacts ==
    ASSUME NEW q \in Seq(Sub), NEW e
    PROVE  LET r == RemoveFirst(q, e) IN
           /\ r \in Seq(Sub)
           /\ (\A i, j \in 1..Len(q) : i < j => q[i] # q[j]) => \A i \in 1..Len(r) : r[i] # e
           /\ \A t : t # e /\ Contains(q, t) => Contains(r, t)
           /\ \E m \in [1..Len(r) -> 1..Len(q)] :
                 /\ \A i \in 1..Len(r) : r[i] = q[m[i]]
                 /\ \A i, j \in 1..Len(r) : i < j => m[i] < m[j]
<1>1. CASE \A i \in 1..Len(q) : q[i] # e
  <2>1. RemoveFirst(q, e) = q
      BY <1>1 DEF RemoveFirst
  <2> DEFINE m == [i \in 1..Len(q) |-> i]
  <2>2. /\ m \in [1..Len(q) -> 1..Len(q)]
        /\ \A i \in 1..Len(q) : q[i] = q[m[i]]
        /\ \A i, j \in 1..Len(q) : i < j => m[i] < m[j]
      OBVIOUS
  <2> HIDE DEF m
  <2>3. QED
      BY <1>1, <2>1, <2>2
<1>2. CASE \E i \in 1..Len(q) : q[i] = e
  <2> DEFINE I == {i \in 1..Len(q) : q[i] = e}
             x == SelectInSeq(q, LAMBDA v : v = e)
             r == RemoveFirst(q, e)
  <2>1. I # {} /\ I \subseteq Nat
      BY <1>2
  <2>2. x = Min(I)
      BY <2>1 DEF SelectInSeq
  <2>3. \E y \in I : \A z \in I : y <= z
    <3> HIDE DEF I
    <3>1. QED
        BY <2>1, LeastMember
  <2>4. x \in I
    <3> HIDE DEF I, x
    <3>1. QED
        BY <2>2, <2>3 DEF Min
  <2>5. x \in 1..Len(q) /\ q[x] = e /\ Len(q) \in Nat
      BY <2>4
  <2>6. r = SubSeq(q, 1, x - 1) \o SubSeq(q, x + 1, Len(q))
      BY <1>2 DEF RemoveFirst, RemoveAt
  <2> HIDE DEF x, I
  <2>7. /\ SubSeq(q, 1, x - 1) \in Seq(Sub) /\ Len(SubSeq(q, 1, x - 1)) = x - 1
        /\ \A i \in 1..(x - 1) : SubSeq(q, 1, x - 1)[i] = q[i]
      BY <2>5
  <2>8. /\ SubSeq(q, x + 1, Len(q)) \in Seq(Sub) /\ Len(SubSeq(q, x + 1, Len(q))) = Len(q) - x
        /\ \A i \in 1..(Len(q) - x) : SubSeq(q, x + 1, Len(q))[i] = q[x + i]
      BY <2>5
  <2>9. /\ r \in Seq(Sub) /\ Len(r) = Len(q) - 1
        /\ \A i \in 1..(Len(q) - 1) : r[i] = q[IF i < x THEN i ELSE i + 1]
    <3> DEFINE a == SubSeq(q, 1, x - 1)
               b == SubSeq(q, x + 1, Len(q))
    <3>1. /\ a \in Seq(Sub) /\ Len(a) = x - 1 /\ \A i \in 1..(x - 1) : a[i] = q[i]
          /\ b \in Seq(Sub) /\ Len(b) = Len(q) - x
          /\ \A i \in 1..(Len(q) - x) : b[i] = q[x + i]
          /\ r = a \o b
        BY <2>6, <2>7, <2>8
    <3> HIDE DEF a, b, r
    <3>2. r \in Seq(Sub) /\ Len(r) = Len(q) - 1
      <4>1. r \in Seq(Sub) /\ Len(r) = Len(a) + Len(b)
          BY <3>1, ConcatProperties
      <4>2. QED
          BY <2>5, <3>1, <4>1
    <3>3. ASSUME NEW i \in 1..(Len(q) - 1) PROVE r[i] = q[IF i < x THEN i ELSE i + 1]
      <4>1. i \in 1..(Len(a) + Len(b)) /\ i - Len(a) = i - (x - 1)
          BY <2>5, <3>1
      <4>2. r[i] = IF i <= Len(a) THEN a[i] ELSE b[i - Len(a)]
          BY <3>1, <4>1, ConcatProperties
      <4>3. CASE i < x
          BY <2>5, <3>1, <4>2, <4>3
      <4>4. CASE ~(i < x)
        <5>1. i - Len(a) \in 1..(Len(q) - x) /\ x + (i - Len(a)) = i + 1 /\ ~(i <= Len(a))
            BY <2>5, <3>1, <4>4
        <5>2. QED
            BY <3>1, <4>2, <4>4, <5>1
      <4>5. QED
          BY <4>3, <4>4
    <3>4. QED
        BY <3>2, <3>3
  <2> HIDE DEF r
  <2> DEFINE m == [i \in 1..Len(r) |-> IF i < x THEN i ELSE i + 1]
  <2>10. /\ m \in [1..Len(r) -> 1..Len(q)]
         /\ \A i \in 1..Len(r) : r[i] = q[m[i]] /\ m[i] # x
         /\ \A i, j \in 1..Len(r) : i < j => m[i] < m[j]
      BY <2>5, <2>9
  <2>11. ASSUME NEW t, t # e, Contains(q, t) PROVE Contains(r, t)
    <3>1. PICK i \in 1..Len(q) : q[i] = t
        BY <2>11 DEF Contains
    <3>2. i # x
        BY <2>5, <2>11, <3>1
    <3> DEFINE j == IF i < x THEN i ELSE i - 1
    <3>3. j \in 1..Len(r) /\ (IF j < x THEN j ELSE j + 1) = i
        BY <2>5, <2>9, <3>2
    <3>4. r[j] = t
        BY <2>9, <3>1, <3>3
    <3>5. QED
        BY <3>3, <3>4 DEF Contains
  <2> HIDE DEF m
  <2>12. ASSUME \A i, j \in 1..Len(q) : i < j => q[i] # q[j], NEW i \in 1..Len(r)
         PROVE  r[i] # e
    <3>1. m[i] \in 1..Len(q) /\ m[i] # x /\ r[i] = q[m[i]]
        BY <2>10
    <3>2. QED
        BY <2>5, <2>12, <3>1
  <2>13. QED
      BY <2>9, <2>10, <2>11, <2>12 DEF r
<1>3. QED
    BY <1>1, <1>2

----------------------------------------------------------------------------
\* Dispatches

\* A dispatch in progress
LEMMA Frames ==
    ASSUME TypeOK, NEW k \in 1..Len(stack)
    PROVE  /\ stack[k] \in Frame
           /\ stack[k].sig \in Sig /\ stack[k].at \in Node /\ stack[k].next \in Node
           /\ stack[k].must \subseteq Sub /\ stack[k].got \in Seq(Sub)
           /\ BucketOf(stack[k].sig) \in Heads
<1>1. stack[k] \in Frame
    BY DEF TypeOK
<1>2. QED
    BY <1>1, Buckets DEF Frame

\* A dispatch, seen after somebody has subscribed,
LEMMA WalkAfterSubscribe ==
    ASSUME NEW l, NEW sg, NEW pos, Lists(l, sg, pos), NEW f \in Frame, Walk(f, l, sg, pos),
           NEW s \in Sub, NEW g \in Sig, s \notin Linked(l), NEW l2, NEW sg2, NEW pos2, NEW n \in Nat,
           sg2 = [sg EXCEPT ![s] = g], pos2 = [pos EXCEPT ![s] = n],
           Linked(l2) = Linked(l) \cup {s},
           \A x : InBucket(l, sg, x) \subseteq InBucket(l2, sg2, x)
    PROVE  LET f2 == [f EXCEPT !.got = RemoveFirst(@, s)] IN f2 \in Frame /\ Walk(f2, l2, sg2, pos2)
<1> DEFINE h == BucketOf(f.sig)
           q == f.got
           r == RemoveFirst(f.got, s)
           f2 == [f EXCEPT !.got = RemoveFirst(@, s)]
<1>1. q \in Seq(Sub) /\ f.must \subseteq Sub /\ f.sig \in Sig /\ h \in Heads
    BY Buckets DEF Frame
<1>2. \A i, j \in 1..Len(q) : i < j => q[i] # q[j]
    BY DEF Walk
<1>3. /\ r \in Seq(Sub)
      /\ \A i \in 1..Len(r) : r[i] # s
      /\ \A t : t # s /\ Contains(q, t) => Contains(r, t)
      /\ \E m \in [1..Len(r) -> 1..Len(q)] :
            /\ \A i \in 1..Len(r) : r[i] = q[m[i]]
            /\ \A i, j \in 1..Len(r) : i < j => m[i] < m[j]
  <2> HIDE DEF q
  <2>1. QED
      BY <1>1, <1>2, RemoveFirstFacts DEF q
<1> HIDE DEF r
<1>4. PICK m \in [1..Len(r) -> 1..Len(q)] :
            /\ \A i \in 1..Len(r) : r[i] = q[m[i]]
            /\ \A i, j \in 1..Len(r) : i < j => m[i] < m[j]
    BY <1>3
<1>5. /\ f2 \in Frame /\ f2.sig = f.sig /\ f2.at = f.at /\ f2.next = f.next /\ f2.must = f.must
      /\ f2.got = r
    BY <1>3 DEF Frame, r
<1> HIDE DEF f2
<1>6. \A t \in Sub : t # s => sg2[t] = sg[t] /\ pos2[t] = pos[t]
    BY DEF Lists, Ordered
<1>7. \A t \in InBucket(l, sg, h) : t \in Sub /\ t # s
    BY InBuckets
<1>8. /\ f.at # f.next /\ (f.next = h \/ f.next \in InBucket(l, sg, h))
      /\ \A t \in f.must : t \in Linked(l) /\ sg[t] = f.sig
      /\ \A t \in f.must : ~Contains(q, t) => f.next # h /\ pos[f.next] <= pos[t]
      /\ \A i \in 1..Len(q) : sg[q[i]] = f.sig
      /\ \A i \in 1..Len(q) : q[i] \in Linked(l) /\ f.next # h => pos[q[i]] < pos[f.next]
      /\ \A i, j \in 1..Len(q) : i < j => q[i] # q[j]
      /\ \A i, j \in 1..Len(q) :
            i < j /\ q[i] \in Linked(l) /\ q[j] \in Linked(l) => pos[q[i]] < pos[q[j]]
    BY DEF Walk
<1>9. f.next # h => f.next \in Sub /\ f.next # s /\ pos2[f.next] = pos[f.next]
    BY <1>6, <1>7, <1>8
<1>10. \A t \in f.must : t \in Sub /\ t # s /\ t \in Linked(l2) /\ sg2[t] = f.sig /\ pos2[t] = pos[t]
    BY <1>1, <1>6, <1>8
<1>11. \A t \in f.must : ~Contains(r, t) => f.next # h /\ pos2[f.next] <= pos2[t]
    BY <1>3, <1>8, <1>9, <1>10
<1>12. \A i \in 1..Len(r) : /\ m[i] \in 1..Len(q) /\ r[i] = q[m[i]] /\ r[i] \in Sub /\ r[i] # s
                            /\ r[i] \in Linked(l2) => r[i] \in Linked(l)
                            /\ sg2[r[i]] = sg[r[i]] /\ pos2[r[i]] = pos[r[i]]
  <2>1. TAKE i \in 1..Len(r)
  <2>2. m[i] \in 1..Len(q) /\ r[i] = q[m[i]] /\ r[i] \in Sub /\ r[i] # s
      BY <1>3, <1>4
  <2>3. QED
      BY <1>6, <2>2
<1>13. \A i \in 1..Len(r) : sg2[r[i]] = f.sig
    BY <1>8, <1>12
<1>14. \A i \in 1..Len(r) : r[i] \in Linked(l2) /\ f.next # h => pos2[r[i]] < pos2[f.next]
    BY <1>8, <1>9, <1>12
<1>15. \A i, j \in 1..Len(r) : i < j => r[i] # r[j]
    BY <1>4, <1>8, <1>12
<1>16. \A i, j \in 1..Len(r) :
          i < j /\ r[i] \in Linked(l2) /\ r[j] \in Linked(l2) => pos2[r[i]] < pos2[r[j]]
    BY <1>4, <1>8, <1>12
<1>17. f.next = h \/ f.next \in InBucket(l2, sg2, h)
    BY <1>8
<1>18. Walk(f2, l2, sg2, pos2)
    BY <1>5, <1>8, <1>10, <1>11, <1>13, <1>14, <1>15, <1>16, <1>17 DEF Walk
<1>19. QED
    BY <1>5, <1>18 DEF f2

\* after somebody has unsubscribed whom it does not go on with,
LEMMA WalkAfterUnsubscribe ==
    ASSUME NEW l, NEW sg, NEW pos, Lists(l, sg, pos), NEW f \in Frame, Walk(f, l, sg, pos),
           NEW s \in Linked(l), f.next # s, NEW l2, Linked(l2) = Linked(l) \ {s},
           \A x : InBucket(l2, sg, x) = InBucket(l, sg, x) \ {s}
    PROVE  LET f2 == [f EXCEPT !.must = @ \ {s}] IN f2 \in Frame /\ Walk(f2, l2, sg, pos)
<1> DEFINE f2 == [f EXCEPT !.must = @ \ {s}]
<1>1. /\ f2 \in Frame /\ f2.sig = f.sig /\ f2.at = f.at /\ f2.next = f.next
      /\ f2.must = f.must \ {s} /\ f2.got = f.got
    BY DEF Frame
<1> HIDE DEF f2
<1>2. Walk(f2, l2, sg, pos)
    BY <1>1 DEF Walk
<1>3. QED
    BY <1>1, <1>2 DEF f2

\* when it goes on to the next subscriber it finds,
LEMMA WalkGoesOn ==
    ASSUME NEW pos, Lists(list, sigOf, pos), NEW f \in Frame, Walk(f, list, sigOf, pos),
           Matches(f.sig, f.next) # {}
    PROVE  LET s == NextCall(f.sig, f.next)
               f2 == [f EXCEPT !.at = s, !.next = list.next[s], !.got = Append(@, s)]
           IN  f2 \in Frame /\ Walk(f2, list, sigOf, pos)
<1> DEFINE h == BucketOf(f.sig)
           s == NextCall(f.sig, f.next)
           q == f.got
           r == Append(f.got, s)
           x == list.next[s]
           f2 == [f EXCEPT !.at = s, !.next = list.next[s], !.got = Append(@, s)]
<1>1. q \in Seq(Sub) /\ f.must \subseteq Sub /\ f.sig \in Sig /\ h \in Heads
    BY Buckets DEF Frame
<1>2. /\ f.at # f.next /\ (f.next = h \/ f.next \in InBucket(list, sigOf, h))
      /\ \A t \in f.must : t \in Linked(list) /\ sigOf[t] = f.sig
      /\ \A t \in f.must : ~Contains(q, t) => f.next # h /\ pos[f.next] <= pos[t]
      /\ \A i \in 1..Len(q) : sigOf[q[i]] = f.sig
      /\ \A i \in 1..Len(q) : q[i] \in Linked(list) /\ f.next # h => pos[q[i]] < pos[f.next]
      /\ \A i, j \in 1..Len(q) : i < j => q[i] # q[j]
      /\ \A i, j \in 1..Len(q) :
            i < j /\ q[i] \in Linked(list) /\ q[j] \in Linked(list) => pos[q[i]] < pos[q[j]]
    BY DEF Walk
<1>3. /\ s \in Subscribers(f.sig)
      /\ f.next # h /\ pos[f.next] <= pos[s]
      /\ x # s
      /\ x = h \/ (x \in InBucket(list, sigOf, h) /\ pos[s] < pos[x])
      /\ \A t \in Subscribers(f.sig) :
            pos[f.next] <= pos[t] /\ t # s => x # h /\ pos[x] <= pos[t]
  <2>1. f.next \in InBucket(list, sigOf, h) \cup {h}
      BY <1>2
  <2>2. QED
      BY <1>1, <2>1, NextCallFacts
<1> HIDE DEF s, x
<1>4. /\ s \in Sub /\ s \in Linked(list) /\ s \in Node /\ sigOf[s] = f.sig
      /\ s \in InBucket(list, sigOf, h)
      /\ pos[s] \in Nat /\ pos[f.next] \in Nat /\ (x # h => pos[x] \in Nat)
      /\ \A t \in Linked(list) : pos[t] \in Nat
      /\ x \in Node
  <2>1. s \in Sub /\ s \in Linked(list) /\ sigOf[s] = f.sig /\ s \in InBucket(list, sigOf, h)
      BY <1>3 DEF Subscribers, Subscribed, Linked, InBucket
  <2>2. pos[f.next] \in Nat /\ (x # h => pos[x] \in Nat)
      BY <1>2, <1>3, InBuckets
  <2>3. s \in Node /\ (\A t \in Linked(list) : pos[t] \in Nat) /\ x \in Node
      BY <2>1, InBuckets DEF x
  <2>4. QED
      BY <2>1, <2>2, <2>3
<1>5. /\ r \in Seq(Sub) /\ Len(q) \in Nat /\ Len(r) = Len(q) + 1 /\ r[Len(q) + 1] = s
      /\ \A i \in 1..Len(q) : r[i] = q[i]
    BY <1>1, <1>4
<1> HIDE DEF r
<1>6. /\ f2 \in Frame /\ f2.sig = f.sig /\ f2.at = s /\ f2.next = x /\ f2.must = f.must
      /\ f2.got = r
    BY <1>4, <1>5 DEF Frame, r, s, x
<1> HIDE DEF f2, q, h
<1>7. \A t \in f.must : ~Contains(r, t) => x # h /\ pos[x] <= pos[t]
  <2>1. TAKE t \in f.must
  <2>2. HAVE ~Contains(r, t)
  <2>3. t # s /\ ~Contains(q, t)
    <3>1. Len(q) + 1 \in 1..Len(r) /\ \A i \in 1..Len(q) : i \in 1..Len(r)
        BY <1>5
    <3>2. QED
        BY <1>5, <2>2, <3>1 DEF Contains
  <2>4. t \in Subscribers(f.sig)
      BY <1>1, <1>2 DEF Subscribers, Subscribed, Linked
  <2>5. QED
      BY <1>2, <1>3, <2>3, <2>4
<1>8. \A i \in 1..Len(r) : (i \in 1..Len(q) /\ r[i] = q[i]) \/ (i = Len(q) + 1 /\ r[i] = s)
    BY <1>5
<1>9. \A i \in 1..Len(q) : q[i] \in Linked(list) => pos[q[i]] < pos[s]
    BY <1>2, <1>3, <1>4
<1>10. \A i \in 1..Len(r) : sigOf[r[i]] = f.sig
    BY <1>2, <1>4, <1>8
<1>11. \A i \in 1..Len(r) : r[i] \in Linked(list) /\ x # h => pos[r[i]] < pos[x]
  <2>1. TAKE i \in 1..Len(r)
  <2>2. HAVE r[i] \in Linked(list) /\ x # h
  <2>3. pos[s] < pos[x] /\ pos[x] \in Nat
      BY <1>3, <1>4, <2>2
  <2>4. QED
      BY <1>4, <1>8, <1>9, <2>2, <2>3
<1>12. \A i, j \in 1..Len(r) : i < j => i \in 1..Len(q) /\ r[i] = q[i]
    BY <1>5
<1>13. \A i, j \in 1..Len(r) : i < j => r[i] # r[j]
    BY <1>2, <1>4, <1>8, <1>9, <1>12
<1>14. \A i, j \in 1..Len(r) :
          i < j /\ r[i] \in Linked(list) /\ r[j] \in Linked(list) => pos[r[i]] < pos[r[j]]
    BY <1>2, <1>8, <1>9, <1>12
<1>15. x = h \/ x \in InBucket(list, sigOf, h)
    BY <1>3
<1>16. Walk(f2, list, sigOf, pos)
    BY <1>2, <1>3, <1>6, <1>7, <1>10, <1>11, <1>13, <1>14, <1>15 DEF Walk, h
<1>17. QED
    BY <1>6, <1>16 DEF f2, s

\* and before it has called anybody.
LEMMA WalkBegins ==
    ASSUME NEW pos, Lists(list, sigOf, pos), NEW g \in Sig, Matches(g, list.next[BucketOf(g)]) # {}
    PROVE  LET f == [sig |-> g, at |-> BucketOf(g), next |-> list.next[BucketOf(g)],
                     must |-> Subscribers(g), got |-> << >>]
           IN  f \in Frame /\ Walk(f, list, sigOf, pos)
<1> DEFINE h == BucketOf(g)
           x == list.next[h]
           f == [sig |-> g, at |-> h, next |-> x, must |-> Subscribers(g), got |-> << >>]
<1>1. h \in Heads /\ h \in Node
    BY Buckets
<1>2. x \in Node /\ (x = h \/ x \in InBucket(list, sigOf, h))
    BY <1>1, InBuckets DEF Lists, Ordered
<1>3. x # h
  <2>1. x \in InBucket(list, sigOf, h) \cup {h}
      BY <1>2
  <2>2. QED
      BY <2>1, NextCallFacts
<1>4. Subscribers(g) \subseteq Sub
    BY DEF Subscribers, Subscribed
<1>5. ASSUME NEW t \in Subscribers(g) PROVE t \in Linked(list) /\ sigOf[t] = g /\ pos[x] <= pos[t]
  <2>1. t \in Linked(list) /\ sigOf[t] = g /\ t \in InBucket(list, sigOf, h)
      BY DEF Subscribers, Subscribed, Linked, InBucket
  <2>2. QED
      BY <1>1, <2>1, BucketIsRing, FirstIsFirst
<1>6. /\ f \in Frame /\ f.sig = g /\ f.at = h /\ f.next = x /\ f.must = Subscribers(g)
      /\ f.got = << >>
    BY <1>1, <1>2, <1>4 DEF Frame
<1> HIDE DEF f, x, h
<1>7. Walk(f, list, sigOf, pos)
    BY <1>2, <1>3, <1>5, <1>6 DEF Walk, h
<1>8. QED
    BY <1>6, <1>7 DEF f, x, h

----------------------------------------------------------------------------
\* The invariant is inductive

\* It holds when the bus has just been initialised.
LEMMA InitInv == Init => IInv
<1> SUFFICES ASSUME Init PROVE IInv
    OBVIOUS
<1> USE DEF Init
<1>1. list = [next |-> [n \in Node |-> n], prev |-> [n \in Node |-> n]]
    BY DEF Detached
<1>2. TypeOK
    BY <1>1, EBusAssumption DEF TypeOK
<1>3. Linked(list) = {}
    BY <1>1 DEF Linked, Node
<1> DEFINE pos == [s \in Sub |-> 0]
<1>4. Ordered(list, sigOf, pos)
  <2>1. pos \in [Sub -> Nat] /\ \A h \in Heads : list.next[h] = h
    <3>1. \A h \in Heads : h \in Node
        BY DEF Node
    <3>2. list.next = [n \in Node |-> n]
        BY <1>1
    <3>3. \A h \in Heads : list.next[h] = h
        BY <3>1, <3>2
    <3>4. QED
        BY <3>3
  <2> HIDE DEF pos
  <2>2. QED
      BY <1>3, <2>1 DEF Ordered
<1>5. Coherent(list)
    BY <1>1 DEF Coherent
<1> HIDE DEF pos
<1>6. Lists(list, sigOf, pos)
    BY <1>2, <1>4, <1>5 DEF Lists, TypeOK
<1>7. \A k \in 1..Len(stack) : Walk(stack[k], list, sigOf, pos)
    OBVIOUS
<1>8. QED
    BY <1>2, <1>6, <1>7 DEF IInv

\* The invariant follows from its parts in the next state.
LEMMA Assemble ==
    ASSUME NEW pos, Lists(list', sigOf', pos),
           stack' \in Seq(Frame), Len(stack') <= MaxNest,
           \A k \in 1..Len(stack') : Walk(stack'[k], list', sigOf', pos)
    PROVE  IInv'
BY DEF IInv, TypeOK, Lists

\* Anbo_EBus_Subscribe keeps it,
LEMMA SubscribeInv ==
    ASSUME IInv, NEW s \in Sub, NEW g \in Sig, Subscribe(s, g) PROVE IInv'
<1>1. /\ s \notin Linked(list)
      /\ sigOf' = [sigOf EXCEPT ![s] = g]
      /\ list' = InsertTail(list, BucketOf(g), s)
      /\ stack' = [i \in 1..Len(stack) |-> [stack[i] EXCEPT !.got = RemoveFirst(@, s)]]
    BY DEF Subscribe, Subscribed, Linked
<1>2. PICK pos : /\ Lists(list, sigOf, pos)
                 /\ \A k \in 1..Len(stack) : Walk(stack[k], list, sigOf, pos)
    BY DEF IInv
<1>3. stack \in Seq(Frame) /\ Len(stack) <= MaxNest /\ Len(stack) \in Nat
    BY DEF IInv, TypeOK
<1>4. /\ Linked(list') = Linked(list) \cup {s}
      /\ \A x : InBucket(list, sigOf, x) \subseteq InBucket(list', sigOf', x)
      /\ \E n \in Nat : Lists(list', sigOf', [pos EXCEPT ![s] = n])
    BY <1>1, <1>2, SubscribeLists
<1>5. PICK n \in Nat : Lists(list', sigOf', [pos EXCEPT ![s] = n])
    BY <1>4
<1> DEFINE f2(k) == [stack[k] EXCEPT !.got = RemoveFirst(@, s)]
           pos2 == [pos EXCEPT ![s] = n]
<1>6. ASSUME NEW k \in 1..Len(stack) PROVE f2(k) \in Frame /\ Walk(f2(k), list', sigOf', pos2)
  <2>1. stack[k] \in Frame
      BY <1>3
  <2>2. QED
      BY <1>1, <1>2, <1>4, <2>1, WalkAfterSubscribe
<1>7. stack' = [k \in 1..Len(stack) |-> f2(k)]
    BY <1>1
<1> HIDE DEF f2
<1>8. stack' \in Seq(Frame) /\ Len(stack') = Len(stack) /\ \A k \in 1..Len(stack) : stack'[k] = f2(k)
    BY <1>3, <1>6, <1>7
<1>9. QED
    BY <1>3, <1>5, <1>6, <1>8, Assemble

\* Anbo_EBus_Unsubscribe when no dispatch goes on with the subscriber,
LEMMA UnsubscribeInv ==
    ASSUME IInv, Disciplined, NEW s \in Sub, Unsubscribe(s) PROVE IInv'
<1>1. /\ s \in Linked(list)
      /\ SafeToRemove(s)
      /\ list' = Unlink(list, s)
      /\ stack' = [i \in 1..Len(stack) |-> [stack[i] EXCEPT !.must = @ \ {s}]]
      /\ sigOf' = sigOf
    BY DEF Unsubscribe, Subscribed, Linked
<1>2. PICK pos : /\ Lists(list, sigOf, pos)
                 /\ \A k \in 1..Len(stack) : Walk(stack[k], list, sigOf, pos)
    BY DEF IInv
<1>3. stack \in Seq(Frame) /\ Len(stack) <= MaxNest /\ Len(stack) \in Nat
    BY DEF IInv, TypeOK
<1>4. /\ Linked(list') = Linked(list) \ {s}
      /\ \A x : InBucket(list', sigOf, x) = InBucket(list, sigOf, x) \ {s}
      /\ Lists(list', sigOf, pos)
    BY <1>1, <1>2, UnsubscribeLists
<1> DEFINE f2(k) == [stack[k] EXCEPT !.must = @ \ {s}]
<1>5. ASSUME NEW k \in 1..Len(stack) PROVE f2(k) \in Frame /\ Walk(f2(k), list', sigOf, pos)
  <2>1. stack[k] \in Frame /\ stack[k].next # s
      BY <1>1, <1>3 DEF SafeToRemove
  <2>2. QED
      BY <1>1, <1>2, <1>4, <2>1, WalkAfterUnsubscribe
<1>6. stack' = [k \in 1..Len(stack) |-> f2(k)]
    BY <1>1
<1> HIDE DEF f2
<1>7. stack' \in Seq(Frame) /\ Len(stack') = Len(stack) /\ \A k \in 1..Len(stack) : stack'[k] = f2(k)
    BY <1>3, <1>5, <1>6
<1>8. QED
    BY <1>1, <1>3, <1>4, <1>5, <1>7, Assemble

\* a publish,
LEMMA PublishInv ==
    ASSUME IInv, NEW g \in Sig, Publish(g) PROVE IInv'
<1> DEFINE h == BucketOf(g)
           p == list.next[h]
           s == NextCall(g, p)
           f == [sig |-> g, at |-> h, next |-> p, must |-> Subscribers(g), got |-> << >>]
           f2 == [f EXCEPT !.at = s, !.next = list.next[s], !.got = Append(@, s)]
<1>1. /\ Len(stack) < MaxNest
      /\ Matches(g, p) # {}
      /\ stack' = Append(stack, [sig |-> g, at |-> s, next |-> list.next[s],
                                 must |-> Subscribers(g), got |-> <<s>>])
      /\ list' = list /\ sigOf' = sigOf
    BY DEF Publish
<1>2. PICK pos : /\ Lists(list, sigOf, pos)
                 /\ \A k \in 1..Len(stack) : Walk(stack[k], list, sigOf, pos)
    BY DEF IInv
<1>3. stack \in Seq(Frame) /\ Len(stack) \in Nat /\ MaxNest \in Nat
    BY EBusAssumption DEF IInv, TypeOK
<1>4. f \in Frame /\ Walk(f, list, sigOf, pos)
    BY <1>1, <1>2, WalkBegins
<1>5. f2 \in Frame /\ Walk(f2, list, sigOf, pos)
  <2>1. f.sig = g /\ f.next = p
      OBVIOUS
  <2> HIDE DEF f, p
  <2>2. QED
      BY <1>1, <1>2, <1>4, <2>1, WalkGoesOn
<1>6. f2 = [sig |-> g, at |-> s, next |-> list.next[s], must |-> Subscribers(g), got |-> <<s>>]
  <2>1. Append(<< >>, s) = <<s>>
      OBVIOUS
  <2>2. /\ f \in Frame /\ f.sig = g /\ f.must = Subscribers(g) /\ f.got = << >>
      BY <1>4
  <2> HIDE DEF f, s, p, h
  <2>3. /\ f2.sig = g /\ f2.at = s /\ f2.next = list.next[s] /\ f2.must = Subscribers(g)
        /\ f2.got = <<s>>
      BY <2>1, <2>2 DEF Frame
  <2> HIDE DEF f2
  <2>4. f2 = [sig |-> f2.sig, at |-> f2.at, next |-> f2.next, must |-> f2.must, got |-> f2.got]
      BY <1>5 DEF Frame
  <2>5. QED
      BY <2>3, <2>4
<1>7. stack' = Append(stack, f2)
    BY <1>1, <1>6
<1> HIDE DEF f2
<1>8. /\ stack' \in Seq(Frame) /\ Len(stack') = Len(stack) + 1 /\ stack'[Len(stack) + 1] = f2
      /\ \A k \in 1..Len(stack) : stack'[k] = stack[k]
    BY <1>3, <1>5, <1>7
<1>9. \A k \in 1..Len(stack') : Walk(stack'[k], list, sigOf, pos)
  <2>1. \A k \in 1..Len(stack') : k \in 1..Len(stack) \/ k = Len(stack) + 1
      BY <1>3, <1>8
  <2>2. QED
      BY <1>2, <1>5, <1>8, <2>1
<1>10. Len(stack') <= MaxNest
    BY <1>1, <1>3, <1>8
<1>11. QED
    BY <1>1, <1>2, <1>8, <1>9, <1>10, Assemble

\* The innermost dispatch
LEMMA TopFacts ==
    ASSUME TypeOK, stack # << >>
    PROVE  Len(stack) \in Nat /\ Len(stack) \in 1..Len(stack) /\ Top = stack[Len(stack)] /\ Top \in Frame
<1>1. stack \in Seq(Frame)
    BY DEF TypeOK
<1>2. Len(stack) \in Nat /\ Len(stack) \in 1..Len(stack)
    BY <1>1
<1>3. Top = stack[Len(stack)]
    BY DEF Top, Last
<1>4. QED
    BY <1>1, <1>2, <1>3

\* the call of the next handler,
LEMMA CallNextInv ==
    ASSUME IInv, CallNext PROVE IInv'
<1> DEFINE s == NextCall(Top.sig, Top.next)
           f2 == [Top EXCEPT !.at = s, !.next = list.next[s], !.got = Append(@, s)]
<1>1. /\ stack # << >>
      /\ Matches(Top.sig, Top.next) # {}
      /\ stack' = [stack EXCEPT ![Len(stack)].at = s,
                                ![Len(stack)].next = list.next[s],
                                ![Len(stack)].got = Append(@, s)]
      /\ list' = list /\ sigOf' = sigOf
    BY DEF CallNext
<1>2. PICK pos : /\ Lists(list, sigOf, pos)
                 /\ \A k \in 1..Len(stack) : Walk(stack[k], list, sigOf, pos)
    BY DEF IInv
<1>3. stack \in Seq(Frame) /\ Len(stack) <= MaxNest
    BY DEF IInv, TypeOK
<1>4. Len(stack) \in Nat /\ Len(stack) \in 1..Len(stack) /\ Top = stack[Len(stack)] /\ Top \in Frame
    BY <1>1, TopFacts DEF IInv
<1>5. f2 \in Frame /\ Walk(f2, list, sigOf, pos)
    BY <1>1, <1>2, <1>4, WalkGoesOn
<1>6. stack' = [stack EXCEPT ![Len(stack)] = f2]
  <2> HIDE DEF s
  <2>1. QED
      BY <1>1, <1>3, <1>4 DEF Frame
<1> HIDE DEF f2
<1>7. /\ stack' \in Seq(Frame) /\ Len(stack') = Len(stack) /\ stack'[Len(stack)] = f2
      /\ \A k \in 1..Len(stack) : k # Len(stack) => stack'[k] = stack[k]
    BY <1>3, <1>4, <1>5, <1>6
<1>8. \A k \in 1..Len(stack') : Walk(stack'[k], list, sigOf, pos)
    BY <1>2, <1>5, <1>7
<1>9. QED
    BY <1>1, <1>2, <1>3, <1>7, <1>8, Assemble

\* what a dispatch leaves when it ends,
LEMMA DispatchEnds ==
    ASSUME TypeOK, EndPublish
    PROVE  /\ list' = list /\ sigOf' = sigOf
           /\ stack' \in Seq(Frame) /\ Len(stack') = Len(stack) - 1
           /\ \A k \in 1..(Len(stack) - 1) : stack'[k] = stack[k]
           /\ Len(stack) \in Nat
<1>1. stack # << >> /\ stack' = SubSeq(stack, 1, Len(stack) - 1) /\ list' = list /\ sigOf' = sigOf
    BY DEF EndPublish, Front
<1>2. stack \in Seq(Frame)
    BY DEF TypeOK
<1>3. Len(stack) \in Nat /\ Len(stack) # 0
    BY <1>1, <1>2
<1> DEFINE n == Len(stack) - 1
<1>4. n \in Nat /\ \A k \in 1..n : stack[k] \in Frame
    BY <1>2, <1>3
<1>5. stack' = SubSeq(stack, 1, n)
    BY <1>1
<1> HIDE DEF n
<1>6. /\ stack' \in Seq(Frame) /\ Len(stack') = (IF 1 <= n THEN n - 1 + 1 ELSE 0)
      /\ \A k \in 1..(n - 1 + 1) : stack'[k] = stack[1 + k - 1]
    BY <1>4, <1>5, SubSeqProperties
<1>7. Len(stack') = n /\ \A k \in 1..n : stack'[k] = stack[k]
    BY <1>4, <1>6
<1>8. QED
    BY <1>1, <1>3, <1>6, <1>7 DEF n

\* the end of a dispatch,
LEMMA EndPublishInv ==
    ASSUME IInv, EndPublish PROVE IInv'
<1>1. PICK pos : /\ Lists(list, sigOf, pos)
                 /\ \A k \in 1..Len(stack) : Walk(stack[k], list, sigOf, pos)
    BY DEF IInv
<1>2. TypeOK /\ Len(stack) <= MaxNest /\ MaxNest \in Nat
    BY EBusAssumption DEF IInv, TypeOK
<1>3. /\ list' = list /\ sigOf' = sigOf
      /\ stack' \in Seq(Frame) /\ Len(stack') = Len(stack) - 1
      /\ \A k \in 1..(Len(stack) - 1) : stack'[k] = stack[k]
      /\ Len(stack) \in Nat
    BY <1>2, DispatchEnds
<1>4. \A k \in 1..Len(stack') : k \in 1..Len(stack) /\ stack'[k] = stack[k]
    BY <1>3
<1>5. QED
    BY <1>1, <1>2, <1>3, <1>4, Assemble

\* and so every step.
LEMMA NextInv == Disciplined /\ IInv /\ [Next]_vars => IInv'
<1> SUFFICES ASSUME Disciplined, IInv, [Next]_vars PROVE IInv'
    OBVIOUS
<1>1. ASSUME NEW s \in Sub, NEW g \in Sig, Subscribe(s, g) PROVE IInv'
    BY <1>1, SubscribeInv
<1>2. ASSUME NEW s \in Sub, Unsubscribe(s) PROVE IInv'
    BY <1>2, UnsubscribeInv
<1>3. ASSUME NEW g \in Sig, Publish(g) PROVE IInv'
    BY <1>3, PublishInv
<1>4. ASSUME CallNext PROVE IInv'
    BY <1>4, CallNextInv
<1>5. ASSUME EndPublish PROVE IInv'
    BY <1>5, EndPublishInv
<1>6. ASSUME UNCHANGED vars PROVE IInv'
  <2>1. list' = list /\ sigOf' = sigOf /\ stack' = stack
      BY <1>6 DEF vars
  <2>2. PICK pos : /\ Lists(list, sigOf, pos)
                   /\ \A k \in 1..Len(stack) : Walk(stack[k], list, sigOf, pos)
      BY DEF IInv
  <2>3. stack \in Seq(Frame) /\ Len(stack) <= MaxNest
      BY DEF IInv, TypeOK
  <2>4. /\ Lists(list', sigOf', pos) /\ stack' \in Seq(Frame) /\ Len(stack') <= MaxNest
        /\ \A k \in 1..Len(stack') : Walk(stack'[k], list', sigOf', pos)
      BY <2>1, <2>2, <2>3
  <2>5. QED
      BY <2>4, Assemble
<1>7. QED
    BY <1>1, <1>2, <1>3, <1>4, <1>5, <1>6 DEF Next

\* The invariant holds of every reachable state when handlers keep the discipline.
LEMMA Inductive == ASSUME Disciplined PROVE Spec => []IInv
<1>1. Init => IInv
    BY InitInv
<1>2. IInv /\ [Next]_vars => IInv'
    BY NextInv
<1>3. QED
    BY <1>1, <1>2, PTL DEF Spec

----------------------------------------------------------------------------
\* What needs no discipline

\* The lists stay sound whichever subscriber is removed, also one that a dispatch goes on
\* with.
LEMMA ListsInductive ==
    /\ Init => ListsSound
    /\ ListsSound /\ [Next]_vars => ListsSound'
<1>1. Init => ListsSound
    BY InitInv DEF IInv, ListsSound
<1>2. SUFFICES ASSUME ListsSound, [Next]_vars PROVE ListsSound'
    BY <1>1
<1>3. PICK pos : Lists(list, sigOf, pos)
    BY <1>2 DEF ListsSound
<1>4. TypeOK /\ Coherent(list)
    BY <1>2, <1>3 DEF ListsSound, Lists
<1>5. stack \in Seq(Frame) /\ Len(stack) <= MaxNest /\ Len(stack) \in Nat /\ MaxNest \in Nat
    BY <1>4, EBusAssumption DEF TypeOK
<1>6. ASSUME NEW pos2, Lists(list', sigOf', pos2), stack' \in Seq(Frame), Len(stack') <= MaxNest
      PROVE  ListsSound'
    BY <1>6 DEF ListsSound, TypeOK, Lists
<1>7. ASSUME NEW s \in Sub, NEW g \in Sig, Subscribe(s, g) PROVE ListsSound'
  <2>1. /\ s \notin Linked(list)
        /\ sigOf' = [sigOf EXCEPT ![s] = g]
        /\ list' = InsertTail(list, BucketOf(g), s)
        /\ stack' = [i \in 1..Len(stack) |-> [stack[i] EXCEPT !.got = RemoveFirst(@, s)]]
      BY <1>7 DEF Subscribe, Subscribed, Linked
  <2>2. PICK n \in Nat : Lists(list', sigOf', [pos EXCEPT ![s] = n])
      BY <1>3, <2>1, SubscribeLists
  <2> DEFINE f2(k) == [stack[k] EXCEPT !.got = RemoveFirst(@, s)]
  <2>3. ASSUME NEW k \in 1..Len(stack) PROVE f2(k) \in Frame
    <3>1. stack[k] \in Frame /\ stack[k].got \in Seq(Sub)
        BY <1>4, Frames
    <3>2. RemoveFirst(stack[k].got, s) \in Seq(Sub)
        BY <3>1, RemoveFirstFacts
    <3>3. QED
        BY <3>1, <3>2 DEF Frame
  <2>4. stack' = [k \in 1..Len(stack) |-> f2(k)]
      BY <2>1
  <2> HIDE DEF f2
  <2>5. stack' \in Seq(Frame) /\ Len(stack') = Len(stack)
      BY <1>5, <2>3, <2>4
  <2>6. QED
      BY <1>5, <1>6, <2>2, <2>5
<1>8. ASSUME NEW s \in Sub, Unsubscribe(s) PROVE ListsSound'
  <2>1. /\ s \in Linked(list)
        /\ list' = Unlink(list, s)
        /\ stack' = [i \in 1..Len(stack) |-> [stack[i] EXCEPT !.must = @ \ {s}]]
        /\ sigOf' = sigOf
      BY <1>8 DEF Unsubscribe, Subscribed, Linked
  <2>2. Lists(list', sigOf', pos)
      BY <1>3, <2>1, UnsubscribeLists
  <2> DEFINE f2(k) == [stack[k] EXCEPT !.must = @ \ {s}]
  <2>3. ASSUME NEW k \in 1..Len(stack) PROVE f2(k) \in Frame
      BY <1>4, Frames DEF Frame
  <2>4. stack' = [k \in 1..Len(stack) |-> f2(k)]
      BY <2>1
  <2> HIDE DEF f2
  <2>5. stack' \in Seq(Frame) /\ Len(stack') = Len(stack)
      BY <1>5, <2>3, <2>4
  <2>6. QED
      BY <1>5, <1>6, <2>2, <2>5
<1>9. ASSUME NEW g \in Sig, Publish(g) PROVE ListsSound'
  <2> DEFINE p == list.next[BucketOf(g)]
             s == NextCall(g, p)
             f == [sig |-> g, at |-> s, next |-> list.next[s], must |-> Subscribers(g),
                   got |-> <<s>>]
  <2>1. /\ Len(stack) < MaxNest /\ Matches(g, p) # {}
        /\ stack' = Append(stack, f) /\ list' = list /\ sigOf' = sigOf
      BY <1>9 DEF Publish
  <2>2. p \in Node
      BY <1>4, Buckets DEF TypeOK
  <2>3. s \in Sub
    <3> HIDE DEF p
    <3>1. QED
        BY <1>4, <2>1, <2>2, CalledFacts
  <2> HIDE DEF s, p
  <2>4. s \in Node /\ list.next[s] \in Node /\ Subscribers(g) \subseteq Sub /\ <<s>> \in Seq(Sub)
      BY <1>4, <2>3 DEF TypeOK, Node, Subscribers, Subscribed
  <2>5. f \in Frame
      BY <2>4 DEF Frame
  <2> HIDE DEF f
  <2>6. stack' \in Seq(Frame) /\ Len(stack') = Len(stack) + 1
      BY <1>5, <2>1, <2>5
  <2>7. QED
      BY <1>3, <1>5, <1>6, <2>1, <2>6
<1>10. ASSUME CallNext PROVE ListsSound'
  <2> DEFINE s == NextCall(Top.sig, Top.next)
             f == [Top EXCEPT !.at = s, !.next = list.next[s], !.got = Append(@, s)]
  <2>1. /\ stack # << >> /\ Matches(Top.sig, Top.next) # {}
        /\ stack' = [stack EXCEPT ![Len(stack)].at = s,
                                  ![Len(stack)].next = list.next[s],
                                  ![Len(stack)].got = Append(@, s)]
        /\ list' = list /\ sigOf' = sigOf
      BY <1>10 DEF CallNext
  <2>2. Len(stack) \in 1..Len(stack) /\ Top = stack[Len(stack)] /\ Top \in Frame
      BY <1>4, <2>1, TopFacts
  <2>3. Top.sig \in Sig /\ Top.next \in Node
      BY <2>2 DEF Frame
  <2>4. s \in Sub
      BY <1>4, <2>1, <2>3, CalledFacts
  <2> HIDE DEF s
  <2>5. s \in Node /\ list.next[s] \in Node
      BY <1>4, <2>4 DEF TypeOK, Node
  <2>6. f \in Frame
    <3>1. Top.got \in Seq(Sub)
        BY <2>2 DEF Frame
    <3>2. Append(Top.got, s) \in Seq(Sub)
        BY <2>4, <3>1
    <3>3. QED
        BY <2>2, <2>4, <2>5, <3>2 DEF Frame
  <2>7. stack' = [stack EXCEPT ![Len(stack)] = f]
      BY <1>5, <2>1, <2>2 DEF Frame
  <2> HIDE DEF f
  <2>8. stack' \in Seq(Frame) /\ Len(stack') = Len(stack)
      BY <1>5, <2>2, <2>6, <2>7
  <2>9. QED
      BY <1>3, <1>5, <1>6, <2>1, <2>8
<1>11. ASSUME EndPublish PROVE ListsSound'
  <2>1. list' = list /\ sigOf' = sigOf /\ stack' \in Seq(Frame) /\ Len(stack') = Len(stack) - 1
      BY <1>4, <1>11, DispatchEnds
  <2>2. QED
      BY <1>3, <1>5, <1>6, <2>1
<1>12. ASSUME UNCHANGED vars PROVE ListsSound'
    BY <1>3, <1>5, <1>6, <1>12 DEF vars
<1>13. QED
    BY <1>2, <1>7, <1>8, <1>9, <1>10, <1>11, <1>12 DEF Next

LEMMA ListsStaySound == Spec => []ListsSound
BY ListsInductive, PTL DEF Spec

----------------------------------------------------------------------------
\* The properties

\* BucketsSound: in every reachable state each subscribed descriptor is in the bucket of
\* its signal and in no other, and the pointers agree in both directions, however the
\* subscriptions change during dispatches, those of the nodes that dispatches have saved
\* included (Anbo_EBus_Subscribe, Anbo_EBus_Unsubscribe).
THEOREM SubscriptionsAreSound == Spec => []BucketsSound
<1>1. ASSUME ListsSound PROVE BucketsSound
  <2>1. PICK pos : Lists(list, sigOf, pos)
      BY <1>1 DEF ListsSound
  <2>2. TypeOK /\ Coherent(list)
      BY <1>1, <2>1 DEF ListsSound, Lists
  <2>3. ASSUME NEW i \in DOMAIN Bucket
        PROVE  Members(list, Bucket[i]) = {s \in Subscribed : SigToIdx(sigOf[s]) = i}
    <3>1. Bucket[i] \in Heads
        BY DEF Heads
    <3>2. Members(list, Bucket[i]) = InBucket(list, sigOf, Bucket[i])
        BY <2>1, <3>1, BucketIsRing, ChainFacts
    <3>3. ASSUME NEW s \in Subscribed
          PROVE  BucketOf(sigOf[s]) = Bucket[i] <=> SigToIdx(sigOf[s]) = i
      <4>1. SigToIdx(sigOf[s]) \in DOMAIN Bucket
          BY <2>2, Buckets DEF TypeOK, Subscribed
      <4>2. QED
          BY <4>1, EBusAssumption DEF BucketOf
    <3>4. QED
        BY <3>2, <3>3 DEF InBucket, Linked, Subscribed
  <2>4. QED
      BY <2>2, <2>3 DEF BucketsSound
<1>2. QED
    BY <1>1, ListsStaySound, PTL

\* ServedInOrder: every dispatch, the interrupted ones included, calls its subscribers in
\* the order of their subscription, and nobody twice who has not subscribed again
\* (the loop of ebus_dispatch over the saved next pointer).
THEOREM ServiceFollowsTheLists == ASSUME Disciplined PROVE Spec => []ServedInOrder
<1>1. ASSUME IInv PROVE ServedInOrder
  <2>1. PICK pos : /\ Lists(list, sigOf, pos)
                   /\ \A k \in 1..Len(stack) : Walk(stack[k], list, sigOf, pos)
      BY <1>1 DEF IInv
  <2>2. SUFFICES
          ASSUME NEW k \in 1..Len(stack), NEW i \in 1..Len(stack[k].got),
                 NEW j \in 1..Len(stack[k].got), i < j
          PROVE  LET c == Chain(list, BucketOf(stack[k].sig))
                     g == stack[k].got
                 IN  /\ g[i] # g[j]
                     /\ \A m, n \in 1..Len(c) : c[m] = g[i] /\ c[n] = g[j] => m < n
      BY DEF ServedInOrder
  <2> DEFINE h == BucketOf(stack[k].sig)
             c == Chain(list, h)
             g == stack[k].got
  <2>3. h \in Heads
      BY <1>1, Frames DEF IInv
  <2>4. /\ g[i] # g[j]
        /\ g[i] \in Linked(list) /\ g[j] \in Linked(list) => pos[g[i]] < pos[g[j]]
      BY <2>1, <2>2 DEF Walk
  <2> HIDE DEF g, h
  <2>5. /\ Len(c) \in Nat
        /\ \A m, n \in 1..Len(c) : m < n => pos[c[m]] < pos[c[n]]
        /\ c \in [1..Len(c) -> InBucket(list, sigOf, h)]
      BY <2>1, <2>3, BucketIsRing, ChainFacts
  <2> HIDE DEF c
  <2>6. ASSUME NEW m \in 1..Len(c), NEW n \in 1..Len(c), c[m] = g[i], c[n] = g[j]
        PROVE  m < n
    <3>1. /\ c[m] \in Linked(list) /\ c[n] \in Linked(list)
          /\ pos[c[m]] \in Nat /\ pos[c[n]] \in Nat
        BY <2>1, <2>5, InBuckets
    <3>2. pos[c[m]] < pos[c[n]]
        BY <2>4, <2>6, <3>1
    <3>3. m = n \/ n < m \/ m < n
        BY <2>5
    <3>4. n < m => pos[c[n]] < pos[c[m]]
        BY <2>5
    <3>5. QED
        BY <3>1, <3>2, <3>3, <3>4
  <2>7. QED
      BY <2>4, <2>6 DEF c, g, h
<1>2. QED
    BY <1>1, Inductive, PTL

\* EveryoneServed: when a dispatch ends, everybody who was subscribed to the signal from
\* the publish on has been called, whatever handlers and interrupts did in between
\* (ebus_dispatch).
THEOREM NobodyIsMissed == ASSUME Disciplined PROVE Spec => EveryoneServed
<1>1. ASSUME IInv, [Next]_vars
      PROVE  [EndPublish => \A s \in Top.must : Contains(Top.got, s)]_vars
  <2>1. SUFFICES ASSUME EndPublish, NEW s \in Top.must, ~Contains(Top.got, s) PROVE FALSE
      OBVIOUS
  <2>2. stack # << >> /\ Matches(Top.sig, Top.next) = {}
      BY <2>1 DEF EndPublish
  <2>3. PICK pos : /\ Lists(list, sigOf, pos)
                   /\ \A k \in 1..Len(stack) : Walk(stack[k], list, sigOf, pos)
      BY <1>1 DEF IInv
  <2>4. Top \in Frame /\ Walk(Top, list, sigOf, pos)
      BY <1>1, <2>2, <2>3, TopFacts DEF IInv
  <2>5. /\ Top.next \in InBucket(list, sigOf, BucketOf(Top.sig)) /\ pos[Top.next] <= pos[s]
        /\ s \in Linked(list) /\ sigOf[s] = Top.sig
      BY <2>1, <2>4 DEF Walk
  <2>6. Top.sig \in Sig /\ s \in Subscribers(Top.sig)
      BY <2>4, <2>5 DEF Frame, Subscribers, Subscribed, Linked
  <2>7. QED
      BY <2>2, <2>3, <2>5, <2>6, NoMatchFacts
<1>2. QED
    BY <1>1, Inductive, PTL DEF Spec, EveryoneServed

\* OnlySubscribersCalled: whoever unsubscribes while its handlers run, ebus_dispatch goes
\* on to a subscriber of the event's signal; the one exception is the node it saved before
\* the handler ran, which it still calls if that node is in no bucket any more.
THEOREM OnlyTheSubscribed == Spec => OnlySubscribersCalled
<1>1. ASSUME ListsSound, [Next]_vars
      PROVE  [CallNext => LET s == stack'[Len(stack)].at IN
                          \/ s \in Subscribers(Top.sig)
                          \/ s = Top.next /\ s \notin Subscribed]_vars
  <2> DEFINE s == NextCall(Top.sig, Top.next)
             called == stack'[Len(stack)].at
  <2>1. SUFFICES ASSUME CallNext
                 PROVE  \/ called \in Subscribers(Top.sig)
                        \/ called = Top.next /\ called \notin Subscribed
      OBVIOUS
  <2>2. /\ stack # << >> /\ Matches(Top.sig, Top.next) # {}
        /\ stack' = [stack EXCEPT ![Len(stack)].at = s,
                                  ![Len(stack)].next = list.next[s],
                                  ![Len(stack)].got = Append(@, s)]
      BY <2>1 DEF CallNext
  <2>3. TypeOK /\ Coherent(list)
      BY <1>1 DEF ListsSound, Lists
  <2>4. /\ Len(stack) \in 1..Len(stack) /\ Top = stack[Len(stack)]
        /\ Top \in Frame /\ stack \in Seq(Frame)
      BY <2>2, <2>3, TopFacts DEF TypeOK
  <2>5. Top.sig \in Sig /\ Top.next \in Node
      BY <2>4 DEF Frame
  <2>6. s \in Sub /\ sigOf[s] = Top.sig /\ (s \in Subscribed \/ s = Top.next)
      BY <2>2, <2>3, <2>5, CalledFacts
  <2> HIDE DEF s
  <2>7. called = s
      BY <2>2, <2>4 DEF Frame
  <2>8. QED
      BY <2>6, <2>7 DEF Subscribers, Subscribed
<1>2. QED
    BY <1>1, ListsStaySound, PTL DEF Spec, OnlySubscribersCalled

----------------------------------------------------------------------------
\* The state machine

\* A transfer in progress, and a change of the subscriptions.
Transferring == {"exit", "enter"}
Changing == {"count", "drop"}

\* The machine's nodes on the bus.
Own(l) == {s \in FsmNodes : l.next[s] # s}

\* The calls c while d dispatches are in progress: their levels ascend, and their
\* number is bounded by the level.
Levels(c, d) ==
    /\ \A i \in 1..Len(c) : c[i].level <= d /\ i <= MaxCalls + MaxNest + c[i].level
    /\ \A i, j \in 1..Len(c) : i < j => c[i].level <= c[j].level

\* The subscriptions are changed by one call at a time, and nothing else runs above a
\* transfer that has assigned current and not called on_entry.
Alone(c) ==
    /\ \A i, j \in 1..Len(c) : c[i].what \in Changing /\ c[j].what \in Changing => i = j
    /\ \A i, j \in 1..Len(c) : c[i].what = "enter" /\ i < j => c[j].what = "drop"

\* No dispatch that has begun above such a transfer is for the machine.
Quiet(c, st, l, sg) ==
    \A i \in 1..Len(c), k \in 1..Len(st) :
        c[i].what = "enter" /\ c[i].level < k => \A s \in Own(l) : sg[s] # st[k].sig

\* The targets of the transfers, and the state entered last.
Marked(c, cur, m) ==
    /\ \A i \in 1..Len(c) : /\ c[i].what = "exit" => c[i].state \in State
                            /\ c[i].what = "enter" => c[i].state = cur
    /\ (\A i \in 1..Len(c) : c[i].what # "enter") => m.entered = cur

\* The first nodes from a to b
Nodes(a, b) == {FsmSub[i] : i \in a..b}

\* are on the bus when n are counted.
Counted(c, l, n) ==
    /\ \A i \in 1..Len(c) :
          /\ c[i].what = "count" => n < MaxSubs /\ Own(l) = Nodes(1, n + 1)
          /\ c[i].what = "drop" => c[i].i <= n + 1 /\ Own(l) = Nodes(c[i].i, n)
    /\ (\A i \in 1..Len(c) : c[i].what \notin Changing) => Own(l) = Nodes(1, n)

Mark == [entered : State, left : State \cup {NoState}]

\* The bus has come from one stack of dispatches to another one of the same signals.
SameSigs(st, st2) ==
    /\ Len(st2) = Len(st)
    /\ \A k \in 1..Len(st) : st2[k].sig = st[k].sig

FInv ==
    /\ current \in State /\ subCount \in 0..MaxSubs /\ calls \in Seq(Call) /\ mark \in Mark
    /\ Levels(calls, Len(stack))
    /\ Alone(calls)
    /\ Quiet(calls, stack, list, sigOf)
    /\ Marked(calls, current, mark)
    /\ Counted(calls, list, subCount)

----------------------------------------------------------------------------
\* The calls

\* The nodes of the machine are different subscribers.
LEMMA FsmSubFacts ==
    /\ MaxSubs \in Nat /\ FsmNodes \subseteq Sub
    /\ FsmNodes = {FsmSub[i] : i \in 1..MaxSubs}
    /\ \A i, j \in 1..MaxSubs : FsmSub[i] = FsmSub[j] => i = j
    /\ \A i \in 1..MaxSubs : FsmSub[i] \in FsmNodes /\ FsmSub[i] \in Sub
    /\ MaxNest \in Nat /\ MaxCalls \in Nat \ {0}
<1>1. FsmSub \in Seq(Sub) /\ DOMAIN FsmSub = 1..MaxSubs /\ MaxSubs \in Nat
    BY FsmAssumption DEF MaxSubs
<1>2. FsmNodes = {FsmSub[i] : i \in 1..MaxSubs}
    BY <1>1 DEF FsmNodes, Range
<1>3. \A i, j \in 1..MaxSubs : FsmSub[i] = FsmSub[j] => i = j
    BY <1>1, FsmAssumption DEF IsInjective
<1>4. \A i \in 1..MaxSubs : FsmSub[i] \in Sub
    BY <1>1
<1>5. QED
    BY <1>1, <1>2, <1>3, <1>4, FsmAssumption, EBusAssumption

\* A call in progress
LEMMA CallFacts ==
    ASSUME NEW c \in Seq(Call)
    PROVE  /\ Len(c) \in Nat
           /\ \A i \in 1..Len(c) :
                 /\ c[i] \in Call /\ c[i].level \in 0..MaxNest /\ c[i].i \in 1..(MaxSubs + 1)
                 /\ c[i].what \in {"event", "exit", "enter", "entry", "count", "drop"}
           /\ c # << >> => Len(c) \in 1..Len(c) /\ Last(c) = c[Len(c)]
<1>1. Len(c) \in Nat /\ \A i \in 1..Len(c) : c[i] \in Call
    OBVIOUS
<1>2. c # << >> => Len(c) \in 1..Len(c)
    BY <1>1
<1>3. QED
    BY <1>1, <1>2 DEF Call, Last

\* The calls after one more has begun
LEMMA Begun ==
    ASSUME NEW c \in Seq(Call), NEW x \in Call, NEW c2, c2 = Append(c, x)
    PROVE  /\ c2 \in Seq(Call) /\ Len(c2) = Len(c) + 1 /\ c2[Len(c) + 1] = x
           /\ Len(c) + 1 \in 1..Len(c2)
           /\ \A i \in 1..Len(c) : c2[i] = c[i] /\ i \in 1..Len(c2)
           /\ \A i \in 1..Len(c2) :
                 (i \in 1..Len(c) /\ c2[i] = c[i]) \/ (i = Len(c) + 1 /\ c2[i] = x)
<1>1. c2 \in Seq(Call) /\ Len(c2) = Len(c) + 1 /\ c2[Len(c) + 1] = x /\ Len(c) \in Nat
    OBVIOUS
<1>2. \A i \in 1..Len(c) : c2[i] = c[i]
    OBVIOUS
<1>3. QED
    BY <1>1, <1>2

\* or the innermost has returned
LEMMA Returned ==
    ASSUME NEW c \in Seq(Call), c # << >>, NEW c2, c2 = Front(c)
    PROVE  /\ c2 \in Seq(Call) /\ Len(c2) = Len(c) - 1
           /\ \A i \in 1..Len(c2) : i \in 1..Len(c) /\ i < Len(c) /\ c2[i] = c[i]
           /\ \A i \in 1..Len(c) : i = Len(c) \/ (i \in 1..Len(c2) /\ i < Len(c))
<1> DEFINE n == Len(c) - 1
<1>1. Len(c) \in Nat /\ n \in Nat /\ \A i \in 1..n : c[i] \in Call
    BY CallFacts
<1>2. c2 = SubSeq(c, 1, n)
    BY DEF Front
<1> HIDE DEF n
<1>3. /\ c2 \in Seq(Call) /\ Len(c2) = (IF 1 <= n THEN n - 1 + 1 ELSE 0)
      /\ \A i \in 1..(n - 1 + 1) : c2[i] = c[1 + i - 1]
    BY <1>1, <1>2, SubSeqProperties
<1>4. Len(c2) = n /\ \A i \in 1..n : c2[i] = c[i]
    BY <1>1, <1>3
<1>5. QED
    BY <1>1, <1>3, <1>4 DEF n

\* or has gone on.
LEMMA GoneOn ==
    ASSUME NEW c \in Seq(Call), c # << >>, NEW x \in Call, NEW c2, c2 = [c EXCEPT ![Len(c)] = x]
    PROVE  /\ c2 \in Seq(Call) /\ Len(c2) = Len(c) /\ c2[Len(c)] = x
           /\ \A i \in 1..Len(c) : i # Len(c) => i < Len(c) /\ c2[i] = c[i]
<1>1. Len(c) \in Nat /\ Len(c) \in 1..Len(c)
    BY CallFacts
<1>2. QED
    BY <1>1

\* What the bus and the engine make of the parts of the invariant about the calls alone,
\* when a call begins,
LEMMA BegunInv ==
    ASSUME NEW c \in Seq(Call), NEW d \in Nat, Levels(c, d), Alone(c),
           NEW x \in Call, NEW d2 \in Nat, d <= d2, x.level = d2,
           Len(c) + 1 <= MaxCalls + MaxNest + d2,
           x.what \in Changing => \A i \in 1..Len(c) : c[i].what \notin Changing,
           x.what # "drop" => \A i \in 1..Len(c) : c[i].what # "enter",
           NEW c2, c2 = Append(c, x)
    PROVE  Levels(c2, d2) /\ Alone(c2)
<1>1. /\ Len(c2) = Len(c) + 1 /\ Len(c) \in Nat
      /\ \A i \in 1..Len(c2) : (i \in 1..Len(c) /\ c2[i] = c[i]) \/ (i = Len(c) + 1 /\ c2[i] = x)
    BY Begun, CallFacts
<1>2. \A i \in 1..Len(c) : c[i].level \in Nat /\ i < Len(c) + 1
    BY CallFacts, FsmSubFacts
<1>3. MaxCalls + MaxNest \in Nat
    BY FsmSubFacts
<1>4. \A i \in 1..Len(c) : c[i].level <= d /\ i <= MaxCalls + MaxNest + c[i].level
    BY DEF Levels
<1>5. \A i, j \in 1..Len(c) : i < j => c[i].level <= c[j].level
    BY DEF Levels
<1>6. \A i \in 1..Len(c2) : c2[i].level <= d2 /\ i <= MaxCalls + MaxNest + c2[i].level
    BY <1>1, <1>2, <1>3, <1>4
<1>7. \A i, j \in 1..Len(c2) : i < j => i \in 1..Len(c) /\ c2[i] = c[i]
    BY <1>1, <1>2
<1>8. \A i, j \in 1..Len(c2) : i < j => c2[i].level <= c2[j].level
    BY <1>1, <1>2, <1>4, <1>5, <1>7
<1>9. Levels(c2, d2)
    BY <1>6, <1>8 DEF Levels
<1>10. Alone(c2)
  <2>1. \A i, j \in 1..Len(c2) : c2[i].what \in Changing /\ c2[j].what \in Changing => i = j
      BY <1>1 DEF Alone
  <2>2. \A i, j \in 1..Len(c2) : c2[i].what = "enter" /\ i < j => c2[j].what = "drop"
      BY <1>1, <1>7 DEF Alone
  <2>3. QED
      BY <2>1, <2>2 DEF Alone
<1>11. QED
    BY <1>9, <1>10

\* when the innermost returns,
LEMMA ReturnedInv ==
    ASSUME NEW c \in Seq(Call), NEW d \in Nat, Levels(c, d), Alone(c), c # << >>,
           NEW c2, c2 = Front(c)
    PROVE  Levels(c2, d) /\ Alone(c2)
<1>1. \A i \in 1..Len(c2) : i \in 1..Len(c) /\ c2[i] = c[i]
    BY Returned
<1>2. QED
    BY <1>1 DEF Levels, Alone

\* when it goes on,
LEMMA GoneOnInv ==
    ASSUME NEW c \in Seq(Call), NEW d \in Nat, Levels(c, d), Alone(c), c # << >>,
           NEW x \in Call, x.level = Last(c).level,
           x.what \in Changing => Last(c).what \in Changing,
           Last(c).what = "drop" => x.what = "drop",
           NEW c2, c2 = [c EXCEPT ![Len(c)] = x]
    PROVE  Levels(c2, d) /\ Alone(c2)
<1>1. /\ Len(c2) = Len(c) /\ c2[Len(c)] = x /\ Last(c) = c[Len(c)] /\ Len(c) \in 1..Len(c)
      /\ \A i \in 1..Len(c) : i # Len(c) => i < Len(c) /\ c2[i] = c[i]
    BY GoneOn, CallFacts
<1>2. \A i \in 1..Len(c) : /\ c2[i].level = c[i].level
                           /\ c2[i].what \in Changing => c[i].what \in Changing
                           /\ c[i].what = "drop" => c2[i].what = "drop"
                           /\ i # Len(c) => c2[i].what = c[i].what
    BY <1>1
<1>3. Levels(c2, d)
    BY <1>1, <1>2 DEF Levels
<1>4. \A i, j \in 1..Len(c2) : i < j => i # Len(c)
    BY <1>1, CallFacts
<1>5. Alone(c2)
    BY <1>1, <1>2, <1>4 DEF Alone
<1>6. QED
    BY <1>3, <1>5

\* and when a dispatch below which it began ends.
LEMMA LevelsBelow ==
    ASSUME NEW c \in Seq(Call), NEW d \in Nat, Levels(c, d), c # << >> => Last(c).level < d
    PROVE  \A i \in 1..Len(c) : c[i].level < d
<1> SUFFICES ASSUME NEW i \in 1..Len(c) PROVE c[i].level < d
    OBVIOUS
<1>1. c # << >> /\ Len(c) \in Nat
    BY CallFacts
<1>2. Len(c) \in 1..Len(c) /\ Last(c) = c[Len(c)] /\ c[Len(c)].level < d
    BY <1>1, CallFacts
<1>3. c[i].level <= c[Len(c)].level
  <2>1. i = Len(c) \/ i < Len(c)
      BY <1>1
  <2>2. i < Len(c) => c[i].level <= c[Len(c)].level
      BY <1>2 DEF Levels
  <2>3. QED
      BY <2>1, <2>2, CallFacts
<1>4. QED
    BY <1>2, <1>3, CallFacts

\* Nothing but UnsubscribeAll runs above a transfer.
LEMMA NoTransferBelow ==
    ASSUME NEW c \in Seq(Call), Alone(c), c # << >>, Last(c).what # "drop"
    PROVE  \A i \in 1..Len(c) : i # Len(c) => c[i].what # "enter"
<1>1. Len(c) \in Nat /\ Len(c) \in 1..Len(c) /\ Last(c) = c[Len(c)]
    BY CallFacts
<1>2. \A i \in 1..Len(c) : i # Len(c) => i < Len(c)
    BY <1>1
<1>3. QED
    BY <1>1, <1>2 DEF Alone

----------------------------------------------------------------------------
\* What the steps of the bus change

\* The machine's nodes on the bus are subscribers.
LEMMA OwnFacts ==
    /\ \A l : Own(l) = FsmNodes \cap Linked(l)
    /\ Own(list) = FsmNodes \cap Subscribed
    /\ \A g : \A s \in Own(list) : sigOf[s] = g <=> s \in Subscribers(g)
    /\ \A g : Subscribers(g) \cap FsmNodes \subseteq Own(list)
    /\ Linked(list) = Subscribed
BY FsmSubFacts DEF Own, Linked, Subscribers, Subscribed

\* A subscriber joins,
LEMMA SubscribeEffect ==
    ASSUME IInv, NEW s \in Sub, NEW g \in Sig, Subscribe(s, g)
    PROVE  /\ s \notin Linked(list) /\ Linked(list') = Linked(list) \cup {s}
           /\ \A t \in Sub : t # s => sigOf'[t] = sigOf[t]
           /\ SameSigs(stack, stack')
<1>1. /\ s \notin Linked(list) /\ sigOf' = [sigOf EXCEPT ![s] = g]
      /\ list' = InsertTail(list, BucketOf(g), s)
      /\ stack' = [i \in 1..Len(stack) |-> [stack[i] EXCEPT !.got = RemoveFirst(@, s)]]
    BY OwnFacts DEF Subscribe
<1>2. PICK pos : Lists(list, sigOf, pos)
    BY DEF IInv
<1>3. Linked(list') = Linked(list) \cup {s}
    BY <1>1, <1>2, SubscribeLists
<1>4. \A t \in Sub : t # s => sigOf'[t] = sigOf[t]
    BY <1>1, <1>2 DEF Lists
<1>5. SameSigs(stack, stack')
  <2>1. stack \in Seq(Frame) /\ \A k \in 1..Len(stack) : stack[k] \in Frame
      BY DEF IInv, TypeOK
  <2>2. \A k \in 1..Len(stack) : [stack[k] EXCEPT !.got = RemoveFirst(@, s)].sig = stack[k].sig
      BY <2>1 DEF Frame
  <2> DEFINE F(k) == [stack[k] EXCEPT !.got = RemoveFirst(@, s)]
  <2>3. stack' = [k \in 1..Len(stack) |-> F(k)] /\ \A k \in 1..Len(stack) : F(k).sig = stack[k].sig
      BY <1>1, <2>2
  <2> HIDE DEF F
  <2>4. Len(stack) \in Nat
      BY <2>1
  <2>5. Len(stack') = Len(stack)
      BY <2>3, <2>4
  <2>6. QED
      BY <2>3, <2>5 DEF SameSigs
<1>6. QED
    BY <1>1, <1>3, <1>4, <1>5

\* or leaves,
LEMMA UnsubscribeEffect ==
    ASSUME IInv, NEW s \in Sub, Unsubscribe(s)
    PROVE  /\ s \in Linked(list) /\ Linked(list') = Linked(list) \ {s}
           /\ sigOf' = sigOf
           /\ SameSigs(stack, stack')
<1>1. /\ s \in Linked(list) /\ sigOf' = sigOf /\ list' = Unlink(list, s)
      /\ stack' = [i \in 1..Len(stack) |-> [stack[i] EXCEPT !.must = @ \ {s}]]
    BY OwnFacts DEF Unsubscribe
<1>2. PICK pos : Lists(list, sigOf, pos)
    BY DEF IInv
<1>3. Linked(list') = Linked(list) \ {s}
    BY <1>1, <1>2, UnsubscribeLists
<1>4. SameSigs(stack, stack')
  <2>1. stack \in Seq(Frame) /\ \A k \in 1..Len(stack) : stack[k] \in Frame
      BY DEF IInv, TypeOK
  <2>2. \A k \in 1..Len(stack) : [stack[k] EXCEPT !.must = @ \ {s}].sig = stack[k].sig
      BY <2>1 DEF Frame
  <2> DEFINE F(k) == [stack[k] EXCEPT !.must = @ \ {s}]
  <2>3. stack' = [k \in 1..Len(stack) |-> F(k)] /\ \A k \in 1..Len(stack) : F(k).sig = stack[k].sig
      BY <1>1, <2>2
  <2> HIDE DEF F
  <2>4. Len(stack) \in Nat
      BY <2>1
  <2>5. Len(stack') = Len(stack)
      BY <2>3, <2>4
  <2>6. QED
      BY <2>3, <2>5 DEF SameSigs
<1>5. QED
    BY <1>1, <1>3, <1>4

\* a dispatch begins with a subscriber of the signal,
LEMMA PublishEffect ==
    ASSUME IInv, NEW g \in Sig, Publish(g)
    PROVE  /\ list' = list /\ sigOf' = sigOf
           /\ Len(stack) \in Nat /\ Len(stack') = Len(stack) + 1 /\ Len(stack') \in 0..MaxNest
           /\ \A k \in 1..Len(stack) : stack'[k] = stack[k]
           /\ stack'[Len(stack')].sig = g /\ stack'[Len(stack')].at \in Subscribers(g)
<1> DEFINE p == list.next[BucketOf(g)]
           s == NextCall(g, p)
           f == [sig |-> g, at |-> s, next |-> list.next[s], must |-> Subscribers(g), got |-> <<s>>]
<1>1. /\ Len(stack) < MaxNest /\ Matches(g, p) # {}
      /\ stack' = Append(stack, f) /\ list' = list /\ sigOf' = sigOf
    BY DEF Publish
<1>2. PICK pos : Lists(list, sigOf, pos)
    BY DEF IInv
<1>3. p \in InBucket(list, sigOf, BucketOf(g)) \cup {BucketOf(g)}
    BY <1>2, Buckets DEF Lists, Ordered
<1>4. s \in Subscribers(g)
    BY <1>1, <1>2, <1>3, NextCallFacts
<1>5. f.sig = g /\ f.at = s
    OBVIOUS
<1> HIDE DEF f, s, p
<1>6. stack \in Seq(Frame) /\ Len(stack) \in Nat
    BY DEF IInv, TypeOK
<1>7. /\ Len(stack') = Len(stack) + 1 /\ stack'[Len(stack) + 1] = f
      /\ \A k \in 1..Len(stack) : stack'[k] = stack[k]
    BY <1>1, <1>6
<1>8. QED
    BY <1>1, <1>4, <1>5, <1>6, <1>7, FsmSubFacts

\* goes on with one,
LEMMA CallNextEffect ==
    ASSUME IInv, CallNext
    PROVE  /\ list' = list /\ sigOf' = sigOf
           /\ Len(stack) \in 1..Len(stack) /\ Len(stack) \in Nat /\ Top = stack[Len(stack)]
           /\ SameSigs(stack, stack')
           /\ stack'[Len(stack)].at \in Subscribers(Top.sig)
<1> DEFINE s == NextCall(Top.sig, Top.next)
<1>1. /\ stack # << >> /\ Matches(Top.sig, Top.next) # {}
      /\ stack' = [stack EXCEPT ![Len(stack)].at = s,
                                ![Len(stack)].next = list.next[s],
                                ![Len(stack)].got = Append(@, s)]
      /\ list' = list /\ sigOf' = sigOf
    BY DEF CallNext
<1>2. PICK pos : /\ Lists(list, sigOf, pos)
                 /\ \A k \in 1..Len(stack) : Walk(stack[k], list, sigOf, pos)
    BY DEF IInv
<1>3. /\ Len(stack) \in 1..Len(stack) /\ Len(stack) \in Nat /\ Top = stack[Len(stack)]
      /\ Top \in Frame /\ stack \in Seq(Frame) /\ Walk(Top, list, sigOf, pos)
    BY <1>1, <1>2, TopFacts DEF IInv, TypeOK
<1>4. /\ Top.sig \in Sig
      /\ Top.next \in InBucket(list, sigOf, BucketOf(Top.sig)) \cup {BucketOf(Top.sig)}
    BY <1>3 DEF Walk, Frame
<1>5. s \in Subscribers(Top.sig)
    BY <1>1, <1>2, <1>4, NextCallFacts
<1> HIDE DEF s
<1>6. /\ stack'[Len(stack)].at = s /\ stack'[Len(stack)].sig = stack[Len(stack)].sig
      /\ Len(stack') = Len(stack)
      /\ \A k \in 1..Len(stack) : k # Len(stack) => stack'[k] = stack[k]
    BY <1>1, <1>3 DEF Frame
<1>7. SameSigs(stack, stack')
    BY <1>6 DEF SameSigs
<1>8. QED
    BY <1>1, <1>3, <1>5, <1>6, <1>7

\* and ends.
LEMMA EndEffect ==
    ASSUME IInv, EndPublish
    PROVE  /\ list' = list /\ sigOf' = sigOf
           /\ Len(stack) \in Nat /\ Len(stack') \in Nat /\ Len(stack') = Len(stack) - 1
           /\ \A k \in 1..Len(stack') : k \in 1..Len(stack) /\ stack'[k] = stack[k]
<1>1. TypeOK
    BY DEF IInv
<1>2. QED
    BY <1>1, DispatchEnds

\* In every case what is said of a transfer and the dispatches above it remains, if the
\* machine gets no node more.
LEMMA QuietStays ==
    ASSUME NEW c, NEW st, NEW l, NEW sg, Quiet(c, st, l, sg), NEW st2, NEW l2, NEW sg2,
           \A k \in 1..Len(st2) : k \in 1..Len(st) /\ st2[k].sig = st[k].sig,
           \A s \in Own(l2) : s \in Own(l) /\ sg2[s] = sg[s]
    PROVE  Quiet(c, st2, l2, sg2)
BY DEF Quiet

\* Nothing happens on the bus.
LEMMA Idle ==
    ASSUME UNCHANGED vars
    PROVE  list' = list /\ sigOf' = sigOf /\ stack' = stack
BY DEF vars

----------------------------------------------------------------------------
\* The initial state

\* No node is in a list.
LEMMA NothingOwned == Init => Own(list) = {}
<1> SUFFICES ASSUME Init, NEW s \in FsmNodes PROVE list.next[s] = s
    BY DEF Own
<1>1. s \in Node
    BY FsmSubFacts DEF Node
<1>2. QED
    BY <1>1 DEF Init, Detached

\* The on_entry of the initial state runs.
LEMMA FsmInitInv == FsmInit => IInv /\ FInv
<1> SUFFICES ASSUME FsmInit PROVE IInv /\ FInv
    OBVIOUS
<1> DEFINE x == [what |-> "entry", state |-> current, i |-> 1, level |-> 0]
<1>1. Init /\ current \in State /\ subCount = 0 /\ mark = [entered |-> current, left |-> NoState]
    BY DEF FsmInit
<1>2. calls = <<x>> /\ x.what = "entry" /\ x.level = 0
    BY DEF FsmInit
<1>3. x \in Call
    BY <1>1, FsmSubFacts DEF Call
<1> HIDE DEF x
<1>4. calls \in Seq(Call) /\ Len(calls) = 1 /\ \A i \in 1..Len(calls) : i = 1 /\ calls[i] = x
    BY <1>2, <1>3
<1>5. mark \in Mark /\ subCount \in 0..MaxSubs
    BY <1>1, FsmSubFacts DEF Mark
<1>6. Len(stack) = 0
    BY <1>1 DEF Init
<1>7. Levels(calls, Len(stack))
    BY <1>2, <1>4, <1>6, FsmSubFacts DEF Levels
<1>8. x.what # "enter" /\ x.what \notin Changing
    BY <1>2 DEF Changing
<1>9. Alone(calls) /\ Quiet(calls, stack, list, sigOf)
    BY <1>4, <1>8 DEF Alone, Quiet
<1>10. Marked(calls, current, mark)
    BY <1>1, <1>2, <1>4 DEF Marked
<1>11. Counted(calls, list, subCount)
  <2>1. Own(list) = {} /\ Nodes(1, 0) = {}
      BY <1>1, NothingOwned DEF Nodes
  <2>2. QED
      BY <1>1, <1>2, <1>4, <2>1 DEF Counted
<1>12. IInv
    BY <1>1, InitInv
<1>13. QED
    BY <1>1, <1>4, <1>5, <1>7, <1>9, <1>10, <1>11, <1>12 DEF FInv

----------------------------------------------------------------------------
\* The steps of the bus

\* What the application's discipline is about
LEMMA TransitFacts ==
    /\ ~InWindow <=> \A i \in 1..Len(calls) : calls[i].what # "enter"
    /\ ~Subscribing <=> \A i \in 1..Len(calls) : calls[i].what \notin Changing
BY DEF InWindow, Subscribing, Changing

\* How many calls are in progress
LEMMA CallsBound ==
    ASSUME NEW c \in Seq(Call), NEW d \in Nat, Levels(c, d), NEW e \in Nat,
           \A i \in 1..Len(c) : c[i].level <= e
    PROVE  Len(c) <= MaxCalls + MaxNest + e
<1>1. CASE c = << >>
    BY <1>1, FsmSubFacts
<1>2. CASE c # << >>
  <2>1. Len(c) \in 1..Len(c) /\ c[Len(c)].level \in Nat /\ Len(c) \in Nat
      BY <1>2, CallFacts, FsmSubFacts
  <2>2. Len(c) <= MaxCalls + MaxNest + c[Len(c)].level /\ c[Len(c)].level <= e
      BY <2>1 DEF Levels
  <2>3. QED
      BY <2>1, <2>2, FsmSubFacts
<1>3. QED
    BY <1>1, <1>2

\* The depth of the dispatches
LEMMA Depth == IInv => Len(stack) \in 0..MaxNest /\ Len(stack) \in Nat
<1> SUFFICES ASSUME IInv PROVE Len(stack) \in 0..MaxNest /\ Len(stack) \in Nat
    OBVIOUS
<1>1. stack \in Seq(Frame) /\ Len(stack) <= MaxNest
    BY DEF IInv, TypeOK
<1>2. Len(stack) \in Nat
    BY <1>1
<1>3. QED
    BY <1>1, <1>2, FsmSubFacts

\* A step of the bus that leaves the machine's nodes and calls alone.
LEMMA BusInv ==
    ASSUME FInv, UNCHANGED fsmVars, Own(list') = Own(list),
           \A s \in Own(list) : sigOf'[s] = sigOf[s],
           Levels(calls, Len(stack')),
           \A k \in 1..Len(stack') : k \in 1..Len(stack) /\ stack'[k].sig = stack[k].sig
    PROVE  FInv'
<1>1. current' = current /\ subCount' = subCount /\ calls' = calls /\ mark' = mark
    BY DEF fsmVars
<1>2. Quiet(calls, stack', list', sigOf')
  <2>1. Quiet(calls, stack, list, sigOf)
      BY DEF FInv
  <2>2. QED
      BY <2>1, QuietStays
<1>3. Counted(calls, list', subCount)
    BY DEF FInv, Counted
<1>4. QED
    BY <1>1, <1>2, <1>3 DEF FInv

\* A dispatch has come to a node of the machine: on_event is called.
LEMMA EventInv ==
    ASSUME IInv, FInv, ~InWindow, list' = list, sigOf' = sigOf,
           Len(stack') \in 0..MaxNest, Len(stack) <= Len(stack'),
           Len(calls) + 1 <= MaxCalls + MaxNest + Len(stack'),
           calls' = Append(calls, [what |-> "event", state |-> NoState, i |-> 1,
                                   level |-> Len(stack')]),
           UNCHANGED <<current, subCount, mark>>
    PROVE  FInv'
<1> DEFINE x == [what |-> "event", state |-> NoState, i |-> 1, level |-> Len(stack')]
<1>1. x \in Call /\ x.what = "event" /\ x.level = Len(stack')
    BY FsmSubFacts DEF Call
<1>2. calls' = Append(calls, x) /\ calls \in Seq(Call)
    BY DEF FInv
<1> HIDE DEF x
<1>3. x.what # "enter" /\ x.what \notin Changing
    BY <1>1 DEF Changing
<1>4. /\ calls' \in Seq(Call)
      /\ \A i \in 1..Len(calls) : calls'[i] = calls[i] /\ i \in 1..Len(calls')
      /\ \A i \in 1..Len(calls') : (i \in 1..Len(calls) /\ calls'[i] = calls[i]) \/ calls'[i] = x
    BY <1>1, <1>2, Begun
<1>5. \A i \in 1..Len(calls) : calls[i].what # "enter"
    BY TransitFacts
<1>6. Levels(calls', Len(stack')) /\ Alone(calls')
  <2>1. Levels(calls, Len(stack)) /\ Alone(calls) /\ Len(stack) \in Nat /\ Len(stack') \in Nat
      BY Depth, FsmSubFacts DEF FInv
  <2>2. QED
      BY <1>1, <1>2, <1>3, <1>5, <2>1, BegunInv
<1>7. Quiet(calls', stack', list', sigOf')
    BY <1>3, <1>4, <1>5 DEF Quiet
<1>8. Marked(calls', current, mark)
  <2>1. Marked(calls, current, mark)
      BY DEF FInv
  <2>2. QED
      BY <1>1, <1>4, <2>1 DEF Marked
<1>9. Counted(calls', list, subCount)
  <2>1. Counted(calls, list, subCount)
      BY DEF FInv
  <2>2. QED
      BY <1>1, <1>4, <2>1 DEF Counted
<1>10. QED
    BY <1>4, <1>6, <1>7, <1>8, <1>9 DEF FInv

\* A dispatch begins for the machine only when it is in a state.
LEMMA PublishAnyInv ==
    ASSUME Atomic, IInv, FInv, NEW g \in Sig, PublishAny(g) PROVE FInv'
<1>1. /\ Publish(g) /\ Handler /\ UNCHANGED <<current, subCount, mark>>
      /\ Subscribers(g) \cap FsmNodes # {} => ~InWindow
    BY DEF PublishAny, MayDrive
<1>2. /\ list' = list /\ sigOf' = sigOf
      /\ Len(stack) \in Nat /\ Len(stack') = Len(stack) + 1 /\ Len(stack') \in 0..MaxNest
      /\ \A k \in 1..Len(stack) : stack'[k] = stack[k]
      /\ stack'[Len(stack')].sig = g /\ stack'[Len(stack')].at \in Subscribers(g)
    BY <1>1, PublishEffect
<1>3. calls \in Seq(Call) /\ Levels(calls, Len(stack)) /\ Len(calls) \in Nat
    BY CallFacts DEF FInv
<1>4. Len(calls) <= MaxCalls + MaxNest + Len(stack)
  <2>1. \A i \in 1..Len(calls) : calls[i].level <= Len(stack)
      BY <1>3 DEF Levels
  <2>2. QED
      BY <1>2, <1>3, <2>1, CallsBound
<1>5. CASE stack'[Len(stack')].at \in FsmNodes
  <2>1. ~InWindow
      BY <1>1, <1>2, <1>5
  <2>2. calls' = Append(calls, [what |-> "event", state |-> NoState, i |-> 1,
                                level |-> Len(stack')])
      BY <1>1, <1>5 DEF Handler
  <2>3. Len(stack) <= Len(stack') /\ Len(calls) + 1 <= MaxCalls + MaxNest + Len(stack')
      BY <1>2, <1>3, <1>4, FsmSubFacts
  <2>4. QED
      BY <1>1, <1>2, <2>1, <2>2, <2>3, EventInv
<1>6. CASE stack'[Len(stack')].at \notin FsmNodes
  <2>1. current' = current /\ subCount' = subCount /\ calls' = calls /\ mark' = mark
      BY <1>1, <1>6 DEF Handler
  <2>2. Levels(calls, Len(stack'))
    <3>1. \A i \in 1..Len(calls) : calls[i].level \in Nat
        BY <1>3, CallFacts, FsmSubFacts
    <3>2. QED
        BY <1>2, <1>3, <3>1 DEF Levels
  <2>3. Quiet(calls, stack', list, sigOf)
    <3>1. Quiet(calls, stack, list, sigOf)
        BY DEF FInv
    <3>2. SUFFICES ASSUME NEW i \in 1..Len(calls), NEW k \in 1..Len(stack'),
                          calls[i].what = "enter", calls[i].level < k, NEW s \in Own(list)
                   PROVE  sigOf[s] # stack'[k].sig
        BY DEF Quiet
    <3>3. CASE k \in 1..Len(stack)
        BY <1>2, <3>1, <3>2, <3>3 DEF Quiet
    <3>4. CASE k = Len(stack')
      <4>1. Subscribers(g) \cap FsmNodes = {}
          BY <1>1, <3>2, TransitFacts
      <4>2. QED
          BY <1>2, <3>4, <4>1, OwnFacts
    <3>5. QED
        BY <1>2, <3>3, <3>4
  <2>4. QED
      BY <1>2, <2>1, <2>2, <2>3 DEF FInv
<1>7. QED
    BY <1>5, <1>6

\* A dispatch that runs comes to a node of the machine only when it is in a state.
LEMMA NoneInWindow ==
    ASSUME IInv, FInv, BusRuns, CallNext, stack'[Len(stack)].at \in FsmNodes
    PROVE  ~InWindow
<1>1. /\ Len(stack) \in 1..Len(stack) /\ Len(stack) \in Nat /\ Top = stack[Len(stack)]
      /\ stack'[Len(stack)].at \in Subscribers(Top.sig)
    BY CallNextEffect
<1>2. \A i \in 1..Len(calls) : calls[i].level < Len(stack)
  <2>1. calls \in Seq(Call) /\ Levels(calls, Len(stack))
      BY DEF FInv
  <2>2. QED
      BY <1>1, <2>1, LevelsBelow DEF BusRuns
<1>3. Quiet(calls, stack, list, sigOf)
    BY DEF FInv
<1>4. ASSUME NEW i \in 1..Len(calls) PROVE calls[i].what # "enter"
  <2> DEFINE s == stack'[Len(stack)].at
  <2>1. s \in Own(list) /\ sigOf[s] = stack[Len(stack)].sig
      BY <1>1, OwnFacts
  <2>2. QED
      BY <1>1, <1>2, <1>3, <2>1 DEF Quiet
<1>5. QED
    BY <1>4, TransitFacts

\* It goes on,
LEMMA BusNextInv == ASSUME IInv, FInv, BusNext PROVE FInv'
<1>1. BusRuns /\ CallNext /\ Handler /\ UNCHANGED <<current, subCount, mark>>
    BY DEF BusNext
<1>2. /\ list' = list /\ sigOf' = sigOf /\ Len(stack) \in Nat /\ Len(stack) \in 1..Len(stack)
      /\ Len(stack') = Len(stack) /\ \A k \in 1..Len(stack) : stack'[k].sig = stack[k].sig
    BY <1>1, CallNextEffect DEF SameSigs
<1>3. calls \in Seq(Call) /\ Levels(calls, Len(stack)) /\ Len(calls) \in Nat
    BY CallFacts DEF FInv
<1>4. CASE stack'[Len(stack')].at \in FsmNodes
  <2>1. ~InWindow
      BY <1>1, <1>2, <1>4, NoneInWindow
  <2>2. calls' = Append(calls, [what |-> "event", state |-> NoState, i |-> 1,
                                level |-> Len(stack')])
      BY <1>1, <1>4 DEF Handler
  <2>3. \A i \in 1..Len(calls) : calls[i].level <= Len(stack) - 1
    <3>1. \A i \in 1..Len(calls) : calls[i].level < Len(stack) /\ calls[i].level \in Nat
        BY <1>1, <1>2, <1>3, LevelsBelow, CallFacts, FsmSubFacts DEF BusRuns
    <3>2. QED
        BY <1>2, <3>1
  <2>4. Len(calls) <= MaxCalls + MaxNest + (Len(stack) - 1)
    <3>1. Len(stack) - 1 \in Nat
        BY <1>2
    <3>2. QED
        BY <1>2, <1>3, <2>3, <3>1, CallsBound
  <2>5. Len(calls) + 1 <= MaxCalls + MaxNest + Len(stack') /\ Len(stack') \in 0..MaxNest
      BY <1>2, <1>3, <2>4, FsmSubFacts, Depth
  <2>6. QED
      BY <1>1, <1>2, <2>1, <2>2, <2>5, EventInv
<1>5. CASE stack'[Len(stack')].at \notin FsmNodes
  <2>1. UNCHANGED fsmVars
      BY <1>1, <1>5 DEF Handler, fsmVars
  <2>2. QED
      BY <1>2, <1>3, <2>1, BusInv
<1>6. QED
    BY <1>4, <1>5

\* and ends, above all calls;
LEMMA BusEndInv == ASSUME IInv, FInv, BusEnd PROVE FInv'
<1>1. BusRuns /\ EndPublish /\ UNCHANGED fsmVars
    BY DEF BusEnd
<1>2. /\ list' = list /\ sigOf' = sigOf
      /\ Len(stack) \in Nat /\ Len(stack') \in Nat /\ Len(stack') = Len(stack) - 1
      /\ \A k \in 1..Len(stack') : k \in 1..Len(stack) /\ stack'[k] = stack[k]
    BY <1>1, EndEffect
<1>3. calls \in Seq(Call) /\ Levels(calls, Len(stack))
    BY DEF FInv
<1>4. \A i \in 1..Len(calls) : calls[i].level < Len(stack) /\ calls[i].level \in Nat
    BY <1>1, <1>2, <1>3, LevelsBelow, CallFacts, FsmSubFacts DEF BusRuns
<1>5. Levels(calls, Len(stack'))
    BY <1>2, <1>3, <1>4 DEF Levels
<1>6. QED
    BY <1>1, <1>2, <1>5, BusInv

\* other subscribers come
LEMMA OtherSubscribeInv ==
    ASSUME IInv, FInv, NEW s \in Sub, NEW g \in Sig, OtherSubscribe(s, g) PROVE FInv'
<1>1. s \notin FsmNodes /\ Subscribe(s, g) /\ UNCHANGED fsmVars
    BY DEF OtherSubscribe
<1>2. /\ Linked(list') = Linked(list) \cup {s}
      /\ \A t \in Sub : t # s => sigOf'[t] = sigOf[t]
      /\ Len(stack') = Len(stack) /\ \A k \in 1..Len(stack) : stack'[k].sig = stack[k].sig
    BY <1>1, SubscribeEffect DEF SameSigs
<1>3. Own(list') = Own(list) /\ \A t \in Own(list) : sigOf'[t] = sigOf[t]
    BY <1>1, <1>2, OwnFacts, FsmSubFacts
<1>4. Levels(calls, Len(stack'))
    BY <1>2 DEF FInv
<1>5. QED
    BY <1>1, <1>2, <1>3, <1>4, BusInv

\* and go.
LEMMA OtherUnsubscribeInv ==
    ASSUME IInv, FInv, NEW s \in Sub, OtherUnsubscribe(s) PROVE FInv'
<1>1. s \notin FsmNodes /\ Unsubscribe(s) /\ UNCHANGED fsmVars
    BY DEF OtherUnsubscribe
<1>2. /\ Linked(list') = Linked(list) \ {s} /\ sigOf' = sigOf
      /\ Len(stack') = Len(stack) /\ \A k \in 1..Len(stack) : stack'[k].sig = stack[k].sig
    BY <1>1, UnsubscribeEffect DEF SameSigs
<1>3. Own(list') = Own(list)
    BY <1>1, <1>2, OwnFacts
<1>4. Levels(calls, Len(stack'))
    BY <1>2 DEF FInv
<1>5. QED
    BY <1>1, <1>2, <1>3, <1>4, BusInv

----------------------------------------------------------------------------
\* The steps of the engine

\* A call begins,
LEMMA PushFacts ==
    ASSUME IInv, FInv, NEW w \in {"event", "exit", "count", "drop"}, NEW t \in State \cup {NoState},
           NEW n \in 1..(MaxSubs + 1), Push(w, t, n),
           w \in Changing => ~Subscribing,
           w # "drop" => ~InWindow
    PROVE  LET x == [what |-> w, state |-> t, i |-> n, level |-> Len(stack)] IN
           /\ calls' = Append(calls, x) /\ x \in Call
           /\ calls' \in Seq(Call) /\ Levels(calls', Len(stack)) /\ Alone(calls')
           /\ \A i \in 1..Len(calls) : calls'[i] = calls[i] /\ i \in 1..Len(calls')
           /\ \A i \in 1..Len(calls') :
                 (i \in 1..Len(calls) /\ calls'[i] = calls[i]) \/ calls'[i] = x
           /\ \E i \in 1..Len(calls') : calls'[i] = x
<1> DEFINE x == [what |-> w, state |-> t, i |-> n, level |-> Len(stack)]
<1>1. /\ calls' = Append(calls, x)
      /\ Len(calls) < IF w \in {"exit", "drop"} THEN MaxCalls + MaxNest ELSE MaxCalls
    BY DEF Push
<1>2. Len(stack) \in 0..MaxNest /\ Len(stack) \in Nat
    BY Depth
<1>3. x \in Call /\ x.what = w /\ x.level = Len(stack)
    BY <1>2 DEF Call
<1> HIDE DEF x
<1>4. calls \in Seq(Call) /\ Len(calls) \in Nat /\ Levels(calls, Len(stack)) /\ Alone(calls)
    BY CallFacts DEF FInv
<1>5. Len(calls) + 1 <= MaxCalls + MaxNest + Len(stack)
    BY <1>1, <1>2, <1>4, FsmSubFacts
<1>6. /\ x.what \in Changing => \A i \in 1..Len(calls) : calls[i].what \notin Changing
      /\ x.what # "drop" => \A i \in 1..Len(calls) : calls[i].what # "enter"
    BY <1>3, TransitFacts
<1>7. Levels(calls', Len(stack)) /\ Alone(calls')
  <2>1. calls' = Append(calls, x) /\ Len(stack) <= Len(stack)
      BY <1>1, <1>2
  <2>2. QED
      BY <1>2, <1>3, <1>4, <1>5, <1>6, <2>1, BegunInv
<1>8. /\ calls' \in Seq(Call)
      /\ \A i \in 1..Len(calls) : calls'[i] = calls[i] /\ i \in 1..Len(calls')
      /\ \A i \in 1..Len(calls') : (i \in 1..Len(calls) /\ calls'[i] = calls[i]) \/ calls'[i] = x
      /\ \E i \in 1..Len(calls') : calls'[i] = x
    BY <1>1, <1>3, <1>4, Begun
<1>9. QED
    BY <1>1, <1>3, <1>7, <1>8 DEF x

\* that drives the machine,
LEMMA DispatchInv == ASSUME Atomic, IInv, FInv, Dispatch PROVE FInv'
<1> DEFINE x == [what |-> "event", state |-> NoState, i |-> 1, level |-> Len(stack)]
<1>1. /\ ~InWindow /\ Push("event", NoState, 1) /\ UNCHANGED <<vars, current, subCount, mark>>
    BY DEF Dispatch, MayDrive
<1>2. list' = list /\ sigOf' = sigOf /\ stack' = stack
    BY <1>1 DEF vars
<1>3. "event" \notin Changing /\ 1 \in 1..(MaxSubs + 1)
    BY FsmSubFacts DEF Changing
<1>4. calls' = Append(calls, x)
    BY <1>1, <1>3, PushFacts
<1>5. Len(stack') \in 0..MaxNest /\ Len(calls) + 1 <= MaxCalls + MaxNest + Len(stack')
  <2>1. Len(calls) < MaxCalls
      BY <1>1 DEF Push
  <2>2. QED
      BY <1>2, <2>1, Depth, FsmSubFacts, CallFacts DEF FInv
<1>6. Len(stack) <= Len(stack')
    BY <1>2, Depth
<1>7. QED
    BY <1>1, <1>2, <1>4, <1>5, <1>6, EventInv

\* or leaves its state, which it is in;
LEMMA TransferInv == ASSUME IInv, FInv, NEW t \in State, Transfer(t) PROVE FInv'
<1> DEFINE x == [what |-> "exit", state |-> t, i |-> 1, level |-> Len(stack)]
<1>1. /\ calls # << >> /\ Last(calls).what \in {"event", "entry"}
      /\ Push("exit", t, 1)
      /\ mark' = [mark EXCEPT !.left = current]
      /\ current' = current /\ subCount' = subCount
      /\ list' = list /\ sigOf' = sigOf /\ stack' = stack
    BY Idle DEF Transfer, Running
<1>2. calls \in Seq(Call) /\ Alone(calls)
    BY DEF FInv
<1>3. \A i \in 1..Len(calls) : calls[i].what # "enter"
  <2>1. \A i \in 1..Len(calls) : i # Len(calls) => calls[i].what # "enter"
      BY <1>1, <1>2, NoTransferBelow
  <2>2. calls[Len(calls)].what # "enter"
      BY <1>1, <1>2, CallFacts
  <2>3. QED
      BY <2>1, <2>2
<1>4. "exit" \notin Changing /\ 1 \in 1..(MaxSubs + 1) /\ ~InWindow
    BY <1>3, FsmSubFacts, TransitFacts DEF Changing
<1>5. /\ calls' \in Seq(Call) /\ Levels(calls', Len(stack)) /\ Alone(calls')
      /\ \A i \in 1..Len(calls) : calls'[i] = calls[i] /\ i \in 1..Len(calls')
      /\ \A i \in 1..Len(calls') : (i \in 1..Len(calls) /\ calls'[i] = calls[i]) \/ calls'[i] = x
      /\ \E i \in 1..Len(calls') : calls'[i] = x
    BY <1>1, <1>4, PushFacts
<1>6. x.what = "exit" /\ x.state = t /\ x.level = Len(stack)
    OBVIOUS
<1> HIDE DEF x
<1>7. \A i \in 1..Len(calls') : calls'[i].what # "enter"
    BY <1>3, <1>5, <1>6
<1>8. Quiet(calls', stack', list', sigOf') /\ Marked(calls', current', mark')
  <2>1. Marked(calls, current, mark) /\ mark \in Mark
      BY DEF FInv
  <2>2. mark.entered = current /\ mark'.entered = mark.entered
      BY <1>1, <1>3, <2>1 DEF Marked, Mark
  <2>3. QED
      BY <1>1, <1>5, <1>6, <1>7, <2>1, <2>2 DEF Quiet, Marked
<1>9. Counted(calls', list', subCount')
  <2>1. Counted(calls, list, subCount) /\ x.what \notin Changing
      BY <1>6 DEF FInv, Changing
  <2>2. QED
      BY <1>1, <1>5, <1>6, <2>1 DEF Counted
<1>10. mark' \in Mark /\ current \in State /\ subCount \in 0..MaxSubs
    BY <1>1 DEF FInv, Mark
<1>11. QED
    BY <1>1, <1>5, <1>8, <1>9, <1>10 DEF FInv

\* A callback returns.
LEMMA CallbackInv ==
    ASSUME IInv, FInv, calls # << >>, Last(calls).what \in {"event", "entry"},
           calls' = Front(calls), UNCHANGED <<vars, current, subCount, mark>>
    PROVE  FInv'
<1>1. /\ list' = list /\ sigOf' = sigOf /\ stack' = stack
      /\ current' = current /\ subCount' = subCount /\ mark' = mark
    BY Idle
<1>2. calls \in Seq(Call) /\ Levels(calls, Len(stack)) /\ Alone(calls) /\ Len(stack) \in Nat
    BY Depth DEF FInv
<1>3. /\ calls' \in Seq(Call)
      /\ \A i \in 1..Len(calls') : i \in 1..Len(calls) /\ calls'[i] = calls[i]
      /\ \A i \in 1..Len(calls) : i = Len(calls) \/ i \in 1..Len(calls')
    BY <1>2, Returned
<1>4. Levels(calls', Len(stack)) /\ Alone(calls')
    BY <1>2, ReturnedInv
<1>5. calls[Len(calls)].what # "enter" /\ calls[Len(calls)].what \notin Changing
    BY <1>2, CallFacts DEF Changing
<1>6. Quiet(calls', stack, list, sigOf)
    BY <1>3 DEF FInv, Quiet
<1>7. Marked(calls', current, mark)
  <2>1. Marked(calls, current, mark)
      BY DEF FInv
  <2>2. QED
      BY <1>3, <1>5, <2>1 DEF Marked
<1>8. Counted(calls', list, subCount)
  <2>1. Counted(calls, list, subCount)
      BY DEF FInv
  <2>2. QED
      BY <1>3, <1>5, <2>1 DEF Counted
<1>9. QED
    BY <1>1, <1>3, <1>4, <1>6, <1>7, <1>8 DEF FInv

\* A transfer goes on: the innermost call has become the one that does w.
LEMMA BecomeFacts ==
    ASSUME IInv, FInv, calls # << >>, Last(calls).what \in Transferring, NEW w \in {"enter", "entry"},
           Become(w)
    PROVE  LET n == Len(calls) IN
           /\ calls' \in Seq(Call) /\ Len(calls') = n /\ n \in 1..n
           /\ calls[n] = Last(calls) /\ calls[n] \in Call
           /\ calls'[n].what = w /\ calls'[n].state = calls[n].state
           /\ calls'[n].level = calls[n].level
           /\ \A i \in 1..n : i # n => calls'[i] = calls[i] /\ calls[i].what # "enter"
           /\ Levels(calls', Len(stack)) /\ Alone(calls')
<1> DEFINE n == Len(calls)
           x == [calls[n] EXCEPT !.what = w]
<1>1. calls \in Seq(Call) /\ Levels(calls, Len(stack)) /\ Alone(calls) /\ Len(stack) \in Nat
    BY Depth DEF FInv
<1>2. n \in 1..n /\ Last(calls) = calls[n] /\ calls[n] \in Call
    BY <1>1, CallFacts
<1>3. x \in Call /\ x.what = w /\ x.state = calls[n].state /\ x.level = calls[n].level
    BY <1>2 DEF Call
<1>4. calls' = [calls EXCEPT ![Len(calls)] = x]
    BY DEF Become
<1> HIDE DEF x
<1>5. /\ calls' \in Seq(Call) /\ Len(calls') = n /\ calls'[n] = x
      /\ \A i \in 1..n : i # n => calls'[i] = calls[i]
    BY <1>1, <1>3, <1>4, GoneOn
<1>6. \A i \in 1..n : i # n => calls[i].what # "enter"
    BY <1>1, NoTransferBelow DEF Transferring
<1>7. x.what \notin Changing /\ Last(calls).what # "drop" /\ x.level = Last(calls).level
    BY <1>2, <1>3 DEF Changing, Transferring
<1>8. Levels(calls', Len(stack)) /\ Alone(calls')
    BY <1>1, <1>3, <1>4, <1>7, GoneOnInv
<1>9. QED
    BY <1>2, <1>3, <1>5, <1>6, <1>8

\* What is said of its count remains.
LEMMA BecomeKeeps ==
    ASSUME IInv, FInv, calls # << >>, Last(calls).what \in Transferring, NEW w \in {"enter", "entry"},
           Become(w)
    PROVE  Counted(calls', list, subCount)
<1> DEFINE n == Len(calls)
<1>1. /\ calls' \in Seq(Call) /\ Len(calls') = n /\ n \in 1..n
      /\ calls[n] = Last(calls)
      /\ calls'[n].what = w
      /\ \A i \in 1..n : i # n => calls'[i] = calls[i]
    BY BecomeFacts
<1>2. Counted(calls, list, subCount)
    BY DEF FInv
<1>3. /\ calls'[n].what # "count" /\ calls'[n].what # "drop"
      /\ calls[n].what \notin Changing
    BY <1>1 DEF Transferring, Changing
<1> HIDE DEF n
<1>4. \A i \in 1..n : calls'[i].what \in {"count", "drop"} => calls'[i] = calls[i]
    BY <1>1, <1>3
<1>5. (\A i \in 1..n : calls'[i].what \notin Changing) =>
          \A i \in 1..n : calls[i].what \notin Changing
    BY <1>1, <1>3
<1>6. n = Len(calls)
    BY DEF n
<1>7. QED
    BY <1>1, <1>2, <1>4, <1>5, <1>6 DEF Counted

\* The target becomes the current state,
LEMMA SwitchInv == ASSUME IInv, FInv, Switch PROVE FInv'
<1> DEFINE n == Len(calls)
<1>1. /\ calls # << >> /\ Last(calls).what = "exit" /\ Last(calls).level = Len(stack)
      /\ Become("enter")
      /\ current' = Last(calls).state /\ subCount' = subCount /\ mark' = mark
      /\ list' = list /\ sigOf' = sigOf /\ stack' = stack
    BY Idle DEF Switch, Running
<1>2. Last(calls).what \in Transferring
    BY <1>1 DEF Transferring
<1>3. /\ calls' \in Seq(Call) /\ Len(calls') = n /\ n \in 1..n /\ calls[n] = Last(calls)
      /\ calls'[n].what = "enter" /\ calls'[n].state = calls[n].state
      /\ calls'[n].level = calls[n].level
      /\ \A i \in 1..n : i # n => calls'[i] = calls[i] /\ calls[i].what # "enter"
      /\ Levels(calls', Len(stack)) /\ Alone(calls')
    BY <1>1, <1>2, BecomeFacts
<1>4. Counted(calls', list, subCount)
    BY <1>1, <1>2, BecomeKeeps
<1>5. \A i \in 1..n : calls'[i].what = "enter" => i = n
    BY <1>3
<1>6. Marked(calls, current, mark)
    BY DEF FInv
<1>7. current' \in State
    BY <1>1, <1>3, <1>6 DEF Marked
<1>8. Marked(calls', current', mark')
    BY <1>1, <1>3, <1>5, <1>6 DEF Marked
<1>9. Quiet(calls', stack, list, sigOf)
  <2>1. \A k \in 1..Len(stack) : ~(Len(stack) < k)
      BY Depth
  <2>2. QED
      BY <1>1, <1>3, <1>5, <2>1 DEF Quiet
<1>10. QED
    BY <1>1, <1>3, <1>4, <1>7, <1>8, <1>9 DEF FInv

\* and is entered.
LEMMA CallEntryInv == ASSUME IInv, FInv, CallEntry PROVE FInv'
<1> DEFINE n == Len(calls)
<1>1. /\ calls # << >> /\ Last(calls).what = "enter" /\ Become("entry")
      /\ mark' = [mark EXCEPT !.entered = Last(calls).state]
      /\ current' = current /\ subCount' = subCount
      /\ list' = list /\ sigOf' = sigOf /\ stack' = stack
    BY Idle DEF CallEntry, Running
<1>2. Last(calls).what \in Transferring
    BY <1>1 DEF Transferring
<1>3. /\ calls' \in Seq(Call) /\ Len(calls') = n /\ n \in 1..n /\ calls[n] = Last(calls)
      /\ calls'[n].what = "entry"
      /\ \A i \in 1..n : i # n => calls'[i] = calls[i] /\ calls[i].what # "enter"
      /\ Levels(calls', Len(stack)) /\ Alone(calls')
    BY <1>1, <1>2, BecomeFacts
<1>4. Counted(calls', list, subCount)
    BY <1>1, <1>2, BecomeKeeps
<1>5. \A i \in 1..n : calls'[i].what # "enter"
    BY <1>3
<1>6. Marked(calls, current, mark) /\ current \in State /\ mark \in Mark
    BY DEF FInv
<1>7. mark'.entered = current /\ mark' \in Mark
  <2>1. calls[n].state = current
      BY <1>1, <1>3, <1>6 DEF Marked
  <2>2. QED
      BY <1>1, <1>3, <1>6, <2>1 DEF Mark
<1>8. Marked(calls', current, mark') /\ Quiet(calls', stack, list, sigOf)
    BY <1>3, <1>5, <1>6, <1>7 DEF Marked, Quiet
<1>9. QED
    BY <1>1, <1>3, <1>4, <1>6, <1>7, <1>8 DEF FInv

----------------------------------------------------------------------------
\* The machine's nodes

\* A node is on the bus and not yet counted,
LEMMA FsmSubscribeInv ==
    ASSUME Atomic, IInv, FInv, NEW g \in Sig, FsmSubscribe(g) PROVE FInv'
<1> DEFINE s == FsmSub[subCount + 1]
           x == [what |-> "count", state |-> NoState, i |-> 1, level |-> Len(stack)]
<1>1. /\ ~Subscribing /\ ~InWindow /\ subCount < MaxSubs
      /\ Subscribe(s, g) /\ Push("count", NoState, 1)
      /\ current' = current /\ subCount' = subCount /\ mark' = mark
    BY DEF FsmSubscribe, MaySubscribe
<1>2. subCount \in Nat /\ subCount + 1 \in 1..MaxSubs /\ s \in FsmNodes /\ s \in Sub
  <2>1. subCount \in 0..MaxSubs
      BY DEF FInv
  <2>2. subCount \in Nat /\ subCount + 1 \in 1..MaxSubs
      BY <1>1, <2>1, FsmSubFacts
  <2>3. QED
      BY <2>2, FsmSubFacts
<1> HIDE DEF s
<1>3. Linked(list') = Linked(list) \cup {s} /\ Len(stack') = Len(stack)
    BY <1>1, <1>2, SubscribeEffect DEF SameSigs
<1>4. /\ 1 \in 1..(MaxSubs + 1) /\ NoState \in State \cup {NoState}
      /\ "count" \in {"event", "exit", "count", "drop"}
    BY FsmSubFacts
<1>5. /\ calls' \in Seq(Call) /\ Levels(calls', Len(stack)) /\ Alone(calls')
      /\ \A i \in 1..Len(calls) : calls'[i] = calls[i] /\ i \in 1..Len(calls')
      /\ \A i \in 1..Len(calls') : (i \in 1..Len(calls) /\ calls'[i] = calls[i]) \/ calls'[i] = x
      /\ \E i \in 1..Len(calls') : calls'[i] = x
    BY <1>1, <1>4, PushFacts
<1>6. x.what = "count"
    OBVIOUS
<1> HIDE DEF x
<1>7. /\ \A i \in 1..Len(calls) : calls[i].what # "enter"
      /\ \A i \in 1..Len(calls) : calls[i].what \notin Changing
    BY <1>1, TransitFacts
<1>8. Quiet(calls', stack', list', sigOf')
    BY <1>5, <1>6, <1>7 DEF Quiet
<1>9. Marked(calls', current, mark)
  <2>1. Marked(calls, current, mark)
      BY DEF FInv
  <2>2. QED
      BY <1>5, <1>6, <2>1 DEF Marked
<1>10. Own(list') = Nodes(1, subCount + 1)
  <2>1. Own(list) = Nodes(1, subCount)
      BY <1>7 DEF FInv, Counted
  <2>2. Own(list') = Own(list) \cup {s}
      BY <1>2, <1>3, OwnFacts
  <2>3. \A i : i \in 1..(subCount + 1) <=> i \in 1..subCount \/ i = subCount + 1
      BY <1>2
  <2>4. QED
      BY <2>1, <2>2, <2>3 DEF Nodes, s
<1>11. Counted(calls', list', subCount)
  <2>1. \A i \in 1..Len(calls') : calls'[i].what \in Changing => calls'[i].what = "count"
      BY <1>5, <1>6, <1>7
  <2>2. \E i \in 1..Len(calls') : calls'[i].what \in Changing
      BY <1>5, <1>6 DEF Changing
  <2>3. QED
      BY <1>1, <1>10, <2>1, <2>2 DEF Counted, Changing
<1>12. QED
    BY <1>1, <1>3, <1>5, <1>8, <1>9, <1>11 DEF FInv

\* until CountNode.
LEMMA CountNodeInv == ASSUME IInv, FInv, CountNode PROVE FInv'
<1> DEFINE n == Len(calls)
<1>1. /\ calls # << >> /\ Last(calls).what = "count"
      /\ subCount' = subCount + 1 /\ calls' = Front(calls)
      /\ list' = list /\ sigOf' = sigOf /\ stack' = stack
      /\ current' = current /\ mark' = mark
    BY Idle DEF CountNode, Running
<1>2. calls \in Seq(Call) /\ Levels(calls, Len(stack)) /\ Alone(calls) /\ Len(stack) \in Nat
    BY Depth DEF FInv
<1>3. /\ calls' \in Seq(Call)
      /\ \A i \in 1..Len(calls') : i \in 1..n /\ i < n /\ calls'[i] = calls[i]
      /\ \A i \in 1..n : i = n \/ i \in 1..Len(calls')
      /\ n \in 1..n /\ n \in Nat /\ calls[n].what = "count"
    BY <1>1, <1>2, Returned, CallFacts
<1>4. Levels(calls', Len(stack)) /\ Alone(calls')
    BY <1>1, <1>2, ReturnedInv
<1>5. Quiet(calls', stack, list, sigOf)
    BY <1>3 DEF FInv, Quiet
<1>6. Marked(calls', current, mark)
  <2>1. Marked(calls, current, mark)
      BY DEF FInv
  <2>2. QED
      BY <1>3, <2>1 DEF Marked
<1>7. subCount + 1 \in 0..MaxSubs /\ Own(list) = Nodes(1, subCount + 1)
  <2>1. Counted(calls, list, subCount) /\ subCount \in 0..MaxSubs
      BY DEF FInv
  <2>2. subCount < MaxSubs /\ Own(list) = Nodes(1, subCount + 1)
      BY <1>3, <2>1 DEF Counted
  <2>3. QED
      BY <2>1, <2>2, FsmSubFacts
<1>8. \A i \in 1..Len(calls') : calls'[i].what \notin Changing
  <2>1. \A i \in 1..Len(calls') : calls[i].what \in Changing => i = n
      BY <1>2, <1>3 DEF Alone, Changing
  <2>2. QED
      BY <1>3, <2>1
<1>9. Counted(calls', list, subCount + 1)
    BY <1>7, <1>8 DEF Counted, Changing
<1>10. QED
    BY <1>1, <1>3, <1>4, <1>5, <1>6, <1>7, <1>9 DEF FInv

\* The nodes go, the first one first,
LEMMA UnsubscribeAllInv ==
    ASSUME Atomic, IInv, FInv, UnsubscribeAll PROVE FInv'
<1> DEFINE x == [what |-> "drop", state |-> NoState, i |-> 1, level |-> Len(stack)]
<1>1. /\ ~Subscribing /\ Push("drop", NoState, 1)
      /\ list' = list /\ sigOf' = sigOf /\ stack' = stack
      /\ current' = current /\ subCount' = subCount /\ mark' = mark
    BY Idle DEF UnsubscribeAll
<1>2. 1 \in 1..(MaxSubs + 1)
    BY FsmSubFacts
<1>3. /\ calls' \in Seq(Call) /\ Levels(calls', Len(stack)) /\ Alone(calls')
      /\ \A i \in 1..Len(calls) : calls'[i] = calls[i] /\ i \in 1..Len(calls')
      /\ \A i \in 1..Len(calls') : (i \in 1..Len(calls) /\ calls'[i] = calls[i]) \/ calls'[i] = x
      /\ \E i \in 1..Len(calls') : calls'[i] = x
    BY <1>1, <1>2, PushFacts
<1>4. x.what = "drop" /\ x.i = 1
    OBVIOUS
<1> HIDE DEF x
<1>5. \A i \in 1..Len(calls) : calls[i].what \notin Changing
    BY <1>1, TransitFacts
<1>6. Quiet(calls', stack, list, sigOf)
  <2>1. Quiet(calls, stack, list, sigOf)
      BY DEF FInv
  <2>2. QED
      BY <1>3, <1>4, <2>1 DEF Quiet
<1>7. Marked(calls', current, mark)
  <2>1. Marked(calls, current, mark)
      BY DEF FInv
  <2>2. QED
      BY <1>3, <1>4, <2>1 DEF Marked
<1>8. Counted(calls', list, subCount)
  <2>1. Own(list) = Nodes(1, subCount) /\ 1 <= subCount + 1
      BY <1>5, FsmSubFacts DEF FInv, Counted
  <2>2. \A i \in 1..Len(calls') : calls'[i].what \in Changing => calls'[i] = x
      BY <1>3, <1>5
  <2>3. \E i \in 1..Len(calls') : calls'[i].what \in Changing
      BY <1>3, <1>4 DEF Changing
  <2>4. QED
      BY <1>4, <2>1, <2>2, <2>3 DEF Counted, Changing
<1>9. QED
    BY <1>1, <1>3, <1>6, <1>7, <1>8 DEF FInv

\* the nodes from a on without the first of them,
LEMMA WithoutFirst ==
    ASSUME NEW n \in 0..MaxSubs, NEW a \in 1..n
    PROVE  Nodes(a, n) \ {FsmSub[a]} = Nodes(a + 1, n)
<1>1. \A i : i \in a..n <=> i = a \/ i \in (a + 1)..n
    BY FsmSubFacts
<1>2. \A i \in (a + 1)..n : i # a /\ i \in 1..MaxSubs
    BY FsmSubFacts
<1>3. a \in 1..MaxSubs
    BY FsmSubFacts
<1>4. \A i \in (a + 1)..n : FsmSub[i] # FsmSub[a]
    BY <1>2, <1>3, FsmSubFacts
<1>5. QED
    BY <1>1, <1>4 DEF Nodes

\* until the count is reset.
LEMMA DropNodeInv == ASSUME IInv, FInv, DropNode PROVE FInv'
<1> DEFINE n == Len(calls)
           a == Last(calls).i
<1>1. /\ calls # << >> /\ Last(calls).what = "drop"
      /\ current' = current /\ mark' = mark
    BY DEF DropNode, Running
<1>2. calls \in Seq(Call) /\ Levels(calls, Len(stack)) /\ Alone(calls) /\ Len(stack) \in Nat
    BY Depth DEF FInv
<1>3. /\ n \in 1..n /\ n \in Nat /\ Last(calls) = calls[n] /\ calls[n] \in Call
      /\ a \in 1..(MaxSubs + 1)
    BY <1>1, <1>2, CallFacts
<1>4. /\ Marked(calls, current, mark) /\ Quiet(calls, stack, list, sigOf)
      /\ Counted(calls, list, subCount) /\ subCount \in 0..MaxSubs /\ subCount \in Nat
    BY FsmSubFacts DEF FInv
<1>5. a <= subCount + 1 /\ Own(list) = Nodes(a, subCount)
    BY <1>1, <1>3, <1>4 DEF Counted
<1>6. \A i \in 1..n : calls[i].what \in Changing => i = n
    BY <1>1, <1>2, <1>3 DEF Alone, Changing
<1>7. ASSUME a <= subCount PROVE FInv'
  <2> DEFINE x == [calls[n] EXCEPT !.i = a + 1]
             s == FsmSub[a]
  <2>0. s \in Subscribed
      BY <1>3, <1>4, <1>5, <1>7, OwnFacts DEF Nodes
  <2>1. /\ Unsubscribe(s) /\ calls' = [calls EXCEPT ![Len(calls)].i = a + 1]
        /\ subCount' = subCount
      BY <1>7, <2>0 DEF DropNode, Drop
  <2>2. /\ a \in 1..subCount /\ a \in 1..MaxSubs /\ a + 1 \in 1..(MaxSubs + 1)
        /\ s \in Sub /\ s \in FsmNodes
    <3>1. a \in 1..subCount /\ a \in 1..MaxSubs /\ a + 1 \in 1..(MaxSubs + 1)
        BY <1>3, <1>4, <1>7, FsmSubFacts
    <3>2. QED
        BY <3>1, FsmSubFacts
  <2> HIDE DEF a
  <2>3. x \in Call /\ x.what = "drop" /\ x.i = a + 1 /\ x.level = calls[n].level
      BY <1>1, <1>3, <2>2 DEF Call
  <2>4. calls' = [calls EXCEPT ![Len(calls)] = x]
      BY <2>1
  <2> HIDE DEF x, s
  <2>5. /\ calls' \in Seq(Call) /\ Len(calls') = n /\ calls'[n] = x
        /\ \A i \in 1..n : i # n => calls'[i] = calls[i]
      BY <1>1, <1>2, <2>3, <2>4, GoneOn
  <2>6. Levels(calls', Len(stack)) /\ Alone(calls')
    <3>1. x.what \in Changing => Last(calls).what \in Changing
        BY <1>1 DEF Changing
    <3>2. QED
        BY <1>1, <1>2, <1>3, <2>3, <2>4, <3>1, GoneOnInv
  <2>7. /\ Linked(list') = Linked(list) \ {s} /\ sigOf' = sigOf
        /\ Len(stack') = Len(stack) /\ \A k \in 1..Len(stack) : stack'[k].sig = stack[k].sig
      BY <2>1, <2>2, UnsubscribeEffect DEF SameSigs
  <2>8. Own(list') = Own(list) \ {s}
      BY <2>7, OwnFacts
  <2>9. \A i \in 1..n : calls'[i].what = calls[i].what /\ calls'[i].level = calls[i].level
                        /\ (i # n => calls'[i] = calls[i])
      BY <1>1, <1>3, <2>3, <2>5
  <2>10. Quiet(calls', stack', list', sigOf')
    <3>1. Quiet(calls, stack', list', sigOf')
        BY <1>4, <2>7, <2>8, QuietStays
    <3>2. QED
        BY <2>5, <2>9, <3>1 DEF Quiet
  <2>11. Marked(calls', current, mark)
    <3>1. \A i \in 1..n : calls'[i].what \in Transferring => calls'[i] = calls[i]
        BY <1>1, <1>3, <2>9 DEF Transferring
    <3>2. QED
        BY <1>4, <2>5, <2>9, <3>1 DEF Marked, Transferring
  <2>12. Counted(calls', list', subCount)
    <3>1. Own(list') = Nodes(a + 1, subCount)
        BY <1>4, <1>5, <2>2, <2>8, WithoutFirst DEF s
    <3>2. a + 1 <= subCount + 1
        BY <1>4, <2>2
    <3>3. \A i \in 1..n : calls'[i].what \in Changing => calls'[i] = x
        BY <1>6, <2>5, <2>9
    <3>4. \E i \in 1..n : calls'[i].what \in Changing
        BY <1>3, <2>3, <2>5 DEF Changing
    <3>5. QED
        BY <2>3, <2>5, <3>1, <3>2, <3>3, <3>4 DEF Counted, Changing
  <2>13. QED
      BY <1>1, <2>1, <2>5, <2>6, <2>7, <2>10, <2>11, <2>12 DEF FInv
<1>8. ASSUME ~(a <= subCount) PROVE FInv'
  <2>1. /\ calls' = Front(calls) /\ subCount' = 0
        /\ list' = list /\ sigOf' = sigOf /\ stack' = stack
      BY <1>8, Idle DEF DropNode
  <2>2. Own(list) = {}
    <3>1. a..subCount = {}
        BY <1>3, <1>4, <1>8
    <3>2. QED
        BY <1>5, <3>1 DEF Nodes
  <2>3. /\ calls' \in Seq(Call)
        /\ \A i \in 1..Len(calls') : i \in 1..n /\ i < n /\ calls'[i] = calls[i]
        /\ \A i \in 1..n : i = n \/ i \in 1..Len(calls')
      BY <1>1, <1>2, <2>1, Returned
  <2>4. Levels(calls', Len(stack)) /\ Alone(calls')
      BY <1>1, <1>2, <2>1, ReturnedInv
  <2>5. Quiet(calls', stack, list, sigOf)
      BY <2>2 DEF Quiet
  <2>6. Marked(calls', current, mark)
    <3>1. calls[n].what # "enter"
        BY <1>1, <1>3
    <3>2. QED
        BY <1>4, <2>3, <3>1 DEF Marked
  <2>7. Counted(calls', list, 0)
    <3>1. \A i \in 1..Len(calls') : calls'[i].what \notin Changing
        BY <1>3, <1>6, <2>3
    <3>2. Nodes(1, 0) = {}
        BY DEF Nodes
    <3>3. QED
        BY <2>2, <3>1, <3>2 DEF Counted, Changing
  <2>8. 0 \in 0..MaxSubs
      BY FsmSubFacts
  <2>9. QED
      BY <1>1, <2>1, <2>3, <2>4, <2>5, <2>6, <2>7, <2>8 DEF FInv
<1>9. QED
    BY <1>7, <1>8

----------------------------------------------------------------------------
\* Every step

\* The machine's steps are steps of the bus, or leave it alone.
LEMMA BusSteps == FInv /\ [FsmNext]_allVars => [Next]_vars
<1> SUFFICES ASSUME FInv, [FsmNext]_allVars PROVE [Next]_vars
    OBVIOUS
<1>1. ASSUME NEW g \in Sig, PublishAny(g) PROVE [Next]_vars
    BY <1>1 DEF PublishAny, Next
<1>2. ASSUME NEW g \in Sig, FsmSubscribe(g) PROVE [Next]_vars
  <2>1. Subscribe(FsmSub[subCount + 1], g) /\ subCount < MaxSubs
      BY <1>2 DEF FsmSubscribe
  <2>2. FsmSub[subCount + 1] \in Sub
    <3>1. subCount + 1 \in 1..MaxSubs
        BY <2>1, FsmSubFacts DEF FInv
    <3>2. QED
        BY <3>1, FsmSubFacts
  <2>3. QED
      BY <2>1, <2>2 DEF Next
<1>3. ASSUME BusNext PROVE [Next]_vars
    BY <1>3 DEF BusNext, Next
<1>4. ASSUME BusEnd PROVE [Next]_vars
    BY <1>4 DEF BusEnd, Next
<1>5. ASSUME NEW s \in Sub, NEW g \in Sig, OtherSubscribe(s, g) PROVE [Next]_vars
    BY <1>5 DEF OtherSubscribe, Next
<1>6. ASSUME NEW s \in Sub, OtherUnsubscribe(s) PROVE [Next]_vars
    BY <1>6 DEF OtherUnsubscribe, Next
<1>7. ASSUME DropNode PROVE [Next]_vars
  <2>1. CASE UNCHANGED vars
      BY <2>1
  <2>2. CASE Unsubscribe(FsmSub[Last(calls).i])
      BY <2>2 DEF Unsubscribe, Subscribed, Next
  <2>3. QED
      BY <1>7, <2>1, <2>2 DEF DropNode, Drop
<1>8. ASSUME \/ Dispatch \/ EventReturns \/ (\E t \in State : Transfer(t)) \/ Switch \/ CallEntry
             \/ EntryReturns \/ CountNode \/ UnsubscribeAll
      PROVE  [Next]_vars
    BY <1>8 DEF Dispatch, EventReturns, Transfer, Switch, CallEntry, EntryReturns, CountNode,
                UnsubscribeAll, vars
<1>9. ASSUME UNCHANGED allVars PROVE [Next]_vars
    BY <1>9 DEF allVars
<1>10. QED
    BY <1>1, <1>2, <1>3, <1>4, <1>5, <1>6, <1>7, <1>8, <1>9 DEF FsmNext

\* The invariant of the bus and that of the machine are kept together.
LEMMA FsmNextInv == Disciplined /\ Atomic /\ IInv /\ FInv /\ [FsmNext]_allVars => IInv' /\ FInv'
<1> SUFFICES ASSUME Disciplined, Atomic, IInv, FInv, [FsmNext]_allVars PROVE IInv' /\ FInv'
    OBVIOUS
<1>1. IInv'
    BY BusSteps, NextInv
<1>2. ASSUME NEW g \in Sig, PublishAny(g) PROVE FInv'
    BY <1>2, PublishAnyInv
<1>3. ASSUME NEW g \in Sig, FsmSubscribe(g) PROVE FInv'
    BY <1>3, FsmSubscribeInv
<1>4. ASSUME BusNext PROVE FInv'
    BY <1>4, BusNextInv
<1>5. ASSUME BusEnd PROVE FInv'
    BY <1>5, BusEndInv
<1>6. ASSUME NEW s \in Sub, NEW g \in Sig, OtherSubscribe(s, g) PROVE FInv'
    BY <1>6, OtherSubscribeInv
<1>7. ASSUME NEW s \in Sub, OtherUnsubscribe(s) PROVE FInv'
    BY <1>7, OtherUnsubscribeInv
<1>8. ASSUME Dispatch PROVE FInv'
    BY <1>8, DispatchInv
<1>9. ASSUME EventReturns PROVE FInv'
    BY <1>9, CallbackInv DEF EventReturns, Running
<1>10. ASSUME NEW t \in State, Transfer(t) PROVE FInv'
    BY <1>10, TransferInv
<1>11. ASSUME Switch PROVE FInv'
    BY <1>11, SwitchInv
<1>12. ASSUME CallEntry PROVE FInv'
    BY <1>12, CallEntryInv
<1>13. ASSUME EntryReturns PROVE FInv'
    BY <1>13, CallbackInv DEF EntryReturns, Running
<1>14. ASSUME CountNode PROVE FInv'
    BY <1>14, CountNodeInv
<1>15. ASSUME UnsubscribeAll PROVE FInv'
    BY <1>15, UnsubscribeAllInv
<1>16. ASSUME DropNode PROVE FInv'
    BY <1>16, DropNodeInv
<1>17. ASSUME UNCHANGED allVars PROVE FInv'
  <2>1. /\ list' = list /\ sigOf' = sigOf /\ stack' = stack
        /\ current' = current /\ subCount' = subCount /\ calls' = calls /\ mark' = mark
      BY <1>17, Idle DEF allVars, fsmVars
  <2>2. QED
      BY <2>1 DEF FInv
<1>18. QED
    BY <1>1, <1>2, <1>3, <1>4, <1>5, <1>6, <1>7, <1>8, <1>9, <1>10, <1>11, <1>12, <1>13, <1>14,
       <1>15, <1>16, <1>17 DEF FsmNext

\* They hold of every reachable state when the application keeps the discipline.
LEMMA FsmInductive == ASSUME Disciplined, Atomic PROVE FsmSpec => [](IInv /\ FInv)
<1>1. FsmInit => IInv /\ FInv
    BY FsmInitInv
<1>2. (IInv /\ FInv) /\ [FsmNext]_allVars => (IInv /\ FInv)'
    BY FsmNextInv
<1>3. QED
    BY <1>1, <1>2, PTL DEF FsmSpec

----------------------------------------------------------------------------
\* The properties

\* To the bus the machine is an application that keeps the discipline: what the theorems of
\* the bus say holds of one with the machine's nodes on it, whatever its callbacks do.
THEOREM MachineUsesTheBus == ASSUME Disciplined, Atomic PROVE FsmSpec => Spec
<1>1. FsmInit => Init
    BY DEF FsmInit
<1>2. FInv /\ [FsmNext]_allVars => [Next]_vars
    BY BusSteps
<1>3. QED
    BY <1>1, <1>2, FsmInductive, PTL DEF FsmSpec, Spec

\* NodesCounted: however callbacks and interrupts publish, subscribe and unsubscribe, a
\* node of the machine is on the bus if and only if it is counted and not removed yet, or
\* about to be counted (Anbo_FSM_Subscribe, Anbo_FSM_UnsubscribeAll); no interrupt calls
\* one of the two in the midst of the other.
THEOREM NodesAreCounted == ASSUME Disciplined, Atomic PROVE FsmSpec => []NodesCounted
<1>1. ASSUME IInv, FInv PROVE NodesCounted
  <2>1. /\ TypeOK /\ current \in State /\ subCount \in 0..MaxSubs /\ calls \in Seq(Call)
        /\ mark \in [entered : State, left : State \cup {NoState}]
      BY <1>1 DEF IInv, FInv, Mark
  <2>2. Len(calls) <= MaxCalls + 2 * MaxNest
    <3>1. Len(stack) \in 0..MaxNest /\ Len(stack) \in Nat /\ Len(calls) \in Nat
        BY <1>1, <2>1, Depth
    <3>2. Levels(calls, Len(stack))
        BY <1>1 DEF FInv
    <3>3. Len(calls) <= MaxCalls + MaxNest + Len(stack)
      <4>1. \A i \in 1..Len(calls) : calls[i].level <= Len(stack)
          BY <3>2 DEF Levels
      <4>2. QED
          BY <2>1, <3>1, <3>2, <4>1, CallsBound
    <3>4. QED
        BY <3>1, <3>3, FsmSubFacts
  <2>3. ASSUME NEW k \in 1..MaxSubs
        PROVE  FsmSub[k] \in Subscribed <=>
                   \/ /\ k <= subCount
                      /\ \A i \in 1..Len(calls) : calls[i].what = "drop" => calls[i].i <= k
                   \/ /\ k = subCount + 1
                      /\ \E i \in 1..Len(calls) : calls[i].what = "count"
    <3>1. /\ Counted(calls, list, subCount) /\ Alone(calls) /\ subCount \in Nat
          /\ \A i \in 1..Len(calls) : calls[i].i \in Nat
        BY <1>1, CallFacts, FsmSubFacts DEF FInv
    <3>2. FsmSub[k] \in Subscribed <=> FsmSub[k] \in Own(list)
        BY OwnFacts, FsmSubFacts
    <3>3. ASSUME NEW a \in Nat \ {0}, NEW b \in Nat, b <= MaxSubs, Own(list) = Nodes(a, b)
          PROVE  FsmSub[k] \in Subscribed <=> a <= k /\ k <= b
      <4>1. \A i \in a..b : i \in 1..MaxSubs
          BY <3>3, FsmSubFacts
      <4>2. FsmSub[k] \in Nodes(a, b) <=> k \in a..b
          BY <4>1, FsmSubFacts DEF Nodes
      <4>3. QED
          BY <3>2, <3>3, <4>2, FsmSubFacts
    <3>4. CASE \E j \in 1..Len(calls) : calls[j].what = "count"
      <4>1. PICK j \in 1..Len(calls) : calls[j].what = "count"
          BY <3>4
      <4>2. \A i \in 1..Len(calls) : calls[i].what # "drop"
          BY <3>1, <4>1 DEF Alone, Changing
      <4>3. subCount < MaxSubs /\ Own(list) = Nodes(1, subCount + 1)
          BY <3>1, <4>1 DEF Counted
      <4> DEFINE one == 1
                 b == subCount + 1
      <4>4. one \in Nat \ {0} /\ b \in Nat /\ b <= MaxSubs /\ Own(list) = Nodes(one, b)
          BY <3>1, <4>3, FsmSubFacts
      <4> HIDE DEF one, b
      <4>5. FsmSub[k] \in Subscribed <=> one <= k /\ k <= b
          BY <3>3, <4>4
      <4>6. FsmSub[k] \in Subscribed <=> k <= subCount + 1
          BY <4>5 DEF one, b
      <4>7. k <= subCount + 1 <=> k <= subCount \/ k = subCount + 1
          BY <3>1
      <4>8. QED
          BY <3>4, <4>2, <4>6, <4>7
    <3>5. CASE \E j \in 1..Len(calls) : calls[j].what = "drop"
      <4>1. PICK j \in 1..Len(calls) : calls[j].what = "drop"
          BY <3>5
      <4>2. \A i \in 1..Len(calls) : calls[i].what # "count" /\ (calls[i].what = "drop" => i = j)
          BY <3>1, <4>1 DEF Alone, Changing
      <4> DEFINE a == calls[j].i
      <4>3. a \in Nat \ {0} /\ subCount <= MaxSubs /\ Own(list) = Nodes(a, subCount)
        <5>1. a \in 1..(MaxSubs + 1) /\ subCount \in 0..MaxSubs
            BY <2>1, CallFacts
        <5>2. QED
            BY <3>1, <4>1, <5>1, FsmSubFacts DEF Counted
      <4> HIDE DEF a
      <4>4. FsmSub[k] \in Subscribed <=> a <= k /\ k <= subCount
          BY <3>1, <3>3, <4>3
      <4>5. (\A i \in 1..Len(calls) : calls[i].what = "drop" => calls[i].i <= k) <=> a <= k
          BY <4>1, <4>2 DEF a
      <4>6. QED
          BY <4>2, <4>4, <4>5
    <3>6. CASE \A i \in 1..Len(calls) : calls[i].what # "count" /\ calls[i].what # "drop"
      <4> DEFINE one == 1
      <4>1. one \in Nat \ {0} /\ subCount <= MaxSubs /\ Own(list) = Nodes(one, subCount)
        <5>1. subCount \in 0..MaxSubs
            BY <2>1
        <5>2. QED
            BY <3>1, <3>6, <5>1, FsmSubFacts DEF Counted, Changing
      <4> HIDE DEF one
      <4>2. FsmSub[k] \in Subscribed <=> one <= k /\ k <= subCount
          BY <3>1, <3>3, <4>1
      <4>3. QED
          BY <3>6, <4>2 DEF one
    <3>7. QED
        BY <3>4, <3>5, <3>6
  <2>4. QED
      BY <2>1, <2>2, <2>3 DEF NodesCounted
<1>2. QED
    BY <1>1, FsmInductive, PTL

\* EnteredIsCurrent: the current state is the one whose on_entry was called last, but for
\* the moment between the two in a transfer, although callbacks and interrupts drive the
\* machine inside each other, also while on_exit runs (Anbo_FSM_Transfer,
\* Anbo_FSM_Dispatch, fsm_ebus_handler).
THEOREM EnteredStateIsCurrent == ASSUME Disciplined, Atomic PROVE FsmSpec => []EnteredIsCurrent
<1>1. ASSUME FInv PROVE EnteredIsCurrent
    BY <1>1, TransitFacts DEF FInv, Marked, EnteredIsCurrent
<1>2. QED
    BY <1>1, FsmInductive, PTL

\* OnlyLiveStateCalled: the bus comes to a node of the machine only while it is
\* subscribed, and calls on_event only of the state whose on_entry has been called last
\* (ebus_dispatch, fsm_ebus_handler, Anbo_FSM_Transfer, Anbo_FSM_UnsubscribeAll).
THEOREM OnlyTheLiveState == ASSUME Disciplined, Atomic PROVE FsmSpec => OnlyLiveStateCalled
<1>1. ASSUME IInv, FInv, [FsmNext]_allVars
      PROVE  [BusNext => LET s == stack'[Len(stack)].at IN
                         /\ s \in Subscribers(Top.sig)
                         /\ s \in FsmNodes => mark.entered = current]_allVars
  <2>1. SUFFICES ASSUME BusNext
                 PROVE  LET s == stack'[Len(stack)].at IN
                        /\ s \in Subscribers(Top.sig)
                        /\ s \in FsmNodes => mark.entered = current
      OBVIOUS
  <2>2. BusRuns /\ CallNext
      BY <2>1 DEF BusNext
  <2>3. stack'[Len(stack)].at \in Subscribers(Top.sig)
      BY <1>1, <2>2, CallNextEffect
  <2>4. ASSUME stack'[Len(stack)].at \in FsmNodes
        PROVE  mark.entered = current
    <3>1. \A i \in 1..Len(calls) : calls[i].what # "enter"
        BY <1>1, <2>2, <2>4, NoneInWindow, TransitFacts
    <3>2. Marked(calls, current, mark)
        BY <1>1 DEF FInv
    <3>3. QED
        BY <3>1, <3>2 DEF Marked
  <2>5. QED
      BY <2>3, <2>4
<1>2. QED
    BY <1>1, FsmInductive, PTL DEF FsmSpec, OnlyLiveStateCalled
=============================================================================
