--------------------------- MODULE IntrusiveList ---------------------------
(***************************************************************************)
(* The circular doubly-linked list of kernel/include/anbo_list.h.  A list  *)
(* value holds the next and prev pointers of every node, the sentinel      *)
(* heads included.  A node that is in no list points to itself, and so     *)
(* does the head of an empty list.                                         *)
(***************************************************************************)
EXTENDS Naturals, Sequences, FiniteSets

\* Anbo_List_Init on every node of the set.
Detached(nodes) == [next |-> [n \in nodes |-> n], prev |-> [n \in nodes |-> n]]

\* anbo_list_insert_between: n goes between its neighbours p and x.
InsertBetween(l, n, p, x) ==
    [next |-> [l.next EXCEPT ![n] = x, ![p] = n],
     prev |-> [l.prev EXCEPT ![x] = n, ![n] = p]]

InsertTail(l, head, n) == InsertBetween(l, n, l.prev[head], head)

\* Faulty: the removed node's successor keeps pointing back to it.
Unlink_OneWay(l, n) ==
    [next |-> [l.next EXCEPT ![l.prev[n]] = l.next[n], ![n] = n],
     prev |-> [l.prev EXCEPT ![n] = n]]

\* Anbo_List_Remove: the neighbours close up, the node points to itself.
Unlink(l, n) ==
    [next |-> [l.next EXCEPT ![l.prev[n]] = l.next[n], ![n] = n],
     prev |-> [l.prev EXCEPT ![l.next[n]] = l.prev[n], ![n] = n]]

IsEmptyList(l, head) == l.next[head] = head

\* The nodes met from p on before the head comes round again, at most as many
\* as there are nodes (ANBO_LIST_FOR_EACH).
Following(l, head, p) ==
    LET N == Cardinality(DOMAIN l.next)
        at[i \in 1..N] == IF i = 1 THEN p
                          ELSE IF at[i - 1] = head THEN head ELSE l.next[at[i - 1]]
        met == {i \in 1..N : at[i] # head}
    IN  [i \in 1..Cardinality(met) |-> at[i]]

Chain(l, head) == Following(l, head, l.next[head])

Members(l, head) == {Chain(l, head)[i] : i \in 1..Len(Chain(l, head))}

\* The pointers of all nodes agree with each other in both directions.
Coherent(l) ==
    \A n \in DOMAIN l.next : l.prev[l.next[n]] = n /\ l.next[l.prev[n]] = n
=============================================================================
