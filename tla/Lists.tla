-------------------------------- MODULE Lists -----------------------------
(***************************************************************************)
(* The linked lists of tt/llist.c and lua.c: sequences of the addresses of *)
(* their nodes, without the head, which is never freed.                    *)
(***************************************************************************)
EXTENDS Naturals, Sequences, SequencesExt, FiniteSets

\* Where a is in the list.
Position(list, a) == CHOOSE i \in DOMAIN list : list[i] = a

\* How many positions of I there are up to i, and the k-th of them.
UpTo(I, i) == Cardinality({j \in I : j <= i})
Nth(I, k) == CHOOSE i \in I : UpTo(I, i) = k

\* The nodes of the list that are in S, in their order.
Places(list, S) == {i \in DOMAIN list : list[i] \in S}
Only(list, S) ==
    [k \in 1..Cardinality(Places(list, S)) |-> list[Nth(Places(list, S), k)]]

\* deletenode_list()
Without(list, S) == Only(list, Range(list) \ S)
=============================================================================
