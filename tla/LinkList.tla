------------------------------ MODULE LinkList ------------------------------
EXTENDS Integers, FiniteSets
(***************************************************************************)
(* The circular doubly linked lists of source/linklist.h, as operations on *)
(* the two fields of their cells: next and prev are functions from cells   *)
(* to cells, and every operation is the pair of functions it leaves.  A    *)
(* list is a root cell and the cells its next fields reach.                *)
(***************************************************************************)

\* LL_AddNode(root, new): new goes between root->prev and root.
AddedNext(next, prev, root, new) ==
    [next EXCEPT ![new] = root, ![prev[root]] = new]

AddedPrev(prev, root, new) ==
    [prev EXCEPT ![new] = prev[root], ![root] = new]

\* LL_RemoveNode(node): its neighbours are joined, and node points to itself.
RemovedNext(next, prev, node) ==
    [next EXCEPT ![prev[node]] = next[node], ![node] = node]

RemovedPrev(next, prev, node) ==
    [prev EXCEPT ![next[node]] = prev[node], ![node] = node]

\* The members of the list of `root': what a walk along next meets before it
\* is back at the root.  (The least set that holds root and is closed under
\* next; a null link ends the walk.)
Members(next, root, null) ==
    {c \in DOMAIN next \ {root} :
        \A S \in SUBSET DOMAIN next :
            (root \in S /\ \A x \in S : next[x] \in S \cup {null}) => c \in S}

\* The members in the order of the walk.
Walk(next, root, null) ==
    LET n == Cardinality(Members(next, root, null))
        cell[i \in 1..n] == IF i = 1 THEN next[root] ELSE next[cell[i - 1]]
    IN cell

\* The cells that a walk from the root meets if it goes no further than to a cell in S,
\* and the first one in S: the root if there is none, where a search loop comes out.
Met(next, root, null, S) ==
    {c \in DOMAIN next :
        \A T \in SUBSET DOMAIN next :
            (root \in T /\ \A x \in T \ S : next[x] \in T \cup {null}) => c \in T}

FirstIn(next, root, null, S) ==
    LET hits == S \cap Met(next, root, null, S)
    IN IF hits = {} THEN root ELSE CHOOSE c \in hits : TRUE

\* The two fields of the cells in S are inverse to each other and stay in S:
\* what every traversal, in either direction, relies on.
Ring(next, prev, S) ==
    \A x \in S : /\ next[x] \in S /\ prev[next[x]] = x
                 /\ prev[x] \in S /\ next[prev[x]] = x
=============================================================================
