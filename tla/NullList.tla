------------------------------- MODULE NullList -----------------------------
(***************************************************************************)
(* The lists of source/ll_man.c.  A list is a head and a tail; its nodes   *)
(* are linked both ways and Null ends it at both sides.  All lists share   *)
(* the nodes, which are in one list at most.                               *)
(*                                                                         *)
(* The lists are a record: `start' and `end' of each list, `next' and      *)
(* `prev' of each node.                                                    *)
(***************************************************************************)
EXTENDS Naturals, FiniteSets, Sequences

CONSTANTS
    Node, List,
    Null         \* not a node

Empty ==
    [start |-> [k \in List |-> Null], end |-> [k \in List |-> Null],
     next |-> [n \in Node |-> Null], prev |-> [n \in Node |-> Null]]

\* LL_AddNode, as LL_AddToHead calls it.
AddToHead(l, k, n) ==
    LET head == l.start[k]
    IN [start |-> [l.start EXCEPT ![k] = n],
        end   |-> IF head = Null THEN [l.end EXCEPT ![k] = n] ELSE l.end,
        next  |-> [l.next EXCEPT ![n] = head],
        prev  |-> IF head = Null THEN [l.prev EXCEPT ![n] = Null]
                  ELSE [l.prev EXCEPT ![n] = Null, ![head] = n]]

\* LL_AddToTail is LL_AddToHead with next and prev, start and end, exchanged.
Mirror(l) == [start |-> l.end, end |-> l.start, next |-> l.prev, prev |-> l.next]

AddToTail(l, k, n) == Mirror(AddToHead(Mirror(l), k, n))

\* (Mutant: the node behind a removed head still points to it.)
RemoveForward(l, k, n) ==
    LET p == l.prev[n]  s == l.next[n]
    IN [start |-> IF p = Null THEN [l.start EXCEPT ![k] = s] ELSE l.start,
        end   |-> IF s = Null THEN [l.end EXCEPT ![k] = p] ELSE l.end,
        next  |-> IF p = Null THEN [l.next EXCEPT ![n] = Null]
                  ELSE [l.next EXCEPT ![p] = s, ![n] = Null],
        prev  |-> IF s = Null \/ p = Null THEN [l.prev EXCEPT ![n] = Null]
                  ELSE [l.prev EXCEPT ![s] = p, ![n] = Null]]

\* LL_RemoveNode.
Remove(l, k, n) ==
    LET p == l.prev[n]  s == l.next[n]
    IN [start |-> IF p = Null THEN [l.start EXCEPT ![k] = s] ELSE l.start,
        end   |-> IF s = Null THEN [l.end EXCEPT ![k] = p] ELSE l.end,
        next  |-> IF p = Null THEN [l.next EXCEPT ![n] = Null]
                  ELSE [l.next EXCEPT ![p] = s, ![n] = Null],
        prev  |-> IF s = Null THEN [l.prev EXCEPT ![n] = Null]
                  ELSE [l.prev EXCEPT ![s] = p, ![n] = Null]]

\* The nodes of a list from its start on: as many as there are, if the links
\* run in a circle.
Nodes(l, k) ==
    LET nth[i \in 1..Cardinality(Node)] ==
            IF i = 1 THEN l.start[k]
            ELSE IF nth[i - 1] = Null THEN Null ELSE l.next[nth[i - 1]]
    IN [i \in 1..Cardinality({j \in DOMAIN nth : nth[j] # Null}) |-> nth[i]]
=============================================================================
