--------------------------- MODULE LinkListProofs ---------------------------
(***************************************************************************)
(* What the operations of linklist.h do to the members of a list and to    *)
(* the ring they form, for lists of any length.                            *)
(***************************************************************************)
EXTENDS LinkList, FiniteSetTheorems, WellFoundedInduction, TLAPS

\* S holds the root, and what the next fields of its cells reach.
Closed(next, root, null, S) ==
    /\ S \subseteq DOMAIN next
    /\ root \in S
    /\ \A x \in S : next[x] \in S \cup {null}

\* Members is the least closed set, without the root.
LEMMA MembersLeast ==
    ASSUME NEW next, NEW root, NEW null, NEW S, Closed(next, root, null, S)
    PROVE  Members(next, root, null) \subseteq S \ {root}
BY DEF Closed, Members

\* Members, with the root, is closed.
LEMMA MembersClosed ==
    ASSUME NEW next, NEW root, NEW null, root \in DOMAIN next,
           \A x \in DOMAIN next : next[x] \in DOMAIN next \cup {null}
    PROVE  Closed(next, root, null, Members(next, root, null) \cup {root})
<1> DEFINE M == Members(next, root, null)
<1>1. M \cup {root} \subseteq DOMAIN next
  BY DEF Members
<1>2. ASSUME NEW x \in M \cup {root}, next[x] # null, next[x] # root
      PROVE  next[x] \in M
  <2>1. next[x] \in DOMAIN next \ {root}
    BY <1>1, <1>2
  <2>2. ASSUME NEW S \in SUBSET DOMAIN next, root \in S,
               \A y \in S : next[y] \in S \cup {null}
        PROVE  next[x] \in S
    <3>1. x \in S
      BY <2>2 DEF Members
    <3>2. QED BY <3>1, <2>2, <1>2
  <2>3. QED BY <2>1, <2>2 DEF Members
<1>3. QED BY <1>1, <1>2 DEF Closed

\* A list has no members if its root points to itself, or nowhere.
LEMMA NoMembers ==
    ASSUME NEW next, NEW root, NEW null, root \in DOMAIN next,
           next[root] \in {root, null}
    PROVE  Members(next, root, null) = {}
<1>1. Closed(next, root, null, {root})
  BY DEF Closed
<1>2. QED BY <1>1, MembersLeast

\* Writing the next field of a cell outside a list does not change its members.
LEMMA MembersOutside ==
    ASSUME NEW next, NEW root, NEW null, root \in DOMAIN next,
           \A x \in DOMAIN next : next[x] \in DOMAIN next \cup {null},
           NEW node, NEW value,
           node \notin Members(next, root, null), node # root
    PROVE  Members([next EXCEPT ![node] = value], root, null)
             = Members(next, root, null)
<1> DEFINE M == Members(next, root, null)
<1> DEFINE g == [next EXCEPT ![node] = value]
<1>1. Closed(next, root, null, M \cup {root})
  BY MembersClosed
<1>2. Members(g, root, null) \subseteq M
  <2>1. Closed(g, root, null, M \cup {root})
    BY <1>1 DEF Closed
  <2>2. QED BY <2>1, MembersLeast
<1>3. M \subseteq Members(g, root, null)
  <2>1. SUFFICES ASSUME NEW S \in SUBSET DOMAIN g, root \in S,
                        \A x \in S : g[x] \in S \cup {null}
                 PROVE  M \subseteq S
    BY <1>1 DEF Members
  <2>2. Closed(next, root, null, S \cap (M \cup {root}))
    BY <1>1, <2>1 DEF Closed
  <2>3. QED BY <2>2, MembersLeast
<1>4. QED BY <1>2, <1>3

\* The third write of LL_AddNode, in front of next[p], makes node a member.
LEMMA MembersAdded ==
    ASSUME NEW next, NEW root, NEW null, root \in DOMAIN next, null \notin DOMAIN next,
           \A x \in DOMAIN next : next[x] \in DOMAIN next \cup {null},
           NEW node \in DOMAIN next,
           node \notin Members(next, root, null), node # root,
           NEW p \in Members(next, root, null) \cup {root},
           next[node] = next[p]
    PROVE  Members([next EXCEPT ![p] = node], root, null)
             = Members(next, root, null) \cup {node}
<1> DEFINE M == Members(next, root, null)
<1> DEFINE g == [next EXCEPT ![p] = node]
<1>1. Closed(next, root, null, M \cup {root})
  BY MembersClosed
<1>2. Members(g, root, null) \subseteq M \cup {node}
  <2>1. Closed(g, root, null, M \cup {root, node})
    BY <1>1 DEF Closed
  <2>2. QED BY <2>1, MembersLeast
<1>3. M \cup {node} \subseteq Members(g, root, null)
  <2>1. SUFFICES ASSUME NEW S \in SUBSET DOMAIN g, root \in S,
                        \A x \in S : g[x] \in S \cup {null}
                 PROVE  M \cup {node} \subseteq S
    BY <1>1 DEF Members, Closed
  <2>2. \A x \in S \cap (M \cup {root}) : next[x] \in S \cup {null}
    <3>1. p \in S => node \in S
      BY <2>1, <1>1 DEF Closed
    <3>2. p \in S => next[p] \in S \cup {null}
      BY <3>1, <2>1, <1>1 DEF Closed
    <3>3. QED BY <3>2, <2>1, <1>1 DEF Closed
  <2>3. Closed(next, root, null, S \cap (M \cup {root}))
    BY <1>1, <2>1, <2>2 DEF Closed
  <2>4. M \cup {root} \subseteq S
    BY <2>1, <2>3, MembersLeast
  <2>5. g[p] = node
    BY <1>1 DEF Closed
  <2>6. QED BY <2>1, <2>4, <2>5
<1>4. QED BY <1>2, <1>3

\* A member of a ring is not its own predecessor: it would not be reached.
LEMMA MembersPrev ==
    ASSUME NEW next, NEW prev, NEW root, NEW null, root \in DOMAIN next,
           \A x \in DOMAIN next : next[x] \in DOMAIN next \cup {null},
           Ring(next, prev, Members(next, root, null) \cup {root}),
           NEW node \in Members(next, root, null)
    PROVE  prev[node] # node
<1> DEFINE L == Members(next, root, null) \cup {root}
<1>1. SUFFICES ASSUME prev[node] = node PROVE FALSE
  OBVIOUS
<1>2. Closed(next, root, null, L)
  BY MembersClosed
<1>3. node # root
  BY DEF Members
<1>4. \A x \in L \ {node} : next[x] # node
  BY <1>1 DEF Ring
<1>5. Closed(next, root, null, L \ {node})
  BY <1>2, <1>3, <1>4 DEF Closed
<1>6. QED BY <1>5, MembersLeast

\* LL_RemoveNode takes one member out of a ring, also if the cell's own next
\* field is written afterwards (TS_Terminate sets it to null).
LEMMA MembersRemoved ==
    ASSUME NEW next, NEW prev, NEW root, NEW null,
           root \in DOMAIN next, null \notin DOMAIN next,
           \A x \in DOMAIN next : next[x] \in DOMAIN next \cup {null},
           Ring(next, prev, Members(next, root, null) \cup {root}),
           NEW node \in Members(next, root, null), NEW value
    PROVE  Members([RemovedNext(next, prev, node) EXCEPT ![node] = value], root, null)
             = Members(next, root, null) \ {node}
<1> DEFINE M == Members(next, root, null)
<1> DEFINE L == M \cup {root}
<1> DEFINE g == [RemovedNext(next, prev, node) EXCEPT ![node] = value]
<1>1. Closed(next, root, null, L)
  BY MembersClosed
<1>2. /\ node # root /\ node \in DOMAIN next /\ DOMAIN g = DOMAIN next
      /\ prev[node] \in L /\ next[node] \in L
      /\ next[prev[node]] = node /\ prev[next[node]] = node
  BY <1>1 DEF Ring, Members, RemovedNext, Closed
<1>3. \A x \in L \ {node} : next[x] = node => x = prev[node]
  BY <1>2 DEF Ring
<1>4. prev[node] # node
  BY MembersPrev
<1>5. next[node] # node
  BY <1>2, <1>4
<1>6. \A x \in DOMAIN next \ {node} : g[x] = IF x = prev[node] THEN next[node] ELSE next[x]
  BY <1>2, <1>4 DEF RemovedNext
<1>7. Members(g, root, null) \subseteq M \ {node}
  <2>1. Closed(g, root, null, L \ {node})
    BY <1>1, <1>2, <1>3, <1>5, <1>6 DEF Closed
  <2>2. QED BY <2>1, MembersLeast
<1>8. M \ {node} \subseteq Members(g, root, null)
  <2>1. SUFFICES ASSUME NEW S \in SUBSET DOMAIN g, root \in S,
                        \A x \in S : g[x] \in S \cup {null}
                 PROVE  M \ {node} \subseteq S
    BY <1>1, <1>2 DEF Members, Closed
  <2>2. CASE prev[node] \in S
    <3>1. Closed(next, root, null, (S \cap L) \cup {node})
      BY <1>1, <1>2, <1>4, <1>6, <2>1, <2>2 DEF Closed
    <3>2. QED BY <3>1, MembersLeast
  <2>3. CASE prev[node] \notin S
    <3>1. Closed(next, root, null, (S \cap L) \ {node})
      BY <1>1, <1>2, <1>3, <1>6, <2>1, <2>3 DEF Closed
    <3>2. QED BY <3>1, MembersLeast
  <2>4. QED BY <2>2, <2>3
<1>9. QED BY <1>7, <1>8

\* LL_AddNode in front of h keeps a ring a ring, with one cell more.
LEMMA RingAdded ==
    ASSUME NEW next, NEW prev, NEW S, S \subseteq DOMAIN next, S \subseteq DOMAIN prev,
           Ring(next, prev, S),
           NEW h \in S, NEW node, node \in DOMAIN next \ S, node \in DOMAIN prev,
           next[node] = h, prev[node] = prev[h]
    PROVE  Ring([next EXCEPT ![prev[h]] = node], [prev EXCEPT ![h] = node],
                S \cup {node})
BY DEF Ring

\* LL_RemoveNode keeps a ring a ring, with one cell less.
LEMMA RingRemoved ==
    ASSUME NEW next, NEW prev, NEW S, S \subseteq DOMAIN next, S \subseteq DOMAIN prev,
           Ring(next, prev, S),
           NEW node \in S, prev[node] # node, NEW value
    PROVE  Ring([RemovedNext(next, prev, node) EXCEPT ![node] = value],
                [RemovedPrev(next, prev, node) EXCEPT ![node] = value],
                S \ {node})
<1> DEFINE n == [RemovedNext(next, prev, node) EXCEPT ![node] = value]
<1> DEFINE p == [RemovedPrev(next, prev, node) EXCEPT ![node] = value]
<1>1. /\ prev[node] \in S \ {node} /\ next[node] \in S \ {node}
      /\ next[prev[node]] = node /\ prev[next[node]] = node
  BY DEF Ring
<1>2. \A x \in S \ {node} : n[x] = IF x = prev[node] THEN next[node] ELSE next[x]
  BY <1>1 DEF RemovedNext
<1>3. \A x \in S \ {node} : p[x] = IF x = next[node] THEN prev[node] ELSE prev[x]
  BY <1>1 DEF RemovedPrev
<1>4. QED BY <1>1, <1>2, <1>3 DEF Ring

\* The search finds a cell of the set, or the root.
LEMMA FirstInOf ==
    ASSUME NEW next, NEW root, NEW null, NEW S
    PROVE  FirstIn(next, root, null, S) \in S \cup {root}
BY DEF FirstIn

\* It finds one if a member of the list is in the set.
LEMMA FirstInMember ==
    ASSUME NEW next, NEW root, NEW null, root \in DOMAIN next,
           \A x \in DOMAIN next : next[x] \in DOMAIN next \cup {null},
           NEW S, S \subseteq Members(next, root, null), S # {}
    PROVE  /\ S \cap Met(next, root, null, S) # {}
           /\ FirstIn(next, root, null, S) \in S
<1> DEFINE B == Met(next, root, null, S)
<1>1. S \cap B # {}
  <2>1. SUFFICES ASSUME S \cap B = {} PROVE FALSE
    OBVIOUS
  <2>2. ASSUME NEW x \in B, next[x] # null PROVE next[x] \in B
    <3>1. x \in DOMAIN next /\ next[x] \in DOMAIN next
      BY <2>2 DEF Met
    <3>2. ASSUME NEW T \in SUBSET DOMAIN next, root \in T,
                 \A y \in T \ S : next[y] \in T \cup {null}
          PROVE  next[x] \in T
      BY <2>1, <2>2, <3>2 DEF Met
    <3>3. QED BY <3>1, <3>2 DEF Met
  <2>3. Closed(next, root, null, B)
    BY <2>2 DEF Closed, Met
  <2>4. QED BY <2>1, <2>3, MembersLeast
<1>2. QED BY <1>1 DEF FirstIn

\* A walk that has come to a member does not come back to it before the root: the cells
\* behind it, and the root, are closed without it.
LEMMA BehindMember ==
    ASSUME NEW next, NEW prev, NEW root, NEW null, root \in DOMAIN next,
           null \notin DOMAIN next,
           \A x \in DOMAIN next : next[x] \in DOMAIN next \cup {null},
           Ring(next, prev, Members(next, root, null) \cup {root}),
           NEW node \in Members(next, root, null)
    PROVE  \E T \in SUBSET (Members(next, root, null) \cup {root}) :
               /\ root \in T /\ next[node] \in T /\ node \notin T
               /\ \A x \in T \ {root} : next[x] \in T
<1> DEFINE L == Members(next, root, null) \cup {root}
<1> DEFINE B == Met(next, root, null, {node})
<1> DEFINE T == (L \ B) \cup {root}
<1>1. node \in B
  BY FirstInMember
<1>2. node # root /\ L \subseteq DOMAIN next
  BY DEF Members
<1>3. root \in B /\ \A x \in B \ {node} : next[x] \in B \cup {null}
  BY DEF Met
<1>4. ASSUME NEW x \in B, x # root
      PROVE  \E y \in B \ {node} : next[y] = x
  <2>1. SUFFICES ASSUME \A y \in B \ {node} : next[y] # x PROVE FALSE
    OBVIOUS
  <2>2. B \ {x} \in SUBSET DOMAIN next
    BY DEF Met
  <2>3. root \in B \ {x} /\ \A y \in (B \ {x}) \ {node} : next[y] \in (B \ {x}) \cup {null}
    BY <1>3, <1>4, <2>1
  <2>4. x \in B \ {x}
    BY <1>4, <2>2, <2>3 DEF Met
  <2> QED BY <2>4
<1>5. B \subseteq L
  <2>1. L \in SUBSET DOMAIN next /\ root \in L /\ \A x \in L \ {node} : next[x] \in L
    BY <1>2 DEF Ring
  <2>2. QED BY <2>1 DEF Met
<1>6. ASSUME NEW x \in L, x = node \/ x \notin B
      PROVE  next[x] \in T
  <2>1. SUFFICES ASSUME next[x] \in B, next[x] # root PROVE FALSE
    BY <1>6 DEF Ring
  <2>2. PICK y \in B \ {node} : next[y] = next[x]
    BY <2>1, <1>4
  <2>3. y = x
    BY <2>2, <1>5, <1>6 DEF Ring
  <2>4. QED BY <2>2, <2>3, <1>6
<1>7. next[node] \in T /\ node \notin T /\ root \in T /\ T \in SUBSET L
  BY <1>1, <1>2, <1>6
<1>8. \A x \in T \ {root} : next[x] \in T
  BY <1>6
<1>9. QED BY <1>7, <1>8

\* Two lists of the same cells: rings both, with no cell in both.
TwoLists(C, null, n, p, r, q, R, Q) ==
    /\ n \in [C -> C] /\ p \in [C -> C] /\ null \notin C
    /\ r \in C /\ q \in C
    /\ R = Members(n, r, null) /\ Q = Members(n, q, null)
    /\ Ring(n, p, R \cup {r}) /\ Ring(n, p, Q \cup {q})
    /\ (R \cup {r}) \cap (Q \cup {q}) = {}

\* Taken the other way round, they are still two lists.
LEMMA TwoListsSwap ==
    ASSUME NEW C, NEW null, NEW n, NEW p, NEW r, NEW q, NEW R, NEW Q
    PROVE  TwoLists(C, null, n, p, r, q, R, Q) <=> TwoLists(C, null, n, p, q, r, Q, R)
BY DEF TwoLists

\* LL_RemoveNode takes a cell out of one and leaves the other alone, whatever is written
\* to the links of the cell then.
LEMMA TwoListsRemove ==
    ASSUME NEW C, NEW null, NEW n, NEW p, NEW r, NEW q, NEW R, NEW Q,
           TwoLists(C, null, n, p, r, q, R, Q), NEW v \in R, NEW a \in C, NEW b \in C
    PROVE  TwoLists(C, null, [RemovedNext(n, p, v) EXCEPT ![v] = a],
                    [RemovedPrev(n, p, v) EXCEPT ![v] = b], r, q, R \ {v}, Q)
<1> DEFINE g == [RemovedNext(n, p, v) EXCEPT ![v] = a]
           h == [RemovedPrev(n, p, v) EXCEPT ![v] = b]
<1>1. /\ n \in [C -> C] /\ p \in [C -> C] /\ null \notin C
      /\ r \in C /\ q \in C /\ DOMAIN n = C
      /\ R = Members(n, r, null) /\ Q = Members(n, q, null)
      /\ Ring(n, p, R \cup {r}) /\ Ring(n, p, Q \cup {q})
      /\ (R \cup {r}) \cap (Q \cup {q}) = {}
      /\ \A x \in DOMAIN n : n[x] \in DOMAIN n \cup {null}
      BY DEF TwoLists
<1>2. R \subseteq C /\ Q \subseteq C /\ v # r /\ v \in C
      BY <1>1 DEF Members
<1>3. p[v] # v
      BY <1>1, MembersPrev
<1>4. p[v] \in R \cup {r} /\ n[v] \in R \cup {r}
      BY <1>1 DEF Ring
<1>5. g \in [C -> C] /\ h \in [C -> C]
      BY <1>1, <1>2 DEF RemovedNext, RemovedPrev
<1>6. Members(g, r, null) = R \ {v}
      BY <1>1, MembersRemoved
<1>7. Members(g, q, null) = Q
  <2>1. g = [[n EXCEPT ![p[v]] = n[v]] EXCEPT ![v] = a]
        BY <1>1, <1>2, <1>3 DEF RemovedNext
  <2>2. p[v] \notin Q /\ p[v] # q /\ v \notin Q /\ v # q
        BY <1>1, <1>4
  <2>3. Members([n EXCEPT ![p[v]] = n[v]], q, null) = Q
    <3>1. /\ q \in DOMAIN n /\ p[v] \notin Members(n, q, null) /\ p[v] # q
          /\ \A x \in DOMAIN n : n[x] \in DOMAIN n \cup {null}
          BY <1>1, <2>2
    <3>2. Members([n EXCEPT ![p[v]] = n[v]], q, null) = Members(n, q, null)
          BY <3>1, MembersOutside
    <3>3. QED
          BY <1>1, <3>2
  <2> DEFINE m == [n EXCEPT ![p[v]] = n[v]]
  <2>4. /\ m \in [C -> C] /\ DOMAIN m = C /\ q \in DOMAIN m
        /\ \A x \in DOMAIN m : m[x] \in DOMAIN m \cup {null}
        /\ Members(m, q, null) = Q
    <3>1. m \in [C -> C]
          BY <1>1, <1>2, <1>4
    <3> HIDE DEF m
    <3>2. m = [n EXCEPT ![p[v]] = n[v]]
          BY DEF m
    <3>3. QED
          BY <1>1, <2>3, <3>1, <3>2
  <2> HIDE DEF m
  <2>5. Members([m EXCEPT ![v] = a], q, null) = Members(m, q, null)
    <3>1. /\ q \in DOMAIN m /\ v \notin Members(m, q, null) /\ v # q
          /\ \A x \in DOMAIN m : m[x] \in DOMAIN m \cup {null}
          BY <2>2, <2>4
    <3>2. QED
          BY <3>1, MembersOutside
  <2>6. QED
        BY <2>1, <2>4, <2>5 DEF m
<1>8. Ring(g, h, (R \ {v}) \cup {r})
  <2>1. DOMAIN p = C /\ R \cup {r} \subseteq C
        BY <1>1, <1>2
  <2>2. Ring([RemovedNext(n, p, v) EXCEPT ![v] = v], [RemovedPrev(n, p, v) EXCEPT ![v] = v],
             (R \cup {r}) \ {v})
        BY <1>1, <1>3, <2>1, RingRemoved
  <2>3. \A x \in (R \cup {r}) \ {v} :
           /\ g[x] = [RemovedNext(n, p, v) EXCEPT ![v] = v][x]
           /\ h[x] = [RemovedPrev(n, p, v) EXCEPT ![v] = v][x]
        BY <1>1, <1>2 DEF RemovedNext, RemovedPrev
  <2>4. (R \cup {r}) \ {v} = (R \ {v}) \cup {r}
        BY <1>2
  <2>5. QED
        BY <2>2, <2>3, <2>4 DEF Ring
<1>9. Ring(g, h, Q \cup {q})
  <2>1. \A x \in Q \cup {q} : g[x] = n[x] /\ h[x] = p[x]
        BY <1>1, <1>2, <1>4 DEF RemovedNext, RemovedPrev
  <2>2. QED
        BY <1>1, <2>1 DEF Ring
<1> QED
    BY <1>1, <1>5, <1>6, <1>7, <1>8, <1>9 DEF TwoLists

\* LL_AddNode puts a cell that is in neither in front of h.
LEMMA TwoListsAdd ==
    ASSUME NEW C, NEW null, NEW n, NEW p, NEW r, NEW q, NEW R, NEW Q,
           TwoLists(C, null, n, p, r, q, R, Q),
           NEW h \in R \cup {r}, NEW v \in C, v \notin R \cup Q \cup {r, q}
    PROVE  TwoLists(C, null, [n EXCEPT ![v] = h, ![p[h]] = v],
                    [p EXCEPT ![v] = p[h], ![h] = v], r, q, R \cup {v}, Q)
<1> DEFINE n0 == [n EXCEPT ![v] = h]
           p0 == [p EXCEPT ![v] = p[h]]
           g == [n0 EXCEPT ![p[h]] = v]
           k == [p0 EXCEPT ![h] = v]
<1>1. /\ n \in [C -> C] /\ p \in [C -> C] /\ null \notin C
      /\ r \in C /\ q \in C
      /\ R = Members(n, r, null) /\ Q = Members(n, q, null)
      /\ Ring(n, p, R \cup {r}) /\ Ring(n, p, Q \cup {q})
      /\ (R \cup {r}) \cap (Q \cup {q}) = {}
      /\ DOMAIN n = C /\ \A x \in DOMAIN n : n[x] \in DOMAIN n \cup {null}
      BY DEF TwoLists
<1>2. R \cup {r} \subseteq C /\ Q \cup {q} \subseteq C /\ h \in C
      BY <1>1 DEF Members
<1>3. p[h] \in R \cup {r} /\ n[p[h]] = h /\ p[h] # v /\ h # v
      BY <1>1 DEF Ring
<1>4. /\ n0 \in [C -> C] /\ p0 \in [C -> C] /\ DOMAIN n0 = C /\ DOMAIN p0 = C
      /\ \A x \in DOMAIN n0 : n0[x] \in DOMAIN n0 \cup {null}
  <2>1. n0 \in [C -> C] /\ p0 \in [C -> C]
        BY <1>1, <1>2, <1>3
  <2> HIDE DEF n0, p0
  <2>2. QED
        BY <2>1
<1>5. Members(n0, r, null) = R /\ Members(n0, q, null) = Q
  <2>1. /\ r \in DOMAIN n /\ v \notin Members(n, r, null) /\ v # r
        /\ q \in DOMAIN n /\ v \notin Members(n, q, null) /\ v # q
        /\ \A x \in DOMAIN n : n[x] \in DOMAIN n \cup {null}
        BY <1>1
  <2>2. Members(n0, r, null) = Members(n, r, null)
        BY <2>1, MembersOutside
  <2>3. Members(n0, q, null) = Members(n, q, null)
        BY <2>1, MembersOutside
  <2>4. QED
        BY <1>1, <2>2, <2>3
<1>6. Ring(n0, p0, R \cup {r}) /\ Ring(n0, p0, Q \cup {q})
  <2>1. \A x \in R \cup {r} \cup Q \cup {q} : n0[x] = n[x] /\ p0[x] = p[x]
        BY <1>1, <1>2
  <2>2. QED
        BY <1>1, <2>1 DEF Ring
<1>7. n0[v] = h /\ p0[v] = p[h] /\ n0[p[h]] = h /\ p0[h] = p[h]
      BY <1>1, <1>2, <1>3
<1>8. [n EXCEPT ![v] = h, ![p[h]] = v] = g /\ [p EXCEPT ![v] = p[h], ![h] = v] = k
      OBVIOUS
<1> HIDE DEF n0, p0
<1>9. g \in [C -> C] /\ k \in [C -> C]
      BY <1>2, <1>3, <1>4
<1>10. Members(g, r, null) = R \cup {v}
  <2>1. /\ r \in DOMAIN n0 /\ null \notin DOMAIN n0 /\ v \in DOMAIN n0
        /\ v \notin Members(n0, r, null) /\ v # r
        /\ p[h] \in Members(n0, r, null) \cup {r} /\ n0[v] = n0[p[h]]
        /\ \A x \in DOMAIN n0 : n0[x] \in DOMAIN n0 \cup {null}
        BY <1>1, <1>3, <1>4, <1>5, <1>7
  <2>2. Members(g, r, null) = Members(n0, r, null) \cup {v}
        BY <2>1, MembersAdded
  <2>3. QED
        BY <1>5, <2>2
<1>11. Members(g, q, null) = Q
  <2>1. /\ q \in DOMAIN n0 /\ p[h] \notin Members(n0, q, null) /\ p[h] # q
        /\ \A x \in DOMAIN n0 : n0[x] \in DOMAIN n0 \cup {null}
        BY <1>1, <1>3, <1>4, <1>5
  <2>2. Members(g, q, null) = Members(n0, q, null)
        BY <2>1, MembersOutside
  <2>3. QED
        BY <1>5, <2>2
<1>12. Ring(g, k, R \cup {v} \cup {r})
  <2>1. Ring([n0 EXCEPT ![p0[h]] = v], [p0 EXCEPT ![h] = v], (R \cup {r}) \cup {v})
        BY <1>2, <1>4, <1>6, <1>7, RingAdded
  <2>2. (R \cup {r}) \cup {v} = R \cup {v} \cup {r}
        OBVIOUS
  <2>3. QED
        BY <2>1, <2>2, <1>7
<1>13. Ring(g, k, Q \cup {q})
  <2>1. \A x \in Q \cup {q} : g[x] = n0[x] /\ k[x] = p0[x]
        BY <1>1, <1>2, <1>3, <1>4
  <2>2. QED
        BY <1>6, <2>1 DEF Ring
<1>14. (R \cup {v} \cup {r}) \cap (Q \cup {q}) = {}
      BY <1>1
<1> QED
    BY <1>1, <1>8, <1>9, <1>10, <1>11, <1>12, <1>13, <1>14 DEF TwoLists

\* Writing the links of a cell that is in neither leaves both alone.
LEMMA TwoListsOutside ==
    ASSUME NEW C, NEW null, NEW n, NEW p, NEW r, NEW q, NEW R, NEW Q,
           TwoLists(C, null, n, p, r, q, R, Q),
           NEW v \in C, v \notin R \cup Q \cup {r, q}, NEW a \in C, NEW b \in C
    PROVE  TwoLists(C, null, [n EXCEPT ![v] = a], [p EXCEPT ![v] = b], r, q, R, Q)
<1>1. /\ n \in [C -> C] /\ p \in [C -> C] /\ null \notin C
      /\ r \in C /\ q \in C
      /\ R = Members(n, r, null) /\ Q = Members(n, q, null)
      /\ Ring(n, p, R \cup {r}) /\ Ring(n, p, Q \cup {q})
      /\ (R \cup {r}) \cap (Q \cup {q}) = {}
      BY DEF TwoLists
<1>2. R \cup {r} \subseteq C /\ Q \cup {q} \subseteq C
      BY <1>1 DEF Members
<1> DEFINE g == [n EXCEPT ![v] = a]
           k == [p EXCEPT ![v] = b]
<1>3. g \in [C -> C] /\ k \in [C -> C]
      BY <1>1
<1>4. Members(g, r, null) = R /\ Members(g, q, null) = Q
  <2>1. /\ r \in DOMAIN n /\ v \notin Members(n, r, null) /\ v # r
        /\ q \in DOMAIN n /\ v \notin Members(n, q, null) /\ v # q
        /\ \A x \in DOMAIN n : n[x] \in DOMAIN n \cup {null}
        BY <1>1
  <2>2. Members(g, r, null) = Members(n, r, null)
        BY <2>1, MembersOutside
  <2>3. Members(g, q, null) = Members(n, q, null)
        BY <2>1, MembersOutside
  <2>4. QED
        BY <1>1, <2>2, <2>3
<1>5. Ring(g, k, R \cup {r}) /\ Ring(g, k, Q \cup {q})
  <2>1. \A x \in R \cup {r} \cup Q \cup {q} : g[x] = n[x] /\ k[x] = p[x]
        BY <1>1, <1>2
  <2>2. QED
        BY <1>1, <2>1 DEF Ring
<1> QED
    BY <1>1, <1>3, <1>4, <1>5 DEF TwoLists

-----------------------------------------------------------------------------
(* The cells of a list, one after the other.                               *)

\* L is the root and what a walk from it meets before it is back, forwards or
\* backwards: the least set with the root that next stays in.
Circle(next, prev, root, null, L) ==
    /\ root \in L /\ L \subseteq DOMAIN next /\ null \notin DOMAIN next
    /\ Ring(next, prev, L)
    /\ \A S \in SUBSET L : root \in S /\ (\A x \in S : next[x] \in S) => L \subseteq S

\* A list that is a ring is a circle.
LEMMA CircleOfMembers ==
    ASSUME NEW next, NEW prev, NEW root, NEW null,
           root \in DOMAIN next, null \notin DOMAIN next,
           \A x \in DOMAIN next : next[x] \in DOMAIN next \cup {null},
           Ring(next, prev, Members(next, root, null) \cup {root})
    PROVE  Circle(next, prev, root, null, Members(next, root, null) \cup {root})
<1> DEFINE L == Members(next, root, null) \cup {root}
<1>1. root \in L /\ L \subseteq DOMAIN next
  BY DEF Members
<1>2. ASSUME NEW S \in SUBSET L, root \in S, \A x \in S : next[x] \in S
      PROVE  L \subseteq S
  <2>1. Closed(next, root, null, S)
    BY <1>1, <1>2 DEF Closed
  <2>2. QED BY <1>2, <2>1, MembersLeast
<1>3. QED BY <1>1, <1>2 DEF Circle

\* A search meets the root, goes on behind what it does not look for,
LEMMA MetGoesOn ==
    ASSUME NEW next, NEW prev, NEW root, NEW null, NEW L,
           Circle(next, prev, root, null, L), NEW S
    PROVE  /\ root \in Met(next, root, null, S)
           /\ Met(next, root, null, S) \subseteq L
           /\ \A x \in Met(next, root, null, S) \ S : next[x] \in Met(next, root, null, S)
<1> DEFINE M == Met(next, root, null, S)
<1>1. root \in M
  BY DEF Circle, Met
<1>2. M \subseteq L
  <2>1. L \in SUBSET DOMAIN next /\ root \in L /\ \A x \in L \ S : next[x] \in L \cup {null}
    BY DEF Circle, Ring
  <2>2. QED BY <2>1 DEF Met
<1>3. ASSUME NEW x \in M \ S PROVE next[x] \in M
  <2>1. next[x] \in DOMAIN next /\ next[x] # null
    BY <1>2 DEF Circle, Ring
  <2>2. ASSUME NEW T \in SUBSET DOMAIN next, root \in T,
               \A y \in T \ S : next[y] \in T \cup {null}
        PROVE  next[x] \in T
    <3>1. x \in T
      BY <2>2 DEF Met
    <3>2. QED BY <2>1, <2>2, <3>1
  <2>3. QED BY <2>1, <2>2 DEF Met
<1>4. QED BY <1>1, <1>2, <1>3

\* and meets nothing else.
LEMMA MetLeast ==
    ASSUME NEW next, NEW prev, NEW root, NEW null, NEW L,
           Circle(next, prev, root, null, L), NEW S,
           NEW T \in SUBSET L, root \in T, \A x \in T \ S : next[x] \in T
    PROVE  Met(next, root, null, S) \subseteq T
<1>1. T \in SUBSET DOMAIN next /\ \A x \in T \ S : next[x] \in T \cup {null}
  BY DEF Circle
<1>2. QED BY <1>1 DEF Met

\* A walk to the root does not begin.
LEMMA MetRoot ==
    ASSUME NEW next, NEW prev, NEW root, NEW null, NEW L,
           Circle(next, prev, root, null, L)
    PROVE  Met(next, root, null, {root}) \subseteq {root}
<1> DEFINE T == {root}
<1>1. T \in SUBSET L /\ root \in T /\ \A x \in T \ {root} : next[x] \in T
  BY DEF Circle
<1> HIDE DEF T
<1>2. Met(next, root, null, {root}) \subseteq T
  BY <1>1, MetLeast
<1>3. QED BY <1>2 DEF T

\* A walk to x that goes on by one cell.
LEMMA MetNext ==
    ASSUME NEW next, NEW prev, NEW root, NEW null, NEW L,
           Circle(next, prev, root, null, L), NEW x \in L, next[x] # root
    PROVE  /\ Met(next, root, null, {next[x]}) \subseteq
                  Met(next, root, null, {x}) \cup {next[x]}
           /\ Met(next, root, null, {x}) \subseteq Met(next, root, null, {next[x]})
           /\ next[x] \notin Met(next, root, null, {x})
<1> DEFINE y == next[x]
           M == Met(next, root, null, {x})
           N == Met(next, root, null, {y})
<1>0. y \in L /\ y # root
  BY DEF Circle, Ring
<1>1. /\ root \in M /\ M \subseteq L /\ (\A z \in M \ {x} : next[z] \in M)
  BY MetGoesOn
<1>2. root \in N /\ N \subseteq L /\ (\A z \in N \ {y} : next[z] \in N)
  BY <1>0, MetGoesOn
<1> HIDE DEF y
<1>3. N \subseteq M \cup {y}
  <2> DEFINE T == M \cup {y}
  <2>1. T \in SUBSET L /\ root \in T /\ \A z \in T \ {y} : next[z] \in T
    BY <1>0, <1>1 DEF y
  <2> HIDE DEF T
  <2>2. N \subseteq T
    BY <2>1, MetLeast
  <2>3. QED BY <2>2 DEF T
<1>4. M \subseteq N \ {y}
  <2> DEFINE T == N \ {y}
  <2>1. T \in SUBSET L /\ root \in T
    BY <1>0, <1>2
  <2>2. ASSUME NEW z \in T \ {x} PROVE next[z] \in T
    <3>1. next[z] # y
      BY <1>2 DEF Circle, Ring, y
    <3>2. QED BY <1>2, <3>1
  <2> HIDE DEF T
  <2>3. M \subseteq T
    BY <2>1, <2>2, MetLeast
  <2>4. QED BY <2>3 DEF T
<1>5. QED BY <1>3, <1>4 DEF y

\* No two cells of a list come one before the other both ways.
LEMMA MetOrdered ==
    ASSUME NEW next, NEW prev, NEW root, NEW null, NEW L,
           Circle(next, prev, root, null, L), NEW u \in L, NEW w \in L,
           u \in Met(next, root, null, {w}), w \in Met(next, root, null, {u})
    PROVE  u = w
<1> DEFINE M(x) == Met(next, root, null, {x})
           T == {x \in L : \A v \in L : v \in M(x) /\ x \in M(v) => x = v}
<1>1. T \in SUBSET L
  OBVIOUS
<1>2. root \in T
  <2>1. root \in L /\ M(root) \subseteq {root}
    BY MetRoot DEF Circle
  <2>2. QED BY <2>1
<1>3. ASSUME NEW x \in T PROVE next[x] \in T
  <2> DEFINE y == next[x]
  <2>1. y \in L /\ x \in L
    BY DEF Circle, Ring
  <2>2. CASE y = root
    BY <1>2, <2>2
  <2>3. ASSUME y # root, NEW v \in L, v \in M(y), y \in M(v), y # v PROVE FALSE
    <3>1. v \in M(x)
      <4>1. x \in L /\ next[x] # root
        BY <2>1, <2>3
      <4>2. Met(next, root, null, {next[x]})
              \subseteq Met(next, root, null, {x}) \cup {next[x]}
        BY <4>1, MetNext
      <4>3. QED BY <2>3, <4>2
    <3>2. root \in M(v) /\ M(v) \subseteq L /\ (\A z \in M(v) \ {v} : next[z] \in M(v))
      BY MetGoesOn
    <3>3. ASSUME x \notin M(v) \/ x = v PROVE FALSE
      <4>1. M(v) \ {y} \in SUBSET L /\ root \in M(v) \ {y}
        BY <2>3, <3>2
      <4>2. ASSUME NEW z \in (M(v) \ {y}) \ {v} PROVE next[z] \in M(v) \ {y}
        <5>1. z # x /\ z \in L
          BY <3>2, <3>3
        <5>2. next[z] # y
          BY <2>1, <5>1 DEF Circle, Ring
        <5>3. QED BY <3>2, <5>2
      <4> DEFINE R == M(v) \ {y}
      <4>3. R \in SUBSET L /\ root \in R /\ \A z \in R \ {v} : next[z] \in R
        BY <4>1, <4>2
      <4>4. y \notin R
        OBVIOUS
      <4> HIDE DEF R
      <4>5. M(v) \subseteq R
        BY <4>3, MetLeast
      <4>6. QED BY <2>3, <4>4, <4>5
    <3>4. x \in M(v) /\ x # v
      BY <3>3
    <3>5. QED BY <3>1, <3>4
  <2>4. QED BY <2>1, <2>2, <2>3
<1>4. L \subseteq T
  <2> HIDE DEF T
  <2>1. QED BY <1>1, <1>2, <1>3 DEF Circle
<1>5. QED BY <1>4

\* So a search can end at one cell only.
LEMMA MetOne ==
    ASSUME NEW next, NEW prev, NEW root, NEW null, NEW L,
           Circle(next, prev, root, null, L), NEW S,
           NEW u \in S \cap Met(next, root, null, S),
           NEW w \in S \cap Met(next, root, null, S)
    PROVE  u = w
<1>1. u \in L /\ w \in L
  BY MetGoesOn
<1>2. ASSUME NEW x \in S, x \in L
      PROVE  Met(next, root, null, S) \subseteq Met(next, root, null, {x})
  <2> DEFINE T == Met(next, root, null, {x})
  <2>1. T \in SUBSET L /\ root \in T /\ \A z \in T \ {x} : next[z] \in T
    BY MetGoesOn
  <2> HIDE DEF T
  <2>2. \A z \in T \ S : next[z] \in T
    BY <1>2, <2>1
  <2>3. Met(next, root, null, S) \subseteq T
    BY <2>1, <2>2, MetLeast
  <2>4. QED BY <2>3 DEF T
<1>3. u \in Met(next, root, null, {w}) /\ w \in Met(next, root, null, {u})
  BY <1>1, <1>2
<1>4. QED BY <1>1, <1>3, MetOrdered

\* Every cell of the list is met by a search for it.
LEMMA MetSelf ==
    ASSUME NEW next, NEW prev, NEW root, NEW null, NEW L,
           Circle(next, prev, root, null, L), NEW x \in L
    PROVE  x \in Met(next, root, null, {x})
<1> DEFINE M == Met(next, root, null, {x})
<1>1. M \in SUBSET L /\ root \in M /\ \A z \in M \ {x} : next[z] \in M
  BY MetGoesOn
<1>2. SUFFICES ASSUME x \notin M PROVE FALSE
  OBVIOUS
<1>3. \A z \in M : next[z] \in M
  BY <1>1, <1>2
<1> HIDE DEF M
<1>4. L \subseteq M
  BY <1>1, <1>3 DEF Circle
<1>5. QED BY <1>2, <1>4

\* A list is the same backwards.
LEMMA CircleBack ==
    ASSUME NEW next, NEW prev, NEW root, NEW null, NEW L,
           Circle(next, prev, root, null, L),
           L \subseteq DOMAIN prev, null \notin DOMAIN prev
    PROVE  Circle(prev, next, root, null, L)
<1>1. Ring(prev, next, L)
  BY DEF Circle, Ring
<1>2. ASSUME NEW D \in SUBSET L, root \in D, \A x \in D : prev[x] \in D
      PROVE  L \subseteq D
  <2> DEFINE M(x) == Met(next, root, null, {x})
             T == {x \in L : x \in D => M(x) \subseteq D}
             l == prev[root]
  <2>1. root \in T
    <3>1. root \in L /\ M(root) \subseteq {root}
      BY MetRoot DEF Circle
    <3>2. QED BY <1>2, <3>1
  <2>2. ASSUME NEW x \in T PROVE next[x] \in T
    <3>1. x \in L /\ next[x] \in L /\ prev[next[x]] = x
      BY DEF Circle, Ring
    <3>2. CASE next[x] = root
      BY <2>1, <3>2
    <3>3. CASE next[x] # root
      <4>1. M(next[x]) \subseteq M(x) \cup {next[x]}
        BY <3>1, <3>3, MetNext
      <4>2. next[x] \in D => x \in D
        BY <1>2, <3>1
      <4>3. QED BY <3>1, <4>1, <4>2
    <3>4. QED BY <3>2, <3>3
  <2>3. L \subseteq T
    <3>1. T \in SUBSET L
      OBVIOUS
    <3> HIDE DEF T
    <3>2. QED BY <2>1, <2>2, <3>1 DEF Circle
  <2>4. l \in L /\ l \in D /\ next[l] = root
    BY <1>2 DEF Circle, Ring
  <2>5. M(l) \subseteq D
    BY <2>3, <2>4
  <2>6. M(l) \in SUBSET L /\ root \in M(l) /\ \A z \in M(l) \ {l} : next[z] \in M(l)
    BY <2>4, MetGoesOn
  <2>7. L \subseteq M(l)
    <3> DEFINE N == M(l)
    <3>1. N \in SUBSET L /\ root \in N /\ \A z \in N : next[z] \in N
      BY <2>4, <2>6
    <3> HIDE DEF N
    <3>2. L \subseteq N
      BY <3>1 DEF Circle
    <3>3. QED BY <3>2 DEF N
  <2>8. QED BY <2>5, <2>7
<1>3. QED BY <1>1, <1>2 DEF Circle

-----------------------------------------------------------------------------
(* Induction, with sets in the place of predicates.                        *)

\* A set of numbers that is not empty has a least one.
LEMMA Smallest ==
    ASSUME NEW T, T \subseteq Nat, T # {}
    PROVE  \E x \in T : \A y \in T : x <= y
<1> DEFINE Z == {0..n : n \in T}
<1>1. Z \subseteq FiniteSubsetsOf(Nat)
  <2>1. \A n \in T : 0..n \subseteq Nat /\ IsFiniteSet(0..n)
    BY FS_Interval
  <2>2. QED BY <2>1 DEF FiniteSubsetsOf
<1>2. Z # {}
  OBVIOUS
<1>3. \E z \in Z : \A w \in Z : ~ (<<w, z>> \in StrictSubsetOrdering(Nat))
  <2> HIDE DEF Z
  <2>1. QED BY <1>1, <1>2, FS_StrictSubsetOrderingWellFounded, WFMin
<1>4. PICK x \in T : \A w \in Z : ~ (<<w, 0..x>> \in StrictSubsetOrdering(Nat))
  BY <1>3
<1>5. ASSUME NEW y \in T PROVE x <= y
  <2>1. SUFFICES ASSUME y < x PROVE FALSE
    OBVIOUS
  <2>2. 0..y \subseteq 0..x /\ 0..y # 0..x
    <3>1. x \in 0..x /\ x \notin 0..y
      BY <2>1
    <3>2. 0..y \subseteq 0..x
      BY <2>1
    <3>3. QED BY <3>1, <3>2
  <2>3. <<0..y, 0..x>> \in StrictSubsetOrdering(Nat)
    BY <2>2 DEF StrictSubsetOrdering
  <2>4. QED BY <1>4, <2>3
<1>6. QED BY <1>5

\* Induction: a set with 0 that goes on with every number has all of them.
LEMMA AllNumbers ==
    ASSUME NEW S, 0 \in S, \A n \in Nat : n \in S => n + 1 \in S
    PROVE  \A n \in Nat : n \in S
<1>1. SUFFICES ASSUME Nat \ S # {} PROVE FALSE
  OBVIOUS
<1>2. PICK x \in Nat \ S : \A y \in Nat \ S : x <= y
  BY <1>1, Smallest
<1>3. x # 0 /\ x - 1 \in Nat /\ x - 1 \in S
  BY <1>2
<1>4. x \in S
  BY <1>3
<1>5. QED BY <1>4

\* ... and so has one with 1 that goes on with every index.
LEMMA AllIndices ==
    ASSUME NEW n \in Nat, NEW S, n > 0 => 1 \in S,
           \A i \in 1..(n - 1) : i \in S => i + 1 \in S
    PROVE  \A i \in 1..n : i \in S
<1> DEFINE T == {k \in Nat : k + 1 \in 1..n => k + 1 \in S}
<1>1. 0 \in T
  OBVIOUS
<1>2. ASSUME NEW k \in Nat, k \in T PROVE k + 1 \in T
  <2>1. CASE k + 1 \in 1..(n - 1)
    BY <1>2, <2>1
  <2>2. CASE k + 1 \notin 1..(n - 1)
    BY <2>2
  <2>3. QED BY <2>1, <2>2
<1>3. \A k \in Nat : k \in T
  <2> HIDE DEF T
  <2>1. QED BY <1>1, <1>2, AllNumbers
<1>4. ASSUME NEW i \in 1..n PROVE i \in S
  <2>1. i - 1 \in Nat /\ (i - 1) + 1 = i
    OBVIOUS
  <2>2. QED BY <1>3, <2>1
<1>5. QED BY <1>4

-----------------------------------------------------------------------------
(* Lists as sequences of cells.                                            *)

\* The list of root, laid out: its n cells c, in their order.
Laid(next, root, null, n, c) ==
    /\ root \in DOMAIN next /\ null \notin DOMAIN next
    /\ n \in Nat /\ c \in [1..n -> DOMAIN next \ {root}]
    /\ \A i, j \in 1..n : c[i] = c[j] => i = j
    /\ n = 0 => next[root] \in {root, null}
    /\ n > 0 => next[root] = c[1] /\ next[c[n]] = root
    /\ \A i \in 1..(n - 1) : next[c[i]] = c[i + 1]

\* Its cells are the members of the list.
LEMMA LaidMembers ==
    ASSUME NEW next, NEW root, NEW null, NEW n, NEW c, Laid(next, root, null, n, c)
    PROVE  Members(next, root, null) = {c[i] : i \in 1..n}
<1> DEFINE M == {c[i] : i \in 1..n}
<1>0. /\ root \in DOMAIN next /\ null \notin DOMAIN next /\ n \in Nat
      /\ \A i \in 1..n : c[i] \in DOMAIN next \ {root}
      /\ n = 0 => next[root] \in {root, null}
      /\ n > 0 => next[root] = c[1] /\ next[c[n]] = root
      /\ \A i \in 1..(n - 1) : next[c[i]] = c[i + 1]
  BY DEF Laid
<1>1. Closed(next, root, null, M \cup {root})
  <2>1. ASSUME NEW i \in 1..n PROVE next[c[i]] \in M \cup {root}
    <3>1. CASE i = n
      BY <1>0, <3>1
    <3>2. CASE i # n
      <4>1. i \in 1..(n - 1) /\ i + 1 \in 1..n
        BY <1>0, <3>2
      <4>2. QED BY <1>0, <4>1
    <3>3. QED BY <3>1, <3>2
  <2>2. next[root] \in M \cup {root, null}
    BY <1>0
  <2>3. QED BY <1>0, <2>1, <2>2 DEF Closed
<1>2. Members(next, root, null) \subseteq M
  <2> HIDE DEF M
  <2>1. QED BY <1>1, MembersLeast
<1>3. ASSUME NEW S \in SUBSET DOMAIN next, root \in S,
             \A x \in S : next[x] \in S \cup {null}
      PROVE  \A i \in 1..n : c[i] \in S
  <2> DEFINE I == {i \in 1..n : c[i] \in S}
  <2>1. n > 0 => 1 \in I
    BY <1>0, <1>3
  <2>2. \A i \in 1..(n - 1) : i \in I => i + 1 \in I
    <3>1. SUFFICES ASSUME NEW i \in 1..(n - 1), i \in I PROVE i + 1 \in I
      OBVIOUS
    <3>2. i + 1 \in 1..n /\ c[i + 1] # null
      BY <1>0
    <3>3. QED BY <1>0, <1>3, <3>1, <3>2
  <2>3. \A i \in 1..n : i \in I
    <3> HIDE DEF I
    <3>1. QED BY <1>0, <2>1, <2>2, AllIndices
  <2>4. QED BY <2>3
<1>4. M \subseteq Members(next, root, null)
  BY <1>0, <1>3 DEF Members
<1>5. QED BY <1>2, <1>4

\* ... as many as they are, and they are what the walk finds.
LEMMA LaidWalk ==
    ASSUME NEW next, NEW root, NEW null, NEW n, NEW c, Laid(next, root, null, n, c)
    PROVE  Walk(next, root, null) = c
<1> DEFINE M == Members(next, root, null)
           W(f) == [i \in 1..n |-> IF i = 1 THEN next[root] ELSE next[f[i - 1]]]
<1>0. /\ n \in Nat /\ c \in [1..n -> DOMAIN next \ {root}]
      /\ \A i, j \in 1..n : c[i] = c[j] => i = j
      /\ n > 0 => next[root] = c[1]
      /\ \A i \in 1..(n - 1) : next[c[i]] = c[i + 1]
  BY DEF Laid
<1>1. Cardinality(M) = n
  <2>1. M = {c[i] : i \in 1..n}
    BY LaidMembers
  <2>2. c \in [1..n -> M] /\ \A x \in M : \E i \in 1..n : c[i] = x
    BY <1>0, <2>1
  <2>3. c \in Bijection(1..n, M)
    BY <1>0, <2>2 DEF Bijection, Injection, Surjection, IsInjective
  <2>4. ExistsBijection(1..n, M)
    BY <2>3 DEF ExistsBijection
  <2>5. QED BY <1>0, <2>4, FS_CountingElements
<1>2. c = W(c)
  <2>1. ASSUME NEW i \in 1..n PROVE c[i] = W(c)[i]
    <3>1. CASE i = 1
      BY <1>0, <3>1
    <3>2. CASE i # 1
      <4>1. i - 1 \in 1..(n - 1) /\ (i - 1) + 1 = i
        BY <1>0, <3>2
      <4>2. QED BY <1>0, <3>2, <4>1
    <3>3. QED BY <3>1, <3>2
  <2>2. QED BY <1>0, <2>1
<1>3. ASSUME NEW f, f = W(f) PROVE f = c
  <2> DEFINE I == {i \in 1..n : f[i] = c[i]}
  <2>1. n > 0 => 1 \in I
    BY <1>0, <1>3
  <2>2. ASSUME NEW i \in 1..(n - 1), i \in I PROVE i + 1 \in I
    <3>1. i + 1 \in 1..n /\ i + 1 # 1 /\ (i + 1) - 1 = i
      BY <1>0
    <3>2. f[i + 1] = next[f[i]]
      BY <1>3, <3>1
    <3>3. QED BY <1>0, <2>2, <3>1, <3>2
  <2>3. \A i \in 1..n : i \in I
    <3> HIDE DEF I
    <3>1. QED BY <1>0, <2>1, <2>2, AllIndices
  <2>4. \A i \in 1..n : f[i] = c[i]
    BY <2>3
  <2>5. f = [i \in 1..n |-> f[i]]
    BY <1>3
  <2>6. QED BY <1>0, <2>4, <2>5
<1>4. (CHOOSE f : f = W(f)) = c
  <2> HIDE DEF W
  <2>1. QED BY <1>2, <1>3
<1>5. QED BY <1>1, <1>4 DEF Walk

\* A row of cells with one more, or one less.
With(n, c, i, node) ==
    [j \in 1..(n + 1) |-> IF j < i THEN c[j] ELSE IF j = i THEN node ELSE c[j - 1]]

Without(n, c, i) == [j \in 1..(n - 1) |-> IF j < i THEN c[j] ELSE c[j + 1]]

\* A cell linked in behind the i - 1st is the ith from then on.
LEMMA LaidAdded ==
    ASSUME NEW next, NEW root, NEW null, NEW n, NEW c, Laid(next, root, null, n, c),
           NEW i \in 1..(n + 1), NEW node \in DOMAIN next \ {root},
           \A j \in 1..n : c[j] # node,
           next[node] = IF i = n + 1 THEN root ELSE c[i],
           NEW p, p = IF i = 1 THEN root ELSE c[i - 1]
    PROVE  Laid([next EXCEPT ![p] = node], root, null, n + 1,
                With(n, c, i, node))
<1> DEFINE g == [next EXCEPT ![p] = node]
           d == [j \in 1..(n + 1) |-> IF j < i THEN c[j] ELSE IF j = i THEN node ELSE c[j - 1]]
<1>0. /\ root \in DOMAIN next /\ null \notin DOMAIN next /\ n \in Nat
      /\ \A j \in 1..n : c[j] \in DOMAIN next \ {root}
      /\ \A j, k \in 1..n : c[j] = c[k] => j = k
      /\ n > 0 => next[root] = c[1] /\ next[c[n]] = root
      /\ \A j \in 1..(n - 1) : next[c[j]] = c[j + 1]
  BY DEF Laid
<1>1. DOMAIN g = DOMAIN next /\ p \in DOMAIN next /\ p # node
  BY <1>0
<1>2. g[p] = node /\ \A x \in DOMAIN next : x # p => g[x] = next[x]
  BY <1>1
<1>3. /\ \A j \in 1..(n + 1) : j < i => d[j] = c[j] /\ j \in 1..n
      /\ d[i] = node
      /\ \A j \in 1..(n + 1) : j > i => d[j] = c[j - 1] /\ j - 1 \in 1..n
  BY <1>0
<1>4. DOMAIN d = 1..(n + 1)
  OBVIOUS
<1> HIDE DEF g, d
<1>5. d \in [1..(n + 1) -> DOMAIN g \ {root}]
  <2>1. ASSUME NEW j \in 1..(n + 1) PROVE d[j] \in DOMAIN g \ {root}
    BY <1>0, <1>1, <1>3
  <2>2. QED BY <1>4, <2>1 DEF d
<1>6. ASSUME NEW j \in 1..(n + 1), NEW k \in 1..(n + 1), d[j] = d[k] PROVE j = k
  <2>1. j \in Int /\ k \in Int /\ i \in Int
    BY <1>0
  <2>2. CASE j < i
    BY <1>0, <1>3, <1>6, <2>1, <2>2
  <2>3. CASE j = i
    BY <1>0, <1>3, <1>6, <2>1, <2>3
  <2>4. CASE j > i
    BY <1>0, <1>3, <1>6, <2>1, <2>4
  <2>5. QED BY <2>1, <2>2, <2>3, <2>4
<1>7. g[root] = d[1]
  <2>1. CASE i = 1
    BY <1>2, <1>3, <2>1
  <2>2. CASE i # 1
    <3>1. n > 0 /\ 1 < i /\ 1 \in 1..(n + 1) /\ i - 1 \in 1..n
      BY <1>0, <2>2
    <3>2. p # root
      BY <1>0, <2>2, <3>1
    <3>3. QED BY <1>0, <1>2, <1>3, <3>1, <3>2
  <2>3. QED BY <2>1, <2>2
<1>8. ASSUME NEW j \in 1..(n + 1)
      PROVE  g[d[j]] = IF j = n + 1 THEN root ELSE d[j + 1]
  <2>0. j \in Int /\ i \in Int
    BY <1>0
  <2>1. CASE j = i
    <3>1. g[d[j]] = next[node]
      BY <1>1, <1>2, <1>3, <2>1
    <3>2. CASE i = n + 1
      BY <2>1, <3>1, <3>2
    <3>3. CASE i # n + 1
      <4>1. j + 1 \in 1..(n + 1) /\ j + 1 > i /\ (j + 1) - 1 = i
        BY <1>0, <2>1, <3>3
      <4>2. d[j + 1] = c[i]
        BY <1>3, <4>1
      <4>3. j # n + 1
        BY <2>1, <3>3
      <4>4. QED BY <2>1, <3>1, <3>3, <4>2, <4>3
    <3>4. QED BY <3>2, <3>3
  <2>2. CASE j = i - 1
    <3>1. j < i /\ d[j] = c[j] /\ p = c[j] /\ j + 1 = i /\ j # n + 1
      BY <1>0, <1>3, <2>0, <2>2
    <3>2. QED BY <1>2, <1>3, <3>1
  <2>3. CASE j < i - 1
    <3>1. /\ j < i /\ j \in 1..n /\ j \in 1..(n - 1) /\ i - 1 \in 1..n
          /\ j + 1 \in 1..(n + 1) /\ j + 1 < i /\ j # n + 1 /\ i # 1
      BY <1>0, <2>0, <2>3
    <3>2. d[j] = c[j] /\ p = c[i - 1] /\ c[j] # p
      BY <1>0, <1>3, <2>3, <3>1
    <3>3. g[d[j]] = next[c[j]]
      BY <1>0, <1>2, <3>1, <3>2
    <3>4. d[j + 1] = c[j + 1]
      BY <1>3, <3>1
    <3>5. QED BY <1>0, <3>1, <3>3, <3>4
  <2>4. CASE j > i
    <3>1. d[j] = c[j - 1] /\ j - 1 \in 1..n
      BY <1>3, <2>4
    <3>2. c[j - 1] # p
      <4>1. CASE i = 1
        BY <1>0, <3>1, <4>1
      <4>2. CASE i # 1
        <5>1. i - 1 \in 1..n /\ i - 1 # j - 1
          BY <1>0, <2>0, <2>4, <4>2
        <5>2. QED BY <1>0, <3>1, <4>2, <5>1
      <4>3. QED BY <4>1, <4>2
    <3>3. g[d[j]] = next[c[j - 1]]
      BY <1>0, <1>2, <3>1, <3>2
    <3>4. CASE j = n + 1
      BY <1>0, <3>1, <3>3, <3>4
    <3>5. CASE j # n + 1
      <4>1. /\ j - 1 \in 1..(n - 1) /\ j + 1 \in 1..(n + 1)
            /\ j + 1 > i /\ (j + 1) - 1 = (j - 1) + 1
        BY <1>0, <2>0, <2>4, <3>5
      <4>2. d[j + 1] = c[(j - 1) + 1]
        BY <1>3, <4>1
      <4>3. QED BY <1>0, <3>3, <3>5, <4>1, <4>2
    <3>6. QED BY <3>4, <3>5
  <2>5. QED BY <2>0, <2>1, <2>2, <2>3, <2>4
<1>9. \A j \in 1..((n + 1) - 1) : j \in 1..(n + 1) /\ j # n + 1
  BY <1>0
<1>10. Laid(g, root, null, n + 1, d)
  BY <1>0, <1>1, <1>5, <1>6, <1>7, <1>8, <1>9 DEF Laid
<1>11. QED BY <1>10 DEF g, d, With

\* When LL_RemoveNode takes out the ith, those behind it move up.
LEMMA LaidRemoved ==
    ASSUME NEW next, NEW prev, NEW root, NEW null, NEW n, NEW c,
           Laid(next, root, null, n, c),
           NEW i \in 1..n, NEW value,
           prev[c[i]] = IF i = 1 THEN root ELSE c[i - 1]
    PROVE  Laid([RemovedNext(next, prev, c[i]) EXCEPT ![c[i]] = value], root, null, n - 1,
                Without(n, c, i))
<1> DEFINE g == [RemovedNext(next, prev, c[i]) EXCEPT ![c[i]] = value]
           d == [j \in 1..(n - 1) |-> IF j < i THEN c[j] ELSE c[j + 1]]
           p == IF i = 1 THEN root ELSE c[i - 1]
<1>0. /\ root \in DOMAIN next /\ null \notin DOMAIN next /\ n \in Nat /\ n > 0
      /\ \A j \in 1..n : c[j] \in DOMAIN next \ {root}
      /\ \A j, k \in 1..n : c[j] = c[k] => j = k
      /\ next[root] = c[1] /\ next[c[n]] = root
      /\ \A j \in 1..(n - 1) : next[c[j]] = c[j + 1]
  BY DEF Laid
<1>1. p \in DOMAIN next /\ p # c[i] /\ prev[c[i]] = p
  BY <1>0
<1>2. /\ DOMAIN g = DOMAIN next /\ g[p] = next[c[i]]
      /\ \A x \in DOMAIN next \ {p, c[i]} : g[x] = next[x]
  BY <1>0, <1>1 DEF RemovedNext
<1>3. /\ DOMAIN d = 1..(n - 1)
      /\ \A j \in 1..(n - 1) : j < i => d[j] = c[j]
      /\ \A j \in 1..(n - 1) : j >= i => d[j] = c[j + 1]
      /\ \A j \in 1..(n - 1) : j \in 1..n /\ j + 1 \in 1..n
  BY <1>0
<1>4. i # 1 => i - 1 \in 1..n /\ p = c[i - 1]
  BY <1>0
<1>5. i = 1 => p = root
  OBVIOUS
<1>6. d \in [1..(n - 1) -> DOMAIN next \ {root}]
  <2>1. ASSUME NEW j \in 1..(n - 1) PROVE d[j] \in DOMAIN next \ {root}
    <3>1. d[j] = c[j] \/ d[j] = c[j + 1]
      BY <1>3
    <3>2. QED BY <1>0, <1>3, <3>1
  <2>2. QED BY <2>1
<1> HIDE DEF g, d, p
<1>7. ASSUME NEW j \in 1..(n - 1), NEW k \in 1..(n - 1), d[j] = d[k] PROVE j = k
  <2> DEFINE from(m) == IF m < i THEN m ELSE m + 1
  <2>1. j \in Int /\ k \in Int /\ i \in Int
    BY <1>0
  <2>2. ASSUME NEW m \in 1..(n - 1) PROVE d[m] = c[from(m)] /\ from(m) \in 1..n
    <3>1. m \in Int /\ m \in 1..n /\ m + 1 \in 1..n
      BY <1>0, <1>3
    <3>2. m < i \/ m >= i
      BY <2>1, <3>1
    <3>3. QED BY <1>3, <2>1, <3>1, <3>2
  <2>3. from(j) = from(k)
    <3>1. c[from(j)] = c[from(k)]
      BY <1>7, <2>2
    <3>2. from(j) \in 1..n /\ from(k) \in 1..n
      BY <2>2
    <3> HIDE DEF from
    <3>3. \A x, y \in 1..n : c[x] = c[y] => x = y
      BY <1>0
    <3>4. QED BY <3>1, <3>2, <3>3
  <2>4. QED BY <2>1, <2>3
<1>8. next[c[i]] = IF i = n THEN root ELSE c[i + 1]
  BY <1>0
<1>9. g[root] = IF n = 1 THEN root ELSE d[1]
  <2>1. CASE i = 1
    <3>1. g[root] = next[c[1]]
      BY <1>2, <1>5, <2>1
    <3>2. CASE n = 1
      BY <1>0, <3>1, <3>2
    <3>3. CASE n # 1
      <4>1. 1 \in 1..(n - 1) /\ d[1] = c[1 + 1]
        BY <1>0, <1>3, <2>1, <3>3
      <4>2. QED BY <1>0, <3>1, <3>3, <4>1
    <3>4. QED BY <3>2, <3>3
  <2>2. CASE i # 1
    <3>1. 1 \in 1..(n - 1) /\ 1 < i /\ n # 1 /\ root # p /\ root # c[i]
      BY <1>0, <1>4, <2>2
    <3>2. d[1] = c[1]
      BY <1>3, <3>1
    <3>3. g[root] = next[root]
      BY <1>0, <1>2, <3>1
    <3>4. QED BY <1>0, <3>1, <3>2, <3>3
  <2>3. QED BY <2>1, <2>2
<1>10. ASSUME NEW j \in 1..(n - 1)
       PROVE  g[d[j]] = IF j = n - 1 THEN root ELSE d[j + 1]
  <2>0. j \in Int /\ i \in Int /\ n \in Int
    BY <1>0
  <2>1. CASE j = i - 1
    <3>1. d[j] = c[j] /\ p = c[j] /\ j + 1 = i /\ i # 1
      BY <1>0, <1>3, <1>4, <2>0, <2>1
    <3>2. g[d[j]] = next[c[i]]
      BY <1>2, <3>1
    <3>3. CASE i = n
      BY <1>8, <2>0, <2>1, <3>2, <3>3
    <3>4. CASE i # n
      <4>1. j + 1 \in 1..(n - 1) /\ j + 1 >= i /\ j # n - 1
        BY <2>0, <2>1, <3>4
      <4>2. d[j + 1] = c[i + 1]
        BY <1>3, <3>1, <4>1
      <4>3. QED BY <1>8, <3>2, <3>4, <4>1, <4>2
    <3>5. QED BY <3>3, <3>4
  <2>2. CASE j < i - 1
    <3>1. /\ j < i /\ i - 1 \in 1..n /\ i - 1 # j /\ i # j /\ i # 1
          /\ j + 1 \in 1..(n - 1) /\ j + 1 < i /\ j # n - 1
      BY <2>0, <2>2
    <3>2. d[j] = c[j] /\ d[j + 1] = c[j + 1]
      BY <1>3, <3>1
    <3>3. c[j] # p /\ c[j] # c[i] /\ c[j] \in DOMAIN next
      BY <1>0, <1>3, <1>4, <3>1
    <3>4. g[c[j]] = next[c[j]]
      BY <1>2, <3>3
    <3>5. QED BY <1>0, <3>1, <3>2, <3>4
  <2>3. CASE j >= i
    <3>1. d[j] = c[j + 1] /\ j + 1 \in 1..n /\ j + 1 # i
      BY <1>3, <2>0, <2>3
    <3>2. c[j + 1] # c[i]
      BY <1>0, <3>1
    <3>3. c[j + 1] # p
      <4>1. CASE i = 1
        BY <1>0, <1>5, <3>1, <4>1
      <4>2. CASE i # 1
        <5>1. i - 1 # j + 1
          BY <2>0, <2>3
        <5>2. QED BY <1>0, <1>4, <3>1, <4>2, <5>1
      <4>3. QED BY <4>1, <4>2
    <3>4. g[d[j]] = next[c[j + 1]]
      BY <1>0, <1>2, <3>1, <3>2, <3>3
    <3>5. CASE j = n - 1
      BY <1>0, <2>0, <3>4, <3>5
    <3>6. CASE j # n - 1
      <4>1. j + 1 \in 1..(n - 1) /\ j + 1 >= i
        BY <2>0, <2>3, <3>6
      <4>2. d[j + 1] = c[(j + 1) + 1]
        BY <1>3, <4>1
      <4>3. next[c[j + 1]] = c[(j + 1) + 1]
        BY <1>0, <4>1
      <4>4. QED BY <3>4, <3>6, <4>2, <4>3
    <3>7. QED BY <3>5, <3>6
  <2>4. QED BY <2>0, <2>1, <2>2, <2>3
<1>11. /\ n - 1 \in Nat /\ (n - 1 > 0 => n # 1 /\ n - 1 \in 1..(n - 1))
       /\ \A j \in 1..((n - 1) - 1) : j \in 1..(n - 1) /\ j # n - 1
  BY <1>0
<1>12. Laid(g, root, null, n - 1, d)
  BY <1>0, <1>2, <1>6, <1>7, <1>9, <1>10, <1>11 DEF Laid
<1>13. QED BY <1>12 DEF g, d, Without

\* A cell that is not in the list is linked to what it may be.
LEMMA LaidOutside ==
    ASSUME NEW next, NEW root, NEW null, NEW n, NEW c, Laid(next, root, null, n, c),
           NEW node, NEW value, node # root, \A j \in 1..n : c[j] # node
    PROVE  Laid([next EXCEPT ![node] = value], root, null, n, c)
<1> DEFINE g == [next EXCEPT ![node] = value]
<1>1. DOMAIN g = DOMAIN next /\ \A x \in DOMAIN next : x # node => g[x] = next[x]
  OBVIOUS
<1>2. g[root] = next[root] /\ \A j \in 1..n : g[c[j]] = next[c[j]]
  BY <1>1 DEF Laid
<1> HIDE DEF g
<1>3. Laid(g, root, null, n, c)
  <2>1. /\ root \in DOMAIN g /\ null \notin DOMAIN g
        /\ n \in Nat /\ c \in [1..n -> DOMAIN g \ {root}]
        /\ \A i, j \in 1..n : c[i] = c[j] => i = j
        /\ n = 0 => g[root] \in {root, null}
    BY <1>1, <1>2 DEF Laid
  <2>2. n > 0 => g[root] = c[1] /\ g[c[n]] = root
    BY <1>2 DEF Laid
  <2>3. \A i \in 1..(n - 1) : g[c[i]] = c[i + 1]
    BY <1>2 DEF Laid
  <2>4. QED BY <2>1, <2>2, <2>3 DEF Laid
<1>4. QED BY <1>3 DEF g

\* In a ring the cell in front of the ith is the i - 1st.
LEMMA LaidPrev ==
    ASSUME NEW next, NEW prev, NEW root, NEW null, NEW n, NEW c,
           Laid(next, root, null, n, c),
           Ring(next, prev, Members(next, root, null) \cup {root}),
           NEW i \in 1..(n + 1)
    PROVE  prev[IF i = n + 1 THEN root ELSE c[i]] = IF i = 1 THEN root ELSE c[i - 1]
<1> DEFINE p == IF i = 1 THEN root ELSE c[i - 1]
<1>0. /\ null \notin DOMAIN next /\ root \in DOMAIN next /\ n \in Nat
      /\ n = 0 => next[root] \in {root, null}
      /\ n > 0 => next[root] = c[1] /\ next[c[n]] = root
      /\ \A j \in 1..(n - 1) : next[c[j]] = c[j + 1]
      /\ \A j \in 1..n : c[j] \in DOMAIN next \ {root}
  BY DEF Laid
<1>1. Members(next, root, null) = {c[j] : j \in 1..n}
  BY LaidMembers
<1>2. i # 1 => i - 1 \in 1..n
  BY <1>0
<1>3. p \in Members(next, root, null) \cup {root}
  BY <1>1, <1>2
<1>4. next[p] = IF i = n + 1 THEN root ELSE c[i]
  <2>1. CASE n = 0
    <3>1. next[root] \in DOMAIN next
      BY <1>0, <1>1, <2>1 DEF Ring
    <3>2. QED BY <1>0, <2>1, <3>1
  <2>2. CASE n > 0 /\ i = 1
    BY <1>0, <2>2
  <2>3. CASE n > 0 /\ i # 1 /\ i = n + 1
    BY <1>0, <2>3
  <2>4. CASE n > 0 /\ i # 1 /\ i # n + 1
    <3>1. i - 1 \in 1..(n - 1) /\ (i - 1) + 1 = i
      BY <1>0, <2>4
    <3>2. QED BY <1>0, <2>4, <3>1
  <2>5. QED BY <1>0, <2>1, <2>2, <2>3, <2>4
<1> HIDE DEF p
<1>5. prev[next[p]] = p
  BY <1>3 DEF Ring
<1>6. QED BY <1>4, <1>5 DEF p
=============================================================================
