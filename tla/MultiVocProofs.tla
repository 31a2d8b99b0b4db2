--------------------------- MODULE MultiVocProofs ---------------------------
(***************************************************************************)
(* Every voice of multivoc.c is in one place, every handle names one sound,*)
(* every sound is called back when it stops, the oldest one of the lowest  *)
(* priority is replaced, and the program is told what is so: for any       *)
(* number of voices, priorities and handles, provided no sound ends        *)
(* between the two writes of LL_Remove that MV_AllocVoice does with        *)
(* interrupts enabled.                                                     *)
(***************************************************************************)
EXTENDS Player, LinkListProofs, FiniteSetTheorems, WellFoundedInduction

\* The two lists of the voices: R plays, Q is free.
Linked(n, p, R, Q) == TwoLists(Cell, Null, n, p, VoiceList, VoicePool, R, Q)

\* The play list with the cell that AllocUnlink1 has cut out of one direction.
Whole == IF mpc = "unlink2" THEN [next EXCEPT ![VoicePool] = voice] ELSE next
Pool  == Members(Whole, VoicePool, Null)

\* The voice the main program alone has.
Hand == IF mpc \in {"unlink3", "number", "play"} THEN {voice} ELSE {}

\* What the fields hold.
DataInv ==
    /\ handle \in [Cell -> Nat] /\ priority \in [Cell -> Nat] /\ left \in [Cell -> Nat]
    /\ lastHandle \in Nat /\ asked \in Nat /\ ret \in {"run", "check", "all", "shutdown"}

\* Nothing runs, and nothing plays, before MV_Init and after MV_Shutdown.
RestInv ==
    installed \/ (mpc = "run" /\ ipc = "idle" /\ card = "off" /\ Playing = {})

\* Every voice is in one place, and both lists are rings.
ListInv ==
    installed =>
        /\ next \in [Cell -> Cell]
        /\ Linked(Whole, prev, Playing, Pool)
        /\ Playing \cup Pool \cup Hand = Voice
        /\ (Playing \cup Pool) \cap Hand = {}

\* What the main program knows of its voice where interrupts are enabled.
ProgramInv ==
    /\ mpc = "stop" => voice \in Voice
    /\ mpc = "first" => Pool # {}
    /\ mpc = "unlink1" => voice \in Pool /\ next[VoicePool] = voice
    /\ mpc = "unlink2" => voice \in Pool /\ next[VoicePool] = next[voice]

\* Where the loop of the interrupt is, and that no sound ends in the rest of its way
\* while the pool is cut.
InterruptInv ==
    ipc = "mix" =>
        /\ mixed \in Playing \cup {VoiceList}
        /\ mpc = "unlink2" =>
               \E T \in SUBSET (Playing \cup {VoiceList}) :
                   /\ VoiceList \in T /\ mixed \in T
                   /\ \A x \in T \ {VoiceList} : next[x] \in T /\ ~LastPage(x)

\* The handle the main program has found is still nobody's.
HandleInv ==
    /\ HandlesAreUnique
    /\ mpc = "play" => \A u \in Playing : handle[u] # handle[voice]

IInv == DataInv /\ RestInv /\ ListInv /\ ProgramInv /\ InterruptInv /\ HandleInv

-----------------------------------------------------------------------------
(* The lists.                                                              *)

\* A set of natural numbers has a least one.
LEMMA LeastNat ==
    ASSUME NEW T \in SUBSET Nat, T # {}
    PROVE  \E x \in T : \A y \in T : x <= y
<1> DEFINE R == {ss \in Nat \X Nat : ss[1] < ss[2]}
<1>1. IsWellFoundedOn(R, Nat)
  BY NatLessThanWellFounded DEF OpToRel
<1>2. PICK x \in T : \A y \in T : ~(<<y, x>> \in R)
  <2> HIDE DEF R
  <2>1. QED BY <1>1, WFMin
<1>3. ASSUME NEW y \in T PROVE x <= y
  <2>1. <<y, x>> \in Nat \X Nat /\ <<y, x>>[1] = y /\ <<y, x>>[2] = x
    OBVIOUS
  <2>2. ~(y < x)
    BY <1>2, <2>1
  <2>3. QED BY <2>2
<1>4. QED BY <1>3

\* What two lists of the voices are.
LEMMA LinkedFacts ==
    ASSUME NEW n, NEW p, NEW R, NEW Q, Linked(n, p, R, Q)
    PROVE  /\ n \in [Cell -> Cell] /\ p \in [Cell -> Cell] /\ Null \notin Cell
           /\ R = Members(n, VoiceList, Null) /\ Q = Members(n, VoicePool, Null)
           /\ Ring(n, p, R \cup {VoiceList}) /\ Ring(n, p, Q \cup {VoicePool})
           /\ R \subseteq Voice /\ Q \subseteq Voice /\ R \cap Q = {}
           /\ VoiceList # VoicePool /\ VoiceList \notin R \cup Q
           /\ VoicePool \notin R \cup Q /\ VoiceList \in Cell /\ VoicePool \in Cell
           /\ (n[VoiceList] \in {VoiceList, Null} => R = {})
           /\ (n[VoicePool] \in {VoicePool, Null} => Q = {})
           /\ n[VoiceList] \in R \cup {VoiceList} /\ n[VoicePool] \in Q \cup {VoicePool}
<1>1. /\ n \in [Cell -> Cell] /\ p \in [Cell -> Cell] /\ Null \notin Cell
      /\ VoiceList \in Cell /\ VoicePool \in Cell
      /\ R = Members(n, VoiceList, Null) /\ Q = Members(n, VoicePool, Null)
      /\ Ring(n, p, R \cup {VoiceList}) /\ Ring(n, p, Q \cup {VoicePool})
      /\ (R \cup {VoiceList}) \cap (Q \cup {VoicePool}) = {}
  BY DEF Linked, TwoLists
<1>2. VoiceList \notin R /\ VoicePool \notin Q /\ R \subseteq Cell /\ Q \subseteq Cell
  BY <1>1 DEF Members
<1>3. n[VoiceList] \in {VoiceList, Null} => R = {}
  BY <1>1, NoMembers
<1>4. n[VoicePool] \in {VoicePool, Null} => Q = {}
  BY <1>1, NoMembers
<1>5. n[VoiceList] \in R \cup {VoiceList} /\ n[VoicePool] \in Q \cup {VoicePool}
  BY <1>1 DEF Ring
<1>6. R \subseteq Voice /\ Q \subseteq Voice
  BY <1>1, <1>2 DEF Cell
<1>7. QED BY <1>1, <1>2, <1>3, <1>4, <1>5, <1>6

\* LL_RemoveNode takes a voice out of the list it is in.
LEMMA RemoveLists ==
    ASSUME NEW n, NEW p, NEW R, NEW Q, Linked(n, p, R, Q),
           NEW v \in R \cup Q, NEW a \in Cell, NEW b \in Cell
    PROVE  Linked([RemovedNext(n, p, v) EXCEPT ![v] = a],
                  [RemovedPrev(n, p, v) EXCEPT ![v] = b], R \ {v}, Q \ {v})
<1>1. R \cap Q = {}
  BY LinkedFacts
<1>2. CASE v \in R
  <2>1. Q \ {v} = Q
    BY <1>1, <1>2
  <2>2. QED BY <1>2, <2>1, TwoListsRemove DEF Linked
<1>3. CASE v \in Q
  <2>1. R \ {v} = R
    BY <1>1, <1>3
  <2>2. TwoLists(Cell, Null, n, p, VoicePool, VoiceList, Q, R)
    BY TwoListsSwap DEF Linked
  <2>3. TwoLists(Cell, Null, [RemovedNext(n, p, v) EXCEPT ![v] = a],
                 [RemovedPrev(n, p, v) EXCEPT ![v] = b], VoicePool, VoiceList, Q \ {v}, R)
    BY <1>3, <2>2, TwoListsRemove
  <2>4. QED BY <2>1, <2>3, TwoListsSwap DEF Linked
<1>4. QED BY <1>2, <1>3

\* The writes to the voice's own links are those of LL_RemoveNode.
LEMMA RemovedSelf ==
    ASSUME NEW n \in [Cell -> Cell], NEW p \in [Cell -> Cell], NEW v \in Cell
    PROVE  /\ [RemovedNext(n, p, v) EXCEPT ![v] = v] = RemovedNext(n, p, v)
           /\ [RemovedPrev(n, p, v) EXCEPT ![v] = v] = RemovedPrev(n, p, v)
BY DEF RemovedNext, RemovedPrev

\* A voice that MV_AllocVoice takes is in neither list then.
LEMMA TakeLists ==
    ASSUME NEW n, NEW p, NEW R, NEW Q, Linked(n, p, R, Q), NEW v \in R \cup Q
    PROVE  Linked(RemovedNext(n, p, v), RemovedPrev(n, p, v), R \ {v}, Q \ {v})
<1>1. n \in [Cell -> Cell] /\ p \in [Cell -> Cell] /\ v \in Cell
  BY LinkedFacts DEF Cell
<1>2. Linked([RemovedNext(n, p, v) EXCEPT ![v] = v],
             [RemovedPrev(n, p, v) EXCEPT ![v] = v], R \ {v}, Q \ {v})
  BY <1>1, RemoveLists
<1>3. QED BY <1>1, <1>2, RemovedSelf

\* MV_StopVoice moves a voice to the end of the pool.
LEMMA StopLists ==
    ASSUME NEW n, NEW p, NEW R, NEW Q, Linked(n, p, R, Q), NEW v \in R \cup Q
    PROVE  LET m == RemovedNext(n, p, v)
               l == RemovedPrev(n, p, v)
           IN  Linked(AddedNext(m, l, VoicePool, v), AddedPrev(l, VoicePool, v),
                      R \ {v}, Q \cup {v})
<1> DEFINE m == RemovedNext(n, p, v)
           l == RemovedPrev(n, p, v)
<1>1. /\ v \in Cell /\ v \notin (Q \ {v}) \cup (R \ {v}) \cup {VoicePool, VoiceList}
      /\ (Q \ {v}) \cup {v} = Q \cup {v}
  <2>1. R \subseteq Voice /\ Q \subseteq Voice
    BY LinkedFacts
  <2>2. QED BY <2>1, ConstantsAssumption DEF Cell
<1>2. TwoLists(Cell, Null, m, l, VoicePool, VoiceList, Q \ {v}, R \ {v})
  BY TakeLists, TwoListsSwap DEF Linked
<1> HIDE DEF m, l
<1>3. TwoLists(Cell, Null, [m EXCEPT ![v] = VoicePool, ![l[VoicePool]] = v],
               [l EXCEPT ![v] = l[VoicePool], ![VoicePool] = v],
               VoicePool, VoiceList, (Q \ {v}) \cup {v}, R \ {v})
  BY <1>1, <1>2, TwoListsAdd
<1>4. Linked(AddedNext(m, l, VoicePool, v), AddedPrev(l, VoicePool, v), R \ {v}, Q \cup {v})
  BY <1>1, <1>3, TwoListsSwap DEF Linked, AddedNext, AddedPrev
<1>5. QED BY <1>4 DEF m, l

\* MV_StopVoice of a playing voice does not move the first free one.
LEMMA StopKeepsFirst ==
    ASSUME NEW n, NEW p, NEW R, NEW Q, Linked(n, p, R, Q), NEW v \in R, Q # {}
    PROVE  AddedNext(RemovedNext(n, p, v), RemovedPrev(n, p, v), VoicePool, v)[VoicePool]
             = n[VoicePool]
<1>1. /\ n \in [Cell -> Cell] /\ p \in [Cell -> Cell] /\ v \in Cell /\ VoicePool \in Cell
      /\ v # VoicePool /\ n[VoicePool] # VoicePool
      /\ Ring(n, p, R \cup {VoiceList}) /\ Ring(n, p, Q \cup {VoicePool})
      /\ (R \cup {VoiceList}) \cap (Q \cup {VoicePool}) = {}
  <2>1. /\ n \in [Cell -> Cell] /\ p \in [Cell -> Cell] /\ VoicePool \in Cell
        /\ R \subseteq Voice /\ Q \subseteq Voice /\ R \cap Q = {}
        /\ VoiceList # VoicePool /\ VoiceList \notin R \cup Q /\ VoicePool \notin R \cup Q
        /\ (n[VoicePool] \in {VoicePool, Null} => Q = {})
        /\ Ring(n, p, R \cup {VoiceList}) /\ Ring(n, p, Q \cup {VoicePool})
    BY LinkedFacts
  <2>2. QED BY <2>1 DEF Cell
<1>2. /\ p[VoicePool] # VoicePool /\ p[VoicePool] \in Cell
      /\ n[v] # VoicePool /\ p[v] # VoicePool
  BY <1>1 DEF Ring
<1>3. RemovedPrev(n, p, v)[VoicePool] = p[VoicePool]
  BY <1>1, <1>2 DEF RemovedPrev
<1>4. /\ RemovedNext(n, p, v)[VoicePool] = n[VoicePool]
      /\ RemovedNext(n, p, v) \in [Cell -> Cell]
  BY <1>1, <1>2 DEF RemovedNext
<1>5. QED BY <1>1, <1>2, <1>3, <1>4 DEF AddedNext

\* MV_PlayVoice puts a voice behind one that plays, or first.
LEMMA PlayLists ==
    ASSUME NEW n, NEW p, NEW R, NEW Q, Linked(n, p, R, Q),
           NEW v \in Voice, v \notin R \cup Q, NEW h \in R \cup {VoiceList}
    PROVE  Linked(AddedPrev(n, h, v), AddedNext(p, n, h, v), R \cup {v}, Q)
<1>1. /\ n \in [Cell -> Cell] /\ p \in [Cell -> Cell] /\ Ring(n, p, R \cup {VoiceList})
      /\ R \subseteq Voice /\ VoiceList \in Cell
  BY LinkedFacts
<1>2. h \in Cell /\ n[h] \in R \cup {VoiceList} /\ p[n[h]] = h
  BY <1>1 DEF Ring, Cell
<1>3. v \in Cell /\ v \notin R \cup Q \cup {VoiceList, VoicePool}
  BY ConstantsAssumption DEF Cell
<1>4. TwoLists(Cell, Null, [n EXCEPT ![v] = n[h], ![p[n[h]]] = v],
               [p EXCEPT ![v] = p[n[h]], ![n[h]] = v],
               VoiceList, VoicePool, R \cup {v}, Q)
  BY <1>2, <1>3, TwoListsAdd DEF Linked
<1>5. QED BY <1>2, <1>4 DEF Linked, AddedNext, AddedPrev

-----------------------------------------------------------------------------
(* The steps.                                                              *)

\* The lists where the pool is not cut.
LEMMA Settled ==
    ASSUME installed, ListInv, mpc # "unlink2"
    PROVE  /\ Linked(next, prev, Playing, Free) /\ Pool = Free
           /\ Playing \cup Free \cup Hand = Voice /\ (Playing \cup Free) \cap Hand = {}
<1>1. Whole = next /\ Pool = Free
  BY DEF Whole, Pool, Free
<1>2. QED BY <1>1 DEF ListInv

\* What a step must leave that does not cut the pool.
LEMMA ToLists ==
    ASSUME NEW R, NEW Q, Linked(next', prev', R, Q), (mpc # "unlink2")',
           R \cup Q \cup Hand' = Voice, (R \cup Q) \cap Hand' = {}
    PROVE  ListInv' /\ Playing' = R /\ Pool' = Q /\ Free' = Q
<1>1. /\ next' \in [Cell -> Cell]
      /\ R = Members(next', VoiceList, Null) /\ Q = Members(next', VoicePool, Null)
  BY LinkedFacts
<1>2. Whole' = next'
  BY DEF Whole
<1>3. Playing' = R /\ Pool' = Q /\ Free' = Q
  BY <1>1, <1>2 DEF Playing, Pool, Free
<1>4. QED BY <1>1, <1>2, <1>3 DEF ListInv

\* A step of the main program that leaves the lists and the handles alone.
LEMMA Calm ==
    ASSUME IInv, ipc = "idle", UNCHANGED <<lists, handle, priority, left, ipc, installed>>,
           installed, mpc # "unlink2", mpc' \notin {"unlink2", "play"}, Hand' = Hand,
           lastHandle' \in Nat, asked' \in Nat,
           ret' \in {"run", "check", "all", "shutdown"}
    PROVE  /\ DataInv' /\ RestInv' /\ ListInv' /\ InterruptInv' /\ HandleInv'
           /\ Playing' = Playing /\ Pool' = Pool
<1>1. /\ Linked(next, prev, Playing, Free) /\ Pool = Free
      /\ Playing \cup Free \cup Hand = Voice /\ (Playing \cup Free) \cap Hand = {}
  BY Settled DEF IInv
<1>2. next' = next /\ prev' = prev /\ handle' = handle
  BY DEF lists
<1>3. ListInv' /\ Playing' = Playing /\ Pool' = Free
  BY <1>1, <1>2, ToLists
<1>4. HandleInv'
  BY <1>2, <1>3 DEF IInv, HandleInv, HandlesAreUnique
<1>5. DataInv' /\ RestInv' /\ InterruptInv'
  BY DEF IInv, DataInv, RestInv, InterruptInv
<1>6. QED BY <1>1, <1>3, <1>4, <1>5

\* What MV_GetVoice finds plays.
LEMMA GetVoicePlays ==
    ASSUME NEW h PROVE GetVoice(h) \in Playing \cup {VoiceList}
<1>1. GetVoice(h) \in {v \in Playing : handle[v] = h} \cup {VoiceList}
  BY FirstInOf DEF GetVoice
<1>2. QED BY <1>1

\* The search of MV_GetVoice finds a voice that plays under the handle, if there is one.
LEMMA GetVoiceFinds ==
    ASSUME IInv, installed, mpc # "unlink2", NEW h, ~VoicePlaying(h)
    PROVE  \A u \in Playing : handle[u] # h
<1> DEFINE S == {v \in Playing : handle[v] = h}
<1>1. /\ Playing = Members(next, VoiceList, Null) /\ VoiceList \notin Playing
      /\ next \in [Cell -> Cell] /\ VoiceList \in Cell
  BY Settled, LinkedFacts DEF IInv
<1>2. SUFFICES ASSUME S # {} PROVE FALSE
  OBVIOUS
<1>3. /\ VoiceList \in DOMAIN next /\ S \subseteq Members(next, VoiceList, Null)
      /\ \A x \in DOMAIN next : next[x] \in DOMAIN next \cup {Null}
  BY <1>1
<1>4. FirstIn(next, VoiceList, Null, S) \in S
  BY <1>2, <1>3, FirstInMember
<1>5. QED BY <1>1, <1>4 DEF VoicePlaying, GetVoice

\* LL_Empty.
LEMMA PoolEmptyMeans ==
    ASSUME IInv, installed, mpc # "unlink2"
    PROVE  PoolEmpty <=> Pool = {}
<1>1. Linked(next, prev, Playing, Free) /\ Pool = Free
  BY Settled DEF IInv
<1>2. /\ Ring(next, prev, Free \cup {VoicePool}) /\ VoicePool \notin Free
      /\ (next[VoicePool] \in {VoicePool, Null} => Free = {})
  BY <1>1, LinkedFacts
<1>3. QED BY <1>1, <1>2 DEF PoolEmpty, Ring

\* With the pool empty there is a voice to replace.
LEMMA VictimPlays ==
    ASSUME IInv, installed, mpc = "run", PoolEmpty
    PROVE  Victim \in Playing
<1> DEFINE S == {v \in Playing : \A u \in Playing : priority[v] <= priority[u]}
<1>1. /\ Linked(next, prev, Playing, Free) /\ Pool = Free
      /\ Playing \cup Free \cup Hand = Voice
  BY Settled DEF IInv
<1>2. Playing = Voice
  BY <1>1, PoolEmptyMeans DEF Hand
<1>3. S # {}
  <2>1. {priority[v] : v \in Playing} \in SUBSET Nat
    BY <1>2 DEF IInv, DataInv, Cell
  <2>2. {priority[v] : v \in Playing} # {}
    BY <1>2, ConstantsAssumption
  <2>3. PICK x \in {priority[v] : v \in Playing} :
            \A y \in {priority[v] : v \in Playing} : x <= y
    BY <2>1, <2>2, LeastNat
  <2>4. PICK v \in Playing : x = priority[v]
    BY <2>3
  <2>5. v \in S
    BY <2>3, <2>4
  <2>6. QED BY <2>5
<1>4. /\ VoiceList \in DOMAIN next /\ S \subseteq Members(next, VoiceList, Null)
      /\ \A x \in DOMAIN next : next[x] \in DOMAIN next \cup {Null}
  <2>1. /\ Playing = Members(next, VoiceList, Null)
        /\ next \in [Cell -> Cell] /\ VoiceList \in Cell
    BY <1>1, LinkedFacts
  <2>2. QED BY <2>1
<1>5. FirstIn(next, VoiceList, Null, S) \in S
  BY <1>3, <1>4, FirstInMember
<1>6. QED BY <1>5 DEF Victim

\* A step of the main program in which MV_StopVoice stops v.
LEMMA Stopped ==
    ASSUME IInv, ipc = "idle", installed, mpc # "unlink2", Hand = {}, Hand' = {},
           NEW v \in Voice, StopVoice(v), mpc' \in {"callback", "drain"},
           UNCHANGED <<data, lastHandle, ipc, installed, asked, ret>>
    PROVE  IInv' /\ Playing' = Playing \ {v}
<1>1. /\ Linked(next, prev, Playing, Free) /\ Playing \cup Free = Voice
  BY Settled DEF IInv
<1>2. Linked(next', prev', Playing \ {v}, Free \cup {v})
  BY <1>1, StopLists DEF StopVoice
<1>3. ListInv' /\ Playing' = Playing \ {v}
  BY <1>1, <1>2, ToLists
<1>4. HandleInv'
  BY <1>3 DEF IInv, HandleInv, HandlesAreUnique, data
<1>5. DataInv' /\ RestInv' /\ InterruptInv' /\ ProgramInv'
  BY DEF IInv, DataInv, RestInv, InterruptInv, ProgramInv, data
<1>6. QED BY <1>3, <1>4, <1>5 DEF IInv

LEMMA KillStep ==
    ASSUME IInv, NEW h, Kill(h) \/ EndLooping(h) PROVE IInv'
<1>1. /\ ipc = "idle" /\ mpc = "run" /\ mpc' \in {"run", "stop", "unloop"} /\ installed
      /\ UNCHANGED <<lists, handle, priority, left, ipc, installed, lastHandle, asked>>
      /\ ret' \in {"run", ret}
      /\ mpc' = "stop" => voice' \in Playing
  BY GetVoicePlays DEF Kill, EndLooping, At, data, state, isr
<1>2. ret' \in {"run", "check", "all", "shutdown"} /\ lastHandle' \in Nat /\ asked' \in Nat
  BY <1>1 DEF IInv, DataInv
<1>3. /\ DataInv' /\ RestInv' /\ ListInv' /\ InterruptInv' /\ HandleInv'
  BY <1>1, <1>2, Calm DEF Hand
<1>4. Playing \subseteq Voice
  BY <1>1, Settled DEF IInv
<1>5. ProgramInv'
  BY <1>1, <1>4 DEF ProgramInv
<1>6. QED BY <1>3, <1>5 DEF IInv

LEMMA KillStopStep ==
    ASSUME IInv, KillStop PROVE IInv' /\ Playing' = Playing \ {voice}
<1>1. /\ ipc = "idle" /\ mpc = "stop" /\ installed /\ voice \in Voice
  BY DEF IInv, RestInv, ProgramInv, KillStop, At
<1>2. /\ StopVoice(voice) /\ mpc' = "callback" /\ Hand = {} /\ Hand' = {}
      /\ UNCHANGED <<data, lastHandle, ipc, installed, asked, ret>>
  BY <1>1 DEF KillStop, Hand, state, isr
<1>3. QED BY <1>1, <1>2, Stopped

LEMMA DrainStep ==
    ASSUME IInv, Drain
    PROVE  IInv' /\ next[VoiceList] \in Playing /\ Playing' = Playing \ {next[VoiceList]}
<1>1. /\ ipc = "idle" /\ mpc = "drain" /\ installed /\ next[VoiceList] # VoiceList
  BY DEF IInv, RestInv, Drain, At
<1>2. /\ StopVoice(next[VoiceList]) /\ mpc' = "drain" /\ Hand = {} /\ Hand' = {}
      /\ UNCHANGED <<data, lastHandle, ipc, installed, asked, ret>>
  BY <1>1 DEF Drain, Hand, state, isr, main
<1>3. Linked(next, prev, Playing, Free)
  BY <1>1, Settled DEF IInv
<1>4. next[VoiceList] \in Voice /\ next[VoiceList] \in Playing
  BY <1>1, <1>3, LinkedFacts
<1>5. QED BY <1>1, <1>2, <1>4, Stopped

\* The steps of the main program that change no list and no handle.
LEMMA CalmSteps ==
    ASSUME IInv,
           \/ KillCallBack \/ KillAllVoices \/ KillAllTest \/ KillAllFind
           \/ AllocCheck \/ AllocFirst \/ EndLoopingStore
           \/ StartRecording \/ BeginRecording \/ StopRecord
    PROVE  IInv'
<1>1. /\ ipc = "idle" /\ installed /\ Hand = {} /\ Hand' = {}
      /\ mpc # "unlink2" /\ mpc' \notin {"unlink2", "play"}
      /\ UNCHANGED <<lists, handle, priority, left, ipc, installed>>
      /\ lastHandle' \in Nat /\ asked' \in Nat
      /\ ret' \in {"run", "check", "all", "shutdown"}
  <2>1. installed /\ DataInv
    BY DEF IInv, RestInv, At, KillCallBack, KillAllVoices, KillAllTest, KillAllFind,
           AllocCheck, AllocFirst, EndLoopingStore, StartRecording, BeginRecording, StopRecord
  <2>2. CASE KillCallBack
    BY <2>1, <2>2 DEF KillCallBack, At, DataInv, Hand, data, state, isr
  <2>3. CASE KillAllVoices \/ KillAllTest \/ KillAllFind
    BY <2>1, <2>3 DEF KillAllVoices, KillAllTest, KillAllFind, At, DataInv, Hand, data,
                      state, isr
  <2>4. CASE AllocCheck \/ AllocFirst
    BY <2>1, <2>4 DEF AllocCheck, AllocFirst, At, DataInv, Hand, data, state, isr
  <2>5. CASE EndLoopingStore
    BY <2>1, <2>5 DEF EndLoopingStore, At, DataInv, Hand, state, isr
  <2>6. CASE StartRecording \/ BeginRecording \/ StopRecord
    BY <2>1, <2>6 DEF StartRecording, BeginRecording, StopRecord, At, DataInv, Hand, data,
                      isr, main
  <2>7. QED BY <2>2, <2>3, <2>4, <2>5, <2>6
<1>2. /\ DataInv' /\ RestInv' /\ ListInv' /\ InterruptInv' /\ HandleInv'
      /\ Playing' = Playing /\ Pool' = Pool
  BY <1>1, Calm
<1>3. /\ Linked(next, prev, Playing, Free) /\ Pool = Free /\ next' = next
  BY <1>1, Settled DEF IInv, lists
<1>4. Playing \subseteq Voice /\ (Pool # {} => next[VoicePool] \in Pool)
  <2>1. /\ Playing \subseteq Voice /\ Ring(next, prev, Free \cup {VoicePool})
        /\ (next[VoicePool] \in {VoicePool, Null} => Free = {})
    BY <1>3, LinkedFacts
  <2>2. QED BY <1>3, <2>1 DEF Ring
<1>5. ProgramInv'
  <2>1. CASE AllocCheck
    <3>1. mpc' = "run" \/ (mpc' = "first" /\ Pool # {})
      BY <1>1, <2>1, PoolEmptyMeans DEF AllocCheck
    <3>2. QED BY <1>2, <3>1 DEF ProgramInv
  <2>2. CASE AllocFirst
    <3>1. mpc' = "unlink1" /\ voice' = next[VoicePool] /\ Pool # {}
      BY <2>2 DEF AllocFirst, At, IInv, ProgramInv
    <3>2. QED BY <1>2, <1>3, <1>4, <3>1 DEF ProgramInv
  <2>3. CASE KillAllFind
    <3>1. mpc' = "head" \/ (mpc' = "stop" /\ voice' \in Playing)
      BY <2>3, GetVoicePlays DEF KillAllFind
    <3>2. QED BY <1>4, <3>1 DEF ProgramInv
  <2>4. CASE KillCallBack
    <3>1. mpc' \in {"run", "check", "head"}
      BY <2>4 DEF KillCallBack, IInv, DataInv
    <3>2. QED BY <3>1 DEF ProgramInv
  <2>5. CASE \/ KillAllVoices \/ KillAllTest \/ EndLoopingStore
             \/ StartRecording \/ BeginRecording \/ StopRecord
    <3>1. mpc' \in {"run", "find", "head", "down", "drain"}
      BY <2>5 DEF KillAllVoices, KillAllTest, EndLoopingStore, StartRecording,
                  BeginRecording, StopRecord, At, main
    <3>2. QED BY <3>1 DEF ProgramInv
  <2>6. QED BY <2>1, <2>2, <2>3, <2>4, <2>5
<1>6. QED BY <1>2, <1>5 DEF IInv

LEMMA AllocVoiceStep ==
    ASSUME IInv, NEW p \in Priorities, AllocVoice(p) PROVE IInv' /\ Playing' = Playing
<1>1. /\ ipc = "idle" /\ mpc = "run" /\ installed /\ asked' = p /\ p \in Nat
      /\ UNCHANGED <<handle, priority, left, ipc, installed, lastHandle>>
      /\ ret \in {"run", "check", "all", "shutdown"} /\ lastHandle \in Nat
  BY ConstantsAssumption DEF AllocVoice, At, IInv, DataInv, data, state, isr
<1>2. /\ Linked(next, prev, Playing, Free) /\ Pool = Free
      /\ Playing \cup Free \cup Hand = Voice
  BY <1>1, Settled DEF IInv
<1>3. CASE Refuses(p) \/ PoolEmpty
  <2>1. /\ UNCHANGED lists
        /\ mpc' = "run" \/ (mpc' = "stop" /\ voice' = Victim /\ PoolEmpty)
        /\ ret' \in {"run", "check", "all", "shutdown"}
    BY <1>1, <1>3 DEF AllocVoice
  <2>2. /\ DataInv' /\ RestInv' /\ ListInv' /\ InterruptInv' /\ HandleInv'
    BY <1>1, <2>1, Calm DEF Hand
  <2>3. ProgramInv'
    BY <1>1, <1>2, <2>1, VictimPlays DEF ProgramInv
  <2>4. QED BY <1>1, <2>1, <2>2, <2>3 DEF IInv, Playing, lists
<1>4. CASE ~Refuses(p) /\ ~PoolEmpty
  <2> DEFINE v == next[VoicePool]
  <2>1. /\ voice' = v /\ mpc' = "number" /\ ret' = ret
        /\ next' = RemovedNext(next, prev, v) /\ prev' = RemovedPrev(next, prev, v)
    BY <1>4 DEF AllocVoice
  <2>2. v \in Free
    BY <1>1, <1>2, <1>4, PoolEmptyMeans, LinkedFacts
  <2>3. Linked(next', prev', Playing \ {v}, Free \ {v}) /\ v \notin Playing
    BY <1>2, <2>1, <2>2, TakeLists, LinkedFacts
  <2>4. Hand = {} /\ Hand' = {v}
    BY <1>1, <2>1 DEF Hand
  <2>5. ListInv' /\ Playing' = Playing
    <3>1. Playing \ {v} = Playing /\ Playing \cup (Free \ {v}) \cup {v} = Voice
      BY <1>2, <2>2, <2>3, <2>4
    <3>2. QED BY <2>1, <2>2, <2>3, <2>4, <3>1, ToLists
  <2>6. DataInv' /\ RestInv' /\ InterruptInv' /\ HandleInv' /\ ProgramInv'
    BY <1>1, <2>1, <2>5 DEF IInv, DataInv, RestInv, InterruptInv, HandleInv, ProgramInv,
                            HandlesAreUnique
  <2>7. QED BY <2>5, <2>6 DEF IInv
<1>5. QED BY <1>3, <1>4

\* The pool is cut in one direction; Whole is what it was.
LEMMA Unlink1Step ==
    ASSUME IInv, AllocUnlink1 PROVE IInv' /\ Playing' = Playing
<1>1. /\ ipc = "idle" /\ mpc = "unlink1" /\ installed /\ mpc' = "unlink2"
      /\ voice' = voice /\ prev' = prev
      /\ next' = [next EXCEPT ![prev[voice]] = next[voice]]
      /\ UNCHANGED <<handle, priority, left, ipc, installed, lastHandle, asked, ret>>
  BY DEF AllocUnlink1, At, IInv, RestInv, data, state, isr
<1>2. /\ Linked(next, prev, Playing, Free) /\ Pool = Free
      /\ Playing \cup Free \cup Hand = Voice
      /\ voice \in Free /\ next[VoicePool] = voice
  BY <1>1, Settled DEF IInv, ProgramInv
<1>3. /\ next \in [Cell -> Cell] /\ VoicePool \in Cell /\ VoiceList \in Cell
      /\ Ring(next, prev, Free \cup {VoicePool})
      /\ Playing = Members(next, VoiceList, Null) /\ Free = Members(next, VoicePool, Null)
      /\ VoicePool \notin Playing /\ VoicePool # VoiceList /\ VoicePool \notin Free
      /\ voice \in Cell
  <2>1. Free \subseteq Voice
    BY <1>2, LinkedFacts
  <2>2. QED BY <1>2, <2>1, LinkedFacts DEF Cell
<1>4. prev[voice] = VoicePool
  BY <1>2, <1>3 DEF Ring
<1>5. /\ next' \in [Cell -> Cell] /\ next'[VoicePool] = next[voice]
      /\ next'[voice] = next[voice]
      /\ [next' EXCEPT ![VoicePool] = voice] = next
  BY <1>1, <1>2, <1>3, <1>4
<1>6. Playing' = Playing
  <2>1. /\ VoiceList \in DOMAIN next /\ VoicePool \notin Members(next, VoiceList, Null)
        /\ VoicePool # VoiceList
        /\ \A x \in DOMAIN next : next[x] \in DOMAIN next \cup {Null}
    BY <1>3
  <2>2. Members([next EXCEPT ![VoicePool] = next[voice]], VoiceList, Null)
          = Members(next, VoiceList, Null)
    BY <2>1, MembersOutside
  <2>3. QED BY <1>1, <1>4, <2>2 DEF Playing
<1>7. Whole' = next /\ Pool' = Free
  BY <1>1, <1>3, <1>5 DEF Whole, Pool
<1>8. Hand = {} /\ Hand' = {}
  BY <1>1 DEF Hand
<1>9. ListInv'
  BY <1>1, <1>2, <1>5, <1>6, <1>7, <1>8 DEF ListInv
<1>10. DataInv' /\ RestInv' /\ InterruptInv' /\ HandleInv' /\ ProgramInv'
  BY <1>1, <1>2, <1>5, <1>6, <1>7
     DEF IInv, DataInv, RestInv, InterruptInv, HandleInv, ProgramInv, HandlesAreUnique
<1>11. QED BY <1>6, <1>9, <1>10 DEF IInv

\* With the second write the voice is out of both directions.
LEMMA Unlink2Step ==
    ASSUME IInv, AllocUnlink2 PROVE IInv' /\ Playing' = Playing
<1>1. /\ ipc = "idle" /\ mpc = "unlink2" /\ installed /\ mpc' = "unlink3"
      /\ voice' = voice /\ next' = next
      /\ prev' = [prev EXCEPT ![next[voice]] = prev[voice]]
      /\ UNCHANGED <<handle, priority, left, ipc, installed, lastHandle, asked, ret>>
  BY DEF AllocUnlink2, At, IInv, RestInv, data, state, isr
<1>2. /\ Linked(Whole, prev, Playing, Pool) /\ next \in [Cell -> Cell]
      /\ Playing \cup Pool \cup Hand = Voice
      /\ voice \in Pool /\ next[VoicePool] = next[voice]
  BY <1>1 DEF IInv, ProgramInv, ListInv
<1>3. /\ Whole \in [Cell -> Cell] /\ prev \in [Cell -> Cell] /\ VoicePool \in Cell
      /\ Ring(Whole, prev, Pool \cup {VoicePool}) /\ VoicePool \notin Pool
      /\ voice \in Cell /\ voice \notin Playing
  <2>1. Pool \subseteq Voice /\ Playing \cap Pool = {}
    BY <1>2, LinkedFacts
  <2>2. QED BY <1>2, <2>1, LinkedFacts DEF Cell
<1>4. /\ Whole = [next EXCEPT ![VoicePool] = voice]
      /\ Whole[VoicePool] = voice /\ Whole[voice] = next[voice] /\ prev[voice] = VoicePool
  BY <1>1, <1>2, <1>3 DEF Whole, Ring
<1>5. /\ next' = [RemovedNext(Whole, prev, voice) EXCEPT ![voice] = next[voice]]
      /\ prev' = [RemovedPrev(Whole, prev, voice) EXCEPT ![voice] = prev'[voice]]
      /\ next[voice] \in Cell /\ prev'[voice] \in Cell
  <2>1. next[voice] \in Cell /\ prev[voice] \in Cell
    BY <1>2, <1>3
  <2>2. prev' \in [Cell -> Cell]
    BY <1>1, <1>3, <2>1
  <2>3. \A x \in Cell : next'[x] = [RemovedNext(Whole, prev, voice)
                                       EXCEPT ![voice] = next[voice]][x]
    BY <1>1, <1>2, <1>3, <1>4 DEF RemovedNext
  <2>4. \A x \in Cell : prev'[x] = [RemovedPrev(Whole, prev, voice)
                                       EXCEPT ![voice] = prev'[voice]][x]
    BY <1>1, <1>3, <1>4, <2>1 DEF RemovedPrev
  <2>5. /\ [RemovedNext(Whole, prev, voice) EXCEPT ![voice] = next[voice]] \in [Cell -> Cell]
        /\ [RemovedPrev(Whole, prev, voice) EXCEPT ![voice] = prev'[voice]] \in [Cell -> Cell]
        /\ next' \in [Cell -> Cell]
    BY <1>1, <1>2, <1>3, <1>4, <2>1, <2>2 DEF RemovedNext, RemovedPrev
  <2>6. QED BY <1>3, <2>1, <2>2, <2>3, <2>4, <2>5
<1>6. Linked(next', prev', Playing \ {voice}, Pool \ {voice})
  <2> DEFINE b == prev'[voice]
  <2>1. Linked([RemovedNext(Whole, prev, voice) EXCEPT ![voice] = next[voice]],
               [RemovedPrev(Whole, prev, voice) EXCEPT ![voice] = b],
               Playing \ {voice}, Pool \ {voice})
    <3>1. voice \in Playing \cup Pool /\ b \in Cell /\ next[voice] \in Cell
      BY <1>2, <1>5
    <3> HIDE DEF b
    <3>2. QED BY <1>2, <3>1, RemoveLists
  <2>2. QED BY <1>5, <2>1
<1>7. Hand = {} /\ Hand' = {voice}
  BY <1>1 DEF Hand
<1>8. ListInv' /\ Playing' = Playing
  <2>1. Playing \ {voice} = Playing /\ Playing \cup (Pool \ {voice}) \cup {voice} = Voice
    BY <1>2, <1>3, <1>7
  <2>2. QED BY <1>1, <1>3, <1>6, <1>7, <2>1, ToLists
<1>9. DataInv' /\ RestInv' /\ InterruptInv' /\ HandleInv' /\ ProgramInv'
  BY <1>1, <1>8
     DEF IInv, DataInv, RestInv, InterruptInv, HandleInv, ProgramInv, HandlesAreUnique
<1>10. QED BY <1>8, <1>9 DEF IInv

LEMMA Unlink3Step ==
    ASSUME IInv, AllocUnlink3 PROVE IInv' /\ Playing' = Playing
<1>1. /\ ipc = "idle" /\ mpc = "unlink3" /\ installed /\ mpc' = "number"
      /\ voice' = voice
      /\ next' = [next EXCEPT ![voice] = voice] /\ prev' = [prev EXCEPT ![voice] = voice]
      /\ UNCHANGED <<handle, priority, left, ipc, installed, lastHandle, asked, ret>>
  BY DEF AllocUnlink3, At, IInv, RestInv, data, state, isr
<1>2. /\ Linked(next, prev, Playing, Free)
      /\ Playing \cup Free \cup Hand = Voice /\ (Playing \cup Free) \cap Hand = {}
      /\ Hand = {voice} /\ Hand' = {voice}
  BY <1>1, Settled DEF IInv, Hand
<1>3. voice \in Cell /\ voice \notin Playing \cup Free \cup {VoiceList, VoicePool}
  BY <1>2, ConstantsAssumption DEF Cell
<1>4. Linked(next', prev', Playing, Free)
  BY <1>1, <1>2, <1>3, TwoListsOutside DEF Linked
<1>5. ListInv' /\ Playing' = Playing
  BY <1>1, <1>2, <1>4, ToLists
<1>6. DataInv' /\ RestInv' /\ InterruptInv' /\ HandleInv' /\ ProgramInv'
  BY <1>1, <1>5
     DEF IInv, DataInv, RestInv, InterruptInv, HandleInv, ProgramInv, HandlesAreUnique
<1>7. QED BY <1>5, <1>6 DEF IInv

\* The handle is new: the search has found no voice that plays under it.
LEMMA NumberStep ==
    ASSUME IInv, AllocNumber PROVE IInv'
<1>1. /\ ipc = "idle" /\ mpc = "number" /\ installed /\ voice' = voice
      /\ mpc' \in {"number", "play"} /\ lastHandle' = NextHandle
      /\ UNCHANGED <<next, prev, priority, left, ipc, installed, asked, ret>>
  BY DEF AllocNumber, At, IInv, RestInv, lists, state, isr
<1>2. /\ Linked(next, prev, Playing, Free)
      /\ Playing \cup Free \cup Hand = Voice /\ (Playing \cup Free) \cap Hand = {}
      /\ Hand = {voice} /\ Hand' = {voice}
  BY <1>1, Settled DEF IInv, Hand
<1>3. ListInv' /\ Playing' = Playing
  BY <1>1, <1>2, ToLists
<1>4. NextHandle \in Nat
  BY ConstantsAssumption DEF NextHandle, IInv, DataInv
<1>5. voice \in Cell /\ voice \notin Playing /\ Playing \subseteq Cell
  BY <1>2, LinkedFacts DEF Cell
<1>6. HandleInv' /\ handle' \in [Cell -> Nat]
  <2>1. CASE VoicePlaying(NextHandle)
    BY <1>1, <1>3, <2>1 DEF AllocNumber, HandleInv, HandlesAreUnique, IInv, DataInv
  <2>2. CASE ~VoicePlaying(NextHandle)
    <3>1. handle' = [handle EXCEPT ![voice] = NextHandle] /\ handle \in [Cell -> Nat]
      BY <2>2 DEF AllocNumber, IInv, DataInv
    <3>2. \A u \in Playing : handle[u] # NextHandle
      BY <1>1, <2>2, GetVoiceFinds
    <3>3. handle'[voice] = NextHandle /\ \A u \in Playing : handle'[u] = handle[u]
      BY <1>5, <3>1
    <3>4. handle' \in [Cell -> Nat]
      BY <1>4, <3>1
    <3>5. HandleInv'
      BY <1>1, <1>3, <3>2, <3>3 DEF HandleInv, HandlesAreUnique, IInv
    <3>6. QED BY <3>4, <3>5
  <2>3. QED BY <2>1, <2>2
<1>7. DataInv' /\ RestInv' /\ InterruptInv' /\ ProgramInv'
  BY <1>1, <1>3, <1>4, <1>6 DEF IInv, DataInv, RestInv, InterruptInv, ProgramInv
<1>8. QED BY <1>3, <1>6, <1>7 DEF IInv

\* MV_PlayVoice: the voice plays, and its handle is its own.
LEMMA PlayStep ==
    ASSUME IInv, NEW k \in Kinds, NEW pages \in 1..MaxPages, PlayVoice(k, pages)
    PROVE  IInv' /\ Playing' = Playing \cup {voice}
<1>1. /\ ipc = "idle" /\ mpc = "play" /\ installed /\ mpc' = "run"
      /\ next' = AddedPrev(next, Place(asked), voice)
      /\ prev' = AddedNext(prev, next, Place(asked), voice)
      /\ priority' = [priority EXCEPT ![voice] = asked]
      /\ left' = [left EXCEPT ![voice] = pages]
      /\ UNCHANGED <<handle, ipc, installed, lastHandle, asked, ret>>
  BY DEF PlayVoice, At, IInv, RestInv, state, isr
<1>2. /\ Linked(next, prev, Playing, Free)
      /\ Playing \cup Free \cup Hand = Voice /\ (Playing \cup Free) \cap Hand = {}
      /\ Hand = {voice} /\ Hand' = {}
  BY <1>1, Settled DEF IInv, Hand
<1>3. Place(asked) \in Playing \cup {VoiceList}
  <2>1. Place(asked) \in {v \in Playing : priority[v] >= asked} \cup {VoiceList}
    BY FirstInOf DEF Place
  <2>2. QED BY <2>1
<1>4. voice \in Voice /\ voice \notin Playing \cup Free
  BY <1>2
<1>5. Linked(next', prev', Playing \cup {voice}, Free)
  BY <1>1, <1>2, <1>3, <1>4, PlayLists
<1>6. ListInv' /\ Playing' = Playing \cup {voice}
  BY <1>1, <1>2, <1>4, <1>5, ToLists
<1>7. HandleInv'
  BY <1>1, <1>6 DEF HandleInv, HandlesAreUnique, IInv
<1>8. DataInv'
  <2>1. DataInv /\ pages \in Nat
    BY ConstantsAssumption DEF IInv
  <2>2. priority' \in [Cell -> Nat] /\ left' \in [Cell -> Nat]
    BY <1>1, <2>1 DEF DataInv
  <2>3. QED BY <1>1, <2>1, <2>2 DEF DataInv
<1>9. RestInv' /\ InterruptInv' /\ ProgramInv'
  BY <1>1 DEF RestInv, InterruptInv, ProgramInv
<1>10. QED BY <1>6, <1>7, <1>8, <1>9 DEF IInv

LEMMA ShutdownStep ==
    ASSUME IInv, Shutdown PROVE IInv' /\ Playing' = {}
<1>1. /\ ipc = "idle" /\ mpc = "down" /\ installed /\ mpc' = "run" /\ ~installed'
      /\ card' = "off"
      /\ next' = [next EXCEPT ![VoiceList] = VoiceList, ![VoicePool] = VoicePool]
      /\ UNCHANGED <<handle, priority, left, ipc, lastHandle, asked, ret>>
  BY DEF Shutdown, At, IInv, RestInv, data, isr
<1>2. next \in [Cell -> Cell] /\ VoiceList \in Cell /\ VoiceList # VoicePool
  BY <1>1, ConstantsAssumption DEF IInv, ListInv, Cell
<1>3. VoiceList \in DOMAIN next' /\ next'[VoiceList] = VoiceList
  BY <1>1, <1>2
<1>4. Playing' = {}
  <2> DEFINE n == next'
  <2>1. VoiceList \in DOMAIN n /\ n[VoiceList] \in {VoiceList, Null}
    BY <1>3
  <2> HIDE DEF n
  <2>2. Members(n, VoiceList, Null) = {}
    BY <2>1, NoMembers
  <2>3. QED BY <2>2 DEF n, Playing
<1>5. QED
  BY <1>1, <1>4 DEF IInv, DataInv, RestInv, ListInv, ProgramInv, InterruptInv, HandleInv,
                    HandlesAreUnique

LEMMA CardStep ==
    ASSUME IInv, Untroubled, CardInterrupt PROVE IInv'
<1>1. /\ ipc = "idle" /\ card = "play" /\ installed /\ ipc' = "mix"
      /\ mixed' = next[VoiceList]
      /\ mpc = "unlink2" => \A v \in Playing : ~LastPage(v)
      /\ UNCHANGED <<next, prev, handle, priority, kind, left, lastHandle, installed,
                     mpc, voice, asked, ret>>
  BY DEF CardInterrupt, IInv, RestInv, lists, data, state, main
<1>2. /\ Linked(Whole, prev, Playing, Pool) /\ next \in [Cell -> Cell]
  BY <1>1 DEF IInv, ListInv
<1>3. /\ Ring(Whole, prev, Playing \cup {VoiceList})
      /\ \A x \in Playing \cup {VoiceList} : Whole[x] = next[x]
  <2>1. /\ Ring(Whole, prev, Playing \cup {VoiceList}) /\ Playing \subseteq Cell
        /\ VoicePool \notin Playing \cup {VoiceList} /\ VoiceList \in Cell
    BY <1>2, LinkedFacts DEF Cell
  <2>2. QED BY <1>2, <2>1 DEF Whole
<1>4. \A x \in Playing \cup {VoiceList} : next[x] \in Playing \cup {VoiceList}
  BY <1>3 DEF Ring
<1>5. /\ Whole' = Whole /\ Playing' = Playing /\ Pool' = Pool /\ Hand' = Hand
      /\ \A x \in Playing : LastPage(x)' <=> LastPage(x)
  BY <1>1 DEF Whole, Playing, Pool, Hand, LastPage
<1>6. InterruptInv'
  <2>1. mixed' \in Playing \cup {VoiceList}
    BY <1>1, <1>4
  <2>2. ASSUME mpc = "unlink2"
        PROVE  \E T \in SUBSET (Playing \cup {VoiceList}) :
                   /\ VoiceList \in T /\ mixed' \in T
                   /\ \A x \in T \ {VoiceList} : next'[x] \in T /\ ~LastPage(x)'
    <3>1. \A x \in (Playing \cup {VoiceList}) \ {VoiceList} :
              next'[x] \in Playing \cup {VoiceList} /\ ~LastPage(x)'
      BY <1>1, <1>4, <1>5, <2>2
    <3>2. QED BY <2>1, <3>1
  <2>3. QED BY <1>1, <1>5, <2>1, <2>2 DEF InterruptInv
<1>7. DataInv' /\ RestInv' /\ ListInv' /\ ProgramInv' /\ HandleInv'
  BY <1>1, <1>5 DEF IInv, DataInv, RestInv, ListInv, ProgramInv, HandleInv, HandlesAreUnique
<1>8. QED BY <1>6, <1>7 DEF IInv

LEMMA EndStep ==
    ASSUME IInv, EndOfInterrupt PROVE IInv'
<1>1. /\ ipc' = "idle"
      /\ UNCHANGED <<next, prev, handle, priority, left, lastHandle, installed, mpc, voice,
                     asked, ret>>
      /\ installed
  BY DEF EndOfInterrupt, IInv, RestInv, lists, data, state, main
<1>2. /\ Whole' = Whole /\ Playing' = Playing /\ Pool' = Pool /\ Hand' = Hand
  BY <1>1 DEF Whole, Playing, Pool, Hand
<1>3. QED
  BY <1>1, <1>2 DEF IInv, DataInv, RestInv, ListInv, ProgramInv, InterruptInv, HandleInv,
                    HandlesAreUnique

\* A sound that ends: its voice goes to the end of the pool, which is not cut.
LEMMA EndsStep ==
    ASSUME IInv, MixVoice, LastPage(mixed)
    PROVE  IInv' /\ mixed \in Playing /\ Playing' = Playing \ {mixed}
<1>1. /\ ipc = "mix" /\ mixed # VoiceList /\ installed /\ mixed' = next[mixed]
      /\ StopVoice(mixed)
      /\ left' = [left EXCEPT ![mixed] = IF @ > 1 THEN @ - 1 ELSE @]
      /\ UNCHANGED <<handle, priority, lastHandle, installed, mpc, voice, asked, ret, ipc>>
  BY DEF MixVoice, IInv, RestInv, state, main
<1>2. mixed \in Playing /\ mpc # "unlink2"
  BY <1>1 DEF IInv, InterruptInv
<1>3. /\ Linked(next, prev, Playing, Free) /\ Pool = Free
      /\ Playing \cup Free \cup Hand = Voice /\ (Playing \cup Free) \cap Hand = {}
      /\ Hand' = Hand
  BY <1>1, <1>2, Settled DEF IInv, Hand
<1>4. Linked(next', prev', Playing \ {mixed}, Free \cup {mixed})
  BY <1>1, <1>2, <1>3, StopLists DEF StopVoice
<1>5. ListInv' /\ Playing' = Playing \ {mixed} /\ Pool' = Free \cup {mixed}
  BY <1>1, <1>2, <1>3, <1>4, ToLists
<1>6. next[mixed] \in (Playing \ {mixed}) \cup {VoiceList}
  <2>1. /\ next \in [Cell -> Cell] /\ VoiceList \in Cell
        /\ Playing = Members(next, VoiceList, Null)
        /\ Ring(next, prev, Playing \cup {VoiceList})
    BY <1>3, LinkedFacts
  <2>2. /\ VoiceList \in DOMAIN next /\ mixed \in Members(next, VoiceList, Null)
        /\ Ring(next, prev, Members(next, VoiceList, Null) \cup {VoiceList})
        /\ \A x \in DOMAIN next : next[x] \in DOMAIN next \cup {Null}
    BY <1>2, <2>1
  <2>3. prev[mixed] # mixed
    BY <2>2, MembersPrev
  <2>4. QED BY <1>2, <2>1, <2>3 DEF Ring
<1>7. ProgramInv'
  <2>1. CASE mpc = "unlink1"
    <3>1. voice \in Free /\ next[VoicePool] = voice
      BY <1>3, <2>1 DEF IInv, ProgramInv
    <3>2. next'[VoicePool] = next[VoicePool]
      BY <1>1, <1>2, <1>3, <3>1, StopKeepsFirst DEF StopVoice
    <3>3. QED BY <1>1, <1>5, <2>1, <3>1, <3>2 DEF ProgramInv
  <2>2. CASE mpc # "unlink1"
    BY <1>1, <1>2, <1>5, <2>2 DEF IInv, ProgramInv
  <2>3. QED BY <2>1, <2>2
<1>8. InterruptInv'
  BY <1>1, <1>2, <1>5, <1>6 DEF InterruptInv
<1>9. HandleInv'
  BY <1>1, <1>5 DEF IInv, HandleInv, HandlesAreUnique
<1>10. DataInv' /\ RestInv'
  <2>1. left \in [Cell -> Nat] /\ mixed \in Cell
    BY <1>2, <1>3, LinkedFacts DEF IInv, DataInv, Cell
  <2>2. left' \in [Cell -> Nat]
    BY <1>1, <2>1
  <2>3. QED BY <1>1, <2>2 DEF IInv, DataInv, RestInv
<1>11. QED BY <1>2, <1>5, <1>7, <1>8, <1>9, <1>10 DEF IInv

\* A sound that goes on: the rest of the way no longer has it.
LEMMA GoesOnStep ==
    ASSUME IInv, MixVoice, ~LastPage(mixed) PROVE IInv'
<1>1. /\ ipc = "mix" /\ mixed # VoiceList /\ installed /\ mixed' = next[mixed]
      /\ left' = [left EXCEPT ![mixed] = IF @ > 1 THEN @ - 1 ELSE @]
      /\ UNCHANGED <<next, prev, handle, priority, kind, lastHandle, installed, mpc, voice,
                     asked, ret, ipc>>
  BY DEF MixVoice, IInv, RestInv, lists, state, main
<1>2. mixed \in Playing
  BY <1>1 DEF IInv, InterruptInv
<1>3. /\ Linked(Whole, prev, Playing, Pool) /\ next \in [Cell -> Cell]
  BY <1>1 DEF IInv, ListInv
<1>4. /\ Whole \in [Cell -> Cell] /\ VoiceList \in Cell /\ Null \notin Cell
      /\ Playing = Members(Whole, VoiceList, Null) /\ Playing \subseteq Cell
      /\ Ring(Whole, prev, Playing \cup {VoiceList})
      /\ \A x \in Playing \cup {VoiceList} : Whole[x] = next[x]
  <2>1. /\ Whole \in [Cell -> Cell] /\ VoiceList \in Cell /\ Null \notin Cell
        /\ Playing = Members(Whole, VoiceList, Null) /\ Playing \subseteq Cell
        /\ Ring(Whole, prev, Playing \cup {VoiceList})
        /\ VoicePool \notin Playing \cup {VoiceList}
    BY <1>3, LinkedFacts DEF Cell
  <2>2. \A x \in Playing \cup {VoiceList} : Whole[x] = next[x]
    BY <1>3, <2>1 DEF Whole
  <2>3. QED BY <2>1, <2>2
<1>5. /\ Whole' = Whole /\ Playing' = Playing /\ Pool' = Pool /\ Hand' = Hand
  BY <1>1 DEF Whole, Playing, Pool, Hand
<1>6. left \in [Cell -> Nat] /\ mixed \in Cell /\ left' \in [Cell -> Nat]
  <2>1. left \in [Cell -> Nat] /\ mixed \in Cell
    BY <1>2, <1>4 DEF IInv, DataInv
  <2>2. QED BY <1>1, <2>1
<1>7. \A x \in Playing \ {mixed} : LastPage(x)' <=> LastPage(x)
  BY <1>1, <1>4, <1>6 DEF LastPage
<1>8. InterruptInv'
  <2>1. mixed' \in Playing \cup {VoiceList}
    BY <1>1, <1>2, <1>4 DEF Ring
  <2>2. ASSUME mpc = "unlink2"
        PROVE  \E T \in SUBSET (Playing \cup {VoiceList}) :
                   /\ VoiceList \in T /\ mixed' \in T
                   /\ \A x \in T \ {VoiceList} : next'[x] \in T /\ ~LastPage(x)'
    <3>1. PICK T \in SUBSET (Playing \cup {VoiceList}) :
              /\ VoiceList \in T /\ mixed \in T
              /\ \A x \in T \ {VoiceList} : next[x] \in T /\ ~LastPage(x)
      BY <1>1, <2>2 DEF IInv, InterruptInv
    <3>2. PICK B \in SUBSET (Playing \cup {VoiceList}) :
              /\ VoiceList \in B /\ Whole[mixed] \in B /\ mixed \notin B
              /\ \A x \in B \ {VoiceList} : Whole[x] \in B
      <4>1. /\ VoiceList \in DOMAIN Whole /\ Null \notin DOMAIN Whole
            /\ \A x \in DOMAIN Whole : Whole[x] \in DOMAIN Whole \cup {Null}
            /\ Ring(Whole, prev, Members(Whole, VoiceList, Null) \cup {VoiceList})
            /\ mixed \in Members(Whole, VoiceList, Null)
        BY <1>2, <1>4
      <4>2. \E B \in SUBSET (Members(Whole, VoiceList, Null) \cup {VoiceList}) :
                /\ VoiceList \in B /\ Whole[mixed] \in B /\ mixed \notin B
                /\ \A x \in B \ {VoiceList} : Whole[x] \in B
        BY <4>1, BehindMember
      <4>3. QED BY <1>4, <4>2
    <3>3. /\ T \cap B \in SUBSET (Playing \cup {VoiceList})
          /\ VoiceList \in T \cap B /\ mixed' \in T \cap B
      BY <1>1, <1>2, <1>4, <3>1, <3>2
    <3>4. ASSUME NEW x \in (T \cap B) \ {VoiceList}
          PROVE  next'[x] \in T \cap B /\ ~LastPage(x)'
      <4>1. x \in Playing \ {mixed} /\ Whole[x] = next[x] /\ next'[x] = next[x]
        BY <1>1, <1>4, <3>1, <3>2
      <4>2. QED BY <1>7, <3>1, <3>2, <4>1
    <3>5. QED BY <3>3, <3>4
  <2>3. QED BY <1>1, <1>5, <2>1, <2>2 DEF InterruptInv
<1>9. DataInv' /\ RestInv' /\ ListInv' /\ ProgramInv' /\ HandleInv'
  BY <1>1, <1>5, <1>6 DEF IInv, DataInv, RestInv, ListInv, ProgramInv, HandleInv,
                          HandlesAreUnique
<1>10. QED BY <1>8, <1>9 DEF IInv

\* MV_Init: the voices in any order become the pool.
LEMMA InitLists ==
    ASSUME NEW n \in Nat \ {0}, NEW pool \in [1..n -> Voice],
           NEW index \in [Voice -> 1..n],
           \A v \in Voice : pool[index[v]] = v,
           \A i \in 1..n : index[pool[i]] = i,
           NEW g, NEW h,
           g \in [Cell -> Cell], h \in [Cell -> Cell],
           g[VoiceList] = VoiceList, h[VoiceList] = VoiceList,
           g[VoicePool] = pool[1], h[VoicePool] = pool[n],
           \A v \in Voice :
               /\ g[v] = IF index[v] = n THEN VoicePool ELSE pool[index[v] + 1]
               /\ h[v] = IF index[v] = 1 THEN VoicePool ELSE pool[index[v] - 1]
    PROVE  Linked(g, h, {}, Voice)
<1>1. /\ VoicePool \notin Voice /\ VoiceList \notin Voice /\ VoiceList # VoicePool
      /\ Null \notin Cell /\ VoiceList \in Cell /\ VoicePool \in Cell /\ Voice \subseteq Cell
  BY ConstantsAssumption DEF Cell
<1>2. 1 \in 1..n /\ n \in 1..n
  OBVIOUS
<1>3. Members(g, VoiceList, Null) = {}
  <2>1. VoiceList \in DOMAIN g /\ g[VoiceList] \in {VoiceList, Null}
    BY <1>1
  <2>2. QED BY <2>1, NoMembers
<1>4. Ring(g, h, {VoiceList})
  BY DEF Ring
<1>5. Ring(g, h, Voice \cup {VoicePool})
  <2>1. /\ g[VoicePool] \in Voice /\ h[g[VoicePool]] = VoicePool
        /\ h[VoicePool] \in Voice /\ g[h[VoicePool]] = VoicePool
    <3>1. index[pool[1]] = 1 /\ index[pool[n]] = n
      BY <1>2
    <3>2. pool[1] \in Voice /\ pool[n] \in Voice
      BY <1>2
    <3>3. h[pool[1]] = VoicePool /\ g[pool[n]] = VoicePool
      BY <3>1, <3>2
    <3>4. QED BY <3>2, <3>3
  <2>2. ASSUME NEW v \in Voice
        PROVE  g[v] \in Voice \cup {VoicePool} /\ h[g[v]] = v
    <3>1. index[v] \in 1..n /\ pool[index[v]] = v
      OBVIOUS
    <3>2. CASE index[v] = n
      <4>1. g[v] = VoicePool
        BY <3>1, <3>2
      <4>2. QED BY <3>1, <3>2, <4>1
    <3>3. CASE index[v] # n
      <4>1. index[v] + 1 \in 1..n /\ (index[v] + 1) - 1 = index[v]
        BY <3>1, <3>3
      <4>2. /\ g[v] = pool[index[v] + 1] /\ g[v] \in Voice
            /\ index[g[v]] = index[v] + 1
        BY <4>1
      <4>3. h[g[v]] = pool[index[v]]
        BY <3>1, <4>1, <4>2
      <4>4. QED BY <3>1, <4>2, <4>3
    <3>4. QED BY <3>2, <3>3
  <2>3. ASSUME NEW v \in Voice
        PROVE  h[v] \in Voice \cup {VoicePool} /\ g[h[v]] = v
    <3>1. index[v] \in 1..n /\ pool[index[v]] = v
      OBVIOUS
    <3>2. CASE index[v] = 1
      <4>1. h[v] = VoicePool
        BY <3>1, <3>2
      <4>2. QED BY <3>1, <3>2, <4>1
    <3>3. CASE index[v] # 1
      <4>1. index[v] - 1 \in 1..n /\ (index[v] - 1) + 1 = index[v]
        BY <3>1, <3>3
      <4>2. /\ h[v] = pool[index[v] - 1] /\ h[v] \in Voice
            /\ index[h[v]] = index[v] - 1
        BY <4>1
      <4>3. g[h[v]] = pool[index[v]]
        BY <3>1, <4>1, <4>2
      <4>4. QED BY <3>1, <4>2, <4>3
    <3>4. QED BY <3>2, <3>3
  <2>4. QED BY <2>1, <2>2, <2>3 DEF Ring
<1>6. Members(g, VoicePool, Null) = Voice
  <2>1. Members(g, VoicePool, Null) \subseteq Voice
    <3>1. Closed(g, VoicePool, Null, Voice \cup {VoicePool})
      BY <1>1, <1>5 DEF Closed, Ring
    <3>2. QED BY <3>1, MembersLeast
  <2>2. ASSUME NEW S \in SUBSET DOMAIN g, VoicePool \in S, \A x \in S : g[x] \in S \cup {Null}
        PROVE  Voice \subseteq S
    <3> DEFINE T == {i \in 1..n : pool[i] \notin S}
    <3>1. \A x \in S : g[x] \in S
      BY <1>1, <2>2
    <3>2. SUFFICES ASSUME T # {} PROVE FALSE
      <4>1. ASSUME NEW v \in Voice, v \notin S, T = {} PROVE FALSE
        <5>1. index[v] \in 1..n /\ pool[index[v]] = v
          OBVIOUS
        <5>2. QED BY <4>1, <5>1
      <4>2. QED BY <4>1
    <3>3. PICK i \in T : \A j \in T : i <= j
      <4>1. T \in SUBSET Nat
        OBVIOUS
      <4>2. QED BY <3>2, <4>1, LeastNat
    <3>4. CASE i = 1
      BY <2>2, <3>1, <3>3, <3>4
    <3>5. CASE i # 1
      <4>1. i - 1 \in 1..n /\ i \in 1..n /\ (i - 1) + 1 = i
        BY <3>3, <3>5
      <4>2. i - 1 \notin T
        BY <3>3, <4>1
      <4>3. pool[i - 1] \in S /\ pool[i - 1] \in Voice /\ index[pool[i - 1]] = i - 1
        BY <4>1, <4>2
      <4>4. g[pool[i - 1]] = pool[i]
        BY <4>1, <4>3
      <4>5. QED BY <3>1, <3>3, <4>3, <4>4
    <3>6. QED BY <3>4, <3>5
  <2>3. Voice \subseteq Members(g, VoicePool, Null)
    BY <1>1, <2>2 DEF Members
  <2>4. QED BY <2>1, <2>3
<1>7. QED
  <2>1. /\ ({} \cup {VoiceList}) \cap (Voice \cup {VoicePool}) = {}
        /\ {} \cup {VoiceList} = {VoiceList}
    BY <1>1
  <2>2. QED BY <1>1, <1>3, <1>4, <1>5, <1>6, <2>1 DEF Linked, TwoLists

LEMMA InitStep ==
    ASSUME IInv,
           NEW pool \in [1..Cardinality(Voice) -> Voice],
           \A v \in Voice : \E i \in DOMAIN pool : pool[i] = v,
           InitVoices(pool)
    PROVE  IInv' /\ Playing' = {}
<1> DEFINE n == Cardinality(Voice)
           at == [i \in 0..(n + 1) |-> IF i \in 1..n THEN pool[i] ELSE VoicePool]
           index == [v \in Voice |-> CHOOSE i \in 1..n : pool[i] = v]
<1>1. n \in Nat \ {0}
  BY ConstantsAssumption, FS_CardinalityType, FS_EmptySet
<1>2. /\ ipc = "idle" /\ mpc = "run" /\ installed' /\ ipc' = "idle" /\ mpc' = "run"
      /\ UNCHANGED <<handle, priority, left, lastHandle, asked, ret>>
  BY DEF InitVoices, At, data, main, isr
<1>3. Len(pool) = n
  BY <1>1
<1>4. /\ next' = [c \in Cell |-> IF c \in Voice THEN at[index[c] + 1]
                                 ELSE IF c = VoicePool THEN at[1] ELSE c]
      /\ prev' = [c \in Cell |-> IF c \in Voice THEN at[index[c] - 1]
                                 ELSE IF c = VoicePool THEN at[n] ELSE c]
  BY <1>3 DEF InitVoices
<1>5. pool \in Injection(1..n, Voice)
  <2>1. pool \in Surjection(1..n, Voice)
    BY DEF Surjection
  <2>2. IsFiniteSet(1..n) /\ Cardinality(1..n) = n
    BY <1>1, FS_Interval
  <2>3. QED BY <2>1, <2>2, FS_SurjSameCardinalityImpliesInj
<1>6. \A i, j \in 1..n : pool[i] = pool[j] => i = j
  BY <1>5 DEF Injection, IsInjective
<1>7. /\ index \in [Voice -> 1..n]
      /\ \A v \in Voice : pool[index[v]] = v
      /\ \A i \in 1..n : index[pool[i]] = i
  <2>1. \A v \in Voice : index[v] \in 1..n /\ pool[index[v]] = v
    OBVIOUS
  <2> HIDE DEF index
  <2>2. \A i \in 1..n : index[pool[i]] = i
    BY <1>6, <2>1
  <2>3. index \in [Voice -> 1..n]
    BY <2>1 DEF index
  <2>4. QED BY <2>1, <2>2, <2>3
<1> HIDE DEF index, n
<1>8. /\ \A i \in 1..n : at[i] = pool[i] /\ at[i] \in Voice
      /\ at[0] = VoicePool /\ at[n + 1] = VoicePool
  BY <1>1 DEF n
<1> HIDE DEF at
<1>9. /\ VoicePool \notin Voice /\ VoiceList \notin Voice /\ VoiceList # VoicePool
      /\ VoiceList \in Cell /\ VoicePool \in Cell /\ Voice \subseteq Cell
  BY ConstantsAssumption DEF Cell
<1> DEFINE g == next'
           h == prev'
<1>10. \A v \in Voice :
          /\ g[v] = IF index[v] = n THEN VoicePool ELSE pool[index[v] + 1]
          /\ h[v] = IF index[v] = 1 THEN VoicePool ELSE pool[index[v] - 1]
  <2>1. TAKE v \in Voice
  <2>2. index[v] \in 1..n
    BY <1>7
  <2>3. g[v] = at[index[v] + 1] /\ h[v] = at[index[v] - 1]
    BY <1>4, <1>9
  <2>4. index[v] # n => at[index[v] + 1] = pool[index[v] + 1]
    BY <1>1, <1>8, <2>2
  <2>5. index[v] # 1 => at[index[v] - 1] = pool[index[v] - 1]
    BY <1>1, <1>8, <2>2
  <2>6. QED BY <1>8, <2>2, <2>3, <2>4, <2>5
<1>11. /\ g[VoiceList] = VoiceList /\ h[VoiceList] = VoiceList
       /\ g[VoicePool] = pool[1] /\ h[VoicePool] = pool[n]
  BY <1>1, <1>4, <1>8, <1>9
<1>12. g \in [Cell -> Cell] /\ h \in [Cell -> Cell]
  <2>1. \A i \in 1..n : pool[i] \in Voice
    BY <1>8
  <2>2. ASSUME NEW c \in Cell PROVE g[c] \in Cell /\ h[c] \in Cell
    <3>1. CASE c \in Voice
      <4>1. index[c] \in 1..n
        BY <1>7, <3>1
      <4>2. index[c] # n => index[c] + 1 \in 1..n
        BY <1>1, <4>1
      <4>3. index[c] # 1 => index[c] - 1 \in 1..n
        BY <1>1, <4>1
      <4>4. QED BY <1>9, <1>10, <2>1, <3>1, <4>2, <4>3
    <3>2. CASE c \in {VoiceList, VoicePool}
      <4>1. pool[1] \in Voice /\ pool[n] \in Voice
        BY <1>1, <2>1
      <4>2. QED BY <1>9, <1>11, <3>2, <4>1
    <3>3. QED BY <3>1, <3>2 DEF Cell
  <2>3. QED BY <1>4, <2>2
<1>13. Linked(g, h, {}, Voice)
  <2>1. pool \in [1..n -> Voice]
    BY DEF n
  <2> HIDE DEF g, h
  <2>2. QED BY <1>1, <1>7, <1>10, <1>11, <1>12, <2>1, InitLists
<1>14. ListInv' /\ Playing' = {}
  <2>1. Hand' = {} /\ (mpc # "unlink2")' /\ Linked(next', prev', {}, Voice)
    BY <1>2, <1>13 DEF Hand
  <2>2. QED BY <2>1, ToLists
<1>15. QED
  BY <1>2, <1>14 DEF IInv, DataInv, RestInv, ProgramInv, InterruptInv, HandleInv,
                     HandlesAreUnique

LEMMA InitHolds == Init => IInv
<1>1. SUFFICES ASSUME Init PROVE IInv
  OBVIOUS
<1>2. /\ mpc = "run" /\ ipc = "idle" /\ card = "off" /\ ~installed
      /\ VoiceList \in DOMAIN next /\ next[VoiceList] \in {VoiceList, Null}
  BY <1>1 DEF Init, Cell
<1>3. Playing = {}
  BY <1>2, NoMembers DEF Playing
<1>4. DataInv
  BY <1>1, ConstantsAssumption DEF Init, DataInv
<1>5. QED
  BY <1>2, <1>3, <1>4 DEF IInv, RestInv, ListInv, ProgramInv, InterruptInv, HandleInv,
                          HandlesAreUnique

LEMMA NextHolds ==
    ASSUME IInv, Untroubled, [Next]_vars PROVE IInv'
<1>1. CASE MainStep
  <2>1. CASE KillStop
    BY <2>1, KillStopStep
  <2>2. CASE \/ KillCallBack \/ KillAllTest \/ KillAllFind \/ AllocCheck \/ AllocFirst
             \/ EndLoopingStore \/ BeginRecording
    BY <2>2, CalmSteps
  <2>3. CASE AllocUnlink1
    BY <2>3, Unlink1Step
  <2>4. CASE AllocUnlink2
    BY <2>4, Unlink2Step
  <2>5. CASE AllocUnlink3
    BY <2>5, Unlink3Step
  <2>6. CASE AllocNumber
    BY <2>6, NumberStep
  <2>7. CASE \E k \in Kinds, n \in 1..MaxPages : PlayVoice(k, n)
    BY <2>7, PlayStep
  <2>8. CASE Drain
    BY <2>8, DrainStep
  <2>9. CASE Shutdown
    BY <2>9, ShutdownStep
  <2>10. QED
    BY <1>1, <2>1, <2>2, <2>3, <2>4, <2>5, <2>6, <2>7, <2>8, <2>9 DEF MainStep
<1>2. CASE MainCall
  <2>1. CASE \E h \in MinHandle..MaxHandle : Kill(h) \/ EndLooping(h)
    BY <2>1, KillStep
  <2>2. CASE \E p \in Priorities : AllocVoice(p)
    BY <2>2, AllocVoiceStep
  <2>3. CASE KillAllVoices \/ StartRecording \/ StopRecord
    BY <2>3, CalmSteps
  <2>4. CASE \E pool \in {q \in [1..Cardinality(Voice) -> Voice] :
                            \A v \in Voice : \E i \in DOMAIN q : q[i] = v} : InitVoices(pool)
    BY <2>4, InitStep
  <2>5. QED BY <1>2, <2>1, <2>2, <2>3, <2>4 DEF MainCall
<1>3. CASE CardInterrupt
  BY <1>3, CardStep
<1>4. CASE IsrStep
  BY <1>4, EndsStep, GoesOnStep, EndStep DEF IsrStep
<1>5. CASE UNCHANGED vars
  <2>1. UNCHANGED <<next, prev, handle, priority, kind, left, lastHandle, installed, card,
                    mpc, voice, asked, ret, ipc, mixed>>
    BY <1>5 DEF vars, lists, data, state, main, isr
  <2>2. QED
    BY <2>1 DEF IInv, DataInv, RestInv, ListInv, ProgramInv, InterruptInv, HandleInv,
                HandlesAreUnique, Whole, Pool, Playing, Hand, LastPage
<1>6. QED BY <1>1, <1>2, <1>3, <1>4, <1>5 DEF Next

\* The invariant holds in every state the program reaches.
THEOREM Invariance ==
    ASSUME Untroubled PROVE Spec => []IInv
<1>1. Init => IInv
  BY InitHolds
<1>2. IInv /\ [Next]_vars => IInv'
  BY NextHolds
<1>3. QED BY <1>1, <1>2, PTL DEF Spec

\* No voice is lost and none is in two places: MV_AllocVoice, MV_StopVoice and the
\* interrupt move every voice of MV_Voices between the play list, the pool and the hand
\* of the main program, whatever they interrupt.
THEOREM VoicesKept ==
    ASSUME Untroubled PROVE Spec => []VoicesPartitioned
<1>1. IInv => VoicesPartitioned
  <2>1. SUFFICES ASSUME IInv, installed, mpc \notin {"unlink2", "unlink3"}
                 PROVE  /\ Playing \cup Free \cup Held = Voice
                        /\ Playing \cap Free = {} /\ (Playing \cup Free) \cap Held = {}
                        /\ Ring(next, prev, Playing \cup {VoiceList})
                        /\ Ring(next, prev, Free \cup {VoicePool})
    BY DEF VoicesPartitioned, Unlinking
  <2>2. /\ Linked(next, prev, Playing, Free)
        /\ Playing \cup Free \cup Hand = Voice /\ (Playing \cup Free) \cap Hand = {}
    BY <2>1, Settled DEF IInv
  <2>3. Held = Hand
    BY <2>1 DEF Held, Hand
  <2>4. QED BY <2>2, <2>3, LinkedFacts
<1>2. QED BY <1>1, Invariance, PTL

\* The handle that MV_AllocVoice returns names one sound, also after the handles have
\* wrapped: no two playing voices have the same.
THEOREM HandlesKept ==
    ASSUME Untroubled PROVE Spec => []HandlesAreUnique
<1>1. IInv => HandlesAreUnique
  BY DEF IInv, HandleInv
<1>2. QED BY <1>1, Invariance, PTL

-----------------------------------------------------------------------------
(* The callbacks.                                                          *)

\* A sound that plays has not been called back.  One that has stopped has been, or the
\* main program is about to; when MV_Shutdown gives up the list, none plays.
CalledInv ==
    /\ called \in [Cell -> 0..2]
    /\ \A v \in Playing : called[v] = 0
    /\ \A v \in Voice \ Playing : called[v] >= 1 \/ (mpc = "callback" /\ v = voice)
    /\ mpc = "callback" => voice \in Voice \ Playing
    /\ mpc = "down" => Playing = {}

\* Before MV_Init nothing plays.
LEMMA CalledInit == Init => CalledInv
<1>1. SUFFICES ASSUME Init PROVE CalledInv
  OBVIOUS
<1>2. IInv
  BY <1>1, InitHolds
<1>3. mpc = "run" /\ ~installed /\ called = [c \in Cell |-> 1] /\ Voice \subseteq Cell
  BY <1>1 DEF Init, Cell
<1>4. Playing = {}
  BY <1>2, <1>3 DEF IInv, RestInv
<1>5. QED BY <1>3, <1>4 DEF CalledInv

\* A step that starts and stops nothing.
LEMMA CalledCalm ==
    ASSUME CalledInv, called' = called, Playing' = Playing,
           \/ mpc' = mpc /\ voice' = voice
           \/ mpc \notin {"callback", "down"} /\ mpc' \notin {"callback", "down"}
    PROVE  CalledInv'
BY DEF CalledInv

\* A sound is called back once it does not play any more.
LEMMA CalledBack ==
    ASSUME CalledInv, Playing \subseteq Voice,
           NEW v \in Voice, CallBack(v), Playing' = Playing \ {v},
           \/ mpc' = mpc /\ voice' = voice
           \/ mpc = "callback" /\ v = voice /\ mpc' \notin {"callback", "down"}
    PROVE  CalledInv'
<1>1. called' = [called EXCEPT ![v] = IF @ = 2 THEN 2 ELSE @ + 1]
  BY DEF CallBack
<1>2. v \in Cell /\ Voice \subseteq Cell
  BY DEF Cell
<1>3. called' \in [Cell -> 0..2]
  BY <1>1, <1>2 DEF CalledInv
<1>4. called'[v] >= 1 /\ \A u \in Cell \ {v} : called'[u] = called[u]
  BY <1>1, <1>2 DEF CalledInv
<1>5. \A u \in Playing' : called'[u] = 0
  <2>1. TAKE u \in Playing'
  <2>2. u \in Cell /\ called[u] = 0 /\ u # v
    BY <1>2 DEF CalledInv
  <2>3. QED BY <1>4, <2>2
<1>6. ASSUME NEW u \in Voice \ Playing'
      PROVE  called'[u] >= 1 \/ (mpc' = "callback" /\ u = voice')
  <2>1. CASE u = v
    BY <1>4, <2>1
  <2>2. CASE u # v
    <3>1. u \in Voice \ Playing /\ u \in Cell /\ called'[u] = called[u]
      BY <1>2, <1>4, <2>2
    <3>2. QED BY <2>2, <3>1 DEF CalledInv
  <2>3. QED BY <2>1, <2>2
<1>7. QED BY <1>3, <1>5, <1>6 DEF CalledInv

\* Every step: KillStop leaves the callback to KillCallBack, all others that stop a sound
\* call it back themselves.
LEMMA CalledStep ==
    ASSUME IInv, CalledInv, Untroubled, [Next]_vars
    PROVE  CalledInv'
<1>0. Playing \subseteq Voice
  <2>1. CASE installed
    BY <2>1, LinkedFacts DEF IInv, ListInv
  <2>2. CASE ~installed
    BY <2>2 DEF IInv, RestInv
  <2>3. QED BY <2>1, <2>2
<1>1. CASE KillStop
  <2>1. /\ mpc = "stop" /\ mpc' = "callback" /\ voice' = voice /\ voice \in Voice
        /\ called' = called /\ Playing' = Playing \ {voice}
    BY <1>1, KillStopStep DEF KillStop, At, IInv, ProgramInv
  <2>2. QED BY <2>1 DEF CalledInv
<1>2. CASE KillCallBack
  <2>1. /\ mpc = "callback" /\ CallBack(voice) /\ mpc' \notin {"callback", "down"}
        /\ voice \in Voice \ Playing /\ Playing' = Playing
    BY <1>2 DEF KillCallBack, At, CalledInv, IInv, DataInv, lists, Playing
  <2>2. QED BY <1>0, <2>1, CalledBack
<1>3. CASE KillAllTest
  <2>1. CASE next[VoiceList] = VoiceList
    <3>1. installed /\ mpc # "unlink2"
      BY <1>3 DEF KillAllTest, At, IInv, RestInv
    <3>2. Linked(next, prev, Playing, Free)
      BY <3>1, Settled DEF IInv
    <3>3. Playing = {}
      BY <2>1, <3>2, LinkedFacts
    <3>4. /\ called' = called /\ Playing' = Playing
          /\ mpc # "callback" /\ mpc' # "callback"
      BY <1>3 DEF KillAllTest, At, lists, Playing, ghost
    <3>5. QED BY <3>3, <3>4 DEF CalledInv
  <2>2. CASE next[VoiceList] # VoiceList
    BY <1>3, <2>2, CalledCalm DEF KillAllTest, At, lists, Playing, ghost
  <2>3. QED BY <2>1, <2>2
<1>4. CASE \/ KillAllFind \/ AllocCheck \/ AllocFirst \/ EndLoopingStore \/ BeginRecording
           \/ KillAllVoices \/ StartRecording \/ StopRecord \/ AllocNumber
           \/ \E h \in MinHandle..MaxHandle : Kill(h) \/ EndLooping(h)
  <2>1. called' = called /\ Playing' = Playing
    BY <1>4 DEF KillAllFind, AllocCheck, AllocFirst, EndLoopingStore, BeginRecording,
       KillAllVoices, StartRecording, StopRecord, AllocNumber, Kill, EndLooping, lists,
       Playing, ghost
  <2>2. mpc \notin {"callback", "down"} /\ mpc' \notin {"callback", "down"}
    BY <1>4 DEF KillAllFind, AllocCheck, AllocFirst, EndLoopingStore, BeginRecording,
       KillAllVoices, StartRecording, StopRecord, AllocNumber, Kill, EndLooping, At, main
  <2>3. QED BY <2>1, <2>2, CalledCalm
<1>5. CASE AllocUnlink1 \/ AllocUnlink2 \/ AllocUnlink3
  <2>1. Playing' = Playing
    BY <1>5, Unlink1Step, Unlink2Step, Unlink3Step
  <2>2. /\ called' = called /\ mpc \notin {"callback", "down"}
        /\ mpc' \notin {"callback", "down"}
    BY <1>5 DEF AllocUnlink1, AllocUnlink2, AllocUnlink3, At, ghost
  <2>3. QED BY <2>1, <2>2, CalledCalm
<1>6. CASE \E p \in Priorities : AllocVoice(p)
  <2>1. Playing' = Playing
    BY <1>6, AllocVoiceStep
  <2>2. /\ called' = called /\ mpc \notin {"callback", "down"}
        /\ mpc' \notin {"callback", "down"}
    BY <1>6 DEF AllocVoice, At, ghost
  <2>3. QED BY <2>1, <2>2, CalledCalm
<1>7. CASE \E k \in Kinds, n \in 1..MaxPages : PlayVoice(k, n)
  <2>1. Playing' = Playing \cup {voice} /\ voice \in Cell
    <3>1. installed /\ mpc = "play"
      BY <1>7 DEF PlayVoice, At, IInv, RestInv
    <3>2. voice \in Voice
      BY <3>1 DEF IInv, ListInv, Hand
    <3>3. QED BY <1>7, <3>2, PlayStep DEF Cell
  <2>2. /\ called' = [called EXCEPT ![voice] = 0] /\ mpc = "play" /\ mpc' = "run"
    BY <1>7 DEF PlayVoice, At
  <2>3. called' \in [Cell -> 0..2]
    BY <2>1, <2>2 DEF CalledInv
  <2>4. Voice \subseteq Cell
    BY DEF Cell
  <2>5. QED BY <1>0, <2>1, <2>2, <2>3, <2>4 DEF CalledInv
<1>8. CASE Drain
  <2>1. /\ next[VoiceList] \in Playing /\ Playing' = Playing \ {next[VoiceList]}
        /\ CallBack(next[VoiceList]) /\ mpc' = mpc /\ voice' = voice
    BY <1>8, DrainStep DEF Drain, main
  <2>2. QED BY <1>0, <2>1, CalledBack
<1>9. CASE Shutdown
  <2>1. Playing = {} /\ Playing' = {} /\ called' = called /\ mpc = "down" /\ mpc' = "run"
    BY <1>9, ShutdownStep DEF Shutdown, At, ghost, CalledInv
  <2>2. QED BY <2>1 DEF CalledInv
<1>10. CASE \E pool \in {q \in [1..Cardinality(Voice) -> Voice] :
                            \A v \in Voice : \E i \in DOMAIN q : q[i] = v} : InitVoices(pool)
  <2>1. Playing = {} /\ called' = called /\ mpc' = mpc /\ voice' = voice
    BY <1>10 DEF InitVoices, IInv, RestInv, ghost, main
  <2>2. Playing' = {}
    BY <1>10, InitStep
  <2>3. QED BY <2>1, <2>2, CalledCalm
<1>11. CASE CardInterrupt \/ EndOfInterrupt \/ UNCHANGED vars
  <2>1. called' = called /\ Playing' = Playing /\ mpc' = mpc /\ voice' = voice
    BY <1>11 DEF CardInterrupt, EndOfInterrupt, vars, ghost, main, lists, Playing
  <2>2. QED BY <2>1, CalledCalm
<1>12. CASE MixVoice
  <2>1. mpc' = mpc /\ voice' = voice
    BY <1>12 DEF MixVoice, main
  <2>2. CASE LastPage(mixed)
    <3>1. mixed \in Playing /\ Playing' = Playing \ {mixed} /\ CallBack(mixed)
      BY <1>12, <2>2, EndsStep DEF MixVoice
    <3>2. QED BY <1>0, <2>1, <3>1, CalledBack
  <2>3. CASE ~LastPage(mixed)
    <3>1. called' = called /\ Playing' = Playing
      BY <1>12, <2>3 DEF MixVoice, ghost, lists, Playing
    <3>2. QED BY <2>1, <3>1, CalledCalm
  <2>4. QED BY <2>2, <2>3
<1>13. QED
  BY <1>1, <1>2, <1>3, <1>4, <1>5, <1>6, <1>7, <1>8, <1>9, <1>10, <1>11, <1>12
  DEF Next, MainStep, MainCall, IsrStep

\* Every sound that stops is called back, by the interrupt, MV_Kill or MV_StopPlayback,
\* and none before.
THEOREM CalledBackCorrect ==
    ASSUME Untroubled PROVE Spec => []CalledBackWhenStopped
<1>1. CalledInv => CalledBackWhenStopped
  BY DEF CalledInv, CalledBackWhenStopped
<1>2. IInv /\ CalledInv /\ [Next]_vars => CalledInv'
  BY CalledStep
<1>3. QED BY <1>1, <1>2, CalledInit, Invariance, PTL DEF Spec

-----------------------------------------------------------------------------
(* The order of the play list, and the voice that is replaced.             *)

\* u goes before v in the play list.
Above(u, v) ==
    \/ priority[u] > priority[v]
    \/ priority[u] = priority[v] /\ OlderThan(u, v)

\* The play list goes from the highest priority to the lowest, and among equals from the
\* oldest sound to the newest.
SortedInv ==
    /\ older \subseteq Playing \X Playing
    /\ \A u, v, w \in Playing : OlderThan(u, v) /\ OlderThan(v, w) => OlderThan(u, w)
    /\ \A u \in Playing : next[u] \in Playing => Above(u, next[u])

\* The voice that is to be replaced; and only MV_AllocVoice goes on with a check.
ReplaceInv ==
    /\ ReplacesOldestLowest
    /\ mpc \in {"head", "find"} => ret \in {"all", "shutdown"}

\* The play list, forwards and backwards.
LEMMA PlayCircle ==
    ASSUME NEW n, NEW p, NEW R, NEW Q, Linked(n, p, R, Q)
    PROVE  /\ Circle(n, p, VoiceList, Null, R \cup {VoiceList})
           /\ Circle(p, n, VoiceList, Null, R \cup {VoiceList})
<1>1. /\ n \in [Cell -> Cell] /\ p \in [Cell -> Cell] /\ Null \notin Cell
      /\ R = Members(n, VoiceList, Null) /\ Ring(n, p, R \cup {VoiceList})
      /\ VoiceList \in Cell /\ R \subseteq Voice
  BY LinkedFacts
<1>2. /\ VoiceList \in DOMAIN n /\ Null \notin DOMAIN n
      /\ \A x \in DOMAIN n : n[x] \in DOMAIN n \cup {Null}
      /\ Ring(n, p, Members(n, VoiceList, Null) \cup {VoiceList})
  BY <1>1
<1>3. Circle(n, p, VoiceList, Null, Members(n, VoiceList, Null) \cup {VoiceList})
  BY <1>2, CircleOfMembers
<1>4. R \cup {VoiceList} \subseteq DOMAIN p /\ Null \notin DOMAIN p
  BY <1>1 DEF Cell
<1>5. Circle(n, p, VoiceList, Null, R \cup {VoiceList})
  BY <1>1, <1>3
<1>6. Circle(p, n, VoiceList, Null, R \cup {VoiceList})
  BY <1>4, <1>5, CircleBack
<1>7. QED BY <1>5, <1>6

\* MV_PlayVoice finds the last voice of the priority or more.
LEMMA PlaceRight ==
    ASSUME IInv, installed, mpc # "unlink2"
    PROVE  /\ Place(asked) \in Playing \cup {VoiceList}
           /\ Place(asked) \in Playing => priority[Place(asked)] >= asked
           /\ next[Place(asked)] \in Playing => priority[next[Place(asked)]] < asked
<1> DEFINE S == {v \in Playing : priority[v] >= asked}
           L == Playing \cup {VoiceList}
           M == Met(prev, VoiceList, Null, S)
           h == FirstIn(prev, VoiceList, Null, S)
<1>0. Place(asked) = h
  BY DEF Place
<1>1. Linked(next, prev, Playing, Free)
  BY Settled DEF IInv
<1>2. /\ Circle(prev, next, VoiceList, Null, L) /\ Ring(next, prev, L)
      /\ VoiceList \notin Playing /\ Playing \subseteq Cell
  BY <1>1, PlayCircle, LinkedFacts DEF Cell
<1>3. S \subseteq Playing /\ h \in S \cup {VoiceList}
  BY FirstInOf
<1>4. \A v \in Playing : v \notin S => priority[v] < asked
  BY <1>2 DEF IInv, DataInv
<1>5. VoiceList \in M /\ M \subseteq L /\ \A x \in M \ S : prev[x] \in M
  BY <1>2, MetGoesOn
<1> HIDE DEF S, M
<1>6. ASSUME next[h] \in Playing, next[h] \in S PROVE FALSE
  <2>1. h \in L /\ prev[next[h]] = h
    BY <1>2, <1>3 DEF Ring
  <2>2. CASE S \cap M = {}
    <3>1. h = VoiceList
      BY <2>2 DEF FirstIn, M
    <3>2. M \in SUBSET L /\ VoiceList \in M /\ \A x \in M : prev[x] \in M
      BY <1>5, <2>2
    <3>3. L \subseteq M
      BY <1>2, <3>2 DEF Circle
    <3>4. QED BY <1>6, <2>2, <3>3
  <2>3. CASE S \cap M # {}
    <3>1. h \in S \cap M
      BY <2>3 DEF FirstIn, M
    <3> DEFINE T == M \ {h}
    <3>2. T \in SUBSET L /\ VoiceList \in T
      BY <1>2, <1>3, <1>5, <3>1
    <3>3. ASSUME NEW x \in T \ S PROVE prev[x] \in T
      <4>1. x \in L /\ prev[x] \in M
        BY <1>5
      <4>2. next[prev[x]] = x
        BY <1>2, <4>1 DEF Ring
      <4>3. QED BY <1>6, <4>1, <4>2
    <3> HIDE DEF T
    <3>4. M \subseteq T
      BY <1>2, <3>2, <3>3, MetLeast DEF M
    <3>5. QED BY <3>1, <3>4 DEF T
  <2>4. QED BY <2>2, <2>3
<1>7. h \in Playing \cup {VoiceList} /\ (h \in Playing => priority[h] >= asked)
  BY <1>2, <1>3 DEF S
<1> HIDE DEF h
<1>8. next[h] \in Playing => priority[next[h]] < asked
  BY <1>4, <1>6
<1>9. QED BY <1>0, <1>7, <1>8

\* The first voice of the least priority is the oldest of it.
LEMMA VictimRight ==
    ASSUME IInv, SortedInv, installed, mpc = "run", PoolEmpty
    PROVE  \A u \in Playing \ {Victim} : \/ priority[Victim] < priority[u]
                                         \/ /\ priority[Victim] = priority[u]
                                            /\ OlderThan(Victim, u)
<1> DEFINE S == {v \in Playing : \A u \in Playing : priority[v] <= priority[u]}
           L == Playing \cup {VoiceList}
           M == Met(next, VoiceList, Null, S)
           w == Victim
<1>1. Linked(next, prev, Playing, Free)
  BY Settled DEF IInv
<1>2. /\ Circle(next, prev, VoiceList, Null, L) /\ Ring(next, prev, L)
      /\ VoiceList \notin Playing /\ Playing \subseteq Cell
  BY <1>1, PlayCircle, LinkedFacts DEF Cell
<1>3. w \in Playing
  BY VictimPlays
<1>4. w \in S \cap M
  BY <1>2, <1>3 DEF Victim, FirstIn
<1>5. VoiceList \in M /\ M \subseteq L /\ \A x \in M \ S : next[x] \in M
  BY <1>2, MetGoesOn
<1>6. ASSUME NEW x \in S \cap M PROVE x = w
  <2> HIDE DEF S, w
  <2>1. QED BY <1>2, <1>4, MetOne
<1>7. \A v \in Playing : priority[v] \in Nat
  BY <1>2 DEF IInv, DataInv
<1> DEFINE B == {x \in S : x = w \/ OlderThan(w, x)}
           T == M \cup B
<1>8. T \in SUBSET L /\ VoiceList \in T
  BY <1>5
<1>9. ASSUME NEW x \in B PROVE next[x] \in T
  <2>1. x \in Playing /\ next[x] \in L
    BY <1>2 DEF Ring
  <2>2. CASE next[x] = VoiceList
    BY <1>5, <2>2
  <2>3. CASE next[x] \in Playing
    <3>1. Above(x, next[x])
      BY <2>1, <2>3 DEF SortedInv
    <3>2. priority[x] <= priority[next[x]]
      BY <2>3
    <3>3. priority[x] = priority[next[x]] /\ OlderThan(x, next[x])
      BY <1>7, <2>1, <2>3, <3>1, <3>2 DEF Above
    <3>4. next[x] \in S
      BY <2>3, <3>3
    <3>5. OlderThan(w, next[x])
      BY <1>3, <2>1, <2>3, <3>3 DEF SortedInv
    <3>6. QED BY <3>4, <3>5
  <2>4. QED BY <2>1, <2>2, <2>3
<1>10. ASSUME NEW x \in T PROVE next[x] \in T
  <2>1. CASE x \in M \ S
    BY <1>5, <2>1
  <2>2. CASE x \in M \cap S
    <3>1. x \in B
      BY <1>6, <2>2
    <3>2. QED BY <1>9, <3>1
  <2>3. QED BY <1>9, <2>1, <2>2
<1>11. L \subseteq T
  <2> HIDE DEF T
  <2>1. QED BY <1>2, <1>8, <1>10 DEF Circle
<1>12. ASSUME NEW u \in Playing \ {w}
       PROVE  priority[w] < priority[u] \/ (priority[w] = priority[u] /\ OlderThan(w, u))
  <2>1. CASE u \in S
    <3>1. u \in B
      BY <1>6, <1>11, <2>1
    <3>2. priority[w] = priority[u]
      BY <1>4, <1>7, <2>1
    <3>3. QED BY <3>1, <3>2
  <2>2. CASE u \notin S
    <3>1. PICK v \in Playing : ~(priority[u] <= priority[v])
      BY <2>2
    <3>2. priority[w] <= priority[v]
      BY <1>4
    <3>3. QED BY <1>3, <1>7, <3>1, <3>2
  <2>3. QED BY <2>1, <2>2
<1>13. QED BY <1>12

\* LL_RemoveNode of a free voice does not touch the play list ...
LEMMA TakeLinks ==
    ASSUME NEW n, NEW p, NEW R, NEW Q, Linked(n, p, R, Q), NEW v \in Q
    PROVE  \A x \in R : RemovedNext(n, p, v)[x] = n[x]
<1>1. /\ n \in [Cell -> Cell] /\ R \subseteq Cell /\ R \cap Q = {}
      /\ VoicePool \notin R /\ Ring(n, p, Q \cup {VoicePool})
  BY LinkedFacts DEF Cell
<1>2. p[v] \in Q \cup {VoicePool}
  BY <1>1 DEF Ring
<1>3. QED BY <1>1, <1>2 DEF RemovedNext

\* ... and MV_StopVoice leaves the links of the voices that go on, except that it closes
\* the gap.
LEMMA StopLinks ==
    ASSUME NEW n, NEW p, NEW R, NEW Q, Linked(n, p, R, Q), NEW v \in R \cup Q
    PROVE  \A x \in R \ {v} :
               AddedNext(RemovedNext(n, p, v), RemovedPrev(n, p, v), VoicePool, v)[x]
                 = IF n[x] = v THEN n[v] ELSE n[x]
<1>1. /\ n \in [Cell -> Cell] /\ p \in [Cell -> Cell] /\ R \subseteq Cell /\ v \in Cell
      /\ R \cap Q = {} /\ VoicePool \in Cell /\ VoicePool \notin R /\ VoiceList \notin Q
      /\ Ring(n, p, Q \cup {VoicePool}) /\ Ring(n, p, R \cup {VoiceList})
      /\ VoicePool # VoiceList
  BY LinkedFacts DEF Cell
<1> DEFINE m == RemovedNext(n, p, v)
           l == RemovedPrev(n, p, v)
<1>2. l[VoicePool] \notin R \ {v}
  <2>1. Linked(m, l, R \ {v}, Q \ {v})
    BY TakeLists
  <2> HIDE DEF m, l
  <2>2. Ring(m, l, (Q \ {v}) \cup {VoicePool})
    BY <2>1, LinkedFacts
  <2>3. l[VoicePool] \in (Q \ {v}) \cup {VoicePool}
    BY <2>2 DEF Ring
  <2>4. QED BY <1>1, <2>3
<1>3. \A x \in R \ {v} : m[x] = IF n[x] = v THEN n[v] ELSE n[x]
  <2>1. \A x \in R \ {v} : n[x] = v <=> x = p[v]
    BY <1>1 DEF Ring
  <2>2. QED BY <1>1, <2>1 DEF RemovedNext
<1>4. m \in [Cell -> Cell]
  BY <1>1 DEF RemovedNext, Ring
<1> HIDE DEF m, l
<1>5. \A x \in R \ {v} : AddedNext(m, l, VoicePool, v)[x] = m[x]
  BY <1>1, <1>2, <1>4 DEF AddedNext
<1>6. QED BY <1>3, <1>5 DEF m, l

\* A step that changes neither the play list nor its priorities.
LEMMA SortedCalm ==
    ASSUME SortedInv, Playing' = Playing, older' = older,
           \A x \in Playing : next'[x] = next[x] /\ priority'[x] = priority[x]
    PROVE  SortedInv'
BY DEF SortedInv, Above, OlderThan

\* A voice leaves: the one before it goes before the one behind it.
LEMMA SortedStop ==
    ASSUME IInv, SortedInv, installed, mpc # "unlink2", NEW v \in Playing \cup Free,
           StopVoice(v), Playing' = Playing \ {v}, priority' = priority
    PROVE  SortedInv'
<1>1. Linked(next, prev, Playing, Free)
  BY Settled DEF IInv
<1>2. older' = {o \in older : v \notin {o[1], o[2]}}
  BY DEF StopVoice
<1>3. \A x \in Playing \ {v} : next'[x] = IF next[x] = v THEN next[v] ELSE next[x]
  BY <1>1, StopLinks DEF StopVoice
<1>4. older' \subseteq Playing' \X Playing'
  BY <1>2 DEF SortedInv
<1>5. \A x, y \in Playing' : OlderThan(x, y)' <=> OlderThan(x, y)
  BY <1>2 DEF OlderThan
<1>6. /\ Ring(next, prev, Playing \cup {VoiceList}) /\ Playing \cap Free = {}
      /\ VoiceList \notin Free /\ VoiceList \notin Playing
      /\ \A x \in Playing : priority[x] \in Nat
  <2>1. Playing \subseteq Cell
    BY <1>1, LinkedFacts DEF Cell
  <2>2. QED BY <1>1, <2>1, LinkedFacts DEF IInv, DataInv
<1>7. ASSUME NEW x \in Playing', next'[x] \in Playing' PROVE Above(x, next[x])'
  <2>1. x \in Playing \ {v} /\ next[x] \in Playing \cup {VoiceList}
    BY <1>6 DEF Ring
  <2>2. CASE next[x] # v
    <3>1. next'[x] = next[x] /\ Above(x, next[x])
      BY <1>3, <1>7, <2>1, <2>2 DEF SortedInv
    <3>2. QED BY <1>5, <1>7, <3>1 DEF Above
  <2>3. CASE next[x] = v
    <3>1. v \in Playing /\ next'[x] = next[v] /\ next[v] \in Playing \ {v}
      BY <1>3, <1>6, <1>7, <2>1, <2>3
    <3>2. Above(x, v) /\ Above(v, next[v])
      BY <2>1, <2>3, <3>1 DEF SortedInv
    <3>3. OlderThan(x, v) /\ OlderThan(v, next[v]) => OlderThan(x, next[v])
      BY <2>1, <3>1 DEF SortedInv
    <3>4. Above(x, next[v])
      BY <1>6, <2>1, <3>1, <3>2, <3>3 DEF Above
    <3>5. QED BY <1>5, <1>7, <3>1, <3>4 DEF Above
  <2>4. QED BY <2>2, <2>3
<1>8. \A x, y, z \in Playing' :
          OlderThan(x, y)' /\ OlderThan(y, z)' => OlderThan(x, z)'
  BY <1>5 DEF SortedInv
<1>9. QED BY <1>4, <1>7, <1>8 DEF SortedInv

\* A voice starts: behind those of its priority or more, and the youngest of all.
LEMMA SortedPlay ==
    ASSUME IInv, SortedInv, NEW k \in Kinds, NEW pages \in 1..MaxPages, PlayVoice(k, pages)
    PROVE  SortedInv'
<1> DEFINE h == Place(asked)
<1>1. /\ mpc = "play" /\ installed
      /\ next' = AddedPrev(next, h, voice)
      /\ priority' = [priority EXCEPT ![voice] = asked]
      /\ older' = older \cup (Playing \X {voice})
  BY DEF PlayVoice, At, IInv, RestInv
<1>2. Playing' = Playing \cup {voice}
  BY PlayStep
<1>3. /\ Linked(next, prev, Playing, Free)
      /\ Playing \cup Free \cup Hand = Voice /\ (Playing \cup Free) \cap Hand = {}
      /\ Hand = {voice}
  BY <1>1, Settled DEF IInv, Hand
<1>4. /\ h \in Playing \cup {VoiceList}
      /\ h \in Playing => priority[h] >= asked
      /\ next[h] \in Playing => priority[next[h]] < asked
  BY <1>1, PlaceRight
<1> HIDE DEF h
<1>5. /\ Ring(next, prev, Playing \cup {VoiceList})
      /\ next \in [Cell -> Cell] /\ Playing \subseteq Cell /\ VoiceList \in Cell
      /\ voice \in Cell /\ voice \notin Playing \cup {VoiceList}
      /\ priority \in [Cell -> Nat] /\ asked \in Nat
  BY <1>3, LinkedFacts, ConstantsAssumption DEF Cell, IInv, DataInv
<1>6. /\ next'[voice] = next[h] /\ next'[h] = voice
      /\ \A x \in Playing \ {h} : next'[x] = next[x]
  BY <1>1, <1>4, <1>5 DEF AddedPrev
<1>7. priority'[voice] = asked /\ \A x \in Playing : priority'[x] = priority[x]
  BY <1>1, <1>5
<1>8. \A x, y : OlderThan(x, y)' <=> OlderThan(x, y) \/ (x \in Playing /\ y = voice)
  BY <1>1 DEF OlderThan
<1>9. \A x, y : OlderThan(x, y) => x \in Playing /\ y \in Playing
  BY DEF SortedInv, OlderThan
<1>10. older' \subseteq Playing' \X Playing'
  BY <1>1, <1>2 DEF SortedInv
<1>11. \A x, y, z \in Playing' :
           OlderThan(x, y)' /\ OlderThan(y, z)' => OlderThan(x, z)'
  BY <1>2, <1>5, <1>8, <1>9 DEF SortedInv
<1>12. ASSUME NEW x \in Playing', next'[x] \in Playing' PROVE Above(x, next[x])'
  <2>1. CASE x = voice
    <3>1. next'[x] = next[h] /\ next[h] \in Playing \cup {VoiceList}
      BY <1>4, <1>5, <1>6, <2>1 DEF Ring
    <3>2. next[h] \in Playing
      BY <1>2, <1>5, <1>12, <3>1
    <3>3. priority'[x] > priority'[next[h]]
      BY <1>4, <1>5, <1>7, <2>1, <3>2
    <3>4. QED BY <3>1, <3>3 DEF Above
  <2>2. CASE x \in Playing /\ x = h
    <3>1. PICK y : y = voice
      OBVIOUS
    <3>2. next'[x] = y /\ OlderThan(x, y)' /\ priority[x] >= asked
      BY <1>4, <1>6, <1>8, <2>2, <3>1
    <3>3. priority'[x] >= priority'[y] /\ priority'[x] \in Nat /\ priority'[y] \in Nat
      BY <1>5, <1>7, <2>2, <3>1, <3>2
    <3>4. QED BY <3>2, <3>3 DEF Above
  <2>3. CASE x \in Playing /\ x # h
    <3>1. next'[x] = next[x] /\ next[x] \in Playing \cup {VoiceList}
      BY <1>5, <1>6, <2>3 DEF Ring
    <3>2. next[x] \in Playing
      BY <1>2, <1>5, <1>12, <3>1
    <3>3. Above(x, next[x])
      BY <2>3, <3>2 DEF SortedInv
    <3>4. QED BY <1>7, <1>8, <2>3, <3>1, <3>2, <3>3 DEF Above
  <2>4. QED BY <1>2, <2>1, <2>2, <2>3
<1>13. QED BY <1>10, <1>11, <1>12 DEF SortedInv

\* Before MV_Init nothing plays.
LEMMA SortedInit == Init => SortedInv /\ ReplaceInv
<1>1. SUFFICES ASSUME Init PROVE SortedInv /\ ReplaceInv
  OBVIOUS
<1>2. IInv
  BY <1>1, InitHolds
<1>3. mpc = "run" /\ ~installed /\ older = {}
  BY <1>1 DEF Init
<1>4. Playing = {}
  BY <1>2, <1>3 DEF IInv, RestInv
<1>5. QED BY <1>3, <1>4 DEF SortedInv, ReplaceInv, ReplacesOldestLowest

\* Every step keeps the order.
LEMMA SortedStep ==
    ASSUME IInv, CalledInv, SortedInv, Untroubled, [Next]_vars
    PROVE  SortedInv'
<1>1. CASE KillStop
  <2>1. mpc = "stop" /\ installed /\ voice \in Voice /\ priority' = priority
    BY <1>1 DEF KillStop, At, IInv, RestInv, ProgramInv, data
  <2>2. voice \in Playing \cup Free
    BY <2>1, Settled DEF IInv, Hand
  <2>3. QED BY <1>1, <2>1, <2>2, KillStopStep, SortedStop DEF KillStop
<1>2. CASE Drain
  <2>1. mpc = "drain" /\ installed /\ StopVoice(next[VoiceList]) /\ priority' = priority
    BY <1>2 DEF Drain, At, IInv, RestInv, data
  <2>2. QED BY <1>2, <2>1, DrainStep, SortedStop
<1>3. CASE MixVoice
  <2>1. CASE LastPage(mixed)
    <3>1. /\ mixed \in Playing /\ Playing' = Playing \ {mixed}
          /\ StopVoice(mixed) /\ priority' = priority /\ ipc = "mix" /\ mixed # VoiceList
      BY <1>3, <2>1, EndsStep DEF MixVoice
    <3>2. installed /\ mpc # "unlink2"
      BY <2>1, <3>1 DEF IInv, RestInv, InterruptInv
    <3>3. QED BY <3>1, <3>2, SortedStop
  <2>2. CASE ~LastPage(mixed)
    BY <1>3, <2>2, SortedCalm DEF MixVoice, lists, ghost, Playing
  <2>3. QED BY <2>1, <2>2
<1>4. CASE \E p \in Priorities : AllocVoice(p)
  <2>1. PICK p \in Priorities : AllocVoice(p)
    BY <1>4
  <2>2. Playing' = Playing /\ older' = older /\ priority' = priority
    BY <2>1, AllocVoiceStep DEF AllocVoice, data, ghost
  <2>3. CASE Refuses(p) \/ PoolEmpty
    BY <2>1, <2>2, <2>3, SortedCalm DEF AllocVoice, lists
  <2>4. CASE ~Refuses(p) /\ ~PoolEmpty
    <3>1. /\ mpc = "run" /\ installed
          /\ next' = RemovedNext(next, prev, next[VoicePool])
      BY <2>1, <2>4 DEF AllocVoice, At
    <3>2. Linked(next, prev, Playing, Free) /\ Pool = Free
      BY <3>1, Settled DEF IInv
    <3>3. next[VoicePool] \in Free
      BY <2>4, <3>1, <3>2, PoolEmptyMeans, LinkedFacts
    <3>4. \A x \in Playing : next'[x] = next[x]
      BY <3>1, <3>2, <3>3, TakeLinks
    <3>5. QED BY <2>2, <3>4, SortedCalm
  <2>5. QED BY <2>3, <2>4
<1>5. CASE AllocUnlink1 \/ AllocUnlink2 \/ AllocUnlink3
  <2>1. Playing' = Playing /\ older' = older /\ priority' = priority
    BY <1>5, Unlink1Step, Unlink2Step, Unlink3Step
       DEF AllocUnlink1, AllocUnlink2, AllocUnlink3, data, ghost
  <2>2. \A x \in Playing : next'[x] = next[x]
    <3>1. CASE AllocUnlink1
      <4>1. /\ mpc = "unlink1" /\ installed
            /\ next' = [next EXCEPT ![prev[voice]] = next[voice]]
        BY <3>1 DEF AllocUnlink1, At, IInv, RestInv
      <4>2. voice \in Free /\ Linked(next, prev, Playing, Free)
        BY <4>1, Settled DEF IInv, ProgramInv
      <4>3. prev[voice] \notin Playing
        BY <4>2, LinkedFacts DEF Ring
      <4>4. next \in [Cell -> Cell] /\ Playing \subseteq Cell
        BY <4>2, LinkedFacts DEF Cell
      <4>5. QED BY <4>1, <4>3, <4>4
    <3>2. CASE AllocUnlink2
      BY <3>2 DEF AllocUnlink2
    <3>3. CASE AllocUnlink3
      <4>1. mpc = "unlink3" /\ installed /\ next' = [next EXCEPT ![voice] = voice]
        BY <3>3 DEF AllocUnlink3, At, IInv, RestInv
      <4>2. voice \notin Playing /\ Linked(next, prev, Playing, Free)
        BY <4>1, Settled DEF IInv, Hand
      <4>3. next \in [Cell -> Cell] /\ Playing \subseteq Cell
        BY <4>2, LinkedFacts DEF Cell
      <4>4. QED BY <4>1, <4>2, <4>3
    <3>4. QED BY <1>5, <3>1, <3>2, <3>3
  <2>3. QED BY <2>1, <2>2, SortedCalm
<1>6. CASE \E k \in Kinds, n \in 1..MaxPages : PlayVoice(k, n)
  BY <1>6, SortedPlay
<1>7. CASE \/ Shutdown
           \/ \E pool \in {q \in [1..Cardinality(Voice) -> Voice] :
                            \A v \in Voice : \E i \in DOMAIN q : q[i] = v} : InitVoices(pool)
  <2>1. Playing = {} /\ older' = older
    BY <1>7 DEF Shutdown, InitVoices, At, CalledInv, IInv, RestInv, ghost
  <2>2. Playing' = {}
    BY <1>7, ShutdownStep, InitStep
  <2>3. QED BY <2>1, <2>2, SortedCalm
<1>8. CASE \/ KillCallBack \/ KillAllTest \/ KillAllFind \/ AllocCheck \/ AllocFirst
           \/ AllocNumber \/ EndLoopingStore \/ BeginRecording
           \/ KillAllVoices \/ StartRecording \/ StopRecord
           \/ \E h \in MinHandle..MaxHandle : Kill(h) \/ EndLooping(h)
  <2>1. next' = next /\ older' = older /\ priority' = priority
    BY <1>8 DEF KillCallBack, KillAllTest, KillAllFind, AllocCheck, AllocFirst, AllocNumber,
       EndLoopingStore, BeginRecording, KillAllVoices, StartRecording, StopRecord, Kill,
       EndLooping, lists, data, ghost
  <2>2. QED BY <2>1, SortedCalm DEF Playing
<1>9. CASE CardInterrupt \/ EndOfInterrupt \/ UNCHANGED vars
  <2>1. next' = next /\ older' = older /\ priority' = priority
    BY <1>9 DEF CardInterrupt, EndOfInterrupt, vars, lists, data, ghost
  <2>2. QED BY <2>1, SortedCalm DEF Playing
<1>10. QED
  BY <1>1, <1>2, <1>3, <1>4, <1>5, <1>6, <1>7, <1>8, <1>9
  DEF Next, MainStep, MainCall, IsrStep

\* Every step keeps the choice, until the voice is stopped.
LEMMA ReplaceStep ==
    ASSUME IInv, SortedInv, ReplaceInv, Untroubled, [Next]_vars
    PROVE  ReplaceInv'
<1>1. CASE \E p \in Priorities : AllocVoice(p)
  <2>1. PICK p \in Priorities : AllocVoice(p)
    BY <1>1
  <2>2. /\ mpc = "run" /\ installed /\ priority' = priority /\ asked' = p
        /\ older' = older /\ mpc' \in {"run", "stop", "number"}
    BY <2>1 DEF AllocVoice, At, data, ghost
  <2>3. ASSUME mpc' = "stop" PROVE ReplacesOldestLowest'
    <3>1. PoolEmpty /\ ~Refuses(p) /\ voice' = Victim
      BY <2>1, <2>2, <2>3 DEF AllocVoice
    <3>2. Playing' = Playing
      BY <2>1, AllocVoiceStep
    <3>3. \A u \in Playing \ {Victim} : \/ priority[Victim] < priority[u]
                                        \/ /\ priority[Victim] = priority[u]
                                           /\ OlderThan(Victim, u)
      BY <2>2, <3>1, VictimRight
    <3>4. Victim \in Cell
      <4>1. Linked(next, prev, Playing, Free)
        BY <2>2, Settled DEF IInv
      <4>2. Victim \in Playing /\ Playing \subseteq Voice
        BY <2>2, <3>1, <4>1, VictimPlays, LinkedFacts
      <4>3. QED BY <4>2 DEF Cell
    <3>5. priority[Victim] <= p
      <4>1. priority[Victim] \in Nat /\ p \in Nat
        BY <3>4, ConstantsAssumption DEF IInv, DataInv
      <4>2. QED BY <3>1, <4>1 DEF Refuses
    <3> DEFINE w == Victim
    <3>6. /\ voice' = w /\ priority[w] <= p
          /\ \A u \in Playing \ {w} : \/ priority[w] < priority[u]
                                      \/ priority[w] = priority[u] /\ OlderThan(w, u)
      BY <3>1, <3>3, <3>5
    <3> HIDE DEF w
    <3>7. QED BY <2>2, <3>2, <3>6 DEF ReplacesOldestLowest, OlderThan
  <2>4. QED BY <2>2, <2>3 DEF ReplaceInv, ReplacesOldestLowest
<1>2. CASE \/ \E h \in MinHandle..MaxHandle : Kill(h) \/ EndLooping(h)
           \/ KillAllVoices \/ KillAllTest \/ KillAllFind
  BY <1>2 DEF Kill, EndLooping, KillAllVoices, KillAllTest, KillAllFind, At, ReplaceInv,
              ReplacesOldestLowest
<1>3. CASE \/ KillStop \/ KillCallBack \/ AllocCheck \/ AllocFirst
           \/ AllocUnlink1 \/ AllocUnlink2 \/ AllocUnlink3 \/ AllocNumber
           \/ \E k \in Kinds, n \in 1..MaxPages : PlayVoice(k, n)
           \/ EndLoopingStore \/ Drain \/ BeginRecording \/ Shutdown
  <2>1. mpc' # "stop" /\ (mpc' \in {"head", "find"} => ret' \in {"all", "shutdown"})
    BY <1>3 DEF KillStop, KillCallBack, AllocCheck, AllocFirst, AllocUnlink1, AllocUnlink2,
       AllocUnlink3, AllocNumber, PlayVoice, EndLoopingStore, Drain, BeginRecording,
       Shutdown, At, main, IInv, DataInv
  <2>2. QED BY <2>1 DEF ReplaceInv, ReplacesOldestLowest
<1>4. CASE \/ StartRecording \/ StopRecord
           \/ \E pool \in {q \in [1..Cardinality(Voice) -> Voice] :
                            \A v \in Voice : \E i \in DOMAIN q : q[i] = v} : InitVoices(pool)
  <2>1. mpc' \in {"run", "drain"}
    BY <1>4 DEF StartRecording, StopRecord, InitVoices, At, main
  <2>2. QED BY <2>1 DEF ReplaceInv, ReplacesOldestLowest
<1>5. CASE MixVoice /\ LastPage(mixed)
  <2>1. /\ Playing' = Playing \ {mixed} /\ priority' = priority /\ UNCHANGED main
        /\ older' = {o \in older : mixed \notin {o[1], o[2]}}
    BY <1>5, EndsStep DEF MixVoice, StopVoice
  <2>2. \A x, y \in Playing' : OlderThan(x, y) => OlderThan(x, y)'
    BY <2>1 DEF OlderThan
  <2>3. QED BY <2>1, <2>2 DEF ReplaceInv, ReplacesOldestLowest, main
<1>6. CASE \/ MixVoice /\ ~LastPage(mixed)
           \/ CardInterrupt \/ EndOfInterrupt \/ UNCHANGED vars
  <2>1. next' = next /\ older' = older /\ priority' = priority /\ UNCHANGED main
    BY <1>6 DEF MixVoice, CardInterrupt, EndOfInterrupt, vars, lists, data, ghost
  <2>2. Playing' = Playing
    BY <2>1 DEF Playing
  <2>3. QED BY <2>1, <2>2 DEF ReplaceInv, ReplacesOldestLowest, OlderThan, main
<1>7. QED
  BY <1>1, <1>2, <1>3, <1>4, <1>5, <1>6 DEF Next, MainStep, MainCall, IsrStep

\* With no voice free MV_AllocVoice gives up the oldest sound of the lowest priority, and
\* none that is more urgent than the new one.
THEOREM ReplacesCorrect ==
    ASSUME Untroubled PROVE Spec => []ReplacesOldestLowest
<1>1. ReplaceInv => ReplacesOldestLowest
  BY DEF ReplaceInv
<1>2. IInv /\ CalledInv /\ [Next]_vars => CalledInv'
  BY CalledStep
<1>3. IInv /\ CalledInv /\ SortedInv /\ [Next]_vars => SortedInv'
  BY SortedStep
<1>4. IInv /\ SortedInv /\ ReplaceInv /\ [Next]_vars => ReplaceInv'
  BY ReplaceStep
<1>5. QED BY <1>1, <1>2, <1>3, <1>4, CalledInit, SortedInit, Invariance, PTL DEF Spec

-----------------------------------------------------------------------------
(* What the program is told.                                               *)

\* MV_AllocVoice that has stopped a sound finds a voice in the pool.
FoundInv ==
    (mpc = "check" \/ (mpc = "callback" /\ ret = "check")) => Pool # {}

LEMMA FoundInit == Init => FoundInv
BY DEF Init, FoundInv

\* The voice that is stopped goes to the pool, and what happens before MV_AllocVoice looks
\* again only adds to it.
LEMMA FoundStep ==
    ASSUME IInv, FoundInv, Untroubled, [Next]_vars
    PROVE  FoundInv'
<1>1. SUFFICES ASSUME mpc' = "check" \/ (mpc' = "callback" /\ ret' = "check")
               PROVE  Pool' # {}
  BY DEF FoundInv
<1>2. IInv'
  BY NextHolds
<1>3. installed' /\ Hand' = {} /\ (mpc # "unlink2")'
  BY <1>1, <1>2 DEF IInv, RestInv, Hand
<1>4. Pool' = Free' /\ (Playing \cup Free)' = Voice
  <2>1. Pool' = Free'
    BY <1>3 DEF Whole, Pool, Free
  <2>2. (Playing \cup Pool \cup Hand)' = Voice
    BY <1>2, <1>3 DEF IInv, ListInv
  <2>3. QED BY <2>1, <2>2, <1>3
<1>5. CASE KillStop
  <2>1. Playing' = Playing \ {voice} /\ voice \in Voice
    BY <1>5, KillStopStep DEF KillStop, At, IInv, ProgramInv
  <2>2. QED BY <2>1, <1>4
<1>6. CASE MixVoice /\ LastPage(mixed)
  <2>1. mixed \in Playing /\ Playing' = Playing \ {mixed}
    BY <1>6, EndsStep
  <2>2. mixed \in Voice
    <3>1. installed
      BY <1>6 DEF MixVoice, IInv, RestInv
    <3>2. QED BY <3>1, <2>1, LinkedFacts DEF IInv, ListInv
  <2>3. QED BY <2>1, <2>2, <1>4
<1>7. CASE \/ KillCallBack
           \/ MixVoice /\ ~LastPage(mixed)
           \/ CardInterrupt \/ EndOfInterrupt \/ UNCHANGED vars
  <2>1. next' = next /\ ret' = ret
    BY <1>7 DEF KillCallBack, MixVoice, CardInterrupt, EndOfInterrupt, vars, lists, main
  <2>2. mpc \in {"check", "callback"} /\ (mpc = "callback" => ret = "check")
    BY <1>1, <1>7, <2>1
    DEF KillCallBack, At, MixVoice, CardInterrupt, EndOfInterrupt, vars, main
  <2>3. Pool' = Pool
    BY <2>1, <2>2, <1>3 DEF Pool, Whole
  <2>4. QED BY <2>2, <2>3 DEF FoundInv
<1>8. CASE \/ KillAllTest \/ KillAllFind \/ AllocCheck \/ AllocFirst \/ AllocUnlink1
           \/ AllocUnlink2 \/ AllocUnlink3 \/ AllocNumber
           \/ \E k \in Kinds, n \in 1..MaxPages : PlayVoice(k, n)
           \/ EndLoopingStore \/ Drain \/ BeginRecording \/ Shutdown \/ MainCall
  BY <1>1, <1>8
  DEF KillAllTest, KillAllFind, AllocCheck, AllocFirst, AllocUnlink1, AllocUnlink2,
      AllocUnlink3, AllocNumber, PlayVoice, EndLoopingStore, Drain, BeginRecording, Shutdown,
      MainCall, Kill, EndLooping, AllocVoice, KillAllVoices, StartRecording, StopRecord,
      InitVoices, At, main
<1>9. QED
  BY <1>5, <1>6, <1>7, <1>8 DEF Next, MainStep, IsrStep

\* A call of the program looks a voice up in the play list, and finds it if it is there.
LEMMA LooksUp ==
    ASSUME IInv, mpc = "run", installed, NEW h
    PROVE  /\ GetVoice(h) # VoiceList <=> h \in {handle[v] : v \in Playing}
           /\ VoicePlaying(h) <=> h \in {handle[v] : v \in Playing}
<1>1. VoiceList \notin Playing
  BY Settled, LinkedFacts DEF IInv
<1>2. GetVoice(h) \in {v \in Playing : handle[v] = h} \cup {VoiceList}
  BY FirstInOf DEF GetVoice
<1>3. QED
  BY <1>1, <1>2, GetVoiceFinds DEF VoicePlaying

\* A voice is refused while recording, or when all play sounds of higher priorities.
LEMMA RefusesMeans ==
    ASSUME IInv, mpc = "run", installed, NEW p \in Nat
    PROVE  /\ Refuses(p) <=> NoVoice(p) # {}
           /\ ~recording => (MV_VoiceAvailable(p) <=> NoVoice(p) = {})
<1>1. PoolEmpty <=> Free = {}
  BY PoolEmptyMeans, Settled DEF IInv
<1>2. ASSUME PoolEmpty
      PROVE  p < priority[Victim] <=> \A v \in Playing : p < priority[v]
  <2>1. Victim \in Playing
    BY <1>2, VictimPlays
  <2>2. Victim \in {v \in Playing : \A u \in Playing : priority[v] <= priority[u]}
                     \cup {VoiceList}
    BY FirstInOf DEF Victim
  <2>3. VoiceList \notin Playing /\ Playing \subseteq Cell
    BY Settled, LinkedFacts DEF IInv, Cell
  <2>4. \A v \in Playing : priority[Victim] <= priority[v] /\ priority[v] \in Nat
    BY <2>1, <2>2, <2>3 DEF IInv, DataInv
  <2>5. QED BY <2>1, <2>4
<1>3. Refuses(p) <=> recording \/ (Free = {} /\ \A v \in Playing : p < priority[v])
  BY <1>1, <1>2 DEF Refuses
<1>4. MV_VoiceAvailable(p) <=> ~(Free = {} /\ \A v \in Playing : p < priority[v])
  <2>1. ASSUME PoolEmpty PROVE Victim # VoiceList /\ priority[Victim] \in Nat
    <3>1. Victim \in Playing /\ VoiceList \notin Playing /\ Playing \subseteq Cell
      BY <2>1, VictimPlays, Settled, LinkedFacts DEF IInv, Cell
    <3>2. QED BY <3>1 DEF IInv, DataInv
  <2>2. QED BY <2>1, <1>1, <1>2 DEF MV_VoiceAvailable
<1>5. NoVoice(p) = {} <=> ~(recording \/ (Free = {} /\ \A v \in Playing : p < priority[v]))
  BY DEF NoVoice
<1>6. QED BY <1>3, <1>4, <1>5

\* A test that a failing call does not pass makes FX_ErrorString tell its error.
LEMMA FailedSays ==
    ASSUME NEW codes \in [fx : FxCodes, mv : MvCodes], NEW gone \in {Error, Warning},
           NEW bad \in {"MV_NotInstalled", "MV_VoiceNotFound", "MV_NoVoices",
                        "MV_InvalidWAVFile", "MV_InvalidVOCFile"}
    PROVE  LET mv == Fails(gone, bad, codes)
           IN  /\ UnlessOk(mv) = Failed(mv.codes) /\ IfLess(mv) = Failed(mv.codes)
               /\ gone = Error => IfError(mv) = Failed(mv.codes)
               /\ IfError(mv).ret = Warning
               /\ Failed(mv.codes).ret = Warning
               /\ FX_ErrorString(Failed(mv.codes).codes) = Says(bad)
<1> DEFINE mv == Fails(gone, bad, codes)
<1>1. /\ mv.ret = gone /\ mv.codes = [codes EXCEPT !.mv = bad]
      /\ mv.codes = [fx |-> codes.fx, mv |-> bad]
  BY DEF Fails, Returns
<1>2. /\ UnlessOk(mv) = Failed(mv.codes) /\ IfLess(mv) = Failed(mv.codes)
      /\ gone = Error => IfError(mv) = Failed(mv.codes)
  BY <1>1 DEF UnlessOk, IfLess, IfError, Passed, Ok, Error, Warning
<1>3. Failed(mv.codes).ret = Warning
  BY DEF Failed, Returns
<1>4. Failed(mv.codes).codes = [fx |-> "FX_MultiVocError", mv |-> bad]
  BY <1>1 DEF Failed, Returns
<1>5. FX_ErrorString(Failed(mv.codes).codes) = Says(bad)
  <2>1. FX_ErrorString(Failed(mv.codes).codes) = MV_ErrorString(bad)
    BY <1>4 DEF FX_ErrorString
  <2>2. QED BY <2>1 DEF MV_ErrorString, MvDriver, Says
<1>6. IfError(mv).ret = Warning
  BY <1>1, <1>2, <1>3 DEF IfError, Passed
<1>7. QED BY <1>2, <1>3, <1>5, <1>6

\* A test that a call that has not failed passes.
LEMMA PassedIs ==
    ASSUME NEW codes, NEW result \in Nat
    PROVE  LET mv == Returns(result, codes)
           IN  /\ IfLess(mv) = mv /\ IfError(mv) = mv /\ mv.ret = result
               /\ result = Ok => UnlessOk(mv) = mv
BY DEF Returns, IfLess, IfError, UnlessOk, Passed, Ok, Error

\* What looks a voice up says why it does not find it, if its failure is noticed.
LEMMA SoundExplained ==
    ASSUME IInv, mpc = "run", NEW h, NEW codes \in [fx : FxCodes, mv : MvCodes]
    PROVE  LET reasons == NoLibrary \cup NoSuchSound(h)
           IN  /\ \A gone \in {Error, Warning} :
                     Explains(UnlessOk(OfVoice(h, gone, codes)), reasons)
               /\ Explains(IfError(OfVoice(h, Error, codes)), reasons)
               /\ IF installed THEN FailsFor(IfError(OfVoice(h, Warning, codes)), reasons)
                  ELSE Explains(IfError(OfVoice(h, Warning, codes)), reasons)
               /\ FX_SoundActive(h) <=> reasons = {}
<1>1. CASE ~installed
  <2>1. /\ NoLibrary = {Says("MV_NotInstalled")} /\ NoSuchSound(h) = {}
        /\ ~FX_SoundActive(h)
        /\ \A gone : OfVoice(h, gone, codes) = Fails(Error, "MV_NotInstalled", codes)
    BY <1>1 DEF NoLibrary, NoSuchSound, FX_SoundActive, MV_VoicePlaying, OfVoice
  <2>2. QED
    BY <1>1, <2>1, FailedSays DEF Explains, FailsFor, Ok, Warning
<1>2. CASE installed /\ h \in {handle[v] : v \in Playing}
  <2>1. /\ NoLibrary = {} /\ NoSuchSound(h) = {} /\ FX_SoundActive(h)
        /\ \A gone : OfVoice(h, gone, codes) = Returns(Ok, codes)
    BY <1>2, LooksUp DEF NoLibrary, NoSuchSound, FX_SoundActive, MV_VoicePlaying, OfVoice
  <2>2. Ok \in Nat
    BY DEF Ok
  <2>3. QED
    BY <1>2, <2>1, <2>2, PassedIs DEF Explains, FailsFor, Ok
<1>3. CASE installed /\ h \notin {handle[v] : v \in Playing}
  <2>1. /\ NoLibrary = {} /\ NoSuchSound(h) = {Says("MV_VoiceNotFound")}
        /\ ~FX_SoundActive(h)
        /\ \A gone : OfVoice(h, gone, codes) = Fails(gone, "MV_VoiceNotFound", codes)
    BY <1>3, LooksUp DEF NoLibrary, NoSuchSound, FX_SoundActive, MV_VoicePlaying, OfVoice
  <2>2. QED
    BY <1>3, <2>1, FailedSays DEF Explains, FailsFor, Ok, Warning
<1>4. QED BY <1>1, <1>2, <1>3

\* What plays a sound says why it does not.
LEMMA PlayExplained ==
    ASSUME IInv, mpc = "run", NEW p \in Nat, NEW codes \in [fx : FxCodes, mv : MvCodes],
           NEW bad \in {"MV_Ok", "MV_InvalidWAVFile", "MV_InvalidVOCFile"}
    PROVE  Explains(IfLess(MV_Play(bad, p, codes)),
                    NoLibrary \cup NoVoice(p) \cup BadFile(bad))
<1>1. CASE ~installed
  <2>1. /\ Says("MV_NotInstalled") \in NoLibrary
        /\ MV_Play(bad, p, codes) = Fails(Error, "MV_NotInstalled", codes)
    BY <1>1 DEF NoLibrary, MV_Play
  <2>2. QED
    BY <2>1, FailedSays DEF Explains, FailsFor, Ok, Warning
<1>2. CASE installed /\ bad # "MV_Ok"
  <2>1. /\ Says(bad) \in BadFile(bad)
        /\ MV_Play(bad, p, codes) = Fails(Error, bad, codes)
    BY <1>2 DEF BadFile, MV_Play
  <2>2. QED
    BY <1>2, <2>1, FailedSays DEF Explains, FailsFor, Ok, Warning
<1>3. CASE installed /\ bad = "MV_Ok" /\ Refuses(p)
  <2>1. /\ Says("MV_NoVoices") \in NoVoice(p)
        /\ MV_Play(bad, p, codes) = Fails(Error, "MV_NoVoices", codes)
    BY <1>3, RefusesMeans DEF NoVoice, MV_Play
  <2>2. QED
    BY <2>1, FailedSays DEF Explains, FailsFor, Ok, Warning
<1>4. CASE installed /\ bad = "MV_Ok" /\ ~Refuses(p)
  <2>1. /\ NoLibrary = {} /\ NoVoice(p) = {} /\ BadFile(bad) = {}
        /\ MV_Play(bad, p, codes) = Returns(Handle, codes)
    BY <1>4, RefusesMeans DEF NoLibrary, BadFile, MV_Play
  <2>2. Handle \in Nat
    BY ConstantsAssumption DEF Handle
  <2>3. QED
    BY <2>1, <2>2, PassedIs DEF Explains, FailsFor, Ok
<1>5. QED BY <1>1, <1>2, <1>3, <1>4

\* As many sounds play as handles are in use.
LEMMA SoundsCounted ==
    ASSUME IInv, mpc = "run"
    PROVE  FX_SoundsPlaying = Cardinality({handle[v] : v \in Playing})
<1> DEFINE H == {handle[v] : v \in Playing}
           f == [v \in Playing |-> handle[v]]
<1>1. CASE ~installed
  <2>1. H = {}
    BY <1>1 DEF IInv, RestInv
  <2>2. QED
    BY <1>1, <2>1, FS_EmptySet DEF FX_SoundsPlaying, MV_VoicesPlaying
<1>2. CASE installed
  <2>1. Playing \subseteq Voice
    BY <1>2, Settled, LinkedFacts DEF IInv
  <2>2. IsFiniteSet(Playing)
    BY <2>1, ConstantsAssumption, FS_Subset
  <2>3. f \in Surjection(Playing, H)
    BY DEF Surjection
  <2>4. f \in Injection(Playing, H)
    <3>1. f \in [Playing -> H]
      OBVIOUS
    <3>2. \A u, v \in Playing : handle[u] = handle[v] => u = v
      BY DEF IInv, HandleInv, HandlesAreUnique
    <3>3. \A u, v \in Playing : f[u] = f[v] => u = v
      BY <3>2
    <3> HIDE DEF f, H
    <3>4. QED BY <3>1, <3>3 DEF Injection, IsInjective
  <2>5. Cardinality(H) = Cardinality(Playing)
    <3> HIDE DEF f, H
    <3>1. QED BY <2>2, <2>3, <2>4, FS_Surjection
  <2>6. QED
    BY <1>2, <2>5 DEF FX_SoundsPlaying, MV_VoicesPlaying
<1>3. QED BY <1>1, <1>2

\* A call tells the program what is so: it fails when there is a reason to and never
\* without one, FX_ErrorString gives a true reason, and no sound is stopped in vain.
THEOREM SaysWhyCorrect ==
    ASSUME Untroubled PROVE Spec => []SaysWhy
<1>1. ASSUME IInv, FoundInv PROVE SaysWhy
  <2>1. ASSUME mpc = "run" PROVE SaysWhyOfSounds
    <3>1. SUFFICES ASSUME NEW codes \in Before, NEW h \in MinHandle..MaxHandle
                   PROVE  LET reasons == NoLibrary \cup NoSuchSound(h)
                          IN  /\ Explains(FX_StopSound(h, codes), reasons)
                              /\ Explains(FX_SetPitch(h, codes), reasons)
                              /\ Explains(FX_SetFrequency(h, codes), reasons)
                              /\ Explains(FX_Pan3D(h, codes), reasons)
                              /\ \A call \in {FX_EndLooping(h, codes), FX_SetPan(h, codes)} :
                                    IF installed THEN FailsFor(call, reasons)
                                    ELSE Explains(call, reasons)
                              /\ FX_SoundActive(h) <=> reasons = {}
      BY DEF SaysWhyOfSounds
    <3>2. codes \in [fx : FxCodes, mv : MvCodes]
      BY BeforeAssumption
    <3>3. /\ FX_StopSound(h, codes) = UnlessOk(OfVoice(h, Error, codes))
          /\ FX_SetPitch(h, codes) = IfError(OfVoice(h, Error, codes))
          /\ FX_SetFrequency(h, codes) = IfError(OfVoice(h, Error, codes))
          /\ FX_Pan3D(h, codes) = UnlessOk(OfVoice(h, Warning, codes))
          /\ FX_EndLooping(h, codes) = IfError(OfVoice(h, Warning, codes))
          /\ FX_SetPan(h, codes) = IfError(OfVoice(h, Warning, codes))
      BY DEF FX_StopSound, FX_SetPitch, FX_SetFrequency, FX_Pan3D, FX_EndLooping, FX_SetPan,
             MV_Kill, MV_SetPitch, MV_SetFrequency, MV_Pan3D, MV_EndLooping, MV_SetPan
    <3>4. QED BY <1>1, <2>1, <3>2, <3>3, SoundExplained
  <2>2. ASSUME mpc = "run" PROVE SaysWhyOfFiles
    <3>1. SUFFICES ASSUME NEW codes \in Before, NEW p \in Priorities, NEW valid \in BOOLEAN
                   PROVE  LET reasons == NoLibrary \cup NoVoice(p)
                              voc == reasons \cup BadFile(BadVOC(valid))
                              wav == reasons \cup BadFile(BadWAV(valid))
                          IN  /\ Explains(FX_PlayVOC(valid, p, codes), voc)
                              /\ Explains(FX_PlayLoopedVOC(valid, p, codes), voc)
                              /\ Explains(FX_PlayVOC3D(valid, p, codes), voc)
                              /\ Explains(FX_PlayWAV(valid, p, codes), wav)
                              /\ Explains(FX_PlayLoopedWAV(valid, p, codes), wav)
                              /\ Explains(FX_PlayWAV3D(valid, p, codes), wav)
                              /\ Explains(FX_PlayRaw(p, codes), reasons)
                              /\ Explains(FX_PlayLoopedRaw(p, codes), reasons)
                              /\ Explains(FX_StartDemandFeedPlayback(p, codes), reasons)
      BY DEF SaysWhyOfFiles
    <3>2. codes \in [fx : FxCodes, mv : MvCodes] /\ p \in Nat
      BY BeforeAssumption, ConstantsAssumption
    <3>3. /\ FX_PlayVOC(valid, p, codes) = IfLess(MV_Play(BadVOC(valid), p, codes))
          /\ FX_PlayLoopedVOC(valid, p, codes) = IfLess(MV_Play(BadVOC(valid), p, codes))
          /\ FX_PlayVOC3D(valid, p, codes) = IfLess(MV_Play(BadVOC(valid), p, codes))
      BY DEF FX_PlayVOC, FX_PlayLoopedVOC, FX_PlayVOC3D, MV_PlayVOC, MV_PlayLoopedVOC,
             MV_PlayVOC3D, MV_Play
    <3>4. /\ FX_PlayWAV(valid, p, codes) = IfLess(MV_Play(BadWAV(valid), p, codes))
          /\ FX_PlayLoopedWAV(valid, p, codes) = IfLess(MV_Play(BadWAV(valid), p, codes))
          /\ FX_PlayWAV3D(valid, p, codes) = IfLess(MV_Play(BadWAV(valid), p, codes))
      BY DEF FX_PlayWAV, FX_PlayLoopedWAV, FX_PlayWAV3D, MV_PlayWAV, MV_PlayLoopedWAV,
             MV_PlayWAV3D, MV_Play
    <3>5. /\ FX_PlayRaw(p, codes) = IfLess(MV_Play("MV_Ok", p, codes))
          /\ FX_PlayLoopedRaw(p, codes) = IfLess(MV_Play("MV_Ok", p, codes))
          /\ FX_StartDemandFeedPlayback(p, codes) = IfLess(MV_Play("MV_Ok", p, codes))
      BY DEF FX_PlayRaw, FX_PlayLoopedRaw, FX_StartDemandFeedPlayback, MV_PlayRaw,
             MV_PlayLoopedRaw, MV_StartDemandFeedPlayback
    <3>6. /\ BadVOC(valid) \in {"MV_Ok", "MV_InvalidVOCFile"}
          /\ BadWAV(valid) \in {"MV_Ok", "MV_InvalidWAVFile"}
          /\ BadFile("MV_Ok") = {}
      BY DEF BadVOC, BadWAV, BadFile
    <3>7. \A bad \in {"MV_Ok", "MV_InvalidWAVFile", "MV_InvalidVOCFile"} :
             Explains(IfLess(MV_Play(bad, p, codes)),
                      NoLibrary \cup NoVoice(p) \cup BadFile(bad))
      BY <1>1, <2>2, <3>2, PlayExplained
    <3>8. Explains(IfLess(MV_Play("MV_Ok", p, codes)), NoLibrary \cup NoVoice(p))
      <4>1. NoLibrary \cup NoVoice(p) \cup BadFile("MV_Ok") = NoLibrary \cup NoVoice(p)
        BY <3>6
      <4>2. QED BY <3>7, <4>1
    <3>9. QED BY <3>3, <3>4, <3>5, <3>6, <3>7, <3>8
  <2>3. ASSUME mpc = "run" PROVE TellsAhead
    BY <1>1, <2>3, SoundsCounted, RefusesMeans, ConstantsAssumption
    DEF TellsAhead, FX_VoiceAvailable
  <2>4. ASSUME NEW codes \in Before PROVE Explains(FX_StopAllSounds(codes), NoLibrary)
    <3>1. codes \in [fx : FxCodes, mv : MvCodes] /\ Ok \in Nat
      BY BeforeAssumption DEF Ok
    <3>2. CASE installed
      <4>1. /\ NoLibrary = {}
            /\ FX_StopAllSounds(codes) = UnlessOk(Returns(Ok, codes))
        BY <3>2 DEF NoLibrary, FX_StopAllSounds, MV_KillAllVoices
      <4>2. QED BY <3>1, <4>1, PassedIs DEF Explains, FailsFor, Ok
    <3>3. CASE ~installed
      <4>1. /\ NoLibrary = {Says("MV_NotInstalled")}
            /\ FX_StopAllSounds(codes)
                 = UnlessOk(Fails(Error, "MV_NotInstalled", codes))
        BY <3>3 DEF NoLibrary, FX_StopAllSounds, MV_KillAllVoices
      <4>2. QED BY <3>1, <4>1, FailedSays DEF Explains, FailsFor, Ok, Warning
    <3>4. QED BY <3>2, <3>3
  <2>5. ASSUME mpc = "check" PROVE ~PoolEmpty
    BY <1>1, <2>5, PoolEmptyMeans DEF FoundInv, IInv, RestInv
  <2>6. QED BY <2>1, <2>2, <2>3, <2>4, <2>5 DEF SaysWhy
<1>2. IInv /\ FoundInv /\ [Next]_vars => FoundInv'
  BY FoundStep
<1>3. QED BY <1>1, <1>2, FoundInit, Invariance, PTL DEF Spec
=============================================================================
