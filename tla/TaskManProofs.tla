--------------------------- MODULE TaskManProofs ----------------------------
(***************************************************************************)
(* Theorems of TaskMan, for any number of tasks, rates and priorities.     *)
(***************************************************************************)
EXTENDS TaskMan, LinkListProofs, Sequences

VARIABLE queue
Q == INSTANCE TaskQueue

\* The task TS_ScheduleTask has in hand, which is not in the list yet.
Inserting == mpc \in {"timer", "clock", "fill", "search", "link", "link3"}
Pending   == IF Inserting THEN {node} ELSE {}

\* The types, with what the pointers point to where they are followed.
TypeInv ==
    /\ TypeOK
    /\ ipc = "serve" => ptr \in Task
    /\ mpc \in {"link", "link3", "link4"} => hoya \in Cell

\* The list between any two writes: a ring, or half of one.
ListInv ==
    /\ mpc \in {"search", "link", "link3", "link4"} => hoya \in Listed \cup {HeadTask}
    /\ mpc = "link3" => next[node] = hoya /\ prev[node] = prev[hoya]
    /\ (installed /\ mpc # "link4") => Ring(next, prev, Listed \cup {HeadTask})
    /\ mpc = "link4" => Ring(next, [prev EXCEPT ![hoya] = node], Listed \cup {HeadTask})

\* The heap: every cell malloc has given out is in the list or in hand.
HeapInv ==
    /\ heap = Listed \cup Pending
    /\ Inserting => node \in Task /\ node \notin Listed
    /\ mpc = "link4" => node \in Listed
    /\ mpc = "retime" => node \in Task
    /\ mpc # "run" => installed
    /\ ~installed => heap = {}
    /\ mpc \in {"free", "vector"} => Listed = {}
    /\ mpc # "wild"

\* The clock and the rate of the task in hand, unless a service has overtaken what
\* TS_SetTimer has decided for it.
ClockFits ==
    /\ \A t \in Listed : clock <= rate[t]
    /\ mpc = "clock" => speed <= clock
    /\ mpc = "fill" => clock <= speed
    /\ mpc \in {"search", "link", "link3"} => clock <= rate[node]

ClockInv ==
    /\ mpc = "clock" => speed < Full
    /\ ~overtaken => ClockFits

\* The order of the list, and of the task in hand: behind what comes before hoya.
OrderInv ==
    /\ ListIsSorted
    /\ mpc \in {"search", "link", "link3"} =>
          (prev[hoya] \in Task => priority[prev[hoya]] < priority[node])
    /\ mpc \in {"link", "link3"} =>
          (hoya \in Task => priority[node] <= priority[hoya])

SafeInv == ListInv /\ HeapInv /\ ClockInv /\ OrderInv

IInv == TypeInv /\ SafeInv

-----------------------------------------------------------------------------
(* What the helpers return.                                                *)

\* The division of TS_SetTimer yields a positive rate for every allowed TickBase.
LEMMA SpeedOfType ==
    ASSUME NEW b \in TickBases
    PROVE  SpeedOf(b) \in Nat \ {0}
BY ConstantsAssumption DEF SpeedOf

\* TS_SetClockSpeed programs a rate the PIT has.
LEMMA ClockForType ==
    ASSUME NEW s \in Nat
    PROVE  ClockFor(s) \in 1..Full
BY ConstantsAssumption DEF ClockFor

\* Time stays within the bound of its count.
LEMMA LaterType ==
    ASSUME NEW time \in Int, NEW d \in Int
    PROVE  Later(time, d) \in 0..(2 * Full - 1)
<1>1. 2 * Full \in Nat \ {0}
  BY ConstantsAssumption
<1> DEFINE m == 2 * Full
<1> HIDE DEF m
<1>2. m \in Nat \ {0} /\ time + d \in Int
  BY <1>1 DEF m
<1>3. (time + d) % m \in 0..(m - 1)
  BY <1>2
<1>4. QED BY <1>3 DEF Later, m

\* TS_SetTimerToMaxTaskRate leaves a clock that the PIT has, and that reaches
\* every rate.
LEMMA MaxTaskRate ==
    ASSUME NEW S \in SUBSET Task, NEW r \in [Task -> Nat \ {0}],
           SetTimerToMaxTaskRate(S, r)
    PROVE  clock' \in 1..Full /\ \A t \in S : clock' <= r[t]
BY ConstantsAssumption DEF SetTimerToMaxTaskRate

\* The list holds tasks only.
LEMMA ListedTasks ==
    ASSUME TypeOK
    PROVE  Listed \subseteq Task
BY DEF Listed, Members, TypeOK, Cell

-----------------------------------------------------------------------------
(* Type correctness.                                                       *)

\* The statics at program start have their types.
LEMMA TypeInit == Init => TypeInv
<1> SUFFICES ASSUME Init PROVE TypeInv
  OBVIOUS
<1>1. next \in [Cell -> Cell \cup {Null}] /\ prev \in [Cell -> Cell \cup {Null}]
  BY DEF Init
<1>2. rate \in [Task -> Nat \ {0}] /\ count \in [Task -> Nat]
  BY DEF Init
<1>3. priority \in [Task -> Nat] /\ active \in [Task -> BOOLEAN]
  BY DEF Init
<1>4. clock \in 1..Full /\ sum \in 0..(Full - 1) /\ owed \in 0..(2 * Full - 1)
  BY ConstantsAssumption DEF Init
<1>5. heap \subseteq Task /\ installed \in BOOLEAN /\ suspend \in BOOLEAN
      /\ overtaken \in BOOLEAN
  BY DEF Init
<1>6. /\ mpc = "run" /\ node = Null /\ hoya = Null /\ speed = 1
      /\ ipc = "idle" /\ ptr = Null /\ following = Null
  BY DEF Init
<1>7. TypeOK
  BY <1>1, <1>2, <1>3, <1>4, <1>5, <1>6 DEF TypeOK
<1>8. QED BY <1>6, <1>7 DEF TypeInv

\* ... and every step keeps it.
LEMMA TypeStep == TypeInv /\ [Next]_vars => TypeInv'
<1> SUFFICES ASSUME TypeInv, [Next]_vars PROVE TypeInv'
  OBVIOUS
<1> USE ConstantsAssumption DEF TypeInv, TypeOK, Cell, At
<1>1. ASSUME NEW t \in Task, NEW b \in TickBases, NEW p \in Priorities,
             ScheduleTask(t, b, p)
      PROVE  TypeInv'
  <2>1. speed' \in Nat \ {0}
    BY <1>1, SpeedOfType DEF ScheduleTask
  <2>2. priority' \in [Task -> Nat]
    BY <1>1 DEF ScheduleTask
  <2>3. CASE installed
    BY <1>1, <2>1, <2>2, <2>3 DEF ScheduleTask, lists, isr
  <2>4. CASE ~installed
    <3>1. next' \in [Cell -> Cell \cup {Null}] /\ prev' \in [Cell -> Cell \cup {Null}]
      BY <1>1, <2>4 DEF ScheduleTask
    <3>2. QED BY <1>1, <2>1, <2>2, <2>4, <3>1 DEF ScheduleTask, isr
  <2>5. QED BY <2>3, <2>4
<1>2. CASE SetTimer
  BY <1>2 DEF SetTimer, lists, fields, isr
<1>3. CASE SetClockSpeed
  BY <1>3, ClockForType DEF SetClockSpeed, lists, fields, isr
<1>4. CASE FillTask
  BY <1>4 DEF FillTask, lists, isr
<1>5. CASE Search
  BY <1>5 DEF Search, Passes, lists, fields, isr
<1>6. CASE Link
  BY <1>6 DEF Link, fields, isr
<1>7. CASE Link3
  BY <1>7 DEF Link3, fields, isr
<1>8. CASE Link4
  BY <1>8 DEF Link4, fields, isr
<1>9. ASSUME NEW t \in Task, Terminate(t)
      PROVE  /\ next' \in [Cell -> Cell \cup {Null}]
             /\ prev' \in [Cell -> Cell \cup {Null}]
             /\ heap' \subseteq Task /\ clock' \in 1..Full
  <2>1. CASE t \in Listed
    <3>1. clock' \in 1..Full
      BY <1>9, <2>1, MaxTaskRate, ListedTasks DEF Terminate
    <3>2. QED BY <1>9, <2>1, <3>1 DEF Terminate, RemovedNext, RemovedPrev
  <2>2. CASE t \notin Listed
    BY <1>9, <2>2 DEF Terminate
  <2>3. QED BY <2>1, <2>2
<1>10. ASSUME NEW t \in Task, NEW s \in Nat \ {0}, Retime(t, s)
       PROVE  rate' \in [Task -> Nat \ {0}] /\ clock' \in 1..Full
  BY <1>10, MaxTaskRate, ListedTasks DEF Retime
<1>11. ASSUME NEW t \in Task, TerminateTask(t) PROVE TypeInv'
  BY <1>9, <1>11 DEF TerminateTask, fields, main, isr
<1>12. CASE Dispatch
  BY <1>12 DEF Dispatch, lists, main, isr
<1>13. ASSUME NEW t \in Task, NEW b \in TickBases, SetTaskRate(t, b)
       PROVE  TypeInv'
  <2>1. SpeedOf(b) \in Nat \ {0}
    BY SpeedOfType
  <2>2. CASE SpeedOf(b) < clock
    BY <1>13, <2>1, <2>2, ClockForType DEF SetTaskRate, lists, isr
  <2>3. CASE ~(SpeedOf(b) < clock)
    BY <1>10, <1>13, <2>1, <2>3 DEF SetTaskRate, lists, isr
  <2>4. QED BY <2>2, <2>3
<1>14. CASE FinishRetime
  <2>1. rate' \in [Task -> Nat \ {0}] /\ clock' \in 1..Full
    BY <1>14, MaxTaskRate, ListedTasks DEF FinishRetime, Retime
  <2>2. QED BY <1>14, <2>1 DEF FinishRetime, lists, isr
<1>15. CASE Suspend
  BY <1>15 DEF Suspend, lists, fields, main, isr
<1>16. CASE Resume
  BY <1>16 DEF Resume, lists, fields, main, isr
<1>17. CASE FreeTaskList
  BY <1>17 DEF FreeTaskList, fields, isr
<1>18. CASE StopClock
  BY <1>18, ClockForType DEF StopClock, lists, fields, isr
<1>19. CASE RestoreVector
  BY <1>19 DEF RestoreVector, lists, fields, isr
<1>20. CASE TimerInterrupt
  <2>1. owed' \in 0..(2 * Full - 1)
    BY <1>20, LaterType DEF TimerInterrupt
  <2>2. QED BY <1>20, <2>1 DEF TimerInterrupt, lists, fields, main
<1>21. CASE VisitTask
  BY <1>21 DEF VisitTask, lists, main
<1>22. CASE Service
  <2>1. /\ next' \in [Cell -> Cell \cup {Null}]
        /\ prev' \in [Cell -> Cell \cup {Null}]
        /\ rate' \in [Task -> Nat \ {0}]
        /\ heap' \subseteq Task /\ clock' \in 1..Full
    BY <1>9, <1>10, <1>22, SpeedOfType DEF Service, lists
  <2>2. count' \in [Task -> Nat]
    BY <1>22 DEF Service, Due
  <2>3. owed' \in 0..(2 * Full - 1)
    <3>1. owed \in Int /\ clock' - clock \in Int /\ owed' = Later(owed, clock' - clock)
      BY <1>22, <2>1 DEF Service
    <3>2. QED BY <3>1, LaterType
  <2>4. overtaken' \in BOOLEAN
    <3>1. overtaken' = (overtaken \/ Overtakes)
      BY <1>22 DEF Service
    <3>2. QED BY <3>1, Zenon
  <2>5. QED BY <1>22, <2>1, <2>2, <2>3, <2>4 DEF Service, main, isr
<1>23. CASE NextTask
  BY <1>23 DEF NextTask, lists, fields, main
<1>24. CASE ChainBios
  <2>1. sum' \in 0..(Full - 1)
    BY <1>24 DEF ChainBios
  <2>2. owed' \in 0..(2 * Full - 1)
    BY <1>24, LaterType DEF ChainBios
  <2>3. QED BY <1>24, <2>1, <2>2 DEF ChainBios, lists, fields, main
<1>25. CASE UNCHANGED vars
  BY <1>25 DEF vars, lists, fields, main, isr
<1>26. QED
  BY <1>1, <1>2, <1>3, <1>4, <1>5, <1>6, <1>7, <1>8, <1>11, <1>12, <1>13, <1>14,
     <1>15, <1>16, <1>17, <1>18, <1>19, <1>20, <1>21, <1>22, <1>23, <1>24, <1>25
     DEF Next, MainStep, MainCall, IsrStep

\* Every variable keeps its type, whatever the tasks do to the list.
THEOREM TypeCorrect == Spec => []TypeOK
<1>1. TypeInv => TypeOK
  BY DEF TypeInv
<1>2. QED BY <1>1, TypeInit, TypeStep, PTL DEF Spec

-----------------------------------------------------------------------------
(* The list, the heap and the clock.                                       *)

\* The links are what the lemmas on linked lists ask for.
LEMMA Links ==
    ASSUME TypeOK
    PROVE  /\ DOMAIN next = Cell /\ DOMAIN prev = Cell
           /\ HeadTask \in Cell /\ Null \notin Cell
           /\ \A x \in DOMAIN next : next[x] \in DOMAIN next \cup {Null}
           /\ Listed \subseteq Task /\ HeadTask \notin Listed
           /\ HeadTask \notin Task /\ Null \notin Task /\ Null # HeadTask
BY ConstantsAssumption, ListedTasks DEF TypeOK, Cell

\* What the list holds is closed under next: the walk of the interrupt stays in it.
LEMMA ListedClosed ==
    ASSUME TypeOK
    PROVE  Closed(next, HeadTask, Null, Listed \cup {HeadTask})
<1>1. /\ HeadTask \in DOMAIN next
      /\ \A x \in DOMAIN next : next[x] \in DOMAIN next \cup {Null}
  BY Links
<1>2. QED BY <1>1, MembersClosed DEF Listed

\* Before TS_Startup no cell is linked, and nothing is promised.
LEMMA SafeInit == Init => SafeInv
<1> SUFFICES ASSUME Init PROVE SafeInv
  OBVIOUS
<1>1. next[HeadTask] = Null /\ DOMAIN next = Cell /\ HeadTask \in Cell
  BY DEF Init, Cell
<1>2. Listed = {}
  BY <1>1, NoMembers DEF Listed
<1>3. mpc = "run" /\ ~installed /\ heap = {}
  BY DEF Init
<1>4. QED
  BY <1>2, <1>3 DEF SafeInv, ListInv, HeapInv, ClockInv, OrderInv, Inserting, Pending,
                    ClockFits, ListIsSorted

\* Steps that touch neither the list, nor rates and clock, nor the main program.
LEMMA SafeKept ==
    ASSUME SafeInv, UNCHANGED <<lists, rate, priority, heap, installed, clock, main>>,
           overtaken => overtaken'
    PROVE  SafeInv'
<1>1. Listed' = Listed
  BY DEF lists, Listed
<1>2. QED
  BY <1>1 DEF lists, main, SafeInv, ListInv, HeapInv, ClockInv, OrderInv, Inserting,
              Pending, ClockFits, ListIsSorted

\* TS_Terminate takes the task out of the list and of the heap, and slows the
\* clock down no further than the rates that remain.
LEMMA SafeTerminate ==
    ASSUME TypeOK, SafeInv, mpc \notin {"search", "link", "link3", "link4"}, UNCHANGED main,
           NEW t \in Task, t \in Listed, Terminate(t),
           UNCHANGED <<rate, priority, installed>>, overtaken' \/ ~Overtakes
    PROVE  SafeInv'
<1>0. UNCHANGED <<mpc, node, hoya, speed>>
  BY DEF main
<1>1. installed /\ Ring(next, prev, Listed \cup {HeadTask})
  BY DEF SafeInv, ListInv, HeapInv
<1>2. Listed' = Listed \ {t}
  BY <1>1, Links, MembersRemoved DEF Terminate, Listed
<1>3. t # HeadTask
  BY ConstantsAssumption
<1>4. prev[t] # t
  BY <1>1, Links, MembersPrev DEF Listed
<1>5. Ring(next', prev', Listed' \cup {HeadTask})
  <2>1. (Listed \cup {HeadTask}) \ {t} = Listed' \cup {HeadTask}
    BY <1>2, <1>3
  <2>2. Ring(next', prev', (Listed \cup {HeadTask}) \ {t})
    <3>1. t \in Listed \cup {HeadTask}
          /\ Listed \cup {HeadTask} \subseteq DOMAIN next /\ DOMAIN prev = DOMAIN next
      BY Links DEF Cell
    <3>2. /\ next' = [RemovedNext(next, prev, t) EXCEPT ![t] = Null]
          /\ prev' = [RemovedPrev(next, prev, t) EXCEPT ![t] = Null]
      BY DEF Terminate
    <3>3. QED BY <1>1, <1>3, <1>4, <3>1, <3>2, RingRemoved
  <2>3. QED BY <2>1, <2>2
<1>6. ClockInv'
  <2>1. \A u \in Listed \ {t} : clock' <= rate[u]
    BY Links, MaxTaskRate DEF Terminate, TypeOK
  <2>2. clock' \in Int
    BY Links, MaxTaskRate DEF Terminate, TypeOK
  <2>3. ~overtaken' => ~Overtakes
    OBVIOUS
  <2>4. ASSUME ~overtaken' PROVE ClockFits'
    <3>1. \A u \in Listed' : clock' <= rate'[u]
      BY <1>2, <2>1
    <3>2. /\ mpc' = "clock" => ~(clock' < speed')
          /\ mpc' = "fill" => ~(clock' > speed')
      BY <1>0, <2>3, <2>4 DEF Overtakes
    <3>3. speed' \in Int /\ mpc' \notin {"search", "link", "link3"}
      BY <1>0 DEF TypeOK
    <3>4. QED BY <2>2, <3>1, <3>2, <3>3 DEF ClockFits
  <2>5. QED BY <1>0, <2>4 DEF SafeInv, ClockInv
<1>7. ListIsSorted'
  <2>1. SUFFICES ASSUME NEW u \in Listed \ {t}, next'[u] \in Task
                 PROVE  priority[u] <= priority[next'[u]]
    BY <1>2 DEF ListIsSorted
  <2>2. u \in Cell /\ prev[t] \in Cell /\ t \in Cell
    BY <1>1, Links DEF Ring, Cell
  <2>3. next'[u] = IF u = prev[t] THEN next[t] ELSE next[u]
    BY <2>2, Links DEF Terminate, RemovedNext
  <2>4. CASE u = prev[t]
    <3>1. next[u] = t /\ next[t] \in Task
      BY <1>1, <2>1, <2>3, <2>4 DEF Ring
    <3>2. priority[u] <= priority[t] /\ priority[t] <= priority[next[t]]
      BY <3>1 DEF SafeInv, OrderInv, ListIsSorted
    <3>3. QED BY <2>1, <2>3, <2>4, <3>1, <3>2, Links DEF TypeOK
  <2>5. CASE u # prev[t]
    BY <2>1, <2>3, <2>5 DEF SafeInv, OrderInv, ListIsSorted
  <2>6. QED BY <2>4, <2>5
<1>8. heap' = Listed' \cup Pending' /\ (Inserting' => node \notin Listed')
  BY <1>0, <1>2 DEF Terminate, SafeInv, HeapInv, Inserting, Pending
<1>9. HeapInv'
  BY <1>0, <1>1, <1>2, <1>8 DEF SafeInv, HeapInv, Inserting
<1>10. ListInv' /\ OrderInv'
  BY <1>0, <1>5, <1>7 DEF ListInv, OrderInv
<1>11. QED BY <1>6, <1>9, <1>10 DEF SafeInv

\* TS_SetTaskRate leaves a clock that reaches the new rate and all others in the list.
LEMMA SafeRetime ==
    ASSUME TypeOK, SafeInv, NEW t \in Task, NEW s \in Nat \ {0}, Retime(t, s),
           UNCHANGED <<lists, priority, heap, installed>>,
           \/ UNCHANGED main
           \/ mpc \in {"run", "retime"} /\ mpc' = "run",
           overtaken' \/ ~Overtakes
    PROVE  SafeInv'
<1>1. Listed' = Listed
  BY DEF lists, Listed
<1>2. /\ rate' \in [Task -> Nat \ {0}]
      /\ \A u \in Listed : clock' <= rate'[u]
      /\ clock' \in Int
  <2>1. rate' \in [Task -> Nat \ {0}]
    BY DEF Retime, TypeOK
  <2>2. SetTimerToMaxTaskRate(Listed, rate')
    BY DEF Retime
  <2>3. QED BY <2>1, <2>2, Links, MaxTaskRate
<1>3. CASE UNCHANGED main
  <2>1. UNCHANGED <<mpc, node, hoya, speed>>
    BY <1>3 DEF main
  <2>2. ClockInv'
    <3>1. ~overtaken' => ~Overtakes
      OBVIOUS
    <3>2. mpc \in {"search", "link", "link3"} => node \in Task
      BY DEF SafeInv, HeapInv, Inserting
    <3>3. ~overtaken' => ClockFits'
      BY <1>1, <1>2, <2>1, <3>1, <3>2 DEF ClockFits, Overtakes, TypeOK
    <3>4. QED BY <2>1, <3>3 DEF SafeInv, ClockInv
  <2>3. QED
    BY <1>1, <2>1, <2>2 DEF lists, SafeInv, ListInv, HeapInv, OrderInv, Inserting, Pending,
                            ListIsSorted
<1>4. CASE mpc \in {"run", "retime"} /\ mpc' = "run"
  <2>1. ClockInv'
    BY <1>1, <1>2, <1>4 DEF ClockInv, ClockFits
  <2>2. QED
    BY <1>1, <1>4, <2>1 DEF lists, SafeInv, ListInv, HeapInv, OrderInv, Inserting, Pending,
                            ListIsSorted
<1>5. QED BY <1>3, <1>4

\* Every step of the program and of the interrupt keeps the invariant.
LEMMA SafeStep ==
    ASSUME Careful
    PROVE  TypeInv /\ SafeInv /\ [Next]_vars => SafeInv'
<1> SUFFICES ASSUME TypeInv, SafeInv, [Next]_vars PROVE SafeInv'
  OBVIOUS
<1>0. TypeOK /\ TypeInv /\ TypeOK'
  BY TypeStep DEF TypeInv
<1> USE <1>0 DEF At
<1>1. ASSUME NEW t \in Task, NEW b \in TickBases, NEW p \in Priorities,
             ScheduleTask(t, b, p)
      PROVE  SafeInv'
  <2>1. mpc = "run" /\ heap = Listed /\ t \notin Listed
    BY <1>1 DEF ScheduleTask, SafeInv, HeapInv, Inserting, Pending
  <2>2. /\ mpc' = "timer" /\ node' = t /\ heap' = heap \cup {t} /\ rate' = rate
        /\ installed' /\ priority' = [priority EXCEPT ![t] = p] /\ overtaken' = overtaken
    BY <1>1 DEF ScheduleTask
  <2>3. /\ Listed' = Listed
        /\ Ring(next', prev', Listed \cup {HeadTask})
        /\ \A u \in Listed : (overtaken \/ clock' <= rate[u]) /\ next'[u] = next[u]
    <3>1. CASE installed
      <4>1. next' = next /\ prev' = prev /\ clock' = clock
        BY <1>1, <3>1 DEF ScheduleTask, lists
      <4>2. Listed' = Listed
        BY <4>1 DEF Listed
      <4>3. QED BY <2>1, <3>1, <4>1, <4>2 DEF SafeInv, ListInv, ClockInv, ClockFits
    <3>2. CASE ~installed
      <4>1. next'[HeadTask] = HeadTask /\ prev'[HeadTask] = HeadTask /\ DOMAIN next' = Cell
        BY <1>1, <3>2, Links DEF ScheduleTask
      <4>2. Listed' = {}
        BY <4>1, Links, NoMembers DEF Listed
      <4>3. Listed = {}
        BY <2>1, <3>2 DEF SafeInv, HeapInv
      <4>4. QED BY <4>1, <4>2, <4>3 DEF Ring
    <3>3. QED BY <3>1, <3>2
  <2>4. ListIsSorted'
    <3>1. \A u \in Listed : next[u] \in Task => next[u] \in Listed
      BY ListedClosed, Links DEF Closed
    <3>2. \A u \in Listed : priority'[u] = priority[u]
      BY <2>1, <2>2, Links DEF TypeOK
    <3>3. QED BY <2>1, <2>3, <3>1, <3>2 DEF SafeInv, OrderInv, ListIsSorted
  <2>5. QED
    BY <2>1, <2>2, <2>3, <2>4
       DEF SafeInv, ListInv, HeapInv, ClockInv, OrderInv, Inserting, Pending, ClockFits
<1>2. CASE SetTimer
  <2>1. Listed' = Listed
    BY <1>2 DEF SetTimer, lists, Listed
  <2>2. speed \in Int /\ clock \in Int /\ clock <= Full /\ Full \in Int
    BY ConstantsAssumption DEF TypeOK
  <2>3. mpc' = "clock" => speed < clock
    BY <1>2 DEF SetTimer
  <2>4. mpc' = "fill" => ~(speed < clock)
    BY <1>2 DEF SetTimer
  <2>5. ClockInv'
    BY <1>2, <2>1, <2>2, <2>3, <2>4
       DEF SetTimer, fields, SafeInv, ClockInv, ClockFits
  <2>6. QED
    BY <1>2, <2>1, <2>5
       DEF SetTimer, lists, fields, SafeInv, ListInv, HeapInv, OrderInv,
           Inserting, Pending, ListIsSorted
<1>3. CASE SetClockSpeed
  <2>1. Listed' = Listed
    BY <1>3 DEF SetClockSpeed, lists, Listed
  <2>2. clock' = speed /\ speed \in Int /\ clock \in Int
    BY <1>3 DEF SetClockSpeed, ClockFor, SafeInv, ClockInv, TypeOK
  <2>3. ~overtaken => \A t \in Listed : clock' <= rate[t]
    BY <1>3, <2>2, Links DEF SetClockSpeed, SafeInv, ClockInv, ClockFits, TypeOK
  <2>4. ClockInv'
    BY <1>3, <2>1, <2>2, <2>3 DEF SetClockSpeed, fields, ClockInv, ClockFits
  <2>5. QED
    BY <1>3, <2>1, <2>4
       DEF SetClockSpeed, lists, fields, SafeInv, ListInv, HeapInv, OrderInv,
           Inserting, Pending, ListIsSorted
<1>4. CASE FillTask
  <2>1. Listed' = Listed /\ next' = next /\ prev' = prev
    BY <1>4 DEF FillTask, lists, Listed
  <2>2. /\ node \in Task /\ node \notin Listed /\ installed
        /\ Ring(next, prev, Listed \cup {HeadTask})
    BY <1>4 DEF FillTask, SafeInv, HeapInv, ListInv, Inserting
  <2>3. next[HeadTask] \in Listed \cup {HeadTask} /\ prev[next[HeadTask]] = HeadTask
    BY <2>2 DEF Ring
  <2>4. \A t \in Listed : rate'[t] = rate[t]
    BY <1>4, <2>2, Links DEF FillTask, TypeOK
  <2>5. rate'[node] = speed
    BY <1>4, <2>2 DEF FillTask, TypeOK
  <2>6. HeadTask \notin Task
    BY ConstantsAssumption
  <2>7. QED
    BY <1>4, <2>1, <2>2, <2>3, <2>4, <2>5, <2>6
       DEF FillTask, SafeInv, ListInv, HeapInv, ClockInv, OrderInv,
           Inserting, Pending, ClockFits, ListIsSorted
<1>5. CASE Search
  <2>1. Listed' = Listed /\ next' = next /\ prev' = prev
    BY <1>5 DEF Search, lists, Listed
  <2>2. /\ installed /\ hoya \in Listed \cup {HeadTask}
        /\ Ring(next, prev, Listed \cup {HeadTask})
    BY <1>5 DEF Search, SafeInv, HeapInv, ListInv
  <2>3. hoya # Null /\ node \in Task
    BY <1>5, <2>2, Links DEF Search, SafeInv, HeapInv, Inserting
  <2>4. CASE Passes(hoya)
    <3>1. mpc' = "search" /\ hoya' = next[hoya]
      BY <1>5, <2>3, <2>4 DEF Search
    <3>2. hoya' \in Listed \cup {HeadTask} /\ prev[hoya'] = hoya
      BY <2>2, <3>1 DEF Ring
    <3>3. hoya \in Task /\ priority[hoya] < priority[node]
      BY <2>2, <2>3, <2>4, Links DEF Passes, TypeOK
    <3>4. QED
      BY <1>5, <2>1, <2>2, <3>1, <3>2, <3>3
         DEF Search, lists, fields, SafeInv, ListInv, HeapInv, ClockInv, OrderInv,
             Inserting, Pending, ClockFits, ListIsSorted
  <2>5. CASE ~Passes(hoya)
    <3>1. mpc' = "link" /\ hoya' = hoya
      BY <1>5, <2>3, <2>5 DEF Search
    <3>2. hoya \in Task => priority[node] <= priority[hoya]
      BY <2>3, <2>5, ConstantsAssumption DEF Passes, TypeOK
    <3>3. QED
      BY <1>5, <2>1, <2>2, <3>1, <3>2
         DEF Search, lists, fields, SafeInv, ListInv, HeapInv, ClockInv, OrderInv,
             Inserting, Pending, ClockFits, ListIsSorted
  <2>6. QED BY <2>4, <2>5
<1>6. CASE Link
  <2>1. /\ mpc = "link" /\ mpc' = "link3" /\ node' = node /\ hoya' = hoya
        /\ next' = [next EXCEPT ![node] = hoya]
        /\ prev' = [prev EXCEPT ![node] = prev[hoya]]
        /\ UNCHANGED <<fields, heap, installed, clock, overtaken>>
    BY <1>6 DEF Link
  <2>2. /\ node \in Task /\ node \notin Listed /\ node # HeadTask
        /\ installed /\ hoya \in Listed \cup {HeadTask}
        /\ Ring(next, prev, Listed \cup {HeadTask})
    BY <2>1, ConstantsAssumption DEF SafeInv, HeapInv, ListInv, Inserting
  <2>3. Listed' = Listed
    <3>1. /\ HeadTask \in DOMAIN next /\ node \notin Members(next, HeadTask, Null)
          /\ \A x \in DOMAIN next : next[x] \in DOMAIN next \cup {Null}
      BY <2>2, Links DEF Listed
    <3>2. Members([next EXCEPT ![node] = hoya], HeadTask, Null)
            = Members(next, HeadTask, Null)
      BY <2>2, <3>1, MembersOutside
    <3>3. QED BY <2>1, <3>2 DEF Listed
  <2>4. \A x \in Listed \cup {HeadTask} : next'[x] = next[x] /\ prev'[x] = prev[x]
    BY <2>1, <2>2, Links
  <2>5. Ring(next', prev', Listed' \cup {HeadTask})
    BY <2>2, <2>3, <2>4 DEF Ring
  <2>6. next'[node] = hoya /\ prev'[node] = prev[hoya] /\ prev'[hoya] = prev[hoya]
    BY <2>1, <2>2, <2>4, Links DEF Cell
  <2>7. QED
    BY <2>1, <2>2, <2>3, <2>4, <2>5, <2>6
       DEF fields, SafeInv, ListInv, HeapInv, ClockInv, OrderInv,
           Inserting, Pending, ClockFits, ListIsSorted
<1>7. CASE Link3
  <2>1. /\ mpc = "link3" /\ node \in Task /\ node \notin Listed /\ node # HeadTask
        /\ installed /\ hoya \in Listed \cup {HeadTask}
        /\ Ring(next, prev, Listed \cup {HeadTask})
        /\ next[node] = hoya /\ prev[node] = prev[hoya]
    BY <1>7, ConstantsAssumption DEF Link3, SafeInv, HeapInv, ListInv, Inserting
  <2>2. /\ prev[hoya] \in Listed \cup {HeadTask} /\ prev[hoya] # node
        /\ prev[hoya] # Null /\ next[prev[hoya]] = hoya
    BY <2>1, Links DEF Ring
  <2>3. /\ mpc' = "link4" /\ next' = [next EXCEPT ![prev[hoya]] = node]
        /\ node' = node /\ hoya' = hoya
        /\ UNCHANGED <<prev, fields, heap, installed, clock, overtaken>>
    BY <1>7, <2>2 DEF Link3
  <2>4. Listed' = Listed \cup {node}
    <3>1. /\ HeadTask \in DOMAIN next /\ Null \notin DOMAIN next /\ node \in DOMAIN next
          /\ node \notin Members(next, HeadTask, Null)
          /\ prev[hoya] \in Members(next, HeadTask, Null) \cup {HeadTask}
          /\ \A x \in DOMAIN next : next[x] \in DOMAIN next \cup {Null}
      BY <2>1, <2>2, Links DEF Listed, Cell
    <3>2. Members([next EXCEPT ![prev[hoya]] = node], HeadTask, Null)
            = Members(next, HeadTask, Null) \cup {node}
      BY <2>1, <2>2, <3>1, MembersAdded
    <3>3. QED BY <2>3, <3>2 DEF Listed
  <2>5. Ring(next', [prev' EXCEPT ![hoya] = node], Listed' \cup {HeadTask})
    <3>1. Listed' \cup {HeadTask} = (Listed \cup {HeadTask}) \cup {node}
      BY <2>4
    <3>2. Ring(next', [prev EXCEPT ![hoya] = node], (Listed \cup {HeadTask}) \cup {node})
      BY <2>1, <2>2, <2>3, Links, RingAdded DEF Cell
    <3>3. QED BY <2>3, <3>1, <3>2
  <2>6. ClockInv'
    BY <2>1, <2>3, <2>4 DEF fields, SafeInv, ClockInv, ClockFits
  <2>7. ListIsSorted'
    <3>1. SUFFICES ASSUME NEW u \in Listed \cup {node}, next'[u] \in Task
                   PROVE  priority[u] <= priority[next'[u]]
      BY <2>3, <2>4 DEF ListIsSorted, fields
    <3>2. next'[u] = IF u = prev[hoya] THEN node ELSE next[u]
      BY <2>1, <2>3, Links DEF Cell
    <3>3. CASE u = prev[hoya]
      <4>1. u \in Task /\ next'[u] = node
        BY <2>1, <2>4, <3>1, <3>2, <3>3, Links
      <4>2. priority[u] < priority[node]
        BY <2>1, <3>3, <4>1 DEF SafeInv, OrderInv
      <4>3. priority[u] \in Nat /\ priority[node] \in Nat
        BY <2>1, <4>1 DEF TypeOK
      <4>4. QED BY <4>1, <4>2, <4>3
    <3>4. CASE u = node
      BY <2>1, <2>2, <3>1, <3>2, <3>4 DEF SafeInv, OrderInv
    <3>5. CASE u # prev[hoya] /\ u # node
      BY <3>1, <3>2, <3>5 DEF SafeInv, OrderInv, ListIsSorted
    <3>6. QED BY <3>3, <3>4, <3>5
  <2>8. heap' = Listed'
    BY <2>1, <2>3, <2>4 DEF SafeInv, HeapInv, Inserting, Pending
  <2>9. QED
    BY <2>1, <2>3, <2>4, <2>5, <2>6, <2>7, <2>8
       DEF SafeInv, ListInv, HeapInv, ClockInv, OrderInv, Inserting, Pending
<1>8. CASE Link4
  <2>1. /\ mpc = "link4" /\ mpc' = "run" /\ next' = next
        /\ prev' = [prev EXCEPT ![hoya] = node]
        /\ UNCHANGED <<fields, heap, installed, clock, overtaken>>
    BY <1>8 DEF Link4
  <2>2. Listed' = Listed
    BY <2>1 DEF Listed
  <2>3. Ring(next', prev', Listed' \cup {HeadTask})
    BY <2>1, <2>2 DEF SafeInv, ListInv
  <2>4. QED
    BY <2>1, <2>2, <2>3
       DEF fields, SafeInv, ListInv, HeapInv, ClockInv, OrderInv,
           Inserting, Pending, ClockFits, ListIsSorted
<1>9. ASSUME NEW t \in Task, TerminateTask(t) PROVE SafeInv'
  <2>1. /\ mpc = "run" /\ Terminate(t) /\ UNCHANGED main
        /\ UNCHANGED <<rate, priority, installed>>
    BY <1>9 DEF TerminateTask, fields
  <2>2. overtaken' = (overtaken /\ t \notin Listed)
    BY <1>9 DEF TerminateTask
  <2>3. ~Overtakes
    BY <2>1 DEF Overtakes
  <2>4. CASE t \in Listed
    BY <2>1, <2>3, <2>4, SafeTerminate
  <2>5. CASE t \notin Listed
    <3>1. UNCHANGED <<lists, heap, clock>>
      BY <2>1, <2>5 DEF Terminate, lists
    <3>2. overtaken => overtaken'
      BY <2>2, <2>5
    <3>3. QED BY <2>1, <3>1, <3>2, SafeKept
  <2>6. QED BY <2>4, <2>5
<1>10. ASSUME NEW t \in Task, NEW b \in TickBases, SetTaskRate(t, b)
       PROVE  SafeInv'
  <2>1. SpeedOf(b) \in Nat \ {0}
    BY SpeedOfType
  <2>2. CASE SpeedOf(b) < clock
    <3>1. /\ mpc = "run" /\ mpc' = "retime" /\ node' = t /\ speed' = SpeedOf(b)
          /\ clock' = SpeedOf(b) /\ t \in heap
          /\ UNCHANGED <<lists, rate, priority, heap, installed, overtaken>>
      BY <1>10, <2>1, <2>2 DEF SetTaskRate, ClockFor, TypeOK
    <3>2. Listed' = Listed
      BY <3>1 DEF lists, Listed
    <3>3. heap = Listed /\ installed
      BY <3>1 DEF SafeInv, HeapInv, Inserting, Pending
    <3>4. ~overtaken => \A u \in Listed : clock' <= rate[u]
      BY <2>1, <2>2, <3>1, Links DEF SafeInv, ClockInv, ClockFits, TypeOK
    <3>5. QED
      BY <2>1, <3>1, <3>2, <3>3, <3>4
         DEF lists, SafeInv, ListInv, HeapInv, ClockInv, OrderInv,
             Inserting, Pending, ClockFits, ListIsSorted
  <2>3. CASE ~(SpeedOf(b) < clock)
    BY <1>10, <2>1, <2>3, SafeRetime DEF SetTaskRate, Overtakes, main
  <2>4. QED BY <2>2, <2>3
<1>11. CASE FinishRetime
  <2>1. node \in Task /\ speed \in Nat \ {0}
    BY <1>11, Links DEF FinishRetime, SafeInv, HeapInv, TypeOK
  <2>2. QED BY <1>11, <2>1, SafeRetime DEF FinishRetime, Overtakes
<1>12. CASE FreeTaskList
  <2>1. /\ next'[HeadTask] = HeadTask /\ prev'[HeadTask] = HeadTask /\ DOMAIN next' = Cell
        /\ mpc = "run" /\ mpc' = "free" /\ installed' /\ heap' = heap \ Listed
    BY <1>12, Links DEF FreeTaskList
  <2>2. Listed' = {}
    BY <2>1, Links, NoMembers DEF Listed
  <2>3. heap' = {}
    BY <2>1 DEF SafeInv, HeapInv, Inserting, Pending
  <2>4. QED
    BY <2>1, <2>2, <2>3
       DEF Ring, SafeInv, ListInv, HeapInv, ClockInv, OrderInv,
           Inserting, Pending, ClockFits, ListIsSorted
<1>13. CASE StopClock
  <2>1. Listed' = Listed /\ Listed = {}
    BY <1>13 DEF StopClock, lists, Listed, SafeInv, HeapInv
  <2>2. QED
    BY <1>13, <2>1
       DEF StopClock, lists, fields, SafeInv, ListInv, HeapInv, ClockInv, OrderInv,
           Inserting, Pending, ClockFits, ListIsSorted
<1>14. CASE RestoreVector
  <2>1. Listed' = Listed /\ Listed = {}
    BY <1>14 DEF RestoreVector, lists, Listed, SafeInv, HeapInv
  <2>2. QED
    BY <1>14, <2>1
       DEF RestoreVector, lists, fields, SafeInv, ListInv, HeapInv, ClockInv, OrderInv,
           Inserting, Pending, ClockFits, ListIsSorted
<1>15. CASE Service
  <2>1. /\ UNCHANGED <<priority, installed, main>> /\ ptr \in Task
        /\ overtaken' = (overtaken \/ Overtakes)
    BY <1>15 DEF Service, TypeInv
  <2>2. CASE UNCHANGED <<lists, rate, heap, clock>>
    <3>1. overtaken => overtaken'
      BY <2>1
    <3>2. QED BY <2>1, <2>2, <3>1, SafeKept
  <2>3. CASE Calm /\ Terminate(ptr) /\ UNCHANGED rate
    <3>1. mpc \notin {"search", "link", "link3", "link4"}
      BY <2>3 DEF Calm
    <3>2. CASE ptr \notin Listed
      <4>1. UNCHANGED <<lists, heap, clock>>
        BY <2>3, <3>2 DEF Terminate, lists
      <4>2. overtaken => overtaken'
        BY <2>1
      <4>3. QED BY <2>1, <2>3, <4>1, <4>2, SafeKept
    <3>3. CASE ptr \in Listed
      <4>1. overtaken' \/ ~Overtakes
        BY <2>1
      <4>2. QED BY <2>1, <2>3, <3>1, <3>3, <4>1, SafeTerminate
    <3>4. QED BY <3>2, <3>3
  <2>4. ASSUME NEW b \in TickBases, Retime(ptr, SpeedOf(b)), UNCHANGED <<lists, heap>>
        PROVE  SafeInv'
    <3>1. overtaken' \/ ~Overtakes
      BY <2>1
    <3>2. QED BY <2>1, <2>4, <3>1, SpeedOfType, SafeRetime
  <2>5. QED BY <1>15, <2>2, <2>3, <2>4 DEF Service
<1>16. CASE Dispatch \/ Suspend \/ Resume \/ TimerInterrupt \/ VisitTask \/ NextTask
            \/ ChainBios \/ UNCHANGED vars
  BY <1>16, SafeKept
     DEF Dispatch, Suspend, Resume, TimerInterrupt, VisitTask, NextTask, ChainBios,
         vars, fields
<1>17. QED
  BY <1>1, <1>2, <1>3, <1>4, <1>5, <1>6, <1>7, <1>8, <1>9, <1>10, <1>11, <1>12, <1>13,
     <1>14, <1>15, <1>16
     DEF Next, MainStep, MainCall, IsrStep

\* When no service ends its task while an insertion walks through the list, the list, the
\* heap, the clock and the order hold together in every state.
THEOREM Safety == ASSUME Careful PROVE Spec => []IInv
<1>1. Init => IInv
  BY TypeInit, SafeInit DEF IInv
<1>2. IInv /\ [Next]_vars => IInv'
  BY TypeStep, SafeStep DEF IInv
<1>3. QED BY <1>1, <1>2, PTL DEF Spec

\* The list is a ring in both directions outside the writes of an insertion: the
\* handler and TS_Terminate never follow a link that leads out of it.
THEOREM RingCorrect == ASSUME Careful PROVE Spec => []ListIsRing
<1>1. IInv => ListIsRing
  BY DEF IInv, SafeInv, ListInv, ListIsRing
<1>2. QED BY <1>1, Safety, PTL

\* No insertion is lost, and no structure leaks or dangles: between calls, the
\* list is exactly what malloc has given out.
THEOREM ListCorrect == ASSUME Careful PROVE Spec => []EveryTaskListed
<1>1. IInv => EveryTaskListed
  BY DEF IInv, SafeInv, HeapInv, EveryTaskListed, Inserting, Pending
<1>2. QED BY <1>1, Safety, PTL

\* Whatever is interrupted, the handler walks the tasks in priority order.
THEOREM OrderCorrect == ASSUME Careful PROVE Spec => []ListIsSorted
<1>1. IInv => ListIsSorted
  BY DEF IInv, SafeInv, OrderInv
<1>2. QED BY <1>1, Safety, PTL

\* The timer is at least as fast as the fastest task in the list, unless a service has
\* changed the clock between TS_SetTimer's comparison and the link of the task in such a way
\* that the comparison is wrong, and nobody has looked for the fastest task since.
THEOREM ClockCorrect == ASSUME Careful PROVE Spec => []ClockKeepsUp
<1>1. IInv => ClockKeepsUp
  BY DEF IInv, SafeInv, ClockInv, ClockFits, ClockKeepsUp
<1>2. QED BY <1>1, Safety, PTL

-----------------------------------------------------------------------------
(* The BIOS clock.                                                         *)

\* The time owed to the BIOS is the remainder TaskServiceCount keeps, and
\* during an interrupt also the period that it is counted as.
BiosInv ==
    /\ ipc = "idle" => owed = sum
    /\ ipc # "idle" => owed = sum + clock

\* A remainder, and numbers below the divisor or one divisor above them.
LEMMA Remainder ==
    ASSUME NEW a \in Nat, NEW m \in Nat \ {0}
    PROVE  a < m => a % m = a /\ (a + m) % m = a
OBVIOUS

\* One period of the PIT fits under the bound of the count of time.
LEMMA LaterPeriod ==
    ASSUME NEW s \in 0..(Full - 1), NEW c \in 1..Full
    PROVE  /\ Later(s, c) = s + c
           /\ s + c > Full - 1 => Later(s + c, Full) = (s + c) % Full
           /\ s + c <= Full - 1 => (s + c) % Full = s + c
           /\ \A d \in 1..Full : Later(s + c, d - c) = s + d
<1>1. Full \in Nat \ {0} /\ 2 * Full \in Nat \ {0}
  BY ConstantsAssumption
<1> DEFINE m == 2 * Full
<1> HIDE DEF m
<1>2. \A a \in Nat : a < m => a % m = a /\ (a + m) % m = a
  BY <1>1, Remainder DEF m
<1>3. \A a \in Nat : a < Full => a % Full = a /\ (a + Full) % Full = a
  BY <1>1, Remainder
<1>4. s + c \in Nat /\ s + c < m /\ Later(s, c) = (s + c) % m
  BY <1>1 DEF Later, m
<1>5. s + c <= Full - 1 => (s + c) % Full = s + c
  BY <1>1, <1>3, <1>4
<1>6. ASSUME s + c > Full - 1 PROVE Later(s + c, Full) = (s + c) % Full
  <2>1. s + c - Full \in Nat /\ s + c - Full < Full /\ s + c - Full < m
    BY <1>1, <1>6 DEF m
  <2>2. (s + c - Full) + Full = s + c /\ (s + c - Full) + m = s + c + Full
    BY <1>1 DEF m
  <2>3. (s + c) % Full = s + c - Full
    BY <1>3, <2>1, <2>2
  <2>4. (s + c + Full) % m = s + c - Full
    BY <1>2, <2>1, <2>2
  <2>5. QED BY <2>3, <2>4 DEF Later, m
<1>7. ASSUME NEW d \in 1..Full PROVE Later(s + c, d - c) = s + d
  <2>1. s + d \in Nat /\ s + d < m /\ s + c + (d - c) = s + d
    BY <1>1 DEF m
  <2>2. QED BY <1>2, <2>1 DEF Later, m
<1>8. QED BY <1>2, <1>4, <1>5, <1>6, <1>7

\* Every step keeps the account of the time the BIOS is owed.
LEMMA BiosStep == TypeInv /\ TypeOK' /\ BiosInv /\ [Next]_vars => BiosInv'
<1> SUFFICES ASSUME TypeInv, TypeOK', BiosInv, [Next]_vars PROVE BiosInv'
  OBVIOUS
<1>0. sum \in 0..(Full - 1) /\ clock \in 1..Full /\ clock' \in 1..Full
  BY DEF TypeInv, TypeOK
<1>1. CASE TimerInterrupt
  <2>1. owed' = Later(sum, clock) /\ ipc' = "walk" /\ UNCHANGED <<sum, clock>>
    BY <1>1 DEF TimerInterrupt, BiosInv
  <2>2. Later(sum, clock) = sum + clock
    BY <1>0, LaterPeriod
  <2>3. QED BY <2>1, <2>2 DEF BiosInv
<1>2. CASE VisitTask
  BY <1>2 DEF VisitTask, BiosInv
<1>3. CASE Service
  <2>1. ipc # "idle" /\ ipc' = ipc /\ sum' = sum /\ owed' = Later(sum + clock, clock' - clock)
    BY <1>3 DEF Service, isr, BiosInv
  <2>2. Later(sum + clock, clock' - clock) = sum + clock'
    BY <1>0, LaterPeriod
  <2>3. QED BY <2>1, <2>2 DEF BiosInv
<1>4. CASE NextTask
  BY <1>4 DEF NextTask, BiosInv
<1>5. CASE ChainBios
  <2>1. /\ ipc' = "idle" /\ sum' = (sum + clock) % Full
        /\ owed' = IF sum + clock > Full - 1 THEN Later(sum + clock, Full) ELSE sum + clock
    BY <1>5 DEF ChainBios, BiosDue, BiosInv
  <2>2. /\ sum + clock > Full - 1 => Later(sum + clock, Full) = (sum + clock) % Full
        /\ sum + clock <= Full - 1 => (sum + clock) % Full = sum + clock
    BY <1>0, LaterPeriod
  <2>3. owed' = sum'
    BY <1>0, <2>1, <2>2, ConstantsAssumption
  <2>4. QED BY <2>1, <2>3 DEF BiosInv
<1>6. CASE MainStep
  BY <1>6 DEF MainStep, SetTimer, SetClockSpeed, FillTask, Search, Link, Link3, Link4,
              FinishRetime, StopClock, RestoreVector, At, isr, BiosInv
<1>7. CASE MainCall
  BY <1>7 DEF MainCall, ScheduleTask, TerminateTask, SetTaskRate, Dispatch, Suspend,
              Resume, FreeTaskList, At, isr, BiosInv
<1>8. CASE UNCHANGED vars
  BY <1>8 DEF vars, isr, BiosInv
<1>9. QED
  BY <1>1, <1>2, <1>3, <1>4, <1>5, <1>6, <1>7, <1>8 DEF Next, IsrStep

\* At whatever speeds the program and the services make the PIT run, TS_ServiceSchedule
\* chains to the BIOS exactly the time of the periods it counts: those that have passed, but
\* for an interrupt in which a service changes the clock, which counts as the new one.
THEOREM BiosCorrect == Spec => []BiosClockExact
<1>1. Init => BiosInv
  BY DEF Init, BiosInv
<1>2. BiosInv => BiosClockExact
  BY DEF BiosInv, BiosClockExact
<1>3. TypeInv => TypeOK
  BY DEF TypeInv
<1>4. TypeInv /\ BiosInv /\ [Next]_vars => TypeInv' /\ BiosInv'
  <2>1. TypeInv' => TypeOK'
    BY DEF TypeInv
  <2>2. QED BY <2>1, TypeStep, BiosStep
<1>5. QED BY <1>1, <1>2, <1>4, TypeInit, PTL DEF Spec

-----------------------------------------------------------------------------
(* The queue that the list is to its users, for any number of tasks and    *)
(* priorities.                                                             *)

\* Inserting makes a queue, one longer.
LEMMA InsertedType ==
    ASSUME Q!TypeOK, NEW i \in 1..(Len(queue) + 1), NEW e \in Q!Entry
    PROVE  /\ Q!InsertedAt(i, e) \in Seq(Q!Entry)
           /\ Len(Q!InsertedAt(i, e)) = Len(queue) + 1
<1>1. Len(queue) \in Nat /\ \A j \in 1..Len(queue) : queue[j] \in Q!Entry
  BY DEF Q!TypeOK
<1>2. Q!InsertedAt(i, e) \in [1..(Len(queue) + 1) -> Q!Entry]
  BY <1>1 DEF Q!InsertedAt
<1>3. QED BY <1>1, <1>2

\* Removing makes a queue, one shorter.
LEMMA RemovedType ==
    ASSUME Q!TypeOK, NEW i \in 1..Len(queue)
    PROVE  Q!RemovedAt(i) \in Seq(Q!Entry) /\ Len(Q!RemovedAt(i)) = Len(queue) - 1
<1>1. Len(queue) \in Nat /\ \A j \in 1..Len(queue) : queue[j] \in Q!Entry
  BY DEF Q!TypeOK
<1>2. Q!RemovedAt(i) \in [1..(Len(queue) - 1) -> Q!Entry] /\ Len(queue) - 1 \in Nat
  BY <1>1 DEF Q!RemovedAt
<1>3. QED BY <1>2

\* The empty queue is sorted ...
LEMMA QueueInit == Q!Init => Q!TypeOK /\ Q!Sorted
BY DEF Q!Init, Q!TypeOK, Q!Sorted

\* ... and insertion, removal and clearing keep it so.
LEMMA QueueStep ==
    ASSUME Priorities \subseteq Nat
    PROVE  Q!TypeOK /\ Q!Sorted /\ [Q!Next]_queue => Q!TypeOK' /\ Q!Sorted'
<1> SUFFICES ASSUME Q!TypeOK, Q!Sorted, [Q!Next]_queue
             PROVE  Q!TypeOK' /\ Q!Sorted'
  OBVIOUS
<1>0. /\ Len(queue) \in Nat /\ Priorities \subseteq Nat
      /\ \A j \in 1..Len(queue) : queue[j].priority \in Nat
  <2>1. \A x \in Q!Entry : x.priority \in Priorities
    BY DEF Q!Entry
  <2>2. Len(queue) \in Nat /\ \A j \in 1..Len(queue) : queue[j] \in Q!Entry
    BY DEF Q!TypeOK
  <2>3. QED BY <2>1, <2>2
<1>1. ASSUME NEW t \in Task, NEW p \in Priorities, Q!Insert(t, p)
      PROVE  Q!TypeOK' /\ Q!Sorted'
  <2> DEFINE e == [task |-> t, priority |-> p]
  <2>1. PICK i \in 1..(Len(queue) + 1) :
            /\ \A j \in 1..(i - 1) : queue[j].priority < p
            /\ i <= Len(queue) => queue[i].priority >= p
            /\ queue' = Q!InsertedAt(i, e)
    BY <1>1 DEF Q!Insert
  <2>2. e \in Q!Entry /\ e.task = t /\ e.priority = p
    BY DEF Q!Entry
  <2> HIDE DEF e
  <2>3. queue' \in Seq(Q!Entry) /\ Len(queue') = Len(queue) + 1
    BY <2>1, <2>2, InsertedType
  <2>4. \A j \in 1..Len(queue') :
            queue'[j] = IF j < i THEN queue[j] ELSE IF j = i THEN e ELSE queue[j - 1]
    BY <2>1, <2>3 DEF Q!InsertedAt
  <2>5. \A j \in 1..Len(queue) : queue[j].task # t
    <3>1. ~Q!Queued(t)
      BY <1>1 DEF Q!Insert
    <3>2. QED BY <3>1 DEF Q!Queued
  <2>6. ASSUME NEW j \in i..Len(queue) PROVE queue[j].priority >= p
    <3>1. /\ i \in 1..Len(queue) /\ j \in 1..Len(queue)
          /\ queue[i].priority \in Nat /\ queue[j].priority \in Nat /\ p \in Nat
          /\ queue[i].priority >= p
      BY <1>0, <2>1
    <3>2. CASE i < j
      <4>1. queue[i].priority <= queue[j].priority
        BY <3>1, <3>2 DEF Q!Sorted
      <4>2. QED BY <3>1, <4>1
    <3>3. CASE j = i
      BY <3>1, <3>3
    <3>4. QED BY <3>1, <3>2, <3>3
  <2>7. ASSUME NEW j \in 1..Len(queue'), NEW k \in 1..Len(queue'), j < k
        PROVE  /\ queue'[j].priority <= queue'[k].priority
               /\ queue'[j].task # queue'[k].task
    <3>1. p \in Nat /\ i \in Nat
      BY <1>0
    <3>2. CASE j < i /\ k < i
      BY <1>0, <2>3, <2>4, <2>7, <3>1, <3>2 DEF Q!Sorted
    <3>3. CASE j < i /\ k = i
      <4>1. queue'[j] = queue[j] /\ queue'[k] = e
        BY <1>0, <2>3, <2>4, <2>7, <3>1, <3>3
      <4>2. j \in 1..(i - 1) /\ j \in 1..Len(queue)
        BY <1>0, <2>3, <2>7, <3>1, <3>3
      <4>3. queue[j].priority < p
        BY <2>1, <4>2
      <4>4. QED BY <1>0, <2>2, <2>5, <3>1, <4>1, <4>2, <4>3
    <3>4. CASE j < i /\ k > i
      <4>1. queue'[j] = queue[j] /\ queue'[k] = queue[k - 1] /\ j < k - 1
        BY <1>0, <2>3, <2>4, <2>7, <3>1, <3>4
      <4>2. j \in 1..Len(queue) /\ k - 1 \in 1..Len(queue)
        BY <1>0, <2>3, <2>7, <3>1, <3>4
      <4>3. QED BY <4>1, <4>2 DEF Q!Sorted
    <3>5. CASE j = i
      <4>1. queue'[j] = e /\ queue'[k] = queue[k - 1] /\ k - 1 \in i..Len(queue)
        BY <1>0, <2>3, <2>4, <2>7, <3>1, <3>5
      <4>2. QED BY <1>0, <2>2, <2>5, <2>6, <3>1, <4>1
    <3>6. CASE j > i
      <4>1. queue'[j] = queue[j - 1] /\ queue'[k] = queue[k - 1]
        BY <1>0, <2>3, <2>4, <2>7, <3>1, <3>6
      <4>2. j - 1 \in 1..Len(queue) /\ k - 1 \in 1..Len(queue) /\ j - 1 < k - 1
        BY <1>0, <2>3, <2>7, <3>1, <3>6
      <4>3. QED BY <4>1, <4>2 DEF Q!Sorted
    <3>7. QED BY <2>7, <3>1, <3>2, <3>3, <3>4, <3>5, <3>6
  <2>8. QED BY <2>3, <2>7 DEF Q!TypeOK, Q!Sorted
<1>2. ASSUME NEW t \in Task, Q!Remove(t)
      PROVE  Q!TypeOK' /\ Q!Sorted'
  <2>1. PICK i \in 1..Len(queue) : queue' = Q!RemovedAt(i)
    BY <1>2 DEF Q!Remove
  <2>2. queue' \in Seq(Q!Entry) /\ Len(queue') = Len(queue) - 1
    BY <2>1, RemovedType
  <2>3. \A j \in 1..Len(queue') : queue'[j] = IF j < i THEN queue[j] ELSE queue[j + 1]
    BY <2>1, <2>2 DEF Q!RemovedAt
  <2>4. ASSUME NEW j \in 1..Len(queue'), NEW k \in 1..Len(queue'), j < k
        PROVE  /\ queue'[j].priority <= queue'[k].priority
               /\ queue'[j].task # queue'[k].task
    <3>1. PICK m \in 1..Len(queue), n \in 1..Len(queue) :
              m < n /\ queue'[j] = queue[m] /\ queue'[k] = queue[n]
      <4>1. CASE j < i /\ k < i
        <5>1. /\ j \in 1..Len(queue) /\ k \in 1..Len(queue) /\ j < k
              /\ queue'[j] = queue[j] /\ queue'[k] = queue[k]
          BY <1>0, <2>2, <2>3, <2>4, <4>1
        <5>2. QED BY <5>1
      <4>2. CASE j < i /\ k >= i
        <5>1. /\ j \in 1..Len(queue) /\ k + 1 \in 1..Len(queue) /\ j < k + 1
              /\ queue'[j] = queue[j] /\ queue'[k] = queue[k + 1]
          BY <1>0, <2>2, <2>3, <2>4, <4>2
        <5>2. QED BY <5>1
      <4>3. CASE j >= i
        <5>1. /\ j + 1 \in 1..Len(queue) /\ k + 1 \in 1..Len(queue) /\ j + 1 < k + 1
              /\ queue'[j] = queue[j + 1] /\ queue'[k] = queue[k + 1]
          BY <1>0, <2>2, <2>3, <2>4, <4>3
        <5>2. QED BY <5>1
      <4>4. QED BY <1>0, <2>2, <2>4, <4>1, <4>2, <4>3
    <3>2. QED BY <3>1 DEF Q!Sorted
  <2>5. QED BY <2>2, <2>4 DEF Q!TypeOK, Q!Sorted
<1>3. CASE Q!Clear
  BY <1>3 DEF Q!Clear, Q!TypeOK, Q!Sorted
<1>4. CASE UNCHANGED queue
  BY <1>4 DEF Q!TypeOK, Q!Sorted
<1>5. QED BY <1>1, <1>2, <1>3, <1>4 DEF Q!Next

\* In every state of the abstract queue, tasks are in the order of their
\* priorities, and none is queued twice.
THEOREM QueueSorted ==
    ASSUME Priorities \subseteq Nat
    PROVE  Q!Spec => [](Q!TypeOK /\ Q!Sorted)
<1>1. Q!TypeOK /\ Q!Sorted /\ [Q!Next]_queue => Q!TypeOK' /\ Q!Sorted'
  BY QueueStep
<1>2. QED BY <1>1, QueueInit, PTL DEF Q!Spec

-----------------------------------------------------------------------------
(* The list of links is that queue.                                        *)

\* The list can be laid out in a row, and the priority of the task in hand is one that
\* a client has asked for.
LaidInv ==
    /\ \E n, c : Laid(next, HeadTask, Null, n, c)
    /\ Inserting => priority[node] \in Priorities

\* The queue of tasks c.
Row(n, c, pri) == [i \in 1..n |-> [task |-> c[i], priority |-> pri[c[i]]]]

\* The queue that TaskMan has is the row of its tasks.
LEMMA RowWalked ==
    ASSUME NEW n, NEW c, Laid(next, HeadTask, Null, n, c)
    PROVE  WalkedQueue = Row(n, c, priority)
<1>1. Walk(next, HeadTask, Null) = c /\ DOMAIN c = 1..n
  BY LaidWalk DEF Laid
<1>2. QED BY <1>1 DEF WalkedQueue, Row

\* So it is after a step.
LEMMA RowWalkedNext ==
    ASSUME NEW n, NEW c, Laid(next', HeadTask, Null, n, c)
    PROVE  WalkedQueue' = Row(n, c, priority')
<1>1. Walk(next', HeadTask, Null) = c /\ DOMAIN c = 1..n
  BY LaidWalk DEF Laid
<1>2. QED BY <1>1 DEF WalkedQueue, Row

\* The tasks in a row are those of the list, and the row has its length.
LEMMA RowOf ==
    ASSUME TypeOK, NEW n, NEW c, Laid(next, HeadTask, Null, n, c), NEW pri
    PROVE  /\ Listed = {c[i] : i \in 1..n} /\ \A i \in 1..n : c[i] \in Task
           /\ n \in Nat /\ Len(Row(n, c, pri)) = n
           /\ \A i \in 1..n : /\ Row(n, c, pri)[i].task = c[i]
                              /\ Row(n, c, pri)[i].priority = pri[c[i]]
<1>1. Listed = {c[i] : i \in 1..n} /\ n \in Nat
  <2>1. Listed = {c[i] : i \in 1..n}
    BY LaidMembers DEF Listed
  <2>2. QED BY <2>1 DEF Laid
<1>2. \A i \in 1..n : c[i] \in Task
  BY <1>1, ListedTasks
<1>3. Row(n, c, pri) \in [1..n -> {[task |-> c[i], priority |-> pri[c[i]]] : i \in 1..n}]
  BY DEF Row
<1>4. Len(Row(n, c, pri)) = n
  BY <1>1, <1>3
<1>5. QED BY <1>1, <1>2, <1>4 DEF Row

\* Steps that neither write to the links nor change priorities are none of the queue.
LEMMA QueueKept ==
    ASSUME TypeOK, LaidInv, UNCHANGED <<next, priority>>,
           Inserting' => Inserting /\ node' = node
    PROVE  LaidInv' /\ UNCHANGED WalkedQueue
<1>1. PICK n, c : Laid(next, HeadTask, Null, n, c)
  BY DEF LaidInv
<1>2. Laid(next', HeadTask, Null, n, c)
  BY <1>1
<1>3. WalkedQueue' = WalkedQueue
  BY <1>1, <1>2, RowWalked, RowWalkedNext
<1>4. QED BY <1>2, <1>3 DEF LaidInv

\* In a sorted list nobody is above a later one.
LEMMA RowSorted ==
    ASSUME TypeOK, ListIsSorted, NEW n, NEW c, Laid(next, HeadTask, Null, n, c)
    PROVE  \A i \in 1..n : \A j \in 1..i : priority[c[j]] <= priority[c[i]]
<1> DEFINE S == {i \in 1..n : \A j \in 1..i : priority[c[j]] <= priority[c[i]]}
<1>0. /\ Listed = {c[i] : i \in 1..n} /\ n \in Nat /\ \A i \in 1..n : c[i] \in Task
      /\ \A i \in 1..n : priority[c[i]] \in Nat
      /\ \A i \in 1..(n - 1) : next[c[i]] = c[i + 1]
  <2>1. Listed = {c[i] : i \in 1..n} /\ \A i \in 1..n : c[i] \in Task
    BY RowOf
  <2>2. QED BY <2>1 DEF Laid, TypeOK
<1>1. n > 0 => 1 \in S
  BY <1>0
<1>2. ASSUME NEW i \in 1..(n - 1), i \in S PROVE i + 1 \in S
  <2>1. i \in 1..n /\ i + 1 \in 1..n
    BY <1>0
  <2>2. priority[c[i]] <= priority[c[i + 1]]
    BY <1>0, <2>1 DEF ListIsSorted
  <2>3. ASSUME NEW j \in 1..(i + 1) PROVE priority[c[j]] <= priority[c[i + 1]]
    <3>1. CASE j = i + 1
      BY <1>0, <2>1, <3>1
    <3>2. CASE j # i + 1
      <4>1. j \in 1..i /\ j \in 1..n
        BY <1>0, <3>2
      <4>2. priority[c[j]] <= priority[c[i]]
        BY <1>2, <4>1
      <4>3. QED BY <1>0, <2>1, <2>2, <4>1, <4>2
    <3>3. QED BY <3>1, <3>2
  <2>4. QED BY <2>1, <2>3
<1>3. \A i \in 1..n : i \in S
  <2> HIDE DEF S
  <2>1. QED BY <1>0, <1>1, <1>2, AllIndices
<1>4. QED BY <1>3

\* When hoya->prev->next is written, the new task is inserted into the queue: behind all
\* that come before it, in front of its equals.
LEMMA QueueInserts ==
    ASSUME TypeOK, SafeInv, LaidInv, Link3
    PROVE  LaidInv' /\ Queue!Insert(node, priority[node])
<1>1. PICK n, c : Laid(next, HeadTask, Null, n, c)
  BY DEF LaidInv
<1>2. /\ Listed = {c[j] : j \in 1..n} /\ n \in Nat /\ \A j \in 1..n : c[j] \in Task
      /\ Len(Row(n, c, priority)) = n
      /\ \A j \in 1..n : /\ Row(n, c, priority)[j].task = c[j]
                         /\ Row(n, c, priority)[j].priority = priority[c[j]]
  BY <1>1, RowOf
<1>3. /\ mpc = "link3" /\ node \in Task /\ node \notin Listed /\ node # HeadTask
      /\ hoya \in Listed \cup {HeadTask} /\ installed
      /\ Ring(next, prev, Listed \cup {HeadTask})
      /\ next[node] = hoya
  BY ConstantsAssumption DEF At, Link3, SafeInv, HeapInv, ListInv, Inserting
<1>4. PICK i \in 1..(n + 1) : hoya = IF i = n + 1 THEN HeadTask ELSE c[i]
  <2>1. CASE hoya = HeadTask
    <3>1. n + 1 \in 1..(n + 1)
      BY <1>2
    <3>2. QED BY <2>1, <3>1
  <2>2. CASE hoya \in Listed
    <3>1. PICK j \in 1..n : hoya = c[j]
      BY <1>2, <2>2
    <3>2. j \in 1..(n + 1) /\ j # n + 1
      BY <1>2
    <3>3. QED BY <3>1, <3>2
  <2>3. QED BY <1>3, <2>1, <2>2
<1> DEFINE d == With(n, c, i, node)
           e == [task |-> node, priority |-> priority[node]]
           q == Row(n, c, priority)
<1>5. prev[hoya] = IF i = 1 THEN HeadTask ELSE c[i - 1]
  BY <1>1, <1>3, <1>4, LaidPrev DEF Listed
<1>6. /\ next' = [next EXCEPT ![prev[hoya]] = node] /\ priority' = priority
      /\ node' = node /\ mpc' = "link4"
  <2>1. prev[hoya] # Null
    BY <1>3, Links DEF Ring
  <2>2. QED BY <2>1, <1>3 DEF Link3, fields
<1>7. Laid(next', HeadTask, Null, n + 1, d)
  <2>1. node \in DOMAIN next \ {HeadTask} /\ \A j \in 1..n : c[j] # node
    BY <1>2, <1>3, Links DEF Cell
  <2>2. Laid([next EXCEPT ![prev[hoya]] = node], HeadTask, Null, n + 1, d)
    BY <1>1, <1>3, <1>4, <1>5, <2>1, LaidAdded
  <2>3. QED BY <1>6, <2>2
<1>8. LaidInv'
  BY <1>6, <1>7 DEF LaidInv, Inserting
<1>9. WalkedQueue = q /\ WalkedQueue' = Row(n + 1, d, priority)
  BY <1>1, <1>6, <1>7, RowWalked, RowWalkedNext
<1>10. Row(n + 1, d, priority) =
           [j \in 1..(Len(q) + 1) |-> IF j < i THEN q[j] ELSE IF j = i THEN e ELSE q[j - 1]]
  <2>1. \A j \in 1..(n + 1) : (j < i => j \in 1..n) /\ (j > i => j - 1 \in 1..n)
    BY <1>2
  <2>2. ASSUME NEW j \in 1..(n + 1)
        PROVE  [task |-> d[j], priority |-> priority[d[j]]] =
                   IF j < i THEN q[j] ELSE IF j = i THEN e ELSE q[j - 1]
    <3>1. CASE j < i
      BY <2>1, <3>1 DEF Row, With
    <3>2. CASE j = i
      BY <3>2 DEF With
    <3>3. CASE j > i
      BY <1>2, <2>1, <3>3 DEF Row, With
    <3>4. QED BY <1>2, <3>1, <3>2, <3>3
  <2>3. QED BY <1>2, <2>2 DEF Row
<1>11. \A j \in 1..(i - 1) : q[j].priority < priority[node]
  <2>1. SUFFICES ASSUME NEW j \in 1..(i - 1) PROVE q[j].priority < priority[node]
    OBVIOUS
  <2>2. i # 1 /\ i - 1 \in 1..n /\ j \in 1..n
    BY <1>2
  <2>3. priority[c[j]] <= priority[c[i - 1]]
    BY <1>1, <2>2, RowSorted DEF SafeInv, OrderInv
  <2>4. priority[c[i - 1]] < priority[node]
    BY <1>2, <1>3, <1>5, <2>2 DEF SafeInv, OrderInv
  <2>5. priority[c[j]] \in Nat /\ priority[c[i - 1]] \in Nat /\ priority[node] \in Nat
    BY <1>2, <1>3, <2>2 DEF TypeOK
  <2>6. QED BY <1>2, <2>2, <2>3, <2>4, <2>5
<1>12. i <= Len(q) => q[i].priority >= priority[node]
  <2>1. SUFFICES ASSUME i <= n PROVE priority[c[i]] >= priority[node]
    BY <1>2
  <2>2. hoya = c[i] /\ hoya \in Task
    BY <1>2, <1>4, <2>1
  <2>3. priority[node] <= priority[hoya]
    BY <1>3, <2>2 DEF SafeInv, OrderInv
  <2>4. QED BY <1>3, <2>2, <2>3 DEF TypeOK
<1>13. \A j \in 1..Len(q) : q[j].task # node
  BY <1>2, <1>3
<1>14. i \in 1..(Len(q) + 1)
  BY <1>2
<1> HIDE DEF d, e, q
<1>15. Queue!InsertedAt(i, e) = WalkedQueue'
  BY <1>9, <1>10 DEF Queue!InsertedAt
<1>16. Queue!Insert(node, priority[node])
  <2>1. ~Queue!Queued(node)
    BY <1>9, <1>13 DEF Queue!Queued
  <2>2. QED BY <1>9, <1>11, <1>12, <1>14, <1>15, <2>1 DEF Queue!Insert, e
<1>17. QED BY <1>8, <1>16

\* TS_Terminate takes a task that is in the list out of the queue.
LEMMA QueueRemoves ==
    ASSUME TypeOK, SafeInv, LaidInv, mpc \notin {"search", "link", "link3", "link4"},
           UNCHANGED <<main, priority>>, NEW t \in Task, Terminate(t)
    PROVE  LaidInv' /\ (Queue!Remove(t) \/ UNCHANGED WalkedQueue)
<1>1. CASE t \notin Listed
  <2>1. UNCHANGED <<next, priority>>
    BY <1>1 DEF Terminate
  <2>2. QED BY <2>1, QueueKept DEF Inserting, main
<1>2. CASE t \in Listed
  <2>1. PICK n, c : Laid(next, HeadTask, Null, n, c)
    BY DEF LaidInv
  <2>2. /\ Listed = {c[j] : j \in 1..n} /\ n \in Nat
        /\ Len(Row(n, c, priority)) = n
        /\ \A j \in 1..n : Row(n, c, priority)[j].task = c[j]
    BY <2>1, RowOf
  <2>3. PICK i \in 1..n : t = c[i]
    BY <1>2, <2>2
  <2>4. installed /\ Ring(next, prev, Listed \cup {HeadTask})
    BY <1>2 DEF SafeInv, ListInv, HeapInv
  <2> DEFINE d == Without(n, c, i)
             q == Row(n, c, priority)
  <2>5. i \in 1..(n + 1) /\ i # n + 1
    BY <2>2
  <2>6. prev[c[i]] = IF i = 1 THEN HeadTask ELSE c[i - 1]
    BY <2>1, <2>4, <2>5, LaidPrev DEF Listed
  <2>7. Laid([RemovedNext(next, prev, c[i]) EXCEPT ![c[i]] = Null], HeadTask, Null, n - 1, d)
    BY <2>1, <2>3, <2>6, LaidRemoved
  <2>8. Laid(next', HeadTask, Null, n - 1, d)
    BY <1>2, <2>3, <2>7 DEF Terminate
  <2>9. LaidInv'
    BY <2>8 DEF LaidInv, Inserting, main
  <2>10. WalkedQueue = q /\ WalkedQueue' = Row(n - 1, d, priority)
    BY <2>1, <2>8, RowWalked, RowWalkedNext
  <2>11. Row(n - 1, d, priority) = [j \in 1..(Len(q) - 1) |-> IF j < i THEN q[j] ELSE q[j + 1]]
    <3>1. \A j \in 1..(n - 1) : j \in 1..n /\ j + 1 \in 1..n
      BY <2>2
    <3>2. QED BY <2>2, <3>1 DEF Row, Without
  <2> HIDE DEF d, q
  <2>12. i \in 1..Len(q) /\ q[i].task = t
    BY <2>2, <2>3 DEF q
  <2>13. WalkedQueue' = Queue!RemovedAt(i)
    BY <2>10, <2>11 DEF Queue!RemovedAt
  <2>14. Queue!Remove(t)
    BY <2>10, <2>12, <2>13 DEF Queue!Remove
  <2>15. QED BY <2>9, <2>14
<1>3. QED BY <1>1, <1>2

\* The queue is empty at first ...
LEMMA QueueBegins == Init => LaidInv /\ Queue!Init
<1> SUFFICES ASSUME Init PROVE LaidInv /\ Queue!Init
  OBVIOUS
<1>1. next[HeadTask] = Null /\ DOMAIN next = Cell /\ mpc = "run"
  BY DEF Init, Cell
<1>2. Laid(next, HeadTask, Null, 0, <<>>)
  BY <1>1, ConstantsAssumption DEF Laid, Cell
<1>3. WalkedQueue = <<>>
  BY <1>2, RowWalked DEF Row
<1>4. QED BY <1>1, <1>2, <1>3 DEF LaidInv, Inserting, Queue!Init

\* ... and every step is one of the queue or none.
LEMMA QueueGoes ==
    ASSUME Careful
    PROVE  IInv /\ LaidInv /\ [Next]_vars => LaidInv' /\ [Queue!Next]_WalkedQueue
<1> SUFFICES ASSUME IInv, LaidInv, [Next]_vars PROVE LaidInv' /\ [Queue!Next]_WalkedQueue
  OBVIOUS
<1>0. TypeOK /\ TypeInv /\ SafeInv
  BY DEF IInv, TypeInv
<1> USE <1>0 DEF At
<1>1. ASSUME NEW t \in Task, NEW b \in TickBases, NEW p \in Priorities,
             ScheduleTask(t, b, p)
      PROVE  LaidInv' /\ UNCHANGED WalkedQueue
  <2>1. mpc = "run" /\ heap = Listed /\ t \notin Listed
    BY <1>1 DEF ScheduleTask, SafeInv, HeapInv, Inserting, Pending
  <2>2. PICK n, c : Laid(next, HeadTask, Null, n, c)
    BY DEF LaidInv
  <2>3. Listed = {c[j] : j \in 1..n} /\ n \in Nat /\ \A j \in 1..n : c[j] \in Task
    BY <2>2, RowOf
  <2>4. Laid(next', HeadTask, Null, n, c)
    <3>1. CASE installed
      BY <1>1, <2>2, <3>1 DEF ScheduleTask, lists
    <3>2. CASE ~installed
      <4>1. Listed = {}
        BY <2>1, <3>2 DEF SafeInv, HeapInv
      <4>2. n = 0
        <5>1. n > 0 => c[1] \in Listed
          BY <2>3
        <5>2. QED BY <2>3, <4>1, <5>1
      <4>3. next'[HeadTask] = HeadTask /\ DOMAIN next' = DOMAIN next
        BY <1>1, <3>2, Links DEF ScheduleTask
      <4>4. /\ HeadTask \in DOMAIN next' /\ Null \notin DOMAIN next'
            /\ n \in Nat /\ c \in [1..n -> DOMAIN next' \ {HeadTask}]
            /\ \A i, j \in 1..n : c[i] = c[j] => i = j
        BY <2>2, <4>3 DEF Laid
      <4>5. ~(n > 0) /\ ~\E i \in 1..(n - 1) : TRUE
        BY <4>2
      <4>6. QED BY <4>2, <4>3, <4>4, <4>5 DEF Laid
    <3>3. QED BY <3>1, <3>2
  <2>5. priority' = [priority EXCEPT ![t] = p] /\ node' = t
    BY <1>1 DEF ScheduleTask
  <2>6. \A j \in 1..n : priority'[c[j]] = priority[c[j]]
    BY <2>1, <2>3, <2>5 DEF TypeOK
  <2>7. WalkedQueue' = WalkedQueue
    <3>1. Row(n, c, priority) = Row(n, c, priority')
      BY <2>6 DEF Row
    <3>2. QED BY <2>2, <2>4, <3>1, RowWalked, RowWalkedNext
  <2>8. priority'[node'] \in Priorities
    BY <2>5 DEF TypeOK
  <2>9. QED BY <2>4, <2>7, <2>8 DEF LaidInv
<1>2. CASE Link
  <2>1. PICK n, c : Laid(next, HeadTask, Null, n, c)
    BY DEF LaidInv
  <2>2. /\ node \notin Listed /\ node # HeadTask /\ node' = node /\ priority' = priority
        /\ next' = [next EXCEPT ![node] = hoya] /\ mpc = "link"
    BY <1>2, ConstantsAssumption DEF Link, fields, SafeInv, HeapInv, Inserting
  <2>3. \A j \in 1..n : c[j] # node
    BY <2>1, <2>2, RowOf
  <2>4. Laid(next', HeadTask, Null, n, c)
    BY <2>1, <2>2, <2>3, LaidOutside
  <2>5. WalkedQueue' = WalkedQueue
    BY <2>1, <2>2, <2>4, RowWalked, RowWalkedNext
  <2>6. priority'[node'] \in Priorities
    BY <2>2 DEF LaidInv, Inserting
  <2>7. QED BY <2>4, <2>5, <2>6 DEF LaidInv
<1>3. CASE Link3
  <2>1. node \in Task /\ priority[node] \in Priorities
    BY <1>3 DEF Link3, LaidInv, SafeInv, HeapInv, Inserting
  <2>2. QED BY <1>3, <2>1, QueueInserts DEF Queue!Next
<1>4. ASSUME NEW t \in Task, TerminateTask(t) PROVE LaidInv' /\ [Queue!Next]_WalkedQueue
  BY <1>4, QueueRemoves DEF TerminateTask, fields, Queue!Next
<1>5. CASE FreeTaskList
  <2>1. /\ next'[HeadTask] = HeadTask /\ DOMAIN next' = Cell /\ HeadTask \in Cell
        /\ Null \notin Cell /\ mpc' = "free"
    BY <1>5, Links DEF FreeTaskList
  <2>2. Laid(next', HeadTask, Null, 0, <<>>)
    BY <2>1 DEF Laid
  <2>3. WalkedQueue' = <<>>
    BY <2>2, RowWalkedNext DEF Row
  <2>4. Queue!Clear /\ LaidInv'
    BY <2>1, <2>2, <2>3 DEF Queue!Clear, LaidInv, Inserting
  <2>5. QED BY <2>4 DEF Queue!Next
<1>6. CASE Service
  <2>1. UNCHANGED <<priority, main>> /\ ptr \in Task
    BY <1>6 DEF Service, TypeInv
  <2>2. CASE UNCHANGED lists
    BY <2>1, <2>2, QueueKept DEF lists, main, Inserting
  <2>3. CASE Calm /\ Terminate(ptr)
    <3>1. mpc \notin {"search", "link", "link3", "link4"}
      BY <2>3 DEF Calm
    <3>2. QED BY <2>1, <2>3, <3>1, QueueRemoves DEF Queue!Next
  <2>4. QED BY <1>6, <2>2, <2>3 DEF Service, lists
<1>7. CASE SetTimer \/ SetClockSpeed \/ FillTask \/ Search \/ Link4 \/ FinishRetime
           \/ StopClock \/ RestoreVector \/ Dispatch \/ Suspend \/ Resume
  <2>1. UNCHANGED <<next, priority>> /\ (Inserting' => Inserting /\ node' = node)
    BY <1>7 DEF SetTimer, SetClockSpeed, FillTask, Search, Link4, FinishRetime, StopClock,
                RestoreVector, Dispatch, Suspend, Resume, Inserting, lists, fields, main
  <2>2. QED BY <2>1, QueueKept
<1>8. CASE \E t \in Task, b \in TickBases : SetTaskRate(t, b)
  <2>1. UNCHANGED <<next, priority>> /\ (Inserting' => Inserting /\ node' = node)
    BY <1>8 DEF SetTaskRate, Inserting, lists
  <2>2. QED BY <2>1, QueueKept
<1>9. CASE TimerInterrupt \/ VisitTask \/ NextTask \/ ChainBios \/ UNCHANGED vars
  <2>1. UNCHANGED <<next, priority, main>>
    BY <1>9 DEF TimerInterrupt, VisitTask, NextTask, ChainBios, vars, lists, fields
  <2>2. QED BY <2>1, QueueKept DEF main, Inserting
<1>10. QED
  BY <1>1, <1>2, <1>3, <1>4, <1>5, <1>6, <1>7, <1>8, <1>9 DEF Next, MainStep, MainCall, IsrStep

\* TaskMan implements TaskQueue: whatever the interrupt does between the writes to the
\* links, its list is at every time a queue in the order of the priorities, into which a
\* task is inserted, and out of which it is taken, at once.
THEOREM Implements == ASSUME Careful PROVE Spec => ImplementsQueue
<1>1. Init => Queue!Init /\ LaidInv
  BY QueueBegins
<1>2. QED BY <1>1, QueueGoes, Safety, PTL DEF Spec, ImplementsQueue, Queue!Spec
=============================================================================
