------------------------------ MODULE TaskMan -------------------------------
(***************************************************************************)
(* The task manager of source/task_man.c.                                  *)
(*                                                                         *)
(* There is one processor.  The main program runs the TS_ functions, and   *)
(* IRQ 0 runs TS_ServiceSchedule, which interrupts the main program        *)
(* between any two instructions outside a cli section and runs to its end  *)
(* before the main program goes on.  A step of the main program is         *)
(* therefore a cli section, or one access to data the interrupt shares.    *)
(* RestoreInterrupts is popf; sti: it enables interrupts even when it      *)
(* leaves an inner section, so a section ends at its FIRST restore.        *)
(***************************************************************************)
EXTENDS Integers, LinkList

CONSTANTS
    Task,        \* the heap cells a task structure can occupy
    HeadTask,    \* the root of TaskList
    Null,        \* the null pointer
    Hz,          \* the PIT's input clock: 1192030
    Full,        \* the PIT's slowest rate: 0x10000
    TickBases,   \* the rates, in calls per second, that clients ask for
    Priorities,  \* the priorities that clients ask for
    Ending,      \* tasks whose service may call TS_Terminate on themselves
    Retiming,    \* tasks whose service may call TS_SetTaskRate on themselves
    Careful,     \* no service ends its task while an insertion walks through the list
    MaxBacklog   \* bound: no interrupt while suspended and a count is above it

ASSUME ConstantsAssumption ==
    /\ HeadTask \notin Task /\ Null \notin Task \cup {HeadTask}
    /\ Hz \in Nat \ {0} /\ Full \in Nat \ {0}
    /\ TickBases \subseteq 1..Hz
    /\ Priorities \subseteq Nat
    /\ Ending \subseteq Task /\ Retiming \subseteq Task
    /\ Careful \in BOOLEAN /\ MaxBacklog \in Nat

VARIABLES
    next, prev,                     \* the links of HeadTask and of every cell
    rate, count, priority, active,  \* the other fields of the cells
    heap,              \* the cells malloc has given out and free has not got back
    installed,         \* TS_Installed
    clock,             \* TaskServiceRate, which is also what the PIT counts from
    sum,               \* TaskServiceCount
    suspend,           \* TS_Suspend
    mpc, node, hoya, speed,   \* the main program: where it is, and its locals
    ipc, ptr, following,      \* the interrupt: where it is, its ptr and next
    owed,              \* ghost: time not yet chained to the BIOS, see Later
    overtaken          \* ghost: the clock is not the one an insertion has compared with

lists  == <<next, prev>>
fields == <<rate, count, priority, active>>
main   == <<mpc, node, hoya, speed>>
isr    == <<ipc, ptr, following>>
vars   == <<lists, fields, heap, installed, clock, sum, suspend, main, isr, owed, overtaken>>

Cell == Task \cup {HeadTask}

TypeOK ==
    /\ next \in [Cell -> Cell \cup {Null}] /\ prev \in [Cell -> Cell \cup {Null}]
    /\ rate \in [Task -> Nat \ {0}] /\ count \in [Task -> Nat]
    /\ priority \in [Task -> Nat] /\ active \in [Task -> BOOLEAN]
    /\ heap \subseteq Task
    /\ installed \in BOOLEAN /\ suspend \in BOOLEAN
    /\ clock \in 1..Full /\ sum \in 0..(Full - 1)
    /\ mpc \in {"run", "timer", "clock", "fill", "search", "link", "link3", "link4",
                "retime", "free", "vector", "wild"}
    /\ node \in Task \cup {Null} /\ hoya \in Cell \cup {Null}
    /\ speed \in Nat \ {0}
    /\ ipc \in {"idle", "walk", "serve"}
    /\ ptr \in Cell \cup {Null} /\ following \in Cell \cup {Null}
    /\ owed \in 0..(2 * Full - 1) /\ overtaken \in BOOLEAN

\* The statics at program start.  The links are null: TS_Startup sets them up.
Init ==
    /\ next = [c \in Cell |-> Null] /\ prev = [c \in Cell |-> Null]
    /\ rate = [t \in Task |-> 1] /\ count = [t \in Task |-> 0]
    /\ priority = [t \in Task |-> 0] /\ active = [t \in Task |-> FALSE]
    /\ heap = {} /\ installed = FALSE /\ suspend = FALSE
    /\ clock = Full /\ sum = 0
    /\ mpc = "run" /\ node = Null /\ hoya = Null /\ speed = 1
    /\ ipc = "idle" /\ ptr = Null /\ following = Null
    /\ owed = 0 /\ overtaken = FALSE

-----------------------------------------------------------------------------
\* What the handlers share.

Listed == Members(next, HeadTask, Null)

\* The division of TS_SetTimer.
SpeedOf(tickBase) == Hz \div tickBase

\* The rate TS_SetClockSpeed programs for `s'.
ClockFor(s) == IF 0 < s /\ s < Full THEN s ELSE Full

\* (Mutant: the search for the maximum stops anywhere.)
SetTimerToAnyTaskRate(S, r) ==
    \E c \in {Full} \cup {r[t] : t \in S} : c <= Full /\ clock' = c

\* TS_SetTimerToMaxTaskRate over the tasks S with rates r: the clock becomes
\* the least rate, and never exceeds Full.
SetTimerToMaxTaskRate(S, r) ==
    \E c \in {Full} \cup {r[t] : t \in S} :
        /\ c <= Full /\ \A t \in S : c <= r[t]
        /\ clock' = c

\* (Mutant: the task is freed and stays in the list.)
TerminateUnlinked(t) ==
    /\ heap' = heap \ {t}
    /\ SetTimerToMaxTaskRate(Listed \ {t}, rate)
    /\ UNCHANGED lists

\* TS_Terminate(t): nothing happens to a task that is not in the list.
Terminate(t) ==
    IF t \in Listed
    THEN /\ next' = [RemovedNext(next, prev, t) EXCEPT ![t] = Null]
         /\ prev' = [RemovedPrev(next, prev, t) EXCEPT ![t] = Null]
         /\ heap' = heap \ {t}
         /\ SetTimerToMaxTaskRate(Listed \ {t}, rate)
    ELSE UNCHANGED <<next, prev, heap, clock>>

\* TS_SetTaskRate(t, ...), all in one cli section.
Retime(t, s) ==
    /\ rate' = [rate EXCEPT ![t] = s]
    /\ SetTimerToMaxTaskRate(Listed, [rate EXCEPT ![t] = s])

-----------------------------------------------------------------------------
(* The main program.  It runs only while no interrupt handler does.        *)

\* The main program is at `pc', and no handler runs.
At(pc) == ipc = "idle" /\ mpc = pc

\* TS_ScheduleTask: malloc returns a free cell, and the first call of all
\* runs TS_Startup, which resets the list, the clock and the BIOS count (and so
\* drops what TS_Shutdown has left of one BIOS tick).
ScheduleTask(t, b, p) ==
    /\ At("run") /\ t \notin heap
    /\ heap' = heap \cup {t}
    /\ node' = t /\ speed' = SpeedOf(b)
    /\ priority' = [priority EXCEPT ![t] = p]
    /\ IF installed
       THEN UNCHANGED <<lists, installed, clock, sum, owed>>
       ELSE /\ next' = [next EXCEPT ![HeadTask] = HeadTask]
            /\ prev' = [prev EXCEPT ![HeadTask] = HeadTask]
            /\ clock' = Full /\ sum' = 0 /\ owed' = 0
            /\ installed' = TRUE
    /\ mpc' = "timer"
    /\ UNCHANGED <<rate, count, active, suspend, hoya, isr, overtaken>>

\* TS_SetTimer compares with TaskServiceRate while interrupts are enabled ...
SetTimer ==
    /\ At("timer")
    /\ mpc' = IF speed < clock THEN "clock" ELSE "fill"
    /\ UNCHANGED <<lists, fields, heap, installed, clock, overtaken, sum, suspend,
                   node, hoya, speed, isr, owed>>

\* ... and TS_SetClockSpeed does what the comparison decided.
SetClockSpeed ==
    /\ At("clock")
    /\ clock' = ClockFor(speed)
    /\ mpc' = "fill"
    /\ UNCHANGED <<lists, fields, heap, installed, sum, suspend,
                   node, hoya, speed, isr, owed, overtaken>>

\* The fields of the new task; LL_SortedInsertion starts at TaskList->next.
FillTask ==
    /\ At("fill")
    /\ rate' = [rate EXCEPT ![node] = speed]
    /\ count' = [count EXCEPT ![node] = 0]
    /\ active' = [active EXCEPT ![node] = FALSE]
    /\ hoya' = next[HeadTask]
    /\ mpc' = "search"
    /\ UNCHANGED <<lists, priority, heap, installed, clock, overtaken, sum, suspend,
                   node, speed, isr, owed>>

\* (Mutant: the comparison is the wrong way round.)
PassesLower(h) == h # HeadTask /\ priority[node] < priority[h]

\* (Mutant: a new task also passes its equals.)
PassesEqual(h) == h # HeadTask /\ priority[node] >= priority[h]

\* The new task goes behind h: the comparison of LL_SortedInsertion.
Passes(h)      == h # HeadTask /\ priority[node] > priority[h]

\* One round of the loop of LL_SortedInsertion.  A null hoya, which only a
\* cell freed under the walk can lead to, is where the model stops.
Search ==
    /\ At("search")
    /\ IF hoya = Null
       THEN mpc' = "wild" /\ hoya' = hoya
       ELSE IF Passes(hoya)
       THEN mpc' = "search" /\ hoya' = next[hoya]
       ELSE mpc' = "link" /\ hoya' = hoya
    /\ UNCHANGED <<lists, fields, heap, installed, clock, overtaken, sum, suspend,
                   node, speed, isr, owed>>

\* LL_AddNode: new->next = hoya; new->prev = hoya->prev.
Link ==
    /\ At("link")
    /\ next' = [next EXCEPT ![node] = hoya]
    /\ prev' = [prev EXCEPT ![node] = prev[hoya]]
    /\ mpc' = "link3"
    /\ UNCHANGED <<fields, heap, installed, clock, overtaken, sum, suspend,
                   node, hoya, speed, isr, owed>>

\* LL_AddNode: hoya->prev->next = new.
Link3 ==
    /\ At("link3")
    /\ IF prev[hoya] = Null
       THEN mpc' = "wild" /\ next' = next
       ELSE mpc' = "link4" /\ next' = [next EXCEPT ![prev[hoya]] = node]
    /\ UNCHANGED <<prev, fields, heap, installed, clock, overtaken, sum, suspend,
                   node, hoya, speed, isr, owed>>

\* (Mutant: the back link of hoya is forgotten.)
Link4Forward ==
    /\ At("link4")
    /\ mpc' = "run" /\ node' = Null /\ hoya' = Null
    /\ UNCHANGED <<lists, fields, heap, installed, clock, overtaken, sum, suspend,
                   speed, isr, owed>>

\* LL_AddNode: hoya->prev = new, and TS_ScheduleTask returns.
Link4 ==
    /\ At("link4")
    /\ prev' = [prev EXCEPT ![hoya] = node]
    /\ mpc' = "run" /\ node' = Null /\ hoya' = Null
    /\ UNCHANGED <<next, fields, heap, installed, clock, overtaken, sum, suspend,
                   speed, isr, owed>>

\* TS_Terminate, also of a task that has ended itself meanwhile.
TerminateTask(t) ==
    /\ At("run") /\ installed
    /\ Terminate(t)
    /\ overtaken' = (overtaken /\ t \notin Listed)
    /\ UNCHANGED <<fields, installed, sum, suspend, main, isr, owed>>

Dispatch ==
    /\ At("run") /\ installed
    /\ active' = [t \in Task |-> active[t] \/ t \in Listed]
    /\ UNCHANGED <<lists, rate, count, priority, heap, installed, clock, overtaken, sum,
                   suspend, main, isr, owed>>

\* TS_SetTaskRate.  When TS_SetTimer speeds the clock up, the restore in
\* TS_SetClockSpeed opens the section before the task has its new rate.
SetTaskRate(t, b) ==
    /\ At("run") /\ t \in heap
    /\ IF SpeedOf(b) < clock
       THEN /\ clock' = ClockFor(SpeedOf(b))
            /\ mpc' = "retime" /\ node' = t /\ speed' = SpeedOf(b)
            /\ UNCHANGED <<rate, overtaken>>
       ELSE /\ Retime(t, SpeedOf(b))
            /\ overtaken' = FALSE
            /\ UNCHANGED <<mpc, node, speed>>
    /\ UNCHANGED <<lists, count, priority, active, heap, installed, sum,
                   suspend, hoya, isr, owed>>

FinishRetime ==
    /\ At("retime")
    /\ Retime(node, speed)
    /\ mpc' = "run" /\ node' = Null /\ overtaken' = FALSE
    /\ UNCHANGED <<lists, count, priority, active, heap, installed, sum,
                   suspend, hoya, speed, isr, owed>>

\* The program sets and resets TS_Suspend around calls of printf.
Suspend ==
    /\ At("run") /\ ~suspend /\ suspend' = TRUE
    /\ UNCHANGED <<lists, fields, heap, installed, clock, overtaken, sum, main, isr, owed>>

Resume ==
    /\ At("run") /\ suspend /\ suspend' = FALSE
    /\ UNCHANGED <<lists, fields, heap, installed, clock, overtaken, sum, main, isr, owed>>

\* TS_Shutdown: TS_FreeTaskList, then TS_SetClockSpeed(0), then the vector.
FreeTaskList ==
    /\ At("run") /\ installed
    /\ heap' = heap \ Listed
    /\ next' = [next EXCEPT ![HeadTask] = HeadTask]
    /\ prev' = [prev EXCEPT ![HeadTask] = HeadTask]
    /\ mpc' = "free"
    /\ UNCHANGED <<fields, installed, clock, overtaken, sum, suspend, node, hoya, speed,
                   isr, owed>>

StopClock ==
    /\ At("free")
    /\ clock' = ClockFor(0) /\ overtaken' = FALSE
    /\ mpc' = "vector"
    /\ UNCHANGED <<lists, fields, heap, installed, sum, suspend,
                   node, hoya, speed, isr, owed>>

RestoreVector ==
    /\ At("vector")
    /\ installed' = FALSE
    /\ mpc' = "run"
    /\ UNCHANGED <<lists, fields, heap, clock, overtaken, sum, suspend,
                   node, hoya, speed, isr, owed>>

-----------------------------------------------------------------------------
(* The timer interrupt, TS_ServiceSchedule.                                *)

\* Time is counted modulo 2 * Full, a bound: there, one BIOS tick forward is
\* also one back, and neither a lost tick nor a second one goes unseen.
Later(time, d) == (time + d) % (2 * Full)

\* The PIT has counted `clock' down.
TimerInterrupt ==
    /\ ipc = "idle" /\ installed
    /\ suspend => \A t \in heap : count[t] <= MaxBacklog
    /\ owed' = Later(owed, clock)
    /\ ipc' = "walk" /\ ptr' = next[HeadTask]
    /\ UNCHANGED <<lists, fields, heap, installed, clock, overtaken, sum, suspend, main,
                   following>>

\* One round of the outer loop: next is read before any service is called.
VisitTask ==
    /\ ipc = "walk" /\ ptr \in Task
    /\ following' = next[ptr]
    /\ IF active[ptr]
       THEN /\ count' = [count EXCEPT ![ptr] = @ + clock]
            /\ ipc' = "serve" /\ ptr' = ptr
       ELSE /\ ptr' = next[ptr]
            /\ UNCHANGED <<count, ipc>>
    /\ UNCHANGED <<lists, rate, priority, active, heap, installed, clock, overtaken, sum,
                   suspend, main, owed>>

\* The condition of the inner loop.  It reads *ptr, freed or not: free()
\* leaves the two fields as they were.
Due == ~suspend /\ count[ptr] >= rate[ptr]

\* LL_SortedInsertion holds a pointer into the list.
Calm == Careful => mpc \notin {"search", "link", "link3", "link4"}

\* TS_SetTimer has made the main program leave the clock as it is, or set it, and now that
\* is wrong: the clock is slower than the new task, or will be slower than it is.
Overtakes ==
    \/ mpc = "clock" /\ clock' < speed
    \/ mpc = "fill" /\ clock' > speed
    \/ mpc \in {"search", "link", "link3"} /\ clock' > rate'[node]

\* What the service of a task does to the task manager: nothing, or end
\* itself (MUSIC_FadeRoutine), or change its own rate (_MIDI_MetaEvent).  If that
\* changes the clock, this interrupt is counted as long as the new period.
Service ==
    /\ ipc = "serve" /\ Due
    /\ count' = [count EXCEPT ![ptr] = @ - rate[ptr]]
    /\ \/ UNCHANGED <<lists, rate, heap, clock>>
       \/ ptr \in Ending /\ Calm /\ Terminate(ptr) /\ UNCHANGED rate
       \/ /\ ptr \in Retiming
          /\ \E b \in TickBases : Retime(ptr, SpeedOf(b))
          /\ UNCHANGED <<lists, heap>>
    /\ owed' = Later(owed, clock' - clock)
    /\ overtaken' = (overtaken \/ Overtakes)
    /\ UNCHANGED <<priority, active, installed, sum, suspend, main, isr>>

\* (Mutant: the walk ends with the first active task.)
NextTaskNone ==
    /\ ipc = "serve" /\ ~Due
    /\ ipc' = "walk" /\ ptr' = HeadTask
    /\ UNCHANGED <<lists, fields, heap, installed, clock, overtaken, sum, suspend, main,
                   following, owed>>

NextTask ==
    /\ ipc = "serve" /\ ~Due
    /\ ipc' = "walk" /\ ptr' = following
    /\ UNCHANGED <<lists, fields, heap, installed, clock, overtaken, sum, suspend, main,
                   following, owed>>

\* (Mutant: 0x10000 instead of 0xffff.)
BiosDueLate == sum + clock > Full

\* TaskServiceCount has passed 0xffff.
BiosDue == sum + clock > Full - 1

\* The end of TS_ServiceSchedule: the BIOS handler is called once for every
\* Full that TaskServiceCount has passed, and the interrupt acknowledged.
ChainBios ==
    /\ ipc = "walk" /\ ptr = HeadTask
    /\ sum' = (sum + clock) % Full
    /\ owed' = IF BiosDue THEN Later(owed, Full) ELSE owed
    /\ ipc' = "idle" /\ ptr' = Null /\ following' = Null
    /\ UNCHANGED <<lists, fields, heap, installed, clock, overtaken, suspend, main>>

-----------------------------------------------------------------------------
MainStep ==   \* the main program inside a TS_ function
    \/ SetTimer \/ SetClockSpeed \/ FillTask \/ Search \/ Link \/ Link3 \/ Link4
    \/ FinishRetime \/ StopClock \/ RestoreVector

MainCall ==   \* the main program calling one
    \/ \E t \in Task, b \in TickBases, p \in Priorities : ScheduleTask(t, b, p)
    \/ \E t \in Task : TerminateTask(t)
    \/ \E t \in Task, b \in TickBases : SetTaskRate(t, b)
    \/ Dispatch \/ Suspend \/ Resume \/ FreeTaskList

IsrStep == VisitTask \/ Service \/ NextTask \/ ChainBios

Next == MainStep \/ MainCall \/ TimerInterrupt \/ IsrStep

Spec == Init /\ [][Next]_vars

-----------------------------------------------------------------------------
(* Properties.                                                             *)

\* Outside the pointer writes of an insertion, the list is a ring in both
\* directions: TS_Terminate may unlink any of its members, and the interrupt
\* may walk it.
ListIsRing ==
    (installed /\ mpc \notin {"link3", "link4", "wild"})
        => Ring(next, prev, Listed \cup {HeadTask})

\* Once TS_ScheduleTask has returned, the task is in the list until it is
\* terminated: no insertion is lost, and no structure leaks or dangles.
EveryTaskListed == (installed /\ mpc = "run") => Listed = heap

\* The list is sorted by priority, at every instant an interrupt may walk it:
\* tasks that fall due together are called in the order of their priorities.
ListIsSorted ==
    \A t \in Listed : next[t] \in Task => priority[t] <= priority[next[t]]

\* No task asks for a rate the timer does not reach, whatever tasks end or change their rates
\* between the steps of another call.  TS_SetTimer compares with the clock and sets it in two
\* steps (task_man.c:239), and TS_ScheduleTask links the task in later ones: when a service
\* changes the clock in between, so that the decision is wrong (Overtakes), the timer may stay
\* too slow until TS_Terminate or TS_SetTaskRate next looks for the fastest task.
ClockKeepsUp == overtaken \/ \A t \in Listed : clock <= rate[t]

\* The BIOS clock gets its 18.2 ticks a second at whatever speeds the program and the services
\* make the PIT run: all the time the PIT has counted is chained to it or in the sum, but that
\* an interrupt in which a service changes the clock counts as long as the new period instead
\* of the one that has passed (TS_ServiceSchedule adds TaskServiceRate at its end).
BiosClockExact == ipc = "idle" => owed = sum

-----------------------------------------------------------------------------
(* TaskMan implements TaskQueue.                                           *)

\* The list as a walk along next from TaskList->next finds it.
WalkedQueue ==
    LET cell == Walk(next, HeadTask, Null)
    IN [i \in DOMAIN cell |-> [task |-> cell[i], priority |-> priority[cell[i]]]]

Queue == INSTANCE TaskQueue WITH queue <- WalkedQueue

\* Every step of the linked list is one of the queue, or none: an insertion
\* happens all at once when hoya->prev->next is written, and priorities of
\* queued tasks do not change.
ImplementsQueue == Queue!Spec

-----------------------------------------------------------------------------
(* Liveness.  The main program gets the processor back whenever a handler  *)
(* returns, a handler runs to its end, the program resumes what it         *)
(* suspends, and the PIT also ticks while the program does not suspend.    *)

Fairness ==
    /\ SF_vars(MainStep)
    /\ WF_vars(IsrStep)
    /\ SF_vars(Resume)
    /\ SF_vars(TimerInterrupt /\ ~suspend)

FairSpec == Spec /\ Fairness

\* A dispatched task is called again and again until it is terminated.
EveryTaskServed ==
    \A t \in Task :
        (t \in Listed /\ active[t]) ~> ((ipc = "serve" /\ ptr = t /\ Due) \/ t \notin heap)

=============================================================================
