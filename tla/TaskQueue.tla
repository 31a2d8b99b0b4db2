----------------------------- MODULE TaskQueue ------------------------------
(***************************************************************************)
(* What the task list of source/task_man.c promises its users: a queue in  *)
(* the order of the priorities, in which a task is inserted, removed and   *)
(* found at once.  TaskMan, whose list is made of links that an interrupt  *)
(* may follow between any two writes, implements it.                       *)
(***************************************************************************)
EXTENDS Integers, Sequences

CONSTANTS
    Task,         \* the tasks
    Priorities    \* their priorities: natural numbers

VARIABLE queue     \* the scheduled tasks, first to be serviced first

Entry == [task : Task, priority : Priorities]

TypeOK == queue \in Seq(Entry)

Init == queue = <<>>

Queued(t) == \E i \in 1..Len(queue) : queue[i].task = t

InsertedAt(i, e) ==
    [j \in 1..(Len(queue) + 1) |->
        IF j < i THEN queue[j] ELSE IF j = i THEN e ELSE queue[j - 1]]

RemovedAt(i) ==
    [j \in 1..(Len(queue) - 1) |-> IF j < i THEN queue[j] ELSE queue[j + 1]]

\* TS_AddTask: behind the tasks that come before it, in front of its equals.
Insert(t, p) ==
    /\ ~Queued(t)
    /\ \E i \in 1..(Len(queue) + 1) :
        /\ \A j \in 1..(i - 1) : queue[j].priority < p
        /\ i <= Len(queue) => queue[i].priority >= p
        /\ queue' = InsertedAt(i, [task |-> t, priority |-> p])

\* TS_Terminate.
Remove(t) ==
    \E i \in 1..Len(queue) : queue[i].task = t /\ queue' = RemovedAt(i)

\* TS_FreeTaskList.
Clear == queue' = <<>>

Next ==
    \/ \E t \in Task, p \in Priorities : Insert(t, p)
    \/ \E t \in Task : Remove(t)
    \/ Clear

Spec == Init /\ [][Next]_queue

\* A task is queued once, and never behind a task of a higher number.
Sorted ==
    \A i, j \in 1..Len(queue) :
        i < j => /\ queue[i].priority <= queue[j].priority
                 /\ queue[i].task # queue[j].task
=============================================================================
