---------------------------- MODULE MCTaskMan ------------------------------
(* An instance of TaskMan.                                                 *)
EXTENDS TaskMan, TLC

TaskSymmetry == Permutations(Task)

\* A cell that is free, and that the interrupt is not at, has no contents:
\* nobody reads them before the next TS_ScheduleTask has set them.
Alive(f) == [t \in heap \cup ({ptr} \cap Task) |-> f[t]]

LiveView ==
    <<next, prev, Alive(rate), Alive(count), Alive(priority), Alive(active),
      heap, installed, clock, sum, suspend, main, isr, owed, overtaken>>
=============================================================================
