------------------------------ MODULE MCTasks ------------------------------
(* Instances of Tasks for TLC. *)
EXTENDS Tasks

\* What a later step can still read: not the fields of freed tasks, the locals
\* of functions that have returned, or the alarm of a task that is awake.
LiveTask(p) ==
  [next |-> next[p], state |-> state[p], esp |-> esp[p], pc |-> pc[p],
   sel |-> IF pc[p] \in {"run", "sleep", "while", "sched", "check", "idle",
                         "hlt", "slept", "dead", "mapstack"} THEN p ELSE sel[p],
   alarm |-> IF state[p] = "SLEEPING" \/ pc[p] = "sleep"
             THEN <<wake_tick[p], left[p]>> ELSE <<0, 0>>,
   kill |-> IF pc[p] = "kwalk" THEN <<kprev, kpid>> ELSE <<0, 0>>,
   image |-> image[p]]

LiveState ==
  <<timer_ticks, next_pid, [p \in alive |-> LiveTask(p)], current_task, cpu, cr3, tss>>
=============================================================================
