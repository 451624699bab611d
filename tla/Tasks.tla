------------------------------- MODULE Tasks -------------------------------
(***************************************************************************)
(* The multitasking core: task/task.cpp, the timer interrupt of            *)
(* drivers/timer.cpp and the context switch of arch/x86/boot.asm.          *)
(*                                                                         *)
(* One CPU.  Interrupt and syscall gates clear IF, so an interrupt handler *)
(* and a syscall run in one step up to the context switch that ends them.  *)
(* Kernel code that is CALLED rather than entered through a gate (the      *)
(* shell's exec and kill, the spinner's task_sleep, exit_task after its    *)
(* sti, the task_sleep loop after its sti) runs with IF = 1: there each    *)
(* access to shared state is a step of its own, labelled by pc, and a tick *)
(* is taken between two steps when the label is in Windows.                *)
(***************************************************************************)
EXTENDS Naturals, FiniteSets, FiniteSetsExt

CONSTANTS
  MaxPid,    \* bound: largest PID ever created
  Delays,    \* sleeping times of user programs, in milliseconds
  KernelDelays, \* those of the spinner and of the shell
  TimerFreq, \* TIMER_FREQ: ticks in a second
  Second,    \* milliseconds in a second
  TickMod,   \* unsigned ints (times, ticks, wake_tick) are modulo TickMod
  MaxTick,   \* bound: no tick is taken once timer_ticks = MaxTick
  BootTick,  \* timer_ticks in the initial state
  Windows    \* the IF = 1 kernel labels at which a tick is taken

Pids == 0..MaxPid
KernelPid == 0           \* kernel_task, which runs the shell
SpinnerPid == 1          \* create_task(spinner) in kernel_main
IsUser(p) == p > SpinnerPid
Dir(p) == IF IsUser(p) THEN p ELSE KernelPid   \* cr3 field: own or kernel's

TaskState == {"READY", "RUNNING", "SLEEPING", "DEAD"}
SwitchLabels == {"walk", "mark", "load", "switch"}
ExecLabels == {"mapstack", "spawned", "hold", "loading"}
KillLabels == {"kwalk", "kfree"}
LoopLabels == {"sleep", "while", "sched", "check", "idle"}
WindowLabels == SwitchLabels \cup ExecLabels \cup KillLabels \cup LoopLabels
\* The windows at which a tick hurts nobody: around the tests of task_sleep's
\* loop, and between kill_task's unlinking and its kfree.
HarmlessWindows == LoopLabels \cup {"kfree"}
\* "slept" is task_sleep after a schedule() entered with IF = 0.
Labels == WindowLabels \cup {"run", "hlt", "slept", "dead"}

ASSUME TasksAssumption ==
  /\ MaxPid \in Nat /\ MaxPid >= SpinnerPid
  /\ TickMod \in Nat \ {0} /\ MaxTick \in Nat /\ BootTick \in 0..(TickMod - 1)
  /\ TimerFreq \in Nat \ {0} /\ Second \in Nat \ {0}
  /\ KernelDelays \subseteq Delays /\ Delays \subseteq 0..(TickMod - 1)
  /\ Windows \subseteq WindowLabels

VARIABLES
  timer_ticks,   \* drivers/timer.cpp
  next_pid,
  alive,         \* PIDs whose Task object and kernel stack are allocated
  next,          \* Task::next; the value in a freed Task stays
  state,         \* Task::state; DEAD before the task is created
  wake_tick,     \* Task::wake_tick
  esp,           \* Task::esp: the task whose stack the saved pointer lies in
  current_task,
  cpu,           \* the task whose kernel stack the CPU runs on
  cr3,           \* the loaded page directory, named by its owner
  tss,           \* the task whose kernel stack tss.esp0 names
  pc,            \* where each task is in its kernel code
  sel,           \* schedule's local `next', kill_task's `t', exec's new_task
  kprev,         \* kill_task's local `prev'
  kpid,          \* kill_task's argument
  image,         \* regions mapped in the task's own directory
  left           \* history: whole ticks of the requested sleep still to pass

ringVars == <<alive, next>>
cpuVars == <<current_task, cpu, esp, cr3, tss>>
localVars == <<sel, kprev, kpid>>
vars == <<timer_ticks, next_pid, ringVars, state, wake_tick, cpuVars, pc,
          localVars, image, left>>

\* After init_tasking, create_task(spinner) and sti: the shell runs.
Init ==
  /\ timer_ticks = BootTick
  /\ next_pid = SpinnerPid + 1
  /\ alive = {KernelPid, SpinnerPid}
  /\ next = [p \in Pids |-> IF p = KernelPid THEN SpinnerPid ELSE KernelPid]
  /\ state = [p \in Pids |-> IF p = KernelPid THEN "RUNNING"
                           ELSE IF p = SpinnerPid THEN "READY" ELSE "DEAD"]
  /\ wake_tick = [p \in Pids |-> 0]
  /\ esp = [p \in Pids |-> p]
  /\ current_task = KernelPid /\ cpu = KernelPid
  /\ cr3 = KernelPid /\ tss = KernelPid
  /\ pc = [p \in Pids |-> "run"]
  /\ sel = [p \in Pids |-> p]
  /\ kprev = KernelPid /\ kpid = KernelPid
  /\ image = [p \in Pids |-> {}]
  /\ left = [p \in Pids |-> 0]

-----------------------------------------------------------------------------
(* The circular list. *)

\* The tasks met by following next from task c: Trail(nx, c)[0] = nx[c].
Trail(nx, c) ==
  LET s[k \in Pids] == IF k = 0 THEN nx[c] ELSE nx[s[k - 1]] IN s

Ring == {Trail(next, current_task)[k] : k \in Pids}

\* Mutant of Unlink: the predecessor keeps pointing at a freed task.
UnlinkNothing(nx, gone) == nx

\* Removing the tasks of gone, each by kill_task's prev->next = t->next.
Unlink(nx, gone) ==
  [p \in Pids |->
     IF nx[p] \notin gone THEN nx[p]
     ELSE LET s == Trail(nx, p) IN s[Min({k \in Pids : s[k] \notin gone})]]

\* Mutant of Picked: DEAD tasks are passed over, not reaped.
PickedNoReap(st) ==
  LET s == Trail(next, current_task)
      k == Min({j \in Pids : st[s[j]] = "READY" \/ s[j] = current_task})
  IN [task |-> s[k], reaped |-> {}]

\* schedule's loop: the task it stops at and the DEAD tasks it reaps on the way.
Picked(st) ==
  LET s == Trail(next, current_task)
      k == Min({j \in Pids : st[s[j]] = "READY" \/ s[j] = current_task})
  IN [task |-> s[k], reaped |-> {s[j] : j \in {i \in 0..k : i < k /\ st[s[i]] = "DEAD"}}]

\* Mutant of Handover: prev stays RUNNING.
HandoverKeepsPrev(st, prev, n) == [st EXCEPT ![n] = "RUNNING"]

\* prev gives up RUNNING, n takes it.
Handover(st, prev, n) ==
  [st EXCEPT ![prev] = IF @ = "RUNNING" THEN "READY" ELSE @, ![n] = "RUNNING"]

\* The page directory and the ring-0 stack that schedule loads for n.
Cr3For(prev, n) == IF Dir(prev) # Dir(n) THEN Dir(n) ELSE cr3
\* Mutant of TssFor: set_kernel_stack only for the first user task.
TssForFirst(n) == IF IsUser(n) /\ tss = KernelPid THEN n ELSE tss
TssFor(n) == IF IsUser(n) THEN n ELSE tss

\* schedule() with IF = 0, as one step, from the task states st.
Schedule(st) ==
  LET prev == current_task
      n == Picked(st).task
      gone == Picked(st).reaped
      switch == next[prev] # prev /\ st[n] = "READY"
  IN /\ next' = Unlink(next, gone)
     /\ alive' = alive \ gone
     /\ \/ /\ ~switch
           /\ state' = st
           /\ UNCHANGED cpuVars
        \/ /\ switch
           /\ state' = Handover(st, prev, n)
           /\ tss' = TssFor(n)
           /\ cr3' = Cr3For(prev, n)
           /\ current_task' = n
           /\ esp' = [esp EXCEPT ![prev] = cpu]
           /\ cpu' = esp'[n]

At(label) == pc[cpu] = label
Goto(label) == pc' = [pc EXCEPT ![cpu] = label]

-----------------------------------------------------------------------------
(* Interrupts. *)

\* Mutants of Woken: one tick too early, and one tick too late.
WokenEarly(t) ==
  [p \in Pids |-> IF p \in Ring /\ state[p] = "SLEEPING" /\ t + 1 >= wake_tick[p]
                  THEN "READY" ELSE state[p]]
WokenLate(t) ==
  [p \in Pids |-> IF p \in Ring /\ state[p] = "SLEEPING" /\ t > wake_tick[p]
                  THEN "READY" ELSE state[p]]

\* task_timer_tick at tick t.
Woken(t) ==
  [p \in Pids |-> IF p \in Ring /\ state[p] = "SLEEPING" /\ t >= wake_tick[p]
                  THEN "READY" ELSE state[p]]

\* timer_handler: count, wake, EOI, schedule.  The interrupted task resumes at
\* the iret, behind its hlt.
TimerIRQ ==
  /\ pc[cpu] \in {"run", "hlt", "dead"} \cup Windows
  /\ timer_ticks < MaxTick
  /\ timer_ticks' = (timer_ticks + 1) % TickMod
  /\ left' = [p \in Pids |-> IF left[p] > 0 THEN left[p] - 1 ELSE 0]
  /\ Goto(IF At("hlt") THEN "while" ELSE pc[cpu])
  /\ Schedule(Woken(timer_ticks'))
  /\ UNCHANGED <<next_pid, wake_tick, localVars, image>>

\* keyboard_handler does not schedule: here it only ends a hlt.
KeyIRQ ==
  /\ pc[cpu] \in {"hlt", "dead"}
  /\ Goto(IF At("hlt") THEN "while" ELSE "dead")
  /\ UNCHANGED <<timer_ticks, next_pid, ringVars, state, wake_tick, cpuVars,
                 localVars, image, left>>

-----------------------------------------------------------------------------
(* System calls (IF = 0) and the tasks' direct calls (IF = 1). *)

\* x / Second, at least one when a time was asked for.
AtLeastOne(ms, x) == IF ms > 0 /\ x \div Second = 0 THEN 1 ELSE x \div Second

\* task_sleep's conversion: the product wraps, the quotient is cut.
Ticks(ms) == AtLeastOne(ms, (ms * TimerFreq) % TickMod)

\* The whole ticks that ms milliseconds really take.
Owed(ms) == AtLeastOne(ms, ms * TimerFreq)

\* Mutant of SetAlarm: the deadline leaves the counter's range.
SetAlarmNoWrap(ms) ==
  /\ wake_tick' = [wake_tick EXCEPT ![current_task] = timer_ticks + Ticks(ms)]
  /\ left' = [left EXCEPT ![current_task] = Owed(ms)]

\* task_sleep up to its loop, on the current task.
SetAlarm(ms) ==
  /\ wake_tick' = [wake_tick EXCEPT ![current_task] = (timer_ticks + Ticks(ms)) % TickMod]
  /\ left' = [left EXCEPT ![current_task] = Owed(ms)]

\* int 0x80, SYS_SLEEP: by the shell and by user programs.
SysSleep(ms) ==
  /\ At("run") /\ cpu # SpinnerPid
  /\ IsUser(cpu) \/ ms \in KernelDelays
  /\ SetAlarm(ms)
  /\ Goto("slept")
  /\ Schedule([state EXCEPT ![current_task] = "SLEEPING"])
  /\ UNCHANGED <<timer_ticks, next_pid, localVars, image>>

\* int 0x80, SYS_YIELD.
SysYield ==
  /\ At("run") /\ IsUser(cpu)
  /\ Schedule(state)
  /\ UNCHANGED <<timer_ticks, next_pid, wake_tick, pc, localVars, image, left>>

\* Mutant of ExitTask: the task frees its own stack and Task.
ExitTaskFrees ==
  /\ At("run") /\ IsUser(cpu)
  /\ state' = [state EXCEPT ![current_task] = "DEAD"]
  /\ alive' = alive \ {cpu}
  /\ Goto("sched")
  /\ UNCHANGED <<timer_ticks, next_pid, next, wake_tick, cpuVars, localVars, image, left>>

\* int 0x80, SYS_EXIT: exit_task marks the task and enables interrupts.
ExitTask ==
  /\ At("run") /\ IsUser(cpu)
  /\ state' = [state EXCEPT ![current_task] = "DEAD"]
  /\ Goto("sched")
  /\ UNCHANGED <<timer_ticks, next_pid, ringVars, wake_tick, cpuVars, localVars,
                 image, left>>

\* task_sleep called by the spinner: the deadline, then the state.
TaskSleep(ms) ==
  /\ At("run") /\ cpu = SpinnerPid /\ ms \in KernelDelays
  /\ SetAlarm(ms)
  /\ Goto("sleep")
  /\ UNCHANGED <<timer_ticks, next_pid, ringVars, state, cpuVars, localVars, image>>

Doze ==
  /\ At("sleep")
  /\ state' = [state EXCEPT ![current_task] = "SLEEPING"]
  /\ Goto("while")
  /\ UNCHANGED <<timer_ticks, next_pid, ringVars, wake_tick, cpuVars, localVars,
                 image, left>>

\* The tests of task_sleep's loop, around schedule() and before the hlt.
Asleep == state[current_task] = "SLEEPING"

LoopTest ==
  /\ \/ At("while") /\ Goto(IF Asleep THEN "sched" ELSE "run")
     \/ At("check") /\ Goto(IF Asleep THEN "idle" ELSE "run")
     \/ At("slept") /\ Goto(IF Asleep THEN "hlt" ELSE "run")
     \/ At("idle") /\ Goto("hlt")
  /\ UNCHANGED <<timer_ticks, next_pid, ringVars, state, wake_tick, cpuVars,
                 localVars, image, left>>

-----------------------------------------------------------------------------
(* schedule() with IF = 1; its local prev is the task it runs on. *)

AfterSchedule == IF state[cpu] = "DEAD" THEN "dead" ELSE "check"

SchedEnter ==
  /\ At("sched")
  /\ sel' = [sel EXCEPT ![cpu] = next[current_task]]
  /\ Goto(IF next[current_task] = current_task THEN AfterSchedule ELSE "walk")
  /\ UNCHANGED <<timer_ticks, next_pid, ringVars, state, wake_tick, cpuVars,
                 kprev, kpid, image, left>>

\* One round of the loop; a DEAD task goes through kill_task.
SchedWalk ==
  LET t == sel[cpu]
      stop == state[t] = "READY" \/ t = cpu
      reap == ~stop /\ state[t] = "DEAD"
  IN /\ At("walk")
     /\ sel' = IF stop THEN sel ELSE [sel EXCEPT ![cpu] = next[t]]
     /\ next' = IF reap THEN Unlink(next, {t}) ELSE next
     /\ alive' = IF reap THEN alive \ {t} ELSE alive
     /\ Goto(IF ~stop THEN "walk"
             ELSE IF state[t] = "READY" THEN "mark" ELSE AfterSchedule)
     /\ UNCHANGED <<timer_ticks, next_pid, state, wake_tick, cpuVars, kprev, kpid,
                    image, left>>

SchedMark ==
  /\ At("mark")
  /\ state' = Handover(state, cpu, sel[cpu])
  /\ tss' = TssFor(sel[cpu])
  /\ cr3' = Cr3For(cpu, sel[cpu])
  /\ Goto("load")
  /\ UNCHANGED <<timer_ticks, next_pid, ringVars, wake_tick, current_task, cpu, esp,
                 localVars, image, left>>

SchedLoad ==
  /\ At("load")
  /\ current_task' = sel[cpu]
  /\ Goto("switch")
  /\ UNCHANGED <<timer_ticks, next_pid, ringVars, state, wake_tick, cpu, esp, cr3, tss,
                 localVars, image, left>>

\* Mutant of SchedSwitch: esp is saved through next instead of prev.
SchedSwitchWrongSlot ==
  /\ At("switch")
  /\ esp' = [esp EXCEPT ![sel[cpu]] = cpu]
  /\ cpu' = sel[cpu]
  /\ Goto(AfterSchedule)
  /\ UNCHANGED <<timer_ticks, next_pid, ringVars, state, wake_tick, current_task, cr3,
                 tss, localVars, image, left>>

\* switch_context(prev, next)
SchedSwitch ==
  /\ At("switch")
  /\ esp' = [esp EXCEPT ![cpu] = cpu]
  /\ cpu' = esp'[sel[cpu]]
  /\ Goto(AfterSchedule)
  /\ UNCHANGED <<timer_ticks, next_pid, ringVars, state, wake_tick, current_task, cr3,
                 tss, localVars, image, left>>

-----------------------------------------------------------------------------
(* The shell's exec: create_user_process over create_user_task, IF = 1. *)

\* Memory for the task and its directory; CR3 goes to the new directory.
ExecBegin ==
  /\ At("run") /\ cpu = KernelPid
  /\ next_pid <= MaxPid
  /\ cr3' = next_pid
  /\ Goto("mapstack")
  /\ UNCHANGED <<timer_ticks, next_pid, ringVars, state, wake_tick, current_task, cpu,
                 esp, tss, localVars, image, left>>

\* The region is mapped in whatever directory CR3 names.
MapIn(region) ==
  image' = [image EXCEPT ![cr3] = @ \cup {region}]

\* The stack is mapped and the task enters the ring READY, behind the shell.
ExecMapStack ==
  LET new == next_pid
  IN /\ At("mapstack")
     /\ MapIn("stack")
     /\ cr3' = Dir(current_task)
     /\ next_pid' = new + 1
     /\ alive' = alive \cup {new}
     /\ next' = [next EXCEPT ![new] = next[current_task], ![current_task] = new]
     /\ state' = [state EXCEPT ![new] = "READY"]
     /\ sel' = [sel EXCEPT ![cpu] = new]
     /\ Goto("spawned")
     /\ UNCHANGED <<timer_ticks, wake_tick, current_task, cpu, esp, tss, kprev, kpid, left>>

ExecHold ==
  /\ \/ /\ At("spawned")
        /\ state' = [state EXCEPT ![sel[cpu]] = "SLEEPING"]
        /\ Goto("hold")
        /\ UNCHANGED <<wake_tick, cr3>>
     \/ /\ At("hold")
        /\ wake_tick' = [wake_tick EXCEPT ![sel[cpu]] = TickMod - 1]
        /\ cr3' = sel[cpu]
        /\ Goto("loading")
        /\ UNCHANGED state
  /\ UNCHANGED <<timer_ticks, next_pid, ringVars, current_task, cpu, esp, tss,
                 localVars, image, left>>

\* The program is mapped and copied through CR3; the task may run.
ExecLoad ==
  /\ At("loading")
  /\ MapIn("code")
  /\ cr3' = Dir(current_task)
  /\ state' = [state EXCEPT ![sel[cpu]] = "READY"]
  /\ wake_tick' = [wake_tick EXCEPT ![sel[cpu]] = 0]
  /\ Goto("run")
  /\ UNCHANGED <<timer_ticks, next_pid, ringVars, current_task, cpu, esp, tss,
                 localVars, left>>

-----------------------------------------------------------------------------
(* The shell's kill command: kill_task(pid), IF = 1. *)

KillBegin(pid) ==
  /\ At("run") /\ cpu = KernelPid
  /\ pid # KernelPid
  /\ kpid' = pid
  /\ kprev' = current_task
  /\ sel' = [sel EXCEPT ![cpu] = next[current_task]]
  /\ Goto("kwalk")
  /\ UNCHANGED <<timer_ticks, next_pid, ringVars, state, wake_tick, cpuVars, image, left>>

KillWalk ==
  LET t == sel[cpu]
  IN /\ At("kwalk")
     /\ \/ /\ t = kpid
           /\ next' = [next EXCEPT ![kprev] = next[t]]
           /\ Goto("kfree")
           /\ UNCHANGED <<sel, kprev>>
        \/ /\ t # kpid
           /\ kprev' = t
           /\ sel' = [sel EXCEPT ![cpu] = next[t]]
           /\ Goto(IF next[t] = current_task THEN "run" ELSE "kwalk")
           /\ UNCHANGED next
     /\ UNCHANGED <<timer_ticks, next_pid, alive, state, wake_tick, cpuVars, kpid,
                    image, left>>

\* kfree of the stack and the Task, pmm_free_page of the user's pages.
KillFree ==
  /\ At("kfree")
  /\ alive' = alive \ {sel[cpu]}
  /\ Goto("run")
  /\ UNCHANGED <<timer_ticks, next_pid, next, state, wake_tick, cpuVars, localVars,
                 image, left>>

-----------------------------------------------------------------------------
\* What the kernel does next without anyone's choice.
KernelStep ==
  \/ Doze \/ LoopTest
  \/ SchedEnter \/ SchedWalk \/ SchedMark \/ SchedLoad \/ SchedSwitch
  \/ ExecMapStack \/ ExecHold \/ ExecLoad
  \/ KillWalk \/ KillFree

TaskChoice ==
  \/ \E ms \in Delays : SysSleep(ms) \/ TaskSleep(ms)
  \/ SysYield \/ ExitTask \/ ExecBegin
  \/ \E pid \in Pids : KillBegin(pid)

Next == TimerIRQ \/ KeyIRQ \/ TaskChoice \/ KernelStep

\* The PIC keeps IRQ 0 pending until IF = 1, so a tick that could be taken
\* again and again is taken; a time slice is long enough for a step, so a
\* task that gets the CPU again and again goes on in its kernel code.
Fairness ==
  /\ SF_vars(TimerIRQ)
  /\ \A p \in Pids : SF_vars(cpu = p /\ KernelStep)

Spec == Init /\ [][Next]_vars /\ Fairness

-----------------------------------------------------------------------------
(* Properties. *)

Regions == {"stack", "code"}

TypeOK ==
  /\ timer_ticks \in 0..(TickMod - 1)
  /\ next_pid \in 2..(MaxPid + 1)
  /\ alive \in SUBSET Pids
  /\ next \in [Pids -> Pids]
  /\ state \in [Pids -> TaskState]
  /\ wake_tick \in [Pids -> 0..(TickMod - 1)]
  /\ esp \in [Pids -> Pids]
  /\ current_task \in Pids /\ cpu \in Pids /\ cr3 \in Pids /\ tss \in Pids
  /\ pc \in [Pids -> Labels]
  /\ sel \in [Pids -> Pids]
  /\ kprev \in Pids /\ kpid \in Pids
  /\ image \in [Pids -> SUBSET Regions]
  /\ left \in [Pids -> Nat]

\* The list that schedule, task_timer_tick and kill_task walk is one cycle of
\* exactly the allocated tasks; between kill_task's unlinking and its kfree
\* the victim is outside it.
RingIntact ==
  LET victim == IF pc[KernelPid] = "kfree" THEN {sel[KernelPid]} ELSE {}
  IN /\ Ring = alive \ victim
     /\ \A p, q \in Ring : next[p] = next[q] => p = q

\* Every saved stack pointer lies in its own task's stack (task.h:19), and the
\* CPU runs on the stack of current_task except between the two assignments
\* of a switch.
EspOwn ==
  /\ \A p \in alive : esp[p] = p
  /\ ~At("switch") => cpu = current_task

\* At most one task is marked RUNNING: the current one, or the one a switch
\* in progress is about to make current.
RunningIsCurrent ==
  \A p \in alive : state[p] = "RUNNING" =>
    p = IF At("load") THEN sel[cpu] ELSE current_task

\* A user program executes on its own page directory, with its stack and its
\* code mapped there, and with its own kernel stack in the TSS.
UserContext ==
  At("run") /\ IsUser(cpu) => cr3 = cpu /\ tss = cpu /\ image[cpu] = Regions

\* Nothing the kernel is about to follow has been freed: the CPU's stack,
\* current_task, the loaded directory, and the locals of schedule and of
\* kill_task in every task that will still run.
NoUseAfterFree ==
  /\ {cpu, current_task} \subseteq alive
  /\ cr3 \in alive \/ (pc[KernelPid] = "mapstack" /\ cr3 = next_pid)
  /\ \A p \in alive :
       /\ pc[p] \in SwitchLabels /\ state[p] # "DEAD" => sel[p] \in alive
       /\ pc[p] = "kwalk" => {sel[p], kprev} \subseteq alive

\* A sleeper is not woken before the whole ticks in the milliseconds it asked
\* for, and at least one, have been counted (syscall.h:16, and timer.cpp:22 for
\* the resolution of one tick; task.cpp:211 and 235 decide).
NoEarlyWake ==
  [][\A p \in Pids : state[p] = "SLEEPING" /\ state'[p] # "SLEEPING" => left'[p] = 0]_vars

\* Round robin (readme.md:34): a task that neither sleeps nor has exited gets
\* the CPU again and again until it is killed.
RoundRobin ==
  \A p \in Pids :
    []<>(current_task = p \/ p \notin alive \/ state[p] \in {"SLEEPING", "DEAD"})

\* Every sleeper stops sleeping.
SleeperWakes ==
  \A p \in Pids : state[p] = "SLEEPING" ~> state[p] # "SLEEPING" \/ p \notin alive

\* A task that has exited is reaped.
DeadReaped ==
  \A p \in Pids : state[p] = "DEAD" ~> p \notin alive

-----------------------------------------------------------------------------
(* The inductive invariant behind the safety properties above, when ticks    *)
(* fall only in harmless windows: SwitchInv for the context switch, RingInv  *)
(* for the list.                                                             *)

Switching == pc[cpu] \in {"load", "switch"}
Loading(p) == pc[KernelPid] \in {"spawned", "hold", "loading"} /\ sel[KernelPid] = p

\* A task that does not run was left by a tick, by SYS_SLEEP or by a switch.
Quiet == {"run", "hlt", "dead", "slept"} \cup HarmlessWindows
OffCpu == \A p \in Pids \ {cpu} : pc[p] \in Quiet

Owners == \A p \in Pids :
            /\ pc[p] \in ExecLabels \cup KillLabels => p = KernelPid
            /\ state[p] # "DEAD" => p < next_pid
            /\ esp[p] = p
            /\ state[p] = "RUNNING" => p = IF At("load") THEN sel[cpu] ELSE current_task

OnCpu ==
  /\ cpu < next_pid /\ current_task < next_pid
  /\ current_task = IF At("switch") THEN sel[cpu] ELSE cpu
  /\ At("mark") => state[sel[cpu]] = "READY"
  /\ Switching => sel[cpu] < next_pid
  /\ At("mapstack") => next_pid <= MaxPid
  /\ \A p \in Pids : Loading(p) => IsUser(p) /\ p < next_pid

Context ==
  /\ cr3 = IF Switching THEN Dir(sel[cpu])
           ELSE IF At("mapstack") THEN next_pid
           ELSE IF At("loading") THEN sel[cpu] ELSE Dir(cpu)
  /\ LET r == IF Switching THEN sel[cpu] ELSE cpu IN IsUser(r) => tss = r
  /\ \A p \in Pids : IsUser(p) =>
       image[p] = IF p >= next_pid THEN {}
                  ELSE IF Loading(p) THEN {"stack"} ELSE Regions

SwitchInv == TypeOK /\ OffCpu /\ Owners /\ OnCpu /\ Context

\* Following next through the tasks of R is one cycle through all of them: next
\* stays in R, two tasks of R have two successors, and no smaller set is closed.
Cycle(nx, R) ==
  /\ \A p \in R : nx[p] \in R
  /\ \A p, q \in R : nx[p] = nx[q] => p = q
  /\ \A S \in SUBSET R : S # {} /\ (\A p \in S : nx[p] \in S) => S = R

\* The allocated tasks, without the one that kill_task has unlinked.
Members == alive \ (IF pc[KernelPid] = "kfree" THEN {sel[KernelPid]} ELSE {})

\* The list is a cycle of them; the shell never exits; whoever runs, is loaded or
\* is about to run is in the list; and kill_task's prev and t are neighbours in it.
RingInv ==
  /\ Cycle(next, Members)
  /\ {KernelPid, current_task, cpu} \subseteq Members
  /\ state[KernelPid] # "DEAD"
  /\ \A p \in alive : p < next_pid
  /\ pc[cpu] \in SwitchLabels => sel[cpu] \in Members
  /\ \A p \in Pids : Loading(p) => p \in Members
  /\ pc[KernelPid] = "kwalk" =>
       kprev \in Members /\ sel[KernelPid] = next[kprev] /\ kpid # KernelPid

=============================================================================
