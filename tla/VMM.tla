-------------------------------- MODULE VMM --------------------------------
(***************************************************************************)
(* Page directories, mm/vmm.cpp, with their clients: the growth of the     *)
(* heap, exec, kill_task and the CR3 load of schedule().  Every directory  *)
(* keeps its own copy of the kernel's heap entries: filled when it is      *)
(* created, and by page_fault_handler when a later table is missing.       *)
(*                                                                         *)
(* A virtual page v has entry v \div PtSize of a directory and entry       *)
(* v % PtSize of a table; the present entries of a directory or table are  *)
(* the domain of a function.  exec runs here without a task switch: what a *)
(* switch inside it does to CR3 is in module Tasks.                        *)
(***************************************************************************)
EXTENDS Naturals, FiniteSets, FiniteSetsExt, Functions

CONSTANTS
  PtSize,      \* entries of a table (1024)
  HeapTables,  \* tables between HEAP_START and HEAP_MAX_ADDR (128)
  NFrames,     \* page frames of the allocator
  LowFrames,   \* frames below it are mapped 1:1 by first_page_table (1024)
  Users,       \* user tasks
  MaxCode      \* bound: pages of a program

Master == 0           \* vmm.cpp's page_directory, named like no free frame
Shell == 0            \* kernel_task: its directory is Master, its stack static
Frames == 1..NFrames
CodeStart == PtSize                    \* USER_CODE_START
StackPage == 3 * PtSize - 1            \* USER_STACK_BOTTOM
HeapStart == 3 * PtSize                \* HEAP_START
HeapMax == HeapStart + HeapTables * PtSize
PdeOf(v) == v \div PtSize
PteOf(v) == v % PtSize
HeapRange == HeapStart..(HeapMax - 1)

ASSUME VMMAssumption ==
  /\ PtSize \in Nat \ {0} /\ HeapTables \in Nat \ {0} /\ MaxCode \in 1..PtSize
  /\ NFrames \in Nat /\ NFrames >= 2 /\ LowFrames \in Nat
  /\ Users \subseteq Nat \ {Shell}

VARIABLES
  mem,       \* [free, pd, pt]: the allocator's free frames, the directories and the
             \* tables by frame; role, history: what a frame was last allocated for;
             \* broken, history: a failed allocation was used as frame 0, or a new
             \* table took the place of one that the kernel's directory had
  cr3,       \* the loaded directory
  current_task,
  tasks,     \* user tasks by id: cr3, user_stack_bottom, the heap page of the
             \* kernel stack, and the frames of the code pages
  heap,      \* heap_current_end, the page of the last block header, and (history)
             \* the frame given for each page
  exec,      \* the program create_user_process is loading: {} or {[task, left]}
  halt       \* "no", or why the machine stopped

vars == <<mem, cr3, current_task, tasks, heap, exec, halt>>

Live == DOMAIN tasks
DirOf(t) == IF t = Shell THEN Master ELSE tasks[t].cr3
Dirs == {Master} \cup {tasks[t].cr3 : t \in Live}

\* A directory or table without entries, and one with entry i set.
Empty == [i \in {} |-> 0]
WithEntry(f, i, x) == [j \in DOMAIN f \cup {i} |-> IF j = i THEN x ELSE f[j]]

\* The walk of the MMU: whether page v is mapped in directory d, and where to.
Mapped(m, d, v) == PdeOf(v) \in DOMAIN m.pd[d] /\ PteOf(v) \in DOMAIN m.pt[m.pd[d][PdeOf(v)]]
Resolve(m, d, v) == m.pt[m.pd[d][PdeOf(v)]][PteOf(v)]

\* pmm_alloc_page: the lowest free frame, 0 without one.
Alloc(m) == IF m.free = {} THEN 0 ELSE Min(m.free)
Taken(m, f, r) == [m EXCEPT !.free = @ \ {f}, !.role[f] = r]

\* The kernel's directory has a heap table for page v.
KernelHas(m, v) == v >= HeapStart /\ PdeOf(v) \in DOMAIN m.pd[Master]

\* A new table for page v, zeroed and entered in the directories of in.  Neither that
\* the allocation may fail is checked, nor that the kernel's directory has a table.
NewTable(m, v, in) ==
  LET i == PdeOf(v)
      t == Alloc(m)
  IN [Taken(m, t, IF v >= HeapStart THEN "heap" ELSE "table") EXCEPT
        !.pd = [x \in DOMAIN @ |-> IF x \in in THEN WithEntry(@[x], i, t) ELSE @[x]],
        !.pt[t] = Empty, !.broken = @ \/ t = 0 \/ KernelHas(m, v)]

\* Mutant of Sharers: the kernel's directory is told of no new table.
SharersNone(d, v) == {d}

\* The directories that vmm_map_page enters a new table in.
Sharers(d, v) == IF v >= HeapStart THEN {d, Master} ELSE {d}

\* vmm_map_page with directory d loaded.
MapPage(m, d, v, f) ==
  LET m1 == IF PdeOf(v) \in DOMAIN m.pd[d] THEN m ELSE NewTable(m, v, Sharers(d, v))
  IN [m1 EXCEPT !.pt[m1.pd[d][PdeOf(v)]] = WithEntry(@, PteOf(v), f)]

\* Mutant of Fault: the entry is copied into no directory.
FaultIgnored(m, d, S) == m

\* page_fault_handler for kernel accesses to the heap pages S under directory d: each
\* missing entry that the kernel's directory has is copied.
Fault(m, d, S) ==
  LET missing == ({PdeOf(v) : v \in S} \ DOMAIN m.pd[d]) \cap DOMAIN m.pd[Master]
  IN [m EXCEPT !.pd[d] = [i \in DOMAIN @ \cup missing |-> IF i \in missing THEN m.pd[Master][i] ELSE @[i]]]

\* A kernel access to the heap pages S, with memory m otherwise: an access that the
\* handler cannot resolve stops the machine.
Touch(S, m) ==
  LET m1 == Fault(m, cr3, S)
  IN /\ mem' = m1
     /\ halt' = IF \A v \in S : Mapped(m1, cr3, v) THEN halt ELSE "heap"

\* init_vmm and init_heap: one heap page, in one table.
Init ==
  LET m0 == [free |-> Frames \ {1}, pd |-> [f \in {Master} \cup Frames |-> Empty],
             pt |-> [f \in {0} \cup Frames |-> Empty],
             role |-> [f \in {0} \cup Frames |-> "heap"], broken |-> FALSE]
  IN /\ mem = MapPage(m0, Master, HeapStart, 1)
     /\ cr3 = Master /\ current_task = Shell
     /\ tasks = Empty
     /\ heap = [end |-> HeapStart + 1, last |-> HeapStart, at |-> [v \in {HeapStart} |-> 1]]
     /\ exec = {}
     /\ halt = "no"

-----------------------------------------------------------------------------
(* The heap, under whichever directory is loaded. *)

\* kmalloc and kfree without growth: the walk reaches the last header, and splitting or
\* merging leaves the last header in page l.
UseHeap(l) ==
  /\ l < heap.end /\ l # heap.last
  /\ Touch({heap.last, l}, mem)
  /\ heap' = [heap EXCEPT !.last = l]
  /\ UNCHANGED <<cr3, current_task, tasks, exec>>

\* kmalloc finds no block: one more page, added to the last block if that is free,
\* wherever it begins, or as a block of its own.  Without a frame kmalloc returns 0.
Grow ==
  /\ heap.end < HeapMax /\ mem.free # {}
  /\ LET f == Alloc(mem)
         m == Taken(Fault(mem, cr3, {heap.last}), f, "heap")
     IN Touch({heap.last}, MapPage(m, cr3, heap.end, f))
        /\ \E l \in {heap.last, heap.end} :
             heap' = [end |-> heap.end + 1, last |-> l, at |-> WithEntry(heap.at, heap.end, f)]
  /\ UNCHANGED <<cr3, current_task, tasks, exec>>

-----------------------------------------------------------------------------
(* Tasks *)

\* vmm_create_page_directory: entries 0 and 1023 are the same in every directory.
CreateDirectory(m, d) ==
  [Taken(m, d, "dir") EXCEPT
     !.pd[d] = [i \in {j \in DOMAIN m.pd[Master] : j >= PdeOf(HeapStart)} |-> m.pd[Master][i]]]

\* exec, up to the return of create_user_task: with no frame for the user stack it
\* returns 0.  The directory is not checked: frame 0 holds no directory, and a frame
\* that is not mapped 1:1 cannot be filled.
ExecTask(t, k, n) ==
  /\ current_task = Shell /\ exec = {} /\ t \notin Live /\ mem.free # {}
  /\ k < heap.end
  /\ LET s == Alloc(mem)
         m1 == Taken(mem, s, "stack")
         d == Alloc(m1)
         m2 == CreateDirectory(m1, d)
     IN IF d = 0 \/ d >= LowFrames
        THEN /\ mem' = IF d = 0 THEN [m1 EXCEPT !.broken = TRUE] ELSE Taken(m1, d, "dir")
             /\ halt' = "directory"
             /\ UNCHANGED <<cr3, current_task, tasks, heap, exec>>
        ELSE /\ mem' = MapPage(m2, d, StackPage, s)
             /\ tasks' = WithEntry(tasks, t, [cr3 |-> d, stack |-> s, kstack |-> k, code |-> Empty])
             /\ exec' = {[task |-> t, left |-> n]}
             /\ UNCHANGED <<cr3, current_task, heap, halt>>

\* create_user_process loads one page under the new directory; an allocation that fails
\* maps frame 0.  CR3 is the shell's again when it returns.
ExecCode ==
  \E x \in exec :
    LET t == x.task
        i == Cardinality(DOMAIN tasks[t].code)
        f == Alloc(mem)
        m == IF f = 0 THEN [mem EXCEPT !.broken = TRUE] ELSE Taken(mem, f, "code")
    IN /\ mem' = MapPage(m, tasks[t].cr3, CodeStart + i, f)
       /\ tasks' = [tasks EXCEPT ![t].code = WithEntry(@, i, f)]
       /\ exec' = IF x.left = 1 THEN {} ELSE {[x EXCEPT !.left = @ - 1]}
       /\ UNCHANGED <<cr3, current_task, heap, halt>>

\* Mutants of Freed: the directory is kept; the tables are freed, the heap's too.
FreedStack(t) == {tasks[t].stack}
FreedTables(t) == {tasks[t].stack, tasks[t].cr3} \cup Range(mem.pd[tasks[t].cr3])

\* The frames kill_task gives back: not the tables and the code pages.
Freed(t) == {tasks[t].stack, tasks[t].cr3}

\* kill_task starts its search behind the current task.
Victims == Live \ {current_task}

\* kill_task, from the shell or from another task's schedule() when t has exited.
Kill(t) ==
  /\ exec = {} /\ t \in Victims
  /\ Touch({tasks[t].kstack}, [mem EXCEPT !.free = @ \cup Freed(t)])
  /\ tasks' = [u \in Live \ {t} |-> tasks[u]]
  /\ UNCHANGED <<cr3, current_task, heap, exec>>

\* schedule() loads the directory of t while the CPU is still on the stack of the task
\* it leaves.  A fault on the stack itself cannot be delivered.
Switch(t) ==
  /\ exec = {} /\ t \in Live \cup {Shell} /\ t # current_task
  /\ cr3' = DirOf(t)
  /\ current_task' = t
  /\ halt' = IF current_task = Shell \/ Mapped(mem, DirOf(t), tasks[current_task].kstack)
             THEN halt ELSE "stack"
  /\ UNCHANGED <<mem, tasks, heap, exec>>

\* The pages that exec has mapped for task t.
OwnPages(t) ==
  IF t = Shell THEN {} ELSE {StackPage} \cup {CodeStart + i : i \in DOMAIN tasks[t].code}

\* A program touches any page, the shell's fault command one below the heap that is not
\* mapped.  The heap's pages are the kernel's: where the kernel's directory has a table
\* page_fault_handler copies it and returns, and the program faults again until a tick
\* takes the CPU.  Everywhere else it panics.
UserFault(t, v) ==
  /\ exec = {} /\ t = current_task
  /\ t = Shell => v \in CodeStart..(HeapStart - 1)
  /\ v >= HeapStart \/ ~Mapped(mem, cr3, v)
  /\ \/ /\ KernelHas(mem, v)
        /\ mem' = Fault(mem, cr3, {v})
        /\ UNCHANGED halt
     \/ /\ ~KernelHas(mem, v)
        /\ halt' = IF v \in OwnPages(t) THEN "user" ELSE "wild"
        /\ UNCHANGED mem
  /\ UNCHANGED <<cr3, current_task, tasks, heap, exec>>

Next ==
  /\ halt = "no"
  /\ \/ \E l \in HeapRange : UseHeap(l)
     \/ Grow
     \/ \E t \in Users, k \in HeapRange, n \in 1..MaxCode : ExecTask(t, k, n)
     \/ ExecCode
     \/ \E t \in Users : Kill(t)
     \/ \E t \in Users \cup {Shell} : Switch(t)
     \/ \E t \in Users \cup {Shell}, v \in 0..HeapMax : UserFault(t, v)

Spec == Init /\ [][Next]_vars

-----------------------------------------------------------------------------
(* Properties.  Once a failed allocation has been used as frame 0, or a table of the    *)
(* kernel's directory has been replaced (HeapPagesStay), nothing is promised.            *)

\* Directories, tables and tasks name frames that exist, and the heap is not empty.
TypeOK ==
  /\ mem.free \subseteq Frames /\ mem.broken \in BOOLEAN
  /\ \A f \in Dirs : \A i \in DOMAIN mem.pd[f] : mem.pd[f][i] \in {0} \cup Frames
  /\ \A f \in {0} \cup Frames : \A i \in DOMAIN mem.pt[f] : mem.pt[f][i] \in {0} \cup Frames
  /\ Live \subseteq Users /\ current_task \in Live \cup {Shell} /\ cr3 \in Dirs
  /\ heap.end \in (HeapStart + 1)..HeapMax /\ heap.last \in HeapStart..(heap.end - 1)
  /\ halt \in {"no", "heap", "directory", "stack", "user", "wild"}

\* The heap is one: the kernel's directory maps every page of it to the frame kmalloc got
\* for it, and every other directory does the same or will fault.
OneHeap ==
  ~mem.broken => \A v \in HeapStart..(heap.end - 1) :
    /\ PdeOf(v) \in DOMAIN mem.pd[Master]
    /\ \A d \in Dirs : PdeOf(v) \in DOMAIN mem.pd[d] =>
         Mapped(mem, d, v) /\ Resolve(mem, d, v) = heap.at[v]

\* What each frame in use is used for.
Uses ==
  (UNION { {<<tasks[t].cr3, "dir", t>>, <<tasks[t].stack, "stack", t>>}
          \cup {<<mem.pd[tasks[t].cr3][i], "table", t>> :
                  i \in {j \in DOMAIN mem.pd[tasks[t].cr3] : j < PdeOf(HeapStart)}}
          \cup {<<tasks[t].code[i], "code", t, i>> : i \in DOMAIN tasks[t].code} : t \in Live })
  \cup {<<mem.pd[Master][i], "table", Master>> : i \in DOMAIN mem.pd[Master]}
  \cup {<<heap.at[v], "heap", v>> : v \in HeapStart..(heap.end - 1)}

\* A frame has one use, and is not free while it has one, through any order of exec, kill
\* and heap growth; and a program's pages are where its own directory says.
OwnMemory ==
  /\ TypeOK
  /\ ~mem.broken =>
    /\ \A x, y \in Uses : x[1] = y[1] => x = y
    /\ \A x \in Uses : x[1] \notin mem.free
    /\ \A t \in Live :
         /\ Mapped(mem, tasks[t].cr3, StackPage)
         /\ Resolve(mem, tasks[t].cr3, StackPage) = tasks[t].stack
         /\ \A i \in DOMAIN tasks[t].code :
              /\ Mapped(mem, tasks[t].cr3, CodeStart + i)
              /\ Resolve(mem, tasks[t].cr3, CodeStart + i) = tasks[t].code[i]

\* kill_task loses the tables and the code pages of the task and nothing else: a frame
\* without a use that is not free was one of those.
OnlyTablesAndCodeLeak ==
  ~mem.broken => \A f \in Frames \ mem.free :
    (\E x \in Uses : x[1] = f) \/ mem.role[f] \in {"table", "code"} \/ halt = "directory"

\* Every access of the kernel to its heap, and of a program to its own stack and code, is
\* served.  A machine that stopped did so for a page that is nobody's (page_fault_handler's
\* panic), because no frame below 4 MB was left for a directory, in a switch from a kernel
\* stack beyond the heap's first table, which cannot take the fault that would map it
\* (task.cpp:281), or after an unchecked allocation had failed or a table was replaced.
OwnAccessServed ==
  \/ halt \in {"no", "wild"} \/ mem.broken
  \/ halt = "directory" /\ \A f \in mem.free : f >= LowFrames
  \/ halt = "stack" /\ \E t \in Live : PdeOf(tasks[t].kstack) > PdeOf(HeapStart)

\* vmm_map_page allocates a table only where there is none (vmm.cpp:74), so a page of the
\* heap that the kernel's directory maps stays mapped while frames are left.
HeapPagesStay ==
  [][mem'.free # {} => \A v \in DOMAIN heap.at : Mapped(mem, Master, v) => Mapped(mem', Master, v)]_vars
=============================================================================
