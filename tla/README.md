# Verification of NOSMERI-OS

TLA+ models of the kernel in `src/`, checked by TLC on small instances, with
theorems checked by TLAPS for all values of the constants.

## The system

A 32-bit x86 kernel for one CPU. `kernel_main` (kernel.cpp) initialises the
screen, GDT/TSS, IDT/PIC/PIT, physical memory, paging, heap, file system and
tasking, starts a spinner task, enables interrupts and becomes the shell.

Concurrency comes from one rule. Interrupt gates and the `int 0x80` gate clear
IF, so handlers and system calls are not interrupted. Code that is *called* in
ring 0 runs with IF = 1 and can be interrupted by the 100 Hz tick, whose
handler calls `schedule()`: the shell's `exec`, `kill`, `touch`, `mkdir`,
`write`, `cat`, `alloc`; the spinner's `task_sleep`; `exit_task` after its
`sti`; the `task_sleep` loop after its `sti; hlt`. Nothing in the kernel uses a
lock.

### Inventory

| component | state | operations | interacts with | correct when |
|---|---|---|---|---|
| scheduler, tasks (task.cpp, timer.cpp, boot.asm) | ring of Task, `current_task`, `next_pid`, tick counter, CR3, TSS | tick, schedule, switch, sleep, yield, exit, exec, kill | all: every tick may switch | ring intact, each stack saved in its own task, one RUNNING task, user programs on their own directory, nobody forgotten |
| PMM (pmm.cpp) | bitmap, page counters | init from the memory map, alloc, free | heap, VMM, exec, kill | a page has one owner, reserved pages stay, count exact |
| VMM (vmm.cpp) | kernel directory, per-process directories | create, switch, map, unmap, page fault | heap growth, exec | every directory sees the kernel's heap |
| heap (heap.cpp) | list of block headers, end of heap | kmalloc, kfree | PMM, VMM; used by tasks, files, shell | list tiles the heap, allocations disjoint |
| keyboard, stdin (keyboard.cpp, file.cpp) | ring of 128 characters | IRQ 1, stdin_read | shell through SYS_READ | FIFO |
| SimpleFS (simplefs.cpp) on ATA | superblock, inode table, data sectors | format, mount, create, mkdir, write, read, lookup | VFS | tree sound, no shared block, also after a crash |
| VFS, open files (vfs.cpp, file.cpp) | cwd per task, fd tables, File objects | resolve, cd, get_path, open, close | SimpleFS, heap | path and node agree, descriptors released |
| system calls (syscall.cpp) | registers of the caller | dispatch | all above | errors reported |
| shell (shell.cpp), screen (vga.cpp) | input line, cells, cursor | keys, commands, printing | keyboard, spinner, programs that print | the line on the screen is the one Enter runs |
| ATA driver (ata.cpp) | the drive's registers and cache | read, write and flush a sector | SimpleFS; power loss | reads what was written; what was written stays |
| PIC, GDT/IDT, strings | device registers, tables | | | |
| disk tool (simplefs_tool.py) | disk image | ls, put, rm | the same disk format, offline | agrees with the kernel |

Hard behaviours: ticks inside unprotected kernel code; freed tasks still
pointed at; page directories borrowed by `exec`; wrap of ticks, sizes and
addresses; full tables, rings and directories; loss of power between sector
writes. `PROJECT.json` lists each one with its source line.

## Modules

### Tasks

State follows `task.h` and `task.cpp` (`next`, `state`, `wake_tick`, `esp`,
`current_task`, `next_pid`), plus what the CPU holds (`cpu`, the stack it runs
on; `cr3`; `tss`), where each task is in its kernel code (`pc`), and the locals
that survive a preemption (`sel`, `kprev`, `kpid`). A page directory and a
stack are named by the task that owns them; `image` says which regions of a
process are mapped. A sleep is given in milliseconds and converted as
`task_sleep` does it (`Ticks`): the product with TIMER_FREQ wraps, the quotient
is cut, and 0 becomes 1. The kernel's own calls use small constants
(`KernelDelays`), a program may pass any number (`Delays`). `left` is a history
variable: the ticks still due of a sleep, from the conversion without the wrap
(`Owed`).

Handlers that run with IF = 0 (`TimerIRQ`, `SysSleep`, `SysYield`) are one
action, including the `schedule()` that ends them (`Schedule`). Code that runs
with IF = 1 is one action per access to shared state. The constant `Windows`
is the set of those places at which a tick is taken. `HarmlessWindows` are the
places where a tick hurts nobody; each of the others breaks some property (see
the table of other values). The passing runs therefore
make a timing assumption: a tick does not fall into the few instructions of
the other windows. User programs, `hlt` and the shell's own code can be
interrupted anywhere in all runs.

| code | action |
|---|---|
| timer_handler, task_timer_tick | TimerIRQ, Woken |
| schedule, switch_context with IF = 0 | Schedule |
| schedule, switch_context with IF = 1 | SchedEnter, SchedWalk, SchedMark, SchedLoad, SchedSwitch |
| task_sleep | Ticks, SetAlarm, TaskSleep, Doze, LoopTest; SysSleep from a system call |
| exit_task | ExitTask, then the schedule steps |
| create_user_task, create_user_process | ExecBegin, ExecMapStack, ExecHold, ExecLoad |
| kill_task | KillBegin, KillWalk, KillFree; Unlink inside schedule |

Allocation failures in `exec` and the frames of a process are in module VMM.

### PMM

`init_pmm` entry by entry over a reported memory map (`boot`), then
`pmm_alloc_page` as search (`AllocFind`, `AllocFail`) and marking
(`AllocMark`), and `pmm_free_page`. Addresses are modulo `MaxPages * PageSize`
as 32-bit addresses are; map entries are 64-bit, and the model drops their high
halves as the code does. `Interruptible` is the set of clients that can be
interrupted between the two steps, the shell in the run. `raced` is a history
variable: a search has begun between another client's search and its marking.

### Heap

The headers are records at addresses with the code's `next` and `prev`
pointers. The walk of `kmalloc` takes one step per block; finding a block and
taking it are separate steps; growth by a page restarts the walk, as the
recursive call does. `pmm_alloc_page` may fail at any moment. `kfree` is one
step. `held` is a history variable: what each client was given.

### Keyboard and KeyQueue

`KeyQueue` is the abstract specification: a bounded FIFO that drops a key when
full. `Keyboard` has the ring with head and tail, the interrupt and
`stdin_read`; it implements `KeyQueue` (`IsQueue`). `Console` extends it with
those who read it, and is what the run checks.

### SimpleFS

The disk (`magic`, `inode`, `data`) survives; `up`, `op` do not. One action is
one `ata_write_sector` with the reads that follow it up to the next write. The
driver flushes the drive's cache after every sector, so writes reach the disk
one by one and in order; a sector write itself is taken to be atomic. `Crash`
may happen between any two. An inode update is the read-modify-write of a
sector of `PerSector` inodes (`Sector`, `Flush`). A data sector records which
block of which file it was written as, which is what a reader can tell.
`find_free_data_block` has no end test; the module's assumption that there are
more sectors than blocks all inodes can own (32751 > 64 * 30 in the code) is
what makes it end.

`ToolPut` and `ToolRm` are `tools/simplefs_tool.py`, which changes the disk
image while the machine is off (at most `MaxTools` times). It is the only one
that frees inodes and sectors, and it searches for free ones with code of its
own.

### VMM

`mem` holds the allocator's free frames and the directories and tables by
frame; every directory has its own copy of the heap's entries. `MapPage` is
`vmm_map_page` under a given directory, `Fault` the part of
`page_fault_handler` that copies a missing heap entry, and `Touch` a kernel
access to heap pages that goes through it. The clients are the growth of the
heap (`Grow`, as a block of its own or as more of a free last block, which may
begin in an earlier table), other heap accesses (`UseHeap`), `exec` page by page
(`ExecTask`, `ExecCode`) with every allocation that may fail, `Kill` with the
frames it gives back, the CR3 load of `schedule()` (`Switch`), and accesses of
programs and of the shell's `fault` command to any page (`UserFault`). A page
that is nobody's makes the handler panic ("wild"). A program that touches the
heap is not stopped: the handler copies the entry and returns, and the program
faults again and again until a tick takes the CPU (vmm.cpp:119-131). `halt`
records why the machine stopped. `role` and `broken` are history; `broken` says
that a failed allocation was used as frame 0, or that a new table took the place
of one the kernel's directory had. Entries 0 and 1023 are the same in every
directory and left out. `vmm_unmap_page` has no caller.

### Files

Descriptors, File objects, working directories and paths, above a file system
whose calls are single steps. A node is the copy of a directory entry that
`vfs_node` is. A path is a sequence of words and slashes; `Resolve` and
`GetPath` are the loops of `vfs_resolve_path` and `vfs_get_path`, the latter
with the room left in the buffer. `touch` and `mkdir` check only the length of a
name (`NameMax`): a name with a slash in it can be created, and no path can
spell it (`Names` without `Words`). A word of `TokenMax` bytes or more is written
behind the token (`Overruns`); `PathOverrun` is that call, after which nothing is
said of the kernel. A create in a full directory takes its inode and loses it.
`kmalloc`
serves `NFiles` objects, so that failing allocations happen. A File marked by
`vfs_file_close` and one whose task was killed are never freed; they are told
apart (`Unused`, `Orphan`) from what must not leak.

### Console

The shell's line editor on the screen of `vga.cpp`, with the spinner and user
programs that print to it and read the same keyboard, the ring of `Keyboard`. A
system call is one step, and the shell can be interrupted between any two. Commands are what they
print. `heap` and `ps` print without a system call and with IF = 1, so other
tasks may print between a character (`DumpPuts`) and the test for the end of the
screen (`DumpTests`), with the cursor one cell behind it; a step finer than that,
inside one statement of print_char, is not taken. `Glyphs` is the character set, and the prompt is made of characters that
print themselves. `alone` records that nobody has printed into the line since
the prompt, `taken` that a program has read an Enter.

### ATA

Both transfers, one step per port access, and an external drive: BSY and DRQ,
a write-back cache, power loss. A command is ignored while the drive is busy
or asks for data. `drive` is "slow" when it is still busy with the sector as
the flush command arrives, which `ata_write_sector` does not wait for; then
the flush is ignored. The drive never ends a command with ERR: the loop for DRQ
at ata.cpp:18 would then wait for ever. The fixed bits 0xE0 of the last LBA
register are left out. SimpleFS takes a sector transfer as one durable step:
this module shows when that is so.

## Runs

| run | result | bounds |
|---|---|---|
| tasks_safety | TypeOK, RingIntact, EspOwn, RunningIsCurrent, UserContext, NoUseAfterFree, NoEarlyWake hold | PIDs 0..3: shell, spinner, two processes, so a reaped task can lie between any two others; 4 ticks of two milliseconds each, sleeps of 1 (less than a tick), 3 (not whole) and 4; no wrap |
| tasks_live | RoundRobin, SleeperWakes, DeadReaped hold | PIDs 0..2; the counter is modulo 3 and ticks never stop |
| pmm | CountExact, NoSharing, ReservedKept, OnlyRam, NullMeansFull hold | 12 pages, words of 4; maps that alias, overlap, end inside a page, or are absent; the shell is interrupted, an interrupt's client is not |
| vmm | OneHeap, OwnMemory, OnlyTablesAndCodeLeak, OwnAccessServed hold | two processes of one or two pages, tables of 2 entries, two heap tables, so the second appears after directories were made; 14 frames, of which 11 can hold a directory, so memory runs out; every page is touched |
| vmm_table | HeapPagesStay fails: a second table takes the place of the heap's last one | one process, 15 frames |
| console | IsQueue, TypedIsRead, ScreenShowsLine, EnterRuns hold | 2 rows of 3 cells, prompt of 2, line of 3: the line wraps, scrolls and loses its start; commands print by system calls and without; a keyboard ring of 3 cells, which fills and wraps, and reads of 1, 2 and more than the ring |
| heap | ListIsHeap, Coalesced, HeldIntact, KmallocReturns hold | 3 pages of 12, header 4, alignment 2: requests that split with the smallest rest, do not split, and span pages |
| files | DescriptorsOwnFiles, NodesCurrent, ResolveRight, GetPathRight hold | shell and one process with 3 descriptors, 7 File objects; 3 inodes, directories of one entry beside `.` and `..`, so one fills; a name with a slash and one too long; writes that are too long; paths with doubled and trailing slashes, `.` and `..`, a word too long for a name and one too long for the token; buffers of 0, 1, 2, too small, just too small and large enough |
| simplefs | BlocksDisjoint, TreeSound, NoStaleData, NothingLost, OnlyFullDirLoses hold with a crash at any write outside formatting and the disk tool used once | 4 inodes, 2 per sector, 2 blocks per file, 2 free entries per directory and 3 names, so a directory fills; kernel writes of 2 blocks (1 after a crash) and one that is too long, tool files of 1 block |
| simplefs_format | RootExists fails: a crash while formatting | as above, two actors |
| ata | ReadsStored, KeptUntilPowerLoss, CallsReturn hold | LBAs 1 and 2 of two binary digits, sectors of two words, quick and slow drives, BSY shown late or at once |
| ata_flush | WrittenIsDurable fails: the flush reaches a busy drive | the same, BSY shown at once |

The types of a module's variables are checked as a conjunct of one of its
properties: ListIsHeap, TreeSound, OwnMemory, DescriptorsOwnFiles,
ScreenShowsLine, ReadsStored. The inductive invariants of the proofs contain
them too.

The failing runs are disagreements between the code and what its comments or
messages say; `findings` in `PROJECT.json` quotes each.

Other values of the constants show the limits of the passing runs:

| constant | value | what TLC then finds |
|---|---|---|
| Tasks!Windows | `{"switch"}` | EspOwn fails: a tick between `current_task = next` and switch_context saves the old task's stack in the new one |
| Tasks!Windows | `{"kwalk"}` | RingIntact fails: kill_task follows a task reaped during its walk |
| Tasks!Windows | `{"load"}` | RoundRobin fails: a task is left RUNNING without being current |
| Tasks!Windows | the windows of exec | UserContext fails: a tick while exec copies the program puts the rest of the code into the kernel's directory |
| Tasks!TickMod, BootTick | 4, 3 | NoEarlyWake fails: a sleep across the wrap of timer_ticks ends at once |
| Tasks!Delays, TimerFreq, Second, TickMod | `{2, 6}`, 2, 4, 8 | NoEarlyWake fails: the product of milliseconds and TIMER_FREQ wraps, and the sleep of three ticks is cut to one |
| PMM!Boots | with a hole below mem_upper and memory above 4 GB | OnlyRam fails: the dropped high half frees the pages of the hole |
| Heap!Interruptible | `{shell}` | HeldIntact fails: a block found by the shell is taken by another |
| Heap!Requests | with WordMod - 1 | HeldIntact fails: rounding wraps to 0 |
| SimpleFS!Actors, Interruptible | `{shell, user}`, `{shell}` | BlocksDisjoint fails: two files get one sector; NothingLost fails: a stale sector copy undoes another's update |
| SimpleFS!Sizes, MaxTools | `{3, 15}`, 0 | NoStaleData holds with a count that wraps when it is rounded up (as is proved for every count): only the file it is written to is excepted |
| Files | CloseFrees as invariant | it fails: a closed File stays for ever |
| ATA!Interruptible | `{shell}` | ReadsStored fails: two transfers mix |
| ATA!Drives, LateBusy | `{"quick"}`, TRUE | WrittenIsDurable fails: the wait after the flush passes before BSY shows |

What the passing properties except is said in each of them: NoSharing ends with
the first race in `pmm_alloc_page`; NoStaleData leaves out a file whose own size
wrapped; the properties of VMM end when a failed allocation is used or a table
is replaced; OwnAccessServed names a kernel stack beyond the heap's first table,
whose page fault cannot be delivered; GetPathRight names the one-byte buffer at
the root, where the code writes two bytes; ResolveRight leaves out the calls that
write behind the token; EnterRuns excuses an Enter that a program has read.

Findings without a run of their own:

- The spinner's task_sleep calls schedule() with IF = 1 after its first hlt
  (task.cpp:220). A tick after `current_task = next` (task.cpp:284) and before
  switch_context saves the ESP of the old task's stack in the new task, although
  task.h:19 calls that field the stack pointer when this task stopped.
- task_sleep multiplies by TIMER_FREQ in 32 bits before it divides
  (task.cpp:211): more than 42949672 ms are a shorter sleep, although syscall.h:16
  says of SYS_SLEEP that it waits ms (and syscall.cpp:20 and 149 call the argument
  delay_ticks).
- SYS_CLOSE leaves freeing to the close function, "handles ref_count inside"
  (syscall.cpp:105); vfs_file_close (file.cpp:62) marks the File, and neither
  counts nor frees. NothingElseLeaks proves that Files of killed tasks are the
  only others that stay.
- `offset` of a File, which file.h:29 calls the read and write cursor, only
  counts; `simplefs_read` copies from the first byte each time.

The TLC view of the Tasks runs (`LiveState`) leaves out what no later step can
read: fields of freed tasks, locals of functions that have returned, alarms of
tasks that are awake. That of the console leaves out the cells of the ring that
have been read and what the last read returned, that of the files what came
before an overrun.

Deadlock is checked in every run but those of `VMM`, where a page fault stops
the machine, and of `Files`, where the objects that are never freed run out
and every call may fail; in none of the other models can the system stop.
In `tasks_safety` ticks end at the bound, and keyboard interrupts and user
programs go on.

### Fairness

- Tasks: strong fairness of `TimerIRQ`, because the PIC keeps IRQ 0 pending
  until IF = 1; strong fairness of each task's kernel steps, because a time
  slice is long enough for a step of a task that gets the CPU.
- Heap: weak fairness of a `kmalloc` in progress: it runs with IF = 0, or gets
  the CPU back.
- Console: weak fairness of the shell, which is scheduled round robin, polls
  stdin for ever and waits for nothing else; strong fairness of a command's return, since the steps
  of a dump come in between.
- ATA: weak fairness of the drive, which finishes its commands, and of the
  client in the driver.

## Proofs

| theorem | for all | under |
|---|---|---|
| TasksProofs: KernelInvariant, TypesCorrect, StacksOwned, OneRunning, UserIsolation, RingAlwaysIntact, NothingFreedUsed | number of tasks, delays, counter width, bound of ticks | `Windows \subseteq HarmlessWindows` |
| TasksProofs: NobodyWokenEarly | the same, timer frequencies | the same, no product of milliseconds and frequency wraps, and no deadline that a tick can reach does (`NoWrap`): sleeps below 11.9 hours, for 497 days |
| PMMProofs: AllocInvariant, CounterExact, PagesExclusive, ReservedSafe | memory sizes, memory maps, clients and who of them can be interrupted | |
| PMMProofs: FailsWhenFull | the same | |
| PMMProofs: OnlyRamGiven | the same | from 1 MB to mem_upper memory has no hole (`Contiguous`), which Multiboot promises |
| ConsoleProofs: KeyboardIsQueue | ring sizes, alphabets, read counts | |
| ConsoleProofs: ScreenAlwaysShowsLine | screen sizes, prompts, line lengths, outputs | |
| HeapProofs: HeapSafe, ListIsAlwaysHeap, AlwaysCoalesced | heap, page, header and alignment sizes, requests, clients | `Interruptible = {}` |
| HeapProofs: HeldAlwaysIntact | the same | the same, and no request wraps when it is rounded (`NoWrap`) |
| VMMProofs: VMMSafe, HeapIsOne, MemoryOwned, NothingElseLost, OwnAccessAlwaysServed | frames, table sizes, heap sizes, tasks and their programs | |
| FilesProofs: FilesSafe, DescriptorsAlwaysOwn, NothingElseLeaks, NodesAlwaysCurrent, ResolveAlwaysRight, AlwaysAWayUp, GetPathAlwaysRight | tasks, descriptors, File objects, inodes, names, words and their lengths, sizes of directories and of the token, paths, buffer sizes | |
| SimpleFSProofs: FSSafe, AlwaysDisjoint, TreeAlwaysSound, NeverStale, OnlyFullLoses, NeverLost | disk, table and directory sizes, names, write sizes, places of a crash, commands of the disk tool | `Interruptible = {}`, no crash while formatting (`Orderly`) |
| ATAProofs: ATASafe, ReadsAlwaysStored, AlwaysKept | sector sizes, number and base of the LBA registers, clients, drives | `Interruptible = {}` |
| ATAProofs: DurableIfFlushTaken | the same | the same, a quick drive, and `LateBusy = FALSE` |

The hypotheses are those of the passing runs, and the failing runs and the
table of other values show what happens without each. The exception
is `Contiguous`, which the reports of the run satisfy. NeverLost and
DurableIfFlushTaken are conditional on what they are about (calls that are not
interleaved, a flush that the drive takes) and serve as lemmas for whoever
changes the code to meet the condition.

*Tasks.* EspOwn, RunningIsCurrent and UserContext are not inductive. `SwitchInv`
adds where a task that does not run can be (`OffCpu`: never inside a switch or
an exec), who may be inside exec and kill (`Owners`), that the local choice of
a switch in progress is a created READY task (`OnCpu`), and which directory and
TSS stack are loaded at each place of a switch or an exec (`Context`). Then
every step either leaves the CPU on its task or moves stack, directory and
TSS together.

RingIntact and NoUseAfterFree need `RingInv`, proved together with `SwitchInv`:
who may run is in the list, and who is in the list may run. RingIntact follows
`next` step by step, which cannot be used in an induction; `Cycle` says the
same without counting: `next` stays within the members, two members have two
successors, and no smaller set is closed. The members are the allocated tasks
without the one that `kill_task` has unlinked and not yet freed. Unlinking one
task, reaping several in one walk and inserting a new one behind the current
one are lemmas about a cycle. The rest of `RingInv` says that the shell never
exits, that whoever runs or is chosen by a switch in progress is a member, and
that the two pointers of `kill_task`'s walk are neighbours.

NoEarlyWake needs `WakeInv` beside it, and that without a wrap `Ticks` is what
is owed: until its deadline a
sleeper has as many ticks before it as it has left, a task outside the sleep
loop is not SLEEPING, and a PID not yet used has no sleep left over.

*PMM.* `AllocInv` adds that the reserved pages are marked once `init_pmm` has
returned, that a page found is managed and not reserved, and, until two searches
have met (`raced`), that it is free and nobody else has found one.
CountExact follows because set and unset
count exactly the bits they change. NullMeansFull needs only that the number of
managed pages stays what `init_pmm` computed (`Sized`): the free pages the
search misses are the rest of the last bitmap word. OnlyRam adds that grants
are managed pages (`GrantsManaged`); a managed page that is not reserved lies
between 1 MB and mem_upper.

*Keyboard.* The proof is in `ConsoleProofs`, for the ring as the shell and the
programs use it (`NextUsesRing`). The queue is the ring from tail to head;
enqueueing at head appends and reading from tail removes a prefix, whatever the
wrap. `KeyInv` adds that what waits was typed, which the shell's `key` rests on.

*Heap.* ListIsHeap says that `next` leads from each header to the one behind
it. `Chain` adds what splitting and merging need: headers do not overlap at any
distance, none lies behind the end of the heap, and `prev` leads back.
`HeapInv` also says that every pointer handed out is a block in use
(`HeldBlocks`) and that a `kmalloc` in progress stands on a block that is still
what its walk saw (`Calls`). Splitting, growing and merging are lemmas about a
chain; `HeldFits`, the sizes, comes on top.

*SimpleFS.* `FSInv` says in which state a crash may leave the disk (`DiskInv`)
and what every call in progress has written so far (`Making`, `Writing`), down
to the contents of its sector buffer. It speaks of all directories on the disk,
also those that no entry names yet, because the next step may name them;
TreeSound speaks of those that can be reached. OnlyFullDirLoses adds `Reach`: a
call works in a directory, or on a file, that can be reached.

The disk tool is the only one that takes something away. `RootEntry` is what
its two commands have in common: one inode, which is no directory afterwards
whatever it was, and the one entry of the root that may name it. Directories
below a directory that `put` replaces stay on the disk as directories nobody
names, which `FSInv` allows. `InOrderIs` says that the tool's search gives
every free sector once, in order; with the blocks the inode had it is a
`Supply` that no other inode shares, and that misses every table.

*VMM.* `VMMInv` holds until an allocation has failed unnoticed or a table of the
kernel's directory was replaced (`broken`), which is also the hypothesis of the
properties. `Core` says that an address space
maps a heap page to the one frame it has or to nothing (`Shared`, `Placed`),
that each frame has one role (`Roles`), that directories, tables and pages are
distinct (`Distinct`) and not free (`Within`); `Found` says that a frame in use
is still recorded somewhere, unless it is a table or code. Both take the set of
frames that are allocated and not yet used. `vmm_map_page` and the page fault
are lemmas about `Core`, used by every client.

*Files.* `FilesInv` relates the tables of the directories, the copies of their
entries (`NodesOK`) and the owners of File objects (`OwnersOK`). A working
directory is a node that was looked up before, so the tree must keep what it
named (`TreeOK`). A File that a closed descriptor or a killed task leaves is
`Unused` or `Orphan`. That `Resolve` ends at a node of the tree, for every path, is
shown for the place where a walk would first leave it.

ResolveRight compares that loop with `Denotes`, which reads the path component
by component: both are functions of the position in the path (`Reads`), and
`StepMeans` shows that they agree at the first position where they might not.
GetPathRight needs to know that the climb ends. `TreeUp` says that inodes are
taken in order, so `..` leads to a lower inode, and that the directory there
has an entry for the one below. `OneWay` says that an inode has one name, and
that an entry whose name is no word leads to nothing that has entries; so the
way up from a working directory is made of words (`Plain`). In the buffer that GetPathRight takes to be
large enough, each turn of the loop leaves a path that leads from the directory
reached back to the first one (`Risen`, `Spells`), and room for the turns that
may follow. In any other buffer the loop does the same with less room, until
there is none (`Same`): so it fails exactly when the finished path does not fit.

*Console.* `Shows(v, s, m)` says that the m cells before the cursor hold the
first m characters of s, as far as they are still on the screen and not in the
spinner's corner. A character that prints itself makes it `Shows(.., m + 1)`,
if need be on a screen that has scrolled; a backspace makes it
`Shows(.., m - 1)`, also over the edge of a row, and at the first cell, where
nothing of the line is left on the screen. `ScreenInv` says that this holds of
the current directory's name between the two halves of the prompt, and of
prompt and line while the shell reads, unless a program has printed. Between a
character of `heap` or `ps` and its test the cursor may be one cell behind the
screen (`Loose`); whoever prints then brings it back or leaves it there
(`PrintType`, `PrintedType`), and the test does too (`ScrolledType`).
`stdout_write` is a recursion over its text; `PrintedIs` turns it into a
sequence of screens.

*ATA.* `ATAInv` says, for each place of a transfer, what the registers, the
drive's state, its buffer and its cache hold (`CallOK`). The LBA is written
digit by digit; the constant `Weight` holds the powers of the base, so that
the sum of the digits can be compared with the LBA. This is what SimpleFS
assumes of its disk.

Arguments over an unbounded number of steps (the first free frame or block, a
walk along a path or the list, the characters of a text) are made with the least
counterexample, since the library's induction theorems cannot be used (lemma
`Least`, from well-foundedness). That a recursive function exists, and is the
only one, is shown once in this way and used wherever a loop is written as one
(`Recursion`, `RecursionOnce`).

Only model-checked: all liveness (RoundRobin, SleeperWakes, DeadReaped,
KmallocReturns, TypedIsRead, EnterRuns, CallsReturn), which is out of the
prover's reach.

Every invariant that a passing run checks is stated by a theorem, under the
hypotheses of the table.

## Not modelled

- The scancode table, the parsing of command arguments and the text that
  commands print: only that they print.
- Port programming of PIC and PIT, GDT and IDT contents: constants written once
  at boot. The hardware cursor and colours of the screen.
- String functions: sequential, without state.
- A disk tool command that the host breaks off half-way, and its `ls`.
- An error reported by the drive (ERR), see ATA above.
- Segment registers: irq0 (boot.asm) saves the general registers only, and
  what a switch between ring 0 and ring 3 does to DS and ES is not in Tasks.
- The reads of `heap_dump` and `task_dump`, which follow their lists with IF = 1.
- Torn sector writes: the drive writes a sector or does not.

## What is left

- Tasks: fewer timing assumptions need changes of the code (locks, or IF = 0 in
  `schedule`, `exec` and `kill`); the table of other values says where.
