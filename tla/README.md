# Verification of the simple operating system simulator (ossim)

TLA+ models of `src/ossim_source_code`, the configurations that check them with
TLC, and theorems about them that TLAPS checks. All paths below are relative to
`src/ossim_source_code/`.

The program reads a configuration of processes, starts one thread per simulated
CPU, a loader thread and a timer thread, and runs the processes in time slots.
A multi-level queue (MLQ) scheduler hands the processes to the CPUs; a process
executes CALC, ALLOC, MALLOC, FREE, READ and WRITE instructions on a simulated
paged memory. The build modelled is the one `include/os-cfg.h` and
`include/os-mm.h` configure: `MLQ_SCHED`, `MM_PAGING`, `MM_PAGING_HEAP_GODOWN`,
`MM_FIXED_MEMSZ`, `IODUMP`.

## 1. Inventory

| Component | State | Operations | Interacts with |
|---|---|---|---|
| Slotted clock, `src/timer.c` | `_time`, `timer_stop`, `dev_list`; per device `done`, `fsh`, two mutexes, two conditions | `attach_event`, `start_timer`, `next_slot`, `detach_event`, `stop_timer`, `timer_routine` | every CPU and the loader block in `next_slot`; the loader reads `current_time` |
| Ready queue array, `src/queue.c` | `proc[MAX_QUEUE_SIZE]`, `size` | `empty`, `enqueue`, `dequeue` | called by the scheduler |
| MLQ scheduler, `src/sched.c` | `mlq_ready_queue`, static `currentPrio`, `queue_lock` | `init_scheduler`, `get_proc`, `put_proc`, `add_proc` | called by CPUs and loader, serialised by `queue_lock` |
| Simulator threads, `src/os.c` | per CPU `proc`, `time_left`; loader `i`; the global `done`; `ld_processes` | `cpu_routine`, `ld_routine`, `main`, `read_config` | scheduler, clock, interpreter, `load` |
| Interpreter, `src/cpu.c` | `pcb_t.pc` | `run` | memory functions |
| Memory areas, `src/mm-vm.c` | `symrgtbl`, `vm_end` and `vm_freerg_list` of two areas | `pgalloc`, `pgmalloc`, `pgfree_data`, `pgread`, `pgwrite` | paging |
| Paging, `src/mm.c`, `src/mm-vm.c` | `pgd`, `fifo_pgn` | `init_mm`, `pg_getpage`, `find_victim_page`, `pte_set_*`; never called by the program: `vm_map_ram`, `alloc_pages_range`, `vmap_page_range`, `free_pcb_memph` | memory devices, under the static mutexes of `include/mm.h` |
| Memory device, `src/mm-memphy.c` | `storage`, `free_fp_list` | `init_memphy`, `MEMPHY_format`, `MEMPHY_get_freefp`, `MEMPHY_put_freefp`, byte access | shared by all processes |
| Process loader, `src/loader.c` | the pid counter, the local `opcode` | `load`, `get_opcode` | called by `ld_routine` for each row of the configuration |
| Contiguous memory, `src/mem.c` | - | not built | - |
| Memory test, `src/paging.c` | - | a second `main` | - |

What is hard in them, and what makes them correct:

* **Clock.** `done` is written under two different mutexes; signals go to two
  conditions per device; waits may return spuriously; the timer blocks on
  devices that block on the timer. It is correct if no wake-up is lost, the
  writers of `done` never meet, the time stands still while anyone works in the
  slot, and the shutdown completes - that is, if it is an atomic slotted clock.
* **Queues and scheduler.** A full array drops a process without telling
  anyone; `dequeue` scans by priority and then shifts; `get_mlq_proc` has slot
  arithmetic with a second way to return NULL. It is correct if every process
  has one owner and none is lost, equals take turns, and a CPU gets a process
  whenever there is one.
* **Threads.** `proc` outlives `put_proc` and `free`; `time_left` belongs to
  the thread and not to the process; a CPU decides to stop from a `proc` it
  read before and a `done` it reads now. It is correct if the threads keep the
  scheduler's contract, no process is left behind by the last CPU to stop, and
  the simulation ends.
* **Memory of a process.** NULL passed as a result parameter, overflow in the
  rounding of sizes, the address of a parameter put on a list, a table indexed
  one past its end, ignored results, partial failures of a page fault.
* **Memory shared by processes.** `ram_lock` and `swap_lock` are `static` in a
  header, so every source file locks mutexes of its own, one inside the other;
  an allocation that runs out of frames returns what it has; a victim leaves the
  FIFO list before a swap frame is found; a swapped page keeps its present bit.
  It is correct if every frame is free or mapped by one process, a page keeps
  its frame, and every call returns.
* **Input.** `fscanf` stops at the first token that does not fit, leaves it
  there and leaves its targets as they were, and nobody looks at its result; a
  `switch` has no `break` after MALLOC; `load` may end the whole program. It is
  correct if each process is the one of its row and runs the code of its file.

`PROJECT.json` lists all of these under `hazards`, each with its line and the
properties aimed at it.

## 2. Modules

```
SlotClock <--implements-- SlotTimer          ReadyPool <--implements-- MlqScheduler
     ^                        ^                              ReadyQueues --^   ^
     |                  SlotTimerProofs                          |    MlqSlots, MlqSchedulerProofs
     +---------------- OsSim --(EXTENDS)-------------------------+             ^
                         |--- implements (UsesScheduler) ---------------- MlqScheduler
                         ^
                    OsSimProofs          InputFiles <- InputFilesProofs

PageTable <-- ProcMemory <- ProcMemoryProofs
          <-- PageMap    <- PageMapProofs
                 |--- implements (RamPool, SwapPool) --> FramePool
```

Each `MC*` module only holds model values for TLC; each `*.cfg` is one run.

### SlotClock, SlotTimer (`timer.c`)

`SlotClock` is the promise: devices work in a slot, `Arrive` (`next_slot`) or
`Detach`; `Tick` releases all of them in one step once nobody works; `Halt`
stops the clock when all have detached.

`SlotTimer` is the code. Every critical section is two actions, the one that
acquires the mutex and the one that does the work and releases it, so another
thread can run in between. `NextSlot`/`Post`/`Arm`/`Test` are `next_slot`,
`StartDetach`/`Leave` are `detach_event`, `StartScan` to `EndRelease` are the
loops of `timer_routine`, `StopTimer`/`DestroyDevices` are `stop_timer`, called
by `main` after it joined the devices. `SpuriousDevice` and `SpuriousTimer` let
`pthread_cond_wait` return without a signal. `attach_event` and `start_timer`
run before any other thread exists: they are `Init`.

The refinement mapping: a device is `detached` once its `fsh` is set, `waiting`
while `done` is 1 and the timer is not yet due to reset it in this tick,
`working` otherwise. So the abstract `Tick` is the step `_time++`, and the loop
that resets `done` device by device changes nothing in the abstract clock.

### ReadyQueues, ReadyPool, MlqScheduler, MlqSlots (`queue.c`, `sched.c`)

`ReadyQueues` has only operators: a queue is the sequence `proc[0..size-1]`,
`Enqueue` drops when full, `HighestIndex`/`Front`/`Rest` are the scan and shift
of `dequeue`, and `GetMlqProc` gives the result of `get_mlq_proc` and what it
leaves of the queues and of `currentPrio`. `MlqScheduler` calls them, one action
per critical section of `queue_lock`, by callers in any order. `ReadyPool` is
the promise to them: a set of ready processes from which the best is taken.
`MlqSlots` adds a history variable that counts the turns of a level, to compare
the code with the policy its comment states.

### OsSim (`os.c`, with `sched.c` and `timer.c` behind it)

The CPU threads, the loader and the timer in one system: the operators of
`ReadyQueues` in the scheduler calls, and the actions of `SlotClock` for
`next_slot` and `detach_event` (justified by `ImplementsClock`). A CPU action
reaches from one access to shared state to the next. Control states: `top` is
the head of the loop, `reget` lies between `put_proc` or `free` and the
`get_proc` after it, where `proc` still points to the process given away,
`check` is the recheck of `proc` and `done`. A process is its start slot, level,
default priority and number of instructions; `run` advances `pc`. What the
instructions do to memory is `ProcMemory`; in particular `OsSim` says what the
threads do as long as no instruction ends the program.

`Sched == INSTANCE MlqScheduler` maps "CPU c holds p" to `Owns(c)`: it has a
pointer that it has neither put back nor freed. `UsesScheduler` says that the
threads are a caller of the kind `MlqScheduler` assumes, so its properties hold
here too: `OneOwner`, which no run checks of `OsSim` again, is proved of it from
`UsesScheduler` (`OwnersAreUnique`).

### ProcMemory (`cpu.c`, `mm-vm.c`, `mm.c`, `mm-memphy.c`)

One process and its memory; every instruction may come next, so the code of the
process is arbitrary. One action is one `run`, with everything it calls:
`AllocReturns` and `AllocCrashes` are `pgalloc`/`pgmalloc` down to
`get_free_vmrg_area`, `inc_vma_limit` and `validate_overlap_vm_area`;
`FreeSucceeds`/`FreeFails` are `pgfree_data`; `Access` is `pgread` and `pgwrite`
down to `pg_getpage` with victim selection and swap; `AccessCrashes` is the NULL
that `__read` and `__write` dereference. `int` arithmetic wraps, as the
compiled program does (`Wrap`); a page table entry keeps the bits below its
flags as a number. The bytes themselves, which frame of the RAM a byte lies in,
and all printing are left out.

Three fields are not initialised by `init_mm`. `symrgtbl` and `fifo_pgn` lie in
the `mm_struct`, whose memory comes from `malloc` and was never in use, since
the program frees nothing of that size: they are zero. `vma0->vm_freerg_list`
becomes the `rg_next` of the first node; whatever it is, it leads to no region
of the area, and is modelled as the end of the list.

`PageTable` holds what `ProcMemory` and `PageMap` share: an entry of the page
table with its setters and getters, the free list that `MEMPHY_format` makes,
the victim. It has no state.

### PageMap (`mm.c`, `mm-vm.c`, `mm-memphy.c`)

The paging interface of `mm.h` for several processes on several CPUs. Apart from
`pg_getpage` nothing in the program calls it yet: the allocator that would call
`vm_map_ram` ends the program before (`mem_alloc`). The model says what the
functions do for a caller who relies on the declarations of `mm.h`, with
arguments that lie in the page table.

A step reaches from one access to a shared free list to the next. `MapRam`
begins `vm_map_ram`; `AllocSkip` to `AllocDone` are the loop of
`alloc_pages_range`, `MapSkip`, `MapPage` and `MapDone` that of
`vmap_page_range`; `Evict` to `TakeSwap` are `pg_getpage` with
`find_victim_page`; `FreeMemory`, `ReadPut`, `WritePut` and `FreeDone` are
`free_pcb_memph`. `MEMPHY_get_freefp` and `MEMPHY_put_freefp` read the head of a
list in one step and write it in another, so a missing mutex shows. `lock` maps
every mutex the functions use to its holder: `ram_lock` of three source files
and `swap_lock` of one.

`calls` says which of the functions are called in a behaviour. Most of the
properties hold only without `free_pcb_memph`, and say so:

* `MEMPHY_put_freefp` takes no lock of its own, and its caller in `mm-vm.c`
  holds another `ram_lock` than `mm-memphy.c` does, so returning a frame can
  meet taking one. The new head then leads to a node that was freed; `torn`
  records it, and taking a frame from such a list is undefined and not modelled.
* `free_pcb_memph` tests the present bit the wrong way round: a page that is
  present gives its swap offset to the swap list, and one that is not gives its
  frame number, 0 if it was never mapped, to the RAM.

Three more observations a caller should know, all visible in the definitions:
`alloc_pages_range` maps from page 0 and `vmap_page_range` maps the same frames
again from `mapstart`, so a call with `mapstart > 0` maps a frame twice, or
succeeds without mapping what it was asked for (`RequestIsServed` is about
`mapstart = 0`);
`pg_getpage` copies by the victim's page number where a frame number belongs;
a swapped page counts as present and is never brought back.

`FramePool` is what the free list of one device promises while frames are only
taken: `Take` hands the head of the list to one user in one step.
`PageMapProofs` instantiates it twice, as `RamPool` (the users are processes, as
long as only `vm_map_ram` is called) and as `SwapPool` (the users are pages, as
long as `free_pcb_memph` is not called). What a user holds is read off the page
tables, so the mapping has no history in it: a frame between `ReadRam` and
`TakeRam` is still free, and the second pass of `vm_map_ram` is a stutter.
In the behaviours outside these conditions the mapping is constant and nothing
is claimed.

### InputFiles (`os.c`, `loader.c`)

`read_config` and, for one row after the other, `load`. A file is a sequence of
tokens, since a line has no meaning to `fscanf`; a token is a text and a number
if it reads as one. `Converted` is `fscanf`: it stops at the first conversion
that fails and leaves that token for the next call. `Number` and `String` give
what the target holds afterwards, which is what it held before when the
conversion failed: `procBuf` keeps the name of the row before, `opcode` the last
word, and memory that was never written is `Unset`. `MissingFile` and
`UnknownOpcode` are the two `exit(1)`. The rows are those of the `MLQ_SCHED`
build, three conversions each.

`MM_FIXED_MEMSZ` is defined, so the line of memory sizes is not skipped, and the
configuration `head` says where a reader of the file sees the first row: behind
three tokens, or behind nine if it has that line. `RowsAreProcesses` compares
the rows with that.

## 3. Runs

| Run | Question | Result |
|---|---|---|
| `slottimer` | Is `timer.c` an atomic slotted clock, with no lost wake-up and no race on `done`? Does a full slot always tick, is everyone released, does the shutdown end? | holds |
| `mlq` | One owner, none lost, turn-taking, no idling, refinement of the pool; is a process that nobody can precede served again and again? | holds if the queues are large enough |
| `mlq_overflow` | Is a process ever lost? (`sched.h`: "Put a process back to run queue") | **violated**: a full queue drops it |
| `mlqslots_budget` | Has a level `MAX_PRIO - prio` slots? (comment in `sched.c`) | **violated**: no bound at all |
| `ossim` | Do the threads keep the scheduler's contract; is no process orphaned; is the quantum fresh; is every job executed to its end; does a CPU that owned a process stop? | holds |
| `ossim_ends` | Does the simulation end? (`os.c`, expected outputs) | **violated**: an idle CPU skips slots for ever |
| `mem_safety` | What can any instruction sequence do to the memory? | holds: nothing dangling, nothing mapped, no symbol freed twice |
| `mem_alloc` | Does a program survive an ALLOC? (expected outputs) | **violated**: store through NULL |
| `mem_access` | Has a READ or WRITE that returns 0 reached a byte? | **violated**: the failure of `pg_getval` is ignored |
| `pagemap` | Does each frame have one place and one owner, whoever runs out of frames? Is a request that succeeds served? Does every call return? | holds, partly only without `free_pcb_memph` |
| `loading` | Is each process the one of its row, with the code of its file; what do short rows and broken files do? | holds |
| `loading_memline` | Is it, for a configuration with a line of memory sizes? (`input/`, expected outputs) | **violated**: the sizes are read as a row |

The six violations are the `findings` of `PROJECT.json`, each with the line of
the repository that says otherwise. Those of the memory, the one of the input
(`Cannot find process description at 'input/proc/16777216'`), and the hang of
`ossim_ends` (two CPUs, one process of two CALC instructions: one CPU stops, the
slots are counted for ever), can also be seen by running the built program.

Two further flaws of the memory are in the model without a run of their own: a
freed symbol keeps the area -1, which `get_vma_by_num` takes for the first area,
and a register equal to the size of `symrgtbl` passes the test `>` and reaches
the field behind the table. They are `HasVma` and `RgidAccepted`: READ and WRITE
return 0 for both, as they do for a symbol that was never allocated
(`mem_access`). Only FREE looks at the mark of a freed symbol; `FreedOnce` says
that it is found however many instructions later. It compares the answers of
`__free` with a history variable, `freed`, which no guard reads. (The first FREE
of a symbol that was never allocated succeeds: its area is 0.)

`FailedRowRepeats` explains something the expected outputs show: where a row
lacks its priority, every process after it is loaded from the row before
(`output/sched_0.output:3,6`, `output/os_0_mlq_paging.output:9,12`).

**The expected outputs disagree with `NoOvertaking`.** In
`output/sched_1.output` processes 2, 3 and 4 are loaded from the same file with
priority 0, one after the other (lines 6, 8, 12), so they are equals in one
queue. The youngest, 4, is dispatched first (line 16), and again after each put
until it ends (line 46); then 3 runs to its end (lines 47-77); 2 comes last
(line 78). `output/sched.output` dispatches 3 (line 10) before 2 (line 13), and
`output/os_0_mlq_paging.output` dispatches 4 (line 52) before 3 (line 54). The
code cannot produce this: `dequeue` compares with a strict `>`
(`src/queue.c:28`), so it takes the oldest of the largest default priority, and
a process that is put back goes behind its equals. The outputs show what `>=`
would give, the mutant `YoungestIndex`, under which TLC finds `NoOvertaking` and
`TopLevelServed` violated: an older equal waits until the younger ones end. The
properties state what the code does; whoever compares a run with these
outputs will see other processes dispatched.

Nor is the order of levels in the expected outputs that of the code, which always
serves the first level that has a process (`GetServesFirst`): they dispatch
process 1 of level 4 while 2 and 3 of level 0 wait
(`output/sched_1.output:11`), process 1 of level 1 while 3 of level 0 waits
(`output/sched.output:18`), and process 1 of level 4 while 3 of level 2 waits
(`output/os_1_singleCPU_mlq.output:18`). A scheduler that moves on to lower
levels could print them; the comment on `MAX_PRIO - prio` slots asks for one, and
`mlqslots_budget` shows that the code is not. So `ImplementsPool` is about the
code and not about these files.

One more thing a reader of the code should know, without a run: inside a level
`dequeue` still takes the process of the largest default priority
(`HighestIndex`), although `include/common.h` says that `prio` overwrites it.
`NoOvertaking` and `TopLevelServed` are stated for equals for that reason.

Every property of a passing run has a mutant: a definition next to the one it
replaces in the module (comment "Faulty variant") that changes the code the way
a plausible bug would, and that TLC finds to violate the property.

### Bounds

* `SlotTimer`: three devices (two CPUs and the loader), the smallest number in
  which the timer is before, at and behind devices at once. `Horizon` caps the
  slot number at 2: nothing but the loader's comparison reads it. The theorems
  hold for any number of devices and any cap.
* `MlqScheduler`: three processes, two CPUs, three levels (two in
  `mlqslots_budget`), two default priorities, all their combinations. Three processes put two
  equals behind a third in one queue; two CPUs race for one process. The
  queues hold all processes except in `mlq_overflow`, where they hold two.
  Processes and CPUs are symmetric because `Init` takes every assignment; the
  violation runs use that, the run with a liveness property does not.
* `OsSim`: two CPUs, a quantum of two slots, all configurations of three jobs
  that start in slot 0 or, from the second or the third on, in slot 2, so that
  the loader waits or does not, on two levels, with 0, 1 or 3 instructions: a
  process that never runs, one that ends inside its first quantum, one that is
  preempted and ends inside its second. No symmetry, since the run has liveness
  properties. `Horizon` caps the slot number at 2: only the loader reads it, and
  no job starts later. (About 233,000 states.)
* `ProcMemory`: pages of 4 bytes, ints of 6 bits, so that every overflow in
  `__alloc` is in reach, three symbols, registers from -1 to behind the entry
  behind the table, two swap frames. The state space is finite without a cap.
* `PageMap`: two processes of three pages, two frames of RAM and two of swap, so
  that each list runs empty inside a call; `vm_map_ram` for one page, for more
  than there are frames, and not from page 0; the functions in use are
  `vm_map_ram`, also `pg_getpage`, also `free_pcb_memph`. Finite without a cap.
  (About 125,000 states.)
* `InputFiles`: every process file of up to three lines, out of nine lines that
  are a correct instruction, an unknown word, or have an operand too few or too
  many, under a header of two or three; six configurations: complete, a row too
  many, rows missing, all or the last priority missing, an unknown program.
  Every operand has a value of its own. (About 97,000 states.)

### Fairness

* `SlotTimer`: weak fairness of each thread step, strong fairness of the lock
  acquisitions, since a mutex released over and over is not withheld for ever
  from its only other contender. No fairness for `NextSlot` and `StartDetach`
  (a device may work for ever) nor for spurious wake-ups.
* `MlqScheduler`: a CPU without a process keeps asking, and a CPU does not keep
  a process for ever, because `time_left` runs out.
* `OsSim`: weak fairness of each thread and of the timer, which is what
  `FullSlotAdvances` shows of `SlotTimer`. Each thread waits only in
  `next_slot`, never for another thread's lock for longer than a queue
  operation.

* `PageMap`: strong fairness of the steps of each process inside a call, since a
  mutex is free again and again; no fairness for calls.

Deadlock is checked everywhere except for `ProcMemory`, whose program really
ends at a crash, and for `PageMap`, where a process ends with
`free_pcb_memph`: there `CallsReturn` excludes the deadlock instead. Where a run may stop after its work, a `Terminated` step says
so explicitly.

## 4. Proofs

All theorems hold for every value of the constants that satisfies the `ASSUME`s
of the module, which TLC evaluates in the passing runs.

* **SlotTimerProofs**: `TypeCorrect`, `WakeupsNotLost`, `WritesDoNotRace`,
  `TimeIsStableInSlot`, `TimerImplementsClock`. The invariant `Inv` ties the
  flags of a device to its control state (`DeviceInv`), says that behind
  `cursor` everyone has reported while a slot is collected (`ScanInv`), and that
  from `cursor` on everyone still carries the report while it is released
  (`ReleaseInv`). None of the properties is inductive without these two: that
  the two writers of `done` do not meet follows only from where the timer is in
  its loop.
* **ReadyQueuesProofs**: what `Front`, `Rest`, `Insert` and `GetMlqProc` do, for
  queues of any length: `RestKeepsOrder`, `GetServesFirst`, and the lemmas that
  the next two modules cite.
* **MlqSchedulerProofs**: `TypeCorrect`, `OwnersAreUnique`, `NoIdling`,
  `NothingIsLost`, `TurnsAreTaken`, `SchedulerImplementsPool`. The invariant
  says that `currentPrio` stays 0, which is why the second way out of the loop
  of `get_mlq_proc` is never taken, that a queue holds distinct processes of
  its own level, and that each process has at most one place. `NothingIsLost`
  and the refinement assume `CapacitySuffices`: no more processes than
  `MAX_QUEUE_SIZE`. `OwnersAreUnique` does not.
* **OsSimProofs**: `TypeCorrect`, `ThreadsUseScheduler`, `OwnersAreUnique`,
  `NothingIsLost`, `SimulatorImplementsPool`, `ProcessesTakeTurns`,
  `QuantumIsFresh`, `NobodyIsOrphaned`, `RunsAreOncePerSlot`, `WorkIsDone`,
  `FreedStaysFreed`. `ThreadsUseScheduler` is a refinement
  proof, step by step; the four after it are then the theorems of
  `MlqSchedulerProofs`, instantiated: the simulator implements the scheduler,
  which implements the pool. `OrphanInv` strengthens `NoOrphan` to a
  moment before `done` is set: in the slot after the last `add_proc`, unfinished
  work means that some CPU is going to fetch again. `ThreadInv` says how far the
  threads are when others wait in `next_slot`. The last three relate the clock to
  the instructions: since a CPU that waits in `next_slot` still owns its process
  (`OwnersAlive`, from `OneOwner`), no other CPU can run that process in the same
  slot, so a process gets one instruction per slot at most, whatever the number
  of CPUs. `OneCpuSpeed` counts it against `time`, and is vacuous only once
  `time` has reached the bound `Horizon`, which is any number.
* **ProcMemoryProofs**: `TypeCorrect`, `ListsStayOnTheHeap`, `PagesStayUnmapped`,
  `AllocationsFail`, `FreedOnlyOnce`. The invariant says that apart from
  freed symbols the memory stays as `init_mm` left it, and that these are the
  marked ones, which is what `FreedOnlyOnce` rests on. The lemmas on rounding
  (`PageAlignKeepsSize`, `PageUp`, `PageDown`) hold for any page size and any
  width of `int` in which two pages fit.
* **PageMapProofs**: `TypeCorrect`, `ListsAreGuarded`, `FramesNeverMove`,
  `FifoIsKept`, `SwapIsShared`, `RamIsShared`, `RequestsAreServed`,
  `MutexesAreOrdered`, `RamImplementsPool`, `SwapImplementsPool`,
  `FramesAreTakenInOrder`, for any number of processes, pages and frames. `Inv` has one conjunct per kind of fact about a process:
  which function it is in (`CallInv`), its arguments (`ArgsInv`), the mutexes it
  holds (`LockInv`), that the list it read is still the list (`HeadInv`), the
  list of its pages (`ListInv`) and its page table (`PteInv`). A step of one
  process disturbs the others only through locks and lists; the lemma `Frame`
  says what they keep. On top of `Inv`, `Covered` strengthens `FifoIsComplete`,
  `Served` says how far a request has come, and `SwapInv` and `RamInv` the two
  partitions: a frame that was taken and is not yet mapped, or is mapped a second
  time, is accounted for by the process that holds it. `SwapTaken`, `RamTaken`
  and `RamMapped` say what the three steps that write frame numbers do, and serve
  the partitions and the refinements of `FramePool` alike. `MutexesAreOrdered`
  needs the converse of `LockInv`, which process a held mutex leads to
  (`HolderInv`); it is the safety half of `CallsReturn`: no state in which
  processes wait for each other exists, with `free_pcb_memph` too.
* **FramePool**: `FramesInOrder`, of the abstract pool: the taken frames are those
  below some number. Through the refinements it holds of the RAM and of swap
  (`FramesAreTakenInOrder`), where it is more than the partitions say: a call that
  fails half way leaves no gap.
* **InputFilesProofs**: `TypeCorrect`, `RowsAreRead`, `ProgramsRead`,
  `GoodInputIsLoaded`, `FailedRows`, for any files. `RowsAreRead` and
  `GoodInputIsLoaded` assume that the rows follow the three numbers of the
  header, which is what `loading_memline` breaks. `RowsInv` says where in the
  file the reader is as long as every row was complete; `LastRow` says that
  after an incomplete one the next token stops `fscanf` again. `ProgramsRead`
  compares the reader with the counting of words in a file: `FileRead` says that
  while a well-formed file is read, the instructions read so far are as many as
  the words that were passed, and that the next token is a word. That the words
  up to a place count one more behind a word, and none behind a number, is a
  fact about cardinalities (`CountedWords`), so no induction over the file is
  needed. `GoodInputIsLoaded` adds that neither `exit(1)` is reached: each row
  that was read names the file that `FileOpened` opens (`LoadsInv`).

`MutexesAreOrdered`, the pool refinements, `FramesAreTakenInOrder`, `FramesInOrder`
and the last three of `OsSimProofs` are stated in the modules of the proofs and
not in a run; the other properties of theorems are those of the runs, or follow
from them by refinement.

Only model-checked: all liveness properties (`TopLevelServed`,
`FullSlotAdvances`, `ReleasedInTurn`, `ShutdownCompletes`, `AllJobsFinish`,
`BusyCpuStops`, `CallsReturn`), because the prover does not reason about
fairness and `ENABLED`; and the violations, which are counterexamples. Every
invariant and every action property of a passing run is proved.

## 5. Not modelled

* `OsSim` together with `ProcMemory`. By `NoAllocation` and `NothingMapped` the
  memory of a process stays as `init_mm` left it until an instruction ends the
  whole program, so the composition is `OsSim` with a last step that stops
  everything: it says nothing that the two do not say.
* The bytes of the memory devices, the cursor of a sequential one, what
  `__swap_cp_page` copies, and everything that only prints. By `NothingMapped`
  no instruction reaches a byte.
* A list of one frame, whose only node `MEMPHY_format` leaves without `fp_next`,
  and taking a frame from a list that `free_pcb_memph` has torn: undefined.
* `init_pte` and `get_vm_area_node_at_brk`: no caller, and the second changes no
  state.
* `mem.c`, and the branches without `MLQ_SCHED` or `MM_PAGING`: not part of the
  configured program. `paging.c` is a test driver.
* `queue_empty` has no caller; `finish_scheduler` is declared and not defined.
* A configuration with a level of `MAX_PRIO` or more (a write behind an array)
  or a time slot of 0 (no preemption at all): excluded by assumptions of
  `OsSim`, listed as hazards.
* Tokens longer than the buffers of `load` and `read_config`, numbers that do
  not fit an `int`, and process files without the two numbers of their header
  (`DisksAssumption`): undefined.

## 6. Plan

Done, in this order: the clock and its refinement; the queues, the scheduler
and the pool; the threads on top of both; the memory of one process; the paging
interface for several processes; the input files; the safety theorems of all of
them; the frame pool that the paging interface implements; the slots and the
instructions of the simulator.

Left:

1. `OsSim` started from the rows and processes that `InputFiles` ends with, once
   `read_config` checks the priorities it reads.
