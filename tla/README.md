# uCore lab8: a verification project in TLA+

uCore is the teaching kernel of Tsinghua University's operating systems course:
x86, C, one CPU. The repository holds its labs 1 to 8, each a later stage of the
same kernel, as they are handed out: some function bodies are left to be
written. `src/lab8` is the last stage and contains the others, and it is what
these modules model. What lab8 leaves to be written is modelled only where the
rest of the kernel says what it must do (`do_fork`'s list of steps, for example),
and is marked external in PROJECT.json; `load_icode`, which lab8 leaves out whole,
is taken from `src/lab7`, where it is written.

Contents: 1 the system; 2 the modules; 3 the runs; 4 bounds; 5 fairness; 6 the
proofs; 7 what was found; 8 what is not modelled; 9 the plan; 10 how to run it.

## 1. The system: an inventory

One rule shapes everything: **the kernel is not preempted**. A switch happens
only inside `schedule()`, which kernel code calls when it sleeps, yields or ends,
which `trap()` calls on the way back to user mode if `need_resched` is set, and
which `cpu_idle` calls in its loop. An interrupt may come anywhere in user code,
in `cpu_idle`, and in kernel code while interrupts are on, but then it returns to
the code it interrupted.

| component | state | operations | correct if |
|---|---|---|---|
| scheduler, `schedule/sched.c`, `default_sched.c` | `current`, states, `wait_state`, run queue, `time_slice`, `need_resched` | `wakeup_proc`, `schedule`, enqueue, dequeue, pick, tick | the queue holds what waits for the CPU, once; round robin; nobody starves |
| timers, `schedule/sched.c` | delta-encoded `timer_list` | `add_timer`, `del_timer`, `run_timer_list` | every timer is an independent countdown |
| semaphores, `sync/sem.c`, `wait.c` | value, wait queue, `wakeup_flags` | `down`, `up`, `try_down` | a counter of permits, served in order, no idle permit |
| address-space lock, `mm/vmm.h` | semaphore, `locked_by` | `lock_mm`, `unlock_mm` | exclusion, a truthful owner, no lockout |
| processes, `process/proc.c`, `trap/trap.c` | parent, `cptr/yptr/optr`, flags, exit state, the kernel stack's timer | fork, exit, wait, kill, sleep, yield, init, the end of `trap()` | no lost wakeup, a consistent family tree, orphans reach init, init's closing asserts |
| pids, `process/proc.c` | `last_pid`, `next_safe`, the list | `get_pid` | fresh pids, termination |
| philosophers, `sync/check_sync.c` | `state_sema`, `s[]`, `mutex` | take, put, test | neighbours exclude each other, nobody is forgotten, dinner ends |
| page allocator, `mm/default_pmm.c`, `pmm.c` | free list of blocks, `property`, flags, `nr_free` | `init_memmap`, alloc, free | the list is exact and fully merged |
| kernel heap, `mm/kmalloc.c` | circular free list, `slobfree`, list of big blocks | `kmalloc`, `kfree` | no memory used twice, none lost, the list sorted and merged |
| address spaces, `mm/vmm.c`, `pmm.c`, `process/proc.c` | areas with `mmap_cache`, page tables, frames | map, fault, fork, exec, exit, `user_mem_check` | each frame has one owner; areas, cache and tables agree; a fork is a copy |
| files, `fs/file.c`, `fs.c`, `vfs/*` | descriptor tables, `pwd`, `ref_count`, `open_count` | open, close, dup, seek, write, fsync, chdir, fork, exec, exit | counts are exact, inodes live just as long as they are used |
| simple file system, `fs/sfs/*` | free map, superblock, inodes, indirect tables, dirty flags, and the disk's image of them | grow, truncate, fsync, reclaim, `sfs_sync`, mount | each block has one owner, each file its blocks, in memory and on the disk |
| terminal input, `trap.c`, `driver/console.c`, `fs/devs/dev_stdin.c` | device registers, the console's ring, stdin's ring, its wait queue | interrupt, read, kill of a reader | no lost wakeup, no character read twice or dropped unnoticed |
| swapping, `mm/swap*.c` | replacement list | map, evict | not modelled: stubs |
| monitor, `sync/monitor.c` | condition variables | signal, wait | not modelled: stubs |
| device table of the VFS; other drivers; boot; debugger; libraries; user programs; `tools/` | | | not modelled: set up once, port I/O, sequential, or outside the kernel |

Interaction:

* `proc.c`, `sem.c`, `dev_stdin.c` put `current` to sleep (state and `wait_state`
  first, then `schedule()`); wakers find the sleeper by its `wait_state` or through
  a wait queue and call `wakeup_proc`, which calls the scheduling class.
* The clock interrupt runs `run_timer_list`: it wakes sleepers whose timers, which
  lie on their kernel stacks, have expired, then lets the class count a tick.
* fork, exec and exit call into the file layer (`copy_files`, `files_closeall`,
  `files_destroy`); the file layer calls inode operations of SFS or of a device
  through a table; the inode's counts decide when SFS writes it back or drops it.
* A key or a byte on the serial line raises an interrupt that drains both devices into the
  console's ring, the UART first, moves one character on to stdin's ring and wakes every
  reader of the terminal.
* `kmalloc` takes pages from the page allocator; areas, `mm_struct`s, big blocks and
  page tables come from both. When `alloc_pages` cannot have a single page it calls
  `swap_out`, with an address space that is set only during boot (section 7).
* fork, exec and exit make, copy and take apart the address space; the page fault handler
  adds pages to it, and system calls ask `user_mem_check` before they touch it.
* `lock_mm` uses a semaphore; the file system's locks and `mutex` of the
  philosophers do too. Because a file system call never sleeps (the IDE driver
  polls), the file system's locks are never contended.

What is hard: wakeups between "set SLEEPING" and `schedule()`; a kill, a timer and
an ending child all racing for one sleeper; a timer object on a stack that may be
freed; permits handed over while other threads call `down`; counts that must stay
exact over failing calls of several processes; allocation failing half-way on a
full disk, or in the middle of a fork; caches (`get_pid`'s interval, `mmap_cache`, the
inode cache) that stay valid only if nothing forgets to update them; rings that overrun.
PROJECT.json's hazards list each of these at its line with the properties that would notice.

## 2. The modules

```
Lists ── RunQueue ── Sched ── SchedProof        (ListLemmas: facts about lists,
           │           └──────────┐             (what Kernel refines)
TimerList ─┼── Kernel ── KernelProof            folds and timer lists)
           │      └── MCKernel ── AbsTimers     (refinement)
           │
Semaphore ─┼── Philosophers ── PhilosophersProof
           └── Sem ── AbsSem (refinement)
                └── MmLock ── SemMmProof ── AddrSpace ── MCAddrSpace
PidAlloc ────────────┐
PageAlloc ── Heap ───┴── AllocProof      (AbsHeap: what Heap refines)
Files ── MCFiles               Stdin ── AbsInput (refinement)
  └── FilesProof                 └── StdinSfsProof
                               Sfs ───┴── MCSfs
```

`RunQueue`, `TimerList` and `Semaphore` are what the compositions share: state of
the scheduler, and operators on the timer list and on one semaphore. They are used,
unchanged, by `Kernel` and `Philosophers`. A part is checked in its composition where
one run can ask both questions: timers in `Kernel`, the semaphore under the discipline
of the address-space lock, the page allocator under the heap and other callers.

* **RunQueue, Sched.** `run_list` is the class's queue. `WakeupProcs(woken, joining)`
  is a batch of `wakeup_proc` calls: `joining` is the order in which the ones that
  are not `current` enter. `Sched` lets any running process fork, sleep, exit and
  yield, and any set of sleepers be woken, in a tick or outside one. `blocking` is
  true between leaving RUNNABLE and the call of `schedule()`.
  idle's `need_resched` lets `cpu_idle` switch.
* **TimerList, AbsTimers.** The list as it is in memory, with each entry's
  ticks counted from the entry before. `add_timer`'s walk is the number of entries
  it passes. AbsTimers is a countdown per process and the set that fires; `Kernel` is
  shown to implement it, with the sum of the deltas up to an entry as its countdown.
* **Semaphore, Sem, AbsSem.** `__down` and `__up` with the hand-over: `up` with a
  waiter unlinks it and leaves the value at 0; the waiter owns the permit when it
  wakes (`Granted`). AbsSem is a number of permits with Take and Give. `try_down`
  is `DownTakes`.
* **MmLock.** `lock_mm` is `down` and then the write of `locked_by`; `unlock_mm` is `up`,
  which may hand the lock over, and *after* it the write that clears `locked_by`
  (`vmm.h:106-107`). Each is two steps; `writing` holds the threads between the two. `KeepsCpu` is
  why nobody gets in between: neither `up` nor a `down` that need not wait calls
  `schedule()`, and a thread that does wait writes after it has the CPU again.
* **Kernel.** `pc[p]` says at which of the points where the timer interrupt can be
  told from none a process stands: in user mode, before and after `schedule()` in
  `do_wait` and `do_sleep`, the two halves of `do_exit` (before and inside the
  interrupts-off section), the end of `trap()`. A slot of `Proc` is a `proc_struct`
  and its pid. `children[p]` is the `cptr`/`optr` chain, youngest first.
  `run_timer_list` is enabled where interrupts are on (`Interruptible`); user
  programs do not kill pid 1, and slots other than idle and init can be any program. What
  expires in a tick is the set `Expired`; it is queued in the order of the list.
* **Philosophers.** `check_sync` and the semaphore half of the philosophers on
  `RunQueue`, `TimerList` and `Semaphore`: `down` and `up` are called by threads the
  scheduler runs and the timer wakes.
* **PidAlloc.** `get_pid` one list entry per step, any order of entries; its `goto`s
  are `StartPass`. Processes come and go only between calls.
* **PageAlloc.** Operators on the record `pmm` (free list, `property`, flags, `nr_free`),
  so that `Heap` can call them in the middle of its own. Pages are numbers, a block is its
  first page. Areas of memory come from `page_init` and are not adjacent (there is at least
  a reserved page between two of them). `swap_init` switches on what `alloc_pages` does when
  it finds nothing: before, it returns NULL; after, a request for one page does not come
  back (`ComesBack`).
* **Heap, AbsHeap.** `slob` is the circular list as it is in memory: address, units, next.
  `slob_alloc` is its first-fit walk from `slobfree`, which grows the list by a page when it
  comes round; `slob_free` finds the place in address order and merges on both sides. Big
  objects are a header from the list and pages. The other callers of `alloc_pages` and
  `free_pages` interleave, also with parts of what they were given. AbsHeap is a set of
  disjoint blocks with Alloc and Free.
* **AddrSpace.** Operators map a *world* (frames, address spaces, result, the number of
  `kmalloc`s that will still succeed) through the calls of `load_icode`, `copy_mm`,
  `exit_mmap` and so on, with the error path of each; fork, execve, exit, a page fault
  and a system call's check of its buffer are the actions. An address is a number modulo
  `WORD_SIZE`, so `ROUNDUP` and `addr + len` wrap around as in the code. Each operation is
  one step because none gives up the CPU while it holds the lock (MmLock).
* **Stdin, AbsInput.** Characters are numbered as they are typed, at the keyboard or at the
  other end of the serial line. `kbd` and `uart` are what the two devices hold; `cons_getc` drains
  first the one and then the other, whichever of them interrupted, `uart` first. `irq` is a
  pending interrupt of either: later ones coalesce with it, and when both devices have one,
  the second finds both drained, as in `NothingTyped`. `keys` records what came from the keyboard.
  A reader's steps are those between two calls of `schedule()`. AbsInput is a
  bounded queue in which, when it is full, a new character takes the place of the oldest.
* **Files.** One action per call; operators map the record of inode state through the
  sequence of calls that the C code makes. A path is an inode and the directory
  where its lookup starts. `FD_INIT` occurs inside a call only; RefsExact says that
  no call leaves one behind.
* **Sfs.** Operators map a record of file system state through the calls of a
  truncation, block by block, with the error each returns; `Resized` is the loop.
  The contents of blocks are left out, except of indirect tables. The body of
  `sfs_io_nolock` is one of the pieces left to be written, so files grow by
  `file_seek`, which calls the truncation with a larger length. `image` is what the disk
  holds: `sfs_fsync` writes inode and table at once, `sfs_sync` the free map and the
  superblock; `sfs_do_mount` starts again from the image after a `sfs_sync`.

In each module "Deviant forms" are variants of definitions with a plausible bug.
No specification uses them; putting one in the place of the definition it deviates
from must make a property fail, which shows that the property depends on it.

## 3. The runs and what they show

| run | module, configuration | states | checks |
|---|---|---|---|
| `sched` | Sched, Sched.cfg | 6,806 | `RunQueueExact` `NoOvertaking` `NoStarvation` |
| `sem` | MmLock, MmLock.cfg | 960 | `NoIdlePermit` `LockExact` `NoBarging` `PermitSpec` `NoLockout` |
| `kernel` | MCKernel, Kernel.cfg | 472,832 | `NoLostWakeup` `TimersInFrames` `FamilyTree` `InitAsserts` `SchedSafe` `CountdownSpec` |
| `kernel_live` | Kernel, KernelLive.cfg | 5,462 | `KilledAsleepDies` `SleepEnds` `InitKeepsReaping` |
| `philosophers` | Philosophers, Philosophers.cfg | 17,216 | `ForksExclusive` `HungryForAReason` `DinnerEnds` |
| `pid` | PidAlloc, PidAlloc.cfg | 1,601 | `FreshPid` `GetPidReturns` |
| `heap` | Heap, Heap.cfg | 178,679 | `FreeExact` `EveryRunIsFound` `HeapExact` `MemorySpec` |
| `files` | MCFiles, Files.cfg | 54,867 | `RefsExact` `InMemoryExact` `SavedWhenClosed` |
| `sfs` | MCSfs, Sfs.cfg | 324,322 | `BlocksExact` `DiskExact` `NoHoles` |
| `stdin` | Stdin, Stdin.cfg | 281,022 | `NobodySleepsOnInput` `TypedOnce` `InputSpec` `InputIsRead` |
| `addr_space` | MCAddrSpace, AddrSpace.cfg | 12,870 | `MemoryExact` `AreasCoverPages` `UserMemExact` `ForkCopies` |
| `sfs_trunc` | Sfs, SfsTrunc.cfg | violation | `TruncAsserts` |

* `sched`: whatever the clients do, `wakeup_proc`'s test `proc != current` and
  `schedule`'s re-queueing together put each runnable process into the queue exactly
  once. The queue is first in, first out, and with ticks nobody waits for ever.
* `sem`: the hand-over never loses or doubles a permit; a thread that calls `down`
  between an `up` and the waiter's return cannot take the waiter's permit; with the
  lock's discipline on top, two holders never meet and every waiter gets the lock.
  `locked_by` names the holder to everybody but the thread that is about to write it. It is
  cleared after `up` has handed the lock over; were `up` to give up the CPU, the new owner
  would record itself first and be wiped out, which is what the deviant `GivesUpCpu` shows.
* `kernel`: the wakeup of a parent that is between its search for a zombie and its
  sleep is not lost, and nobody sleeps without a child or a timer that will wake him; a
  timer never outlives the frame it is in, also when kill wakes the sleeper first; the
  tree survives exits of parents with living and dead children; init's asserts at its
  end hold. Two refinements: every step is one that `Sched` allows (`proc.c` uses the
  scheduler as its most general client does), and the delta list of `sched.c:110-137`
  is a set of independent countdowns for timers armed, cancelled and expiring in any order.
* `kernel_live`: a kill that meets a sleeper leads to its death; a sleep ends; init
  goes on reaping while it has a dead child. It is *not* the case that each zombie is
  reaped: `do_wait` looks at the youngest child first (`proc.c:709`), and older dead
  children can wait as long as younger ones keep ending.
* `philosophers`: the classic algorithm, but on this scheduler, timer list and these
  semaphores, with the permit handed over by a neighbour: nobody eats beside an eater,
  a hungry sleeper always has an eating neighbour, `up`'s assertion on `wait_state`
  holds, and all meals are eaten.
* `pid`: a pid that `get_pid` returns is nobody's, after any sequence of forks and
  exits, through wrap-around in the middle of a scan; and the scan ends.
* `heap`: the page list holds exactly the free pages, `nr_free` counts them, neighbouring
  free blocks are merged, so a long enough run is always found, and no allocated page is
  marked as a head, which is what `default_free_pages` asserts. On top, each unit
  of the heap's pages is in one block, free or used, the circular list stays sorted and
  merged however `slobfree` wanders, and two pieces of memory in use, of the heap or of
  anybody else, never overlap; with failures at the header, at the pages, and at growth.
* `files`: `ref_count` and `open_count` are equal to what refers to an inode after
  every call, the failing ones too; inodes are in memory just while in use; what was
  written is on the disk after the last close, also when `do_exit` closes.
* `sfs`: no block is lost or owned twice and no file has a hole, through allocation
  failing at each point of a growth, and through dropping and reloading inodes whose
  block count had not been marked dirty, also when a failing growth put a block under a table
  that was there before (`sfs_inode.c:365`). What is on the disk by itself is right whenever
  nothing is dirty, so the assertion on the count of free blocks at the next mount holds.
* `stdin`: no reader sleeps while stdin has a character, through two readers woken by one
  key and kills that meet a key; a `wait_t` is linked only inside the call whose stack
  it is on. Every character is in one place, once: read, under way or overwritten. As long as none
  is overwritten, characters keep the order in which they were typed, except that bytes of the
  serial line may overtake keys: keys overtake nothing, and bytes do not overtake bytes.
  Input does not stay in the buffer while somebody waits for it.
* `addr_space`: no frame is lost or has two owners, with pages or kernel memory running
  out at each point of fork and exec; the tables never give more than the areas do;
  `user_mem_check` says yes to a range just if each byte may be accessed, stack guard,
  gaps and overflow included; a fork copies. After an exec or a fork that fails the
  process ends or the half-made child is taken apart completely.
* `sfs_trunc`, the violation, is in section 7.

## 4. Bounds

| run | bounds | why they are enough |
|---|---|---|
| `sched` | idle and 3 processes, slices of 2 | queues of length 2 behind a running process; a process preempted with and without ticks left |
| `sem` | 4 threads, 1 permit | one holder, one woken waiter and two behind it, the longest queue whose order matters to a newcomer |
| `kernel` | idle, init, 3 user processes, `MAX_SLEEP` 2, slice 1, symmetric users | a parent, a child and a killer or grandchild; two timers at once, with equal and different expiries. Slices are checked in `sched` |
| `kernel_live` | idle, init, 2 user processes, `MAX_SLEEP` 1 | liveness needs no symmetry reduction, so one process less |
| `philosophers` | `N` 3, `TIMES` 2, `SLEEP_TIME` 2 (5, 4 and 10 in the code) | with 3, each is everyone's neighbour; two meals put a philosopher through all states twice. Sleeps of 1 to `SLEEP_TIME` ticks stand for delays that the code's fixed ones get from the other processes |
| `pid` | `MAX_PROCESS` 5, `MAX_PID` 7 (4096 and 8192) | pids wrap around; `MAX_PID > MAX_PROCESS` is the code's assertion |
| `heap` | 4 pages of 5 units, headers of 1 and 2 units, sizes 2 and 10 | two areas of memory; a page holds one small object with a rest of two units, exactly what the header of a big one takes; big objects of two pages, so that headers fit while pages do not, and the reverse |
| `files` | `NFD` 3, 2 programs, 1 file, 2 directories, 1 device | descriptor 2 is the first that `files_closeall` closes, 0 and 1 survive exec; two descriptors of two programs on one inode. No counter needs a bound: references come from descriptors and directories |
| `sfs` | 5 blocks, 2 files, `NDIRECT` 1, `NENTRY` 3, blocks of 2 bytes, `MAXLEN` 10, positions 3, 7, 9 | a file of two blocks with its table, of four, and a position beyond the table (9 needs five blocks, a file has at most four); both files hold blocks, and the disk fills in each phase, also between two blocks that are added under a table which is on the disk. `sfs_trunc` has 4 blocks, `NENTRY` 2, `MAXLEN` 8 and positions 1, 2 (the full block), 5 and 7 |
| `stdin` | 2 readers, both rings too small (2 and 3), 4 characters, reads of 1 or 2, up to 2 characters in each device | a key with two readers woken for one character, one of which takes it while the other is killed or waits on; a newcomer that takes what another was woken for; both rings overrun and wrap around; one key or two that wait when serial bytes come. The three safety properties are also proved for any number of readers (section 6). Typing is the only counter that is bounded |
| `addr_space` | 2 processes, 8 pages of 2 bytes in 4 tables, 16 frames, the stack 3 pages with 2 allocated, 9 program files, 4 forks and execs, up to 4 `kmalloc`s before memory runs out | areas that begin and end in the middle of a table and cross one, two segments on one page, a segment below, at and beyond the user's memory; frames run out only with both processes large, kernel memory at each call |

## 5. Fairness

* Ticks come for ever: the clock interrupt is programmed once and never masked for
  good. `WF(run_timer_list)`, `WF(Tick)`.
* Kernel code runs on to its next `schedule()` or its return to user mode, since its
  loops are finite and it is not preempted: `WF(KernelStep)`, and in `Sched` that
  somebody who must call `schedule()` does so.
* User code owes nothing: no fairness on `UserStep`. A process may loop for ever; the
  clock takes the CPU from it.
* `MmLock`: a woken thread returns from `down` (this is `NoStarvation` of the
  scheduler), a section under the lock is finite, and `lock_mm` and `unlock_mm` go on to
  their ends (`RecordsOwner`, `ClearsOwner`). There is no fairness on asking for
  the lock.
* `PidAlloc`: the loop of `get_pid` goes on.
* `Stdin`: a pending interrupt is taken, `WF(kbd_interrupt)`, and each reader that can run
  gets the CPU, `WF(ReaderStep(r))`, again by `NoStarvation`. Nobody has to type, to call
  read or to kill.

`Heap`, `Files`, `Sfs` and `AddrSpace` promise only safety. The deadlock check is off where
the system really may stop: `Sfs`, `Heap` and `AddrSpace` after a panic or when memory has
run out, `AddrSpace` also when its processes have ended or used up their calls, `Stdin` when
all is typed and the readers are dead or wait.

## 6. The proofs

Checked by TLAPS, for every value of the constants that the named assumptions admit.

| module | assumptions | theorems |
|---|---|---|
| SchedProof | `SchedAssumption`: a finite set of processes with idle in it, slices of at least one tick | `SchedType`, `SchedRunQueue`, `SchedWaiting`, `SchedSlice`, `SchedCurrent`, `SchedNoOvertaking` |
| SemMmProof | `SemAssumption`: a finite set of threads; `AddrSpaceAssumption`: a finite set of processes, positive sizes in whole pages, a user's part of whole page tables that ends below the last address and has room for the stack, and a stack that holds the pages `load_icode` allocates; `ProgramAssumption`: program headers of any numbers, but with `memsz` and the offset in the page no more than there are addresses (section 7) | `SemConservation`, `SemNoIdlePermit`, `SemQueue`, `SemNotInterrupted`, `SemNoBarging`, `SemImplementsPermits`, `LockMutualExclusion`, `LockOwner`, `LockIsExact`; `MmInvariant`, `MemoryIsExact`, `AreasAlwaysCoverPages`, `UserMemIsExact`, `ForksCopy` |
| KernelProof | `SchedAssumption`; `KernelAssumption`: init is a process and not idle, the two reasons to sleep exist | `KernelImplementsSched`, `KernelNoLostWakeup`, `KernelFamilyTree`, `KernelTimers`, `KernelInitAsserts`, `KernelImplementsTimers` |
| PhilosophersProof | `SchedAssumption`; `PhilAssumption`: at least three philosophers, names that differ, the processes and reasons to sleep of this program | `PhilosophersForksExclusive`, `PhilosophersHungryForAReason` |
| AllocProof | `PidAssumption`: `MAX_PID > MAX_PROCESS`, get_pid's own assertion; `PageAssumption`: there is a page; `HeapAssumption`: a page has room for a `bigblock_t` and two units more, sizes are positive; `EnoughPages` (below) for the last theorem only | `PidType`, `PidIntervalFree`, `PidFresh`, `PagesFreeExact`, `PagesEveryRunIsFound`, `HeapIsExact`, `HeapFreeExact`, `HeapEveryRunIsFound`, `HeapImplementsMemory` |
| FilesProof | `FilesAssumption`: kinds of inodes are disjoint, more than two descriptors; no `O_EXCL` (below) | `FilesRefsExact`, `FilesInMemoryExact`, `FilesSavedWhenClosed` |
| StdinSfsProof | `StdinAssumption`: a finite set of readers, rings that hold at least one character; `SfsAssumption`: blocks of at least a byte, at least one direct entry and one entry in a table | `StdinNoLostWakeup`, `StdinTypedOnce`, `StdinImplementsInput`; `SfsBlocksExact`, `SfsDiskExact`, `SfsNoHoles` |
| ListLemmas | none | facts about lists without repetition, folds and timer lists, for all of the above |

* **SchedProof.** `RunQueueExact` alone is not inductive: that a woken process is not
  queued already needs `WaitingIffSleeping`, and that `schedule()` queues and picks the
  right process needs `IdleRunnable`; `QueuedHasSlice` needs `OnlyCurrentResched`: nobody
  but the process on the CPU has `need_resched` set. `IInv` is the conjunction of these
  with the types and `CurrentCanRun`. One step per action; the facts about
  sequences without repetition (appending, taking the head, appending an ordering of a
  set) are lemmas of ListLemmas, each proved once. `NoOvertaking` is an action property: a
  step that appends overtakes nobody (`BehindTheQueue`), and the step of `schedule()` that
  removes the head leaves the order of the others (`ScheduleOvertakesNone`); that nobody is
  in the queue twice is what makes positions comparable.
* **SemMmProof**, semaphores. `Conservation` counts permits: the value, the granted ones and the taken
  ones add up to the initial number. With `NoIdlePermit` (waiters only while the value
  is 0), `QueueIsAsleep` and `NotInterrupted` it is inductive. The refinement maps AbsSem's
  permits to `sem.value + Cardinality(Granted)`: a hand-over is a Give, a return of the
  waiter a Take, and queueing a stutter. The lock's invariant adds that `taken` counts
  the holders; exclusion follows from conservation with `InitValue = 1`. For `locked_by` it adds
  `WriterIsAlone`: while a thread is about to write it, nobody else is, and nobody else has
  got the lock since, which is what `KeepsCpu` preserves. `NoBarging` rests
  on who is *served* in a step: a sleeper is served only by the `up` that finds it at the
  head (`SleeperWaits`, `DownSleepsServed`, `UpServed`).
* **SemMmProof**, address spaces. `Holding(m)` is what is in each place that can hold a frame:
  a page directory, a page table, a page of some process. `Sane(w, E)` says of a world that every
  frame is in exactly one place, or free, or one of the frames `E` that an operation has taken
  and not yet placed (`ExactFrames`), and that each address space is right (`SpaceOk`): areas in
  order, apart and within the user's part, the cache one of them, a page only with a frame, a
  page table and an area that allows it, a page table only where an area is. The invariant `MmInv`
  is a sane world with `E` empty, also after a panic, in which only user processes hold
  anything. The last two parts of `SpaceOk` are what the runs' properties do not say by themselves:
  `exit_mmap` goes through the areas only, so it gives back everything because nothing is
  outside them; and `copy_range` and `unmap_range`, which go on with the next page table where one
  is missing, leave out no page because each has its table. There is a lemma per operation, which
  says what it makes of a sane world (`Kept`, `Live`, `Grown`, `Placed`, `Done`); where one fails
  half way the frame is back in `E` or free. The loops over areas, pages and program headers are
  folds, taken step by step through the worlds on the way (`Staged`, the lemmas `...Fold`). The
  walk over pages (`Walked`) and the loop of `user_mem_check` are recursions on how far there is
  still to go (`MeasuredRecursion`, `MeasuredInduction`). `UserMemExact` needs that a sum of two
  addresses wraps around once at most (`WrapsOnce`). `ForkCopies` follows `dup_mmap` area by
  area and `copy_range` page by page: after the last k areas of the parent the child has just
  these areas, each put in front of the ones before it, copies of the pages in them, and
  nothing else (`DupSoFar`). That a page copied for one area is not copied again for another, or over
  one that is there, is that areas do not share pages; and a fork that fails returns its
  error through the whole taking apart (`TakesApartRet`), so one that returns 0 has copied.
* **AllocProof**, pids. `IntervalFree` speaks of the entries that the pass has visited. It
  becomes inductive with `WantedIsBelow` (in a scan the wanted pid is below the interval's end,
  so the next candidate was not seen in use either), `PassEnded` (outside a scan nothing is
  left to visit), and the counting facts `RoomForOne` and `Counted`, which keep
  `nr_process` within its type.
* **AllocProof**, pages. The list and the sizes are seen as a set of blocks: `Cover(L, size, F)`
  says that the blocks `L` make up the free pages `F` and that no two overlap *or touch*
  (`Apart`). `WellFormed(m, F)` adds that the list has no page twice, that marks are on heads
  of blocks only and that `nr_free` counts `F`; this is the invariant (`PageInv`). Taking a run
  from the front of a block keeps it (`CoverTake`). Freeing walks the whole list and merges as it
  goes, so inside the walk it does not hold: `Walking` says what does after the blocks `done`
  have been passed: the block that is being freed has grown, touches none of them, and
  overlaps none that is still to come; with the last one the blocks cover all. Both properties
  follow: a long enough run lies in one block because no two touch. An area that
  `default_init_memmap` adds must touch no free page; `page_init` gives it areas of the memory
  map with a reserved page between. `PagesFreeExact` and `PagesEveryRunIsFound` are about
  `PageSpec`, the allocator with any callers; `HeapFreeExact` and `HeapEveryRunIsFound` say the
  same where the heap, which allocates and frees in the middle of its calls, is one of them.
* **AllocProof**, heap. `HeapExact` speaks of the walk along the list and of sets of units;
  the invariant `HeapInv` says the same so that one step can be reasoned about. `Slob(f)` is the
  ring without a walk: blocks do not touch, each one but the last points at the next in the
  order of addresses, the last at the arena. That such a ring is one cycle through all blocks,
  from wherever `slobfree` stands, is proved with the walk as the solution of a recursion
  (`RecursionExists`); this is what makes the search of `slob_free` end at the only place
  where the block fits, across the wrap-around too, and the search of `slob_alloc` come round.
  `Layout(T, O, B, S, hp)` says how the free units `T`, the objects `O` and the big
  blocks `B` lie in the pages `S` in use: the pages `hp` are the heap's and made up of free units
  and headers, nothing twice and nothing left over (`Partition`), and each big object
  has a run of pages outside `hp` to itself. Carving takes a block out of `T`, freeing
  gives one back, growing adds a page to both sides; a `kmalloc` of a big object does up to three of
  these in one step, and gives the header back when the pages cannot be had. `MemorySpec`
  needs in addition that a big object fits into its pages (`BigsFit`). That is the hypothesis
  `EnoughPages`, `size <= 2^find_order(size) * PAGE_SIZE`: `find_order` loses remainders
  (section 7), and without it the theorem is false. It holds of less than a page, of one, two or
  four pages and of a byte more than a page, which is what the kernel's callers ask for, and of
  the sizes of the run. The other three theorems do not need it.

* **KernelProof.** The invariant `KInv` has two halves. The scheduler's half is `IInv` of
  SchedProof, instantiated with `Blocking`, and it is not proved again: each action is shown
  to be a step of Sched or a stutter (`StepInv`), and SchedProof's step theorem does the rest
  (`SchedStep`). This is also the refinement. Kernel's half says where a process may
  stand in each state (`Stands`, `Places`), that init stays what it is (`InitStays`), and
  `FamilyTree`, `Rooted`, `Timers` and `NoLostWakeup`. They need each other: a process that
  ends wakes the right one because the chains agree with the parents, a zombie has no
  children left because it passed `exit_links`, a timer is removed before its frame goes
  because `Stands` ties `WT_TIMER` to `do_sleep`. `Rooted`, that every nonempty set of user
  processes has a member whose parent is outside it, is what `InitAsserts` rests on: a last
  process would have a chain of parents that ends at a child of init, and init ends only
  without children.
* **KernelProof**, timers. `Ticking` says that nobody is in the list twice and that the head
  has ticks left, which `run_timer_list` asserts. What the abstraction sees is `LeftOf(list, p)`,
  the sum of the deltas up to `p`'s entry. Sums are solutions of a recursion (`Sums`), which
  exist and are unique for each list; ListLemmas shows that `add_timer`, which subtracts on its
  way and corrects its successor, gives the new timer its ticks and leaves the sums of all
  others, that `del_timer`, which hands its delta on, leaves them too, and that a tick takes one
  from every sum and removes just those that become 0. `KernelImplementsTimers` is then one
  step per operation.
* **PhilosophersProof.** Exclusion is not inductive by itself: that a neighbour's announcement
  agrees with where he stands (`Announced`) depends on the hand-over through `s[i]`, whose
  queue (`Queues`) depends on who sleeps where (`Stands`), which depends on the scheduler
  and the timers (`Queued`, `Timers`). `Table` is the classic argument: neighbours of an eater do
  not eat, and the hungry have an eating neighbour. `phi_take_forks_sema` and
  `phi_put_forks_sema` change announcements, semaphores and wakeups several times in one step:
  `Good` and `Seated(w, S)` are the invariant for the record in between, where the philosophers
  in `S` may be hungry without a reason because they are still to be tested; one test takes one
  out of `S` (`TestGood`). `up`'s assertion on `wait_state` holds because `Queues` says where
  those in a queue sleep.
* **FilesProof.** The invariant `IInv` is `Good(inode, OpenCount, HoldCount)`: the counts of the
  inodes are those of the descriptors and of the other references. The same predicate, with
  any two functions in the place of the counts, carries each call through its steps: `Plus` and
  `Less` say which reference is borrowed or given back at each (`Lookup`, `Open`, `Close`, `Dup`).
  `files_closeall` and `dup_files` are folds over descriptors; they are shown to treat them one
  by one in some order, and the counts follow by induction on the set (`CloseAll`,
  `DuplicateAll`). The hypothesis `"O_EXCL" \notin Flag` is what section 7 says of that flag: its
  error path keeps a reference, so the theorems are false with it; no program under `user/`
  passes it, and the run leaves it out.
* **StdinSfsProof**, terminal. `WaitInv` is `NobodySleepsOnInput` with the types of the variables it speaks
  of. A key wakes and unlinks everybody (`KeyWakesAll`), a read links itself only when it has
  found the ring empty (`ReadLinksItself`), and a kill leaves no `wait_t` behind
  (`InterruptedUnlinks`). For `TypedOnce` all characters stand in one line (`Line`): those read,
  stdin's ring, the console's ring, the UART, the keyboard. A key is put at its end, a serial byte
  in front of the keys that the keyboard holds, a read and a hand-over do not change it, and a ring
  that overruns loses a piece out of the middle; `Accounted` says that nothing else is ever missing,
  that nothing is in the line twice, and, as long as nothing was lost, who may stand before whom.
  The rings are read as sequences (`Held`, `Between`), and the
  arithmetic of their positions is in a few lemmas on remainders. `InputSpec` maps
  stdin's ring to AbsInput's queue, whatever the size.
* **StdinSfsProof**, blocks. `Kept(d, e)` is what is in each place where a block can be: a direct
  entry, the number of a file's table, an entry of that table. `Exact(H, F)` says that the blocks
  `F` are in no place of `H` and every other is in exactly one; it survives a free block
  put into an empty place (`ExactGive`) and a block taken out (`ExactTake`), and then the free
  ones are counted right (`ExactCount`). The invariant `SfsInv` adds what the three properties do
  not say by themselves. `Full`: every block that a file counts is in its place, so a shrinking
  file finds what it frees, and a growing one does not overwrite a block. `Agrees`: an inode that
  is not marked has on the disk what it has in memory, except that a growth which failed may
  have counted blocks in memory only, in places of the table that are filled already. That is
  why dropping such an inode loses no block: the table is read and written as the
  one on the disk. Each call is a few changes of a record of the state (`sfs_bmap_get` up to three),
  and `LoadRight`, `TruncRight` carry `Right(w)` through them; a call of `sfs_truncfile` is a fold
  of these, block by block (`GrownOneByOne`, `ShrunkOneByOne`).

`SchedWaiting`, `SchedSlice`, `SemNotInterrupted`, `SemQueue`, `LockMutualExclusion`, `LockOwner`
and `PidIntervalFree` are parts of what the runs check, or of the inductive invariants; they
have no entry of their own in a configuration.

Induction. The library's induction theorems take an operator as a parameter, which the
provers cannot instantiate. ListLemmas states them for a *set* instead: a set of numbers that
contains 0 and is closed under successor contains all (`InductionOnNat`), and likewise for a
set of subsets of a finite set (`InductionOnSubsets`). With them the folds of the community
modules, which are recursive functions on the subsets of a set, have solutions
(`FoldExists`), and what they compute is proved from the equation of one step.

Only model-checked: all liveness, since fairness and ENABLED are out of this prover's reach
(`NoStarvation`, `NoLockout`, `GetPidReturns`, `DinnerEnds`, `InputIsRead` and the properties of
`kernel_live`). Every invariant and every action property of the runs that pass is also a
theorem. No module uses a RECURSIVE operator.

## 7. What was found

* `sfs_trunc`: when `sfs_truncfile` fails on a full disk in the middle of a growth, the
  blocks it has added stay counted and the size does not change. The next truncation to
  the size the file already has, such as `open(O_TRUNC)` of an empty file, fails the
  assertion at `sfs_inode.c:900` and stops the machine.

Met on the way, without a run of their own, since no comment or test says otherwise:

* Opening a file that exists with `O_CREAT|O_EXCL` returns -E_EXISTS at
  `vfs/vfsfile.c:47` without giving back the reference of the lookup, as the other error
  paths do. No program under `user/` passes `O_EXCL`, so `Files` leaves the flag out:
  neither the run nor the theorems say anything of this path.
  Creating a file calls an operation that no file system has (`vfsfile.c:44`).
* A reader of the terminal that a key wakes and that is killed before it runs finds `WT_KBD`
  in its `wait_t`; if another reader took the character it sleeps again, and stays there
  until the next key, since a second kill returns -E_KILLED (`dev_stdin.c:59`).
* A key that is typed before a serial byte may be read after it: `cons_getc` drains the UART
  before the keyboard (`console.c:451-452`). `TypedOnce` admits just this.
* `unlock_mm` clears `locked_by` after `up` has handed the lock over (`vmm.h:106-107`), and
  that is harmless only because `up` does not give up the CPU.
* A character typed into a full terminal buffer overwrites the oldest unread one, and the
  count does not change (`dev_stdin.c:27`). The console's ring becomes empty when it is
  overrun, and an interrupt passes on one character even if it brought several, so the
  others wait in the console for the next one (`trap.c`, `console.c`).
* `swap_init` runs at boot (`init.c`), and from then on `alloc_pages` answers a request for
  one page that cannot be had by calling `swap_out` with `check_mm_struct`, which is NULL
  after the boot-time checks: the machine stops instead of returning -E_NO_MEM
  (`pmm.c:172`).
* A `kmalloc` of 4080 to 4087 bytes is small enough for the heap's list and then fails
  `slob_alloc`'s assertion (`kmalloc.c:100`). `find_order` loses remainders: 8193 bytes get
  two pages (`kmalloc.c:213`). No caller asks for such sizes; `Sizes` leaves them
  out, so no property notices the lost remainder.
* `mm_map` of an area that overlaps a later one ends in an assertion, not in -E_INVAL;
  `copy_range` and `load_icode` assert that they get a page although their callers are
  ready for an error; a page fault of a user program that cannot be served panics at
  `trap.c:204`, just before the `do_exit` that would end only that process.
* With a program header whose `p_memsz` is within a page of 2^32, `p_va + p_memsz` wraps around in
  `mm_map` (called at `lab7/kern/process/proc.c:536`) to an area of one page, while `load_icode` goes
  on to map all pages of `p_filesz`. `ProgramAssumption` leaves out such headers; sums
  that wrap around less far are refused by `mm_map`, in the code and in the model.
* `sfs_bmap_load_nolock` counts a new block without setting `dirty` (`sfs_inode.c:365`), which
  `sfs.h:72` describes as "true if inode modified". When the call fails afterwards the
  block is forgotten with the inode; `BlocksExact` shows that it is still found through
  the table.
* A process that is killed while it waits in the run queue at the end of `trap()` returns to
  user mode once more (`trap.c:291`); there it may still call read and sleep on the terminal
  until the next key. The remainder of a split block of pages is not marked
  with `PG_property` although two of the kernel's self-checks assert it
  (`default_pmm.c:141`). Positions up to `SFS_MAX_FILE_SIZE` are accepted while a block map
  ends at 1036 blocks (`sfs_inode.c:286`).

## 8. What is not modelled, and why

* Bodies left to be written in lab8: `alloc_proc`, `do_fork`, `get_pte`, `page_remove_pte`, the
  tail of `do_pgfault`, the copying in `copy_range`, the FIFO of `swap_fifo.c`, `monitor.c`, the
  loop of `sfs_io_nolock`, the timer case of `trap_dispatch`. Where the models need them they
  follow the comments in their place and the way they are used. `monitor.c` and swapping are
  left out: nothing but the missing bodies changes their state.
* Output, scan codes, the IDE driver, the PIC and the clock: port I/O. Boot and the
  self-checks run alone, before there is a second process. The debugger and the libraries are
  sequential code with no state that other parts share. `tools/` runs on the host.
* The VFS's table of devices is filled at boot; unmounting has no caller. Copy loops of the
  file system calls keep no state between two calls.
* In `Files`: reads, `fstat`, `getdirentry` and `getcwd`, which take and give back what they
  count within one call. A read of the terminal, the only file call that sleeps, is in
  `Stdin`; it keeps its descriptor busy, but no table is shared, since no caller passes
  `CLONE_FS`.
* In `AddrSpace`: contents of pages, the translation buffer, shared address spaces
  (`CLONE_VM` is passed for kernel threads only, which have none), and frames that serve
  others than address spaces (Heap and PageAlloc have these).
* In `Sfs`: a crash between writes. There is no journal and mount checks only the count of
  free blocks, so the code promises nothing after one; shutdown and mount are modelled. The
  search in directories and the contents of files are left out.
* The earlier labs: stages of the same kernel, which lab8 repeats file by file. Modelling them
  would say the same again about seven copies, so the models' share of all lines of the
  repository stays low although most of lab8's own state is in them.

## 9. Plan

Done in this order: scheduler, timers, semaphore and lock, processes on top of the first
two, philosophers on top of all three, pids and pages, files and the file system; then
stdin with the console's ring, the heap on the page allocator, address spaces, shutdown and
mount, and the proofs of `NoOvertaking`, `NoBarging`, `LockExact` and `NobodySleepsOnInput`,
and of Kernel that it implements Sched, with its four invariants; then the proofs of the
countdowns, the philosophers, the page allocator, the heap on top of it, the files and the
terminal's characters; then those of the blocks of the file system and of the address spaces,
with a fork that copies. Next:

1. A fork and exit that join Kernel, Files and AddrSpace, with the file table and the address
   space under kill and preemption.
2. Abstract specifications of Sfs (a map from files to sequences of blocks) and of AddrSpace
   (a map from addresses to permissions), refined.
3. Lookup in SFS directories and the inode cache; `stab_binsearch` of the debugger as a
   recursive function against its definition.

## 10. Running it

`tlc -workers 2 -config X.cfg M` checks a run, `tlapm M.tla` a proof module. Each of the
runs needs at most a few minutes.
