# A verification of the OS/161 kernel in TLA+

The modules in this directory model the kernel under `src/os161/kern`: a
teaching kernel in C for a uniprocessor MIPS machine. They are checked with TLC
on small instances, and the central properties of the thread system and the
synchronisation primitives are proved with TLAPS for any number of threads,
semaphores, locks and condition variables.

`PROJECT.json` is the index: it maps every definition to the lines it models and
lists the runs, the mutants, the hazards, the findings and the theorems. Paths
below are relative to `src/os161/kern`.

## 1. The system

| part | source | state | operations | what is hard about it |
|---|---|---|---|---|
| threads | `thread/thread.c`, `scheduler.c`, `hardclock.c` | `curthread`, run queue, `sleepers`, `zombies`, `numthreads`, sleep addresses | fork, exit, yield, sleep, wakeup, exorcise, timer, clocksleep | the timer may switch threads between any two instructions at spl 0; a thread's structure is freed by another thread |
| interrupt level | `arch/mips/mips/spl.c`, `interrupt.c`, `pcb.c` | `curspl`, `in_interrupt` per thread | splhigh, splx, interrupts, idling | it is the only protection everything else has |
| synchronisation | `thread/synch.c` | counts, `held`, `heldThread` | P, V, lock and cv operations | test and sleep are separate steps; V comes from interrupts too |
| list room | `lib/array.c`, `lib/queue.c` and their users | lengths and capacities | preallocation at fork, adding in the switch | room is made long before it is used |
| queue | `lib/queue.c` | ring, `nextread`, `nextwrite` | add, remove, grow, preallocate | wrap-around while growing |
| processes | `thread/thread.c`, `arch/mips/mips/{syscall,trap}.c` | process table | fork, `_exit`, waitpid | the table is used by all processes without a lock; a fault inside the kernel ends one process and the others go on |
| stoplight | `asst1/stoplight.c` | five semaphores | crossing in three ways | cars hold one quadrant while they wait for the next |
| cats and mice | `asst1/catlock.c` | four locks, flags, counters | eating | some variables are used outside their locks |
| virtual memory | `vm/`, `arch/mips/mips/ram.c` | coremap, page tables, TLB | allocation, faults, copying | |
| kernel heap | `lib/kheap.c` | pages, free lists | kmalloc, kfree | |
| devices | `dev/` | request and interrupt state | disk, console, emulator files, bus | handlers run at interrupt level |
| file systems | `fs/vfs/`, `fs/sfs/` | vnodes, counts, blocks, directories | open, close, read, write, mount, sync | one step of several may fail |
| system calls, user programs | `arch/mips/mips/{trap,syscall}.c`, `userprog/` | trap frames | execv, sbrk, read, write | |
| startup and menu | `main/` | | boot, commands | |

The parts meet as follows. Every blocking operation ends in `thread_sleep` and
`mi_switch`; every wakeup ends in `make_runnable` and so in the ring of
`lib/queue.c`; everything above (devices, file systems, the problems of
assignment 1) blocks on the primitives of `synch.c`; `waitpid` blocks on the
clock through `clocksleep`.

## 2. Modules

| module | models | composed with |
|---|---|---|
| `Queues` | operators on sequences: `Filter`, `First`, `Elems` | |
| `Threads` | the thread system, the timer and the interrupt level | |
| `Synch` | `synch.c`, with arbitrary clients | extends `Threads`; its steps sleep and wake through it |
| `SynchAbs` | what `include/synch.h` promises | implemented by `Synch` |
| `RingQueue` | `lib/queue.c` | |
| `Fifo` | what a queue promises | implemented by `RingQueue` |
| `Prealloc` | lengths and capacities of the three thread lists | |
| `ProcTable` | process table, fork, `_exit`, waitpid | |
| `Stoplight`, `Catlock` | the two solved problems of assignment 1 | |
| `QueuesProofs`, `SynchProofs`, `SynchLockProofs`, `SynchThreadProofs`, `SynchTheorems` | proofs | |
| `MC*` | instances for TLC | |

A layer relies on what the one below has been shown to do. `Threads` uses a
sequence where the code has the ring of `RingQueue`; `Stoplight` and `Catlock`
use a counter and a holder where the code has the primitives of `Synch`;
`ProcTable` lets clocksleep return because `Threads` shows that it does.

### Threads

One variable per kernel variable, plus `pc`, where each thread stands, and the
locals of `clocksleep` and `thread_fork`. Only `curthread` executes. `Schedule`
is the second half of `mi_switch`: take the head of the run queue, and, unless
the thread is new, free the zombies and clear the sleep address. New threads go
through `mi_threadstart` instead, which is why a zombie may outlive several
switches. `hardclock` is the timer interrupt. It is enabled at spl 0 and in the
idle loop only (`TakesInterrupt`), and it yields; the interrupted thread stands
in `pcb_ininterrupt` until it runs again. Lists grow without failing here;
`Prealloc` asks whether they have to.

### Synch

Every routine is split where an interrupt would matter if interrupts were on:
the test of P, its sleep and its decrement are three actions. That they are not
interleaved with others follows from `curspl` in the model, as in the code, and
the mutants that drop a `splhigh` break the properties. Clients make every call,
including releasing a lock they do not hold and acquiring one they do. They do
not make the calls that stop the kernel in an assertion (cv operations without
the lock), and they release their locks before they exit.

In `SynchAbs` the call a thread is in is part of the state, and its return is the
step in which the operation has its effect. A `cv_signal` that returns without
waking a waiter, a `V` that is not counted or a `lock_release` that leaves the
lock held is therefore a step `SynchAbs` does not have, and not a stutter.
`Fifo` records the last put or get, with its element, for the same reason.

`lock_create` leaves `heldThread` uninitialised. The memory it gets is a page
`alloc_kpages` has cleared or a block `kfree` has filled with `0xdeadbeef`, so
the field is never the address of a thread (`Garbage \notin Thread`).

### ProcTable

A process is its pid. `thread_create` is one step, as it runs at splhigh; the
rest of `thread_fork`, `_exit` and `waitpid` run with interrupts on and are split
at every access to another process's entry. `childIDs` has `MAX_NUM_CHILD`
elements, but the code reaches the elements behind them, which belong to the
same block of the heap. `SLOTS` is the size of that block, and a process forks
only while the index it will write is inside it. Pids below 0 and unusable status
pointers are left out.

When `thread_create` gives no thread, `thread_fork` counts the child and then
reads `newguy->pid` through a pointer that is no thread. A fatal fault in kernel
mode does not stop this kernel: `mips_trap` ends the current process with
`_exit(0)`, the panic behind it is commented out, and all other processes go on.
`DiesInFork` is that. If the table was full the pointer is the odd number EAGAIN,
and interrupts have been off since `thread_create`, so the process is a zombie in
one step (`ForkFull`). If there was no memory it is NULL, which `vm_fault`
refuses, with interrupts on: the code and the status are written in two steps
(`ForkNoMem`). The menu, process 1, dies in the same way. `killed` is a history
variable that records why.

### Prealloc

Threads are counted, not named, so the order of the run queue is left out and
any ready thread may run next.

### Catlock and Stoplight

`Catlock` is split at every read and write of a shared variable: `x++` is two
steps. A bowl is tested, taken, marked and left in separate steps. In
`Stoplight` a car is the sequence of calls it has still to make.

## 3. Runs that pass

| run | instance | shows |
|---|---|---|
| `threads` | 3 thread structures, HZ 2, clocksleep up to 2 | `OnePlace`: every live thread is in exactly one place. `NumthreadsExact`. `CriticalNotPreempted`. `StoppedInSwitch`. Liveness: `ReadyRuns`, `ZombiesFreed`, `ClocksleepReturns` |
| `synch` | 3 threads, one semaphore, lock and cv, counts up to 2 | `MutualExclusion`, `NoLostWakeup`, `LockFieldsAgree`, `SynchNotPreempted`, `OnlyHolderReleases`; `NoLostSignal`: nobody signals between the release and the sleep of a `cv_wait`; `ImplementsAbs`: refinement of `SynchAbs`, so a signal wakes exactly one of the waiters, if there is one, and a broadcast all |
| `ringqueue` | 2 values, sizes 2 to 8 | `IsFifo`: refinement of `Fifo`, what is added and what is returned included |
| `prealloc` | up to 6 threads, ring 4, limit 2 | `SleepersRoomOnceForked`; `GrowsOnlyWhenAllReady`: the run queue has to grow in `make_runnable` only when every thread is in it |
| `proctable` | 3 processes, 3 children, 2 seconds | `ExitCodeDelivered`; liveness: `WaitReturns`, also beside processes that die of a fault |
| `asst1` | `Stoplight` with 4 cars, or `Catlock` with 2 cats, 1 mouse, 2 meals each: the menu starts one of them | `NoCollision`, `NoGridlock`; `BowlExclusion`, `FlagExact`, `FullExact`, `NoDeadlock` |

Every property of these runs has a mutant, a small bug in one definition under
which TLC finds the property violated. Each mutant stands beside the definition
it changes and is named `Bug_...`.

### Bounds

- Three threads: one current, one ready and one asleep or dead; in `synch` one
  holder and two waiters, which is what a missing re-test needs. Structures are
  reused after exit, so runs of any length are covered.
- HZ 2 separates ticks that wake sleepers from ticks that do not.
- A semaphore's `MaxCount` of 2 allows a V for each of two waiters.
- The ring starts at 2 and doubles twice, so it grows from every wrapped
  position.
- `RingSize` 4 and `Shrink` 2 stand for 32 and 16: six threads outgrow both.
  `MaxDead` bounds the zombies that pile up while only new threads run.
- `MAX_NUM_CHILD` 3 and `WAIT_SECS` 2 stand for 10 and 30; a table of 4 has
  room for three processes.
- Four cars are one more than `Entrance_Sem` admits, and as many as there are
  quadrants. Cars and animals of one kind are interchangeable (symmetry).

`asst1` and `proctable` do not check for deadlock: cars and animals finish, and
all processes may have died. `NoGridlock` and `NoDeadlock` state that no car and
no animal is left when nothing can go on. For the cars that is progress, as a car
makes finitely many calls. For the animals it is not: a lost update of
`is_there_cat` can leave it above 0 when no cat is there, and then the mice try
and yield for ever. It is the race of `catlock_species` with the other outcome.

### Fairness

- `WF(Schedule)` and `WF(Resume(t))`: the processor executes instructions.
- `SF(hardclock)`: the timer is a device whose interrupt stays pending, so it is
  taken when interrupts are on, however briefly. Weak fairness would not do,
  because threads turn interrupts off again and again.
- `WF(InWait(p))` in `ProcTable`: a process inside waitpid goes on, by
  `ClocksleepReturns` and `ReadyRuns`.
- No fairness is assumed of clients: a thread need never yield, exit or release.

## 4. Runs that find a disagreement

Each of these checks one statement of a comment in the code and finds it
violated by the code. The quotations and lines are in `PROJECT.json`.

| run | statement | what the code does |
|---|---|---|
| `catlock_species` | cats and mice do not eat together | `is_there_cat--` is done without the lock and loses an increment |
| `wait_parent` | only the parent collects an exit status | the search for a child ends with `MAX_NUM_CHILD`, the test is for `MAX_NUM_CHILD-1` |
| `fork_failed` | on error no new process is created | the entry in the table stays active |
| `fork_full` | EAGAIN when there are too many processes | `EAGAIN` is returned as a pointer and dereferenced: the caller dies silently, with exit code 0 |
| `prealloc_zombies` | adding to `zombies` does not have to allocate | emptying a large array frees its room |
| `prealloc_runqueue` | adding to the run queue does not have to allocate | room is made for n threads, and a ring of n elements holds n-1 |

In the last two the code still works while kmalloc succeeds; what fails is the
argument that it need not.

Four more definitions state what the code does not do. They are not among the
runs; as the INVARIANT of a copy of `MCProcTable.cfg` or `MCPrealloc.cfg` each
gives a counterexample.

| definition | statement | what the code does |
|---|---|---|
| `ParentMayWait` | a parent may wait for its child | refuses a child in the last element of `childIDs` (the comparison of `wait_parent`); for the menu, that of its seventh command |
| `NoMemIsAnError` | ENOMEM when there is no memory | `thread_fork` dereferences the pointer before it tests it, and the caller dies with exit code 0 |
| `ForkReadsLiveChild` | fork reads the child while it exists | the child may have exited and been freed before |
| `SleepersNeverGrow` | adding to `sleepers` does not allocate | it does before the first fork, and only then (`SleepersRoomOnceForked`) |

## 5. Proofs

`SynchTheorems` proves of `SynchSpec`, for every finite set of threads and any
sets of semaphores, locks and condition variables:

`TypeCorrect`, `MutualExclusionHolds`, `NoLostWakeupHolds`, `NoLostSignalHolds`,
`LockFieldsAgreeHolds`, `NotPreempted`, `NumthreadsHolds` and the action property
`OnlyHolderReleasesHolds`. All but `NumthreadsExact` are checked by the run
`synch`; that one is checked by `threads` and proved here of the larger system.

Assumptions: `ThreadAssumption` (the first thread is a thread, there are finitely
many, NULL is none of them, HZ is positive) and `SynchAssumption` (different
primitives have different addresses, initial counts are natural numbers, an
uninitialised `heldThread` is no thread).

The argument. None of the properties is inductive: that a thread takes a free
lock safely depends on what it tested a step before. The inductive invariant
`IInv` (`SynchProofs`) therefore adds

- `SplInv`: a thread between a test and the step that relies on it (`Atomic`) is
  the current thread, and nobody is preempted there;
- `CallInv`: what such a thread has tested is still true;
- `LockInv`: `heldThread` names exactly the thread that owns the lock or is in
  the middle of releasing it;
- `ForkInv`, `CountInv`: half-made structures have one maker, and `numthreads`
  is exact.

`SplInv` makes `CallInv` inductive: nobody else runs between test and use. It
gives `NoLostSignal` as well, as the release and the sleep of a `cv_wait` and the
wakeups of `cv_signal` and `cv_broadcast` are such places. From
`CallInv` follow `NoLostWakeup` and the count's lower bound, and with `LockInv`
mutual exclusion. `SynchProofs` treats the semaphores and the common parts of
the routines, `SynchLockProofs` locks and condition variables,
`SynchThreadProofs` the steps of the thread system.

`ListFacts`, also a conjunct of `IInv`, says what `Append`, `Tail`, `Filter` and
`Cardinality` do to the thread lists. It is about constants only.
`QueuesProofs` proves the lemmas about sequences behind it, and `ListFactsHold`
derives it, so nothing is assumed.

Only model-checked: liveness (the prover has no fairness or ENABLED), the two
refinements, `OnePlace`, and all of `RingQueue`, `Prealloc`, `ProcTable`,
`Stoplight` and `Catlock`.

## 6. Not modelled, and the plan

Not modelled on purpose: shutdown and panic (`thread_killall` and its siblings
run once, at the end); the cats with semaphores (`asst1/catsem.c` has empty
bodies); the stub VM `dumbvm.c`; device probing; formatting and parsing; the
sequential programs at user level.

Next, in this order:

1. `Coremap` and `AddrSpace`: allocation of pages (`vm/vm.c`), regions, faults
   and the TLB, `as_copy` and `as_destroy` (`vm/addrspace.c`). No page has two
   owners, the TLB agrees with the page tables, a failed copy leaks nothing.
2. `Kheap`: the block lists of `lib/kheap.c`, which also decides what lies
   behind `childIDs`.
3. `Lhd`, `Console`, `Emu`: the drivers, with their interrupts, composed with
   the abstract semaphores. No request is lost, each waiter gets its own answer.
4. `Vnode` and `VfsList`: reference and open counts, mount and unmount.
5. `Sfs`: bitmap, inodes, directories, truncation, each step of which may fail.
6. Creation and destruction in `Synch`; `sbrk` and `execv` with `AddrSpace`.
7. Proofs: `OnePlace` for `Threads`; `NoCollision` and `NoGridlock` for any
   number of cars (a ring of waiting cars needs four inside); the step
   simulation of `SynchAbs`; page ownership in `Coremap`.
