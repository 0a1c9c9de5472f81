------------------------------ MODULE Threads -------------------------------
(***************************************************************************)
(* The thread system of a uniprocessor kernel: context switch, sleep and   *)
(* wakeup, fork and exit (kern/thread/thread.c), the round-robin run queue *)
(* (kern/thread/scheduler.c), the timer interrupt (kern/thread/hardclock.c)*)
(* and the interrupt level that protects all of them                       *)
(* (arch/mips/mips/{spl,interrupt,pcb}.c).                                 *)
(*                                                                         *)
(* Only the current thread executes.  It is preempted by the timer between *)
(* any two of its steps, but only while curspl is 0; a thread that is not  *)
(* current stands inside mi_switch.  While the scheduler looks for a       *)
(* thread to run curthread is NULL, and if the run queue is empty the      *)
(* scheduler idles with interrupts on.                                     *)
(***************************************************************************)
EXTENDS Queues

CONSTANTS Thread,     \* thread structures
          Boot,       \* the thread that thread_bootstrap makes
          Addr,       \* sleep addresses
          lbolt,      \* the sleep address of clocksleep
          NULL,
          HZ,         \* timer interrupts per lbolt
          MaxSecs     \* bound: the longest clocksleep a client asks for

ASSUME ThreadAssumption ==
    /\ Boot \in Thread
    /\ IsFiniteSet(Thread)
    /\ lbolt \in Addr
    /\ NULL \notin Thread \cup Addr
    /\ HZ \in Nat \ {0}
    /\ MaxSecs \in Nat

SPL_HIGH == 15

VARIABLES
    curthread,        \* the thread that executes, NULL inside scheduler()
    runqueue,         \* ready threads, in order
    sleepers,         \* sleeping threads, in the order they went to sleep
    zombies,          \* exited threads whose structures are not freed yet
    numthreads,
    t_sleepaddr,      \* [Thread -> Addr \cup {NULL}]
    pcb_ininterrupt,  \* threads that were switched out by the timer
    curspl,
    lbolt_counter,
    pc,               \* where each thread stands in the kernel's code
    num_secs,         \* clocksleep's counter, per thread
    newguy            \* the structure thread_fork is making, per thread

lists   == <<curthread, runqueue, sleepers, zombies>>
irqvars == <<pcb_ininterrupt, curspl, lbolt_counter>>
locals  == <<num_secs, newguy>>
threadVars == <<lists, numthreads, t_sleepaddr, irqvars, pc, locals>>

\* Threads that numthreads counts.
Live == {t \in Thread : pc[t] \notin {"none", "embryo", "zombie"}}

Init ==
    /\ curthread = Boot
    /\ runqueue = <<>>
    /\ sleepers = <<>>
    /\ zombies = <<>>
    /\ numthreads = 1
    /\ t_sleepaddr = [t \in Thread |-> NULL]
    /\ pcb_ininterrupt = {}
    /\ curspl = 0
    /\ lbolt_counter = 0
    /\ pc = [t \in Thread |-> IF t = Boot THEN "run" ELSE "none"]
    /\ num_secs = [t \in Thread |-> 0]
    /\ newguy = [t \in Thread |-> NULL]
-----------------------------------------------------------------------------
(* Building blocks: parts of the handlers below.                           *)

\* t is executing and is not inside an interrupt handler.
Running(t) == curthread = t /\ t \notin pcb_ininterrupt

\* t is executing client code, outside every kernel routine of this module.
InClient(t) == Running(t) /\ pc[t] = "run"

Goto(t, label) == pc' = [pc EXCEPT ![t] = label]

\* The sleepers that thread_wakeup(a) looks for.
On(a) == {t \in Thread : t_sleepaddr[t] = a}

\* mi_switch, up to the call of the scheduler: the current thread goes on
\* the list of its next state.
SwitchReady ==
    /\ runqueue' = Append(runqueue, curthread)
    /\ curthread' = NULL
    /\ UNCHANGED <<sleepers, zombies>>

SwitchSleep ==
    /\ sleepers' = Append(sleepers, curthread)
    /\ curthread' = NULL
    /\ UNCHANGED <<runqueue, zombies>>

SwitchZombie ==
    /\ zombies' = Append(zombies, curthread)
    /\ curthread' = NULL
    /\ UNCHANGED <<runqueue, sleepers>>

\* Mutant: the switch comes before the sleep address is stored.
Bug_SleepBeforeAddr(a) == SwitchSleep /\ UNCHANGED t_sleepaddr

\* thread_sleep by the current thread.
thread_sleep(a) ==
    /\ t_sleepaddr' = [t_sleepaddr EXCEPT ![curthread] = a]
    /\ SwitchSleep

\* thread_wakeup: every sleeper on a becomes ready, in order.
thread_wakeup(a) ==
    /\ runqueue' = runqueue \o Filter(sleepers, On(a))
    /\ sleepers' = Filter(sleepers, Thread \ On(a))
    /\ UNCHANGED <<curthread, zombies>>

\* thread_wakeupOne: the sleeper on a that is first in the array, if any.
thread_wakeupOne(a) ==
    IF Positions(sleepers, On(a)) = {}
    THEN UNCHANGED lists
    ELSE LET t == First(sleepers, On(a)) IN
         /\ runqueue' = Append(runqueue, t)
         /\ sleepers' = Filter(sleepers, Thread \ {t})
         /\ UNCHANGED <<curthread, zombies>>

\* The processor takes an interrupt at spl 0, or in the scheduler's idle
\* loop, which turns interrupts on for a moment.
TakesInterrupt ==
    \/ curspl = 0
    \/ curthread = NULL /\ runqueue = <<>>
-----------------------------------------------------------------------------
(* Scheduler and interrupts                                                *)

\* Mutants of exorcise: it forgets to empty the array; it is never called.
Bug_ExorciseKeepsList ==
    /\ pc' = [t \in Thread |-> IF t \in Elems(zombies) THEN "none" ELSE pc[t]]
    /\ UNCHANGED zombies

Bug_NoExorcise == UNCHANGED <<zombies, pc>>

\* exorcise: free the structures of the threads that have exited.
exorcise ==
    /\ zombies' = <<>>
    /\ pc' = [t \in Thread |-> IF t \in Elems(zombies) THEN "none" ELSE pc[t]]

\* scheduler() finds a ready thread and mi_switch switches to it.  A thread
\* that has run before comes out of mi_switch: it frees the zombies
\* (exorcise) and, if it slept, forgets its sleep address.  A new thread
\* starts in mi_threadstart instead and frees nothing.
Schedule ==
    /\ curthread = NULL
    /\ runqueue # <<>>
    /\ LET next == Head(runqueue) IN
       /\ curthread' = next
       /\ runqueue' = Tail(runqueue)
       /\ IF pc[next] = "start"
          THEN UNCHANGED <<zombies, pc, t_sleepaddr>>
          ELSE /\ exorcise
               /\ t_sleepaddr' = [t_sleepaddr EXCEPT ![next] = NULL]
    /\ UNCHANGED <<sleepers, numthreads, irqvars, locals>>

\* mi_threadstart enables interrupts and calls the thread's function.
mi_threadstart(t) ==
    /\ Running(t)
    /\ pc[t] = "start"
    /\ curspl' = 0
    /\ Goto(t, "run")
    /\ UNCHANGED <<lists, numthreads, t_sleepaddr, pcb_ininterrupt,
                   lbolt_counter, locals>>

\* Mutant: lbolt is due one tick late, after the counter was reset.
Bug_LboltLate == lbolt_counter + 1 > HZ

\* This tick is the one that wakes the sleepers on lbolt.
LboltDue == lbolt_counter + 1 >= HZ

\* Mutant: the timer interrupt does not yield.
Bug_NoPreempt(rq) ==
    /\ runqueue' = rq
    /\ UNCHANGED <<curthread, pcb_ininterrupt, curspl>>

\* The yield at the end of the timer interrupt, with run queue rq.  It does
\* nothing when the interrupt hit the idle loop.
Preempt(rq) ==
    /\ IF curthread = NULL
       THEN runqueue' = rq /\ UNCHANGED pcb_ininterrupt
       ELSE /\ runqueue' = Append(rq, curthread)
            /\ pcb_ininterrupt' = pcb_ininterrupt \cup {curthread}
    /\ curthread' = NULL
    /\ curspl' = SPL_HIGH

\* The timer interrupt: every HZ ticks wake the sleepers on lbolt; yield.
hardclock ==
    /\ TakesInterrupt
    /\ lbolt_counter' = (lbolt_counter + 1) % HZ
    /\ IF LboltDue
       THEN /\ sleepers' = Filter(sleepers, Thread \ On(lbolt))
            /\ Preempt(runqueue \o Filter(sleepers, On(lbolt)))
       ELSE /\ UNCHANGED sleepers
            /\ Preempt(runqueue)
    /\ UNCHANGED <<zombies, numthreads, t_sleepaddr, pc, locals>>

\* A preempted thread is current again and leaves mips_interrupt and
\* mips_trap, which puts back the spl it was interrupted at.
InterruptReturn(t) ==
    /\ curthread = t
    /\ t \in pcb_ininterrupt
    /\ pcb_ininterrupt' = pcb_ininterrupt \ {t}
    /\ curspl' = 0
    /\ UNCHANGED <<lists, numthreads, t_sleepaddr, lbolt_counter, pc, locals>>
-----------------------------------------------------------------------------
(* Calls a thread makes                                                    *)

\* thread_yield: the switch, and the splx when the thread is back.
thread_yield(t) ==
    /\ InClient(t)
    /\ curspl' = SPL_HIGH
    /\ SwitchReady
    /\ Goto(t, "yield")
    /\ UNCHANGED <<numthreads, t_sleepaddr, pcb_ininterrupt, lbolt_counter,
                   locals>>

YieldReturn(t) ==
    /\ Running(t)
    /\ pc[t] = "yield"
    /\ curspl' = 0
    /\ Goto(t, "run")
    /\ UNCHANGED <<lists, numthreads, t_sleepaddr, pcb_ininterrupt,
                   lbolt_counter, locals>>

\* Mutant: clocksleep runs with interrupts on.
Bug_ClocksleepNoSpl(t, n) ==
    /\ InClient(t)
    /\ num_secs' = [num_secs EXCEPT ![t] = n]
    /\ Goto(t, "clock_test")
    /\ UNCHANGED <<lists, numthreads, t_sleepaddr, irqvars, newguy>>

\* clocksleep(n): sleep on lbolt n times.
clocksleep(t, n) ==
    /\ InClient(t)
    /\ num_secs' = [num_secs EXCEPT ![t] = n]
    /\ curspl' = SPL_HIGH
    /\ Goto(t, "clock_test")
    /\ UNCHANGED <<lists, numthreads, t_sleepaddr, pcb_ininterrupt,
                   lbolt_counter, newguy>>

\* Mutant: the loop tests its counter after the first sleep.
Bug_ClockSleepFirst(t) ==
    /\ Running(t)
    /\ pc[t] = "clock_test"
    /\ thread_sleep(lbolt)
    /\ Goto(t, "clock_dec")
    /\ UNCHANGED <<numthreads, irqvars, locals>>

ClockSleep(t) ==
    /\ Running(t)
    /\ pc[t] = "clock_test"
    /\ num_secs[t] > 0
    /\ thread_sleep(lbolt)
    /\ Goto(t, "clock_dec")
    /\ UNCHANGED <<numthreads, irqvars, locals>>

ClockDec(t) ==
    /\ Running(t)
    /\ pc[t] = "clock_dec"
    /\ num_secs' = [num_secs EXCEPT ![t] = @ - 1]
    /\ Goto(t, "clock_test")
    /\ UNCHANGED <<lists, numthreads, t_sleepaddr, irqvars, newguy>>

ClockReturn(t) ==
    /\ Running(t)
    /\ pc[t] = "clock_test"
    /\ num_secs[t] = 0
    /\ curspl' = 0
    /\ Goto(t, "run")
    /\ UNCHANGED <<lists, numthreads, t_sleepaddr, pcb_ininterrupt,
                   lbolt_counter, locals>>

\* thread_fork, first part: allocate the structure, with interrupts on.
ForkCreate(t, n) ==
    /\ InClient(t)
    /\ pc[n] = "none"
    /\ newguy' = [newguy EXCEPT ![t] = n]
    /\ pc' = [pc EXCEPT ![t] = "fork", ![n] = "embryo"]
    /\ UNCHANGED <<lists, numthreads, t_sleepaddr, irqvars, num_secs>>

\* thread_fork, the part between splhigh and splx: the new thread is ready.
ForkRun(t) ==
    /\ Running(t)
    /\ pc[t] = "fork"
    /\ runqueue' = Append(runqueue, newguy[t])
    /\ numthreads' = numthreads + 1
    /\ pc' = [pc EXCEPT ![t] = "run", ![newguy[t]] = "start"]
    /\ newguy' = [newguy EXCEPT ![t] = NULL]
    /\ UNCHANGED <<curthread, sleepers, zombies, t_sleepaddr, irqvars,
                   num_secs>>

\* thread_fork, when it cannot get memory for the stack or for the lists.
ForkFail(t) ==
    /\ Running(t)
    /\ pc[t] = "fork"
    /\ pc' = [pc EXCEPT ![t] = "run", ![newguy[t]] = "none"]
    /\ newguy' = [newguy EXCEPT ![t] = NULL]
    /\ UNCHANGED <<lists, numthreads, t_sleepaddr, irqvars, num_secs>>

\* Mutant: thread_exit does not count the thread out.
Bug_ExitNotCounted(t) ==
    /\ InClient(t)
    /\ t # Boot
    /\ curspl' = SPL_HIGH
    /\ SwitchZombie
    /\ Goto(t, "zombie")
    /\ UNCHANGED <<numthreads, t_sleepaddr, pcb_ininterrupt, lbolt_counter,
                   locals>>

\* thread_exit.  The first thread runs the menu and does not exit.
thread_exit(t) ==
    /\ InClient(t)
    /\ t # Boot
    /\ curspl' = SPL_HIGH
    /\ numthreads' = numthreads - 1
    /\ SwitchZombie
    /\ Goto(t, "zombie")
    /\ UNCHANGED <<t_sleepaddr, pcb_ininterrupt, lbolt_counter, locals>>
-----------------------------------------------------------------------------
\* Steps that bring a thread out of a routine it is in.
Resume(t) ==
    \/ mi_threadstart(t)
    \/ InterruptReturn(t)
    \/ YieldReturn(t)
    \/ ClockSleep(t)
    \/ ClockDec(t)
    \/ ClockReturn(t)

Kernel(t) ==
    \/ Resume(t)
    \/ thread_yield(t)
    \/ \E n \in 0 .. MaxSecs : clocksleep(t, n)
    \/ \E n \in Thread : ForkCreate(t, n)
    \/ ForkRun(t)
    \/ ForkFail(t)
    \/ thread_exit(t)

Next == Schedule \/ hardclock \/ \E t \in Thread : Kernel(t)

Spec == Init /\ [][Next]_threadVars

\* The timer is a device: an interrupt that is pending is taken as soon as
\* interrupts are on, however briefly (strong fairness).  The processor goes
\* on executing, so the scheduler and a thread inside a routine proceed.
Fairness ==
    /\ WF_threadVars(Schedule)
    /\ SF_threadVars(hardclock)
    /\ \A t \in Thread : WF_threadVars(Resume(t))

FairSpec == Spec /\ Fairness
-----------------------------------------------------------------------------
(* Properties                                                              *)

Labels == {"none", "embryo", "start", "run", "yield", "clock_test",
           "clock_dec", "fork", "zombie"}

ThreadTypeOK ==
    /\ curthread \in Thread \cup {NULL}
    /\ runqueue \in Seq(Thread)
    /\ sleepers \in Seq(Thread)
    /\ zombies \in Seq(Thread)
    /\ numthreads \in Nat
    /\ t_sleepaddr \in [Thread -> Addr \cup {NULL}]
    /\ pcb_ininterrupt \subseteq Thread
    /\ curspl \in {0, SPL_HIGH}
    /\ lbolt_counter \in 0 .. HZ - 1
    /\ num_secs \in [Thread -> Nat]
    /\ newguy \in [Thread -> Thread \cup {NULL}]

\* Type invariant of the thread system's state.
TypeOK == ThreadTypeOK /\ pc \in [Thread -> Labels]

\* Every live thread is in exactly one place: it is current, or it is once on
\* exactly one of the run queue, sleepers and zombies; and no list, and not
\* curthread, refers to a structure that is freed or half made.  This is what
\* mi_switch, thread_wakeup, thread_fork and exorcise keep between them; a
\* thread in two places would run on one stack twice.
OnePlace ==
    /\ NoDup(runqueue) /\ NoDup(sleepers) /\ NoDup(zombies)
    /\ Elems(runqueue) \cap Elems(sleepers) = {}
    /\ curthread \notin Elems(runqueue) \cup Elems(sleepers)
    /\ Elems(zombies) = {t \in Thread : pc[t] = "zombie"}
    /\ Elems(runqueue) \cup Elems(sleepers) \cup ({curthread} \ {NULL}) = Live

\* numthreads is the number of threads that have not exited; thread_fork
\* sizes the lists by it (thread.c: "Does not count zombies[]").
NumthreadsExact == numthreads = Cardinality(Live)

\* A thread is preempted only in code that runs with interrupts on: no thread
\* is switched out by the timer in the middle of a section between splhigh
\* and splx, and at spl 0 the current thread is in no such section.
CriticalNotPreempted ==
    /\ \A t \in pcb_ininterrupt : pc[t] \in {"run", "fork"}
    /\ curspl = 0 => curthread # NULL /\ pc[curthread] \in {"run", "fork"}

\* A thread that is neither current nor dead is stopped inside mi_switch: it
\* is new, or was preempted, or yielded, or waits for lbolt; and a sleeping
\* thread has the address that will wake it.
StoppedInSwitch ==
    /\ \A t \in Elems(runqueue) :
          \/ pc[t] \in {"start", "yield", "clock_dec"}
          \/ t \in pcb_ininterrupt
    /\ \A t \in Elems(sleepers) :
          pc[t] = "clock_dec" /\ t_sleepaddr[t] = lbolt

\* Round robin starves nobody: a thread on the run queue gets the processor.
ReadyRuns ==
    \A t \in Thread : t \in Elems(runqueue) ~> curthread = t

\* The structure of every thread that exits is freed by a later exorcise,
\* although new threads skip it.
ZombiesFreed ==
    \A t \in Thread : pc[t] = "zombie" ~> pc[t] = "none"

\* clocksleep returns: the lbolt wakeup reaches every sleeper, and one that
\* has more seconds to sleep is not forgotten between two of them.
ClocksleepReturns ==
    \A t \in Thread : pc[t] \in {"clock_test", "clock_dec"} ~> pc[t] = "run"
=============================================================================
