----------------------------- MODULE ProcTable ------------------------------
(***************************************************************************)
(* The process table: thread_create, thread_fork and thread_exit           *)
(* (kern/thread/thread.c) as far as they use it, and the system calls      *)
(* fork, _exit and waitpid (kern/arch/mips/mips/syscall.c).  A process is  *)
(* its pid.  System calls run with interrupts on, so the steps of the      *)
(* processes interleave; a process only writes its own list of children.   *)
(*                                                                         *)
(* childIDs has MAX_NUM_CHILD elements, but the allocator hands out larger *)
(* blocks (10 ints are rounded up to 16), and the code does reach the      *)
(* elements behind the last one.  SLOTS is the size of the block; a        *)
(* process forks only while the index it is about to write is inside it.   *)
(***************************************************************************)
EXTENDS Integers, FiniteSetsExt

CONSTANTS P_TABLE_SIZE, MAX_NUM_CHILD,
          SLOTS,       \* ints in the block that holds childIDs
          WAIT_SECS,   \* seconds waitpid waits: 30 in the code
          Code         \* exit codes

ASSUME ProcAssumption ==
    /\ P_TABLE_SIZE \in Nat \ {0, 1}
    /\ MAX_NUM_CHILD \in Nat \ {0, 1}
    /\ SLOTS \in Nat /\ SLOTS > MAX_NUM_CHILD
    /\ WAIT_SECS \in Nat
    /\ 0 \in Code /\ Code \subseteq Int

Pid == 1 .. P_TABLE_SIZE - 1

VARIABLES
    used,             \* the entries whose pid is not -1
    status,           \* 0 unused, 1 active, 2 used
    exitCode,
    numOfChild,
    childIDs,         \* per entry, [0 .. SLOTS - 1 -> Int]
    has_been_waited,
    pc,
    target,           \* the pid a process is forking or waiting for
    slot,             \* waitpid's j
    secs,             \* waitpid's s
    parent,           \* history: who forked a process
    passed,           \* history: the code a process's _exit was called with
    killed            \* history: why a process died of a fault in fork, or "no"

table == <<used, status, exitCode, numOfChild, childIDs, has_been_waited>>
calls == <<target, slot, secs>>
history == <<parent, passed, killed>>
vars == <<table, pc, calls, history>>

\* initialize_Process_Table and thread_bootstrap: process 1 is its own child.
Init ==
    /\ used = {1}
    /\ status = [i \in Pid |-> IF i = 1 THEN 1 ELSE 0]
    /\ exitCode = [i \in Pid |-> 0]
    /\ numOfChild = [i \in Pid |-> IF i = 1 THEN 2 ELSE 0]
    /\ childIDs = [i \in Pid |-> [j \in 0 .. SLOTS - 1 |->
                                    IF i = 1 /\ j = 1 THEN 1 ELSE 0]]
    /\ has_been_waited = [i \in Pid |-> 0]
    /\ pc = [i \in Pid |-> IF i = 1 THEN "run" ELSE "none"]
    /\ target = [i \in Pid |-> 0]
    /\ slot = [i \in Pid |-> 0]
    /\ secs = [i \in Pid |-> 0]
    /\ parent = [i \in Pid |-> 0]
    /\ passed = [i \in Pid |-> 0]
    /\ killed = [i \in Pid |-> "no"]
-----------------------------------------------------------------------------
At(p, label) == pc[p] = label

(* fork                                                                    *)

\* The first element of p's childIDs that is v, or MAX_NUM_CHILD.
Find(p, v) ==
    Min({j \in 0 .. MAX_NUM_CHILD - 1 : childIDs[p][j] = v}
          \cup {MAX_NUM_CHILD})

\* thread_create takes the first free entry, with interrupts off, and
\* thread_fork counts and records the child.
ForkCreate(p) ==
    /\ At(p, "run")
    /\ numOfChild[p] + 1 < SLOTS
    /\ Pid \ used # {}
    /\ LET i == Min(Pid \ used) IN
       /\ used' = used \cup {i}
       /\ status' = [status EXCEPT ![i] = 1]
       /\ exitCode' = [exitCode EXCEPT ![i] = 0]
       /\ numOfChild' = [numOfChild EXCEPT ![i] = 0, ![p] = @ + 1]
       /\ childIDs' = [childIDs EXCEPT ![p][Find(p, 0)] = i]
       /\ target' = [target EXCEPT ![p] = i]
       /\ parent' = [parent EXCEPT ![i] = p]
       /\ pc' = [pc EXCEPT ![p] = "fork", ![i] = "embryo"]
    /\ UNCHANGED <<has_been_waited, slot, secs, passed, killed>>

\* thread_create gives no thread, but thread_fork has counted the child when it
\* reads newguy->pid: the read faults, and mips_trap ends the process with
\* _exit(0).  The other processes go on.
DiesInFork(p, why) ==
    /\ At(p, "run")
    /\ numOfChild' = [numOfChild EXCEPT ![p] = @ + 1]
    /\ exitCode' = [exitCode EXCEPT ![p] = 0]
    /\ passed' = [passed EXCEPT ![p] = 0]
    /\ killed' = [killed EXCEPT ![p] = why]
    /\ UNCHANGED <<used, childIDs, has_been_waited, calls, parent>>

\* The table is full: thread_create returns the number EAGAIN as a pointer,
\* with interrupts off.  They stay off until the process is a zombie.
ForkFull(p) ==
    /\ Pid \ used = {}
    /\ DiesInFork(p, "full")
    /\ status' = [status EXCEPT ![p] = 2]
    /\ pc' = [pc EXCEPT ![p] = "zombie"]

\* thread_create is out of memory and returns NULL, with interrupts on; the
\* test of newguy comes after the read.
ForkNoMem(p) ==
    /\ DiesInFork(p, "nomem")
    /\ pc' = [pc EXCEPT ![p] = "exit"]
    /\ UNCHANGED status

\* thread_fork records the child a second time.
RecordAgain(p) ==
    /\ childIDs' = [childIDs EXCEPT ![p][numOfChild[p]] = target[p]]
    /\ numOfChild' = [numOfChild EXCEPT ![p] = @ + 1]

\* The rest of thread_fork: the child runs.
ForkRun(p) ==
    /\ At(p, "fork")
    /\ RecordAgain(p)
    /\ pc' = [pc EXCEPT ![p] = "fork_ret", ![target[p]] = "run"]
    /\ UNCHANGED <<used, status, exitCode, has_been_waited, calls, history>>

\* thread_fork gets no memory for the stack, or for the thread lists: it frees
\* the new thread and returns an error.
ForkFail(p) ==
    /\ At(p, "fork")
    /\ RecordAgain(p) \/ UNCHANGED <<childIDs, numOfChild>>
    /\ pc' = [pc EXCEPT ![p] = "run", ![target[p]] = "none"]
    /\ UNCHANGED <<used, status, exitCode, has_been_waited, calls, history>>

\* fork reads child_process_ptr->pid and returns it.
ForkReturn(p) ==
    /\ At(p, "fork_ret")
    /\ pc' = [pc EXCEPT ![p] = "run"]
    /\ UNCHANGED <<table, calls, history>>
-----------------------------------------------------------------------------
(* _exit                                                                   *)

\* Mutant: _exit stores the code after thread_exit has marked the entry.
Bug_ExitCodeLate(p, c) ==
    /\ At(p, "run")
    /\ p # 1
    /\ passed' = [passed EXCEPT ![p] = c]
    /\ status' = [status EXCEPT ![p] = 2]
    /\ pc' = [pc EXCEPT ![p] = "exit"]
    /\ UNCHANGED <<used, exitCode, numOfChild, childIDs, has_been_waited,
                   calls, parent, killed>>

\* _exit stores the code with interrupts on; kill_curthread calls it with 0.
\* Process 1 runs the menu, which does not exit: it only dies in a fork.
ExitCall(p, c) ==
    /\ At(p, "run")
    /\ p # 1
    /\ exitCode' = [exitCode EXCEPT ![p] = c]
    /\ passed' = [passed EXCEPT ![p] = c]
    /\ pc' = [pc EXCEPT ![p] = "exit"]
    /\ UNCHANGED <<used, status, numOfChild, childIDs, has_been_waited, calls,
                   parent, killed>>

thread_exit(p) ==
    /\ At(p, "exit")
    /\ status' = [status EXCEPT ![p] = 2]
    /\ pc' = [pc EXCEPT ![p] = "zombie"]
    /\ UNCHANGED <<used, exitCode, numOfChild, childIDs, has_been_waited,
                   calls, history>>

\* exorcise frees the thread structure; the entry of the table stays.
Freed(p) ==
    /\ At(p, "zombie")
    /\ pc' = [pc EXCEPT ![p] = "freed"]
    /\ UNCHANGED <<table, calls, history>>
-----------------------------------------------------------------------------
(* waitpid                                                                 *)

\* Mutant: waitpid does not look at the number of children.
Bug_RefusedNoCount(p, i) ==
    \/ i >= P_TABLE_SIZE
    \/ i = p
    \/ i \notin used
    \/ has_been_waited[i] = 1
    \/ Find(p, i) = MAX_NUM_CHILD - 1

\* The tests of waitpid(i), with usable status and options arguments, that
\* make it return EINVAL and change nothing.  The last two are meant to keep
\* out a pid that is not a child of p.
Refused(p, i) ==
    \/ i >= P_TABLE_SIZE
    \/ i = p
    \/ i \notin used
    \/ has_been_waited[i] = 1
    \/ Find(p, i) = MAX_NUM_CHILD - 1
    \/ numOfChild[p] < 1

WaitCall(p, i) ==
    /\ At(p, "run")
    /\ ~Refused(p, i)
    /\ target' = [target EXCEPT ![p] = i]
    /\ slot' = [slot EXCEPT ![p] = Find(p, i)]
    /\ secs' = [secs EXCEPT ![p] = 0]
    /\ pc' = [pc EXCEPT ![p] = "wait_status"]
    /\ UNCHANGED <<table, history>>

\* child_status is read once; a child that is still running is polled.
WaitStatus(p) ==
    /\ At(p, "wait_status")
    /\ pc' = [pc EXCEPT ![p] = IF status[target[p]] = 2 THEN "collect"
                                                        ELSE "wait_poll"]
    /\ UNCHANGED <<table, calls, history>>

\* Mutant: waitpid polls until the child exits.
Bug_PollForever(p) ==
    /\ At(p, "wait_poll")
    /\ IF status[target[p]] = 2 THEN pc' = [pc EXCEPT ![p] = "collect"]
                                ELSE UNCHANGED pc
    /\ UNCHANGED <<table, calls, history>>

\* One turn of the loop: clocksleep(1), then look at the status again.
WaitPoll(p) ==
    /\ At(p, "wait_poll")
    /\ secs[p] < WAIT_SECS
    /\ secs' = [secs EXCEPT ![p] = @ + 1]
    /\ IF status[target[p]] = 2 THEN pc' = [pc EXCEPT ![p] = "collect"]
                                ELSE UNCHANGED pc
    /\ UNCHANGED <<table, target, slot, history>>

\* After the loop: waitpid gives up and returns -1.
WaitTimeout(p) ==
    /\ At(p, "wait_poll")
    /\ secs[p] = WAIT_SECS
    /\ pc' = [pc EXCEPT ![p] = "run"]
    /\ UNCHANGED <<table, calls, history>>

\* waitpid hands over exitCode and strikes the child off the list.
Collect(p) ==
    /\ At(p, "collect")
    /\ childIDs' = [childIDs EXCEPT ![p][slot[p]] = -1]
    /\ numOfChild' = [numOfChild EXCEPT ![p] = @ - 1]
    /\ has_been_waited' = [has_been_waited EXCEPT ![target[p]] = 1]
    /\ pc' = [pc EXCEPT ![p] = "run"]
    /\ UNCHANGED <<used, status, exitCode, calls, history>>
-----------------------------------------------------------------------------
InWait(p) == WaitStatus(p) \/ WaitPoll(p) \/ WaitTimeout(p) \/ Collect(p)

Step(p) ==
    \/ ForkCreate(p) \/ ForkFull(p) \/ ForkNoMem(p)
    \/ ForkRun(p) \/ ForkFail(p) \/ ForkReturn(p)
    \/ \E c \in Code : ExitCall(p, c)
    \/ thread_exit(p) \/ Freed(p)
    \/ \E i \in 0 .. P_TABLE_SIZE : WaitCall(p, i)
    \/ InWait(p)

Next == \E p \in Pid : Step(p)

Spec == Init /\ [][Next]_vars

\* A process inside waitpid goes on: clocksleep returns (Threads:
\* ClocksleepReturns).
FairSpec == Spec /\ \A p \in Pid : WF_vars(InWait(p))
-----------------------------------------------------------------------------
(* Properties                                                              *)

\* Type invariant.  The indices used with childIDs stay inside the block, and
\* numOfChild does not become negative (SLOTS + 1: a process that is killed in
\* fork has counted one more child and stores it nowhere).
TypeOK ==
    /\ used \subseteq Pid
    /\ status \in [Pid -> 0 .. 2]
    /\ exitCode \in [Pid -> Code]
    /\ numOfChild \in [Pid -> 0 .. SLOTS + 1]
    /\ childIDs \in [Pid -> [0 .. SLOTS - 1 -> -1 .. P_TABLE_SIZE - 1]]
    /\ has_been_waited \in [Pid -> {0, 1}]
    /\ target \in [Pid -> 0 .. P_TABLE_SIZE - 1]
    /\ slot \in [Pid -> 0 .. MAX_NUM_CHILD]
    /\ secs \in [Pid -> 0 .. WAIT_SECS]
    /\ killed \in [Pid -> {"no", "full", "nomem"}]

\* waitpid reports only the exit of a process that has exited, with the code
\* its _exit was called with, by the process itself or by mips_trap: the status
\* and the code are written and read in separate steps, without a lock.
ExitCodeDelivered ==
    \A p \in Pid : pc[p] = "collect" =>
        /\ status[target[p]] = 2
        /\ exitCode[target[p]] = passed[target[p]]

\* waitpid returns, whatever the other processes do: two processes that wait
\* for each other are not stuck (syscall.c: "This is to prevent child dead
\* lock condition"), nor is one that waits for a process that never exits or
\* that dies of a fault.
WaitReturns ==
    \A p \in Pid :
        pc[p] \in {"wait_status", "wait_poll", "collect"} ~> pc[p] = "run"

\* Only the parent collects a process's exit code (syscall.c: "The only
\* process that is expected to collect another process's exit status is its
\* parent").
OnlyParentCollects ==
    \A p \in Pid : pc[p] = "collect" => parent[target[p]] = p

\* A process may wait for a child whose exit code nobody has collected: the
\* tests of waitpid do not take it for somebody else's child (syscall.c: "this
\* pid is not my child").
ParentMayWait ==
    \A p \in Pid : pc[p] = "run" =>
        \A i \in Pid : parent[i] = p /\ pc[i] \in {"run", "exit", "zombie"}
                       /\ has_been_waited[i] = 0 => ~Refused(p, i)

\* A fork that fails leaves no process behind (syscall.c: "On error, no new
\* process is created"): an active entry belongs to a thread.
FailedForkLeavesNothing ==
    \A i \in Pid : status[i] = 1 => pc[i] # "none"

\* When there are too many processes fork returns an error (syscall.c: "EAGAIN
\* Too many processes already exist"): no process ends because the table was
\* full when it called fork.
FullIsAnError == \A p \in Pid : status[p] = 2 => killed[p] # "full"

\* When there is no memory fork returns an error (syscall.c: "ENOMEM
\* Sufficient virtual memory for the new process was not available"): no
\* process ends because of it.
NoMemIsAnError == \A p \in Pid : status[p] = 2 => killed[p] # "nomem"

\* fork looks at the child's thread structure only while the child exists
\* (thread.c: "using the thread structure from the parent thread should be
\* done only with caution").
ForkReadsLiveChild ==
    \A p \in Pid : pc[p] = "fork_ret" => pc[target[p]] # "freed"
=============================================================================
