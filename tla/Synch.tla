------------------------------- MODULE Synch --------------------------------
(***************************************************************************)
(* Semaphores, locks and condition variables (kern/thread/synch.c) on top  *)
(* of the thread system.  The threads are arbitrary clients: a thread in   *)
(* client code makes any call, also a lock_release of a lock it does not   *)
(* hold and a second lock_acquire of one it does.  Device interrupts call  *)
(* V.  The only calls a client does not make are the ones that stop the    *)
(* kernel in an assertion: the cv_ operations without holding the lock.    *)
(*                                                                         *)
(* Each routine is split at the points where interrupts would matter if    *)
(* they were on, so that what it relies on is its splhigh and not the      *)
(* grain of the model.                                                     *)
(***************************************************************************)
EXTENDS Threads

CONSTANTS Sem, Lock, CV,  \* the primitives; a primitive is its sleep address
          InitCount,      \* [Sem -> Nat]
          MaxCount,       \* bound: clients do not V a semaphore above it
          Garbage         \* what lock_create leaves in heldThread: 0, as
                          \* alloc_kpages clears pages, or 0xdeadbeef, as
                          \* kfree fills blocks; never a thread's address

ASSUME SynchAssumption ==
    /\ Sem \cup Lock \cup CV \subseteq Addr \ {lbolt}
    /\ Sem \cap Lock = {} /\ Sem \cap CV = {} /\ Lock \cap CV = {}
    /\ InitCount \in [Sem -> Nat]
    /\ MaxCount \in Nat
    /\ Garbage \notin Thread

VARIABLES
    count,       \* semaphores
    held,        \* locks: 0 or 1
    heldThread,
    on,          \* the primitive a thread's call is about
    lk,          \* the lock argument of a thread's cv_ call
    owned        \* history: the locks a thread has acquired and not given up

objVars   == <<count, held, heldThread>>
callVars  == <<on, lk, owned>>
synchVars == <<objVars, callVars>>
allVars   == <<threadVars, synchVars>>

SynchInit ==
    /\ Init
    /\ count = InitCount
    /\ held = [l \in Lock |-> 0]
    /\ heldThread = [l \in Lock |-> Garbage]
    /\ on = [t \in Thread |-> NULL]
    /\ lk = [t \in Thread |-> NULL]
    /\ owned = [t \in Thread |-> {}]
-----------------------------------------------------------------------------
\* Enter a routine on primitive o: spl = splhigh().
Enter(t, o, label) ==
    /\ InClient(t)
    /\ curspl' = SPL_HIGH
    /\ on' = [on EXCEPT ![t] = o]
    /\ Goto(t, label)
    /\ UNCHANGED <<lists, numthreads, t_sleepaddr, pcb_ininterrupt,
                   lbolt_counter, locals, objVars>>

\* t is executing at the given label.
At(t, label) == Running(t) /\ pc[t] = label

\* Go on inside a routine; the thread system's state does not change.
Proceed(t, label) ==
    /\ Goto(t, label)
    /\ UNCHANGED <<lists, numthreads, t_sleepaddr, irqvars, locals>>

\* Leave a routine: splx(spl), and return to the client.
Leave(t) ==
    /\ curspl' = 0
    /\ on' = [on EXCEPT ![t] = NULL]
    /\ lk' = [lk EXCEPT ![t] = NULL]
    /\ Goto(t, "run")
    /\ UNCHANGED <<numthreads, t_sleepaddr, pcb_ininterrupt, lbolt_counter,
                   locals>>

\* Sleep on a inside a routine, and go on at label when woken.
Block(t, a, label) ==
    /\ thread_sleep(a)
    /\ Goto(t, label)
    /\ UNCHANGED <<numthreads, irqvars, locals, objVars, lk, owned>>
-----------------------------------------------------------------------------
(* Semaphores                                                              *)

\* Mutant: P without splhigh.
Bug_PNoSpl(t, s) ==
    /\ InClient(t)
    /\ on' = [on EXCEPT ![t] = s]
    /\ Proceed(t, "P_test")
    /\ UNCHANGED <<objVars, lk, owned>>

PCall(t, s) ==
    /\ Enter(t, s, "P_test")
    /\ UNCHANGED <<lk, owned>>

PTest(t) ==
    /\ At(t, "P_test")
    /\ Proceed(t, IF count[on[t]] = 0 THEN "P_sleep" ELSE "P_dec")
    /\ UNCHANGED synchVars

\* Mutant: "if" instead of "while": woken, P does not look at the count.
Bug_PSleepOnce(t) ==
    /\ At(t, "P_sleep")
    /\ Block(t, on[t], "P_dec")
    /\ UNCHANGED on

PSleep(t) ==
    /\ At(t, "P_sleep")
    /\ Block(t, on[t], "P_test")
    /\ UNCHANGED on

PDec(t) ==
    /\ At(t, "P_dec")
    /\ count' = [count EXCEPT ![on[t]] = @ - 1]
    /\ Leave(t)
    /\ UNCHANGED <<lists, held, heldThread, owned>>

VCall(t, s) ==
    /\ count[s] < MaxCount
    /\ Enter(t, s, "V_body")
    /\ UNCHANGED <<lk, owned>>

VBody(t) ==
    /\ At(t, "V_body")
    /\ count' = [count EXCEPT ![on[t]] = @ + 1]
    /\ thread_wakeup(on[t])
    /\ Leave(t)
    /\ UNCHANGED <<held, heldThread, owned>>

\* A device's interrupt handler calls V, in whatever context it interrupts.
VFromInterrupt(s) ==
    /\ TakesInterrupt
    /\ count[s] < MaxCount
    /\ count' = [count EXCEPT ![s] = @ + 1]
    /\ thread_wakeup(s)
    /\ UNCHANGED <<numthreads, t_sleepaddr, irqvars, pc, locals, held,
                   heldThread, callVars>>
-----------------------------------------------------------------------------
(* Locks                                                                   *)

AcquireCall(t, l) ==
    /\ Enter(t, l, "A_test")
    /\ UNCHANGED <<lk, owned>>

AcquireTest(t) ==
    /\ At(t, "A_test")
    /\ Proceed(t, IF held[on[t]] = 1 THEN "A_sleep" ELSE "A_take")
    /\ UNCHANGED synchVars

\* Mutant: "if" instead of "while" in lock_acquire.
Bug_AcquireSleepOnce(t) ==
    /\ At(t, "A_sleep")
    /\ Block(t, on[t], "A_take")
    /\ UNCHANGED on

AcquireSleep(t) ==
    /\ At(t, "A_sleep")
    /\ Block(t, on[t], "A_test")
    /\ UNCHANGED on

AcquireTake(t) ==
    /\ At(t, "A_take")
    /\ held' = [held EXCEPT ![on[t]] = 1]
    /\ heldThread' = [heldThread EXCEPT ![on[t]] = t]
    /\ owned' = [owned EXCEPT ![t] = @ \cup {on[t]}]
    /\ Leave(t)
    /\ UNCHANGED <<lists, count>>

ReleaseCall(t, l) ==
    /\ Enter(t, l, "R_body")
    /\ owned' = [owned EXCEPT ![t] = @ \ {l}]
    /\ UNCHANGED lk

\* Mutant: lock_release leaves the old holder's name in the lock.
Bug_FreeKeepsHolder(l) ==
    /\ held' = [held EXCEPT ![l] = 0]
    /\ UNCHANGED heldThread
    /\ thread_wakeup(l)

\* The part of lock_release that is done by the thread that holds l.
Free(l) ==
    /\ held' = [held EXCEPT ![l] = 0]
    /\ heldThread' = [heldThread EXCEPT ![l] = NULL]
    /\ thread_wakeup(l)

\* Mutant: lock_release does not check who calls it.
Bug_AnyoneReleases(t) ==
    /\ At(t, "R_body")
    /\ Free(on[t])
    /\ Leave(t)
    /\ UNCHANGED <<count, owned>>

ReleaseBody(t) ==
    /\ At(t, "R_body")
    /\ IF heldThread[on[t]] = t
       THEN Free(on[t])
       ELSE UNCHANGED <<lists, held, heldThread>>
    /\ Leave(t)
    /\ UNCHANGED <<count, owned>>
-----------------------------------------------------------------------------
(* Condition variables                                                     *)

lock_do_i_hold(t, l) == heldThread[l] = t

WaitCall(t, c, l) ==
    /\ lock_do_i_hold(t, l)
    /\ Enter(t, c, "W_release")
    /\ lk' = [lk EXCEPT ![t] = l]
    /\ owned' = [owned EXCEPT ![t] = @ \ {l}]

\* Mutant: the lock_release inside cv_wait turns interrupts on.
Bug_WaitReleaseSpl0(t) ==
    /\ At(t, "W_release")
    /\ Free(lk[t])
    /\ Goto(t, "W_sleep")
    /\ curspl' = 0
    /\ UNCHANGED <<numthreads, t_sleepaddr, pcb_ininterrupt, lbolt_counter,
                   locals, count, callVars>>

WaitRelease(t) ==
    /\ At(t, "W_release")
    /\ Free(lk[t])
    /\ Goto(t, "W_sleep")
    /\ UNCHANGED <<numthreads, t_sleepaddr, irqvars, locals, count, callVars>>

\* Woken, the thread goes on to lock_acquire.
WaitSleep(t) ==
    /\ At(t, "W_sleep")
    /\ Block(t, on[t], "A_test")
    /\ on' = [on EXCEPT ![t] = lk[t]]

SignalCall(t, c, l) ==
    /\ lock_do_i_hold(t, l)
    /\ Enter(t, c, "S_body")
    /\ UNCHANGED <<lk, owned>>

\* Mutant: cv_signal looks at the first sleeper only.
Bug_SignalFirstOnly(t) ==
    /\ At(t, "S_body")
    /\ IF sleepers # <<>> /\ t_sleepaddr[Head(sleepers)] = on[t]
       THEN thread_wakeupOne(on[t])
       ELSE UNCHANGED lists
    /\ Leave(t)
    /\ UNCHANGED <<objVars, owned>>

SignalBody(t) ==
    /\ At(t, "S_body")
    /\ thread_wakeupOne(on[t])
    /\ Leave(t)
    /\ UNCHANGED <<objVars, owned>>

BroadcastCall(t, c, l) ==
    /\ lock_do_i_hold(t, l)
    /\ Enter(t, c, "B_body")
    /\ UNCHANGED <<lk, owned>>

BroadcastBody(t) ==
    /\ At(t, "B_body")
    /\ thread_wakeup(on[t])
    /\ Leave(t)
    /\ UNCHANGED <<objVars, owned>>
-----------------------------------------------------------------------------
SemStep(t) ==
    \/ \E s \in Sem : PCall(t, s) \/ VCall(t, s)
    \/ PTest(t) \/ PSleep(t) \/ PDec(t) \/ VBody(t)

LockStep(t) ==
    \/ \E l \in Lock : AcquireCall(t, l) \/ ReleaseCall(t, l)
    \/ AcquireTest(t) \/ AcquireSleep(t) \/ AcquireTake(t) \/ ReleaseBody(t)

CVStep(t) ==
    \/ \E c \in CV, l \in Lock :
          WaitCall(t, c, l) \/ SignalCall(t, c, l) \/ BroadcastCall(t, c, l)
    \/ WaitRelease(t) \/ WaitSleep(t) \/ SignalBody(t) \/ BroadcastBody(t)

\* The thread system's own steps.  A client releases its locks before it
\* exits.
ThreadStep ==
    /\ \/ Schedule
       \/ hardclock
       \/ \E t \in Thread : Kernel(t) /\ (pc'[t] = "zombie" => owned[t] = {})
    /\ UNCHANGED synchVars

SynchNext ==
    \/ ThreadStep
    \/ \E s \in Sem : VFromInterrupt(s)
    \/ \E t \in Thread : SemStep(t) \/ LockStep(t) \/ CVStep(t)

SynchSpec == SynchInit /\ [][SynchNext]_allVars
-----------------------------------------------------------------------------
(* Properties                                                              *)

SynchLabels == Labels \cup
    {"P_test", "P_sleep", "P_dec", "V_body", "A_test", "A_sleep", "A_take",
     "R_body", "W_release", "W_sleep", "S_body", "B_body"}

\* Type invariant: in particular no semaphore's count is ever negative.
SynchTypeOK ==
    /\ ThreadTypeOK
    /\ pc \in [Thread -> SynchLabels]
    /\ count \in [Sem -> Nat]
    /\ held \in [Lock -> {0, 1}]
    /\ heldThread \in [Lock -> Thread \cup {NULL, Garbage}]
    /\ on \in [Thread -> Sem \cup Lock \cup CV \cup {NULL}]
    /\ lk \in [Thread -> Lock \cup {NULL}]
    /\ owned \in [Thread -> SUBSET Lock]

\* Mutual exclusion: between the return of lock_acquire or cv_wait and its
\* next lock_release or cv_wait on that lock, a thread is the only one there,
\* and lock_do_i_hold tells it so.
MutualExclusion ==
    \A t \in Thread : \A l \in owned[t] :
        /\ held[l] = 1 /\ lock_do_i_hold(t, l)
        /\ \A u \in Thread \ {t} : l \notin owned[u]

\* No lost wakeup: no thread sleeps in P on a semaphore that is available, or
\* in lock_acquire on a lock that is free.  The test, the decision to sleep and
\* the entry in sleepers are separate steps, and so are a V or lock_release.
NoLostWakeup ==
    \A t \in Elems(sleepers) :
        /\ t_sleepaddr[t] \in Sem => count[t_sleepaddr[t]] = 0
        /\ t_sleepaddr[t] \in Lock => held[t_sleepaddr[t]] = 1

\* The fields of a lock agree: a held lock names a thread that exists and has
\* not exited, a free one names none, although lock_create leaves heldThread
\* uninitialised.
LockFieldsAgree ==
    \A l \in Lock : IF held[l] = 1 THEN heldThread[l] \in Live
                                   ELSE heldThread[l] \in {NULL, Garbage}

\* The routines of synch.c are not preempted between splhigh and splx: a
\* thread that the timer has switched out was in client code or in the part
\* of thread_fork that runs with interrupts on.
SynchNotPreempted ==
    /\ \A t \in pcb_ininterrupt : pc[t] \in {"run", "fork"}
    /\ curspl = 0 => curthread # NULL /\ pc[curthread] \in {"run", "fork"}

\* A held lock is only freed by the thread that holds it, whatever calls of
\* lock_release the others make (synch.h: "Only the thread holding the lock
\* may do this").
OnlyHolderReleases ==
    [][\A l \in Lock : held[l] = 1 /\ held'[l] = 0
                         => curthread = heldThread[l]]_allVars

\* No lost signal: no other thread signals or broadcasts while a thread in
\* cv_wait has released its lock and is not yet among the sleepers, where
\* thread_wakeup would miss it.  The lock is free there, and lock_release has
\* ended with an splx of its own.
NoLostSignal ==
    \A t, u \in Thread :
        pc[t] = "W_sleep" => pc[u] \notin {"S_body", "B_body"}

\* The abstract call a thread is in.  A thread in cv_wait has released the
\* lock and waits from "W_sleep" until a wakeup takes it off sleepers.
CallOf(t) ==
    CASE pc[t] \in {"P_test", "P_sleep", "P_dec"} -> <<"P", on[t]>>
      [] pc[t] = "W_sleep" -> <<"wait", on[t], lk[t]>>
      [] pc[t] \in {"A_test", "A_sleep", "A_take"} ->
            IF t \in Elems(sleepers) /\ t_sleepaddr[t] \in CV
            THEN <<"wait", t_sleepaddr[t], on[t]>>
            ELSE <<"acquire", on[t]>>
      [] pc[t] = "V_body" -> <<"V", on[t]>>
      [] pc[t] = "R_body" -> <<"release", on[t]>>
      [] pc[t] = "S_body" -> <<"signal", on[t]>>
      [] pc[t] = "B_body" -> <<"broadcast", on[t]>>
      [] OTHER -> <<"idle">>

Abs == INSTANCE SynchAbs WITH
    holder <- [l \in Lock |-> IF held[l] = 1 THEN heldThread[l] ELSE NULL],
    call <- [t \in Thread |-> CallOf(t)]

\* The routines of synch.c implement the atomic operations synch.h describes:
\* a call returns only when it has had its effect, which it has in one step.
\* In particular cv_wait releases the lock and begins to wait in one step; when
\* cv_signal returns it has woken exactly one of the threads that were waiting,
\* if any was, and cv_broadcast all of them, also one that has only just
\* released its lock.
ImplementsAbs == Abs!Spec
=============================================================================
