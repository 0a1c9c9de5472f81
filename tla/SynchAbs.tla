------------------------------ MODULE SynchAbs ------------------------------
(***************************************************************************)
(* What include/synch.h promises of semaphores, locks and condition        *)
(* variables, with no scheduler, no interrupts and no wait queues: every   *)
(* operation takes effect in one step.  Condition variables have Mesa      *)
(* semantics: a signalled thread competes for its lock again.  The call a  *)
(* thread is in is part of the state: its return is a step, which has to   *)
(* have the effect of the operation and cannot be a stutter.               *)
(***************************************************************************)
EXTENDS Naturals

CONSTANTS Thread, Sem, Lock, CV, InitCount, NULL

VARIABLES count,   \* [Sem -> Nat]
          holder,  \* [Lock -> Thread \cup {NULL}]
          call     \* the call each thread is in

vars == <<count, holder, call>>

Idle == <<"idle">>

Init ==
    /\ count = InitCount
    /\ holder = [l \in Lock |-> NULL]
    /\ call = [t \in Thread |-> Idle]

Set(t, c) == call' = [call EXCEPT ![t] = c]

\* "P: decrement count. If the count is 0, block until the count is 1 again"
P(t, s) ==
    /\ call[t] = Idle
    /\ Set(t, <<"P", s>>)
    /\ UNCHANGED <<count, holder>>

PDone(t, s) ==
    /\ call[t] = <<"P", s>>
    /\ count[s] > 0
    /\ count' = [count EXCEPT ![s] = @ - 1]
    /\ Set(t, Idle)
    /\ UNCHANGED holder

\* "V: increment count", by a thread
V(t, s) ==
    /\ call[t] = Idle
    /\ Set(t, <<"V", s>>)
    /\ UNCHANGED <<count, holder>>

VDone(t, s) ==
    /\ call[t] = <<"V", s>>
    /\ count' = [count EXCEPT ![s] = @ + 1]
    /\ Set(t, Idle)
    /\ UNCHANGED holder

\* V by an interrupt handler
VFromInterrupt(s) ==
    /\ count' = [count EXCEPT ![s] = @ + 1]
    /\ UNCHANGED <<holder, call>>

\* "Get the lock. Only one thread can hold the lock at the same time."
Acquire(t, l) ==
    /\ call[t] = Idle
    /\ Set(t, <<"acquire", l>>)
    /\ UNCHANGED <<count, holder>>

AcquireDone(t, l) ==
    /\ call[t] = <<"acquire", l>>
    /\ holder[l] = NULL
    /\ holder' = [holder EXCEPT ![l] = t]
    /\ Set(t, Idle)
    /\ UNCHANGED count

\* "Free the lock. Only the thread holding the lock may do this."
Release(t, l) ==
    /\ call[t] = Idle
    /\ Set(t, <<"release", l>>)
    /\ UNCHANGED <<count, holder>>

ReleaseDone(t, l) ==
    /\ call[t] = <<"release", l>>
    /\ holder' = [holder EXCEPT ![l] = IF @ = t THEN NULL ELSE @]
    /\ Set(t, Idle)
    /\ UNCHANGED count

\* "Release the supplied lock, go to sleep": one indivisible step.
Wait(t, c, l) ==
    /\ call[t] = Idle
    /\ holder[l] = t
    /\ holder' = [holder EXCEPT ![l] = NULL]
    /\ Set(t, <<"wait", c, l>>)
    /\ UNCHANGED count

Waiters(c) == {u \in Thread : \E l \in Lock : call[u] = <<"wait", c, l>>}

\* Calls to c by a thread that holds a lock.
Signal(t, c) ==
    /\ call[t] = Idle
    /\ \E l \in Lock : holder[l] = t
    /\ Set(t, <<"signal", c>>)
    /\ UNCHANGED <<count, holder>>

Broadcast(t, c) ==
    /\ call[t] = Idle
    /\ \E l \in Lock : holder[l] = t
    /\ Set(t, <<"broadcast", c>>)
    /\ UNCHANGED <<count, holder>>

\* t returns, and the threads in W go for their locks again.
Wake(t, W) ==
    /\ call' = [u \in Thread |-> IF u = t THEN Idle
                                 ELSE IF u \in W THEN <<"acquire", call[u][3]>>
                                 ELSE call[u]]
    /\ UNCHANGED <<count, holder>>

\* "Wake up one thread that's sleeping on this CV", if there is one.
SignalDone(t, c) ==
    /\ call[t] = <<"signal", c>>
    /\ IF Waiters(c) = {} THEN Wake(t, {})
                          ELSE \E u \in Waiters(c) : Wake(t, {u})

\* "Wake up all threads sleeping on this CV."
BroadcastDone(t, c) ==
    /\ call[t] = <<"broadcast", c>>
    /\ Wake(t, Waiters(c))

Next ==
    \/ \E s \in Sem : VFromInterrupt(s)
    \/ \E t \in Thread, s \in Sem :
          P(t, s) \/ PDone(t, s) \/ V(t, s) \/ VDone(t, s)
    \/ \E t \in Thread, l \in Lock :
          \/ Acquire(t, l) \/ AcquireDone(t, l)
          \/ Release(t, l) \/ ReleaseDone(t, l)
    \/ \E t \in Thread, c \in CV :
          \/ \E l \in Lock : Wait(t, c, l)
          \/ Signal(t, c) \/ SignalDone(t, c)
          \/ Broadcast(t, c) \/ BroadcastDone(t, c)

Spec == Init /\ [][Next]_vars
=============================================================================
