---------------------------- MODULE SynchProofs -----------------------------
(***************************************************************************)
(* Proofs about Synch, for any set of threads, semaphores, locks and       *)
(* condition variables.                                                    *)
(*                                                                         *)
(* The invariants of synch.c are inductive only together with what         *)
(* splhigh guarantees: a thread inside a section that must not be          *)
(* interrupted is the current thread.  Then what it has just tested is     *)
(* still true when it acts on it.                                          *)
(***************************************************************************)
EXTENDS Synch, TLAPS

(* The facts about lists and finite sets that the steps use.  They speak of *)
(* constants only, so they are carried along in the inductive invariant;    *)
(* SynchTheorems derives them from the lemmas of QueuesProofs.              *)

ElemsFact == \A s \in Seq(Thread) : Elems(s) \subseteq Thread

AppendFact ==
    \A s \in Seq(Thread), t \in Thread :
        Append(s, t) \in Seq(Thread) /\ Elems(Append(s, t)) = Elems(s) \cup {t}

TailFact ==
    \A s \in Seq(Thread) : s # <<>> => Head(s) \in Thread /\ Tail(s) \in Seq(Thread)

ConcatFact == \A s, r \in Seq(Thread) : s \o r \in Seq(Thread)

FilterFact ==
    \A s \in Seq(Thread), S \in SUBSET Thread :
        Filter(s, S) \in Seq(Thread) /\ Elems(Filter(s, S)) = Elems(s) \cap S

FirstFact ==
    \A s \in Seq(Thread), S \in SUBSET Thread :
        Positions(s, S) # {} => First(s, S) \in Thread

CardFact ==
    /\ \A S \in SUBSET Thread : Cardinality(S) \in Nat
    /\ \A S \in SUBSET Thread : \A t \in Thread \ S :
          Cardinality(S \cup {t}) = Cardinality(S) + 1
    /\ Cardinality({}) = 0

ListFacts == ElemsFact /\ AppendFact /\ TailFact /\ ConcatFact /\ FilterFact
             /\ FirstFact /\ CardFact
-----------------------------------------------------------------------------

\* Labels between a test and the step that relies on it.
Atomic == {"P_sleep", "P_dec", "V_body", "A_sleep", "A_take", "R_body",
           "W_release", "W_sleep", "S_body", "B_body"}

\* A thread at an atomic label is the current thread.
SplInv ==
    /\ SynchNotPreempted
    /\ \A t \in Thread : pc[t] \in Atomic => curthread = t

\* Structures that are being made or are dead are nobody's but their maker's.
ForkInv ==
    /\ \A t \in Elems(zombies) : pc[t] = "zombie"
    /\ \A t \in Thread : pc[t] = "fork" =>
          newguy[t] \in Thread /\ pc[newguy[t]] = "embryo"
    /\ \A t, u \in Thread :
          pc[t] = "fork" /\ pc[u] = "fork" /\ newguy[t] = newguy[u] => t = u

\* numthreads is exact, and clocksleep's loop counts down from a number that
\* it has found positive.
CountInv ==
    /\ NumthreadsExact
    /\ \A t \in Thread : pc[t] = "clock_dec" => num_secs[t] # 0

\* What a thread inside a routine knows.
CallInv ==
    \A t \in Thread :
        /\ pc[t] \in {"P_test", "P_sleep", "P_dec", "V_body"} => on[t] \in Sem
        /\ pc[t] \in {"A_test", "A_sleep", "A_take", "R_body"} => on[t] \in Lock
        /\ pc[t] \in {"W_release", "W_sleep", "S_body", "B_body"} => on[t] \in CV
        /\ pc[t] = "P_sleep" => count[on[t]] = 0
        /\ pc[t] = "P_dec" => count[on[t]] # 0
        /\ pc[t] = "A_sleep" => held[on[t]] = 1
        /\ pc[t] = "A_take" => held[on[t]] # 1
        /\ pc[t] = "R_body" => on[t] \notin owned[t]
        /\ pc[t] = "W_sleep" => lk[t] \in Lock
        /\ pc[t] = "W_release" =>
              lk[t] \in Lock /\ heldThread[lk[t]] = t /\ lk[t] \notin owned[t]

\* A lock's fields name the thread that acquired it, until that thread is in
\* the middle of releasing it.
LockInv ==
    /\ LockFieldsAgree
    /\ \A t \in Thread : \A l \in owned[t] : heldThread[l] = t
    /\ \A l \in Lock : \A t \in Thread : heldThread[l] = t =>
          \/ l \in owned[t]
          \/ pc[t] = "R_body" /\ on[t] = l
          \/ pc[t] = "W_release" /\ lk[t] = l

IInv ==
    /\ ListFacts
    /\ SynchTypeOK
    /\ SplInv
    /\ ForkInv
    /\ CountInv
    /\ CallInv
    /\ LockInv
    /\ NoLostWakeup
-----------------------------------------------------------------------------
(* What the list operations do to the members of the lists.                *)

\* thread_wakeup(a) moves exactly the sleepers on a to the run queue.
LEMMA WakeupLists ==
    ASSUME ListFacts, ThreadTypeOK, NEW a, thread_wakeup(a)
    PROVE  /\ runqueue' \in Seq(Thread) /\ sleepers' \in Seq(Thread)
           /\ \A u \in Elems(sleepers') :
                 u \in Elems(sleepers) /\ u \in Thread /\ t_sleepaddr[u] # a
           /\ curthread' = curthread /\ zombies' = zombies
<1>1. runqueue \in Seq(Thread) /\ sleepers \in Seq(Thread)
  BY DEF ThreadTypeOK
<1>2. /\ Filter(sleepers, On(a)) \in Seq(Thread)
      /\ Elems(Filter(sleepers, On(a))) = Elems(sleepers) \cap On(a)
  BY <1>1 DEF ListFacts, FilterFact, On
<1>3. /\ Filter(sleepers, Thread \ On(a)) \in Seq(Thread)
      /\ Elems(Filter(sleepers, Thread \ On(a)))
           = Elems(sleepers) \cap (Thread \ On(a))
  BY <1>1 DEF ListFacts, FilterFact, On
<1>4. Elems(sleepers) \subseteq Thread
  BY <1>1 DEF ListFacts, ElemsFact
<1>5. runqueue \o Filter(sleepers, On(a)) \in Seq(Thread)
  BY <1>1, <1>2 DEF ListFacts, ConcatFact
<1> QED
  BY <1>2, <1>3, <1>4, <1>5 DEF thread_wakeup, On

\* thread_wakeupOne(a) moves at most one sleeper, and one that is on a.
LEMMA WakeupOneLists ==
    ASSUME ListFacts, ThreadTypeOK, NEW a, thread_wakeupOne(a)
    PROVE  /\ runqueue' \in Seq(Thread) /\ sleepers' \in Seq(Thread)
           /\ Elems(sleepers') \subseteq Elems(sleepers)
           /\ curthread' = curthread /\ zombies' = zombies
<1>1. runqueue \in Seq(Thread) /\ sleepers \in Seq(Thread)
  BY DEF ThreadTypeOK
<1>2. Elems(sleepers) \subseteq Thread
  BY <1>1 DEF ListFacts, ElemsFact
<1>3. CASE Positions(sleepers, On(a)) = {}
  BY <1>1, <1>3 DEF thread_wakeupOne, lists
<1>4. CASE Positions(sleepers, On(a)) # {}
  <2> DEFINE t == First(sleepers, On(a))
  <2>1. t \in Thread
    BY <1>1, <1>4 DEF ListFacts, FirstFact, On
  <2>2. /\ Filter(sleepers, Thread \ {t}) \in Seq(Thread)
        /\ Elems(Filter(sleepers, Thread \ {t}))
             = Elems(sleepers) \cap (Thread \ {t})
    BY <1>1, Zenon DEF ListFacts, FilterFact, On
  <2>3. Append(runqueue, t) \in Seq(Thread)
    BY <1>1, <2>1 DEF ListFacts, AppendFact
  <2> QED
    BY <1>4, <2>2, <2>3, Zenon DEF thread_wakeupOne
<1> QED
  BY <1>3, <1>4

\* thread_sleep puts the current thread among the sleepers.
LEMMA SleepLists ==
    ASSUME ListFacts, ThreadTypeOK, curthread \in Thread, NEW a, thread_sleep(a)
    PROVE  /\ sleepers' \in Seq(Thread)
           /\ Elems(sleepers') = Elems(sleepers) \cup {curthread}
           /\ t_sleepaddr' = [t_sleepaddr EXCEPT ![curthread] = a]
           /\ curthread' = NULL /\ zombies' = zombies /\ runqueue' = runqueue
<1>1. sleepers \in Seq(Thread)
  BY DEF ThreadTypeOK
<1> QED
  BY <1>1 DEF ListFacts, AppendFact, thread_sleep, SwitchSleep
-----------------------------------------------------------------------------
(* What several actions have in common.                                    *)

\* A step of one thread between labels at which it is live and neither in
\* thread_fork nor in clocksleep changes nothing that ForkInv and CountInv
\* speak of.
LEMMA CallStep ==
    ASSUME IInv, NEW t \in Thread,
           pc[t] \notin {"none", "embryo", "zombie", "fork", "clock_dec"},
           pc'[t] \notin {"none", "embryo", "zombie", "fork", "clock_dec"},
           \A u \in Thread \ {t} : pc'[u] = pc[u],
           zombies' = zombies, newguy' = newguy, numthreads' = numthreads,
           num_secs' = num_secs
    PROVE  ForkInv' /\ CountInv' /\ Live' = Live
<1>1. newguy \in [Thread -> Thread \cup {NULL}] /\ Elems(zombies) \subseteq Thread
  BY DEF IInv, ListFacts, ElemsFact, SynchTypeOK, ThreadTypeOK
<1>2. Live' = Live
  BY DEF Live
<1>3. ForkInv'
  BY <1>1 DEF IInv, ForkInv
<1>4. CountInv'
  BY <1>1, <1>2 DEF IInv, CountInv, NumthreadsExact
<1> QED
  BY <1>2, <1>3, <1>4

\* The entry of a routine of synch.c, which does not touch the primitives.
LEMMA EnterStep ==
    ASSUME IInv, NEW t \in Thread, NEW o \in Sem \cup Lock \cup CV,
           NEW label \in SynchLabels \ Labels, Enter(t, o, label),
           lk' \in [Thread -> Lock \cup {NULL}], owned' \in [Thread -> SUBSET Lock]
    PROVE  /\ SynchTypeOK' /\ SplInv' /\ ForkInv' /\ CountInv' /\ NoLostWakeup'
           /\ Live' = Live
           /\ curthread = t /\ pc[t] = "run" /\ pc' = [pc EXCEPT ![t] = label]
           /\ on' = [on EXCEPT ![t] = o]
           /\ count' = count /\ held' = held /\ heldThread' = heldThread
<1>1. /\ curthread = t /\ t \notin pcb_ininterrupt /\ pc[t] = "run"
      /\ pc' = [pc EXCEPT ![t] = label] /\ on' = [on EXCEPT ![t] = o]
      /\ curspl' = 15 /\ curthread' = curthread
      /\ UNCHANGED <<runqueue, sleepers, zombies, numthreads, t_sleepaddr,
                     pcb_ininterrupt, lbolt_counter, num_secs, newguy>>
      /\ count' = count /\ held' = held /\ heldThread' = heldThread
  BY DEF Enter, InClient, Running, Goto, lists, locals, objVars, SPL_HIGH
<1>2. SynchTypeOK /\ SplInv /\ NoLostWakeup
  BY DEF IInv
<1>3. SynchTypeOK'
  BY <1>1, <1>2 DEF SynchTypeOK, ThreadTypeOK, SPL_HIGH
<1>4. SplInv'
  BY <1>1, <1>2 DEF SplInv, SynchNotPreempted, SynchTypeOK
<1>5. label \notin {"none", "embryo", "zombie", "fork", "clock_dec"}
  BY DEF Labels
<1>6. ForkInv' /\ CountInv' /\ Live' = Live
  BY <1>1, <1>2, <1>5, CallStep DEF SynchTypeOK
<1>7. NoLostWakeup'
  BY <1>1, <1>2 DEF NoLostWakeup
<1> QED
  BY <1>1, <1>3, <1>4, <1>6, <1>7

\* The entry of a routine that also leaves the thread's locks alone.
LEMMA EnterInv ==
    ASSUME IInv, NEW t \in Thread, NEW o \in Sem \cup Lock \cup CV, NEW label,
           Enter(t, o, label), UNCHANGED <<lk, owned>>,
           \/ o \in Sem /\ label \in {"P_test", "V_body"}
           \/ o \in Lock /\ label = "A_test"
           \/ o \in CV /\ label \in {"S_body", "B_body"}
    PROVE  IInv'
<1>1. SynchTypeOK /\ CallInv /\ LockInv
  BY DEF IInv
<1>2. label \in SynchLabels \ Labels
  BY DEF SynchLabels, Labels
<1>3. /\ SynchTypeOK' /\ SplInv' /\ ForkInv' /\ CountInv' /\ NoLostWakeup'
      /\ Live' = Live
      /\ curthread = t /\ pc[t] = "run" /\ pc' = [pc EXCEPT ![t] = label]
      /\ on' = [on EXCEPT ![t] = o]
      /\ count' = count /\ held' = held /\ heldThread' = heldThread
  BY <1>1, <1>2, EnterStep DEF SynchTypeOK
<1>4. CallInv'
  BY <1>1, <1>3 DEF CallInv, SynchTypeOK
<1>5. LockInv'
  BY <1>1, <1>3 DEF LockInv, LockFieldsAgree, SynchTypeOK
<1> QED
  BY <1>3, <1>4, <1>5 DEF IInv

\* The exit of a routine of synch.c that touched only what the premises say.
LEMMA LeaveStep ==
    ASSUME IInv, NEW t \in Thread, Running(t), Leave(t),
           pc[t] \in SynchLabels \ Labels,
           runqueue' \in Seq(Thread), sleepers' \in Seq(Thread),
           curthread' = curthread, zombies' = zombies,
           count' \in [Sem -> Nat], held' \in [Lock -> {0, 1}],
           heldThread' \in [Lock -> Thread \cup {NULL, Garbage}],
           owned' \in [Thread -> SUBSET Lock]
    PROVE  /\ SynchTypeOK' /\ SplInv' /\ ForkInv' /\ CountInv' /\ Live' = Live
           /\ curthread = t /\ pc' = [pc EXCEPT ![t] = "run"]
           /\ \A u \in Thread \ {t} : on'[u] = on[u] /\ lk'[u] = lk[u]
           /\ t_sleepaddr' = t_sleepaddr
<1>1. /\ curthread = t /\ t \notin pcb_ininterrupt
      /\ pc' = [pc EXCEPT ![t] = "run"]
      /\ on' = [on EXCEPT ![t] = NULL] /\ lk' = [lk EXCEPT ![t] = NULL]
      /\ curspl' = 0
      /\ UNCHANGED <<numthreads, t_sleepaddr, pcb_ininterrupt, lbolt_counter,
                     num_secs, newguy>>
  BY DEF Leave, Running, Goto, locals
<1>2. SynchTypeOK /\ SplInv
  BY DEF IInv
<1>3. "run" \in SynchLabels
  BY DEF SynchLabels, Labels
<1>4. SynchTypeOK'
  BY <1>1, <1>2, <1>3 DEF SynchTypeOK, ThreadTypeOK
<1>5. SplInv'
  BY <1>1, <1>2, ThreadAssumption DEF SplInv, SynchNotPreempted, SynchTypeOK, Atomic
<1>6. pc[t] \notin {"none", "embryo", "zombie", "fork", "clock_dec"}
  BY DEF Labels
<1>7. ForkInv' /\ CountInv' /\ Live' = Live
  BY <1>1, <1>2, <1>6, CallStep DEF SynchTypeOK
<1> QED
  BY <1>1, <1>2, <1>4, <1>5, <1>7 DEF SynchTypeOK

\* What the other threads know inside their calls survives when one leaves its
\* own: none of them is at an atomic label.
LEMMA LeaveCalls ==
    ASSUME SynchTypeOK, SplInv, CallInv, NEW t \in Thread, curthread = t,
           pc' = [pc EXCEPT ![t] = "run"],
           \A u \in Thread \ {t} : on'[u] = on[u]
    PROVE  CallInv'
<1>1. pc'[t] = "run"
  BY DEF SynchTypeOK
<1>2. \A u \in Thread \ {t} : pc'[u] = pc[u] /\ pc'[u] \notin Atomic
  BY DEF SynchTypeOK, SplInv
<1>3. \A u \in Thread : /\ pc[u] = "P_test" => on[u] \in Sem
                        /\ pc[u] = "A_test" => on[u] \in Lock
  BY DEF CallInv
<1>4. \A u \in Thread : /\ pc'[u] \notin Atomic
                        /\ pc'[u] = "P_test" => on'[u] \in Sem
                        /\ pc'[u] = "A_test" => on'[u] \in Lock
  BY <1>1, <1>2, <1>3 DEF Atomic
<1> QED
  BY <1>4 DEF CallInv, Atomic

\* A thread that leaves a routine that is not about locks leaves them alone.
LEMMA LeaveLocks ==
    ASSUME SynchTypeOK, LockInv, NEW t \in Thread,
           pc[t] \notin {"R_body", "W_release"},
           pc' = [pc EXCEPT ![t] = "run"], Live' = Live,
           \A u \in Thread \ {t} : on'[u] = on[u] /\ lk'[u] = lk[u],
           UNCHANGED <<held, heldThread, owned>>
    PROVE  LockInv'
<1>1. \A u \in Thread \ {t} : pc'[u] = pc[u]
  BY DEF SynchTypeOK
<1>2. LockFieldsAgree'
  BY DEF LockInv, LockFieldsAgree
<1>3. \A u \in Thread : \A l \in owned'[u] : heldThread'[l] = u
  BY DEF LockInv
<1>4. ASSUME NEW l \in Lock, NEW u \in Thread, heldThread'[l] = u
      PROVE  \/ l \in owned'[u]
             \/ pc'[u] = "R_body" /\ on'[u] = l
             \/ pc'[u] = "W_release" /\ lk'[u] = l
  <2>1. \/ l \in owned[u]
        \/ pc[u] = "R_body" /\ on[u] = l
        \/ pc[u] = "W_release" /\ lk[u] = l
    BY <1>4 DEF LockInv
  <2> QED
    BY <1>1, <2>1
<1> QED
  BY <1>2, <1>3, <1>4 DEF LockInv

\* A thread goes to sleep inside a routine.  It may do so on a semaphore only
\* if that is 0, on a lock only if that is held.
LEMMA BlockInv ==
    ASSUME IInv, NEW t \in Thread, NEW a \in Sem \cup Lock \cup CV, NEW label,
           Running(t), pc[t] \in Atomic, Block(t, a, label),
           a \in Sem => count[a] = 0,
           a \in Lock => held[a] = 1,
           \/ label = "P_test" /\ on'[t] \in Sem
           \/ label = "A_test" /\ on'[t] \in Lock,
           pc[t] \notin {"R_body", "W_release"},
           \A u \in Thread \ {t} : on'[u] = on[u],
           on' \in [Thread -> Sem \cup Lock \cup CV \cup {NULL}]
    PROVE  IInv'
<1>1. /\ curthread = t /\ t \notin pcb_ininterrupt
      /\ pc' = [pc EXCEPT ![t] = label]
      /\ UNCHANGED <<numthreads, pcb_ininterrupt, curspl, lbolt_counter,
                     num_secs, newguy>>
      /\ count' = count /\ held' = held /\ heldThread' = heldThread
      /\ lk' = lk /\ owned' = owned
  BY DEF Block, Running, Goto, irqvars, locals, objVars
<1>2. /\ ListFacts /\ SynchTypeOK /\ ThreadTypeOK /\ SplInv /\ CallInv
      /\ LockInv /\ NoLostWakeup
  BY DEF IInv, SynchTypeOK
<1>3. /\ sleepers' \in Seq(Thread)
      /\ Elems(sleepers') = Elems(sleepers) \cup {t}
      /\ t_sleepaddr' = [t_sleepaddr EXCEPT ![t] = a]
      /\ curthread' = NULL /\ zombies' = zombies /\ runqueue' = runqueue
  BY <1>1, <1>2, SleepLists DEF Block
<1>4. /\ pc[t] \notin {"none", "embryo", "zombie", "fork", "clock_dec", "run"}
      /\ label \notin {"none", "embryo", "zombie", "fork", "clock_dec"}
      /\ label \in SynchLabels /\ label \notin Atomic
  BY DEF Atomic, SynchLabels
<1>5. a \in Addr \cup {NULL}
  BY SynchAssumption
<1>6. ThreadTypeOK'
  BY <1>1, <1>2, <1>3, <1>5 DEF ThreadTypeOK
<1>7. SynchTypeOK'
  BY <1>1, <1>2, <1>4, <1>6 DEF SynchTypeOK
<1>8. SplInv'
  BY <1>1, <1>2, <1>3, <1>4 DEF SplInv, SynchNotPreempted, SynchTypeOK
<1>9. ForkInv' /\ CountInv' /\ Live' = Live
  BY <1>1, <1>2, <1>3, <1>4, CallStep DEF SynchTypeOK
<1>10. CallInv'
  BY <1>1, <1>2 DEF CallInv, SynchTypeOK
<1>11. LockInv'
  BY <1>1, <1>2, <1>9 DEF LockInv, LockFieldsAgree, SynchTypeOK
<1>12. NoLostWakeup'
  BY <1>1, <1>2, <1>3 DEF NoLostWakeup, ThreadTypeOK
<1> QED
  BY <1>7, <1>8, <1>9, <1>10, <1>11, <1>12 DEF IInv
-----------------------------------------------------------------------------
(* Steps of the routines of synch.c                                        *)

\* The test at the head of the loops of P and lock_acquire: what it finds is
\* what the next step relies on.
LEMMA TestInv ==
    ASSUME IInv, NEW t \in Thread, PTest(t) \/ AcquireTest(t)
    PROVE  IInv'
<1>1. PICK label :
        /\ curthread = t /\ t \notin pcb_ininterrupt
        /\ pc[t] \in {"P_test", "A_test"}
        /\ pc' = [pc EXCEPT ![t] = label]
        /\ \/ pc[t] = "P_test" /\ label = "P_sleep" /\ count[on[t]] = 0
           \/ pc[t] = "P_test" /\ label = "P_dec" /\ count[on[t]] # 0
           \/ pc[t] = "A_test" /\ label = "A_sleep" /\ held[on[t]] = 1
           \/ pc[t] = "A_test" /\ label = "A_take" /\ held[on[t]] # 1
  BY DEF PTest, AcquireTest, At, Running, Proceed, Goto
<1>2. /\ UNCHANGED <<runqueue, sleepers, zombies, numthreads, t_sleepaddr,
                     curthread, pcb_ininterrupt, curspl, lbolt_counter,
                     num_secs, newguy>>
      /\ UNCHANGED <<count, held, heldThread, on, lk, owned>>
  BY DEF PTest, AcquireTest, Proceed, lists, irqvars, locals, synchVars,
         objVars, callVars
<1>3. SynchTypeOK /\ SplInv /\ CallInv /\ LockInv /\ NoLostWakeup
  BY DEF IInv
<1>4. SynchTypeOK'
  BY <1>1, <1>2, <1>3 DEF SynchTypeOK, ThreadTypeOK, SynchLabels
<1>5. SplInv'
  BY <1>1, <1>2, <1>3 DEF SplInv, SynchNotPreempted, SynchTypeOK
<1>6. ForkInv' /\ CountInv' /\ Live' = Live
  BY <1>1, <1>2, <1>3, CallStep DEF SynchTypeOK
<1>7. CallInv'
  BY <1>1, <1>2, <1>3 DEF CallInv, SynchTypeOK
<1>8. LockInv'
  BY <1>1, <1>2, <1>3, <1>6 DEF LockInv, LockFieldsAgree, SynchTypeOK
<1>9. NoLostWakeup'
  BY <1>2, <1>3 DEF NoLostWakeup
<1> QED
  BY <1>4, <1>5, <1>6, <1>7, <1>8, <1>9 DEF IInv

\* P takes one from a count it found positive.
LEMMA PDecInv ==
    ASSUME IInv, NEW t \in Thread, PDec(t)
    PROVE  IInv'
<1>1. /\ Running(t) /\ pc[t] = "P_dec" /\ Leave(t)
      /\ count' = [count EXCEPT ![on[t]] = @ - 1]
      /\ UNCHANGED <<curthread, runqueue, sleepers, zombies, held, heldThread,
                     owned>>
  BY DEF PDec, At, lists
<1>2. SynchTypeOK /\ SplInv /\ CallInv /\ LockInv /\ NoLostWakeup
  BY DEF IInv
<1>3. on[t] \in Sem /\ count[on[t]] \in Nat \ {0}
  BY <1>1, <1>2 DEF CallInv, SynchTypeOK
<1>4. count' \in [Sem -> Nat]
  BY <1>1, <1>2, <1>3 DEF SynchTypeOK
<1>5. /\ SynchTypeOK' /\ SplInv' /\ ForkInv' /\ CountInv' /\ Live' = Live
      /\ curthread = t /\ pc' = [pc EXCEPT ![t] = "run"]
      /\ \A u \in Thread \ {t} : on'[u] = on[u] /\ lk'[u] = lk[u]
      /\ t_sleepaddr' = t_sleepaddr
  BY <1>1, <1>2, <1>4, LeaveStep, Zenon
     DEF SynchTypeOK, ThreadTypeOK, SynchLabels, Labels
<1>6. CallInv'
  BY <1>2, <1>5, LeaveCalls, Zenon
<1>7. LockInv'
  BY <1>1, <1>2, <1>5, LeaveLocks, Zenon
<1>8. NoLostWakeup'
  BY <1>1, <1>2, <1>3, <1>5 DEF NoLostWakeup, SynchTypeOK
<1> QED
  BY <1>5, <1>6, <1>7, <1>8 DEF IInv

\* V raises the count and wakes every sleeper on the semaphore.
LEMMA VBodyInv ==
    ASSUME IInv, NEW t \in Thread, VBody(t)
    PROVE  IInv'
<1>1. /\ Running(t) /\ pc[t] = "V_body" /\ Leave(t) /\ thread_wakeup(on[t])
      /\ count' = [count EXCEPT ![on[t]] = @ + 1]
      /\ UNCHANGED <<held, heldThread, owned>>
  BY DEF VBody, At
<1>2. /\ ListFacts /\ SynchTypeOK /\ ThreadTypeOK /\ SplInv /\ CallInv
      /\ LockInv /\ NoLostWakeup
  BY DEF IInv, SynchTypeOK
<1>3. /\ runqueue' \in Seq(Thread) /\ sleepers' \in Seq(Thread)
      /\ \A u \in Elems(sleepers') :
            u \in Elems(sleepers) /\ u \in Thread /\ t_sleepaddr[u] # on[t]
      /\ curthread' = curthread /\ zombies' = zombies
  BY <1>1, <1>2, WakeupLists
<1>4. on[t] \in Sem
  BY <1>1, <1>2 DEF CallInv
<1>5. count' \in [Sem -> Nat]
  BY <1>1, <1>2, <1>4 DEF SynchTypeOK
<1>6. /\ SynchTypeOK' /\ SplInv' /\ ForkInv' /\ CountInv' /\ Live' = Live
      /\ curthread = t /\ pc' = [pc EXCEPT ![t] = "run"]
      /\ \A u \in Thread \ {t} : on'[u] = on[u] /\ lk'[u] = lk[u]
      /\ t_sleepaddr' = t_sleepaddr
  BY <1>1, <1>2, <1>3, <1>5, LeaveStep DEF SynchTypeOK, SynchLabels, Labels
<1>7. CallInv'
  BY <1>2, <1>6, LeaveCalls, Zenon
<1>8. LockInv'
  BY <1>1, <1>2, <1>6, LeaveLocks, Zenon
<1>9. NoLostWakeup'
  BY <1>1, <1>2, <1>3, <1>4, <1>6, SynchAssumption DEF NoLostWakeup, SynchTypeOK
<1> QED
  BY <1>6, <1>7, <1>8, <1>9 DEF IInv

\* V by an interrupt handler, which finds no thread in an atomic section.
LEMMA VFromInterruptInv ==
    ASSUME IInv, NEW s \in Sem, VFromInterrupt(s)
    PROVE  IInv'
<1>1. /\ curspl = 0 \/ curthread = NULL
      /\ thread_wakeup(s) /\ count' = [count EXCEPT ![s] = @ + 1]
      /\ UNCHANGED <<numthreads, t_sleepaddr, pcb_ininterrupt, curspl,
                     lbolt_counter, pc, num_secs, newguy>>
      /\ UNCHANGED <<held, heldThread, on, lk, owned>>
  BY DEF VFromInterrupt, TakesInterrupt, irqvars, locals, callVars
<1>2. /\ ListFacts /\ SynchTypeOK /\ ThreadTypeOK /\ SplInv /\ ForkInv
      /\ CountInv /\ CallInv /\ LockInv /\ NoLostWakeup
  BY DEF IInv, SynchTypeOK
<1>3. /\ runqueue' \in Seq(Thread) /\ sleepers' \in Seq(Thread)
      /\ \A u \in Elems(sleepers') :
            u \in Elems(sleepers) /\ u \in Thread /\ t_sleepaddr[u] # s
      /\ curthread' = curthread /\ zombies' = zombies
  BY <1>1, <1>2, WakeupLists
<1>4. \A u \in Thread : pc[u] \notin Atomic
  BY <1>1, <1>2, ThreadAssumption DEF SplInv, SynchNotPreempted, Atomic
<1>5. SynchTypeOK'
  BY <1>1, <1>2, <1>3 DEF SynchTypeOK, ThreadTypeOK
<1>6. SplInv'
  BY <1>1, <1>2, <1>3 DEF SplInv, SynchNotPreempted
<1>7. ForkInv' /\ CountInv'
  BY <1>1, <1>2, <1>3 DEF ForkInv, CountInv, NumthreadsExact, Live
<1>8. CallInv'
  BY <1>1, <1>2, <1>4 DEF CallInv, Atomic
<1>9. LockInv'
  BY <1>1, <1>2 DEF LockInv, LockFieldsAgree, Live
<1>10. NoLostWakeup'
  BY <1>1, <1>2, <1>3, SynchAssumption DEF NoLostWakeup, SynchTypeOK
<1> QED
  BY <1>5, <1>6, <1>7, <1>8, <1>9, <1>10 DEF IInv

\* P and V by a thread.
LEMMA SemStepInv ==
    ASSUME IInv, NEW t \in Thread, SemStep(t)
    PROVE  IInv'
<1>1. ASSUME NEW s \in Sem, PCall(t, s) \/ VCall(t, s)
      PROVE  IInv'
  <2>1. PICK label \in {"P_test", "V_body"} : Enter(t, s, label)
    BY <1>1 DEF PCall, VCall
  <2> QED
    BY <1>1, <2>1, EnterInv DEF PCall, VCall
<1>2. ASSUME PSleep(t)
      PROVE  IInv'
  <2>1. /\ Running(t) /\ pc[t] = "P_sleep" /\ Block(t, on[t], "P_test")
        /\ on' = on
    BY <1>2 DEF PSleep, At
  <2>2. on[t] \in Sem /\ on[t] \notin Lock /\ count[on[t]] = 0
    BY <2>1, SynchAssumption DEF IInv, CallInv
  <2>3. on \in [Thread -> Sem \cup Lock \cup CV \cup {NULL}]
    BY DEF IInv, SynchTypeOK
  <2> QED
    BY <2>1, <2>2, <2>3, BlockInv DEF Atomic
<1> QED
  BY <1>1, <1>2, TestInv, PDecInv, VBodyInv DEF SemStep
=============================================================================
