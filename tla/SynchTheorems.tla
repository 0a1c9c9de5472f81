--------------------------- MODULE SynchTheorems ----------------------------
(***************************************************************************)
(* What holds of semaphores, locks and condition variables for any set of  *)
(* threads, any primitives and any bounds: the invariants of Synch that    *)
(* the inductive invariant of SynchProofs implies.                         *)
(***************************************************************************)
EXTENDS SynchLockProofs, SynchThreadProofs, QueuesProofs

\* The facts about lists that SynchProofs relies on.
LEMMA ListFactsHold == ListFacts
<1>1. ElemsFact
  BY ElemsType DEF ElemsFact
<1>2. AppendFact
  BY AppendElems DEF AppendFact
<1>3. TailFact
  BY TailElems DEF TailFact
<1>4. ConcatFact
  BY ConcatElems DEF ConcatFact
<1>5. FilterFact
  BY FilterElems DEF FilterFact
<1>6. FirstFact
  <2> USE DEF FirstFact
  <2> TAKE s \in Seq(Thread), S \in SUBSET Thread
  <2> HAVE Positions(s, S) # {}
  <2> QED
    BY FirstElem
<1>7. CardFact
  <2>1. \A S \in SUBSET Thread : IsFiniteSet(S)
    BY ThreadAssumption, FS_Subset
  <2> QED
    BY <2>1, FS_CardinalityType, FS_AddElement, FS_EmptySet DEF CardFact
<1> QED
  BY <1>1, <1>2, <1>3, <1>4, <1>5, <1>6, <1>7 DEF ListFacts

\* The invariant holds initially and every step keeps it.
LEMMA InitInv == ListFacts /\ SynchInit => IInv
<1> SUFFICES ASSUME ListFacts, SynchInit PROVE IInv
  OBVIOUS
<1> USE ThreadAssumption, SynchAssumption DEF SynchInit, Init
<1>1. ThreadTypeOK
  BY DEF ThreadTypeOK
<1>2. SynchTypeOK
  BY <1>1 DEF SynchTypeOK, SynchLabels, Labels
<1>3. SplInv
  BY DEF SplInv, SynchNotPreempted, Atomic
<1>4. Elems(sleepers) = {} /\ Elems(zombies) = {}
  BY DEF Elems
<1>5. ForkInv
  BY <1>4 DEF ForkInv
<1>6. Live = {Boot}
  BY DEF Live
<1>7. CountInv
  <2>1. Cardinality({Boot}) = 1
    BY FS_Singleton, Zenon
  <2> QED
    BY <1>6, <2>1 DEF CountInv, NumthreadsExact
<1>8. CallInv
  BY DEF CallInv
<1>9. LockInv
  BY DEF LockInv, LockFieldsAgree
<1>10. NoLostWakeup
  BY <1>4 DEF NoLostWakeup
<1> QED
  BY <1>2, <1>3, <1>5, <1>7, <1>8, <1>9, <1>10 DEF IInv

\* Every step keeps the invariant.
LEMMA StepInv == IInv /\ [SynchNext]_allVars => IInv'
<1> SUFFICES ASSUME IInv, [SynchNext]_allVars PROVE IInv'
  OBVIOUS
<1>1. CASE SynchNext
  BY <1>1, ThreadStepInv, VFromInterruptInv, SemStepInv, LockStepInv, CVStepInv
     DEF SynchNext
<1>2. CASE UNCHANGED allVars
  BY <1>2 DEF allVars, threadVars, lists, irqvars, locals, synchVars, objVars,
     callVars, IInv, SynchTypeOK, ThreadTypeOK, SplInv, SynchNotPreempted,
     ForkInv, CountInv, NumthreadsExact, Live, CallInv, LockInv,
     LockFieldsAgree, NoLostWakeup
<1> QED
  BY <1>1, <1>2

\* A lock that a step frees was held by the current thread.
HolderFrees ==
    \A l \in Lock : held[l] = 1 /\ held'[l] = 0 => curthread = heldThread[l]

\* Every step that frees a held lock is one of the thread that holds it.
LEMMA FreedByHolder ==
    ASSUME IInv, SynchNext
    PROVE  HolderFrees
<1> USE DEF HolderFrees
<1>1. SynchTypeOK /\ CallInv
  BY DEF IInv
<1>2. CASE held' = held
  BY <1>1, <1>2 DEF SynchTypeOK
<1>3. ASSUME NEW t \in Thread, NEW k \in Lock, curthread = t,
             heldThread[k] = t, held' = [held EXCEPT ![k] = 0]
      PROVE  HolderFrees
  BY <1>1, <1>3 DEF SynchTypeOK
<1>4. ASSUME NEW t \in Thread, AcquireTake(t)
      PROVE  HolderFrees
  BY <1>1, <1>4 DEF AcquireTake, SynchTypeOK
<1>5. ASSUME NEW t \in Thread, ReleaseBody(t)
      PROVE  HolderFrees
  <2>1. CASE heldThread[on[t]] = t
    BY <1>1, <1>3, <1>5, <2>1 DEF ReleaseBody, At, Running, Free, CallInv
  <2>2. CASE heldThread[on[t]] # t
    BY <1>2, <1>5, <2>2 DEF ReleaseBody
  <2> QED
    BY <2>1, <2>2
<1>6. ASSUME NEW t \in Thread, WaitRelease(t)
      PROVE  HolderFrees
  BY <1>1, <1>3, <1>6 DEF WaitRelease, At, Running, Free, CallInv
<1>7. ASSUME NEW t \in Thread, SemStep(t)
      PROVE  held' = held
  BY <1>7 DEF SemStep, PCall, VCall, PTest, PSleep, PDec, VBody, Enter, Block,
     objVars, synchVars
<1>8. ASSUME NEW t \in Thread, LockStep(t)
      PROVE  HolderFrees
  <2>1. CASE \/ \E l \in Lock : AcquireCall(t, l) \/ ReleaseCall(t, l)
             \/ AcquireTest(t) \/ AcquireSleep(t)
    <3>1. held' = held
      BY <2>1 DEF AcquireCall, ReleaseCall, AcquireTest, AcquireSleep, Enter,
         Block, objVars, synchVars
    <3> QED
      BY <1>2, <3>1
  <2> QED
    BY <1>4, <1>5, <1>8, <2>1 DEF LockStep
<1>9. ASSUME NEW t \in Thread, CVStep(t)
      PROVE  HolderFrees
  <2>1. CASE \/ \E c \in CV, l \in Lock : \/ WaitCall(t, c, l)
                                        \/ SignalCall(t, c, l)
                                        \/ BroadcastCall(t, c, l)
             \/ WaitSleep(t) \/ SignalBody(t) \/ BroadcastBody(t)
    <3>1. held' = held
      BY <2>1 DEF WaitCall, SignalCall, BroadcastCall, WaitSleep, SignalBody,
         BroadcastBody, Enter, Block, objVars
    <3> QED
      BY <1>2, <3>1
  <2> QED
    BY <1>6, <1>9, <2>1 DEF CVStep
<1>10. ThreadStep \/ (\E s \in Sem : VFromInterrupt(s)) => held' = held
  BY DEF ThreadStep, VFromInterrupt, synchVars, objVars
<1> QED
  BY <1>2, <1>7, <1>8, <1>9, <1>10 DEF SynchNext

\* The inductive invariant holds of every behaviour of the kernel's threads.
THEOREM Invariance == SynchSpec => []IInv
  BY ListFactsHold, InitInv, StepInv, PTL DEF SynchSpec

\* Type correctness; in particular P never takes a count below zero.
THEOREM TypeCorrect == SynchSpec => []SynchTypeOK
<1>1. IInv => SynchTypeOK
  BY DEF IInv
<1> QED
  BY <1>1, Invariance, PTL

\* Mutual exclusion: between lock_acquire and lock_release, and again after
\* cv_wait, a thread is alone and the lock's fields say so.
THEOREM MutualExclusionHolds == SynchSpec => []MutualExclusion
<1>1. IInv => MutualExclusion
  <2> SUFFICES ASSUME IInv PROVE MutualExclusion
    OBVIOUS
  <2>1. SynchTypeOK /\ LockInv
    BY DEF IInv
  <2> SUFFICES ASSUME NEW t \in Thread, NEW l \in owned[t]
               PROVE  /\ held[l] = 1 /\ lock_do_i_hold(t, l)
                      /\ \A u \in Thread \ {t} : l \notin owned[u]
    BY DEF MutualExclusion
  <2>2. l \in Lock /\ heldThread[l] = t
    BY <2>1 DEF SynchTypeOK, LockInv
  <2>3. held[l] = 1
    BY <2>1, <2>2, ThreadAssumption, SynchAssumption DEF LockInv, LockFieldsAgree
  <2>4. \A u \in Thread \ {t} : l \notin owned[u]
    BY <2>1, <2>2 DEF LockInv
  <2> QED
    BY <2>2, <2>3, <2>4 DEF lock_do_i_hold
<1> QED
  BY <1>1, Invariance, PTL

\* No thread sleeps in P on an available semaphore or in lock_acquire on a
\* free lock.
THEOREM NoLostWakeupHolds == SynchSpec => []NoLostWakeup
<1>1. IInv => NoLostWakeup
  BY DEF IInv
<1> QED
  BY <1>1, Invariance, PTL

\* No thread signals or broadcasts between the lock_release inside cv_wait and
\* the moment the waiting thread is among the sleepers.
THEOREM NoLostSignalHolds == SynchSpec => []NoLostSignal
<1>1. IInv => NoLostSignal
  <2> SUFFICES ASSUME IInv, NEW t \in Thread, NEW u \in Thread,
                      pc[t] = "W_sleep", pc[u] \in {"S_body", "B_body"}
               PROVE  FALSE
    BY DEF NoLostSignal
  <2>1. pc[t] \in Atomic /\ pc[u] \in Atomic
    BY DEF Atomic
  <2>2. t = u
    BY <2>1 DEF IInv, SplInv
  <2> QED
    BY <2>2
<1> QED
  BY <1>1, Invariance, PTL

\* A lock's two fields agree, and a held lock names a live thread.
THEOREM LockFieldsAgreeHolds == SynchSpec => []LockFieldsAgree
<1>1. IInv => LockFieldsAgree
  BY DEF IInv, LockInv
<1> QED
  BY <1>1, Invariance, PTL

\* No thread is preempted between splhigh and splx.
THEOREM NotPreempted == SynchSpec => []SynchNotPreempted
<1>1. IInv => SynchNotPreempted
  BY DEF IInv, SplInv
<1> QED
  BY <1>1, Invariance, PTL

\* numthreads is the number of live threads, whatever threads are forked,
\* exit and fail to be forked.
THEOREM NumthreadsHolds == SynchSpec => []NumthreadsExact
<1>1. IInv => NumthreadsExact
  BY DEF IInv, CountInv
<1> QED
  BY <1>1, Invariance, PTL

\* A held lock is freed only by the thread that holds it, whatever calls of
\* lock_release the other threads make.
THEOREM OnlyHolderReleasesHolds == SynchSpec => OnlyHolderReleases
<1>1. IInv /\ [SynchNext]_allVars => [HolderFrees]_allVars
  BY FreedByHolder
<1> QED
  BY <1>1, Invariance, PTL DEF SynchSpec, OnlyHolderReleases, HolderFrees
=============================================================================
