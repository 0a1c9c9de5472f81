-------------------------- MODULE SynchLockProofs ---------------------------
(***************************************************************************)
(* lock_acquire, lock_release and the cv_ routines keep the inductive      *)
(* invariant of SynchProofs.                                               *)
(***************************************************************************)
EXTENDS SynchProofs

\* lock_acquire takes a lock it found free: nobody can own it.
LEMMA AcquireTakeInv ==
    ASSUME IInv, NEW t \in Thread, AcquireTake(t)
    PROVE  IInv'
<1>1. /\ Running(t) /\ pc[t] = "A_take" /\ Leave(t)
      /\ held' = [held EXCEPT ![on[t]] = 1]
      /\ heldThread' = [heldThread EXCEPT ![on[t]] = t]
      /\ owned' = [owned EXCEPT ![t] = @ \cup {on[t]}]
      /\ UNCHANGED <<curthread, runqueue, sleepers, zombies, count>>
  BY DEF AcquireTake, At, lists
<1>2. SynchTypeOK /\ SplInv /\ CallInv /\ LockInv /\ NoLostWakeup
  BY DEF IInv
<1>3. on[t] \in Lock /\ held[on[t]] = 0
  BY <1>1, <1>2 DEF CallInv, SynchTypeOK
<1>4. /\ held' \in [Lock -> {0, 1}]
      /\ heldThread' \in [Lock -> Thread \cup {NULL, Garbage}]
      /\ owned' \in [Thread -> SUBSET Lock]
  BY <1>1, <1>2, <1>3 DEF SynchTypeOK
<1>5. /\ SynchTypeOK' /\ SplInv' /\ ForkInv' /\ CountInv' /\ Live' = Live
      /\ curthread = t /\ pc' = [pc EXCEPT ![t] = "run"]
      /\ \A u \in Thread \ {t} : on'[u] = on[u] /\ lk'[u] = lk[u]
      /\ t_sleepaddr' = t_sleepaddr
  BY <1>1, <1>2, <1>4, LeaveStep, Zenon
     DEF SynchTypeOK, ThreadTypeOK, SynchLabels, Labels
<1>6. CallInv'
  BY <1>2, <1>5, LeaveCalls, Zenon
<1>7. heldThread[on[t]] \notin Thread
  BY <1>2, <1>3, ThreadAssumption, SynchAssumption DEF LockInv, LockFieldsAgree
<1>8. t \in Live
  BY <1>1 DEF Live
<1>9. LockInv'
  <2>1. LockFieldsAgree'
    BY <1>1, <1>2, <1>3, <1>5, <1>8 DEF LockInv, LockFieldsAgree, SynchTypeOK
  <2>2. ASSUME NEW u \in Thread, NEW l \in owned'[u]
        PROVE  heldThread'[l] = u
    <3>1. l \in Lock
      BY <1>4, <2>2
    <3>2. CASE l = on[t]
      <4>1. l \notin owned[u]
        BY <1>2, <1>7, <3>2 DEF LockInv
      <4>2. u = t
        BY <1>1, <1>2, <2>2, <4>1 DEF SynchTypeOK
      <4> QED
        BY <1>1, <1>2, <1>3, <3>2, <4>2 DEF SynchTypeOK
    <3>3. CASE l # on[t]
      BY <1>1, <1>2, <2>2, <3>1, <3>3 DEF SynchTypeOK, LockInv
    <3> QED
      BY <3>2, <3>3
  <2>3. ASSUME NEW l \in Lock, NEW u \in Thread, heldThread'[l] = u
        PROVE  \/ l \in owned'[u]
               \/ pc'[u] = "R_body" /\ on'[u] = l
               \/ pc'[u] = "W_release" /\ lk'[u] = l
    <3>1. CASE l = on[t]
      BY <1>1, <1>2, <1>3, <2>3, <3>1 DEF SynchTypeOK
    <3>2. CASE l # on[t]
      BY <1>1, <1>2, <1>5, <2>3, <3>2 DEF SynchTypeOK, LockInv
    <3> QED
      BY <3>1, <3>2
  <2> QED
    BY <2>1, <2>2, <2>3 DEF LockInv
<1>10. NoLostWakeup'
  BY <1>1, <1>2, <1>3, <1>5 DEF NoLostWakeup, SynchTypeOK
<1> QED
  BY <1>5, <1>6, <1>9, <1>10 DEF IInv

\* Freeing lock l, which t holds and no longer owns, keeps what locks and
\* sleepers rely on.  Both lock_release and cv_wait do this.
LEMMA FreeStep ==
    ASSUME IInv, NEW t \in Thread, NEW l \in Lock, Free(l),
           heldThread[l] = t, l \notin owned[t]
    PROVE  /\ runqueue' \in Seq(Thread) /\ sleepers' \in Seq(Thread)
           /\ curthread' = curthread /\ zombies' = zombies
           /\ held' = [held EXCEPT ![l] = 0] /\ held' \in [Lock -> {0, 1}]
           /\ heldThread' = [heldThread EXCEPT ![l] = NULL]
           /\ heldThread' \in [Lock -> Thread \cup {NULL, Garbage}]
           /\ \A u \in Thread : l \notin owned[u]
           /\ count' = count /\ t_sleepaddr' = t_sleepaddr => NoLostWakeup'
<1>1. /\ held' = [held EXCEPT ![l] = 0]
      /\ heldThread' = [heldThread EXCEPT ![l] = NULL]
      /\ thread_wakeup(l)
  BY DEF Free
<1>2. ListFacts /\ SynchTypeOK /\ ThreadTypeOK /\ LockInv /\ NoLostWakeup
  BY DEF IInv, SynchTypeOK
<1>3. /\ runqueue' \in Seq(Thread) /\ sleepers' \in Seq(Thread)
      /\ \A u \in Elems(sleepers') :
            u \in Elems(sleepers) /\ u \in Thread /\ t_sleepaddr[u] # l
      /\ curthread' = curthread /\ zombies' = zombies
  BY <1>1, <1>2, WakeupLists
<1>4. \A u \in Thread : l \notin owned[u]
  BY <1>2 DEF LockInv
<1>5. /\ held' \in [Lock -> {0, 1}]
      /\ heldThread' \in [Lock -> Thread \cup {NULL, Garbage}]
  BY <1>1, <1>2 DEF SynchTypeOK
<1>6. count' = count /\ t_sleepaddr' = t_sleepaddr => NoLostWakeup'
  BY <1>1, <1>2, <1>3 DEF NoLostWakeup, SynchTypeOK
<1> QED
  BY <1>1, <1>3, <1>4, <1>5, <1>6

\* lock_release by the thread that holds the lock.
LEMMA ReleaseInv ==
    ASSUME IInv, NEW t \in Thread, ReleaseBody(t), heldThread[on[t]] = t
    PROVE  IInv'
<1> DEFINE l == on[t]
<1>1. /\ Running(t) /\ pc[t] = "R_body" /\ Leave(t) /\ Free(l)
      /\ count' = count /\ owned' = owned
  BY DEF ReleaseBody, At
<1>2. SynchTypeOK /\ SplInv /\ CallInv /\ LockInv
  BY DEF IInv
<1>3. l \in Lock /\ l \notin owned[t]
  BY <1>1, <1>2 DEF CallInv
<1> HIDE DEF l
<1>4. /\ runqueue' \in Seq(Thread) /\ sleepers' \in Seq(Thread)
      /\ curthread' = curthread /\ zombies' = zombies
      /\ held' = [held EXCEPT ![l] = 0] /\ held' \in [Lock -> {0, 1}]
      /\ heldThread' = [heldThread EXCEPT ![l] = NULL]
      /\ heldThread' \in [Lock -> Thread \cup {NULL, Garbage}]
      /\ \A u \in Thread : l \notin owned[u]
      /\ count' = count /\ t_sleepaddr' = t_sleepaddr => NoLostWakeup'
  BY <1>1, <1>3, FreeStep DEF l
<1>5. /\ SynchTypeOK' /\ SplInv' /\ ForkInv' /\ CountInv' /\ Live' = Live
      /\ curthread = t /\ pc' = [pc EXCEPT ![t] = "run"]
      /\ \A u \in Thread \ {t} : on'[u] = on[u] /\ lk'[u] = lk[u]
      /\ t_sleepaddr' = t_sleepaddr
  BY <1>1, <1>2, <1>4, LeaveStep, Zenon DEF SynchTypeOK, SynchLabels, Labels
<1>6. CallInv'
  BY <1>2, <1>5, LeaveCalls, Zenon
<1>7. LockInv'
  <2>1. LockFieldsAgree'
    BY <1>2, <1>4, <1>5 DEF LockInv, LockFieldsAgree, SynchTypeOK
  <2>2. \A u \in Thread : \A k \in owned'[u] : heldThread'[k] = u
    BY <1>1, <1>2, <1>4 DEF LockInv, SynchTypeOK
  <2>3. ASSUME NEW k \in Lock, NEW u \in Thread, heldThread'[k] = u
        PROVE  \/ k \in owned'[u]
               \/ pc'[u] = "R_body" /\ on'[u] = k
               \/ pc'[u] = "W_release" /\ lk'[u] = k
    <3>1. k # l /\ heldThread[k] = u
      BY <1>2, <1>4, <2>3, ThreadAssumption DEF SynchTypeOK
    <3>2. u = t => k \in owned[u]
      BY <1>1, <1>2, <3>1 DEF LockInv, l
    <3> QED
      BY <1>1, <1>2, <1>5, <3>1, <3>2 DEF LockInv, SynchTypeOK
  <2> QED
    BY <2>1, <2>2, <2>3 DEF LockInv
<1> QED
  BY <1>1, <1>4, <1>5, <1>6, <1>7 DEF IInv

\* A routine returns and has changed at most which threads are ready:
\* lock_release by a thread that does not hold the lock, cv_signal and
\* cv_broadcast.
LEMMA ReturnInv ==
    ASSUME IInv, NEW t \in Thread, Running(t), Leave(t),
           pc[t] \in {"R_body", "S_body", "B_body"},
           pc[t] = "R_body" => heldThread[on[t]] # t,
           runqueue' \in Seq(Thread), sleepers' \in Seq(Thread),
           Elems(sleepers') \subseteq Elems(sleepers),
           curthread' = curthread, zombies' = zombies,
           UNCHANGED <<count, held, heldThread, owned>>
    PROVE  IInv'
<1>1. SynchTypeOK /\ SplInv /\ CallInv /\ LockInv /\ NoLostWakeup
  BY DEF IInv
<1>2. /\ SynchTypeOK' /\ SplInv' /\ ForkInv' /\ CountInv' /\ Live' = Live
      /\ curthread = t /\ pc' = [pc EXCEPT ![t] = "run"]
      /\ \A u \in Thread \ {t} : on'[u] = on[u] /\ lk'[u] = lk[u]
      /\ t_sleepaddr' = t_sleepaddr
  BY <1>1, LeaveStep, Zenon DEF SynchTypeOK, SynchLabels, Labels
<1>3. CallInv'
  BY <1>1, <1>2 DEF CallInv, SynchTypeOK
<1>4. LockInv'
  BY <1>1, <1>2 DEF LockInv, LockFieldsAgree, SynchTypeOK
<1>5. NoLostWakeup'
  BY <1>1, <1>2 DEF NoLostWakeup
<1> QED
  BY <1>2, <1>3, <1>4, <1>5 DEF IInv

\* lock_acquire and lock_release by a thread.
LEMMA LockStepInv ==
    ASSUME IInv, NEW t \in Thread, LockStep(t)
    PROVE  IInv'
<1>0. /\ on \in [Thread -> Sem \cup Lock \cup CV \cup {NULL}]
      /\ lk \in [Thread -> Lock \cup {NULL}]
      /\ owned \in [Thread -> SUBSET Lock]
      /\ runqueue \in Seq(Thread) /\ sleepers \in Seq(Thread)
  BY DEF IInv, SynchTypeOK, ThreadTypeOK
<1>1. ASSUME NEW l \in Lock, AcquireCall(t, l)
      PROVE  IInv'
  BY <1>1, EnterInv DEF AcquireCall
<1>2. ASSUME NEW l \in Lock, ReleaseCall(t, l)
      PROVE  IInv'
  <2>1. /\ Enter(t, l, "R_body") /\ lk' = lk
        /\ owned' = [owned EXCEPT ![t] = @ \ {l}]
        /\ owned' \in [Thread -> SUBSET Lock]
    BY <1>0, <1>2 DEF ReleaseCall
  <2>2. "R_body" \in SynchLabels \ Labels
    BY DEF SynchLabels, Labels
  <2>3. /\ SynchTypeOK' /\ SplInv' /\ ForkInv' /\ CountInv' /\ NoLostWakeup'
        /\ Live' = Live
        /\ curthread = t /\ pc[t] = "run" /\ pc' = [pc EXCEPT ![t] = "R_body"]
        /\ on' = [on EXCEPT ![t] = l]
        /\ count' = count /\ held' = held /\ heldThread' = heldThread
    BY <1>0, <2>1, <2>2, EnterStep
  <2>4. SynchTypeOK /\ CallInv /\ LockInv
    BY DEF IInv
  <2>5. CallInv'
    BY <2>1, <2>3, <2>4 DEF CallInv, SynchTypeOK
  <2>6. LockInv'
    BY <2>1, <2>3, <2>4 DEF LockInv, LockFieldsAgree, SynchTypeOK
  <2> QED
    BY <2>3, <2>5, <2>6 DEF IInv
<1>3. ASSUME AcquireSleep(t)
      PROVE  IInv'
  <2>1. /\ Running(t) /\ pc[t] = "A_sleep" /\ Block(t, on[t], "A_test")
        /\ on' = on
    BY <1>3 DEF AcquireSleep, At
  <2>2. on[t] \in Lock /\ on[t] \notin Sem /\ held[on[t]] = 1
    BY <2>1, SynchAssumption DEF IInv, CallInv
  <2> QED
    BY <1>0, <2>1, <2>2, BlockInv DEF Atomic
<1>4. ASSUME ReleaseBody(t), heldThread[on[t]] # t
      PROVE  IInv'
  BY <1>0, <1>4, ReturnInv DEF ReleaseBody, At, lists
<1> QED
  BY <1>1, <1>2, <1>3, <1>4, TestInv, AcquireTakeInv, ReleaseInv DEF LockStep

\* cv_wait, cv_signal and cv_broadcast by a thread.
LEMMA CVStepInv ==
    ASSUME IInv, NEW t \in Thread, CVStep(t)
    PROVE  IInv'
<1>0. /\ ListFacts /\ SynchTypeOK /\ ThreadTypeOK
      /\ lk \in [Thread -> Lock \cup {NULL}]
      /\ owned \in [Thread -> SUBSET Lock]
      /\ SplInv /\ CallInv /\ LockInv
  BY DEF IInv, SynchTypeOK
<1>1. ASSUME NEW c \in CV, NEW l \in Lock, WaitCall(t, c, l)
      PROVE  IInv'
  <2>1. /\ Enter(t, c, "W_release") /\ lk' = [lk EXCEPT ![t] = l]
        /\ owned' = [owned EXCEPT ![t] = @ \ {l}]
        /\ owned' \in [Thread -> SUBSET Lock]
        /\ lk' \in [Thread -> Lock \cup {NULL}]
        /\ heldThread[l] = t
    BY <1>0, <1>1 DEF WaitCall, lock_do_i_hold
  <2>2. "W_release" \in SynchLabels \ Labels
    BY DEF SynchLabels, Labels
  <2>3. /\ SynchTypeOK' /\ SplInv' /\ ForkInv' /\ CountInv' /\ NoLostWakeup'
        /\ Live' = Live
        /\ curthread = t /\ pc[t] = "run" /\ pc' = [pc EXCEPT ![t] = "W_release"]
        /\ on' = [on EXCEPT ![t] = c]
        /\ count' = count /\ held' = held /\ heldThread' = heldThread
    BY <1>0, <2>1, <2>2, EnterStep
  <2>4. CallInv'
    BY <1>0, <2>1, <2>3 DEF CallInv, SynchTypeOK
  <2>5. LockInv'
    <3>1. LockFieldsAgree'
      BY <1>0, <2>3 DEF LockInv, LockFieldsAgree
    <3>2. \A u \in Thread : \A k \in owned'[u] : heldThread'[k] = u
      BY <1>0, <2>1, <2>3 DEF LockInv
    <3>3. ASSUME NEW k \in Lock, NEW u \in Thread, heldThread'[k] = u
          PROVE  \/ k \in owned'[u]
                 \/ pc'[u] = "R_body" /\ on'[u] = k
                 \/ pc'[u] = "W_release" /\ lk'[u] = k
      <4>1. \/ k \in owned[u]
            \/ pc[u] = "R_body" /\ on[u] = k
            \/ pc[u] = "W_release" /\ lk[u] = k
        BY <1>0, <2>3, <3>3 DEF LockInv
      <4> QED
        BY <1>0, <2>1, <2>3, <4>1 DEF SynchTypeOK
    <3> QED
      BY <3>1, <3>2, <3>3 DEF LockInv
  <2> QED
    BY <2>3, <2>4, <2>5 DEF IInv
<1>2. ASSUME NEW c \in CV, NEW l \in Lock,
             SignalCall(t, c, l) \/ BroadcastCall(t, c, l)
      PROVE  IInv'
  <2>1. PICK label \in {"S_body", "B_body"} : Enter(t, c, label)
    BY <1>2 DEF SignalCall, BroadcastCall
  <2> QED
    BY <1>2, <2>1, EnterInv DEF SignalCall, BroadcastCall
<1>3. ASSUME WaitRelease(t)
      PROVE  IInv'
  <2> DEFINE l == lk[t]
  <2>1. /\ curthread = t /\ t \notin pcb_ininterrupt /\ pc[t] = "W_release"
        /\ Free(l) /\ pc' = [pc EXCEPT ![t] = "W_sleep"]
        /\ UNCHANGED <<numthreads, t_sleepaddr, pcb_ininterrupt, curspl,
                       lbolt_counter, num_secs, newguy>>
        /\ UNCHANGED <<count, on, lk, owned>>
    BY <1>3 DEF WaitRelease, At, Running, Goto, irqvars, locals, callVars
  <2>2. l \in Lock /\ heldThread[l] = t /\ l \notin owned[t] /\ on[t] \in CV
    BY <1>0, <2>1 DEF CallInv
  <2> HIDE DEF l
  <2>3. /\ runqueue' \in Seq(Thread) /\ sleepers' \in Seq(Thread)
        /\ curthread' = curthread /\ zombies' = zombies
        /\ held' = [held EXCEPT ![l] = 0] /\ held' \in [Lock -> {0, 1}]
        /\ heldThread' = [heldThread EXCEPT ![l] = NULL]
        /\ heldThread' \in [Lock -> Thread \cup {NULL, Garbage}]
        /\ \A u \in Thread : l \notin owned[u]
        /\ NoLostWakeup'
    BY <2>1, <2>2, FreeStep
  <2>4. SynchTypeOK'
    BY <1>0, <2>1, <2>3 DEF SynchTypeOK, ThreadTypeOK, SynchLabels
  <2>5. SplInv'
    BY <1>0, <2>1, <2>3 DEF SplInv, SynchNotPreempted, SynchTypeOK
  <2>6. ForkInv' /\ CountInv' /\ Live' = Live
    BY <1>0, <2>1, <2>3, CallStep, Zenon DEF SynchTypeOK
  <2>7. CallInv'
    BY <1>0, <2>1, <2>2 DEF CallInv, SplInv, Atomic, SynchTypeOK, l
  <2>8. LockInv'
    <3>1. LockFieldsAgree'
      BY <1>0, <2>3, <2>6 DEF LockInv, LockFieldsAgree, SynchTypeOK
    <3>2. \A u \in Thread : \A k \in owned'[u] : heldThread'[k] = u
      BY <1>0, <2>1, <2>3 DEF LockInv, SynchTypeOK
    <3>3. ASSUME NEW k \in Lock, NEW u \in Thread, heldThread'[k] = u
          PROVE  \/ k \in owned'[u]
                 \/ pc'[u] = "R_body" /\ on'[u] = k
                 \/ pc'[u] = "W_release" /\ lk'[u] = k
      <4>1. k # l /\ heldThread[k] = u
        BY <1>0, <2>3, <3>3, ThreadAssumption DEF SynchTypeOK
      <4>2. u = t => k \in owned[u]
        BY <1>0, <2>1, <4>1 DEF LockInv, l
      <4> QED
        BY <1>0, <2>1, <4>1, <4>2 DEF LockInv, SynchTypeOK
    <3> QED
      BY <3>1, <3>2, <3>3 DEF LockInv
  <2> QED
    BY <2>3, <2>4, <2>5, <2>6, <2>7, <2>8 DEF IInv
<1>4. ASSUME WaitSleep(t)
      PROVE  IInv'
  <2>1. /\ Running(t) /\ pc[t] = "W_sleep" /\ Block(t, on[t], "A_test")
        /\ on' = [on EXCEPT ![t] = lk[t]]
    BY <1>4 DEF WaitSleep, At
  <2>2. on[t] \in CV /\ on[t] \notin Sem /\ on[t] \notin Lock /\ lk[t] \in Lock
    BY <1>0, <2>1, SynchAssumption DEF CallInv
  <2>3. /\ on' \in [Thread -> Sem \cup Lock \cup CV \cup {NULL}]
        /\ on'[t] = lk[t] /\ \A u \in Thread \ {t} : on'[u] = on[u]
    BY <1>0, <2>1, <2>2 DEF SynchTypeOK
  <2> QED
    BY <2>1, <2>2, <2>3, BlockInv DEF Atomic
<1>5. ASSUME SignalBody(t)
      PROVE  IInv'
  <2>1. /\ Running(t) /\ pc[t] = "S_body" /\ Leave(t) /\ thread_wakeupOne(on[t])
        /\ UNCHANGED <<count, held, heldThread, owned>>
    BY <1>5 DEF SignalBody, At, objVars
  <2>2. /\ runqueue' \in Seq(Thread) /\ sleepers' \in Seq(Thread)
        /\ Elems(sleepers') \subseteq Elems(sleepers)
        /\ curthread' = curthread /\ zombies' = zombies
    BY <1>0, <2>1, WakeupOneLists
  <2> QED
    BY <2>1, <2>2, ReturnInv
<1>6. ASSUME BroadcastBody(t)
      PROVE  IInv'
  <2>1. /\ Running(t) /\ pc[t] = "B_body" /\ Leave(t) /\ thread_wakeup(on[t])
        /\ UNCHANGED <<count, held, heldThread, owned>>
    BY <1>6 DEF BroadcastBody, At, objVars
  <2>2. /\ runqueue' \in Seq(Thread) /\ sleepers' \in Seq(Thread)
        /\ Elems(sleepers') \subseteq Elems(sleepers)
        /\ curthread' = curthread /\ zombies' = zombies
    BY <1>0, <2>1, WakeupLists
  <2> QED
    BY <2>1, <2>2, ReturnInv
<1> QED
  BY <1>1, <1>2, <1>3, <1>4, <1>5, <1>6 DEF CVStep
=============================================================================
