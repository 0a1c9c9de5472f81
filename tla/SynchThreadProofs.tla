------------------------- MODULE SynchThreadProofs --------------------------
(***************************************************************************)
(* The steps of the thread system keep the inductive invariant of          *)
(* SynchProofs: context switch, timer, sleep, fork and exit.               *)
(***************************************************************************)
EXTENDS SynchProofs

\* A step of the thread system leaves alone what the calls of synch.c and the
\* locks rely on, if the threads that die own no lock.
LEMMA QuietCalls ==
    ASSUME IInv, UNCHANGED <<count, held, heldThread, on, lk, owned>>,
           \A u \in Thread : \/ pc'[u] = pc[u]
                             \/ pc[u] \in Labels /\ pc'[u] \in Labels,
           \A u \in Thread : u \in Live => u \in Live' \/ owned[u] = {}
    PROVE  CallInv' /\ LockInv'
<1>1. SynchTypeOK /\ CallInv /\ LockInv
  BY DEF IInv
<1>2. CallInv'
  BY <1>1 DEF CallInv, Labels
<1>3. LockFieldsAgree'
  <2>1. ASSUME NEW l \in Lock, held[l] = 1
        PROVE  heldThread[l] \in Live'
    <3>1. PICK u \in Thread : u = heldThread[l] /\ u \in Live
      BY <1>1, <2>1 DEF LockInv, LockFieldsAgree, Live
    <3>2. CASE pc'[u] = pc[u]
      BY <3>1, <3>2 DEF Live
    <3>3. CASE pc[u] \in Labels
      <4>1. l \in owned[u]
        BY <1>1, <3>1, <3>3 DEF LockInv, Labels
      <4> QED
        BY <3>1, <4>1
    <3> QED
      BY <3>1, <3>2, <3>3
  <2> QED
    BY <1>1, <2>1 DEF LockInv, LockFieldsAgree
<1>4. LockInv'
  BY <1>1, <1>3 DEF LockInv, Labels
<1> QED
  BY <1>2, <1>4

\* The scheduler switches to a thread.
LEMMA ScheduleInv ==
    ASSUME IInv, Schedule, UNCHANGED synchVars
    PROVE  IInv'
<1> DEFINE next == Head(runqueue)
<1>1. /\ ListFacts /\ SynchTypeOK /\ ThreadTypeOK /\ SplInv /\ ForkInv
      /\ CountInv /\ NoLostWakeup
  BY DEF IInv, SynchTypeOK
<1>2. /\ next \in Thread /\ runqueue' \in Seq(Thread)
      /\ curthread = NULL /\ curthread' = next
      /\ UNCHANGED <<sleepers, numthreads, pcb_ininterrupt, curspl,
                     lbolt_counter, num_secs, newguy>>
      /\ UNCHANGED <<count, held, heldThread, on, lk, owned>>
  BY <1>1 DEF ListFacts, TailFact, Schedule, ThreadTypeOK, irqvars, locals,
              synchVars, objVars, callVars
<1>3. Elems(zombies) \subseteq Thread
  BY <1>1 DEF ListFacts, ElemsFact, ThreadTypeOK
<1>4. \/ UNCHANGED <<zombies, pc, t_sleepaddr>>
      \/ /\ zombies' = <<>>
         /\ pc' = [u \in Thread |-> IF u \in Elems(zombies) THEN "none" ELSE pc[u]]
         /\ t_sleepaddr' = [t_sleepaddr EXCEPT ![next] = NULL]
  BY DEF Schedule, exorcise
<1> HIDE DEF next
<1>5. /\ pc' \in [Thread -> SynchLabels]
      /\ \A u \in Thread : \/ pc'[u] = pc[u]
                           \/ pc[u] = "zombie" /\ pc'[u] = "none"
  BY <1>1, <1>3, <1>4 DEF SynchTypeOK, SynchLabels, Labels, ForkInv
<1>6. /\ zombies' \in Seq(Thread)
      /\ \A u \in Elems(zombies') : u \in Elems(zombies) /\ pc'[u] = pc[u]
  <2>1. CASE UNCHANGED <<zombies, pc, t_sleepaddr>>
    BY <1>1, <2>1 DEF ThreadTypeOK
  <2>2. CASE zombies' = <<>>
    BY <2>2 DEF Elems
  <2> QED
    BY <1>4, <2>1, <2>2
<1>7. SynchTypeOK'
  BY <1>1, <1>2, <1>4, <1>5, <1>6, Zenon DEF SynchTypeOK, ThreadTypeOK
<1>8. SplInv'
  BY <1>1, <1>2, <1>5, ThreadAssumption, Zenon DEF SplInv, SynchNotPreempted,
     ThreadTypeOK, Atomic
<1>9. Live' = Live
  BY <1>5 DEF Live
<1>10. ForkInv'
  <2>1. \A u \in Elems(zombies') : pc'[u] = "zombie"
    BY <1>1, <1>6 DEF ForkInv
  <2>2. \A u \in Thread : pc'[u] = "fork" => pc[u] = "fork"
    BY <1>5
  <2>3. \A u \in Thread : pc[u] = "embryo" => pc'[u] = "embryo"
    BY <1>5
  <2> QED
    BY <1>1, <1>2, <2>1, <2>2, <2>3 DEF ForkInv
<1>11. CountInv'
  BY <1>1, <1>2, <1>5, <1>9 DEF CountInv, NumthreadsExact
<1>12. CallInv' /\ LockInv'
  BY <1>2, <1>5, <1>9, QuietCalls DEF Labels
<1>13. NoLostWakeup'
  <2>1. Elems(sleepers) \subseteq Thread
    BY <1>1 DEF ListFacts, ElemsFact, ThreadTypeOK
  <2>2. \A u \in Elems(sleepers) : t_sleepaddr'[u] \in {t_sleepaddr[u], NULL}
    BY <1>1, <1>4, <2>1 DEF ThreadTypeOK
  <2> QED
    BY <1>1, <1>2, <2>2, ThreadAssumption, SynchAssumption DEF NoLostWakeup
<1> QED
  BY <1>7, <1>8, <1>10, <1>11, <1>12, <1>13 DEF IInv

\* The timer interrupt, which finds no thread in an atomic section.
LEMMA HardclockInv ==
    ASSUME IInv, hardclock, UNCHANGED synchVars
    PROVE  IInv'
<1>1. /\ ListFacts /\ SynchTypeOK /\ ThreadTypeOK /\ SplInv /\ ForkInv
      /\ CountInv /\ NoLostWakeup
      /\ runqueue \in Seq(Thread) /\ sleepers \in Seq(Thread)
  BY DEF IInv, SynchTypeOK, ThreadTypeOK
<1>2. /\ curspl = 0 \/ curthread = NULL
      /\ lbolt_counter' = (lbolt_counter + 1) % HZ
      /\ UNCHANGED <<zombies, numthreads, t_sleepaddr, pc, num_secs, newguy>>
      /\ UNCHANGED <<count, held, heldThread, on, lk, owned>>
      /\ \E rq : Preempt(rq) /\ curthread' = NULL /\ curspl' = 15
  BY Zenon DEF hardclock, TakesInterrupt, Preempt, SPL_HIGH, locals, synchVars,
         objVars, callVars
<1>3. PICK rq \in Seq(Thread) :
        /\ Preempt(rq)
        /\ sleepers' \in Seq(Thread) /\ Elems(sleepers') \subseteq Elems(sleepers)
  <2> DEFINE a == Filter(sleepers, On(lbolt))
             b == Filter(sleepers, Thread \ On(lbolt))
  <2>1. a \in Seq(Thread) /\ b \in Seq(Thread) /\ Elems(b) \subseteq Elems(sleepers)
    BY <1>1 DEF ListFacts, FilterFact, On
  <2>2. runqueue \o a \in Seq(Thread)
    BY <1>1, <2>1 DEF ListFacts, ConcatFact
  <2>3. CASE LboltDue
    BY <2>1, <2>2, <2>3, Zenon DEF hardclock
  <2>4. CASE ~ LboltDue
    BY <1>1, <2>4 DEF hardclock
  <2> QED
    BY <2>3, <2>4
<1>4. /\ runqueue' \in Seq(Thread)
      /\ \/ pcb_ininterrupt' = pcb_ininterrupt
         \/ /\ curthread \in Thread /\ pc[curthread] \in {"run", "fork"}
            /\ pcb_ininterrupt' = pcb_ininterrupt \cup {curthread}
  <2>1. CASE curthread = NULL
    BY <1>3, <2>1 DEF Preempt
  <2>2. CASE curthread # NULL
    <3>1. curthread \in Thread /\ pc[curthread] \in {"run", "fork"}
      BY <1>1, <1>2, <2>2 DEF ThreadTypeOK, SplInv, SynchNotPreempted
    <3>2. Append(rq, curthread) \in Seq(Thread)
      BY <1>1, <3>1 DEF ListFacts, AppendFact
    <3> QED
      BY <1>3, <2>2, <3>1, <3>2 DEF Preempt
  <2> QED
    BY <2>1, <2>2
<1>5. \A u \in Thread : pc[u] \notin Atomic
  BY <1>1, <1>2, ThreadAssumption DEF SplInv, SynchNotPreempted, Atomic
<1>6. lbolt_counter' \in 0 .. HZ - 1
  BY <1>1, <1>2, ThreadAssumption DEF ThreadTypeOK
<1>7. SynchTypeOK'
  BY <1>1, <1>2, <1>3, <1>4, <1>6 DEF SynchTypeOK, ThreadTypeOK, SPL_HIGH
<1>8. SplInv'
  BY <1>1, <1>2, <1>4, <1>5 DEF SplInv, SynchNotPreempted
<1>9. ForkInv' /\ CountInv' /\ Live' = Live
  BY <1>1, <1>2 DEF ForkInv, CountInv, NumthreadsExact, Live
<1>10. CallInv' /\ LockInv'
  BY <1>2, <1>9, QuietCalls
<1>11. NoLostWakeup'
  BY <1>1, <1>2, <1>3 DEF NoLostWakeup
<1> QED
  BY <1>7, <1>8, <1>9, <1>10, <1>11 DEF IInv

\* What is left to show of a step of one thread that is not in a routine of
\* synch.c, between labels that numthreads counts.
LEMMA QuietStep ==
    ASSUME IInv, UNCHANGED synchVars, NEW t \in Thread, curthread = t,
           pc[t] \in Labels \ {"none", "embryo", "zombie"},
           pc'[t] \in Labels \ {"none", "embryo", "zombie"},
           \A u \in Thread \ {t} : pc'[u] = pc[u],
           pc' \in [Thread -> SynchLabels], ThreadTypeOK',
           curspl' = 0 => curthread' = t /\ pc'[t] \in {"run", "fork"},
           pcb_ininterrupt' \subseteq pcb_ininterrupt,
           t \in pcb_ininterrupt' => pc'[t] \in {"run", "fork"}
    PROVE  /\ SynchTypeOK' /\ SplInv' /\ CallInv' /\ LockInv' /\ Live' = Live
<1>1. SynchTypeOK /\ SplInv
  BY DEF IInv
<1>2. UNCHANGED <<count, held, heldThread, on, lk, owned>>
  BY DEF synchVars, objVars, callVars
<1>3. SynchTypeOK'
  BY <1>1, <1>2 DEF SynchTypeOK
<1>4. \A u \in Thread : pc'[u] \notin Atomic
  BY <1>1 DEF SynchTypeOK, SplInv, Atomic, Labels
<1>5. SynchNotPreempted'
  BY <1>1, ThreadAssumption, Zenon
     DEF SplInv, SynchNotPreempted, SynchTypeOK, ThreadTypeOK
<1>6. SplInv'
  BY <1>4, <1>5 DEF SplInv
<1>7. Live' = Live
  BY <1>1 DEF Live, SynchTypeOK
<1>8. CallInv' /\ LockInv'
  BY <1>2, <1>7, QuietCalls
<1> QED
  BY <1>3, <1>6, <1>7, <1>8

\* Steps of a thread outside synch.c, except thread_fork and thread_exit.
LEMMA SwitchInv ==
    ASSUME IInv, UNCHANGED synchVars, NEW t \in Thread,
           Resume(t) \/ thread_yield(t) \/ \E n \in 0 .. MaxSecs : clocksleep(t, n)
    PROVE  IInv'
<1>1. /\ ListFacts /\ SynchTypeOK /\ ThreadTypeOK /\ SplInv /\ ForkInv
      /\ CountInv /\ NoLostWakeup
  BY DEF IInv, SynchTypeOK
<1>2. pc \in [Thread -> SynchLabels]
  BY <1>1 DEF SynchTypeOK
<1>3. ASSUME mi_threadstart(t) \/ YieldReturn(t) \/ ClockReturn(t)
      PROVE  IInv'
  <2>1. /\ curthread = t /\ t \notin pcb_ininterrupt
        /\ pc[t] \in {"start", "yield", "clock_test"}
        /\ curspl' = 0 /\ pc' = [pc EXCEPT ![t] = "run"]
        /\ UNCHANGED <<curthread, runqueue, sleepers, zombies, numthreads,
                       t_sleepaddr, pcb_ininterrupt, lbolt_counter, num_secs,
                       newguy>>
    BY <1>3 DEF mi_threadstart, YieldReturn, ClockReturn, Running, Goto, lists,
                locals
  <2>2. ThreadTypeOK'
    BY <1>1, <2>1 DEF ThreadTypeOK
  <2>3. SynchTypeOK' /\ SplInv' /\ CallInv' /\ LockInv' /\ Live' = Live
    BY <1>2, <2>1, <2>2, QuietStep DEF SynchLabels, Labels
  <2>4. ForkInv' /\ CountInv'
    BY <1>1, <2>1, CallStep DEF SynchTypeOK
  <2>5. NoLostWakeup'
    BY <1>1, <2>1 DEF NoLostWakeup, synchVars, objVars
  <2> QED
    BY <2>3, <2>4, <2>5 DEF IInv
<1>4. ASSUME InterruptReturn(t)
      PROVE  IInv'
  <2>1. /\ curthread = t /\ pc[t] \in {"run", "fork"}
        /\ pcb_ininterrupt' = pcb_ininterrupt \ {t}
        /\ curspl' = 0 /\ pc' = pc
        /\ UNCHANGED <<curthread, runqueue, sleepers, zombies, numthreads,
                       t_sleepaddr, lbolt_counter, num_secs, newguy>>
    BY <1>1, <1>4 DEF InterruptReturn, lists, locals, SplInv, SynchNotPreempted
  <2>2. ThreadTypeOK'
    BY <1>1, <2>1 DEF ThreadTypeOK
  <2>3. SynchTypeOK' /\ SplInv' /\ CallInv' /\ LockInv' /\ Live' = Live
    BY <1>2, <2>1, <2>2, QuietStep DEF SynchLabels, Labels
  <2>4. ForkInv' /\ CountInv'
    BY <1>1, <2>1, <2>3 DEF ForkInv, CountInv, NumthreadsExact
  <2>5. NoLostWakeup'
    BY <1>1, <2>1 DEF NoLostWakeup, synchVars, objVars
  <2> QED
    BY <2>3, <2>4, <2>5 DEF IInv
<1>5. ASSUME thread_yield(t)
      PROVE  IInv'
  <2>1. /\ curthread = t /\ t \notin pcb_ininterrupt /\ pc[t] = "run"
        /\ runqueue' = Append(runqueue, t) /\ curthread' = NULL
        /\ curspl' = 15 /\ pc' = [pc EXCEPT ![t] = "yield"]
        /\ UNCHANGED <<sleepers, zombies, numthreads, t_sleepaddr,
                       pcb_ininterrupt, lbolt_counter, num_secs, newguy>>
    BY <1>5 DEF thread_yield, InClient, Running, Goto, SwitchReady, locals,
                SPL_HIGH
  <2>2. ThreadTypeOK'
    BY <1>1, <2>1 DEF ListFacts, AppendFact, ThreadTypeOK, SPL_HIGH
  <2>3. SynchTypeOK' /\ SplInv' /\ CallInv' /\ LockInv' /\ Live' = Live
    BY <1>2, <2>1, <2>2, QuietStep DEF SynchLabels, Labels
  <2>4. ForkInv' /\ CountInv'
    BY <1>1, <2>1, CallStep DEF SynchTypeOK
  <2>5. NoLostWakeup'
    BY <1>1, <2>1 DEF NoLostWakeup, synchVars, objVars
  <2> QED
    BY <2>3, <2>4, <2>5 DEF IInv
<1>6. ASSUME NEW n \in 0 .. MaxSecs, clocksleep(t, n)
      PROVE  IInv'
  <2>1. /\ curthread = t /\ t \notin pcb_ininterrupt /\ pc[t] = "run"
        /\ num_secs' = [num_secs EXCEPT ![t] = n]
        /\ curspl' = 15 /\ pc' = [pc EXCEPT ![t] = "clock_test"]
        /\ UNCHANGED <<curthread, runqueue, sleepers, zombies, numthreads,
                       t_sleepaddr, pcb_ininterrupt, lbolt_counter, newguy>>
    BY <1>6 DEF clocksleep, InClient, Running, Goto, lists, SPL_HIGH
  <2>2. ThreadTypeOK'
    BY <1>1, <2>1, ThreadAssumption DEF ThreadTypeOK, SPL_HIGH
  <2>3. SynchTypeOK' /\ SplInv' /\ CallInv' /\ LockInv' /\ Live' = Live
    BY <1>2, <2>1, <2>2, QuietStep DEF SynchLabels, Labels
  <2>4. ForkInv'
    BY <1>1, <2>1 DEF ForkInv, SynchTypeOK, ThreadTypeOK
  <2>5. CountInv'
    BY <1>1, <2>1, <2>3 DEF CountInv, NumthreadsExact, SynchTypeOK, ThreadTypeOK
  <2>6. NoLostWakeup'
    BY <1>1, <2>1 DEF NoLostWakeup, synchVars, objVars
  <2> QED
    BY <2>3, <2>4, <2>5, <2>6 DEF IInv
<1>7. ASSUME ClockSleep(t)
      PROVE  IInv'
  <2>1. /\ curthread = t /\ t \notin pcb_ininterrupt /\ pc[t] = "clock_test"
        /\ num_secs[t] > 0 /\ thread_sleep(lbolt)
        /\ pc' = [pc EXCEPT ![t] = "clock_dec"]
        /\ UNCHANGED <<numthreads, pcb_ininterrupt, curspl, lbolt_counter,
                       num_secs, newguy>>
    BY <1>7 DEF ClockSleep, Running, Goto, irqvars, locals
  <2>2. /\ sleepers' \in Seq(Thread)
        /\ Elems(sleepers') = Elems(sleepers) \cup {t}
        /\ t_sleepaddr' = [t_sleepaddr EXCEPT ![t] = lbolt]
        /\ curthread' = NULL /\ zombies' = zombies /\ runqueue' = runqueue
    BY <1>1, <2>1, SleepLists
  <2>3. ThreadTypeOK' /\ curspl # 0
    BY <1>1, <2>1, <2>2, ThreadAssumption
       DEF ThreadTypeOK, SplInv, SynchNotPreempted
  <2>4. SynchTypeOK' /\ SplInv' /\ CallInv' /\ LockInv' /\ Live' = Live
    BY <1>2, <2>1, <2>3, QuietStep DEF SynchLabels, Labels
  <2>5. ForkInv'
    BY <1>1, <2>1, <2>2 DEF ForkInv, SynchTypeOK, ThreadTypeOK
  <2>6. CountInv'
    BY <1>1, <2>1, <2>4 DEF CountInv, NumthreadsExact, SynchTypeOK, ThreadTypeOK
  <2>7. NoLostWakeup'
    <3>1. count' = count /\ held' = held
      BY <1>1 DEF synchVars, objVars
    <3>2. t_sleepaddr'[t] \notin Sem \cup Lock
      BY <1>1, <2>2, SynchAssumption DEF ThreadTypeOK
    <3>3. \A u \in Elems(sleepers') \ {t} :
            u \in Elems(sleepers) /\ t_sleepaddr'[u] = t_sleepaddr[u]
      BY <1>1, <2>2 DEF ThreadTypeOK
    <3> QED
      BY <1>1, <3>1, <3>2, <3>3 DEF NoLostWakeup
  <2> QED
    BY <2>4, <2>5, <2>6, <2>7 DEF IInv
<1>8. ASSUME ClockDec(t)
      PROVE  IInv'
  <2>1. /\ curthread = t /\ t \notin pcb_ininterrupt /\ pc[t] = "clock_dec"
        /\ num_secs' = [num_secs EXCEPT ![t] = @ - 1]
        /\ pc' = [pc EXCEPT ![t] = "clock_test"]
        /\ UNCHANGED <<curthread, runqueue, sleepers, zombies, numthreads,
                       t_sleepaddr, pcb_ininterrupt, curspl, lbolt_counter,
                       newguy>>
    BY <1>8 DEF ClockDec, Running, Goto, lists, irqvars
  <2>2. num_secs[t] \in Nat \ {0} /\ curspl # 0
    BY <1>1, <2>1 DEF CountInv, ThreadTypeOK, SplInv, SynchNotPreempted
  <2>3. ThreadTypeOK'
    BY <1>1, <2>1, <2>2 DEF ThreadTypeOK
  <2>4. SynchTypeOK' /\ SplInv' /\ CallInv' /\ LockInv' /\ Live' = Live
    BY <1>2, <2>1, <2>2, <2>3, QuietStep DEF SynchLabels, Labels
  <2>5. ForkInv'
    BY <1>1, <2>1 DEF ForkInv, SynchTypeOK, ThreadTypeOK
  <2>6. CountInv'
    BY <1>1, <2>1, <2>4 DEF CountInv, NumthreadsExact, SynchTypeOK, ThreadTypeOK
  <2>7. NoLostWakeup'
    BY <1>1, <2>1 DEF NoLostWakeup, synchVars, objVars
  <2> QED
    BY <2>4, <2>5, <2>6, <2>7 DEF IInv
<1> QED
  BY <1>3, <1>4, <1>5, <1>6, <1>7, <1>8 DEF Resume

\* thread_fork: the structure being made belongs to one thread.
LEMMA ForkStepInv ==
    ASSUME IInv, UNCHANGED synchVars, NEW t \in Thread,
           (\E n \in Thread : ForkCreate(t, n)) \/ ForkRun(t) \/ ForkFail(t)
    PROVE  IInv'
<1>1. /\ ListFacts /\ SynchTypeOK /\ ThreadTypeOK /\ SplInv /\ ForkInv
      /\ CountInv /\ NoLostWakeup /\ pc \in [Thread -> SynchLabels]
      /\ newguy \in [Thread -> Thread \cup {NULL}]
      /\ Elems(zombies) \subseteq Thread
  BY DEF IInv, ListFacts, ElemsFact, SynchTypeOK, ThreadTypeOK
<1>2. UNCHANGED <<count, held, heldThread, on, lk, owned>>
  BY DEF synchVars, objVars, callVars
<1>3. PICK n \in Thread, a \in {"fork", "run"},
           b \in {"embryo", "start", "none"} :
        /\ curthread = t /\ t \notin pcb_ininterrupt /\ n # t
        /\ pc' = [pc EXCEPT ![t] = a, ![n] = b]
        /\ UNCHANGED <<curthread, sleepers, zombies, t_sleepaddr, curspl,
                       pcb_ininterrupt, lbolt_counter, num_secs>>
        /\ newguy' \in [Thread -> Thread \cup {NULL}]
        /\ \A u \in Thread \ {t} : newguy'[u] = newguy[u]
        /\ runqueue' \in Seq(Thread)
        /\ \/ /\ pc[t] = "run" /\ a = "fork"
              /\ pc[n] = "none" /\ b = "embryo"
              /\ newguy'[t] = n /\ numthreads' = numthreads
           \/ /\ pc[t] = "fork" /\ a = "run"
              /\ pc[n] = "embryo" /\ b = "start"
              /\ newguy[t] = n /\ numthreads' = numthreads + 1
           \/ /\ pc[t] = "fork" /\ a = "run"
              /\ pc[n] = "embryo" /\ b = "none"
              /\ newguy[t] = n /\ numthreads' = numthreads
  <2>1. CASE \E n \in Thread : ForkCreate(t, n)
    <3>1. PICK n \in Thread : ForkCreate(t, n)
      BY <2>1
    <3>2. n # t /\ runqueue' \in Seq(Thread)
      BY <1>1, <3>1 DEF ForkCreate, InClient, lists, ThreadTypeOK
    <3>3. /\ newguy' \in [Thread -> Thread \cup {NULL}] /\ newguy'[t] = n
          /\ \A u \in Thread \ {t} : newguy'[u] = newguy[u]
      BY <1>1, <3>1 DEF ForkCreate
    <3> QED
      BY <1>1, <3>1, <3>2, <3>3 DEF ForkCreate, InClient, Running, lists, irqvars
  <2>2. CASE ForkRun(t)
    <3>1. newguy[t] \in Thread /\ pc[newguy[t]] = "embryo" /\ newguy[t] # t
      BY <1>1, <2>2 DEF ForkRun, ForkInv
    <3>2. runqueue' \in Seq(Thread)
      BY <1>1, <2>2, <3>1 DEF ListFacts, AppendFact, ForkRun, ThreadTypeOK
    <3> QED
      BY <1>1, <2>2, <3>1, <3>2 DEF ForkRun, Running, irqvars
  <2>3. CASE ForkFail(t)
    <3>1. newguy[t] \in Thread /\ pc[newguy[t]] = "embryo" /\ newguy[t] # t
      BY <1>1, <2>3 DEF ForkFail, ForkInv
    <3> QED
      BY <1>1, <2>3, <3>1 DEF ForkFail, Running, lists, irqvars, ThreadTypeOK
  <2> QED
    BY <2>1, <2>2, <2>3
<1>4. /\ pc'[t] = a /\ pc'[n] = b
      /\ \A u \in Thread \ {t, n} : pc'[u] = pc[u]
      /\ pc' \in [Thread -> SynchLabels]
  BY <1>1, <1>3 DEF SynchLabels, Labels
<1>5. /\ Live \subseteq Live'
      /\ b # "start" => Live' = Live
      /\ b = "start" => Live' = Live \cup {n} /\ n \notin Live
  BY <1>3, <1>4 DEF Live
<1>6. numthreads \in Nat /\ numthreads' \in Nat
  BY <1>1, <1>3 DEF ThreadTypeOK
<1>7. SynchTypeOK'
  BY <1>1, <1>2, <1>3, <1>4, <1>6, Zenon DEF SynchTypeOK, ThreadTypeOK
<1>8. SplInv'
  BY <1>1, <1>3, <1>4, Zenon DEF SplInv, SynchNotPreempted, Atomic, ThreadTypeOK
<1>9. ForkInv'
  <2>1. \A u \in Elems(zombies') : pc'[u] = "zombie"
    BY <1>1, <1>3, <1>4, Zenon DEF ForkInv
  <2>2. \A u \in Thread \ {t} : pc'[u] = "fork" =>
           newguy'[u] \in Thread /\ pc'[newguy'[u]] = "embryo" /\ newguy'[u] # n
    <3> SUFFICES ASSUME NEW u \in Thread \ {t}, pc'[u] = "fork"
                 PROVE  /\ newguy'[u] \in Thread /\ newguy'[u] # n
                        /\ pc'[newguy'[u]] = "embryo"
      OBVIOUS
    <3>1. pc[u] = "fork" /\ newguy'[u] = newguy[u]
      BY <1>3, <1>4
    <3>2. newguy[u] \in Thread /\ pc[newguy[u]] = "embryo"
      BY <1>1, <3>1 DEF ForkInv
    <3>3. newguy[u] # n /\ newguy[u] # t
      BY <1>1, <1>3, <3>1, <3>2 DEF ForkInv
    <3> QED
      BY <1>4, <3>1, <3>2, <3>3
  <2>3. pc'[t] = "fork" => newguy'[t] = n /\ pc'[n] = "embryo"
    BY <1>3, <1>4
  <2>4. \A u \in Thread \ {t} : pc'[u] = "fork" => pc[u] = "fork"
    BY <1>3, <1>4
  <2>5. ASSUME NEW u \in Thread, NEW v \in Thread, pc'[u] = "fork",
               pc'[v] = "fork", newguy'[u] = newguy'[v]
        PROVE  u = v
    <3>1. CASE u = t \/ v = t
      BY <2>2, <2>3, <2>5, <3>1
    <3>2. CASE u # t /\ v # t
      BY <1>1, <1>3, <2>4, <2>5, <3>2 DEF ForkInv
    <3> QED
      BY <3>1, <3>2
  <2>6. \A u \in Thread : pc'[u] = "fork" =>
           newguy'[u] \in Thread /\ pc'[newguy'[u]] = "embryo"
    BY <2>2, <2>3
  <2> QED
    BY <2>1, <2>5, <2>6 DEF ForkInv
<1>10. NumthreadsExact'
  <2>1. Live \subseteq Thread
    BY DEF Live
  <2>2. CASE b = "start"
    <3>1. Cardinality(Live') = Cardinality(Live) + 1
      BY <1>1, <1>5, <2>1, <2>2 DEF ListFacts, CardFact
    <3> QED
      BY <1>1, <1>3, <2>2, <3>1 DEF CountInv, NumthreadsExact
  <2>3. CASE b # "start"
    BY <1>1, <1>3, <1>5, <2>3 DEF CountInv, NumthreadsExact
  <2> QED
    BY <2>2, <2>3
<1>11. CountInv'
  BY <1>1, <1>3, <1>4, <1>10 DEF CountInv
<1>12. CallInv' /\ LockInv'
  <2>1. \A u \in Thread : \/ pc'[u] = pc[u]
                          \/ pc[u] \in Labels /\ pc'[u] \in Labels
    BY <1>3, <1>4 DEF Labels
  <2> QED
    BY <1>2, <1>5, <2>1, QuietCalls
<1>13. NoLostWakeup'
  BY <1>1, <1>2, <1>3 DEF NoLostWakeup
<1> QED
  BY <1>7, <1>8, <1>9, <1>11, <1>12, <1>13 DEF IInv

\* thread_exit by a thread that owns no lock.
LEMMA ExitInv ==
    ASSUME IInv, UNCHANGED synchVars, NEW t \in Thread, thread_exit(t),
           owned[t] = {}
    PROVE  IInv'
<1>1. /\ ListFacts /\ SynchTypeOK /\ ThreadTypeOK /\ SplInv /\ ForkInv
      /\ CountInv /\ NoLostWakeup /\ pc \in [Thread -> SynchLabels]
  BY DEF IInv, SynchTypeOK
<1>2. /\ curthread = t /\ t \notin pcb_ininterrupt /\ pc[t] = "run"
      /\ numthreads' = numthreads - 1 /\ curspl' = 15 /\ curthread' = NULL
      /\ zombies' = Append(zombies, t) /\ pc' = [pc EXCEPT ![t] = "zombie"]
      /\ UNCHANGED <<runqueue, sleepers, t_sleepaddr, pcb_ininterrupt,
                     lbolt_counter, num_secs, newguy>>
      /\ UNCHANGED <<count, held, heldThread, on, lk, owned>>
  BY DEF thread_exit, InClient, Running, Goto, SwitchZombie, locals, SPL_HIGH,
         synchVars, objVars, callVars
<1>3. zombies' \in Seq(Thread) /\ Elems(zombies') = Elems(zombies) \cup {t}
  BY <1>1, <1>2 DEF ListFacts, AppendFact, ThreadTypeOK
<1>4. t \in Live /\ Live' = Live \ {t}
  BY <1>1, <1>2 DEF Live
<1>5. numthreads' = Cardinality(Live') /\ numthreads' \in Nat
  <2>1. Live \subseteq Thread /\ Live = (Live \ {t}) \cup {t}
    BY <1>4 DEF Live
  <2>2. /\ Cardinality(Live \ {t}) \in Nat
        /\ Cardinality(Live) = Cardinality(Live \ {t}) + 1
    BY <1>1, <2>1 DEF ListFacts, CardFact
  <2>3. numthreads = Cardinality(Live)
    BY <1>1 DEF CountInv, NumthreadsExact
  <2>4. Cardinality(Live') = Cardinality(Live \ {t})
    BY <1>4
  <2>5. numthreads' = Cardinality(Live \ {t})
    BY <1>2, <2>2, <2>3
  <2> QED
    BY <2>2, <2>4, <2>5
<1>6. SynchTypeOK'
  BY <1>1, <1>2, <1>3, <1>5, ThreadAssumption
     DEF SynchTypeOK, ThreadTypeOK, SynchLabels, Labels, SPL_HIGH
<1>7. SplInv'
  BY <1>1, <1>2 DEF SplInv, SynchNotPreempted, Atomic, ThreadTypeOK
<1>8. ForkInv'
  <2>1. Elems(zombies) \subseteq Thread
    BY <1>1 DEF ListFacts, ElemsFact, ThreadTypeOK
  <2>2. \A u \in Elems(zombies') : pc'[u] = "zombie"
    BY <1>1, <1>2, <1>3, <2>1 DEF ForkInv
  <2>3. \A u \in Thread : /\ pc'[u] = "fork" => pc[u] = "fork"
                          /\ pc[u] = "embryo" => pc'[u] = "embryo"
    BY <1>1, <1>2
  <2> QED
    BY <1>1, <1>2, <2>2, <2>3 DEF ForkInv
<1>9. CountInv'
  BY <1>1, <1>2, <1>5, Zenon DEF CountInv, NumthreadsExact
<1>10. CallInv' /\ LockInv'
  BY <1>1, <1>2, <1>4, QuietCalls DEF Labels
<1>11. NoLostWakeup'
  BY <1>1, <1>2 DEF NoLostWakeup
<1> QED
  BY <1>6, <1>7, <1>8, <1>9, <1>10, <1>11 DEF IInv

\* Every step of the thread system.
LEMMA ThreadStepInv ==
    ASSUME IInv, ThreadStep
    PROVE  IInv'
<1>1. UNCHANGED synchVars
  BY DEF ThreadStep
<1>2. ASSUME NEW t \in Thread, Kernel(t), pc'[t] = "zombie" => owned[t] = {}
      PROVE  IInv'
  <2>1. CASE thread_exit(t)
    <3>1. pc'[t] = "zombie"
      BY <2>1 DEF thread_exit, Goto, IInv, SynchTypeOK
    <3> QED
      BY <1>1, <1>2, <2>1, <3>1, ExitInv
  <2> QED
    BY <1>1, <1>2, <2>1, SwitchInv, ForkStepInv DEF Kernel
<1> QED
  BY <1>1, <1>2, ScheduleInv, HardclockInv DEF ThreadStep
=============================================================================
