------------------------------ MODULE Prealloc ------------------------------
(***************************************************************************)
(* How much room the thread system's lists have: thread_fork preallocates  *)
(* sleepers, zombies and the run queue, and mi_switch and thread_wakeup    *)
(* add to them and rely on it (kern/thread/thread.c, scheduler.c,          *)
(* kern/lib/queue.c, array.c).  Only the lengths matter, so threads are    *)
(* counted.  An array that has no room grows when it is added to, which    *)
(* is what the preallocation is there to avoid.                            *)
(***************************************************************************)
EXTENDS Integers, FiniteSetsExt

CONSTANTS RingSize,     \* q_create's argument: 32
          Shrink,       \* array_setsize(0) frees an array larger than this: 16
          MaxThreads,   \* bound: clients fork up to this many threads
          MaxDead       \* bound: so many exit before an older thread runs

ASSUME PreallocAssumption ==
    /\ RingSize \in Nat \ {0}
    /\ Shrink \in Nat
    /\ MaxThreads \in Nat \ {0}
    /\ MaxDead \in Nat

VARIABLES
    numthreads,
    running,      \* 1 while a thread is current, 0 in the scheduler
    fresh,        \* ready threads that have not run yet
    ready,        \* ready threads that have
    asleep, dead, \* the lengths of sleepers and zombies
    q_size,       \* the run queue's ring
    s_max, z_max, \* sleepers->max, zombies->max
    forked,       \* history: some thread_fork has succeeded
    grew          \* history: lists that had to grow when a thread was added

counts == <<numthreads, running, fresh, ready, asleep, dead>>
rooms == <<q_size, s_max, z_max>>
vars == <<counts, rooms, forked, grew>>

\* thread_bootstrap, scheduler_bootstrap
Init ==
    /\ numthreads = 1 /\ running = 1
    /\ fresh = 0 /\ ready = 0 /\ asleep = 0 /\ dead = 0
    /\ q_size = RingSize /\ s_max = 0 /\ z_max = 0
    /\ forked = FALSE
    /\ grew = {}
-----------------------------------------------------------------------------
\* The values the loops of array_preallocate and q_grow go through: an array
\* of max m grows to (m+1)*2 = 2m+2, so after k turns to (m+2)*2^k - 2.
ArrayRoom(m, n) == Min({r \in {(m + 2) * 2 ^ k - 2 : k \in 0 .. n} : r >= n})
RingRoom(s, n) == Min({r \in {s * 2 ^ k : k \in 0 .. n} : r >= n})

QLen == fresh + ready

\* Note that a list had to grow from room r to room s.
Note(list, r, s) == grew' = IF s > r THEN grew \cup {list} ELSE grew

\* make_runnable of k threads, one after the other: the ring grows when it
\* would become full, and it is full when one element is left.
MakeRunnable(k) ==
    LET s == RingRoom(q_size, QLen + k + 1) IN
    q_size' = s /\ Note("runqueue", q_size, s)

\* thread_fork by the current thread, from splhigh on, with room made for n
\* threads.
ForkWith(n) ==
    /\ running = 1
    /\ numthreads < MaxThreads
    /\ s_max' = ArrayRoom(s_max, n)
    /\ z_max' = ArrayRoom(z_max, n)
    /\ LET s == RingRoom(q_size, n) IN
       /\ q_size' = RingRoom(s, QLen + 2)
       /\ Note("runqueue", s, RingRoom(s, QLen + 2))
    /\ fresh' = fresh + 1
    /\ numthreads' = numthreads + 1
    /\ forked' = TRUE
    /\ UNCHANGED <<running, ready, asleep, dead>>

\* Mutant: the new thread is not counted in.
Bug_ForkOneShort == ForkWith(numthreads)

thread_fork == ForkWith(numthreads + 1)

\* thread_fork runs out of memory in its first, second or third preallocation.
\* Its make_runnable finds room: the current thread is not in the ring.
ForkFail ==
    /\ running = 1
    /\ numthreads < MaxThreads
    /\ \/ UNCHANGED <<s_max, z_max>>
       \/ s_max' = ArrayRoom(s_max, numthreads + 1) /\ UNCHANGED z_max
       \/ /\ s_max' = ArrayRoom(s_max, numthreads + 1)
          /\ z_max' = ArrayRoom(z_max, numthreads + 1)
    /\ UNCHANGED <<counts, q_size, forked, grew>>

\* mi_switch(S_READY)
SwitchReady ==
    /\ running = 1
    /\ running' = 0
    /\ ready' = ready + 1
    /\ MakeRunnable(1)
    /\ UNCHANGED <<numthreads, fresh, asleep, dead, s_max, z_max, forked>>

\* mi_switch(S_SLEEP)
SwitchSleep ==
    /\ running = 1
    /\ running' = 0
    /\ asleep' = asleep + 1
    /\ s_max' = ArrayRoom(s_max, asleep + 1)
    /\ Note("sleepers", s_max, ArrayRoom(s_max, asleep + 1))
    /\ UNCHANGED <<numthreads, fresh, ready, dead, q_size, z_max, forked>>

\* thread_exit, with mi_switch(S_ZOMB).  The first thread, which is not fresh,
\* does not exit.
thread_exit ==
    /\ running = 1
    /\ ready + asleep > 0
    /\ dead < MaxDead
    /\ running' = 0
    /\ numthreads' = numthreads - 1
    /\ dead' = dead + 1
    /\ z_max' = ArrayRoom(z_max, dead + 1)
    /\ Note("zombies", z_max, ArrayRoom(z_max, dead + 1))
    /\ UNCHANGED <<fresh, ready, asleep, q_size, s_max, forked>>

\* thread_wakeup of k sleepers, by a thread or by an interrupt.
thread_wakeup(k) ==
    /\ asleep' = asleep - k
    /\ ready' = ready + k
    /\ MakeRunnable(k)
    /\ UNCHANGED <<numthreads, running, fresh, dead, s_max, z_max, forked>>

\* The scheduler picks a new thread, which starts in mi_threadstart.
StartFresh ==
    /\ running = 0
    /\ fresh > 0
    /\ running' = 1
    /\ fresh' = fresh - 1
    /\ UNCHANGED <<numthreads, ready, asleep, dead, rooms, forked, grew>>

\* It picks another, which frees the zombies: array_setsize(zombies, 0).
Resume ==
    /\ running = 0
    /\ ready > 0
    /\ running' = 1
    /\ ready' = ready - 1
    /\ dead' = 0
    /\ z_max' = IF z_max > Shrink THEN 0 ELSE z_max
    /\ UNCHANGED <<numthreads, fresh, asleep, q_size, s_max, forked, grew>>

Next ==
    \/ thread_fork \/ ForkFail
    \/ SwitchReady \/ SwitchSleep \/ thread_exit
    \/ \E k \in 1 .. asleep : thread_wakeup(k)
    \/ StartFresh \/ Resume

Spec == Init /\ [][Next]_vars
-----------------------------------------------------------------------------
(* Properties                                                              *)

\* Once a thread has been forked, a thread that goes to sleep finds room in
\* sleepers, however many have exited or failed to fork since.
SleepersRoomOnceForked ==
    forked /\ running = 1 => asleep + 1 <= s_max

\* How far the preallocation of the run queue goes: when make_runnable has to
\* grow the ring although no thread has been forked, every thread is in it, the
\* one that gives up the processor included.  In any other state there is room,
\* however the threads forked, exited, slept and were woken before.
GrowsOnlyWhenAllReady ==
    [][q_size' > q_size /\ numthreads' = numthreads
         => fresh' + ready' = numthreads]_vars

\* A thread that goes to sleep always finds room in sleepers (thread.c:
\* "Because we preallocate sleepers[] during thread_fork, this should never
\* fail").
SleepersNeverGrow == "sleepers" \notin grew

\* A thread that exits finds room in zombies (thread.c: "Because we preallocate
\* during thread_fork, this should not fail").
ZombiesNeverGrow == "zombies" \notin grew

\* make_runnable finds room in the run queue (scheduler.c: "This is done only
\* to ensure that make_runnable() does not fail"; thread.c, in
\* mi_switch: "Because we preallocate during thread_fork, this should not fail").
RunQueueNeverGrows == "runqueue" \notin grew
=============================================================================
