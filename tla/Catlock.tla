------------------------------ MODULE Catlock -------------------------------
(***************************************************************************)
(* Cats and mice at two food bowls: kern/asst1/catlock.c.  An animal is a  *)
(* thread that runs with interrupts on, so it may be preempted between any *)
(* two reads and writes of the shared variables; x++ and x-- are a read    *)
(* and a write.  A lock is its holder (module Synch shows that synch.c     *)
(* implements this).                                                       *)
(***************************************************************************)
EXTENDS Integers, FiniteSets

CONSTANTS Cat, Mouse,
          Iterations,   \* how often an animal eats: 4 in the code
          NULL

ASSUME CatlockAssumption ==
    /\ Cat \cap Mouse = {}
    /\ NULL \notin Cat \cup Mouse
    /\ Iterations \in Nat

Animal == Cat \cup Mouse
Bowl == {"bowl1", "bowl2"}

VARIABLES
    holder,       \* the holder of each lock: species, writer and the bowls'
    foodBowl_ok,  \* foodBowl_1_ok and foodBowl_2_ok: 1 if someone eats there
    is_there,     \* is_there_cat and is_there_mouse
    numOfFull,    \* numOfFullCat and numOfFullMouse
    pc, iteration,
    reg,          \* the value an animal has read to increment or decrement
    bowl          \* the bowl an animal goes to, or "none"

catlockVars ==
    <<holder, foodBowl_ok, is_there, numOfFull, pc, iteration, reg, bowl>>

Mine(a) == IF a \in Cat THEN "cat" ELSE "mouse"
Other(a) == IF a \in Cat THEN "mouse" ELSE "cat"

\* catmouselock
CatlockInit ==
    /\ holder = [l \in {"species", "writer"} \cup Bowl |-> NULL]
    /\ foodBowl_ok = [b \in Bowl |-> 0]
    /\ is_there = [k \in {"cat", "mouse"} |-> 0]
    /\ numOfFull = [k \in {"cat", "mouse"} |-> 0]
    /\ pc = [a \in Animal |-> "loop"]
    /\ iteration = [a \in Animal |-> 0]
    /\ reg = [a \in Animal |-> 0]
    /\ bowl = [a \in Animal |-> "none"]
-----------------------------------------------------------------------------
Step(a, from, to) == pc[a] = from /\ pc' = [pc EXCEPT ![a] = to]

Acquire(a, l) == holder[l] = NULL /\ holder' = [holder EXCEPT ![l] = a]
Release(a, l) ==
    holder' = [holder EXCEPT ![l] = IF @ = a THEN NULL ELSE @]

\* while(iteration<4) { lock_acquire(species)
EnterLoop(a) ==
    /\ iteration[a] < Iterations
    /\ Step(a, "loop", "test1")
    /\ Acquire(a, "species")
    /\ UNCHANGED <<foodBowl_ok, is_there, numOfFull, iteration, reg, bowl>>

\* The condition of the if, read by read.
TestBowl1(a) ==
    /\ Step(a, "test1",
            IF foodBowl_ok["bowl1"] = 0 THEN "testOther" ELSE "test2")
    /\ UNCHANGED <<holder, foodBowl_ok, is_there, numOfFull, iteration, reg,
                   bowl>>

TestBowl2(a) ==
    /\ Step(a, "test2",
            IF foodBowl_ok["bowl2"] = 0 THEN "testOther" ELSE "giveUp")
    /\ UNCHANGED <<holder, foodBowl_ok, is_there, numOfFull, iteration, reg,
                   bowl>>

TestOther(a) ==
    /\ Step(a, "testOther",
            IF is_there[Other(a)] = 0 THEN "inc" ELSE "giveUp")
    /\ UNCHANGED <<holder, foodBowl_ok, is_there, numOfFull, iteration, reg,
                   bowl>>

\* Mutant: the else branch does not release the lock.
Bug_GiveUpKeepsLock(a) ==
    /\ Step(a, "giveUp", "loop")
    /\ UNCHANGED <<holder, foodBowl_ok, is_there, numOfFull, iteration, reg,
                   bowl>>

\* else lock_release(species); then thread_yield
GiveUp(a) ==
    /\ Step(a, "giveUp", "loop")
    /\ Release(a, "species")
    /\ UNCHANGED <<foodBowl_ok, is_there, numOfFull, iteration, reg, bowl>>

\* is_there_cat++ under the lock
IncRead(a) ==
    /\ Step(a, "inc", "incWrite")
    /\ reg' = [reg EXCEPT ![a] = is_there[Mine(a)]]
    /\ UNCHANGED <<holder, foodBowl_ok, is_there, numOfFull, iteration, bowl>>

IncWrite(a) ==
    /\ Step(a, "incWrite", "entered")
    /\ is_there' = [is_there EXCEPT ![Mine(a)] = reg[a] + 1]
    /\ UNCHANGED <<holder, foodBowl_ok, numOfFull, iteration, reg, bowl>>

Entered(a) ==
    /\ Step(a, "entered", "try1")
    /\ Release(a, "species")
    /\ UNCHANGED <<foodBowl_ok, is_there, numOfFull, iteration, reg, bowl>>
-----------------------------------------------------------------------------
(* cat_go_eat, mouse_go_eat                                                *)

TryBowl(a, b, from, otherwise) ==
    /\ Step(a, from, IF foodBowl_ok[b] = 0 THEN "take" ELSE otherwise)
    /\ bowl' = [bowl EXCEPT ![a] = IF foodBowl_ok[b] = 0 THEN b ELSE "none"]
    /\ UNCHANGED <<holder, foodBowl_ok, is_there, numOfFull, iteration, reg>>

\* Mutant: the animal eats without the bowl's lock.
Bug_TakeNoLock(a) ==
    /\ Step(a, "take", "set")
    /\ UNCHANGED <<holder, foodBowl_ok, is_there, numOfFull, iteration, reg,
                   bowl>>

TakeBowl(a) ==
    /\ Step(a, "take", "set")
    /\ Acquire(a, bowl[a])
    /\ UNCHANGED <<foodBowl_ok, is_there, numOfFull, iteration, reg, bowl>>

SetBowl(a) ==
    /\ Step(a, "set", "eat")
    /\ foodBowl_ok' = [foodBowl_ok EXCEPT ![bowl[a]] = 1]
    /\ UNCHANGED <<holder, is_there, numOfFull, iteration, reg, bowl>>

\* lock_eat ends; the bowl is marked free
ClearBowl(a) ==
    /\ Step(a, "eat", "leave")
    /\ foodBowl_ok' = [foodBowl_ok EXCEPT ![bowl[a]] = 0]
    /\ UNCHANGED <<holder, is_there, numOfFull, iteration, reg, bowl>>

LeaveBowl(a) ==
    /\ Step(a, "leave", "dec")
    /\ Release(a, bowl[a])
    /\ UNCHANGED <<foodBowl_ok, is_there, numOfFull, iteration, reg, bowl>>
-----------------------------------------------------------------------------
\* is_there_cat--, without the lock; the iteration counts if it ate
DecRead(a) ==
    /\ Step(a, "dec", "decWrite")
    /\ reg' = [reg EXCEPT ![a] = is_there[Mine(a)]]
    /\ UNCHANGED <<holder, foodBowl_ok, is_there, numOfFull, iteration, bowl>>

DecWrite(a) ==
    /\ Step(a, "decWrite", "loop")
    /\ is_there' = [is_there EXCEPT ![Mine(a)] = reg[a] - 1]
    /\ iteration' = [iteration EXCEPT ![a] = IF bowl[a] # "none" THEN @ + 1 ELSE @]
    /\ bowl' = [bowl EXCEPT ![a] = "none"]
    /\ UNCHANGED <<holder, foodBowl_ok, numOfFull, reg>>

\* Mutant: numOfFullCat++ without the writer lock.
Bug_FullNoLock(a) ==
    /\ iteration[a] = Iterations
    /\ Step(a, "loop", "full")
    /\ reg' = [reg EXCEPT ![a] = numOfFull[Mine(a)]]
    /\ UNCHANGED <<holder, foodBowl_ok, is_there, numOfFull, iteration, bowl>>

\* After the loop: numOfFullCat++ under the writer lock
FullRead(a) ==
    /\ iteration[a] = Iterations
    /\ Step(a, "loop", "full")
    /\ Acquire(a, "writer")
    /\ reg' = [reg EXCEPT ![a] = numOfFull[Mine(a)]]
    /\ UNCHANGED <<foodBowl_ok, is_there, numOfFull, iteration, bowl>>

FullWrite(a) ==
    /\ Step(a, "full", "done")
    /\ numOfFull' = [numOfFull EXCEPT ![Mine(a)] = reg[a] + 1]
    /\ Release(a, "writer")
    /\ UNCHANGED <<foodBowl_ok, is_there, iteration, reg, bowl>>

\* catlock, mouselock
Eats(a) ==
    \/ EnterLoop(a) \/ TestBowl1(a) \/ TestBowl2(a) \/ TestOther(a)
    \/ GiveUp(a) \/ IncRead(a) \/ IncWrite(a) \/ Entered(a)
    \/ TryBowl(a, "bowl1", "try1", "try2")
    \/ TryBowl(a, "bowl2", "try2", "dec")
    \/ TakeBowl(a) \/ SetBowl(a) \/ ClearBowl(a) \/ LeaveBowl(a)
    \/ DecRead(a) \/ DecWrite(a) \/ FullRead(a) \/ FullWrite(a)

CatlockNext == \E a \in Animal : Eats(a)

CatlockSpec == CatlockInit /\ [][CatlockNext]_catlockVars
-----------------------------------------------------------------------------
(* Properties                                                              *)

Eating(a) == pc[a] = "eat"

\* At most one animal eats at a bowl.  The flags are read without a lock, so
\* several animals may go for one bowl; the bowl's lock lets one of them in.
BowlExclusion ==
    \A a, e \in Animal : Eating(a) /\ Eating(e) /\ bowl[a] = bowl[e] => a = e

\* A bowl's flag says 1 exactly while an animal eats there.
FlagExact ==
    \A b \in Bowl :
        foodBowl_ok[b] = 1 <=> \E a \in Animal : Eating(a) /\ bowl[a] = b

\* numOfFullCat and numOfFullMouse count the animals that are through, unless
\* one is just being counted.
FullExact ==
    holder["writer"] = NULL =>
      /\ numOfFull["cat"] = Cardinality({a \in Cat : pc[a] = "done"})
      /\ numOfFull["mouse"] = Cardinality({a \in Mouse : pc[a] = "done"})

\* The four locks are never waited for in a circle: while some animal is not
\* through, some animal can go on.  It may go on in vain: a lost update of
\* is_there (see OneSpecies) can leave the other species trying for ever.
NoDeadlock == (\A a \in Animal : pc[a] = "done") \/ ENABLED CatlockNext

\* Cats and mice never eat at the same time (catlock.c: "wait until no mouse is
\* eating", "wait until no cat is eating").
OneSpecies ==
    \A c \in Cat, m \in Mouse : ~(Eating(c) /\ Eating(m))
=============================================================================
