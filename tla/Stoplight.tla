----------------------------- MODULE Stoplight ------------------------------
(***************************************************************************)
(* The intersection of kern/asst1/stoplight.c.  Every car is a thread that *)
(* picks a direction and a turn at random and then makes a fixed sequence  *)
(* of P and V calls on the semaphores of the four quadrants, inside a P    *)
(* and a V of Entrance_Sem.  A semaphore is a counter: P waits until it is *)
(* positive (module Synch shows that synch.c implements this).             *)
(***************************************************************************)
EXTENDS Integers, Sequences, FiniteSets

CONSTANT Car

ASSUME CarAssumption == IsFiniteSet(Car)

VARIABLES
    sem,     \* the count of each semaphore
    todo     \* the calls a car has still to make

stoplightVars == <<sem, todo>>

Quadrant == {"NW", "NE", "SW", "SE"}
Semaphore == Quadrant \cup {"Entrance_Sem"}

P(s) == [op |-> "P", s |-> s]
V(s) == [op |-> "V", s |-> s]
random == [op |-> "random", s |-> "none"]
-----------------------------------------------------------------------------
\* The quadrant a car from direction d (0 N, 1 E, 2 S, 3 W) comes to first,
\* and the quadrant in front of a car that is in q.
Entry(d) == <<"NW", "NE", "SE", "SW">>[d + 1]
Ahead(q) == [NW |-> "SW", SW |-> "SE", SE |-> "NE", NE |-> "NW"][q]

gostraight(d) ==
    LET a == Entry(d)
        b == Ahead(a)
    IN  <<P(a), P(b), V(a), V(b)>>

\* Mutant: the second quadrant is given up twice and the third never.
Bug_LeftGivesUpWrong(d) ==
    LET a == Entry(d)
        b == Ahead(a)
        c == Ahead(b)
    IN  <<P(a), P(b), V(a), P(c), V(b), V(b)>>

turnleft(d) ==
    LET a == Entry(d)
        b == Ahead(a)
        c == Ahead(b)
    IN  <<P(a), P(b), V(a), P(c), V(b), V(c)>>

turnright(d) == <<P(Entry(d)), V(Entry(d))>>

\* Mutant: Entrance_Sem lets four cars in.
Bug_FourEnter == [s \in Semaphore |-> IF s = "Entrance_Sem" THEN 4 ELSE 1]

InitialCount == [s \in Semaphore |-> IF s = "Entrance_Sem" THEN 3 ELSE 1]

\* createcars: the semaphores are created and the threads forked.
StoplightInit ==
    /\ sem = InitialCount
    /\ todo = [c \in Car |-> <<random>>]

Done(c) == todo[c] = <<>>

\* The call a car makes next, unless it is done.
Call(c) == Head(todo[c])

\* approachintersection picks a direction and a turn at random.
approachintersection(c) ==
    /\ ~Done(c)
    /\ Call(c).op = "random"
    /\ \E d \in 0 .. 3 :
       \E turn \in {gostraight(d), turnleft(d), turnright(d)} :
          todo' = [todo EXCEPT ![c] =
                     <<P("Entrance_Sem")>> \o turn \o <<V("Entrance_Sem")>>]
    /\ UNCHANGED sem

\* Mutant: P does not wait.
Bug_PNoWait(c) ==
    /\ ~Done(c)
    /\ Call(c).op = "P"
    /\ sem' = [sem EXCEPT ![Call(c).s] = @ - 1]
    /\ todo' = [todo EXCEPT ![c] = Tail(@)]

DoP(c) ==
    /\ ~Done(c)
    /\ Call(c).op = "P"
    /\ sem[Call(c).s] > 0
    /\ sem' = [sem EXCEPT ![Call(c).s] = @ - 1]
    /\ todo' = [todo EXCEPT ![c] = Tail(@)]

DoV(c) ==
    /\ ~Done(c)
    /\ Call(c).op = "V"
    /\ sem' = [sem EXCEPT ![Call(c).s] = @ + 1]
    /\ todo' = [todo EXCEPT ![c] = Tail(@)]

StoplightNext == \E c \in Car : approachintersection(c) \/ DoP(c) \/ DoV(c)

StoplightSpec == StoplightInit /\ [][StoplightNext]_stoplightVars
-----------------------------------------------------------------------------
(* Properties                                                              *)

\* The semaphores a car has passed the P of and not yet the V: the next call
\* it makes on them is a V.
Holds(c) ==
    {s \in Semaphore : \E i \in 1 .. Len(todo[c]) :
        todo[c][i] = V(s) /\ \A j \in 1 .. i : todo[c][j] # P(s)}

\* Type invariant: in particular P takes no semaphore's count below zero.
TypeOK ==
    /\ sem \in [Semaphore -> Nat]
    /\ todo \in [Car -> Seq([op : {"P", "V"}, s : Semaphore] \cup {random})]

\* No collision: no two cars are ever in one quadrant, although a car moving
\* on takes the next quadrant while it still has the last.
NoCollision ==
    \A c, e \in Car : c # e => Holds(c) \cap Holds(e) \cap Quadrant = {}

\* No gridlock: while some car is not through, some car can go on.  Four cars
\* each waiting for the quadrant of the next would block for ever; Entrance_Sem
\* keeps the fourth one out.  As a car makes finitely many calls, every car
\* gets through.
NoGridlock ==
    (\E c \in Car : ~Done(c)) =>
        \E c \in Car : ~Done(c) /\ (Call(c).op = "P" => sem[Call(c).s] > 0)
=============================================================================
