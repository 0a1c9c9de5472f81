----------------------------- MODULE RingQueue ------------------------------
(***************************************************************************)
(* The growing ring buffer of kern/lib/queue.c, which holds the run queue. *)
(* One element of data stays unused, so that nextread = nextwrite means    *)
(* empty.  Callers have interrupts off: an operation is one step.          *)
(***************************************************************************)
EXTENDS Integers, FiniteSetsExt

CONSTANTS Elem,
          Uninit,       \* what an element holds that was never written
          CreateSize,   \* the argument of q_create: 32 for the run queue
          MaxSize       \* bound: the ring does not grow beyond it

ASSUME RingAssumption ==
    /\ Uninit \notin Elem
    /\ CreateSize \in Nat \ {0}
    /\ MaxSize \in Nat

VARIABLES q,     \* struct queue
          last   \* history: the last q_addtail or q_remhead, and its element

vars == <<q, last>>

\* q_create
Init ==
    /\ q = [size |-> CreateSize, nextwrite |-> 0, nextread |-> 0,
            data |-> [i \in 0 .. CreateSize - 1 |-> Uninit]]
    /\ last = <<"none">>

q_empty == q.nextwrite = q.nextread

\* What is in the ring, in the order q_grow reads it.
Contents ==
    [i \in 1 .. (q.nextwrite - q.nextread) % q.size |->
        q.data[(q.nextread + i - 1) % q.size]]

\* The size that q_grow arrives at by doubling.
GrownSize(target) ==
    Min({n \in {q.size * 2 ^ k : k \in 0 .. target} : n >= target})

\* Mutant: q_grow copies the array instead of reading the ring in order.
Bug_GrowCopies(target) ==
    [size |-> GrownSize(target),
     nextread |-> 0,
     nextwrite |-> (q.nextwrite - q.nextread) % q.size,
     data |-> [i \in 0 .. GrownSize(target) - 1 |->
                 IF i < q.size THEN q.data[i] ELSE Uninit]]

\* The queue after q_grow: its contents stand at the front of a new array.
q_grow(target) ==
    LET n == (q.nextwrite - q.nextread) % q.size IN
    [size |-> GrownSize(target),
     nextread |-> 0,
     nextwrite |-> n,
     data |-> [i \in 0 .. GrownSize(target) - 1 |->
                 IF i < n THEN Contents[i + 1] ELSE Uninit]]

\* Mutant: q_addtail forgets that the index wraps.
Bug_StoreNoWrap(r, x) ==
    [r EXCEPT !.data[r.nextwrite] = x, !.nextwrite = @ + 1]

\* The end of q_addtail: store x in queue r.
Store(r, x) ==
    [r EXCEPT !.data[r.nextwrite] = x, !.nextwrite = (@ + 1) % r.size]

\* q_addtail; when the ring is full it grows first, if there is memory.
q_addtail(x) ==
    /\ IF (q.nextwrite + 1) % q.size = q.nextread
       THEN /\ GrownSize(q.size + 1) <= MaxSize
            /\ q' = Store(q_grow(q.size + 1), x)
       ELSE q' = Store(q, x)
    /\ last' = <<"put", x>>

q_preallocate(n) ==
    /\ n > q.size
    /\ GrownSize(n) <= MaxSize
    /\ q' = q_grow(n)
    /\ UNCHANGED last

\* q_remhead returns the element it takes.
q_remhead ==
    /\ ~q_empty
    /\ q' = [q EXCEPT !.nextread = (@ + 1) % q.size]
    /\ last' = <<"got", q.data[q.nextread]>>

Next ==
    \/ \E x \in Elem : q_addtail(x)
    \/ \E n \in 1 .. MaxSize : q_preallocate(n)
    \/ q_remhead

Spec == Init /\ [][Next]_vars
-----------------------------------------------------------------------------
(* Properties                                                              *)

\* The indices stay inside the array, and what is in the ring was put there.
TypeOK ==
    /\ q.size \in 1 .. MaxSize
    /\ q.nextwrite \in 0 .. q.size - 1
    /\ q.nextread \in 0 .. q.size - 1
    /\ \A i \in DOMAIN Contents : Contents[i] \in Elem

Abs == INSTANCE Fifo WITH content <- Contents

\* The ring is a FIFO queue: wherever the contents wrap around the end of the
\* array, growing keeps every element and their order, q_addtail adds its
\* element at the end and q_remhead takes and returns the oldest.
IsFifo == Abs!Spec
=============================================================================
