------------------------------- MODULE Fifo ---------------------------------
(* What a queue promises: first in, first out, nothing lost or made up.    *)
(* The last operation is part of the state, so that a put or a get that    *)
(* has not the effect it should is not taken for a stutter.                *)
EXTENDS Sequences

CONSTANT Elem
VARIABLES content,
          last     \* the last put or get, and its element

Init == content = <<>> /\ last = <<"none">>

Put(x) == content' = Append(content, x) /\ last' = <<"put", x>>

Get ==
    /\ content # <<>>
    /\ content' = Tail(content)
    /\ last' = <<"got", Head(content)>>

Next == Get \/ \E x \in Elem : Put(x)

Spec == Init /\ [][Next]_<<content, last>>
=============================================================================
