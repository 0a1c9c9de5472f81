------------------------------- MODULE Queues -------------------------------
(***************************************************************************)
(* Sequences used as the kernel's thread lists: the run queue              *)
(* (lib/queue.c) and the sleepers and zombies arrays (lib/array.c).  The   *)
(* operators are closed forms, so that facts about them can be proved      *)
(* without induction.                                                      *)
(***************************************************************************)
EXTENDS Naturals, Sequences, FiniteSets

\* The members of a list.
Elems(s) == {s[i] : i \in 1 .. Len(s)}

\* No member appears twice.
NoDup(s) == \A i, j \in 1 .. Len(s) : s[i] = s[j] => i = j

\* The positions of the members that lie in S.
Positions(s, S) == {i \in 1 .. Len(s) : s[i] \in S}

\* The number of elements of I that are at most i.
Rank(I, i) == Cardinality({j \in I : j <= i})

\* The element of I that has rank k.
Nth(I, k) == CHOOSE i \in I : Rank(I, i) = k

\* The members of s that lie in S, in their order in s.
Filter(s, S) ==
    [k \in 1 .. Cardinality(Positions(s, S)) |-> s[Nth(Positions(s, S), k)]]

\* The member of s in S that is nearest to the head.
First(s, S) == s[Nth(Positions(s, S), 1)]
=============================================================================
