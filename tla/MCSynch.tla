------------------------------ MODULE MCSynch -------------------------------
(* Instances of Synch for TLC. *)
EXTENDS Synch

CONSTANTS s1

MCInitCount == [s \in Sem |-> IF s = s1 THEN 1 ELSE 0]
=============================================================================
