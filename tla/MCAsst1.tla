------------------------------ MODULE MCAsst1 -------------------------------
(* The two solved problems of assignment 1.  The menu starts one of them:  *)
(* "1b" is catmouselock, "1c" is createcars.  Four cars, one more than     *)
(* Entrance_Sem lets in; two cats and a mouse, each eating once or twice.  *)
EXTENDS Stoplight, Catlock, TLC

VARIABLE command

Init ==
    /\ command \in {"1b", "1c"}
    /\ StoplightInit
    /\ CatlockInit

Next ==
    \/ command = "1b" /\ CatlockNext /\ UNCHANGED <<command, stoplightVars>>
    \/ command = "1c" /\ StoplightNext /\ UNCHANGED <<command, catlockVars>>

Spec == Init /\ [][Next]_<<command, stoplightVars, catlockVars>>

Asst1Symmetry ==
    Permutations(Car) \cup Permutations(Cat) \cup Permutations(Mouse)
=============================================================================
