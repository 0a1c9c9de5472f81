SPECIFICATION Spec
CONSTANTS
    Car = {r1}
    Cat = {c1, c2}
    Mouse = {m1}
    Iterations = 1
    NULL = NULL
SYMMETRY Asst1Symmetry
INVARIANT OneSpecies
CHECK_DEADLOCK FALSE
