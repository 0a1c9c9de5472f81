SPECIFICATION Spec
CONSTANTS
    Car = {r1, r2, r3, r4}
    Cat = {c1, c2}
    Mouse = {m1}
    Iterations = 2
    NULL = NULL
SYMMETRY Asst1Symmetry
INVARIANTS
    TypeOK NoCollision NoGridlock
    BowlExclusion FlagExact FullExact NoDeadlock
CHECK_DEADLOCK FALSE
