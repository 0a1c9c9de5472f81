SPECIFICATION Spec
CONSTANTS
    RingSize = 4
    Shrink = 2
    MaxThreads = 6
    MaxDead = 7
INVARIANT ZombiesNeverGrow
