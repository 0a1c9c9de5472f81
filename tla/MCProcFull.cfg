SPECIFICATION Spec
CONSTANTS
    P_TABLE_SIZE = 4
    MAX_NUM_CHILD = 3
    SLOTS = 8
    WAIT_SECS = 2
    Code = {0, 1}
INVARIANT FullIsAnError
CHECK_DEADLOCK FALSE
