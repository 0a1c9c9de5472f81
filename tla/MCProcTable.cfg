SPECIFICATION FairSpec
CONSTANTS
    P_TABLE_SIZE = 4
    MAX_NUM_CHILD = 3
    SLOTS = 8
    WAIT_SECS = 2
    Code = {0, 1}
INVARIANTS TypeOK ExitCodeDelivered
PROPERTY WaitReturns
CHECK_DEADLOCK FALSE
