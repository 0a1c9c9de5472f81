CONSTANTS
    Thread = {boot, t1, t2}
    Boot = boot
    Addr = {lb}
    lbolt = lb
    NULL = nil
    HZ = 2
    MaxSecs = 2
SPECIFICATION FairSpec
INVARIANTS TypeOK OnePlace NumthreadsExact CriticalNotPreempted StoppedInSwitch
PROPERTIES ReadyRuns ZombiesFreed ClocksleepReturns
