CONSTANTS
    Thread = {boot, t1, t2}
    Boot = boot
    Addr = {lb, s1, l1, c1}
    lbolt = lb
    NULL = nil
    Garbage = garbage
    HZ = 2
    MaxSecs = 1
    s1 = s1
    Sem = {s1}
    Lock = {l1}
    CV = {c1}
    InitCount <- MCInitCount
    MaxCount = 2
SPECIFICATION SynchSpec
INVARIANTS SynchTypeOK MutualExclusion NoLostWakeup LockFieldsAgree SynchNotPreempted
    NoLostSignal
PROPERTIES OnlyHolderReleases ImplementsAbs
