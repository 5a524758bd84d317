SPECIFICATION FairSpec
CONSTANTS
    pmm = pmm
    log = log
    serial = serial
    Cpus = {p1, p2}
    Locks = {pmm, log, serial}
    Order <- CodeOrder
    MaxIrq = 1
    StopModes = {TRUE}
    NoLock = NoLock
INVARIANTS MutualExclusion NoSelfDeadlock InterruptFlagRestored
PROPERTIES ImplementsAbstractLock LeafLockReleased
