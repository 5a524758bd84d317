SPECIFICATION FairSpec
CONSTANTS
    t1 = t1
    h1 = h1
    t2 = t2
    Contexts = {t1, h1, t2}
    Nobody = Nobody
    Threads = {t1, t2}
    CpuOf <- OneHandler
    serial = serial
    fb = fb
    Parts = 2
    Levels = {1, 3}
    ERROR = 3
    ErrorMessages = 1
    Length = 2
INVARIANTS MessageContiguous LocksReleased
PROPERTIES HolderLeaves ExceptionHalts
CHECK_DEADLOCK FALSE
