SPECIFICATION Spec
CONSTANTS
    Clients = {c1, c2}
    Nobody = Nobody
    FrameCount = 6
    Reserved = {0, 2}
    PageSize = 4
    Sizes = {0, 1, 2, 3}
    WildFrees <- AnyFrees
INVARIANT NoDoubleAllocation
PROPERTY PanicFreezesBitmap
CHECK_DEADLOCK FALSE
