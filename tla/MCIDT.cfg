SPECIFICATION FairSpec
CONSTANTS
    IrqVectors = {32, 33, 64}
    Exceptions = {0, 3, 14}
    SPIRV_VECTOR = 255
    ClassSize = 16
    Spaces = {kernel, user}
    Kernel = kernel
    EarlyIrqs = 1
    None = None
INVARIANTS ThreadSpaceRestored NothingLeftInService
PROPERTY HighestIrqServed
CHECK_DEADLOCK FALSE
