SPECIFICATION Spec
CONSTANTS
    PageSize = 2
    BitsPerByte = 4
    MiB = 2
    MaxAddr = 20
    MemoryMaps <- SmallMaps
    NoResponse = NoResponse
    TestSizes <- SmallTest
INVARIANTS UnreservedExact SelfTestSound
