SPECIFICATION StartSpec
CONSTANTS
    CommandLines <- BoolLines
    Identifiers <- Names
    UINT64_MAX = 15
    INT64_MAX = 7
    INT_MAX = 3
    LOG_LEVEL <- LogLevelName
    Addresses <- HigherHalf
    PML4Size = 6
    TableSize = 3
    BootTables <- SomeTables
    FreeFrames = {16}
    Counts = {}
    BrandChars = 4
    CharMax = 7
    Brands <- PaddedBrands
    Firmwares <- SomeFirmwares
    Signatures = {}
    Messages <- OneMessage
INVARIANT BoolIsOneOrZero
CHECK_DEADLOCK FALSE
