SPECIFICATION StartSpec
CONSTANTS
    CommandLines <- AllLines
    Identifiers <- Names
    UINT64_MAX = 15
    INT64_MAX = 7
    INT_MAX = 3
    LOG_LEVEL <- LogLevelName
    Addresses <- HigherHalf
    PML4Size = 6
    TableSize = 3
    BootTables <- SomeTables
    FreeFrames = {0, 1, 2, 3, 4, 5, 6, 7, 8, 9, 10, 11, 12, 13, 14, 15, 16}
    Counts = {1, 2, 3}
    BrandChars = 4
    CharMax = 7
    Brands <- Visible
    Firmwares <- SomeFirmwares
    Signatures <- SomeSignatures
    Messages <- SomeMessages
INVARIANTS SplitExact LookupExact NoFault DescriptorsExact CopyExact FindExact
INVARIANTS BrandTrimmed TablesFound FormatExact
PROPERTY StartEnds
CHECK_DEADLOCK FALSE
