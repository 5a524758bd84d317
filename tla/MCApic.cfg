SPECIFICATION ApicSpec
CONSTANTS
    Cpus = {p1, p2}
    Nobody = Nobody
    Madts <- SomeMadts
    Irqs = {0, 1, 2}
    MaxIOAPICs = 2
    Entries <- SomeEntries
    Masked <- MaskedEntry
    Firmware <- FirmwareEntry
    Requests <- SomeRequests
    Timers <- SomeTimers
    Callers = {c1, c2}
    Bytes = 4
    Bits = 2
    LowBytes = 2
    TopBits = {1}
INVARIANTS RoutesExact ReservedNeverGiven VectorsExact
PROPERTIES UnmaskedWhole IPIsExact
