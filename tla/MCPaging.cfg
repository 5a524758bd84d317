SPECIFICATION Spec
CONSTANTS
    kernel = kernel
    user = user
    Cpus = {p1, p2}
    Nobody = Nobody
    States = {kernel, user}
    Frames = {1, 2, 3, 4, 5, 6, 7, 8, 9}
    Pml4 <- Pml4s
    Boot <- BootTables
    Level <- Levels
    Owner <- Owners
    Index = {0, 1}
    KernelIndex = {1}
    VAddrs <- Pages
    PhysPages = {20}
    Absent = Absent
    Junk = Junk
    Stale = Stale
INVARIANTS TablesSound FramesAccounted
PROPERTY ImplementsAddressSpace
CHECK_DEADLOCK FALSE
SYMMETRY CpuSymmetry
