# BorealOS in TLA+

BorealOS is an x86-64 kernel in C++, booted by Limine. Paths below are relative to
`src/src/kernel/`. This directory holds TLA+ modules for the parts of the kernel whose
correctness depends on interleaving, ordering or arithmetic at a limit, TLC runs over
small instances, and TLAPS proofs for eight groups of modules.

    tlc -workers 2 -config MCPaging.cfg MCPaging        # a run (see the table)
    tlapm SpinlockProofs.tla                            # the proofs of a module

`PROJECT.json` lists the components, the runs, one mutant per checked property (a plausible
bug of the code that the property detects), the source lines of every definition, the
hazards and the findings.

## The system

`Kernel::Initialize` (`Kernel.cpp`) starts the parts in this order, on the boot CPU: serial
port, framebuffer console, command line (from which the log level is taken), GDT and TSS,
physical memory manager, paging, IDT (which ends with `sti` and a self-test), CPU features,
ACPI, IOAPICs, LAPIC. No other CPU is started yet, but every shared structure has a
`Spinlock` or is meant for several CPUs (`CpuData`), and interrupt handlers preempt kernel
code from the `sti` on, so concurrency exists already.

| Part | State | Operations | Uses, is used by | What makes it correct |
|---|---|---|---|---|
| Spinlock (`Threading/`) | `_locked`; the CPU's interrupt flag | `Lock(stopInterrupts)`, `Unlock`, `ScopedLock` | used by PMM, paging, log, serial, framebuffer, IOAPIC | exclusion; no wait of a CPU for itself; the interrupt flag as before |
| Physical memory manager (`Memory/`) | two bitmaps, `_usableFrames` | `Initialize`, `AllocatePages`, `FreePages` | the lock; used by paging, LAPIC, IOAPIC, ACPI | no frame twice, none lost, none reserved; a refusal is justified; the bitmaps reflect the memory map |
| Paging (`Memory/`) | page tables of each `Paging::State` | `MapPage`, `UnmapPage`, `GetPhysicalAddress`, `SwitchToPageTable`, `FindAvailableVirtualAddressRange`, `Initialize` | PMM for tables; used by IDT, LAPIC, IOAPIC, ACPI | the tables are trees of frames of their own, cleared before use, private to the address space; the mapping changes atomically |
| IDT (`Interrupts/`) | `_irqHandlers`, `_allocatedVectors`, `_isTesting` | stubs, `IRQHandler`, `HandleException`, `RegisterIRQHandler`, `AllocateVector`, `FreeVector` | paging, LAPIC, log | the interrupted code goes on where it was; every interrupt is acknowledged; vectors are unique |
| LAPIC | `_mmioBase`; the LAPIC's IRR and ISR, ICR and timer registers | `Initialize`, `SendEOI`, timer, IPIs | mapped by paging | EOI for each IRQ; an IPI goes where it was asked to go |
| IOAPIC | `_irqToGsi`, `_ioApic`, redirection tables | discovery, `SetRedirectionEntry` | ACPI, its lock | an ISA interrupt goes where it was asked to go |
| ACPI (`Firmware/`) | `_rsdt`, `_xsdt`, `_fadt`, `_dsdt`: the firmware's tables | `Initialize`, `GetTable`, MADT entries, `WriteByteCommand` | port I/O; used by IOAPIC | lookup finds what is there and reads nothing else |
| Log and panic | log lock, device locks, minimum level | `LOG_*`, `Kernel::Log`, `Panic` | serial, framebuffer | messages are not mixed; a panic halts |
| Command line, formatter (`Utility/`) | none beyond the line | `SplitArguments`, `GetValue<T>`, parsers, `Format` | log level, all messages | the value of an argument is what the line says, a message what its values are |
| GDT, TSS (`Interrupts/`) | descriptors; GS.base | `Initialize`, `GetCpuId` | everything per CPU goes through GS.base | the processor reads what was meant |
| CPU (`CPU/`) | the name; CR0, CR4, XCR0, EFER | `Initialize`, `InitializeCore` | | nothing is executed before it is enabled |
| Boot protocol, port I/O | the boot loader's responses | | read by most of the above | a missing response is noticed |

Hard behaviours: interrupts at any instruction with IF set; several CPUs on the same
spinlock; handlers that switch page tables; tables freed and reused while another CPU walks
them; exhaustion of frames and vectors; the window between `sti` in `IDT::Initialize` and
the mapping of the LAPIC; unlocked read-modify-write of the vector bitmap; two-step access
to the IOAPIC's window and the two halves of its entries; units (bytes, pages, bits) and
alignment in `PhysicalMemoryManager::Initialize`; integer limits in the parsers and the
formatter; memory that runs out during the copy of the boot loader's page tables; unlocked
pairs of writes to the local APIC; loops without a bound on what firmware or CPU supply; the
order of the start, in which each part relies on earlier ones.

## Modules

Modules compose through abstract specifications: the spinlock is shown to implement
`AbstractLock`, and the users of locks then enter and leave a section in one step each;
`PhysicalMemoryManager` is shown to implement `PageAllocator`, and `Paging` then allocates
and frees a frame in one step.

    Spinlock ──implements──> AbstractLock <── section steps of PhysicalMemoryManager, Paging,
                                              KernelLog, IOAPIC
    PhysicalMemoryManager ──implements──> PageAllocator <── frame steps of Paging
    PMMInit: the state in which PhysicalMemoryManager begins
    Paging ──implements──> AddressSpace
    KernelStart ──calls──> CommandLine (its actions); Formatter, Descriptors, PagingInit,
                           CPU, ACPI (operators)
    IDT, VectorAllocator, KernelLog, IOAPIC, LAPIC

* **Spinlock** (`Threading/Spinlock.cpp`). A context `<<cpu, level>>` is a thread or the
  handler of a nested interrupt; only the top one of a CPU runs. `ReadFlags`, `Cli`, `Load`,
  `CompareExchange` are the steps of `Lock`, and the store and the `sti` those of `Unlock`;
  an interrupt can come in wherever IF is set. `Order` says which locks the code takes
  inside which, `StopModes` which values callers pass as `stopInterrupts`; every caller in
  the kernel passes or defaults to `true`, so the run uses `{TRUE}`. `entryIF` is an
  observer: the flag with which a context began.
* **PhysicalMemoryManager**. A bitmap is the set of its set bits. One step per loop
  iteration of the scan, the marking and the clearing; the early returns, the refusal and
  the panics are actions of their own. `own` is an observer. `WildFrees` are the arguments
  of wrong calls to `FreePages`: those that it detects, and those of another caller's
  frame, which it does not.
* **PMMInit** is `Initialize` phase by phase (scan of the memory map, placing of the
  bitmaps, fill, clear, reserve low memory, the loop of line 99, count) with the self-test,
  with page size, bits per byte and the 1 MiB limit as parameters.
* **Paging**. The memory of a frame is an array of entries that survives freeing; a new
  frame holds what was left in it. `path[c]` is the sequence of tables a call has found, so
  the four spelled-out levels of the code are one action per kind of step (`MapDescend`,
  `MapAllocate`, `MapClear`, `MapLink`, `MapWrite`, `UnmapClear`, `PruneFree`,
  `PruneUnlink`, ...). `Init` takes any tables that `Paging::Initialize` can leave (`Boot`,
  with the level and the owner of each frame): trees with a PDP in every kernel slot, in
  which the boot loader's mappings are copied, huge pages included, and the copied PDPs are
  not cleared. So a table of the start can have entries that lead to no table: `Junk` with
  the Present flag, `Stale` without it. `MapPage` tests an entry for zero, the others for
  Present, and nothing tests for huge pages; where a walk is about to follow such an entry
  as if it were a table (`Astray`) the model ends, since nothing is known of what the code
  reads and writes from there on. `MapMisaligned` is the panic of `MapPage` before its lock.
* **IDT**: the boot thread (`LoadIDT`, `BeginTest`, `TestInterrupt`, `EndTest`, `MapLapic`,
  `ResetLapic`), afterwards kernel code that turns interrupts off and on and switches page
  tables, and on top of it a handler (`Enter`, the handler's own page table switches,
  `Restore`, `Eoi`, `HandleException`). IRR, ISR, priority classes and delivery are the
  processor's and marked external.
* **VectorAllocator**: every read and write of a byte of `_allocatedVectors` is a step (the
  kernel is built with `-O0` and there is no lock). `overlapped` is an observer.
* **KernelLog**: a message is `Parts` texts to two devices under the log lock, then a
  newline outside it; a device has its own lock. A context is the thread of a CPU or a
  handler that suspends it, which it can only where interrupts are on (`Interruptible`).
  `Serial::Write` waits for the transmitter before each character (`SendChar`, `Transmit`).
  Contexts log as often as they like. `last[d]` remembers whose text was written.
* **IOAPIC**: `Discover` builds `_irqToGsi` and the IOAPIC list from the MADT; then every
  access to index register and window is a step. A register remembers which half of which
  entry was written to it.
* **LAPIC**: `SendIPI` (`SendIPI`, `Wait`, `WriteHigh`, `WriteLow`, `Sent`) and `SetLvtTimer`
  register by register, by a thread and by a handler that interrupts it anywhere; `Accept`
  is the bus. `overtaken` is an observer: the handler has written what the thread's call had
  written. Nothing in the kernel calls these functions yet.
* **KernelStart** is `kmain`: `Calls` is the order of `Kernel::Initialize`, and each call is an
  action (or several, where it loops) that needs what `up` and `response` say, picks its
  input, leaves its result in `made`, and may panic or fault. A fault is a null dereference,
  an access through a GS.base or page table that is not there, or an instruction that the
  processor refuses. The results are computed by:
  * **CommandLine**, whose actions run within the start: `SplitArguments` one iteration a
    step, `GetValue` and the parsers as operators. `SplitExact` and `LookupExact` compare
    them with a definition of what a line means that does not scan (separators are spaces
    with an even number of quotes before them, a number is the sum of its digits).
    `LeavesLine` says when `StringView::IndexOf` searches behind an empty argument, where
    the start may fault.
  * **Descriptors**: the GDT, the TSS and the gates as sets of bits, and how the processor
    puts base, limit, type and offset together again.
  * **PagingInit**: `CopyExistingPageTableToNew`, the recursion of `DeepCopyPageTables`
    unrolled into its three levels, `ReserveHigherHalfPML4Slots`, and the search for a
    virtual range. The state of the copy is memory, the frames still free, and whether a
    check has panicked; frame 0 is what an exhausted allocator returns, and is memory too.
    `Translate` is the processor's walk, to which `Copied` compares both sets of tables.
  * **CPU**: the instructions of `InitializeSIMD` and `InitializeNX` with what makes them
    legal; `ReadBrandString` with the wrap of `shiftIndex`.
  * **ACPI**: checksums, lengths, FADT, DSDT and `GetTable`.
  * **Formatter**: the check of a format string at compile time, `WriteArgs` and the
    `WriteValue` of each type. `FormatExact` reads the text back.

## Runs

| Run | Module, cfg | Distinct states | Shows |
|---|---|---|---|
| `spinlock` | MCSpinlock | 21 517 | exclusion, no self-deadlock, flag restored, refinement, the innermost lock is released |
| `pmm` | MCPhysicalMemoryManager | 96 601 | bitmap and counter exact, verdicts justified, no panic, refinement, calls end |
| `pmm_wild` | MCPhysicalMemoryManager, MCPMMWild.cfg | 322 190 | with frees of what is not theirs, another caller's frame included: only frames that a wrong free names can have two owners; a free that is detected freezes the bitmap |
| `pmm_init` | MCPMMInit | 169 773 | the allocatable pages, and their count, are exactly the usable ones outside low memory and bitmaps (`UnreservedExact`); the self-test repeats and panics only for lack of memory (`SelfTestSound`) |
| `paging` | MCPaging | 127 048 | tables are trees and private, and no call adds an entry that leads nowhere (`TablesSound`); no frame lost, none in an empty table, kernel slots kept (`FramesAccounted`); refinement, with panics only where they must be |
| `idt` | IDT, MCIDT.cfg | 46 692 | the thread keeps its address space; nothing left in service; the highest pending IRQ is served |
| `idt_early` | IDT, MCIDTEarly.cfg | violation | finding 1 |
| `kernel_log` | MCKernelLog | 256 176 | messages contiguous on each device; no context that waits, has halted or is suspended has a lock; the holder of the log lock releases it whatever the others do; an exception halts once the others fall silent |
| `apic` | MCApic | 841 226 | redirection entries only as asked, on the pin the MADT routes to, never unmasked with a foreign destination; IPIs and timer exact unless overtaken; reserved vectors are safe always, the bitmap of vectors exact and the lowest one found without overlap |
| `start` | MCStart | 171 897 | the start ends, does not fault but for three uses, and each of its calls computes what it should |
| `start_brand` | MCStart, MCStartBrand.cfg | violation | finding 2 |
| `start_bool` | MCStart, MCStartBool.cfg | violation | finding 3 |

### Bounds

* `spinlock`: two CPUs with one interrupt level each give four contexts, which covers a race
  of CPUs, of a thread and its handler, and both at once. Three locks in the code's longest
  nesting (PMM, log, serial).
* `pmm`, `pmm_wild`: two clients, six frames of which 0 and 2 are reserved, so that there are
  two regions of different length; requests of 0 to 3 pages exhaust and fragment them.
  `pmm_wild` frees a misaligned address, a reserved frame, a frame behind the last one, a
  run that fails at its second page, and a frame of the larger region whoever owns it, which
  then does get a second owner. A panicked client keeps the lock for ever, so
  deadlock is not checked there.
* `pmm_init`: every map of one or two entries (sorted and disjoint, as the boot protocol has
  them, but not aligned) in 20 bytes with pages of 2 bytes and bytes of
  4 bits: every alignment of start and end, bitmaps that fill a region, do not fit or cover
  exactly.
* `paging`: two CPUs and two address spaces, tables of two entries (user and kernel half).
  The kernel's tables start with a small page and a huge one in one page directory and with
  an uncleared PDP of the lower half, the user's with an empty PDP. Three pages, of which
  two share a page directory; in the kernel's tables one is mapped at the start and the two
  others lie behind the entries that lead nowhere. Two free frames: tables are reused by the
  other address space and run out in the middle of a walk. CPUs are interchangeable and no
  property of the run is a liveness property, so their symmetry is used.
* `idt`: vectors 32 and 33 share a priority class, 64 is above; exceptions 0 and 3 are those
  of the self-test, 14 any other. At most `EarlyIrqs` IRQs come before the LAPIC is mapped;
  the run uses 1, finding 1 is about 2.
* `kernel_log`: the threads of two CPUs and a handler on the first; two texts of two
  characters per message, without a bound on the number of messages.
* `apic`: see `MCApic`; the second machine has one IOAPIC more than `MaxIOAPICs`. For the
  local APIC, two destinations, two shorthands and two timer settings. For the vectors, four
  bytes of two bits with two reserved bytes and one reserved bit at the top, which is enough
  to fill a byte under a caller's hands and to run out of vectors. The three parts share no
  state, so that a behaviour takes one of them.
* `start`: every line of up to five characters out of `a 1 = " space` and every value of up
  to four digits, letters and signs, and each of the digits of either case. `UINT64_MAX` is
  scaled to 15, `INT64_MAX` to 7 and `INT_MAX` to 3 so that numbers of up to three digits,
  in each base, fall on both sides of the limits. Addresses of the higher half with each
  lower bit on its own. Page tables of three entries below a PML4 of six, with pages of all
  three sizes, an absent slot, and a search window that begins, as in the code, at the last
  but one entry of the last PDP, with pages at its edges and in its middle mapped or not; 0
  to 16 free frames, clean or full of old entries, so that memory runs out at every
  allocation. Brand strings of four characters (with a `shiftIndex` that wraps at 7).
  Firmware of both revisions with up to three tables, FADTs with and without the 64-bit
  address, wrong sums and lengths. Every set of CPU features. Every format of up to five
  characters out of `{ } a`, with values of each type at its limits. A call's input is
  forgotten when it returns, so that inputs add up and do not multiply.
* `start_brand`: only the brand strings that begin with a space, and few other inputs. In
  `start`, `StartEnds` leaves out a start that has begun to shift the brand string;
  `ReadBrandEnds` does not, and fails here.
* `start_bool`: lines that give a flag a digit or a word, `a=true` among them; few other inputs.

Deadlock checking is off where the system may stop: a kernel that has panicked or halted
(`pmm_wild`, `paging`, `idt`, `kernel_log`, `start`).

### Fairness

`FairSpec` of each module assumes no more than that a running context executes its next
instruction: weak fairness of the steps of a call (`Spinlock`, `PhysicalMemoryManager`,
`KernelLog`), which are enabled only while the context runs: a thread that handlers keep
interrupting is promised nothing. `KernelLog` adds that the serial port sends what it is
given (`Transmit`). Nothing is assumed about who wins a spinlock, so that a context can wait
for the log lock for ever while others log. The liveness properties are accordingly about
the lock being released and the holder's call ending: `HolderLeaves` holds whatever the
others log, since without the log lock they can write only the newline of a message or a
panic; `ExceptionHalts` says that an exception comes to its halt if the other contexts fall
silent in the end. An exception in code that holds one of these locks is left out: its
handler waits for a lock of its own CPU for ever, which the hazards note. `StartSpec` has
weak fairness of the steps of the start: the boot CPU goes on executing, and the firmware
sets SCI_EN some time after it was asked to, which is what the loop without a timeout at
`ACPI.cpp:137` relies on. `IDT` needs strong fairness in two places: kernel code that turns
interrupts off turns them on again however often it switches page tables in between (`Sti`),
and the LAPIC delivers what it may deliver although the CPU accepts interrupts only between
such sections (`Deliver`). Interrupts and requests themselves are never assumed to come.

### Refinements

* `Spinlock` → `AbstractLock`: the owner of a lock is the context in whose `held` it is.
* `PhysicalMemoryManager` → `PageAllocator`: an allocation takes effect when it leaves its
  section, a free when the lock is released; `own` is the same variable.
* `Paging` → `AddressSpace`: the mapping is read off the tables by a walk. `UnmapPage` frees
  an empty table before it clears the entry that points to it (`Paging.cpp` 111-115), so for
  one step the entry names a frame that another address space may take; the walk reads such
  an entry as absent (`Link`), which the lock of the address space justifies for every call
  of the kernel. The processor's own page walk and the TLBs are outside the model.

## Proofs

TLAPS proves the following for every value of the constants that satisfies the named
assumptions of the modules: any number of CPUs, callers, frames, vectors and IOAPICs, any
memory map, page tables, command line, brand string, message, address, MADT and root table of
the firmware. Every invariant, action property and refinement that a passing run checks is
a theorem.

| Module | Theorems |
|---|---|
| `SpinlockProofs` | `TypeCorrect`, `MutualExclusionHolds`, `SpinlockImplementsAbstractLock`; and, where every caller stops interrupts (`StopModes = {TRUE}`), `InterruptsOffHolds`, `NoSelfDeadlockHolds`, `InterruptFlagRestoredHolds` |
| `PhysicalMemoryManagerProofs` | whatever callers free: `TypeCorrect`, `NoDoubleAllocationHolds`, `UsableFramesExactHolds`, `PanicFreezesBitmapHolds`; for callers that free only what they own (`WildFrees = {}`): `BitmapExactHolds`, `FirstFitVerdictHolds`, `NoPanicHolds`, `ImplementsPageAllocatorHolds` |
| `PagingProofs` | `TablesSoundHolds`, `FramesAccountedHolds`, `ImplementsAddressSpaceHolds` |
| `KernelLogProofs` | `MessageContiguousHolds`, `LocksReleasedHolds` |
| `IDTProofs` | `ThreadSpaceRestoredHolds`; with at most one early IRQ (`EarlyIrqs <= 1`, see finding 1), `NothingLeftInServiceHolds`; of `VectorAllocator` (`VectorSpec`): `TypeCorrect`, `ReservedNeverGivenHolds`, `VectorsExactHolds` |
| `ApicProofs` | `RoutesExactHolds`, `UnmaskedWholeHolds` (IOAPIC), `IPIsExactHolds` (LAPIC) |
| `StartProofs` | of the start: `NoFaultHolds`, `DescriptorsExactHolds`, `BrandTrimmedHolds`, `SplitExactHolds`, `LookupExactHolds`, `TablesFoundHolds`, `FormatExactHolds`; of `PMMInit`, whose `Spec` it is: `PMMInvHolds`, `UnreservedExactHolds`, `SelfTestSoundHolds` |
| `PagingInitProofs`, on top of `StartProofs` | of the start: `CopyExactHolds`, `FindExactHolds` |

### Assumptions

The constants' assumptions are named in the modules that declare them, and TLC evaluates them
in the runs. Those that say something about the world rather than about types:

* `PagingAssumption`: frame 0 is none of the allocator's (it is what an exhausted allocator
  returns), and there is an address space. `BootAssumption`: the tables at the start are
  trees, with a frame of its own for each table, as `Paging::Initialize` gets them from
  `AllocatePages`, and a PDP in every slot of the higher half. Any entry above the page
  tables may lead nowhere, and nothing is assumed about free frames. No bound on CPUs,
  address spaces, frames or the size of a table.
* `KernelLogAssumption`: a CPU has one thread; any number of handlers.
* `VectorAssumption`: vector 0 lies in a reserved byte (the code reserves the first 32
  vectors), so that the result 0 is free to mean "none".
* `IOAPICAssumption`: the entries of the MADT have the fields of their types, and an IOAPIC has
  1 to 120 redirection entries (the index of a register is one byte and the table begins
  at 0x10). No order, no disjointness of GSI ranges, no bound on overrides is assumed.
* `KernelStartAssumption`: addresses have 64 bits; the brand string has as many characters as
  CPUID returns, filled up with NUL; some kernel slot of the boot loader's PML4 is empty (see the
  findings).
* `UnitsAssumption`: 1 MiB is a number of whole pages, and one page of a bitmap covers it.
* `MemoryMapsAssumption`: the entries of a memory map are sorted and do not overlap, as the boot
  protocol promises. Nothing is assumed about their alignment, length or number.
* `PagingInitAssumption`: the upper half of a PML4 is the kernel's; a frame has room for a
  table of either kind.
* `BootTablesAssumption`: the boot loader's tables are not in the frames the allocator gives
  out (it marks its memory as not usable), nor in frame 0; memory has the entries of a table
  in every frame; and the window in which the kernel searches is mapped by small pages only,
  none of them to frame 0 (`GetPhysicalAddress` follows a huge page as if it were a table,
  and its result 0 means "not mapped"). Frames beyond that may hold anything, and there may
  be any number of free ones, none included.
* `FirmwaresAssumption`: the root table's length is that of its header and pointers, and a
  FADT has the fields that its length covers. Signatures, checksums, order and number are
  free.
* `MessagesAssumption`: a message has as many arguments as its format (`Formatter.h` checks
  it at compile time), of the types that `WriteValue` takes; a finite double is below 2^64,
  beyond which its cast to `uint64_t` is undefined.
* `CommandLineAssumption`: a line is a sequence of characters.
* `IDTAssumption`: the spurious vector is no IRQ's; exceptions are below 32.

### Arguments

*Spinlock.* Mutual exclusion is not inductive alone: a context past its `Load` may find the
lock taken, so exclusion rests on `locked[l]` being true exactly while some context holds
`l`. `WantInv` says what a context inside `Lock` wants and that it does not hold it already;
`FlagInv` says that IF is off wherever a lock is held or being spun for, which makes the
nesting below a holder unreachable for interrupts and gives the absence of self-deadlock;
`EntryInv` relates the flag that the outermost `ScopedLock` of a context remembers to the
flag the context began with, which gives its restoration. The refinement follows step by
step: `CompareExchange` is an `Acquire`, the store of `Unlock` a `Release`, all else a
stutter.

*Physical memory manager.* `IInv` says of a call what its program counter promises: inside
the section it has the lock (`LockInv`); in the scan, the current run is free and nothing
long enough begins below it (`ScanInv`); while marking, the marked part of the run is in
flight and the rest free (`MarkInv`); at the return, the verdict (`ReturnInv`); while
freeing, what is left to clear is in flight (`FreeInv`). `BitmapExact` then moves frames
between free, in flight and owned. That no free panics follows: what is in flight is
allocated and never reserved. One lemma per action; `AsideCall` shows once that the steps of
other clients leave a call's part alone. The refinement maps an allocation to the step that
leaves the section (`RefinesGrant`, `RefinesRefuse`) and a free to its unlock
(`RefinesFree`); the abstract free frames are read off the bitmap and `FreeInv`.

With wrong frees none of that holds, and the counter is still exact: `WildInv` keeps what
does not depend on owners. The run that a call has found is free from its current page on
(`RunInv`), so that marking always changes a bit, and clearing changes one or panics; the
counter is behind by the bits already changed (`CountInv`, by the cardinality theorems). A
panic keeps the lock, so `LockInv` alone gives that nobody changes a bit after it. A frame
can get two owners, but only one that a wrong free names (`WrongFrames`): the bits of all
other frames that are owned, or in the hands of a call, stay set (`ChargeInv`).

*Paging.* `TablesSound` speaks of the tables that can be reached, and says nothing that a
step could start from. The proof therefore posits a level and an owner for every frame:
`IInv` asserts that there are functions `lvl` and `own` with `Tree(Links, lvl, own, ...)`,
in which level 0 is what is free or in a call's hands, an entry of a table leads to a table
of the next level and the same owner, is absent, or leads nowhere and has been so in this
table of `Boot` from the start; each table but the PML4s has exactly one parent entry, and
the PDPs of the higher half stay where they are. A frame that is freed and taken
again is cleared before it has a level, so that it brings no such entry with it. `Links` is memory as the
walk reads it; it differs from memory only in the entry that `UnmapPage` is about to clear,
whose table is freed already (`UnlinkOk`). `LockInv` says that the CPU in a section has the
state's lock, `WalkOk` that its `path` leads from the PML4 along the page's indices
(`Leads`), `NewOk` that a new table is in one call's hands and empty when it is linked,
`HoleOk` that the entry which was found absent stays so until then. `EmptyOk` is the
accounting: an empty table is one of the higher half's, or has been empty from the start, or
the lock's holder is at it and
will fill or free it, or has panicked (`Excused`). Each action has a lemma that gives the
next `lvl` and `own`: linking raises the level of the new frame, freeing lowers it, all else
leaves them.

The refinement rests on the walks. A step that changes only tables which lead to no page (a
new table, an empty one) leaves every translation alone (`SameWalk`, `SameBut`); a write to
a page table changes one page's, since by the uniqueness of parents two pages that share an
entry of a page table are the same page (`OneWalk`, `Remapped`). So `MapWrite` is `Map`,
`UnmapClear` is `Unmap`, the read at the end of `GetPhysicalAddress`, or the absent entry on
the way, is `Get`; a panic before the effect is `Refuse`, which a map meets only for a
mapped page or without a spare frame; allocation and freeing are `Turnover` where they take
the last frame or give the first one back, else stutters, as are clearing, linking,
unlinking and the panic for a misaligned address. A page behind an entry that leads nowhere
is `Foreign`, and no call on it takes effect.

*Vectors.* No lock protects the bytes, and `VectorsExact` fails when calls overlap. The
reserved vectors are safe all the same: reserved bits are set in the bitmap and in every
copy a call has read and will write back (`BytesInv`, `CallInv`), and a call picks a clear
bit, or, when the byte filled up between the test and `ffs`, bit 8, which `(i << 3) | bit`
turns into bit 0 of this or of the next byte; no byte a caller reaches has a reserved bit 0.
As long as no calls have overlapped, `SoloInv` adds: one call at most is under way, what is
allocated is what is reserved, owned or on its way to or from its owner (`Pending`), the
bytes before the one a call looks at are full, and the copy it writes back is up to date.

*Kernel log.* `LogInv`: the context inside `LogFmt` is the holder of the log lock; what it
has still to write is the end of its message, and each console has last seen the text before
that. Other contexts write only the newline of a message that has ended, or a panic's texts:
neither takes the log lock, and `MessageContiguous` allows both between two texts of a
message. They are text 0, which `Put` does not record in `last`; that nothing else is
written outside the log lock's section is part of `LogInv`. `DeviceInv`: a device's lock is
held only for the text being written. `Suspends`: what a running handler has interrupted on
its CPU was interrupted where interrupts were on, so that it has no lock, and stays there.
`LocksReleased` follows: nobody who has halted, waits or is suspended keeps a lock.

*Interrupt dispatch.* `ThreadSpaceRestored` needs `SpaceInv`, where the thread's page table
is at each point of `IRQHandler`, and `BootInv`: before `LAPIC::Initialize` is through,
there is one page table, and no handler beneath an exception of the self-test, whose return
would leave it behind. `ServiceInv`: the vector being handled is the highest in service, so
that its EOI ends its own service; before the LAPIC is mapped at most one vector is pending
or in service, and `ResetLapic`'s one EOI ends that. With two early IRQs this invariant is
false, and so is the property (finding 1).

*IOAPIC.* `FindMADTEntry` counts entries of a type, so that the lemmas about it are about
cardinalities: there is exactly one entry with n of its type before it (`EntryExists`,
`BeforeGrows`). `OverriddenGsi`: the last override of an interrupt decides, whatever the
others are. `SetInv` says that a CPU at the window has the lock and has selected the
register of its half, and that its entry's upper half is in place when the lower one is
written; `AloneInv` that two CPUs never set one entry (the code leaves this to callers: a
GSI has one user); `EntryInv` that entries nobody is setting are whole. The writes of others
cannot disturb an entry (`DataWrites`), and unmasking is a write of a lower half.

*Local APIC.* `LapicInv`: the registers hold what the running call has written unless
`overtaken`, and while an IPI is under way its sender is the context that runs.

*Start.* `StartInv` is, besides types, the order of the start as what each call finds:
`OrderInv` says which response has been seen and which part is up from which call on,
`CoreInv` how far `InitializeSIMD` is and what it has enabled by then. `LeftLine`: the
search behind the line happens only with an empty argument, one of the exceptions of
`NoFault`. `DescriptorsExact`: lemmas about words as sets of bits (`InShl`, `InShr`,
`InField`) show that the processor's way of reading base, limit and offset undoes the code's
way of packing them (`TssEntryReads`, `GateExact`), for every address. `BrandTrimmed`: the
trimming loop removes exactly the white space at the end, by the least-number principle.
`SplitExact`: `LineInv` says at every iteration where `pos` is with respect to the
separators of the line (`PosInv`), that the segments of all separators before it but the
last are stored, in order and counted (`OutInv`), and that beyond the end only spaces were
left (`EndInv`).

*Command line, values.* `LookupExact` compares what the parsers compute with what a text
means. The parser's loop is Horner's scheme; `WeighedIs` shows that it gives the sum of the
weighted digits, so that the reference does not depend on the order of evaluation.
`ParseIntegerIs`: the test before each digit, `value > (max - d) / base`, holds exactly when
the next value would exceed the limit (`RoomForDigit`), values only grow (`HornerGrows`),
and so the parser refuses exactly the numerals above the limit, whatever the width.
`ParseIntIs` adds the sign and the smallest negative number, `ParseViewIs` the quotes.
`GetValueIs`: the scan of the arguments stops at the least one with the name. `AskInv` keeps
the answer with the question while the line stays the same.

*ACPI.* `GetTable` walks the pointers with a counter that goes down at each table of the
signature; `FindIsOffered` shows by a first counterexample that what is left at pointer i is
the index less the tables of that signature before i, so that the walk stops at the right
one and at none if there are too few. `RootCounted`: the number of entries the code computes
from the length is the number of pointers, for either pointer size. The DSDT follows from
the FADT's length.

*Copy of the page tables.* `Works` says what the work may touch: the free frames and frame
0, so that the boot loader's tables, which lie outside, are read as they were (`Reading`).
`Grows` relates two states of the work: frames are handed out in order, and only these, the
table being filled and frame 0 have changed. With it each loop has a step lemma and a loop
lemma per level, from the page table upwards (`CopyPTIs`, `CopyPDIs`, `CopyPDPIs`,
`CopyPML4Is`): as long as there were frames, the copy of a table has a copy of each entry,
which is the entry itself if it is a leaf, and else leads to a copy, in a frame taken during
that turn. Line 255 does not check its allocation, and an exhausted allocator sends the copy
to frame 0. The proof shows that this never gets past `ReserveHigherHalfPML4Slots`: some
kernel slot is absent, so that without a panic a frame was left when that loop came to it;
frames do not come back, so one was left at every allocation before (`ReserveIs`,
`InitializeIs`). That tables are distinct frames follows from the intervals of frames that
each subtree owns, which are disjoint for two entries of a table and nested along a path
(`Nested`, `PDOwns`, `PDPOwns`, `RootOwns`). The translations agree level by level
(`SameTranslation`).

*Search for pages.* In the window, `IsMapped` is what the processor translates (`WindowIs`),
given small pages and a clean PDP. The counter of the loop is the length of the run of
unmapped pages that ends at the current one (`CounterIs`), so the first page at which it
reaches the count ends the first run that is long enough (`RunEnds`).

*Formatter.* A numeral is proved digit by digit: `Denotes` relates a text to a number by its
digits, `WriteUnsignedIs` shows it of the loop that divides and fills the buffer from its
end, without a needless zero, for base 10 and 16. `SixDigitsAre`: of a fraction in eighths,
to which the model restricts doubles, nothing is left behind the sixth digit, so that six
decimals are exact; the `.` is the only one in the text. `CountArgsIs`: without `{{`, the
check at compile time counts the placeholders. `WriteArgsIs`: each turn starts outside a
placeholder, with as many arguments gone as there are placeholders before it and the text of
the pieces so far; when the arguments are used up, no placeholder is left, and the rest is
copied.

*Physical memory manager, initialization.* `PMMInv` goes with the phases. `ScanInv`: the
regions are those of the usable entries that reach above 1 MiB, in order, and `endAddr`
bounds them. `SizeInv`: the bitmaps are whole pages and have a bit for every page below it.
`PlaceInv`: the regions still hold what is offered above 1 MiB, less the pages of the
bitmaps, which the arithmetic of rounding (`PagesUpFacts`, over `\div`) shows to be whole
pages of one region. `BitmapsInv`: how far the reserved bitmap is filled in each phase; the
loop of line 99 marks at most pages of the bitmaps (`LoopPages` within `BitmapPages`), so
that its mixed units do no harm. `TestInv`: each answer of the self-test is the first fit
given the answers before it (`Answers`), which determines it (`AnswersUnique`); the bits set
are those of the answers not yet freed. So two rounds that begin with no bit set give the
same addresses, and a panic in the test means that an answer was 0.

Recursive functions (the loops of the parsers, the copy, the search, the formatter and
`GetTable`) are defined by `CHOOSE`; `RecursionExists` shows that a function with given
steps exists, by a first length for which there is none, and `RecursionTyped` gives its
type. Induction over data is done without the library's induction theorems, whose operator
parameter the installed provers cannot instantiate: the lemma `Least` (a non-empty set of
numbers has a least element, from the well-foundedness of `<`) gives a first counterexample,
whose predecessor is none. That is how `OverriddenGsi`, `Trimmed` and the lemmas on quotes
and separators are proved.

### Only model-checked

Liveness (`LeafLockReleased`, `SectionEnds`, `HighestIrqServed`, `HolderLeaves`,
`ExceptionHalts`, `StartEnds`): fairness and ENABLED are out of reach of these proofs.
Everything else that the passing runs check is proved as well.

## Findings

1. `LAPIC.cpp:48` "This happened before the LAPIC was set up, safe to skip.":
   after two IRQs of rising priority before that point the single EOI of
   `LAPIC::Initialize` (line 38) leaves one vector in service, and its priority class
   blocked. (`idt_early`)
2. `CPU.cpp:213` "Eliminate leading whitespace by shifting the buffer contents to the front of
   the buffer": the loop at 218 tests and copies `buffer[startIndex + 1]` and never advances
   `startIndex`. If the brand string begins with white space and goes on for two characters
   or more, it does not end and writes behind the buffer. (`ReadBrandEnds`, `start_brand`)
3. `CommandLineExtractor.cpp:85` "with = the value must be either 1 or 0. Or it is unknown":
   the parser it calls also takes `true` and `false` (`Formatter.cpp` 206-214), so that
   `a=true` is known. (`BoolIsOneOrZero`, `start_bool`; `LookupExact` has what the code does)

Met while modelling, and named in the properties that leave them out:

* `CommandLineExtractor.cpp:54` dereferences a null response that line 50 has found null,
  and `IOAPIC.cpp:87` a MADT that may be missing: two of the three exceptions of `NoFault`.
  The third is `StringView.h:69`: on an empty view `size - 1` wraps around and the search
  goes on behind it (`LeavesLine`), as `GetValue` does with an empty argument.
* `Paging.cpp:226`: the new PDP is not cleared; where the boot loader's PDP has no entry the
  kernel's keeps what the frame held (`Uncopied` in `CopyExact` and `FindExact`). No walk of
  `Paging.cpp` tests for huge pages, and `MapPage` takes every entry that is not zero for a
  table: `Paging` ends where one is followed (`Astray`).
* `PhysicalMemoryManager.cpp` 172-205: a free of a frame that belongs to another caller is not
  detected, and the frame is handed out again (`WrongFrames` in `NoDoubleAllocation`).
* `Paging.cpp:255` does not check its allocation. Memory that ends there is still noticed, by
  `ReserveHigherHalfPML4Slots`, as long as a kernel slot of the boot loader's PML4 is empty
  (`KernelStartAssumption`).
* `Formatter.h:69`: the check at compile time counts `{{}}` as an escape, `WriteArgs` looks for
  five characters and takes an argument for it (`Escapes` in `FormatExact`).

Noticed while reading, without a run: `PhysicalMemoryManager.cpp:98` "Reserve the 2
bitmaps": the loop adds a size in bytes to a page number and divides the sum by the page
size, and so marks nothing; `UnreservedExact` shows that the bitmaps are safe nevertheless,
because line 59 moves the start of their region behind them. `IDT.cpp:42` says that 0-32 are
reserved, the code reserves 0-31. `_exceptionHandlers` is registered into and never read.
The stubs of vectors 21 and 29 in `IDT.S` do not expect the error code that the processor
pushes. A flag after two spaces becomes an argument with a leading space and is not found by
name (`CommandLineExtractor.cpp`). `ACPI.cpp:134` locks with a temporary that is destroyed
in the same statement. `ACPI.cpp:20` indexes three strings with the revision that firmware
supplies, and `Kernel.cpp:21` arrays of `MaxCPUs` with a LAPIC ID; `NoFault` does not count
either. A `LOG_LEVEL` above the range of `int` becomes a small or negative one
(`Kernel.cpp:14`). `Formatter.cpp:12` compares as `int`, so that control codes pass.
`LAPIC::ReceiveIPI` reads bits of ICR_LOW that are reserved.

## Not modelled

What a walk of `Paging.cpp` does behind an entry that leads to no table; the TLBs and the
processor's speculative page walks; register frames; the encoding of the local APIC's
registers and of redirection entries (`RedirectionEntry::Pack` has no caller);
`UnmaskLVTEntry`, `GetLvtCount` and `ReceiveIPI` (no caller, or reads only);
`RegisterExceptionHandler`; `entry.S`, which sets the stack; port I/O, string and memory
primitives; the vendored boot protocol header and terminal. Interrupts during the start are
modelled in `IDT`, not in `KernelStart`; the start's panics end the model there, what a
panic writes is in `KernelLog`. `PROJECT.json` gives the reason for each part.

## Plan

The order was: locks and physical memory (on which everything rests), paging, interrupt
dispatch, then vectors, log and IOAPIC; then the start with all it computes, and the local
APIC; then the proofs, in the same order, with the three refinements, and last the
initialization of the allocator and what the loops of the start compute (values, page tables,
firmware tables, messages). What remains open is outside these models: the TLBs of other CPUs
and the processor's walks through tables that are being freed (`Paging.cpp` 108 ff.), which
need a model of the processor's caches; interrupts during the later calls of the start; and
the entry of further CPUs, which the code does not have yet.
