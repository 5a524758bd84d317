------------------------------- MODULE PMMInit -------------------------------
(***************************************************************************)
(* PhysicalMemoryManager::Initialize and its self-test: from the boot      *)
(* loader's memory map to the two bitmaps.  Addresses, byte counts and     *)
(* page numbers are kept apart as in the code; PageSize, BitsPerByte and   *)
(* MiB are parameters, so that small memories have every shape.            *)
(* A bitmap is the set of the frames whose bit is set.                     *)
(***************************************************************************)
EXTENDS Integers, Sequences, FiniteSets

CONSTANTS
    PageSize,      \* Architecture::PageSize (4096)
    BitsPerByte,   \* 8
    MiB,           \* Constants::MiB
    MemoryMaps,    \* memory maps the boot loader may pass: sequences of
                   \* [base, length, usable], sorted, without overlap
    NoResponse,    \* the boot loader left the memory map or HHDM request open
    TestSizes      \* the page counts of the self-test: <<1, 2, 10 MiB in pages>>

ASSUME UnitsAssumption ==
    /\ PageSize \in Nat \ {0} /\ BitsPerByte \in Nat \ {0} /\ MiB \in Nat \ {0}
    /\ MiB % PageSize = 0
    /\ MiB \div PageSize <= PageSize * BitsPerByte   \* one bitmap page covers 1 MiB

ASSUME MemoryMapsAssumption ==
    /\ NoResponse \notin MemoryMaps
    /\ \A m \in MemoryMaps :
         /\ m \in Seq([base : Nat, length : Nat, usable : BOOLEAN])
         /\ \A i, j \in 1 .. Len(m) : i < j => m[i].base + m[i].length <= m[j].base

ASSUME TestSizesAssumption == TestSizes \in Seq(Nat \ {0}) /\ TestSizes # <<>>

VARIABLES
    memmap,        \* the response of the memory map request
    phase,         \* the next part of Initialize, "done" or "panic"
    entry,         \* the loop variable of the scan: entries already looked at
    regions,       \* validRegions: a sequence of [addr, length]
    endAddr,       \* the end of the last of them
    bitmapSize,    \* _bitmapSize, in bytes
    bitmapMemory,  \* the physical address of the bitmaps, 0 for nullptr
    reserved,      \* the set bits of _reservedBitmap
    allocatable,   \* the set bits of _allocatableBitmap
    usableFrames,  \* _usableFrames
    round,         \* of the self-test: first or second round of allocations
    got            \* the addresses that the rounds were given

scan == <<memmap, entry, endAddr>>
pmmVars == <<scan, phase, regions, bitmapSize, bitmapMemory, reserved,
             allocatable, usableFrames, round, got>>
bitmaps == <<reserved, allocatable, usableFrames>>
test == <<round, got>>

AlignUp(x, a) == ((x + a - 1) \div a) * a
AlignDown(x, a) == (x \div a) * a

EndOf(r) == r.addr + r.length
\* The frames that lie wholly inside a region.
PagesOf(r) == AlignUp(r.addr, PageSize) \div PageSize ..
              AlignDown(EndOf(r), PageSize) \div PageSize - 1

frameCount == bitmapSize * BitsPerByte
Frames == 0 .. frameCount - 1
required == 2 * bitmapSize           \* requiredMapStorageSize

Init ==
    /\ memmap \in MemoryMaps \/ memmap = NoResponse
    /\ phase = "scan_memmap"
    /\ entry = 0 /\ regions = <<>> /\ endAddr = 0
    /\ bitmapSize = 0
    /\ bitmapMemory = 0
    /\ reserved = {} /\ allocatable = {} /\ usableFrames = 0
    /\ round = 1 /\ got = <<<<>>, <<>>>>

\* Lines 28-41: usable entries that reach beyond the first MiB.
Valid(e) == e.usable /\ e.base + e.length > MiB
Region(e) == [addr |-> e.base, length |-> e.length]

NoMemmap ==        \* lines 14-18
    /\ phase = "scan_memmap" /\ memmap = NoResponse
    /\ phase' = "panic"
    /\ UNCHANGED <<scan, regions, bitmapSize, bitmapMemory, bitmaps, test>>

ScanEntry ==       \* an iteration of lines 28-41
    /\ phase = "scan_memmap" /\ memmap # NoResponse /\ entry < Len(memmap)
    /\ LET e == memmap[entry + 1]
       IN /\ regions' = IF Valid(e) THEN Append(regions, Region(e)) ELSE regions
          /\ endAddr' = IF Valid(e) /\ endAddr < e.base + e.length THEN e.base + e.length
                        ELSE endAddr
    /\ entry' = entry + 1
    /\ UNCHANGED <<memmap, phase, bitmapSize, bitmapMemory, bitmaps, test>>

SizeBitmaps ==     \* lines 43-45
    /\ phase = "scan_memmap" /\ memmap # NoResponse /\ entry = Len(memmap)
    /\ usableFrames' = endAddr \div PageSize
    /\ bitmapSize' = AlignUp((usableFrames' + BitsPerByte - 1) \div BitsPerByte, PageSize)
    /\ phase' = "place_bitmaps"
    /\ UNCHANGED <<scan, regions, bitmapMemory, reserved, allocatable, test>>

\* Lines 52-66: the first region with room gives up its first pages.
HasRoom(r) == LET size == AlignDown(EndOf(r), PageSize) - AlignUp(r.addr, PageSize)
              IN (IF size > 0 THEN size ELSE 0) >= required
FirstRoom == CHOOSE i \in DOMAIN regions :
                HasRoom(regions[i]) /\ \A j \in 1 .. i - 1 : ~HasRoom(regions[j])

RegionKept ==      \* Mutant: the region keeps the pages given to the bitmaps
    /\ phase = "place_bitmaps"
    /\ IF \E i \in DOMAIN regions : HasRoom(regions[i])
       THEN /\ bitmapMemory' = AlignUp(regions[FirstRoom].addr, PageSize)
            /\ phase' = IF bitmapMemory' = 0 THEN "panic" ELSE "fill"
       ELSE /\ phase' = "panic"
            /\ UNCHANGED bitmapMemory
    /\ UNCHANGED <<scan, regions, bitmapSize, bitmaps, test>>

PlaceBitmaps ==
    /\ phase = "place_bitmaps"
    /\ IF \E i \in DOMAIN regions : HasRoom(regions[i])
       THEN LET i == FirstRoom IN
            /\ bitmapMemory' = AlignUp(regions[i].addr, PageSize)
            /\ regions' = [regions EXCEPT ![i] = [addr |-> @.addr + required,
                                                  length |-> @.length - required]]
            /\ phase' = IF bitmapMemory' = 0 THEN "panic" ELSE "fill"
       ELSE /\ phase' = "panic"
            /\ UNCHANGED <<bitmapMemory, regions>>
    /\ UNCHANGED <<scan, bitmapSize, bitmaps, test>>

Fill ==            \* lines 72-75
    /\ phase = "fill"
    /\ reserved' = Frames /\ allocatable' = Frames
    /\ phase' = "clear_usable"
    /\ UNCHANGED <<scan, regions, bitmapSize, bitmapMemory, usableFrames, test>>

ClearUsable ==     \* lines 77-88
    /\ phase = "clear_usable"
    /\ reserved' = reserved \ UNION {PagesOf(regions[i]) : i \in DOMAIN regions}
    /\ phase' = "reserve_low"
    /\ UNCHANGED <<scan, regions, bitmapSize, bitmapMemory, allocatable, usableFrames, test>>

LowPages == 0 .. MiB \div PageSize - 1

ReserveLow ==      \* lines 91-96
    /\ phase = "reserve_low"
    /\ reserved' = reserved \cup LowPages
    /\ phase' = "reserve_bitmaps"
    /\ UNCHANGED <<scan, regions, bitmapSize, bitmapMemory, allocatable, usableFrames, test>>

\* Lines 99-102: a page number plus a number of bytes.
LoopStart == bitmapMemory \div PageSize
LoopEnd == AlignUp(LoopStart + required, PageSize) \div PageSize
LoopPages == LoopStart .. LoopEnd - 1

ReserveBitmaps ==
    /\ phase = "reserve_bitmaps"
    /\ reserved' = reserved \cup LoopPages
    /\ phase' = "count"
    /\ UNCHANGED <<scan, regions, bitmapSize, bitmapMemory, allocatable, usableFrames, test>>

CountUsable ==     \* lines 110-124
    /\ phase = "count"
    /\ allocatable' = {}
    /\ usableFrames' = Cardinality(Frames \ reserved)
    /\ phase' = "test_alloc"
    /\ UNCHANGED <<scan, regions, bitmapSize, bitmapMemory, reserved, test>>

(***************************************************************************)
(* TestAllocationAndFreeing.  AllocatePages and FreePages act as in module *)
(* PhysicalMemoryManager; before the kernel's other CPUs and interrupts    *)
(* exist they are single steps.                                            *)
(***************************************************************************)
Run(s, k) == s .. s + k - 1
Fits(s, k) == Run(s, k) \subseteq Frames \ (reserved \cup allocatable)
FirstFit(k) == CHOOSE s \in Frames : Fits(s, k) /\ \A t \in 0 .. s - 1 : ~Fits(t, k)

TestAllocUnmarked ==   \* Mutant: the bits of the run are not set
    /\ phase = "test_alloc"
    /\ LET k == TestSizes[Len(got[round]) + 1]
           found == \E s \in Frames : Fits(s, k)
       IN /\ got' = [got EXCEPT ![round] =
                        Append(@, IF found THEN FirstFit(k) * PageSize ELSE 0)]
          /\ usableFrames' = IF found THEN usableFrames - k ELSE usableFrames
          /\ phase' = IF Len(got'[round]) = Len(TestSizes) THEN "test_free" ELSE "test_alloc"
    /\ UNCHANGED <<scan, regions, bitmapSize, bitmapMemory, reserved, allocatable, round>>

TestAlloc ==
    /\ phase = "test_alloc"
    /\ LET k == TestSizes[Len(got[round]) + 1]
           found == \E s \in Frames : Fits(s, k)
       IN /\ got' = [got EXCEPT ![round] =
                        Append(@, IF found THEN FirstFit(k) * PageSize ELSE 0)]
          /\ allocatable' = IF found THEN allocatable \cup Run(FirstFit(k), k) ELSE allocatable
          /\ usableFrames' = IF found THEN usableFrames - k ELSE usableFrames
          /\ phase' = IF Len(got'[round]) = Len(TestSizes) THEN "test_free" ELSE "test_alloc"
    /\ UNCHANGED <<scan, regions, bitmapSize, bitmapMemory, reserved, round>>

\* The three calls to FreePages; the first page that is reserved or not
\* allocated panics (an allocation that failed gave the address 0).
Given(i) == Run(got[round][i] \div PageSize, TestSizes[i])

TestFree ==
    /\ phase = "test_free"
    /\ LET all == UNION {Given(i) : i \in DOMAIN TestSizes}
           sound == \A i \in DOMAIN TestSizes : Given(i) \subseteq allocatable \ reserved
       IN IF sound
          THEN /\ allocatable' = allocatable \ all
               /\ usableFrames' = usableFrames + Cardinality(all)
               /\ phase' = IF round = 1 THEN "test_alloc" ELSE "done"
               /\ round' = 2
          ELSE /\ phase' = "panic"
               /\ UNCHANGED <<allocatable, usableFrames, round>>
    /\ UNCHANGED <<scan, regions, bitmapSize, bitmapMemory, reserved, got>>

Ended == /\ phase \in {"done", "panic"}
         /\ UNCHANGED pmmVars

Next == \/ NoMemmap \/ ScanEntry \/ SizeBitmaps \/ PlaceBitmaps \/ Fill \/ ClearUsable \/ ReserveLow
        \/ ReserveBitmaps \/ CountUsable \/ TestAlloc \/ TestFree \/ Ended

Spec == Init /\ [][Next]_pmmVars

(***************************************************************************)
(* Properties.                                                             *)
(***************************************************************************)
Counted == phase \in {"test_alloc", "test_free", "done"}

\* The pages that hold the two bitmaps.
BitmapPages == bitmapMemory \div PageSize .. (bitmapMemory + required) \div PageSize - 1

\* The memory that the memory map offers to the kernel.
OfferedPages == UNION {PagesOf(Region(memmap[i])) : i \in {j \in DOMAIN memmap : memmap[j].usable}}

\* Initialize leaves unreserved exactly the pages that are offered, above the
\* first MiB and not in use for the bitmaps: nothing else is handed out
\* ("we'd rather have less memory but no accidental overwrites", line 71), and
\* nothing of it is lost; the counter says how many of them are free, before,
\* during and after the self-test.
UnreservedExact ==
    Counted => /\ Frames \ reserved = OfferedPages \ (LowPages \cup BitmapPages)
               /\ usableFrames = Cardinality(Frames \ (reserved \cup allocatable))

\* Once the bitmaps are placed, Initialize panics only because one of the
\* test allocations found no run that long.  Otherwise the second round of
\* the self-test "should produce the exact same result as before" (line 230),
\* and afterwards every page is free again.
SelfTestSound ==
    /\ phase = "panic" /\ bitmapMemory # 0 => \E i \in DOMAIN TestSizes : got[round][i] = 0
    /\ phase = "done" => got[1] = got[2] /\ allocatable = {}
==============================================================================
