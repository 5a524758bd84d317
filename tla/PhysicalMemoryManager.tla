------------------------ MODULE PhysicalMemoryManager ------------------------
(***************************************************************************)
(* Memory::PhysicalMemoryManager after Initialize: AllocatePages and       *)
(* FreePages, called by several clients at once.  Each iteration of a loop *)
(* over the bitmaps is a step; the spinlock is AbstractLock's (module      *)
(* Spinlock shows that it implements that).  The bitmaps are sets of       *)
(* frames: a bit that is set is a member.                                  *)
(***************************************************************************)
EXTENDS Integers, FiniteSets

CONSTANTS
    Clients,      \* callers
    Nobody,       \* holder of the free lock
    FrameCount,   \* _frameCount = 8 * _bitmapSize
    Reserved,     \* the set bits of _reservedBitmap, fixed by Initialize
    PageSize,     \* Architecture::PageSize
    Sizes,        \* the pageCount arguments that occur
    WildFrees     \* arguments <<start address, pageCount>> of wrong frees

Frames == 0 .. FrameCount - 1
Run(s, k) == s .. s + k - 1

ASSUME FrameCountAssumption == FrameCount \in Nat \ {0}
ASSUME ReservedAssumption == Reserved \subseteq Frames /\ 0 \in Reserved
ASSUME PageSizeAssumption == PageSize \in Nat \ {0}
ASSUME SizesAssumption == Sizes \subseteq Nat
ASSUME WildFreesAssumption == WildFrees \subseteq Nat \X Nat
ASSUME NobodyAssumption == Nobody \notin Clients

VARIABLES
    lock,          \* the client inside the section of _lock, or Nobody
    allocated,     \* the set bits of _allocatableBitmap
    usableFrames,  \* _usableFrames
    pc,            \* pc[c]: where c is in its call
    count,         \* count[c]: the argument pageCount
    start,         \* start[c]: the argument start of FreePages (an address)
    page,          \* page[c]: the loop variable
    runStart,      \* runStart[c], runLength[c]: the run AllocatePages has found
    runLength,
    result,        \* result[c]: what AllocatePages is about to return
    own            \* own[c]: the frames c was given and has not given back

vars == <<lock, allocated, usableFrames, pc, count, start, page, runStart,
          runLength, result, own>>
args == <<count, start>>
scan == <<runStart, runLength>>

InSection == {"scan", "mark", "clear", "alloc_unlock", "free_unlock", "panic"}
Pcs == {"idle", "alloc_lock", "free_lock"} \cup InSection

IsPageReserved(p) == p \in Reserved
IsPageAllocated(p) == p \in allocated
IsFree(p) == p \in Frames /\ ~IsPageReserved(p) /\ ~IsPageAllocated(p)
FreeSet == Frames \ (Reserved \cup allocated)

Init ==
    /\ lock = Nobody
    /\ allocated = {}
    /\ usableFrames = Cardinality(Frames \ Reserved)
    /\ pc = [c \in Clients |-> "idle"]
    /\ count = [c \in Clients |-> 0]
    /\ start = [c \in Clients |-> 0]
    /\ page = [c \in Clients |-> 0]
    /\ runStart = [c \in Clients |-> 0]
    /\ runLength = [c \in Clients |-> 0]
    /\ result = [c \in Clients |-> 0]
    /\ own = [c \in Clients |-> {}]

Goto(c, label) == pc' = [pc EXCEPT ![c] = label]

\* ~ScopedLock and the return: the call's locals are gone.
Leave(c) ==
    /\ lock' = Nobody
    /\ Goto(c, "idle")
    /\ count' = [count EXCEPT ![c] = 0]
    /\ start' = [start EXCEPT ![c] = 0]
    /\ page' = [page EXCEPT ![c] = 0]
    /\ runStart' = [runStart EXCEPT ![c] = 0]
    /\ runLength' = [runLength EXCEPT ![c] = 0]
    /\ result' = [result EXCEPT ![c] = 0]

(***************************************************************************)
(* AllocatePages(pageCount).                                               *)
(***************************************************************************)
AllocatePages(c, k) ==
    /\ pc[c] = "idle"
    /\ count' = [count EXCEPT ![c] = k]
    /\ Goto(c, "alloc_lock")
    /\ UNCHANGED <<lock, allocated, usableFrames, start, page, scan, result, own>>

UnlockedAllocLock(c) ==               \* Mutant: no ScopedLock
    /\ pc[c] = "alloc_lock"
    /\ lock' = c
    /\ page' = [page EXCEPT ![c] = 0]
    /\ runStart' = [runStart EXCEPT ![c] = 0]
    /\ runLength' = [runLength EXCEPT ![c] = 0]
    /\ result' = [result EXCEPT ![c] = 0]
    /\ Goto(c, IF count[c] = 0 THEN "alloc_unlock" ELSE "scan")
    /\ UNCHANGED <<allocated, usableFrames, args, own>>

AllocLock(c) ==
    /\ pc[c] = "alloc_lock"
    /\ lock = Nobody
    /\ lock' = c
    /\ page' = [page EXCEPT ![c] = 0]
    /\ runStart' = [runStart EXCEPT ![c] = 0]
    /\ runLength' = [runLength EXCEPT ![c] = 0]
    /\ result' = [result EXCEPT ![c] = 0]
    /\ Goto(c, IF count[c] = 0 THEN "alloc_unlock" ELSE "scan")
    /\ UNCHANGED <<allocated, usableFrames, args, own>>

\* Mutant: the run is not restarted at a frame that is taken.
ScanTakenKeepsRun(c) ==
    /\ pc[c] = "scan" /\ page[c] < FrameCount
    /\ ~IsFree(page[c])
    /\ page' = [page EXCEPT ![c] = @ + 1]
    /\ UNCHANGED <<lock, allocated, usableFrames, pc, args, scan, result, own>>

ScanTaken(c) ==
    /\ pc[c] = "scan" /\ page[c] < FrameCount
    /\ ~IsFree(page[c])
    /\ runLength' = [runLength EXCEPT ![c] = 0]
    /\ page' = [page EXCEPT ![c] = @ + 1]
    /\ UNCHANGED <<lock, allocated, usableFrames, pc, args, runStart, result, own>>

\* Mutant: the length is counted before the start is set, one frame late.
ScanFreeLateStart(c) ==
    /\ pc[c] = "scan" /\ page[c] < FrameCount
    /\ IsFree(page[c])
    /\ runStart' = [runStart EXCEPT ![c] = IF runLength[c] <= 1 THEN page[c] ELSE @]
    /\ runLength' = [runLength EXCEPT ![c] = @ + 1]
    /\ IF runLength[c] + 1 = count[c]
       THEN Goto(c, "mark") /\ page' = [page EXCEPT ![c] = runStart'[c]]
       ELSE page' = [page EXCEPT ![c] = @ + 1] /\ UNCHANGED pc
    /\ UNCHANGED <<lock, allocated, usableFrames, args, result, own>>

ScanFree(c) ==
    /\ pc[c] = "scan" /\ page[c] < FrameCount
    /\ IsFree(page[c])
    /\ runStart' = [runStart EXCEPT ![c] = IF runLength[c] = 0 THEN page[c] ELSE @]
    /\ runLength' = [runLength EXCEPT ![c] = @ + 1]
    /\ IF runLength[c] + 1 = count[c]
       THEN Goto(c, "mark") /\ page' = [page EXCEPT ![c] = runStart'[c]]
       ELSE page' = [page EXCEPT ![c] = @ + 1] /\ UNCHANGED pc
    /\ UNCHANGED <<lock, allocated, usableFrames, args, result, own>>

\* Mutant: the early return of a failed scan leaves the lock locked.
ScanFailedKeepsLock(c) ==
    /\ pc[c] = "scan" /\ page[c] = FrameCount
    /\ Goto(c, "idle")
    /\ UNCHANGED <<lock, allocated, usableFrames, args, page, scan, result, own>>

\* The loop has come to its end: runLength < pageCount, an error is logged
\* and 0 is returned.
ScanFailed(c) ==
    /\ pc[c] = "scan" /\ page[c] = FrameCount
    /\ Goto(c, "alloc_unlock")
    /\ UNCHANGED <<lock, allocated, usableFrames, args, page, scan, result, own>>

Mark(c) ==
    /\ pc[c] = "mark" /\ page[c] < runStart[c] + count[c]
    /\ allocated' = allocated \cup {page[c]}
    /\ page' = [page EXCEPT ![c] = @ + 1]
    /\ UNCHANGED <<lock, usableFrames, pc, args, scan, result, own>>

MarkDoneUncounted(c) ==               \* Mutant: _usableFrames is not reduced
    /\ pc[c] = "mark" /\ page[c] = runStart[c] + count[c]
    /\ result' = [result EXCEPT ![c] = runStart[c] * PageSize]
    /\ Goto(c, "alloc_unlock")
    /\ UNCHANGED <<lock, allocated, usableFrames, args, page, scan, own>>

MarkDone(c) ==
    /\ pc[c] = "mark" /\ page[c] = runStart[c] + count[c]
    /\ usableFrames' = usableFrames - count[c]
    /\ result' = [result EXCEPT ![c] = runStart[c] * PageSize]
    /\ Goto(c, "alloc_unlock")
    /\ UNCHANGED <<lock, allocated, args, page, scan, own>>

\* To the caller 0 means failure.
AllocReturn(c) ==
    /\ pc[c] = "alloc_unlock"
    /\ own' = IF result[c] = 0 THEN own
              ELSE [own EXCEPT ![c] = @ \cup Run(result[c] \div PageSize, count[c])]
    /\ Leave(c)
    /\ UNCHANGED <<allocated, usableFrames>>

(***************************************************************************)
(* FreePages(start, pageCount).  A client frees frames that it owns; wrong *)
(* frees come from WildFrees.  PANIC halts the CPU with the lock held.     *)
(***************************************************************************)
FreePages(c, s, k) ==
    /\ pc[c] = "idle"
    /\ start' = [start EXCEPT ![c] = s]
    /\ count' = [count EXCEPT ![c] = k]
    /\ own' = [own EXCEPT ![c] = @ \ Run(s \div PageSize, k)]
    /\ Goto(c, "free_lock")
    /\ UNCHANGED <<lock, allocated, usableFrames, page, scan, result>>

OwnedFree(c, f, k) == /\ Run(f, k) \subseteq own[c]
                      /\ FreePages(c, f * PageSize, k)

WildFree(c, w) == FreePages(c, w[1], w[2])

FreeLock(c) ==
    /\ pc[c] = "free_lock"
    /\ lock = Nobody
    /\ lock' = c
    /\ page' = [page EXCEPT ![c] = start[c] \div PageSize]
    /\ Goto(c, IF start[c] % PageSize # 0 THEN "panic" ELSE "clear")
    /\ UNCHANGED <<allocated, usableFrames, args, scan, result, own>>

EndPageInclusive(c) == start[c] \div PageSize + count[c] + 1   \* Mutant: off by one

EndPage(c) == start[c] \div PageSize + count[c]

Clear(c) ==
    /\ pc[c] = "clear" /\ page[c] < EndPage(c)
    /\ page[c] \in Frames /\ ~IsPageReserved(page[c]) /\ IsPageAllocated(page[c])
    /\ allocated' = allocated \ {page[c]}
    /\ page' = [page EXCEPT ![c] = @ + 1]
    /\ UNCHANGED <<lock, usableFrames, pc, args, scan, result, own>>

ClearPanicsUnlocked(c) ==             \* Mutant: PANIC releases the lock
    /\ pc[c] = "clear" /\ page[c] < EndPage(c)
    /\ page[c] \notin Frames \/ IsPageReserved(page[c]) \/ ~IsPageAllocated(page[c])
    /\ Goto(c, "panic")
    /\ lock' = Nobody
    /\ UNCHANGED <<allocated, usableFrames, args, page, scan, result, own>>

\* Out of bounds, reserved, or not allocated: in this order in the code.
ClearPanics(c) ==
    /\ pc[c] = "clear" /\ page[c] < EndPage(c)
    /\ page[c] \notin Frames \/ IsPageReserved(page[c]) \/ ~IsPageAllocated(page[c])
    /\ Goto(c, "panic")
    /\ UNCHANGED <<lock, allocated, usableFrames, args, page, scan, result, own>>

ClearDone(c) ==
    /\ pc[c] = "clear" /\ page[c] = EndPage(c)
    /\ usableFrames' = usableFrames + count[c]
    /\ Goto(c, "free_unlock")
    /\ UNCHANGED <<lock, allocated, args, page, scan, result, own>>

FreeReturn(c) ==
    /\ pc[c] = "free_unlock"
    /\ Leave(c)
    /\ UNCHANGED <<allocated, usableFrames, own>>

Section(c) == \/ AllocLock(c) \/ ScanTaken(c) \/ ScanFree(c) \/ ScanFailed(c)
              \/ Mark(c) \/ MarkDone(c) \/ AllocReturn(c)
              \/ FreeLock(c) \/ Clear(c) \/ ClearPanics(c) \/ ClearDone(c) \/ FreeReturn(c)

Next == \E c \in Clients :
            \/ \E k \in Sizes : AllocatePages(c, k)
            \/ \E f \in Frames, k \in Sizes : OwnedFree(c, f, k)
            \/ \E w \in WildFrees : WildFree(c, w)
            \/ Section(c)

Spec == Init /\ [][Next]_vars

(***************************************************************************)
(* A CPU inside a call goes on executing.  Nothing is assumed about who    *)
(* wins a lock that several clients spin on: the spinlock is not fair.     *)
(***************************************************************************)
FairSpec == Spec /\ \A c \in Clients : WF_vars(Section(c))

(***************************************************************************)
(* Properties.                                                             *)
(***************************************************************************)
\* Type invariant: the lock, the allocation bitmap and its counter, and the
\* local variables of every call to AllocatePages or FreePages.
TypeOK ==
    /\ lock \in Clients \cup {Nobody}
    /\ allocated \subseteq Frames
    /\ usableFrames \in Int
    /\ pc \in [Clients -> Pcs]
    /\ count \in [Clients -> Nat]
    /\ start \in [Clients -> Nat]
    /\ page \in [Clients -> Nat]
    /\ runStart \in [Clients -> Nat]
    /\ runLength \in [Clients -> Nat]
    /\ result \in [Clients -> Nat]
    /\ own \in [Clients -> SUBSET Frames]

\* The frames that wrong frees name.  FreePages does not know whose frame it
\* clears: a frame freed by a caller that does not own it can be handed out
\* again while its owner still uses it.
WrongFrames == UNION {Run(w[1] \div PageSize, w[2]) : w \in WildFrees}

\* AllocatePages gives nobody a reserved frame, and the only frames that can
\* belong to two callers are those a wrong free has named: the harm of a
\* wrong call of FreePages is confined to its own arguments.
NoDoubleAllocation ==
    \A c \in Clients :
        /\ own[c] \cap Reserved = {}
        /\ \A d \in Clients \ {c} : own[c] \cap own[d] \subseteq WrongFrames

\* The frames whose bit is set for c though c does not own them: those its
\* call has marked so far, or has still to clear.
InFlight(c) == {f \in Frames :
    \/ pc[c] = "mark" /\ f \in runStart[c] .. page[c] - 1
    \/ pc[c] = "alloc_unlock" /\ result[c] # 0 /\ f \in Run(result[c] \div PageSize, count[c])
    \/ pc[c] = "free_lock" /\ f \in Run(start[c] \div PageSize, count[c])
    \/ pc[c] = "clear" /\ f \in page[c] .. EndPage(c) - 1}

Charged(c) == own[c] \cup InFlight(c)

\* The allocation bitmap has a bit set exactly for the frames some client
\* owns or is in the middle of taking or returning: no frame leaks, none is
\* free while in use, and no frame is charged to two clients.
BitmapExact ==
    /\ allocated = UNION {Charged(c) : c \in Clients}
    /\ allocated \cap Reserved = {}
    /\ \A c \in Clients : /\ own[c] \cap InFlight(c) = {}
                          /\ \A d \in Clients \ {c} : Charged(c) \cap Charged(d) = {}

\* Outside the lock _usableFrames is the number of frames that are neither
\* reserved nor allocated, which Initialize logs and the counters maintain.
UsableFramesExact == lock = Nobody => usableFrames = Cardinality(FreeSet)

\* What a finished call of c found, judged by the bitmap it leaves.
VerdictOf(c) ==
    LET found == result[c] \div PageSize IN
    IF result[c] = 0
    THEN \A s \in Frames : ~(Run(s, count[c]) \subseteq FreeSet)
    ELSE /\ result[c] % PageSize = 0
         /\ \A s \in 0 .. found - 1 :
              ~(Run(s, count[c]) \subseteq FreeSet \cup Run(found, count[c]))

\* AllocatePages fails only if no run of pageCount free frames exists, and
\* otherwise returns the lowest one, which is free until it is marked; the
\* address 0, which means failure, is never the address of a run.
FirstFitVerdict ==
    \A c \in Clients : pc[c] = "alloc_unlock" /\ count[c] > 0 => VerdictOf(c)

\* Clients that only free what they own never reach a PANIC.
NoPanic == \A c \in Clients : pc[c] # "panic"

\* After a PANIC in FreePages the bitmap and its counter never change again:
\* the lock stays with the halted CPU, so a wrong free cannot be built on.
PanicFreezesBitmap ==
    [][(\E c \in Clients : pc[c] = "panic") => UNCHANGED <<allocated, usableFrames>>]_vars

(***************************************************************************)
(* The inductive strengthening for clients that free what they own         *)
(* (PhysicalMemoryManagerProofs).                                          *)
(***************************************************************************)
LockInv == \A c \in Clients : pc[c] \in InSection <=> lock = c

\* The current run of the scan: the free frames just before page, and no run
\* that is long enough begins below it.
ScanInv(c) ==
    /\ count[c] > 0 /\ result[c] = 0
    /\ page[c] <= FrameCount
    /\ runLength[c] <= page[c] /\ runLength[c] < count[c]
    /\ runLength[c] > 0 => runStart[c] = page[c] - runLength[c]
    /\ \A f \in Frames : page[c] - runLength[c] <= f /\ f < page[c] => f \in FreeSet
    /\ \A s \in Frames : Run(s, count[c]) \subseteq FreeSet => s >= page[c] - runLength[c]

\* The lowest run long enough: marked below page, still free from there on.
MarkInv(c) ==
    /\ count[c] > 0 /\ result[c] = 0
    /\ runStart[c] <= page[c] /\ page[c] <= runStart[c] + count[c]
    /\ 0 < runStart[c] /\ runStart[c] + count[c] <= FrameCount
    /\ \A f \in Frames : page[c] <= f /\ f < runStart[c] + count[c] => f \in FreeSet
    /\ \A s \in 0 .. runStart[c] - 1 :
         ~(Run(s, count[c]) \subseteq FreeSet \cup Run(runStart[c], count[c]))

ReturnInv(c) ==
    /\ result[c] # 0 => /\ result[c] = runStart[c] * PageSize /\ count[c] > 0
                        /\ runStart[c] + count[c] <= FrameCount
    /\ count[c] > 0 => VerdictOf(c)

FreeInv(c) == /\ start[c] % PageSize = 0
              /\ Run(start[c] \div PageSize, count[c]) \subseteq Frames

CallInv(c) ==
    /\ pc[c] = "scan" => ScanInv(c)
    /\ pc[c] = "mark" => MarkInv(c)
    /\ pc[c] = "alloc_unlock" => ReturnInv(c)
    /\ pc[c] \in {"free_lock", "clear"} => FreeInv(c)
    /\ pc[c] = "clear" => start[c] \div PageSize <= page[c] /\ page[c] <= EndPage(c)
    /\ pc[c] # "panic"

IInv == TypeOK /\ LockInv /\ BitmapExact /\ \A c \in Clients : CallInv(c)

\* The call of c as its caller sees it, until it returns.
RequestOf(c) ==
    IF pc[c] \in {"alloc_lock", "scan", "mark", "alloc_unlock"}
    THEN [op |-> "alloc", start |-> 0, count |-> count[c]]
    ELSE IF pc[c] \in {"free_lock", "clear", "free_unlock"}
    THEN [op |-> "free", start |-> start[c] \div PageSize, count |-> count[c]]
    ELSE [op |-> "none", start |-> 0, count |-> 0]
Request == [c \in Clients |-> RequestOf(c)]

Abstract == INSTANCE PageAllocator WITH request <- Request

\* Each call takes effect at one instant, with first fit, as PageAllocator
\* says: the loops over the bitmap are atomic to the other clients.
ImplementsPageAllocator == Abstract!Spec

\* Whoever is inside the section leaves it: its loops end.
SectionEnds == \A c \in Clients : lock = c ~> lock # c
==============================================================================
