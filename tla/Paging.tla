------------------------------- MODULE Paging -------------------------------
(***************************************************************************)
(* Memory::Paging: MapPage, UnmapPage and GetPhysicalAddress on four-level *)
(* page tables, called from several CPUs on several address spaces         *)
(* (Paging::State) that share the frames of the physical memory manager.   *)
(* The memory of a frame keeps its contents when it is freed and when it   *)
(* is handed out again.                                                    *)
(*                                                                         *)
(* The code spells the levels out (pml4, pdp, pd, pt); here path[c] is the *)
(* sequence of the tables found so far.  AllocatePages(1) and FreePages    *)
(* are single steps, as module PhysicalMemoryManager shows them to be.     *)
(*                                                                         *)
(* The tables at the start are any that Initialize can leave.  They hold   *)
(* entries that lead to no table: the huge pages of the boot loader, which *)
(* the copy keeps, and what a copied PDP, which is not cleared, held       *)
(* before.  No walk tests for these; the model ends where one follows one. *)
(***************************************************************************)
EXTENDS Integers, Sequences, FiniteSets

CONSTANTS
    Cpus, Nobody,
    States,        \* the address spaces
    Frames,        \* the frames of the physical memory manager (never 0)
    Pml4,          \* Pml4[s]: the frame of state->pml4
    Boot,          \* Boot[f]: what frame f holds at the start
    Level,         \* Level[f]: 1 for a PML4 .. 4 for a PT, 0 for a free frame
    Owner,         \* Owner[f]: the address space of such a table
    Index,         \* the entries of a table
    KernelIndex,   \* the PML4 entries of the higher half (256 .. 511)
    VAddrs,        \* pages, as <<pml4Index, pdpIndex, pdIndex, ptIndex>>
    PhysPages,     \* physical pages that are mapped
    Absent,        \* an entry that is zero
    Junk,          \* an entry with the Present flag that leads to no table
    Stale          \* an entry without it that is not zero

Wild == {Junk, Stale}
Values == Frames \cup PhysPages \cup Wild \cup {Absent}

Dir(lvl, f) == lvl[f] \in 1 .. 3            \* f is a table of tables

\* links[f][i] is what entry i of frame f leads to.  The frames that are used
\* are tables at the levels lvl of the address spaces own.  An entry that
\* leads nowhere has been there from the start.
Tree(links, lvl, own, unused) ==
    /\ links \in [Frames -> [Index -> Values]]
    /\ lvl \in [Frames -> 0 .. 4] /\ own \in [Frames -> States]
    /\ \A f \in Frames : lvl[f] = 0 <=> f \in unused
    /\ \A s \in States : lvl[Pml4[s]] = 1 /\ own[Pml4[s]] = s
    /\ \A f \in Frames : lvl[f] = 1 => f = Pml4[own[f]]
    /\ \A f \in Frames, i \in Index :
         /\ Dir(lvl, f) /\ links[f][i] \in Wild => Level[f] # 0 /\ links[f][i] = Boot[f][i]
         /\ Dir(lvl, f) /\ links[f][i] \notin Wild \cup {Absent} =>
              links[f][i] \in Frames /\ lvl[links[f][i]] = lvl[f] + 1 /\ own[links[f][i]] = own[f]
         /\ lvl[f] = 4 => links[f][i] \in PhysPages \cup {Absent}
    /\ \A f \in Frames : lvl[f] > 1 =>
         \E g \in Frames, i \in Index : lvl[g] = lvl[f] - 1 /\ links[g][i] = f
    /\ \A f, g \in Frames, i, j \in Index :
         Dir(lvl, f) /\ Dir(lvl, g) /\ links[f][i] \in Frames /\ links[f][i] = links[g][j] =>
             f = g /\ i = j
    /\ \A s \in States, i \in KernelIndex : links[Pml4[s]][i] = Boot[Pml4[s]][i]

ASSUME PagingAssumption ==
    /\ VAddrs \subseteq Index \X Index \X Index \X Index
    /\ KernelIndex \subseteq Index
    /\ Frames \subseteq Nat \ {0} /\ Nobody \notin Cpus \cup Frames
    /\ States # {}                       \* the kernel's own, at least
    /\ \A s \in States : Pml4[s] \in Frames
    /\ Absent \notin Frames \cup PhysPages \cup Wild
    /\ Junk # Stale /\ Wild \cap (Frames \cup PhysPages) = {}

\* Initialize gives every table a frame of its own from AllocatePages, and
\* every entry of the higher half a PDP; the tables below are copies.
ASSUME BootAssumption ==
    /\ Tree(Boot, Level, Owner, {f \in Frames : Level[f] = 0})
    /\ \A s \in States, i \in KernelIndex : Boot[Pml4[s]][i] \in Frames

VARIABLES
    lock,     \* lock[s]: the CPU inside the section of state->lock
    free,     \* the frames that the physical memory manager can hand out
    mem,      \* mem[f][i]: entry i of frame f read as a table
    pc,       \* pc[c]: where CPU c is in its call
    call,     \* call[c]: the arguments of its call
    path,     \* path[c]: the tables found on the way down, from the PML4
    new,      \* new[c]: the frame AllocatePages gave it for a missing table
    answer    \* answer[c]: what its GetPhysicalAddress returns

vars == <<lock, free, mem, pc, call, path, new, answer>>

NoCall == <<>>
Top(c) == path[c][Len(path[c])]             \* the last table found
Slot(c) == call[c].va[Len(path[c])]         \* the index to look up in it
Entry(c) == mem[Top(c)][Slot(c)]
IsLeaf(c) == Len(path[c]) = 4
Present(e) == e \notin {Absent, Stale}
Empty == [i \in Index |-> Absent]
IsTableEmpty(f) == \A i \in Index : ~Present(mem[f][i])

Init ==
    /\ lock = [s \in States |-> Nobody]
    /\ free = {f \in Frames : Level[f] = 0}
    /\ mem = Boot
    /\ pc = [c \in Cpus |-> "idle"]
    /\ call = [c \in Cpus |-> NoCall]
    /\ path = [c \in Cpus |-> <<>>]
    /\ new = [c \in Cpus |-> Nobody]
    /\ answer = [c \in Cpus |-> Nobody]

Goto(c, label) == pc' = [pc EXCEPT ![c] = label]

Panic(c) == /\ Goto(c, "panic")             \* halts with the lock held
            /\ UNCHANGED <<lock, free, mem, call, path, new, answer>>

(***************************************************************************)
(* MapPage(state, virtualAddress, physicalAddress, flags).                 *)
(***************************************************************************)
MapMisaligned(c) ==                         \* PANIC before the lock is taken
    /\ pc[c] = "idle"
    /\ Goto(c, "halted")
    /\ UNCHANGED <<lock, free, mem, call, path, new, answer>>

MapPage(c, s, v, p) ==                      \* both addresses are page-aligned
    /\ pc[c] = "idle"
    /\ call' = [call EXCEPT ![c] = [state |-> s, va |-> v, pa |-> p]]
    /\ Goto(c, "map_lock")
    /\ UNCHANGED <<lock, free, mem, path, new, answer>>

Enter(c, label) ==                          \* ScopedLock lock(state->lock, true)
    /\ lock[call[c].state] = Nobody
    /\ lock' = [lock EXCEPT ![call[c].state] = c]
    /\ path' = [path EXCEPT ![c] = <<Pml4[call[c].state]>>]
    /\ Goto(c, label)
    /\ UNCHANGED <<free, mem, call, new, answer>>

MapLock(c) == pc[c] = "map_lock" /\ Enter(c, "map_walk")

Descend(c) ==
    /\ ~IsLeaf(c)
    /\ path' = [path EXCEPT ![c] = Append(@, Entry(c))]
    /\ UNCHANGED <<lock, free, mem, pc, call, new, answer>>

\* On its way down MapPage asks of an entry whether it is zero, the others
\* whether it is Present.
MapDescend(c) == pc[c] = "map_walk" /\ Entry(c) # Absent /\ Descend(c)

MapAllocate(c) ==
    /\ pc[c] = "map_walk" /\ ~IsLeaf(c) /\ Entry(c) = Absent
    /\ free # {}
    /\ LET f == CHOOSE g \in free : \A h \in free : g <= h      \* first fit
       IN new' = [new EXCEPT ![c] = f] /\ free' = free \ {f}
    /\ Goto(c, "map_clear")
    /\ UNCHANGED <<lock, mem, call, path, answer>>

MapNoMemory(c) ==
    /\ pc[c] = "map_walk" /\ ~IsLeaf(c) /\ Entry(c) = Absent
    /\ free = {}
    /\ Panic(c)

MapNoClear(c) ==                            \* Mutant: the memset is left out
    /\ pc[c] = "map_clear"
    /\ Goto(c, "map_link")
    /\ UNCHANGED <<lock, free, mem, call, path, new, answer>>

MapClear(c) ==                              \* __builtin_memset(newTable, 0)
    /\ pc[c] = "map_clear"
    /\ mem' = [mem EXCEPT ![new[c]] = Empty]
    /\ Goto(c, "map_link")
    /\ UNCHANGED <<lock, free, call, path, new, answer>>

MapLink(c) ==
    /\ pc[c] = "map_link"
    /\ mem' = [mem EXCEPT ![Top(c)][Slot(c)] = new[c]]
    /\ new' = [new EXCEPT ![c] = Nobody]
    /\ Goto(c, "map_walk")
    /\ UNCHANGED <<lock, free, call, path, answer>>

MapMapped(c) ==                             \* "Virtual address is already mapped"
    /\ pc[c] = "map_walk" /\ IsLeaf(c) /\ Present(Entry(c))
    /\ Panic(c)

MapWrite(c) ==
    /\ pc[c] = "map_walk" /\ IsLeaf(c) /\ ~Present(Entry(c))
    /\ mem' = [mem EXCEPT ![Top(c)][Slot(c)] = call[c].pa]
    /\ Goto(c, "unlock")
    /\ UNCHANGED <<lock, free, call, path, new, answer>>

(***************************************************************************)
(* UnmapPage(state, virtualAddress).                                       *)
(***************************************************************************)
UnmapPage(c, s, v) ==
    /\ pc[c] = "idle"
    /\ call' = [call EXCEPT ![c] = [state |-> s, va |-> v]]
    /\ Goto(c, "unmap_lock")
    /\ UNCHANGED <<lock, free, mem, path, new, answer>>

UnmapLock(c) == pc[c] = "unmap_lock" /\ Enter(c, "unmap_walk")

UnmapDescend(c) == pc[c] = "unmap_walk" /\ Present(Entry(c)) /\ Descend(c)

UnmapUnmapped(c) ==                         \* not present at some level
    /\ pc[c] = "unmap_walk" /\ ~Present(Entry(c))
    /\ Panic(c)

UnmapClear(c) ==
    /\ pc[c] = "unmap_walk" /\ IsLeaf(c) /\ Present(Entry(c))
    /\ mem' = [mem EXCEPT ![Top(c)][Slot(c)] = Absent]
    /\ Goto(c, "prune")
    /\ UNCHANGED <<lock, free, call, path, new, answer>>

PrunableOnlyPt(c) ==                        \* Mutant: the upper levels are kept
    Len(path[c]) = 4 /\ IsTableEmpty(Top(c))

\* A table that has become empty is freed, a PDP only in the lower half.
Prunable(c) ==
    /\ Len(path[c]) > 1
    /\ IsTableEmpty(Top(c))
    /\ Len(path[c]) = 2 => call[c].va[1] \notin KernelIndex

PruneFree(c) ==                             \* _pmm.FreePages(table, 1)
    /\ pc[c] = "prune" /\ Prunable(c)
    /\ free' = free \cup {Top(c)}
    /\ Goto(c, "unlink")
    /\ UNCHANGED <<lock, mem, call, path, new, answer>>

PruneUnlink(c) ==                           \* the parent's entry, afterwards
    /\ pc[c] = "unlink"
    /\ LET up == Len(path[c]) - 1
       IN /\ mem' = [mem EXCEPT ![path[c][up]][call[c].va[up]] = Absent]
          /\ path' = [path EXCEPT ![c] = SubSeq(@, 1, up)]
    /\ Goto(c, "prune")
    /\ UNCHANGED <<lock, free, call, new, answer>>

PruneStop(c) ==
    /\ pc[c] = "prune" /\ ~Prunable(c)
    /\ Goto(c, "unlock")
    /\ UNCHANGED <<lock, free, mem, call, path, new, answer>>

(***************************************************************************)
(* GetPhysicalAddress(state, virtualAddress), and IsMapped, which compares *)
(* its result with 0.                                                      *)
(***************************************************************************)
GetPhysicalAddress(c, s, v) ==
    /\ pc[c] = "idle"
    /\ call' = [call EXCEPT ![c] = [state |-> s, va |-> v]]
    /\ Goto(c, "get_lock")
    /\ UNCHANGED <<lock, free, mem, path, new, answer>>

GetUnlocked(c) ==                           \* Mutant: walks without the lock
    /\ pc[c] = "get_lock"
    /\ path' = [path EXCEPT ![c] = <<Pml4[call[c].state]>>]
    /\ Goto(c, "get_walk")
    /\ UNCHANGED <<lock, free, mem, call, new, answer>>

GetLock(c) == pc[c] = "get_lock" /\ Enter(c, "get_walk")

GetDescend(c) == pc[c] = "get_walk" /\ Present(Entry(c)) /\ Descend(c)

GetFound(c) ==                              \* the leaf, or a level not present
    /\ pc[c] = "get_walk"
    /\ IsLeaf(c) \/ ~Present(Entry(c))
    /\ answer' = [answer EXCEPT ![c] = IF Present(Entry(c)) THEN Entry(c) ELSE Absent]
    /\ Goto(c, "unlock")
    /\ UNCHANGED <<lock, free, mem, call, path, new>>

Unlock(c) ==                                \* ~ScopedLock and return
    /\ pc[c] = "unlock"
    /\ lock' = [lock EXCEPT ![call[c].state] = Nobody]
    /\ call' = [call EXCEPT ![c] = NoCall]
    /\ path' = [path EXCEPT ![c] = <<>>]
    /\ answer' = [answer EXCEPT ![c] = Nobody]
    /\ Goto(c, "idle")
    /\ UNCHANGED <<free, mem, new>>

Step(c) == \/ MapLock(c) \/ MapDescend(c) \/ MapAllocate(c) \/ MapNoMemory(c)
           \/ MapClear(c) \/ MapLink(c) \/ MapMapped(c) \/ MapWrite(c)
           \/ UnmapLock(c) \/ UnmapDescend(c) \/ UnmapUnmapped(c) \/ UnmapClear(c)
           \/ PruneFree(c) \/ PruneUnlink(c) \/ PruneStop(c)
           \/ GetLock(c) \/ GetDescend(c) \/ GetFound(c) \/ Unlock(c)

\* The walk of c is about to take an entry that leads to no table for one.
\* What the code reads and writes from there on is not known.
Astray(c) ==
    /\ pc[c] \in {"map_walk", "unmap_walk", "get_walk"}
    /\ ~IsLeaf(c) /\ Entry(c) \in Wild
    /\ pc[c] # "map_walk" => Present(Entry(c))

Next == /\ \A c \in Cpus : ~Astray(c)
        /\ \E c \in Cpus :
            \/ MapMisaligned(c)
            \/ \E s \in States, v \in VAddrs, p \in PhysPages : MapPage(c, s, v, p)
            \/ \E s \in States, v \in VAddrs : UnmapPage(c, s, v) \/ GetPhysicalAddress(c, s, v)
            \/ Step(c)

Spec == Init /\ [][Next]_vars

(***************************************************************************)
(* Properties.                                                             *)
(***************************************************************************)
\* UnmapPage frees a table before it clears the parent's entry, and for that
\* instant the frame may already be a table of another address space.  Link
\* reads an entry as it will be once the clearing that is under way is done.
Unlinking(f, i) == \E c \in Cpus : LET up == Len(path[c]) - 1 IN
                        pc[c] = "unlink" /\ path[c][up] = f /\ call[c].va[up] = i
Link(f, i) == IF Unlinking(f, i) THEN Absent ELSE mem[f][i]

\* The tables of s at each level of its tree, from the PML4 down.
Children(tables) ==
    {Link(f, i) : f \in tables \cap Frames, i \in Index} \ (Wild \cup {Absent})
Pdps(s) == Children({Pml4[s]})
Pds(s) == Children(Pdps(s))
Pts(s) == Children(Pds(s))
Tables(s) == {Pml4[s]} \cup Pdps(s) \cup Pds(s) \cup Pts(s)

\* The tables are trees, however the calls interleave: nothing but frames of
\* the physical memory manager is linked, although it may return 0; each
\* table has one parent entry, one address space and is not free.  And no
\* call leaves an entry that leads nowhere: those are the ones that tables of
\* Initialize had from the start, never what a frame held in a former use.
TablesSound ==
    LET dirs(s) == {Pml4[s]} \cup Pdps(s) \cup Pds(s)
        links == UNION {dirs(s) \X Index : s \in States}
    IN /\ \A s \in States :
            /\ Tables(s) \subseteq Frames \ free
            /\ \A f \in Tables(s), i \in Index :
                 mem[f][i] \in Wild => Level[f] # 0 /\ mem[f][i] = Boot[f][i]
       /\ \A s, t \in States : s # t => Tables(s) \cap Tables(t) = {}
       /\ \A k, l \in links :
            k # l /\ Link(k[1], k[2]) \in Frames => Link(k[1], k[2]) # Link(l[1], l[2])

\* No frame is lost: every one is free, a table, or about to become one.  And
\* none is wasted: an address space that is not locked has no empty table but
\* the PML4, the PDPs of the higher half and what Initialize left empty.  The
\* entries of the higher half stay what Initialize made them: "Do not free
\* kernel page tables." (Paging.cpp:122).
EmptyAtBoot(f) == Level[f] # 0 /\ \A i \in Index : ~Present(Boot[f][i])

FramesAccounted ==
    /\ Frames \subseteq free \cup (UNION {Tables(s) : s \in States})
                            \cup {new[c] : c \in {d \in Cpus : new[d] # Nobody}}
    /\ \A s \in States : lock[s] = Nobody =>
         \A f \in Tables(s) : IsTableEmpty(f) =>
             f = Pml4[s] \/ EmptyAtBoot(f) \/ \E i \in KernelIndex : f = mem[Pml4[s]][i]
    /\ \A s \in States, i \in KernelIndex :
         mem[Pml4[s]][i] = Boot[Pml4[s]][i] /\ Boot[Pml4[s]][i] \notin free

\* What a page walk finds for v, read through Link; Junk for a page that lies
\* behind such an entry.
Below(f, i) == IF f \in Frames THEN Link(f, i) ELSE IF f = Junk THEN Junk ELSE Absent
Walk(s, v) == Below(Below(Below(Below(Pml4[s], v[1]), v[2]), v[3]), v[4])

RequestOf(c) ==
    IF pc[c] \in {"map_lock", "map_walk", "map_clear", "map_link"}
    THEN [op |-> "map", state |-> call[c].state, va |-> call[c].va, pa |-> call[c].pa]
    ELSE IF pc[c] \in {"unmap_lock", "unmap_walk"}
    THEN [op |-> "unmap", state |-> call[c].state, va |-> call[c].va]
    ELSE IF pc[c] \in {"get_lock", "get_walk"}
    THEN [op |-> "get", state |-> call[c].state, va |-> call[c].va]
    ELSE [op |-> "none"]

Translation == [s \in States |-> [v \in VAddrs |-> Walk(s, v)]]
Request == [c \in Cpus |-> RequestOf(c)]

Abstract == INSTANCE AddressSpace WITH
                mapping <- Translation, request <- Request, spare <- (free # {}),
                Unmapped <- Absent, Foreign <- Junk, NoAnswer <- Nobody

\* Under any interleaving of calls on any address spaces, the tables define
\* a mapping that each call changes in one step, as it was asked to and for
\* its own page only, and that a lookup reads as of one instant.  MapPage
\* panics only for a page that is mapped, a misaligned address or when no
\* frame is left, UnmapPage only for a page that is not mapped.
ImplementsAddressSpace == Abstract!Spec
=============================================================================
