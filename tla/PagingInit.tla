----------------------------- MODULE PagingInit -----------------------------
(***************************************************************************)
(* Paging::Initialize up to the switch: the deep copy of the boot loader's *)
(* page tables and the PDPs of the higher half; and the search for free    *)
(* virtual pages in the result.  Physical memory is a function from frames *)
(* to tables; a frame outside its domain holds no entries.  Frame 0 is     *)
(* what AllocatePages returns when there is none left, and it is memory.   *)
(***************************************************************************)
EXTENDS Integers, Sequences, FiniteSets, SequencesExt

CONSTANTS
    PML4Size,      \* entries of a PML4 (512); the upper half is the kernel's
    TableSize      \* entries of the other tables (512)

ASSUME PagingInitAssumption ==
    /\ PML4Size \in Nat \ {0} /\ PML4Size % 2 = 0
    /\ TableSize \in 2 .. PML4Size          \* a frame has room for either

Slots == 0 .. PML4Size - 1
KernelSlots == PML4Size \div 2 .. PML4Size - 1
Index == 0 .. TableSize - 1
InOrder(a, b) == [k \in 1 .. b - a + 1 |-> a + k - 1]

\* The flags but Present and HugePage, which have fields of their own.
Flags == {"ReadWrite", "User", "WriteThrough", "CacheDisable", "Accessed", "Dirty", "Global",
          "NoExecute"}
PageEntries == [present : BOOLEAN, huge : BOOLEAN, to : Nat, flags : SUBSET Flags]
NoEntry == [present |-> FALSE, huge |-> FALSE, to |-> 0, flags |-> {}]
PresentReadWrite(f) == [present |-> TRUE, huge |-> FALSE, to |-> f, flags |-> {"ReadWrite"}]
EntryOf(mem, frame, i) ==
    IF frame \in DOMAIN mem /\ i \in DOMAIN mem[frame] THEN mem[frame][i] ELSE NoEntry

(***************************************************************************)
(* The work in progress: [mem, free, root, panic], where free holds the    *)
(* frames that AllocatePages will give.                                    *)
(***************************************************************************)
Frame(s) == IF s.free = <<>> THEN 0 ELSE Head(s.free)    \* AllocatePages(1) ...
Taken(s) == [s EXCEPT !.free = IF @ = <<>> THEN @ ELSE Tail(@)]      \* ... and after
Write(s, frame, i, e) == [s EXCEPT !.mem = [@ EXCEPT ![frame][i] = e]]
Memset(s, frame) == [s EXCEPT !.mem = [@ EXCEPT ![frame] = [i \in Slots |-> NoEntry]]]

HugeMissed(level, e) == level = 1            \* Mutant: huge pages not recognised

IsLeaf(level, e) == level = 1 \/ e.huge

\* DeepCopyPageTables(level, src, dst), where Deeper is the call one level
\* down: an iteration of its loop, and the loop.
CopyEntry(level, Deeper(_, _, _), src, dst, s, i) ==
    LET e == EntryOf(s.mem, src, i)
        new == Frame(s)                      \* not compared with 0
    IN CASE ~e.present -> s
         [] e.present /\ IsLeaf(level, e) -> Write(s, dst, i, e)
         [] OTHER -> Deeper(e.to, new,
                       Write(Memset(Taken(s), new), dst, i, [e EXCEPT !.to = new]))
DeepCopyLevel(level, Deeper(_, _, _), src, dst, st) ==
    LET copied[i \in 0 .. TableSize] ==
            IF i = 0 THEN st ELSE CopyEntry(level, Deeper, src, dst, copied[i - 1], i - 1)
    IN copied[TableSize]
NoDeeper(src, dst, st) == st
CopyPT(src, dst, st) == DeepCopyLevel(1, NoDeeper, src, dst, st)
CopyPD(src, dst, st) == DeepCopyLevel(2, CopyPT, src, dst, st)
CopyPDP(src, dst, st) == DeepCopyLevel(3, CopyPD, src, dst, st)

\* For each entry of the boot loader's PML4: a PDP, which is not cleared.
CopySlot(cr3, s, i) ==
    LET e == EntryOf(s.mem, cr3, i)
        new == Frame(s)
    IN CASE s.panic \/ ~e.present -> s
         [] ~s.panic /\ e.present /\ new = 0 -> [s EXCEPT !.panic = TRUE]
         [] OTHER -> Write(CopyPDP(e.to, new, Taken(s)), s.root, i, [e EXCEPT !.to = new])
CopyExistingPageTableToNew(cr3, st) ==
    LET copied[i \in 0 .. PML4Size] ==
            IF i = 0 THEN st ELSE CopySlot(cr3, copied[i - 1], i - 1)
    IN copied[PML4Size]

ReserveSlot(s, i) ==
    LET new == Frame(s)
    IN CASE s.panic \/ EntryOf(s.mem, s.root, i).present -> s
         [] ~s.panic /\ ~EntryOf(s.mem, s.root, i).present /\ new = 0 -> [s EXCEPT !.panic = TRUE]
         [] OTHER -> Write(Memset(Taken(s), new), s.root, i, PresentReadWrite(new))
ReserveHigherHalfPML4Slots(st) ==
    LET half == PML4Size \div 2
        filled[i \in 0 .. half] ==
            IF i = 0 THEN st ELSE ReserveSlot(filled[i - 1], half + i - 1)
    IN filled[half]

PagingInitialize(mem, cr3, free) ==
    LET s == [mem |-> mem, free |-> free, root |-> 0, panic |-> FALSE]
        pml4 == Frame(s)
    IN IF pml4 = 0 THEN [s EXCEPT !.panic = TRUE]
       ELSE ReserveHigherHalfPML4Slots(
              CopyExistingPageTableToNew(cr3, [Memset(Taken(s), pml4) EXCEPT !.root = pml4]))

(***************************************************************************)
(* GetPhysicalAddress for the address with the given table indices.  A     *)
(* huge page is taken for a table.                                         *)
(***************************************************************************)
GetPhysicalAddress(mem, root, path) ==
    LET pdp == EntryOf(mem, root, path[1])
        pd == EntryOf(mem, pdp.to, path[2])
        pt == EntryOf(mem, pd.to, path[3])
        page == EntryOf(mem, pt.to, path[4])
    IN IF pdp.present /\ pd.present /\ pt.present /\ page.present THEN page.to ELSE 0
IsMapped(mem, root, path) == GetPhysicalAddress(mem, root, path) # 0

\* The kernel's window, from 0xFFFFFFFF80000000 on, is what the last two
\* entries of the last PDP map, by page; the last page is left out (end is
\* 0xFFFFFFFFFFFFF000, and exclusive).
Window == {TableSize - 2, TableSize - 1}
PathOf(page) == <<PML4Size - 1, TableSize - 2 + page \div (TableSize * TableSize),
                  (page \div TableSize) % TableSize, page % TableSize>>
LastPage == 2 * (TableSize * TableSize) - 1

FindNoReset(mem, root, count) ==   \* Mutant: a mapped page does not reset foundPages
    LET unmapped == {page \in 0 .. LastPage - 1 : ~IsMapped(mem, root, PathOf(page))}
        full == {page \in unmapped : Cardinality({q \in unmapped : q <= page}) = count}
    IN IF full = {} THEN -1 ELSE (CHOOSE page \in full : TRUE) - (count - 1)

\* FindAvailableVirtualAddressRangeKernel(count): the first page of the
\* range, or -1 for the panic at the end.
FindAvailable(mem, root, count) ==
    LET foundPages[page \in -1 .. LastPage - 1] ==
            CASE page = -1 -> 0
              [] page >= 0 /\ IsMapped(mem, root, PathOf(page)) -> 0
              [] OTHER -> foundPages[page - 1] + 1
        full == {page \in 0 .. LastPage - 1 : foundPages[page] = count}
    IN IF full = {} THEN -1
       ELSE (CHOOSE page \in full : \A q \in full : page <= q) - (count - 1)

(***************************************************************************)
(* How the processor translates (external): huge pages in PDPs and PDs.    *)
(* The answer is the page, the offset below it and the flags on the way.   *)
(***************************************************************************)
Paths == Slots \X Index \X Index \X Index
Translate(mem, root, path) ==
    LET pdp == EntryOf(mem, root, path[1])
        pd == EntryOf(mem, pdp.to, path[2])
        pt == EntryOf(mem, pd.to, path[3])
        page == EntryOf(mem, pt.to, path[4])
    IN CASE ~pdp.present \/ ~pd.present -> <<>>
         [] pdp.present /\ pd.present /\ pd.huge ->
              <<pd.to, <<path[3], path[4]>>, <<pdp.flags, pd.flags>>>>
         [] pdp.present /\ pd.present /\ ~pd.huge /\ ~pt.present -> <<>>
         [] pdp.present /\ pd.present /\ ~pd.huge /\ pt.present /\ pt.huge ->
              <<pt.to, <<path[4]>>, <<pdp.flags, pd.flags, pt.flags>>>>
         [] OTHER -> IF page.present
                     THEN <<page.to, <<>>, <<pdp.flags, pd.flags, pt.flags, page.flags>>>>
                     ELSE <<>>

(***************************************************************************)
(* What the boot loader leaves (external): memory in which frames 0 to n   *)
(* hold no table of its own, and the kernel's window mapped by small pages *)
(* only, none of them to frame 0.                                          *)
(***************************************************************************)
Linked(e) == e.present /\ ~e.huge
Memory(mem, n) == /\ n \in Nat /\ 0 .. n \subseteq DOMAIN mem
                  /\ mem \in [DOMAIN mem -> [Slots -> PageEntries]]
SourcePD(mem, n, src) ==
    /\ src \notin 0 .. n
    /\ \A i \in Index : Linked(EntryOf(mem, src, i)) => EntryOf(mem, src, i).to \notin 0 .. n
SourcePDP(mem, n, src) ==
    /\ src \notin 0 .. n
    /\ \A i \in Index : Linked(EntryOf(mem, src, i)) => SourcePD(mem, n, EntryOf(mem, src, i).to)
SourcePML4(mem, n, cr3) ==
    /\ cr3 \notin 0 .. n
    /\ \A i \in Slots : EntryOf(mem, cr3, i).present => SourcePDP(mem, n, EntryOf(mem, cr3, i).to)
SmallPages(mem, cr3) ==
    \A j \in Window, k, l \in Index :
        LET pdp == EntryOf(mem, cr3, PML4Size - 1)
            pd == EntryOf(mem, pdp.to, j)
            pt == EntryOf(mem, pd.to, k)
            page == EntryOf(mem, pt.to, l)
        IN pdp.present /\ pd.present =>
             ~pd.huge /\ (pt.present => ~pt.huge /\ (page.present => page.to # 0))

\* The entry through which a PDP that was not cleared shows what the frame
\* held before: absent in the boot loader's PDP.
Uncopied(mem, cr3, path) ==
    LET pdp == EntryOf(mem, cr3, path[1])
    IN pdp.present /\ ~EntryOf(mem, pdp.to, path[2]).present

\* The new tables translate as the boot loader's did, except where a PDP
\* kept what its frame held; each kernel slot has a PDP; and every table is
\* a frame of its own that AllocatePages gave, so that it is not frame 0.
Copied(mem, cr3, free, r) ==
    LET dirty == {p \in Paths : Uncopied(mem, cr3, p)}
        pdps == {<<r.root, i>> : i \in Slots}
        Below(links) ==
            UNION {{<<EntryOf(r.mem, l[1], l[2]).to, i>> : i \in Index} :
                     l \in {k \in links : LET e == EntryOf(r.mem, k[1], k[2])
                                          IN e.present /\ ~e.huge}}
        kept == UNION {{<<EntryOf(r.mem, r.root, p[1]).to, p[2]>>} : p \in dirty}
        pds == Below(pdps) \ kept
        links == pdps \cup pds \cup Below(pds)
        tables == {l \in links : LET e == EntryOf(r.mem, l[1], l[2])
                                 IN e.present /\ ~e.huge}
    IN /\ \A p \in Paths \ dirty : Translate(r.mem, r.root, p) = Translate(mem, cr3, p)
       /\ \A i \in KernelSlots : EntryOf(r.mem, r.root, i).present
       /\ \A l \in tables : EntryOf(r.mem, l[1], l[2]).to \in ToSet(free) \ {r.root}
       /\ \A k, l \in tables : EntryOf(r.mem, k[1], k[2]).to = EntryOf(r.mem, l[1], l[2]).to => k = l

\* The range found is the first run of pages that the processor does not
\* translate, and there is none exactly if there is no such run.
FirstUntranslated(mem, root, count, start) ==
    LET unmapped == {page \in 0 .. LastPage - 1 : Translate(mem, root, PathOf(page)) = <<>>}
        runs == {page \in unmapped : page .. page + count - 1 \subseteq unmapped}
    IN IF start = -1 THEN runs = {} ELSE start \in runs /\ \A q \in runs : start <= q
=============================================================================
