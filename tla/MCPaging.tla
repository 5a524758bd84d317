------------------------------ MODULE MCPaging ------------------------------
(***************************************************************************)
(* Two address spaces with tables of two entries, the upper one for the    *)
(* kernel half.  The kernel starts with what the boot loader mapped, a     *)
(* small page and a huge one in the same page directory, and with a PDP of *)
(* the lower half that was not cleared.  The pages share a page directory, *)
(* a PDP or nothing; in the kernel's tables two of them lie behind an      *)
(* entry that leads to no table.  Few frames are left for tables, so that  *)
(* they are reused and run out.                                            *)
(***************************************************************************)
EXTENDS Paging, TLC

CONSTANTS kernel, user

Pages == {<<0, 1, 0, 0>>, <<1, 0, 0, 0>>, <<1, 0, 1, 0>>}

Pml4s == (kernel :> 1) @@ (user :> 6)

Table(lower, upper) == (0 :> lower) @@ (1 :> upper)
BootTables ==
    << Table(2, 3),                         \* the kernel's PML4
       Table(Absent, Stale),                \* the PDP of the lower half
       Table(4, Absent), Table(5, Junk), Table(20, Absent),
       Table(Absent, 7), Table(Absent, Absent),     \* the user's PML4 and PDP
       Table(Junk, Junk), Table(Junk, Junk) >>
Levels == <<1, 2, 2, 3, 4, 1, 2, 0, 0>>
Owners == [f \in Frames |-> IF f \in {6, 7} THEN user ELSE kernel]

CpuSymmetry == Permutations(Cpus)
=============================================================================
