-------------------------------- MODULE ACPI --------------------------------
(***************************************************************************)
(* Firmware::ACPI: the checks of Initialize, the search for the FADT and   *)
(* the DSDT, and GetTable.                                                 *)
(*                                                                         *)
(* The firmware's tables are [revision, sum, extendedSum, length, rsdt,    *)
(* xsdt], where a sum is that of the bytes a checksum is over, and rsdt    *)
(* and xsdt are [sum, length, pointers]; a pointer is the table that it    *)
(* points to, [sig, ...], and a FADT is [sig, length, dsdt, xDsdt]; xDsdt  *)
(* is Wild in one that ends before it.                                     *)
(***************************************************************************)
EXTENDS Integers, Sequences, FiniteSets

SizeOfSDTHeader == 36
SizeOfXSDP == 36
XDsdtEnd == 140 + 8
NullPointer == [sig |-> "null"]
Wild == [sig |-> "wild"]             \* what lies behind the pointers of a table

PointerSize(fw) == IF fw.revision > 0 THEN 8 ELSE 4
Root(fw) == IF fw.revision > 0 THEN fw.xsdt ELSE fw.rsdt

ValidateRSDP(fw) == fw.sum % 256 = 0
ValidateXSDP(fw) == ValidateRSDP(fw) /\ fw.length >= SizeOfXSDP /\ fw.extendedSum % 256 = 0
ValidateSDT(sdt) == sdt.length >= SizeOfSDTHeader /\ sdt.sum % 256 = 0

SamePointerSize(fw) ==               \* Mutant: always counts 32-bit pointers
    (Root(fw).length - SizeOfSDTHeader) \div 4

Entries(fw) == (Root(fw).length - SizeOfSDTHeader) \div PointerSize(fw)
Pointer(fw, i) == IF i \in DOMAIN Root(fw).pointers THEN Root(fw).pointers[i] ELSE Wild

\* The loops of FindFADT and of GetTable, which counts index down: the table
\* with the given signature after index others, or null.
Find(fw, sig, index) ==
    LET n == Entries(fw)
        left[i \in 0 .. n] ==               \* index after i pointers
            IF i = 0 THEN index
            ELSE IF Pointer(fw, i).sig = sig THEN left[i - 1] - 1 ELSE left[i - 1]
        hits == {i \in 1 .. n : Pointer(fw, i).sig = sig /\ left[i - 1] = 0}
    IN IF hits = {} THEN NullPointer ELSE Pointer(fw, CHOOSE i \in hits : TRUE)

FindFADT(fw) == Find(fw, "FACP", 0)

\* Lines 47-50: the 64-bit address if the table is long enough to have one
\* and it is set.
Dsdt(fadt) ==
    IF fadt.length >= XDsdtEnd /\ fadt.xDsdt # NullPointer THEN fadt.xDsdt ELSE fadt.dsdt

\* Lines 22-53: the reasons to panic.
InitializePanics(fw) ==
    \/ fw.revision > 0 /\ ~ValidateXSDP(fw)
    \/ ~ValidateSDT(Root(fw))
    \/ FindFADT(fw) = NullPointer
    \/ Dsdt(FindFADT(fw)) = NullPointer

\* GetTable(signature, index) after Initialize.  The four tables that are
\* kept are returned whatever the index; _rsdt is set for revision 0 only.
GetTable(fw, sig, index) ==
    CASE sig = "DSDT" -> Dsdt(FindFADT(fw))
      [] sig = "FACP" -> FindFADT(fw)
      [] sig = "RSDT" -> IF fw.revision > 0 THEN NullPointer ELSE [sig |-> "RSDT"]
      [] sig = "XSDT" -> IF fw.revision > 0 THEN [sig |-> "XSDT"] ELSE NullPointer
      [] OTHER -> Find(fw, sig, index)

\* What the firmware offers: the table of a signature that index others of
\* it precede in the root table that its revision names, or null.
Offered(fw, sig, index) ==
    LET pointers == IF fw.revision = 0 THEN fw.rsdt.pointers ELSE fw.xsdt.pointers
        tables == {i \in DOMAIN pointers : pointers[i].sig = sig}
        at == {i \in tables : Cardinality({j \in tables : j < i}) = index}
    IN IF at = {} THEN NullPointer ELSE pointers[CHOOSE i \in at : TRUE]

\* After Initialize has accepted the firmware's tables, GetTable finds the
\* table of a signature and an index exactly if the firmware offers it, and
\* follows no pointer behind the last one.
Finds(fw, sig, index, found) ==
    /\ Entries(fw) = Len(Root(fw).pointers)
    /\ CASE sig \in {"RSDT", "XSDT"} -> found.sig \in {sig, "null"}
         [] sig = "DSDT" -> LET fadt == Offered(fw, "FACP", 0)
                            IN found \in {fadt.dsdt, fadt.xDsdt} \ {NullPointer, Wild}
         [] sig = "FACP" -> found = Offered(fw, sig, 0) /\ found.sig = "FACP"
         [] OTHER -> found = Offered(fw, sig, index)
=============================================================================
