------------------------------- MODULE IOAPIC -------------------------------
(***************************************************************************)
(* Interrupts::IOAPIC and IOAPICManager: the IOAPICs and the routes of the *)
(* ISA interrupts that the MADT names, and the redirection tables behind   *)
(* an index register and a data window, masked by Initialize, and set by   *)
(* SetRedirectionEntry on the IOAPIC that owns a GSI.  The accesses to the *)
(* window are steps.  Both are done under the IOAPIC's lock, but the two   *)
(* halves of an entry are written in two sections of that lock.            *)
(*                                                                         *)
(* A register is <<index, half>> (regLow is 0x10 + 2 * index, regHigh one  *)
(* more); it holds <<entry, half>>: which half of which entry was written  *)
(* to it last.                                                             *)
(***************************************************************************)
EXTENDS Naturals, Sequences, FiniteSets

CONSTANTS
    Cpus, Nobody,
    Madts,         \* the entries of the firmware's MADT, as sequences
    Irqs,          \* the ISA interrupts, 0 .. 15
    MaxIOAPICs,    \* Architecture::MaxIOAPICs
    Entries,       \* [name, masked]: the entries that callers ask for
    Masked,        \* the entry RedirectionFlags::Masked
    Firmware       \* what the firmware left in the tables

ASSUME IOAPICAssumption ==
    /\ \A m \in Madts : Len(m) \in Nat /\ DOMAIN m = 1 .. Len(m)
    /\ \A m \in Madts : \A k \in DOMAIN m :     \* register 0x10 + 2 * index is one byte
         /\ m[k].type = "IOAPIC" => m[k].base \in Nat /\ m[k].size \in 1 .. 120
         /\ m[k].type = "IRQSrcOverride" => m[k].source \in Nat /\ m[k].gsi \in Nat
    /\ Irqs \subseteq Nat /\ MaxIOAPICs \in Nat \ {0}
    /\ \A e \in Entries \cup {Masked, Firmware} : e.masked \in BOOLEAN
    /\ Masked.masked /\ Firmware \notin Entries \cup {Masked}
    /\ Nobody \notin Cpus

VARIABLES
    madt,         \* the table that GetTable("APIC", 0) finds
    irqToGsi,     \* _irqToGsi, or <<>> before Initialize
    ioApicCount,  \* _ioApicCount
    lock,         \* lock[a]: the CPU inside WriteRegister
    window,       \* window[a]: the register that _mmioBase[0] selects
    reg,          \* reg[a][r]: the contents of register r
    next,         \* next[a]: the loop variable of IOAPIC::Initialize
    pc,           \* pc[c]: where c is in WriteRegister
    call,         \* call[c]: the entry that c is setting
    half,         \* half[c]: the half that it is writing
    asked         \* <<irq, entry>> that callers asked for (only observed)

found == <<madt, irqToGsi, ioApicCount>>
vars == <<found, lock, window, reg, next, pc, call, half, asked>>

(***************************************************************************)
(* Firmware::ACPI on the MADT.                                             *)
(***************************************************************************)
OfType(type) == {k \in DOMAIN madt : madt[k].type = type}
FindMADTEntryCount(type) == Cardinality(OfType(type))

Before(type, k) == Cardinality({j \in OfType(type) : j < k})

FindMADTEntryFirst(type, index) ==  \* Mutant: index is not counted down
    madt[CHOOSE k \in OfType(type) : Before(type, k) = 0]

FindMADTEntry(type, index) ==       \* used with index < FindMADTEntryCount(type)
    madt[CHOOSE k \in OfType(type) : Before(type, k) = index]

Apics == 1 .. MaxIOAPICs            \* _ioApic[a - 1]
GsiBase(a) == FindMADTEntry("IOAPIC", a - 1).base
Redirections(a) == FindMADTEntry("IOAPIC", a - 1).size     \* its version register
Index(a) == 0 .. Redirections(a) - 1
Halves == {"high", "low"}
NoCall == <<>>
Setting(c, a, i) == call[c] # NoCall /\ call[c].apic = a /\ call[c].index = i
Discovered == irqToGsi # <<>>
Initialized(a) == next[a] = Redirections(a)
Ready == Discovered /\ \A a \in 1 .. ioApicCount : Initialized(a)

Init ==
    /\ madt \in Madts
    /\ irqToGsi = <<>> /\ ioApicCount = 0
    /\ lock = [a \in Apics |-> Nobody]
    /\ window = [a \in Apics |-> <<0, "low">>]
    /\ reg = [a \in 1 .. FindMADTEntryCount("IOAPIC") |->
                [r \in Index(a) \X Halves |-> <<Firmware, r[2]>>]]
    /\ next = [a \in Apics |-> 0]
    /\ pc = [c \in Cpus |-> "idle"]
    /\ call = [c \in Cpus |-> NoCall]
    /\ half = [c \in Cpus |-> "high"]
    /\ asked = {}

Override(gsis, e) == IF e.source \in Irqs THEN [gsis EXCEPT ![e.source] = e.gsi] ELSE gsis

\* _irqToGsi after n overrides, applied in the order of the table.
Overridden[n \in 0 .. FindMADTEntryCount("IRQSrcOverride")] ==
    IF n = 0 THEN [irq \in Irqs |-> irq]
    ELSE Override(Overridden[n - 1], FindMADTEntry("IRQSrcOverride", n - 1))

\* IOAPICManager::Initialize up to the loop over the IOAPICs; surplus ones
\* are left out.
Discover ==
    /\ ~Discovered
    /\ irqToGsi' = Overridden[FindMADTEntryCount("IRQSrcOverride")]
    /\ LET n == FindMADTEntryCount("IOAPIC")
       IN ioApicCount' = IF n > MaxIOAPICs THEN MaxIOAPICs ELSE n
    /\ UNCHANGED <<madt, lock, window, reg, next, pc, call, half, asked>>

(***************************************************************************)
(* SetRedirectionEntryInternal(index, entry): the upper half with the      *)
(* destination first, then the lower half with the vector and the mask.    *)
(***************************************************************************)
LowHalfOnly(c, a, i, e) ==          \* Mutant: the upper half is forgotten
    /\ call' = [call EXCEPT ![c] = [apic |-> a, index |-> i, entry |-> e]]
    /\ half' = [half EXCEPT ![c] = "low"]
    /\ pc' = [pc EXCEPT ![c] = "lock"]

SetRedirectionEntryInternal(c, a, i, e) ==
    /\ i \in Index(a)                  \* refused otherwise
    /\ call' = [call EXCEPT ![c] = [apic |-> a, index |-> i, entry |-> e]]
    /\ half' = [half EXCEPT ![c] = "high"]
    /\ pc' = [pc EXCEPT ![c] = "lock"]

\* The loop of IOAPIC::Initialize, and the loop over the IOAPICs around it;
\* the boot CPU runs it while nobody else uses them.
Initialize(c, a) ==
    /\ Discovered /\ \A d \in Cpus : pc[d] = "idle"
    /\ a <= ioApicCount /\ ~Initialized(a) /\ \A b \in 1 .. a - 1 : Initialized(b)
    /\ next' = [next EXCEPT ![a] = @ + 1]
    /\ SetRedirectionEntryInternal(c, a, next[a], Masked)
    /\ UNCHANGED <<found, lock, window, reg, asked>>

HasGSI(a, gsi) == GsiBase(a) <= gsi /\ gsi < GsiBase(a) + Redirections(a)
GetOwningApic(gsi) ==               \* the first one, if any
    {a \in 1 .. ioApicCount : HasGSI(a, gsi) /\ \A b \in 1 .. a - 1 : ~HasGSI(b, gsi)}

\* A caller routes an ISA interrupt: GetIRQ, GetOwningApic and, unless there
\* is none, SetRedirectionEntry.  A GSI has one user at a time.
SetRedirectionEntry(c, irq, e) ==
    /\ pc[c] = "idle" /\ Ready
    /\ \E a \in GetOwningApic(irqToGsi[irq]) :
         LET i == irqToGsi[irq] - GsiBase(a)
         IN /\ \A d \in Cpus : ~Setting(d, a, i)
            /\ SetRedirectionEntryInternal(c, a, i, e)
    /\ asked' = asked \cup {<<irq, e>>}
    /\ UNCHANGED <<found, lock, window, reg, next>>

(***************************************************************************)
(* WriteRegister(reg, value).                                              *)
(***************************************************************************)
LockWindow(c) ==
    /\ pc[c] = "lock"
    /\ lock[call[c].apic] = Nobody
    /\ lock' = [lock EXCEPT ![call[c].apic] = c]
    /\ pc' = [pc EXCEPT ![c] = "select"]
    /\ UNCHANGED <<found, window, reg, next, call, half, asked>>

Select(c) ==                        \* _mmioBase[0] = reg
    /\ pc[c] = "select"
    /\ window' = [window EXCEPT ![call[c].apic] = <<call[c].index, half[c]>>]
    /\ pc' = [pc EXCEPT ![c] = "data"]
    /\ UNCHANGED <<found, lock, reg, next, call, half, asked>>

\* _mmioBase[4] = value goes to the register the window selects.
Data(c) ==
    /\ pc[c] = "data"
    /\ LET a == call[c].apic
       IN /\ reg' = [reg EXCEPT ![a][window[a]] = <<call[c].entry, half[c]>>]
          /\ lock' = [lock EXCEPT ![a] = Nobody]
    /\ IF half[c] = "high"
       THEN /\ half' = [half EXCEPT ![c] = "low"]
            /\ pc' = [pc EXCEPT ![c] = "lock"]
            /\ UNCHANGED call
       ELSE /\ half' = [half EXCEPT ![c] = "high"]
            /\ pc' = [pc EXCEPT ![c] = "idle"]
            /\ call' = [call EXCEPT ![c] = NoCall]
    /\ UNCHANGED <<found, window, next, asked>>

Next == \/ \E c \in Cpus : LockWindow(c) \/ Select(c) \/ Data(c)
        \/ \E c \in Cpus, a \in Apics : Initialize(c, a)
        \/ \E c \in Cpus, irq \in Irqs, e \in Entries : SetRedirectionEntry(c, irq, e)
        \/ Discover

Spec == Init /\ [][Next]_vars

(***************************************************************************)
(* Properties.                                                             *)
(***************************************************************************)
Low(a, i) == reg[a][<<i, "low">>]
High(a, i) == reg[a][<<i, "high">>]

\* Where the MADT routes an ISA interrupt, by its last override.
Gsi(irq) ==
    LET own == {k \in DOMAIN madt : madt[k].type = "IRQSrcOverride" /\ madt[k].source = irq}
    IN IF own = {} THEN irq ELSE madt[CHOOSE k \in own : \A j \in own : j <= k].gsi

\* Writes of several CPUs through one window do not get mixed up, and reach
\* the interrupt they are for: once Initialize is through, nothing of the
\* firmware's tables is left in an IOAPIC that is used, and each entry is
\* masked or, in both halves, one that was asked for an interrupt that the
\* MADT routes to its GSI.
RoutesExact ==
    Ready /\ (\A c \in Cpus : pc[c] = "idle") =>
        \A a \in 1 .. ioApicCount : \A i \in Index(a) :
            /\ Low(a, i)[2] = "low" /\ High(a, i) = <<Low(a, i)[1], "high">>
            /\ \/ Low(a, i)[1] = Masked
               \/ \E irq \in Irqs : /\ Gsi(irq) = GsiBase(a) + i
                                     /\ <<irq, Low(a, i)[1]>> \in asked

\* An interrupt is unmasked only with its own destination in place: no
\* interrupt goes to the CPU of an earlier entry.
UnmaskedWhole ==
    [][\A a \in 1 .. ioApicCount : \A i \in Index(a) :
         Low(a, i)[1].masked /\ ~Low(a, i)'[1].masked => High(a, i)'[1] = Low(a, i)'[1]]_vars
=============================================================================
