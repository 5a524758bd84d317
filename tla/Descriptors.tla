----------------------------- MODULE Descriptors -----------------------------
(***************************************************************************)
(* The descriptor tables that Kernel::Initialize builds: GDT::SetEntry,    *)
(* SetTSSDescriptor and the entries of GDT::Initialize, TSS::Initialize,   *)
(* IDT::SetIDTEntry and the gates of IDT::Initialize.  A word is the set   *)
(* of its bits that are 1; addresses have 64 bits.                         *)
(***************************************************************************)
EXTENDS Integers

Bits(n) == {b \in 0 .. 20 : (n \div 2^b) % 2 = 1}      \* of a constant below 2^21
Shl(w, n) == {b + n : b \in w}
Shr(w, n) == {b - n : b \in {c \in w : c >= n}}
Low(w, n) == w \cap (0 .. n - 1)                         \* w & (2^n - 1)

\* A GDTEntry, whose members are packed from LimitLow (bits 0-15) to
\* BaseHigh (56-63).
SetEntry(base, limit, access, granularity) ==
    UNION {Low(limit, 16),
           Shl(Low(base, 16), 16),
           Shl(Low(Shr(base, 16), 8), 32),
           Shl(access, 40),
           Shl(Low(Shr(limit, 16), 4), 48),
           Shl(granularity \cap (4 .. 7), 48),
           Shl(Low(Shr(base, 24), 8), 56)}

TssBaseCut(base, limit) ==        \* Mutant: the base is cut off at 16 bits
    <<UNION {Low(limit, 16), Shl(Low(base, 16), 16), Shl(Bits(137), 40),
             Shl(Low(Shr(limit, 16), 4), 48), Shl(Low(Shr(base, 24), 8), 56)},
      Low(Shr(base, 32), 32)>>

SetTSSDescriptor(base, limit) ==  \* entries index and index + 1
    <<UNION {Low(limit, 16),
             Shl(Low(base, 24), 16),
             Shl(Bits(137), 40),                         \* 0x89
             Shl(Low(Shr(limit, 16), 4), 48),
             Shl(Low(Shr(base, 24), 8), 56)},
      Low(Shr(base, 32), 32)>>

\* TSS::Initialize: the two stacks, everything else 0, no I/O bitmap.
SizeOfTSS == 4 + 3 * 8 + 8 + 7 * 8 + 8 + 2 + 2
TSS(rsp0, ist1) == [RSP0 |-> rsp0, IST1 |-> ist1, IOMapBase |-> SizeOfTSS]

\* GDT::Initialize: entries 0 to 7, for a TSS at the address tss.
Flat == Bits(1048575)                                    \* limit 0xFFFFF
GDT(tss) ==
    LET tssEntry == SetTSSDescriptor(tss, Bits(SizeOfTSS - 1))
        entries == <<SetEntry({}, {}, {}, {}),
                     SetEntry({}, Flat, Bits(154), Bits(160)),     \* 0x9A, 0xA0
                     SetEntry({}, Flat, Bits(146), Bits(160)),     \* 0x92, 0xA0
                     tssEntry[1],
                     tssEntry[2],
                     SetEntry({}, Flat, Bits(242), Bits(192)),     \* 0xF2, 0xC0
                     SetEntry({}, Flat, Bits(242), Bits(160)),     \* 0xF2, 0xA0
                     SetEntry({}, Flat, Bits(250), Bits(160))>>    \* 0xFA, 0xA0
    IN [i \in 0 .. 7 |-> entries[i + 1]]
KernelCode == 8                                          \* LoadGDT reloads cs with it
TssSelector == 24

\* SetIDTEntry(vector, isr, 0x8E), packed as IDTEntry: 128 bits; and the IST
\* that IDT::Initialize sets afterwards.
SetIDTEntry(isr, ist) ==
    UNION {Low(isr, 16),
           Shl(Bits(KernelCode), 16),
           Shl(ist, 32),
           Shl(Bits(142), 40),                           \* 0x8E
           Shl(Low(Shr(isr, 16), 16), 48),
           Shl(Low(Shr(isr, 32), 32), 64)}
IstVectors == {8, 13, 14}                                \* DF, GPF, PF
Gate(vector, isr) == SetIDTEntry(isr, IF vector \in IstVectors THEN Bits(1) ELSE {})

(***************************************************************************)
(* How the processor reads them (external).                                *)
(***************************************************************************)
Field(w, from, to) == Low(Shr(w, from), to - from + 1)
SegBase(w) == Field(w, 16, 39) \cup Shl(Field(w, 56, 63), 24)
SegLimit(w) == Field(w, 0, 15) \cup Shl(Field(w, 48, 51), 16)
SegType(w) == Field(w, 40, 44)                           \* S and the type
SegDpl(w) == Field(w, 45, 46)
SegPresent(w) == 47 \in w
SegLong(w) == 53 \in w /\ 54 \notin w                    \* L without D
DataType == Bits(18)                                     \* writable data
CodeType == Bits(26)                                     \* readable code
TssType == Bits(9)                                       \* available 64-bit TSS
GateOffset(w) == Field(w, 0, 15) \cup Shl(Field(w, 48, 95), 16)
GateSelector(w) == Field(w, 16, 31)
GateIst(w) == Field(w, 32, 34)
GateType(w) == Field(w, 40, 47)

\* The processor finds in the GDT what the kernel and SYSRET select: its
\* code and data, the whole TSS, and for user mode data (anchor + 8) and
\* 64-bit code (anchor + 16) behind one anchor.
GdtReads(gdt, tss) ==
    /\ \A i \in {1, 2, 5, 6, 7} : SegPresent(gdt[i]) /\ SegBase(gdt[i]) = {}
                                    /\ SegLimit(gdt[i]) = 0 .. 19 /\ 55 \in gdt[i]
    /\ gdt[0] = {}
    /\ SegType(gdt[KernelCode \div 8]) = CodeType /\ SegLong(gdt[1]) /\ SegDpl(gdt[1]) = {}
    /\ SegType(gdt[2]) = DataType /\ SegDpl(gdt[2]) = {}
    /\ LET t == TssSelector \div 8
       IN /\ SegPresent(gdt[t]) /\ SegType(gdt[t]) = TssType /\ SegDpl(gdt[t]) = {}
          /\ SegBase(gdt[t]) \cup Shl(gdt[t + 1], 32) = tss
          /\ SegLimit(gdt[t]) = Bits(103) /\ 55 \notin gdt[t]
    /\ \A i \in 5 .. 7 : SegDpl(gdt[i]) = {0, 1}
    /\ SegType(gdt[6]) = DataType /\ SegType(gdt[7]) = CodeType /\ SegLong(gdt[7])

\* In the TSS it finds two stacks, and the I/O bitmap beyond the limit.
TssReads(tss) == tss.IST1 # tss.RSP0 /\ tss.IOMapBase > SizeOfTSS - 1

\* It finds the stub of a vector behind its gate, in the kernel's code
\* segment, with interrupts off and on a stack of its own where the old one
\* may be the cause of the fault.
GateReads(gate, vector, isr) ==
    /\ GateOffset(gate) = isr
    /\ GateSelector(gate) = Bits(8)
    /\ GateType(gate) = Bits(14) \cup {7}                \* present, interrupt gate
    /\ GateIst(gate) = IF vector \in IstVectors THEN {0} ELSE {}
==============================================================================
