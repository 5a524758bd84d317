----------------------------- MODULE StartProofs -----------------------------
(***************************************************************************)
(* Proofs about the start of the kernel.  NoFault needs to know, at each   *)
(* call of Kernel::Initialize, what the calls before it have set up        *)
(* (OrderInv) and how far the processor's registers are programmed         *)
(* (CoreInv).                                                              *)
(* What the calls compute (descriptors, the command line and its values,   *)
(* firmware tables, messages, the CPU's name) then follows from lemmas     *)
(* about the loops that compute it; the page tables are in                 *)
(* PagingInitProofs.  The last part is about                               *)
(* PhysicalMemoryManager::Initialize, whose Init, Next and Spec these are. *)
(***************************************************************************)
EXTENDS KernelStart, PMMInit, FiniteSetTheorems, SequenceTheorems, WellFoundedInduction, TLAPS

Cores == [has : SUBSET Features,
          cr0 : SUBSET {"PE", "PG", "EM", "TS", "MP"}, cr4 : SUBSET {"PAE", "OSFXSR", "OSXSAVE"},
          xcr0 : SUBSET {"x87", "SSE", "AVX"}, efer : SUBSET {"NXE"}]

StartTypeOK == /\ call \in 1 .. 16
               /\ status \in {"running", "panic", "fault"}
               /\ response \in [Requests -> {"unread", "null", "there"}]
               /\ core \in Cores
               /\ made # <<>> => call \in {5, 7, 8, 9, 10, 11, 12, 15}

\* What each call finds that an earlier one has left.
OrderInv == /\ call > 4 => There("mp")
            /\ call > 5 => "gdt" \in up /\ "gs" \in up
            /\ call = 5 /\ made # <<>> => "gdt" \in up /\ "gs" \in up
            /\ call > 6 => There("hhdm") /\ "pmm" \in up
            /\ call > 7 => "paging" \in up
            /\ call = 7 /\ made # <<>> => "paging" \in up
            /\ call > 12 => "acpi" \in up
            /\ call = 12 /\ made # <<>> => "acpi" \in up

\* How far InitializeSIMD is, and what it has enabled by then.
SimdInv == /\ CanSIMD(core.has) /\ made[2] \in 1 .. Len(SIMD(core.has))
           /\ made[2] > 5 => /\ "OSFXSR" \in core.cr4
                             /\ "AVX" \in core.has => "OSXSAVE" \in core.cr4
           /\ made[2] > 7 /\ "AVX" \in core.has => "SSE" \in core.xcr0 /\ "AVX" \in core.xcr0
CoreInv == /\ FPUUsable(core)
           /\ call = 10 /\ made # <<>> /\ made[1] = "working" => SimdInv
           /\ call = 11 /\ made # <<>> /\ made[1] = "working" =>
                CanNX(core.has) /\ made[2] \in 1 .. 2

StartInv == StartTypeOK /\ OrderInv /\ CoreInv /\ NoFault

(***************************************************************************)
(* The order of the calls, and the instructions of InitializeSIMD.         *)
(***************************************************************************)
LEMMA CallNumbers ==
    /\ DOMAIN Calls = 1 .. 16
    /\ \A c \in 1 .. 16 :
         /\ (Calls[c] = "serial") <=> (c = 1)
         /\ (Calls[c] = "framebuffer") <=> (c = 2)
         /\ (Calls[c] = "commandline") <=> (c = 3)
         /\ (Calls[c] = "mp") <=> (c = 4)
         /\ (Calls[c] = "gdt") <=> (c = 5)
         /\ (Calls[c] = "pmm") <=> (c = 6)
         /\ (Calls[c] = "paging") <=> (c = 7)
         /\ (Calls[c] = "idt") <=> (c = 8)
         /\ (Calls[c] = "cpu") <=> (c = 9)
         /\ (Calls[c] = "simd") <=> (c = 10)
         /\ (Calls[c] = "nx") <=> (c = 11)
         /\ (Calls[c] = "acpi") <=> (c = 12)
         /\ (Calls[c] = "ioapic") <=> (c = 13)
         /\ (Calls[c] = "lapic") <=> (c = 14)
         /\ (Calls[c] = "log") <=> (c = 15)
         /\ (Calls[c] = "start") <=> (c = 16)
  BY DEF Calls

LEMMA Marks == ASSUME NEW x
               PROVE  /\ Working(x) # <<>> /\ Working(x)[1] = "working" /\ Working(x)[2] = x
                      /\ Done(x) # <<>> /\ Done(x)[1] = "done" /\ Done(x)[2] = x
  BY DEF Working, Done

LEMMA SimdWithAvx ==
    ASSUME NEW has, "AVX" \in has
    PROVE  /\ Len(SIMD(has)) = 13
           /\ SIMD(has)[1] = "fninit" /\ SIMD(has)[2] = "fnstsw" /\ SIMD(has)[3] = "fnstcw" /\ SIMD(has)[4] = "mov_cr0"
           /\ SIMD(has)[5] = "mov_cr4" /\ SIMD(has)[6] = "xgetbv" /\ SIMD(has)[7] = "xsetbv" /\ SIMD(has)[8] = "fninit"
           /\ SIMD(has)[9] = "fldcw" /\ SIMD(has)[10] = "ldmxcsr" /\ SIMD(has)[11] = "addss" /\ SIMD(has)[12] = "addps"
           /\ SIMD(has)[13] = "vaddps"
  BY DEF SIMD

LEMMA SimdWithoutAvx ==
    ASSUME NEW has, "AVX" \notin has
    PROVE  /\ Len(SIMD(has)) = 10
           /\ SIMD(has)[1] = "fninit" /\ SIMD(has)[2] = "fnstsw" /\ SIMD(has)[3] = "fnstcw" /\ SIMD(has)[4] = "mov_cr0"
           /\ SIMD(has)[5] = "mov_cr4" /\ SIMD(has)[6] = "fninit" /\ SIMD(has)[7] = "fldcw" /\ SIMD(has)[8] = "ldmxcsr"
           /\ SIMD(has)[9] = "addss" /\ SIMD(has)[10] = "addps"
  BY DEF SIMD

\* The fifth instruction is the one that sets CR4, the seventh the one that
\* sets XCR0 where there is AVX; those that need SSE or AVX come later.
SimdOrder(P, i, avx) ==
    /\ i < 6 => P[i] \notin {"ldmxcsr", "addss", "addps", "xgetbv", "xsetbv", "vaddps"}
    /\ i = 5 => P[i] = "mov_cr4"
    /\ i = 7 /\ avx => P[i] = "xsetbv"
    /\ P[i] \notin {"rdmsr", "wrmsr"}
    /\ ~avx => P[i] \notin {"xgetbv", "xsetbv", "vaddps"}
    /\ i < 8 => P[i] # "vaddps"

LEMMA OrderWithAvx ==
    ASSUME NEW P, NEW i \in 1 .. 13,
           /\ P[1] = "fninit" /\ P[2] = "fnstsw" /\ P[3] = "fnstcw" /\ P[4] = "mov_cr0"
           /\ P[5] = "mov_cr4" /\ P[6] = "xgetbv" /\ P[7] = "xsetbv" /\ P[8] = "fninit"
           /\ P[9] = "fldcw" /\ P[10] = "ldmxcsr" /\ P[11] = "addss" /\ P[12] = "addps"
           /\ P[13] = "vaddps"
    PROVE  SimdOrder(P, i, TRUE)
  BY DEF SimdOrder

LEMMA OrderWithoutAvx ==
    ASSUME NEW P, NEW i \in 1 .. 10,
           /\ P[1] = "fninit" /\ P[2] = "fnstsw" /\ P[3] = "fnstcw" /\ P[4] = "mov_cr0"
           /\ P[5] = "mov_cr4" /\ P[6] = "fninit" /\ P[7] = "fldcw" /\ P[8] = "ldmxcsr"
           /\ P[9] = "addss" /\ P[10] = "addps"
    PROVE  SimdOrder(P, i, FALSE)
  BY DEF SimdOrder

LEMMA SimdProgram ==
    ASSUME NEW has, NEW i \in 1 .. Len(SIMD(has))
    PROVE  /\ Len(SIMD(has)) \in {10, 13}
           /\ "AVX" \in has => Len(SIMD(has)) = 13
           /\ SimdOrder(SIMD(has), i, "AVX" \in has)
  <1>1. CASE "AVX" \in has
    <2>1. i \in 1 .. 13
      BY <1>1, SimdWithAvx
    <2>2. SimdOrder(SIMD(has), i, TRUE)
      BY <1>1, <2>1, SimdWithAvx, OrderWithAvx, Zenon
    <2> QED BY <1>1, <2>2, SimdWithAvx DEF SimdOrder
  <1>2. CASE "AVX" \notin has
    <2>1. i \in 1 .. 10
      BY <1>2, SimdWithoutAvx
    <2>2. SimdOrder(SIMD(has), i, FALSE)
      BY <1>2, <2>1, SimdWithoutAvx, OrderWithoutAvx
    <2> QED BY <1>2, <2>2, SimdWithoutAvx DEF SimdOrder
  <1> QED BY <1>1, <1>2

(***************************************************************************)
(* The calls, one after the other.                                         *)
(***************************************************************************)
LEMMA StartInvInit == StartInit => StartInv
  <1> SUFFICES ASSUME StartInit PROVE StartInv
    OBVIOUS
  <1>1. core \in Cores
    BY DEF StartInit, Cores, Features
  <1>2. response \in [Requests -> {"unread", "null", "there"}]
    BY DEF StartInit
  <1>3. CoreInv
    BY DEF StartInit, CoreInv, FPUUsable
  <1> QED
    BY <1>1, <1>2, <1>3 DEF StartInit, StartInv, StartTypeOK, OrderInv, NoFault

\* An action that leaves the registers alone keeps what is known of them.
LEMMA CoreInvKept ==
    ASSUME StartInv, UNCHANGED core,
           \/ UNCHANGED <<call, made>>
           \/ made' = <<>>
           \/ call' \notin {10, 11}
    PROVE  CoreInv'
  BY DEF StartInv, CoreInv, SimdInv

USE DEF There, kept, lineVars, GoOn, Leave, End, Answer, Calling, Finished, Busy

LEMMA SerialStep == ASSUME StartInv, SerialInitialize PROVE StartInv'
  <1>1. call = 1 /\ call' = 2
    BY CallNumbers DEF StartInv, StartTypeOK, SerialInitialize
  <1> QED
    BY <1>1, CoreInvKept DEF StartInv, StartTypeOK, OrderInv, NoFault, SerialInitialize

LEMMA FramebufferStep == ASSUME StartInv, FramebufferInitialize PROVE StartInv'
  <1>1. call = 2 /\ call' \in {2, 3} /\ made = <<>> /\ made' = <<>> /\ UNCHANGED core
    BY CallNumbers DEF StartInv, StartTypeOK, FramebufferInitialize
  <1>2. CoreInv'
    BY <1>1, CoreInvKept
  <1>3. StartTypeOK'
    BY <1>1 DEF StartInv, StartTypeOK, Requests, FramebufferInitialize
  <1> QED
    BY <1>1, <1>2, <1>3 DEF StartInv, StartTypeOK, OrderInv, NoFault, FramebufferInitialize

LEMMA ReadCommandLineStep == ASSUME StartInv, ReadCommandLine PROVE StartInv'
  <1>1. call = 3 /\ call' = 3 /\ made = <<>> /\ made' = <<>> /\ UNCHANGED core
    BY CallNumbers DEF StartInv, StartTypeOK, ReadCommandLine
  <1>2. CoreInv'
    BY <1>1, CoreInvKept
  <1>3. StartTypeOK'
    BY <1>1 DEF StartInv, StartTypeOK, Requests, ReadCommandLine
  <1>4. NoFault'
    BY <1>1, CallNumbers DEF StartInv, StartTypeOK, Requests, NoFault, ReadCommandLine
  <1> QED
    BY <1>1, <1>2, <1>3, <1>4 DEF StartInv, OrderInv

\* Steps inside the call: none of what the calls share changes.
LEMMA InsideStep ==
    ASSUME StartInv, UNCHANGED <<call, status, response, up, core, made>>,
           status = "running" \/ UNCHANGED <<pc, out, count>>
    PROVE  StartInv'
  BY CoreInvKept DEF StartInv, StartTypeOK, OrderInv, NoFault

\* The search for "=" behind an empty argument.
LEMMA LeftLine ==
    ASSUME StartInv, call = 3, pc = "ready", NEW T, NEW id, LeavesLine(T, id), End("fault"),
           UNCHANGED <<response, up, core, lineVars>>
    PROVE  StartInv'
  <1>1. \E k \in 1 .. count + 1 : out[k] = <<>>
    BY DEF LeavesLine
  <1>2. status' = "fault" /\ call' = 3 /\ made' = made /\ made = <<>>
    BY CallNumbers DEF StartInv, StartTypeOK
  <1>3. pc' = "ready" /\ out' = out /\ count' = count
    BY DEF vars, loop
  <1>4. NoFault'
    BY <1>1, <1>2, <1>3, CallNumbers DEF NoFault
  <1> QED
    BY <1>2, <1>4, CoreInvKept DEF StartInv, StartTypeOK, OrderInv

LEMMA ReadLogLevelStep == ASSUME StartInv, ReadLogLevel PROVE StartInv'
  <1>1. CASE LeavesLine("uint64_t", LOG_LEVEL) /\ End("fault") /\ UNCHANGED lineVars
    BY <1>1, LeftLine, CallNumbers DEF StartInv, StartTypeOK, ReadLogLevel
  <1>2. CASE GoOn
    <2>1. call = 3 /\ call' = 4 /\ made = <<>> /\ made' = <<>> /\ status' = "running"
          /\ UNCHANGED <<core, response, up>>
      BY <1>2, CallNumbers DEF StartInv, StartTypeOK, ReadLogLevel
    <2> QED
      BY <2>1, CoreInvKept DEF StartInv, StartTypeOK, OrderInv, NoFault
  <1> QED
    BY <1>1, <1>2 DEF ReadLogLevel

LEMMA FindProcessorsStep == ASSUME StartInv, FindProcessors PROVE StartInv'
  <1>1. /\ call = 4 /\ made = <<>> /\ made' = <<>> /\ UNCHANGED <<core, up>>
        /\ \/ call' = 4 /\ status' = "panic"
           \/ call' = 5 /\ status' = "running" /\ response'["mp"] = "there"
    BY CallNumbers DEF StartInv, StartTypeOK, FindProcessors, Requests
  <1>2. StartTypeOK'
    BY <1>1 DEF StartInv, StartTypeOK, Requests, FindProcessors
  <1> QED
    BY <1>1, <1>2, CoreInvKept DEF StartInv, OrderInv, NoFault

LEMMA GDTStep == ASSUME StartInv, GDTInitialize PROVE StartInv'
  <1>0. call = 5 /\ There("mp")
    BY CallNumbers DEF StartInv, StartTypeOK, OrderInv, GDTInitialize
  <1>1. /\ call' = 5 /\ status' = "running" /\ "gdt" \in up' /\ "gs" \in up'
        /\ UNCHANGED <<core, response>>
    BY <1>0 DEF GDTInitialize
  <1> QED
    BY <1>0, <1>1, CoreInvKept DEF StartInv, StartTypeOK, OrderInv, NoFault

LEMMA PMMStep == ASSUME StartInv, PMMInitialize PROVE StartInv'
  <1>1. call = 6 /\ call' \in {6, 7} /\ made = <<>> /\ made' = <<>> /\ UNCHANGED core
    BY CallNumbers DEF StartInv, StartTypeOK, PMMInitialize
  <1>2. StartTypeOK'
    BY <1>1 DEF StartInv, StartTypeOK, Requests, PMMInitialize
  <1>3. OrderInv'
    BY <1>1 DEF StartInv, StartTypeOK, OrderInv, Requests, PMMInitialize
  <1>4. NoFault'
    BY <1>1, CallNumbers DEF StartInv, NoFault, PMMInitialize
  <1> QED
    BY <1>1, <1>2, <1>3, <1>4, CoreInvKept DEF StartInv

LEMMA PagingStep == ASSUME StartInv, InitializePaging PROVE StartInv'
  <1>0. call = 7 /\ made = <<>> /\ There("hhdm") /\ "pmm" \in up /\ "gs" \in up
    BY CallNumbers DEF StartInv, StartTypeOK, OrderInv, InitializePaging
  <1>1. /\ call' = 7 /\ UNCHANGED <<core, response>>
        /\ \/ status' = "panic" /\ UNCHANGED <<made, up>>
           \/ status' = "running" /\ up' = up \cup {"paging"}
    BY <1>0 DEF InitializePaging
  <1> QED
    BY <1>0, <1>1, CoreInvKept DEF StartInv, StartTypeOK, OrderInv, NoFault

LEMMA FindRangeStep == ASSUME StartInv, NEW n \in Counts, FindRange(n) PROVE StartInv'
  <1>1. call = 7 /\ call' = 7 /\ made # <<>> /\ UNCHANGED <<status, up, core, response>>
        /\ status' = "running"
    BY CallNumbers DEF StartInv, StartTypeOK, FindRange
  <1> QED
    BY <1>1, CoreInvKept DEF StartInv, StartTypeOK, OrderInv, NoFault

LEMMA IDTStep == ASSUME StartInv, IDTInitialize PROVE StartInv'
  <1>1. call = 8 /\ call' = 8 /\ status' = "running" /\ up \subseteq up'
        /\ UNCHANGED <<core, response>>
    BY CallNumbers DEF StartInv, StartTypeOK, OrderInv, IDTInitialize
  <1> QED
    BY <1>1, CoreInvKept DEF StartInv, StartTypeOK, OrderInv, NoFault

LEMMA BrandStep == ASSUME StartInv, ReadBrand \/ ShiftBrand \/ EndBrand PROVE StartInv'
  <1>0. call = 9 /\ There("mp")
    BY CallNumbers DEF StartInv, StartTypeOK, OrderInv, ReadBrand, ShiftBrand, EndBrand
  <1>1. call' = 9 /\ status' = "running" /\ UNCHANGED <<core, response, up>>
    BY <1>0 DEF ReadBrand, ShiftBrand, EndBrand
  <1> QED
    BY <1>0, <1>1, CoreInvKept DEF StartInv, StartTypeOK, OrderInv, NoFault

LEMMA ACPIStep == ASSUME StartInv, ACPIInitialize PROVE StartInv'
  <1>1. call = 12 /\ call' = 12 /\ UNCHANGED core
        /\ \/ made' = <<>> /\ status' = "panic" /\ up' = up
           \/ status' = "running" /\ "acpi" \in up' /\ up \subseteq up'
    BY CallNumbers DEF StartInv, StartTypeOK, OrderInv, ACPIInitialize
  <1>2. StartTypeOK'
    BY <1>1 DEF StartInv, StartTypeOK, Requests, ACPIInitialize
  <1>3. response'["mp"] = response["mp"] /\ response'["hhdm"] = response["hhdm"]
    BY DEF StartInv, StartTypeOK, Requests, ACPIInitialize
  <1> QED
    BY <1>1, <1>2, <1>3, CoreInvKept DEF StartInv, StartTypeOK, OrderInv, NoFault

LEMMA ACPIRestStep ==
    ASSUME StartInv, SCIEnabled \/ \E sig \in Signatures, index \in 0 .. 1 : AskTable(sig, index)
    PROVE  StartInv'
  <1>1. call = 12 /\ call' = 12 /\ made # <<>> /\ status' = "running"
        /\ UNCHANGED <<core, response, up>>
    BY CallNumbers DEF StartInv, StartTypeOK, SCIEnabled, AskTable
  <1> QED
    BY <1>1, CoreInvKept DEF StartInv, StartTypeOK, OrderInv, NoFault

LEMMA APICsStep ==
    ASSUME StartInv, NEW name \in {"ioapic", "lapic"}, APICsInitialize(name)
    PROVE  StartInv'
  <1>1. call \in {13, 14} /\ made = <<>> /\ made' = <<>> /\ UNCHANGED <<core, response, up>>
        /\ call' \in {call, call + 1}
    BY CallNumbers DEF StartInv, StartTypeOK, APICsInitialize
  <1>2. NoFault'
    BY <1>1, CallNumbers DEF StartInv, StartTypeOK, OrderInv, NoFault, APICsInitialize
  <1>3. status' \in {"running", "panic", "fault"}
    BY DEF APICsInitialize
  <1> QED
    BY <1>1, <1>2, <1>3, CoreInvKept DEF StartInv, StartTypeOK, OrderInv

LEMMA LogStep == ASSUME StartInv, LogInfo \/ Start PROVE StartInv'
  <1>1. call \in {15, 16} /\ call' \in {15, 16} /\ status' \in {"running", "panic"}
        /\ (made' # <<>> => call' = 15) /\ UNCHANGED <<core, response, up>>
    <2>1. CASE LogInfo
      <3>1. call = 15 /\ made = <<>> /\ status = "running"
        BY <2>1, CallNumbers DEF StartInv, StartTypeOK, LogInfo
      <3> QED BY <2>1, <3>1 DEF LogInfo
    <2>2. CASE Start BY <2>2, CallNumbers DEF StartInv, StartTypeOK, Start
    <2> QED BY <2>1, <2>2
  <1> QED
    BY <1>1, CoreInvKept DEF StartInv, StartTypeOK, OrderInv, NoFault

LEMMA ReturnStep == ASSUME StartInv, Return PROVE StartInv'
  <1>1. made # <<>> /\ call' = call + 1 /\ made' = <<>> /\ status' = "running"
        /\ UNCHANGED <<core, response, up>>
    BY DEF Return
  <1> QED
    BY <1>1, CoreInvKept DEF StartInv, StartTypeOK, OrderInv, NoFault

(***************************************************************************)
(* The registers: InitializeSIMD and InitializeNX.                         *)
(***************************************************************************)
LEMMA FeaturesStep ==
    ASSUME StartInv, NEW name \in {"simd", "nx"}, ReadFeatures(name)
    PROVE  StartInv'
  <1>1. PICK has \in SUBSET Features :
          /\ core' = [core EXCEPT !.has = has]
          /\ IF Can(name, has) THEN Leave(<<>>, Working(1)) ELSE End("panic")
          /\ name = "nx" => has = core.has
    BY DEF ReadFeatures, StartInv, StartTypeOK, Cores
  <1>2. /\ call = (IF name = "simd" THEN 10 ELSE 11) /\ call' = call /\ made = <<>>
        /\ status' \in {"running", "panic"} /\ UNCHANGED <<response, up>>
    BY <1>1, CallNumbers DEF ReadFeatures, StartInv, StartTypeOK
  <1>3. /\ core' \in Cores /\ core'.has = has /\ core'.cr0 = core.cr0
    BY <1>1 DEF StartInv, StartTypeOK, Cores
  <1>4. FPUUsable(core')
    BY <1>3 DEF StartInv, CoreInv, FPUUsable
  <1>5. made' = <<>> \/ (Can(name, has) /\ made'[2] = 1)
    BY <1>1, <1>2, Marks
  <1>6. 1 \in 1 .. Len(SIMD(has))
    BY SimdWithAvx, SimdWithoutAvx
  <1>7. CoreInv'
    BY <1>2, <1>3, <1>4, <1>5, <1>6 DEF CoreInv, SimdInv, Can
  <1> QED
    BY <1>2, <1>3, <1>7 DEF StartInv, StartTypeOK, OrderInv, NoFault

\* What an instruction leaves alone, and what it sets.
LEMMA Executed ==
    ASSUME NEW c \in Cores, FPUUsable(c), NEW ins, NEW d, d = Execute(c, ins)
    PROVE  /\ d \in Cores /\ FPUUsable(d) /\ d.has = c.has
           /\ c.cr4 \subseteq d.cr4 /\ c.xcr0 \subseteq d.xcr0
           /\ ins = "mov_cr4" => /\ "OSFXSR" \in d.cr4
                                 /\ "AVX" \in c.has => "OSXSAVE" \in d.cr4
           /\ ins = "xsetbv" => "SSE" \in d.xcr0 /\ "AVX" \in d.xcr0
  <1> DEFINE cr0 == IF ins = "mov_cr0" THEN (c.cr0 \ {"EM", "TS"}) \cup {"MP"} ELSE c.cr0
             cr4 == IF ins # "mov_cr4" THEN c.cr4
                    ELSE c.cr4 \cup {"OSFXSR"} \cup IF "AVX" \in c.has THEN {"OSXSAVE"} ELSE {}
             xcr0 == IF ins = "xsetbv" THEN c.xcr0 \cup {"x87", "SSE", "AVX"} ELSE c.xcr0
             efer == IF ins = "wrmsr" THEN c.efer \cup {"NXE"} ELSE c.efer
  <1>1. d = [c EXCEPT !.cr0 = cr0, !.cr4 = cr4, !.xcr0 = xcr0, !.efer = efer]
    BY DEF Execute
  <1>2. /\ cr0 \subseteq {"PE", "PG", "EM", "TS", "MP"} /\ cr0 \cap {"EM", "TS"} = {}
        /\ efer \subseteq {"NXE"}
    BY DEF Cores, FPUUsable
  <1>3. /\ cr4 \subseteq {"PAE", "OSFXSR", "OSXSAVE"} /\ c.cr4 \subseteq cr4
        /\ ins = "mov_cr4" => "OSFXSR" \in cr4 /\ ("AVX" \in c.has => "OSXSAVE" \in cr4)
    BY DEF Cores
  <1>4. /\ xcr0 \subseteq {"x87", "SSE", "AVX"} /\ c.xcr0 \subseteq xcr0
        /\ ins = "xsetbv" => "SSE" \in xcr0 /\ "AVX" \in xcr0
    BY DEF Cores
  <1> HIDE DEF cr0, cr4, xcr0, efer
  <1>5. d.cr0 = cr0 /\ d.cr4 = cr4 /\ d.xcr0 = xcr0 /\ d.has = c.has
    BY <1>1 DEF Cores
  <1>6. d \in Cores
    <2>1. d = [has |-> c.has, cr0 |-> cr0, cr4 |-> cr4, xcr0 |-> xcr0, efer |-> efer]
      BY <1>1 DEF Cores
    <2>2. c.has \subseteq Features
      BY DEF Cores
    <2> QED BY <2>1, <2>2, <1>2, <1>3, <1>4 DEF Cores
  <1> QED
    BY <1>2, <1>3, <1>4, <1>5, <1>6 DEF FPUUsable

LEMMA InstructionStep ==
    ASSUME StartInv, NEW name \in {"simd", "nx"}, Instruction(name)
    PROVE  StartInv'
  <1> DEFINE P == Program(name)
             at == made[2]
             ins == P[at]
  <1>1. /\ call = (IF name = "simd" THEN 10 ELSE 11) /\ made # <<>> /\ made[1] = "working"
        /\ status = "running" /\ core \in Cores /\ FPUUsable(core)
    BY CallNumbers DEF Instruction, StartInv, StartTypeOK, CoreInv
  <1>2. at \in 1 .. Len(P) /\ (name = "simd" => SimdInv) /\ (name = "nx" => CanNX(core.has))
    BY <1>1 DEF StartInv, CoreInv, SimdInv, Program, NX
  <1>3. Legal(core, ins)
    <2>1. CASE name = "simd"
      <3>1. SimdOrder(SIMD(core.has), at, "AVX" \in core.has)
        BY <2>1, <1>2, SimdProgram DEF SimdInv
      <3>2. ins = SIMD(core.has)[at]
        BY <2>1 DEF Program
      <3> HIDE DEF ins
      <3> QED
        BY <2>1, <3>1, <3>2, <1>1, <1>2 DEF SimdInv, SimdOrder, Legal, FPUUsable
    <2>2. CASE name = "nx"
      BY <2>2, <1>2 DEF Program, NX, Legal, CanNX
    <2> QED BY <2>1, <2>2
  <1>4. /\ core' = Execute(core, ins) /\ call' = call /\ UNCHANGED <<response, up>>
        /\ \/ status' = "panic" /\ made' = made
           \/ /\ status' = "running"
              /\ made' = IF at = Len(P) THEN Done(core') ELSE Working(at + 1)
    BY <1>1, <1>3 DEF Instruction
  <1>5. /\ core' \in Cores /\ FPUUsable(core') /\ core'.has = core.has
        /\ core.cr4 \subseteq core'.cr4 /\ core.xcr0 \subseteq core'.xcr0
        /\ ins = "mov_cr4" => /\ "OSFXSR" \in core'.cr4
                              /\ "AVX" \in core.has => "OSXSAVE" \in core'.cr4
        /\ ins = "xsetbv" => "SSE" \in core'.xcr0 /\ "AVX" \in core'.xcr0
    BY <1>1, <1>4, Executed
  <1>6. made'[1] = "working" => made'[2] = at \/ (made'[2] = at + 1 /\ at # Len(P))
    BY <1>4, Marks
  <1>7. name = "simd" /\ made'[1] = "working" => SimdInv'
    <2>1. SUFFICES ASSUME name = "simd", made'[1] = "working" PROVE SimdInv'
      OBVIOUS
    <2>2. SimdOrder(SIMD(core.has), at, "AVX" \in core.has) /\ P = SIMD(core.has)
      BY <2>1, <1>2, SimdProgram DEF SimdInv, Program
    <2>3. Len(P) \in {10, 13}
      BY <2>1, <1>2, SimdProgram DEF Program
    <2>4. (at = 5 => ins = "mov_cr4") /\ (at = 7 /\ "AVX" \in core.has => ins = "xsetbv")
      BY <2>2 DEF SimdOrder
    <2>5. made'[2] \in 1 .. Len(P) /\ made'[2] \in {at, at + 1}
      BY <2>1, <1>2, <1>6, <2>3
    <2>6. /\ made'[2] > 5 => at > 5 \/ at = 5
          /\ made'[2] > 7 => at > 7 \/ at = 7
      BY <1>2, <2>3, <2>5
    <2> HIDE DEF P, ins
    <2> QED
      BY <2>1, <2>2, <2>4, <2>5, <2>6, <1>2, <1>5 DEF SimdInv
  <1>8. name = "nx" /\ made'[1] = "working" => CanNX(core'.has) /\ made'[2] \in 1 .. 2
    <2>1. name = "nx" => Len(P) = 2
      BY DEF Program, NX
    <2>2. name = "nx" => at \in 1 .. 2
      BY <2>1, <1>2
    <2>3. name = "nx" /\ made'[1] = "working" => made'[2] = at \/ (made'[2] = at + 1 /\ at # 2)
      BY <2>1, <1>6
    <2> HIDE DEF P, at
    <2> QED BY <2>2, <2>3, <1>2, <1>5
  <1>9. CoreInv'
    BY <1>1, <1>4, <1>5, <1>7, <1>8 DEF CoreInv
  <1> QED
    BY <1>1, <1>4, <1>5, <1>9 DEF StartInv, StartTypeOK, OrderInv, NoFault

LEMMA StartInvNext == StartInv /\ [StartNext]_startVars => StartInv'
  <1> SUFFICES ASSUME StartInv, [StartNext]_startVars PROVE StartInv'
    OBVIOUS
  <1>1. ASSUME NEW T \in Types, NEW identifier \in Identifiers, AskCommandLine(T, identifier)
        PROVE  StartInv'
    <2>1. CASE Ask(T, identifier) /\ UNCHANGED <<call, status, given, made>>
      BY <1>1, <2>1, InsideStep DEF AskCommandLine
    <2>2. CASE pc = "ready" /\ LeavesLine(T, identifier) /\ End("fault") /\ UNCHANGED lineVars
      BY <1>1, <2>2, LeftLine, CallNumbers DEF AskCommandLine, StartInv, StartTypeOK
    <2> QED BY <1>1, <2>1, <2>2 DEF AskCommandLine
  <1>2. CASE CommandLineInitialize
    BY <1>2, InsideStep DEF CommandLineInitialize
  <1>3. CASE UNCHANGED startVars
    BY <1>3, InsideStep DEF startVars, vars, loop
  <1>4. CASE Boots
    BY <1>4, <1>2, SerialStep, FramebufferStep, ReadCommandLineStep, ReadLogLevelStep,
       FindProcessorsStep, GDTStep, PMMStep, PagingStep, IDTStep, BrandStep, ACPIStep,
       ACPIRestStep, FeaturesStep, InstructionStep, APICsStep, LogStep, ReturnStep
       DEF Boots
  <1> QED
    BY <1>1, <1>3, <1>4, FindRangeStep, ACPIRestStep DEF StartNext

\* Whatever the boot loader, the firmware and CPUID answer, the start ends in
\* a fault only where it reads the command line of a null response, searches
\* for a "=" behind an empty argument, or reads the MADT of firmware that has
\* none: every other call of Kernel::Initialize
\* finds what it uses, and no instruction of InitializeSIMD or InitializeNX
\* comes before the control register bits that it needs.
THEOREM NoFaultHolds == StartSpec => []NoFault
  <1>1. StartInv => NoFault
    BY DEF StartInv
  <1> QED BY <1>1, StartInvInit, StartInvNext, PTL DEF StartSpec

(***************************************************************************)
(* Words as sets of bits.                                                  *)
(***************************************************************************)
\* The bits of a constant, one by one.
LEMMA BitAt ==
    ASSUME NEW n \in Nat
    PROVE  /\ Bits(n) \subseteq 0 .. 20
           /\ (0 \in Bits(n)) <=> ((n \div 1) % 2 = 1)
           /\ (1 \in Bits(n)) <=> ((n \div 2) % 2 = 1)
           /\ (2 \in Bits(n)) <=> ((n \div 4) % 2 = 1)
           /\ (3 \in Bits(n)) <=> ((n \div 8) % 2 = 1)
           /\ (4 \in Bits(n)) <=> ((n \div 16) % 2 = 1)
           /\ (5 \in Bits(n)) <=> ((n \div 32) % 2 = 1)
           /\ (6 \in Bits(n)) <=> ((n \div 64) % 2 = 1)
           /\ (7 \in Bits(n)) <=> ((n \div 128) % 2 = 1)
           /\ (8 \in Bits(n)) <=> ((n \div 256) % 2 = 1)
           /\ (9 \in Bits(n)) <=> ((n \div 512) % 2 = 1)
           /\ (10 \in Bits(n)) <=> ((n \div 1024) % 2 = 1)
           /\ (11 \in Bits(n)) <=> ((n \div 2048) % 2 = 1)
           /\ (12 \in Bits(n)) <=> ((n \div 4096) % 2 = 1)
           /\ (13 \in Bits(n)) <=> ((n \div 8192) % 2 = 1)
           /\ (14 \in Bits(n)) <=> ((n \div 16384) % 2 = 1)
           /\ (15 \in Bits(n)) <=> ((n \div 32768) % 2 = 1)
           /\ (16 \in Bits(n)) <=> ((n \div 65536) % 2 = 1)
           /\ (17 \in Bits(n)) <=> ((n \div 131072) % 2 = 1)
           /\ (18 \in Bits(n)) <=> ((n \div 262144) % 2 = 1)
           /\ (19 \in Bits(n)) <=> ((n \div 524288) % 2 = 1)
           /\ (20 \in Bits(n)) <=> ((n \div 1048576) % 2 = 1)
  BY SMT DEF Bits

\* The constants of GDT.cpp, IDT.cpp and of the processor's manual.
LEMMA Constants ==
    /\ Bits(1) = {0}
    /\ Bits(8) = {3}
    /\ Bits(9) = {0, 3}
    /\ Bits(14) = {1, 2, 3}
    /\ Bits(18) = {1, 4}
    /\ Bits(26) = {1, 3, 4}
    /\ Bits(103) = {0, 1, 2, 5, 6}
    /\ Bits(137) = {0, 3, 7}
    /\ Bits(142) = {1, 2, 3, 7}
    /\ Bits(146) = {1, 4, 7}
    /\ Bits(154) = {1, 3, 4, 7}
    /\ Bits(160) = {5, 7}
    /\ Bits(192) = {6, 7}
    /\ Bits(242) = {1, 4, 5, 6, 7}
    /\ Bits(250) = {1, 3, 4, 5, 6, 7}
    /\ Flat = 0 .. 19
  <1>1. Bits(1) = {0}
    <2>1. ASSUME NEW b \in 0 .. 20 PROVE b \in Bits(1) <=> b \in {0}
      BY BitAt, SMT
    <2> QED BY <2>1, BitAt, SMT
  <1>8. Bits(8) = {3}
    <2>1. ASSUME NEW b \in 0 .. 20 PROVE b \in Bits(8) <=> b \in {3}
      BY BitAt, SMT
    <2> QED BY <2>1, BitAt, SMT
  <1>9. Bits(9) = {0, 3}
    <2>1. ASSUME NEW b \in 0 .. 20 PROVE b \in Bits(9) <=> b \in {0, 3}
      BY BitAt, SMT
    <2> QED BY <2>1, BitAt, SMT
  <1>14. Bits(14) = {1, 2, 3}
    <2>1. ASSUME NEW b \in 0 .. 20 PROVE b \in Bits(14) <=> b \in {1, 2, 3}
      BY BitAt, SMT
    <2> QED BY <2>1, BitAt, SMT
  <1>18. Bits(18) = {1, 4}
    <2>1. ASSUME NEW b \in 0 .. 20 PROVE b \in Bits(18) <=> b \in {1, 4}
      BY BitAt, SMT
    <2> QED BY <2>1, BitAt, SMT
  <1>26. Bits(26) = {1, 3, 4}
    <2>1. ASSUME NEW b \in 0 .. 20 PROVE b \in Bits(26) <=> b \in {1, 3, 4}
      BY BitAt, SMT
    <2> QED BY <2>1, BitAt, SMT
  <1>103. Bits(103) = {0, 1, 2, 5, 6}
    <2>1. ASSUME NEW b \in 0 .. 20 PROVE b \in Bits(103) <=> b \in {0, 1, 2, 5, 6}
      BY BitAt, SMT
    <2> QED BY <2>1, BitAt, SMT
  <1>137. Bits(137) = {0, 3, 7}
    <2>1. ASSUME NEW b \in 0 .. 20 PROVE b \in Bits(137) <=> b \in {0, 3, 7}
      BY BitAt, SMT
    <2> QED BY <2>1, BitAt, SMT
  <1>142. Bits(142) = {1, 2, 3, 7}
    <2>1. ASSUME NEW b \in 0 .. 20 PROVE b \in Bits(142) <=> b \in {1, 2, 3, 7}
      BY BitAt, SMT
    <2> QED BY <2>1, BitAt, SMT
  <1>146. Bits(146) = {1, 4, 7}
    <2>1. ASSUME NEW b \in 0 .. 20 PROVE b \in Bits(146) <=> b \in {1, 4, 7}
      BY BitAt, SMT
    <2> QED BY <2>1, BitAt, SMT
  <1>154. Bits(154) = {1, 3, 4, 7}
    <2>1. ASSUME NEW b \in 0 .. 20 PROVE b \in Bits(154) <=> b \in {1, 3, 4, 7}
      BY BitAt, SMT
    <2> QED BY <2>1, BitAt, SMT
  <1>160. Bits(160) = {5, 7}
    <2>1. ASSUME NEW b \in 0 .. 20 PROVE b \in Bits(160) <=> b \in {5, 7}
      BY BitAt, SMT
    <2> QED BY <2>1, BitAt, SMT
  <1>192. Bits(192) = {6, 7}
    <2>1. ASSUME NEW b \in 0 .. 20 PROVE b \in Bits(192) <=> b \in {6, 7}
      BY BitAt, SMT
    <2> QED BY <2>1, BitAt, SMT
  <1>242. Bits(242) = {1, 4, 5, 6, 7}
    <2>1. ASSUME NEW b \in 0 .. 20 PROVE b \in Bits(242) <=> b \in {1, 4, 5, 6, 7}
      BY BitAt, SMT
    <2> QED BY <2>1, BitAt, SMT
  <1>250. Bits(250) = {1, 3, 4, 5, 6, 7}
    <2>1. ASSUME NEW b \in 0 .. 20 PROVE b \in Bits(250) <=> b \in {1, 3, 4, 5, 6, 7}
      BY BitAt, SMT
    <2> QED BY <2>1, BitAt, SMT
  <1>2. Flat = 0 .. 19
    <2>1. ASSUME NEW b \in 0 .. 20 PROVE b \in Bits(1048575) <=> b \in 0 .. 19
      BY BitAt, SMT
    <2> QED BY <2>1, BitAt, SMT DEF Flat
  <1> QED
    BY <1>1, <1>8, <1>9, <1>14, <1>18, <1>26, <1>103, <1>137, <1>142, <1>146, <1>154, <1>160, <1>192, <1>242, <1>250, <1>2, SMT

LEMMA InShl == ASSUME NEW w \in SUBSET Int, NEW n \in Nat, NEW x \in Int
               PROVE  x \in Shl(w, n) <=> x - n \in w
  <1>1. x - n \in w => x \in Shl(w, n)
    <2>1. x = (x - n) + n
      OBVIOUS
    <2> QED BY <2>1 DEF Shl
  <1>2. x \in Shl(w, n) => x - n \in w
    BY DEF Shl
  <1> QED BY <1>1, <1>2

LEMMA InShr == ASSUME NEW w \in SUBSET Int, NEW n \in Nat, NEW x \in Int
               PROVE  x \in Shr(w, n) <=> x >= 0 /\ x + n \in w
  <1>1. x >= 0 /\ x + n \in w => x \in Shr(w, n)
    <2>1. x = (x + n) - n /\ (x >= 0 => x + n >= n)
      OBVIOUS
    <2> QED BY <2>1 DEF Shr
  <1>2. x \in Shr(w, n) => x >= 0 /\ x + n \in w
    BY DEF Shr
  <1> QED BY <1>1, <1>2

LEMMA WordTypes == ASSUME NEW w \in SUBSET Int, NEW n \in Nat
                   PROVE  Shl(w, n) \in SUBSET Int /\ Shr(w, n) \in SUBSET Int
                          /\ Low(w, n) \in SUBSET Int
  BY DEF Shl, Shr, Low

LEMMA InLow == ASSUME NEW w, NEW n \in Nat, NEW x
               PROVE  x \in Low(w, n) <=> x \in w /\ x \in 0 .. n - 1
  BY DEF Low

\* A part of a part of a word: bits from and up, as many as n, moved to at.
LEMMA InPart ==
    ASSUME NEW w \in SUBSET Int, NEW from \in Nat, NEW n \in Nat, NEW at \in Nat, NEW x \in Int
    PROVE  x \in Shl(Low(Shr(w, from), n), at) <=> x - at \in 0 .. n - 1 /\ (x - at) + from \in w
  BY InShl, InShr, InLow, WordTypes

LEMMA InField ==
    ASSUME NEW w \in SUBSET Int, NEW from \in Nat, NEW to \in Nat, from <= to, NEW x \in Int
    PROVE  x \in Field(w, from, to) <=> x \in 0 .. to - from /\ x + from \in w
  BY InShr, InLow, WordTypes DEF Field

(***************************************************************************)
(* The segments, the TSS and the gates.                                    *)
(***************************************************************************)
LEMMA FlatEntry ==
    ASSUME NEW A \in SUBSET (0 .. 7), NEW G \in SUBSET (4 .. 7),
           NEW w, w = SetEntry({}, Flat, A, G)
    PROVE  /\ w \in SUBSET Int
           /\ \A x \in Int : x \in w <=> \/ x \in 0 .. 15 \/ x \in 48 .. 51
                                         \/ x - 40 \in A \/ x - 48 \in G
  <1>0. Flat = 0 .. 19
    BY Constants, SMT
  <1>1. /\ Flat \in SUBSET Int /\ A \in SUBSET Int /\ G \in SUBSET Int
        /\ G \cap (4 .. 7) = G /\ Flat = 0 .. 19
    <2>1. Flat \in SUBSET Int
      BY <1>0
    <2>2. A \in SUBSET Int /\ G \in SUBSET Int
      OBVIOUS
    <2>3. G \cap (4 .. 7) = G
      OBVIOUS
    <2> QED BY <1>0, <2>1, <2>2, <2>3
  <1>2. w = UNION {Low(Flat, 16), Shl(Low({}, 16), 16), Shl(Low(Shr({}, 16), 8), 32), Shl(A, 40),
                   Shl(Low(Shr(Flat, 16), 4), 48), Shl(G, 48), Shl(Low(Shr({}, 24), 8), 56)}
    BY <1>1 DEF SetEntry
  <1>3. Shl(Low({}, 16), 16) = {}
    BY DEF Shl, Low
  <1>4. Shl(Low(Shr({}, 16), 8), 32) = {} /\ Shl(Low(Shr({}, 24), 8), 56) = {}
    BY DEF Shl, Low, Shr
  <1>5. w = Low(Flat, 16) \cup Shl(A, 40) \cup Shl(Low(Shr(Flat, 16), 4), 48) \cup Shl(G, 48)
    BY <1>2, <1>3, <1>4
  <1>6. w \in SUBSET Int
    BY <1>1, <1>5, WordTypes
  <1>7. ASSUME NEW x \in Int
        PROVE  x \in w <=> x \in 0 .. 15 \/ x \in 48 .. 51 \/ x - 40 \in A \/ x - 48 \in G
    <2>1. x \in Low(Flat, 16) <=> x \in 0 .. 15
      BY <1>1, InLow
    <2>2. x \in Shl(Low(Shr(Flat, 16), 4), 48) <=> x \in 48 .. 51
      BY <1>1, InPart
    <2>3. x \in Shl(A, 40) <=> x - 40 \in A
      BY <1>1, InShl
    <2>4. x \in Shl(G, 48) <=> x - 48 \in G
      BY <1>1, InShl
    <2> QED BY <1>5, <2>1, <2>2, <2>3, <2>4
  <1> QED BY <1>6, <1>7

\* Every segment but the null one is flat: its base is 0, its limit 2^20 - 1,
\* its access byte and its flags are those that were given.
LEMMA FlatReads ==
    ASSUME NEW A \in SUBSET (0 .. 7), NEW G \in SUBSET (4 .. 7),
           NEW w, w = SetEntry({}, Flat, A, G)
    PROVE  /\ SegBase(w) = {} /\ SegLimit(w) = 0 .. 19
           /\ SegType(w) = A \cap (0 .. 4)
           /\ (0 \in SegDpl(w) <=> 5 \in A) /\ (1 \in SegDpl(w) <=> 6 \in A)
           /\ SegDpl(w) \subseteq {0, 1}
           /\ SegPresent(w) <=> 7 \in A
           /\ SegLong(w) <=> 5 \in G /\ 6 \notin G
           /\ 55 \in w <=> 7 \in G
  <1>1. w \in SUBSET Int
    BY FlatEntry
  <1>2. \A x \in Int : x \in w <=> \/ x \in 0 .. 15 \/ x \in 48 .. 51
                                   \/ x - 40 \in A \/ x - 48 \in G
    BY FlatEntry
  <1>3. (\A a \in A : a \in 0 .. 7) /\ (\A g \in G : g \in 4 .. 7)
    OBVIOUS
  <1>4. SegBase(w) = {}
    <2>1. ASSUME NEW x \in Int PROVE x \notin Field(w, 16, 39)
      BY <1>1, <1>2, <1>3, InField
    <2>2. ASSUME NEW x \in Int PROVE x \notin Field(w, 56, 63)
      BY <1>1, <1>2, <1>3, InField
    <2>3. Field(w, 16, 39) \in SUBSET Int /\ Field(w, 56, 63) \in SUBSET Int
      BY <1>1, WordTypes DEF Field
    <2>4. Field(w, 16, 39) = {} /\ Field(w, 56, 63) = {}
      BY <2>1, <2>2, <2>3
    <2> QED BY <2>4 DEF SegBase, Shl
  <1>5. SegLimit(w) = 0 .. 19
    <2>1. Field(w, 0, 15) \in SUBSET Int /\ Field(w, 48, 51) \in SUBSET Int
      BY <1>1, WordTypes DEF Field
    <2>2. ASSUME NEW x \in Int PROVE x \in SegLimit(w) <=> x \in 0 .. 19
      <3>1. x \in Field(w, 0, 15) <=> x \in 0 .. 15
        BY <1>1, <1>2, InField
      <3>2. x \in Shl(Field(w, 48, 51), 16) <=> x - 16 \in 0 .. 3 /\ (x - 16) + 48 \in w
        BY <1>1, <2>1, InShl, InField
      <3>3. x - 16 \in 0 .. 3 => (x - 16) + 48 \in w
        BY <1>2
      <3> QED BY <3>1, <3>2, <3>3 DEF SegLimit
    <2>3. SegLimit(w) \in SUBSET Int
      BY <2>1, WordTypes DEF SegLimit
    <2> QED BY <2>2, <2>3
  <1>6. SegType(w) = A \cap (0 .. 4)
    <2>1. ASSUME NEW x \in Int PROVE x \in Field(w, 40, 44) <=> x \in A \cap (0 .. 4)
      <3>1. x \in Field(w, 40, 44) <=> x \in 0 .. 4 /\ x + 40 \in w
        BY <1>1, InField
      <3>2. (x + 40) - 40 = x
        OBVIOUS
      <3>3. x \in 0 .. 4 => (x + 40 \in w <=> x \in A)
        BY <1>2, <1>3, <3>2
      <3> QED BY <3>1, <3>3
    <2>2. Field(w, 40, 44) \in SUBSET Int /\ A \in SUBSET Int
      BY <1>1, <1>3, WordTypes DEF Field
    <2> QED BY <2>1, <2>2 DEF SegType
  <1>7. /\ (0 \in SegDpl(w) <=> 5 \in A) /\ (1 \in SegDpl(w) <=> 6 \in A)
        /\ SegDpl(w) \subseteq {0, 1}
    <2>1. (45 \in w <=> 5 \in A) /\ (46 \in w <=> 6 \in A)
      BY <1>2, <1>3
    <2>2. \A x \in Int : x \in Field(w, 45, 46) <=> x \in 0 .. 1 /\ x + 45 \in w
      BY <1>1, InField
    <2>3. Field(w, 45, 46) \in SUBSET Int
      BY <1>1, WordTypes DEF Field
    <2> QED BY <2>1, <2>2, <2>3 DEF SegDpl
  <1>8. /\ SegPresent(w) <=> 7 \in A
        /\ SegLong(w) <=> 5 \in G /\ 6 \notin G
        /\ 55 \in w <=> 7 \in G
    BY <1>2, <1>3 DEF SegPresent, SegLong
  <1> QED BY <1>4, <1>5, <1>6, <1>7, <1>8

\* The TSS descriptor: the processor puts the pieces of the base together to
\* the address of the TSS, wherever that is.
LEMMA TssEntryReads ==
    ASSUME NEW base \in SUBSET (0 .. 63), NEW d, d = SetTSSDescriptor(base, Bits(SizeOfTSS - 1))
    PROVE  /\ SegPresent(d[1]) /\ SegType(d[1]) = TssType /\ SegDpl(d[1]) = {}
           /\ SegBase(d[1]) \cup Shl(d[2], 32) = base
           /\ SegLimit(d[1]) = Bits(103) /\ 55 \notin d[1]
  <1> DEFINE w == d[1]
             limit == {0, 1, 2, 5, 6}
             access == {0, 3, 7}
  <1>1. Bits(SizeOfTSS - 1) = limit /\ Bits(137) = access /\ Bits(103) = limit
    <2>1. SizeOfTSS - 1 = 103
      BY DEF SizeOfTSS
    <2> QED BY <2>1, Constants, SMT
  <1>2. /\ w = UNION {Low(limit, 16), Shl(Low(base, 24), 16), Shl(access, 40),
                      Shl(Low(Shr(limit, 16), 4), 48), Shl(Low(Shr(base, 24), 8), 56)}
        /\ d[2] = Low(Shr(base, 32), 32)
    BY <1>1 DEF SetTSSDescriptor
  <1> HIDE DEF w
  <1>3. base \in SUBSET Int /\ limit \in SUBSET Int /\ access \in SUBSET Int
    OBVIOUS
  <1>4. w \in SUBSET Int /\ d[2] \in SUBSET Int
    BY <1>2, <1>3, WordTypes
  <1>5. ASSUME NEW x \in Int
        PROVE  x \in w <=> \/ x \in limit
                           \/ x - 16 \in 0 .. 23 /\ x - 16 \in base
                           \/ x - 40 \in access
                           \/ x - 56 \in 0 .. 7 /\ (x - 56) + 24 \in base
    <2>1. x \in Low(limit, 16) <=> x \in limit
      BY InLow
    <2>2. x \in Shl(Low(base, 24), 16) <=> x - 16 \in 0 .. 23 /\ x - 16 \in base
      BY <1>3, InShl, InLow, WordTypes
    <2>3. x \in Shl(access, 40) <=> x - 40 \in access
      BY <1>3, InShl
    <2>4. x \notin Shl(Low(Shr(limit, 16), 4), 48)
      <3>1. x - 48 \in 0 .. 3 => (x - 48) + 16 \notin limit
        OBVIOUS
      <3> HIDE DEF limit
      <3>2. x \in Shl(Low(Shr(limit, 16), 4), 48) <=> x - 48 \in 0 .. 3 /\ (x - 48) + 16 \in limit
        BY ONLY <1>3, x \in Int, InPart
      <3> QED BY <3>1, <3>2
    <2>5. x \in Shl(Low(Shr(base, 24), 8), 56) <=> x - 56 \in 0 .. 7 /\ (x - 56) + 24 \in base
      BY ONLY <1>3, x \in Int, InPart
    <2> QED BY <1>2, <2>1, <2>2, <2>3, <2>4, <2>5
  <1>6. \A b \in base : b \in 0 .. 63
    OBVIOUS
  <1>7. SegPresent(w) /\ 55 \notin w /\ 45 \notin w /\ 46 \notin w
    BY <1>5, <1>6 DEF SegPresent
  <1>8. SegType(w) = TssType
    <2>1. ASSUME NEW x \in Int PROVE x \in Field(w, 40, 44) <=> x \in {0, 3}
      <3>1. x \in Field(w, 40, 44) <=> x \in 0 .. 4 /\ x + 40 \in w
        BY <1>4, InField
      <3>2. x \in 0 .. 4 => (x + 40 \in w <=> x \in {0, 3})
        BY <1>5, <1>6
      <3> QED BY <3>1, <3>2
    <2>2. Field(w, 40, 44) \in SUBSET Int
      BY <1>4, WordTypes DEF Field
    <2>3. TssType = {0, 3}
      BY Constants, SMT DEF TssType
    <2> QED BY <2>1, <2>2, <2>3 DEF SegType
  <1>9. SegDpl(w) = {}
    <2>1. ASSUME NEW x \in Int PROVE x \notin Field(w, 45, 46)
      <3>1. x \in Field(w, 45, 46) <=> x \in 0 .. 1 /\ x + 45 \in w
        BY <1>4, InField
      <3> QED BY <3>1, <1>7
    <2>2. Field(w, 45, 46) \in SUBSET Int
      BY <1>4, WordTypes DEF Field
    <2> QED BY <2>1, <2>2 DEF SegDpl
  <1>10. SegBase(w) \cup Shl(d[2], 32) = base
    <2>1. Field(w, 16, 39) \in SUBSET Int /\ Field(w, 56, 63) \in SUBSET Int
      BY <1>4, WordTypes DEF Field
    <2>2. ASSUME NEW x \in Int PROVE x \in SegBase(w) \cup Shl(d[2], 32) <=> x \in base
      <3>1. x \in Field(w, 16, 39) <=> x \in 0 .. 23 /\ x + 16 \in w
        BY <1>4, InField
      <3>2. x \in 0 .. 23 => (x + 16 \in w <=> x \in base)
        <4>1. (x + 16) - 16 = x
          OBVIOUS
        <4> QED BY <1>5, <1>6, <4>1
      <3>3. x \in Shl(Field(w, 56, 63), 24) <=> x - 24 \in 0 .. 7 /\ (x - 24) + 56 \in w
        BY <1>4, <2>1, InShl, InField
      <3>4. x - 24 \in 0 .. 7 => ((x - 24) + 56 \in w <=> x \in base)
        <4>1. (((x - 24) + 56) - 56) + 24 = x
          OBVIOUS
        <4> QED BY <1>5, <1>6, <4>1
      <3>5. x \in Shl(d[2], 32) <=> x - 32 \in 0 .. 31 /\ x \in base
        <4>1. x \in Shl(d[2], 32) <=> x - 32 \in 0 .. 31 /\ (x - 32) + 32 \in base
          BY <1>2, <1>3, InPart
        <4>2. (x - 32) + 32 = x
          OBVIOUS
        <4> QED BY <4>1, <4>2
      <3>6. x \in base => x \in 0 .. 63
        BY <1>6
      <3> QED BY <3>1, <3>2, <3>3, <3>4, <3>5, <3>6 DEF SegBase
    <2>3. SegBase(w) \cup Shl(d[2], 32) \in SUBSET Int
      BY <1>4, <2>1, WordTypes DEF SegBase
    <2> QED BY <1>3, <2>2, <2>3
  <1>11. SegLimit(w) = limit
    <2>1. Field(w, 0, 15) \in SUBSET Int /\ Field(w, 48, 51) \in SUBSET Int
      BY <1>4, WordTypes DEF Field
    <2>2. ASSUME NEW x \in Int PROVE x \in SegLimit(w) <=> x \in limit
      <3>1. x \in Field(w, 0, 15) <=> x \in 0 .. 15 /\ x + 0 \in w
        BY <1>4, InField
      <3>2. x \in 0 .. 15 => (x + 0 \in w <=> x \in limit)
        BY <1>5, <1>6
      <3>3. x \in Shl(Field(w, 48, 51), 16) <=> x - 16 \in 0 .. 3 /\ (x - 16) + 48 \in w
        BY <1>4, <2>1, InShl, InField
      <3>4. x - 16 \in 0 .. 3 => (x - 16) + 48 \notin w
        BY <1>5, <1>6
      <3> QED BY <3>1, <3>2, <3>3, <3>4 DEF SegLimit
    <2>3. SegLimit(w) \in SUBSET Int
      BY <2>1, WordTypes DEF SegLimit
    <2> QED BY <1>3, <2>2, <2>3
  <1> QED BY <1>1, <1>7, <1>8, <1>9, <1>10, <1>11 DEF w

LEMMA GdtExact == ASSUME NEW a \in SUBSET (0 .. 63) PROVE GdtReads(GDT(a), a)
  <1> DEFINE g == GDT(a)
             d == SetTSSDescriptor(a, Bits(SizeOfTSS - 1))
  <1>1. /\ g[0] = SetEntry({}, {}, {}, {}) /\ g[1] = SetEntry({}, Flat, Bits(154), Bits(160))
        /\ g[2] = SetEntry({}, Flat, Bits(146), Bits(160)) /\ g[3] = d[1] /\ g[4] = d[2]
        /\ g[5] = SetEntry({}, Flat, Bits(242), Bits(192))
        /\ g[6] = SetEntry({}, Flat, Bits(242), Bits(160))
        /\ g[7] = SetEntry({}, Flat, Bits(250), Bits(160))
    BY DEF GDT
  <1> HIDE DEF g, d
  <1>2. /\ Bits(154) = {1, 3, 4, 7} /\ Bits(146) = {1, 4, 7} /\ Bits(242) = {1, 4, 5, 6, 7}
        /\ Bits(250) = {1, 3, 4, 5, 6, 7} /\ Bits(160) = {5, 7} /\ Bits(192) = {6, 7}
        /\ CodeType = {1, 3, 4} /\ DataType = {1, 4}
    BY Constants, SMT DEF CodeType, DataType
  <1>3. g[0] = {}
    <2>1. Low({}, 16) = {} /\ Shl(Low({}, 16), 16) = {} /\ Shl({}, 40) = {}
      BY DEF Low, Shl
    <2>2. /\ Shl(Low(Shr({}, 16), 8), 32) = {} /\ Shl(Low(Shr({}, 16), 4), 48) = {}
          /\ Shl(Low(Shr({}, 24), 8), 56) = {} /\ Shl({} \cap (4 .. 7), 48) = {}
      BY DEF Low, Shl, Shr
    <2>3. SetEntry({}, {}, {}, {}) = UNION {{}}
      BY <2>1, <2>2 DEF SetEntry
    <2> QED BY <1>1, <2>3
  <1> DEFINE A(i) == IF i = 1 THEN Bits(154) ELSE IF i = 2 THEN Bits(146)
                     ELSE IF i = 7 THEN Bits(250) ELSE Bits(242)
             G(i) == IF i = 5 THEN Bits(192) ELSE Bits(160)
  <1>4. ASSUME NEW i \in {1, 2, 5, 6, 7}
        PROVE  /\ g[i] = SetEntry({}, Flat, A(i), G(i))
               /\ A(i) \in SUBSET (0 .. 7) /\ G(i) \in SUBSET (4 .. 7)
               /\ 7 \in A(i) /\ 7 \in G(i)
    BY <1>1, <1>2
  <1> HIDE DEF A, G
  <1>5. ASSUME NEW i \in {1, 2, 5, 6, 7}
        PROVE  /\ SegPresent(g[i]) /\ SegBase(g[i]) = {} /\ SegLimit(g[i]) = 0 .. 19 /\ 55 \in g[i]
               /\ SegType(g[i]) = A(i) \cap (0 .. 4)
               /\ (0 \in SegDpl(g[i]) <=> 5 \in A(i)) /\ (1 \in SegDpl(g[i]) <=> 6 \in A(i))
               /\ SegDpl(g[i]) \subseteq {0, 1}
               /\ SegLong(g[i]) <=> 5 \in G(i) /\ 6 \notin G(i)
    <2> DEFINE w == g[i]
    <2>1. w = SetEntry({}, Flat, A(i), G(i)) /\ A(i) \in SUBSET (0 .. 7) /\ G(i) \in SUBSET (4 .. 7)
          /\ 7 \in A(i) /\ 7 \in G(i)
      BY <1>4
    <2> HIDE DEF w
    <2>2. /\ SegBase(w) = {} /\ SegLimit(w) = 0 .. 19
          /\ SegType(w) = A(i) \cap (0 .. 4)
          /\ (0 \in SegDpl(w) <=> 5 \in A(i)) /\ (1 \in SegDpl(w) <=> 6 \in A(i))
          /\ SegDpl(w) \subseteq {0, 1}
          /\ SegPresent(w) <=> 7 \in A(i)
          /\ SegLong(w) <=> 5 \in G(i) /\ 6 \notin G(i)
          /\ 55 \in w <=> 7 \in G(i)
      BY <2>1, FlatReads
    <2> QED BY <2>1, <2>2 DEF w
  <1>6. SegDpl(g[1]) = {} /\ SegDpl(g[2]) = {}
    <2>1. 5 \notin A(1) /\ 6 \notin A(1) /\ 5 \notin A(2) /\ 6 \notin A(2)
      BY <1>2 DEF A
    <2> QED BY <1>5, <2>1
  <1>7. SegDpl(g[5]) = {0, 1} /\ SegDpl(g[6]) = {0, 1} /\ SegDpl(g[7]) = {0, 1}
    <2>1. \A i \in {5, 6, 7} : 5 \in A(i) /\ 6 \in A(i)
      BY <1>2 DEF A
    <2> QED BY <1>5, <2>1
  <1>8. SegType(g[1]) = CodeType /\ SegType(g[2]) = DataType
    <2>1. A(1) \cap (0 .. 4) = {1, 3, 4} /\ A(2) \cap (0 .. 4) = {1, 4}
      BY <1>2 DEF A
    <2> QED BY <1>2, <1>5, <2>1
  <1>9. SegType(g[6]) = DataType /\ SegType(g[7]) = CodeType
    <2>1. A(6) \cap (0 .. 4) = {1, 4} /\ A(7) \cap (0 .. 4) = {1, 3, 4}
      BY <1>2 DEF A
    <2> QED BY <1>2, <1>5, <2>1
  <1>10. SegLong(g[1]) /\ SegLong(g[7])
    <2>1. 5 \in G(1) /\ 6 \notin G(1) /\ 5 \in G(7) /\ 6 \notin G(7)
      BY <1>2 DEF G
    <2> QED BY <1>5, <2>1
  <1>11. /\ SegPresent(g[3]) /\ SegType(g[3]) = TssType /\ SegDpl(g[3]) = {}
         /\ SegBase(g[3]) \cup Shl(g[4], 32) = a
         /\ SegLimit(g[3]) = Bits(103) /\ 55 \notin g[3]
    BY <1>1, TssEntryReads DEF d
  <1>12. KernelCode \div 8 = 1 /\ TssSelector \div 8 = 3 /\ 3 + 1 = 4
    BY DEF KernelCode, TssSelector
  <1>13. GdtReads(g, a)
    BY <1>3, <1>5, <1>6, <1>7, <1>8, <1>9, <1>10, <1>11, <1>12 DEF GdtReads
  <1> QED BY <1>13 DEF g

\* The gate of a vector, with the address of its stub in three pieces.
LEMMA GateExact ==
    ASSUME NEW isr \in SUBSET (0 .. 63), NEW v
    PROVE  GateReads(Gate(v, isr), v, isr)
  <1> DEFINE w == Gate(v, isr)
             ist == IF v \in IstVectors THEN {0} ELSE {}
             flags == {1, 2, 3, 7}
  <1>1. Bits(KernelCode) = {3} /\ Bits(142) = flags /\ Bits(1) = {0} /\ Bits(8) = {3}
        /\ Bits(14) = {1, 2, 3}
    BY Constants, SMT DEF KernelCode
  <1>2. w = UNION {Low(isr, 16), Shl({3}, 16), Shl(ist, 32), Shl(flags, 40),
                   Shl(Low(Shr(isr, 16), 16), 48), Shl(Low(Shr(isr, 32), 32), 64)}
    BY <1>1 DEF Gate, SetIDTEntry
  <1> HIDE DEF w
  <1>3. isr \in SUBSET Int /\ ist \in SUBSET Int /\ flags \in SUBSET Int /\ {3} \in SUBSET Int
        /\ ist \subseteq {0}
    OBVIOUS
  <1> HIDE DEF ist
  <1>4. w \in SUBSET Int
    BY <1>2, <1>3, WordTypes
  <1>5. ASSUME NEW x \in Int
        PROVE  x \in w <=> \/ x \in isr /\ x \in 0 .. 15
                           \/ x = 19
                           \/ x - 32 \in ist
                           \/ x - 40 \in flags
                           \/ x - 48 \in 0 .. 15 /\ (x - 48) + 16 \in isr
                           \/ x - 64 \in 0 .. 31 /\ (x - 64) + 32 \in isr
    <2>1. x \in Low(isr, 16) <=> x \in isr /\ x \in 0 .. 15
      BY InLow
    <2>2. x \in Shl({3}, 16) <=> x = 19
      BY <1>3, InShl
    <2>3. x \in Shl(flags, 40) <=> x - 40 \in flags
      BY <1>3, InShl
    <2>4. x \in Shl(ist, 32) <=> x - 32 \in ist
      BY <1>3, InShl
    <2>5. x \in Shl(Low(Shr(isr, 16), 16), 48) <=> x - 48 \in 0 .. 15 /\ (x - 48) + 16 \in isr
      BY <1>3, InPart
    <2>6. x \in Shl(Low(Shr(isr, 32), 32), 64) <=> x - 64 \in 0 .. 31 /\ (x - 64) + 32 \in isr
      BY <1>3, InPart
    <2> QED BY <1>2, <2>1, <2>2, <2>3, <2>4, <2>5, <2>6
  <1>6. (\A b \in isr : b \in 0 .. 63) /\ (\A b \in ist : b = 0)
    BY <1>3
  <1>7. GateOffset(w) = isr
    <2>1. Field(w, 0, 15) \in SUBSET Int /\ Field(w, 48, 95) \in SUBSET Int
      BY <1>4, WordTypes DEF Field
    <2>2. ASSUME NEW x \in Int PROVE x \in GateOffset(w) <=> x \in isr
      <3>1. x \in Field(w, 0, 15) <=> x \in 0 .. 15 /\ x + 0 \in w
        BY <1>4, InField
      <3>2. x \in 0 .. 15 => (x + 0 \in w <=> x \in isr)
        BY <1>5, <1>6
      <3>3. x \in Shl(Field(w, 48, 95), 16) <=> x - 16 \in 0 .. 47 /\ (x - 16) + 48 \in w
        BY <1>4, <2>1, InShl, InField
      <3>4. x - 16 \in 0 .. 47 => ((x - 16) + 48 \in w <=> x \in isr)
        <4>1. (((x - 16) + 48) - 48) + 16 = x /\ (((x - 16) + 48) - 64) + 32 = x
          OBVIOUS
        <4> QED BY <1>5, <1>6, <4>1
      <3>5. x \in isr => x \in 0 .. 63
        BY <1>6
      <3> QED BY <3>1, <3>2, <3>3, <3>4, <3>5 DEF GateOffset
    <2>3. GateOffset(w) \in SUBSET Int
      BY <2>1, WordTypes DEF GateOffset
    <2> QED BY <1>3, <2>2, <2>3
  <1>8. GateSelector(w) = {3}
    <2>1. ASSUME NEW x \in Int PROVE x \in Field(w, 16, 31) <=> x = 3
      <3>1. x \in Field(w, 16, 31) <=> x \in 0 .. 15 /\ x + 16 \in w
        BY <1>4, InField
      <3>2. x \in 0 .. 15 => (x + 16 \in w <=> x = 3)
        BY <1>5, <1>6
      <3> QED BY <3>1, <3>2
    <2>2. Field(w, 16, 31) \in SUBSET Int
      BY <1>4, WordTypes DEF Field
    <2> QED BY <2>1, <2>2 DEF GateSelector
  <1>9. GateType(w) = {1, 2, 3, 7}
    <2>1. ASSUME NEW x \in Int PROVE x \in Field(w, 40, 47) <=> x \in flags
      <3>1. x \in Field(w, 40, 47) <=> x \in 0 .. 7 /\ x + 40 \in w
        BY <1>4, InField
      <3>2. x \in 0 .. 7 => (x + 40 \in w <=> x \in flags)
        BY <1>5, <1>6
      <3> QED BY <3>1, <3>2
    <2>2. Field(w, 40, 47) \in SUBSET Int
      BY <1>4, WordTypes DEF Field
    <2> QED BY <2>1, <2>2 DEF GateType
  <1>10. GateIst(w) = ist
    <2>1. ASSUME NEW x \in Int PROVE x \in Field(w, 32, 34) <=> x \in ist
      <3>1. x \in Field(w, 32, 34) <=> x \in 0 .. 2 /\ x + 32 \in w
        BY <1>4, InField
      <3>2. (x + 32) - 32 = x
        OBVIOUS
      <3>3. x \in 0 .. 2 => (x + 32 \in w <=> x \in ist)
        BY <1>5, <1>6, <3>2
      <3> QED BY <3>1, <3>3, <1>6
    <2>2. Field(w, 32, 34) \in SUBSET Int
      BY <1>4, WordTypes DEF Field
    <2> QED BY <1>3, <2>1, <2>2 DEF GateIst
  <1>11. Bits(14) \cup {7} = {1, 2, 3, 7}
    BY <1>1
  <1> QED BY <1>1, <1>7, <1>8, <1>9, <1>10, <1>11 DEF GateReads, w, ist

(***************************************************************************)
(* What a call leaves in made.  given and made are those of one call: the  *)
(* steps of the others do not touch them.                                  *)
(***************************************************************************)
Kept(calls) == UNCHANGED <<call, given, made>> \/ made' = <<>> \/ call' \notin calls

LEMMA ByCall ==
    ASSUME StartInv, [StartNext]_startVars
    PROVE  \/ Kept({5, 7, 8, 9, 12, 15})
           \/ call' = 5 /\ GDTInitialize
           \/ call' = 7 /\ (InitializePaging \/ \E n \in Counts : FindRange(n))
           \/ call' = 8 /\ IDTInitialize
           \/ call' = 9 /\ (ReadBrand \/ ShiftBrand \/ EndBrand)
           \/ call' = 12 /\ (\/ ACPIInitialize \/ SCIEnabled
                            \/ \E sig \in Signatures, index \in 0 .. 1 : AskTable(sig, index))
           \/ call' \in {15, 16} /\ LogInfo
  <1>1. CASE UNCHANGED startVars
    BY <1>1 DEF startVars, Kept
  <1>2. CASE SerialInitialize \/ FramebufferInitialize \/ ReadCommandLine \/ CommandLineInitialize
             \/ ReadLogLevel \/ FindProcessors \/ Return
    BY <1>2 DEF Kept, SerialInitialize, FramebufferInitialize, ReadCommandLine,
       CommandLineInitialize, ReadLogLevel, FindProcessors, Return
  <1>3. CASE PMMInitialize \/ Start \/ \E name \in {"ioapic", "lapic"} : APICsInitialize(name)
    BY <1>3 DEF Kept, PMMInitialize, APICsInitialize, Start
  <1>4. CASE InitializePaging \/ \E n \in Counts : FindRange(n)
    <2>1. call' = 7
      BY <1>4, CallNumbers DEF StartInv, StartTypeOK, InitializePaging, FindRange
    <2> QED BY <1>4, <2>1
  <1>5. CASE ReadBrand \/ ShiftBrand \/ EndBrand
    <2>1. call' = 9
      BY <1>5, CallNumbers DEF StartInv, StartTypeOK, ReadBrand, ShiftBrand, EndBrand
    <2> QED BY <1>5, <2>1
  <1>6. CASE \E name \in {"simd", "nx"} : ReadFeatures(name) \/ Instruction(name)
    <2>1. call' \in {10, 11}
      BY <1>6, CallNumbers DEF StartInv, StartTypeOK, ReadFeatures, Instruction
    <2> QED BY <2>1 DEF Kept
  <1>7. CASE ACPIInitialize \/ SCIEnabled
             \/ \E sig \in Signatures, index \in 0 .. 1 : AskTable(sig, index)
    <2>1. call' = 12
      BY <1>7, CallNumbers DEF StartInv, StartTypeOK, ACPIInitialize, SCIEnabled, AskTable
    <2> QED BY <1>7, <2>1
  <1>8. CASE LogInfo
    <2>1. call' \in {15, 16}
      BY <1>8, CallNumbers DEF StartInv, StartTypeOK, LogInfo
    <2> QED BY <1>8, <2>1
  <1>9. CASE \E T \in Types, identifier \in Identifiers : AskCommandLine(T, identifier)
    BY <1>9 DEF Kept, AskCommandLine
  <1>10. CASE GDTInitialize
    <2>1. call' = 5
      BY <1>10, CallNumbers DEF StartInv, StartTypeOK, GDTInitialize
    <2> QED BY <1>10, <2>1
  <1>11. CASE IDTInitialize
    <2>1. call' = 8
      BY <1>11, CallNumbers DEF StartInv, StartTypeOK, IDTInitialize
    <2> QED BY <1>11, <2>1
  <1> QED
    BY <1>10, <1>11, <1>1, <1>2, <1>3, <1>4, <1>5, <1>6, <1>7, <1>8, <1>9 DEF StartNext, Boots

TssResult == TSS("StackTop", "DefaultFaultHandlerTop")
GdtResult(g, m) == g \in Addresses /\ m[2] = [gdt |-> GDT(g), tss |-> TssResult]
IdtResult(g, m) == g[2] \in Addresses /\ m[2] = Gate(g[1], g[2])
TablesInv == /\ call = 5 /\ made # <<>> => GdtResult(given, made)
             /\ call = 8 /\ made # <<>> => IdtResult(given, made)

LEMMA TablesInvNext == StartInv /\ TablesInv /\ [StartNext]_startVars => TablesInv'
  <1> SUFFICES ASSUME StartInv, TablesInv, [StartNext]_startVars PROVE TablesInv'
    OBVIOUS
  <1>1. CASE Kept({5, 7, 8, 9, 12, 15}) \/ call' \notin {5, 8}
    BY <1>1 DEF Kept, TablesInv
  <1>2. CASE GDTInitialize
    <2>1. call = 5 /\ There("mp")
      BY <1>2, CallNumbers DEF StartInv, StartTypeOK, OrderInv, GDTInitialize
    <2>2. PICK address \in Addresses :
            Leave(address, Done([gdt |-> GDT(address), tss |-> TssResult]))
      BY <1>2, <2>1 DEF GDTInitialize, TssResult
    <2>3. given' \in Addresses /\ made'[2] = [gdt |-> GDT(given'), tss |-> TssResult] /\ call' = 5
      BY <2>1, <2>2, Marks
    <2> QED BY <2>3 DEF TablesInv, GdtResult
  <1>3. CASE IDTInitialize
    <2>1. call = 8 /\ "gdt" \in up /\ "paging" \in up
      BY <1>3, CallNumbers DEF StartInv, StartTypeOK, OrderInv, IDTInitialize
    <2>2. PICK v \in {0, 8, 13, 14, 32}, isr \in Addresses : Leave(<<v, isr>>, Done(Gate(v, isr)))
      BY <1>3, <2>1 DEF IDTInitialize
    <2>3. given'[1] = v /\ given'[2] = isr /\ made'[2] = Gate(v, isr) /\ call' = 8
      BY <2>1, <2>2, Marks
    <2> QED BY <2>3 DEF TablesInv, IdtResult
  <1> QED BY <1>1, <1>2, <1>3, ByCall

LEMMA TablesExact == StartInv /\ TablesInv => DescriptorsExact
  <1> SUFFICES ASSUME StartInv, TablesInv PROVE DescriptorsExact
    OBVIOUS
  <1>1. ASSUME Finished("gdt") PROVE GdtReads(made[2].gdt, given) /\ TssReads(made[2].tss)
    <2>1. call = 5 /\ made # <<>>
      BY <1>1, CallNumbers DEF StartInv, StartTypeOK
    <2>2. given \in Addresses /\ made[2] = [gdt |-> GDT(given), tss |-> TssResult]
      BY <2>1 DEF TablesInv, GdtResult
    <2>3. given \in SUBSET (0 .. 63)
      BY <2>2, KernelStartAssumption
    <2>4. GdtReads(GDT(given), given)
      BY <2>3, GdtExact
    <2>5. TssReads(TssResult)
      BY DEF TssReads, TssResult, TSS, SizeOfTSS
    <2>6. made[2].gdt = GDT(given) /\ made[2].tss = TssResult
      BY <2>2
    <2> QED BY <2>4, <2>5, <2>6
  <1>2. ASSUME Finished("idt") PROVE GateReads(made[2], given[1], given[2])
    <2>1. call = 8 /\ made # <<>>
      BY <1>2, CallNumbers DEF StartInv, StartTypeOK
    <2>2. given[2] \in Addresses /\ made[2] = Gate(given[1], given[2])
      BY <2>1 DEF TablesInv, IdtResult
    <2>3. given[2] \in SUBSET (0 .. 63)
      BY <2>2, KernelStartAssumption
    <2> QED BY <2>2, <2>3, GateExact
  <1> QED BY <1>1, <1>2 DEF DescriptorsExact

\* For every address the TSS and the interrupt stubs may have, the processor
\* reads from the tables of GDT::Initialize and IDT::Initialize what they
\* were built from: no bit of an address is lost or moved by the splitting
\* of SetEntry, SetTSSDescriptor and SetIDTEntry.
THEOREM DescriptorsExactHolds == StartSpec => []DescriptorsExact
  <1>1. StartInit => TablesInv
    BY DEF StartInit, TablesInv
  <1> QED
    BY <1>1, StartInvInit, StartInvNext, TablesInvNext, TablesExact, PTL DEF StartSpec

(***************************************************************************)
(* The brand string.                                                       *)
(***************************************************************************)
LEMMA Least ==
    ASSUME NEW T \in SUBSET Nat, T # {}
    PROVE  \E x \in T : \A y \in T : x <= y
  <1> DEFINE R == OpToRel(<, Nat)
  <1>1. IsWellFoundedOn(R, Nat)
    BY NatLessThanWellFounded, Zenon
  <1>2. \A x, y \in Nat : <<y, x>> \in R <=> y < x
    BY DEF OpToRel
  <1> HIDE DEF R
  <1>3. PICK x \in T : \A y \in T : ~(<<y, x>> \in R)
    BY <1>1, WFMin
  <1>4. ASSUME NEW y \in T PROVE x <= y
    <2>1. x \in Nat /\ y \in Nat /\ ~(<<y, x>> \in R)
      BY <1>3
    <2> QED BY <1>2, <2>1
  <1> QED BY <1>4

LEMMA NulIsVisible == ~IsCharWhitespace(NUL)
  BY DEF IsCharWhitespace, NUL

\* The buffer after TrimTrailing: the brand string up to its last visible
\* character, n characters, and then NUL.
LEMMA Trimmed ==
    ASSUME NEW brand \in Brands
    PROVE  \E n \in 0 .. BrandChars :
             /\ \A i \in 0 .. n - 1 : BrandBuffer(brand)[i] = brand[i + 1] /\ brand[i + 1] # NUL
             /\ BrandBuffer(brand)[n] = NUL
             /\ n > 0 => ~IsCharWhitespace(brand[n])
             /\ \A k \in n + 1 .. BrandChars : brand[k] = NUL \/ IsCharWhitespace(brand[k])
  <1> DEFINE raw == [i \in 0 .. CharMax |-> IF i < BrandChars THEN brand[i + 1] ELSE "other"]
             kept1 == {i \in 0 .. BrandChars - 1 : raw[i] # NUL /\ ~IsCharWhitespace(raw[i])}
             ends == {i \in 0 .. BrandChars : \A k \in kept1 : k < i}
  <1>1. BrandChars \in Nat \ {0} /\ CharMax \in Nat /\ CharMax >= BrandChars
    BY CPUAssumption
  <1>2. \A j, k \in 1 .. BrandChars : j <= k /\ brand[j] = NUL => brand[k] = NUL
    BY KernelStartAssumption
  <1>3. \A i \in 0 .. BrandChars - 1 : raw[i] = brand[i + 1]
    BY <1>1
  <1>4. DOMAIN raw = 0 .. CharMax
    OBVIOUS
  <1>5. \A i \in 0 .. CharMax :
          BrandBuffer(brand)[i] = IF i \in 0 .. BrandChars /\ \A k \in kept1 : k < i
                                  THEN NUL ELSE raw[i]
    BY DEF BrandBuffer, TrimTrailing
  <1> HIDE DEF raw
  <1>6. BrandChars \in ends /\ ends \in SUBSET Nat
    BY <1>1
  <1>7. PICK n \in ends : \A y \in ends : n <= y
    BY <1>6, Least
  <1>8. n \in 0 .. BrandChars /\ \A k \in kept1 : k < n
    OBVIOUS
  <1>9. ASSUME NEW i \in 0 .. n - 1
        PROVE  BrandBuffer(brand)[i] = brand[i + 1] /\ brand[i + 1] # NUL
    <2>1. i \in 0 .. BrandChars - 1 /\ i \in 0 .. CharMax /\ i \in 0 .. BrandChars
      BY <1>1, <1>8
    <2>2. PICK k \in kept1 : k >= i
      <3>1. i \notin ends
        BY <1>1, <1>7, <1>8
      <3> QED BY <2>1, <3>1
    <2>3. BrandBuffer(brand)[i] = raw[i]
      BY <1>5, <2>1, <2>2
    <2>4. k \in 0 .. BrandChars - 1 /\ raw[k] # NUL
      OBVIOUS
    <2>5. brand[k + 1] # NUL
      BY <1>3, <2>4
    <2>6. k + 1 \in 1 .. BrandChars /\ i + 1 \in 1 .. BrandChars /\ i + 1 <= k + 1
      BY <1>1, <2>1, <2>2, <2>4
    <2>7. brand[i + 1] # NUL
      BY <1>2, <2>5, <2>6
    <2> QED BY <1>3, <2>1, <2>3, <2>7
  <1>10. BrandBuffer(brand)[n] = NUL
    BY <1>1, <1>5, <1>8
  <1>11. n > 0 => ~IsCharWhitespace(brand[n])
    <2> SUFFICES ASSUME n > 0 PROVE ~IsCharWhitespace(brand[n])
      OBVIOUS
    <2>1. n - 1 \in 0 .. BrandChars /\ n - 1 \notin ends
      BY <1>1, <1>7, <1>8
    <2>2. PICK k \in kept1 : ~(k < n - 1)
      BY <2>1
    <2>3. k \in 0 .. BrandChars - 1 /\ k < n /\ k = n - 1 /\ ~IsCharWhitespace(raw[k])
      BY <1>1, <1>8, <2>2
    <2>4. raw[k] = brand[k + 1] /\ k + 1 = n
      BY <1>1, <1>3, <1>8, <2>3
    <2> QED BY <2>3, <2>4
  <1>12. ASSUME NEW k \in n + 1 .. BrandChars
         PROVE  brand[k] = NUL \/ IsCharWhitespace(brand[k])
    <2>1. k - 1 \in 0 .. BrandChars - 1 /\ ~(k - 1 < n) /\ (k - 1) + 1 = k
      BY <1>1, <1>8
    <2>2. k - 1 \notin kept1
      BY <1>8, <2>1
    <2>3. raw[k - 1] = NUL \/ IsCharWhitespace(raw[k - 1])
      BY <2>1, <2>2
    <2>4. raw[k - 1] = brand[k]
      BY <1>3, <2>1
    <2> QED BY <2>3, <2>4
  <1> QED BY <1>8, <1>9, <1>10, <1>11, <1>12

\* The name that GetCPUName makes of that buffer.
LEMMA NameExact ==
    ASSUME NEW brand \in Brands, NEW b, b.buffer = BrandBuffer(brand)
    PROVE  NameOf(brand, GetCPUName(b))
  <1> DEFINE buffer == BrandBuffer(brand)
             name == GetCPUName(b)
  <1>1. BrandChars \in Nat \ {0} /\ CharMax \in Nat /\ CharMax >= BrandChars
    BY CPUAssumption
  <1>2. DOMAIN buffer = 0 .. CharMax
    BY DEF BrandBuffer, TrimTrailing
  <1> HIDE DEF buffer
  <1>3. PICK n \in 0 .. BrandChars :
             /\ \A i \in 0 .. n - 1 : buffer[i] = brand[i + 1] /\ brand[i + 1] # NUL
             /\ buffer[n] = NUL
             /\ n > 0 => ~IsCharWhitespace(brand[n])
             /\ \A k \in n + 1 .. BrandChars : brand[k] = NUL \/ IsCharWhitespace(brand[k])
    BY Trimmed DEF buffer
  <1>4. Strlen(buffer) = n
    <2> DEFINE P(m) == buffer[m] = NUL /\ \A k \in 0 .. m - 1 : buffer[k] # NUL
    <2>1. n \in DOMAIN buffer /\ P(n)
      BY <1>1, <1>2, <1>3
    <2>2. ASSUME NEW m \in DOMAIN buffer, P(m) PROVE m = n
      <3>1. m \in Nat /\ n \in Nat
        BY <1>1, <1>2
      <3>2. ~(m < n)
        BY <2>2, <1>3, <3>1
      <3>3. ~(n < m)
        BY <2>2, <1>3, <3>1
      <3> QED BY <3>1, <3>2, <3>3
    <2>3. Strlen(buffer) = CHOOSE m \in DOMAIN buffer : P(m)
      BY DEF Strlen
    <2> HIDE DEF P
    <2> QED BY <2>1, <2>2, <2>3
  <1>5. name = [k \in 1 .. n |-> buffer[k - 1]]
    BY <1>4 DEF GetCPUName, buffer
  <1> HIDE DEF name
  <1>6. brand \in Seq(STRING) /\ Len(brand) = BrandChars
    BY KernelStartAssumption
  <1>7. \A k \in 1 .. n : name[k] = brand[k] /\ brand[k] # NUL
    <2> SUFFICES ASSUME NEW k \in 1 .. n PROVE name[k] = brand[k] /\ brand[k] # NUL
      OBVIOUS
    <2>1. k - 1 \in 0 .. n - 1 /\ (k - 1) + 1 = k
      BY <1>1
    <2> QED BY <1>3, <1>5, <2>1
  <1>8. n \in Nat /\ n <= Len(brand)
    BY <1>1, <1>6
  <1>9. Len(name) = n /\ DOMAIN name = 1 .. n
    BY <1>5, <1>8
  <1>10. name = SubSeq(brand, 1, Len(name))
    <2>1. SubSeq(brand, 1, n) = [k \in 1 .. n |-> brand[k]]
      BY <1>6, <1>8
    <2>2. name = [k \in 1 .. n |-> brand[k]]
      BY <1>5, <1>7
    <2> QED BY <1>9, <2>1, <2>2
  <1>11. name # <<>> => Last(name) # NUL /\ ~IsCharWhitespace(Last(name))
    <2> SUFFICES ASSUME name # <<>> PROVE Last(name) # NUL /\ ~IsCharWhitespace(Last(name))
      OBVIOUS
    <2>1. n > 0
      BY <1>5, <1>8
    <2>2. Last(name) = name[n]
      BY <1>9 DEF Last
    <2> QED BY <1>3, <1>7, <1>8, <2>1, <2>2
  <1>12. \A k \in Len(name) + 1 .. Len(brand) : brand[k] = NUL \/ IsCharWhitespace(brand[k])
    BY <1>3, <1>6, <1>9
  <1>13. NameOf(brand, name)
    BY <1>10, <1>11, <1>12 DEF NameOf
  <1> QED BY <1>13 DEF name

\* A brand string that begins with a visible character is not shifted.
Unshifted(g, b) == b.buffer = BrandBuffer(g) /\ b.start = 0
BrandResult(g, m) ==
    /\ g \in Brands
    /\ ~IsCharWhitespace(g[1]) => /\ m[1] = "working" => Unshifted(g, m[2])
                                  /\ m[1] = "done" => NameOf(g, m[2])
BrandInv == call = 9 /\ made # <<>> => BrandResult(given, made)

LEMMA NotShifted ==
    ASSUME NEW brand \in Brands, ~IsCharWhitespace(brand[1])
    PROVE  StartIndex(BrandBuffer(brand)) = 0
  <1> DEFINE buffer == BrandBuffer(brand)
             P(i) == /\ buffer[i] = NUL \/ ~IsCharWhitespace(buffer[i])
                     /\ \A k \in 0 .. i - 1 : IsCharWhitespace(buffer[k])
  <1>1. BrandChars \in Nat \ {0} /\ 0 \in 0 .. BrandChars
    BY CPUAssumption
  <1>2. ~IsCharWhitespace(buffer[0])
    <2>1. PICK n \in 0 .. BrandChars :
             /\ \A i \in 0 .. n - 1 : buffer[i] = brand[i + 1]
             /\ buffer[n] = NUL
      BY Trimmed
    <2>2. CASE n = 0
      BY <2>1, <2>2, NulIsVisible
    <2>3. CASE n # 0
      <3>1. 0 \in 0 .. n - 1
        BY <1>1, <2>3
      <3>2. buffer[0] = brand[1]
        BY <2>1, <3>1
      <3> QED BY <3>2
    <2> QED BY <2>2, <2>3
  <1> HIDE DEF buffer
  <1>3. P(0)
    BY <1>2
  <1>4. ASSUME NEW i \in 0 .. BrandChars, P(i) PROVE i = 0
    BY <1>1, <1>2, <1>4
  <1>5. StartIndex(buffer) = CHOOSE i \in 0 .. BrandChars : P(i)
    BY DEF StartIndex
  <1> HIDE DEF P
  <1>6. StartIndex(buffer) = 0
    BY <1>1, <1>3, <1>4, <1>5
  <1> QED BY <1>6 DEF buffer

LEMMA BrandInvNext == StartInv /\ BrandInv /\ [StartNext]_startVars => BrandInv'
  <1> SUFFICES ASSUME StartInv, BrandInv, [StartNext]_startVars PROVE BrandInv'
    OBVIOUS
  <1>1. CASE Kept({5, 7, 8, 9, 12, 15}) \/ call' # 9
    BY <1>1 DEF Kept, BrandInv
  <1>2. CASE call' = 9 /\ ReadBrand
    <2>1. PICK brand \in Brands :
            /\ given' = brand
            /\ made' = Working([buffer |-> BrandBuffer(brand),
                                start |-> StartIndex(BrandBuffer(brand)), shift |-> 0])
      BY <1>2 DEF ReadBrand
    <2>2. /\ made'[1] = "working" /\ made'[2].buffer = BrandBuffer(brand)
          /\ made'[2].start = StartIndex(BrandBuffer(brand))
      BY <2>1, Marks
    <2> QED BY <2>1, <2>2, NotShifted DEF BrandInv, BrandResult, Unshifted
  <1>3. CASE call' = 9 /\ ShiftBrand
    <2>1. /\ call = 9 /\ made # <<>> /\ made[1] = "working" /\ made[2].start > 0 /\ given' = given
          /\ made'[1] = "working"
      BY <1>3, Marks DEF ShiftBrand, Shifting
    <2>2. ~Unshifted(given, made[2])
      BY <2>1 DEF Unshifted
    <2> QED BY <2>1, <2>2 DEF BrandInv, BrandResult
  <1>4. CASE call' = 9 /\ EndBrand
    <2>1. /\ call = 9 /\ made # <<>> /\ made[1] = "working" /\ There("mp") /\ given' = given
          /\ made' = Done(GetCPUName(ShiftEnd(made[2])))
      BY <1>4 DEF EndBrand, StartInv, OrderInv
    <2>2. made'[1] = "done" /\ made'[2] = GetCPUName(ShiftEnd(made[2]))
      BY <2>1, Marks
    <2>3. Unshifted(given, made[2]) => ShiftEnd(made[2]) = made[2]
      BY DEF Unshifted, ShiftEnd
    <2>4. given \in Brands /\ (Unshifted(given, made[2]) => NameOf(given, made'[2]))
      BY <2>1, <2>2, <2>3, NameExact DEF BrandInv, BrandResult, Unshifted
    <2> QED BY <2>1, <2>2, <2>4 DEF BrandInv, BrandResult
  <1> QED BY <1>1, <1>2, <1>3, <1>4, ByCall

\* For every brand string that begins with a visible character, whatever its
\* length and its padding, the name that ReadBrandString leaves and
\* GetCPUName returns is the brand string up to its last visible character.
THEOREM BrandTrimmedHolds == StartSpec => []BrandTrimmed
  <1>1. StartInit => BrandInv
    BY DEF StartInit, BrandInv
  <1>2. StartInv /\ BrandInv => BrandTrimmed
    BY CallNumbers DEF StartInv, StartTypeOK, BrandInv, BrandResult, BrandTrimmed
  <1> QED
    BY <1>1, <1>2, StartInvInit, StartInvNext, BrandInvNext, PTL DEF StartSpec

(***************************************************************************)
(* The command line: Quoted, Separators and Segment for a given line.      *)
(***************************************************************************)
QuotesBefore(line, p) == {q \in Occurrences(line, QUOTE) : q < p}
QuotedIn(line, p) == Cardinality(QuotesBefore(line, p)) % 2 = 1
SeparatorsOf(line) == {p \in Occurrences(line, SPACE) :
                         ~QuotedIn(line, p) /\ (p = 0 \/ line[p] # SPACE)}
SegmentOf(line, p) ==
    LET later == {q \in SeparatorsOf(line) \cup {Len(line)} : q > p}
        end == CHOOSE q \in later : \A r \in later : q <= r
    IN SubSeq(line, p + 2, end)
Upto(line, p) == {q \in SeparatorsOf(line) : q <= p}

LEMMA QuoteIsNoSpace == QUOTE # SPACE
  BY DEF QUOTE, SPACE

LEMMA QuoteCounts ==
    ASSUME NEW line \in Seq(STRING), NEW p
    PROVE  /\ Occurrences(line, QUOTE) \in SUBSET Nat
           /\ IsFiniteSet(QuotesBefore(line, p)) /\ Cardinality(QuotesBefore(line, p)) \in Nat
  <1>1. Len(line) \in Nat
    OBVIOUS
  <1>2. Occurrences(line, QUOTE) \subseteq 0 .. Len(line) - 1
    BY DEF Occurrences
  <1>3. IsFiniteSet(0 .. Len(line) - 1)
    BY <1>1, FS_Interval
  <1>4. QuotesBefore(line, p) \in SUBSET (0 .. Len(line) - 1)
    BY <1>2 DEF QuotesBefore
  <1>5. IsFiniteSet(QuotesBefore(line, p))
    BY <1>3, <1>4, FS_Subset
  <1>6. Cardinality(QuotesBefore(line, p)) \in Nat
    BY <1>5, FS_CardinalityType
  <1>7. Occurrences(line, QUOTE) \in SUBSET Nat
    BY <1>1, <1>2
  <1> QED BY <1>5, <1>6, <1>7

\* Only a quote changes whether the next character is quoted.
LEMMA QuoteStep ==
    ASSUME NEW line \in Seq(STRING), NEW p \in Nat
    PROVE  /\ p \notin Occurrences(line, QUOTE) => (QuotedIn(line, p + 1) <=> QuotedIn(line, p))
           /\ p \in Occurrences(line, QUOTE) => (QuotedIn(line, p + 1) <=> ~QuotedIn(line, p))
  <1>1. /\ \A q \in Occurrences(line, QUOTE) : q \in Nat
        /\ IsFiniteSet(QuotesBefore(line, p)) /\ Cardinality(QuotesBefore(line, p)) \in Nat
    BY QuoteCounts
  <1>2. ASSUME p \notin Occurrences(line, QUOTE)
        PROVE  QuotedIn(line, p + 1) <=> QuotedIn(line, p)
    <2>1. \A q \in Occurrences(line, QUOTE) : q < p + 1 <=> q < p
      BY <1>1, <1>2
    <2>2. QuotesBefore(line, p + 1) = QuotesBefore(line, p)
      BY <2>1 DEF QuotesBefore
    <2> QED BY <2>2 DEF QuotedIn
  <1>3. ASSUME p \in Occurrences(line, QUOTE)
        PROVE  QuotedIn(line, p + 1) <=> ~QuotedIn(line, p)
    <2>1. \A q \in Occurrences(line, QUOTE) : q < p + 1 <=> q < p \/ q = p
      BY <1>1
    <2>2. QuotesBefore(line, p + 1) = QuotesBefore(line, p) \cup {p}
      BY <1>3, <2>1 DEF QuotesBefore
    <2>3. p \notin QuotesBefore(line, p)
      BY DEF QuotesBefore
    <2>4. Cardinality(QuotesBefore(line, p + 1)) = Cardinality(QuotesBefore(line, p)) + 1
      BY <1>1, <2>2, <2>3, FS_AddElement
    <2>5. \A n \in Nat : (n + 1) % 2 = 1 <=> ~(n % 2 = 1)
      OBVIOUS
    <2> QED BY <1>1, <2>4, <2>5 DEF QuotedIn
  <1> QED BY <1>2, <1>3

\* Spaces do not.
LEMMA QuoteSkip ==
    ASSUME NEW line \in Seq(STRING), NEW p \in Nat, NEW r \in Nat, p <= r,
           \A q \in p .. r - 1 : q \in Occurrences(line, SPACE)
    PROVE  QuotedIn(line, r) <=> QuotedIn(line, p)
  <1>1. \A q \in Occurrences(line, QUOTE) : q \in Nat
    BY QuoteCounts
  <1>2. \A q \in Occurrences(line, QUOTE) : q \notin Occurrences(line, SPACE)
    BY QuoteIsNoSpace DEF Occurrences
  <1>3. \A q \in Occurrences(line, QUOTE) : q < r <=> q < p
    BY <1>1, <1>2
  <1>4. QuotesBefore(line, r) = QuotesBefore(line, p)
    BY <1>3 DEF QuotesBefore
  <1> QED BY <1>4 DEF QuotedIn

\* Nothing is quoted at the start.
LEMMA QuoteStart == ASSUME NEW line \in Seq(STRING) PROVE ~QuotedIn(line, 0)
  <1>1. \A q \in Occurrences(line, QUOTE) : q \in Nat
    BY QuoteCounts
  <1>2. QuotesBefore(line, 0) = {}
    BY <1>1 DEF QuotesBefore
  <1>3. Cardinality(QuotesBefore(line, 0)) = 0
    BY <1>2, FS_EmptySet
  <1> QED BY <1>3 DEF QuotedIn

LEMMA SeparatorFacts ==
    ASSUME NEW line \in Seq(STRING)
    PROVE  /\ \A s \in SeparatorsOf(line) : s \in Nat /\ s < Len(line)
           /\ \A p \in Int : IsFiniteSet(Upto(line, p)) /\ Cardinality(Upto(line, p)) \in Nat
           /\ IsFiniteSet(SeparatorsOf(line))
  <1>1. Len(line) \in Nat
    OBVIOUS
  <1>2. SeparatorsOf(line) \in SUBSET (0 .. Len(line) - 1)
    BY DEF SeparatorsOf, Occurrences
  <1>3. IsFiniteSet(SeparatorsOf(line))
    <2>1. IsFiniteSet(0 .. Len(line) - 1)
      BY <1>1, FS_Interval
    <2> QED BY <1>2, <2>1, FS_Subset
  <1>4. ASSUME NEW p \in Int
        PROVE  IsFiniteSet(Upto(line, p)) /\ Cardinality(Upto(line, p)) \in Nat
    <2>1. Upto(line, p) \in SUBSET SeparatorsOf(line)
      BY DEF Upto
    <2>2. IsFiniteSet(Upto(line, p))
      BY <1>3, <2>1, FS_Subset
    <2> QED BY <2>2, FS_CardinalityType
  <1>5. \A s \in SeparatorsOf(line) : s \in Nat /\ s < Len(line)
    BY <1>1, <1>2
  <1> QED BY <1>3, <1>4, <1>5

\* The text after separator p goes to end, if end is the next separator or
\* the end of the line.
LEMMA SegmentEnds ==
    ASSUME NEW line \in Seq(STRING), NEW p \in Int,
           NEW end \in SeparatorsOf(line) \cup {Len(line)}, p < end,
           \A s \in SeparatorsOf(line) : s > p => end <= s
    PROVE  SegmentOf(line, p) = SubSeq(line, p + 2, end)
  <1> DEFINE later == {q \in SeparatorsOf(line) \cup {Len(line)} : q > p}
             P(q) == \A r \in later : q <= r
  <1>1. /\ Len(line) \in Nat /\ \A s \in SeparatorsOf(line) : s \in Nat /\ s < Len(line)
        /\ end \in Nat /\ end <= Len(line)
    <2>1. Len(line) \in Nat
      OBVIOUS
    <2>2. \A s \in SeparatorsOf(line) : s \in Nat /\ s < Len(line)
      BY SeparatorFacts
    <2> QED BY <2>1, <2>2
  <1>2. end \in later
    BY <1>1
  <1>3. P(end)
    BY <1>1
  <1>4. ASSUME NEW q \in later, P(q) PROVE q = end
    <2>1. q <= end /\ end <= q
      BY <1>2, <1>3, <1>4
    <2>2. q \in Nat
      BY <1>1
    <2> QED BY <1>1, <2>1, <2>2
  <1>5. SegmentOf(line, p) = SubSeq(line, p + 2, CHOOSE q \in later : P(q))
    BY DEF SegmentOf
  <1> HIDE DEF P, later
  <1>6. (CHOOSE q \in later : P(q)) = end
    BY <1>2, <1>3, <1>4
  <1> QED BY <1>5, <1>6

(***************************************************************************)
(* The loop of SplitArguments, on a given line.                            *)
(***************************************************************************)
\* Where pos is: quotes is what it should be, and pos is at no space of a run
\* of spaces except the first.
PosInv(line, p, q) ==
    /\ p \in 0 .. Len(line) + 1 /\ q \in BOOLEAN
    /\ q <=> QuotedIn(line, p)
    /\ p > 0 => p - 1 \notin Occurrences(line, SPACE) \/ QuotedIn(line, p - 1)

\* What is stored: the segments of all separators before pos but the last.
OutInv(line, p, pp, n, o) ==
    /\ pp \in Nat /\ pp - 1 \in SeparatorsOf(line) \cup {-1} /\ pp <= p
    /\ \A s \in SeparatorsOf(line) : s < p => s <= pp - 1
    /\ n = Cardinality(Upto(line, pp - 1)) /\ o \in Seq(Seq(STRING)) /\ Len(o) = n
    /\ \A s \in SeparatorsOf(line) \cup {-1} :
         s < pp - 1 => o[1 + Cardinality(Upto(line, s))] = SegmentOf(line, s)

\* Beyond the line, only spaces were left.
EndInv(line, p, pp) ==
    p = Len(line) + 1 => /\ pp > 0
                         /\ \A i \in pp .. Len(line) - 1 : i \in Occurrences(line, SPACE)

LEMMA AtChar ==
    ASSUME NEW line \in Seq(STRING), NEW p \in Nat, NEW c
    PROVE  Substring(line, p, 1) = <<c>> <=> p \in Occurrences(line, c)
  <1>0. Len(line) \in Nat
    OBVIOUS
  <1>1. CASE p >= Len(line)
    <2>1. Substring(line, p, 1) = <<>>
      BY <1>1 DEF Substring
    <2>2. p \notin Occurrences(line, c)
      BY <1>0, <1>1 DEF Occurrences
    <2> QED BY <2>1, <2>2
  <1>2. CASE p < Len(line)
    <2>1. Substring(line, p, 1) = SubSeq(line, p + 1, p + 1)
      BY <1>2 DEF Substring
    <2>2. SubSeq(line, p + 1, p + 1) = <<line[p + 1]>>
      <3> DEFINE t == SubSeq(line, p + 1, p + 1)
      <3>1. p + 1 \in 1 .. Len(line)
        BY <1>0, <1>2
      <3>2. t \in Seq(STRING) /\ Len(t) = 1 /\ t[1] = line[p + 1]
        BY <3>1
      <3> HIDE DEF t
      <3>3. t = <<t[1]>>
        BY <3>2
      <3> QED BY <3>2, <3>3 DEF t
    <2>3. p \in Occurrences(line, c) <=> line[p + 1] = c
      BY <1>0, <1>2 DEF Occurrences
    <2> QED BY <2>1, <2>2, <2>3
  <1> QED BY <1>0, <1>1, <1>2

LEMMA PosSkip ==
    ASSUME NEW line \in Seq(STRING), NEW p, NEW q, PosInv(line, p, q), p < Len(line),
           ~(p \in Occurrences(line, SPACE) /\ ~q),
           NEW q1 \in BOOLEAN, q1 <=> ~(q <=> p \in Occurrences(line, QUOTE))
    PROVE  /\ PosInv(line, p + 1, q1) /\ p \notin SeparatorsOf(line)
  <1>1. p \in Nat /\ Len(line) \in Nat /\ (q <=> QuotedIn(line, p)) /\ q \in BOOLEAN
    BY DEF PosInv
  <1>2. q1 <=> QuotedIn(line, p + 1)
    BY <1>1, QuoteStep
  <1>3. p \notin Occurrences(line, SPACE) \/ QuotedIn(line, p)
    BY <1>1
  <1>4. p \notin SeparatorsOf(line)
    BY <1>3 DEF SeparatorsOf
  <1>5. p + 1 \in 0 .. Len(line) + 1 /\ (p + 1) - 1 = p
    BY <1>1
  <1> QED BY <1>2, <1>3, <1>4, <1>5 DEF PosInv

\* A space outside quotes is a separator; behind it the spaces are skipped,
\* and with them no separator.
LEMMA PosSpace ==
    ASSUME NEW line \in Seq(STRING), NEW p, PosInv(line, p, FALSE), p < Len(line),
           p \in Occurrences(line, SPACE),
           NEW next \in p + 1 .. Len(line),
           \A r \in p + 1 .. next - 1 : r \in Occurrences(line, SPACE),
           next \notin Occurrences(line, SPACE),
           NEW q1 \in BOOLEAN, q1 <=> next \in Occurrences(line, QUOTE)
    PROVE  /\ PosInv(line, next + 1, q1) /\ p \in SeparatorsOf(line)
           /\ \A s \in SeparatorsOf(line) : s < next + 1 => s <= p
  <1>1. /\ p \in Nat /\ Len(line) \in Nat /\ next \in Nat /\ p <= next
        /\ ~QuotedIn(line, p)
    BY DEF PosInv
  <1>2. \A r \in p .. next - 1 : r \in Occurrences(line, SPACE)
    BY <1>1
  <1>3. ~QuotedIn(line, next)
    BY <1>1, <1>2, QuoteSkip
  <1>4. q1 <=> QuotedIn(line, next + 1)
    BY <1>1, <1>3, QuoteStep
  <1>5. PosInv(line, next + 1, q1)
    <2>1. next + 1 \in 0 .. Len(line) + 1 /\ (next + 1) - 1 = next
      BY <1>1
    <2> QED BY <1>4, <2>1 DEF PosInv
  <1>6. p \in SeparatorsOf(line)
    <2>1. CASE p = 0
      BY <1>1, <2>1 DEF SeparatorsOf
    <2>2. CASE p # 0
      <3>1. p - 1 \in Nat /\ p > 0 /\ (p - 1) + 1 = p /\ p - 1 \in 0 .. Len(line) - 1
        BY <1>1, <2>2
      <3>2. p - 1 \notin Occurrences(line, SPACE)
        <4>1. SUFFICES ASSUME p - 1 \in Occurrences(line, SPACE) PROVE FALSE
          OBVIOUS
        <4>2. QuotedIn(line, p - 1)
          BY <3>1, <4>1 DEF PosInv
        <4>3. p - 1 \notin Occurrences(line, QUOTE)
          BY <4>1, QuoteIsNoSpace DEF Occurrences
        <4>4. QuotedIn(line, (p - 1) + 1)
          BY <3>1, <4>2, <4>3, QuoteStep
        <4> QED BY <1>1, <3>1, <4>4
      <3>3. line[p] # SPACE
        BY <3>1, <3>2 DEF Occurrences
      <3> QED BY <1>1, <3>3 DEF SeparatorsOf
    <2> QED BY <2>1, <2>2
  <1>7. ASSUME NEW s \in SeparatorsOf(line), s < next + 1 PROVE s <= p
    <2>1. s \in Nat /\ s \in Occurrences(line, SPACE) /\ (s = 0 \/ line[s] # SPACE)
      BY SeparatorFacts DEF SeparatorsOf
    <2>2. SUFFICES ASSUME s > p PROVE FALSE
      BY <1>1, <2>1
    <2>3. s # next /\ s \in p + 1 .. next - 1
      BY <1>1, <1>7, <2>1, <2>2
    <2>4. s - 1 \in p .. next - 1 /\ (s - 1) + 1 = s /\ s # 0
      BY <1>1, <2>1, <2>3
    <2>5. line[s] = SPACE
      BY <1>2, <2>4 DEF Occurrences
    <2> QED BY <2>1, <2>4, <2>5
  <1> QED BY <1>5, <1>6, <1>7

LEMMA OutSkip ==
    ASSUME NEW line \in Seq(STRING), NEW p \in Nat, NEW pp, NEW n, NEW o,
           OutInv(line, p, pp, n, o), p \notin SeparatorsOf(line)
    PROVE  OutInv(line, p + 1, pp, n, o)
  <1>1. pp \in Nat /\ pp <= p + 1
    BY DEF OutInv
  <1>2. \A s \in SeparatorsOf(line) : s < p + 1 => s <= pp - 1
    <2> SUFFICES ASSUME NEW s \in SeparatorsOf(line), s < p + 1 PROVE s <= pp - 1
      OBVIOUS
    <2>1. s \in Nat /\ s # p
      BY SeparatorFacts
    <2>2. s < p
      BY <2>1
    <2> QED BY <2>2 DEF OutInv
  <1> QED BY <1>1, <1>2 DEF OutInv

LEMMA Stored ==
    ASSUME NEW S, NEW o \in Seq(S), NEW x \in S, NEW n \in Nat, Len(o) = n
    PROVE  /\ Append(o, x) \in Seq(S) /\ Len(Append(o, x)) = n + 1
           /\ Append(o, x)[n + 1] = x
           /\ \A k \in 1 .. n : Append(o, x)[k] = o[k]
  OBVIOUS

\* The segments are numbered in their order.
LEMMA Numbered ==
    ASSUME NEW line \in Seq(STRING), NEW s \in SeparatorsOf(line) \cup {-1},
           NEW t \in SeparatorsOf(line), s < t
    PROVE  1 + Cardinality(Upto(line, s)) \in 1 .. Cardinality(Upto(line, t))
  <1>1. s \in Int /\ t \in Int /\ \A q \in SeparatorsOf(line) : q \in Nat
    <2>1. \A q \in SeparatorsOf(line) : q \in Nat
      BY SeparatorFacts
    <2> QED BY <2>1
  <1>2. /\ IsFiniteSet(Upto(line, s)) /\ Cardinality(Upto(line, s)) \in Nat
        /\ IsFiniteSet(Upto(line, t)) /\ Cardinality(Upto(line, t)) \in Nat
    BY <1>1, SeparatorFacts
  <1>3. Upto(line, s) \in SUBSET Upto(line, t)
    <2>1. \A q \in SeparatorsOf(line) : q <= s => q <= t
      BY <1>1
    <2> QED BY <2>1 DEF Upto
  <1>4. t \in Upto(line, t) /\ t \notin Upto(line, s)
    BY <1>1 DEF Upto
  <1>5. /\ Cardinality(Upto(line, s)) <= Cardinality(Upto(line, t))
        /\ Cardinality(Upto(line, t)) # Cardinality(Upto(line, s))
    BY <1>2, <1>3, <1>4, FS_Subset
  <1> QED BY <1>2, <1>5

\* The segment after the last separator before pos, which ends at pos.
LEMMA LastSegment ==
    ASSUME NEW line \in Seq(STRING), NEW p, NEW pp, NEW n, NEW o,
           OutInv(line, p, pp, n, o), p \in SeparatorsOf(line) \cup {Len(line)}
    PROVE  /\ SegmentOf(line, pp - 1) = SubSeq(line, pp + 1, p)
           /\ Substring(line, pp, p - pp) = SubSeq(line, pp + 1, p)
           /\ SubSeq(line, pp + 1, p) \in Seq(STRING)
  <1>1. Len(line) \in Nat /\ p \in Nat /\ p <= Len(line)
    <2>1. Len(line) \in Nat
      OBVIOUS
    <2>2. \A s \in SeparatorsOf(line) : s \in Nat /\ s < Len(line)
      BY SeparatorFacts
    <2> QED BY <2>1, <2>2
  <1>2. pp \in Nat /\ pp - 1 \in Int /\ pp <= p /\ pp - 1 < p /\ (pp - 1) + 2 = pp + 1
    BY <1>1 DEF OutInv
  <1>3. ASSUME NEW s \in SeparatorsOf(line), s > pp - 1 PROVE p <= s
    <2>1. s \in Nat /\ (s < p => s <= pp - 1)
      BY SeparatorFacts DEF OutInv
    <2> QED BY <1>1, <1>2, <1>3, <2>1
  <1>4. SegmentOf(line, pp - 1) = SubSeq(line, pp + 1, p)
    BY <1>1, <1>2, <1>3, SegmentEnds
  <1>5. SubSeq(line, pp + 1, p) \in Seq(STRING)
    BY <1>1, <1>2
  <1>6. Substring(line, pp, p - pp) = SubSeq(line, pp + 1, p)
    <2>1. CASE pp >= Len(line)
      <3>1. pp = Len(line) /\ p = Len(line)
        BY <1>1, <1>2, <2>1
      <3>2. SubSeq(line, pp + 1, p) = <<>>
        BY <1>1, <3>1
      <3> QED BY <2>1, <3>2 DEF Substring
    <2>2. CASE ~(pp >= Len(line))
      <3>1. pp + (p - pp) = p
        BY <1>1, <1>2
      <3> QED BY <2>2, <3>1 DEF Substring
    <2> QED BY <2>1, <2>2
  <1> QED BY <1>4, <1>5, <1>6

LEMMA OutSpace ==
    ASSUME NEW line \in Seq(STRING), NEW p, NEW pp, NEW n, NEW o, NEW next \in Nat,
           OutInv(line, p, pp, n, o), p \in SeparatorsOf(line), p <= next,
           \A s \in SeparatorsOf(line) : s < next + 1 => s <= p
    PROVE  OutInv(line, next + 1, p + 1, n + 1, Append(o, Substring(line, pp, p - pp)))
  <1> DEFINE x == Substring(line, pp, p - pp)
             o1 == Append(o, x)
  <1>1. p \in Nat /\ pp \in Nat /\ pp - 1 \in Int /\ \A s \in SeparatorsOf(line) : s \in Nat
    <2>1. \A s \in SeparatorsOf(line) : s \in Nat
      BY SeparatorFacts
    <2> QED BY <2>1 DEF OutInv
  <1>2. x = SegmentOf(line, pp - 1) /\ x \in Seq(STRING)
    BY LastSegment, Zenon
  <1>3. n \in Nat /\ n = Cardinality(Upto(line, pp - 1)) /\ IsFiniteSet(Upto(line, pp - 1))
    BY <1>1, SeparatorFacts DEF OutInv
  <1> HIDE DEF x
  <1>4. /\ o1 \in Seq(Seq(STRING)) /\ Len(o1) = n + 1 /\ o1[n + 1] = x
        /\ \A k \in 1 .. n : o1[k] = o[k]
    <2>1. o \in Seq(Seq(STRING)) /\ Len(o) = n
      BY DEF OutInv
    <2> QED BY <1>2, <1>3, <2>1, Stored
  <1> HIDE DEF o1
  <1>5. n + 1 = Cardinality(Upto(line, p))
    <2>1. Upto(line, p) = Upto(line, pp - 1) \cup {p}
      <3>1. ASSUME NEW s \in SeparatorsOf(line) PROVE s <= p <=> (s <= pp - 1 \/ s = p)
        <4>1. s \in Nat /\ (s < p => s <= pp - 1) /\ pp <= p
          BY <1>1 DEF OutInv
        <4> QED BY <1>1, <4>1
      <3> QED BY <3>1 DEF Upto
    <2>2. p \notin Upto(line, pp - 1)
      BY <1>1 DEF OutInv, Upto
    <2> QED BY <1>3, <2>1, <2>2, FS_AddElement
  <1>6. ASSUME NEW s \in SeparatorsOf(line) \cup {-1}, s < (p + 1) - 1
        PROVE  o1[1 + Cardinality(Upto(line, s))] = SegmentOf(line, s)
    <2>1. s \in Int /\ s < p
      BY <1>1, <1>6
    <2>2. CASE s = pp - 1
      BY <1>2, <1>3, <1>4, <2>2
    <2>3. CASE s < pp - 1
      <3>1. pp - 1 \in SeparatorsOf(line)
        BY <1>1, <2>1, <2>3 DEF OutInv
      <3>2. 1 + Cardinality(Upto(line, s)) \in 1 .. n
        BY <1>3, <2>3, <3>1, Numbered
      <3> QED BY <1>4, <2>3, <3>2 DEF OutInv
    <2>4. s <= pp - 1
      BY <1>1, <2>1 DEF OutInv
    <2> QED BY <1>1, <2>1, <2>2, <2>3, <2>4
  <1>7. p + 1 \in Nat /\ (p + 1) - 1 = p /\ p + 1 <= next + 1
    BY <1>1
  <1>8. OutInv(line, next + 1, p + 1, n + 1, o1)
    BY <1>4, <1>5, <1>6, <1>7 DEF OutInv
  <1> QED BY <1>8 DEF o1, x

\* SplitExact, for a given line.
Exact(line, n, o) ==
    /\ o \in Seq(Seq(STRING)) /\ n \in Nat
    /\ Len(o) = n + 1 /\ n = Cardinality(SeparatorsOf(line))
    /\ \A s \in SeparatorsOf(line) \cup {-1} :
         LET k == 1 + Cardinality(Upto(line, s))
         IN \/ o[k] = SegmentOf(line, s)
            \/ k = n + 1 /\ s # -1 /\ Blank(SegmentOf(line, s)) /\ o[k] = <<>>

LEMMA OutEnd ==
    ASSUME NEW line \in Seq(STRING), NEW p \in {Len(line), Len(line) + 1}, NEW pp, NEW n, NEW o,
           OutInv(line, p, pp, n, o), NEW x \in Seq(STRING),
           \/ x = SegmentOf(line, pp - 1)
           \/ pp > 0 /\ Blank(SegmentOf(line, pp - 1)) /\ x = <<>>
    PROVE  Exact(line, n, Append(o, x))
  <1> DEFINE o1 == Append(o, x)
  <1>1. /\ pp \in Nat /\ pp - 1 \in Int /\ Len(line) \in Nat
        /\ \A s \in SeparatorsOf(line) : s \in Nat /\ s < Len(line)
    <2>1. \A s \in SeparatorsOf(line) : s \in Nat /\ s < Len(line)
      BY SeparatorFacts
    <2>2. Len(line) \in Nat
      OBVIOUS
    <2> QED BY <2>1, <2>2 DEF OutInv
  <1>2. n \in Nat /\ n = Cardinality(Upto(line, pp - 1))
    BY <1>1, SeparatorFacts DEF OutInv
  <1>3. /\ o1 \in Seq(Seq(STRING)) /\ Len(o1) = n + 1 /\ o1[n + 1] = x
        /\ \A k \in 1 .. n : o1[k] = o[k]
    <2>1. o \in Seq(Seq(STRING)) /\ Len(o) = n
      BY DEF OutInv
    <2> QED BY <1>2, <2>1, Stored
  <1> HIDE DEF o1
  <1>4. \A s \in SeparatorsOf(line) : s <= pp - 1
    BY <1>1 DEF OutInv
  <1>5. Upto(line, pp - 1) = SeparatorsOf(line)
    BY <1>4 DEF Upto
  <1>6. ASSUME NEW s \in SeparatorsOf(line) \cup {-1}, NEW k, k = 1 + Cardinality(Upto(line, s))
        PROVE  \/ o1[k] = SegmentOf(line, s)
               \/ k = n + 1 /\ s # -1 /\ Blank(SegmentOf(line, s)) /\ o1[k] = <<>>
    <2>1. s \in Int /\ s <= pp - 1
      BY <1>1, <1>4
    <2>2. CASE s = pp - 1
      <3>1. k = n + 1 /\ o1[k] = x
        BY <1>2, <1>3, <1>6, <2>2
      <3>2. pp > 0 => s # -1
        BY <1>1, <2>2
      <3> QED BY <2>2, <3>1, <3>2
    <2>3. CASE s < pp - 1
      <3>1. pp - 1 \in SeparatorsOf(line)
        BY <1>1, <2>1, <2>3 DEF OutInv
      <3>2. 1 + Cardinality(Upto(line, s)) \in 1 .. n
        BY <1>2, <2>3, <3>1, Numbered
      <3> QED BY <1>3, <1>6, <2>3, <3>2 DEF OutInv
    <2> QED BY <1>1, <2>1, <2>2, <2>3
  <1>7. Exact(line, n, o1)
    BY <1>2, <1>3, <1>5, <1>6 DEF Exact
  <1> QED BY <1>7 DEF o1

(***************************************************************************)
(* SplitArguments as the calls of KernelStart run it.                      *)
(***************************************************************************)
LineInv ==
    /\ pc \in {"none", "split", "initialize", "ready"}
    /\ pc = "none" => pos = 0 /\ previouspos = 0 /\ quotes = FALSE /\ count = 0 /\ out = <<>>
    /\ pc # "none" => cmdline \in Seq(STRING)
    /\ pc = "split" => /\ PosInv(cmdline, pos, quotes)
                       /\ OutInv(cmdline, pos, previouspos, count, out)
                       /\ EndInv(cmdline, pos, previouspos)
    /\ pc \in {"initialize", "ready"} => Exact(cmdline, count, out)

LEMMA ExactIsSplitExact == LineInv => SplitExact
  <1>1. \A p : Quoted(p) <=> QuotedIn(cmdline, p)
    BY DEF Quoted, QuotedIn, QuotesBefore
  <1>2. Separators = SeparatorsOf(cmdline)
    BY <1>1 DEF Separators, SeparatorsOf
  <1>3. \A p : Segment(p) = SegmentOf(cmdline, p)
    BY <1>2 DEF Segment, SegmentOf
  <1>4. \A p : {q \in Separators : q <= p} = Upto(cmdline, p)
    BY <1>2 DEF Upto
  <1> QED BY <1>2, <1>3, <1>4 DEF LineInv, Exact, SplitExact

LEMMA Skipped ==
    ASSUME cmdline \in Seq(STRING), NEW p \in Nat, p <= Len(cmdline)
    PROVE  /\ SkipSpaces(p) \in p .. Len(cmdline)
           /\ \A r \in p .. SkipSpaces(p) - 1 : r \in Occurrences(cmdline, SPACE)
           /\ SkipSpaces(p) \notin Occurrences(cmdline, SPACE)
  <1> DEFINE P(q) == (\A r \in p .. q - 1 : At(r) = <<SPACE>>) /\ At(q) # <<SPACE>>
             T == {q \in p .. Len(cmdline) : At(q) # <<SPACE>>}
  <1>1. Len(cmdline) \in Nat
    OBVIOUS
  <1>2. \A r \in Nat : At(r) = <<SPACE>> <=> r \in Occurrences(cmdline, SPACE)
    BY AtChar DEF At
  <1>3. Len(cmdline) \in T
    <2>1. Len(cmdline) \notin Occurrences(cmdline, SPACE)
      BY <1>1 DEF Occurrences
    <2> QED BY <1>1, <1>2, <2>1
  <1>4. T \in SUBSET Nat
    BY <1>1
  <1>5. PICK q \in T : \A y \in T : q <= y
    BY <1>3, <1>4, Least
  <1>6. q \in p .. Len(cmdline) /\ P(q)
    <2>1. ASSUME NEW r \in p .. q - 1 PROVE At(r) = <<SPACE>>
      <3>1. r \in p .. Len(cmdline) /\ ~(q <= r)
        BY <1>1, <1>4, <1>5
      <3> QED BY <1>5, <3>1
    <2> QED BY <1>5, <2>1
  <1>7. SkipSpaces(p) = CHOOSE z \in p .. Len(cmdline) : P(z)
    BY DEF SkipSpaces
  <1> HIDE DEF P
  <1>8. SkipSpaces(p) \in p .. Len(cmdline) /\ P(SkipSpaces(p))
    BY <1>6, <1>7
  <1>9. SkipSpaces(p) \in Nat /\ \A r \in p .. SkipSpaces(p) - 1 : r \in Nat
    BY <1>1, <1>8
  <1> QED BY <1>2, <1>8, <1>9 DEF P

LEMMA SplitLastStep == ASSUME LineInv, SplitLast PROVE LineInv'
  <1> DEFINE x == Substring(cmdline, previouspos, pos - previouspos)
  <1>1. /\ cmdline \in Seq(STRING) /\ pos = Len(cmdline)
        /\ OutInv(cmdline, pos, previouspos, count, out)
        /\ out' = Append(out, x) /\ pc' = "initialize" /\ UNCHANGED <<cmdline, count>>
    BY DEF LineInv, SplitLast, Store
  <1>2. x = SegmentOf(cmdline, previouspos - 1) /\ x \in Seq(STRING)
    BY <1>1, LastSegment, Zenon
  <1> HIDE DEF x
  <1>3. Exact(cmdline, count, Append(out, x))
    BY <1>1, <1>2, OutEnd
  <1> QED BY <1>1, <1>3 DEF LineInv

LEMMA SplitEndStep == ASSUME LineInv, SplitEnd PROVE LineInv'
  <1>1. /\ cmdline \in Seq(STRING) /\ PosInv(cmdline, pos, quotes) /\ pos > Len(cmdline)
        /\ OutInv(cmdline, pos, previouspos, count, out) /\ EndInv(cmdline, pos, previouspos)
        /\ out' = Append(out, <<>>) /\ pc' = "initialize" /\ UNCHANGED <<cmdline, count>>
    BY DEF LineInv, SplitEnd
  <1>2. Len(cmdline) \in Nat /\ pos = Len(cmdline) + 1 /\ previouspos \in Nat /\ previouspos > 0
    BY <1>1 DEF PosInv, OutInv, EndInv
  <1>3. Blank(SegmentOf(cmdline, previouspos - 1))
    <2>1. previouspos - 1 \in SeparatorsOf(cmdline) /\ previouspos - 1 < Len(cmdline)
      BY <1>1, <1>2, SeparatorFacts DEF OutInv
    <2>2. \A s \in SeparatorsOf(cmdline) : s > previouspos - 1 => Len(cmdline) <= s
      <3>1. \A s \in SeparatorsOf(cmdline) : s \in Nat /\ s < Len(cmdline) /\ (s < pos => s <= previouspos - 1)
        BY <1>1, SeparatorFacts DEF OutInv
      <3> QED BY <1>2, <3>1
    <2>3. SegmentOf(cmdline, previouspos - 1) = SubSeq(cmdline, (previouspos - 1) + 2, Len(cmdline))
      BY <1>1, <1>2, <2>1, <2>2, SegmentEnds
    <2>4. (previouspos - 1) + 2 = previouspos + 1
      BY <1>2
    <2> DEFINE g == SubSeq(cmdline, previouspos + 1, Len(cmdline))
    <2>5. ASSUME NEW j \in DOMAIN g PROVE g[j] = SPACE
      <3>1. previouspos <= Len(cmdline)
        BY <1>2, <2>1
      <3>2. j \in Nat /\ j >= 1 /\ j <= Len(cmdline) - previouspos /\ g[j] = cmdline[previouspos + j]
        BY <1>1, <1>2, <3>1
      <3>3. previouspos + j - 1 \in previouspos .. Len(cmdline) - 1
        BY <1>2, <3>2
      <3>4. previouspos + j - 1 \in Occurrences(cmdline, SPACE) /\ (previouspos + j - 1) + 1 = previouspos + j
        BY <1>1, <1>2, <3>2, <3>3 DEF EndInv
      <3> QED BY <3>2, <3>4 DEF Occurrences
    <2> QED BY <2>3, <2>4, <2>5 DEF Blank
  <1>4. <<>> \in Seq(STRING)
    OBVIOUS
  <1>5. Exact(cmdline, count, Append(out, <<>>))
    BY <1>1, <1>2, <1>3, <1>4, OutEnd
  <1> QED BY <1>1, <1>5 DEF LineInv

LEMMA SplitSkipStep == ASSUME LineInv, SplitSkip PROVE LineInv'
  <1>1. /\ cmdline \in Seq(STRING) /\ PosInv(cmdline, pos, quotes) /\ pos < Len(cmdline)
        /\ OutInv(cmdline, pos, previouspos, count, out) /\ pc' = "split" /\ pos' = pos + 1
        /\ UNCHANGED <<cmdline, previouspos, count, out>>
    BY DEF LineInv, SplitSkip
  <1>2. pos \in Nat /\ Len(cmdline) \in Nat /\ quotes \in BOOLEAN
    BY <1>1 DEF PosInv
  <1>3. /\ At(pos) = <<SPACE>> <=> pos \in Occurrences(cmdline, SPACE)
        /\ At(pos) = <<QUOTE>> <=> pos \in Occurrences(cmdline, QUOTE)
    BY <1>1, <1>2, AtChar DEF At
  <1>4. ~(pos \in Occurrences(cmdline, SPACE) /\ ~quotes)
    BY <1>3 DEF SplitSkip
  <1>5. quotes' \in BOOLEAN /\ (quotes' <=> ~(quotes <=> pos \in Occurrences(cmdline, QUOTE)))
    BY <1>2, <1>3 DEF SplitSkip
  <1>6. PosInv(cmdline, pos + 1, quotes') /\ pos \notin SeparatorsOf(cmdline)
    BY <1>1, <1>4, <1>5, PosSkip
  <1>7. OutInv(cmdline, pos + 1, previouspos, count, out)
    BY <1>1, <1>2, <1>6, OutSkip
  <1>8. EndInv(cmdline, pos + 1, previouspos)
    BY <1>1, <1>2 DEF EndInv
  <1> QED BY <1>1, <1>6, <1>7, <1>8 DEF LineInv

LEMMA SplitSpaceStep == ASSUME LineInv, SplitSpace PROVE LineInv'
  <1> DEFINE next == SkipSpaces(pos + 1)
             x == Substring(cmdline, previouspos, pos - previouspos)
  <1>1. /\ cmdline \in Seq(STRING) /\ PosInv(cmdline, pos, quotes) /\ pos < Len(cmdline) /\ ~quotes
        /\ OutInv(cmdline, pos, previouspos, count, out) /\ pc' = "split" /\ pos' = next + 1
        /\ previouspos' = pos + 1 /\ count' = count + 1 /\ out' = Append(out, x)
        /\ quotes' = (quotes # (At(next) = <<QUOTE>>)) /\ cmdline' = cmdline
        /\ At(pos) = <<SPACE>>
    BY DEF LineInv, SplitSpace, Store
  <1>2. pos \in Nat /\ Len(cmdline) \in Nat /\ quotes \in BOOLEAN /\ pos + 1 <= Len(cmdline)
    BY <1>1 DEF PosInv
  <1>3. /\ next \in pos + 1 .. Len(cmdline)
        /\ \A r \in pos + 1 .. next - 1 : r \in Occurrences(cmdline, SPACE)
        /\ next \notin Occurrences(cmdline, SPACE)
    BY <1>1, <1>2, Skipped
  <1> HIDE DEF next, x
  <1>4. /\ pos \in Occurrences(cmdline, SPACE)
        /\ next \in Nat /\ pos <= next
        /\ At(next) = <<QUOTE>> <=> next \in Occurrences(cmdline, QUOTE)
    BY <1>1, <1>2, <1>3, AtChar DEF At
  <1>5. quotes' \in BOOLEAN /\ (quotes' <=> next \in Occurrences(cmdline, QUOTE))
    BY <1>1, <1>2, <1>4
  <1>6. /\ PosInv(cmdline, next + 1, quotes') /\ pos \in SeparatorsOf(cmdline)
        /\ \A s \in SeparatorsOf(cmdline) : s < next + 1 => s <= pos
    <2>1. PosInv(cmdline, pos, FALSE)
      BY <1>1, <1>2 DEF PosInv
    <2> QED BY <1>1, <1>3, <1>4, <1>5, <2>1, PosSpace
  <1>7. OutInv(cmdline, next + 1, pos + 1, count + 1, Append(out, x))
    BY <1>1, <1>4, <1>6, OutSpace DEF x
  <1>8. EndInv(cmdline, next + 1, pos + 1)
    <2>1. next + 1 = Len(cmdline) + 1 => next = Len(cmdline)
      BY <1>2, <1>4
    <2> QED BY <1>2, <1>3, <2>1 DEF EndInv
  <1> QED BY <1>1, <1>6, <1>7, <1>8 DEF LineInv

LEMMA LineInvStart ==
    ASSUME NEW line \in Seq(STRING)
    PROVE  PosInv(line, 0, FALSE) /\ OutInv(line, 0, 0, 0, <<>>) /\ EndInv(line, 0, 0)
  <1>1. Len(line) \in Nat /\ <<>> \in Seq(Seq(STRING)) /\ Len(<<>>) = 0 /\ 0 - 1 = -1
    OBVIOUS
  <1>2. \A s \in SeparatorsOf(line) : s \in Nat
    BY SeparatorFacts
  <1>3. Upto(line, 0 - 1) = {}
    BY <1>1, <1>2 DEF Upto
  <1>4. Cardinality(Upto(line, 0 - 1)) = 0
    BY <1>3, FS_EmptySet
  <1>5. PosInv(line, 0, FALSE)
    BY <1>1, QuoteStart DEF PosInv
  <1>6. OutInv(line, 0, 0, 0, <<>>)
    BY <1>1, <1>2, <1>4 DEF OutInv
  <1>7. EndInv(line, 0, 0)
    BY <1>1 DEF EndInv
  <1> QED BY <1>5, <1>6, <1>7

LEMMA LineInvNext == LineInv /\ [StartNext]_startVars => LineInv'
  <1> SUFFICES ASSUME LineInv, [StartNext]_startVars PROVE LineInv'
    OBVIOUS
  <1>1. ASSUME UNCHANGED <<cmdline, pc, loop>> PROVE LineInv'
    BY <1>1 DEF LineInv, loop
  <1>2. CASE ReadCommandLine
    <2>1. /\ pc = "none" /\ UNCHANGED loop
          /\ \/ UNCHANGED <<cmdline, pc>>
             \/ cmdline' \in CommandLines /\ pc' = "split"
      BY <1>2 DEF ReadCommandLine
    <2>2. CASE UNCHANGED <<cmdline, pc>>
      BY <1>1, <2>1, <2>2
    <2>3. CASE cmdline' \in CommandLines /\ pc' = "split"
      <3>1. cmdline' \in Seq(STRING)
        BY <2>3, CommandLineAssumption
      <3>2. PICK line : line = cmdline'
        OBVIOUS
      <3>3. pos' = 0 /\ previouspos' = 0 /\ quotes' = FALSE /\ count' = 0 /\ out' = <<>>
        BY <2>1 DEF LineInv, loop
      <3>4. PosInv(line, 0, FALSE) /\ OutInv(line, 0, 0, 0, <<>>) /\ EndInv(line, 0, 0)
        BY <3>1, <3>2, LineInvStart
      <3> QED BY <2>3, <3>1, <3>2, <3>3, <3>4 DEF LineInv
    <2> QED BY <2>1, <2>2, <2>3
  <1>3. CASE CommandLineInitialize
    <2>1. CASE Initialize
      BY <2>1 DEF Initialize, LineInv, loop
    <2> QED
      BY <1>3, <2>1, SplitLastStep, SplitEndStep, SplitSpaceStep, SplitSkipStep
         DEF CommandLineInitialize
  <1>6. ASSUME UNCHANGED vars PROVE LineInv'
    BY <1>1, <1>6 DEF vars
  <1>4. CASE ReadLogLevel
    <2>1. CASE UNCHANGED lineVars
      BY <1>6, <2>1
    <2>2. CASE ~UNCHANGED lineVars
      BY <1>4, <2>2 DEF ReadLogLevel, LineInv
    <2> QED BY <2>1, <2>2
  <1>5. CASE \E T \in Types, identifier \in Identifiers : AskCommandLine(T, identifier)
    BY <1>1, <1>5, <1>6 DEF AskCommandLine, Ask
  <1>7. CASE SerialInitialize \/ FramebufferInitialize \/ FindProcessors \/ GDTInitialize
             \/ PMMInitialize \/ InitializePaging \/ IDTInitialize \/ Return
    BY <1>6, <1>7 DEF SerialInitialize, FramebufferInitialize, FindProcessors, GDTInitialize,
       PMMInitialize, InitializePaging, IDTInitialize, Return
  <1>8. CASE ReadBrand \/ ShiftBrand \/ EndBrand \/ ACPIInitialize \/ SCIEnabled \/ LogInfo \/ Start
    BY <1>6, <1>8 DEF ReadBrand, ShiftBrand, EndBrand, ACPIInitialize, SCIEnabled, LogInfo, Start
  <1>9. CASE \E name \in {"simd", "nx"} : ReadFeatures(name) \/ Instruction(name)
    BY <1>6, <1>9 DEF ReadFeatures, Instruction
  <1>10. CASE \/ \E name \in {"ioapic", "lapic"} : APICsInitialize(name)
              \/ \E n \in Counts : FindRange(n)
              \/ \E sig \in Signatures, index \in 0 .. 1 : AskTable(sig, index)
    BY <1>6, <1>10 DEF APICsInitialize, FindRange, AskTable
  <1>11. CASE UNCHANGED startVars
    BY <1>6, <1>11 DEF startVars
  <1> QED
    BY <1>2, <1>3, <1>4, <1>5, <1>7, <1>8, <1>9, <1>10, <1>11 DEF StartNext, Boots

\* For every command line, of any length, SplitArguments cuts at the first
\* space of each run of spaces outside quotes and nowhere else: it stores as
\* many views as it counts, each the text between two separators, except that
\* one of spaces only at the end of the line is stored empty.
THEOREM SplitExactHolds == StartSpec => []SplitExact
  <1>1. StartInit => LineInv
    BY DEF StartInit, NoLine, LineInv
  <1> QED BY <1>1, LineInvNext, ExactIsSplitExact, PTL DEF StartSpec

(***************************************************************************)
(* Recursive functions on 0 .. n.  A step takes the value before it, which *)
(* is at from[i] < i, and i to the value at i.                             *)
(***************************************************************************)
Steps(D, n) == [D -> [1 .. n -> D]]
Earlier(n) == {p \in [1 .. n -> 0 .. n] : \A i \in 1 .. n : p[i] < i}
Before(n) == [i \in 1 .. n |-> i - 1]
Computes(g, D, a, n, p, S) ==
    /\ g \in [0 .. n -> D] /\ g[0] = a
    /\ \A i \in 1 .. n : g[i] = S[g[p[i]]][i]

\* The usual case: the value at i - 1.
LEMMA BeforeIsEarlier ==
    ASSUME NEW n \in Nat
    PROVE  Before(n) \in Earlier(n) /\ \A i \in 1 .. n : Before(n)[i] = i - 1
  BY DEF Before, Earlier

\* Such a function exists,
LEMMA RecursionExists ==
    ASSUME NEW D, NEW a \in D, NEW n \in Nat, NEW p \in Earlier(n), NEW S \in Steps(D, n)
    PROVE  \E g : Computes(g, D, a, n, p, S)
<1> DEFINE P(m) == \E g \in [0 .. m -> D] : g[0] = a /\ \A i \in 1 .. m : g[i] = S[g[p[i]]][i]
           T == {m \in 0 .. n : ~P(m)}
<1> SUFFICES P(n) BY DEF Computes
<1>p. \A i \in 1 .. n : p[i] \in 0 .. i - 1 BY DEF Earlier
<1>s. \A x \in D : \A i \in 1 .. n : S[x][i] \in D BY DEF Steps
<1>1. CASE T = {}
  <2>1. n \in 0 .. n OBVIOUS
  <2> HIDE DEF P
  <2> QED BY <1>1, <2>1
<1>2. CASE T # {}
  <2>1. T \in SUBSET Nat OBVIOUS
  <2>2. PICK m \in T : \A y \in T : m <= y
    <3> HIDE DEF T
    <3> QED BY <1>2, <2>1, Least
  <2>3. m \in 0 .. n /\ m \in Nat /\ ~P(m)
    <3> HIDE DEF P
    <3> QED BY <2>2
  <2>4. CASE m = 0
    <3> DEFINE g == [i \in 0 .. 0 |-> a]
    <3>1. g \in [0 .. 0 -> D] /\ g[0] = a /\ \A i \in 1 .. 0 : g[i] = S[g[p[i]]][i] OBVIOUS
    <3> HIDE DEF g
    <3>2. P(0) BY <3>1
    <3> QED BY <2>3, <2>4, <3>2
  <2>5. CASE m > 0
    <3>1. m - 1 \in 0 .. n /\ ~(m <= m - 1) BY <2>3, <2>5
    <3>2. P(m - 1)
      <4>1. m - 1 \notin T BY <2>2, <3>1
      <4> HIDE DEF P
      <4> QED BY <3>1, <4>1
    <3>3. PICK g \in [0 .. m - 1 -> D] : g[0] = a /\ \A i \in 1 .. m - 1 : g[i] = S[g[p[i]]][i]
        BY <3>2
    <3>4. m \in 1 .. n /\ p[m] \in 0 .. m - 1 BY <1>p, <2>3, <2>5
    <3>5. g[p[m]] \in D BY <3>4
    <3>6. S[g[p[m]]][m] \in D BY <1>s, <3>4, <3>5
    <3> DEFINE h == [i \in 0 .. m |-> IF i = m THEN S[g[p[m]]][m] ELSE g[i]]
    <3>7. h \in [0 .. m -> D] BY <2>3, <2>5, <3>6
    <3>8. h[0] = a BY <2>3, <2>5, <3>3
    <3>9. \A i \in 0 .. m - 1 : h[i] = g[i] BY <2>3
    <3>10. h[m] = S[g[p[m]]][m] BY <2>3
    <3> HIDE DEF h
    <3>11. ASSUME NEW i \in 1 .. m PROVE h[i] = S[h[p[i]]][i]
      <4>1. p[i] \in 0 .. i - 1 /\ i \in Int BY <1>p, <2>3
      <4>2. p[i] \in 0 .. m - 1 BY <2>3, <4>1
      <4>3. h[p[i]] = g[p[i]] BY <3>9, <4>2
      <4>4. CASE i = m BY <3>10, <4>3, <4>4
      <4>5. CASE i # m
        <5>1. i \in 1 .. m - 1 /\ i \in 0 .. m - 1 BY <2>3, <4>5
        <5> QED BY <3>3, <3>9, <4>3, <5>1
      <4> QED BY <4>4, <4>5
    <3>12. P(m) BY <3>7, <3>8, <3>11
    <3> QED BY <2>3, <3>12
  <2>6. m = 0 \/ m > 0 BY <2>3
  <2> HIDE DEF P, T
  <2> QED BY <2>4, <2>5, <2>6
<1> QED BY <1>1, <1>2

\* and a function that takes these steps is one.
LEMMA RecursionTyped ==
    ASSUME NEW D, NEW a \in D, NEW n \in Nat, NEW p \in Earlier(n), NEW S \in Steps(D, n),
           NEW f, f = [i \in 0 .. n |-> f[i]], f[0] = a,
           \A i \in 1 .. n : f[p[i]] \in D => f[i] = S[f[p[i]]][i]
    PROVE  Computes(f, D, a, n, p, S)
<1> DEFINE T == {m \in 0 .. n : f[m] \notin D}
<1>p. \A i \in 1 .. n : p[i] \in 0 .. i - 1 BY DEF Earlier
<1>s. \A x \in D : \A i \in 1 .. n : S[x][i] \in D BY DEF Steps
<1>1. T = {}
  <2> SUFFICES ASSUME T # {} PROVE FALSE OBVIOUS
  <2>1. T \in SUBSET Nat OBVIOUS
  <2>2. PICK m \in T : \A y \in T : m <= y
    <3> HIDE DEF T
    <3> QED BY <2>1, Least
  <2>3. m \in 0 .. n /\ m \in Nat /\ f[m] \notin D BY <2>2
  <2>4. m # 0 BY <2>3
  <2>5. m \in 1 .. n /\ p[m] \in 0 .. m - 1 BY <1>p, <2>3, <2>4
  <2>6. p[m] \in 0 .. n /\ ~(m <= p[m]) BY <2>3, <2>5
  <2>7. f[p[m]] \in D BY <2>2, <2>6
  <2> QED BY <1>s, <2>3, <2>5, <2>7
<1>2. \A m \in 0 .. n : f[m] \in D BY <1>1
<1>3. \A i \in 1 .. n : p[i] \in 0 .. n BY <1>p
<1>4. f \in [0 .. n -> D] BY <1>2
<1> QED BY <1>2, <1>3, <1>4 DEF Computes


(***************************************************************************)
(* Firmware tables.                                                        *)
(***************************************************************************)
\* The pointers of a signature.
TablesOf(fw, sig) == {i \in DOMAIN Root(fw).pointers : Root(fw).pointers[i].sig = sig}

\* The entries counted from the root table's length are its pointers.
LEMMA RootCounted ==
    ASSUME NEW fw \in Firmwares
    PROVE  /\ Entries(fw) = Len(Root(fw).pointers) /\ Entries(fw) \in Nat
           /\ DOMAIN Root(fw).pointers = 1 .. Entries(fw)
           /\ \A i \in 1 .. Entries(fw) : Pointer(fw, i) = Root(fw).pointers[i]
<1> DEFINE n == Len(Root(fw).pointers)
<1>1. /\ DOMAIN Root(fw).pointers = 1 .. n /\ n \in Nat
      /\ Root(fw).length = SizeOfSDTHeader + PointerSize(fw) * n
    BY FirmwaresAssumption
<1>2. PointerSize(fw) \in {4, 8} BY DEF PointerSize
<1> HIDE DEF n
<1>3. \A l \in Int : l = SizeOfSDTHeader + PointerSize(fw) * n => (l - SizeOfSDTHeader) \div PointerSize(fw) = n
    BY <1>1, <1>2 DEF SizeOfSDTHeader
<1>4. Root(fw).length \in Int BY <1>1, <1>2 DEF SizeOfSDTHeader
<1>5. Entries(fw) = n BY <1>1, <1>3, <1>4 DEF Entries
<1> QED BY <1>1, <1>5 DEF n, Pointer

\* The loop counts down once for each table of the signature.
LEMMA FindIsOffered ==
    ASSUME NEW fw \in Firmwares, NEW sig, NEW index \in Nat
    PROVE  Find(fw, sig, index) = Offered(fw, sig, index)
<1> DEFINE n == Entries(fw)
           M(i) == Pointer(fw, i).sig = sig
           left[i \in 0 .. n] ==
               IF i = 0 THEN index
               ELSE IF Pointer(fw, i).sig = sig THEN left[i - 1] - 1 ELSE left[i - 1]
           hits == {i \in 1 .. n : Pointer(fw, i).sig = sig /\ left[i - 1] = 0}
           S == [x \in Int |-> [i \in 1 .. n |-> IF M(i) THEN x - 1 ELSE x]]
           Q(f) == f = [i \in 0 .. n |-> IF i = 0 THEN index
                                         ELSE IF M(i) THEN f[i - 1] - 1 ELSE f[i - 1]]
<1>1. /\ n \in Nat /\ DOMAIN Root(fw).pointers = 1 .. n
      /\ \A i \in 1 .. n : Pointer(fw, i) = Root(fw).pointers[i]
    BY RootCounted
<1>2. Find(fw, sig, index) = IF hits = {} THEN NullPointer ELSE Pointer(fw, CHOOSE i \in hits : TRUE)
    BY DEF Find
<1>3. left = CHOOSE f : Q(f) OBVIOUS
<1> HIDE DEF n, left, M
<1>4. /\ S \in Steps(Int, n)
      /\ \A x \in Int : \A i \in 1 .. n : S[x][i] = IF M(i) THEN x - 1 ELSE x
    BY DEF Steps
<1> HIDE DEF S
<1>5. /\ Before(n) \in Earlier(n) /\ \A i \in 1 .. n : Before(n)[i] = i - 1
    BY <1>1, BeforeIsEarlier
<1>6. PICK g : Computes(g, Int, index, n, Before(n), S)
  <2>1. index \in Int OBVIOUS
  <2> QED BY <1>1, <1>4, <1>5, <2>1, RecursionExists
<1>7. Q(g)
  <2>1. g \in [0 .. n -> Int] /\ g[0] = index /\ \A i \in 1 .. n : g[i] = S[g[i - 1]][i]
      BY <1>5, <1>6 DEF Computes
  <2>2. ASSUME NEW i \in 0 .. n
        PROVE  g[i] = IF i = 0 THEN index ELSE IF M(i) THEN g[i - 1] - 1 ELSE g[i - 1]
    <3>1. CASE i = 0 BY <2>1, <3>1
    <3>2. CASE i # 0
      <4>1. i \in 1 .. n /\ i - 1 \in 0 .. n BY <1>1, <3>2
      <4>2. g[i - 1] \in Int BY <2>1, <4>1
      <4> QED BY <1>4, <2>1, <3>2, <4>1, <4>2
    <3> QED BY <3>1, <3>2
  <2> QED BY <2>1, <2>2
<1> HIDE DEF Q
<1>8. Q(left) BY <1>3, <1>7
<1> USE DEF Q
<1>9. /\ left = [i \in 0 .. n |-> left[i]] /\ left[0] = index
      /\ \A i \in 1 .. n : i - 1 \in 0 .. n /\ left[i] = IF M(i) THEN left[i - 1] - 1 ELSE left[i - 1]
  <2>1. \A i \in 0 .. n : left[i] = IF i = 0 THEN index
                                    ELSE IF M(i) THEN left[i - 1] - 1 ELSE left[i - 1]
      BY <1>8
  <2>2. left = [i \in 0 .. n |-> left[i]] BY <1>8
  <2>3. 0 \in 0 .. n /\ \A i \in 1 .. n : i # 0 /\ i \in 0 .. n /\ i - 1 \in 0 .. n BY <1>1
  <2> HIDE DEF Q
  <2> QED BY <2>1, <2>2, <2>3
<1> HIDE DEF Q
<1>10. left \in [0 .. n -> Int]
  <2>1. \A i \in 1 .. n : left[Before(n)[i]] \in Int => left[i] = S[left[Before(n)[i]]][i]
    <3> TAKE i \in 1 .. n
    <3>1. Before(n)[i] = i - 1 BY <1>5
    <3>2. left[i - 1] \in Int => S[left[i - 1]][i] = IF M(i) THEN left[i - 1] - 1 ELSE left[i - 1]
        BY <1>4
    <3>3. left[i] = IF M(i) THEN left[i - 1] - 1 ELSE left[i - 1] BY <1>9
    <3> QED BY ONLY <3>1, <3>2, <3>3
  <2>2. index \in Int OBVIOUS
  <2>3. Computes(left, Int, index, n, Before(n), S)
      BY <1>1, <1>4, <1>5, <1>9, <2>1, <2>2, RecursionTyped
  <2> QED BY <2>3 DEF Computes
<1> DEFINE C(i) == {j \in 1 .. i : M(j)}
           T == {i \in 0 .. n : left[i] # index - Cardinality(C(i))}
<1>11. ASSUME NEW i \in Nat PROVE IsFiniteSet(C(i)) /\ Cardinality(C(i)) \in Nat
  <2>1. IsFiniteSet(1 .. i) BY FS_Interval
  <2>2. IsFiniteSet(C(i)) BY <2>1, FS_Subset
  <2> QED BY <2>2, FS_CardinalityType
<1>12. ASSUME NEW i \in 1 .. n, left[i - 1] = index - Cardinality(C(i - 1))
       PROVE  left[i] = index - Cardinality(C(i))
  <2>1. i \in Nat /\ i - 1 \in Nat BY <1>1
  <2>2. IsFiniteSet(C(i - 1)) /\ Cardinality(C(i - 1)) \in Nat BY <1>11, <2>1
  <2>3. i \notin C(i - 1) /\ C(i) = (IF M(i) THEN C(i - 1) \cup {i} ELSE C(i - 1)) BY <2>1
  <2> HIDE DEF C
  <2>4. CASE M(i)
    <3>1. Cardinality(C(i - 1) \cup {i}) = Cardinality(C(i - 1)) + 1 BY <2>2, <2>3, FS_AddElement
    <3>2. left[i] = left[i - 1] - 1 BY <1>9, <2>4
    <3>3. Cardinality(C(i)) = Cardinality(C(i - 1)) + 1 BY <2>3, <2>4, <3>1
    <3> QED BY <1>12, <2>2, <3>2, <3>3
  <2>5. CASE ~M(i) BY <1>9, <1>12, <2>3, <2>5
  <2> QED BY <2>4, <2>5
<1>13. left[0] = index - Cardinality(C(0))
  <2>1. C(0) = {} OBVIOUS
  <2>2. Cardinality({}) = 0 BY FS_EmptySet
  <2> QED BY <1>9, <2>1, <2>2
<1> HIDE DEF C
<1>14. T = {}
  <2> SUFFICES ASSUME T # {} PROVE FALSE OBVIOUS
  <2>1. T \in SUBSET Nat OBVIOUS
  <2>2. PICK m \in T : \A y \in T : m <= y
    <3> HIDE DEF T
    <3> QED BY <2>1, Least
  <2>3. m \in 0 .. n /\ m \in Nat /\ left[m] # index - Cardinality(C(m)) BY <2>2
  <2>4. m # 0 BY <1>13, <2>3
  <2>5. m \in 1 .. n /\ m - 1 \in 0 .. n /\ ~(m <= m - 1) BY <1>1, <2>3, <2>4
  <2>6. m - 1 \notin T BY <2>2, <2>5
  <2> QED BY <1>12, <2>3, <2>5, <2>6
<1> DEFINE tables == {i \in 1 .. n : Root(fw).pointers[i].sig = sig}
           at == {i \in tables : Cardinality({j \in tables : j < i}) = index}
<1>15. ASSUME NEW i \in 1 .. n
       PROVE  i \in hits <=> i \in at
  <2>1. M(i) <=> i \in tables BY <1>1 DEF M
  <2>2. {j \in tables : j < i} = C(i - 1)
    <3>1. \A j : j \in 1 .. i - 1 <=> j \in 1 .. n /\ j < i BY <1>1
    <3> QED BY <1>1, <3>1 DEF C, M
  <2>3. i - 1 \in 0 .. n /\ i - 1 \in Nat BY <1>1
  <2>4. left[i - 1] = index - Cardinality(C(i - 1)) BY <1>14, <2>3
  <2>5. Cardinality(C(i - 1)) \in Nat BY <1>11, <2>3
  <2>6. left[i - 1] = 0 <=> Cardinality(C(i - 1)) = index BY <2>4, <2>5
  <2>7. i \in at <=> i \in tables /\ Cardinality(C(i - 1)) = index BY <2>2
  <2>8. i \in hits <=> M(i) /\ left[i - 1] = 0 BY DEF M
  <2> QED BY <2>1, <2>6, <2>7, <2>8
<1>16. hits = at /\ at \subseteq 1 .. n BY <1>15
<1>17. Root(fw).pointers = IF fw.revision = 0 THEN fw.rsdt.pointers ELSE fw.xsdt.pointers
  <2>1. fw.revision \in Nat BY FirmwaresAssumption
  <2> QED BY <2>1 DEF Root
<1>18. Offered(fw, sig, index) = IF at = {} THEN NullPointer ELSE Root(fw).pointers[CHOOSE i \in at : TRUE]
  <2> DEFINE p == Root(fw).pointers
             all == {i \in DOMAIN p : p[i].sig = sig}
             nth == {i \in all : Cardinality({j \in all : j < i}) = index}
  <2>1. Offered(fw, sig, index) = IF nth = {} THEN NullPointer ELSE p[CHOOSE i \in nth : TRUE]
      BY <1>17 DEF Offered
  <2>2. all = tables BY <1>1
  <2>3. nth = at BY <2>2
  <2> HIDE DEF nth, at
  <2> QED BY <2>1, <2>3
<1> HIDE DEF hits, at
<1>19. at # {} => (CHOOSE i \in at : TRUE) \in at OBVIOUS
<1> QED BY <1>1, <1>2, <1>16, <1>18, <1>19

\* The index that FindFADT counts down from is 0.
\* The table that a list of pointers has for a signature and an index.
TableAmong(p, sig, index) ==
    LET all == {i \in DOMAIN p : p[i].sig = sig}
        nth == {i \in all : Cardinality({j \in all : j < i}) = index}
    IN IF nth = {} THEN NullPointer ELSE p[CHOOSE i \in nth : TRUE]

LEMMA OfferedIs ==
    ASSUME NEW fw, NEW sig, NEW index, NEW p,
           p = IF fw.revision = 0 THEN fw.rsdt.pointers ELSE fw.xsdt.pointers
    PROVE  Offered(fw, sig, index) = TableAmong(p, sig, index)
  BY DEF Offered, TableAmong

LEMMA Found ==
    ASSUME NEW fw \in Firmwares, ~InitializePanics(fw), NEW sig, NEW index \in Nat
    PROVE  Finds(fw, sig, index, GetTable(fw, sig, index))
<1> DEFINE fadt == FindFADT(fw)
           found == GetTable(fw, sig, index)
<1>1. Entries(fw) = Len(Root(fw).pointers) BY RootCounted
<1>2. fadt = Offered(fw, "FACP", 0) /\ fadt # NullPointer /\ Dsdt(fadt) # NullPointer
    BY FindIsOffered DEF FindFADT, InitializePanics
<1>3. /\ fadt.sig = "FACP" /\ fadt.dsdt # Wild /\ (fadt.length >= XDsdtEnd => fadt.xDsdt # Wild)
  <2> DEFINE p == Root(fw).pointers
             all == {i \in DOMAIN p : p[i].sig = "FACP"}
             nth == {i \in all : Cardinality({j \in all : j < i}) = 0}
  <2>1. Root(fw).pointers = IF fw.revision = 0 THEN fw.rsdt.pointers ELSE fw.xsdt.pointers
    <3>1. fw.revision \in Nat BY FirmwaresAssumption
    <3> QED BY <3>1 DEF Root
  <2>2. fadt = IF nth = {} THEN NullPointer ELSE p[CHOOSE i \in nth : TRUE]
    <3>1. p = IF fw.revision = 0 THEN fw.rsdt.pointers ELSE fw.xsdt.pointers BY <2>1
    <3> HIDE DEF p
    <3>2. Offered(fw, "FACP", 0) = TableAmong(p, "FACP", 0) BY ONLY <3>1, OfferedIs
    <3>3. TableAmong(p, "FACP", 0) = IF nth = {} THEN NullPointer ELSE p[CHOOSE i \in nth : TRUE]
        BY ONLY DEF TableAmong
    <3> QED BY ONLY <1>2, <3>2, <3>3
  <2>3. nth # {} BY <1>2, <2>2
  <2>4. PICK i \in nth : fadt = p[i] BY <2>2, <2>3
  <2>5. i \in DOMAIN p /\ p[i].sig = "FACP" BY <2>4
  <2> HIDE DEF fadt, nth
  <2> QED BY <2>4, <2>5, FirmwaresAssumption
<1>4. Dsdt(fadt) \in {fadt.dsdt, fadt.xDsdt} \ {NullPointer, Wild}
    BY <1>2, <1>3 DEF Dsdt
<1> HIDE DEF fadt
<1>5. CASE sig = "DSDT"
  <2>1. found = Dsdt(fadt) BY <1>5 DEF GetTable, fadt
  <2> QED BY <1>1, <1>2, <1>4, <1>5, <2>1 DEF Finds
<1>6. CASE sig = "FACP"
  <2>1. found = fadt BY <1>6 DEF GetTable, fadt
  <2> QED BY <1>1, <1>2, <1>3, <1>6, <2>1 DEF Finds
<1>7. CASE sig \in {"RSDT", "XSDT"}
  <2>1. found.sig \in {sig, "null"}
      BY <1>7 DEF GetTable, NullPointer
  <2> QED BY <1>1, <1>7, <2>1 DEF Finds
<1>8. CASE sig \notin {"RSDT", "XSDT", "FACP", "DSDT"}
  <2>1. found = Find(fw, sig, index) BY <1>8 DEF GetTable
  <2> QED BY <1>1, <1>8, <2>1, FindIsOffered DEF Finds
<1> QED BY <1>5, <1>6, <1>7, <1>8

\* What ACPI::Initialize has accepted, and what GetTable was asked.
AcpiResult(g, m) ==
    /\ g.fw \in Firmwares /\ ~InitializePanics(g.fw)
    /\ g.asked # <<>> => /\ g.asked[2] \in Nat
                         /\ m[2] = GetTable(g.fw, g.asked[1], g.asked[2])
    /\ m[1] = "working" => g.asked = <<>>
AcpiInv == call = 12 /\ made # <<>> => AcpiResult(given, made)

LEMMA AcpiInvNext == StartInv /\ AcpiInv /\ [StartNext]_startVars => AcpiInv'
  <1> SUFFICES ASSUME StartInv, AcpiInv, [StartNext]_startVars PROVE AcpiInv'
    OBVIOUS
  <1>1. CASE Kept({5, 7, 8, 9, 12, 15}) \/ call' # 12
    BY <1>1 DEF Kept, AcpiInv
  <1>2. CASE call' = 12 /\ ACPIInitialize
    <2>1. CASE made' = <<>>
      BY <2>1 DEF AcpiInv
    <2>2. CASE made' # <<>>
      <3>1. made = <<>> /\ There("hhdm")
        BY <1>2, CallNumbers DEF StartInv, StartTypeOK, OrderInv, ACPIInitialize
      <3>2. PICK fw \in Firmwares :
              /\ ~InitializePanics(fw) /\ given' = [fw |-> fw, asked |-> <<>>]
              /\ made' = Working("SCI_EN")
        BY <1>2, <2>2, <3>1 DEF ACPIInitialize
      <3>3. given'.fw = fw /\ given'.asked = <<>>
        BY <3>2
      <3> QED BY <3>2, <3>3 DEF AcpiInv, AcpiResult
    <2> QED BY <2>1, <2>2
  <1>3. CASE call' = 12 /\ SCIEnabled
    <2>1. call = 12 /\ made # <<>> /\ made[1] = "working" /\ given' = given
      BY <1>3 DEF SCIEnabled
    <2>2. AcpiResult(given, made) /\ given.asked = <<>>
      BY <2>1 DEF AcpiInv, AcpiResult
    <2> QED BY <2>1, <2>2 DEF AcpiInv, AcpiResult
  <1>4. CASE call' = 12 /\ \E sig \in Signatures, index \in 0 .. 1 : AskTable(sig, index)
    <2>1. PICK sig \in Signatures, index \in 0 .. 1 : AskTable(sig, index)
      BY <1>4
    <2>2. /\ call = 12 /\ made # <<>> /\ given' = [given EXCEPT !.asked = <<sig, index>>]
          /\ made' = Done(GetTable(given.fw, sig, index))
      BY <1>4, <2>1 DEF AskTable
    <2>3. given.fw \in Firmwares /\ ~InitializePanics(given.fw)
      BY <2>2 DEF AcpiInv, AcpiResult
    <2> QED BY <2>2, <2>3, Marks DEF AcpiInv, AcpiResult
  <1> QED BY <1>1, <1>2, <1>3, <1>4, ByCall

\* For every set of tables that Initialize accepts, with any number of them,
\* GetTable returns the table of a signature and an index exactly if the root
\* table has it, and reads no pointer behind the last one.
THEOREM TablesFoundHolds == StartSpec => []TablesFound
  <1>1. StartInit => AcpiInv
    BY DEF StartInit, AcpiInv
  <1>2. StartInv /\ AcpiInv => TablesFound
    <2> SUFFICES ASSUME StartInv, AcpiInv, Finished("acpi"), given.asked # <<>>
                 PROVE  Finds(given.fw, given.asked[1], given.asked[2], made[2])
      BY DEF TablesFound
    <2>1. call = 12 /\ made # <<>> BY CallNumbers DEF StartInv, StartTypeOK
    <2>2. /\ given.fw \in Firmwares /\ ~InitializePanics(given.fw) /\ given.asked[2] \in Nat
          /\ made[2] = GetTable(given.fw, given.asked[1], given.asked[2])
      BY <2>1 DEF AcpiInv, AcpiResult
    <2>3. Finds(given.fw, given.asked[1], given.asked[2],
                GetTable(given.fw, given.asked[1], given.asked[2]))
      BY ONLY <2>2, Found
    <2> QED BY ONLY <2>2, <2>3
  <1> QED
    BY <1>1, <1>2, StartInvInit, StartInvNext, AcpiInvNext, PTL DEF StartSpec

(***************************************************************************)
(* The numbers on the command line.  The parser multiplies and adds (the   *)
(* function Horner); Numeral weighs each digit; the two are the same       *)
(* number, and the check before each digit keeps it within uint64_t.       *)
(***************************************************************************)
LEMMA DigitValues == ASSUME NEW ch PROVE DigitValue(ch) \in -1 .. 15
  BY DEF DigitValue

LEMMA Distribute ==
    ASSUME NEW h \in Int, NEW b \in Int, NEW d \in Int, NEW w \in Int
    PROVE  (h * b + d) * w = h * (b * w) + d * w
  OBVIOUS

LEMMA Options ==
    /\ \A v : Some(v) # None /\ Some(v)[2] = v
    /\ \A v, w : Some(v) = Some(w) => v = w
  BY DEF Some, None

LEMMA RoomForDigit ==
    ASSUME NEW v \in Nat, NEW d \in Nat, NEW max \in Nat, NEW base \in {10, 16}
    PROVE  /\ v > (max - d) \div base <=> v * base + d > max
           /\ v * base + d <= max => (v * base + d) % (max + 1) = v * base + d
           /\ v * base + d >= v /\ v * base + d \in Nat
  <1>1. CASE base = 10 BY <1>1
  <1>2. CASE base = 16 BY <1>2
  <1> QED BY <1>1, <1>2

\* The number that the first i digits of s denote, digit by digit.
HornerSteps(s, base) == [x \in Int |-> [i \in 1 .. Len(s) |-> x * base + DigitValue(s[i])]]
Horner(s, base) == CHOOSE h : Computes(h, Int, 0, Len(s), Before(Len(s)), HornerSteps(s, base))
Digital(s, base, i) == \A k \in 1 .. i : DigitValue(s[k]) \in 0 .. base - 1

LEMMA HornerIs ==
    ASSUME NEW s \in Seq(STRING), NEW base \in {10, 16}
    PROVE  /\ Horner(s, base) \in [0 .. Len(s) -> Int] /\ Horner(s, base)[0] = 0
           /\ \A i \in 1 .. Len(s) :
                Horner(s, base)[i] = Horner(s, base)[i - 1] * base + DigitValue(s[i])
  <1> DEFINE n == Len(s)
             S == HornerSteps(s, base)
             h == Horner(s, base)
  <1>1. n \in Nat /\ base \in Int /\ 0 \in Int OBVIOUS
  <1>2. \A i \in 1 .. n : DigitValue(s[i]) \in Int BY DigitValues
  <1>3. /\ S \in Steps(Int, n)
        /\ \A x \in Int : \A i \in 1 .. n : S[x][i] = x * base + DigitValue(s[i])
    <2>1. \A x \in Int : \A i \in 1 .. n : x * base + DigitValue(s[i]) \in Int BY <1>1, <1>2
    <2> QED BY <2>1 DEF HornerSteps, Steps
  <1>4. /\ Before(n) \in Earlier(n) /\ \A i \in 1 .. n : Before(n)[i] = i - 1
      BY <1>1, BeforeIsEarlier
  <1> HIDE DEF n, S
  <1>5. \E g : Computes(g, Int, 0, n, Before(n), S) BY <1>1, <1>3, <1>4, RecursionExists
  <1>6. Computes(h, Int, 0, n, Before(n), S) BY <1>5 DEF Horner, n, S
  <1> HIDE DEF h
  <1>7. h \in [0 .. n -> Int] /\ h[0] = 0 /\ \A i \in 1 .. n : h[i] = S[h[i - 1]][i]
      BY <1>4, <1>6 DEF Computes
  <1>8. ASSUME NEW i \in 1 .. n PROVE h[i] = h[i - 1] * base + DigitValue(s[i])
    <2>1. i - 1 \in 0 .. n BY <1>1
    <2>2. h[i - 1] \in Int BY <1>7, <2>1
    <2> QED BY <1>3, <1>7, <2>2
  <1> QED BY <1>7, <1>8 DEF h, n

LEMMA HornerGrows ==
    ASSUME NEW s \in Seq(STRING), NEW base \in {10, 16}, NEW i \in 0 .. Len(s), Digital(s, base, i)
    PROVE  Horner(s, base)[i] \in Nat
  <1> DEFINE h == Horner(s, base)
             T == {j \in 0 .. i : h[j] \notin Nat}
  <1>1. Len(s) \in Nat /\ i \in Nat OBVIOUS
  <1>2. /\ h[0] = 0 /\ \A j \in 1 .. Len(s) : h[j] = h[j - 1] * base + DigitValue(s[j])
      BY HornerIs
  <1> HIDE DEF h
  <1>3. T = {}
    <2> SUFFICES ASSUME T # {} PROVE FALSE OBVIOUS
    <2>1. T \in SUBSET Nat BY <1>1
    <2>2. PICK m \in T : \A y \in T : m <= y
      <3> HIDE DEF T
      <3> QED BY <2>1, Least
    <2>3. m \in 0 .. i /\ m \in Nat /\ h[m] \notin Nat BY <1>1, <2>2
    <2>4. m # 0 BY <1>2, <2>3
    <2>5. m \in 1 .. i /\ m \in 1 .. Len(s) /\ m - 1 \in 0 .. i /\ ~(m <= m - 1) BY <1>1, <2>3, <2>4
    <2>6. h[m - 1] \in Nat BY <2>2, <2>5
    <2>7. DigitValue(s[m]) \in Nat BY <2>5 DEF Digital
    <2>8. h[m] = h[m - 1] * base + DigitValue(s[m]) BY <1>2, <2>5
    <2> QED BY <2>3, <2>6, <2>7, <2>8, RoomForDigit
  <1>4. i \in 0 .. i BY <1>1
  <1> QED BY <1>3, <1>4 DEF h

\* The digits by weight give the number that multiplying and adding gives.
LEMMA WeighedIs ==
    ASSUME NEW d \in Seq(Int), NEW base \in {10, 16}, NEW h \in [0 .. Len(d) -> Int], h[0] = 0,
           \A k \in 1 .. Len(d) : h[k] = h[k - 1] * base + d[k]
    PROVE  Weighed(d, base) = h[Len(d)]
  <1> DEFINE n == Len(d)
             weight[k \in 0 .. Len(d)] == IF k = 0 THEN 1 ELSE base * weight[k - 1]
             sum[k \in 0 .. Len(d)] ==
                 IF k = 0 THEN 0 ELSE sum[k - 1] + d[k] * weight[Len(d) - k]
  <1>1. n \in Nat /\ base \in Int /\ DOMAIN d = 1 .. n OBVIOUS
  <1>2. Weighed(d, base) = sum[n] BY DEF Weighed
  <1>3. /\ weight \in [0 .. n -> Int] /\ weight[0] = 1
        /\ \A k \in 1 .. n : weight[k] = base * weight[k - 1]
    <2> DEFINE S == [x \in Int |-> [i \in 1 .. n |-> base * x]]
               Q(f) == f = [k \in 0 .. n |-> IF k = 0 THEN 1 ELSE base * f[k - 1]]
    <2>1. weight = CHOOSE f : Q(f) OBVIOUS
    <2> HIDE DEF n, weight
    <2>2. S \in Steps(Int, n) /\ \A x \in Int : \A i \in 1 .. n : S[x][i] = base * x
        BY <1>1 DEF Steps
    <2>3. /\ Before(n) \in Earlier(n) /\ \A i \in 1 .. n : Before(n)[i] = i - 1
        BY <1>1, BeforeIsEarlier
    <2> HIDE DEF S
    <2>4. 1 \in Int OBVIOUS
    <2>5. PICK g : Computes(g, Int, 1, n, Before(n), S) BY <1>1, <2>2, <2>3, <2>4, RecursionExists
    <2>6. g \in [0 .. n -> Int] /\ g[0] = 1 /\ \A i \in 1 .. n : g[i] = S[g[i - 1]][i]
        BY <2>3, <2>5 DEF Computes
    <2>7. ASSUME NEW k \in 0 .. n PROVE g[k] = IF k = 0 THEN 1 ELSE base * g[k - 1]
      <3>1. CASE k = 0 BY <2>6, <3>1
      <3>2. CASE k # 0
        <4>1. k \in 1 .. n /\ k - 1 \in 0 .. n BY <1>1, <3>2
        <4>2. g[k - 1] \in Int BY <2>6, <4>1
        <4> QED BY <2>2, <2>6, <3>2, <4>1, <4>2
      <3> QED BY <3>1, <3>2
    <2>8. Q(g) BY <2>6, <2>7
    <2> HIDE DEF Q
    <2>9. Q(weight) BY <2>1, <2>8
    <2> USE DEF Q
    <2>10. \A k \in 0 .. n : weight[k] = IF k = 0 THEN 1 ELSE base * weight[k - 1] BY <2>9
    <2>11. weight = [k \in 0 .. n |-> weight[k]] BY <2>9
    <2> HIDE DEF Q
    <2>12. \A k \in 1 .. n : k # 0 /\ k \in 0 .. n BY <1>1
    <2>13. weight[0] = 1 /\ \A k \in 1 .. n : weight[k] = base * weight[k - 1] BY <1>1, <2>10, <2>12
    <2>14. \A i \in 1 .. n : weight[Before(n)[i]] \in Int => weight[i] = S[weight[Before(n)[i]]][i]
        BY <2>2, <2>3, <2>13
    <2>15. Computes(weight, Int, 1, n, Before(n), S)
        BY <1>1, <2>2, <2>3, <2>4, <2>11, <2>13, <2>14, RecursionTyped
    <2> QED BY <2>13, <2>15 DEF Computes
  <1>4. \A k \in 1 .. n : d[k] \in Int OBVIOUS
  <1>5. /\ sum \in [0 .. n -> Int] /\ sum[0] = 0
        /\ \A k \in 1 .. n : sum[k] = sum[k - 1] + d[k] * weight[n - k]
    <2> HIDE DEF weight
    <2> DEFINE S == [x \in Int |-> [i \in 1 .. n |-> x + d[i] * weight[n - i]]]
               Q(f) == f = [k \in 0 .. n |-> IF k = 0 THEN 0 ELSE f[k - 1] + d[k] * weight[n - k]]
    <2>1. sum = CHOOSE f : Q(f) OBVIOUS
    <2> HIDE DEF n, sum
    <2>2. S \in Steps(Int, n) /\ \A x \in Int : \A i \in 1 .. n : S[x][i] = x + d[i] * weight[n - i]
      <3>1. \A i \in 1 .. n : n - i \in 0 .. n BY <1>1
      <3>2. \A i \in 1 .. n : weight[n - i] \in Int BY <1>3, <3>1
      <3>3. \A x \in Int : \A i \in 1 .. n : x + d[i] * weight[n - i] \in Int BY <1>4, <3>2
      <3> QED BY <3>3 DEF Steps
    <2>3. /\ Before(n) \in Earlier(n) /\ \A i \in 1 .. n : Before(n)[i] = i - 1
        BY <1>1, BeforeIsEarlier
    <2> HIDE DEF S
    <2>4. 0 \in Int OBVIOUS
    <2>5. PICK g : Computes(g, Int, 0, n, Before(n), S) BY <1>1, <2>2, <2>3, <2>4, RecursionExists
    <2>6. g \in [0 .. n -> Int] /\ g[0] = 0 /\ \A i \in 1 .. n : g[i] = S[g[i - 1]][i]
        BY <2>3, <2>5 DEF Computes
    <2>7. ASSUME NEW k \in 0 .. n PROVE g[k] = IF k = 0 THEN 0 ELSE g[k - 1] + d[k] * weight[n - k]
      <3>1. CASE k = 0 BY <2>6, <3>1
      <3>2. CASE k # 0
        <4>1. k \in 1 .. n /\ k - 1 \in 0 .. n BY <1>1, <3>2
        <4>2. g[k - 1] \in Int BY <2>6, <4>1
        <4> QED BY <2>2, <2>6, <3>2, <4>1, <4>2
      <3> QED BY <3>1, <3>2
    <2>8. Q(g) BY <2>6, <2>7
    <2> HIDE DEF Q
    <2>9. Q(sum) BY <2>1, <2>8
    <2> USE DEF Q
    <2>10. \A k \in 0 .. n : sum[k] = IF k = 0 THEN 0 ELSE sum[k - 1] + d[k] * weight[n - k] BY <2>9
    <2>11. sum = [k \in 0 .. n |-> sum[k]] BY <2>9
    <2> HIDE DEF Q
    <2>12. \A k \in 1 .. n : k # 0 /\ k \in 0 .. n BY <1>1
    <2>13. sum[0] = 0 /\ \A k \in 1 .. n : sum[k] = sum[k - 1] + d[k] * weight[n - k] BY <1>1, <2>10, <2>12
    <2>14. \A i \in 1 .. n : sum[Before(n)[i]] \in Int => sum[i] = S[sum[Before(n)[i]]][i]
        BY <2>2, <2>3, <2>13
    <2>15. Computes(sum, Int, 0, n, Before(n), S)
        BY <1>1, <2>2, <2>3, <2>4, <2>11, <2>13, <2>14, RecursionTyped
    <2> QED BY <2>13, <2>15 DEF Computes
  <1> HIDE DEF weight, sum
  <1>6. /\ h \in [0 .. n -> Int] /\ h[0] = 0
        /\ \A k \in 1 .. n : h[k] = h[k - 1] * base + d[k]
      OBVIOUS
  <1> DEFINE T == {k \in 0 .. n : sum[k] # h[k] * weight[n - k]}
  <1>7. T = {}
    <2> HIDE DEF n
    <2> SUFFICES ASSUME T # {} PROVE FALSE OBVIOUS
    <2>1. T \in SUBSET Nat OBVIOUS
    <2>2. PICK m \in T : \A y \in T : m <= y
      <3> HIDE DEF T
      <3> QED BY <2>1, Least
    <2>3. m \in 0 .. n /\ m \in Nat /\ sum[m] # h[m] * weight[n - m] BY <2>2
    <2>4. m # 0
      <3>1. weight[n] \in Int BY <1>1, <1>3
      <3> QED BY <1>1, <1>5, <1>6, <2>3, <3>1
    <2>5. m \in 1 .. n /\ m - 1 \in 0 .. n /\ ~(m <= m - 1) BY <1>1, <2>3, <2>4
    <2>6. sum[m - 1] = h[m - 1] * weight[n - (m - 1)] BY <2>2, <2>5
    <2> DEFINE w == weight[n - m]
               x == d[m]
    <2>7. w \in Int /\ x \in Int /\ h[m - 1] \in Int
      <3>1. n - m \in 0 .. n BY <1>1, <2>5
      <3> QED BY <1>3, <1>4, <1>6, <2>5, <3>1
    <2>8. weight[n - (m - 1)] = base * w
      <3>1. n - (m - 1) \in 1 .. n /\ n - (m - 1) - 1 = n - m BY <1>1, <2>5
      <3> QED BY <1>3, <3>1
    <2>9. h[m] = h[m - 1] * base + x BY <1>6, <2>5
    <2>10. sum[m] = h[m - 1] * (base * w) + x * w BY <1>5, <2>5, <2>6, <2>8
    <2>11. (h[m - 1] * base + x) * w = h[m - 1] * (base * w) + x * w
      <3> DEFINE y == h[m - 1]
      <3>1. y \in Int /\ base \in Int /\ x \in Int /\ w \in Int BY <1>1, <2>7
      <3> HIDE DEF w, x, y
      <3>2. (y * base + x) * w = y * (base * w) + x * w BY ONLY <3>1, Distribute
      <3> QED BY <3>2 DEF y
    <2> HIDE DEF w, x
    <2>12. sum[m] = h[m] * w BY <2>9, <2>10, <2>11
    <2> QED BY <2>3, <2>12 DEF w
  <1>8. sum[n] = h[n]
    <2> HIDE DEF n
    <2>1. n \in 0 .. n /\ n - n = 0 BY <1>1
    <2>2. sum[n] = h[n] * weight[0] BY <1>7, <2>1
    <2>3. h[n] \in Int BY <1>6, <2>1
    <2> QED BY <1>3, <2>2, <2>3
  <1> QED BY <1>2, <1>8

\* The parser's number is the one that Numeral weighs.
LEMMA NumeralIs ==
    ASSUME NEW s \in Seq(STRING), NEW base \in {10, 16}
    PROVE  Numeral(s, base) = IF s # <<>> /\ Digital(s, base, Len(s))
                              THEN Some(Horner(s, base)[Len(s)]) ELSE None
  <1> DEFINE n == Len(s)
             h == Horner(s, base)
             d == [k \in DOMAIN s |-> DigitValue(s[k])]
  <1>1. n \in Nat /\ DOMAIN s = 1 .. n OBVIOUS
  <1>2. Numeral(s, base) = IF s # <<>> /\ \A k \in DOMAIN s : d[k] \in 0 .. base - 1
                           THEN Some(Weighed(d, base)) ELSE None
    BY DEF Numeral
  <1>3. \A k \in 1 .. n : DigitValue(s[k]) \in Int BY DigitValues
  <1>4. d \in Seq(Int) /\ Len(d) = n /\ \A k \in 1 .. n : d[k] = DigitValue(s[k])
    <2>1. d \in [1 .. n -> Int] BY <1>1, <1>3
    <2>2. d \in Seq(Int) BY <1>1, <2>1, SeqDef
    <2>3. Len(d) = n BY <1>1, <2>1, <2>2, LenProperties
    <2> QED BY <1>1, <2>2, <2>3
  <1>5. /\ h \in [0 .. n -> Int] /\ h[0] = 0
        /\ \A k \in 1 .. n : h[k] = h[k - 1] * base + DigitValue(s[k])
    BY HornerIs
  <1> HIDE DEF d, h, n
  <1>6. Weighed(d, base) = h[Len(d)]
    <2>1. h \in [0 .. Len(d) -> Int] /\ \A k \in 1 .. Len(d) : h[k] = h[k - 1] * base + d[k]
      BY <1>4, <1>5
    <2> QED BY <1>4, <1>5, <2>1, WeighedIs
  <1>7. (\A k \in DOMAIN s : d[k] \in 0 .. base - 1) <=> Digital(s, base, n)
    BY <1>1, <1>4 DEF Digital
  <1> QED BY <1>2, <1>4, <1>6, <1>7 DEF n, h

\* ParseInteger stops at the first digit that is none or that leads beyond
\* the limit, and at no other.
LEMMA ParseIntegerIs ==
    ASSUME NEW s \in Seq(STRING), NEW base \in {10, 16}
    PROVE  ParseInteger(s, base) = UpTo(Numeral(s, base), UINT64_MAX)
  <1> DEFINE n == Len(s)
             max == UINT64_MAX
             h == Horner(s, base)
             parsed[i \in 0 .. Len(s)] ==
                 IF i = 0 THEN Some(0)
                 ELSE LET d == DigitValue(s[i])
                      IN IF \/ parsed[i - 1] = None \/ d < 0 \/ d >= base
                            \/ parsed[i - 1][2] > (UINT64_MAX - d) \div base
                         THEN None
                         ELSE Some((parsed[i - 1][2] * base + d) % (UINT64_MAX + 1))
             Step(p, d) == IF \/ p = None \/ d < 0 \/ d >= base \/ p[2] > (max - d) \div base
                           THEN None ELSE Some((p[2] * base + d) % (max + 1))
             Q(f) == f = [i \in 0 .. n |-> IF i = 0 THEN Some(0) ELSE Step(f[i - 1], DigitValue(s[i]))]
             fits(i) == Digital(s, base, i) /\ h[i] <= max
             g == [i \in 0 .. n |-> IF fits(i) THEN Some(h[i]) ELSE None]
  <1>1. n \in Nat /\ max \in Nat /\ base \in Nat /\ base > 0 BY CommandLineAssumption
  <1>2. ParseInteger(s, base) = IF s = <<>> THEN None ELSE parsed[n] BY DEF ParseInteger
  <1>3. parsed = CHOOSE f : Q(f) OBVIOUS
  <1>4. /\ h \in [0 .. n -> Int] /\ h[0] = 0
        /\ \A k \in 1 .. n : h[k] = h[k - 1] * base + DigitValue(s[k])
      BY HornerIs
  <1>5. \A i \in 0 .. n : Digital(s, base, i) => h[i] \in Nat BY HornerGrows
  <1> HIDE DEF n, parsed, h, max
  <1>6. fits(0) BY <1>1, <1>4 DEF Digital
  <1>7. ASSUME NEW i \in 1 .. n
        PROVE  (IF fits(i) THEN Some(h[i]) ELSE None)
                  = Step(IF fits(i - 1) THEN Some(h[i - 1]) ELSE None, DigitValue(s[i]))
    <2> DEFINE d == DigitValue(s[i])
               p == IF fits(i - 1) THEN Some(h[i - 1]) ELSE None
    <2>1. d \in Int BY DigitValues
    <2>2. i - 1 \in 0 .. n /\ i \in 0 .. n /\ i \in Nat BY <1>1
    <2>3. Digital(s, base, i) <=> Digital(s, base, i - 1) /\ d \in 0 .. base - 1
      <3>1. \A k : k \in 1 .. i <=> k \in 1 .. i - 1 \/ k = i BY <2>2
      <3> QED BY <3>1 DEF Digital
    <2>4. h[i] = h[i - 1] * base + d BY <1>4
    <2> HIDE DEF d
    <2>5. CASE d \notin 0 .. base - 1
      <3>1. d < 0 \/ d >= base BY <1>1, <2>1, <2>5
      <3>2. Step(p, d) = None BY <3>1
      <3>3. ~fits(i) BY <2>3, <2>5
      <3> QED BY <3>2, <3>3 DEF d
    <2>6. CASE d \in 0 .. base - 1 /\ ~fits(i - 1)
      <3>1. Step(p, d) = None BY <2>6
      <3>2. ~fits(i)
        <4>1. SUFFICES ASSUME Digital(s, base, i) PROVE ~(h[i] <= max) OBVIOUS
        <4>2. Digital(s, base, i - 1) /\ h[i - 1] \in Nat BY <1>5, <2>2, <2>3, <4>1
        <4>3. ~(h[i - 1] <= max) BY <2>6, <4>2
        <4>4. d \in Nat BY <2>6
        <4>5. h[i - 1] * base + d >= h[i - 1] /\ h[i - 1] * base + d \in Nat BY <1>1, <4>2, <4>4, RoomForDigit
        <4> QED BY <1>1, <2>4, <4>2, <4>3, <4>5
      <3> QED BY <3>1, <3>2 DEF d
    <2>7. CASE d \in 0 .. base - 1 /\ fits(i - 1)
      <3>1. d \in Nat /\ ~(d < 0) /\ ~(d >= base) BY <1>1, <2>7
      <3>2. h[i - 1] \in Nat /\ p = Some(h[i - 1]) /\ p # None /\ p[2] = h[i - 1]
          BY <1>5, <2>2, <2>7, Options
      <3>3. /\ h[i - 1] > (max - d) \div base <=> h[i] > max
            /\ h[i] <= max => h[i] % (max + 1) = h[i]
            /\ h[i] \in Nat
        <4> DEFINE v == h[i - 1]
                   x == v * base + d
        <4>1. /\ v > (max - d) \div base <=> v * base + d > max
              /\ v * base + d <= max => (v * base + d) % (max + 1) = v * base + d
              /\ v * base + d \in Nat
          <5>1. v \in Nat BY <3>2
          <5> HIDE DEF v, d
          <5> QED BY <1>1, <3>1, <5>1, RoomForDigit
        <4>2. x = h[i] BY <2>4
        <4>3. /\ v > (max - d) \div base <=> x > max
              /\ x <= max => x % (max + 1) = x
              /\ x \in Nat
            BY <4>1
        <4> HIDE DEF x
        <4> QED BY <4>2, <4>3
      <3>4. fits(i) <=> h[i] <= max BY <2>3, <2>7
      <3>5. Step(p, d) = IF h[i] > max THEN None ELSE Some(h[i] % (max + 1))
          BY <2>4, <3>1, <3>2, <3>3
      <3> HIDE DEF fits, p, Step
      <3>6. CASE h[i] > max
        <4>1. ~fits(i) BY <1>1, <3>3, <3>4, <3>6
        <4> QED BY <3>5, <3>6, <4>1 DEF d, p
      <3>7. CASE h[i] <= max
        <4>1. fits(i) /\ ~(h[i] > max) BY <1>1, <3>3, <3>4, <3>7
        <4> QED BY <3>3, <3>5, <3>7, <4>1 DEF d, p
      <3> QED BY <1>1, <3>3, <3>6, <3>7
    <2> QED BY <2>5, <2>6, <2>7
  <1>8. Q(g)
    <2> HIDE DEF fits, Step
    <2>1. \A i \in 0 .. n : g[i] = IF fits(i) THEN Some(h[i]) ELSE None OBVIOUS
    <2>2. g = [i \in 0 .. n |-> g[i]] OBVIOUS
    <2> HIDE DEF g
    <2>3. ASSUME NEW i \in 0 .. n
          PROVE  g[i] = IF i = 0 THEN Some(0) ELSE Step(g[i - 1], DigitValue(s[i]))
      <3>1. CASE i = 0 BY <1>4, <1>6, <2>1, <3>1
      <3>2. CASE i # 0
        <4>1. i \in 1 .. n /\ i - 1 \in 0 .. n BY <1>1, <3>2
        <4> QED BY <1>7, <2>1, <3>2, <4>1
      <3> QED BY <3>1, <3>2
    <2> QED BY <2>2, <2>3
  <1> HIDE DEF Q, g, Step
  <1>9. Q(parsed) BY <1>3, <1>8
  <1> USE DEF Q
  <1>10. /\ \A i \in 0 .. n : parsed[i] = IF i = 0 THEN Some(0) ELSE Step(parsed[i - 1], DigitValue(s[i]))
         /\ \A i \in 0 .. n : g[i] = IF i = 0 THEN Some(0) ELSE Step(g[i - 1], DigitValue(s[i]))
      BY <1>8, <1>9
  <1> HIDE DEF Q
  <1> DEFINE T == {i \in 0 .. n : parsed[i] # g[i]}
  <1>11. T = {}
    <2> SUFFICES ASSUME T # {} PROVE FALSE OBVIOUS
    <2>1. T \in SUBSET Nat OBVIOUS
    <2>2. PICK m \in T : \A y \in T : m <= y
      <3> HIDE DEF T
      <3> QED BY <2>1, Least
    <2>3. m \in 0 .. n /\ m \in Nat /\ parsed[m] # g[m] BY <2>2
    <2>4. m # 0 BY <1>10, <2>3
    <2>5. m - 1 \in 0 .. n /\ ~(m <= m - 1) BY <1>1, <2>3, <2>4
    <2>6. parsed[m - 1] = g[m - 1] BY <2>2, <2>5
    <2> QED BY <1>10, <2>3, <2>4, <2>6
  <1>12. parsed[n] = IF fits(n) THEN Some(h[n]) ELSE None
    <2>1. n \in 0 .. n BY <1>1
    <2>2. parsed[n] = g[n] BY <1>11, <2>1
    <2> QED BY <2>1, <2>2 DEF g
  <1>13. Numeral(s, base) = IF s # <<>> /\ Digital(s, base, n) THEN Some(h[n]) ELSE None
      BY NumeralIs DEF n, h
  <1>14. CASE s = <<>> BY <1>2, <1>13, <1>14 DEF UpTo
  <1>15. CASE s # <<>> /\ ~Digital(s, base, n) BY <1>2, <1>12, <1>13, <1>15 DEF UpTo
  <1>16. CASE s # <<>> /\ Digital(s, base, n)
    <2>1. n \in 0 .. n BY <1>1
    <2>2. h[n] \in Nat BY <1>5, <1>16, <2>1
    <2>3. Numeral(s, base) = Some(h[n]) /\ Numeral(s, base)[2] = h[n] /\ Numeral(s, base) # None
        BY <1>13, <1>16, Options
    <2>4. UpTo(Numeral(s, base), max) = IF h[n] > max THEN None ELSE Some(h[n]) BY <2>3 DEF UpTo
    <2>5. h[n] > max <=> ~(h[n] <= max) BY <1>1, <2>2
    <2>6. parsed[n] = IF h[n] <= max THEN Some(h[n]) ELSE None BY <1>12, <1>16
    <2> QED BY <1>2, <1>16, <2>4, <2>5, <2>6 DEF max
  <1> QED BY <1>14, <1>15, <1>16

(***************************************************************************)
(* Formatter::Parse for each type.                                         *)
(***************************************************************************)
LEMMA FirstChars ==
    ASSUME NEW s \in Seq(STRING)
    PROVE  /\ s # <<>> <=> Len(s) >= 1
           /\ Len(s) >= 1 => Substring(s, 0, 1) = <<s[1]>>
           /\ Len(s) >= 2 => Substring(s, 0, 2) = <<s[1], s[2]>>
           /\ s = <<>> => Substring(s, 0, 1) = <<>>
  <1>1. Len(s) \in Nat /\ (s # <<>> <=> Len(s) >= 1) OBVIOUS
  <1>2. ASSUME Len(s) >= 1 PROVE Substring(s, 0, 1) = <<s[1]>>
    <2> DEFINE t == SubSeq(s, 1, 1)
    <2>1. t \in Seq(STRING) /\ Len(t) = 1 /\ t[1] = s[1] BY <1>1, <1>2
    <2> HIDE DEF t
    <2>2. t = <<t[1]>> BY <2>1
    <2> QED BY <1>1, <1>2, <2>1, <2>2 DEF Substring, t
  <1>3. ASSUME Len(s) >= 2 PROVE Substring(s, 0, 2) = <<s[1], s[2]>>
    <2> DEFINE t == SubSeq(s, 1, 2)
    <2>1. t \in Seq(STRING) /\ Len(t) = 2 /\ t[1] = s[1] /\ t[2] = s[2] BY <1>1, <1>3
    <2> HIDE DEF t
    <2>2. t = <<t[1], t[2]>> BY <2>1
    <2> QED BY <1>1, <1>3, <2>1, <2>2 DEF Substring, t
  <1>4. s = <<>> => Substring(s, 0, 1) = <<>> BY DEF Substring
  <1> QED BY <1>1, <1>2, <1>3, <1>4

LEMMA ParseBoolIs ==
    ASSUME NEW s \in Seq(STRING)
    PROVE  ParseBool(s) = IF s \in Yes \cup No THEN Some(s \in Yes) ELSE None
  <1>1. CASE s = <<"1">> BY <1>1 DEF ParseBool, Yes, No
  <1>2. CASE s = <<"0">>
    <2>1. s # <<"1">> /\ s # <<"t", "r", "u", "e">> BY <1>2
    <2>2. ParseBool(s) = Some(FALSE) BY <1>2, <2>1 DEF ParseBool
    <2>3. s \in No /\ (s \in Yes) = FALSE BY <1>2, <2>1 DEF Yes, No
    <2> QED BY <2>2, <2>3
  <1>3. CASE s = <<"t", "r", "u", "e">>
    <2>1. s # <<"1">> /\ s # <<"0">> BY <1>3
    <2> QED BY <1>3, <2>1 DEF ParseBool, Yes, No
  <1>4. CASE s = <<"f", "a", "l", "s", "e">>
    <2>1. s # <<"1">> /\ s # <<"0">> /\ s # <<"t", "r", "u", "e">> BY <1>4
    <2>2. ParseBool(s) = Some(FALSE) BY <1>4, <2>1 DEF ParseBool
    <2>3. s \in No /\ (s \in Yes) = FALSE BY <1>4, <2>1 DEF Yes, No
    <2> QED BY <2>2, <2>3
  <1>5. CASE s \notin Yes \cup No BY <1>5 DEF ParseBool, Yes, No
  <1> QED BY <1>1, <1>2, <1>3, <1>4, <1>5 DEF Yes, No

LEMMA ParseUintIs ==
    ASSUME NEW s \in Seq(STRING) PROVE ParseUint(s) = Meaning("uint64_t", s)
  <1> DEFINE hex == Len(s) > 1 /\ s[1] = "0" /\ s[2] \in {"x", "X"}
             rest == SubSeq(s, 3, Len(s))
  <1>1. Len(s) >= 2 /\ Substring(s, 0, 2) \in {<<"0", "x">>, <<"0", "X">>} <=> hex
    <2>1. Len(s) >= 2 <=> Len(s) > 1 OBVIOUS
    <2>2. \A a, b, c, d : <<a, b>> = <<c, d>> <=> a = c /\ b = d OBVIOUS
    <2> QED BY <2>1, <2>2, FirstChars
  <1>2. Meaning("uint64_t", s) = IF hex THEN UpTo(Numeral(rest, 16), UINT64_MAX)
                                 ELSE UpTo(Numeral(s, 10), UINT64_MAX)
      BY DEF Meaning
  <1>3. ParseUint(s) = IF hex THEN ParseInteger(rest, 16) ELSE ParseInteger(s, 10)
      BY <1>1 DEF ParseUint
  <1>4. rest \in Seq(STRING) OBVIOUS
  <1> HIDE DEF hex, rest
  <1>5. /\ ParseInteger(rest, 16) = UpTo(Numeral(rest, 16), UINT64_MAX)
        /\ ParseInteger(s, 10) = UpTo(Numeral(s, 10), UINT64_MAX)
      BY <1>4, ParseIntegerIs
  <1> QED BY <1>2, <1>3, <1>5

\* The limits of int64_t are below the one at which ParseInteger stops.
LEMMA Signed ==
    ASSUME NEW t \in Seq(STRING), NEW limit \in {INT64_MAX, INT64_MAX + 1}
    PROVE  LET mag == ParseInteger(t, 10)
           IN  UpTo(Numeral(t, 10), limit) = IF mag = None THEN None
                                             ELSE IF mag[2] > limit THEN None ELSE mag
  <1> DEFINE n == Numeral(t, 10)
             h == Horner(t, 10)[Len(t)]
  <1>1. INT64_MAX \in Nat /\ UINT64_MAX = 2 * INT64_MAX + 1 BY CommandLineAssumption
  <1>2. limit \in Nat /\ UINT64_MAX \in Nat /\ limit <= UINT64_MAX BY <1>1
  <1>3. ParseInteger(t, 10) = UpTo(n, UINT64_MAX) BY ParseIntegerIs
  <1>4. n = None \/ (n = Some(h) /\ h \in Nat)
    <2>1. Len(t) \in 0 .. Len(t) OBVIOUS
    <2>2. CASE t # <<>> /\ Digital(t, 10, Len(t)) BY <2>1, <2>2, NumeralIs, HornerGrows
    <2>3. CASE ~(t # <<>> /\ Digital(t, 10, Len(t))) BY <2>3, NumeralIs
    <2> QED BY <2>2, <2>3
  <1> HIDE DEF n, h
  <1>5. CASE n = None BY <1>3, <1>5 DEF UpTo, n
  <1>6. CASE n = Some(h) /\ h \in Nat
    <2>1. n # None /\ n[2] = h BY <1>6, Options
    <2>2. UpTo(n, UINT64_MAX) = (IF h > UINT64_MAX THEN None ELSE n)
        /\ UpTo(n, limit) = (IF h > limit THEN None ELSE n) BY <2>1 DEF UpTo
    <2>3. CASE h > UINT64_MAX
      <3>1. h > limit BY <1>2, <1>6, <2>3
      <3> QED BY <1>3, <2>2, <2>3, <3>1 DEF n
    <2>4. CASE ~(h > UINT64_MAX) BY <1>3, <2>1, <2>2, <2>4 DEF n
    <2> QED BY <2>3, <2>4
  <1> QED BY <1>4, <1>5, <1>6

LEMMA ParseIntIs ==
    ASSUME NEW s \in Seq(STRING) PROVE ParseInt(s) = Meaning("int64_t", s)
  <1> DEFINE neg == Substring(s, 0, 1) = <<"-">>
             sgn == neg \/ Substring(s, 0, 1) = <<"+">>
             t == IF sgn THEN Tail(s) ELSE s
             mag == ParseInteger(t, 10)
             limit == IF neg THEN INT64_MAX + 1 ELSE INT64_MAX
  <1>1. ParseInt(s) = IF s = <<>> \/ mag = None THEN None
                      ELSE IF mag[2] > limit THEN None
                      ELSE Some(IF neg THEN -mag[2] ELSE mag[2])
      BY DEF ParseInt
  <1>2. Meaning("int64_t", s) =
          IF s # <<>> /\ s[1] \in {"-", "+"}
          THEN LET m == UpTo(Numeral(Tail(s), 10),
                             IF s[1] = "-" THEN INT64_MAX + 1 ELSE INT64_MAX)
               IN IF m = None THEN None ELSE Some(IF s[1] = "-" THEN -m[2] ELSE m[2])
          ELSE UpTo(Numeral(s, 10), INT64_MAX)
      BY DEF Meaning
  <1>3. CASE s = <<>>
    <2>1. Numeral(s, 10) = None BY <1>3 DEF Numeral
    <2> QED BY <1>1, <1>2, <1>3, <2>1 DEF UpTo
  <1>4. CASE s # <<>>
    <2>1. (neg <=> s[1] = "-") /\ (sgn <=> s[1] \in {"-", "+"})
      <3>1. Substring(s, 0, 1) = <<s[1]>> BY <1>4, FirstChars
      <3>2. \A a, b : <<a>> = <<b>> <=> a = b OBVIOUS
      <3> QED BY <3>1, <3>2
    <2>2. t \in Seq(STRING)
      <3>1. Tail(s) \in Seq(STRING) BY <1>4
      <3> HIDE DEF sgn
      <3> QED BY <3>1
    <2> DEFINE u == UpTo(Numeral(t, 10), limit)
    <2>3. u = IF mag = None THEN None ELSE IF mag[2] > limit THEN None ELSE mag
      <3>1. limit \in {INT64_MAX, INT64_MAX + 1} OBVIOUS
      <3> HIDE DEF t, limit
      <3> QED BY <2>2, <3>1, Signed
    <2>4. Meaning("int64_t", s) = IF sgn THEN IF u = None THEN None ELSE Some(IF neg THEN -u[2] ELSE u[2])
                                  ELSE u
      BY <1>2, <1>4, <2>1
    <2>5. ~sgn => ~neg OBVIOUS
    <2>6. mag = None \/ mag = Some(mag[2])
      <3>1. mag = UpTo(Numeral(t, 10), UINT64_MAX)
        <4> HIDE DEF t
        <4> QED BY <2>2, ParseIntegerIs
      <3>2. Numeral(t, 10) = None \/ \E v : Numeral(t, 10) = Some(v)
        <4> HIDE DEF t
        <4>1. CASE t # <<>> /\ Digital(t, 10, Len(t)) BY <2>2, <4>1, NumeralIs
        <4>2. CASE ~(t # <<>> /\ Digital(t, 10, Len(t))) BY <2>2, <4>2, NumeralIs
        <4> QED BY <4>1, <4>2
      <3> HIDE DEF t, mag
      <3>3. mag = None \/ \E v : mag = Some(v) BY <3>1, <3>2 DEF UpTo
      <3> QED BY <3>3, Options
    <2> HIDE DEF u, mag, t, limit, sgn, neg
    <2>7. CASE mag = None BY <1>1, <2>3, <2>4, <2>7
    <2>8. CASE mag # None /\ mag[2] > limit BY <1>1, <2>3, <2>4, <2>8
    <2>9. CASE mag # None /\ ~(mag[2] > limit)
      <3>1. u = mag /\ u # None BY <2>3, <2>9
      <3>2. CASE sgn BY <1>1, <1>4, <2>4, <2>9, <3>1, <3>2
      <3>3. CASE ~sgn
        <4>1. ~neg BY <2>5, <3>3
        <4> QED BY <1>1, <1>4, <2>4, <2>6, <2>9, <3>1, <3>3, <4>1
      <3> QED BY <3>2, <3>3
    <2> QED BY <2>7, <2>8, <2>9
  <1> QED BY <1>3, <1>4

Odd(T, s) == /\ T = "StringView" /\ s # <<>> /\ s[1] = QUOTE
             /\ ~(CountOf(s, QUOTE) = 2 /\ s[Len(s)] = QUOTE)

LEMMA ParseViewIs ==
    ASSUME NEW s \in Seq(STRING), ~Odd("StringView", s)
    PROVE  ParseView(s) = Meaning("StringView", s)
  <1> DEFINE closed == CountOf(s, QUOTE) = 2 /\ s[1] = QUOTE /\ s[Len(s)] = QUOTE
             v == IF Substring(s, 0, 1) = <<QUOTE>> THEN Substring(s, 1, Len(s) - 2) ELSE s
  <1>1. ParseView(s) = IF v = <<>> THEN None ELSE Some(v) BY DEF ParseView
  <1>2. Meaning("StringView", s) =
          IF closed THEN IF Len(s) = 2 THEN None ELSE Some(SubSeq(s, 2, Len(s) - 1))
          ELSE IF s = <<>> THEN None ELSE Some(s)
      BY DEF Meaning
  <1>3. CountOf(<<>>, QUOTE) = 0
    <2>1. Occurrences(<<>>, QUOTE) = {} BY DEF Occurrences
    <2> QED BY <2>1, FS_EmptySet DEF CountOf
  <1>4. CASE s = <<>>
    <2>1. ~closed BY <1>3, <1>4
    <2>2. v = <<>>
      <3>1. Substring(s, 0, 1) = <<>> BY <1>4, FirstChars
      <3>2. <<>> # <<QUOTE>> OBVIOUS
      <3> QED BY <1>4, <3>1, <3>2
    <2> QED BY <1>1, <1>2, <1>4, <2>1, <2>2
  <1>5. CASE s # <<>> /\ s[1] # QUOTE
    <2>1. v = s
      <3>1. Substring(s, 0, 1) = <<s[1]>> BY <1>5, FirstChars
      <3>2. <<s[1]>> # <<QUOTE>> BY <1>5
      <3> QED BY <3>1, <3>2
    <2> QED BY <1>1, <1>2, <1>5, <2>1
  <1>6. CASE s # <<>> /\ s[1] = QUOTE
    <2>1. closed BY <1>6 DEF Odd
    <2>2. Len(s) \in Nat /\ Len(s) >= 1 BY <1>6, FirstChars
    <2>3. Len(s) # 1
      <3> SUFFICES ASSUME Len(s) = 1 PROVE FALSE OBVIOUS
      <3>1. Occurrences(s, QUOTE) = {0}
        <4>1. 0 .. Len(s) - 1 = {0} OBVIOUS
        <4> QED BY <1>6, <4>1 DEF Occurrences
      <3>2. Cardinality({0}) = 1 BY FS_Singleton
      <3> QED BY <2>1, <3>1, <3>2 DEF CountOf
    <2>4. Substring(s, 0, 1) = <<QUOTE>> BY <1>6, <2>2, FirstChars
    <2>5. v = SubSeq(s, 2, Len(s) - 1)
      <3>1. Len(s) > 1 /\ 1 + 1 = 2 /\ 1 + (Len(s) - 2) = Len(s) - 1
        <4> DEFINE z == Len(s)
        <4>1. z \in Nat /\ z >= 1 /\ z # 1 BY <2>2, <2>3
        <4> HIDE DEF z
        <4>2. z > 1 /\ 1 + 1 = 2 /\ 1 + (z - 2) = z - 1 BY ONLY <4>1
        <4> QED BY <4>2 DEF z
      <3>2. Substring(s, 1, Len(s) - 2) = SubSeq(s, 2, Len(s) - 1) BY <3>1 DEF Substring
      <3> QED BY <2>4, <3>2
    <2>6. SubSeq(s, 2, Len(s) - 1) = <<>> <=> Len(s) = 2
      <3> DEFINE q == SubSeq(s, 2, Len(s) - 1)
      <3>2. q \in Seq(STRING) OBVIOUS
      <3>3. Len(q) = Len(s) - 2
        <4>1. CASE Len(s) = 2 BY <4>1
        <4>2. CASE Len(s) > 2 BY <2>2, <4>2
        <4> HIDE DEF q, v, closed
        <4>3. \A x \in Nat : x >= 1 /\ x # 1 => x = 2 \/ x > 2 OBVIOUS
        <4>4. Len(s) = 2 \/ Len(s) > 2 BY <2>2, <2>3, <4>3
        <4> QED BY <4>1, <4>2, <4>4
      <3> HIDE DEF q
      <3>4. q = <<>> <=> Len(q) = 0 BY <3>2
      <3> QED BY <2>2, <3>3, <3>4 DEF q
    <2> HIDE DEF v, closed
    <2> QED BY <1>1, <1>2, <2>1, <2>5, <2>6
  <1> QED BY <1>4, <1>5, <1>6

LEMMA ParseIs ==
    ASSUME NEW T \in Types, NEW s \in Seq(STRING), ~Odd(T, s)
    PROVE  Parse(T, s) = Meaning(T, s)
  <1>1. CASE T = "bool"
    <2>1. Parse(T, s) = ParseBool(s) BY <1>1 DEF Parse
    <2>2. Meaning(T, s) = IF s \in Yes \cup No THEN Some(s \in Yes) ELSE None BY <1>1 DEF Meaning
    <2> QED BY <2>1, <2>2, ParseBoolIs
  <1>2. CASE T = "uint64_t"
    <2>1. Parse(T, s) = ParseUint(s) BY <1>2 DEF Parse
    <2> QED BY <1>2, <2>1, ParseUintIs
  <1>3. CASE T = "int64_t"
    <2>1. Parse(T, s) = ParseInt(s) BY <1>3 DEF Parse
    <2> QED BY <1>3, <2>1, ParseIntIs
  <1>4. CASE T = "StringView"
    <2>1. Parse(T, s) = ParseView(s) BY <1>4 DEF Parse
    <2> QED BY <1>4, <2>1, ParseViewIs
  <1> QED BY <1>1, <1>2, <1>3, <1>4 DEF Types

(***************************************************************************)
(* GetValue.                                                               *)
(***************************************************************************)
LeastOf(S) == CHOOSE k \in S : \A j \in S : k <= j
Default(T) == IF T = "bool" THEN Some(FALSE) ELSE None
Named(T, id, a) == \/ a = id /\ T = "bool"
                   \/ CountOf(a, EQ) > 0 /\ Name(a) = id
ValueOf(T, id, a) == IF T = "bool" /\ a = id THEN Some(TRUE)
                     ELSE Parse(T, SubSeq(a, IndexOf(a, EQ) + 2, Len(a)))
NamedIn(T, id, o) == {k \in DOMAIN o : Named(T, id, o[k])}
AnswerTo(T, id, o) == IF NamedIn(T, id, o) = {} THEN Default(T)
                      ELSE ValueOf(T, id, o[LeastOf(NamedIn(T, id, o))])

LEMMA NameIsShorter ==
    ASSUME NEW a \in Seq(STRING), CountOf(a, EQ) > 0
    PROVE  Name(a) # a /\ Len(Name(a)) = IndexOf(a, EQ) /\ IndexOf(a, EQ) \in Nat
  <1> DEFINE O == Occurrences(a, EQ)
             x == IndexOf(a, EQ)
  <1>1. Len(a) \in Nat /\ O \subseteq 0 .. Len(a) - 1 BY DEF Occurrences
  <1>2. O # {}
    <2>1. Cardinality({}) = 0 BY FS_EmptySet
    <2> QED BY <2>1 DEF CountOf
  <1>3. x \in O
    <2>1. O \in SUBSET Nat BY <1>1
    <2> HIDE DEF O
    <2>2. \E i \in O : \A j \in O : i <= j BY <1>2, <2>1, Least
    <2> QED BY <2>2 DEF IndexOf, O
  <1>4. x \in Nat /\ x < Len(a) BY <1>1, <1>3
  <1>5. CountOf(a, EQ) # 0 OBVIOUS
  <1>6. Name(a) = Substring(a, 0, x) BY <1>5 DEF Name
  <1> HIDE DEF x, O
  <1>7. Substring(a, 0, x) = SubSeq(a, 1, x)
    <2>1. ~(0 >= Len(a)) /\ 0 + 1 = 1 /\ 0 + x = x BY <1>1, <1>4
    <2> QED BY <2>1 DEF Substring
  <1>8. Len(SubSeq(a, 1, x)) = x BY <1>1, <1>4
  <1>9. Len(Name(a)) = x BY <1>6, <1>7, <1>8
  <1> QED BY <1>1, <1>4, <1>9 DEF x

LEMMA GetValueIs ==
    ASSUME out \in Seq(Seq(STRING)), Len(out) = count + 1, count \in Nat, hasCommandLine,
           NEW T \in Types, NEW id
    PROVE  GetValue(T, id) = AnswerTo(T, id, out)
  <1> DEFINE n == count + 1
             from[i \in 1 .. n + 1] ==
                CASE i > n -> IF T = "bool" THEN Some(FALSE) ELSE None
                  [] i <= n /\ T = "bool" /\ out[i] = id -> Some(TRUE)
                  [] i <= n /\ CountOf(out[i], EQ) > 0 /\ Name(out[i]) = id ->
                        Parse(T, SubSeq(out[i], IndexOf(out[i], EQ) + 2, Len(out[i])))
                  [] OTHER -> from[i + 1]
             N == NamedIn(T, id, out)
             M(i) == {k \in N : k >= i}
             Of(S) == IF S = {} THEN Default(T) ELSE ValueOf(T, id, out[LeastOf(S)])
             Arm(i, x) == CASE i > n -> IF T = "bool" THEN Some(FALSE) ELSE None
                  [] i <= n /\ T = "bool" /\ out[i] = id -> Some(TRUE)
                  [] i <= n /\ CountOf(out[i], EQ) > 0 /\ Name(out[i]) = id ->
                        Parse(T, SubSeq(out[i], IndexOf(out[i], EQ) + 2, Len(out[i])))
                  [] OTHER -> x
             Q(f) == f = [i \in 1 .. n + 1 |-> Arm(i, f[i + 1])]
             g == [i \in 1 .. n + 1 |-> Of(M(i))]
  <1>1. n \in Nat /\ n = Len(out) /\ DOMAIN out = 1 .. n OBVIOUS
  <1>2. GetValue(T, id) = from[1] BY DEF GetValue
  <1>3. from = CHOOSE f : Q(f) OBVIOUS
  <1> HIDE DEF from, n
  <1>4. N \subseteq 1 .. n /\ \A k \in 1 .. n : k \in N <=> Named(T, id, out[k])
      BY <1>1 DEF NamedIn
  <1>5. ASSUME NEW i \in 1 .. n + 1, NEW x
        PROVE  Arm(i, x) = IF i > n THEN Default(T) ELSE IF i \in N THEN ValueOf(T, id, out[i]) ELSE x
    <2>1. i \in Nat /\ (i > n <=> ~(i <= n)) BY <1>1
    <2>2. CASE i > n BY <2>1, <2>2 DEF Default
    <2>3. CASE i <= n /\ T = "bool" /\ out[i] = id
      <3>0. Named(T, id, out[i]) /\ i \in 1 .. n
        <4>1. Named(T, id, out[i]) BY <2>3 DEF Named
        <4>2. i \in 1 .. n BY <1>1, <2>1, <2>3
        <4> QED BY <4>1, <4>2
      <3>1. ~(i > n) /\ i \in N BY <1>4, <2>1, <2>3, <3>0
      <3>2. ValueOf(T, id, out[i]) = Some(TRUE) BY <2>3 DEF ValueOf
      <3>3. Arm(i, x) = Some(TRUE)
        <4>1. ~(CountOf(out[i], EQ) > 0 /\ Name(out[i]) = id)
          <5> SUFFICES ASSUME CountOf(out[i], EQ) > 0, Name(out[i]) = out[i] PROVE FALSE BY <2>3
          <5>1. out[i] \in Seq(STRING) BY <1>1, <2>1, <2>3
          <5> QED BY <5>1, NameIsShorter
        <4> QED BY <2>3, <3>1, <4>1
      <3> QED BY <3>1, <3>2, <3>3
    <2>4. CASE i <= n /\ ~(T = "bool" /\ out[i] = id) /\ CountOf(out[i], EQ) > 0 /\ Name(out[i]) = id
      <3>1. ~(i > n) /\ i \in N BY <1>4, <2>1, <2>4 DEF Named
      <3>2. ValueOf(T, id, out[i]) = Parse(T, SubSeq(out[i], IndexOf(out[i], EQ) + 2, Len(out[i])))
          BY <2>4 DEF ValueOf
      <3>3. Arm(i, x) = Parse(T, SubSeq(out[i], IndexOf(out[i], EQ) + 2, Len(out[i])))
          BY <2>4, <3>1
      <3> QED BY <3>1, <3>2, <3>3
    <2>5. CASE /\ i <= n /\ ~(T = "bool" /\ out[i] = id)
               /\ ~(CountOf(out[i], EQ) > 0 /\ Name(out[i]) = id)
      <3>1. ~(i > n) /\ i \notin N BY <1>4, <2>1, <2>5 DEF Named
      <3>2. Arm(i, x) = x BY <2>5, <3>1
      <3> QED BY <3>1, <3>2
    <2> QED BY <2>1, <2>2, <2>3, <2>4, <2>5
  <1> HIDE DEF Arm, N
  <1>6. ASSUME NEW i \in 1 .. n + 1 PROVE Of(M(i)) = Arm(i, IF i > n THEN Default(T) ELSE Of(M(i + 1)))
    <2>1. i \in Nat /\ N \in SUBSET Nat BY <1>1, <1>4
    <2>2. CASE i > n
      <3>0. \A k \in N : ~(k >= i) BY <1>1, <1>4, <2>1, <2>2
      <3>1. M(i) = {} BY <3>0
      <3> QED BY <1>5, <2>2, <3>1
    <2>3. CASE ~(i > n) /\ i \in N
      <3>1. i \in M(i) /\ \A k \in M(i) : i <= k BY <2>1, <2>3
      <3>2. M(i) \in SUBSET Nat BY <2>1
      <3>3. LeastOf(M(i)) = i
        <4> HIDE DEF M
        <4>1. LeastOf(M(i)) \in M(i) /\ \A k \in M(i) : LeastOf(M(i)) <= k BY <3>1 DEF LeastOf
        <4>2. LeastOf(M(i)) \in Nat /\ LeastOf(M(i)) <= i /\ i <= LeastOf(M(i)) BY <3>1, <3>2, <4>1
        <4> QED BY <2>1, <4>2
      <3>4. Of(M(i)) = ValueOf(T, id, out[i]) BY <3>1, <3>3
      <3> HIDE DEF Of, M
      <3> QED BY <1>5, <2>3, <3>4
    <2>4. CASE ~(i > n) /\ i \notin N
      <3>1. \A k \in N : k >= i <=> k >= i + 1 BY <2>1, <2>4
      <3>2. M(i) = M(i + 1) BY <3>1
      <3> HIDE DEF Of, M
      <3> QED BY <1>5, <2>4, <3>2
    <2> QED BY <2>2, <2>3, <2>4
  <1>7. Q(g)
    <2>1. \A i \in 1 .. n + 1 : g[i] = Of(M(i)) OBVIOUS
    <2>2. g = [i \in 1 .. n + 1 |-> g[i]] OBVIOUS
    <2> HIDE DEF g, Of, M
    <2>3. ASSUME NEW i \in 1 .. n + 1 PROVE g[i] = Arm(i, g[i + 1])
      <3>1. CASE i > n BY <1>5, <1>6, <2>1, <3>1
      <3>2. CASE ~(i > n)
        <4>1. i + 1 \in 1 .. n + 1 BY <1>1, <3>2
        <4>2. g[i + 1] = Of(M(i + 1)) BY <2>1, <4>1
        <4> QED BY <1>6, <2>1, <3>2, <4>2
      <3> QED BY <3>1, <3>2
    <2> QED BY <2>2, <2>3
  <1> HIDE DEF Q, g
  <1>8. Q(from) BY <1>3, <1>7
  <1> USE DEF Q
  <1>9. /\ \A i \in 1 .. n + 1 : from[i] = Arm(i, from[i + 1])
        /\ \A i \in 1 .. n + 1 : g[i] = Arm(i, g[i + 1])
      BY <1>7, <1>8
  <1> HIDE DEF Q
  <1> DEFINE D == {j \in 0 .. n : from[n + 1 - j] # g[n + 1 - j]}
  <1>10. D = {}
    <2> SUFFICES ASSUME D # {} PROVE FALSE OBVIOUS
    <2>1. D \in SUBSET Nat OBVIOUS
    <2>2. PICK m \in D : \A y \in D : m <= y
      <3> HIDE DEF D
      <3> QED BY <2>1, Least
    <2> DEFINE i == n + 1 - m
    <2>3. m \in 0 .. n /\ m \in Nat /\ from[i] # g[i] BY <2>2
    <2>4. i \in 1 .. n + 1 BY <1>1, <2>3
    <2>5. from[i] = Arm(i, from[i + 1]) /\ g[i] = Arm(i, g[i + 1]) BY <1>9, <2>4
    <2>6. CASE m = 0
      <3>1. i > n BY <1>1, <2>6
      <3>2. Arm(i, from[i + 1]) = Default(T) /\ Arm(i, g[i + 1]) = Default(T) BY <1>5, <2>4, <3>1
      <3> QED BY <2>3, <2>5, <3>2
    <2>7. CASE m # 0
      <3>1. m - 1 \in 0 .. n /\ ~(m <= m - 1) BY <1>1, <2>3, <2>7
      <3>2. from[n + 1 - (m - 1)] = g[n + 1 - (m - 1)] BY <2>2, <3>1
      <3>3. n + 1 - (m - 1) = i + 1 BY <1>1, <2>3
      <3> HIDE DEF i
      <3> QED BY <2>3, <2>5, <3>2, <3>3
    <2> QED BY <2>6, <2>7
  <1>11. from[1] = g[1]
    <2>1. n \in 0 .. n /\ n + 1 - n = 1 BY <1>1
    <2> QED BY <1>10, <2>1
  <1>12. g[1] = Of(M(1)) BY <1>1 DEF g
  <1>13. M(1) = N
    <2>1. \A k \in N : k >= 1 BY <1>1, <1>4
    <2> QED BY <2>1
  <1> HIDE DEF M
  <1> QED BY <1>2, <1>11, <1>12, <1>13 DEF N, AnswerTo

\* What is found at an argument of the right name is what its text means.
LEMMA ValueMeans ==
    ASSUME NEW T \in Types, NEW id, NEW a \in Seq(STRING), Named(T, id, a)
    PROVE  LET text == SubSeq(a, Len(id) + 2, Len(a))
           IN  /\ a = id => ValueOf(T, id, a) = Some(TRUE)
               /\ a # id => Odd(T, text) \/ ValueOf(T, id, a) = Meaning(T, text)
  <1> DEFINE text == SubSeq(a, Len(id) + 2, Len(a))
  <1>1. CASE a = id
    <2>1. ~(CountOf(a, EQ) > 0 /\ Name(a) = id) BY <1>1, NameIsShorter
    <2>2. T = "bool" BY <2>1 DEF Named
    <2>3. ValueOf(T, id, a) = Some(TRUE) BY <1>1, <2>2 DEF ValueOf
    <2> QED BY <1>1, <2>3
  <1>2. CASE a # id
    <2>1. CountOf(a, EQ) > 0 /\ Name(a) = id BY <1>2 DEF Named
    <2>2. Len(id) = IndexOf(a, EQ) BY <2>1, NameIsShorter
    <2>3. ValueOf(T, id, a) = Parse(T, text) BY <1>2, <2>2 DEF ValueOf
    <2>4. text \in Seq(STRING) OBVIOUS
    <2> HIDE DEF text
    <2>5. Odd(T, text) \/ Parse(T, text) = Meaning(T, text) BY <2>4, ParseIs
    <2> USE DEF text
    <2> QED BY <1>2, <2>3, <2>5
  <1> QED BY <1>1, <1>2

\* A question is answered from the arguments as they are split.
AskInv == /\ pc = "ready" => hasCommandLine
          /\ asked # <<>> =>
               /\ pc = "ready"
               /\ \E T \in Types, id \in Identifiers :
                    asked = <<T, id>> /\ result = AnswerTo(T, id, out)

LEMMA AskIsLookupExact == ASSUME LineInv, AskInv PROVE LookupExact
  <1> SUFFICES ASSUME asked # <<>> PROVE LookupExact BY Zenon DEF LookupExact
  <1> DEFINE T == asked[1]
             id == asked[2]
  <1>1. T \in Types /\ result = AnswerTo(T, id, out)
      BY DEF AskInv
  <1>2. out \in Seq(Seq(STRING)) BY DEF AskInv, LineInv, Exact
  <1> DEFINE named == {k \in DOMAIN out : \/ out[k] = id /\ T = "bool"
                                          \/ CountOf(out[k], EQ) > 0 /\ Name(out[k]) = id}
             first == out[CHOOSE k \in named : \A j \in named : k <= j]
             text == SubSeq(first, Len(id) + 2, Len(first))
             odd == /\ T = "StringView" /\ text # <<>> /\ text[1] = QUOTE
                    /\ ~(CountOf(text, QUOTE) = 2 /\ text[Len(text)] = QUOTE)
  <1>5. LookupExact <=> CASE named = {} -> result = (IF T = "bool" THEN Some(FALSE) ELSE None)
                          [] named # {} /\ first = id -> result = Some(TRUE)
                          [] OTHER -> odd \/ result = Meaning(T, text)
      BY Zenon DEF LookupExact
  <1> HIDE DEF T, id
  <1>4. named = NamedIn(T, id, out) BY DEF NamedIn, Named
  <1>6. first = out[LeastOf(NamedIn(T, id, out))] BY <1>4 DEF LeastOf
  <1>7. odd <=> Odd(T, text) BY DEF Odd
  <1> HIDE DEF named, odd
  <1>8. CASE named = {}
    <2>1. result = (IF T = "bool" THEN Some(FALSE) ELSE None) BY <1>1, <1>4, <1>8 DEF AnswerTo, Default
    <2> HIDE DEF first, text
    <2> QED BY <1>5, <1>8, <2>1
  <1>9. CASE named # {}
    <2>1. result = ValueOf(T, id, first) BY <1>1, <1>4, <1>6, <1>9 DEF AnswerTo
    <2>2. first \in Seq(STRING) /\ Named(T, id, first)
      <3> DEFINE K == NamedIn(T, id, out)
      <3>1. K \in SUBSET Nat /\ K # {} BY <1>2, <1>4, <1>9 DEF NamedIn
      <3>2. \A k \in K : out[k] \in Seq(STRING) /\ Named(T, id, out[k]) BY <1>2 DEF NamedIn
      <3> HIDE DEF K
      <3>3. \E k \in K : \A j \in K : k <= j BY <3>1, Least
      <3>4. LeastOf(K) \in K BY <3>3 DEF LeastOf
      <3> QED BY <1>6, <3>2, <3>4 DEF K
    <2> HIDE DEF first
    <2>3. /\ first = id => ValueOf(T, id, first) = Some(TRUE)
          /\ first # id => Odd(T, text) \/ ValueOf(T, id, first) = Meaning(T, text)
        BY <1>1, <2>2, ValueMeans
    <2> HIDE DEF text
    <2>4. CASE first = id BY <1>5, <1>9, <2>1, <2>3, <2>4
    <2>5. CASE first # id
      <3>1. odd \/ result = Meaning(T, text) BY <1>7, <2>1, <2>3, <2>5
      <3> QED BY <1>5, <1>9, <2>5, <3>1
    <2> QED BY <2>4, <2>5
  <1> QED BY <1>8, <1>9

LEMMA AskInvNext == LineInv /\ AskInv /\ [StartNext]_startVars => AskInv'
  <1> SUFFICES ASSUME LineInv, AskInv, [StartNext]_startVars PROVE AskInv'
    OBVIOUS
  <1>1. ASSUME UNCHANGED <<pc, out, hasCommandLine, asked, result>> PROVE AskInv'
    BY <1>1 DEF AskInv
  <1>2. ASSUME pc # "ready", UNCHANGED asked, pc' = "ready" => hasCommandLine' PROVE AskInv'
    BY <1>2 DEF AskInv
  <1>3. CASE ReadCommandLine
    <2>1. pc = "none" /\ UNCHANGED asked /\ (pc' = pc \/ pc' = "split")
      BY <1>3 DEF ReadCommandLine
    <2> QED BY <1>2, <2>1
  <1>4. CASE CommandLineInitialize
    <2>1. CASE SplitLast \/ SplitEnd \/ SplitSpace \/ SplitSkip
      <3>1. pc = "split" /\ UNCHANGED asked /\ pc' # "ready"
        BY <2>1 DEF SplitLast, SplitEnd, SplitSpace, SplitSkip
      <3> QED BY <1>2, <3>1
    <2>2. CASE Initialize
      BY <1>2, <2>2 DEF Initialize
    <2> QED BY <1>4, <2>1, <2>2 DEF CommandLineInitialize
  <1>7. ASSUME UNCHANGED vars PROVE AskInv'
    BY <1>1, <1>7 DEF vars, loop
  <1>5. CASE ReadLogLevel
    <2>1. CASE UNCHANGED lineVars
      BY <1>7, <2>1
    <2>2. CASE ~UNCHANGED lineVars
      BY <1>5, <2>2 DEF ReadLogLevel, AskInv
    <2> QED BY <2>1, <2>2
  <1>6. CASE \E T \in Types, identifier \in Identifiers : AskCommandLine(T, identifier)
    <2>0. SUFFICES ASSUME ~UNCHANGED lineVars PROVE AskInv'
      BY <1>7
    <2>1. PICK T \in Types, id \in Identifiers : AskCommandLine(T, id)
      BY <1>6
    <2>2. /\ pc = "ready" /\ asked' = <<T, id>> /\ result' = GetValue(T, id)
          /\ UNCHANGED <<pc, out, hasCommandLine>>
      BY <2>0, <2>1 DEF AskCommandLine, Ask, loop
    <2>3. GetValue(T, id) = AnswerTo(T, id, out)
      <3>1. out \in Seq(Seq(STRING)) /\ Len(out) = count + 1 /\ count \in Nat /\ hasCommandLine
        BY <2>2 DEF AskInv, LineInv, Exact
      <3> QED BY <3>1, GetValueIs
    <2>4. hasCommandLine BY <2>2 DEF AskInv
    <2> QED BY <2>2, <2>3, <2>4 DEF AskInv
  <1>8. CASE SerialInitialize \/ FramebufferInitialize \/ FindProcessors \/ GDTInitialize
             \/ PMMInitialize \/ InitializePaging \/ IDTInitialize \/ Return
    BY <1>7, <1>8 DEF SerialInitialize, FramebufferInitialize, FindProcessors, GDTInitialize,
       PMMInitialize, InitializePaging, IDTInitialize, Return
  <1>9. CASE ReadBrand \/ ShiftBrand \/ EndBrand \/ ACPIInitialize \/ SCIEnabled \/ LogInfo \/ Start
    BY <1>7, <1>9 DEF ReadBrand, ShiftBrand, EndBrand, ACPIInitialize, SCIEnabled, LogInfo, Start
  <1>10. CASE \E name \in {"simd", "nx"} : ReadFeatures(name) \/ Instruction(name)
    BY <1>7, <1>10 DEF ReadFeatures, Instruction
  <1>11. CASE \/ \E name \in {"ioapic", "lapic"} : APICsInitialize(name)
              \/ \E n \in Counts : FindRange(n)
              \/ \E sig \in Signatures, index \in 0 .. 1 : AskTable(sig, index)
    BY <1>7, <1>11 DEF APICsInitialize, FindRange, AskTable
  <1>12. CASE UNCHANGED startVars
    BY <1>7, <1>12 DEF startVars
  <1> QED
    BY <1>3, <1>4, <1>5, <1>6, <1>8, <1>9, <1>10, <1>11, <1>12 DEF StartNext, Boots

\* For every command line and every identifier, GetValue<T> answers from the
\* first argument of that name, and with what its text says: the number it
\* denotes if that is within the limits of the type, and no value otherwise.
THEOREM LookupExactHolds == StartSpec => []LookupExact
  <1>1. StartInit => LineInv /\ AskInv
    BY DEF StartInit, NoLine, LineInv, AskInv
  <1> QED BY <1>1, LineInvNext, AskInvNext, AskIsLookupExact, PTL DEF StartSpec

(***************************************************************************)
(* What the formatter writes.  A numeral is read as it was written: most   *)
(* significant digit first, by dividing until nothing is left.             *)
(***************************************************************************)
Glyphs == {Digits[k] : k \in 1 .. 16}

LEMMA DigitsAre ==
    /\ DOMAIN Digits = 1 .. 16 /\ Digits[1] = "0"
    /\ \A j, k \in 1 .. 16 : Digits[j] = Digits[k] => j = k
    /\ \A k \in 1 .. 16 : Digits[k] # "." /\ Digits[k] # "-"
  <1>1. /\ Digits[1] = "0" /\ Digits[2] = "1" /\ Digits[3] = "2" /\ Digits[4] = "3"
        /\ Digits[5] = "4" /\ Digits[6] = "5" /\ Digits[7] = "6" /\ Digits[8] = "7"
        /\ Digits[9] = "8" /\ Digits[10] = "9" /\ Digits[11] = "A" /\ Digits[12] = "B"
        /\ Digits[13] = "C" /\ Digits[14] = "D" /\ Digits[15] = "E" /\ Digits[16] = "F"
    BY DEF Digits
  <1>2. DOMAIN Digits = 1 .. 16 BY DEF Digits
  <1>3. \A k \in 1 .. 16 : k \in {1, 2, 3, 4, 5, 6, 7, 8, 9, 10, 11, 12, 13, 14, 15, 16} OBVIOUS
  <1>4. ASSUME NEW k \in 1 .. 16 PROVE Digits[k] # "." /\ Digits[k] # "-"
    <2>1. k \in {1, 2, 3, 4, 5, 6, 7, 8} \/ k \in {9, 10, 11, 12, 13, 14, 15, 16} OBVIOUS
    <2>2. CASE k \in {1, 2, 3, 4, 5, 6, 7, 8}
      <3>1. Digits[k] \in {"0", "1", "2", "3", "4", "5", "6", "7"} BY <1>1, <2>2
      <3> QED BY <3>1
    <2>3. CASE k \in {9, 10, 11, 12, 13, 14, 15, 16}
      <3>1. Digits[k] \in {"8", "9", "A", "B", "C", "D", "E", "F"} BY <1>1, <2>3
      <3> QED BY <3>1
    <2> QED BY <2>1, <2>2, <2>3
  <1>5. ASSUME NEW j \in 1 .. 16, NEW k \in 1 .. 16, Digits[j] = Digits[k] PROVE j = k
    <2>1. j \in {1, 2, 3, 4, 5, 6, 7, 8} \/ j \in {9, 10, 11, 12, 13, 14, 15, 16} OBVIOUS
    <2>2. CASE j \in {1, 2, 3, 4, 5, 6, 7, 8} BY <1>1, <1>3, <1>5, <2>2
    <2>3. CASE j \in {9, 10, 11, 12, 13, 14, 15, 16} BY <1>1, <1>3, <1>5, <2>3
    <2> QED BY <2>1, <2>2, <2>3
  <1> QED BY <1>1, <1>2, <1>4, <1>5

LEMMA DigitOfIs ==
    /\ \A k \in 0 .. 15 : Digits[k + 1] \in Glyphs /\ DigitOf(Digits[k + 1]) = k
    /\ \A g \in Glyphs : g # "." /\ g # "-" /\ DigitOf(g) \in 0 .. 15
                         /\ (g = "0" <=> DigitOf(g) = 0)
  <1>1. ASSUME NEW k \in 1 .. 16 PROVE DigitOf(Digits[k]) = k - 1
    <2> DEFINE c == CHOOSE j \in DOMAIN Digits : Digits[j] = Digits[k]
    <2>1. \E j \in DOMAIN Digits : Digits[j] = Digits[k] BY DigitsAre
    <2>2. c \in DOMAIN Digits /\ Digits[c] = Digits[k] BY <2>1
    <2> HIDE DEF c
    <2>3. c = k BY <2>2, DigitsAre
    <2> QED BY <2>3 DEF DigitOf, c
  <1>2. \A k \in 0 .. 15 : k + 1 \in 1 .. 16 /\ (k + 1) - 1 = k OBVIOUS
  <1>3. \A k \in 0 .. 15 : Digits[k + 1] \in Glyphs /\ DigitOf(Digits[k + 1]) = k
    <2> TAKE k \in 0 .. 15
    <2>1. k + 1 \in 1 .. 16 /\ (k + 1) - 1 = k BY <1>2
    <2>2. DigitOf(Digits[k + 1]) = (k + 1) - 1 BY <1>1, <2>1
    <2> QED BY <2>1, <2>2 DEF Glyphs
  <1>4. ASSUME NEW g \in Glyphs
        PROVE  g # "." /\ g # "-" /\ DigitOf(g) \in 0 .. 15
               /\ (g = "0" <=> DigitOf(g) = 0)
    <2>1. PICK k \in 1 .. 16 : g = Digits[k] BY DEF Glyphs
    <2>2. DigitOf(g) = k - 1 BY <1>1, <2>1
    <2>3. k - 1 \in 0 .. 15 /\ (k - 1 = 0 <=> k = 1) BY <2>1
    <2>4. g = "0" <=> k = 1 BY <2>1, DigitsAre
    <2> QED BY <2>1, <2>2, <2>3, <2>4, DigitsAre
  <1> QED BY <1>3, <1>4

\* t denotes v: what the digits up to each of them denote, digit by digit.
Denotes(t, base, v) ==
    \E h \in [0 .. Len(t) -> Int] :
        /\ h[0] = 0 /\ h[Len(t)] = v
        /\ \A k \in 1 .. Len(t) : h[k] = h[k - 1] * base + DigitOf(t[k])

LEMMA DenotesWeighed ==
    ASSUME NEW t \in Seq(Glyphs), NEW base \in {10, 16}, NEW v, Denotes(t, base, v)
    PROVE  Weighed([k \in DOMAIN t |-> DigitOf(t[k])], base) = v
  <1> DEFINE d == [k \in DOMAIN t |-> DigitOf(t[k])]
             n == Len(t)
  <1>1. n \in Nat /\ DOMAIN t = 1 .. n /\ \A k \in 1 .. n : t[k] \in Glyphs OBVIOUS
  <1>2. \A k \in 1 .. n : DigitOf(t[k]) \in Int BY <1>1, DigitOfIs
  <1>3. d \in Seq(Int) /\ Len(d) = n /\ \A k \in 1 .. n : d[k] = DigitOf(t[k])
    <2>1. d \in [1 .. n -> Int] BY <1>1, <1>2
    <2>2. d \in Seq(Int) BY <1>1, <2>1, SeqDef
    <2>3. Len(d) = n BY <1>1, <2>1, <2>2, LenProperties
    <2> QED BY <1>1, <2>2, <2>3
  <1>4. PICK h \in [0 .. n -> Int] :
          h[0] = 0 /\ h[n] = v /\ \A k \in 1 .. n : h[k] = h[k - 1] * base + DigitOf(t[k])
    BY DEF Denotes
  <1> HIDE DEF d, n
  <1>5. Weighed(d, base) = h[Len(d)]
    <2>1. h \in [0 .. Len(d) -> Int] /\ \A k \in 1 .. Len(d) : h[k] = h[k - 1] * base + d[k]
      BY <1>3, <1>4
    <2> QED BY <1>3, <1>4, <2>1, WeighedIs
  <1> QED BY <1>3, <1>4, <1>5 DEF d

\* A digit more.
LEMMA DenotesAppend ==
    ASSUME NEW t \in Seq(Glyphs), NEW base \in {10, 16}, NEW v \in Int, Denotes(t, base, v),
           NEW k \in 0 .. 15
    PROVE  Denotes(Append(t, Digits[k + 1]), base, v * base + k)
  <1> DEFINE n == Len(t)
             u == Append(t, Digits[k + 1])
  <1>1. n \in Nat BY LenProperties
  <1>2. Digits[k + 1] \in Glyphs /\ DigitOf(Digits[k + 1]) = k BY DigitOfIs
  <1>3. /\ Len(u) = n + 1 /\ u[n + 1] = Digits[k + 1]
        /\ \A i \in 1 .. n : u[i] = t[i]
    BY <1>2, AppendProperties
  <1>4. PICK h \in [0 .. n -> Int] :
          h[0] = 0 /\ h[n] = v /\ \A i \in 1 .. n : h[i] = h[i - 1] * base + DigitOf(t[i])
    BY DEF Denotes
  <1> HIDE DEF u, n
  <1> DEFINE w == v * base + k
             g == [i \in 0 .. n + 1 |-> IF i = n + 1 THEN w ELSE h[i]]
  <1>5. w \in Int OBVIOUS
  <1> HIDE DEF w
  <1>6. g \in [0 .. n + 1 -> Int] /\ g[n + 1] = w /\ \A i \in 0 .. n : g[i] = h[i]
    BY <1>1, <1>4, <1>5
  <1> HIDE DEF g
  <1>7. ASSUME NEW i \in 1 .. n + 1 PROVE g[i] = g[i - 1] * base + DigitOf(u[i])
    <2>1. CASE i = n + 1
      <3>1. i - 1 = n /\ n \in 0 .. n BY <1>1, <2>1
      <3>2. g[i - 1] = v BY <1>4, <1>6, <3>1
      <3> QED BY <1>2, <1>3, <1>6, <2>1, <3>2 DEF w
    <2>2. CASE i # n + 1
      <3>1. i \in 1 .. n /\ i \in 0 .. n /\ i - 1 \in 0 .. n BY <1>1, <2>2
      <3> QED BY <1>3, <1>4, <1>6, <3>1
    <2> QED BY <2>1, <2>2
  <1>8. g[0] = 0
    <2>1. 0 \in 0 .. n BY <1>1
    <2> QED BY <1>4, <1>6, <2>1
  <1>9. Denotes(u, base, w) BY <1>3, <1>6, <1>7, <1>8, Zenon DEF Denotes
  <1> QED BY <1>9 DEF u, w

\* WriteUnsigned: for every value and both bases.
LEMMA WriteUnsignedIs ==
    ASSUME NEW v \in 0 .. UINT64_MAX, NEW base \in {10, 16}
    PROVE  WriteUnsigned(v, base) \in Seq(Glyphs) /\ Reads(WriteUnsigned(v, base), base, v)
  <1> DEFINE N == UINT64_MAX
             digits[n \in 0 .. UINT64_MAX] ==
                 IF n = 0 THEN <<>> ELSE Append(digits[n \div base], Digits[(n % base) + 1])
             D == Seq(Glyphs)
             S == [x \in D |-> [n \in 1 .. N |-> Append(x, Digits[(n % base) + 1])]]
             p == [n \in 1 .. N |-> n \div base]
             Q(f) == f = [n \in 0 .. N |->
                            IF n = 0 THEN <<>> ELSE Append(f[n \div base], Digits[(n % base) + 1])]
  <1>1. N \in Nat BY CommandLineAssumption
  <1>2. WriteUnsigned(v, base) = IF v = 0 THEN <<"0">> ELSE digits[v] BY DEF WriteUnsigned
  <1>3. digits = CHOOSE f : Q(f) OBVIOUS
  <1> HIDE DEF N, digits
  <1>4. \A n \in 1 .. N : /\ n % base \in 0 .. 15 /\ n \div base \in 0 .. n - 1
                          /\ n = (n \div base) * base + (n % base)
    <2>1. CASE base = 10 BY <1>1, <2>1
    <2>2. CASE base = 16 BY <1>1, <2>2
    <2> QED BY <2>1, <2>2
  <1>5. p \in Earlier(N) /\ \A n \in 1 .. N : p[n] = n \div base
    <2>1. \A n \in 1 .. N : n \div base \in 0 .. N /\ n \div base < n BY <1>1, <1>4
    <2> QED BY <2>1 DEF Earlier
  <1>6. S \in Steps(D, N) /\ \A x \in D : \A n \in 1 .. N : S[x][n] = Append(x, Digits[(n % base) + 1])
    <2>1. \A x \in D : \A n \in 1 .. N : Append(x, Digits[(n % base) + 1]) \in D
      BY <1>4, DigitOfIs, AppendProperties
    <2> HIDE DEF D
    <2> QED BY <2>1 DEF Steps
  <1>7. <<>> \in D OBVIOUS
  <1> HIDE DEF S, p, D
  <1>8. PICK g : Computes(g, D, <<>>, N, p, S) BY <1>1, <1>5, <1>6, <1>7, RecursionExists
  <1>9. g \in [0 .. N -> D] /\ g[0] = <<>> /\ \A n \in 1 .. N : g[n] = S[g[n \div base]][n]
    BY <1>5, <1>8 DEF Computes
  <1>10. ASSUME NEW n \in 0 .. N
         PROVE  g[n] = IF n = 0 THEN <<>> ELSE Append(g[n \div base], Digits[(n % base) + 1])
    <2>1. CASE n = 0 BY <1>9, <2>1
    <2>2. CASE n # 0
      <3>1. n \in 1 .. N BY <1>1, <2>2
      <3>2. n \div base \in 0 .. N BY <1>1, <1>4, <3>1
      <3>3. g[n \div base] \in D BY <1>9, <3>2
      <3> QED BY <1>6, <1>9, <2>2, <3>1, <3>3
    <2> QED BY <2>1, <2>2
  <1>11. Q(g) BY <1>9, <1>10
  <1> HIDE DEF Q
  <1>12. Q(digits) BY <1>3, <1>11
  <1> USE DEF Q
  <1>13. \A n \in 0 .. N :
           digits[n] = IF n = 0 THEN <<>> ELSE Append(digits[n \div base], Digits[(n % base) + 1])
    BY <1>12
  <1> HIDE DEF Q
  <1>14. digits[0] = <<>>
    <2>1. 0 \in 0 .. N BY <1>1
    <2> QED BY <1>13, <2>1
  <1> DEFINE Good(n) == /\ digits[n] \in Seq(Glyphs) /\ Denotes(digits[n], base, n)
                        /\ n # 0 => digits[n] # <<>> /\ DigitOf(digits[n][1]) # 0
             B == {n \in 0 .. N : ~Good(n)}
  <1>15. Good(0)
    <2> DEFINE h == [k \in 0 .. 0 |-> 0]
    <2>1. h \in [0 .. 0 -> Int] /\ h[0] = 0 /\ Len(<<>>) = 0 OBVIOUS
    <2>2. Denotes(<<>>, base, 0)
      <3>1. \A k \in 1 .. 0 : h[k] = h[k - 1] * base + DigitOf(<<>>[k]) OBVIOUS
      <3> HIDE DEF h
      <3> QED BY <2>1, <3>1 DEF Denotes
    <2>3. <<>> \in Seq(Glyphs) OBVIOUS
    <2> QED BY <1>14, <2>2, <2>3
  <1>16. ASSUME NEW n \in 1 .. N, Good(n \div base) PROVE Good(n)
    <2> DEFINE q == n \div base
               k == n % base
               t == digits[q]
    <2>1. k \in 0 .. 15 /\ q \in 0 .. n - 1 /\ n = q * base + k /\ q \in Int BY <1>1, <1>4
    <2>2. digits[n] = Append(t, Digits[k + 1])
      <3>1. n \in 0 .. N /\ n # 0 BY <1>1
      <3> QED BY <1>13, <3>1
    <2>3. t \in Seq(Glyphs) /\ Denotes(t, base, q) /\ (q # 0 => t # <<>> /\ DigitOf(t[1]) # 0)
      BY <1>16
    <2>4. q = 0 => t = <<>> /\ k # 0
      <3>1. q = 0 => q * base = 0 OBVIOUS
      <3> QED BY <1>1, <1>14, <2>1, <3>1
    <2> HIDE DEF k, q, t
    <2>5. Digits[k + 1] \in Glyphs /\ DigitOf(Digits[k + 1]) = k BY <2>1, DigitOfIs
    <2>6. /\ digits[n] \in Seq(Glyphs) /\ digits[n] # <<>> /\ Len(digits[n]) = Len(t) + 1
          /\ \A i \in 1 .. Len(t) : digits[n][i] = t[i]
          /\ digits[n][Len(t) + 1] = Digits[k + 1]
      BY <2>2, <2>3, <2>5, AppendProperties
    <2>7. Denotes(digits[n], base, q * base + k) BY <2>1, <2>2, <2>3, DenotesAppend
    <2>8. Denotes(digits[n], base, n)
      <3>1. q * base + k = n BY <2>1
      <3> QED BY <2>7, <3>1
    <2>9. DigitOf(digits[n][1]) # 0
      <3>1. CASE q = 0
        <4>1. t = <<>> /\ k # 0 BY <2>4, <3>1
        <4>2. Len(t) = 0 BY <4>1
        <4>3. digits[n][1] = Digits[k + 1] BY <2>6, <4>2
        <4> QED BY <2>5, <4>1, <4>3
      <3>2. CASE q # 0
        <4>1. t # <<>> /\ DigitOf(t[1]) # 0 BY <2>3, <3>2
        <4>2. Len(t) \in Nat \ {0} BY <2>3, <4>1, EmptySeq
        <4>3. digits[n][1] = t[1] BY <2>6, <4>2
        <4> QED BY <4>1, <4>3
      <3> QED BY <3>1, <3>2
    <2> QED BY <2>6, <2>8, <2>9
  <1> HIDE DEF Good
  <1>17. B = {}
    <2> SUFFICES ASSUME B # {} PROVE FALSE OBVIOUS
    <2>1. B \in SUBSET Nat OBVIOUS
    <2>2. PICK m \in B : \A y \in B : m <= y
      <3> HIDE DEF B
      <3> QED BY <2>1, Least
    <2>3. m \in 0 .. N /\ m \in Nat /\ ~Good(m) BY <2>2
    <2>4. m # 0 BY <1>15, <2>3
    <2>5. m \in 1 .. N BY <1>1, <2>3, <2>4
    <2>6. m \div base \in 0 .. m - 1 BY <1>4, <2>5
    <2>7. m \div base \in 0 .. N /\ ~(m <= m \div base) BY <1>1, <2>3, <2>6
    <2>8. Good(m \div base) BY <2>2, <2>7
    <2> QED BY <1>16, <2>3, <2>5, <2>8
  <1>18. v \in 0 .. N /\ v \in Int BY <1>1 DEF N
  <1>19. Good(v) BY <1>17, <1>18
  <1>20. CASE v # 0
    <2>1. WriteUnsigned(v, base) = digits[v] BY <1>2, <1>20
    <2> DEFINE t == digits[v]
    <2>2. t \in Seq(Glyphs) /\ Denotes(t, base, v) /\ t # <<>> /\ DigitOf(t[1]) # 0 BY <1>19, <1>20 DEF Good
    <2> HIDE DEF t
    <2>3. Weighed([k \in DOMAIN t |-> DigitOf(t[k])], base) = v BY <2>2, DenotesWeighed
    <2>4. t[1] \in Glyphs
      <3>1. Len(t) \in Nat \ {0} BY <2>2, EmptySeq
      <3> QED BY <2>2, <3>1
    <2>5. t[1] # "0" BY <2>2, <2>4, DigitOfIs
    <2>6. Reads(t, base, v) BY <2>2, <2>3, <2>5 DEF Reads
    <2> QED BY <2>1, <2>2, <2>6 DEF t
  <1>21. CASE v = 0
    <2> DEFINE t == <<"0">>
    <2>1. Digits[0 + 1] \in Glyphs /\ DigitOf(Digits[0 + 1]) = 0 /\ Digits[0 + 1] = "0"
      BY DigitOfIs, DigitsAre
    <2>2. t \in Seq(Glyphs) /\ Len(t) = 1 /\ t # <<>> /\ t[1] = "0" BY <2>1
    <2>3. Append(<<>>, Digits[0 + 1]) = t BY <2>1
    <2>4. Denotes(<<>>, base, 0) BY <1>14, <1>15 DEF Good
    <2>5. <<>> \in Seq(Glyphs) /\ 0 \in Int /\ 0 \in 0 .. 15 OBVIOUS
    <2>6. Denotes(Append(<<>>, Digits[0 + 1]), base, 0 * base + 0) BY <2>4, <2>5, DenotesAppend
    <2>7. Denotes(t, base, 0)
      <3>1. 0 * base + 0 = 0 OBVIOUS
      <3> QED BY <2>3, <2>6, <3>1
    <2> HIDE DEF t
    <2>8. Weighed([k \in DOMAIN t |-> DigitOf(t[k])], base) = 0 BY <2>2, <2>7, DenotesWeighed
    <2>9. Reads(t, base, 0) BY <2>2, <2>8 DEF Reads
    <2> QED BY <1>2, <1>21, <2>2, <2>9 DEF t
  <1> QED BY <1>20, <1>21

Letters == STRING \cup Glyphs \cup {"-", ".", "x", "n", "a", "i", "f", "t", "r", "u", "e", "l", "s", "?"}

LEMMA LettersAre ==
    /\ Seq(Glyphs) \subseteq Seq(Letters) /\ Seq(STRING) \subseteq Seq(Letters)
    /\ <<>> \in Seq(Letters) /\ <<"-">> \in Seq(Letters) /\ <<".">> \in Seq(Letters)
    /\ <<"0", "x">> \in Seq(Letters)
  <1>1. Glyphs \subseteq Letters /\ STRING \subseteq Letters BY DEF Letters
  <1>2. "0" \in Letters /\ "x" \in Letters /\ "-" \in Letters /\ "." \in Letters
    <2>1. Digits[0 + 1] \in Glyphs /\ Digits[0 + 1] = "0" BY DigitOfIs, DigitsAre
    <2> QED BY <2>1 DEF Letters
  <1>3. Seq(Glyphs) \subseteq Seq(Letters) BY <1>1, SeqMonotonic
  <1>4. Seq(STRING) \subseteq Seq(Letters) BY <1>1, SeqMonotonic
  <1> HIDE DEF Letters
  <1> QED BY <1>2, <1>3, <1>4

LEMMA Negated ==
    ASSUME NEW W \in Nat, NEW v \in Int, v < 0, -v < W
    PROVE  (W - (v % W)) % W = -v
  <1>1. v % W = v + W
    <2>1. v + W \in 0 .. W - 1 OBVIOUS
    <2>2. (v + W) % W = v + W BY <2>1
    <2>3. v % W \in 0 .. W - 1 /\ v = W * (v \div W) + (v % W) OBVIOUS
    <2>4. v \div W = -1 OBVIOUS
    <2> QED BY <2>3, <2>4
  <1>2. -v \in 0 .. W - 1 OBVIOUS
  <1>3. (-v) % W = -v BY <1>2
  <1>4. W - (v + W) = -v OBVIOUS
  <1> QED BY <1>1, <1>3, <1>4

LEMMA WriteSignedIs ==
    ASSUME NEW v \in -INT64_MAX - 1 .. INT64_MAX
    PROVE  WriteSigned(v) \in Seq(Letters) /\ ReadsSigned(WriteSigned(v), v)
  <1>1. INT64_MAX \in Nat /\ UINT64_MAX = 2 * INT64_MAX + 1 /\ v \in Int BY CommandLineAssumption
  <1>2. CASE v < 0
    <2> DEFINE t == WriteUnsigned(-v, 10)
               s == <<"-">> \o t
    <2>1. UINT64_MAX + 1 \in Nat /\ -v < UINT64_MAX + 1 /\ -v \in 0 .. UINT64_MAX BY <1>1, <1>2
    <2>2. ((UINT64_MAX + 1) - (v % (UINT64_MAX + 1))) % (UINT64_MAX + 1) = -v
      <3> DEFINE W == UINT64_MAX + 1
      <3>1. W \in Nat /\ -v < W BY <2>1
      <3> HIDE DEF W
      <3>2. (W - (v % W)) % W = -v BY <1>1, <1>2, <3>1, Negated
      <3> QED BY <3>2 DEF W
    <2>3. WriteSigned(v) = s
      <3>1. WriteSigned(v)
              = <<"-">> \o WriteUnsigned(((UINT64_MAX + 1) - (v % (UINT64_MAX + 1))) % (UINT64_MAX + 1), 10)
        BY <1>2 DEF WriteSigned
      <3> QED BY <2>2, <3>1
    <2>4. t \in Seq(Glyphs) /\ Reads(t, 10, -v) BY <2>1, WriteUnsignedIs
    <2> HIDE DEF t
    <2>5. t \in Seq(Letters) /\ <<"-">> \in Seq(Letters) BY <2>4, LettersAre
    <2>6. s \in Seq(Letters) /\ Len(s) = Len(t) + 1 /\ s[1] = "-" BY <2>5, ConcatProperties
    <2>7. Tail(s) = t
      <3>1. /\ Len(<<"-">>) = 1 /\ Len(t) \in Nat
            /\ \A i \in 1 .. 1 + Len(t) : s[i] = IF i <= 1 THEN <<"-">>[i] ELSE t[i - 1]
        BY <2>5, ConcatProperties
      <3>2. s # <<>> BY <2>6, <3>1
      <3> HIDE DEF s
      <3>3. /\ Tail(s) \in Seq(Letters) /\ Len(Tail(s)) = Len(t)
            /\ \A i \in 1 .. Len(t) : Tail(s)[i] = s[i + 1]
        <4>1. /\ Tail(s) \in Seq(Letters) /\ Len(Tail(s)) = Len(s) - 1
              /\ \A i \in 1 .. Len(Tail(s)) : Tail(s)[i] = s[i + 1]
          BY <2>6, <3>2, HeadTailProperties
        <4>2. Len(s) - 1 = Len(t) BY <2>6, <3>1
        <4> QED BY <4>1, <4>2
      <3>4. \A i \in 1 .. Len(t) : Tail(s)[i] = t[i]
        <4> TAKE i \in 1 .. Len(t)
        <4>1. i + 1 \in 1 .. 1 + Len(t) /\ ~(i + 1 <= 1) /\ (i + 1) - 1 = i BY <3>1
        <4> QED BY <3>1, <3>3, <4>1
      <3> QED BY <2>5, <3>3, <3>4, SeqEqual
    <2> HIDE DEF s
    <2>8. ReadsSigned(s, v) BY <1>2, <2>4, <2>6, <2>7 DEF ReadsSigned
    <2> QED BY <2>3, <2>6, <2>8
  <1>3. CASE ~(v < 0)
    <2>1. v \in 0 .. UINT64_MAX BY <1>1, <1>3
    <2>2. WriteSigned(v) = WriteUnsigned(v, 10) BY <1>3 DEF WriteSigned
    <2>3. WriteSigned(v) \in Seq(Glyphs) /\ Reads(WriteSigned(v), 10, v) BY <2>1, <2>2, WriteUnsignedIs
    <2> QED BY <1>3, <2>3, LettersAre DEF ReadsSigned
  <1> QED BY <1>2, <1>3

LEMMA WritePointerIs ==
    ASSUME NEW v \in 0 .. UINT64_MAX
    PROVE  LET s == <<"0", "x">> \o WriteUnsigned(v, 16)
           IN  /\ s \in Seq(Letters)
               /\ SubSeq(s, 1, 2) = <<"0", "x">> /\ Reads(SubSeq(s, 3, Len(s)), 16, v)
  <1> DEFINE t == WriteUnsigned(v, 16)
             x == <<"0", "x">>
             s == x \o t
  <1>1. t \in Seq(Glyphs) /\ Reads(t, 16, v) BY WriteUnsignedIs
  <1> HIDE DEF t
  <1>2. t \in Seq(Letters) /\ x \in Seq(Letters) /\ Len(x) = 2 BY <1>1, LettersAre
  <1>3. t # <<>> BY <1>1 DEF Reads
  <1> HIDE DEF x
  <1>4. s \in Seq(Letters) /\ Len(s) = 2 + Len(t)
    <2>1. x \o t \in Seq(Letters) /\ Len(x \o t) = Len(x) + Len(t) BY <1>2, ConcatProperties
    <2> QED BY <1>2, <2>1
  <1>5. Len(t) \in Nat \ {0} BY <1>2, <1>3, EmptySeq
  <1>6. SubSeq(s, 1, 2) = x
    <2>1. 1 \in 1 .. Len(x) /\ 2 \in 1 .. Len(x) BY <1>2
    <2>2. SubSeq(s, 1, 2) = SubSeq(x, 1, 2) BY <1>2, <2>1, SubSeqOfConcat1
    <2>3. SubSeq(x, 1, Len(x)) = x BY <1>2, SubSeqFull
    <2> QED BY <1>2, <2>2, <2>3
  <1>7. SubSeq(s, 3, Len(s)) = t
    <2>1. 3 \in Len(x) + 1 .. Len(x) + Len(t) /\ Len(s) \in Len(x) + 1 .. Len(x) + Len(t)
          /\ 3 - Len(x) = 1 /\ Len(s) - Len(x) = Len(t)
      BY <1>2, <1>4, <1>5
    <2>2. SubSeq(s, 3, Len(s)) = SubSeq(t, 3 - Len(x), Len(s) - Len(x)) BY <1>2, <2>1, SubSeqOfConcat2
    <2>3. SubSeq(t, 1, Len(t)) = t BY <1>2, SubSeqFull
    <2> QED BY <2>1, <2>2, <2>3
  <1> HIDE DEF s
  <1>8. s \in Seq(Letters) /\ SubSeq(s, 1, 2) = x /\ Reads(SubSeq(s, 3, Len(s)), 16, v)
    BY <1>1, <1>4, <1>6, <1>7
  <1> QED BY <1>8 DEF s, x, t

Millionths(e) == 1000000 + 125000 * e     \* with the 1 that is put before the digits

\* Six digits are all of a number of eighths: 10 f = 8 d + f' at each of them,
\* and nothing is left behind the sixth.
LEMMA SixDigitsAre ==
    ASSUME NEW e \in 0 .. 7
    PROVE  /\ SixDigits(e) \in Seq(Glyphs) /\ Len(SixDigits(e)) = 6
           /\ Reads(<<"1">> \o SixDigits(e), 10, Millionths(e))
  <1> DEFINE frac[i \in 0 .. 6] == IF i = 0 THEN e ELSE (frac[i - 1] * 10) % 8
             Q(f) == f = [i \in 0 .. 6 |-> IF i = 0 THEN e ELSE (f[i - 1] * 10) % 8]
             D == 0 .. 7
             S == [x \in D |-> [i \in 1 .. 6 |-> (x * 10) % 8]]
             dig == [i \in 1 .. 6 |-> (frac[i - 1] * 10) \div 8]
             s == SixDigits(e)
  <1>1. s = [i \in 1 .. 6 |-> Digits[((frac[i - 1] * 10) \div 8) + 1]] BY DEF SixDigits
  <1>2. frac = CHOOSE f : Q(f) OBVIOUS
  <1> HIDE DEF frac
  <1>3. S \in Steps(D, 6) /\ \A x \in D : \A i \in 1 .. 6 : S[x][i] = (x * 10) % 8
    <2>1. \A x \in D : (x * 10) % 8 \in D OBVIOUS
    <2> QED BY <2>1 DEF Steps
  <1>4. e \in D /\ 6 \in Nat OBVIOUS
  <1> HIDE DEF S, D
  <1>5. PICK g : Computes(g, D, e, 6, Before(6), S) BY <1>3, <1>4, BeforeIsEarlier, RecursionExists
  <1>6. g \in [0 .. 6 -> D] /\ g[0] = e /\ \A i \in 1 .. 6 : g[i] = (g[i - 1] * 10) % 8
    <2>1. g \in [0 .. 6 -> D] /\ g[0] = e /\ \A i \in 1 .. 6 : g[i] = S[g[i - 1]][i]
      BY <1>4, <1>5, BeforeIsEarlier DEF Computes
    <2>2. \A i \in 1 .. 6 : g[i - 1] \in D
      <3>1. \A i \in 1 .. 6 : i - 1 \in 0 .. 6 OBVIOUS
      <3> QED BY <2>1, <3>1
    <2> QED BY <1>3, <2>1, <2>2
  <1>7. Q(g)
    <2>1. \A i \in 0 .. 6 : i # 0 => i \in 1 .. 6 OBVIOUS
    <2> QED BY <1>6, <2>1
  <1> HIDE DEF Q
  <1>8. Q(frac) BY <1>2, <1>7
  <1> USE DEF Q
  <1>9. \A i \in 0 .. 6 : frac[i] = IF i = 0 THEN e ELSE (frac[i - 1] * 10) % 8 BY <1>8
  <1> HIDE DEF Q
  <1> DEFINE f(i) == frac[i]
             d(i) == (frac[i - 1] * 10) \div 8
  <1>10. f(0) = e /\ f(0) \in 0 .. 7 BY <1>9
  <1>11. ASSUME NEW i \in 1 .. 6, f(i - 1) \in 0 .. 7
         PROVE  f(i) \in 0 .. 7 /\ d(i) \in 0 .. 15 /\ f(i - 1) * 10 = 8 * d(i) + f(i)
    <2>1. f(i) = (f(i - 1) * 10) % 8
      <3>1. i \in 0 .. 6 /\ i # 0 OBVIOUS
      <3> QED BY <1>9, <3>1
    <2> DEFINE y == f(i - 1)
    <2>2. y \in 0 .. 7 BY <1>11
    <2> HIDE DEF y
    <2>3. (y * 10) % 8 \in 0 .. 7 /\ (y * 10) \div 8 \in 0 .. 15 /\ y * 10 = 8 * ((y * 10) \div 8) + ((y * 10) % 8)
      BY <2>2
    <2> QED BY <2>1, <2>3 DEF y
  <1> HIDE DEF f, d
  <1>12. f(1) \in 0 .. 7 /\ d(1) \in 0 .. 15 /\ f(0) * 10 = 8 * d(1) + f(1)
    <2>1. 1 \in 1 .. 6 /\ 1 - 1 = 0 OBVIOUS
    <2> QED BY <1>10, <1>11, <2>1
  <1>13. f(2) \in 0 .. 7 /\ d(2) \in 0 .. 15 /\ f(1) * 10 = 8 * d(2) + f(2)
    <2>1. 2 \in 1 .. 6 /\ 2 - 1 = 1 OBVIOUS
    <2> QED BY <1>12, <1>11, <2>1
  <1>14. f(3) \in 0 .. 7 /\ d(3) \in 0 .. 15 /\ f(2) * 10 = 8 * d(3) + f(3)
    <2>1. 3 \in 1 .. 6 /\ 3 - 1 = 2 OBVIOUS
    <2> QED BY <1>13, <1>11, <2>1
  <1>15. f(4) \in 0 .. 7 /\ d(4) \in 0 .. 15 /\ f(3) * 10 = 8 * d(4) + f(4)
    <2>1. 4 \in 1 .. 6 /\ 4 - 1 = 3 OBVIOUS
    <2> QED BY <1>14, <1>11, <2>1
  <1>16. f(5) \in 0 .. 7 /\ d(5) \in 0 .. 15 /\ f(4) * 10 = 8 * d(5) + f(5)
    <2>1. 5 \in 1 .. 6 /\ 5 - 1 = 4 OBVIOUS
    <2> QED BY <1>15, <1>11, <2>1
  <1>17. f(6) \in 0 .. 7 /\ d(6) \in 0 .. 15 /\ f(5) * 10 = 8 * d(6) + f(6)
    <2>1. 6 \in 1 .. 6 /\ 6 - 1 = 5 OBVIOUS
    <2> QED BY <1>16, <1>11, <2>1
  <1> DEFINE v == Millionths(e)
  <1>19. \A i \in 1 .. 6 : d(i) \in 0 .. 15
    <2>1. \A i \in 1 .. 6 : i \in {1, 2, 3, 4, 5, 6} OBVIOUS
    <2> QED BY <1>12, <1>13, <1>14, <1>15, <1>16, <1>17, <2>1
  <1>20. s \in [1 .. 6 -> Glyphs] /\ \A i \in 1 .. 6 : s[i] = Digits[d(i) + 1]
    <2>1. s = [i \in 1 .. 6 |-> Digits[d(i) + 1]] BY <1>1 DEF d
    <2>2. \A i \in 1 .. 6 : Digits[d(i) + 1] \in Glyphs BY <1>19, DigitOfIs
    <2> HIDE DEF s
    <2> QED BY <2>1, <2>2
  <1> HIDE DEF s
  <1>21. s \in Seq(Glyphs) /\ Len(s) = 6
    <2>1. s \in Seq(Glyphs) BY <1>4, <1>20, SeqDef
    <2> QED BY <1>20, <2>1, LenProperties
  <1> DEFINE o == <<"1">>
             t == o \o s
  <1>22. Digits[1 + 1] = "1" /\ Digits[1 + 1] \in Glyphs /\ DigitOf(Digits[1 + 1]) = 1
    <2>1. Digits[2] = "1" BY DEF Digits
    <2>2. 1 \in 0 .. 15 /\ 1 + 1 = 2 OBVIOUS
    <2> QED BY <2>1, <2>2, DigitOfIs
  <1>23. o \in Seq(Glyphs) /\ Len(o) = 1 /\ o[1] = Digits[1 + 1] BY <1>22
  <1> HIDE DEF o
  <1>24. /\ o \o s \in Seq(Glyphs) /\ Len(o \o s) = Len(o) + Len(s)
         /\ \A i \in 1 .. Len(o) + Len(s) : (o \o s)[i] = IF i <= Len(o) THEN o[i] ELSE s[i - Len(o)]
    BY <1>21, <1>23, ConcatProperties, Zenon
  <1>25. /\ t \in Seq(Glyphs) /\ Len(t) = 7 /\ t[1] = Digits[1 + 1]
         /\ \A i \in 1 .. 6 : t[i + 1] = s[i]
    BY <1>21, <1>23, <1>24
  <1> HIDE DEF t
  <1> DEFINE h1 == 1
             h2 == h1 * 10 + d(1)
             h3 == h2 * 10 + d(2)
             h4 == h3 * 10 + d(3)
             h5 == h4 * 10 + d(4)
             h6 == h5 * 10 + d(5)
             h7 == h6 * 10 + d(6)
             h == [k \in 0 .. 7 |-> CASE k = 0 -> 0 [] k = 1 -> h1 [] k = 2 -> h2 [] k = 3 -> h3
                                      [] k = 4 -> h4 [] k = 5 -> h5 [] k = 6 -> h6 [] k = 7 -> h7]
  <1>26. /\ h1 \in Int /\ h2 \in Int /\ h3 \in Int /\ h4 \in Int /\ h5 \in Int /\ h6 \in Int
         /\ h7 \in Int
    BY <1>12, <1>13, <1>14, <1>15, <1>16, <1>17
  <1>27. h7 = v
    <2>1. 8 * h1 = 8 OBVIOUS
    <2>2. 8 * h2 = 10 * (8 + e) - f(1) BY <1>10, <1>12, SMT
    <2> HIDE DEF h2
    <2>3. 8 * h3 = 100 * (8 + e) - f(2) BY <1>26, <1>12, <1>13, <2>2, SMT
    <2> HIDE DEF h3
    <2>4. 8 * h4 = 1000 * (8 + e) - f(3) BY <1>26, <1>13, <1>14, <2>3, SMT
    <2> HIDE DEF h4
    <2>5. 8 * h5 = 10000 * (8 + e) - f(4) BY <1>26, <1>14, <1>15, <2>4, SMT
    <2> HIDE DEF h5
    <2>6. 8 * h6 = 100000 * (8 + e) - f(5) BY <1>26, <1>15, <1>16, <2>5, SMT
    <2> HIDE DEF h6
    <2>7. 8 * h7 = 1000000 * (8 + e) - f(6) BY <1>26, <1>16, <1>17, <2>6, SMT
    <2> HIDE DEF h7
    <2> QED BY <1>26, <1>17, <2>7, SMT DEF Millionths
  <1> HIDE DEF v
  <1>28. /\ h1 = 0 * 10 + 1 /\ h2 = h1 * 10 + d(1) /\ h3 = h2 * 10 + d(2) /\ h4 = h3 * 10 + d(3)
         /\ h5 = h4 * 10 + d(4) /\ h6 = h5 * 10 + d(5) /\ h7 = h6 * 10 + d(6)
    OBVIOUS
  <1> HIDE DEF h1, h2, h3, h4, h5, h6, h7
  <1>29. /\ h \in [0 .. 7 -> Int] /\ h[0] = 0 /\ h[1] = h1 /\ h[2] = h2 /\ h[3] = h3 /\ h[4] = h4
         /\ h[5] = h5 /\ h[6] = h6 /\ h[7] = h7
    <2>1. \A k \in 0 .. 7 : k \in {0, 1, 2, 3, 4, 5, 6, 7} OBVIOUS
    <2>2. \A k \in {0, 1, 2, 3, 4, 5, 6, 7} : k \in 0 .. 7 OBVIOUS
    <2>3. \A k \in 0 .. 7 : h[k] = CASE k = 0 -> 0 [] k = 1 -> h1 [] k = 2 -> h2 [] k = 3 -> h3
                                      [] k = 4 -> h4 [] k = 5 -> h5 [] k = 6 -> h6 [] k = 7 -> h7
      OBVIOUS
    <2>4. DOMAIN h = 0 .. 7 /\ h = [k \in 0 .. 7 |-> h[k]] OBVIOUS
    <2> HIDE DEF h
    <2>5. /\ h[0] = 0 /\ h[1] = h1 /\ h[2] = h2 /\ h[3] = h3 /\ h[4] = h4
          /\ h[5] = h5 /\ h[6] = h6 /\ h[7] = h7
      BY <2>2, <2>3
    <2>6. \A k \in 0 .. 7 : h[k] \in Int BY <1>26, <2>1, <2>5
    <2> QED BY <2>4, <2>5, <2>6
  <1> HIDE DEF h
  <1>30. DigitOf(t[1]) = 1 /\ \A i \in 1 .. 6 : DigitOf(t[i + 1]) = d(i)
    <2>1. \A i \in 1 .. 6 : DigitOf(Digits[d(i) + 1]) = d(i) BY <1>19, DigitOfIs
    <2> QED BY <1>20, <1>22, <1>25, <2>1
  <1>31. \A k \in 1 .. 7 : h[k] = h[k - 1] * 10 + DigitOf(t[k])
    <2> TAKE k \in 1 .. 7
    <2>1. k \in {1, 2, 3, 4, 5, 6, 7} OBVIOUS
    <2>2. /\ DigitOf(t[2]) = d(1) /\ DigitOf(t[3]) = d(2) /\ DigitOf(t[4]) = d(3)
          /\ DigitOf(t[5]) = d(4) /\ DigitOf(t[6]) = d(5) /\ DigitOf(t[7]) = d(6)
      <3>1. \A i \in {1, 2, 3, 4, 5, 6} : i \in 1 .. 6 OBVIOUS
      <3>2. 1 + 1 = 2 /\ 2 + 1 = 3 /\ 3 + 1 = 4 /\ 4 + 1 = 5 /\ 5 + 1 = 6 /\ 6 + 1 = 7 OBVIOUS
      <3> QED BY <1>30, <3>1, <3>2
    <2> QED BY <1>28, <1>29, <1>30, <2>1, <2>2
  <1>32. Denotes(t, 10, v) BY <1>25, <1>27, <1>29, <1>31 DEF Denotes
  <1>33. Weighed([k \in DOMAIN t |-> DigitOf(t[k])], 10) = v BY <1>25, <1>32, DenotesWeighed
  <1>34. t # <<>> /\ t[1] # "0"
    <2>1. t[1] \in Glyphs /\ DigitOf(t[1]) # 0 BY <1>22, <1>25, <1>30
    <2>2. t # <<>> BY <1>25, EmptySeq
    <2> QED BY <2>1, <2>2, DigitOfIs
  <1>35. Reads(t, 10, v) BY <1>33, <1>34 DEF Reads
  <1> QED BY <1>21, <1>35, SMT DEF t, o, s, v

\* A character before a text, and between two.
LEMMA TailOfConcat ==
    ASSUME NEW A, NEW c \in A, NEW t \in Seq(A)
    PROVE  /\ <<c>> \o t \in Seq(A) /\ (<<c>> \o t)[1] = c /\ Tail(<<c>> \o t) = t
  <1> DEFINE o == <<c>>
             s == o \o t
  <1>1. o \in Seq(A) /\ Len(o) = 1 /\ o[1] = c OBVIOUS
  <1> HIDE DEF o
  <1>2. /\ o \o t \in Seq(A) /\ Len(o \o t) = Len(o) + Len(t)
        /\ \A i \in 1 .. Len(o) + Len(t) : (o \o t)[i] = IF i <= Len(o) THEN o[i] ELSE t[i - Len(o)]
    BY <1>1, ConcatProperties
  <1>3. Len(t) \in Nat OBVIOUS
  <1>4. s \in Seq(A) /\ Len(s) = 1 + Len(t) /\ s[1] = c /\ \A i \in 1 .. Len(t) : s[i + 1] = t[i]
    BY <1>1, <1>2, <1>3
  <1> HIDE DEF s
  <1>5. s # <<>> BY <1>3, <1>4
  <1>6. Tail(s) \in Seq(A) /\ Len(Tail(s)) = Len(s) - 1 /\ \A i \in 1 .. Len(Tail(s)) : Tail(s)[i] = s[i + 1]
    BY <1>4, <1>5, HeadTailProperties
  <1>7. Len(Tail(s)) = Len(t) BY <1>3, <1>4, <1>6
  <1>8. \A i \in 1 .. Len(Tail(s)) : Tail(s)[i] = t[i] BY <1>4, <1>6, <1>7
  <1>9. Tail(s) = t BY <1>6, <1>7, <1>8, SeqEqual
  <1> QED BY <1>4, <1>9 DEF s, o

LEMMA BetweenIs ==
    ASSUME NEW A, NEW u \in Seq(A), NEW c \in A, NEW v \in Seq(A)
    PROVE  LET s == (u \o <<c>>) \o v
           IN  /\ s \in Seq(A) /\ Len(s) = Len(u) + 1 + Len(v) /\ s[Len(u) + 1] = c
               /\ \A i \in 1 .. Len(u) : s[i] = u[i]
               /\ \A i \in 1 .. Len(v) : s[Len(u) + 1 + i] = v[i]
  <1> DEFINE o == <<c>>
             w == u \o o
             s == w \o v
  <1>1. o \in Seq(A) /\ Len(o) = 1 /\ o[1] = c /\ Len(u) \in Nat /\ Len(v) \in Nat OBVIOUS
  <1> HIDE DEF o
  <1>2. /\ u \o o \in Seq(A) /\ Len(u \o o) = Len(u) + Len(o)
        /\ \A i \in 1 .. Len(u) + Len(o) : (u \o o)[i] = IF i <= Len(u) THEN u[i] ELSE o[i - Len(u)]
    BY <1>1, ConcatProperties
  <1>3. w \in Seq(A) /\ Len(w) = Len(u) + 1 /\ w[Len(u) + 1] = c /\ \A i \in 1 .. Len(u) : w[i] = u[i]
    <2>1. Len(u) + 1 \in 1 .. Len(u) + Len(o) /\ ~(Len(u) + 1 <= Len(u)) /\ (Len(u) + 1) - Len(u) = 1 BY <1>1
    <2>2. \A i \in 1 .. Len(u) : i \in 1 .. Len(u) + Len(o) /\ i <= Len(u) BY <1>1
    <2> QED BY <1>1, <1>2, <2>1, <2>2
  <1> HIDE DEF w
  <1>4. /\ w \o v \in Seq(A) /\ Len(w \o v) = Len(w) + Len(v)
        /\ \A i \in 1 .. Len(w) + Len(v) : (w \o v)[i] = IF i <= Len(w) THEN w[i] ELSE v[i - Len(w)]
    BY <1>3, ConcatProperties
  <1>5. /\ s \in Seq(A) /\ Len(s) = Len(u) + 1 + Len(v)
        /\ \A i \in 1 .. Len(u) + 1 : s[i] = w[i]
    BY <1>1, <1>3, <1>4
  <1>6. \A i \in 1 .. Len(v) : s[Len(u) + 1 + i] = v[i]
    <2> TAKE i \in 1 .. Len(v)
    <2>1. /\ Len(u) + 1 + i \in 1 .. Len(w) + Len(v) /\ ~(Len(u) + 1 + i <= Len(w))
          /\ (Len(u) + 1 + i) - Len(w) = i
      BY <1>1, <1>3
    <2> QED BY <1>4, <2>1
  <1>7. s[Len(u) + 1] = c /\ \A i \in 1 .. Len(u) : s[i] = u[i]
    <2>1. Len(u) + 1 \in 1 .. Len(u) + 1 /\ \A i \in 1 .. Len(u) : i \in 1 .. Len(u) + 1 BY <1>1
    <2> QED BY <1>3, <1>5, <2>1
  <1> HIDE DEF s
  <1> QED BY <1>5, <1>6, <1>7 DEF s, w, o

\* A finite double without its sign: both parts are read back at the point.
LEMMA FractionParts ==
    ASSUME NEW s, NEW whole, NEW e,
           Reads(SubSeq(s, 1, PointOf(s) - 1), 10, whole),
           Len(SubSeq(s, PointOf(s) + 1, Len(s))) = 6,
           Reads(<<"1">> \o SubSeq(s, PointOf(s) + 1, Len(s)), 10, Millionths(e))
    PROVE  ReadsFraction(s, whole, e)
<1> DEFINE a == SubSeq(s, 1, PointOf(s) - 1)
           b == SubSeq(s, PointOf(s) + 1, Len(s))
           c == <<"1">> \o b
<1>1. Reads(a, 10, whole) /\ Len(b) = 6 /\ Reads(c, 10, Millionths(e)) OBVIOUS
<1>2. ReadsFraction(s, whole, e) <=>
          Reads(a, 10, whole) /\ Len(b) = 6 /\ Reads(c, 10, 1000000 + 125000 * e)
    BY ONLY SMT DEF ReadsFraction
<1> HIDE DEF a, b, c
<1> QED BY ONLY <1>1, <1>2, SMT DEF Millionths

LEMMA UnsignedDoubleIs ==
    ASSUME NEW whole \in 0 .. UINT64_MAX, NEW e \in 0 .. 7
    PROVE  LET s == (WriteUnsigned(whole, 10) \o <<".">>) \o SixDigits(e)
           IN  s \in Seq(Letters) /\ ReadsFraction(s, whole, e)
  <1> DEFINE u == WriteUnsigned(whole, 10)
             v == SixDigits(e)
             s == (u \o <<".">>) \o v
             point == PointOf(s)
             part == SubSeq(s, point + 1, Len(s))
             n == Len(u)
             frac == Millionths(e)
  <1>1. u \in Seq(Glyphs) /\ Reads(u, 10, whole) BY WriteUnsignedIs, SMT
  <1>2. v \in Seq(Glyphs) /\ Len(v) = 6 /\ Reads(<<"1">> \o v, 10, frac) BY SixDigitsAre
  <1> HIDE DEF u, v, frac
  <1>3. u \in Seq(Letters) /\ v \in Seq(Letters) BY <1>1, <1>2, LettersAre
  <1>4. "." \in Letters BY DEF Letters
  <1>5. n \in Nat OBVIOUS
  <1>6. /\ s \in Seq(Letters) /\ Len(s) = n + 1 + Len(v) /\ s[n + 1] = "."
        /\ \A i \in 1 .. n : s[i] = u[i]
        /\ \A i \in 1 .. Len(v) : s[n + 1 + i] = v[i]
    BY <1>3, <1>4, BetweenIs
  <1>7. Len(s) = n + 7 /\ DOMAIN s = 1 .. n + 7 BY <1>2, <1>5, <1>6, LenProperties
  <1>8. /\ \A i \in 1 .. n : u[i] \in Glyphs /\ u[i] # "."
        /\ \A i \in 1 .. 6 : v[i] \in Glyphs /\ v[i] # "."
    <2>1. \A i \in 1 .. n : u[i] \in Glyphs BY <1>1
    <2>2. \A i \in 1 .. 6 : v[i] \in Glyphs
      <3>1. v \in [1 .. Len(v) -> Glyphs] BY <1>2, LenProperties
      <3> QED BY <1>2, <3>1
    <2> QED BY <2>1, <2>2, DigitOfIs
  <1> HIDE DEF s
  <1>9. ASSUME NEW k \in DOMAIN s, s[k] = "." PROVE k = n + 1
    <2>1. k \in 1 .. n \/ k = n + 1 \/ (k - (n + 1) \in 1 .. 6 /\ k = n + 1 + (k - (n + 1))) BY <1>5, <1>7
    <2>2. CASE k \in 1 .. n BY <1>6, <1>8, <1>9, <2>2
    <2>3. CASE k - (n + 1) \in 1 .. 6 /\ k = n + 1 + (k - (n + 1))
      <3> DEFINE i == k - (n + 1)
      <3>1. i \in 1 .. 6 /\ k = n + 1 + i BY <2>3
      <3> HIDE DEF i
      <3>2. s[k] = v[i] BY <1>2, <1>6, <3>1
      <3> QED BY <1>8, <1>9, <3>1, <3>2
    <2> QED BY <2>1, <2>2, <2>3
  <1>10. point = n + 1
    <2>1. n + 1 \in DOMAIN s /\ s[n + 1] = "." BY <1>5, <1>6, <1>7
    <2>2. point \in DOMAIN s /\ s[point] = "." BY <2>1 DEF PointOf
    <2> QED BY <1>9, <2>2
  <1> HIDE DEF point
  <1>11. SubSeq(s, 1, point - 1) = u
    <2>1. point - 1 = n BY <1>5, <1>10
    <2>2. \A i \in 1 .. n : s[i] \in Glyphs BY <1>6, <1>8
    <2>3. /\ SubSeq(s, 1, n) \in Seq(Glyphs) /\ Len(SubSeq(s, 1, n)) = IF 1 <= n THEN n - 1 + 1 ELSE 0
          /\ \A i \in 1 .. n - 1 + 1 : SubSeq(s, 1, n)[i] = s[1 + i - 1]
      BY <1>5, <2>2, SubSeqProperties
    <2>4. Len(SubSeq(s, 1, n)) = n /\ \A i \in 1 .. n : SubSeq(s, 1, n)[i] = u[i]
      <3>1. Len(SubSeq(s, 1, n)) = n BY <1>5, <2>3
      <3>2. \A i \in 1 .. n : i \in 1 .. n - 1 + 1 /\ 1 + i - 1 = i BY <1>5
      <3> QED BY <1>6, <2>3, <3>1, <3>2
    <2>5. SubSeq(s, 1, n) = u BY <1>1, <2>3, <2>4, SeqEqual
    <2> QED BY <2>1, <2>5
  <1>12. part = v
    <2> DEFINE m == n + 2
               l == n + 7
    <2>1. point + 1 = m /\ Len(s) = l /\ m \in Int /\ l \in Int /\ m <= l BY <1>5, <1>7, <1>10
    <2>2. \A i \in m .. l : i - (n + 1) \in 1 .. 6 /\ i = n + 1 + (i - (n + 1)) BY <1>5
    <2>3. \A i \in m .. l : s[i] \in Glyphs
      <3> TAKE i \in m .. l
      <3>1. s[n + 1 + (i - (n + 1))] = v[i - (n + 1)] BY <1>2, <1>6, <2>2
      <3> QED BY <1>8, <2>2, <3>1
    <2>4. /\ SubSeq(s, m, l) \in Seq(Glyphs) /\ Len(SubSeq(s, m, l)) = IF m <= l THEN l - m + 1 ELSE 0
          /\ \A i \in 1 .. l - m + 1 : SubSeq(s, m, l)[i] = s[m + i - 1]
      <3> HIDE DEF m, l
      <3> QED BY <2>1, <2>3, SubSeqProperties
    <2>5. l - m + 1 = 6 /\ \A i \in 1 .. 6 : m + i - 1 = n + 1 + i BY <1>5
    <2>6. Len(SubSeq(s, m, l)) = 6 /\ \A i \in 1 .. 6 : SubSeq(s, m, l)[i] = v[i]
      <3> HIDE DEF m, l
      <3>1. Len(SubSeq(s, m, l)) = 6 BY <2>1, <2>4, <2>5
      <3>2. \A i \in 1 .. 6 : SubSeq(s, m, l)[i] = s[m + i - 1] BY <2>4, <2>5
      <3>3. \A i \in 1 .. 6 : s[m + i - 1] = v[i] BY <1>2, <1>6, <2>5
      <3> QED BY <3>1, <3>2, <3>3
    <2> HIDE DEF m, l
    <2>7. SubSeq(s, m, l) = v BY <1>2, <2>4, <2>6, SeqEqual
    <2> QED BY <2>1, <2>7
  <1> HIDE DEF part
  <1>13. /\ s \in Seq(Letters) /\ Reads(SubSeq(s, 1, point - 1), 10, whole)
         /\ Len(part) = 6 /\ Reads(<<"1">> \o part, 10, frac)
    BY <1>1, <1>2, <1>6, <1>11, <1>12
  <1>14. ReadsFraction(s, whole, e) BY ONLY <1>13, FractionParts DEF part, point, frac
  <1> QED BY <1>13, <1>14 DEF s, u, v

Doubles ==
    [kind : {"nan", "inf", "finite"}, negative : BOOLEAN, whole : 0 .. UINT64_MAX, eighths : 0 .. 7]

LEMMA LettersJoin == \A x, y, z \in Seq(Letters) : (x \o y) \o z = x \o (y \o z)
  BY ConcatAssociative

LEMMA WriteDoubleIs ==
    ASSUME NEW d \in Doubles
    PROVE  LET s == WriteDouble(d)
           IN  /\ s \in Seq(Letters)
               /\ d.kind = "finite" => ReadsDouble(s, d)
  <1> DEFINE sign == IF d.negative THEN <<"-">> ELSE <<>>
             u == WriteUnsigned(d.whole, 10)
             o == <<".">>
             v == SixDigits(d.eighths)
             s == WriteDouble(d)
  <1>1. /\ d.kind \in {"nan", "inf", "finite"} /\ d.negative \in BOOLEAN /\ d.whole \in 0 .. UINT64_MAX
        /\ d.eighths \in 0 .. 7
    BY DEF Doubles
  <1>2. sign \in Seq(Letters) BY LettersAre
  <1>3. CASE d.kind = "nan"
    <2>1. s = <<"n", "a", "n">> BY <1>3 DEF WriteDouble
    <2>2. "n" \in Letters /\ "a" \in Letters BY DEF Letters
    <2>3. s \in Seq(Letters) BY <2>1, <2>2
    <2> QED BY <1>3, <2>3
  <1>4. CASE d.kind = "inf"
    <2> DEFINE w == <<"i", "n", "f">>
    <2>1. s = sign \o w BY <1>4 DEF WriteDouble
    <2>2. "i" \in Letters /\ "n" \in Letters /\ "f" \in Letters BY DEF Letters
    <2>3. w \in Seq(Letters) BY <2>2
    <2> HIDE DEF sign, w
    <2>4. s \in Seq(Letters) BY <1>2, <2>1, <2>3, ConcatProperties
    <2> QED BY <1>4, <2>4
  <1>5. CASE d.kind = "finite"
    <2>1. s = ((sign \o u) \o o) \o v BY <1>5 DEF WriteDouble
    <2>2. (u \o o) \o v \in Seq(Letters) /\ ReadsFraction((u \o o) \o v, d.whole, d.eighths)
      BY <1>1, UnsignedDoubleIs
    <2>3. u \in Seq(Letters) /\ v \in Seq(Letters) /\ o \in Seq(Letters)
      <3>1. u \in Seq(Glyphs) BY <1>1, WriteUnsignedIs
      <3>2. v \in Seq(Glyphs) BY <1>1, SixDigitsAre
      <3> HIDE DEF u, v
      <3> QED BY <3>1, <3>2, LettersAre
    <2> HIDE DEF s, u, v, o
    <2>4. s = sign \o ((u \o o) \o v)
      <3> DEFINE p == u \o o
      <3>1. p \in Seq(Letters) BY <2>3, ConcatProperties
      <3> HIDE DEF sign
      <3>2. (sign \o u) \o o = sign \o p BY <1>2, <2>3, LettersJoin
      <3> HIDE DEF p
      <3>3. (sign \o p) \o v = sign \o (p \o v)
        <4>1. sign \in Seq(Letters) /\ p \in Seq(Letters) /\ v \in Seq(Letters) BY <1>2, <2>3, <3>1
        <4> QED BY ONLY <4>1, LettersJoin
      <3>4. s = sign \o (p \o v) BY <2>1, <3>2, <3>3
      <3> QED BY <3>4 DEF p
    <2> DEFINE w == (u \o o) \o v
    <2>5. w \in Seq(Letters) /\ ReadsFraction(w, d.whole, d.eighths) /\ s = sign \o w BY <2>2, <2>4
    <2> HIDE DEF w
    <2>6. CASE d.negative
      <3>1. "-" \in Letters BY DEF Letters
      <3>2. s = <<"-">> \o w BY <2>5, <2>6
      <3>3. s \in Seq(Letters) /\ s[1] = "-" /\ Tail(s) = w BY <2>5, <3>1, <3>2, TailOfConcat
      <3> QED BY <2>5, <2>6, <3>3 DEF s, ReadsDouble
    <2>7. CASE ~d.negative
      <3>1. s = <<>> \o w BY <2>5, <2>7
      <3>2. s = w BY <2>5, <3>1, ConcatEmptySeq
      <3> QED BY <2>5, <2>7, <3>2 DEF s, ReadsDouble
    <2> QED BY <2>6, <2>7
  <1> QED BY <1>1, <1>3, <1>4, <1>5

\* WriteValue writes characters, and they say the value.
LEMMA WriteValueIs ==
    ASSUME NEW a, IsValue(a)
    PROVE  WriteValue(a) \in Seq(Letters) /\ Says(WriteValue(a), a)
  <1>1. CASE a[1] \in {"uint8_t", "uint16_t", "uint32_t", "uint64_t"}
    <2>1. a[2] \in 0 .. UINT64_MAX BY <1>1, Zenon DEF IsValue
    <2>2. WriteValue(a) = WriteUnsigned(a[2], 10) BY <1>1, Zenon DEF WriteValue
    <2>3. WriteValue(a) \in Seq(Glyphs) /\ Reads(WriteValue(a), 10, a[2]) BY <2>1, <2>2, WriteUnsignedIs
    <2>4. WriteValue(a) \in Seq(Letters) BY <2>3, LettersAre
    <2>5. Says(WriteValue(a), a) BY <1>1, <2>3 DEF Says
    <2> QED BY <2>4, <2>5
  <1>2. CASE a[1] = "void*"
    <2> DEFINE s == WriteValue(a)
    <2>1. a[2] \in 0 .. UINT64_MAX BY <1>2 DEF IsValue
    <2>2. s = <<"0", "x">> \o WriteUnsigned(a[2], 16) BY <1>2 DEF WriteValue
    <2>3. /\ s \in Seq(Letters)
          /\ SubSeq(s, 1, 2) = <<"0", "x">> /\ Reads(SubSeq(s, 3, Len(s)), 16, a[2])
      BY <2>1, <2>2, WritePointerIs
    <2> HIDE DEF s
    <2>4. Says(s, a) BY <1>2, <2>3 DEF Says
    <2> QED BY <2>3, <2>4 DEF s
  <1>3. CASE a[1] \in {"int8_t", "int16_t", "int32_t", "int64_t"}
    <2>1. a[2] \in -INT64_MAX - 1 .. INT64_MAX BY <1>3, Zenon DEF IsValue
    <2>2. WriteValue(a) = WriteSigned(a[2]) BY <1>3, Zenon DEF WriteValue
    <2>3. WriteValue(a) \in Seq(Letters) /\ ReadsSigned(WriteValue(a), a[2]) BY <2>1, <2>2, WriteSignedIs
    <2>5. Says(WriteValue(a), a) BY <1>3, <2>3 DEF Says
    <2> QED BY <2>3, <2>5
  <1>4. CASE a[1] \in {"float", "double"}
    <2> DEFINE s == WriteValue(a)
               d == a[2]
    <2>1. d \in Doubles BY <1>4, Zenon DEF IsValue, Doubles
    <2>2. s = WriteDouble(d) BY <1>4, Zenon DEF WriteValue
    <2>3. s \in Seq(Letters) /\ (d.kind = "finite" => ReadsDouble(s, d))
      <3> HIDE DEF s, d
      <3> QED BY <2>1, <2>2, WriteDoubleIs
    <2>4. Says(s, a) BY <1>4, <2>3 DEF Says
    <2> QED BY <2>3, <2>4
  <1>5. CASE a[1] = "bool"
    <2>1. WriteValue(a) = IF a[2] THEN <<"t", "r", "u", "e">> ELSE <<"f", "a", "l", "s", "e">>
      BY <1>5 DEF WriteValue
    <2>2. /\ "t" \in Letters /\ "r" \in Letters /\ "u" \in Letters /\ "e" \in Letters /\ "f" \in Letters
          /\ "a" \in Letters /\ "l" \in Letters /\ "s" \in Letters
      BY DEF Letters
    <2>3. <<"t", "r", "u", "e">> \in Seq(Letters) /\ <<"f", "a", "l", "s", "e">> \in Seq(Letters) BY <2>2
    <2>4. Says(WriteValue(a), a) BY <1>5 DEF Says
    <2> QED BY <2>1, <2>3, <2>4
  <1>6. CASE a[1] = "char"
    <2>1. a[2] \in STRING BY <1>6 DEF IsValue
    <2>2. WriteValue(a) \in {<<a[2]>>, <<"?">>} BY <1>6 DEF WriteValue, WriteChar
    <2>3. a[2] \in Letters /\ "?" \in Letters BY <2>1 DEF Letters
    <2>4. Says(WriteValue(a), a) BY <1>6 DEF Says
    <2>5. <<a[2]>> \in Seq(Letters) /\ <<"?">> \in Seq(Letters) BY <2>3
    <2> QED BY <2>2, <2>4, <2>5
  <1>7. CASE a[1] \in {"const char*", "StringView"}
    <2>1. a[2] \in Seq(STRING) /\ WriteValue(a) = a[2] BY <1>7, Zenon DEF IsValue, WriteValue
    <2>2. WriteValue(a) \in Seq(Letters) BY <2>1, LettersAre
    <2>3. Says(WriteValue(a), a) BY <1>7, Zenon DEF Says
    <2> QED BY <2>2, <2>3
  <1>8. \/ a[1] \in {"uint8_t", "uint16_t", "uint32_t", "uint64_t"} \/ a[1] = "void*"
        \/ a[1] \in {"int8_t", "int16_t", "int32_t", "int64_t"} \/ a[1] \in {"float", "double"}
        \/ a[1] = "bool" \/ a[1] = "char" \/ a[1] \in {"const char*", "StringView"}
    BY Zenon DEF IsValue
  <1> QED BY <1>1, <1>2, <1>3, <1>4, <1>5, <1>6, <1>7, <1>8, Zenon

(***************************************************************************)
(* The loops of the formatter.  Where a turn starts, the placeholders      *)
(* before it are counted and it is not inside one.                         *)
(***************************************************************************)
PlacesTo(s, k) == {j \in Placeholders(s) : j <= k}
Places(s, k) == Cardinality(PlacesTo(s, k))

PlacesFacts(s) ==
    /\ Places(s, 0) = 0 /\ Places(s, Len(s)) = Cardinality(Placeholders(s))
    /\ \A k \in 0 .. Len(s) : Places(s, k) \in 0 .. Cardinality(Placeholders(s))
    /\ Cardinality(Placeholders(s)) \in Nat
    /\ \A k \in 1 .. Len(s) :
          /\ k \in Placeholders(s) => /\ Places(s, k) = Places(s, k - 1) + 1
                                      /\ k + 1 \in 1 .. Len(s) /\ k + 1 \notin Placeholders(s)
          /\ k \notin Placeholders(s) => Places(s, k) = Places(s, k - 1)
    /\ \A k \in 1 .. Len(s) : Places(s, k - 1) = Cardinality(Placeholders(s)) =>
          \A j \in k .. Len(s) : j \notin Placeholders(s)
    /\ 0 \notin Placeholders(s) /\ Len(s) \notin Placeholders(s)

LEMMA PlacesAre == ASSUME NEW s \in Seq(STRING) PROVE PlacesFacts(s)
  <1> DEFINE P == Placeholders(s)
             L == Len(s)
             T(k) == PlacesTo(s, k)
  <1>1. L \in Nat /\ DOMAIN s = 1 .. L BY LenProperties
  <1>2. /\ P \subseteq 1 .. L - 1 /\ \A k \in 1 .. L - 1 : k \in P <=> s[k] = "{" /\ s[k + 1] = "}"
    BY Zenon DEF Placeholders
  <1> HIDE DEF P, L
  <1>p. \A j \in P : j \in Int /\ 1 <= j /\ j <= L - 1
    <2>1. L \in Nat /\ P \subseteq 1 .. L - 1 BY <1>1, <1>2, Zenon
    <2> QED BY <2>1
  <1>3. IsFiniteSet(P)
    <2>1. IsFiniteSet(1 .. L - 1) BY <1>1, FS_Interval
    <2> QED BY <1>2, <2>1, FS_Subset, Zenon
  <1>4. \A k : T(k) \subseteq P /\ T(k) = {j \in P : j <= k} BY DEF PlacesTo, P
  <1>5. \A k : IsFiniteSet(T(k)) BY <1>3, <1>4, FS_Subset
  <1>6. Cardinality(P) \in Nat BY <1>3, FS_CardinalityType
  <1>7. T(0) = {} /\ T(L) = P
    <2>1. \A j \in P : ~(j <= 0) /\ j <= L BY <1>1, <1>p
    <2> QED BY <1>4, <2>1
  <1>8. Cardinality({}) = 0 BY FS_EmptySet
  <1>9. \A k \in 0 .. L : Cardinality(T(k)) \in 0 .. Cardinality(P)
    <2> TAKE k \in 0 .. L
    <2>1. Cardinality(T(k)) \in Nat BY <1>5, FS_CardinalityType
    <2>2. Cardinality(T(k)) <= Cardinality(P) BY <1>3, <1>4, FS_Subset
    <2> QED BY <1>6, <2>1, <2>2
  <1> HIDE DEF T
  <1>10. ASSUME NEW k \in 1 .. L, k \in P
         PROVE  Cardinality(T(k)) = Cardinality(T(k - 1)) + 1 /\ k + 1 \in 1 .. L /\ k + 1 \notin P
    <2>1. T(k) = T(k - 1) \cup {k}
      <3>1. \A j \in P : j <= k <=> j <= k - 1 \/ j = k BY <1>1, <1>p
      <3> QED BY <1>4, <1>10, <3>1
    <2>2. k \notin T(k - 1)
      <3>1. ~(k <= k - 1) BY <1>1
      <3> QED BY <1>4, <3>1
    <2>3. Cardinality(T(k)) = Cardinality(T(k - 1)) + 1 BY <1>5, <2>1, <2>2, FS_AddElement
    <2>4. k \in 1 .. L - 1 /\ k + 1 \in 1 .. L BY <1>1, <1>p, <1>10
    <2>5. s[k + 1] = "}" BY <1>2, <1>10, <2>4, Zenon
    <2>6. k + 1 \notin P
      <3>1. k + 1 \in P => s[k + 1] = "{" BY <1>2, Zenon
      <3> QED BY <2>5, <3>1, Zenon
    <2> QED BY <2>3, <2>4, <2>6
  <1>11. ASSUME NEW k \in 1 .. L, k \notin P PROVE Cardinality(T(k)) = Cardinality(T(k - 1))
    <2>1. \A j \in P : j <= k <=> j <= k - 1 BY <1>1, <1>p, <1>11
    <2>2. T(k) = T(k - 1) BY <1>4, <2>1
    <2> QED BY <2>2
  <1>12. ASSUME NEW k \in 1 .. L, Cardinality(T(k - 1)) = Cardinality(P), NEW j \in k .. L
         PROVE  j \notin P
    <2>1. T(k - 1) = P
      <3>1. IsFiniteSet(P) /\ T(k - 1) \subseteq P BY <1>3, <1>4
      <3> QED BY <1>12, <3>1, FS_Subset
    <2>2. ~(j <= k - 1) BY <1>1
    <2> QED BY <1>4, <2>1, <2>2
  <1>13. 0 \notin P /\ L \notin P BY <1>1, <1>p
  <1>14. \A k \in 1 .. L : k - 1 \in 0 .. L BY <1>1
  <1> QED BY <1>6, <1>7, <1>8, <1>9, <1>10, <1>11, <1>12, <1>13 DEF PlacesFacts, Places, T, P, L

\* What the turns compare at i.
LEMMA CharsAre ==
    ASSUME NEW s \in Seq(STRING), ~Escapes(s), NEW i \in 1 .. Len(s)
    PROVE  /\ Char(s, i) = "{" /\ Char(s, i + 1) = "}" <=> i \in Placeholders(s)
           /\ ~(Char(s, i) = "{" /\ Char(s, i + 1) = "{")
  <1>1. Len(s) \in Nat /\ DOMAIN s = 1 .. Len(s) BY LenProperties
  <1>2. Char(s, i) = s[i] BY <1>1 DEF Char
  <1>3. CASE i = Len(s)
    <2>1. i + 1 \notin DOMAIN s BY <1>1, <1>3
    <2>2. Char(s, i + 1) = "NUL" BY <2>1 DEF Char
    <2>3. i \notin 1 .. Len(s) - 1 BY <1>1, <1>3
    <2> QED BY <2>2, <2>3, Zenon DEF Placeholders
  <1>4. CASE i # Len(s)
    <2>1. i \in 1 .. Len(s) - 1 /\ i + 1 \in DOMAIN s
      <3> DEFINE n == Len(s)
      <3>1. n \in Nat /\ i \in 1 .. n /\ i # n BY <1>1, <1>4, Zenon
      <3> HIDE DEF n
      <3>2. i \in 1 .. n - 1 /\ i + 1 \in 1 .. n BY <3>1
      <3> QED BY <1>1, <3>2 DEF n
    <2>2. Char(s, i + 1) = s[i + 1] BY <2>1 DEF Char
    <2> QED BY <1>2, <2>1, <2>2, Zenon DEF Placeholders, Escapes
  <1> QED BY <1>3, <1>4, Zenon

\* A loop that goes on by a character each turn is through after as many
\* turns as there are characters.
LEMMA Advances ==
    ASSUME NEW n \in Nat, NEW q \in [0 .. n -> 1 .. n + 1],
           \A i \in 1 .. n : q[i] > q[i - 1] \/ q[i] = n + 1
    PROVE  q[n] = n + 1
  <1> DEFINE B == {i \in 0 .. n : ~(q[i] >= i + 1)}
  <1>1. B = {}
    <2> SUFFICES ASSUME B # {} PROVE FALSE OBVIOUS
    <2>1. B \in SUBSET Nat OBVIOUS
    <2>2. PICK m \in B : \A y \in B : m <= y
      <3> HIDE DEF B
      <3> QED BY <2>1, Least
    <2>3. m \in 0 .. n /\ ~(q[m] >= m + 1) BY <2>2
    <2>4. q[0] >= 0 + 1 OBVIOUS
    <2>5. m \in 1 .. n BY <2>3, <2>4
    <2>6. m - 1 \in 0 .. n /\ ~(m <= m - 1) BY <2>5
    <2>7. q[m - 1] >= (m - 1) + 1 BY <2>2, <2>6
    <2>8. q[m] \in 1 .. n + 1 /\ q[m - 1] \in 1 .. n + 1 BY <2>3, <2>6
    <2>9. q[m] > q[m - 1] \/ q[m] = n + 1 BY <2>5
    <2> QED BY <2>3, <2>5, <2>7, <2>8, <2>9
  <1>2. n \in 0 .. n /\ q[n] \in 1 .. n + 1 OBVIOUS
  <1>3. q[n] >= n + 1 BY <1>1, <1>2
  <1> QED BY <1>2, <1>3

\* FormatString counts the placeholders.
LEMMA CountArgsIs ==
    ASSUME NEW s \in Seq(STRING), ~Escapes(s)
    PROVE  CountArgs(s) = Cardinality(Placeholders(s))
  <1> DEFINE P == Placeholders(s)
             L == Len(s)
             after[i \in 0 .. Len(s)] ==
                 IF i = 0 THEN [ptr |-> 1, count |-> 0] ELSE CountTurn(s, after[i - 1])
             a == [ptr |-> 1, count |-> 0]
             Q(f) == f = [i \in 0 .. L |-> IF i = 0 THEN a ELSE CountTurn(s, f[i - 1])]
             D == {t \in [ptr : 1 .. L + 1, count : Nat] :
                      t.ptr - 1 \notin P /\ t.count = Places(s, t.ptr - 1)}
             S == [x \in D |-> [i \in 1 .. L |-> CountTurn(s, x)]]
  <1>1. L \in Nat BY LenProperties
  <1>2. CountArgs(s) = after[L].count BY DEF CountArgs
  <1>3. after = CHOOSE f : Q(f) OBVIOUS
  <1>4. PlacesFacts(s) BY PlacesAre
  <1>5. \A i \in 1 .. L : /\ Char(s, i) = "{" /\ Char(s, i + 1) = "}" <=> i \in P
                          /\ ~(Char(s, i) = "{" /\ Char(s, i + 1) = "{")
    BY CharsAre, Zenon
  <1> HIDE DEF after, P
  <1>6. a \in D
    <2>1. 1 \in 1 .. L + 1 /\ 1 - 1 = 0 BY <1>1
    <2>2. 0 \notin P /\ Places(s, 0) = 0 BY <1>4 DEF PlacesFacts, P
    <2> HIDE DEF L
    <2> QED BY <2>1, <2>2
  <1>7. ASSUME NEW t \in D, t.ptr <= L
        PROVE  LET u == CountTurn(s, t) IN u \in D /\ u.ptr > t.ptr
    <2> DEFINE i == t.ptr
    <2>1. i \in 1 .. L + 1 /\ t.count \in Nat /\ i - 1 \notin P /\ t.count = Places(s, i - 1) BY DEF D
    <2>2. i \in 1 .. L /\ i - 1 \in 0 .. L BY <1>1, <1>7, <2>1
    <2>3. [d \in 1 .. 4 |-> Char(s, i + d - 1)] # <<"{", "{", "}", "}">>
      <3> DEFINE z == [d \in 1 .. 4 |-> Char(s, i + d - 1)]
                 y == <<"{", "{", "}", "}">>
      <3>1. y[1] = "{" /\ y[2] = "{" OBVIOUS
      <3>2. \A d \in 1 .. 4 : z[d] = Char(s, i + d - 1) OBVIOUS
      <3>3. 1 \in 1 .. 4 /\ 2 \in 1 .. 4 /\ i + 1 - 1 = i /\ i + 2 - 1 = i + 1 BY <1>1, <2>2
      <3> HIDE DEF z, y
      <3>4. z[1] = Char(s, i) /\ z[2] = Char(s, i + 1) BY <3>2, <3>3
      <3>5. z # y BY <1>5, <2>2, <3>1, <3>4, Zenon
      <3> QED BY <3>5, Zenon DEF z, y
    <2>4. CASE i \in P
      <3>1. Char(s, i) = "{" /\ Char(s, i + 1) = "}" BY <1>5, <2>2, <2>4, Zenon
      <3>2. CountTurn(s, t) = [ptr |-> i + 2, count |-> t.count + 1]
        <4>1. i <= L /\ ~(i > L) BY <1>1, <2>2
        <4> QED BY <2>3, <3>1, <4>1, Zenon DEF CountTurn
      <3>3. Places(s, i) = Places(s, i - 1) + 1 /\ i + 1 \in 1 .. L /\ i + 1 \notin P
        BY <1>4, <2>2, <2>4 DEF PlacesFacts, P
      <3>4. Places(s, i + 1) = Places(s, (i + 1) - 1) BY <1>4, <3>3 DEF PlacesFacts, P
      <3>5. (i + 1) - 1 = i /\ (i + 2) - 1 = i + 1 /\ i + 2 \in 1 .. L + 1 /\ i + 2 > i /\ t.count + 1 \in Nat
        BY <1>1, <2>1, <2>2, <3>3
      <3>6. t.count + 1 = Places(s, (i + 2) - 1) /\ (i + 2) - 1 \notin P BY <2>1, <3>3, <3>4, <3>5
      <3> HIDE DEF i, L
      <3> QED BY <3>2, <3>5, <3>6 DEF i
    <2>5. CASE i \notin P
      <3>1. ~(Char(s, i) = "{" /\ Char(s, i + 1) = "}") BY <1>5, <2>2, <2>5, Zenon
      <3>2. CountTurn(s, t) = [ptr |-> i + 1, count |-> t.count]
        <4>1. ~(i > L) BY <1>1, <2>2
        <4> QED BY <2>3, <3>1, <4>1, Zenon DEF CountTurn
      <3>3. Places(s, i) = Places(s, i - 1) BY <1>4, <2>2, <2>5 DEF PlacesFacts, P
      <3>4. (i + 1) - 1 = i /\ i + 1 \in 1 .. L + 1 /\ i + 1 > i BY <1>1, <2>2
      <3>5. t.count = Places(s, (i + 1) - 1) /\ (i + 1) - 1 \notin P BY <2>1, <2>5, <3>3, <3>4
      <3> HIDE DEF i, L
      <3> QED BY <2>1, <3>2, <3>4, <3>5 DEF i
    <2> QED BY <2>4, <2>5
  <1>8. ASSUME NEW t \in D, ~(t.ptr <= L)
        PROVE  LET u == CountTurn(s, t) IN u \in D /\ u.ptr = L + 1
    <2>1. t.ptr \in 1 .. L + 1 BY DEF D
    <2>2. t.ptr > L /\ t.ptr = L + 1 BY <1>1, <1>8, <2>1
    <2>3. CountTurn(s, t) = t BY <1>8, <2>2, Zenon DEF CountTurn
    <2> HIDE DEF D, L
    <2> QED BY <2>2, <2>3
  <1>9. S \in Steps(D, L) /\ \A x \in D : \A i \in 1 .. L : S[x][i] = CountTurn(s, x)
    <2>1. \A x \in D : CountTurn(s, x) \in D BY <1>7, <1>8
    <2> HIDE DEF D, L
    <2> QED BY <2>1 DEF Steps
  <1>d. \A t \in D : t.ptr \in 1 .. L + 1 /\ t.count = Places(s, t.ptr - 1) BY DEF D
  <1> HIDE DEF S, D, a, L
  <1>10. PICK g : Computes(g, D, a, L, Before(L), S) BY <1>1, <1>6, <1>9, BeforeIsEarlier, RecursionExists
  <1>11. g \in [0 .. L -> D] /\ g[0] = a /\ \A i \in 1 .. L : g[i - 1] \in D /\ g[i] = CountTurn(s, g[i - 1])
    <2>1. g \in [0 .. L -> D] /\ g[0] = a /\ \A i \in 1 .. L : g[i] = S[g[i - 1]][i]
      BY <1>1, <1>10, BeforeIsEarlier DEF Computes
    <2>2. \A i \in 1 .. L : g[i - 1] \in D
      <3>1. \A i \in 1 .. L : i - 1 \in 0 .. L BY <1>1
      <3> QED BY <2>1, <3>1
    <2> QED BY <1>9, <2>1, <2>2
  <1>12. Q(g)
    <2>1. \A i \in 0 .. L : i # 0 => i \in 1 .. L BY <1>1
    <2> QED BY <1>11, <2>1
  <1> HIDE DEF Q
  <1>13. Q(after) BY <1>3, <1>12
  <1> USE DEF Q
  <1>14. /\ after = [i \in 0 .. L |-> after[i]]
         /\ \A i \in 0 .. L : after[i] = IF i = 0 THEN a ELSE CountTurn(s, after[i - 1])
    BY <1>13
  <1> HIDE DEF Q
  <1>15. Computes(after, D, a, L, Before(L), S)
    <2>1. after[0] = a
      <3>1. 0 \in 0 .. L BY <1>1
      <3> QED BY <1>14, <3>1
    <2>2. ASSUME NEW i \in 1 .. L, after[Before(L)[i]] \in D PROVE after[i] = S[after[Before(L)[i]]][i]
      <3>1. Before(L)[i] = i - 1 /\ i \in 0 .. L /\ i # 0 BY <1>1, BeforeIsEarlier
      <3>2. after[i] = CountTurn(s, after[i - 1]) BY <1>14, <3>1
      <3> QED BY <1>9, <2>2, <3>1, <3>2
    <2> QED BY <1>1, <1>6, <1>9, <1>14, <2>1, <2>2, BeforeIsEarlier, RecursionTyped
  <1>16. after \in [0 .. L -> D] /\ \A i \in 1 .. L : after[i - 1] \in D /\ after[i] = CountTurn(s, after[i - 1])
    <2>1. after \in [0 .. L -> D] BY <1>15 DEF Computes
    <2>2. \A i \in 1 .. L : i - 1 \in 0 .. L /\ i \in 0 .. L /\ i # 0 BY <1>1
    <2> QED BY <1>14, <2>1, <2>2
  <1> DEFINE q == [i \in 0 .. L |-> after[i].ptr]
  <1>17. q \in [0 .. L -> 1 .. L + 1] /\ \A i \in 0 .. L : q[i] = after[i].ptr BY <1>d, <1>16
  <1>18. \A i \in 1 .. L : q[i] > q[i - 1] \/ q[i] = L + 1
    <2> TAKE i \in 1 .. L
    <2>1. i \in 0 .. L /\ i - 1 \in 0 .. L BY <1>1
    <2>2. after[i].ptr > after[i - 1].ptr \/ after[i].ptr = L + 1 BY <1>7, <1>8, <1>16
    <2> QED BY <1>17, <2>1, <2>2
  <1> HIDE DEF q
  <1>19. q[L] = L + 1 BY <1>1, <1>17, <1>18, Advances
  <1>20. L \in 0 .. L /\ (L + 1) - 1 = L BY <1>1
  <1>21. after[L].count = Places(s, L) BY <1>d, <1>16, <1>17, <1>19, <1>20
  <1> QED BY <1>2, <1>4, <1>21 DEF PlacesFacts, L

\* A sequence of texts in one, from the left.
Flattens(g, sq, n, A) ==
    /\ sq \in [1 .. n -> Seq(A)] /\ g \in [0 .. n -> Seq(A)] /\ g[0] = <<>>
    /\ \A i \in 1 .. n : g[i] = g[i - 1] \o sq[i]

LEMMA FlattenIs ==
    ASSUME NEW A, NEW n \in Nat, NEW sq, NEW g, Flattens(g, sq, n, A)
    PROVE  FlattenSeq(sq) = g[n]
  <1> DEFINE flatten[i \in 1 .. Len(sq)] == IF i = 1 THEN sq[i] ELSE flatten[i - 1] \o sq[i]
             Q(f) == f = [i \in 1 .. n |-> IF i = 1 THEN sq[i] ELSE f[i - 1] \o sq[i]]
             w == [i \in 1 .. n |-> g[i]]
  <1> USE DEF Flattens
  <1>1. sq \in Seq(Seq(A)) /\ Len(sq) = n
    <2>1. sq \in Seq(Seq(A)) BY SeqDef
    <2> QED BY <2>1, LenProperties
  <1>2. FlattenSeq(sq) = IF Len(sq) = 0 THEN sq ELSE flatten[Len(sq)] BY DEF FlattenSeq
  <1>3. flatten = CHOOSE f : Q(f) BY <1>1
  <1> HIDE DEF flatten
  <1>4. CASE n = 0
    <2>1. sq = <<>> BY <1>1, <1>4, EmptySeq
    <2> QED BY <1>1, <1>2, <1>4, <2>1
  <1>5. CASE n # 0
    <2>1. n \in 1 .. n /\ 1 \in 1 .. n BY <1>5
    <2>2. g[1] = sq[1]
      <3>1. g[1] = g[1 - 1] \o sq[1] BY <2>1
      <3>2. 1 - 1 = 0 OBVIOUS
      <3>3. sq[1] \in Seq(A) BY <2>1
      <3>4. <<>> \o sq[1] = sq[1] BY <3>3, ConcatEmptySeq
      <3> QED BY <3>1, <3>2, <3>4
    <2>3. Q(w)
      <3>1. ASSUME NEW i \in 1 .. n PROVE w[i] = IF i = 1 THEN sq[i] ELSE w[i - 1] \o sq[i]
        <4>1. CASE i = 1 BY <2>2, <4>1
        <4>2. CASE i # 1
          <5>1. i - 1 \in 1 .. n BY <4>2
          <5>2. w[i - 1] = g[i - 1] /\ w[i] = g[i] BY <5>1
          <5> QED BY <4>2, <5>2
        <4> QED BY <4>1, <4>2
      <3>2. w = [i \in 1 .. n |-> w[i]] OBVIOUS
      <3> HIDE DEF w
      <3> QED BY <3>1, <3>2
    <2> HIDE DEF Q
    <2>4. Q(flatten) BY <1>3, <2>3
    <2> USE DEF Q
    <2>5. \A i \in 1 .. n : flatten[i] = IF i = 1 THEN sq[i] ELSE flatten[i - 1] \o sq[i] BY <2>4
    <2> HIDE DEF Q
    <2> DEFINE B == {i \in 1 .. n : flatten[i] # g[i]}
    <2>6. B = {}
      <3> SUFFICES ASSUME B # {} PROVE FALSE OBVIOUS
      <3>1. B \in SUBSET Nat OBVIOUS
      <3>2. PICK m \in B : \A y \in B : m <= y
        <4> HIDE DEF B
        <4> QED BY <3>1, Least
      <3>3. m \in 1 .. n /\ flatten[m] # g[m] BY <3>2
      <3>4. CASE m = 1 BY <2>1, <2>2, <2>5, <3>3, <3>4
      <3>5. CASE m # 1
        <4>1. m - 1 \in 1 .. n /\ ~(m <= m - 1) BY <3>3, <3>5
        <4>2. flatten[m - 1] = g[m - 1] BY <3>2, <4>1
        <4>3. flatten[m] = flatten[m - 1] \o sq[m] BY <2>5, <3>3, <3>5
        <4> QED BY <3>3, <4>2, <4>3
      <3> QED BY <3>4, <3>5
    <2>7. flatten[n] = g[n] BY <2>1, <2>6
    <2> QED BY <1>1, <1>2, <1>5, <2>7
  <1> QED BY <1>4, <1>5

\* What stands for a character of the format, and the text up to it.
Piece(s, args, i) ==
    CASE i \in Placeholders(s) -> WriteValue(args[Places(s, i)])
      [] i \notin Placeholders(s) /\ i - 1 \in Placeholders(s) -> <<>>
      [] OTHER -> <<s[i]>>
UpToEach(s, args, g) ==
    /\ g \in [0 .. Len(s) -> Seq(Letters)] /\ g[0] = <<>>
    /\ \A i \in 1 .. Len(s) : g[i] = g[i - 1] \o Piece(s, args, i)
IsMessage(s, args) ==
    /\ s \in Seq(STRING) /\ ~Escapes(s) /\ DOMAIN args = 1 .. Len(args) /\ Len(args) \in Nat
    /\ CountArgs(s) = Len(args) /\ \A k \in DOMAIN args : IsValue(args[k])

LEMMA PieceIs ==
    ASSUME NEW s, NEW args, IsMessage(s, args), NEW i \in 1 .. Len(s)
    PROVE  Piece(s, args, i) \in Seq(Letters)
  <1>1. /\ s \in Seq(STRING) /\ Len(s) \in Nat /\ PlacesFacts(s)
        /\ Len(args) = Cardinality(Placeholders(s))
    BY PlacesAre, CountArgsIs, LenProperties DEF IsMessage
  <1>2. s[i] \in STRING /\ s[i] \in Letters
    <2>1. s[i] \in STRING BY <1>1
    <2> QED BY <2>1 DEF Letters
  <1>3. CASE i \in Placeholders(s)
    <2>1. Places(s, i) = Places(s, i - 1) + 1 BY <1>1, <1>3 DEF PlacesFacts
    <2>2. i - 1 \in 0 .. Len(s) /\ i \in 0 .. Len(s) BY <1>1
    <2>3. Places(s, i - 1) \in 0 .. Len(args) /\ Places(s, i) \in 0 .. Len(args)
      BY <1>1, <2>2 DEF PlacesFacts
    <2>4. Len(args) \in Nat BY DEF IsMessage
    <2>5. Places(s, i) \in 1 .. Len(args) BY <2>1, <2>3, <2>4
    <2>6. IsValue(args[Places(s, i)]) BY <2>5 DEF IsMessage
    <2>7. WriteValue(args[Places(s, i)]) \in Seq(Letters) BY <2>6, WriteValueIs
    <2> QED BY <1>3, <2>7 DEF Piece
  <1>4. CASE i \notin Placeholders(s)
    <2>1. <<s[i]>> \in Seq(Letters) /\ <<>> \in Seq(Letters) BY <1>2
    <2> QED BY <1>4, <2>1 DEF Piece
  <1> QED BY <1>3, <1>4

LEMMA UpToExists ==
    ASSUME NEW s, NEW args, IsMessage(s, args)
    PROVE  \E g : UpToEach(s, args, g)
  <1> DEFINE L == Len(s)
             D == Seq(Letters)
             S == [x \in D |-> [i \in 1 .. L |-> x \o Piece(s, args, i)]]
  <1>1. L \in Nat BY LenProperties DEF IsMessage
  <1>2. \A i \in 1 .. L : Piece(s, args, i) \in D BY PieceIs
  <1>3. \A x \in D : \A i \in 1 .. L : x \o Piece(s, args, i) \in D BY <1>2, ConcatProperties
  <1>4. <<>> \in D OBVIOUS
  <1> HIDE DEF D, L
  <1>5. S \in Steps(D, L) /\ \A x \in D : \A i \in 1 .. L : S[x][i] = x \o Piece(s, args, i)
    BY <1>3 DEF Steps
  <1> HIDE DEF S
  <1>6. PICK g : Computes(g, D, <<>>, L, Before(L), S) BY <1>1, <1>4, <1>5, BeforeIsEarlier, RecursionExists
  <1>7. g \in [0 .. L -> D] /\ g[0] = <<>> /\ \A i \in 1 .. L : g[i] = S[g[i - 1]][i]
    BY <1>1, <1>6, BeforeIsEarlier DEF Computes
  <1>8. \A i \in 1 .. L : g[i - 1] \in D
    <2>1. \A i \in 1 .. L : i - 1 \in 0 .. L BY <1>1
    <2> QED BY <1>7, <2>1
  <1>9. \A i \in 1 .. L : g[i] = g[i - 1] \o Piece(s, args, i) BY <1>5, <1>7, <1>8
  <1> QED BY <1>7, <1>9 DEF UpToEach, D, L

\* One character of a text.
LEMMA OneChar ==
    ASSUME NEW S, NEW s, NEW m \in Int, s[m] \in S
    PROVE  SubSeq(s, m, m) = <<s[m]>>
  <1> DEFINE x == SubSeq(s, m, m)
             y == <<s[m]>>
  <1>1. \A k \in m .. m : s[k] \in S OBVIOUS
  <1>2. /\ x \in Seq(S) /\ Len(x) = IF m <= m THEN m - m + 1 ELSE 0
        /\ \A k \in 1 .. m - m + 1 : x[k] = s[m + k - 1]
    BY <1>1, SubSeqProperties
  <1>3. y \in Seq(S) /\ Len(y) = 1 /\ y[1] = s[m] OBVIOUS
  <1> HIDE DEF x, y
  <1>4. m - m + 1 = 1 /\ m <= m /\ m + 1 - 1 = m /\ 1 \in 1 .. 1 OBVIOUS
  <1>5. Len(x) = 1 /\ x[1] = s[m] BY <1>2, <1>4
  <1>6. \A k \in 1 .. 1 : x[k] = y[k] BY <1>3, <1>5
  <1>7. x = y BY <1>2, <1>3, <1>5, <1>6, SeqEqual
  <1> QED BY <1>7 DEF x, y

\* From where no placeholder is left, the format is copied.
LEMMA CopiedIs ==
    ASSUME NEW s, NEW args, IsMessage(s, args), NEW g, UpToEach(s, args, g),
           NEW i \in 1 .. Len(s), \A j \in i - 1 .. Len(s) : j \notin Placeholders(s)
    PROVE  g[Len(s)] = g[i - 1] \o SubSeq(s, i, Len(s))
  <1> DEFINE L == Len(s)
             B == {m \in 0 .. L : m >= i - 1 /\ g[m] # g[i - 1] \o SubSeq(s, i, m)}
  <1>1. L \in Nat /\ s \in Seq(STRING) /\ s \in Seq(Letters) BY LenProperties, LettersAre DEF IsMessage
  <1>2. g \in [0 .. L -> Seq(Letters)] /\ \A m \in 1 .. L : g[m] = g[m - 1] \o Piece(s, args, m)
    BY DEF UpToEach
  <1> HIDE DEF L
  <1>i. i \in 1 .. L /\ \A j \in i - 1 .. L : j \notin Placeholders(s) BY DEF L
  <1>3. B = {}
    <2> SUFFICES ASSUME B # {} PROVE FALSE OBVIOUS
    <2>1. B \in SUBSET Nat OBVIOUS
    <2>2. PICK m \in B : \A y \in B : m <= y
      <3> HIDE DEF B
      <3> QED BY <2>1, Least
    <2>3. m \in 0 .. L /\ m >= i - 1 /\ g[m] # g[i - 1] \o SubSeq(s, i, m) BY <2>2
    <2>4. i - 1 \in 0 .. L /\ g[i - 1] \in Seq(Letters) BY <1>1, <1>2, <1>i
    <2>5. CASE m = i - 1
      <3>1. m < i /\ m \in Int /\ i \in Int BY <1>1, <1>i, <2>3, <2>5
      <3>2. SubSeq(s, i, m) = <<>> BY <3>1, SubSeqEmpty
      <3>3. g[i - 1] \o <<>> = g[i - 1] BY <2>4, ConcatEmptySeq
      <3> QED BY <2>3, <2>5, <3>2, <3>3
    <2>6. CASE m # i - 1
      <3>1. /\ m \in 1 .. L /\ m - 1 \in 0 .. L /\ m - 1 >= i - 1 /\ ~(m <= m - 1) /\ m \in i .. L
            /\ m \in i - 1 .. L /\ m - 1 \in i - 1 .. L
        BY <1>1, <1>i, <2>3, <2>6
      <3>2. g[m - 1] = g[i - 1] \o SubSeq(s, i, m - 1) BY <2>2, <3>1
      <3>3. m \notin Placeholders(s) /\ m - 1 \notin Placeholders(s) BY <1>i, <3>1
      <3>4. Piece(s, args, m) = <<s[m]>> BY <3>3 DEF Piece
      <3>5. g[m] = (g[i - 1] \o SubSeq(s, i, m - 1)) \o <<s[m]>> BY <1>2, <3>1, <3>2, <3>4
      <3> DEFINE u == SubSeq(s, i, m - 1)
                 c == <<s[m]>>
      <3>6. s[m] \in Letters BY <1>1, <3>1 DEF L
      <3>7. c \in Seq(Letters) BY <3>6
      <3>8. u \in Seq(Letters) /\ u \o c = SubSeq(s, i, m)
        <4>1. \A k \in i .. m - 1 : s[k] \in Letters
          <5>1. \A k \in i .. m - 1 : k \in 1 .. L BY <1>1, <1>i, <3>1
          <5> QED BY <1>1, <5>1 DEF L
        <4>2. m - 1 \in Int /\ i \in Int BY <1>1, <1>i, <3>1
        <4>3. u \in Seq(Letters) BY <4>1, <4>2, SubSeqProperties
        <4>4. SubSeq(s, i, m - 1) \o SubSeq(s, (m - 1) + 1, m) = SubSeq(s, i, m)
          <5>1. i \in 1 .. Len(s) + 1 /\ m - 1 \in i - 1 .. Len(s) /\ m \in m - 1 .. Len(s)
            BY <1>1, <1>i, <3>1 DEF L
          <5> QED BY <1>1, <5>1, ConcatAdjacentSubSeq
        <4>5. SubSeq(s, (m - 1) + 1, m) = c
          <5>1. (m - 1) + 1 = m /\ m \in Int BY <1>1, <3>1
          <5>2. SubSeq(s, m, m) = <<s[m]>> BY <3>6, <5>1, OneChar
          <5> QED BY <5>1, <5>2
        <4> QED BY <4>3, <4>4, <4>5
      <3> DEFINE b == g[i - 1]
      <3>9. (b \o u) \o c = b \o (u \o c)
        <4>1. b \in Seq(Letters) BY <2>4
        <4>2. u \in Seq(Letters) BY <3>8
        <4> HIDE DEF b, u, c
        <4> QED BY <3>7, <4>1, <4>2, LettersJoin
      <3>10. g[m] = (b \o u) \o c BY <3>5
      <3> HIDE DEF u, c, b
      <3>11. g[m] = b \o SubSeq(s, i, m) BY <3>8, <3>9, <3>10
      <3> QED BY <2>3, <3>11 DEF b
    <2> QED BY <2>5, <2>6
  <1>4. L \in 0 .. L /\ L >= i - 1 BY <1>1, <1>i
  <1>5. g[L] = g[i - 1] \o SubSeq(s, i, L) BY <1>3, <1>4
  <1> QED BY <1>5 DEF L

\* WriteArgs writes the pieces in their order.
LEMMA WriteArgsIs ==
    ASSUME NEW s, NEW args, IsMessage(s, args), NEW h, UpToEach(s, args, h)
    PROVE  WriteArgs(s, args) = h[Len(s)]
  <1> DEFINE P == Placeholders(s)
             L == Len(s)
             after[i \in 0 .. Len(s)] ==
                 IF i = 0 THEN [str |-> 1, gone |-> 0, text |-> <<>>]
                 ELSE WriteTurn(s, args, after[i - 1])
             a == [str |-> 1, gone |-> 0, text |-> <<>>]
             Q(f) == f = [i \in 0 .. L |-> IF i = 0 THEN a ELSE WriteTurn(s, args, f[i - 1])]
             D == {t \in [str : 1 .. L + 1, gone : Nat, text : Seq(Letters)] :
                      t.str - 1 \notin P /\ t.gone = Places(s, t.str - 1) /\ t.text = h[t.str - 1]}
             S == [x \in D |-> [i \in 1 .. L |-> WriteTurn(s, args, x)]]
  <1>1. L \in Nat /\ s \in Seq(STRING) BY LenProperties DEF IsMessage
  <1>2. WriteArgs(s, args) = after[L].text BY DEF WriteArgs
  <1>3. after = CHOOSE f : Q(f) OBVIOUS
  <1>4. PlacesFacts(s) BY <1>1, PlacesAre
  <1>5. \A i \in 1 .. L : /\ Char(s, i) = "{" /\ Char(s, i + 1) = "}" <=> i \in P
                          /\ ~(Char(s, i) = "{" /\ Char(s, i + 1) = "{")
    BY CharsAre, Zenon DEF IsMessage
  <1>h. h \in [0 .. L -> Seq(Letters)] /\ h[0] = <<>> /\ \A i \in 1 .. L : h[i] = h[i - 1] \o Piece(s, args, i)
    BY DEF UpToEach
  <1>n. Len(args) \in Nat /\ Len(args) = Cardinality(P) /\ Len(args) = Places(s, L)
    BY <1>4, CountArgsIs DEF IsMessage, PlacesFacts
  <1> HIDE DEF after, P
  <1>d. ASSUME NEW i \in 1 .. L + 1, NEW k \in Nat, NEW x, i - 1 \notin P, k = Places(s, i - 1), x = h[i - 1]
        PROVE  [str |-> i, gone |-> k, text |-> x] \in D
    <2>1. i - 1 \in 0 .. L BY <1>1
    <2>2. x \in Seq(Letters) BY <1>h, <1>d, <2>1
    <2> HIDE DEF L
    <2> QED BY <1>d, <2>2
  <1>6. a \in D
    <2>1. 1 \in 1 .. L + 1 /\ 1 - 1 = 0 /\ 0 \in Nat BY <1>1
    <2>2. 0 \notin P /\ Places(s, 0) = 0 BY <1>4 DEF PlacesFacts, P
    <2> HIDE DEF L, D
    <2> QED BY <1>d, <1>h, <2>1, <2>2
  <1>7. ASSUME NEW t \in D, t.str <= L
        PROVE  LET u == WriteTurn(s, args, t) IN u \in D /\ (u.str > t.str \/ u.str = L + 1)
    <2> DEFINE i == t.str
               k == t.gone
    <2>1. /\ i \in 1 .. L + 1 /\ k \in Nat /\ i - 1 \notin P /\ k = Places(s, i - 1) /\ t.text = h[i - 1]
      BY DEF D
    <2>2. i \in 1 .. L /\ i - 1 \in 0 .. L /\ i <= L /\ ~(i > L) BY <1>1, <1>7, <2>1
    <2>3. k <= Len(args) BY <1>4, <1>n, <2>1, <2>2 DEF PlacesFacts, P
    <2>4. ~(Char(s, i) = "{" /\ Char(s, i + 1) = "{") BY <1>5, <2>2, Zenon
    <2>5. CASE k = Len(args)
      <3>1. WriteTurn(s, args, t) = [str |-> L + 1, gone |-> k, text |-> t.text \o SubSeq(s, i, L)]
        <4>1. ~(k < Len(args)) BY <1>n, <2>5
        <4> QED BY <2>2, <2>5, <4>1, Zenon DEF WriteTurn
      <3>2. \A j \in i .. L : j \notin P BY <1>4, <1>n, <2>1, <2>2, <2>5 DEF PlacesFacts, P
      <3>3. \A j \in i - 1 .. L : j \notin P
        <4>1. \A j \in i - 1 .. L : j = i - 1 \/ j \in i .. L BY <1>1, <2>2
        <4> QED BY <2>1, <3>2, <4>1
      <3>4. h[L] = h[i - 1] \o SubSeq(s, i, L)
        <4> HIDE DEF i
        <4> QED BY <2>2, <3>3, CopiedIs DEF P
      <3>5. L + 1 \in 1 .. L + 1 /\ (L + 1) - 1 = L BY <1>1
      <3>6. L \notin P /\ k = Places(s, L) BY <1>4, <1>n, <2>5 DEF PlacesFacts, P
      <3>7. t.text \o SubSeq(s, i, L) = h[L] BY <2>1, <3>4
      <3> HIDE DEF i, k, L, D
      <3>8. [str |-> L + 1, gone |-> k, text |-> t.text \o SubSeq(s, i, L)] \in D
        BY <1>d, <2>1, <3>5, <3>6, <3>7
      <3> QED BY <3>1, <3>8
    <2>6. CASE k < Len(args) /\ i \in P
      <3>1. Char(s, i) = "{" /\ Char(s, i + 1) = "}" BY <1>5, <2>2, <2>6, Zenon
      <3>2. WriteTurn(s, args, t) = [str |-> i + 2, gone |-> k + 1, text |-> t.text \o WriteValue(args[k + 1])]
        <4>1. k # Len(args) BY <1>n, <2>1, <2>6
        <4> QED BY <2>2, <2>4, <2>6, <3>1, <4>1, Zenon DEF WriteTurn
      <3>3. Places(s, i) = k + 1 /\ i + 1 \in 1 .. L /\ i + 1 \notin P
        BY <1>4, <2>1, <2>2, <2>6 DEF PlacesFacts, P
      <3>4. Places(s, i + 1) = Places(s, (i + 1) - 1) BY <1>4, <3>3 DEF PlacesFacts, P
      <3>5. (i + 1) - 1 = i /\ (i + 2) - 1 = i + 1 /\ i + 2 \in 1 .. L + 1 /\ i + 2 > i /\ k + 1 \in Nat
        BY <1>1, <2>1, <2>2, <3>3
      <3>6. Piece(s, args, i) = WriteValue(args[k + 1]) BY <2>6, <3>3 DEF Piece, P
      <3>7. Piece(s, args, i + 1) = <<>> BY <2>6, <3>3, <3>5 DEF Piece, P
      <3>8. h[i] = h[i - 1] \o WriteValue(args[k + 1]) BY <1>h, <2>2, <3>6
      <3>9. h[i + 1] = h[i]
        <4>1. h[i + 1] = h[(i + 1) - 1] \o <<>> BY <1>h, <3>3, <3>7
        <4>2. i \in 0 .. L BY <1>1, <2>2
        <4>3. h[i] \in Seq(Letters) BY <1>h, <4>2
        <4>4. h[i] \o <<>> = h[i] BY <4>3, ConcatEmptySeq
        <4> QED BY <3>5, <4>1, <4>4
      <3>10. t.text \o WriteValue(args[k + 1]) = h[(i + 2) - 1] BY <2>1, <3>5, <3>8, <3>9
      <3>11. k + 1 = Places(s, (i + 2) - 1) /\ (i + 2) - 1 \notin P BY <3>3, <3>4, <3>5
      <3> HIDE DEF i, k, L, D
      <3>12. [str |-> i + 2, gone |-> k + 1, text |-> t.text \o WriteValue(args[k + 1])] \in D
        BY <1>d, <3>5, <3>10, <3>11
      <3> QED BY <3>2, <3>5, <3>12 DEF i
    <2>7. CASE k < Len(args) /\ i \notin P
      <3>1. ~(Char(s, i) = "{" /\ Char(s, i + 1) = "}") BY <1>5, <2>2, <2>7, Zenon
      <3>2. WriteTurn(s, args, t) = [str |-> i + 1, gone |-> k, text |-> t.text \o <<s[i]>>]
        <4>1. k # Len(args) BY <1>n, <2>1, <2>7
        <4> QED BY <2>2, <2>4, <3>1, <4>1, Zenon DEF WriteTurn
      <3>3. Places(s, i) = k BY <1>4, <2>1, <2>2, <2>7 DEF PlacesFacts, P
      <3>4. (i + 1) - 1 = i /\ i + 1 \in 1 .. L + 1 /\ i + 1 > i BY <1>1, <2>2
      <3>5. Piece(s, args, i) = <<s[i]>> BY <2>1, <2>7 DEF Piece, P
      <3>6. h[i] = h[i - 1] \o <<s[i]>> BY <1>h, <2>2, <3>5
      <3>7. t.text \o <<s[i]>> = h[(i + 1) - 1] /\ k = Places(s, (i + 1) - 1) /\ (i + 1) - 1 \notin P
        BY <2>1, <2>7, <3>3, <3>4, <3>6
      <3> HIDE DEF i, k, L, D
      <3>8. [str |-> i + 1, gone |-> k, text |-> t.text \o <<s[i]>>] \in D BY <1>d, <2>1, <3>4, <3>7
      <3> QED BY <3>2, <3>4, <3>8 DEF i
    <2>8. k = Len(args) \/ k < Len(args) BY <1>n, <2>1, <2>3
    <2> QED BY <2>5, <2>6, <2>7, <2>8
  <1>8. ASSUME NEW t \in D, ~(t.str <= L)
        PROVE  LET u == WriteTurn(s, args, t) IN u \in D /\ u.str = L + 1
    <2>1. t.str \in 1 .. L + 1 BY DEF D
    <2>2. t.str > L /\ t.str = L + 1 BY <1>1, <1>8, <2>1
    <2>3. WriteTurn(s, args, t) = t BY <1>8, <2>2, Zenon DEF WriteTurn
    <2> HIDE DEF D, L
    <2> QED BY <2>2, <2>3
  <1>9. S \in Steps(D, L) /\ \A x \in D : \A i \in 1 .. L : S[x][i] = WriteTurn(s, args, x)
    <2>1. \A x \in D : WriteTurn(s, args, x) \in D BY <1>7, <1>8
    <2> HIDE DEF D, L
    <2> QED BY <2>1 DEF Steps
  <1>t. \A t \in D : t.str \in 1 .. L + 1 /\ t.text = h[t.str - 1] BY DEF D
  <1> HIDE DEF S, D, a, L
  <1>10. PICK g : Computes(g, D, a, L, Before(L), S) BY <1>1, <1>6, <1>9, BeforeIsEarlier, RecursionExists
  <1>11. g \in [0 .. L -> D] /\ g[0] = a /\ \A i \in 1 .. L : g[i - 1] \in D /\ g[i] = WriteTurn(s, args, g[i - 1])
    <2>1. g \in [0 .. L -> D] /\ g[0] = a /\ \A i \in 1 .. L : g[i] = S[g[i - 1]][i]
      BY <1>1, <1>10, BeforeIsEarlier DEF Computes
    <2>2. \A i \in 1 .. L : g[i - 1] \in D
      <3>1. \A i \in 1 .. L : i - 1 \in 0 .. L BY <1>1
      <3> QED BY <2>1, <3>1
    <2> QED BY <1>9, <2>1, <2>2
  <1>12. Q(g)
    <2>1. \A i \in 0 .. L : i # 0 => i \in 1 .. L BY <1>1
    <2> QED BY <1>11, <2>1
  <1> HIDE DEF Q
  <1>13. Q(after) BY <1>3, <1>12
  <1> USE DEF Q
  <1>14. /\ after = [i \in 0 .. L |-> after[i]]
         /\ \A i \in 0 .. L : after[i] = IF i = 0 THEN a ELSE WriteTurn(s, args, after[i - 1])
    BY <1>13
  <1> HIDE DEF Q
  <1>15. Computes(after, D, a, L, Before(L), S)
    <2>1. after[0] = a
      <3>1. 0 \in 0 .. L BY <1>1
      <3> QED BY <1>14, <3>1
    <2>2. ASSUME NEW i \in 1 .. L, after[Before(L)[i]] \in D PROVE after[i] = S[after[Before(L)[i]]][i]
      <3>1. Before(L)[i] = i - 1 /\ i \in 0 .. L /\ i # 0 BY <1>1, BeforeIsEarlier
      <3>2. after[i] = WriteTurn(s, args, after[i - 1]) BY <1>14, <3>1
      <3> QED BY <1>9, <2>2, <3>1, <3>2
    <2> QED BY <1>1, <1>6, <1>9, <1>14, <2>1, <2>2, BeforeIsEarlier, RecursionTyped
  <1>16. after \in [0 .. L -> D] /\ \A i \in 1 .. L : after[i - 1] \in D /\ after[i] = WriteTurn(s, args, after[i - 1])
    <2>1. after \in [0 .. L -> D] BY <1>15 DEF Computes
    <2>2. \A i \in 1 .. L : i - 1 \in 0 .. L /\ i \in 0 .. L /\ i # 0 BY <1>1
    <2> QED BY <1>14, <2>1, <2>2
  <1> DEFINE q == [i \in 0 .. L |-> after[i].str]
  <1>17. q \in [0 .. L -> 1 .. L + 1] /\ \A i \in 0 .. L : q[i] = after[i].str BY <1>t, <1>16
  <1>18. \A i \in 1 .. L : q[i] > q[i - 1] \/ q[i] = L + 1
    <2> TAKE i \in 1 .. L
    <2>1. i \in 0 .. L /\ i - 1 \in 0 .. L BY <1>1
    <2>2. after[i].str > after[i - 1].str \/ after[i].str = L + 1 BY <1>7, <1>8, <1>16
    <2> QED BY <1>17, <2>1, <2>2
  <1> HIDE DEF q
  <1>19. q[L] = L + 1 BY <1>1, <1>17, <1>18, Advances
  <1>20. L \in 0 .. L /\ (L + 1) - 1 = L BY <1>1
  <1>21. after[L].text = h[L] BY <1>t, <1>16, <1>17, <1>19, <1>20
  <1> QED BY <1>2, <1>21 DEF L

\* The message is the format with the values in it.
LEMMA MessageIs ==
    ASSUME NEW s, NEW args, IsMessage(s, args)
    PROVE  MessageSays(s, args, WriteArgs(s, args))
  <1>1. PICK h : UpToEach(s, args, h) BY UpToExists
  <1> DEFINE n == Len(s)
             sq == [i \in DOMAIN s |-> Piece(s, args, i)]
  <1>2. n \in Nat /\ DOMAIN s = 1 .. n BY LenProperties DEF IsMessage
  <1>3. \A i \in 1 .. n : Piece(s, args, i) \in Seq(Letters) BY PieceIs
  <1>4. sq \in [1 .. n -> Seq(Letters)] /\ \A i \in 1 .. n : sq[i] = Piece(s, args, i) BY <1>2, <1>3
  <1>5. /\ h \in [0 .. n -> Seq(Letters)] /\ h[0] = <<>>
        /\ \A i \in 1 .. n : h[i] = h[i - 1] \o Piece(s, args, i)
    BY <1>1 DEF UpToEach
  <1>6. WriteArgs(s, args) = h[n] BY <1>1, WriteArgsIs
  <1> HIDE DEF sq, n
  <1>7. \A i \in 1 .. n : h[i] = h[i - 1] \o sq[i] BY <1>4, <1>5
  <1>8. Flattens(h, sq, n, Letters) BY <1>4, <1>5, <1>7 DEF Flattens
  <1>11. FlattenSeq(sq) = h[n] BY <1>2, <1>8, FlattenIs
  <1>9. \A k \in DOMAIN args : Says(WriteValue(args[k]), args[k]) BY WriteValueIs DEF IsMessage
  <1>10. sq = [i \in DOMAIN s |->
                CASE i \in Placeholders(s) -> WriteValue(args[Cardinality({j \in Placeholders(s) : j <= i})])
                  [] i \notin Placeholders(s) /\ i - 1 \in Placeholders(s) -> <<>>
                  [] OTHER -> <<s[i]>>]
    BY DEF sq, Piece, Places, PlacesTo
  <1> QED BY <1>6, <1>11, <1>9, <1>10 DEF MessageSays

\* What LogInfo was given, and the text that it wrote.
LogResult(g, m) == g \in Messages /\ m[2] = WriteArgs(g.format, g.args)
LogInv == call = 15 /\ made # <<>> => LogResult(given, made)

LEMMA LogInvNext == StartInv /\ LogInv /\ [StartNext]_startVars => LogInv'
  <1> SUFFICES ASSUME StartInv, LogInv, [StartNext]_startVars PROVE LogInv'
    OBVIOUS
  <1>1. CASE Kept({5, 7, 8, 9, 12, 15}) \/ call' # 15
    BY <1>1 DEF Kept, LogInv
  <1>2. CASE call' = 15 /\ LogInfo
    <2>1. CASE made' = <<>>
      BY <2>1 DEF LogInv
    <2>2. CASE made' # <<>>
      <3>1. made = <<>> BY <1>2 DEF LogInfo, Calling
      <3>2. PICK w \in Written : Leave(w.message, Done(w.text))
        BY <1>2, <2>2, <3>1 DEF LogInfo, GoOn
      <3>3. PICK m \in Messages : w = [message |-> m, text |-> WriteArgs(m.format, m.args)]
        BY <3>2 DEF Written
      <3>4. w.message = m /\ w.text = WriteArgs(m.format, m.args) BY <3>3
      <3>5. given' = m /\ made' = Done(WriteArgs(m.format, m.args)) BY <3>2, <3>4 DEF Leave
      <3> QED BY <3>5, Marks DEF LogInv, LogResult
    <2> QED BY <2>1, <2>2
  <1> QED BY <1>1, <1>2, ByCall

\* For every message that the compiler accepts, with any number of values:
\* what is logged is the format with the values in the order of their
\* placeholders, each written as a numeral that reads as that value.
THEOREM FormatExactHolds == StartSpec => []FormatExact
  <1>1. StartInit => LogInv
    BY DEF StartInit, LogInv
  <1>2. StartInv /\ LogInv => FormatExact
    <2> SUFFICES ASSUME StartInv, LogInv, Finished("log"), ~Escapes(given.format)
                 PROVE  MessageSays(given.format, given.args, made[2])
      BY DEF FormatExact
    <2> DEFINE s == given.format
               args == given.args
    <2>1. call = 15 /\ made # <<>> BY CallNumbers DEF StartInv, StartTypeOK, Finished
    <2>2. given \in Messages /\ made[2] = WriteArgs(s, args) BY <2>1 DEF LogInv, LogResult
    <2>3. /\ s \in Seq(STRING) /\ CountArgs(s) = Len(args)
          /\ DOMAIN args = 1 .. Len(args) /\ \A k \in DOMAIN args : IsValue(args[k])
      BY <2>2, MessagesAssumption
    <2>4. ~Escapes(s) OBVIOUS
    <2> HIDE DEF s, args
    <2>5. Cardinality(Placeholders(s)) \in Nat BY <2>3, PlacesAre DEF PlacesFacts
    <2>6. CountArgs(s) = Cardinality(Placeholders(s)) BY <2>3, <2>4, CountArgsIs
    <2>7. IsMessage(s, args) BY <2>3, <2>4, <2>5, <2>6 DEF IsMessage
    <2>8. MessageSays(s, args, WriteArgs(s, args)) BY <2>7, MessageIs
    <2> QED BY <2>2, <2>8 DEF s, args
  <1> QED
    BY <1>1, <1>2, StartInvInit, StartInvNext, LogInvNext, PTL DEF StartSpec

(***************************************************************************)
(* PhysicalMemoryManager::Initialize (PMMInit).  The invariant follows the *)
(* phases: what the scan has collected, that the bitmaps are large enough, *)
(* what the regions hold once the bitmaps have their pages, how far the    *)
(* reserved bitmap is filled, and that each answer of the self-test is the *)
(* first free run.                                                         *)
(***************************************************************************)
\* Division by n rounds down,
LEMMA Quotient ==
    ASSUME NEW x \in Nat, NEW n \in Nat \ {0}
    PROVE  /\ x \div n \in Nat
           /\ n * (x \div n) <= x /\ x < n * (x \div n) + n
  OBVIOUS

\* to the one number that is near enough;
LEMMA QuotientIs ==
    ASSUME NEW x \in Nat, NEW n \in Nat \ {0}, NEW q \in Nat, n * q <= x, x < n * q + n
    PROVE  x \div n = q
  OBVIOUS

\* it is monotonic,
LEMMA QuotientGrows ==
    ASSUME NEW x \in Nat, NEW y \in Nat, NEW n \in Nat \ {0}, x <= y
    PROVE  x \div n <= y \div n
  OBVIOUS

\* and whole multiples of n pass through it.
LEMMA QuotientPlus ==
    ASSUME NEW x \in Nat, NEW c \in Nat, NEW n \in Nat \ {0}
    PROVE  (x + c * n) \div n = x \div n + c
  OBVIOUS

\* How many pages it takes to reach x.
PagesUp(x) == (x + PageSize - 1) \div PageSize

\* Utility::AlignUp and AlignDown in pages: both are monotonic, and adding c
\* whole pages to an address adds c to either page number.
LEMMA PagesUpFacts ==
    ASSUME NEW x \in Nat, NEW y \in Nat, NEW c \in Nat
    PROVE  /\ PagesUp(x) \in Nat /\ AlignUp(x, PageSize) = PagesUp(x) * PageSize
           /\ AlignUp(x, PageSize) \div PageSize = PagesUp(x)
           /\ x <= AlignUp(x, PageSize)
           /\ x \div PageSize \in Nat /\ x \div PageSize <= PagesUp(x) /\ x \div PageSize <= x
           /\ AlignDown(x, PageSize) = (x \div PageSize) * PageSize
           /\ AlignDown(x, PageSize) \div PageSize = x \div PageSize
           /\ x <= y => PagesUp(x) <= PagesUp(y) /\ x \div PageSize <= y \div PageSize
           /\ PagesUp(x + c * PageSize) = PagesUp(x) + c
           /\ (c * PageSize) \div PageSize = c
           /\ PagesUp(x) <= x
<1> DEFINE n == PageSize
           q == (x + n - 1) \div n
<1>1. n \in Nat \ {0} BY UnitsAssumption
<1>2. PagesUp(x) = q BY DEF PagesUp
<1>3. x + n - 1 \in Nat /\ y + n - 1 \in Nat BY <1>1
<1>4. q \in Nat /\ n * q <= x + n - 1 /\ x + n - 1 < n * q + n BY <1>1, <1>3, Quotient
<1>5. (q * n) \div n = q BY <1>1, <1>4, QuotientIs
<1>6. AlignUp(x, n) = q * n /\ AlignDown(x, n) = (x \div n) * n BY DEF AlignUp, AlignDown
<1>7. x <= q * n BY <1>1, <1>4
<1>8. x \div n \in Nat /\ n * (x \div n) <= x /\ x < n * (x \div n) + n BY <1>1, Quotient
<1>9. ((x \div n) * n) \div n = x \div n BY <1>1, <1>8, QuotientIs
<1>10. x \div n <= q BY <1>1, <1>3, QuotientGrows
<1>11. x \div n <= x BY <1>1, <1>8
<1>12. x <= y => q <= (y + n - 1) \div n /\ x \div n <= y \div n
    BY <1>1, <1>3, QuotientGrows
<1>13. (x + c * n + n - 1) \div n = q + c
  <2>1. x + c * n + n - 1 = (x + n - 1) + c * n BY <1>1
  <2>2. ((x + n - 1) + c * n) \div n = q + c BY <1>1, <1>3, QuotientPlus
  <2> HIDE DEF q
  <2> QED BY <2>1, <2>2
<1>14. (c * n) \div n = c BY <1>1, QuotientIs
<1>15. q <= x
  <2>1. CASE x = 0 
    <3>1. (n - 1) \div n = 0 BY <1>1, QuotientIs
    <3> QED BY <2>1, <3>1, <1>1
  <2>2. CASE x > 0
    <3>1. x + n - 1 < n * (x + 1)
      <4>1. n * (x + 1) = n * x + n BY <1>1
      <4>2. n * x >= x BY <1>1
      <4> QED BY <4>1, <4>2, <1>1
    <3>2. n * q < n * (x + 1) BY <3>1, <1>4, <1>1
    <3> QED BY <3>2, <1>1, <1>4
  <2> QED BY <2>1, <2>2
<1>16. PagesUp(y) = (y + n - 1) \div n /\ PagesUp(x + c * n) = (x + c * n + n - 1) \div n
    BY DEF PagesUp
<1> QED BY <1>2, <1>4, <1>5, <1>6, <1>7, <1>8, <1>9, <1>10, <1>11, <1>12, <1>13, <1>14, <1>15, <1>16

\* Entries of validRegions and of the memory map.
RegionType == [addr : Nat, length : Nat]
EntryType == [base : Nat, length : Nat, usable : BOOLEAN]

\* Initialize has found memory for its bitmaps.
Placed == phase \notin {"scan_memmap", "place_bitmaps", "panic"}

\* What the scan has found so far, in the order of the memory map.
ScanInv ==
    /\ phase = "place_bitmaps" => memmap # NoResponse
    /\ phase \in {"scan_memmap", "place_bitmaps"} /\ memmap # NoResponse =>
        /\ memmap \in MemoryMaps /\ entry \in 0 .. Len(memmap) /\ endAddr \in Nat
        /\ phase = "place_bitmaps" => entry = Len(memmap)
        /\ regions \in Seq(RegionType)
        /\ \A k \in 1 .. Len(regions) :
             /\ EndOf(regions[k]) <= endAddr
             /\ \E i \in 1 .. entry : Valid(memmap[i]) /\ regions[k] = Region(memmap[i])
             /\ \A l \in 1 .. k - 1 : EndOf(regions[l]) <= regions[k].addr
        /\ \A i \in 1 .. entry :
             Valid(memmap[i]) => \E k \in 1 .. Len(regions) : regions[k] = Region(memmap[i])

\* Both bitmaps are whole pages, and have a bit for every page.
SizeInv ==
    /\ bitmapSize \in Nat /\ bitmapMemory \in Nat
    /\ phase = "place_bitmaps" => /\ endAddr \div PageSize <= frameCount
                                  /\ \E c \in Nat : bitmapSize = c * PageSize
    /\ phase \in {"scan_memmap", "place_bitmaps"} => bitmapMemory = 0
    /\ phase = "scan_memmap" => bitmapSize = 0

\* The pages of the regions, once the bitmaps have got theirs.
Usable == UNION {PagesOf(regions[i]) : i \in DOMAIN regions}
PlaceInv ==
    Placed => /\ Usable \subseteq Frames /\ Usable \cap BitmapPages = {}
              /\ Usable \ LowPages = OfferedPages \ (LowPages \cup BitmapPages)
              /\ LoopPages \subseteq BitmapPages

\* How far the reserved bitmap is filled, phase by phase.
BitmapsInv ==
    /\ phase = "clear_usable" => reserved = Frames
    /\ phase = "reserve_low" => Frames \ reserved = Usable
    /\ phase = "reserve_bitmaps" => Frames \ reserved = Usable \ LowPages /\ 0 \in reserved
    /\ phase = "count" \/ Counted => /\ Frames \ reserved = Usable \ (LowPages \cup LoopPages)
                                     /\ 0 \in reserved

\* The self-test.  The pages of the first n answers in a, and the answer to
\* a request for k pages when the pages in free are free.
TakenBy(a, n) == UNION {Run(a[i] \div PageSize, TestSizes[i]) : i \in {j \in 1 .. n : a[j] # 0}}
Answers(x, k, free) ==
    \/ x = 0 /\ \A s \in Nat : ~(Run(s, k) \subseteq free)
    \/ \E s \in Nat : /\ x = s * PageSize /\ x # 0 /\ Run(s, k) \subseteq free
                      /\ \A t \in 0 .. s - 1 : ~(Run(t, k) \subseteq free)
TestInv ==
    /\ round \in {1, 2} /\ DOMAIN got = {1, 2}
    /\ \A r \in {1, 2} : got[r] \in Seq(Nat) /\ Len(got[r]) <= Len(TestSizes)
    /\ round = 1 => got[2] = <<>>
    /\ round = 2 => Len(got[1]) = Len(TestSizes) /\ \A j \in 1 .. Len(TestSizes) : got[1][j] # 0
    /\ ~Counted /\ phase # "panic" => got[1] = <<>> /\ got[2] = <<>>
    /\ phase = "test_alloc" => Len(got[round]) < Len(TestSizes)
    /\ phase \in {"test_free", "done"} => Len(got[round]) = Len(TestSizes)
    /\ phase \in {"test_alloc", "test_free"} => allocatable = TakenBy(got[round], Len(got[round]))
    /\ phase = "done" => allocatable = {} /\ round = 2
    /\ Counted => \A r \in {1, 2} : \A j \in 1 .. Len(got[r]) :
                     Answers(got[r][j], TestSizes[j], (Frames \ reserved) \ TakenBy(got[r], j - 1))

\* Once the bitmaps have a place, only a failed allocation panics; and the
\* counter says how many frames are free.
PanicInv == phase = "panic" /\ bitmapMemory # 0 => \E i \in DOMAIN TestSizes : got[round][i] = 0
CountInv == Counted => usableFrames = Cardinality(Frames \ (reserved \cup allocatable))
PMMInv == ScanInv /\ SizeInv /\ PlaceInv /\ BitmapsInv /\ TestInv /\ PanicInv /\ CountInv

\* A region's pages, by page number.
LEMMA PagesOfIs ==
    ASSUME NEW r \in RegionType
    PROVE  /\ EndOf(r) \in Nat
           /\ PagesOf(r) = PagesUp(r.addr) .. (EndOf(r) \div PageSize) - 1
<1>1. EndOf(r) \in Nat /\ r.addr \in Nat BY DEF EndOf, RegionType
<1>2. AlignUp(r.addr, PageSize) \div PageSize = PagesUp(r.addr) BY <1>1, PagesUpFacts
<1>3. AlignDown(EndOf(r), PageSize) \div PageSize = EndOf(r) \div PageSize BY <1>1, PagesUpFacts
<1> QED BY <1>1, <1>2, <1>3 DEF PagesOf

\* A region is a usable entry; what an entry that was skipped offers is low.
LEMMA SkippedIsLow ==
    ASSUME NEW e \in EntryType, e.usable, ~Valid(e)
    PROVE  PagesOf(Region(e)) \subseteq LowPages
<1>1. Region(e) \in RegionType /\ EndOf(Region(e)) = e.base + e.length
    BY DEF Region, EndOf, RegionType, EntryType
<1>2. MiB \in Nat /\ EndOf(Region(e)) \in Nat /\ EndOf(Region(e)) <= MiB BY <1>1, UnitsAssumption DEF Valid, EntryType
<1>3. EndOf(Region(e)) \div PageSize <= MiB \div PageSize BY <1>2, PagesUpFacts
<1>4. PagesUp(Region(e).addr) \in Nat BY <1>1, PagesUpFacts DEF RegionType
<1>5. MiB \div PageSize \in Nat /\ EndOf(Region(e)) \div PageSize \in Nat BY <1>2, PagesUpFacts
<1> QED BY <1>1, <1>3, <1>4, <1>5, PagesOfIs DEF LowPages

\* The regions offer what the memory map offers, above the first MiB.
LEMMA Scanned ==
    ASSUME ScanInv, phase = "place_bitmaps", memmap # NoResponse
    PROVE  /\ Usable \subseteq OfferedPages
           /\ OfferedPages \subseteq Usable \cup LowPages
           /\ \A k \in 1 .. Len(regions) : \A p \in PagesOf(regions[k]) :
                p \in Nat /\ p < endAddr \div PageSize
           /\ \A k, l \in 1 .. Len(regions) :
                k # l => PagesOf(regions[k]) \cap PagesOf(regions[l]) = {}
<1>1. /\ memmap \in Seq(EntryType)
      /\ DOMAIN memmap = 1 .. Len(memmap) /\ entry = Len(memmap)
      /\ regions \in Seq(RegionType) /\ DOMAIN regions = 1 .. Len(regions)
      /\ endAddr \in Nat
    BY MemoryMapsAssumption DEF ScanInv, EntryType
<1>2. \A k \in 1 .. Len(regions) :
        /\ regions[k] \in RegionType /\ regions[k].addr \in Nat /\ EndOf(regions[k]) <= endAddr
        /\ \E i \in 1 .. Len(memmap) : Valid(memmap[i]) /\ regions[k] = Region(memmap[i])
        /\ \A l \in 1 .. k - 1 : EndOf(regions[l]) <= regions[k].addr
  <2>1. regions \in Seq(RegionType) BY <1>1
  <2>2. \A k \in 1 .. Len(regions) : regions[k] \in RegionType BY <2>1
  <2>4. \A k \in 1 .. Len(regions) : regions[k].addr \in Nat BY <2>2 DEF RegionType
  <2>3. entry = Len(memmap) BY <1>1
  <2> QED BY <2>2, <2>3, <2>4 DEF ScanInv
<1>3. \A i \in 1 .. Len(memmap) : Valid(memmap[i]) =>
          \E k \in 1 .. Len(regions) : regions[k] = Region(memmap[i])
    BY <1>1 DEF ScanInv
<1>4. Usable \subseteq OfferedPages
  <2> SUFFICES ASSUME NEW k \in 1 .. Len(regions), NEW p \in PagesOf(regions[k])
               PROVE  p \in OfferedPages
      BY <1>1 DEF Usable
  <2>1. PICK i \in 1 .. Len(memmap) : Valid(memmap[i]) /\ regions[k] = Region(memmap[i]) BY <1>2
  <2> QED BY <1>1, <2>1 DEF OfferedPages, Valid
<1>5. OfferedPages \subseteq Usable \cup LowPages
  <2> SUFFICES ASSUME NEW i \in 1 .. Len(memmap), memmap[i].usable,
                      NEW p \in PagesOf(Region(memmap[i]))
               PROVE  p \in Usable \cup LowPages
      BY <1>1 DEF OfferedPages
  <2>1. CASE Valid(memmap[i])
    <3>1. PICK k \in 1 .. Len(regions) : regions[k] = Region(memmap[i]) BY <1>3, <2>1
    <3> QED BY <1>1, <3>1 DEF Usable
  <2>2. CASE ~Valid(memmap[i])
    <3>1. memmap[i] \in EntryType BY <1>1
    <3> QED BY <2>2, <3>1, SkippedIsLow
  <2> QED BY <2>1, <2>2
<1>6. ASSUME NEW k \in 1 .. Len(regions), NEW p \in PagesOf(regions[k])
      PROVE  /\ p \in Nat /\ p < endAddr \div PageSize
             /\ PagesUp(regions[k].addr) <= p /\ p < EndOf(regions[k]) \div PageSize
  <2>1. regions[k] \in RegionType /\ regions[k].addr \in Nat
        /\ EndOf(regions[k]) <= endAddr BY <1>2
  <2>2. EndOf(regions[k]) \in Nat BY <2>1, PagesOfIs
  <2>3. EndOf(regions[k]) \div PageSize <= endAddr \div PageSize
        /\ EndOf(regions[k]) \div PageSize \in Nat /\ endAddr \div PageSize \in Nat
      BY <1>1, <2>1, <2>2, PagesUpFacts
  <2>4. PagesUp(regions[k].addr) \in Nat BY <2>1, PagesUpFacts
  <2>5. p \in PagesUp(regions[k].addr) .. (EndOf(regions[k]) \div PageSize) - 1 BY <2>1, PagesOfIs
  <2> QED BY <2>3, <2>4, <2>5
<1>7. ASSUME NEW k \in 1 .. Len(regions), NEW l \in 1 .. k - 1
      PROVE  PagesOf(regions[k]) \cap PagesOf(regions[l]) = {}
  <2>1. l \in 1 .. Len(regions) /\ EndOf(regions[l]) <= regions[k].addr BY <1>1, <1>2
  <2>2. regions[k].addr \in Nat /\ EndOf(regions[l]) \in Nat BY <1>2, <2>1, PagesOfIs
  <2>3. EndOf(regions[l]) \div PageSize <= PagesUp(regions[k].addr)
    <3>1. EndOf(regions[l]) \div PageSize <= regions[k].addr \div PageSize
          /\ regions[k].addr \div PageSize <= PagesUp(regions[k].addr)
          /\ EndOf(regions[l]) \div PageSize \in Nat /\ regions[k].addr \div PageSize \in Nat
          /\ PagesUp(regions[k].addr) \in Nat
        BY <2>1, <2>2, PagesUpFacts
    <3> QED BY <3>1
  <2>4. SUFFICES ASSUME NEW p \in PagesOf(regions[k]), p \in PagesOf(regions[l]) PROVE FALSE
      OBVIOUS
  <2>5. EndOf(regions[l]) \div PageSize \in Nat /\ PagesUp(regions[k].addr) \in Nat
      BY <2>2, PagesUpFacts
  <2> QED BY <1>6, <2>1, <2>3, <2>4, <2>5
<1>8. ASSUME NEW k \in 1 .. Len(regions), NEW l \in 1 .. Len(regions), k # l
      PROVE  PagesOf(regions[k]) \cap PagesOf(regions[l]) = {}
  <2>1. k \in Int /\ l \in Int /\ (l \in 1 .. k - 1 \/ k \in 1 .. l - 1) BY <1>1, <1>8
  <2> QED BY <1>7, <2>1
<1> QED BY <1>4, <1>5, <1>6, <1>8

\* Multiplication keeps the order.
LEMMA Times ==
    ASSUME NEW x \in Nat, NEW y \in Nat, NEW n \in Nat, x <= y
    PROVE  x * n \in Nat /\ y * n \in Nat /\ x * n <= y * n
  OBVIOUS

\* The bitmaps are large enough.
LEMMA Sized ==
    ASSUME endAddr \in Nat, SizeBitmaps
    PROVE  /\ bitmapSize' \in Nat /\ endAddr \div PageSize <= bitmapSize' * BitsPerByte
           /\ \E c \in Nat : bitmapSize' = c * PageSize
<1> DEFINE f == endAddr \div PageSize
           b == BitsPerByte
           x == (f + b - 1) \div b
<1>1. f \in Nat BY PagesUpFacts
<1>2. b \in Nat \ {0} /\ PageSize \in Nat BY UnitsAssumption
<1>3. f + b - 1 \in Nat BY <1>1, <1>2
<1>4. x \in Nat /\ f + b - 1 < b * x + b BY <1>2, <1>3, Quotient
<1>5. f <= x * b
  <2> HIDE DEF x, f, b
  <2> QED BY <1>1, <1>2, <1>4
<1>6. bitmapSize' = AlignUp(x, PageSize) BY DEF SizeBitmaps
<1> HIDE DEF x
<1>7. PagesUp(x) \in Nat /\ AlignUp(x, PageSize) = PagesUp(x) * PageSize /\ x <= AlignUp(x, PageSize)
    BY <1>4, PagesUpFacts
<1> HIDE DEF f, b
<1>8. bitmapSize' \in Nat /\ x <= bitmapSize' BY <1>2, <1>6, <1>7
<1>9. x * b \in Nat /\ bitmapSize' * b \in Nat /\ x * b <= bitmapSize' * b
    BY <1>2, <1>4, <1>8, Times
<1>10. f <= bitmapSize' * b BY <1>1, <1>5, <1>9
<1> QED BY <1>6, <1>7, <1>8, <1>10 DEF f, b

LEMMA UpIs ==
    ASSUME NEW x \in Nat
    PROVE  /\ PagesUp(x) \in Nat /\ AlignUp(x, PageSize) = PagesUp(x) * PageSize
           /\ x <= PagesUp(x) * PageSize
  BY PagesUpFacts

\* The first pages of a region with room hold the bitmaps.
LEMMA Room ==
    ASSUME NEW r \in RegionType, NEW C \in Nat, required = C * PageSize, HasRoom(r)
    PROVE  /\ C = 0 \/ PagesUp(r.addr) + C <= EndOf(r) \div PageSize
           /\ required <= r.length
<1> DEFINE n == PageSize
           a == PagesUp(r.addr)
           e == EndOf(r) \div PageSize
<1>1. n \in Nat \ {0} BY UnitsAssumption
<1>2. /\ r.addr \in Nat /\ r.length \in Nat /\ EndOf(r) = r.addr + r.length /\ EndOf(r) \in Nat
    BY DEF RegionType, EndOf
<1>3. /\ a \in Nat /\ AlignUp(r.addr, n) = a * n /\ r.addr <= a * n BY <1>2, UpIs
<1>4. /\ e \in Nat /\ AlignDown(EndOf(r), n) = e * n BY <1>2, PagesUpFacts
<1>5. n * e <= EndOf(r)
  <2>1. EndOf(r) \in Nat BY <1>2
  <2> QED BY <1>1, <2>1, Quotient
<1>6. (IF e * n - a * n > 0 THEN e * n - a * n ELSE 0) >= C * n
    BY <1>3, <1>4 DEF HasRoom
<1> HIDE DEF a, e
<1>7. CASE C = 0 BY <1>2, <1>7, <1>1
<1>8. CASE C > 0
  <2>1. C * n > 0 BY <1>1, <1>8
  <2>2. e * n - a * n >= C * n BY <1>1, <1>3, <1>4, <1>6, <2>1
  <2>3. (a + C) * n <= e * n BY <1>1, <1>3, <1>4, <2>2
  <2>4. a + C <= e BY <1>1, <1>3, <1>4, <2>3
  <2>5. r.addr + C * n <= EndOf(r) BY <1>1, <1>2, <1>3, <1>4, <1>5, <2>2
  <2> QED BY <1>2, <2>1, <2>4, <2>5 DEF a, e
<1> QED BY <1>7, <1>8

\* The search for the bitmaps' region finds one if there is one.
LEMMA FirstRoomIs ==
    ASSUME \E i \in DOMAIN regions : HasRoom(regions[i]), regions \in Seq(RegionType)
    PROVE  FirstRoom \in DOMAIN regions /\ HasRoom(regions[FirstRoom])
<1> DEFINE T == {i \in DOMAIN regions : HasRoom(regions[i])}
<1>1. DOMAIN regions = 1 .. Len(regions) /\ Len(regions) \in Nat OBVIOUS
<1>2. T \in SUBSET Nat /\ T # {} BY <1>1
<1>3. PICK i \in T : \A j \in T : i <= j BY <1>2, Least
<1>4. \A j \in 1 .. i - 1 : ~HasRoom(regions[j])
  <2> SUFFICES ASSUME NEW j \in 1 .. i - 1, HasRoom(regions[j]) PROVE FALSE OBVIOUS
  <2>1. i \in 1 .. Len(regions) BY <1>1, <1>3
  <2>2. j \in T BY <1>1, <2>1
  <2> QED BY <1>3, <2>1, <2>2
<1> QED BY <1>3, <1>4 DEF FirstRoom

\* Taking the bitmaps' pages off the front of their region leaves exactly the
\* other pages, and the loop that reserves them stays within them.
LEMMA Placement ==
    ASSUME ScanInv, SizeInv, PlaceBitmaps, memmap # NoResponse, phase' # "panic"
    PROVE  PlaceInv' /\ bitmapMemory' \in Nat
<1> DEFINE i == FirstRoom
           r == regions[i]
           n == PageSize
           a == PagesUp(r.addr)
           e == EndOf(r) \div PageSize
<1>1. /\ phase = "place_bitmaps" /\ \E k \in DOMAIN regions : HasRoom(regions[k])
      /\ bitmapMemory' = AlignUp(r.addr, n)
      /\ regions' = [regions EXCEPT ![i] = [addr |-> @.addr + required, length |-> @.length - required]]
      /\ memmap' = memmap /\ bitmapSize' = bitmapSize
    BY DEF PlaceBitmaps, scan
<1>2. regions \in Seq(RegionType) /\ DOMAIN regions = 1 .. Len(regions) /\ endAddr \in Nat
    BY <1>1 DEF ScanInv
<1>3. i \in DOMAIN regions /\ HasRoom(r) BY <1>1, <1>2, FirstRoomIs
<1>4. r \in RegionType BY <1>2, <1>3
<1>5. PICK c \in Nat : bitmapSize = c * n BY <1>1 DEF SizeInv
<1> DEFINE C == 2 * c
<1>6. n \in Nat \ {0} /\ C \in Nat /\ required = C * n BY <1>5, UnitsAssumption DEF required
<1>7. (C = 0 \/ a + C <= e) /\ required <= r.length BY <1>3, <1>4, <1>6, Room
<1>8. /\ r.addr \in Nat /\ r.length \in Nat /\ EndOf(r) = r.addr + r.length /\ EndOf(r) \in Nat
    BY <1>4 DEF RegionType, EndOf
<1>9. /\ a \in Nat /\ e \in Nat /\ AlignUp(r.addr, n) = a * n BY <1>8, PagesUpFacts
<1> HIDE DEF i, r, a, e, C
<1>10. bitmapMemory' = a * n /\ bitmapMemory' \in Nat BY <1>1, <1>6, <1>9
<1>11. required' = C * n BY <1>1, <1>6 DEF required
<1>12. (a * n) \div n = a /\ (a * n + C * n) \div n = a + C
  <2>1. a * n \in Nat BY <1>6, <1>9
  <2>2. (a * n) \div n = a BY <1>6, <1>9, PagesUpFacts
  <2> DEFINE y == a * n
  <2> HIDE DEF y
  <2>3. y \in Nat => (y + C * n) \div n = y \div n + C BY ONLY <1>6, QuotientPlus, Zenon
  <2> QED BY ONLY <2>1, <2>2, <2>3, Zenon DEF y
<1>13. BitmapPages' = a .. a + C - 1 BY <1>6, <1>9, <1>10, <1>11, <1>12 DEF BitmapPages
<1>14. LoopPages' = a .. PagesUp(a) + C - 1
  <2>1. LoopStart' = a BY <1>10, <1>12 DEF LoopStart
  <2>2. a + C * n \in Nat BY <1>6, <1>9
  <2>3. PagesUp(a + C * n) = PagesUp(a) + C BY <1>6, <1>9, PagesUpFacts
  <2>4. AlignUp(a + C * n, n) \div n = PagesUp(a) + C BY <2>2, <2>3, PagesUpFacts
  <2>5. LoopEnd' = PagesUp(a) + C BY <1>11, <2>1, <2>4 DEF LoopEnd
  <2>6. PagesUp(a) \in Nat BY <1>9, PagesUpFacts
  <2> QED BY <1>6, <1>9, <2>1, <2>5, <2>6 DEF LoopPages
<1>15. LoopPages' \subseteq BitmapPages'
  <2>1. PagesUp(a) \in Nat /\ PagesUp(a) <= a BY <1>9, PagesUpFacts
  <2> QED BY <1>6, <1>9, <1>13, <1>14, <2>1
<1>16. PagesOf(r) = a .. e - 1 BY <1>4, PagesOfIs DEF a, e
<1> DEFINE s == [addr |-> r.addr + required, length |-> r.length - required]
<1>17. s = [addr |-> r.addr + C * n, length |-> r.length - C * n] /\ s \in RegionType
  <2>1. C * n \in Nat BY <1>6
  <2>2. s = [addr |-> r.addr + C * n, length |-> r.length - C * n] BY <1>6
  <2>3. r.length - C * n \in Nat BY <1>6, <1>7, <1>8, <2>1
  <2>4. r.addr + C * n \in Nat BY <1>8, <2>1
  <2> QED BY <2>2, <2>3, <2>4 DEF RegionType
<1>18. PagesOf(s) = a + C .. e - 1
  <2>1. s.addr = r.addr + C * n /\ s.length = r.length - C * n BY <1>17
  <2>2. EndOf(s) = EndOf(r) BY <1>6, <1>8, <2>1 DEF EndOf
  <2>3. PagesUp(r.addr + C * n) = a + C BY <1>6, <1>8, PagesUpFacts DEF a
  <2> QED BY <1>17, <2>1, <2>2, <2>3, PagesOfIs DEF e
<1>19. /\ DOMAIN regions' = DOMAIN regions /\ regions'[i] = s
       /\ \A k \in DOMAIN regions : k # i => regions'[k] = regions[k]
    BY <1>1, <1>2, <1>3 DEF r
<1> HIDE DEF s
<1>20. /\ Usable \subseteq OfferedPages /\ OfferedPages \subseteq Usable \cup LowPages
       /\ \A k \in 1 .. Len(regions) : \A p \in PagesOf(regions[k]) :
            p \in Nat /\ p < endAddr \div n
       /\ \A k, l \in 1 .. Len(regions) :
            k # l => PagesOf(regions[k]) \cap PagesOf(regions[l]) = {}
    BY <1>1, Scanned
<1>21. BitmapPages' \subseteq PagesOf(r) /\ PagesOf(s) = PagesOf(r) \ BitmapPages'
    BY <1>6, <1>7, <1>9, <1>13, <1>16, <1>18
<1>22. Usable' = Usable \ BitmapPages'
  <2>1. Usable' = UNION {PagesOf(regions'[k]) : k \in DOMAIN regions} BY <1>19 DEF Usable, PagesOf, EndOf
  <2>2. ASSUME NEW k \in DOMAIN regions PROVE PagesOf(regions'[k]) = PagesOf(regions[k]) \ BitmapPages'
    <3>1. CASE k = i BY <1>19, <1>21, <3>1 DEF r
    <3>2. CASE k # i
      <4>1. PagesOf(regions[k]) \cap PagesOf(r) = {} BY <1>2, <1>3, <1>20, <3>2 DEF r
      <4> QED BY <1>19, <1>21, <3>2, <4>1
    <3> QED BY <3>1, <3>2
  <2> QED BY <2>1, <2>2 DEF Usable
<1>23. Usable' \subseteq Frames'
  <2> SUFFICES ASSUME NEW k \in 1 .. Len(regions), NEW p \in PagesOf(regions[k]) PROVE p \in Frames'
      BY <1>2, <1>22 DEF Usable
  <2>1. p \in Nat /\ p < endAddr \div n BY <1>20
  <2>2. endAddr \div n \in Nat BY <1>2, PagesUpFacts
  <2>3. endAddr \div n <= frameCount /\ frameCount' = frameCount BY <1>1 DEF SizeInv, frameCount
  <2>4. frameCount \in Nat BY UnitsAssumption DEF SizeInv, frameCount
  <2> QED BY <2>1, <2>2, <2>3, <2>4 DEF Frames
<1>24. OfferedPages' = OfferedPages /\ LowPages' = LowPages
    BY <1>1 DEF OfferedPages, LowPages, PagesOf, EndOf
<1>25. Usable' \ LowPages' = OfferedPages' \ (LowPages' \cup BitmapPages')
    BY <1>20, <1>22, <1>24
<1> QED BY <1>10, <1>15, <1>22, <1>23, <1>25 DEF PlaceInv

\* The state functions that later phases leave alone.
LEMMA SamePages ==
    ASSUME UNCHANGED <<memmap, regions, bitmapSize, bitmapMemory>>
    PROVE  /\ Usable' = Usable /\ Frames' = Frames /\ frameCount' = frameCount
           /\ BitmapPages' = BitmapPages /\ LoopPages' = LoopPages
           /\ OfferedPages' = OfferedPages /\ LowPages' = LowPages
  BY DEF Usable, Frames, frameCount, BitmapPages, LoopPages, LoopStart, LoopEnd, OfferedPages, LowPages,
         required, PagesOf, EndOf

\* The phases before the self-test have no answers.
LEMMA NotYetTested ==
    ASSUME TestInv, UNCHANGED test, ~Counted, phase # "panic", ~Counted' \/ phase' = "test_alloc",
           phase' = "test_alloc" => allocatable' = {}
    PROVE  TestInv'
<1>1. /\ round' = round /\ got' = got /\ got[1] = <<>> /\ got[2] = <<>> /\ round \in {1, 2}
      /\ DOMAIN got = {1, 2} /\ round = 1
    BY TestSizesAssumption DEF TestInv, test
<1>2. Len(TestSizes) \in Nat \ {0} BY TestSizesAssumption
<1>3. \A r \in {1, 2} : got[r] = <<>> BY <1>1
<1>4. TakenBy(<<>>, 0) = {} BY DEF TakenBy
<1>5. ASSUME NEW r \in {1, 2} PROVE got'[r] \in Seq(Nat) /\ Len(got'[r]) = 0 /\ got'[r] = <<>>
  <2>1. got'[r] = <<>> BY <1>1
  <2>2. <<>> \in Seq(Nat) /\ Len(<<>>) = 0 OBVIOUS
  <2> QED BY <2>1, <2>2
<1>6. ~Counted' \/ phase' = "test_alloc" OBVIOUS
<1>7. phase' # "test_free" /\ phase' # "done" BY <1>6 DEF Counted
<1>8. phase' = "test_alloc" => /\ Len(got'[round']) < Len(TestSizes)
                               /\ allocatable' = TakenBy(got'[round'], Len(got'[round']))
  <2>1. got'[round'] = <<>> /\ Len(got'[round']) = 0 BY <1>1, <1>5
  <2>2. TakenBy(got'[round'], Len(got'[round'])) = TakenBy(<<>>, 0) BY <2>1
  <2>3. TakenBy(got'[round'], Len(got'[round'])) = {} BY <1>4, <2>2
  <2>4. Len(got'[round']) < Len(TestSizes) BY <1>2, <2>1
  <2> HIDE DEF TakenBy
  <2> QED BY <2>3, <2>4
<1>9. \A r \in {1, 2} : \A j \in 1 .. Len(got'[r]) : FALSE BY <1>5
<1> HIDE DEF Counted, Answers, TakenBy
<1> QED BY <1>1, <1>2, <1>5, <1>7, <1>8, <1>9 DEF TestInv

\* The invariant holds at first, and every step keeps it.
LEMMA InitPMMInv == Init => PMMInv
<1> SUFFICES ASSUME Init PROVE PMMInv OBVIOUS
<1> USE DEF Init
<1>1. ScanInv BY MemoryMapsAssumption DEF ScanInv
<1>2. SizeInv /\ PlaceInv /\ BitmapsInv /\ PanicInv /\ CountInv
    BY DEF SizeInv, PlaceInv, BitmapsInv, PanicInv, CountInv, Placed, Counted
<1>3. TestInv
  <2>1. Len(TestSizes) \in Nat \ {0} BY TestSizesAssumption
  <2>2. got[1] = <<>> /\ got[2] = <<>> /\ DOMAIN got = {1, 2} OBVIOUS
  <2> QED BY <2>1, <2>2 DEF TestInv, Counted
<1> QED BY <1>1, <1>2, <1>3 DEF PMMInv

LEMMA NoMemmapStep == ASSUME PMMInv, NoMemmap PROVE PMMInv'
<1> USE DEF NoMemmap, bitmaps, scan
<1>1. ScanInv' /\ SizeInv' /\ PlaceInv' /\ BitmapsInv' /\ PanicInv' /\ CountInv'
    BY DEF PMMInv, ScanInv, SizeInv, PlaceInv, BitmapsInv, PanicInv, CountInv, Placed, Counted
<1>2. TestInv' BY NotYetTested DEF PMMInv, Counted
<1> QED BY <1>1, <1>2 DEF PMMInv

LEMMA ScanEntryStep == ASSUME PMMInv, ScanEntry PROVE PMMInv'
<1> DEFINE e == memmap[entry + 1]
           n == Len(regions)
<1>1. /\ phase = "scan_memmap" /\ memmap # NoResponse /\ entry < Len(memmap) /\ phase' = phase
      /\ memmap' = memmap /\ entry' = entry + 1 /\ bitmapSize' = bitmapSize
      /\ bitmapMemory' = bitmapMemory
      /\ regions' = IF Valid(e) THEN Append(regions, Region(e)) ELSE regions
      /\ endAddr' = IF Valid(e) /\ endAddr < e.base + e.length THEN e.base + e.length ELSE endAddr
      /\ UNCHANGED test /\ UNCHANGED bitmaps
    BY DEF ScanEntry
<1>2. /\ memmap \in MemoryMaps /\ entry \in 0 .. Len(memmap) /\ endAddr \in Nat
      /\ regions \in Seq(RegionType)
      /\ \A k \in 1 .. n :
             /\ EndOf(regions[k]) <= endAddr
             /\ \E i \in 1 .. entry : Valid(memmap[i]) /\ regions[k] = Region(memmap[i])
             /\ \A l \in 1 .. k - 1 : EndOf(regions[l]) <= regions[k].addr
      /\ \A i \in 1 .. entry :
             Valid(memmap[i]) => \E k \in 1 .. n : regions[k] = Region(memmap[i])
    BY <1>1 DEF PMMInv, ScanInv
<1>3. /\ memmap \in Seq(EntryType) /\ Len(memmap) \in Nat
      /\ \A i, j \in 1 .. Len(memmap) : i < j => memmap[i].base + memmap[i].length <= memmap[j].base
    BY <1>2, MemoryMapsAssumption DEF EntryType
<1>4. entry \in Nat /\ entry + 1 \in 1 .. Len(memmap) /\ n \in Nat BY <1>1, <1>2, <1>3
<1>5. e \in EntryType BY <1>3, <1>4
<1>6. e.base \in Nat /\ e.length \in Nat BY <1>5 DEF EntryType
<1>7. Region(e) \in RegionType /\ Region(e).addr = e.base /\ EndOf(Region(e)) = e.base + e.length
    BY <1>6 DEF Region, RegionType, EndOf
<1>8. \A k \in 1 .. n : EndOf(regions[k]) \in Nat /\ regions[k] \in RegionType
  <2>1. regions \in Seq(RegionType) BY <1>2
  <2>2. \A k \in 1 .. n : regions[k] \in RegionType BY ONLY <2>1
  <2> QED BY ONLY <2>2, PagesOfIs
<1> HIDE DEF e
<1>9. ScanInv'
  <2>1. endAddr' \in Nat /\ endAddr <= endAddr' /\ (Valid(e) => e.base + e.length <= endAddr')
      BY <1>1, <1>2, <1>6
  <2>2. CASE ~Valid(e)
    <3>1. regions' = regions /\ endAddr' = endAddr BY <1>1, <2>2
    <3>2. \A i \in 1 .. entry + 1 : Valid(memmap[i]) => i \in 1 .. entry BY <1>4, <2>2 DEF e
    <3>3. \A i \in 1 .. entry : i \in 1 .. entry + 1 BY <1>4
    <3>4. \A k \in 1 .. Len(regions') :
               /\ EndOf(regions'[k]) <= endAddr'
               /\ \E i \in 1 .. entry' : Valid(memmap'[i]) /\ regions'[k] = Region(memmap'[i])
               /\ \A l \in 1 .. k - 1 : EndOf(regions'[l]) <= regions'[k].addr
        BY <1>1, <1>2, <3>1, <3>3
    <3>5. \A i \in 1 .. entry' :
               Valid(memmap'[i]) => \E k \in 1 .. Len(regions') : regions'[k] = Region(memmap'[i])
        BY <1>1, <1>2, <3>1, <3>2
    <3>6. entry' \in 0 .. Len(memmap') BY <1>1, <1>3, <1>4
    <3> QED BY <1>1, <1>2, <3>1, <3>4, <3>5, <3>6 DEF ScanInv, EndOf, Region, Valid
  <2>3. CASE Valid(e)
    <3>1. regions' = Append(regions, Region(e)) BY <1>1, <2>3
    <3>2. /\ regions' \in Seq(RegionType) /\ Len(regions') = n + 1 /\ regions'[n + 1] = Region(e)
          /\ \A k \in 1 .. n : regions'[k] = regions[k]
        BY <1>2, <1>7, <3>1
    <3>3. ASSUME NEW k \in 1 .. n + 1
          PROVE  /\ EndOf(regions'[k]) <= endAddr'
                 /\ \E i \in 1 .. entry + 1 : Valid(memmap[i]) /\ regions'[k] = Region(memmap[i])
                 /\ \A l \in 1 .. k - 1 : EndOf(regions'[l]) <= regions'[k].addr
      <4>1. CASE k = n + 1
        <5>1. ASSUME NEW l \in 1 .. n PROVE EndOf(regions[l]) <= e.base
          <6>1. PICK i \in 1 .. entry : Valid(memmap[i]) /\ regions[l] = Region(memmap[i]) BY <1>2
          <6>2. i \in 1 .. Len(memmap) /\ i < entry + 1 BY <1>4
          <6>3. memmap[i].base + memmap[i].length <= e.base BY <1>3, <1>4, <6>2 DEF e
          <6> QED BY <6>1, <6>3 DEF EndOf, Region
        <5> QED BY <1>4, <1>7, <2>1, <2>3, <3>2, <4>1, <5>1 DEF e
      <4>2. CASE k \in 1 .. n
        <5>1. regions'[k] = regions[k] /\ \A l \in 1 .. k - 1 : regions'[l] = regions[l]
            BY <1>4, <3>2, <4>2
        <5>2. EndOf(regions[k]) <= endAddr'
          <6>1. EndOf(regions[k]) <= endAddr /\ endAddr \in Nat BY <1>2, <4>2
          <6>2. EndOf(regions[k]) \in Nat BY <1>8, <4>2
          <6> QED BY ONLY <2>1, <6>1, <6>2
        <5>3. \E i \in 1 .. entry + 1 : Valid(memmap[i]) /\ regions[k] = Region(memmap[i])
          <6>1. PICK i \in 1 .. entry : Valid(memmap[i]) /\ regions[k] = Region(memmap[i])
              BY <1>2, <4>2
          <6>2. i \in 1 .. entry + 1 BY <1>4
          <6> QED BY <6>1, <6>2
        <5> QED BY <1>2, <4>2, <5>1, <5>2, <5>3
      <4> QED BY <1>4, <4>1, <4>2
    <3>4. ASSUME NEW i \in 1 .. entry + 1, Valid(memmap[i])
          PROVE  \E k \in 1 .. n + 1 : regions'[k] = Region(memmap[i])
      <4>1. CASE i = entry + 1 BY <1>4, <3>2, <4>1 DEF e
      <4>2. CASE i \in 1 .. entry
        <5>1. PICK k \in 1 .. n : regions[k] = Region(memmap[i]) BY <1>2, <3>4, <4>2
        <5> QED BY <1>4, <3>2, <5>1
      <4> QED BY <1>4, <4>1, <4>2
    <3>5. entry' \in 0 .. Len(memmap') BY <1>1, <1>3, <1>4
    <3>6. \A k \in 1 .. Len(regions') :
               /\ EndOf(regions'[k]) <= endAddr'
               /\ \E i \in 1 .. entry' : Valid(memmap'[i]) /\ regions'[k] = Region(memmap'[i])
               /\ \A l \in 1 .. k - 1 : EndOf(regions'[l]) <= regions'[k].addr
        BY <1>1, <3>2, <3>3
    <3>7. \A i \in 1 .. entry' :
               Valid(memmap'[i]) => \E k \in 1 .. Len(regions') : regions'[k] = Region(memmap'[i])
        BY <1>1, <3>2, <3>4
    <3> QED BY <1>1, <1>2, <2>1, <3>2, <3>5, <3>6, <3>7 DEF ScanInv, EndOf, Valid, Region
  <2> QED BY <2>2, <2>3
<1>10. SizeInv' /\ PlaceInv' /\ BitmapsInv' /\ PanicInv' /\ CountInv'
    BY <1>1 DEF PMMInv, SizeInv, PlaceInv, BitmapsInv, PanicInv, CountInv, Placed, Counted
<1>11. TestInv' BY <1>1, NotYetTested DEF PMMInv, Counted
<1> QED BY <1>9, <1>10, <1>11 DEF PMMInv

LEMMA SizeBitmapsStep == ASSUME PMMInv, SizeBitmaps PROVE PMMInv'
<1>1. /\ phase = "scan_memmap" /\ memmap # NoResponse /\ entry = Len(memmap)
      /\ phase' = "place_bitmaps" /\ memmap' = memmap /\ entry' = entry /\ endAddr' = endAddr
      /\ regions' = regions /\ bitmapMemory' = bitmapMemory
      /\ UNCHANGED test
    BY DEF SizeBitmaps, scan
<1>2. ScanInv' BY <1>1 DEF PMMInv, ScanInv, EndOf, Valid, Region
<1>3. endAddr \in Nat BY <1>1 DEF PMMInv, ScanInv
<1>4. /\ bitmapSize' \in Nat /\ endAddr \div PageSize <= bitmapSize' * BitsPerByte
      /\ \E c \in Nat : bitmapSize' = c * PageSize
    BY <1>3, Sized
<1>5. SizeInv' BY <1>1, <1>4 DEF PMMInv, SizeInv, frameCount
<1>6. PlaceInv' /\ BitmapsInv' /\ PanicInv' /\ CountInv'
    BY <1>1 DEF PMMInv, PlaceInv, BitmapsInv, PanicInv, CountInv, Placed, Counted
<1>7. TestInv' BY <1>1, NotYetTested DEF PMMInv, Counted
<1> QED BY <1>2, <1>5, <1>6, <1>7 DEF PMMInv

LEMMA PlaceBitmapsStep == ASSUME PMMInv, PlaceBitmaps PROVE PMMInv'
<1>1. /\ phase = "place_bitmaps" /\ phase' \in {"panic", "fill"} /\ bitmapSize' = bitmapSize
      /\ UNCHANGED test
      /\ phase' = "panic" => bitmapMemory' = bitmapMemory \/ bitmapMemory' = 0
    BY DEF PlaceBitmaps
<1>2. memmap # NoResponse /\ bitmapMemory = 0 BY <1>1 DEF PMMInv, ScanInv, SizeInv
<1>3. phase' # "panic" => PlaceInv' /\ bitmapMemory' \in Nat BY <1>2, Placement DEF PMMInv
<1>4. phase' = "panic" => bitmapMemory' = 0 BY <1>1, <1>2
<1>5. ScanInv' /\ BitmapsInv' /\ PanicInv' /\ CountInv'
    BY <1>1, <1>4 DEF ScanInv, BitmapsInv, PanicInv, CountInv, Counted
<1>6. SizeInv' BY <1>1, <1>3, <1>4 DEF PMMInv, SizeInv
<1>7. PlaceInv' BY <1>3 DEF PlaceInv, Placed
<1>8. TestInv' BY <1>1, NotYetTested DEF PMMInv, Counted
<1> QED BY <1>5, <1>6, <1>7, <1>8 DEF PMMInv

\* From the placement on, the map, the regions and the bitmaps' place stay.
LEMMA AfterPlacement ==
    ASSUME PMMInv, Placed, UNCHANGED <<scan, regions, bitmapSize, bitmapMemory>>,
           phase' \notin {"scan_memmap", "place_bitmaps"}
    PROVE  /\ ScanInv' /\ SizeInv' /\ PlaceInv'
           /\ Usable' = Usable /\ Frames' = Frames /\ BitmapPages' = BitmapPages
           /\ LoopPages' = LoopPages /\ LowPages' = LowPages
<1>1. UNCHANGED <<memmap, regions, bitmapSize, bitmapMemory>> BY DEF scan
<1>2. /\ Usable' = Usable /\ Frames' = Frames
      /\ BitmapPages' = BitmapPages /\ LoopPages' = LoopPages
      /\ OfferedPages' = OfferedPages /\ LowPages' = LowPages
    BY <1>1, SamePages
<1>3. ScanInv' BY DEF ScanInv
<1>4. SizeInv' BY <1>1 DEF PMMInv, SizeInv
<1>5. PlaceInv' BY <1>2 DEF PMMInv, PlaceInv
<1> QED BY <1>2, <1>3, <1>4, <1>5

\* Filling the bitmaps: reserved loses the regions' pages, then gets back the
\* low pages and the bitmaps'.
LEMMA BitmapSteps ==
    ASSUME PMMInv, Fill \/ ClearUsable \/ ReserveLow \/ ReserveBitmaps \/ CountUsable
    PROVE  PMMInv'
<1>1. /\ Placed /\ ~Counted /\ phase # "panic" /\ phase' # "panic"
      /\ UNCHANGED <<scan, regions, bitmapSize, bitmapMemory>> /\ UNCHANGED test
      /\ phase' \notin {"scan_memmap", "place_bitmaps"}
      /\ ~Counted' \/ (phase' = "test_alloc" /\ allocatable' = {})
    BY DEF Fill, ClearUsable, ReserveLow, ReserveBitmaps, CountUsable, Placed, Counted
<1>2. /\ ScanInv' /\ SizeInv' /\ PlaceInv'
      /\ Usable' = Usable /\ Frames' = Frames /\ BitmapPages' = BitmapPages
      /\ LoopPages' = LoopPages /\ LowPages' = LowPages
    BY <1>1, AfterPlacement
<1>3. TestInv'
  <2>1. phase' = "test_alloc" => allocatable' = {} BY <1>1 DEF Counted
  <2>2. ~Counted' \/ phase' = "test_alloc" BY <1>1
  <2> QED BY <1>1, <2>1, <2>2, NotYetTested DEF PMMInv
<1>4. PanicInv' BY <1>1 DEF PanicInv
<1>5. Usable \subseteq Frames BY <1>1 DEF PMMInv, PlaceInv
<1> HIDE DEF Usable, Frames, LowPages, LoopPages
<1>6. CASE Fill
  <2>1. phase' = "clear_usable" /\ reserved' = Frames BY <1>6 DEF Fill
  <2>2. BitmapsInv' /\ CountInv' BY <1>2, <2>1 DEF BitmapsInv, CountInv, Counted
  <2> QED BY <1>2, <1>3, <1>4, <2>2 DEF PMMInv
<1>7. CASE ClearUsable
  <2>1. /\ phase = "clear_usable" /\ phase' = "reserve_low"
        /\ reserved' = reserved \ Usable
      BY <1>7 DEF ClearUsable, Usable
  <2>2. reserved = Frames BY <2>1 DEF PMMInv, BitmapsInv
  <2>3. BitmapsInv' /\ CountInv' BY <1>2, <1>5, <2>1, <2>2 DEF BitmapsInv, CountInv, Counted
  <2> QED BY <1>2, <1>3, <1>4, <2>3 DEF PMMInv
<1>8. CASE ReserveLow
  <2>1. /\ phase = "reserve_low" /\ phase' = "reserve_bitmaps" /\ reserved' = reserved \cup LowPages
      BY <1>8 DEF ReserveLow
  <2>2. Frames \ reserved = Usable BY <2>1 DEF PMMInv, BitmapsInv
  <2>3. 0 \in LowPages
    <3>1. MiB \div PageSize >= 1 BY UnitsAssumption
    <3>2. MiB \div PageSize \in Nat BY UnitsAssumption, Quotient
    <3> QED BY <3>1, <3>2 DEF LowPages
  <2>4. BitmapsInv' /\ CountInv'
      BY <1>2, <2>1, <2>2, <2>3 DEF BitmapsInv, CountInv, Counted
  <2> QED BY <1>2, <1>3, <1>4, <2>4 DEF PMMInv
<1>9. CASE ReserveBitmaps
  <2>1. /\ phase = "reserve_bitmaps" /\ phase' = "count" /\ reserved' = reserved \cup LoopPages
      BY <1>9 DEF ReserveBitmaps
  <2>2. Frames \ reserved = Usable \ LowPages /\ 0 \in reserved BY <2>1 DEF PMMInv, BitmapsInv
  <2>3. BitmapsInv' /\ CountInv'
      BY <1>2, <2>1, <2>2 DEF BitmapsInv, CountInv, Counted
  <2> QED BY <1>2, <1>3, <1>4, <2>3 DEF PMMInv
<1>10. CASE CountUsable
  <2>1. /\ phase = "count" /\ phase' = "test_alloc" /\ reserved' = reserved /\ allocatable' = {}
        /\ usableFrames' = Cardinality(Frames \ reserved)
      BY <1>10 DEF CountUsable
  <2>2. BitmapsInv' BY <1>2, <2>1 DEF PMMInv, BitmapsInv, Counted
  <2>3. Frames' \ (reserved' \cup allocatable') = Frames \ reserved BY <1>2, <2>1
  <2>4. CountInv' BY <2>1, <2>3 DEF CountInv
  <2> QED BY <1>2, <1>3, <1>4, <2>2, <2>4 DEF PMMInv
<1> QED BY <1>6, <1>7, <1>8, <1>9, <1>10

\* The self-test's allocations: an answer depends on what is free only.
LEMMA AnswersUnique ==
    ASSUME NEW k \in Nat \ {0}, NEW free, NEW x \in Nat, NEW y \in Nat,
           Answers(x, k, free), Answers(y, k, free)
    PROVE  x = y
<1> DEFINE F(s) == Run(s, k) \subseteq free
<1>1. \/ x = 0 /\ \A s \in Nat : ~F(s)
      \/ \E s \in Nat : x = s * PageSize /\ x # 0 /\ F(s) /\ \A t \in 0 .. s - 1 : ~F(t)
    BY DEF Answers
<1>2. \/ y = 0 /\ \A s \in Nat : ~F(s)
      \/ \E s \in Nat : y = s * PageSize /\ y # 0 /\ F(s) /\ \A t \in 0 .. s - 1 : ~F(t)
    BY DEF Answers
<1> HIDE DEF F
<1>3. CASE \A s \in Nat : ~F(s) BY <1>1, <1>2, <1>3
<1>4. CASE \E s \in Nat : F(s)
  <2>1. PICK s \in Nat : x = s * PageSize /\ F(s) /\ \A t \in 0 .. s - 1 : ~F(t) BY <1>1, <1>4
  <2>2. PICK u \in Nat : y = u * PageSize /\ F(u) /\ \A t \in 0 .. u - 1 : ~F(t) BY <1>2, <1>4
  <2>3. s = u
    <3>1. ~(s < u) BY <2>1, <2>2
    <3>2. ~(u < s) BY <2>1, <2>2
    <3> QED BY <3>1, <3>2
  <2> QED BY <2>1, <2>2, <2>3
<1> QED BY <1>3, <1>4

\* The pages taken depend on the answers only, and grow by those of the last.
LEMMA TakenBySame ==
    ASSUME NEW a, NEW b, NEW n \in Nat, \A j \in 1 .. n : a[j] = b[j]
    PROVE  TakenBy(a, n) = TakenBy(b, n)
<1>1. {j \in 1 .. n : a[j] # 0} = {j \in 1 .. n : b[j] # 0} OBVIOUS
<1>2. ASSUME NEW p PROVE p \in TakenBy(a, n) <=> p \in TakenBy(b, n)
    BY <1>1 DEF TakenBy
<1> QED BY <1>2

LEMMA TakenByNext ==
    ASSUME NEW a, NEW n \in Nat
    PROVE  TakenBy(a, n + 1) = IF a[n + 1] = 0 THEN TakenBy(a, n)
                               ELSE TakenBy(a, n) \cup Run(a[n + 1] \div PageSize, TestSizes[n + 1])
<1>1. \A j : j \in 1 .. n + 1 <=> (j \in 1 .. n \/ j = n + 1) OBVIOUS
<1>2. ~(n + 1 \in 1 .. n) OBVIOUS
<1> QED BY <1>1, <1>2 DEF TakenBy

\* AllocatePages finds the first run that is free, if there is one.
LEMMA FirstFitIs ==
    ASSUME NEW k \in Nat, \E s \in Frames : Fits(s, k), frameCount \in Nat
    PROVE  /\ FirstFit(k) \in Frames /\ Fits(FirstFit(k), k)
           /\ \A t \in 0 .. FirstFit(k) - 1 : ~Fits(t, k)
<1> DEFINE T == {s \in Frames : Fits(s, k)}
<1>1. T \in SUBSET Nat /\ T # {} BY DEF Frames
<1>2. PICK s \in T : \A t \in T : s <= t BY <1>1, Least
<1>3. \A t \in 0 .. s - 1 : ~Fits(t, k)
  <2> SUFFICES ASSUME NEW t \in 0 .. s - 1, Fits(t, k) PROVE FALSE OBVIOUS
  <2>1. s \in 0 .. frameCount - 1 BY <1>2 DEF Frames
  <2>2. t \in Frames BY <2>1 DEF Frames
  <2> QED BY <1>2, <2>1, <2>2
<1> QED BY <1>2, <1>3 DEF FirstFit

\* An allocation of the self-test.
LEMMA TestAllocStep == ASSUME PMMInv, TestAlloc PROVE PMMInv'
<1> DEFINE g == got[round]
           m == Len(g) + 1
           k == TestSizes[m]
           N == Len(TestSizes)
           found == \E s \in Frames : Fits(s, k)
           f == FirstFit(k)
           x == IF found THEN f * PageSize ELSE 0
           h == Append(g, x)
           free == Frames \ (reserved \cup allocatable)
<1>1. /\ phase = "test_alloc" /\ got' = [got EXCEPT ![round] = h]
      /\ allocatable' = IF found THEN allocatable \cup Run(f, k) ELSE allocatable
      /\ usableFrames' = IF found THEN usableFrames - k ELSE usableFrames
      /\ phase' = IF Len(got'[round]) = N THEN "test_free" ELSE "test_alloc"
      /\ UNCHANGED <<scan, regions, bitmapSize, bitmapMemory>>
      /\ reserved' = reserved /\ round' = round
    BY DEF TestAlloc
<1>2. Placed /\ Counted /\ phase' \notin {"scan_memmap", "place_bitmaps"} BY <1>1 DEF Placed, Counted
<1>3. /\ ScanInv' /\ SizeInv' /\ PlaceInv'
      /\ Usable' = Usable /\ Frames' = Frames /\ BitmapPages' = BitmapPages
      /\ LoopPages' = LoopPages /\ LowPages' = LowPages
    BY <1>1, <1>2, AfterPlacement
<1>4. Counted' /\ phase' # "panic" BY <1>1 DEF Counted
<1>5. BitmapsInv'
    BY <1>1, <1>2, <1>3 DEF PMMInv, BitmapsInv, Counted
<1>6. PanicInv' BY <1>4 DEF PanicInv
<1>7. /\ round \in {1, 2} /\ DOMAIN got = {1, 2} /\ g \in Seq(Nat) /\ Len(g) < N /\ N \in Nat
      /\ allocatable = TakenBy(g, Len(g))
    BY <1>1, TestSizesAssumption DEF PMMInv, TestInv
<1>8. m \in 1 .. N /\ m \in Nat /\ Len(g) \in Nat BY <1>7
<1>9. k \in Nat \ {0} BY <1>8, TestSizesAssumption
<1>10. frameCount \in Nat BY UnitsAssumption DEF PMMInv, SizeInv, frameCount
<1>11. free = (Frames \ reserved) \ TakenBy(g, Len(g)) BY <1>7
<1>12. \A s \in Nat : Run(s, k) \subseteq free => s \in Frames /\ s \notin reserved
  <2>1. \A s \in Nat : s \in Run(s, k) BY <1>9 DEF Run
  <2> QED BY <2>1
<1>13. found => /\ f \in Frames /\ Run(f, k) \subseteq free /\ \A t \in 0 .. f - 1 : ~(Run(t, k) \subseteq free)
  <2>1. \A s : Fits(s, k) <=> Run(s, k) \subseteq free BY DEF Fits
  <2> HIDE DEF found, f, free
  <2> QED BY <1>9, <1>10, <2>1, FirstFitIs DEF found, f
<1>14. ~found => \A s \in Nat : ~(Run(s, k) \subseteq free) BY <1>12 DEF Fits
<1> HIDE DEF found, f, g, k, free
<1>15. found => f \in Nat \ {0}
  <2>1. f \in Frames => f \in Nat BY DEF Frames
  <2>2. 0 \in reserved BY <1>2 DEF PMMInv, BitmapsInv
  <2> QED BY <1>12, <1>13, <2>1, <2>2
<1>16. /\ x \in Nat /\ (x = 0 <=> ~found) /\ (found => x \div PageSize = f)
  <2>1. PageSize \in Nat \ {0} BY UnitsAssumption
  <2>2. CASE found
    <3>1. x = f * PageSize BY <2>2
    <3>2. x \div PageSize = f BY <1>15, <2>2, <3>1, PagesUpFacts
    <3>3. f * PageSize \in Nat \ {0} BY <1>15, <2>1, <2>2
    <3> QED BY <2>2, <3>1, <3>2, <3>3
  <2>3. CASE ~found BY <2>3
  <2> QED BY <2>2, <2>3
<1>17. Answers(x, k, free)
  <2>1. CASE found
    <3>1. x = f * PageSize /\ x # 0 BY <1>16, <2>1
    <3> HIDE DEF x
    <3> QED BY <1>13, <1>15, <2>1, <3>1 DEF Answers
  <2>2. CASE ~found BY <1>14, <2>2 DEF Answers
  <2> QED BY <2>1, <2>2
<1> HIDE DEF x
<1>18. /\ h \in Seq(Nat) /\ Len(h) = m /\ h[m] = x /\ \A j \in 1 .. Len(g) : h[j] = g[j]
    BY <1>7, <1>16
<1> HIDE DEF h
<1>19. got'[round] = h /\ DOMAIN got' = {1, 2} /\ \A r \in {1, 2} : r # round => got'[r] = got[r]
    BY <1>1, <1>7
<1>20. TakenBy(h, Len(g)) = TakenBy(g, Len(g)) BY <1>8, <1>18, TakenBySame
<1>21. allocatable' = TakenBy(h, m)
  <2>1. TakenBy(h, m) = IF h[m] = 0 THEN TakenBy(h, Len(g))
                        ELSE TakenBy(h, Len(g)) \cup Run(h[m] \div PageSize, TestSizes[m])
      BY <1>8, TakenByNext
  <2> QED BY <1>1, <1>7, <1>16, <1>18, <1>20, <2>1 DEF k
<1>22. CountInv'
  <2>1. usableFrames = Cardinality(free) BY <1>2 DEF PMMInv, CountInv, free
  <2>2. CASE ~found BY <1>1, <1>3, <2>1, <2>2 DEF CountInv, free
  <2>3. CASE found
    <3>1. Frames' \ (reserved' \cup allocatable') = free \ Run(f, k) BY <1>1, <1>3, <2>3 DEF free
    <3>2. IsFiniteSet(free)
      <4>1. IsFiniteSet(Frames) BY <1>10, FS_Interval DEF Frames
      <4> QED BY <4>1, FS_Subset DEF free
    <3>3. free \cap Run(f, k) = Run(f, k) BY <1>13, <2>3
    <3>4. Cardinality(Run(f, k)) = k BY <1>9, <1>15, <2>3, FS_Interval DEF Run
    <3>5. Cardinality(free \ Run(f, k)) = Cardinality(free) - Cardinality(free \cap Run(f, k))
        BY <3>2, FS_Difference
    <3> QED BY <1>1, <2>1, <2>3, <3>1, <3>3, <3>4, <3>5 DEF CountInv
  <2> QED BY <2>2, <2>3
<1>23. TestInv'
  <2>1. \A r \in {1, 2} : got'[r] \in Seq(Nat) /\ Len(got'[r]) <= N
    <3>1. h \in Seq(Nat) /\ Len(h) <= N BY <1>8, <1>18
    <3> QED BY <1>19, <3>1 DEF PMMInv, TestInv
  <2>2. round = 1 => got'[2] = <<>> BY <1>19 DEF PMMInv, TestInv
  <2>3. round = 2 => Len(got'[1]) = N /\ \A j \in 1 .. N : got'[1][j] # 0
    <3>1. round = 2 => got'[1] = got[1] BY <1>19
    <3> QED BY <3>1 DEF PMMInv, TestInv
  <2>4. /\ phase' = "test_alloc" => Len(got'[round]) < N
        /\ phase' = "test_free" => Len(got'[round]) = N
        /\ phase' # "done"
      BY <1>1, <1>7, <1>8, <1>18, <1>19
  <2>5. allocatable' = TakenBy(got'[round], Len(got'[round])) BY <1>18, <1>19, <1>21
  <2>6. ASSUME NEW r \in {1, 2}, NEW j \in 1 .. Len(got'[r])
        PROVE  Answers(got'[r][j], TestSizes[j], (Frames \ reserved) \ TakenBy(got'[r], j - 1))
    <3>1. \A i \in 1 .. Len(got[r]) :
             Answers(got[r][i], TestSizes[i], (Frames \ reserved) \ TakenBy(got[r], i - 1))
        BY <1>2 DEF PMMInv, TestInv
    <3>2. CASE r # round BY <1>19, <3>1, <3>2
    <3>3. CASE r = round
      <4>1. got'[r] = h /\ got[r] = g /\ j \in 1 .. m BY <1>18, <1>19, <3>3 DEF g
      <4>2. CASE j = m
        <5>1. got'[r][j] = x /\ TestSizes[j] = k /\ j - 1 = Len(g) BY <1>8, <1>18, <4>1, <4>2 DEF k
        <5>2. TakenBy(got'[r], j - 1) = TakenBy(g, Len(g)) BY <1>20, <4>1, <5>1
        <5> QED BY <1>11, <1>17, <5>1, <5>2
      <4>3. CASE j \in 1 .. Len(g)
        <5>1. h[j] = g[j] BY <1>18, <4>3
        <5>2. j - 1 \in Nat /\ \A i \in 1 .. j - 1 : h[i] = g[i] BY <1>8, <1>18, <4>3
        <5>3. TakenBy(h, j - 1) = TakenBy(g, j - 1) BY <5>2, TakenBySame
        <5> QED BY <3>1, <4>1, <4>3, <5>1, <5>3
      <4> QED BY <1>8, <4>1, <4>2, <4>3
    <3> QED BY <3>2, <3>3
  <2> QED BY <1>1, <1>3, <1>4, <1>7, <1>19, <2>1, <2>2, <2>3, <2>4, <2>5, <2>6 DEF TestInv
<1> QED BY <1>3, <1>5, <1>6, <1>22, <1>23 DEF PMMInv

\* The frees of the self-test: they give back exactly what a round was given,
\* unless an allocation failed and the address 0 is freed, which is reserved.
LEMMA TestFreeStep == ASSUME PMMInv, TestFree PROVE PMMInv'
<1> DEFINE g == got[round]
           N == Len(TestSizes)
           all == UNION {Given(i) : i \in DOMAIN TestSizes}
           sound == \A i \in DOMAIN TestSizes : Given(i) \subseteq allocatable \ reserved
<1>1. /\ phase = "test_free"
      /\ \/ /\ sound /\ allocatable' = allocatable \ all
            /\ usableFrames' = usableFrames + Cardinality(all)
            /\ phase' = IF round = 1 THEN "test_alloc" ELSE "done"
            /\ round' = 2
         \/ ~sound /\ phase' = "panic" /\ UNCHANGED <<allocatable, usableFrames, round>>
      /\ UNCHANGED <<scan, regions, bitmapSize, bitmapMemory>>
      /\ reserved' = reserved /\ got' = got
    BY DEF TestFree
<1>2. Placed /\ Counted /\ phase' \in {"test_alloc", "done", "panic"} BY <1>1 DEF Placed, Counted
<1>3. /\ ScanInv' /\ SizeInv' /\ PlaceInv'
      /\ Usable' = Usable /\ Frames' = Frames /\ BitmapPages' = BitmapPages
      /\ LoopPages' = LoopPages /\ LowPages' = LowPages
    BY <1>1, <1>2, AfterPlacement
<1>4. BitmapsInv' BY <1>1, <1>2, <1>3 DEF PMMInv, BitmapsInv, Counted
<1>5. /\ round \in {1, 2} /\ DOMAIN got = {1, 2} /\ g \in Seq(Nat) /\ Len(g) = N /\ N \in Nat \ {0}
      /\ DOMAIN TestSizes = 1 .. N /\ allocatable = TakenBy(g, N)
      /\ \A j \in 1 .. N : Answers(g[j], TestSizes[j], (Frames \ reserved) \ TakenBy(g, j - 1))
  <2>1. N \in Nat \ {0} /\ DOMAIN TestSizes = 1 .. N BY TestSizesAssumption
  <2>2. /\ round \in {1, 2} /\ DOMAIN got = {1, 2} /\ g \in Seq(Nat) /\ Len(g) = N
        /\ allocatable = TakenBy(g, Len(g))
      BY <1>1 DEF PMMInv, TestInv
  <2>3. \A r \in {1, 2} : \A j \in 1 .. Len(got[r]) :
             Answers(got[r][j], TestSizes[j], (Frames \ reserved) \ TakenBy(got[r], j - 1))
      BY <1>2 DEF PMMInv, TestInv
  <2> QED BY <2>1, <2>2, <2>3
<1>6. \A j \in 1 .. N : TestSizes[j] \in Nat \ {0} BY TestSizesAssumption
<1>7. \A j \in 1 .. N : Given(j) = Run(g[j] \div PageSize, TestSizes[j]) BY DEF Given
<1>8. \A j \in 1 .. N : g[j] # 0 => Given(j) \subseteq Frames \ reserved /\ Given(j) \subseteq allocatable
  <2> SUFFICES ASSUME NEW j \in 1 .. N, g[j] # 0
               PROVE  Given(j) \subseteq Frames \ reserved /\ Given(j) \subseteq allocatable
      OBVIOUS
  <2>1. PICK s \in Nat : g[j] = s * PageSize /\ Run(s, TestSizes[j]) \subseteq (Frames \ reserved) \ TakenBy(g, j - 1)
      BY <1>5 DEF Answers
  <2>2. g[j] \div PageSize = s BY <2>1, PagesUpFacts
  <2>3. Given(j) \subseteq TakenBy(g, N) BY <1>7 DEF TakenBy
  <2> QED BY <1>5, <1>7, <2>1, <2>2, <2>3
<1>9. \A j \in 1 .. N : g[j] = 0 => 0 \in Given(j) /\ 0 \in reserved
  <2>1. 0 \in reserved BY <1>2 DEF PMMInv, BitmapsInv
  <2>2. 0 \div PageSize = 0 BY PagesUpFacts, UnitsAssumption
  <2>3. \A n \in Nat \ {0} : 0 \in Run(0, n) BY DEF Run
  <2> QED BY <1>6, <1>7, <2>1, <2>2, <2>3
<1>10. sound <=> \A j \in 1 .. N : g[j] # 0 BY <1>5, <1>8, <1>9
<1> HIDE DEF sound
<1>11. sound => all = allocatable /\ allocatable \subseteq Frames \ reserved
  <2> SUFFICES ASSUME sound PROVE all = allocatable /\ allocatable \subseteq Frames \ reserved
      OBVIOUS
  <2>1. \A j \in 1 .. N : g[j] # 0 BY <1>10
  <2>2. {j \in 1 .. N : g[j] # 0} = 1 .. N BY <2>1
  <2>3. all = UNION {Run(g[j] \div PageSize, TestSizes[j]) : j \in 1 .. N} BY <1>5, <1>7
  <2>4. all = allocatable BY <1>5, <2>2, <2>3 DEF TakenBy
  <2>5. all \subseteq Frames \ reserved BY <1>5, <1>8, <2>1
  <2> QED BY <2>4, <2>5
<1> HIDE DEF all, g
<1>12. CASE ~sound
  <2>1. phase' = "panic" /\ round' = round /\ allocatable' = allocatable BY <1>1, <1>12
  <2>2. PICK j \in 1 .. N : g[j] = 0 BY <1>10, <1>12
  <2>3. PanicInv' BY <1>1, <1>5, <2>1, <2>2 DEF PanicInv, g
  <2>4. CountInv' BY <2>1 DEF CountInv, Counted
  <2>5. TestInv' BY <1>1, <2>1 DEF PMMInv, TestInv, Counted
  <2> QED BY <1>3, <1>4, <2>3, <2>4, <2>5 DEF PMMInv
<1>13. CASE sound
  <2>1. /\ allocatable' = {} /\ round' = 2 /\ usableFrames' = usableFrames + Cardinality(allocatable)
        /\ phase' = IF round = 1 THEN "test_alloc" ELSE "done"
      BY <1>1, <1>11, <1>13
  <2>2. PanicInv' BY <2>1 DEF PanicInv
  <2>3. CountInv'
    <3>1. frameCount \in Nat BY UnitsAssumption DEF PMMInv, SizeInv, frameCount
    <3>2. IsFiniteSet(Frames \ reserved)
      <4>1. IsFiniteSet(Frames) BY <3>1, FS_Interval DEF Frames
      <4> QED BY <4>1, FS_Subset
    <3>3. (Frames \ reserved) \cap allocatable = allocatable
          /\ (Frames \ reserved) \ allocatable = Frames \ (reserved \cup allocatable)
        BY <1>11, <1>13
    <3>4. Cardinality((Frames \ reserved) \ allocatable)
            = Cardinality(Frames \ reserved) - Cardinality((Frames \ reserved) \cap allocatable)
        BY <3>2, FS_Difference
    <3>5. usableFrames = Cardinality(Frames \ (reserved \cup allocatable))
        BY <1>2 DEF PMMInv, CountInv
    <3>6. Cardinality(Frames \ reserved) \in Nat /\ Cardinality(allocatable) \in Nat
      <4>1. IsFiniteSet(allocatable) BY <1>11, <1>13, <3>2, FS_Subset
      <4> QED BY <3>2, <4>1, FS_CardinalityType
    <3>7. usableFrames' = Cardinality(Frames \ reserved)
      <4>1. usableFrames = Cardinality(Frames \ reserved) - Cardinality(allocatable)
          BY <3>3, <3>4, <3>5
      <4> QED BY <2>1, <3>6, <4>1
    <3>8. Frames' \ (reserved' \cup allocatable') = Frames \ reserved BY <1>1, <1>3, <2>1
    <3> QED BY <3>7, <3>8 DEF CountInv
  <2>4. TestInv'
    <3>1. \A j \in 1 .. N : g[j] # 0 BY <1>10, <1>13
    <3>2. Len(got[1]) = N /\ \A j \in 1 .. N : got[1][j] # 0
        BY <1>5, <3>1 DEF PMMInv, TestInv, g
    <3>3. phase' = "test_alloc" => round = 1 /\ got[2] = <<>> BY <2>1 DEF PMMInv, TestInv
    <3>4. phase' = "done" => round = 2 /\ Len(got[2]) = N BY <1>5, <2>1 DEF g
    <3>5. phase' = "test_alloc" => /\ Len(got[2]) = 0 /\ Len(got[2]) < N
                                   /\ allocatable' = TakenBy(got[2], Len(got[2]))
      <4>1. Len(<<>>) = 0 OBVIOUS
      <4>2. TakenBy(<<>>, 0) = {} BY DEF TakenBy
      <4> QED BY <1>5, <2>1, <3>3, <4>1, <4>2
    <3>6. \A r \in {1, 2} : got'[r] \in Seq(Nat) /\ Len(got'[r]) <= Len(TestSizes)
        BY <1>1 DEF PMMInv, TestInv
    <3>7. \A r \in {1, 2} : \A j \in 1 .. Len(got[r]) :
             Answers(got[r][j], TestSizes[j], (Frames \ reserved) \ TakenBy(got[r], j - 1))
        BY <1>2 DEF PMMInv, TestInv
    <3>8. phase' # "test_free" /\ (phase' = "test_alloc" \/ phase' = "done") BY <2>1
    <3> QED BY <1>1, <1>3, <1>5, <2>1, <3>2, <3>3, <3>4, <3>5, <3>6, <3>7, <3>8 DEF TestInv, Counted
  <2> QED BY <1>3, <1>4, <2>2, <2>3, <2>4 DEF PMMInv
<1> QED BY <1>12, <1>13

LEMMA SameState == ASSUME PMMInv, UNCHANGED pmmVars PROVE PMMInv'
<1>1. UNCHANGED <<memmap, regions, bitmapSize, bitmapMemory>> /\ UNCHANGED <<phase, entry, endAddr>>
      /\ UNCHANGED <<reserved, allocatable, usableFrames, round, got>>
    BY DEF pmmVars, scan
<1>2. /\ Usable' = Usable /\ Frames' = Frames /\ frameCount' = frameCount
      /\ BitmapPages' = BitmapPages /\ LoopPages' = LoopPages
      /\ OfferedPages' = OfferedPages /\ LowPages' = LowPages
    BY <1>1, SamePages
<1>3. ScanInv' BY <1>1 DEF PMMInv, ScanInv, EndOf
<1>4. SizeInv' /\ PlaceInv' /\ BitmapsInv' BY <1>1, <1>2 DEF PMMInv, SizeInv, PlaceInv, BitmapsInv, Placed, Counted
<1>5. TestInv' BY <1>1, <1>2 DEF PMMInv, TestInv, Counted
<1>6. PanicInv' /\ CountInv' BY <1>1, <1>2 DEF PMMInv, PanicInv, CountInv, Counted
<1> QED BY <1>3, <1>4, <1>5, <1>6 DEF PMMInv

\* The inductive invariant of PhysicalMemoryManager::Initialize.
THEOREM PMMInvHolds == Spec => []PMMInv
<1>1. ASSUME PMMInv, [Next]_pmmVars PROVE PMMInv'
    BY <1>1, NoMemmapStep, ScanEntryStep, SizeBitmapsStep, PlaceBitmapsStep, BitmapSteps,
       TestAllocStep, TestFreeStep, SameState DEF Next, Ended
<1> QED BY <1>1, InitPMMInv, PTL DEF Spec

\* Initialize leaves unreserved exactly the pages that the memory map offers,
\* above the first MiB and outside the bitmaps, and counts those that are free.
THEOREM UnreservedExactHolds == Spec => []UnreservedExact
<1>1. ASSUME PMMInv PROVE UnreservedExact
  <2> SUFFICES ASSUME Counted PROVE UnreservedExact BY DEF UnreservedExact
  <2>1. /\ Usable \cap BitmapPages = {} /\ LoopPages \subseteq BitmapPages
        /\ Usable \ LowPages = OfferedPages \ (LowPages \cup BitmapPages)
      BY <1>1 DEF PMMInv, PlaceInv, Placed, Counted
  <2>2. Frames \ reserved = Usable \ (LowPages \cup LoopPages) BY <1>1 DEF PMMInv, BitmapsInv
  <2>3. Usable \ (LowPages \cup LoopPages) = Usable \ LowPages BY <2>1
  <2>4. usableFrames = Cardinality(Frames \ (reserved \cup allocatable)) BY <1>1 DEF PMMInv, CountInv
  <2> QED BY <2>1, <2>2, <2>3, <2>4 DEF UnreservedExact
<1> QED BY <1>1, PMMInvHolds, PTL

\* The self-test panics only when an allocation failed; otherwise both rounds
\* get the same addresses and every page is free again.
THEOREM SelfTestSoundHolds == Spec => []SelfTestSound
<1>1. ASSUME PMMInv PROVE SelfTestSound
  <2> DEFINE N == Len(TestSizes)
             a == got[1]
             b == got[2]
             T == {j \in 1 .. N : a[j] # b[j]}
  <2>1. phase = "panic" /\ bitmapMemory # 0 => \E i \in DOMAIN TestSizes : got[round][i] = 0
      BY <1>1 DEF PMMInv, PanicInv
  <2>2. ASSUME phase = "done" PROVE a = b /\ allocatable = {}
    <3>1. /\ allocatable = {} /\ a \in Seq(Nat) /\ b \in Seq(Nat) /\ Len(a) = N /\ Len(b) = N
          /\ N \in Nat
        BY <1>1, <2>2, TestSizesAssumption DEF PMMInv, TestInv
    <3>2. /\ \A j \in 1 .. N : Answers(a[j], TestSizes[j], (Frames \ reserved) \ TakenBy(a, j - 1))
          /\ \A j \in 1 .. N : Answers(b[j], TestSizes[j], (Frames \ reserved) \ TakenBy(b, j - 1))
      <4>1. TestInv /\ Counted BY <1>1, <2>2 DEF PMMInv, Counted
      <4>2. \A r \in {1, 2} : \A j \in 1 .. Len(got[r]) :
              Answers(got[r][j], TestSizes[j], (Frames \ reserved) \ TakenBy(got[r], j - 1))
        BY <4>1 DEF TestInv
      <4>3. \A j \in 1 .. Len(a) :
              Answers(a[j], TestSizes[j], (Frames \ reserved) \ TakenBy(a, j - 1))
        BY <4>2
      <4>4. \A j \in 1 .. Len(b) :
              Answers(b[j], TestSizes[j], (Frames \ reserved) \ TakenBy(b, j - 1))
        BY <4>2
      <4> HIDE DEF a, b, N
      <4> QED BY <3>1, <4>3, <4>4
    <3>3. \A j \in 1 .. N : TestSizes[j] \in Nat \ {0} /\ a[j] \in Nat /\ b[j] \in Nat
      <4>1. \A j \in 1 .. N : TestSizes[j] \in Nat \ {0} BY TestSizesAssumption
      <4> HIDE DEF a, b, N
      <4>2. \A j \in 1 .. N : a[j] \in Nat /\ b[j] \in Nat BY <3>1
      <4> QED BY <4>1, <4>2
    <3> HIDE DEF a, b
    <3>4. SUFFICES ASSUME T # {} PROVE FALSE
      <4>1. CASE T = {}
        <5>1. \A j \in 1 .. N : a[j] = b[j] BY <4>1
        <5> HIDE DEF N
        <5>2. a = b BY <3>1, <5>1, SeqEqual
        <5> QED BY <3>1, <5>2
      <4> QED BY <4>1
    <3>5. T \in SUBSET Nat OBVIOUS
    <3>6. PICK j \in T : \A i \in T : j <= i BY <3>4, <3>5, Least
    <3>7. j \in 1 .. N /\ j \in Nat /\ j - 1 \in Nat /\ a[j] # b[j] BY <3>6
    <3>8. ASSUME NEW i \in 1 .. j - 1 PROVE a[i] = b[i]
      <4>1. i \in 1 .. N /\ i < j BY <3>1, <3>7
      <4>2. i \notin T BY <3>6, <3>7, <4>1
      <4> QED BY <4>1, <4>2
    <3>9. TakenBy(a, j - 1) = TakenBy(b, j - 1) BY <3>7, <3>8, TakenBySame
    <3>10. a[j] = b[j] BY <3>2, <3>3, <3>7, <3>9, AnswersUnique
    <3> QED BY <3>7, <3>10
  <2> QED BY <2>1, <2>2 DEF SelfTestSound
<1> QED BY <1>1, PMMInvHolds, PTL
==============================================================================
