----------------------------- MODULE KernelStart -----------------------------
(***************************************************************************)
(* kmain and Kernel::Initialize: the calls that set up the components, in  *)
(* their order, with what each needs of the ones before it and of the boot *)
(* loader's answers, and the ways out: a panic, or a fault where the code  *)
(* uses what is not there.  CommandLine runs as its steps; PagingInit,     *)
(* Descriptors, CPU, ACPI and Formatter compute what a call leaves.        *)
(*                                                                         *)
(* A call picks its input and leaves its result in made, and Return        *)
(* forgets both: later calls use only what up, response, core and          *)
(* infoLogged keep.  What the boot loader answers is chosen where it is    *)
(* first read.  Interrupts during the start are in IDT.                    *)
(***************************************************************************)
EXTENDS Formatter, Descriptors, PagingInit, CPU, ACPI

CONSTANTS
    LOG_LEVEL,       \* the identifier of Parameters::LOG_LEVEL
    INT_MAX,         \* of the int behind LogLevel, scaled like UINT64_MAX
    Addresses,       \* where the TSS and the stubs of the IDT may be
    BootTables,      \* a family of [mem, cr3]: the boot loader's page tables
    FreeFrames,      \* how many frames AllocatePages has to give: 1, 2, ...
    Counts,          \* how many pages are searched for
    Brands,          \* brand strings
    Firmwares,       \* the firmware's tables
    Signatures,      \* those asked of GetTable
    Messages         \* [format, args] that are logged

ASSUME KernelStartAssumption ==
    /\ INT_MAX \in Nat /\ LOG_LEVEL \in Identifiers
    /\ \A a \in Addresses : a \subseteq 0 .. 63
    /\ \A k \in DOMAIN BootTables :
         \E i \in KernelSlots : ~BootTables[k].mem[BootTables[k].cr3][i].present
    /\ \A b \in Brands :                   \* CPUID fills up with NUL
         /\ b \in Seq(STRING) /\ Len(b) = BrandChars
         /\ \A j, k \in 1 .. BrandChars : j <= k /\ b[j] = NUL => b[k] = NUL

ASSUME FirmwaresAssumption ==
    \A fw \in Firmwares :
        LET root == Root(fw)
        IN /\ fw.revision \in Nat
           /\ DOMAIN root.pointers = 1 .. Len(root.pointers) /\ Len(root.pointers) \in Nat
           /\ root.length = SizeOfSDTHeader + PointerSize(fw) * Len(root.pointers)
           /\ \A i \in DOMAIN root.pointers :     \* a FADT has what its length covers
                LET t == root.pointers[i]
                IN t.sig = "FACP" => t.dsdt # Wild /\ (t.length >= XDsdtEnd => t.xDsdt # Wild)

ASSUME MessagesAssumption ==               \* FormatString counts the arguments
    \A m \in Messages :
        /\ m.format \in Seq(STRING) /\ CountArgs(m.format) = Len(m.args)
        /\ DOMAIN m.args = 1 .. Len(m.args) /\ \A k \in DOMAIN m.args : IsValue(m.args[k])

ASSUME BootTablesAssumption ==
    /\ FreeFrames \subseteq Nat /\ Counts \subseteq Nat \ {0}
    /\ \A k \in DOMAIN BootTables, n \in FreeFrames :
         LET boot == BootTables[k]
         IN /\ Memory(boot.mem, n) /\ boot.cr3 \in DOMAIN boot.mem
            /\ SourcePML4(boot.mem, n, boot.cr3) /\ SmallPages(boot.mem, boot.cr3)

VARIABLES
    call,            \* which of Calls is under way
    status,          \* "running", "panic" or "fault"
    response,        \* the boot loader's answers: "unread", "null" or "there"
    up,              \* what has been set up
    core,            \* the control registers of the boot CPU
    infoLogged,      \* LogMessage(INFO): INFO >= minimumLogLevel
    given, made      \* input and result of the call under way

kept == <<response, up, core, infoLogged>>
lineVars == vars                            \* of CommandLine
startVars == <<call, status, kept, given, made, lineVars>>

Requests == {"framebuffer", "commandline", "mp", "memmap", "hhdm", "rsdp"}

PagingFirst ==                              \* Mutant: paging before the GDT
    <<"serial", "framebuffer", "commandline", "mp", "pmm", "paging", "gdt", "idt",
      "cpu", "simd", "nx", "acpi", "ioapic", "lapic", "log", "start">>

Calls ==
    <<"serial", "framebuffer", "commandline", "mp", "gdt", "pmm", "paging", "idt",
      "cpu", "simd", "nx", "acpi", "ioapic", "lapic", "log", "start">>

Working(x) == <<"working", x>>              \* a loop of the call is under way
Done(x) == <<"done", x>>

NoLine == /\ cmdline = <<>> /\ pc = "none" /\ hasCommandLine = FALSE
          /\ pos = 0 /\ previouspos = 0 /\ quotes = FALSE /\ count = 0 /\ out = <<>>
          /\ asked = <<>> /\ result = None

StartInit ==
    /\ call = 1 /\ status = "running"
    /\ response = [r \in Requests |-> "unread"]
    /\ up = {}
    /\ core = [has |-> {}, cr0 |-> {"PE", "PG"}, cr4 |-> {"PAE"}, xcr0 |-> {"x87"}, efer |-> {}]
    /\ infoLogged = TRUE                    \* Data is static: the level is DEBUG
    /\ given = <<>> /\ made = <<>>
    /\ NoLine

Calling(name) == status = "running" /\ Calls[call] = name /\ made = <<>>
Busy(name) == status = "running" /\ Calls[call] = name /\ made # <<>> /\ made[1] = "working"
Finished(name) == status = "running" /\ Calls[call] = name /\ made # <<>> /\ made[1] = "done"

GoOn == call' = call + 1 /\ UNCHANGED <<status, given, made>>
Leave(g, m) == given' = g /\ made' = m /\ UNCHANGED <<call, status>>
End(how) == status' = how /\ UNCHANGED <<call, given, made>>
Answer(r, a) == /\ a \in {"null", "there"} /\ response[r] \in {"unread", a}
                /\ response' = [response EXCEPT ![r] = a]
There(r) == response[r] = "there"

\* The end of a call that left a result.
Return == /\ \E k \in DOMAIN Calls : Finished(Calls[k])
          /\ call' = call + 1 /\ given' = <<>> /\ made' = <<>>
          /\ UNCHANGED <<status, kept, lineVars>>

(***************************************************************************)
(* The devices, and the command line.                                      *)
(***************************************************************************)
SerialInitialize ==                         \* the port is there or not
    /\ Calling("serial")
    /\ GoOn
    /\ UNCHANGED <<kept, lineVars>>

\* No response, no framebuffer in it, or a failure of flanterm_fb_init.
FramebufferInitialize ==
    /\ Calling("framebuffer")
    /\ \E a \in {"null", "there"} :
         /\ Answer("framebuffer", a)
         /\ \/ End("panic") /\ UNCHANGED up
            \/ a = "there" /\ GoOn /\ up' = up \cup {"framebuffer"}
    /\ UNCHANGED <<core, infoLogged, lineVars>>

\* CommandLineExtractor::Initialize reads the line even without a response.
ReadCommandLine ==
    /\ Calling("commandline") /\ pc = "none"
    /\ \E a \in {"null", "there"} :
         /\ Answer("commandline", a)
         /\ IF a = "null" THEN End("fault") /\ UNCHANGED <<cmdline, pc>>
            ELSE /\ cmdline' \in CommandLines /\ pc' = "split"
                 /\ UNCHANGED <<call, status, given, made>>
    /\ UNCHANGED <<up, core, infoLogged, loop, hasCommandLine, asked, result>>

CommandLineInitialize ==                    \* the rest of Initialize
    /\ Calling("commandline")
    /\ SplitLast \/ SplitEnd \/ SplitSpace \/ SplitSkip \/ Initialize
    /\ UNCHANGED <<call, status, kept, given, made>>

\* A GetValue, or a page fault of its search behind the line.
AskCommandLine(T, identifier) ==
    /\ Calling("commandline")
    /\ \/ Ask(T, identifier) /\ UNCHANGED <<call, status, given, made>>
       \/ /\ pc = "ready" /\ asked = <<>> /\ LeavesLine(T, identifier)
          /\ End("fault")
          /\ UNCHANGED lineVars
    /\ UNCHANGED kept

INFO == 1
\* static_cast<LogLevel>: to int.  The line is not needed any more.
AsInt(v) == LET low == v % (2 * INT_MAX + 2)
            IN IF low > INT_MAX THEN low - (2 * INT_MAX + 2) ELSE low
ReadLogLevel ==
    /\ Calling("commandline") /\ pc = "ready"
    /\ \/ /\ LET level == GetValue("uint64_t", LOG_LEVEL)
             IN infoLogged' = IF level = None THEN infoLogged ELSE INFO >= AsInt(level[2])
          /\ GoOn
          /\ cmdline' = <<>> /\ pc' = "none" /\ hasCommandLine' = FALSE
          /\ pos' = 0 /\ previouspos' = 0 /\ quotes' = FALSE /\ count' = 0 /\ out' = <<>>
          /\ asked' = <<>> /\ result' = None
       \/ /\ LeavesLine("uint64_t", LOG_LEVEL)
          /\ End("fault")
          /\ UNCHANGED <<infoLogged, lineVars>>
    /\ UNCHANGED <<response, up, core>>

(***************************************************************************)
(* The processor's tables and memory.                                      *)
(***************************************************************************)
FindProcessors ==
    /\ Calling("mp")
    /\ \E a \in {"null", "there"} : Answer("mp", a) /\ IF a = "null" THEN End("panic") ELSE GoOn
    /\ UNCHANGED <<up, core, infoLogged, lineVars>>

\* GDT::Initialize; GS.base holds the CPU's number from here on.
GDTInitialize ==
    /\ Calling("gdt")
    /\ IF There("mp")
       THEN \E address \in Addresses :
              Leave(address, Done([gdt |-> GDT(address),
                                   tss |-> TSS("StackTop", "DefaultFaultHandlerTop")]))
       ELSE End("fault")
    /\ up' = up \cup {"gdt", "gs"}
    /\ UNCHANGED <<response, core, infoLogged, lineVars>>

\* PhysicalMemoryManager::Initialize (PMMInit), up to its checks.
PMMInitialize ==
    /\ Calling("pmm")
    /\ \E a, b \in {"null", "there"} :
         /\ response' = [response EXCEPT !["memmap"] = a, !["hhdm"] = b]
         /\ \/ End("panic") /\ UNCHANGED up
            \/ a = "there" /\ b = "there" /\ GoOn /\ up' = up \cup {"pmm"}
    /\ UNCHANGED <<core, infoLogged, lineVars>>

\* What Paging::Initialize makes of each of the boot loader's tables.
Initialized ==
    {[boot |-> boot, frames |-> frames,
      tables |-> PagingInitialize(BootTables[boot].mem, BootTables[boot].cr3, InOrder(1, frames))] :
         boot \in DOMAIN BootTables, frames \in FreeFrames}

\* Paging::Initialize.  SwitchToPageTable finds CpuData through GS.base.
InitializePaging ==
    /\ Calling("paging")
    /\ IF ~There("hhdm") \/ ~({"pmm", "gs"} \subseteq up)
       THEN End("fault") /\ UNCHANGED up
       ELSE \E i \in Initialized :
              /\ given' = [boot |-> i.boot, frames |-> i.frames]
              /\ IF i.tables.panic THEN status' = "panic" /\ UNCHANGED <<call, made, up>>
                 ELSE /\ made' = Done([tables |-> i.tables, found |-> <<>>])
                      /\ up' = up \cup {"paging"}
                      /\ UNCHANGED <<call, status>>
    /\ UNCHANGED <<response, core, infoLogged, lineVars>>

\* The search of IOAPICManager and LAPIC, for any number of pages.
FindRange(n) ==
    /\ Finished("paging") /\ made[2].found = <<>>
    /\ LET r == made[2].tables
       IN Leave(given, Done([made[2] EXCEPT !.found = <<n, FindAvailable(r.mem, r.root, n)>>]))
    /\ UNCHANGED <<kept, lineVars>>

\* IDT::Initialize: the gate of one vector; the rest is in IDT.
IDTInitialize ==
    /\ Calling("idt")
    /\ IF {"gdt", "paging"} \subseteq up
       THEN \E v \in {0, 8, 13, 14, 32}, isr \in Addresses : Leave(<<v, isr>>, Done(Gate(v, isr)))
       ELSE End("fault")
    /\ up' = up \cup {"idt"}
    /\ UNCHANGED <<response, core, infoLogged, lineVars>>

(***************************************************************************)
(* CPU::Initialize and CPU::InitializeCore.                                *)
(***************************************************************************)
ReadBrand ==
    /\ Calling("cpu")
    /\ \E brand \in Brands :
         LET buffer == BrandBuffer(brand)
         IN Leave(brand, Working([buffer |-> buffer, start |-> StartIndex(buffer), shift |-> 0]))
    /\ UNCHANGED <<kept, lineVars>>

ShiftBrand ==
    /\ Busy("cpu") /\ Shifting(made[2])
    /\ Leave(given, Working(ShiftOne(made[2])))
    /\ UNCHANGED <<kept, lineVars>>

\* The end of ReadBrandString, and GetCoreCount.
EndBrand ==
    /\ Busy("cpu") /\ ~Shifting(made[2])
    /\ IF There("mp") THEN Leave(given, Done(GetCPUName(ShiftEnd(made[2])))) ELSE End("fault")
    /\ UNCHANGED <<kept, lineVars>>

Program(name) == IF name = "simd" THEN SIMD(core.has) ELSE NX
Can(name, has) == IF name = "simd" THEN CanSIMD(has) ELSE CanNX(has)

\* cpuid: the features are seen first by InitializeSIMD.
ReadFeatures(name) ==
    /\ Calling(name)
    /\ \E has \in IF name = "simd" THEN SUBSET Features ELSE {core.has} :
         /\ core' = [core EXCEPT !.has = has]
         /\ IF Can(name, has) THEN Leave(<<>>, Working(1)) ELSE End("panic")
    /\ UNCHANGED <<response, up, infoLogged, lineVars>>

\* One instruction: it faults, or is executed; a failed test panics.
Instruction(name) ==
    /\ Busy(name)
    /\ LET ins == Program(name)[made[2]]
           last == made[2] = Len(Program(name))
       IN IF ~Legal(core, ins) THEN End("fault") /\ UNCHANGED core
          ELSE /\ core' = Execute(core, ins)
               /\ \/ Leave(<<>>, IF last THEN Done(core') ELSE Working(made[2] + 1))
                  \/ ins \in Verified /\ End("panic")
    /\ UNCHANGED <<response, up, infoLogged, lineVars>>

(***************************************************************************)
(* ACPI::Initialize, with the wait of WriteByteCommand for SCI_EN.         *)
(***************************************************************************)
ACPIInitialize ==
    /\ Calling("acpi")
    /\ \E a \in {"null", "there"}, fw \in Firmwares :
         /\ Answer("rsdp", a)
         /\ IF a = "null" \/ (There("hhdm") /\ InitializePanics(fw)) THEN End("panic") /\ UNCHANGED up
            ELSE IF ~There("hhdm") THEN End("fault") /\ UNCHANGED up
            ELSE /\ Leave([fw |-> fw, asked |-> <<>>], Working("SCI_EN"))
                 /\ up' = up \cup {"acpi"} \cup
                          IF GetTable(fw, "APIC", 0) = NullPointer THEN {} ELSE {"madt"}
    /\ UNCHANGED <<core, infoLogged, lineVars>>

SCIEnabled ==                               \* the firmware, at once or later
    /\ Busy("acpi")
    /\ Leave(given, Done(<<>>))
    /\ UNCHANGED <<kept, lineVars>>

AskTable(sig, index) ==
    /\ Finished("acpi") /\ given.asked = <<>>
    /\ Leave([given EXCEPT !.asked = <<sig, index>>], Done(GetTable(given.fw, sig, index)))
    /\ UNCHANGED <<kept, lineVars>>

(***************************************************************************)
(* IOAPICManager::Initialize and LAPIC::Initialize: what they need.  The   *)
(* MADT is read without a check.  No free page in the window panics.       *)
(***************************************************************************)
APICsInitialize(name) ==
    /\ Calling(name) /\ name \in {"ioapic", "lapic"}
    /\ IF {"paging", "gs"} \cup (IF name = "ioapic" THEN {"acpi", "madt"} ELSE {}) \subseteq up
       THEN End("panic") \/ GoOn
       ELSE End("fault")
    /\ UNCHANGED <<kept, lineVars>>

(***************************************************************************)
(* kmain: LOG_INFO, Kernel::Start, which is empty, and the last panic.     *)
(***************************************************************************)
Written == {[message |-> m, text |-> WriteArgs(m.format, m.args)] : m \in Messages}

LogInfo ==
    /\ Calling("log")
    /\ IF infoLogged
       THEN \E w \in Written : Leave(w.message, Done(w.text))
       ELSE GoOn
    /\ UNCHANGED <<kept, lineVars>>

Start == /\ Calling("start")
         /\ End("panic")
         /\ UNCHANGED <<kept, lineVars>>

Boots == \/ SerialInitialize \/ FramebufferInitialize
         \/ ReadCommandLine \/ CommandLineInitialize \/ ReadLogLevel
         \/ FindProcessors \/ GDTInitialize \/ PMMInitialize \/ InitializePaging \/ IDTInitialize
         \/ ReadBrand \/ ShiftBrand \/ EndBrand \/ ACPIInitialize \/ SCIEnabled
         \/ \E name \in {"simd", "nx"} : ReadFeatures(name) \/ Instruction(name)
         \/ \E name \in {"ioapic", "lapic"} : APICsInitialize(name)
         \/ LogInfo \/ Start \/ Return

StartNext == \/ Boots
             \/ \E T \in Types, identifier \in Identifiers : AskCommandLine(T, identifier)
             \/ \E n \in Counts : FindRange(n)
             \/ \E sig \in Signatures, index \in 0 .. 1 : AskTable(sig, index)

\* The boot CPU goes on executing, and the firmware enables ACPI when it is
\* asked to.  The questions (AskCommandLine, FindRange, AskTable) may never
\* come.
StartSpec == StartInit /\ [][StartNext]_startVars /\ WF_startVars(Boots)

(***************************************************************************)
(* Properties.                                                             *)
(***************************************************************************)
\* The order of the calls in Kernel::Initialize, and the checks before each
\* use of what the boot loader may have left out, keep the start from
\* faulting: every register, table and response is set up before the code
\* that depends on it.  Three uses are not covered: the command line of a
\* null response, the search for a "=" behind a command line that has an
\* empty argument, and the MADT of firmware that has none.
NoFault ==
    status = "fault" =>
        \/ Calls[call] = "commandline" /\ response["commandline"] = "null"
        \/ Calls[call] = "commandline" /\ pc = "ready"
           /\ \E k \in 1 .. count + 1 : out[k] = <<>>
        \/ Calls[call] = "ioapic" /\ "acpi" \in up /\ "madt" \notin up

\* What GDT::Initialize and IDT::Initialize encode piece by piece is what
\* the processor puts together again: flat segments, the TSS and each stub
\* at whatever 64-bit address they are.
DescriptorsExact ==
    /\ Finished("gdt") => GdtReads(made[2].gdt, given) /\ TssReads(made[2].tss)
    /\ Finished("idt") => GateReads(made[2], given[1], given[2])

\* If Paging::Initialize returns, the kernel's tables translate as the boot
\* loader's did, huge pages included, and each is a frame of its own: memory
\* that ran out half way was noticed, although DeepCopyPageTables does not
\* look.  What a PDP that is not cleared shows is left out.
CopyExact ==
    Finished("paging") =>
        LET boot == BootTables[given.boot]
        IN Copied(boot.mem, boot.cr3, InOrder(1, given.frames), made[2].tables)

\* FindAvailableVirtualAddressRangeKernel gives the first pages that do not
\* translate, provided that the frame of the kernel's PDP held nothing where
\* the boot loader's PDP has no entry in the window.
FindExact ==
    Finished("paging") /\ made[2].found # <<>> =>
        LET boot == BootTables[given.boot]
            r == made[2].tables
            pdp == EntryOf(r.mem, r.root, PML4Size - 1).to
            clean == \A i \in Window : Uncopied(boot.mem, boot.cr3, <<PML4Size - 1, i>>)
                                         => ~EntryOf(boot.mem, pdp, i).present
        IN clean => FirstUntranslated(r.mem, r.root, made[2].found[1], made[2].found[2])

\* The name of a CPU whose brand string begins with a visible character is
\* the brand string up to the last one.
BrandTrimmed == Finished("cpu") /\ ~IsCharWhitespace(given[1]) => NameOf(given, made[2])

\* ReadBrandString comes to an end, whatever the brand string is: "Eliminate
\* leading whitespace by shifting the buffer contents to the front".
ReadBrandEnds == Busy("cpu") ~> ~Busy("cpu")

\* ACPI::GetTable answers as the firmware's root table says.
TablesFound ==
    Finished("acpi") /\ given.asked # <<>> =>
        Finds(given.fw, given.asked[1], given.asked[2], made[2])

\* A logged message is its format with the values in their places, each of
\* them readable as the value that it was, INT64_MIN and 0 included.
FormatExact ==
    Finished("log") /\ ~Escapes(given.format) =>
        MessageSays(given.format, given.args, made[2])

\* The start comes to an end: kmain's last panic, an earlier one or a fault.
\* The exception is a brand string in front of which something is to be
\* removed (ReadBrandEnds).
StartEnds == <>(status # "running" \/ (Busy("cpu") /\ Shifting(made[2])))
==============================================================================
