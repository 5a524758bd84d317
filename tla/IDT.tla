--------------------------------- MODULE IDT ---------------------------------
(***************************************************************************)
(* Interrupt dispatch on the boot CPU: Interrupts::IDT (the stubs of       *)
(* IDT.S, IRQHandler, HandleException, Initialize), the part of            *)
(* Interrupts::LAPIC that acknowledges interrupts, and the page table      *)
(* switch around a handler (Paging::SwitchToPageTable).                    *)
(*                                                                         *)
(* The thread runs Kernel::Initialize, then ordinary kernel code; a        *)
(* handler runs on top of it.  All gates are interrupt gates, so a handler *)
(* is not interrupted by another IRQ.  IRR, ISR and priorities are the     *)
(* processor's: the code relies on them, they are not part of it.          *)
(***************************************************************************)
EXTENDS Naturals, FiniteSets

CONSTANTS
    IrqVectors,     \* vectors that reach IRQHandler and that devices use
    Exceptions,     \* vectors that reach ExceptionHandler
    SPIRV_VECTOR,   \* the LAPIC's spurious vector, 0xFF
    ClassSize,      \* vectors per priority class (16)
    Spaces,         \* page tables (Paging::State)
    Kernel,         \* Paging::_kernelState
    EarlyIrqs,      \* bound: IRQs taken before the LAPIC is mapped
    None

ASSUME IDTAssumption ==
    /\ SPIRV_VECTOR \notin IrqVectors
    /\ ClassSize \in Nat \ {0} /\ EarlyIrqs \in Nat
    /\ {0, 3} \subseteq Exceptions /\ Exceptions \subseteq 0 .. 31
    /\ IrqVectors \cup {SPIRV_VECTOR} \subseteq 32 .. 255
    /\ Kernel \in Spaces /\ None \notin Spaces \cup IrqVectors \cup Exceptions

VARIABLES
    phase,         \* where the thread is in Kernel::Initialize
    iflag,         \* the interrupt flag
    isTesting,     \* _isTesting
    irqHandlers,   \* the vectors v with _irqHandlers[v] # nullptr
    pc,            \* where the handler is; "none" if the thread runs
    vec,           \* the vector being handled
    backupState,   \* IRQHandler's local
    cr3,           \* the page table the processor uses
    pageState,     \* CpuData::pageState
    space,         \* the address space the thread asked for (only observed)
    mmioBase,      \* LAPIC::_mmioBase # nullptr
    irr, isr,      \* the LAPIC's pending and in-service vectors
    early          \* how many IRQs came before mmioBase was set

boot == <<phase, isTesting, mmioBase>>
tables == <<cr3, pageState, space>>
lapic == <<irr, isr, early>>
vars == <<boot, iflag, irqHandlers, pc, vec, backupState, tables, lapic>>

Class(v) == v \div ClassSize
Highest(S) == CHOOSE v \in S : \A w \in S : w <= v

\* The stubs that IDT.S declares, and the table of their addresses: every
\* gate leads to ExceptionHandler or to IRQHandler.
ExceptionStubs == 0 .. 31
IrqStubs == 32 .. 255
ISRStubTable == [v \in ExceptionStubs \cup IrqStubs |->
                    IF v \in ExceptionStubs THEN "exception" ELSE "enter"]

Init ==
    /\ phase = "idt" /\ iflag = FALSE /\ isTesting = FALSE
    /\ irqHandlers = {}
    /\ pc = "none" /\ vec = None /\ backupState = None
    /\ cr3 = Kernel /\ pageState = Kernel /\ space = Kernel
    /\ mmioBase = FALSE
    /\ irr = {} /\ isr = {} /\ early = 0

Thread == pc = "none"
At(ph) == Thread /\ phase = ph

(***************************************************************************)
(* The thread: IDT::Initialize, LAPIC::Initialize, then kernel code.       *)
(***************************************************************************)
LoadIDT ==                  \* IDT.cpp 12-35, with the sti
    /\ At("idt")
    /\ irqHandlers' = {}
    /\ iflag' = TRUE
    /\ phase' = "testing"
    /\ UNCHANGED <<isTesting, pc, vec, backupState, tables, mmioBase, lapic>>

BeginTest ==                \* line 37
    /\ At("testing")
    /\ isTesting' = TRUE
    /\ phase' = "int0"
    /\ UNCHANGED <<mmioBase, iflag, irqHandlers, pc, vec, backupState, tables, lapic>>

TestInterrupt ==            \* lines 38-39: int $0 and int $3
    /\ \/ At("int0") /\ phase' = "int3" /\ vec' = 0
       \/ At("int3") /\ phase' = "tested" /\ vec' = 3
    /\ pc' = ISRStubTable[vec']
    /\ UNCHANGED <<isTesting, mmioBase, iflag, irqHandlers, backupState, tables, lapic>>

EndTest ==                  \* line 40; the vectors of 42-49: VectorAllocator
    /\ At("tested")
    /\ isTesting' = FALSE
    /\ phase' = "lapic"
    /\ UNCHANGED <<mmioBase, iflag, irqHandlers, pc, vec, backupState, tables, lapic>>

MapLapic ==                 \* LAPIC.cpp 11-23
    /\ At("lapic") /\ ~mmioBase
    /\ mmioBase' = TRUE
    /\ UNCHANGED <<phase, isTesting, iflag, irqHandlers, pc, vec, backupState, tables, lapic>>

ResetLapicNoEoi ==          \* Mutant: line 38 is left out
    /\ At("lapic") /\ mmioBase
    /\ iflag' = TRUE
    /\ phase' = "up"
    /\ UNCHANGED <<isTesting, mmioBase, irqHandlers, pc, vec, backupState, tables, lapic>>

\* Writing the EOI register ends the service of the highest vector.
EndOfInterrupt == isr' = IF isr = {} THEN isr ELSE isr \ {Highest(isr)}

ResetLapic ==               \* LAPIC.cpp 25-42: one write to EOI, and sti
    /\ At("lapic") /\ mmioBase
    /\ EndOfInterrupt
    /\ iflag' = TRUE
    /\ phase' = "up"
    /\ UNCHANGED <<isTesting, mmioBase, irqHandlers, pc, vec, backupState, tables, irr, early>>

RegisterIRQHandler(v, present) ==
    /\ At("up") \/ pc = "handler"
    /\ irqHandlers' = IF present THEN irqHandlers \cup {v} ELSE irqHandlers \ {v}
    /\ UNCHANGED <<boot, iflag, pc, vec, backupState, tables, lapic>>

Cli == /\ At("up") /\ iflag
       /\ iflag' = FALSE
       /\ UNCHANGED <<boot, irqHandlers, pc, vec, backupState, tables, lapic>>

Sti == /\ At("up") /\ ~iflag /\ cr3 = pageState
       /\ iflag' = TRUE
       /\ UNCHANGED <<boot, irqHandlers, pc, vec, backupState, tables, lapic>>

\* SwitchToPageTable by the thread, cr3 first; its callers run with
\* interrupts off.
ThreadLoadCr3(s) ==
    /\ At("up") /\ ~iflag /\ cr3 = pageState /\ s # cr3
    /\ cr3' = s
    /\ space' = s
    /\ UNCHANGED <<boot, iflag, irqHandlers, pc, vec, backupState, pageState, lapic>>

ThreadSetPageState ==
    /\ At("up") /\ cr3 # pageState
    /\ pageState' = space
    /\ UNCHANGED <<boot, iflag, irqHandlers, pc, vec, backupState, cr3, space, lapic>>

(***************************************************************************)
(* Devices and the LAPIC (external).                                       *)
(***************************************************************************)
Raise(v) ==
    /\ v \notin irr
    /\ mmioBase \/ early < EarlyIrqs
    /\ irr' = irr \cup {v}
    /\ early' = IF mmioBase THEN early ELSE early + 1
    /\ UNCHANGED <<boot, iflag, irqHandlers, pc, vec, backupState, tables, isr>>

Begin(v) == /\ iflag /\ Thread /\ phase # "idt"
            /\ vec' = v
            /\ pc' = ISRStubTable[v]
            /\ iflag' = FALSE
            /\ UNCHANGED <<boot, irqHandlers, backupState, tables>>

Deliverable(v) == /\ v \in irr /\ v = Highest(irr)
                  /\ \A w \in isr : Class(v) > Class(w)

Deliver(v) ==
    /\ Deliverable(v)
    /\ Begin(v)
    /\ irr' = irr \ {v}
    /\ isr' = isr \cup {v}
    /\ UNCHANGED early

Spurious == phase = "up" /\ Begin(SPIRV_VECTOR) /\ UNCHANGED lapic

(***************************************************************************)
(* The stub mac_IRQStub and IDT::IRQHandler(irq, registers).               *)
(***************************************************************************)
Enter ==                    \* 66-71
    /\ pc = "enter"
    /\ backupState' = pageState
    /\ cr3' = Kernel /\ pageState' = Kernel
    /\ pc' = IF vec \in irqHandlers THEN "handler" ELSE "restore"
    /\ UNCHANGED <<boot, iflag, irqHandlers, vec, space, lapic>>

\* A handler may change the page table: there is no rule against it.
HandlerSwitches(s) ==
    /\ pc = "handler"
    /\ cr3' = s /\ pageState' = s
    /\ UNCHANGED <<boot, iflag, irqHandlers, pc, vec, backupState, space, lapic>>

HandlerReturns ==
    /\ pc = "handler"
    /\ pc' = "restore"
    /\ UNCHANGED <<boot, iflag, irqHandlers, vec, backupState, tables, lapic>>

RestoreIfKernel ==          \* Mutant: compares with the kernel's page table
    /\ pc = "restore"
    /\ IF backupState # Kernel
       THEN cr3' = backupState /\ pageState' = backupState
       ELSE UNCHANGED <<cr3, pageState>>
    /\ pc' = "eoi"
    /\ UNCHANGED <<boot, iflag, irqHandlers, vec, backupState, space, lapic>>

Restore ==                  \* 75-77
    /\ pc = "restore"
    /\ IF backupState # pageState
       THEN cr3' = backupState /\ pageState' = backupState
       ELSE UNCHANGED <<cr3, pageState>>
    /\ pc' = "eoi"
    /\ UNCHANGED <<boot, iflag, irqHandlers, vec, backupState, space, lapic>>

\* The end of IRQHandler, of its locals and of the frame; iretq.
Return == /\ pc' = "none" /\ iflag' = TRUE /\ vec' = None /\ backupState' = None
          /\ UNCHANGED <<boot, irqHandlers, tables, irr, early>>

EoiOnlyIfHandled ==         \* Mutant: no EOI for a vector without a handler
    /\ pc = "eoi"
    /\ IF vec = SPIRV_VECTOR \/ ~mmioBase \/ vec \notin irqHandlers
       THEN UNCHANGED isr ELSE EndOfInterrupt
    /\ Return

Eoi ==                      \* 79-80, SendEOI and the iretq of the stub
    /\ pc = "eoi"
    /\ IF vec = SPIRV_VECTOR \/ ~mmioBase THEN UNCHANGED isr ELSE EndOfInterrupt
    /\ Return

(***************************************************************************)
(* The exception stubs and HandleException: returns while testing, and     *)
(* otherwise logs and panics.  _exceptionHandlers is never read.           *)
(***************************************************************************)
Exception(v) ==             \* a fault of kernel code, of the thread or a handler
    /\ At("lapic") \/ At("up") \/ pc = "handler"
    /\ vec' = v
    /\ pc' = ISRStubTable[v]
    /\ UNCHANGED <<boot, iflag, irqHandlers, backupState, tables, lapic>>

HandleException ==
    /\ pc = "exception"
    /\ IF isTesting THEN pc' = "none" /\ vec' = None /\ UNCHANGED iflag
                    ELSE pc' = "halted" /\ iflag' = FALSE /\ UNCHANGED vec
    /\ UNCHANGED <<boot, irqHandlers, backupState, tables, lapic>>

Handler == Enter \/ HandlerReturns \/ Restore \/ Eoi \/ HandleException

Boot == LoadIDT \/ BeginTest \/ TestInterrupt \/ EndTest \/ MapLapic \/ ResetLapic

Next == \/ Boot \/ Handler \/ Spurious
        \/ \E v \in IrqVectors : Raise(v) \/ Deliver(v)
        \/ \E v \in IrqVectors \cup {SPIRV_VECTOR}, b \in BOOLEAN : RegisterIRQHandler(v, b)
        \/ Cli \/ Sti \/ ThreadSetPageState
        \/ \E s \in Spaces : ThreadLoadCr3(s) \/ HandlerSwitches(s)
        \/ \E v \in Exceptions : Exception(v)

Spec == Init /\ [][Next]_vars

(***************************************************************************)
(* The thread and the handlers go on executing.  A section with interrupts *)
(* off ends, however many page tables it loads, and the LAPIC delivers     *)
(* what it may deliver: strongly fair both, because the thread is in and   *)
(* out of such sections and a higher vector may come first.                *)
(***************************************************************************)
Fairness == /\ WF_vars(Boot) /\ WF_vars(Handler)
            /\ WF_vars(ThreadSetPageState) /\ SF_vars(Sti)
            /\ \A v \in IrqVectors : SF_vars(Deliver(v))

FairSpec == Spec /\ Fairness

(***************************************************************************)
(* Properties.                                                             *)
(***************************************************************************)
\* Whatever interrupts and handlers do, the thread goes on in the address
\* space it asked for, and pageState names it (IRQHandler's backup, 67 and 75).
ThreadSpaceRestored ==
    Thread => cr3 = space /\ (iflag => pageState = space)

\* After LAPIC::Initialize no vector is left in service while the thread
\* runs: one left there would block its priority class for good.  "This
\* happened before the LAPIC was set up, safe to skip." (LAPIC.cpp:48)
NothingLeftInService == phase = "up" /\ Thread => isr = {}

\* An IRQ of the highest priority that is raised gets handled, with or
\* without a registered handler, early or late, unless the kernel panics.
HighestIrqServed ==
    LET v == Highest(IrqVectors)
    IN v \in irr ~> (pc = "enter" /\ vec = v) \/ pc = "halted"
==============================================================================
