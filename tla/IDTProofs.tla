------------------------------ MODULE IDTProofs ------------------------------
(***************************************************************************)
(* Interrupts, and the vectors that IDT.cpp gives out.                     *)
(*                                                                         *)
(* The thread's address space survives every interrupt, and the LAPIC has  *)
(* nothing left in service, for any vectors, any page tables and anything  *)
(* a handler does.  The second needs what the comment at LAPIC.cpp:48      *)
(* takes for granted: at most one interrupt comes before LAPIC::Initialize *)
(* (the hypothesis EarlyIrqs <= 1; with two of them TLC has a              *)
(* counterexample).                                                        *)
(*                                                                         *)
(* AllocateVector never gives out a vector that IDT::Initialize reserved,  *)
(* for any number of callers and any interleaving of their accesses to the *)
(* bitmap, although nothing locks it.  As long as no two calls overlap,    *)
(* the bitmap is exact and the lowest vector is given.                     *)
(***************************************************************************)
EXTENDS IDT, VectorAllocator, TLAPS

InIrq == pc \in {"enter", "handler", "restore", "eoi"}
Places == {"none", "enter", "handler", "restore", "eoi", "exception", "halted"}
Phases == {"idt", "testing", "int0", "int3", "tested", "lapic", "up"}

\* Until LAPIC::Initialize is through there is one address space and no
\* handler of an IRQ, so that HandleException, which returns to the thread
\* while testing, never leaves a handler behind.
BootInv ==
    /\ pc \in Places /\ phase \in Phases /\ iflag \in BOOLEAN
    /\ isTesting => phase \in {"int0", "int3", "tested"}
    /\ phase # "up" => /\ irqHandlers = {} /\ pc # "handler"
                       /\ cr3 = Kernel /\ pageState = Kernel /\ space = Kernel

\* Where the thread's page table is while a handler runs.
SpaceInv ==
    /\ pc \in {"enter", "eoi"} => cr3 = space /\ pageState = space
    /\ pc = "handler" => backupState = space /\ cr3 = pageState
    /\ pc = "restore" => backupState = space /\ cr3 = pageState
    /\ Thread => cr3 = space /\ (iflag => pageState = space)

\* The vectors in service other than the one that is being handled.
Left == IF InIrq THEN isr \ {vec} ELSE isr

\* A state in which HandleException does not return.
Dead == pc = "halted" \/ (pc = "exception" /\ ~isTesting)

\* The vector being handled is the highest in service, so that its EOI ends
\* its own service.  At most one other is in service, left from before the
\* LAPIC was mapped, and none after LAPIC::Initialize.
ServiceInv ==
    /\ irr \subseteq IrqVectors /\ isr \subseteq IrqVectors /\ early \in Nat
    /\ ~mmioBase => /\ phase # "up" /\ early <= EarlyIrqs
                    /\ early = 0 => irr \cup isr = {}
                    /\ \A a, b \in irr \cup isr : a = b
    /\ ~Dead => \A a, b \in Left : a = b
    /\ phase = "up" /\ ~Dead => Left = {}
    /\ InIrq => \/ vec = SPIRV_VECTOR
                \/ vec \in isr /\ \A w \in isr : w <= vec

(***************************************************************************)
(* Vectors.                                                                *)
(***************************************************************************)
\* The gates of the IDT lead where they should.
LEMMA Gates ==
    /\ \A v \in Exceptions : ISRStubTable[v] = "exception"
    /\ \A v \in IrqVectors \cup {SPIRV_VECTOR} : ISRStubTable[v] = "enter"
    /\ ISRStubTable[0] = "exception" /\ ISRStubTable[3] = "exception"
<1>1. /\ Exceptions \subseteq 0 .. 31 /\ 0 \in Exceptions /\ 3 \in Exceptions
      /\ IrqVectors \cup {SPIRV_VECTOR} \subseteq 32 .. 255
    BY IDTAssumption
<1>2. \A v \in 0 .. 31 : ISRStubTable[v] = "exception"
    BY DEF ISRStubTable, ExceptionStubs, IrqStubs
<1>3. \A v \in 32 .. 255 : ISRStubTable[v] = "enter"
    BY DEF ISRStubTable, ExceptionStubs, IrqStubs
<1> QED BY <1>1, <1>2, <1>3

\* A vector of a higher priority class is a higher vector.
LEMMA HigherClass ==
    ASSUME NEW v \in Nat, NEW w \in Nat, Class(v) > Class(w)
    PROVE  w < v
<1> DEFINE C == ClassSize
           q == w \div C
           p == v \div C
<1>1. C \in Nat /\ C > 0 BY IDTAssumption
<1>2. /\ q \in Nat /\ p \in Nat /\ w < (q + 1) * C /\ p * C <= v BY <1>1
<1>3. q + 1 <= p BY <1>2 DEF Class
<1> HIDE DEF q, p, C
<1>4. (q + 1) * C <= p * C
  <2>1. PICK n \in Nat : p = (q + 1) + n
    <3>1. p - (q + 1) \in Nat BY <1>2, <1>3
    <3> QED BY <1>2, <3>1
  <2>2. p * C = (q + 1) * C + n * C BY <1>1, <1>2, <2>1
  <2>3. n * C \in Nat /\ (q + 1) * C \in Nat BY <1>1, <1>2
  <2> QED BY <2>2, <2>3
<1>5. (q + 1) * C \in Nat /\ p * C \in Nat BY <1>1, <1>2
<1> QED BY <1>2, <1>4, <1>5

\* The EOI ends the service of the highest vector.
LEMMA HighestIs ==
    ASSUME NEW S \in SUBSET IrqVectors, NEW v \in S, \A w \in S : w <= v
    PROVE  Highest(S) = v
<1>1. IrqVectors \subseteq Nat BY IDTAssumption
<1>2. Highest(S) \in S /\ \A w \in S : w <= Highest(S) BY DEF Highest
<1>3. v <= Highest(S) /\ Highest(S) <= v /\ v \in Nat /\ Highest(S) \in Nat BY <1>1, <1>2
<1> HIDE DEF Highest
<1> QED BY <1>3

(***************************************************************************)
(* The thread's address space.                                             *)
(***************************************************************************)
LEMMA SpaceInit == Init => BootInv /\ SpaceInv
  BY DEF Init, BootInv, SpaceInv, Places, Phases, Thread

LEMMA SpaceNext == BootInv /\ SpaceInv /\ [Next]_vars => BootInv' /\ SpaceInv'
<1> SUFFICES ASSUME BootInv, SpaceInv, [Next]_vars PROVE BootInv' /\ SpaceInv' OBVIOUS
<1> USE DEF BootInv, SpaceInv, Places, Phases, Thread, At, boot, tables, lapic
<1>1. CASE LoadIDT BY <1>1 DEF LoadIDT
<1>2. CASE BeginTest BY <1>2 DEF BeginTest
<1>3. CASE TestInterrupt BY <1>3, Gates DEF TestInterrupt
<1>4. CASE EndTest BY <1>4 DEF EndTest
<1>5. CASE MapLapic BY <1>5 DEF MapLapic
<1>6. CASE ResetLapic BY <1>6 DEF ResetLapic
<1>7. CASE Enter BY <1>7 DEF Enter
<1>8. CASE HandlerReturns BY <1>8 DEF HandlerReturns
<1>9. CASE Restore BY <1>9 DEF Restore
<1>10. CASE Eoi BY <1>10 DEF Eoi, Return
<1>11. CASE HandleException BY <1>11 DEF HandleException
<1>12. CASE Spurious BY <1>12, Gates DEF Spurious, Begin
<1>13. ASSUME NEW v \in IrqVectors, Raise(v) PROVE BootInv' /\ SpaceInv' BY <1>13 DEF Raise
<1>14. ASSUME NEW v \in IrqVectors, Deliver(v) PROVE BootInv' /\ SpaceInv'
    BY <1>14, Gates DEF Deliver, Begin
<1>15. ASSUME NEW v \in IrqVectors \cup {SPIRV_VECTOR}, NEW b \in BOOLEAN, RegisterIRQHandler(v, b)
       PROVE  BootInv' /\ SpaceInv'
    BY <1>15 DEF RegisterIRQHandler
<1>16. CASE Cli BY <1>16 DEF Cli
<1>17. CASE Sti BY <1>17 DEF Sti
<1>18. CASE ThreadSetPageState BY <1>18 DEF ThreadSetPageState
<1>19. ASSUME NEW s \in Spaces, ThreadLoadCr3(s) PROVE BootInv' /\ SpaceInv'
    BY <1>19 DEF ThreadLoadCr3
<1>20. ASSUME NEW s \in Spaces, HandlerSwitches(s) PROVE BootInv' /\ SpaceInv'
    BY <1>20 DEF HandlerSwitches
<1>21. ASSUME NEW v \in Exceptions, Exception(v) PROVE BootInv' /\ SpaceInv'
    BY <1>21, Gates DEF Exception
<1>22. CASE UNCHANGED vars BY <1>22 DEF vars
<1> QED
    BY <1>1, <1>2, <1>3, <1>4, <1>5, <1>6, <1>7, <1>8, <1>9, <1>10, <1>11, <1>12, <1>13, <1>14,
       <1>15, <1>16, <1>17, <1>18, <1>19, <1>20, <1>21, <1>22
    DEF Next, Boot, Handler

\* Whatever interrupts come and whatever page table a handler loads, the
\* thread goes on in the address space it asked for.
THEOREM ThreadSpaceRestoredHolds == Spec => []ThreadSpaceRestored
<1>1. SpaceInv => ThreadSpaceRestored BY DEF SpaceInv, ThreadSpaceRestored
<1> QED BY <1>1, SpaceInit, SpaceNext, PTL DEF Spec

(***************************************************************************)
(* The vectors in service.                                                 *)
(***************************************************************************)
LEMMA ServiceInit == Init => ServiceInv
<1> SUFFICES ASSUME Init PROVE ServiceInv OBVIOUS
<1>1. EarlyIrqs \in Nat BY IDTAssumption
<1> QED BY <1>1 DEF Init, ServiceInv, InIrq, Left, Dead

\* A step that neither begins nor ends a handler, nor changes the LAPIC.
LEMMA SameService ==
    ASSUME ServiceInv, UNCHANGED <<irr, isr, early, mmioBase, vec>>,
           InIrq' <=> InIrq, Dead' <=> Dead, phase' = "up" <=> phase = "up"
    PROVE  ServiceInv'
<1>1. Left' = Left BY DEF Left
<1> QED BY <1>1 DEF ServiceInv

LEMMA ServiceNext ==
    ASSUME EarlyIrqs <= 1
    PROVE  BootInv /\ SpaceInv /\ ServiceInv /\ [Next]_vars => ServiceInv'
<1> SUFFICES ASSUME BootInv, SpaceInv, ServiceInv, [Next]_vars PROVE ServiceInv' OBVIOUS
<1>a. IrqVectors \subseteq Nat /\ SPIRV_VECTOR \notin IrqVectors /\ EarlyIrqs \in Nat
    BY IDTAssumption
<1> USE DEF BootInv, Thread, At, boot, tables, lapic
<1>1. CASE LoadIDT BY <1>1, SameService DEF LoadIDT, InIrq, Dead
<1>2. CASE BeginTest BY <1>2, SameService DEF BeginTest, InIrq, Dead
<1>3. CASE TestInterrupt
  <2>1. pc = "none" /\ pc' = "exception" /\ isTesting' = isTesting /\ phase # "up" /\ phase' # "up"
        /\ UNCHANGED <<irr, isr, early, mmioBase>>
      BY <1>3, Gates DEF TestInterrupt
  <2>2. Left' = Left BY <2>1 DEF Left, InIrq
  <2> QED BY <2>1, <2>2 DEF ServiceInv, InIrq, Dead
<1>4. CASE EndTest BY <1>4, SameService DEF EndTest, InIrq, Dead
<1>5. CASE MapLapic
  <2>1. Left' = Left BY <1>5 DEF MapLapic, Left, InIrq
  <2> QED BY <1>5, <2>1 DEF MapLapic, ServiceInv, InIrq, Dead
<1>6. CASE ResetLapic
  <2>1. pc = "none" /\ pc' = pc /\ mmioBase /\ mmioBase' = mmioBase /\ UNCHANGED <<irr, early>>
      BY <1>6 DEF ResetLapic
  <2>2. \A a, b \in isr : a = b BY <2>1 DEF ServiceInv, Left, InIrq, Dead
  <2>3. isr' = {}
    <3>1. CASE isr = {} BY <1>6, <3>1 DEF ResetLapic, EndOfInterrupt
    <3>2. ASSUME NEW v \in isr PROVE isr' = {}
      <4>1. \A w \in isr : w <= v BY <1>a, <2>2 DEF ServiceInv
      <4>2. Highest(isr) = v BY <4>1, HighestIs DEF ServiceInv
      <4> QED BY <1>6, <2>2, <4>2 DEF ResetLapic, EndOfInterrupt
    <3> QED BY <3>1, <3>2
  <2>4. Left' = {} BY <2>3 DEF Left
  <2> QED BY <2>1, <2>3, <2>4 DEF ServiceInv, InIrq, Dead
<1>7. CASE Enter BY <1>7, SameService DEF Enter, InIrq, Dead
<1>8. CASE HandlerReturns BY <1>8, SameService DEF HandlerReturns, InIrq, Dead
<1>9. CASE Restore BY <1>9, SameService DEF Restore, InIrq, Dead
<1>10. CASE Eoi
  <2>1. /\ pc = "eoi" /\ pc' = "none" /\ UNCHANGED <<irr, early, mmioBase, phase>>
        /\ isr \subseteq IrqVectors
      BY <1>10 DEF Eoi, Return, ServiceInv
  <2>2. Left = isr \ {vec} /\ Left' = isr' /\ ~Dead /\ ~Dead' /\ ~InIrq' /\ InIrq
      BY <2>1 DEF Left, InIrq, Dead
  <2>3. CASE vec = SPIRV_VECTOR
    <3>1. isr' = isr /\ Left = isr BY <1>10, <1>a, <2>1, <2>2, <2>3 DEF Eoi
    <3> QED BY <2>1, <2>2, <3>1 DEF ServiceInv
  <2>4. CASE vec # SPIRV_VECTOR /\ ~mmioBase
    <3>1. isr' = isr BY <1>10, <2>4 DEF Eoi
    <3> QED BY <2>1, <2>2, <2>4, <3>1 DEF ServiceInv
  <2>5. CASE vec # SPIRV_VECTOR /\ mmioBase
    <3>1. vec \in isr /\ \A w \in isr : w <= vec BY <2>2, <2>5 DEF ServiceInv
    <3>2. Highest(isr) = vec BY <2>1, <3>1, HighestIs
    <3>3. isr' = Left BY <1>10, <2>2, <2>5, <3>1, <3>2 DEF Eoi, EndOfInterrupt
    <3> QED BY <2>1, <2>2, <2>5, <3>3 DEF ServiceInv
  <2> QED BY <2>3, <2>4, <2>5
<1>11. CASE HandleException
  <2>1. /\ pc = "exception" /\ pc' \in {"none", "halted"} /\ (pc' = "none" <=> isTesting)
        /\ UNCHANGED <<irr, isr, early, mmioBase, phase, isTesting>>
      BY <1>11 DEF HandleException
  <2>2. Left' = Left BY <2>1 DEF Left, InIrq
  <2> QED BY <2>1, <2>2 DEF ServiceInv, InIrq, Dead
<1>12. CASE Spurious
  <2>1. /\ pc = "none" /\ pc' = "enter" /\ vec' = SPIRV_VECTOR
        /\ UNCHANGED <<irr, isr, early, mmioBase, phase, isTesting>>
      BY <1>12, Gates DEF Spurious, Begin
  <2>2. Left' = Left BY <1>a, <2>1 DEF Left, InIrq, ServiceInv
  <2> QED BY <2>1, <2>2 DEF ServiceInv, InIrq, Dead
<1>13. ASSUME NEW v \in IrqVectors, Raise(v) PROVE ServiceInv'
  <2>1. /\ UNCHANGED <<pc, vec, isr, mmioBase, phase, isTesting>> /\ irr' = irr \cup {v}
        /\ early' = IF mmioBase THEN early ELSE early + 1
        /\ mmioBase \/ early < EarlyIrqs
      BY <1>13 DEF Raise
  <2>2. Left' = Left BY <2>1 DEF Left, InIrq
  <2>3. ~mmioBase => early = 0 /\ irr \cup isr = {} BY <1>a, <2>1 DEF ServiceInv
  <2> QED BY <1>a, <2>1, <2>2, <2>3 DEF ServiceInv, InIrq, Dead
<1>14. ASSUME NEW v \in IrqVectors, Deliver(v) PROVE ServiceInv'
  <2>1. /\ pc = "none" /\ pc' = "enter" /\ vec' = v /\ v \in irr
        /\ irr' = irr \ {v} /\ isr' = isr \cup {v} /\ \A w \in isr : Class(v) > Class(w)
        /\ UNCHANGED <<early, mmioBase, phase, isTesting>>
      BY <1>14, Gates DEF Deliver, Begin, Deliverable
  <2>2. \A w \in isr : w < v BY <1>a, <2>1, HigherClass DEF ServiceInv
  <2>3. v \notin isr BY <1>a, <2>2
  <2>4. Left = isr /\ Left' = isr /\ ~Dead BY <2>1, <2>3 DEF Left, InIrq, Dead
  <2>5. \A w \in isr' : w <= v BY <1>a, <2>1, <2>2 DEF ServiceInv
  <2> QED BY <2>1, <2>4, <2>5 DEF ServiceInv, InIrq, Dead
<1>15. ASSUME NEW v \in IrqVectors \cup {SPIRV_VECTOR}, NEW b \in BOOLEAN, RegisterIRQHandler(v, b)
       PROVE  ServiceInv'
    BY <1>15, SameService DEF RegisterIRQHandler, InIrq, Dead
<1>16. CASE Cli BY <1>16, SameService DEF Cli, InIrq, Dead
<1>17. CASE Sti BY <1>17, SameService DEF Sti, InIrq, Dead
<1>18. CASE ThreadSetPageState BY <1>18, SameService DEF ThreadSetPageState, InIrq, Dead
<1>19. ASSUME NEW s \in Spaces, ThreadLoadCr3(s) PROVE ServiceInv'
    BY <1>19, SameService DEF ThreadLoadCr3, InIrq, Dead
<1>20. ASSUME NEW s \in Spaces, HandlerSwitches(s) PROVE ServiceInv'
    BY <1>20, SameService DEF HandlerSwitches, InIrq, Dead
<1>21. ASSUME NEW v \in Exceptions, Exception(v) PROVE ServiceInv'
  <2>1. /\ pc' = "exception" /\ phase \in {"lapic", "up"}
        /\ UNCHANGED <<irr, isr, early, mmioBase, phase, isTesting>>
      BY <1>21, Gates DEF Exception
  <2>2. Dead' /\ ~InIrq' BY <2>1 DEF Dead, InIrq
  <2> QED BY <2>1, <2>2 DEF ServiceInv
<1>22. CASE UNCHANGED vars BY <1>22, SameService DEF vars, InIrq, Dead
<1> QED
    BY <1>1, <1>2, <1>3, <1>4, <1>5, <1>6, <1>7, <1>8, <1>9, <1>10, <1>11, <1>12, <1>13, <1>14,
       <1>15, <1>16, <1>17, <1>18, <1>19, <1>20, <1>21, <1>22
    DEF Next, Boot, Handler

\* If at most one interrupt comes before the LAPIC is mapped, nothing stays
\* in service behind the thread once LAPIC::Initialize is through.
THEOREM NothingLeftInServiceHolds ==
    ASSUME EarlyIrqs <= 1
    PROVE  Spec => []NothingLeftInService
<1>1. ServiceInv => NothingLeftInService
    BY DEF ServiceInv, NothingLeftInService, Thread, Left, InIrq, Dead
<1> QED BY <1>1, SpaceInit, SpaceNext, ServiceInit, ServiceNext, PTL DEF Spec

(***************************************************************************)
(* The vectors (VectorAllocator, whose VectorSpec the theorems below are   *)
(* about).                                                                 *)
(***************************************************************************)

(***************************************************************************)
(* The arithmetic of vectors: byte and bit of a vector, and back.          *)
(***************************************************************************)
\* (i << 3) | bit is a vector with that byte and that bit.
LEMMA ByteAndBit ==
    ASSUME NEW k \in Byte, NEW b \in Bit
    PROVE  /\ k * Bits + b \in Vectors
           /\ (k * Bits + b) \div Bits = k
           /\ (k * Bits + b) % Bits = b
<1>0. Bytes \in Nat /\ Bits \in {2, 4, 8} BY VectorAssumption
<1>2. CASE Bits = 2 BY <1>0, <1>2 DEF Byte, Bit, Vectors
<1>4. CASE Bits = 4 BY <1>0, <1>4 DEF Byte, Bit, Vectors
<1>8. CASE Bits = 8 BY <1>0, <1>8 DEF Byte, Bit, Vectors
<1> QED BY <1>0, <1>2, <1>4, <1>8

\* vector >> 3 is a byte of the bitmap and vector & 7 a bit of a byte.
LEMMA VectorParts ==
    ASSUME NEW v \in Vectors
    PROVE  v \div Bits \in Byte /\ v % Bits \in Bit
<1>0. Bytes \in Nat /\ Bits \in {2, 4, 8} BY VectorAssumption
<1>2. CASE Bits = 2 BY <1>0, <1>2 DEF Byte, Bit, Vectors
<1>4. CASE Bits = 4 BY <1>0, <1>4 DEF Byte, Bit, Vectors
<1>8. CASE Bits = 8 BY <1>0, <1>8 DEF Byte, Bit, Vectors
<1> QED BY <1>0, <1>2, <1>4, <1>8

\* A vector is reserved if its bit is a reserved bit of its byte.
LEMMA ReservedByBits ==
    ASSUME NEW v \in Vectors
    PROVE  v \in Reserved <=> v % Bits \in ReservedBits(v \div Bits)
<1>1. v \div Bits \in Byte /\ v % Bits \in Bit BY VectorParts
<1>2. LowBytes \in 1 .. Bytes - 1 /\ Bytes \in Nat /\ Bits \in Nat BY VectorAssumption
<1>3. CASE v \div Bits < LowBytes
    BY <1>1, <1>2, <1>3 DEF Reserved, ReservedBits, Byte
<1>4. CASE ~(v \div Bits < LowBytes)
    BY <1>1, <1>2, <1>4 DEF Reserved, ReservedBits, Byte
<1> QED BY <1>3, <1>4

\* ReservedBits are bits of a byte, and bit 0 is reserved only in the low bytes.
LEMMA ReservedBitsFacts ==
    ASSUME NEW b \in Byte
    PROVE  /\ ReservedBits(b) \subseteq Bit
           /\ b >= LowBytes => 0 \notin ReservedBits(b) /\ ReservedBits(b) # Bit
<1>1. /\ Bytes \in Nat /\ Bits \in {2, 4, 8} /\ LowBytes \in 1 .. Bytes - 1
      /\ TopBits \subseteq 1 .. Bits - 1
    BY VectorAssumption
<1>2. 0 \in Bit /\ 0 \notin TopBits BY <1>1 DEF Bit
<1> QED BY <1>1, <1>2 DEF ReservedBits, Bit, Byte

(***************************************************************************)
(* __builtin_ffs: one of the bits 0 .. Bits is the first clear one.        *)
(***************************************************************************)
LEMMA FirstClearFound ==
    ASSUME NEW byte \in SUBSET Bit
    PROVE  /\ FirstClear(byte) \in 0 .. Bits /\ FirstClear(byte) \notin byte
           /\ 0 .. FirstClear(byte) - 1 \subseteq byte
<1> DEFINE First(b) == b \notin byte /\ \A a \in 0 .. b - 1 : a \in byte
           Taken(b) == \A a \in 0 .. b - 1 : a \in byte
<1>0. Bits \in {2, 4, 8} BY VectorAssumption
<1>1. \A b \in 0 .. Bits : Taken(b) => First(b) \/ Taken(b + 1) BY <1>0
<1>2. Taken(0) OBVIOUS
<1>3. ~Taken(Bits + 1) BY <1>0 DEF Bit
<1>4. \E b \in 0 .. Bits : First(b)
  <2> SUFFICES ASSUME \A b \in 0 .. Bits : ~First(b) PROVE FALSE OBVIOUS
  <2>1. \A b \in 0 .. Bits : Taken(b) => Taken(b + 1) BY <1>1
  <2> HIDE DEF Taken, First
  <2>2. CASE Bits = 2 BY <1>2, <1>3, <2>1, <2>2
  <2>4. CASE Bits = 4 BY <1>2, <1>3, <2>1, <2>4
  <2>8. CASE Bits = 8
    <3>1. Taken(0 + 1) /\ Taken(1 + 1) /\ Taken(2 + 1) BY <1>2, <2>1, <2>8
    <3>2. Taken(3 + 1) /\ Taken(4 + 1) /\ Taken(5 + 1) BY <3>1, <2>1, <2>8
    <3>3. Taken(6 + 1) /\ Taken(7 + 1) /\ Taken(8 + 1) BY <3>2, <2>1, <2>8
    <3> QED BY <3>3, <1>3, <2>8
  <2> QED BY <1>0, <2>2, <2>4, <2>8
<1> QED BY <1>4 DEF FirstClear

(***************************************************************************)
(* What AllocateVector returns.                                            *)
(***************************************************************************)
LEMMA VectorGiven ==
    ASSUME TypeOK, NEW c \in Callers,
           i[c] \in LowBytes .. Bytes - 1, bit[c] \notin ReservedBits(i[c])
    PROVE  Vector(c) \in Vectors /\ Vector(c) \notin Reserved
<1>0. /\ Bytes \in Nat /\ Bytes % 2 = 0 /\ Bits \in {2, 4, 8}
      /\ LowBytes \in 1 .. Bytes - 1
    BY VectorAssumption
<1>1. i[c] \in Byte /\ i[c] >= LowBytes /\ bit[c] \in 0 .. Bits BY <1>0 DEF TypeOK, Byte
<1>2. CASE bit[c] \in Bit
  <2>1. Vector(c) = i[c] * Bits + bit[c] BY <1>2 DEF Vector
  <2> QED BY <1>1, <1>2, <2>1, ByteAndBit, ReservedByBits
<1>3. CASE bit[c] \notin Bit
  <2> DEFINE k == IF i[c] % 2 = 1 THEN i[c] ELSE i[c] + 1
  <2>1. k \in Byte /\ k >= LowBytes BY <1>0, <1>1 DEF Byte
  <2>2. 0 \in Bit BY <1>0 DEF Bit
  <2>3. Vector(c) = k * Bits BY <1>0, <1>1, <1>3 DEF Vector
  <2>4. k * Bits = k * Bits + 0
    <3> HIDE DEF k
    <3>1. k \in Nat BY <1>0, <2>1 DEF Byte
    <3>2. CASE Bits = 2 BY <3>1, <3>2
    <3>4. CASE Bits = 4 BY <3>1, <3>4
    <3>8. CASE Bits = 8 BY <3>1, <3>8
    <3> QED BY <1>0, <3>2, <3>4, <3>8
  <2>5. 0 \notin ReservedBits(k) BY <2>1, ReservedBitsFacts
  <2> HIDE DEF k
  <2> QED BY <2>1, <2>2, <2>3, <2>4, <2>5, ByteAndBit, ReservedByBits
<1> QED BY <1>2, <1>3

(***************************************************************************)
(* The inductive invariant.                                                *)
(***************************************************************************)
LEMMA InitVectorInv == VectorInit => VectorInv
<1> SUFFICES ASSUME VectorInit PROVE VectorInv OBVIOUS
<1>0. /\ Bytes \in Nat \ {0} /\ Bits \in {2, 4, 8} /\ LowBytes \in 1 .. Bytes - 1
      /\ TopBits \subseteq 1 .. Bits - 1
    BY VectorAssumption
<1>1. 0 \in Vectors
  <2>1. 0 \in Byte /\ 0 \in Bit BY <1>0 DEF Byte, Bit
  <2>2. 0 * Bits + 0 = 0 BY <1>0
  <2> QED BY <2>1, <2>2, ByteAndBit
<1>2. TypeOK
  <2>1. TopBits \subseteq Bit BY <1>0 DEF Bit
  <2>2. allocatedVectors \in [Byte -> SUBSET Bit] BY <2>1 DEF VectorInit, Full
  <2>3. 0 \in 0 .. Bytes /\ 0 \in 0 .. Bits BY <1>0
  <2> QED BY <1>1, <2>2, <2>3 DEF VectorInit, TypeOK
<1>3. BytesInv BY <1>0 DEF VectorInit, BytesInv, ReservedBits, Full, Byte
<1>4. CallInv BY DEF VectorInit, CallInv
<1>5. ReservedNeverGiven BY DEF VectorInit, ReservedNeverGiven
<1> QED BY <1>2, <1>3, <1>4, <1>5 DEF VectorInv

\* Every step of every caller keeps the invariant.
LEMMA NextVectorInv == VectorInv /\ [VectorNext]_vectorVars => VectorInv'
<1> SUFFICES ASSUME VectorInv, [VectorNext]_vectorVars PROVE VectorInv' OBVIOUS
<1> USE DEF VectorInv
<1>0. /\ Bytes \in Nat \ {0} /\ Bits \in {2, 4, 8} /\ LowBytes \in 1 .. Bytes - 1
    BY VectorAssumption
<1>z. 0 \in Vectors
  <2>1. 0 \in Byte /\ 0 \in Bit BY <1>0 DEF Byte, Bit
  <2>2. 0 * Bits + 0 = 0 BY <1>0
  <2> QED BY <2>1, <2>2, ByteAndBit
<1>1. ASSUME NEW c \in Callers, AllocateVector(c) PROVE VectorInv'
    BY <1>0, <1>1 DEF AllocateVector, BeginCall, Goto, TypeOK, BytesInv, CallInv, ReservedNeverGiven
<1>2. ASSUME NEW c \in Callers, LookFull(c) PROVE VectorInv'
    BY <1>0, <1>2 DEF LookFull, TypeOK, BytesInv, CallInv, ReservedNeverGiven
<1>3. ASSUME NEW c \in Callers, LookFree(c) PROVE VectorInv'
  <2>1. i[c] \in Byte BY <1>0, <1>3 DEF LookFree, TypeOK, Byte
  <2>2. allocatedVectors[i[c]] # Bit /\ allocatedVectors[i[c]] \subseteq Bit
      BY <1>3, <2>1 DEF LookFree, Full, TypeOK
  <2>3. ~(i[c] < LowBytes)
    <3> SUFFICES ASSUME i[c] < LowBytes PROVE FALSE OBVIOUS
    <3>1. ReservedBits(i[c]) = Bit BY DEF ReservedBits
    <3>2. Bit \subseteq allocatedVectors[i[c]] BY <2>1, <3>1 DEF BytesInv
    <3> QED BY <2>2, <3>2
  <2>4. i[c] \in LowBytes .. Bytes - 1 BY <1>0, <2>1, <2>3 DEF Byte
  <2> QED BY <1>3, <2>4 DEF LookFree, Goto, TypeOK, BytesInv, CallInv, ReservedNeverGiven
<1>4. ASSUME NEW c \in Callers, LookEnd(c) PROVE VectorInv'
    BY <1>z, <1>4 DEF LookEnd, Goto, TypeOK, BytesInv, CallInv, ReservedNeverGiven
<1>5. ASSUME NEW c \in Callers, FindBit(c) PROVE VectorInv'
  <2>1. i[c] \in LowBytes .. Bytes - 1 BY <1>5 DEF FindBit, CallInv
  <2>2. i[c] \in Byte BY <1>0, <2>1 DEF Byte
  <2>3. allocatedVectors[i[c]] \in SUBSET Bit BY <2>2 DEF TypeOK
  <2> DEFINE b == FirstClear(allocatedVectors[i[c]])
  <2>4. b \in 0 .. Bits /\ b \notin allocatedVectors[i[c]] BY <2>3, FirstClearFound
  <2>5. b \notin ReservedBits(i[c]) BY <2>2, <2>4 DEF BytesInv
  <2>6. bit' = [bit EXCEPT ![c] = b] BY <1>5 DEF FindBit
  <2> HIDE DEF b
  <2>7. TypeOK' BY <1>5, <2>4, <2>6 DEF FindBit, Goto, TypeOK
  <2>8. CallInv' BY <1>5, <2>1, <2>5, <2>6 DEF FindBit, Goto, TypeOK, CallInv
  <2> QED BY <1>5, <2>7, <2>8 DEF FindBit, BytesInv, ReservedNeverGiven
<1>6. ASSUME NEW c \in Callers, OrRead(c) PROVE VectorInv'
  <2>1. i[c] \in LowBytes .. Bytes - 1 /\ i[c] \in Byte
      BY <1>0, <1>6 DEF OrRead, CallInv, Byte
  <2>2. /\ allocatedVectors[i[c]] \in SUBSET Bit
        /\ ReservedBits(i[c]) \subseteq allocatedVectors[i[c]]
      BY <2>1 DEF TypeOK, BytesInv
  <2> QED BY <1>6, <2>1, <2>2 DEF OrRead, Goto, TypeOK, BytesInv, CallInv, ReservedNeverGiven
<1>7. ASSUME NEW c \in Callers, OrWrite(c) PROVE VectorInv'
  <2>1. /\ i[c] \in LowBytes .. Bytes - 1 /\ i[c] \in Byte
        /\ bit[c] \notin ReservedBits(i[c]) /\ ReservedBits(i[c]) \subseteq old[c]
      BY <1>0, <1>7 DEF OrWrite, CallInv, Byte
  <2>2. Vector(c) \in Vectors /\ Vector(c) \notin Reserved BY <2>1, VectorGiven
  <2>3. ReservedBits(i[c]) \subseteq Bit BY <2>1, ReservedBitsFacts
  <2> DEFINE w == (old[c] \cup {bit[c]}) \cap Bit
  <2>4. w \in SUBSET Bit /\ ReservedBits(i[c]) \subseteq w BY <2>1, <2>3
  <2>5. allocatedVectors' = [allocatedVectors EXCEPT ![i[c]] = w] BY <1>7 DEF OrWrite
  <2> HIDE DEF w
  <2>6. TypeOK' BY <1>7, <2>1, <2>2, <2>4, <2>5 DEF OrWrite, Goto, TypeOK
  <2>7. BytesInv' BY <2>1, <2>4, <2>5 DEF BytesInv, TypeOK
  <2>8. CallInv' BY <1>7, <2>2 DEF OrWrite, Goto, TypeOK, CallInv
  <2> QED BY <1>7, <2>6, <2>7, <2>8 DEF OrWrite, ReservedNeverGiven
<1>8. ASSUME NEW c \in Callers, ReturnVector(c) PROVE VectorInv'
  <2>1. TypeOK' BY <1>0, <1>8, <1>z DEF ReturnVector, Goto, TypeOK
  <2>2. CallInv' BY <1>8 DEF ReturnVector, Goto, TypeOK, CallInv
  <2>3. ReservedNeverGiven' BY <1>8 DEF ReturnVector, TypeOK, CallInv, ReservedNeverGiven
  <2> QED BY <1>8, <2>1, <2>2, <2>3 DEF ReturnVector, BytesInv
<1>9. ASSUME NEW c \in Callers, NEW v \in own[c], FreeVector(c, v) PROVE VectorInv'
  <2>1. v \in Vectors /\ v \notin Reserved BY DEF TypeOK, ReservedNeverGiven
  <2> DEFINE k == v \div Bits
             b == v % Bits
  <2>2. k \in Byte /\ b \in Bit /\ b \notin ReservedBits(k)
      BY <2>1, VectorParts, ReservedByBits
  <2>3. /\ i' = [i EXCEPT ![c] = k] /\ bit' = [bit EXCEPT ![c] = b]
        /\ old' = [old EXCEPT ![c] = allocatedVectors[k]]
      BY <1>9 DEF FreeVector
  <2> HIDE DEF k, b
  <2>4. k \in 0 .. Bytes /\ b \in 0 .. Bits BY <1>0, <2>2 DEF Byte, Bit
  <2>5. k \in LowBytes .. Bytes - 1 BY <1>0, <2>2 DEF ReservedBits, Byte
  <2>6. allocatedVectors[k] \in SUBSET Bit /\ ReservedBits(k) \subseteq allocatedVectors[k]
      BY <2>2 DEF TypeOK, BytesInv
  <2>7. TypeOK' BY <1>9, <2>3, <2>4, <2>6 DEF FreeVector, BeginCall, Goto, TypeOK
  <2>8. CallInv' BY <1>9, <2>2, <2>3, <2>5, <2>6 DEF FreeVector, BeginCall, Goto, TypeOK, CallInv
  <2>9. ReservedNeverGiven' BY <1>9 DEF FreeVector, TypeOK, ReservedNeverGiven
  <2> QED BY <1>9, <2>7, <2>8, <2>9 DEF FreeVector, BytesInv
<1>10. ASSUME NEW c \in Callers, AndWrite(c) PROVE VectorInv'
  <2>1. /\ i[c] \in Byte /\ bit[c] \notin ReservedBits(i[c])
        /\ ReservedBits(i[c]) \subseteq old[c] /\ old[c] \in SUBSET Bit
      BY <1>0, <1>10 DEF AndWrite, CallInv, Byte, TypeOK
  <2> DEFINE w == old[c] \ {bit[c]}
  <2>2. w \in SUBSET Bit /\ ReservedBits(i[c]) \subseteq w BY <2>1
  <2>3. allocatedVectors' = [allocatedVectors EXCEPT ![i[c]] = w] BY <1>10 DEF AndWrite
  <2> HIDE DEF w
  <2>4. TypeOK' BY <1>10, <2>1, <2>2, <2>3 DEF AndWrite, Goto, TypeOK
  <2>5. BytesInv' BY <2>1, <2>2, <2>3 DEF BytesInv, TypeOK
  <2>6. CallInv' BY <1>10 DEF AndWrite, Goto, TypeOK, CallInv
  <2> QED BY <1>10, <2>4, <2>5, <2>6 DEF AndWrite, ReservedNeverGiven
<1>11. CASE UNCHANGED vectorVars
    BY <1>11 DEF vectorVars, TypeOK, BytesInv, CallInv, ReservedNeverGiven
<1> QED
    BY <1>1, <1>2, <1>3, <1>4, <1>5, <1>6, <1>7, <1>8, <1>9, <1>10, <1>11 DEF VectorNext

\* Every reachable state of the bitmap and of its callers is well typed: no
\* call writes beyond _allocatedVectors or returns what is not a vector.
THEOREM TypeCorrect == VectorSpec => []TypeOK
<1>1. VectorInv => TypeOK BY DEF VectorInv
<1> QED BY <1>1, InitVectorInv, NextVectorInv, PTL DEF VectorSpec

\* However the unlocked accesses of AllocateVector and FreeVector interleave,
\* no caller is ever given a reserved vector.
THEOREM ReservedNeverGivenHolds == VectorSpec => []ReservedNeverGiven
<1>1. VectorInv => ReservedNeverGiven BY DEF VectorInv
<1> QED BY <1>1, InitVectorInv, NextVectorInv, PTL DEF VectorSpec

(***************************************************************************)
(* Calls that do not overlap.                                              *)
(***************************************************************************)
\* The vector whose bit is set for c though c does not own it.
Pending(c) == IF vpc[c] = "and_write" THEN {i[c] * Bits + bit[c]}
              ELSE IF vpc[c] = "return" /\ result[c] # 0 THEN {result[c]} ELSE {}

Holds(c) == own[c] \cup Pending(c)

\* The bytes below i are full, bit is the first clear one of byte i, and the
\* copy that is to be written back is up to date.
SoloCall(c) ==
    /\ vpc[c] \in {"look", "ffs", "or_read", "or_write"} =>
         \A b \in Byte : b < i[c] => allocatedVectors[b] = Full
    /\ vpc[c] = "ffs" => allocatedVectors[i[c]] # Full
    /\ vpc[c] \in {"or_read", "or_write"} =>
         bit[c] \notin allocatedVectors[i[c]] /\ 0 .. bit[c] - 1 \subseteq allocatedVectors[i[c]]
    /\ vpc[c] \in {"or_read", "or_write", "and_write"} => bit[c] \in Bit
    /\ vpc[c] \in {"or_write", "and_write"} => old[c] = allocatedVectors[i[c]]
    /\ vpc[c] = "return" => /\ i[c] = Bytes => Allocated = Vectors
                            /\ result[c] # 0 => 0 .. result[c] \subseteq Allocated
    /\ result[c] # 0 => vpc[c] = "return"

SoloInv ==
    ~overlapped =>
        /\ \A c, d \in Callers : vpc[c] # "idle" /\ vpc[d] # "idle" => c = d
        /\ Allocated = Reserved \cup UNION {Holds(c) : c \in Callers}
        /\ \A c \in Callers : own[c] \cap Pending(c) = {}
        /\ \A c, d \in Callers : c # d => Holds(c) \cap Holds(d) = {}
        /\ \A c \in Callers : SoloCall(c)

\* A vector is put together from its byte and its bit, and vectors are
\* ordered by them.
LEMMA VectorWhole ==
    ASSUME NEW v \in Vectors, NEW k \in Byte, NEW b \in Bit
    PROVE  /\ v = (v \div Bits) * Bits + (v % Bits)
           /\ v = k * Bits + b <=> v \div Bits = k /\ v % Bits = b
           /\ v <= k * Bits + b => \/ v \div Bits < k
                                   \/ v \div Bits = k /\ v % Bits <= b
<1> DEFINE q == v \div Bits
           r == v % Bits
<1>0. Bytes \in Nat /\ Bits \in {2, 4, 8} /\ v \in Nat /\ k \in Nat /\ b \in Nat /\ b < Bits
    BY VectorAssumption DEF Vectors, Byte, Bit
<1>1. q \in Nat /\ r \in Nat /\ r < Bits BY <1>0, VectorParts DEF Byte, Bit
<1>2. v = q * Bits + r
  <2>2. CASE Bits = 2 BY <1>0, <2>2
  <2>4. CASE Bits = 4 BY <1>0, <2>4
  <2>8. CASE Bits = 8 BY <1>0, <2>8
  <2> QED BY <1>0, <2>2, <2>4, <2>8
<1>3. v = k * Bits + b => q = k /\ r = b BY ByteAndBit
<1> HIDE DEF q, r
<1>4. v <= k * Bits + b => (q < k \/ (q = k /\ r <= b))
  <2>2. CASE Bits = 2 BY <1>0, <1>1, <1>2, <2>2
  <2>4. CASE Bits = 4 BY <1>0, <1>1, <1>2, <2>4
  <2>8. CASE Bits = 8 BY <1>0, <1>1, <1>2, <2>8
  <2> QED BY <1>0, <2>2, <2>4, <2>8
<1>5. v = k * Bits + b <=> q = k /\ r = b BY <1>2, <1>3
<1> QED BY <1>2, <1>4, <1>5 DEF q, r

\* No reserved vector is held.
LEMMA HoldsNotReserved ==
    ASSUME VectorInv, SoloInv, ~overlapped, NEW c \in Callers
    PROVE  Holds(c) \cap Reserved = {} /\ Holds(c) \subseteq Allocated
<1> USE DEF VectorInv
<1>1. Holds(c) \subseteq Allocated BY DEF SoloInv
<1>2. CASE vpc[c] = "and_write"
  <2>1. i[c] \in Byte /\ bit[c] \in Bit /\ bit[c] \notin ReservedBits(i[c])
      BY <1>2, VectorAssumption DEF CallInv, SoloInv, SoloCall, Byte
  <2>2. i[c] * Bits + bit[c] \notin Reserved BY <2>1, ByteAndBit, ReservedByBits
  <2> QED BY <1>1, <1>2, <2>2 DEF Holds, Pending, ReservedNeverGiven
<1>3. CASE vpc[c] # "and_write"
    BY <1>1, <1>3 DEF Holds, Pending, ReservedNeverGiven, CallInv
<1> QED BY <1>2, <1>3

\* SoloInv after a step of c, while all others are idle, follows from what
\* the step does to the vectors that c holds.
LEMMA SoloStep ==
    ASSUME VectorInv, SoloInv, ~overlapped, NEW c \in Callers,
           \A d \in Callers \ {c} : /\ vpc[d] = "idle" /\ vpc'[d] = "idle"
                                    /\ own'[d] = own[d] /\ result'[d] = result[d],
           Allocated' = (Allocated \ Holds(c)) \cup Holds(c)',
           Holds(c)' \cap (Allocated \ Holds(c)) = {},
           own'[c] \cap Pending(c)' = {},
           SoloCall(c)'
    PROVE  SoloInv'
<1>1. \A d \in Callers \ {c} : Holds(d)' = Holds(d) /\ Pending(d)' = {} /\ SoloCall(d)'
    BY DEF Holds, Pending, SoloCall, SoloInv
<1>2. Holds(c) \cap Reserved = {} BY HoldsNotReserved
<1>3. \A v : v \in Allocated \ Holds(c) <=>
               v \in Reserved \/ \E d \in Callers \ {c} : v \in Holds(d)
    BY <1>2 DEF SoloInv
<1>4. (UNION {Holds(d) : d \in Callers})' = UNION {Holds(d)' : d \in Callers} OBVIOUS
<1>5. \A v : v \in UNION {Holds(d)' : d \in Callers} <=>
               v \in Holds(c)' \/ \E d \in Callers \ {c} : v \in Holds(d)
    BY <1>1
<1>6. Allocated' = Reserved \cup (UNION {Holds(d) : d \in Callers})' BY <1>3, <1>4, <1>5
<1>7. \A d \in Callers : c # d => Holds(c)' \cap Holds(d)' = {} BY <1>1, <1>3
<1>8. ASSUME NEW a \in Callers, NEW d \in Callers, a # d PROVE Holds(a)' \cap Holds(d)' = {}
  <2>1. CASE a = c \/ d = c BY <1>7, <1>8, <2>1
  <2>2. CASE a # c /\ d # c BY <1>1, <1>8, <2>2 DEF SoloInv
  <2> QED BY <2>1, <2>2
<1>9. \A a, d \in Callers : vpc'[a] # "idle" /\ vpc'[d] # "idle" => a = d OBVIOUS
<1>10. \A d \in Callers : own'[d] \cap Pending(d)' = {} BY <1>1
<1>11. \A d \in Callers : SoloCall(d)' BY <1>1
<1>12. Reserved' = Reserved BY DEF Reserved
<1> HIDE DEF Reserved
<1> QED BY <1>6, <1>8, <1>9, <1>10, <1>11, <1>12 DEF SoloInv

LEMMA SoloInit == VectorInit => SoloInv
<1> SUFFICES ASSUME VectorInit PROVE SoloInv OBVIOUS
<1>1. \A c \in Callers : Pending(c) = {} /\ Holds(c) = {} /\ own[c] = {}
    BY DEF VectorInit, Pending, Holds
<1>2. Allocated = Reserved
  <2>1. \A b \in Byte : allocatedVectors[b] = ReservedBits(b)
      BY DEF VectorInit, ReservedBits, Full
  <2>2. ASSUME NEW v \in Vectors PROVE v \in Allocated <=> v \in Reserved
      BY <2>1, VectorParts, ReservedByBits DEF Allocated
  <2> QED BY <2>2 DEF Allocated, Reserved
<1>3. \A c \in Callers : SoloCall(c) BY DEF VectorInit, SoloCall
<1>4. UNION {Holds(c) : c \in Callers} = {} BY <1>1
<1>5. \A c \in Callers : vpc[c] = "idle" BY DEF VectorInit
<1> QED BY <1>1, <1>2, <1>3, <1>4, <1>5 DEF SoloInv

\* The steps of a call that neither write the bitmap nor change what c holds.
LEMMA SoloReadStep ==
    ASSUME VectorInv, SoloInv, ~overlapped, NEW c \in Callers,
           \A d \in Callers \ {c} : /\ vpc[d] = "idle" /\ vpc'[d] = "idle"
                                    /\ own'[d] = own[d] /\ result'[d] = result[d],
           allocatedVectors' = allocatedVectors,
           Holds(c)' = Holds(c),
           own'[c] \cap Pending(c)' = {},
           SoloCall(c)'
    PROVE  SoloInv'
<1>1. Allocated' = Allocated BY DEF Allocated
<1>2. Holds(c) \subseteq Allocated BY HoldsNotReserved
<1>3. Allocated' = (Allocated \ Holds(c)) \cup Holds(c)' BY <1>1, <1>2
<1>4. Holds(c)' \cap (Allocated \ Holds(c)) = {} OBVIOUS
<1> QED BY <1>3, <1>4, SoloStep

\* OrWrite allocates the lowest clear vector, for a call that is alone.
LEMMA SoloOrWrite ==
    ASSUME VectorInv, SoloInv, ~overlapped, NEW c \in Callers, OrWrite(c)
    PROVE  /\ Vector(c) \in Vectors \ Allocated /\ Vector(c) # 0
           /\ Allocated' = Allocated \cup {Vector(c)}
           /\ 0 .. Vector(c) \subseteq Allocated'
<1> USE DEF VectorInv
<1> DEFINE k == i[c]
           b == bit[c]
<1>1. /\ k \in LowBytes .. Bytes - 1 /\ b \in Bit /\ old[c] = allocatedVectors[k]
      /\ b \notin allocatedVectors[k] /\ 0 .. b - 1 \subseteq allocatedVectors[k]
      /\ \A a \in Byte : a < k => allocatedVectors[a] = Full
    BY DEF OrWrite, CallInv, SoloInv, SoloCall
<1>2. LowBytes \in 1 .. Bytes - 1 /\ Bytes \in Nat /\ Bits \in {2, 4, 8} BY VectorAssumption
<1>3. k \in Byte /\ k \in Nat \ {0} /\ b \in Nat BY <1>1, <1>2 DEF Byte, Bit
<1>4. Vector(c) = k * Bits + b BY <1>1 DEF Vector
<1>5. allocatedVectors \in [Byte -> SUBSET Bit] BY DEF TypeOK
<1>6. allocatedVectors' = [allocatedVectors EXCEPT ![k] = @ \cup {b}]
  <2>1. (old[c] \cup {b}) \cap Bit = allocatedVectors[k] \cup {b} BY <1>1, <1>3, <1>5
  <2> QED BY <2>1 DEF OrWrite
<1> HIDE DEF k, b
<1>7. /\ Vector(c) \in Vectors
      /\ Vector(c) \div Bits = k /\ Vector(c) % Bits = b
    BY <1>1, <1>3, <1>4, ByteAndBit
<1>8. Vector(c) \notin Allocated BY <1>1, <1>7 DEF Allocated
<1>9. Vector(c) # 0 BY <1>2, <1>3, <1>4
<1>10. ASSUME NEW v \in Vectors PROVE v \in Allocated' <=> v \in Allocated \/ v = Vector(c)
  <2>1. v = Vector(c) <=> v \div Bits = k /\ v % Bits = b BY <1>1, <1>3, <1>4, VectorWhole
  <2>2. v \div Bits \in Byte BY VectorParts
  <2>3. allocatedVectors'[v \div Bits] = IF v \div Bits = k THEN allocatedVectors[k] \cup {b}
                                                          ELSE allocatedVectors[v \div Bits]
      BY <1>5, <1>6, <2>2
  <2>4. v \in Allocated' <=> v % Bits \in allocatedVectors'[v \div Bits] BY DEF Allocated
  <2>5. v \in Allocated <=> v % Bits \in allocatedVectors[v \div Bits] BY DEF Allocated
  <2> QED BY <2>1, <2>3, <2>4, <2>5
<1>11. Allocated' \subseteq Vectors /\ Allocated \subseteq Vectors BY DEF Allocated, Vectors
<1>12. Allocated' = Allocated \cup {Vector(c)} BY <1>7, <1>10, <1>11
<1>13. ASSUME NEW v \in 0 .. Vector(c) PROVE v \in Allocated'
  <2>1. v \in Vectors BY <1>2, <1>7 DEF Vectors
  <2>2. v \div Bits \in Byte /\ v % Bits \in Bit BY <2>1, VectorParts
  <2>3. v <= k * Bits + b BY <1>4, <1>7 DEF Vectors
  <2>4. v \div Bits < k \/ (v \div Bits = k /\ v % Bits <= b)
      BY <1>1, <1>3, <2>1, <2>3, VectorWhole
  <2>5. CASE v \div Bits < k
      BY <1>1, <1>12, <2>1, <2>2, <2>5 DEF Allocated, Full
  <2>6. CASE v \div Bits = k /\ v % Bits < b
    <3>1. v % Bits \in 0 .. b - 1 BY <1>3, <2>2, <2>6 DEF Bit
    <3> QED BY <1>1, <1>12, <2>1, <2>6, <3>1 DEF Allocated
  <2>7. CASE v \div Bits = k /\ v % Bits = b
    <3>1. v = Vector(c) BY <1>1, <1>3, <1>4, <2>1, <2>7, VectorWhole
    <3> QED BY <1>12, <3>1
  <2>8. v % Bits \in Nat BY <2>2 DEF Bit
  <2> QED BY <1>3, <2>4, <2>5, <2>6, <2>7, <2>8
<1> QED BY <1>7, <1>8, <1>9, <1>12, <1>13

\* AndWrite clears the bit of the vector that is freed, and no other.
LEMMA SoloAndWrite ==
    ASSUME VectorInv, SoloInv, ~overlapped, NEW c \in Callers, AndWrite(c)
    PROVE  Allocated' = Allocated \ {i[c] * Bits + bit[c]}
<1> USE DEF VectorInv
<1>1. i[c] \in Byte /\ bit[c] \in Bit /\ old[c] = allocatedVectors[i[c]]
    BY VectorAssumption DEF AndWrite, CallInv, SoloInv, SoloCall, Byte
<1>2. allocatedVectors \in [Byte -> SUBSET Bit] BY DEF TypeOK
<1>3. ASSUME NEW v \in Vectors
      PROVE  v \in Allocated' <=> v \in Allocated /\ v # i[c] * Bits + bit[c]
  <2>1. v = i[c] * Bits + bit[c] <=> v \div Bits = i[c] /\ v % Bits = bit[c]
      BY <1>1, VectorWhole
  <2>2. v \div Bits \in Byte BY VectorParts
  <2>3. allocatedVectors'[v \div Bits] =
            IF v \div Bits = i[c] THEN allocatedVectors[i[c]] \ {bit[c]}
                                  ELSE allocatedVectors[v \div Bits]
      BY <1>1, <1>2, <2>2 DEF AndWrite
  <2>4. v \in Allocated' <=> v % Bits \in allocatedVectors'[v \div Bits] BY DEF Allocated
  <2>5. v \in Allocated <=> v % Bits \in allocatedVectors[v \div Bits] BY DEF Allocated
  <2> QED BY <2>1, <2>3, <2>4, <2>5
<1>4. Allocated' \subseteq Vectors /\ Allocated \subseteq Vectors BY DEF Allocated, Vectors
<1> QED BY <1>3, <1>4

LEMMA SoloNext == VectorInv /\ SoloInv /\ [VectorNext]_vectorVars => SoloInv'
<1> SUFFICES ASSUME VectorInv, SoloInv, [VectorNext]_vectorVars PROVE SoloInv' OBVIOUS
<1> USE DEF VectorInv
<1>0. CASE UNCHANGED vectorVars
  <2>1. Allocated' = Allocated /\ Reserved' = Reserved BY <1>0 DEF vectorVars, Allocated, Reserved
  <2>2. \A c \in Callers : Holds(c)' = Holds(c) /\ Pending(c)' = Pending(c)
      BY <1>0 DEF vectorVars, Holds, Pending
  <2>3. \A c \in Callers : SoloCall(c) => SoloCall(c)' BY <1>0, <2>1 DEF vectorVars, SoloCall
  <2>4. (UNION {Holds(c) : c \in Callers})' = UNION {Holds(c) : c \in Callers} BY <2>2
  <2> QED BY <1>0, <2>1, <2>2, <2>3, <2>4 DEF vectorVars, SoloInv
<1>1. SUFFICES ASSUME ~overlapped', NEW c \in Callers,
                      \/ AllocateVector(c) \/ LookFull(c) \/ LookFree(c) \/ LookEnd(c)
                      \/ FindBit(c) \/ OrRead(c) \/ OrWrite(c) \/ ReturnVector(c)
                      \/ \E v \in own[c] : FreeVector(c, v)
                      \/ AndWrite(c)
               PROVE  SoloInv'
    BY <1>0 DEF VectorNext, SoloInv
<1>2. ~overlapped
    BY <1>1 DEF AllocateVector, LookFull, LookFree, LookEnd, FindBit, OrRead, OrWrite, ReturnVector,
                FreeVector, AndWrite, BeginCall
<1>3. \A d \in Callers \ {c} : vpc[d] = "idle"
  <2>1. CASE vpc[c] = "idle"
      BY <1>1, <2>1 DEF AllocateVector, LookFull, LookFree, LookEnd, FindBit, OrRead, OrWrite,
                        ReturnVector, FreeVector, AndWrite, BeginCall
  <2>2. CASE vpc[c] # "idle" BY <1>2, <2>2 DEF SoloInv
  <2> QED BY <2>1, <2>2
<1>4. \A d \in Callers \ {c} : /\ vpc[d] = "idle" /\ vpc'[d] = "idle"
                               /\ own'[d] = own[d] /\ result'[d] = result[d]
    BY <1>1, <1>3 DEF AllocateVector, LookFull, LookFree, LookEnd, FindBit, OrRead, OrWrite,
                      ReturnVector, FreeVector, AndWrite, BeginCall, Goto, TypeOK
<1>5. SoloCall(c) /\ own[c] \cap Pending(c) = {} BY <1>2 DEF SoloInv
<1>6. Bytes \in Nat /\ Bits \in {2, 4, 8} BY VectorAssumption
<1>7. Holds(c) \subseteq Allocated BY <1>2, HoldsNotReserved
<1>8. i[c] \in 0 .. Bytes /\ c \in DOMAIN vpc /\ c \in DOMAIN i /\ c \in DOMAIN result
    BY DEF TypeOK
<1>11. CASE AllocateVector(c)
  <2>1. /\ allocatedVectors' = allocatedVectors /\ own' = own /\ result' = result
        /\ vpc[c] = "idle" /\ vpc'[c] = "look" /\ i'[c] = 0
      BY <1>11 DEF AllocateVector, BeginCall, Goto, TypeOK
  <2>2. Pending(c) = {} /\ Pending(c)' = {} /\ Holds(c)' = Holds(c) BY <2>1 DEF Pending, Holds
  <2>3. SoloCall(c)' BY <1>5, <2>1 DEF SoloCall, Byte
  <2> QED BY <1>2, <1>4, <2>1, <2>2, <2>3, SoloReadStep
<1>12. CASE LookFull(c)
  <2>1. /\ allocatedVectors' = allocatedVectors /\ own' = own /\ result' = result
        /\ vpc[c] = "look" /\ vpc'[c] = "look" /\ i'[c] = i[c] + 1
        /\ allocatedVectors[i[c]] = Full
      BY <1>12 DEF LookFull, TypeOK
  <2>2. Pending(c) = {} /\ Pending(c)' = {} /\ Holds(c)' = Holds(c) BY <2>1 DEF Pending, Holds
  <2>3. \A b \in Byte : b < i'[c] => allocatedVectors[b] = Full
      BY <1>5, <1>6, <1>8, <2>1 DEF SoloCall, Byte
  <2>4. SoloCall(c)' BY <1>5, <2>1, <2>3 DEF SoloCall
  <2> QED BY <1>2, <1>4, <2>1, <2>2, <2>4, SoloReadStep
<1>13. CASE LookFree(c)
  <2>1. /\ allocatedVectors' = allocatedVectors /\ own' = own /\ result' = result
        /\ vpc[c] = "look" /\ vpc'[c] = "ffs" /\ i' = i /\ allocatedVectors[i[c]] # Full
      BY <1>13 DEF LookFree, Goto, TypeOK
  <2>2. Pending(c) = {} /\ Pending(c)' = {} /\ Holds(c)' = Holds(c) BY <2>1 DEF Pending, Holds
  <2>3. SoloCall(c)' BY <1>5, <2>1 DEF SoloCall
  <2> QED BY <1>2, <1>4, <2>1, <2>2, <2>3, SoloReadStep
<1>14. CASE LookEnd(c)
  <2>1. /\ allocatedVectors' = allocatedVectors /\ own' = own /\ result'[c] = 0
        /\ vpc[c] = "look" /\ vpc'[c] = "return" /\ i' = i /\ i[c] = Bytes
      BY <1>14 DEF LookEnd, Goto, TypeOK
  <2>2. Pending(c) = {} /\ Pending(c)' = {} /\ Holds(c)' = Holds(c) BY <2>1 DEF Pending, Holds
  <2>3. \A b \in Byte : allocatedVectors[b] = Bit
      BY <1>5, <1>6, <2>1 DEF SoloCall, Byte, Full
  <2>4. Allocated' = Vectors BY <2>1, <2>3, VectorParts DEF Allocated
  <2>5. SoloCall(c)' BY <2>1, <2>4 DEF SoloCall
  <2> QED BY <1>2, <1>4, <2>1, <2>2, <2>5, SoloReadStep
<1>15. CASE FindBit(c)
  <2> DEFINE byte == allocatedVectors[i[c]]
  <2>1. /\ allocatedVectors' = allocatedVectors /\ own' = own /\ result' = result
        /\ vpc[c] = "ffs" /\ vpc'[c] = "or_read" /\ i' = i /\ bit'[c] = FirstClear(byte)
      BY <1>15 DEF FindBit, Goto, TypeOK
  <2>2. i[c] \in Byte BY <2>1, VectorAssumption DEF CallInv, Byte
  <2>3. byte \in SUBSET Bit /\ byte # Bit BY <1>5, <2>1, <2>2 DEF TypeOK, SoloCall, Full
  <2>4. /\ FirstClear(byte) \in 0 .. Bits /\ FirstClear(byte) \notin byte
        /\ 0 .. FirstClear(byte) - 1 \subseteq byte
      BY <2>3, FirstClearFound
  <2>5. FirstClear(byte) \in Bit
    <3>1. CASE FirstClear(byte) = Bits
      <4>1. 0 .. Bits - 1 \subseteq byte BY <2>4, <3>1
      <4> QED BY <2>3, <4>1 DEF Bit
    <3>2. CASE FirstClear(byte) # Bits BY <1>6, <2>4, <3>2 DEF Bit
    <3> QED BY <3>1, <3>2
  <2>6. Pending(c) = {} /\ Pending(c)' = {} /\ Holds(c)' = Holds(c) BY <2>1 DEF Pending, Holds
  <2>7. SoloCall(c)' BY <1>5, <2>1, <2>4, <2>5 DEF SoloCall
  <2> QED BY <1>2, <1>4, <2>1, <2>6, <2>7, SoloReadStep
<1>16. CASE OrRead(c)
  <2>1. /\ allocatedVectors' = allocatedVectors /\ own' = own /\ result' = result
        /\ vpc[c] = "or_read" /\ vpc'[c] = "or_write" /\ i' = i /\ bit' = bit
        /\ old'[c] = allocatedVectors[i[c]]
      BY <1>16 DEF OrRead, Goto, TypeOK
  <2>2. Pending(c) = {} /\ Pending(c)' = {} /\ Holds(c)' = Holds(c) BY <2>1 DEF Pending, Holds
  <2>3. SoloCall(c)' BY <1>5, <2>1 DEF SoloCall
  <2> QED BY <1>2, <1>4, <2>1, <2>2, <2>3, SoloReadStep
<1>17. CASE OrWrite(c)
  <2>1. /\ own' = own /\ result'[c] = Vector(c) /\ i' = i
        /\ vpc[c] = "or_write" /\ vpc'[c] = "return"
      BY <1>17 DEF OrWrite, Goto, TypeOK
  <2>2. /\ Vector(c) \in Vectors \ Allocated /\ Vector(c) # 0
        /\ Allocated' = Allocated \cup {Vector(c)}
        /\ 0 .. Vector(c) \subseteq Allocated'
      BY <1>2, <1>17, SoloOrWrite
  <2>3. i[c] # Bytes BY <2>1, VectorAssumption DEF CallInv
  <2>4. /\ Pending(c) = {} /\ Holds(c) = own[c]
        /\ Pending(c)' = {Vector(c)} /\ Holds(c)' = own[c] \cup {Vector(c)}
      BY <2>1, <2>2 DEF Pending, Holds
  <2>5. SoloCall(c)' BY <2>1, <2>2, <2>3 DEF SoloCall
  <2>6. own'[c] \cap Pending(c)' = {} BY <1>7, <2>1, <2>2, <2>4
  <2>7. Holds(c)' \cap (Allocated \ Holds(c)) = {} BY <2>2, <2>4
  <2>8. Allocated' = (Allocated \ Holds(c)) \cup Holds(c)' BY <1>7, <2>2, <2>4
  <2> QED BY <1>2, <1>4, <2>5, <2>6, <2>7, <2>8, SoloStep
<1>18. CASE ReturnVector(c)
  <2>1. /\ allocatedVectors' = allocatedVectors /\ result'[c] = 0
        /\ own'[c] = IF result[c] = 0 THEN own[c] ELSE own[c] \cup {result[c]}
        /\ vpc[c] = "return" /\ vpc'[c] = "idle"
      BY <1>18 DEF ReturnVector, Goto, TypeOK
  <2>2. Pending(c)' = {} /\ Holds(c)' = Holds(c) BY <2>1 DEF Pending, Holds
  <2>3. SoloCall(c)' BY <2>1 DEF SoloCall
  <2> QED BY <1>2, <1>4, <2>1, <2>2, <2>3, SoloReadStep
<1>19. ASSUME NEW v \in own[c], FreeVector(c, v) PROVE SoloInv'
  <2>1. /\ allocatedVectors' = allocatedVectors /\ result' = result
        /\ own'[c] = own[c] \ {v} /\ i'[c] = v \div Bits /\ bit'[c] = v % Bits
        /\ old'[c] = allocatedVectors[v \div Bits]
        /\ vpc[c] = "idle" /\ vpc'[c] = "and_write"
      BY <1>19 DEF FreeVector, BeginCall, Goto, TypeOK
  <2>2. v \in Vectors BY DEF TypeOK
  <2>3. v \div Bits \in Byte /\ v % Bits \in Bit BY <2>2, VectorParts
  <2>4. (v \div Bits) * Bits + (v % Bits) = v BY <2>2, <2>3, VectorWhole
  <2>5. Pending(c) = {} /\ Pending(c)' = {v} BY <2>1, <2>4 DEF Pending
  <2>6. Holds(c)' = Holds(c) BY <2>1, <2>5 DEF Holds
  <2>7. SoloCall(c)' BY <1>5, <2>1, <2>3 DEF SoloCall
  <2> QED BY <1>2, <1>4, <2>1, <2>5, <2>6, <2>7, SoloReadStep
<1>20. CASE AndWrite(c)
  <2> DEFINE v == i[c] * Bits + bit[c]
  <2>1. /\ own' = own /\ result' = result /\ i' = i
        /\ vpc[c] = "and_write" /\ vpc'[c] = "return"
      BY <1>20 DEF AndWrite, Goto, TypeOK
  <2>2. Allocated' = Allocated \ {v} BY <1>2, <1>20, SoloAndWrite
  <2>3. result[c] = 0 BY <1>5, <2>1 DEF SoloCall
  <2>4. i[c] # Bytes BY <2>1, VectorAssumption DEF CallInv
  <2>5. Pending(c) = {v} /\ Pending(c)' = {} BY <2>1, <2>3 DEF Pending
  <2>6. /\ Holds(c) = own[c] \cup {v} /\ Holds(c)' = own[c] /\ v \notin own[c]
      BY <1>5, <2>1, <2>5 DEF Holds
  <2>7. SoloCall(c)' BY <2>1, <2>3, <2>4 DEF SoloCall
  <2> HIDE DEF v
  <2>8. Allocated' = (Allocated \ Holds(c)) \cup Holds(c)' BY <1>7, <2>2, <2>6
  <2>9. Holds(c)' \cap (Allocated \ Holds(c)) = {} BY <2>6
  <2> QED BY <1>2, <1>4, <2>1, <2>5, <2>7, <2>8, <2>9, SoloStep
<1> QED BY <1>1, <1>11, <1>12, <1>13, <1>14, <1>15, <1>16, <1>17, <1>18, <1>19, <1>20

\* As long as no two calls of AllocateVector and FreeVector have overlapped,
\* the bitmap says, between the calls, exactly which vectors are reserved or
\* handed out, and each is handed out once; and AllocateVector returns the
\* lowest vector that was free, and 0 only when none was.
THEOREM VectorsExactHolds == VectorSpec => []VectorsExact
<1>1. ASSUME SoloInv, Quiet
      PROVE  /\ Allocated = Reserved \cup UNION {own[c] : c \in Callers}
             /\ \A c, d \in Callers : c # d => own[c] \cap own[d] = {}
  <2>1. \A c \in Callers : Holds(c) = own[c] BY <1>1 DEF Quiet, Holds, Pending
  <2>2. UNION {Holds(c) : c \in Callers} = UNION {own[c] : c \in Callers} BY <2>1
  <2> QED BY <1>1, <2>1, <2>2 DEF SoloInv, Quiet
<1>2. ASSUME SoloInv, ~overlapped, NEW c \in Callers, vpc[c] = "return"
      PROVE  /\ i[c] = Bytes => Allocated = Vectors
             /\ result[c] # 0 => 0 .. result[c] \subseteq Allocated
  BY <1>2 DEF SoloInv, SoloCall
<1>3. SoloInv => VectorsExact BY <1>1, <1>2 DEF VectorsExact
<1> QED BY <1>3, InitVectorInv, NextVectorInv, SoloInit, SoloNext, PTL DEF VectorSpec
==============================================================================
