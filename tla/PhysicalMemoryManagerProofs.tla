--------------------- MODULE PhysicalMemoryManagerProofs ---------------------
(***************************************************************************)
(* Proofs about PhysicalMemoryManager for any number of clients, frames,   *)
(* reserved frames and request sizes.  The first part and the refinement   *)
(* are about clients that free only what they own (the hypothesis          *)
(* WildFrees = {}), the last part about any clients.                       *)
(***************************************************************************)
EXTENDS PhysicalMemoryManager, FiniteSetTheorems, TLAPS

\* The address of a page gives back its page number.
LEMMA DivMul ==
    \A r \in Nat : /\ (r * PageSize) \div PageSize = r
                   /\ (r * PageSize) % PageSize = 0
                   /\ r > 0 => r * PageSize # 0
  BY PageSizeAssumption

\* Every address has a page number.
LEMMA DivNat == \A a \in Nat : a \div PageSize \in Nat
  BY PageSizeAssumption

\* A client that the step does not concern: none of its locals change.
Aside(d) == /\ pc'[d] = pc[d] /\ count'[d] = count[d] /\ start'[d] = start[d]
            /\ page'[d] = page[d] /\ runStart'[d] = runStart[d]
            /\ runLength'[d] = runLength[d] /\ result'[d] = result[d]
            /\ own'[d] = own[d]

\* What is charged to a client does not change while its call rests.
LEMMA AsideCharge ==
    ASSUME NEW d \in Clients, Aside(d)
    PROVE  InFlight(d)' = InFlight(d) /\ Charged(d)' = Charged(d)
  BY DEF Aside, InFlight, Charged, EndPage, Run

\* What is known of a call survives the steps of other clients: they either
\* leave the bitmap alone or exclude this one from its section.
LEMMA AsideCall ==
    ASSUME NEW d \in Clients, Aside(d), CallInv(d),
           allocated' = allocated \/ pc[d] \notin InSection
    PROVE  CallInv(d)'
<1>1. CASE pc[d] \notin InSection
  BY <1>1 DEF Aside, CallInv, FreeInv, InSection
<1>2. CASE allocated' = allocated
  BY <1>2 DEF Aside, CallInv, FreeInv, ScanInv, MarkInv, ReturnInv, VerdictOf, EndPage,
              FreeSet, Run
<1> QED
  BY <1>1, <1>2

\* The bitmap stays exact if a step moves frames between what its client
\* owns and what is in flight for it.
LEMMA BitmapMove ==
    ASSUME BitmapExact, NEW c \in Clients,
           \A d \in Clients \ {c} : Aside(d),
           allocated' = allocated,
           Charged(c)' = Charged(c), own'[c] \cap InFlight(c)' = {}
    PROVE  BitmapExact'
<1>1. \A d \in Clients : Charged(d)' = Charged(d)
  BY AsideCharge
<1>2. \A d \in Clients \ {c} : own'[d] = own[d] /\ InFlight(d)' = InFlight(d)
  BY AsideCharge DEF Aside
<1>3. (UNION {Charged(d) : d \in Clients})' = UNION {Charged(d) : d \in Clients}
  BY <1>1
<1> QED
  BY <1>1, <1>2, <1>3 DEF BitmapExact

\* Marking a free frame, or clearing one in flight, keeps the bitmap exact.
LEMMA BitmapMark ==
    ASSUME BitmapExact, NEW c \in Clients, NEW p \in FreeSet,
           \A d \in Clients \ {c} : Aside(d), own'[c] = own[c],
           allocated' = allocated \cup {p},
           InFlight(c)' = InFlight(c) \cup {p}
    PROVE  BitmapExact'
<1>1. Charged(c)' = Charged(c) \cup {p}
  BY DEF Charged
<1>2. \A d \in Clients \ {c} : /\ own'[d] = own[d] /\ InFlight(d)' = InFlight(d)
                               /\ Charged(d)' = Charged(d)
  BY AsideCharge DEF Aside
<1>3. \A d \in Clients : p \notin Charged(d) /\ own[d] \subseteq Charged(d)
  BY DEF BitmapExact, FreeSet, Charged
<1>4. p \notin Reserved
  BY DEF FreeSet
<1>5. (UNION {Charged(d) : d \in Clients})' = (UNION {Charged(d) : d \in Clients}) \cup {p}
  BY <1>1, <1>2
<1> QED
  BY <1>1, <1>2, <1>3, <1>4, <1>5 DEF BitmapExact

\* Clearing the bit of a frame in flight keeps the bitmap exact.
LEMMA BitmapClear ==
    ASSUME BitmapExact, NEW c \in Clients, NEW p \in InFlight(c),
           \A d \in Clients \ {c} : Aside(d), own'[c] = own[c],
           allocated' = allocated \ {p},
           InFlight(c)' = InFlight(c) \ {p}
    PROVE  BitmapExact'
<1>1. Charged(c)' = Charged(c) \ {p}
  BY DEF Charged, BitmapExact
<1>2. \A d \in Clients \ {c} : /\ own'[d] = own[d] /\ InFlight(d)' = InFlight(d)
                               /\ Charged(d)' = Charged(d)
  BY AsideCharge DEF Aside
<1>3. p \in Charged(c) /\ \A d \in Clients \ {c} : p \notin Charged(d)
  BY DEF BitmapExact, Charged
<1>5. (UNION {Charged(d) : d \in Clients})' = (UNION {Charged(d) : d \in Clients}) \ {p}
  BY <1>1, <1>2, <1>3
<1> QED
  BY <1>1, <1>2, <1>3, <1>5 DEF BitmapExact

\* _usableFrames starts as a natural number.
LEMMA UsableCount == IsFiniteSet(Frames) /\ Cardinality(Frames \ Reserved) \in Nat
<1>1. IsFiniteSet(Frames)
  BY FS_Interval, FrameCountAssumption DEF Frames
<1> QED
  BY <1>1, FS_Subset, FS_CardinalityType

\* The invariant holds when Initialize has handed over the bitmaps.
LEMMA InitInv == Init => IInv
<1> SUFFICES ASSUME Init PROVE IInv
  OBVIOUS
<1>1. TypeOK
  <2>1. usableFrames \in Int
    BY UsableCount DEF Init
  <2> QED
    BY <2>1 DEF Init, TypeOK, Pcs
<1>2. LockInv
  BY NobodyAssumption DEF Init, LockInv, InSection
<1>3. \A c \in Clients : InFlight(c) = {} /\ own[c] = {} /\ Charged(c) = {}
  BY DEF Init, InFlight, Charged
<1>4. BitmapExact
  BY <1>3 DEF Init, BitmapExact
<1>5. \A c \in Clients : CallInv(c)
  BY DEF Init, CallInv
<1> QED
  BY <1>1, <1>2, <1>4, <1>5 DEF IInv

\* A step from inside the section, or one that enters it: everybody else is
\* outside.
LEMMA Excluded ==
    ASSUME LockInv, NEW c \in Clients, lock = c \/ lock = Nobody
    PROVE  \A d \in Clients \ {c} : pc[d] \notin InSection
  BY NobodyAssumption DEF LockInv

\* IInv after a step of client c follows from what the step does to c.
LEMMA StepInv ==
    ASSUME IInv, NEW c \in Clients,
           \A d \in Clients \ {c} : Aside(d),
           allocated' = allocated \/ lock = c \/ lock = Nobody,
           TypeOK', LockInv', BitmapExact', CallInv(c)'
    PROVE  IInv'
<1>1. ASSUME NEW d \in Clients \ {c} PROVE CallInv(d)'
  <2>1. allocated' = allocated \/ pc[d] \notin InSection
    BY Excluded DEF IInv
  <2> QED
    BY <2>1, AsideCall DEF IInv
<1> QED
  BY <1>1 DEF IInv

(***************************************************************************)
(* One lemma per action.                                                   *)
(***************************************************************************)
LEMMA AllocatePagesInv ==
    ASSUME IInv, NEW c \in Clients, NEW k \in Sizes, AllocatePages(c, k) PROVE IInv'
<1> USE SizesAssumption DEF AllocatePages, Goto, scan, IInv
<1>1. TypeOK'
  BY DEF TypeOK, Pcs
<1>2. LockInv'
  BY DEF LockInv, TypeOK, InSection
<1>3. \A d \in Clients \ {c} : Aside(d)
  BY DEF Aside, TypeOK
<1>4. InFlight(c) = {} /\ InFlight(c)' = {} /\ own' = own
  BY DEF InFlight, TypeOK
<1>5. BitmapExact'
  BY <1>3, <1>4, BitmapMove DEF Charged
<1>6. CallInv(c)'
  BY DEF CallInv, TypeOK
<1> QED
  BY <1>1, <1>2, <1>3, <1>5, <1>6, StepInv

\* AllocatePages takes the lock and starts its scan with an empty run.
LEMMA AllocLockInv ==
    ASSUME IInv, NEW c \in Clients, AllocLock(c) PROVE IInv'
<1> USE DEF AllocLock, Goto, args, IInv
<1>1. TypeOK'
  BY DEF TypeOK, Pcs, InSection
<1>2. LockInv'
  BY NobodyAssumption DEF LockInv, TypeOK, InSection
<1>3. \A d \in Clients \ {c} : Aside(d)
  BY DEF Aside, TypeOK
<1>4. InFlight(c) = {} /\ InFlight(c)' = {} /\ own' = own
  BY DEF InFlight, TypeOK
<1>5. BitmapExact'
  BY <1>3, <1>4, BitmapMove DEF Charged
<1>6. CallInv(c)'
  <2>1. CASE count[c] = 0
    BY <2>1 DEF CallInv, TypeOK, ReturnInv
  <2>2. CASE count[c] # 0
    <3>1. ScanInv(c)'
      BY <2>2, FrameCountAssumption DEF ScanInv, TypeOK, Frames
    <3> QED
      BY <2>2, <3>1 DEF CallInv, TypeOK
  <2> QED
    BY <2>1, <2>2
<1> QED
  BY <1>1, <1>2, <1>3, <1>5, <1>6, StepInv

\* A page that is not free ends the current run: no run spans it.
LEMMA ScanTakenInv ==
    ASSUME IInv, NEW c \in Clients, ScanTaken(c) PROVE IInv'
<1> USE DEF ScanTaken, Goto, args, IInv
<1>1. TypeOK'
  BY DEF TypeOK
<1>2. LockInv'
  BY DEF LockInv
<1>3. \A d \in Clients \ {c} : Aside(d)
  BY DEF Aside, TypeOK
<1>4. InFlight(c) = {} /\ InFlight(c)' = {} /\ own' = own
  BY DEF InFlight, TypeOK
<1>5. BitmapExact'
  BY <1>3, <1>4, BitmapMove DEF Charged
<1>6. ScanInv(c)'
  <2>1. ScanInv(c) /\ page[c] \in Frames /\ page[c] \notin FreeSet
    BY FrameCountAssumption DEF CallInv, TypeOK, Frames, IsFree, FreeSet, IsPageReserved, IsPageAllocated
  <2>2. /\ page'[c] = page[c] + 1 /\ runLength'[c] = 0 /\ count'[c] = count[c]
        /\ result'[c] = result[c] /\ FreeSet' = FreeSet
    BY DEF TypeOK, FreeSet
  <2>3. ASSUME NEW s \in Frames, Run(s, count[c]) \subseteq FreeSet PROVE s >= page[c] + 1
    <3>1. s >= page[c] - runLength[c]
      BY <2>1, <2>3 DEF ScanInv
    <3>2. page[c] \notin Run(s, count[c])
      BY <2>1, <2>3
    <3> QED
      BY <2>1, <3>1, <3>2 DEF ScanInv, Run, TypeOK, Frames
  <2> QED
    BY <2>1, <2>2, <2>3, FrameCountAssumption DEF ScanInv, TypeOK, Frames
<1>7. CallInv(c)'
  BY <1>6 DEF CallInv, TypeOK
<1> QED
  BY <1>1, <1>2, <1>3, <1>5, <1>7, StepInv

\* A free page extends the run, or completes the first long enough one.
LEMMA ScanFreeInv ==
    ASSUME IInv, NEW c \in Clients, ScanFree(c) PROVE IInv'
<1> USE DEF ScanFree, Goto, args, IInv
<1>0. ScanInv(c) /\ page[c] \in Frames /\ page[c] \in FreeSet
  BY DEF CallInv, IsFree, FreeSet, IsPageReserved, IsPageAllocated
<1>a. /\ page[c] \in Nat /\ runStart[c] \in Nat /\ runLength[c] \in Nat /\ count[c] \in Nat
      /\ runStart'[c] = page[c] - runLength[c]
      /\ runLength'[c] = runLength[c] + 1
      /\ count'[c] = count[c] /\ result'[c] = result[c] /\ FreeSet' = FreeSet
  BY <1>0 DEF TypeOK, ScanInv, FreeSet
<1>1. TypeOK'
  BY <1>0, <1>a DEF TypeOK, Pcs, InSection, ScanInv
<1>2. LockInv'
  BY DEF LockInv, TypeOK, InSection
<1>3. \A d \in Clients \ {c} : Aside(d)
  BY DEF Aside, TypeOK
<1>4. InFlight(c) = {} /\ InFlight(c)' = {} /\ own' = own
  BY <1>a DEF InFlight, TypeOK
<1>5. BitmapExact'
  BY <1>3, <1>4, BitmapMove DEF Charged
<1>6. CallInv(c)'
  <2>1. CASE runLength[c] + 1 = count[c]
    <3>1. pc'[c] = "mark" /\ page'[c] = runStart'[c]
      BY <2>1 DEF TypeOK
    <3>2. runStart'[c] + count[c] = page[c] + 1 /\ page[c] + 1 <= FrameCount
      BY <1>0, <1>a, <2>1, FrameCountAssumption DEF Frames
    <3>3. \A f \in Frames : runStart'[c] <= f /\ f < runStart'[c] + count[c] => f \in FreeSet
      BY <1>0, <1>a, <3>2, FrameCountAssumption DEF ScanInv, Frames
    <3>4. runStart'[c] \in Frames /\ runStart'[c] \in FreeSet
      BY <1>0, <1>a, <3>2, <3>3, FrameCountAssumption DEF ScanInv, Frames
    <3>5. 0 < runStart'[c]
      BY <1>a, <3>4, ReservedAssumption, FrameCountAssumption DEF FreeSet, Frames
    <3>6. Run(runStart'[c], count[c]) \subseteq FreeSet
      BY <1>0, <1>a, <3>2, <3>3, FrameCountAssumption DEF Run, Frames, ScanInv
    <3>7. \A s \in 0 .. runStart'[c] - 1 :
            ~(Run(s, count[c]) \subseteq FreeSet \cup Run(runStart'[c], count[c]))
      <4> SUFFICES ASSUME NEW s \in 0 .. runStart'[c] - 1, Run(s, count[c]) \subseteq FreeSet
                   PROVE  FALSE
        BY <3>6
      <4>1. s \in Frames
        BY <1>a, <3>4, FrameCountAssumption DEF Frames
      <4>2. s >= page[c] - runLength[c]
        BY <1>0, <4>1 DEF ScanInv
      <4> QED
        BY <1>a, <4>1, <4>2 DEF Frames
    <3>8. MarkInv(c)'
      BY <1>0, <1>a, <3>1, <3>2, <3>3, <3>5, <3>7 DEF MarkInv, ScanInv, Frames, Run
    <3> QED
      BY <3>1, <3>8 DEF CallInv
  <2>2. CASE runLength[c] + 1 # count[c]
    <3>1. pc'[c] = "scan" /\ page'[c] = page[c] + 1
      BY <2>2 DEF TypeOK
    <3>2. \A f \in Frames : page'[c] - runLength'[c] <= f /\ f < page'[c] => f \in FreeSet
      BY <1>0, <1>a, <3>1 DEF ScanInv, Frames
    <3>3. ScanInv(c)'
      BY <1>0, <1>a, <2>2, <3>1, <3>2, FrameCountAssumption DEF ScanInv, Frames, Run
    <3> QED
      BY <3>1, <3>3 DEF CallInv
  <2> QED
    BY <2>1, <2>2
<1> QED
  BY <1>1, <1>2, <1>3, <1>5, <1>6, StepInv

\* A scan that reaches the end has seen every run and found none.
LEMMA ScanFailedInv ==
    ASSUME IInv, NEW c \in Clients, ScanFailed(c) PROVE IInv'
<1> USE DEF ScanFailed, Goto, args, scan, IInv
<1>0. ScanInv(c) /\ page[c] = FrameCount
  BY DEF CallInv
<1>1. TypeOK'
  BY DEF TypeOK, Pcs, InSection
<1>2. LockInv'
  BY DEF LockInv, TypeOK, InSection
<1>3. \A d \in Clients \ {c} : Aside(d)
  BY DEF Aside, TypeOK
<1>4. InFlight(c) = {} /\ InFlight(c)' = {} /\ own' = own
  BY <1>0 DEF InFlight, TypeOK, ScanInv
<1>5. BitmapExact'
  BY <1>3, <1>4, BitmapMove DEF Charged
<1>6. CallInv(c)'
  <2>1. ASSUME NEW s \in Frames, Run(s, count[c]) \subseteq FreeSet PROVE FALSE
    <3>1. s >= FrameCount - runLength[c]
      BY <1>0, <2>1 DEF ScanInv
    <3>2. s + count[c] - 1 \in Run(s, count[c])
      BY <1>0 DEF Run, ScanInv, TypeOK, Frames
    <3>3. s + count[c] - 1 \in Frames
      BY <2>1, <3>2 DEF FreeSet
    <3> QED
      BY <1>0, <3>1, <3>3, FrameCountAssumption DEF ScanInv, TypeOK, Frames
  <2>2. VerdictOf(c)'
    BY <1>0, <2>1 DEF VerdictOf, ScanInv, FreeSet, TypeOK, Run
  <2> QED
    BY <1>0, <2>2 DEF CallInv, ReturnInv, ScanInv, TypeOK
<1> QED
  BY <1>1, <1>2, <1>3, <1>5, <1>6, StepInv

\* Marking the next page of the run moves it from free to in flight.
LEMMA MarkStepInv ==
    ASSUME IInv, NEW c \in Clients, Mark(c) PROVE IInv'
<1> USE DEF Mark, args, scan, IInv
<1>0. /\ MarkInv(c) /\ lock = c
      /\ page[c] \in Nat /\ runStart[c] \in Nat /\ count[c] \in Nat
      /\ page'[c] = page[c] + 1
  BY DEF CallInv, LockInv, InSection, TypeOK
<1>a. page[c] \in FreeSet /\ page[c] \in Frames
  BY <1>0, FrameCountAssumption DEF MarkInv, Frames
<1>1. TypeOK'
  BY <1>a DEF TypeOK
<1>2. LockInv'
  BY DEF LockInv
<1>3. \A d \in Clients \ {c} : Aside(d)
  BY DEF Aside, TypeOK
<1>4. InFlight(c)' = InFlight(c) \cup {page[c]}
  BY <1>0, <1>a DEF InFlight, MarkInv, Frames
<1>5. BitmapExact'
  BY <1>3, <1>4, <1>a, BitmapMark
<1>6. FreeSet' = FreeSet \ {page[c]}
  BY DEF FreeSet
<1>7. FreeSet' \cup Run(runStart[c], count[c]) = FreeSet \cup Run(runStart[c], count[c])
  BY <1>0, <1>6 DEF MarkInv, Run
<1>8. MarkInv(c)'
  BY <1>0, <1>6, <1>7 DEF MarkInv, Run, Frames
<1>9. CallInv(c)'
  BY <1>8 DEF CallInv
<1> QED
  BY <1>0, <1>1, <1>2, <1>3, <1>5, <1>9, StepInv

\* With the whole run marked the result is its address, which is not 0.
LEMMA MarkDoneInv ==
    ASSUME IInv, NEW c \in Clients, MarkDone(c) PROVE IInv'
<1> USE DEF MarkDone, Goto, args, scan, IInv
<1>0. /\ MarkInv(c)
      /\ page[c] \in Nat /\ runStart[c] \in Nat /\ count[c] \in Nat
      /\ result'[c] = runStart[c] * PageSize
      /\ runStart'[c] = runStart[c] /\ count'[c] = count[c] /\ pc'[c] = "alloc_unlock"
  BY DEF CallInv, TypeOK
<1>a. /\ result'[c] # 0 /\ result'[c] \in Nat /\ result'[c] \div PageSize = runStart[c]
      /\ result'[c] % PageSize = 0
  BY <1>0, DivMul, PageSizeAssumption DEF MarkInv
<1>1. TypeOK'
  BY <1>0, <1>a DEF TypeOK, Pcs, InSection
<1>2. LockInv'
  BY DEF LockInv, TypeOK, InSection
<1>3. \A d \in Clients \ {c} : Aside(d)
  BY DEF Aside, TypeOK
<1>4. InFlight(c)' = InFlight(c) /\ own' = own
  BY <1>0, <1>a DEF InFlight, Run
<1>5. BitmapExact'
  <2>1. own[c] \cap InFlight(c) = {}
    BY DEF BitmapExact
  <2> QED
    BY <1>3, <1>4, <2>1, BitmapMove DEF Charged
<1>6. VerdictOf(c)'
  BY <1>0, <1>a DEF VerdictOf, MarkInv, FreeSet
<1>7. CallInv(c)'
  BY <1>0, <1>6 DEF CallInv, ReturnInv, MarkInv
<1> QED
  BY <1>1, <1>2, <1>3, <1>5, <1>7, StepInv

\* Returning hands what is in flight to the caller.
LEMMA AllocReturnInv ==
    ASSUME IInv, NEW c \in Clients, AllocReturn(c) PROVE IInv'
<1> USE DEF AllocReturn, Leave, Goto, IInv
<1>0. ReturnInv(c) /\ lock = c
  BY DEF CallInv, LockInv, InSection
<1>a. result[c] # 0 => /\ result[c] \div PageSize = runStart[c]
                       /\ Run(runStart[c], count[c]) \subseteq Frames
  BY <1>0, DivMul, FrameCountAssumption DEF ReturnInv, Run, Frames, TypeOK
<1>b. own'[c] = own[c] \cup InFlight(c)
  BY <1>a DEF InFlight, TypeOK
<1>1. TypeOK'
  BY <1>a DEF TypeOK, Pcs
<1>2. LockInv'
  BY <1>0, NobodyAssumption DEF LockInv, TypeOK, InSection
<1>3. \A d \in Clients \ {c} : Aside(d)
  BY DEF Aside, TypeOK
<1>4. InFlight(c)' = {}
  BY DEF InFlight, TypeOK
<1>5. BitmapExact'
  BY <1>3, <1>4, <1>b, BitmapMove DEF Charged
<1>6. CallInv(c)'
  BY DEF CallInv, TypeOK
<1> QED
  BY <1>1, <1>2, <1>3, <1>5, <1>6, StepInv

\* A caller that frees what it owns puts it in flight.
LEMMA OwnedFreeInv ==
    ASSUME IInv, NEW c \in Clients, NEW f \in Frames, NEW k \in Sizes, OwnedFree(c, f, k)
    PROVE  IInv'
<1> USE SizesAssumption, FrameCountAssumption DEF OwnedFree, FreePages, Goto, scan, IInv
<1>0. /\ f \in Nat /\ k \in Nat
      /\ start'[c] = f * PageSize /\ start'[c] \in Nat /\ count'[c] = k /\ pc'[c] = "free_lock"
      /\ start'[c] \div PageSize = f /\ start'[c] % PageSize = 0
      /\ Run(f, k) \subseteq own[c] /\ own[c] \subseteq Frames
  BY DivMul, PageSizeAssumption DEF TypeOK, Frames
<1>1. TypeOK'
  BY <1>0 DEF TypeOK, Pcs
<1>2. LockInv'
  BY DEF LockInv, TypeOK, InSection
<1>3. \A d \in Clients \ {c} : Aside(d)
  BY DEF Aside, TypeOK
<1>4. InFlight(c) = {} /\ InFlight(c)' = Run(f, k)
  BY <1>0 DEF InFlight, TypeOK
<1>5. own'[c] = own[c] \ Run(f, k)
  BY DivMul, <1>0 DEF TypeOK
<1>6. BitmapExact'
  BY <1>0, <1>3, <1>4, <1>5, BitmapMove DEF Charged
<1>7. CallInv(c)'
  BY <1>0 DEF CallInv, FreeInv
<1> QED
  BY <1>1, <1>2, <1>3, <1>6, <1>7, StepInv

\* FreePages takes the lock with all its pages still to be cleared.
LEMMA FreeLockInv ==
    ASSUME IInv, NEW c \in Clients, FreeLock(c) PROVE IInv'
<1> USE DEF FreeLock, Goto, args, scan, IInv
<1>0. /\ FreeInv(c) /\ start[c] \div PageSize \in Nat /\ count[c] \in Nat
      /\ pc'[c] = "clear" /\ page'[c] = start[c] \div PageSize
      /\ start'[c] = start[c] /\ count'[c] = count[c]
  BY DivNat DEF CallInv, FreeInv, TypeOK
<1>1. TypeOK'
  BY <1>0 DEF TypeOK, Pcs, InSection
<1>2. LockInv'
  BY <1>0, NobodyAssumption DEF LockInv, TypeOK, InSection
<1>3. \A d \in Clients \ {c} : Aside(d)
  BY DEF Aside, TypeOK
<1>4. InFlight(c)' = InFlight(c) /\ own' = own
  BY <1>0 DEF InFlight, EndPage, Run
<1>5. BitmapExact'
  <2>1. own[c] \cap InFlight(c) = {}
    BY DEF BitmapExact
  <2> QED
    BY <1>3, <1>4, <2>1, BitmapMove DEF Charged
<1>6. CallInv(c)'
  BY <1>0 DEF CallInv, FreeInv, EndPage
<1> QED
  BY <1>1, <1>2, <1>3, <1>5, <1>6, StepInv

\* Clearing the next page moves it from in flight to free.
LEMMA ClearInv ==
    ASSUME IInv, NEW c \in Clients, Clear(c) PROVE IInv'
<1> USE DEF Clear, args, scan, IInv
<1>0. /\ FreeInv(c) /\ lock = c /\ start[c] \div PageSize <= page[c] /\ page[c] < EndPage(c)
      /\ start[c] \div PageSize \in Nat /\ count[c] \in Nat /\ page[c] \in Nat
      /\ page'[c] = page[c] + 1 /\ EndPage(c)' = EndPage(c) /\ EndPage(c) \in Nat
  BY DivNat DEF CallInv, LockInv, InSection, TypeOK, EndPage
<1>1. TypeOK'
  BY DEF TypeOK
<1>2. LockInv'
  BY DEF LockInv
<1>3. \A d \in Clients \ {c} : Aside(d)
  BY DEF Aside, TypeOK
<1>4. page[c] \in InFlight(c) /\ InFlight(c)' = InFlight(c) \ {page[c]}
  BY <1>0 DEF InFlight, Frames
<1>5. BitmapExact'
  BY <1>3, <1>4, BitmapClear
<1>6. CallInv(c)'
  BY <1>0 DEF CallInv, FreeInv
<1> QED
  BY <1>0, <1>1, <1>2, <1>3, <1>5, <1>6, StepInv

\* The PANICs of FreePages are unreachable: the frames still to be cleared
\* are in flight, so they are allocated, and no allocated frame is reserved.
LEMMA ClearNeverPanics ==
    ASSUME IInv, NEW c \in Clients, ClearPanics(c) PROVE FALSE
<1> USE DEF ClearPanics, IInv
<1>0. /\ FreeInv(c) /\ start[c] \div PageSize <= page[c] /\ page[c] < EndPage(c)
      /\ start[c] \div PageSize \in Nat /\ count[c] \in Nat /\ page[c] \in Nat
  BY DivNat DEF CallInv, TypeOK
<1>1. page[c] \in Frames
  BY <1>0 DEF FreeInv, Run, EndPage
<1>2. page[c] \in InFlight(c)
  BY <1>0, <1>1 DEF InFlight, EndPage
<1>3. page[c] \in allocated /\ page[c] \notin Reserved
  BY <1>2 DEF BitmapExact, Charged
<1> QED
  BY <1>1, <1>3 DEF IsPageReserved, IsPageAllocated

\* After the last page nothing is in flight.
LEMMA ClearDoneInv ==
    ASSUME IInv, NEW c \in Clients, ClearDone(c) PROVE IInv'
<1> USE DEF ClearDone, Goto, args, scan, IInv
<1>0. page[c] = EndPage(c) /\ page[c] \in Nat
  BY DEF TypeOK
<1>1. TypeOK'
  BY DEF TypeOK, Pcs, InSection
<1>2. LockInv'
  BY DEF LockInv, TypeOK, InSection
<1>3. \A d \in Clients \ {c} : Aside(d)
  BY DEF Aside, TypeOK
<1>4. InFlight(c) = {} /\ InFlight(c)' = {} /\ own' = own
  BY <1>0 DEF InFlight, TypeOK, Frames
<1>5. BitmapExact'
  BY <1>3, <1>4, BitmapMove DEF Charged
<1>6. CallInv(c)'
  BY DEF CallInv, TypeOK
<1> QED
  BY <1>1, <1>2, <1>3, <1>5, <1>6, StepInv

\* FreePages gives up the lock.
LEMMA FreeReturnInv ==
    ASSUME IInv, NEW c \in Clients, FreeReturn(c) PROVE IInv'
<1> USE DEF FreeReturn, Leave, Goto, IInv
<1>0. lock = c
  BY DEF LockInv, InSection
<1>1. TypeOK'
  BY DEF TypeOK, Pcs
<1>2. LockInv'
  BY <1>0, NobodyAssumption DEF LockInv, TypeOK, InSection
<1>3. \A d \in Clients \ {c} : Aside(d)
  BY DEF Aside, TypeOK
<1>4. InFlight(c) = {} /\ InFlight(c)' = {} /\ own' = own
  BY DEF InFlight, TypeOK
<1>5. BitmapExact'
  BY <1>3, <1>4, BitmapMove DEF Charged
<1>6. CallInv(c)'
  BY DEF CallInv, TypeOK
<1> QED
  BY <1>1, <1>2, <1>3, <1>5, <1>6, StepInv

\* Every step keeps the invariant.
LEMMA NextInv ==
    ASSUME WildFrees = {} PROVE IInv /\ [Next]_vars => IInv'
<1> SUFFICES ASSUME IInv, [Next]_vars PROVE IInv'
  OBVIOUS
<1>1. ASSUME NEW c \in Clients, Section(c) PROVE IInv'
  BY <1>1, AllocLockInv, ScanTakenInv, ScanFreeInv, ScanFailedInv, MarkStepInv,
     MarkDoneInv, AllocReturnInv, FreeLockInv, ClearInv, ClearNeverPanics, ClearDoneInv,
     FreeReturnInv DEF Section
<1>2. CASE UNCHANGED vars
  BY <1>2 DEF vars, IInv, TypeOK, LockInv, BitmapExact, Charged, InFlight, EndPage, CallInv,
              ScanInv, MarkInv, ReturnInv, FreeInv, VerdictOf, FreeSet
<1> QED
  BY <1>1, <1>2, AllocatePagesInv, OwnedFreeInv DEF Next

\* The invariant holds in every reachable state.
LEMMA InductiveInvariant ==
    ASSUME WildFrees = {} PROVE Spec => []IInv
<1>1. Init => IInv
  BY InitInv
<1>2. IInv /\ [Next]_vars => IInv'
  BY NextInv
<1> QED
  BY <1>1, <1>2, PTL DEF Spec

\* The bits of _allocatableBitmap are exactly the frames in use, each charged
\* to one caller, for any memory and any number of callers.
THEOREM BitmapExactHolds ==
    ASSUME WildFrees = {} PROVE Spec => []BitmapExact
<1>1. IInv => BitmapExact
  BY DEF IInv
<1> QED
  BY <1>1, InductiveInvariant, PTL

\* AllocatePages fails only if no run of free frames is long enough, and what
\* it returns is the lowest such run.
THEOREM FirstFitVerdictHolds ==
    ASSUME WildFrees = {} PROVE Spec => []FirstFitVerdict
<1>1. IInv => FirstFitVerdict
  BY DEF IInv, CallInv, ReturnInv, FirstFitVerdict
<1> QED
  BY <1>1, InductiveInvariant, PTL

\* Clients that free only what they own never reach a PANIC of FreePages.
THEOREM NoPanicHolds ==
    ASSUME WildFrees = {} PROVE Spec => []NoPanic
<1>1. IInv => NoPanic
  BY DEF IInv, CallInv, NoPanic
<1> QED
  BY <1>1, InductiveInvariant, PTL

(***************************************************************************)
(* The refinement of PageAllocator, for clients that free what they own.   *)
(***************************************************************************)
\* While c returns from AllocatePages nobody else is in the section: what the
\* abstract allocator sees as free is FreeSet and what c is to be given.
LEMMA AbstractFree ==
    ASSUME IInv, NEW c \in Clients, pc[c] = "alloc_unlock"
    PROVE  Abstract!FreeFrames = FreeSet \cup InFlight(c)
<1> USE DEF IInv
<1>1. ASSUME NEW d \in Clients \ {c}
      PROVE  Charged(d) = own[d] \cup Abstract!Returning(d)
  <2>1. pc[d] \notin InSection
    BY Excluded, <1>1 DEF LockInv, InSection
  <2>2. CASE pc[d] = "free_lock"
    <3>1. Abstract!Returning(d) = Run(start[d] \div PageSize, count[d])
      BY <2>2 DEF Abstract!Returning, Abstract!Run, Run, Request, RequestOf
    <3>2. InFlight(d) = Run(start[d] \div PageSize, count[d])
      BY <2>2 DEF CallInv, FreeInv, InFlight
    <3> QED
      BY <3>1, <3>2 DEF Charged
  <2>3. CASE pc[d] # "free_lock"
    <3>1. InFlight(d) = {}
      BY <2>1, <2>3 DEF InFlight, InSection
    <3>2. Abstract!Returning(d) = {}
      BY <2>1, <2>3 DEF Abstract!Returning, Request, RequestOf, InSection
    <3> QED
      BY <3>1, <3>2 DEF Charged
  <2> QED
    BY <2>2, <2>3
<1>2. Abstract!Returning(c) = {}
  BY DEF Abstract!Returning, Request, RequestOf
<1>3. /\ allocated = UNION {Charged(d) : d \in Clients}
      /\ own[c] \cap InFlight(c) = {} /\ allocated \cap Reserved = {}
      /\ \A d \in Clients \ {c} : Charged(c) \cap Charged(d) = {}
  BY DEF BitmapExact
<1>4. InFlight(c) \subseteq Frames \ Reserved
  BY <1>3 DEF InFlight, Charged
<1>5. \A f : (\E d \in Clients : f \in own[d] \cup Abstract!Returning(d))
               <=> f \in allocated /\ f \notin InFlight(c)
  BY <1>1, <1>2, <1>3 DEF Charged
<1> QED
  BY <1>3, <1>4, <1>5 DEF Abstract!FreeFrames, Abstract!Frames, Frames, FreeSet

\* A step that leaves the callers' view of all calls alone is a stutter.
LEMMA RefinesStutter ==
    ASSUME TypeOK, NEW c \in Clients, own' = own, RequestOf(c)' = RequestOf(c),
           \A d \in Clients \ {c} : Aside(d)
    PROVE  UNCHANGED <<own, Request>>
<1>1. \A d \in Clients : RequestOf(d)' = RequestOf(d)
  BY DEF RequestOf, Aside
<1> QED
  BY <1>1 DEF Request

\* A step that changes the caller's view of one call.
LEMMA RefinesRequest ==
    ASSUME TypeOK, NEW c \in Clients, NEW r, RequestOf(c)' = r,
           \A d \in Clients \ {c} : Aside(d)
    PROVE  Request' = [Request EXCEPT ![c] = r]
<1>1. \A d \in Clients \ {c} : RequestOf(d)' = RequestOf(d)
  BY DEF RequestOf, Aside
<1> QED
  BY <1>1 DEF Request

\* A successful AllocatePages returns the first fit of the abstract allocator.
LEMMA RefinesGrant ==
    ASSUME IInv, NEW c \in Clients, AllocReturn(c), result[c] # 0
    PROVE  Abstract!Grant(c)
<1> USE DEF IInv
<1> DEFINE k == count[c]
           r == runStart[c]
<1>1. /\ pc[c] = "alloc_unlock" /\ k \in Nat /\ k > 0 /\ r \in Nat /\ r + k <= FrameCount
      /\ result[c] = r * PageSize /\ VerdictOf(c)
  BY DEF AllocReturn, CallInv, ReturnInv, TypeOK
<1>2. result[c] \div PageSize = r
  BY <1>1, DivMul
<1>3. InFlight(c) = Run(r, k) /\ Run(r, k) \subseteq Frames
  BY <1>1, <1>2, FrameCountAssumption DEF InFlight, Run, Frames
<1>4. Abstract!FreeFrames = FreeSet \cup Run(r, k)
  BY <1>1, <1>3, AbstractFree
<1>5. r \in Frames /\ Abstract!Fits(r, k)
  BY <1>1, <1>3, <1>4, FrameCountAssumption
     DEF Abstract!Fits, Abstract!Run, Run, Frames
<1>6. ASSUME NEW t \in Frames, Abstract!Fits(t, k) PROVE r <= t
  <2>1. Run(t, k) \subseteq FreeSet \cup Run(r, k)
    BY <1>4, <1>6 DEF Abstract!Fits, Abstract!Run, Run
  <2>2. t \notin 0 .. r - 1
    BY <1>1, <1>2, <2>1 DEF VerdictOf
  <2> QED
    BY <1>1, <2>2 DEF Frames
<1>7. Abstract!FirstFit(k) = r
  <2>1. \A s \in Frames : Abstract!Fits(s, k) /\ (\A t \in Frames : Abstract!Fits(t, k) => s <= t)
                            => s = r
    BY <1>1, <1>5, <1>6 DEF Frames
  <2> QED
    BY <1>5, <1>6, <2>1 DEF Abstract!FirstFit, Abstract!Frames, Frames
<1>8. own' = [own EXCEPT ![c] = @ \cup Abstract!Run(Abstract!FirstFit(k), k)]
  BY <1>2, <1>7 DEF AllocReturn, Abstract!Run, Run
<1>9. Request[c] = [op |-> "alloc", start |-> 0, count |-> k]
  BY <1>1 DEF Request, RequestOf
<1>10. Request' = [Request EXCEPT ![c] = Abstract!None]
  <2>1. \A d \in Clients \ {c} : Aside(d)
    BY DEF AllocReturn, Leave, Goto, Aside, TypeOK
  <2>2. RequestOf(c)' = Abstract!None
    BY DEF AllocReturn, Leave, Goto, RequestOf, Abstract!None, TypeOK
  <2> QED
    BY <2>1, <2>2, RefinesRequest
<1> QED
  BY <1>1, <1>5, <1>8, <1>9, <1>10 DEF Abstract!Grant, Abstract!Frames, Frames

\* A refusal is one of the abstract allocator.
LEMMA RefinesRefuse ==
    ASSUME IInv, NEW c \in Clients, AllocReturn(c), result[c] = 0
    PROVE  Abstract!Refuse(c)
<1> USE DEF IInv
<1> DEFINE k == count[c]
<1>1. pc[c] = "alloc_unlock" /\ k \in Nat /\ (k > 0 => VerdictOf(c))
  BY DEF AllocReturn, CallInv, ReturnInv, TypeOK
<1>2. Abstract!FreeFrames = FreeSet
  <2>1. InFlight(c) = {}
    BY <1>1 DEF InFlight
  <2> QED
    BY <1>1, <2>1, AbstractFree
<1>3. k = 0 \/ \A s \in Frames : ~Abstract!Fits(s, k)
  BY <1>1, <1>2 DEF VerdictOf, Abstract!Fits, Abstract!Run, Run
<1>4. Request[c] = [op |-> "alloc", start |-> 0, count |-> k]
  BY <1>1 DEF Request, RequestOf
<1>5. own' = own
  BY DEF AllocReturn
<1>6. Request' = [Request EXCEPT ![c] = Abstract!None]
  <2>1. \A d \in Clients \ {c} : Aside(d)
    BY DEF AllocReturn, Leave, Goto, Aside, TypeOK
  <2>2. RequestOf(c)' = Abstract!None
    BY DEF AllocReturn, Leave, Goto, RequestOf, Abstract!None, TypeOK
  <2> QED
    BY <2>1, <2>2, RefinesRequest
<1> QED
  BY <1>3, <1>4, <1>5, <1>6 DEF Abstract!Refuse, Abstract!Frames, Frames

\* Freeing: what was owned is returned when FreePages comes to its end.
LEMMA RefinesFree ==
    ASSUME IInv, NEW c \in Clients
    PROVE  /\ \A f \in Frames, k \in Sizes : OwnedFree(c, f, k) => Abstract!ReturnPages(c, f, k)
           /\ FreeReturn(c) => Abstract!Reclaim(c)
<1> USE DEF IInv
<1>1. ASSUME NEW f \in Frames, NEW k \in Sizes, OwnedFree(c, f, k)
      PROVE  Abstract!ReturnPages(c, f, k)
  <2>1. (f * PageSize) \div PageSize = f
    BY DivMul, FrameCountAssumption DEF Frames
  <2>2. Request[c] = Abstract!None
    BY <1>1 DEF OwnedFree, FreePages, Request, RequestOf, Abstract!None
  <2>3. /\ Run(f, k) \subseteq own[c]
        /\ own' = [own EXCEPT ![c] = @ \ Run(f, k)]
    BY <1>1, <2>1 DEF OwnedFree, FreePages
  <2>4. RequestOf(c)' = Abstract!FreeRequest(f, k)
    BY <1>1, <2>1 DEF OwnedFree, FreePages, Goto, RequestOf, Abstract!FreeRequest, TypeOK
  <2>5. \A d \in Clients \ {c} : /\ pc'[d] = pc[d] /\ count'[d] = count[d]
                                 /\ start'[d] = start[d]
    BY <1>1 DEF OwnedFree, FreePages, Goto, TypeOK
  <2>6. Request' = [Request EXCEPT ![c] = Abstract!FreeRequest(f, k)]
    BY <2>4, <2>5 DEF Request, RequestOf
  <2> QED
    BY <2>2, <2>3, <2>6 DEF Abstract!ReturnPages, Abstract!Run, Run
<1>2. ASSUME FreeReturn(c) PROVE Abstract!Reclaim(c)
  <2>1. Request[c].op = "free" /\ own' = own
    BY <1>2 DEF FreeReturn, Request, RequestOf
  <2>2. RequestOf(c)' = Abstract!None
    BY <1>2 DEF FreeReturn, Leave, Goto, RequestOf, Abstract!None, TypeOK
  <2>3. \A d \in Clients \ {c} : Aside(d)
    BY <1>2 DEF FreeReturn, Leave, Goto, Aside, TypeOK
  <2>4. Request' = [Request EXCEPT ![c] = Abstract!None]
    BY <2>2, <2>3, RefinesRequest
  <2> QED
    BY <2>1, <2>4 DEF Abstract!Reclaim
<1> QED
  BY <1>1, <1>2

\* The beginning of AllocatePages is a request.
LEMMA RefinesAllocate ==
    ASSUME IInv, NEW c \in Clients, NEW k \in Sizes, AllocatePages(c, k)
    PROVE  Abstract!RequestPages(c, k)
<1> USE DEF IInv
<1>1. Request[c] = Abstract!None /\ own' = own
  BY DEF AllocatePages, Request, RequestOf, Abstract!None
<1>2. RequestOf(c)' = Abstract!AllocRequest(k)
  BY DEF AllocatePages, Goto, RequestOf, Abstract!AllocRequest, TypeOK
<1>3. \A d \in Clients \ {c} : Aside(d)
  BY DEF AllocatePages, Goto, scan, Aside, TypeOK
<1>4. Request' = [Request EXCEPT ![c] = Abstract!AllocRequest(k)]
  BY <1>2, <1>3, RefinesRequest
<1> QED
  BY <1>1, <1>4 DEF Abstract!RequestPages

\* The steps in between change nothing that a caller sees.
LEMMA RefinesInside ==
    ASSUME IInv, NEW c \in Clients,
           \/ AllocLock(c) \/ ScanTaken(c) \/ ScanFree(c) \/ ScanFailed(c) \/ Mark(c)
           \/ MarkDone(c) \/ FreeLock(c) \/ Clear(c) \/ ClearDone(c)
    PROVE  UNCHANGED <<own, Request>>
<1> USE DEF IInv, Goto, args, scan
<1>1. own' = own
  BY DEF AllocLock, ScanTaken, ScanFree, ScanFailed, Mark, MarkDone, FreeLock, Clear, ClearDone
<1>2. \A d \in Clients \ {c} : Aside(d)
  BY DEF AllocLock, ScanTaken, ScanFree, ScanFailed, Mark, MarkDone, FreeLock, Clear, ClearDone,
         Aside, TypeOK
<1>3. count'[c] = count[c] /\ start'[c] = start[c]
  BY DEF AllocLock, ScanTaken, ScanFree, ScanFailed, Mark, MarkDone, FreeLock, Clear, ClearDone
<1>4. CASE pc[c] \in {"alloc_lock", "scan", "mark"}
  <2>1. pc'[c] \in {"scan", "mark", "alloc_unlock"}
    BY <1>4 DEF AllocLock, ScanTaken, ScanFree, ScanFailed, Mark, MarkDone, FreeLock, Clear,
                ClearDone, TypeOK
  <2> QED
    BY <1>1, <1>2, <1>3, <1>4, <2>1, RefinesStutter DEF RequestOf
<1>5. CASE pc[c] \in {"free_lock", "clear"}
  <2>1. pc'[c] \in {"clear", "free_unlock"}
    BY <1>5 DEF AllocLock, ScanTaken, ScanFree, ScanFailed, Mark, MarkDone, FreeLock, Clear,
                ClearDone, TypeOK, CallInv, FreeInv
  <2> QED
    BY <1>1, <1>2, <1>3, <1>5, <2>1, RefinesStutter DEF RequestOf
<1> QED
  BY <1>4, <1>5 DEF AllocLock, ScanTaken, ScanFree, ScanFailed, Mark, MarkDone, FreeLock, Clear,
                    ClearDone

\* Every step is one of the abstract allocator, or none.
LEMMA NextRefines ==
    ASSUME WildFrees = {} PROVE IInv /\ [Next]_vars => [Abstract!Next]_<<own, Request>>
<1> SUFFICES ASSUME IInv, [Next]_vars PROVE [Abstract!Next]_<<own, Request>>
  OBVIOUS
<1>1. ASSUME NEW c \in Clients, NEW k \in Sizes, AllocatePages(c, k) PROVE Abstract!Next
  BY <1>1, RefinesAllocate DEF Abstract!Next
<1>2. ASSUME NEW c \in Clients, NEW f \in Frames, NEW k \in Sizes, OwnedFree(c, f, k)
      PROVE  Abstract!Next
  BY <1>2, RefinesFree DEF Abstract!Next, Abstract!Frames, Frames
<1>3. ASSUME NEW c \in Clients, Section(c) PROVE [Abstract!Next]_<<own, Request>>
  <2>1. CASE AllocReturn(c)
    BY <2>1, RefinesGrant, RefinesRefuse DEF Abstract!Next
  <2>2. CASE FreeReturn(c)
    BY <2>2, RefinesFree DEF Abstract!Next
  <2>3. ~ClearPanics(c)
    BY ClearNeverPanics
  <2> QED
    BY <1>3, <2>1, <2>2, <2>3, RefinesInside DEF Section
<1>4. CASE UNCHANGED vars
  BY <1>4 DEF vars, Request, RequestOf
<1> QED
  BY <1>1, <1>2, <1>3, <1>4 DEF Next

\* PhysicalMemoryManager implements PageAllocator: for any number of clients,
\* frames and sizes each call takes effect at one instant, and an allocation
\* gives the first fit or is refused because there is none.
THEOREM ImplementsPageAllocatorHolds ==
    ASSUME WildFrees = {} PROVE Spec => ImplementsPageAllocator
<1>1. Init => Abstract!Init
  BY DEF Init, Abstract!Init, Abstract!None, Request, RequestOf
<1>2. IInv /\ [Next]_vars => [Abstract!Next]_<<own, Request>>
  BY NextRefines
<1> QED
  BY <1>1, <1>2, InductiveInvariant, PTL DEF Spec, ImplementsPageAllocator, Abstract!Spec

(***************************************************************************)
(* The counter, and what a panic leaves, for any frees, right or wrong:    *)
(* from here on there is no hypothesis on WildFrees.                       *)
(***************************************************************************)
\* The run that AllocatePages has found is free from page on, and what it
\* returns lies within the bitmap.
RunInv(c) ==
    /\ pc[c] = "scan" =>
         /\ result[c] = 0
         /\ page[c] <= FrameCount /\ runLength[c] <= page[c]
         /\ runLength[c] > 0 => runStart[c] = page[c] - runLength[c]
         /\ \A f \in Frames : page[c] - runLength[c] <= f /\ f < page[c] => f \in FreeSet
    /\ pc[c] = "mark" =>
         /\ runStart[c] <= page[c] /\ page[c] <= runStart[c] + count[c]
         /\ runStart[c] + count[c] <= FrameCount
         /\ \A f \in Frames : page[c] <= f /\ f < runStart[c] + count[c] => f \in FreeSet
    /\ pc[c] = "alloc_unlock" /\ result[c] # 0 =>
         Run(result[c] \div PageSize, count[c]) \subseteq Frames

\* By how much the counter is behind while c marks or clears.
Behind(c) == IF pc[c] = "mark" THEN page[c] - runStart[c]
             ELSE IF pc[c] = "clear" THEN start[c] \div PageSize - page[c]
             ELSE 0

\* A panic leaves the counter behind, and the lock locked.
CountInv ==
    /\ lock = Nobody => usableFrames = Cardinality(FreeSet)
    /\ \A c \in Clients : lock = c /\ pc[c] # "panic" =>
                            usableFrames = Cardinality(FreeSet) + Behind(c)

WildInv == TypeOK /\ LockInv /\ CountInv /\ \A c \in Clients : RunInv(c)

\* The free frames can be counted, and a frame more or less counts as one.
LEMMA FreeCount ==
    /\ IsFiniteSet(FreeSet) /\ Cardinality(FreeSet) \in Nat
    /\ \A p \in FreeSet : Cardinality(FreeSet \ {p}) = Cardinality(FreeSet) - 1
    /\ \A p : p \notin FreeSet => Cardinality(FreeSet \cup {p}) = Cardinality(FreeSet) + 1
<1>1. IsFiniteSet(FreeSet)
  BY UsableCount, FS_Subset DEF FreeSet
<1> QED
  BY <1>1, FS_CardinalityType, FS_RemoveElement, FS_AddElement

\* WildInv after a step of client c follows from what the step does to c.
LEMMA WildStep ==
    ASSUME WildInv, NEW c \in Clients,
           \A d \in Clients \ {c} : Aside(d),
           allocated' = allocated \/ lock = c,
           TypeOK', LockInv', RunInv(c)',
           lock' = Nobody => usableFrames' = Cardinality(FreeSet'),
           lock' = c /\ pc'[c] # "panic" => usableFrames' = Cardinality(FreeSet') + Behind(c)',
           lock' = lock \/ lock' \in {c, Nobody},
           lock' = lock /\ lock # c => allocated' = allocated /\ usableFrames' = usableFrames
    PROVE  WildInv'
<1>1. ASSUME NEW d \in Clients \ {c} PROVE RunInv(d)'
  <2>1. allocated' = allocated \/ pc[d] \notin InSection
    BY Excluded DEF WildInv
  <2>2. CASE pc[d] \notin InSection
    BY <2>2 DEF Aside, RunInv, InSection
  <2>3. CASE allocated' = allocated
    BY <2>3 DEF Aside, RunInv, FreeSet, WildInv, Run
  <2> QED
    BY <2>1, <2>2, <2>3
<1>2. ASSUME NEW d \in Clients, lock' = d, pc'[d] # "panic"
      PROVE  usableFrames' = Cardinality(FreeSet') + Behind(d)'
  <2>1. CASE d = c
    BY <1>2, <2>1
  <2>2. CASE d # c
    <3>1. lock = d /\ allocated' = allocated /\ usableFrames' = usableFrames /\ Aside(d)
      BY <1>2, <2>2, NobodyAssumption
    <3>2. Behind(d)' = Behind(d) /\ FreeSet' = FreeSet
      BY <3>1 DEF Aside, Behind, FreeSet
    <3> QED
      BY <1>2, <3>1, <3>2 DEF WildInv, CountInv, Aside
  <2> QED
    BY <2>1, <2>2
<1> QED
  BY <1>1, <1>2 DEF WildInv, CountInv

\* The counter is exact when Initialize has handed over the bitmaps.
LEMMA WildInit == Init => WildInv
<1> SUFFICES ASSUME Init PROVE WildInv
  OBVIOUS
<1>1. TypeOK
  BY UsableCount DEF Init, TypeOK, Pcs
<1>2. LockInv
  BY NobodyAssumption DEF Init, LockInv, InSection
<1>3. FreeSet = Frames \ Reserved
  BY DEF Init, FreeSet
<1>4. CountInv
  BY <1>3, NobodyAssumption DEF Init, CountInv
<1>5. \A c \in Clients : RunInv(c)
  BY DEF Init, RunInv
<1> QED
  BY <1>1, <1>2, <1>4, <1>5 DEF WildInv

\* A call, right or wrong, begins outside the section.
LEMMA CallWild ==
    ASSUME WildInv, NEW c \in Clients, NEW s \in Nat, NEW k \in Nat,
           AllocatePages(c, k) \/ FreePages(c, s, k)
    PROVE  WildInv'
<1> USE DEF AllocatePages, FreePages, Goto, scan, WildInv
<1>1. TypeOK'
  BY DEF TypeOK, Pcs
<1>2. LockInv'
  BY DEF LockInv, TypeOK, InSection
<1>3. \A d \in Clients \ {c} : Aside(d)
  BY DEF Aside, TypeOK
<1>4. RunInv(c)'
  BY DEF RunInv, TypeOK
<1>5. lock # c
  BY DEF LockInv, InSection
<1>6. FreeSet' = FreeSet
  BY DEF FreeSet
<1> QED
  BY <1>1, <1>2, <1>3, <1>4, <1>5, <1>6, WildStep DEF CountInv

\* Whoever takes the lock finds the counter exact.
LEMMA LockWild ==
    ASSUME WildInv, NEW c \in Clients, AllocLock(c) \/ FreeLock(c) PROVE WildInv'
<1> USE DEF AllocLock, FreeLock, Goto, args, scan, WildInv
<1>0. \A a \in Nat : a \div PageSize \in Nat
  BY DivNat
<1>1. TypeOK'
  BY <1>0 DEF TypeOK, Pcs, InSection
<1>2. LockInv'
  BY NobodyAssumption DEF LockInv, TypeOK, InSection
<1>3. \A d \in Clients \ {c} : Aside(d)
  BY DEF Aside, TypeOK
<1>4. RunInv(c)'
  BY FrameCountAssumption DEF RunInv, TypeOK, Frames
<1>5. Behind(c)' = 0
  <2>1. pc'[c] # "mark" /\ (pc'[c] = "clear" => page'[c] = start'[c] \div PageSize)
    BY DEF TypeOK
  <2>2. start'[c] \div PageSize \in Nat
    BY <1>0, <1>1 DEF TypeOK
  <2> QED
    BY <2>1, <2>2 DEF Behind
<1>6. FreeSet' = FreeSet
  BY DEF FreeSet
<1>7. usableFrames' = Cardinality(FreeSet')
  BY <1>6 DEF CountInv
<1> QED
  BY <1>1, <1>2, <1>3, <1>4, <1>5, <1>7, FreeCount, <1>6, NobodyAssumption, WildStep

\* The scan only looks: the run it has found stays free under the lock.
LEMMA ScanWild ==
    ASSUME WildInv, NEW c \in Clients, ScanTaken(c) \/ ScanFree(c) \/ ScanFailed(c)
    PROVE  WildInv'
<1> USE DEF Goto, args, scan, WildInv
<1>a. /\ page[c] \in Nat /\ runStart[c] \in Nat /\ runLength[c] \in Nat /\ count[c] \in Nat
  BY DEF TypeOK
<1>1. TypeOK'
  BY DEF ScanTaken, ScanFree, ScanFailed, TypeOK, Pcs, InSection
<1>2. LockInv' /\ lock = c /\ lock' = lock
  BY DEF ScanTaken, ScanFree, ScanFailed, LockInv, TypeOK, InSection
<1>3. \A d \in Clients \ {c} : Aside(d)
  BY DEF ScanTaken, ScanFree, ScanFailed, Aside, TypeOK
<1>4. allocated' = allocated /\ usableFrames' = usableFrames /\ FreeSet' = FreeSet
  BY DEF ScanTaken, ScanFree, ScanFailed, FreeSet
<1>5. RunInv(c)' /\ Behind(c)' = 0
  <2>1. CASE ScanTaken(c)
    BY <1>a, <1>4, <2>1, FrameCountAssumption DEF ScanTaken, RunInv, Behind, TypeOK, Frames
  <2>2. CASE ScanFailed(c)
    BY <2>2 DEF ScanFailed, RunInv, Behind, TypeOK
  <2>3. CASE ScanFree(c)
    <3>1. page[c] \in FreeSet /\ page[c] < FrameCount /\ RunInv(c) /\ pc[c] = "scan"
      BY <2>3 DEF ScanFree, IsFree, FreeSet, IsPageReserved, IsPageAllocated
    <3> DEFINE r == IF runLength[c] = 0 THEN page[c] ELSE runStart[c]
    <3>2. /\ runStart'[c] = r /\ runLength'[c] = runLength[c] + 1 /\ count'[c] = count[c]
          /\ r = page[c] - runLength[c] /\ r \in Nat /\ result'[c] = result[c]
      BY <1>a, <2>3, <3>1 DEF ScanFree, RunInv, TypeOK
    <3>3. \A f \in Frames : r <= f /\ f < page[c] + 1 => f \in FreeSet
      BY <1>a, <3>1, <3>2 DEF RunInv, Frames
    <3>4. CASE runLength[c] + 1 = count[c]
      <4>1. pc'[c] = "mark" /\ page'[c] = r
        BY <2>3, <3>2, <3>4 DEF ScanFree, TypeOK
      <4> HIDE DEF r
      <4> QED
        BY <1>a, <1>4, <3>1, <3>2, <3>3, <3>4, <4>1, FrameCountAssumption
           DEF RunInv, Behind, Frames
    <3>5. CASE runLength[c] + 1 # count[c]
      <4>1. pc'[c] = "scan" /\ page'[c] = page[c] + 1
        BY <2>3, <3>1, <3>5 DEF ScanFree, TypeOK
      <4> HIDE DEF r
      <4> QED
        BY <1>a, <1>4, <3>1, <3>2, <3>3, <3>5, <4>1, FrameCountAssumption
           DEF RunInv, Behind, Frames
    <3> QED
      BY <3>4, <3>5
  <2> QED
    BY <2>1, <2>2, <2>3
<1>6. usableFrames = Cardinality(FreeSet) + 0
  <2>1. pc[c] = "scan" /\ Behind(c) = 0
    BY DEF ScanTaken, ScanFree, ScanFailed, Behind
  <2> QED
    BY <1>2, <2>1 DEF CountInv
<1> QED
  BY <1>1, <1>2, <1>3, <1>4, <1>5, <1>6, NobodyAssumption, WildStep

\* A page marked is a free frame less, and one that the counter is behind;
\* the end of the loop makes up for all of them.
LEMMA MarkWild ==
    ASSUME WildInv, NEW c \in Clients, Mark(c) \/ MarkDone(c) PROVE WildInv'
<1> USE DEF Goto, args, scan, WildInv
<1>a. /\ page[c] \in Nat /\ runStart[c] \in Nat /\ count[c] \in Nat /\ usableFrames \in Int
  BY DEF TypeOK
<1>b. pc[c] = "mark" /\ RunInv(c)
  BY DEF Mark, MarkDone
<1>c. lock = c /\ lock' = c
  BY <1>b DEF Mark, MarkDone, LockInv, InSection
<1>d. usableFrames = Cardinality(FreeSet) + (page[c] - runStart[c])
  BY <1>b, <1>c DEF CountInv, Behind
<1>1. ASSUME Mark(c) PROVE WildInv'
  <2>1. page[c] \in FreeSet /\ page[c] \in Frames
    BY <1>a, <1>b, <1>1, FrameCountAssumption DEF Mark, RunInv, Frames
  <2>2. TypeOK'
    BY <1>1, <2>1 DEF Mark, TypeOK
  <2>3. LockInv'
    BY <1>1 DEF Mark, LockInv
  <2>4. \A d \in Clients \ {c} : Aside(d)
    BY <1>1 DEF Mark, Aside, TypeOK
  <2>5. FreeSet' = FreeSet \ {page[c]}
    BY <1>1 DEF Mark, FreeSet
  <2>6. /\ page'[c] = page[c] + 1 /\ pc'[c] = pc[c] /\ runStart'[c] = runStart[c]
        /\ count'[c] = count[c] /\ usableFrames' = usableFrames
        /\ page[c] < runStart[c] + count[c]
    BY <1>1 DEF Mark, TypeOK
  <2>7. RunInv(c)'
    BY <1>a, <1>b, <2>1, <2>5, <2>6 DEF RunInv, Frames
  <2>8. Behind(c)' = page[c] + 1 - runStart[c]
    BY <1>a, <1>b, <2>6 DEF Behind
  <2>9. usableFrames' = Cardinality(FreeSet') + Behind(c)'
    BY <1>a, <1>d, <2>1, <2>5, <2>6, <2>8, FreeCount
  <2> QED
    BY <1>c, <2>2, <2>3, <2>4, <2>7, <2>9, NobodyAssumption, WildStep
<1>2. ASSUME MarkDone(c) PROVE WildInv'
  <2>1. runStart[c] * PageSize \in Nat
    BY <1>a, PageSizeAssumption
  <2>2. TypeOK'
    BY <1>a, <1>2, <2>1 DEF MarkDone, TypeOK, Pcs, InSection
  <2>3. LockInv'
    BY <1>b, <1>2 DEF MarkDone, LockInv, TypeOK, InSection
  <2>4. \A d \in Clients \ {c} : Aside(d)
    BY <1>2 DEF MarkDone, Aside, TypeOK
  <2>5. FreeSet' = FreeSet /\ allocated' = allocated
    BY <1>2 DEF MarkDone, FreeSet
  <2>6. RunInv(c)' /\ Behind(c)' = 0
    <3>1. /\ pc'[c] = "alloc_unlock" /\ result'[c] = runStart[c] * PageSize
          /\ count'[c] = count[c]
      BY <1>2 DEF MarkDone, TypeOK
    <3>2. result'[c] \div PageSize = runStart[c]
      BY <1>a, <3>1, DivMul
    <3>3. Run(runStart[c], count[c]) \subseteq Frames
      BY <1>a, <1>b, FrameCountAssumption DEF RunInv, Run, Frames
    <3> QED
      BY <3>1, <3>2, <3>3 DEF RunInv, Behind
  <2>7. usableFrames' = Cardinality(FreeSet') + Behind(c)'
    BY <1>a, <1>d, <1>2, <2>5, <2>6, FreeCount DEF MarkDone
  <2> QED
    BY <1>c, <2>2, <2>3, <2>4, <2>5, <2>6, <2>7, NobodyAssumption, WildStep
<1> QED
  BY <1>1, <1>2

\* A page cleared is a free frame more; the end of the loop counts them, and
\* a panic before it does not, but keeps the lock.
LEMMA ClearWild ==
    ASSUME WildInv, NEW c \in Clients, Clear(c) \/ ClearPanics(c) \/ ClearDone(c)
    PROVE  WildInv'
<1> USE DEF Goto, args, scan, WildInv
<1> DEFINE s == start[c] \div PageSize
<1>a. /\ page[c] \in Nat /\ count[c] \in Nat /\ usableFrames \in Int /\ s \in Nat
  BY DivNat DEF TypeOK
<1>b. pc[c] = "clear"
  BY DEF Clear, ClearPanics, ClearDone
<1>c. lock = c /\ lock' = c
  BY <1>b DEF Clear, ClearPanics, ClearDone, LockInv, InSection
<1>d. usableFrames = Cardinality(FreeSet) + (s - page[c])
  BY <1>b, <1>c DEF CountInv, Behind
<1>e. EndPage(c) = s + count[c] /\ start'[c] = start[c]
  BY DEF EndPage, Clear, ClearPanics, ClearDone
<1>1. ASSUME Clear(c) PROVE WildInv'
  <2>1. page[c] \notin FreeSet /\ page[c] \in Frames /\ page[c] \notin Reserved
    BY <1>1 DEF Clear, FreeSet, IsPageReserved, IsPageAllocated
  <2>2. TypeOK'
    BY <1>1, <2>1 DEF Clear, TypeOK
  <2>3. LockInv'
    BY <1>1 DEF Clear, LockInv
  <2>4. \A d \in Clients \ {c} : Aside(d)
    BY <1>1 DEF Clear, Aside, TypeOK
  <2>5. FreeSet' = FreeSet \cup {page[c]}
    BY <1>1, <2>1 DEF Clear, FreeSet
  <2>6. /\ page'[c] = page[c] + 1 /\ pc'[c] = pc[c] /\ usableFrames' = usableFrames
    BY <1>1 DEF Clear, TypeOK
  <2>7. RunInv(c)'
    BY <1>b, <2>6 DEF RunInv
  <2>8. Behind(c)' = s - (page[c] + 1)
    BY <1>b, <1>e, <2>6 DEF Behind
  <2> HIDE DEF s
  <2>9. usableFrames' = Cardinality(FreeSet') + Behind(c)'
    BY <1>a, <1>d, <2>1, <2>5, <2>6, <2>8, FreeCount
  <2> QED
    BY <1>c, <2>2, <2>3, <2>4, <2>7, <2>9, NobodyAssumption, WildStep
<1>2. ASSUME ClearPanics(c) PROVE WildInv'
  <2>1. TypeOK'
    BY <1>2 DEF ClearPanics, TypeOK, Pcs, InSection
  <2>2. LockInv' /\ RunInv(c)'
    BY <1>b, <1>2 DEF ClearPanics, LockInv, RunInv, TypeOK, InSection
  <2>3. \A d \in Clients \ {c} : Aside(d)
    BY <1>2 DEF ClearPanics, Aside, TypeOK
  <2>4. pc'[c] = "panic" /\ allocated' = allocated
    BY <1>2 DEF ClearPanics, TypeOK
  <2> QED
    BY <1>c, <2>1, <2>2, <2>3, <2>4, NobodyAssumption, WildStep
<1>3. ASSUME ClearDone(c) PROVE WildInv'
  <2>1. TypeOK'
    BY <1>a, <1>3 DEF ClearDone, TypeOK, Pcs, InSection
  <2>2. LockInv' /\ RunInv(c)' /\ Behind(c)' = 0
    BY <1>b, <1>3 DEF ClearDone, LockInv, RunInv, Behind, TypeOK, InSection
  <2>3. \A d \in Clients \ {c} : Aside(d)
    BY <1>3 DEF ClearDone, Aside, TypeOK
  <2>4. FreeSet' = FreeSet /\ allocated' = allocated
    BY <1>3 DEF ClearDone, FreeSet
  <2>5. page[c] = s + count[c] /\ usableFrames' = usableFrames + count[c]
    BY <1>3, <1>e DEF ClearDone
  <2> HIDE DEF s
  <2>6. usableFrames' = Cardinality(FreeSet') + Behind(c)'
    BY <1>a, <1>d, <2>2, <2>4, <2>5, FreeCount
  <2> QED
    BY <1>c, <2>1, <2>2, <2>3, <2>4, <2>6, NobodyAssumption, WildStep
<1> QED
  BY <1>1, <1>2, <1>3

\* Whoever releases the lock leaves the counter exact.
LEMMA ReturnWild ==
    ASSUME WildInv, NEW c \in Clients, AllocReturn(c) \/ FreeReturn(c) PROVE WildInv'
<1> USE DEF Leave, Goto, WildInv
<1>1. TypeOK'
  <2>1. CASE AllocReturn(c)
    <3>1. RunInv(c) /\ own \in [Clients -> SUBSET Frames]
      BY DEF TypeOK
    <3> QED
      BY <2>1, <3>1 DEF AllocReturn, RunInv, TypeOK, Pcs
  <2>2. CASE FreeReturn(c)
    BY <2>2 DEF FreeReturn, TypeOK, Pcs
  <2> QED
    BY <2>1, <2>2
<1>2. LockInv' /\ lock = c /\ lock' = Nobody
  BY NobodyAssumption DEF AllocReturn, FreeReturn, LockInv, TypeOK, InSection
<1>3. \A d \in Clients \ {c} : Aside(d)
  BY DEF AllocReturn, FreeReturn, Aside, TypeOK
<1>4. allocated' = allocated /\ usableFrames' = usableFrames /\ FreeSet' = FreeSet
  BY DEF AllocReturn, FreeReturn, FreeSet
<1>5. RunInv(c)'
  BY DEF AllocReturn, FreeReturn, RunInv, TypeOK
<1>6. usableFrames = Cardinality(FreeSet) + 0
  <2>1. pc[c] \in {"alloc_unlock", "free_unlock"} /\ Behind(c) = 0
    BY DEF AllocReturn, FreeReturn, Behind
  <2> QED
    BY <1>2, <2>1 DEF CountInv
<1> QED
  BY <1>1, <1>2, <1>3, <1>4, <1>5, <1>6, FreeCount, NobodyAssumption, WildStep

LEMMA WildNext == WildInv /\ [Next]_vars => WildInv'
<1> SUFFICES ASSUME WildInv, [Next]_vars PROVE WildInv'
  OBVIOUS
<1>1. ASSUME NEW c \in Clients, NEW k \in Sizes, AllocatePages(c, k) PROVE WildInv'
  BY <1>1, CallWild, SizesAssumption
<1>2. ASSUME NEW c \in Clients, NEW f \in Frames, NEW k \in Sizes, OwnedFree(c, f, k)
      PROVE  WildInv'
  <2>1. f * PageSize \in Nat /\ k \in Nat
    BY PageSizeAssumption, SizesAssumption, FrameCountAssumption DEF Frames
  <2> QED
    BY <1>2, <2>1, CallWild DEF OwnedFree
<1>3. ASSUME NEW c \in Clients, NEW w \in WildFrees, WildFree(c, w) PROVE WildInv'
  <2>1. w[1] \in Nat /\ w[2] \in Nat
    BY WildFreesAssumption
  <2> QED
    BY <1>3, <2>1, CallWild DEF WildFree
<1>4. ASSUME NEW c \in Clients, Section(c) PROVE WildInv'
  BY <1>4, LockWild, ScanWild, MarkWild, ClearWild, ReturnWild DEF Section
<1>5. CASE UNCHANGED vars
  BY <1>5 DEF vars, WildInv, TypeOK, LockInv, CountInv, RunInv, Behind, FreeSet, InSection
<1> QED
  BY <1>1, <1>2, <1>3, <1>4, <1>5 DEF Next

LEMMA WildInvariant == Spec => []WildInv
  BY WildInit, WildNext, PTL DEF Spec

\* Every variable of the physical memory manager and of its calls keeps its
\* type, whatever its clients free.
THEOREM TypeCorrect == Spec => []TypeOK
<1>1. WildInv => TypeOK
  BY DEF WildInv
<1> QED
  BY <1>1, WildInvariant, PTL

\* Whenever the lock is free, _usableFrames is the number of frames that
\* AllocatePages could hand out, whatever was allocated and freed before it,
\* rightly or wrongly.
THEOREM UsableFramesExactHolds == Spec => []UsableFramesExact
<1>1. WildInv => UsableFramesExact
  BY DEF WildInv, CountInv, UsableFramesExact
<1> QED
  BY <1>1, WildInvariant, PTL

\* After a PANIC in FreePages no call of any client changes the bitmap or its
\* counter: the halted CPU keeps the lock.
THEOREM PanicFreezesBitmapHolds == Spec => PanicFreezesBitmap
<1>1. ASSUME WildInv, [Next]_vars, NEW p \in Clients, pc[p] = "panic"
      PROVE  UNCHANGED <<allocated, usableFrames>>
  <2>1. \A c \in Clients : pc[c] \in InSection => pc[c] = "panic"
    BY <1>1 DEF WildInv, LockInv, InSection
  <2>2. ASSUME NEW c \in Clients, Section(c) PROVE UNCHANGED <<allocated, usableFrames>>
    BY <2>1, <2>2 DEF InSection, Section, AllocLock, ScanTaken, ScanFree, ScanFailed, Mark,
                      MarkDone, AllocReturn, FreeLock, Clear, ClearPanics, ClearDone, FreeReturn
  <2> QED
    BY <1>1, <2>2 DEF Next, AllocatePages, OwnedFree, WildFree, FreePages, vars
<1>2. WildInv /\ [Next]_vars =>
        [(\E c \in Clients : pc[c] = "panic") => UNCHANGED <<allocated, usableFrames>>]_vars
  BY <1>1
<1> QED
  BY <1>2, WildInvariant, PTL DEF Spec, PanicFreezesBitmap

(***************************************************************************)
(* Wrong frees harm only the frames they name.                             *)
(***************************************************************************)
\* What AllocatePages is about to hand out was free: none of it is reserved.
GiftInv(c) ==
    /\ pc[c] = "mark" => Run(runStart[c], count[c]) \cap Reserved = {}
    /\ pc[c] = "alloc_unlock" /\ result[c] # 0 =>
         Run(result[c] \div PageSize, count[c]) \cap Reserved = {}

\* Apart from the frames of wrong frees, what is charged to a client has its
\* bit set and is charged to it alone, and once.
ChargeInv ==
    /\ \A c \in Clients : own[c] \cap Reserved = {} /\ GiftInv(c)
    /\ \A c \in Clients : /\ Charged(c) \subseteq allocated \cup WrongFrames
                          /\ own[c] \cap InFlight(c) \subseteq WrongFrames
    /\ \A c \in Clients : \A d \in Clients \ {c} : Charged(c) \cap Charged(d) \subseteq WrongFrames

\* ChargeInv after a step of client c: what it newly charges was not marked,
\* and the only bits that it clears are of frames in flight for it.
LEMMA ChargeStep ==
    ASSUME ChargeInv, NEW c \in Clients,
           \A d \in Clients \ {c} : Aside(d),
           \A f \in Charged(c)' : f \in Charged(c) \/ f \in WrongFrames \/ f \notin allocated,
           \A f \in Charged(c)' : f \in allocated' \/ f \in WrongFrames,
           \A f \in allocated : f \in allocated' \/ f \in Charged(c),
           own'[c] \cap InFlight(c)' \subseteq WrongFrames,
           own'[c] \cap Reserved = {}, GiftInv(c)'
    PROVE  ChargeInv'
<1>0. WrongFrames' = WrongFrames
  BY DEF WrongFrames, Run
<1>1. \A d \in Clients \ {c} : /\ own'[d] = own[d] /\ InFlight(d)' = InFlight(d)
                               /\ Charged(d)' = Charged(d)
  BY AsideCharge DEF Aside
<1>2. \A d \in Clients \ {c} : GiftInv(d)'
  BY DEF ChargeInv, Aside, GiftInv, Run
<1>3. \A d \in Clients : own'[d] \cap Reserved = {} /\ GiftInv(d)'
  BY <1>1, <1>2 DEF ChargeInv
<1>4. \A d \in Clients \ {c} : Charged(d)' \subseteq allocated' \cup WrongFrames
  BY <1>1 DEF ChargeInv
<1>5. \A d \in Clients : /\ Charged(d)' \subseteq allocated' \cup WrongFrames
                         /\ own'[d] \cap InFlight(d)' \subseteq WrongFrames
  BY <1>1, <1>4 DEF ChargeInv
<1>6. \A d \in Clients \ {c} : Charged(c)' \cap Charged(d)' \subseteq WrongFrames
  BY <1>1 DEF ChargeInv
<1>7. ASSUME NEW d \in Clients, NEW e \in Clients \ {d}
      PROVE  Charged(d)' \cap Charged(e)' \subseteq WrongFrames
  BY <1>1, <1>6 DEF ChargeInv
<1> QED
  BY <1>0, <1>3, <1>5, <1>7 DEF ChargeInv

LEMMA ChargeInit == Init => ChargeInv
<1> SUFFICES ASSUME Init PROVE ChargeInv
  OBVIOUS
<1>1. \A c \in Clients : InFlight(c) = {} /\ own[c] = {} /\ Charged(c) = {} /\ GiftInv(c)
  BY DEF Init, InFlight, Charged, GiftInv
<1> QED
  BY <1>1 DEF ChargeInv

\* A call begins: frames that are freed pass from what the client owns to
\* what is in flight, and a wrong free puts only its own frames there.
LEMMA CallCharge ==
    ASSUME WildInv, ChargeInv, NEW c \in Clients, NEW s \in Nat, NEW k \in Nat,
           \/ AllocatePages(c, k)
           \/ FreePages(c, s, k) /\ Run(s \div PageSize, k) \subseteq own[c] \cup WrongFrames
    PROVE  ChargeInv'
<1> USE DEF AllocatePages, FreePages, Goto, scan, WildInv
<1>1. \A d \in Clients \ {c} : Aside(d)
  BY DEF Aside, TypeOK
<1>2. InFlight(c) = {} /\ GiftInv(c)' /\ allocated' = allocated
  BY DEF InFlight, GiftInv, TypeOK
<1>3. CASE AllocatePages(c, k)
  <2>1. InFlight(c)' = {} /\ own' = own
    BY <1>3 DEF InFlight, TypeOK
  <2> QED
    BY <1>1, <1>2, <2>1, ChargeStep DEF Charged, ChargeInv
<1>4. CASE FreePages(c, s, k) /\ Run(s \div PageSize, k) \subseteq own[c] \cup WrongFrames
  <2>1. /\ own'[c] = own[c] \ Run(s \div PageSize, k)
        /\ pc'[c] = "free_lock" /\ start'[c] = s /\ count'[c] = k
    BY <1>4 DEF TypeOK
  <2>2. InFlight(c)' \subseteq Run(s \div PageSize, k)
    BY <2>1 DEF InFlight
  <2>3. Run(s \div PageSize, k) \subseteq own[c] \cup WrongFrames
    BY <1>4
  <2> QED
    BY <1>1, <1>2, <2>1, <2>2, <2>3, ChargeStep DEF Charged, ChargeInv
<1> QED
  BY <1>3, <1>4

\* The steps of a call but for the setting and the clearing of bits: nothing
\* is charged that was not charged before.
LEMMA PassCharge ==
    ASSUME WildInv, ChargeInv, NEW c \in Clients,
           \/ AllocLock(c) \/ ScanTaken(c) \/ ScanFree(c) \/ ScanFailed(c) \/ MarkDone(c)
           \/ AllocReturn(c) \/ FreeLock(c) \/ ClearPanics(c) \/ ClearDone(c) \/ FreeReturn(c)
    PROVE  ChargeInv'
<1> USE DEF Goto, args, scan, WildInv
<1>1. \A d \in Clients \ {c} : Aside(d)
  BY DEF AllocLock, ScanTaken, ScanFree, ScanFailed, MarkDone, AllocReturn, FreeLock, ClearPanics,
         ClearDone, FreeReturn, Leave, Aside, TypeOK
<1>2. allocated' = allocated
  BY DEF AllocLock, ScanTaken, ScanFree, ScanFailed, MarkDone, AllocReturn, FreeLock, ClearPanics,
         ClearDone, FreeReturn
<1>a. /\ page[c] \in Nat /\ runStart[c] \in Nat /\ runLength[c] \in Nat /\ count[c] \in Nat
      /\ start[c] \in Nat /\ result[c] \in Nat /\ RunInv(c)
  BY DEF TypeOK
<1>b. GiftInv(c) /\ own[c] \cap Reserved = {} /\ own[c] \cap InFlight(c) \subseteq WrongFrames
  BY DEF ChargeInv
<1>3. own'[c] \cup InFlight(c)' \subseteq Charged(c) /\ own'[c] \cap InFlight(c)' \subseteq WrongFrames
      /\ own'[c] \cap Reserved = {} /\ GiftInv(c)'
  <2>1. CASE AllocLock(c) \/ ScanTaken(c) \/ ScanFailed(c) \/ ClearPanics(c) \/ ClearDone(c) \/ FreeReturn(c)
    <3>1. own'[c] = own[c] /\ InFlight(c)' = {}
      BY <1>a, <2>1 DEF AllocLock, ScanTaken, ScanFailed, ClearPanics, ClearDone, FreeReturn, Leave,
                  InFlight, TypeOK, RunInv
    <3>2. GiftInv(c)'
      BY <1>a, <2>1 DEF AllocLock, ScanTaken, ScanFailed, ClearPanics, ClearDone, FreeReturn, Leave,
                  GiftInv, TypeOK, RunInv
    <3> QED
      BY <1>b, <3>1, <3>2 DEF Charged
  <2>2. CASE ScanFree(c)
    <3>1. own'[c] = own[c] /\ count'[c] = count[c] /\ result'[c] = 0 /\ pc[c] = "scan"
          /\ page[c] \in FreeSet /\ page[c] < FrameCount
          /\ runStart'[c] = (IF runLength[c] = 0 THEN page[c] ELSE runStart[c])
          /\ \/ pc'[c] = "mark" /\ page'[c] = runStart'[c] /\ runLength[c] + 1 = count[c]
             \/ pc'[c] = "scan"
      BY <1>a, <2>2 DEF ScanFree, TypeOK, RunInv, IsFree, FreeSet, IsPageReserved, IsPageAllocated
    <3>2. InFlight(c)' = {}
      BY <1>a, <3>1 DEF InFlight
    <3>3. ASSUME pc'[c] = "mark" PROVE Run(runStart'[c], count[c]) \subseteq FreeSet
      <4>1. runStart'[c] = page[c] - runLength[c] /\ page[c] + 1 = runStart'[c] + count[c]
        BY <1>a, <3>1, <3>3 DEF RunInv
      <4>2. \A f \in Frames : runStart'[c] <= f /\ f < page[c] => f \in FreeSet
        BY <1>a, <3>1, <4>1 DEF RunInv
      <4>3. \A f \in Run(runStart'[c], count[c]) : f \in Frames /\ runStart'[c] <= f /\ f <= page[c]
        BY <1>a, <3>1, <4>1, FrameCountAssumption DEF Run, Frames, RunInv
      <4> QED
        BY <1>a, <3>1, <4>2, <4>3 DEF Frames
    <3>4. GiftInv(c)'
      BY <3>1, <3>3 DEF GiftInv, FreeSet
    <3> QED
      BY <1>b, <3>1, <3>2, <3>4 DEF Charged
  <2>3. CASE MarkDone(c)
    <3>1. /\ own'[c] = own[c] /\ pc[c] = "mark" /\ pc'[c] = "alloc_unlock" /\ count'[c] = count[c]
          /\ result'[c] = runStart[c] * PageSize /\ page[c] = runStart[c] + count[c]
      BY <2>3 DEF MarkDone, TypeOK
    <3>2. result'[c] \div PageSize = runStart[c]
      BY <1>a, <3>1, DivMul
    <3>3. InFlight(c)' \subseteq InFlight(c)
      BY <1>a, <3>1, <3>2 DEF InFlight, Run
    <3>4. GiftInv(c)'
      BY <1>b, <3>1, <3>2 DEF GiftInv
    <3> QED
      BY <1>b, <3>1, <3>3, <3>4 DEF Charged
  <2>4. CASE AllocReturn(c)
    <3>1. pc[c] = "alloc_unlock" /\ pc'[c] = "idle"
      BY <2>4 DEF AllocReturn, Leave, TypeOK
    <3>2. own'[c] = IF result[c] = 0 THEN own[c] ELSE own[c] \cup Run(result[c] \div PageSize, count[c])
      BY <2>4 DEF AllocReturn, TypeOK
    <3>3. result[c] # 0 => Run(result[c] \div PageSize, count[c]) \subseteq InFlight(c)
      BY <1>a, <3>1 DEF InFlight, RunInv
    <3>4. InFlight(c)' = {} /\ GiftInv(c)'
      BY <3>1 DEF InFlight, GiftInv
    <3>5. result[c] # 0 => Run(result[c] \div PageSize, count[c]) \cap Reserved = {}
      BY <1>b, <3>1 DEF GiftInv
    <3> QED
      BY <1>b, <3>2, <3>3, <3>4, <3>5 DEF Charged
  <2>5. CASE FreeLock(c)
    <3>1. /\ own'[c] = own[c] /\ pc[c] = "free_lock" /\ pc'[c] \in {"clear", "panic"}
          /\ start'[c] = start[c] /\ count'[c] = count[c] /\ page'[c] = start[c] \div PageSize
      BY <2>5 DEF FreeLock, TypeOK
    <3>2. InFlight(c)' \subseteq InFlight(c)
      <4>1. EndPage(c)' = start[c] \div PageSize + count[c] /\ start[c] \div PageSize \in Nat
        BY <1>a, <3>1, DivNat DEF EndPage
      <4>2. page'[c] .. EndPage(c)' - 1 = Run(start[c] \div PageSize, count[c])
        BY <1>a, <3>1, <4>1 DEF Run
      <4> QED
        BY <3>1, <4>2 DEF InFlight
    <3>3. GiftInv(c)'
      BY <3>1 DEF GiftInv
    <3> QED
      BY <1>b, <3>1, <3>2, <3>3 DEF Charged
  <2> QED
    BY <2>1, <2>2, <2>3, <2>4, <2>5
<1> QED
  BY <1>1, <1>2, <1>3, ChargeStep DEF Charged, ChargeInv

\* The bits: one is set for a frame that was free, or cleared for a frame
\* that was in flight.
LEMMA BitCharge ==
    ASSUME WildInv, ChargeInv, NEW c \in Clients, Mark(c) \/ Clear(c)
    PROVE  ChargeInv'
<1> USE DEF args, scan, WildInv
<1>1. \A d \in Clients \ {c} : Aside(d)
  BY DEF Mark, Clear, Aside, TypeOK
<1>a. /\ page[c] \in Nat /\ runStart[c] \in Nat /\ count[c] \in Nat /\ start[c] \in Nat
      /\ start[c] \div PageSize \in Nat /\ RunInv(c) /\ GiftInv(c)
      /\ own'[c] = own[c] /\ own[c] \cap Reserved = {}
      /\ own[c] \cap InFlight(c) \subseteq WrongFrames
      /\ Charged(c) \subseteq allocated \cup WrongFrames
      /\ page'[c] = page[c] + 1 /\ pc'[c] = pc[c] /\ runStart'[c] = runStart[c]
      /\ count'[c] = count[c] /\ start'[c] = start[c]
  BY DivNat DEF TypeOK, ChargeInv, Mark, Clear
<1>2. GiftInv(c)'
  BY <1>a DEF GiftInv, Mark, Clear
<1>3. CASE Mark(c)
  <2>1. page[c] \in FreeSet /\ allocated' = allocated \cup {page[c]} /\ pc[c] = "mark"
        /\ runStart[c] <= page[c]
    BY <1>a, <1>3, FrameCountAssumption DEF Mark, RunInv, Frames
  <2>2. InFlight(c)' = InFlight(c) \cup {page[c]}
    BY <1>a, <2>1 DEF InFlight, FreeSet, Frames
  <2>3. page[c] \notin allocated
    BY <2>1 DEF FreeSet
  <2> QED
    BY <1>1, <1>a, <1>2, <2>1, <2>2, <2>3, ChargeStep DEF Charged
<1>4. CASE Clear(c)
  <2>1. page[c] \in Frames /\ allocated' = allocated \ {page[c]} /\ pc[c] = "clear"
        /\ page[c] < EndPage(c)
    BY <1>4 DEF Clear
  <2>2. EndPage(c) \in Nat /\ EndPage(c)' = EndPage(c)
    BY <1>a DEF EndPage
  <2>3. InFlight(c)' = InFlight(c) \ {page[c]} /\ page[c] \in InFlight(c)
    BY <1>a, <2>1, <2>2 DEF InFlight, Frames
  <2> QED
    BY <1>1, <1>a, <1>2, <2>1, <2>3, ChargeStep DEF Charged
<1> QED
  BY <1>3, <1>4

LEMMA ChargeNext == WildInv /\ ChargeInv /\ [Next]_vars => ChargeInv'
<1> SUFFICES ASSUME WildInv, ChargeInv, [Next]_vars PROVE ChargeInv'
  OBVIOUS
<1>1. ASSUME NEW c \in Clients, NEW k \in Sizes, AllocatePages(c, k) PROVE ChargeInv'
  <2>1. k \in Nat /\ 0 \in Nat
    BY SizesAssumption
  <2> QED
    BY <1>1, <2>1, CallCharge
<1>2. ASSUME NEW c \in Clients, NEW f \in Frames, NEW k \in Sizes, OwnedFree(c, f, k)
      PROVE  ChargeInv'
  <2>1. f * PageSize \in Nat /\ k \in Nat /\ (f * PageSize) \div PageSize = f
    BY PageSizeAssumption, SizesAssumption, FrameCountAssumption, DivMul DEF Frames
  <2> QED
    BY <1>2, <2>1, CallCharge DEF OwnedFree
<1>3. ASSUME NEW c \in Clients, NEW w \in WildFrees, WildFree(c, w) PROVE ChargeInv'
  <2>1. w[1] \in Nat /\ w[2] \in Nat /\ Run(w[1] \div PageSize, w[2]) \subseteq WrongFrames
    BY WildFreesAssumption DEF WrongFrames
  <2> QED
    BY <1>3, <2>1, CallCharge DEF WildFree
<1>4. ASSUME NEW c \in Clients, Section(c) PROVE ChargeInv'
  BY <1>4, PassCharge, BitCharge DEF Section
<1>5. CASE UNCHANGED vars
  BY <1>5 DEF vars, ChargeInv, Charged, InFlight, GiftInv, EndPage, Run, WrongFrames
<1> QED
  BY <1>1, <1>2, <1>3, <1>4, <1>5 DEF Next

\* Nobody is given a reserved frame, and a frame that no wrong free names is
\* never given to two callers, whatever else they free.
THEOREM NoDoubleAllocationHolds == Spec => []NoDoubleAllocation
<1>1. ChargeInv => NoDoubleAllocation
  BY DEF ChargeInv, NoDoubleAllocation, Charged
<1>2. Spec => []ChargeInv
  BY ChargeInit, ChargeNext, WildInvariant, PTL DEF Spec
<1> QED
  BY <1>1, <1>2, PTL
==============================================================================
