----------------------------- MODULE ApicProofs -----------------------------
(***************************************************************************)
(* The IOAPICs, for any MADT, any number of CPUs, IOAPICs and entries: the *)
(* redirection tables are exact and interrupts are unmasked whole.  And    *)
(* the local APIC, for any IPIs and timers that a thread and a handler on  *)
(* top of it ask for.                                                      *)
(***************************************************************************)
EXTENDS IOAPIC, LAPIC, FiniteSetTheorems, WellFoundedInduction, TLAPS

(***************************************************************************)
(* SendIPI and SetLvtTimer of the local APIC.                              *)
(***************************************************************************)
Places == {"idle", "wait", "high", "low", "sent", "vector", "count"}

\* What is known of the call of x, unless the handler has written over it.
CallInv(x, over) ==
    /\ lpc[x] \in {"wait", "high", "low", "sent"} => ask[x] \in Requests
    /\ lpc[x] \in {"vector", "count"} => ask[x] \in Timers
    /\ lpc[x] = "low" /\ ask[x].shorthand = "NoShorthand" =>
         over \/ icrHigh = ask[x].destination
    /\ lpc[x] \in {"vector", "count"} => over \/ timer.divide = ask[x].divide
    /\ lpc[x] = "count" => over \/ timer.vector = ask[x].vector

\* An IPI is under way only while its sender waits for it, and its sender
\* is the one that runs.
ICRInv ==
    /\ lpc["handler"] \in {"high", "low"} => sending = Nothing
    /\ lpc["handler"] # "sent" /\ lpc["thread"] \in {"high", "low"} => sending = Nothing
    /\ sending # Nothing /\ sending.request.shorthand = "NoShorthand" =>
         sending.mixed \/ sending.to = sending.request.destination

LapicInv ==
    /\ lpc \in [Contexts -> Places] /\ DOMAIN ask = Contexts
    /\ timer \in [divide : Nat, vector : Nat, count : Nat]
    /\ CallInv("thread", overtaken) /\ CallInv("handler", FALSE)
    /\ ICRInv
    \* the handler's timer call has overtaken the thread's
    /\ lpc["handler"] \in {"vector", "count"} /\ lpc["thread"] \in {"vector", "count"} => overtaken

LEMMA LapicInit == LInit => LapicInv
  BY DEF LInit, LapicInv, CallInv, ICRInv, Places, Contexts, Nothing

LEMMA LapicNext == LapicInv /\ [LNext]_lvars => LapicInv'
<1> SUFFICES ASSUME LapicInv, [LNext]_lvars PROVE LapicInv' OBVIOUS
<1>0. /\ \A t \in Timers : t.vector \in Nat /\ t.divide \in Nat /\ t.count \in Nat
      /\ "thread" \in Contexts /\ "handler" \in Contexts /\ Contexts = {"thread", "handler"}
    BY LAPICAssumption DEF Contexts
<1> USE <1>0 DEF LapicInv, CallInv, ICRInv, Places, Idle, Runs, Call, Go
<1>1. ASSUME NEW x \in Contexts, NEW r \in Requests, SendIPI(x, r) PROVE LapicInv'
    BY <1>1 DEF SendIPI
<1>2. ASSUME NEW x \in Contexts, Wait(x) PROVE LapicInv' BY <1>2 DEF Wait
<1>3. ASSUME NEW x \in Contexts, WriteHigh(x) PROVE LapicInv' BY <1>3 DEF WriteHigh, Overtakes
<1>4. ASSUME NEW x \in Contexts, WriteLow(x) PROVE LapicInv' BY <1>4 DEF WriteLow
<1>5. ASSUME NEW x \in Contexts, Sent(x) PROVE LapicInv' BY <1>5 DEF Sent
<1>6. CASE Accept BY <1>6 DEF Accept
<1>7. ASSUME NEW x \in Contexts, NEW t \in Timers, SetLvtTimer(x, t) PROVE LapicInv'
    BY <1>7 DEF SetLvtTimer, Overtakes
<1>8. ASSUME NEW x \in Contexts, TimerVector(x) PROVE LapicInv' BY <1>8 DEF TimerVector
<1>9. ASSUME NEW x \in Contexts, TimerCount(x) PROVE LapicInv' BY <1>9 DEF TimerCount
<1>10. CASE UNCHANGED lvars BY <1>10 DEF lvars
<1> QED BY <1>1, <1>2, <1>3, <1>4, <1>5, <1>6, <1>7, <1>8, <1>9, <1>10 DEF LNext, LSteps

LEMMA LapicStep ==
    ASSUME LapicInv, [LNext]_lvars
    PROVE  /\ sending # Nothing /\ sending' # sending => sending' = Nothing /\ sent' = sending
           /\ sent' # sent /\ sent'.request.shorthand = "NoShorthand" =>
                sent'.mixed \/ sent'.to = sent'.request.destination
           /\ running' # running => running'.mixed \/ running'.regs = running'.asked
<1>0. Contexts = {"thread", "handler"} BY DEF Contexts
<1>1. ASSUME sending' # sending, ~Accept
      PROVE  sending = Nothing
  <2>1. PICK x \in Contexts : WriteLow(x)
      BY <1>1 DEF LNext, LSteps, lvars, SendIPI, Wait, WriteHigh, Sent, SetLvtTimer, TimerVector,
                  TimerCount
  <2> QED BY <1>0, <2>1 DEF WriteLow, Go, Runs, Idle, LapicInv, ICRInv
<1>2. ASSUME sent' # sent PROVE Accept
    BY <1>2 DEF LNext, LSteps, lvars, SendIPI, Wait, WriteHigh, WriteLow, Sent, SetLvtTimer,
                TimerVector, TimerCount
<1>3. ASSUME running' # running PROVE running'.mixed \/ running'.regs = running'.asked
  <2>1. PICK x \in Contexts : TimerCount(x)
      BY <1>3 DEF LNext, LSteps, lvars, SendIPI, Wait, WriteHigh, WriteLow, Sent, SetLvtTimer,
                  TimerVector, Accept
  <2>2. /\ lpc[x] = "count" /\ running' = [regs |-> timer', asked |-> ask[x],
                                            mixed |-> x = "thread" /\ overtaken]
        /\ timer' = [timer EXCEPT !.count = ask[x].count]
      BY <2>1 DEF TimerCount, Go
  <2>3. running'.regs = timer' /\ running'.asked = ask[x] /\ running'.mixed = (x = "thread" /\ overtaken)
      BY <2>2
  <2>4. CASE x = "thread" /\ overtaken BY <2>3, <2>4
  <2>5. CASE ~(x = "thread" /\ overtaken)
    <3>1. ask[x] \in Timers /\ timer.divide = ask[x].divide /\ timer.vector = ask[x].vector
        BY <1>0, <2>2, <2>5 DEF LapicInv, CallInv
    <3>2. ask[x] \in [vector : Nat, divide : Nat, count : Nat] BY <3>1, LAPICAssumption
    <3>3. timer' = ask[x] BY <2>2, <3>1, <3>2 DEF LapicInv
    <3> QED BY <2>3, <3>3
  <2> QED BY <2>4, <2>5
<1> QED BY <1>1, <1>2, <1>3 DEF Accept, LapicInv, ICRInv

\* Thread and handler share the registers of the local APIC without a lock:
\* no IPI under way is overwritten, and what goes out or counts down is what
\* was asked for, unless the handler's call fell into the thread's.
THEOREM IPIsExactHolds == LInit /\ [][LNext]_lvars => IPIsExact
<1>1. LapicInv /\ [LNext]_lvars =>
        [/\ sending # Nothing /\ sending' # sending => sending' = Nothing /\ sent' = sending
         /\ sent' # sent /\ sent'.request.shorthand = "NoShorthand" =>
              sent'.mixed \/ sent'.to = sent'.request.destination
         /\ running' # running => running'.mixed \/ running'.regs = running'.asked]_lvars
    BY LapicStep
<1> QED BY <1>1, LapicInit, LapicNext, PTL DEF IPIsExact

(***************************************************************************)
(* The entries of the MADT.                                                *)
(***************************************************************************)
\* The least-number principle: with it, induction needs no operator
\* parameter.
LEMMA Least ==
    ASSUME NEW T \in SUBSET Nat, T # {}
    PROVE  \E x \in T : \A y \in T : x <= y
<1> DEFINE R == OpToRel(<, Nat)
<1>1. IsWellFoundedOn(R, Nat) BY NatLessThanWellFounded
<1>2. \A x, y \in Nat : <<y, x>> \in R <=> y < x BY DEF OpToRel
<1> HIDE DEF R
<1>3. PICK x \in T : \A y \in T : ~(<<y, x>> \in R) BY <1>1, WFMin
<1>4. ASSUME NEW y \in T PROVE x <= y
  <2>1. x \in Nat /\ y \in Nat /\ ~(<<y, x>> \in R) BY <1>3
  <2> QED BY <1>2, <2>1
<1> QED BY <1>4

\* The places of the entries of a type can be counted.
LEMMA OfTypeFinite ==
    ASSUME madt \in Madts, NEW type
    PROVE  /\ OfType(type) \subseteq Nat /\ IsFiniteSet(OfType(type))
           /\ FindMADTEntryCount(type) \in Nat
           /\ \A k \in Nat : /\ IsFiniteSet({j \in OfType(type) : j < k})
                             /\ Before(type, k) \in Nat
<1>1. Len(madt) \in Nat /\ DOMAIN madt = 1 .. Len(madt) BY IOAPICAssumption
<1>2. OfType(type) \subseteq 1 .. Len(madt) BY <1>1 DEF OfType
<1>3. IsFiniteSet(1 .. Len(madt)) BY <1>1, FS_Interval
<1>4. IsFiniteSet(OfType(type)) BY <1>2, <1>3, FS_Subset
<1>5. \A k \in Nat : IsFiniteSet({j \in OfType(type) : j < k}) BY <1>4, FS_Subset
<1>6. \A k \in Nat : Before(type, k) \in Nat BY <1>5, FS_CardinalityType DEF Before
<1>7. FindMADTEntryCount(type) \in Nat BY <1>4, FS_CardinalityType DEF FindMADTEntryCount
<1>8. OfType(type) \subseteq Nat BY <1>1, <1>2
<1> QED BY <1>4, <1>5, <1>6, <1>7, <1>8

\* A later entry has more entries before it, and none has them all.
LEMMA BeforeGrows ==
    ASSUME madt \in Madts, NEW type, NEW k \in OfType(type)
    PROVE  /\ Before(type, k) < FindMADTEntryCount(type)
           /\ \A j \in OfType(type) : j < k => Before(type, j) < Before(type, k)
<1> DEFINE S == OfType(type)
           B(i) == {j \in S : j < i}
<1>1. /\ S \subseteq Nat /\ IsFiniteSet(S) /\ Cardinality(S) \in Nat
      /\ \A i \in Nat : IsFiniteSet(B(i)) /\ Cardinality(B(i)) \in Nat
    BY OfTypeFinite DEF FindMADTEntryCount, Before
<1> HIDE DEF S
<1>2. k \in S /\ k \in Nat BY <1>1 DEF S
<1>3. ASSUME NEW i \in S, NEW U, IsFiniteSet(U), B(i) \cup {i} \subseteq U
      PROVE  Cardinality(B(i)) < Cardinality(U)
  <2>1. i \in Nat /\ i \notin B(i) BY <1>1
  <2>2. Cardinality(B(i) \cup {i}) = Cardinality(B(i)) + 1 BY <1>1, <2>1, FS_AddElement
  <2>3. Cardinality(B(i) \cup {i}) <= Cardinality(U) /\ Cardinality(U) \in Nat
      BY <1>3, FS_Subset, FS_CardinalityType
  <2> QED BY <1>1, <2>1, <2>2, <2>3
<1>4. Cardinality(B(k)) < Cardinality(S) BY <1>1, <1>2, <1>3
<1>5. ASSUME NEW j \in S, j < k PROVE Cardinality(B(j)) < Cardinality(B(k))
  <2>1. j \in Nat BY <1>1
  <2>2. \A i \in S : i \in Nat BY <1>1
  <2>3. ASSUME NEW i \in B(j) \cup {j} PROVE i \in B(k)
    <3>1. i \in S /\ i \in Nat /\ i <= j BY <2>1, <2>2
    <3> QED BY <1>2, <1>5, <2>1, <3>1
  <2> QED BY <1>1, <1>2, <1>3, <2>3
<1> QED BY <1>4, <1>5 DEF S, Before, FindMADTEntryCount

\* FindMADTEntry finds an entry for every index below FindMADTEntryCount.
LEMMA EntryExists ==
    ASSUME madt \in Madts, NEW type, NEW n \in Nat, n < FindMADTEntryCount(type)
    PROVE  \E k \in OfType(type) : Before(type, k) = n
<1> DEFINE S == OfType(type)
           T == {m \in Nat : m < FindMADTEntryCount(type) /\ ~\E k \in S : Before(type, k) = m}
<1> SUFFICES ASSUME T # {} PROVE FALSE OBVIOUS
<1>1. T \subseteq Nat OBVIOUS
<1>2. PICK m \in T : \A y \in T : m <= y
  <2> HIDE DEF T
  <2> QED BY <1>1, Least
<1>3. /\ S \subseteq Nat /\ IsFiniteSet(S) /\ FindMADTEntryCount(type) \in Nat
      /\ \A k \in Nat : /\ IsFiniteSet({j \in S : j < k})
                        /\ Before(type, k) \in Nat
    BY OfTypeFinite
<1>4. m \in Nat /\ m < FindMADTEntryCount(type) /\ ~\E k \in S : Before(type, k) = m
    OBVIOUS
<1>5. m = 0 \/ (m - 1 \in Nat /\ m - 1 \notin T)
  <2> HIDE DEF T
  <2> QED BY <1>2, <1>4
<1>6. m > 0 => \E k \in S : Before(type, k) = m - 1 BY <1>3, <1>4, <1>5
<1> HIDE DEF T, S
<1>n. \A j \in S : j \in Nat BY <1>3
\* p is the entry before the missing one, or 0 if there is none
<1>7. PICK p \in Nat : /\ \A j \in S : j < p => Before(type, j) < m
                       /\ Cardinality({j \in S : j <= p}) = m
  <2>1. CASE m = 0
    <3>1. 0 \notin S BY IOAPICAssumption DEF S, OfType
    <3>2. {j \in S : j <= 0} = {} BY <1>n, <3>1
    <3>3. Cardinality({j \in S : j <= 0}) = 0 BY <3>2, FS_EmptySet
    <3>4. \A j \in S : ~(j < 0) BY <1>n
    <3> QED BY <2>1, <3>3, <3>4
  <2>2. CASE m > 0
    <3>1. PICK k \in S : Before(type, k) = m - 1 BY <1>6, <2>2
    <3>2. k \in Nat BY <1>3
    <3>3. {j \in S : j <= k} = {j \in S : j < k} \cup {k}
      <4>1. \A j \in S : j <= k <=> j < k \/ j = k BY <1>n, <3>2
      <4> QED BY <3>1, <4>1
    <3>4. Cardinality({j \in S : j <= k}) = Before(type, k) + 1
      <4>1. k \notin {j \in S : j < k} BY <3>2
      <4> QED BY <1>3, <3>2, <3>3, <4>1, FS_AddElement DEF Before, S
    <3>5. \A j \in S : j < k => Before(type, j) < Before(type, k) BY BeforeGrows DEF S
    <3>6. ASSUME NEW j \in S, j < k PROVE Before(type, j) < m
      <4>1. Before(type, j) < m - 1 /\ Before(type, j) \in Nat BY <1>3, <1>n, <3>1, <3>5, <3>6
      <4> QED BY <1>4, <4>1
    <3>7. Cardinality({j \in S : j <= k}) = m BY <1>4, <3>1, <3>4
    <3> QED BY <3>2, <3>6, <3>7
  <2> QED BY <1>4, <2>1, <2>2
<1> DEFINE U == {j \in S : j > p}
<1>8. U # {}
  <2> SUFFICES ASSUME U = {} PROVE FALSE OBVIOUS
  <2>1. {j \in S : j <= p} = S BY <1>n, <1>7
  <2> QED BY <1>4, <1>7, <2>1 DEF FindMADTEntryCount, S
<1>9. PICK q \in U : \A y \in U : q <= y
  <2>1. U \in SUBSET Nat BY <1>3
  <2> HIDE DEF U
  <2> QED BY <1>8, <2>1, Least
<1>10. q \in S /\ q \in Nat /\ q > p BY <1>3, <1>9
<1>11. {j \in S : j < q} = {j \in S : j <= p}
  <2>1. ASSUME NEW j \in S PROVE j < q <=> j <= p
    <3>1. j \in Nat /\ (j > p => q <= j) BY <1>n, <1>9
    <3> QED BY <1>10, <3>1
  <2> QED BY <2>1
<1>12. Before(type, q) = m BY <1>7, <1>11 DEF Before, S
<1> QED BY <1>4, <1>10, <1>12

\* What FindMADTEntry returns.
LEMMA EntryFound ==
    ASSUME madt \in Madts, NEW type, NEW n \in Nat, n < FindMADTEntryCount(type)
    PROVE  \E k \in OfType(type) : FindMADTEntry(type, n) = madt[k] /\ Before(type, k) = n
  BY EntryExists DEF FindMADTEntry

\* An IOAPIC of the MADT has a base and at least one entry.
LEMMA ApicFound ==
    ASSUME madt \in Madts, NEW a \in 1 .. FindMADTEntryCount("IOAPIC")
    PROVE  GsiBase(a) \in Nat /\ Redirections(a) \in Nat /\ Redirections(a) > 0
<1>1. FindMADTEntryCount("IOAPIC") \in Nat BY OfTypeFinite
<1>2. a - 1 \in Nat /\ a - 1 < FindMADTEntryCount("IOAPIC") BY <1>1
<1>3. PICK k \in OfType("IOAPIC") : FindMADTEntry("IOAPIC", a - 1) = madt[k] BY <1>2, EntryFound
<1>4. k \in DOMAIN madt /\ madt[k].type = "IOAPIC" BY <1>3 DEF OfType
<1>5. madt[k].base \in Nat /\ madt[k].size \in 1 .. 120 BY <1>4, IOAPICAssumption
<1> QED BY <1>3, <1>5 DEF GsiBase, Redirections

(***************************************************************************)
(* The table _irqToGsi.                                                    *)
(***************************************************************************)
Isos == OfType("IRQSrcOverride")
IsoCount == FindMADTEntryCount("IRQSrcOverride")
NoOverride == [irq \in Irqs |-> irq]

\* The loop over the overrides of the MADT computes what its recursion says.
LEMMA OverriddenDef ==
    ASSUME madt \in Madts
    PROVE  Overridden = [n \in 0 .. IsoCount |->
                           IF n = 0 THEN NoOverride
                           ELSE Override(Overridden[n - 1], FindMADTEntry("IRQSrcOverride", n - 1))]
<1> DEFINE E(n) == FindMADTEntry("IRQSrcOverride", n)
           Def(g, m) == [n \in 0 .. m |-> IF n = 0 THEN NoOverride ELSE Override(g[n - 1], E(n - 1))]
           T == {m \in Nat : ~\E g : g = Def(g, m)}
<1> HIDE DEF E
<1>1. T = {}
  <2> SUFFICES ASSUME T # {} PROVE FALSE OBVIOUS
  <2>1. PICK m \in T : \A y \in T : m <= y
    <3>1. T \in SUBSET Nat OBVIOUS
    <3> HIDE DEF T
    <3> QED BY <3>1, Least
  <2>2. m \in Nat /\ ~\E g : g = Def(g, m) OBVIOUS
  <2>3. m # 0
    <3>1. [n \in 0 .. 0 |-> NoOverride] = Def([n \in 0 .. 0 |-> NoOverride], 0) OBVIOUS
    <3> HIDE DEF Def
    <3> QED BY <2>2, <3>1
  <2>4. m - 1 \in Nat /\ m - 1 \notin T
    <3> HIDE DEF T
    <3> QED BY <2>1, <2>2, <2>3
  <2>5. PICK g : g = Def(g, m - 1) BY <2>4
  <2> DEFINE h == [n \in 0 .. m |-> IF n = m THEN Override(g[m - 1], E(m - 1)) ELSE g[n]]
  <2>6. h = Def(h, m) BY <2>2, <2>3, <2>5
  <2> HIDE DEF Def, h
  <2> QED BY <2>2, <2>6
<1>2. IsoCount \in Nat BY OfTypeFinite DEF IsoCount
<1>3. \E g : g = Def(g, IsoCount) BY <1>1, <1>2
<1> QED BY <1>3 DEF Overridden, IsoCount, NoOverride, E

\* The overrides of irq among the first n, and where they route it.
Own(irq, n) == {k \in Isos : madt[k].source = irq /\ Before("IRQSrcOverride", k) < n}
Routed(irq, own) == IF own = {} THEN irq ELSE madt[CHOOSE k \in own : \A j \in own : j <= k].gsi
GsiAfter(irq, n) == Routed(irq, Own(irq, n))

\* The next override is the last one so far, for its own interrupt.
LEMMA OwnNext ==
    ASSUME madt \in Madts, NEW n \in Nat, NEW k \in Isos, Before("IRQSrcOverride", k) = n, NEW irq
    PROVE  /\ madt[k].source = irq => GsiAfter(irq, n + 1) = madt[k].gsi
           /\ madt[k].source # irq => GsiAfter(irq, n + 1) = GsiAfter(irq, n)
<1> DEFINE Bf(j) == Before("IRQSrcOverride", j)
<1>1. \A j \in Isos : j \in Nat /\ Bf(j) \in Nat BY OfTypeFinite DEF Isos
<1>2. \A i, j \in Isos : i < j => Bf(i) < Bf(j) BY BeforeGrows DEF Isos
<1> HIDE DEF Bf
<1>3. ASSUME NEW j \in Isos PROVE Bf(j) < n + 1 <=> Bf(j) < n \/ j = k
  <2>1. j < k \/ j = k \/ k < j BY <1>1
  <2>2. j < k => Bf(j) < n BY <1>2 DEF Bf
  <2>3. k < j => n < Bf(j) BY <1>2 DEF Bf
  <2>4. j = k => Bf(j) = n BY DEF Bf
  <2>5. Bf(j) \in Nat BY <1>1
  <2> QED BY <2>1, <2>2, <2>3, <2>4, <2>5
<1>4. ASSUME NEW j \in Isos, Bf(j) < n + 1 PROVE j <= k
  <2>1. ~(k < j)
    <3>1. k < j => n < Bf(j) BY <1>2 DEF Bf
    <3> QED BY <1>1, <1>4, <3>1
  <2> QED BY <1>1, <2>1
<1>5. ASSUME madt[k].source # irq PROVE GsiAfter(irq, n + 1) = GsiAfter(irq, n)
  <2>1. Own(irq, n + 1) = Own(irq, n) BY <1>3, <1>5 DEF Own, Bf
  <2> QED BY <2>1 DEF GsiAfter
<1>6. ASSUME madt[k].source = irq PROVE GsiAfter(irq, n + 1) = madt[k].gsi
  <2> DEFINE O == Own(irq, n + 1)
  <2>1. k \in O BY <1>3, <1>6 DEF Own, Bf
  <2>2. \A j \in O : j <= k /\ j \in Nat BY <1>1, <1>4 DEF Own, Bf
  <2> HIDE DEF O
  <2> DEFINE L == CHOOSE i \in O : \A j \in O : j <= i
  <2>3. L \in O /\ \A j \in O : j <= L BY <2>1, <2>2
  <2> HIDE DEF L
  <2>4. L <= k /\ k <= L /\ L \in Nat /\ k \in Nat BY <2>1, <2>2, <2>3
  <2>5. L = k BY <2>4
  <2> QED BY <2>1, <2>5 DEF GsiAfter, Routed, O, L
<1> QED BY <1>5, <1>6

\* After all overrides _irqToGsi routes each interrupt as the MADT says.
LEMMA OverriddenGsi ==
    ASSUME madt \in Madts, NEW irq \in Irqs
    PROVE  Overridden[IsoCount][irq] = Gsi(irq) /\ Gsi(irq) \in Nat
<1> DEFINE N == IsoCount
           P(n) == /\ DOMAIN Overridden[n] = Irqs
                   /\ Overridden[n][irq] = GsiAfter(irq, n) /\ GsiAfter(irq, n) \in Nat
           T == {n \in Nat : n <= N /\ ~P(n)}
<1>0. N \in Nat /\ Irqs \subseteq Nat BY OfTypeFinite, IOAPICAssumption DEF IsoCount
<1>b. \A j \in Isos : j \in Nat /\ Before("IRQSrcOverride", j) \in Nat BY OfTypeFinite DEF Isos
<1>1. P(0)
  <2>1. Overridden[0] = NoOverride BY <1>0, OverriddenDef
  <2>2. Own(irq, 0) = {} BY <1>b DEF Own
  <2> QED BY <1>0, <2>1, <2>2 DEF GsiAfter, Routed, NoOverride
<1>2. ASSUME NEW n \in Nat, n < N, P(n) PROVE P(n + 1)
  <2>1. PICK k \in Isos : /\ FindMADTEntry("IRQSrcOverride", n) = madt[k]
                          /\ Before("IRQSrcOverride", k) = n
      BY <1>2, EntryFound DEF Isos, IsoCount
  <2>2. madt[k].source \in Nat /\ madt[k].gsi \in Nat
    <3>1. k \in DOMAIN madt /\ madt[k].type = "IRQSrcOverride" BY DEF Isos, OfType
    <3> QED BY <3>1, IOAPICAssumption
  <2>3. Overridden[n + 1] = Override(Overridden[n], madt[k])
    <3>1. n + 1 \in 0 .. IsoCount /\ n + 1 # 0 /\ (n + 1) - 1 = n BY <1>0, <1>2
    <3>2. Overridden[n + 1] = Override(Overridden[(n + 1) - 1], FindMADTEntry("IRQSrcOverride", (n + 1) - 1))
        BY <3>1, OverriddenDef
    <3> QED BY <2>1, <3>1, <3>2
  <2>4. CASE madt[k].source = irq
    <3>1. Overridden[n + 1] = [Overridden[n] EXCEPT ![irq] = madt[k].gsi] BY <2>3, <2>4 DEF Override
    <3>2. GsiAfter(irq, n + 1) = madt[k].gsi BY <2>1, <2>4, OwnNext
    <3> QED BY <1>2, <2>2, <3>1, <3>2
  <2>5. CASE madt[k].source # irq
    <3>1. Overridden[n + 1][irq] = Overridden[n][irq] /\ DOMAIN Overridden[n + 1] = Irqs
        BY <1>2, <2>3, <2>5 DEF Override
    <3>2. GsiAfter(irq, n + 1) = GsiAfter(irq, n) BY <2>1, <2>5, OwnNext
    <3> QED BY <1>2, <3>1, <3>2
  <2> QED BY <2>4, <2>5
<1> HIDE DEF P
<1>3. T = {}
  <2> SUFFICES ASSUME T # {} PROVE FALSE OBVIOUS
  <2>1. PICK m \in T : \A y \in T : m <= y
    <3>1. T \in SUBSET Nat OBVIOUS
    <3> HIDE DEF T
    <3> QED BY <3>1, Least
  <2>2. m \in Nat /\ m <= N /\ ~P(m) OBVIOUS
  <2>3. m # 0 BY <1>1, <2>2
  <2>4. m - 1 \in Nat /\ m - 1 < N /\ m - 1 \notin T
    <3> HIDE DEF T, N
    <3> QED BY <1>0, <2>1, <2>2, <2>3
  <2>5. P(m - 1) BY <1>0, <2>4
  <2>6. P((m - 1) + 1) BY <1>2, <2>4, <2>5
  <2>7. (m - 1) + 1 = m BY <2>2
  <2> QED BY <2>2, <2>6, <2>7
<1>4. P(N) BY <1>0, <1>3
<1>5. GsiAfter(irq, N) = Gsi(irq)
  <2> DEFINE O == {k \in DOMAIN madt : madt[k].type = "IRQSrcOverride" /\ madt[k].source = irq}
  <2>1. \A k \in Isos : Before("IRQSrcOverride", k) < N BY BeforeGrows DEF Isos, IsoCount
  <2>2. Own(irq, N) = O BY <2>1 DEF Own, Isos, OfType
  <2> QED BY <2>2 DEF GsiAfter, Routed, Gsi
<1> QED BY <1>4, <1>5 DEF P

(***************************************************************************)
(* The redirection tables.                                                 *)
(***************************************************************************)
Used == 1 .. ioApicCount
Found == 1 .. FindMADTEntryCount("IOAPIC")

\* e may be in entry i of IOAPIC a.
Ok(a, i, e) ==
    e = Masked \/ \E irq \in Irqs : Gsi(irq) = GsiBase(a) + i /\ <<irq, e>> \in asked

Whole(a, i) == \E e : Ok(a, i, e) /\ Low(a, i) = <<e, "low">> /\ High(a, i) = <<e, "high">>

Busy(c, a, i) == pc[c] # "idle" /\ call[c].apic = a /\ call[c].index = i

ShapeInv ==
    /\ madt \in Madts
    /\ ioApicCount \in Nat /\ ioApicCount <= FindMADTEntryCount("IOAPIC")
    /\ ioApicCount <= MaxIOAPICs
    /\ Discovered => \A irq \in Irqs : irqToGsi[irq] = Gsi(irq)
    /\ ~Discovered => /\ \A a \in Apics : next[a] = 0
                      /\ \A c \in Cpus : pc[c] = "idle"
    /\ lock \in [Apics -> Cpus \cup {Nobody}] /\ DOMAIN window = Apics
    /\ DOMAIN reg = Found /\ \A a \in Found : DOMAIN reg[a] = Index(a) \X Halves
    /\ next \in [Apics -> Nat]
    /\ pc \in [Cpus -> {"idle", "lock", "select", "data"}]
    /\ half \in [Cpus -> Halves] /\ DOMAIN call = Cpus

\* What is known of the entry that c is setting, and of where c is.
SetInv(c) ==
    /\ pc[c] = "idle" <=> call[c] = NoCall
    /\ pc[c] # "idle" =>
         /\ call[c].apic \in Used /\ call[c].index \in Index(call[c].apic)
         /\ Ok(call[c].apic, call[c].index, call[c].entry)
         /\ half[c] = "low" => High(call[c].apic, call[c].index) = <<call[c].entry, "high">>
    /\ pc[c] = "data" => window[call[c].apic] = <<call[c].index, half[c]>>
    /\ pc[c] \in {"select", "data"} => lock[call[c].apic] = c

\* No two CPUs set one entry.
AloneInv ==
    \A c, d \in Cpus : c # d /\ pc[c] # "idle" /\ pc[d] # "idle" =>
        ~(call[c].apic = call[d].apic /\ call[c].index = call[d].index)

\* The entries that Initialize has reached and nobody is setting.
EntryInv ==
    \A a \in Used : \A i \in Index(a) :
        i < next[a] /\ (\A c \in Cpus : ~Busy(c, a, i)) => Whole(a, i)

IInv == ShapeInv /\ (\A c \in Cpus : SetInv(c)) /\ AloneInv /\ EntryInv

\* The MADT does not change, nor what is read from it.
LEMMA MadtRests ==
    ASSUME madt' = madt
    PROVE  /\ \A type : FindMADTEntryCount(type)' = FindMADTEntryCount(type)
           /\ \A a : /\ GsiBase(a)' = GsiBase(a) /\ Redirections(a)' = Redirections(a)
                    /\ Index(a)' = Index(a)
           /\ \A irq : Gsi(irq)' = Gsi(irq)
           /\ Found' = Found
<1>1. \A type, n : /\ FindMADTEntryCount(type)' = FindMADTEntryCount(type)
                   /\ FindMADTEntry(type, n)' = FindMADTEntry(type, n)
    BY DEF FindMADTEntryCount, FindMADTEntry, OfType, Before
<1>2. \A irq : Gsi(irq)' = Gsi(irq) BY DEF Gsi
<1> QED BY <1>1, <1>2 DEF GsiBase, Redirections, Index, Found

\* What may be in an entry may be there later.
LEMMA OkStays ==
    ASSUME madt' = madt, asked \subseteq asked', NEW a, NEW i, NEW e, Ok(a, i, e)
    PROVE  Ok(a, i, e)'
  BY MadtRests DEF Ok

LEMMA ApicInit == Init => IInv
<1> SUFFICES ASSUME Init PROVE IInv OBVIOUS
<1>1. madt \in Madts /\ irqToGsi = <<>> /\ ioApicCount = 0 BY DEF Init
<1>2. FindMADTEntryCount("IOAPIC") \in Nat /\ MaxIOAPICs \in Nat BY <1>1, OfTypeFinite, IOAPICAssumption
<1>3. ShapeInv
    BY <1>1, <1>2 DEF Init, ShapeInv, Discovered, Found, Halves
<1>4. \A c \in Cpus : SetInv(c) BY DEF Init, SetInv
<1>5. AloneInv BY DEF Init, AloneInv
<1>6. EntryInv BY <1>1 DEF EntryInv, Used
<1> QED BY <1>3, <1>4, <1>5, <1>6 DEF IInv

\* The call of c begins.
LEMMA CallBegins ==
    ASSUME IInv, NEW c \in Cpus, NEW a \in Used, NEW i, NEW e, pc[c] = "idle",
           SetRedirectionEntryInternal(c, a, i, e), madt' = madt, asked \subseteq asked',
           UNCHANGED <<irqToGsi, ioApicCount, lock, window, reg>>, Discovered,
           next' \in [Apics -> Nat],
           \A d \in Cpus : ~Busy(d, a, i), Ok(a, i, e)',
           \A b \in Used : \A j \in Index(b) : j < next'[b] => j < next[b] \/ (b = a /\ j = i)
    PROVE  IInv'
<1> USE DEF IInv
<1>a. /\ i \in Index(a) /\ call'[c] = [apic |-> a, index |-> i, entry |-> e]
      /\ half'[c] = "high" /\ pc'[c] = "lock"
      /\ \A d \in Cpus \ {c} : pc'[d] = pc[d] /\ call'[d] = call[d] /\ half'[d] = half[d]
    BY DEF SetRedirectionEntryInternal, ShapeInv
<1>b. call'[c].apic = a /\ call'[c].index = i /\ call'[c].entry = e /\ call'[c] # NoCall
  <2>1. DOMAIN call'[c] = {"apic", "index", "entry"} BY <1>a
  <2>2. DOMAIN <<>> = {} OBVIOUS
  <2>3. call'[c] # NoCall BY <2>1, <2>2 DEF NoCall
  <2> QED BY <1>a, <2>3
<1>c. /\ \A b : GsiBase(b)' = GsiBase(b) /\ Redirections(b)' = Redirections(b) /\ Index(b)' = Index(b)
      /\ \A irq : Gsi(irq)' = Gsi(irq)
      /\ Found' = Found /\ FindMADTEntryCount("IOAPIC")' = FindMADTEntryCount("IOAPIC")
    BY MadtRests
<1>1. ShapeInv'
  <2>1. /\ pc' \in [Cpus -> {"idle", "lock", "select", "data"}] /\ half' \in [Cpus -> Halves]
        /\ DOMAIN call' = Cpus
      BY DEF SetRedirectionEntryInternal, ShapeInv, Halves
  <2>2. Discovered' BY DEF Discovered
  <2>3. Apics' = Apics OBVIOUS
  <2> QED BY <1>c, <2>1, <2>2 DEF ShapeInv
<1>2. SetInv(c)' BY <1>a, <1>b, <1>c DEF SetInv, Used
<1>3. ASSUME NEW d \in Cpus \ {c} PROVE SetInv(d)'
  <2>1. SetInv(d) OBVIOUS
  <2>2. pc[d] # "idle" => Ok(call[d].apic, call[d].index, call[d].entry)' BY <2>1, <1>a, OkStays DEF SetInv
  <2>3. pc[d] # "idle" => High(call[d].apic, call[d].index)' = High(call[d].apic, call[d].index)
      BY <1>a DEF High
  <2>4. pc'[d] = pc[d] /\ call'[d] = call[d] /\ half'[d] = half[d] BY <1>a
  <2> QED BY <1>c, <2>1, <2>2, <2>3, <2>4 DEF SetInv, Used, High
<1>4. AloneInv' BY <1>a, <1>b DEF AloneInv, Busy
<1>5. EntryInv'
  <2> SUFFICES ASSUME NEW b \in Used, NEW j \in Index(b), j < next'[b],
                      \A d \in Cpus : ~Busy(d, b, j)'
               PROVE  Whole(b, j)'
      BY <1>c DEF EntryInv, Used
  <2>1. ~(b = a /\ j = i) BY <1>a, <1>b DEF Busy
  <2>2. \A d \in Cpus : ~Busy(d, b, j) BY <1>a DEF Busy
  <2>3. PICK f : Ok(b, j, f) /\ Low(b, j) = <<f, "low">> /\ High(b, j) = <<f, "high">>
      BY <2>1, <2>2 DEF EntryInv, Whole
  <2>4. Ok(b, j, f)' BY <2>3, OkStays
  <2> QED BY <2>3, <2>4 DEF Whole, Low, High
<1> QED BY <1>1, <1>2, <1>3, <1>4, <1>5

\* The GSI of an interrupt and its IOAPIC give an entry in range.
LEMMA OwningApic ==
    ASSUME IInv, Discovered, NEW irq \in Irqs, NEW a \in GetOwningApic(irqToGsi[irq])
    PROVE  /\ a \in Used /\ Gsi(irq) = irqToGsi[irq]
           /\ Gsi(irq) = GsiBase(a) + (irqToGsi[irq] - GsiBase(a))
<1>1. a \in Used BY DEF GetOwningApic, Used
<1>2. /\ irqToGsi[irq] = Gsi(irq) /\ madt \in Madts /\ ioApicCount \in Nat
      /\ ioApicCount <= FindMADTEntryCount("IOAPIC")
    BY DEF IInv, ShapeInv
<1>3. FindMADTEntryCount("IOAPIC") \in Nat BY <1>2, OfTypeFinite
<1>4. a \in 1 .. FindMADTEntryCount("IOAPIC") BY <1>1, <1>2, <1>3 DEF Used
<1>5. GsiBase(a) \in Nat /\ Gsi(irq) \in Nat BY <1>2, <1>4, ApicFound, OverriddenGsi
<1> QED BY <1>1, <1>2, <1>5

LEMMA DiscoverIInv == IInv /\ Discover => IInv'
<1> SUFFICES ASSUME IInv, Discover PROVE IInv' OBVIOUS
<1> USE DEF IInv
<1>1. madt \in Madts /\ madt' = madt /\ ~Discovered BY DEF Discover, ShapeInv
<1>2. /\ \A a : GsiBase(a)' = GsiBase(a) /\ Redirections(a)' = Redirections(a) /\ Index(a)' = Index(a)
      /\ \A irq : Gsi(irq)' = Gsi(irq)
      /\ Found' = Found /\ FindMADTEntryCount("IOAPIC")' = FindMADTEntryCount("IOAPIC")
    BY <1>1, MadtRests
<1>3. \A irq \in Irqs : irqToGsi'[irq] = Gsi(irq)
    BY <1>1, OverriddenGsi DEF Discover, IsoCount
<1>4. /\ ioApicCount' \in Nat /\ ioApicCount' <= FindMADTEntryCount("IOAPIC")
      /\ ioApicCount' <= MaxIOAPICs
    BY <1>1, OfTypeFinite, IOAPICAssumption DEF Discover
<1>5. /\ UNCHANGED <<lock, window, reg, next, pc, call, half, asked>>
      /\ \A a \in Apics : next[a] = 0
      /\ \A c \in Cpus : pc[c] = "idle"
    BY <1>1 DEF Discover, ShapeInv
<1>6. ShapeInv' BY <1>1, <1>2, <1>3, <1>4, <1>5 DEF ShapeInv
<1>7. \A c \in Cpus : SetInv(c)' BY <1>5 DEF SetInv
<1>8. AloneInv' BY <1>5 DEF AloneInv
<1>9. EntryInv'
  <2>1. ASSUME NEW a \in Used', NEW i \in Index(a) PROVE ~(i < next[a])
    <3>1. a \in Apics BY <1>4, IOAPICAssumption DEF Used, Apics
    <3>2. a \in Found BY <1>1, <1>4, OfTypeFinite DEF Used, Found
    <3>3. i \in Nat BY <1>1, <3>2, ApicFound DEF Index, Found
    <3> QED BY <1>5, <3>1, <3>3
  <2> QED BY <1>2, <1>5, <2>1 DEF EntryInv
<1> QED BY <1>6, <1>7, <1>8, <1>9

\* A step of c inside WriteRegister that writes no register of a table.
LEMMA WindowStep ==
    ASSUME IInv, NEW c \in Cpus, pc[c] # "idle", pc'[c] \in {"select", "data"},
           UNCHANGED <<madt, irqToGsi, ioApicCount, reg, next, call, half, asked>>,
           lock' \in [Apics -> Cpus \cup {Nobody}], DOMAIN window' = Apics,
           pc' = [pc EXCEPT ![c] = pc'[c]],
           \A d \in Cpus \ {c} : pc[d] \in {"select", "data"} =>
               lock'[call[d].apic] = lock[call[d].apic] /\ window'[call[d].apic] = window[call[d].apic],
           lock'[call[c].apic] = c,
           pc'[c] = "data" => window'[call[c].apic] = <<call[c].index, half[c]>>
    PROVE  IInv'
<1> USE DEF IInv
<1>1. /\ \A a : GsiBase(a)' = GsiBase(a) /\ Redirections(a)' = Redirections(a) /\ Index(a)' = Index(a)
      /\ \A irq : Gsi(irq)' = Gsi(irq)
      /\ Found' = Found /\ FindMADTEntryCount("IOAPIC")' = FindMADTEntryCount("IOAPIC")
    BY MadtRests
<1>2. \A d \in Cpus : pc'[d] = IF d = c THEN pc'[c] ELSE pc[d] BY DEF ShapeInv
<1>3. \A a, i, e : Ok(a, i, e)' <=> Ok(a, i, e) BY <1>1 DEF Ok
<1>4. pc' \in [Cpus -> {"idle", "lock", "select", "data"}] BY DEF ShapeInv
<1>5. Discovered BY DEF ShapeInv
<1>6. ShapeInv' BY <1>1, <1>4, <1>5 DEF ShapeInv, Discovered
<1>7. \A d \in Cpus : SetInv(d)' BY <1>1, <1>2, <1>3 DEF SetInv, High, Used
<1>8. AloneInv' BY <1>2 DEF AloneInv
<1>9. EntryInv'
  <2>1. \A d \in Cpus : \A a, i : Busy(d, a, i)' <=> Busy(d, a, i) BY <1>2 DEF Busy
  <2>2. \A a, i : Whole(a, i)' <=> Whole(a, i) BY <1>3 DEF Whole, Low, High
  <2> QED BY <1>1, <2>1, <2>2 DEF EntryInv, Used
<1> QED BY <1>6, <1>7, <1>8, <1>9

\* Data writes its own half of its own entry, and nothing else.
LEMMA DataWrites ==
    ASSUME IInv, NEW c \in Cpus, Data(c)
    PROVE  /\ pc[c] = "data" /\ call[c].apic \in Used /\ call[c].apic \in Apics
           /\ DOMAIN reg' = DOMAIN reg /\ \A a \in Found : DOMAIN reg'[a] = DOMAIN reg[a]
           /\ \A a \in Used : \A i \in Index(a) : \A h \in Halves :
                reg'[a][<<i, h>>] = IF a = call[c].apic /\ i = call[c].index /\ h = half[c]
                                    THEN <<call[c].entry, h>> ELSE reg[a][<<i, h>>]
<1> USE DEF IInv
<1> DEFINE a0 == call[c].apic
           i0 == call[c].index
           h0 == half[c]
<1>1. pc[c] = "data" /\ a0 \in Used /\ i0 \in Index(a0) /\ window[a0] = <<i0, h0>> /\ h0 \in Halves
    BY DEF Data, SetInv, ShapeInv
<1>2. reg' = [reg EXCEPT ![a0][<<i0, h0>>] = <<call[c].entry, h0>>] BY <1>1 DEF Data
<1>3. /\ ioApicCount \in Nat /\ ioApicCount <= FindMADTEntryCount("IOAPIC")
      /\ ioApicCount <= MaxIOAPICs /\ MaxIOAPICs \in Nat /\ FindMADTEntryCount("IOAPIC") \in Nat
      /\ DOMAIN reg = Found /\ \A a \in Found : DOMAIN reg[a] = Index(a) \X Halves
    BY OfTypeFinite, IOAPICAssumption DEF ShapeInv
<1>4. Used \subseteq Found /\ Used \subseteq Apics BY <1>3 DEF Used, Found, Apics
<1>5. a0 \in DOMAIN reg /\ <<i0, h0>> \in DOMAIN reg[a0] BY <1>1, <1>3, <1>4
<1> HIDE DEF a0, i0, h0
<1>6. /\ DOMAIN reg' = DOMAIN reg /\ \A a \in Found : DOMAIN reg'[a] = DOMAIN reg[a]
    BY <1>2, <1>3, <1>5
<1>7. ASSUME NEW a \in Used, NEW i \in Index(a), NEW h \in Halves
      PROVE  reg'[a][<<i, h>>] = IF a = a0 /\ i = i0 /\ h = h0
                                 THEN <<call[c].entry, h>> ELSE reg[a][<<i, h>>]
  <2>1. a \in DOMAIN reg /\ <<i, h>> \in DOMAIN reg[a] BY <1>3, <1>4
  <2>2. <<i, h>> = <<i0, h0>> <=> i = i0 /\ h = h0 OBVIOUS
  <2>3. CASE a # a0 BY <1>2, <2>1, <2>3
  <2>4. CASE a = a0
    <3>1. reg'[a] = [reg[a] EXCEPT ![<<i0, h0>>] = <<call[c].entry, h0>>] BY <1>2, <2>1, <2>4
    <3> QED BY <2>1, <2>2, <2>4, <3>1
  <2> QED BY <2>3, <2>4
<1> QED BY <1>1, <1>4, <1>6, <1>7 DEF a0, i0, h0

LEMMA DataIInv == ASSUME NEW c \in Cpus PROVE IInv /\ Data(c) => IInv'
<1> SUFFICES ASSUME IInv, Data(c) PROVE IInv' OBVIOUS
<1> USE DEF IInv
<1> DEFINE a0 == call[c].apic
           i0 == call[c].index
           e0 == call[c].entry
<1>1. /\ pc[c] = "data" /\ a0 \in Used /\ i0 \in Index(a0) /\ Ok(a0, i0, e0) /\ lock[a0] = c
      /\ half[c] = "low" => High(a0, i0) = <<e0, "high">>
      /\ half[c] \in {"high", "low"}
    BY DEF Data, SetInv, ShapeInv, Halves
<1>2. /\ a0 \in Apics
      /\ DOMAIN reg' = DOMAIN reg /\ \A a \in Found : DOMAIN reg'[a] = DOMAIN reg[a]
      /\ \A a \in Used : \A i \in Index(a) : \A h \in Halves :
           reg'[a][<<i, h>>] = IF a = a0 /\ i = i0 /\ h = half[c]
                               THEN <<e0, h>> ELSE reg[a][<<i, h>>]
    BY DataWrites
<1>3. /\ UNCHANGED <<madt, irqToGsi, ioApicCount, window, next, asked>>
      /\ lock' = [lock EXCEPT ![a0] = Nobody]
      /\ half' = [half EXCEPT ![c] = IF half[c] = "high" THEN "low" ELSE "high"]
      /\ pc' = [pc EXCEPT ![c] = IF half[c] = "high" THEN "lock" ELSE "idle"]
      /\ call' = IF half[c] = "high" THEN call ELSE [call EXCEPT ![c] = NoCall]
    BY <1>1 DEF Data, found
<1>4. /\ \A a : GsiBase(a)' = GsiBase(a) /\ Redirections(a)' = Redirections(a) /\ Index(a)' = Index(a)
      /\ \A irq : Gsi(irq)' = Gsi(irq)
      /\ Found' = Found /\ FindMADTEntryCount("IOAPIC")' = FindMADTEntryCount("IOAPIC")
    BY <1>3, MadtRests
<1>5. \A a, i, e : Ok(a, i, e)' <=> Ok(a, i, e) BY <1>3, <1>4 DEF Ok
<1>6. /\ \A d \in Cpus \ {c} : pc'[d] = pc[d] /\ call'[d] = call[d] /\ half'[d] = half[d]
      /\ pc'[c] = IF half[c] = "high" THEN "lock" ELSE "idle"
      /\ half'[c] = IF half[c] = "high" THEN "low" ELSE "high"
      /\ call'[c] = IF half[c] = "high" THEN call[c] ELSE NoCall
    BY <1>3 DEF ShapeInv
<1>7. ShapeInv'
  <2>1. /\ pc' \in [Cpus -> {"idle", "lock", "select", "data"}] /\ half' \in [Cpus -> Halves]
        /\ DOMAIN call' = Cpus /\ lock' \in [Apics -> Cpus \cup {Nobody}]
      BY <1>3 DEF ShapeInv, Halves
  <2>2. Discovered BY <1>1 DEF ShapeInv
  <2> QED BY <1>2, <1>3, <1>4, <2>1, <2>2 DEF ShapeInv, Discovered
<1>8. SetInv(c)'
  <2>1. CASE half[c] = "high"
    <3>1. reg'[a0][<<i0, "high">>] = <<e0, "high">> BY <1>1, <1>2, <2>1 DEF Halves
    <3>2. call[c] # NoCall BY <1>1 DEF SetInv
    <3> QED BY <1>1, <1>3, <1>4, <1>5, <1>6, <2>1, <3>1, <3>2 DEF SetInv, High, Used
  <2>2. CASE half[c] = "low" BY <1>6, <2>2 DEF SetInv
  <2> QED BY <1>1, <2>1, <2>2
<1>9. ASSUME NEW d \in Cpus \ {c} PROVE SetInv(d)'
  <2>1. SetInv(d) /\ pc'[d] = pc[d] /\ call'[d] = call[d] /\ half'[d] = half[d] BY <1>6
  <2>2. pc[d] \in {"select", "data"} => lock'[call[d].apic] = d
    <3>1. pc[d] \in {"select", "data"} => call[d].apic # a0 BY <1>1, <2>1 DEF SetInv
    <3> QED BY <1>3, <2>1, <3>1 DEF SetInv, ShapeInv
  <2>3. pc[d] # "idle" => reg'[call[d].apic][<<call[d].index, "high">>] = High(call[d].apic, call[d].index)
    <3> SUFFICES ASSUME pc[d] # "idle"
                 PROVE  reg'[call[d].apic][<<call[d].index, "high">>] = High(call[d].apic, call[d].index)
        OBVIOUS
    <3>1. ~(call[d].apic = a0 /\ call[d].index = i0) BY <1>1 DEF AloneInv
    <3>2. call[d].apic \in Used /\ call[d].index \in Index(call[d].apic) BY <2>1 DEF SetInv
    <3> QED BY <1>2, <3>1, <3>2 DEF High, Halves
  <2> QED BY <1>3, <1>4, <1>5, <2>1, <2>2, <2>3 DEF SetInv, High, Used
<1>10. AloneInv' BY <1>1, <1>6 DEF AloneInv
<1>11. EntryInv'
  <2> SUFFICES ASSUME NEW a \in Used, NEW i \in Index(a), i < next[a],
                      \A d \in Cpus : ~Busy(d, a, i)'
               PROVE  Whole(a, i)'
      BY <1>3, <1>4 DEF EntryInv, Used
  <2>1. CASE a = a0 /\ i = i0
    <3>1. half[c] = "low" BY <1>1, <1>6, <2>1 DEF Busy
    <3>2. reg'[a][<<i, "low">>] = <<e0, "low">> /\ reg'[a][<<i, "high">>] = <<e0, "high">>
        BY <1>1, <1>2, <2>1, <3>1 DEF High, Halves
    <3>3. PICK e : e = e0 OBVIOUS
    <3>4. Ok(a, i, e)' BY <1>1, <1>5, <2>1, <3>3
    <3> QED BY <3>2, <3>3, <3>4 DEF Whole, Low, High
  <2>2. CASE ~(a = a0 /\ i = i0)
    <3>1. \A d \in Cpus : ~Busy(d, a, i) BY <1>6, <2>2 DEF Busy
    <3>2. PICK e : Ok(a, i, e) /\ Low(a, i) = <<e, "low">> /\ High(a, i) = <<e, "high">>
        BY <3>1 DEF EntryInv, Whole
    <3>3. reg'[a][<<i, "low">>] = <<e, "low">> /\ reg'[a][<<i, "high">>] = <<e, "high">>
        BY <1>2, <2>2, <3>2 DEF Low, High, Halves
    <3>4. Ok(a, i, e)' BY <1>5, <3>2
    <3> QED BY <3>3, <3>4 DEF Whole, Low, High
  <2> QED BY <2>1, <2>2
<1> QED BY <1>7, <1>8, <1>9, <1>10, <1>11

LEMMA ApicNextIInv == IInv /\ [Next]_vars => IInv'
<1> SUFFICES ASSUME IInv, [Next]_vars PROVE IInv' OBVIOUS
<1>a. Nobody \notin Cpus BY IOAPICAssumption
<1>1. ASSUME NEW c \in Cpus, LockWindow(c) PROVE IInv'
  <2>1. /\ pc[c] = "lock" /\ lock[call[c].apic] = Nobody
        /\ lock' = [lock EXCEPT ![call[c].apic] = c] /\ pc' = [pc EXCEPT ![c] = "select"]
        /\ UNCHANGED <<madt, irqToGsi, ioApicCount, window, reg, next, call, half, asked>>
      BY <1>1 DEF LockWindow, found
  <2>2. call[c].apic \in Apics
      BY <2>1, IOAPICAssumption DEF IInv, SetInv, ShapeInv, Used, Apics
  <2>3. lock' \in [Apics -> Cpus \cup {Nobody}] /\ pc'[c] = "select" /\ lock'[call[c].apic] = c
      BY <2>1, <2>2 DEF IInv, ShapeInv
  <2>4. ASSUME NEW d \in Cpus \ {c}, pc[d] \in {"select", "data"}
        PROVE  lock'[call[d].apic] = lock[call[d].apic]
    <3>1. lock[call[d].apic] = d BY <2>4 DEF IInv, SetInv
    <3>2. call[d].apic # call[c].apic BY <1>a, <2>1, <3>1
    <3>3. call[d].apic \in Apics
        BY <2>4, IOAPICAssumption DEF IInv, SetInv, ShapeInv, Used, Apics
    <3> QED BY <2>1, <3>2, <3>3 DEF IInv, ShapeInv
  <2>5. DOMAIN window' = Apics BY <2>1 DEF IInv, ShapeInv
  <2> QED BY <2>1, <2>3, <2>4, <2>5, WindowStep
<1>2. ASSUME NEW c \in Cpus, Select(c) PROVE IInv'
  <2>1. /\ pc[c] = "select" /\ pc' = [pc EXCEPT ![c] = "data"]
        /\ window' = [window EXCEPT ![call[c].apic] = <<call[c].index, half[c]>>]
        /\ UNCHANGED <<madt, irqToGsi, ioApicCount, lock, reg, next, call, half, asked>>
      BY <1>2 DEF Select, found
  <2>2. call[c].apic \in Apics /\ lock[call[c].apic] = c
      BY <2>1, IOAPICAssumption DEF IInv, SetInv, ShapeInv, Used, Apics
  <2>3. /\ DOMAIN window' = Apics /\ pc'[c] = "data"
        /\ window'[call[c].apic] = <<call[c].index, half[c]>>
      BY <2>1, <2>2 DEF IInv, ShapeInv
  <2>4. ASSUME NEW d \in Cpus \ {c}, pc[d] \in {"select", "data"}
        PROVE  window'[call[d].apic] = window[call[d].apic]
    <3>1. lock[call[d].apic] = d BY <2>4 DEF IInv, SetInv
    <3>2. call[d].apic # call[c].apic BY <2>2, <3>1
    <3>3. call[d].apic \in Apics
        BY <2>4, IOAPICAssumption DEF IInv, SetInv, ShapeInv, Used, Apics
    <3> QED BY <2>1, <3>2, <3>3 DEF IInv, ShapeInv
  <2>5. lock' \in [Apics -> Cpus \cup {Nobody}] BY <2>1 DEF IInv, ShapeInv
  <2> QED BY <2>1, <2>2, <2>3, <2>4, <2>5, WindowStep
<1>3. ASSUME NEW c \in Cpus, Data(c) PROVE IInv' BY <1>3, DataIInv
<1>4. ASSUME NEW c \in Cpus, NEW a \in Apics, Initialize(c, a) PROVE IInv'
  <2>1. /\ Discovered /\ \A d \in Cpus : pc[d] = "idle"
        /\ a <= ioApicCount /\ next' = [next EXCEPT ![a] = @ + 1]
        /\ SetRedirectionEntryInternal(c, a, next[a], Masked)
        /\ UNCHANGED <<madt, irqToGsi, ioApicCount, lock, window, reg, asked>>
      BY <1>4 DEF Initialize, found
  <2>2. a \in Used /\ ioApicCount \in Nat BY <2>1, IOAPICAssumption DEF IInv, ShapeInv, Used, Apics
  <2>3. PICK i \in Nat : i = next[a] BY DEF IInv, ShapeInv
  <2>4. next' \in [Apics -> Nat] /\ \A b \in Apics : next'[b] = IF b = a THEN next[a] + 1 ELSE next[b]
    <3>1. next[a] + 1 \in Nat BY <2>3
    <3> QED BY <2>1, <3>1 DEF IInv, ShapeInv
  <2>5. Ok(a, i, Masked)' BY DEF Ok
  <2>6. ASSUME NEW b \in Used, NEW j \in Index(b), j < next'[b] PROVE j < next[b] \/ (b = a /\ j = i)
    <3>1. b \in Apics BY IOAPICAssumption DEF IInv, ShapeInv, Used, Apics
    <3>2. j \in Nat
      <4>1. b \in Found /\ madt \in Madts BY OfTypeFinite DEF IInv, ShapeInv, Used, Found
      <4> QED BY <4>1, ApicFound DEF Index, Found
    <3> QED BY <2>3, <2>4, <2>6, <3>1, <3>2
  <2>7. \A d \in Cpus : ~Busy(d, a, i) BY <2>1 DEF Busy
  <2> QED BY <2>1, <2>2, <2>3, <2>4, <2>5, <2>6, <2>7, CallBegins
<1>5. ASSUME NEW c \in Cpus, NEW irq \in Irqs, NEW e \in Entries, SetRedirectionEntry(c, irq, e)
      PROVE  IInv'
  <2>1. PICK a \in GetOwningApic(irqToGsi[irq]) :
            /\ \A d \in Cpus : ~Setting(d, a, irqToGsi[irq] - GsiBase(a))
            /\ SetRedirectionEntryInternal(c, a, irqToGsi[irq] - GsiBase(a), e)
      BY <1>5 DEF SetRedirectionEntry
  <2>2. /\ pc[c] = "idle" /\ Discovered /\ asked' = asked \cup {<<irq, e>>}
        /\ UNCHANGED <<madt, irqToGsi, ioApicCount, lock, window, reg, next>>
      BY <1>5 DEF SetRedirectionEntry, Ready, found
  <2>3. PICK i : i = irqToGsi[irq] - GsiBase(a) OBVIOUS
  <2>4. a \in Used /\ Gsi(irq) = GsiBase(a) + i BY <2>2, <2>3, OwningApic
  <2>5. Ok(a, i, e)' BY <2>2, <2>4, MadtRests DEF Ok
  <2>6. \A d \in Cpus : ~Busy(d, a, i) BY <2>1, <2>3 DEF Busy, Setting, IInv, SetInv
  <2>7. next' \in [Apics -> Nat] BY <2>2 DEF IInv, ShapeInv
  <2>8. SetRedirectionEntryInternal(c, a, i, e) /\ asked \subseteq asked' BY <2>1, <2>2, <2>3
  <2> QED BY <2>2, <2>4, <2>5, <2>6, <2>7, <2>8, CallBegins
<1>6. CASE Discover BY <1>6, DiscoverIInv
<1>7. CASE UNCHANGED vars
  <2> USE DEF IInv
  <2>0. UNCHANGED <<madt, irqToGsi, ioApicCount, lock, window, reg, next, pc, call, half, asked>>
      BY <1>7 DEF vars, found
  <2>1. /\ \A a : GsiBase(a)' = GsiBase(a) /\ Redirections(a)' = Redirections(a) /\ Index(a)' = Index(a)
        /\ \A irq : Gsi(irq)' = Gsi(irq)
        /\ Found' = Found /\ FindMADTEntryCount("IOAPIC")' = FindMADTEntryCount("IOAPIC")
      BY <2>0, MadtRests
  <2>2. \A a, i, e : Ok(a, i, e)' <=> Ok(a, i, e) BY <2>0, <2>1 DEF Ok
  <2>3. ShapeInv' BY <2>0, <2>1 DEF ShapeInv, Discovered
  <2>4. \A d \in Cpus : SetInv(d)' BY <2>0, <2>1, <2>2 DEF SetInv, High, Used
  <2>5. AloneInv' BY <2>0 DEF AloneInv
  <2>6. \A a, i : Whole(a, i)' <=> Whole(a, i) BY <2>0, <2>2 DEF Whole, Low, High
  <2>7. EntryInv' BY <2>0, <2>1, <2>6 DEF EntryInv, Used, Busy
  <2> QED BY <2>3, <2>4, <2>5, <2>7
<1> QED BY <1>1, <1>2, <1>3, <1>4, <1>5, <1>6, <1>7 DEF Next

(***************************************************************************)
(* The theorems.                                                           *)
(***************************************************************************)
\* Whatever the MADT says and however the CPUs share the IOAPICs' windows,
\* each entry is masked or was asked, in both halves, for an interrupt that
\* the MADT routes there.
THEOREM RoutesExactHolds == Spec => []RoutesExact
<1>1. IInv => RoutesExact
  <2> SUFFICES ASSUME IInv, Ready, \A c \in Cpus : pc[c] = "idle",
                      NEW a \in 1 .. ioApicCount, NEW i \in Index(a)
               PROVE  /\ Low(a, i)[2] = "low" /\ High(a, i) = <<Low(a, i)[1], "high">>
                      /\ \/ Low(a, i)[1] = Masked
                         \/ \E irq \in Irqs : /\ Gsi(irq) = GsiBase(a) + i
                                              /\ <<irq, Low(a, i)[1]>> \in asked
      BY DEF RoutesExact
  <2>1. a \in Found /\ madt \in Madts BY OfTypeFinite DEF IInv, ShapeInv, Found
  <2>2. Redirections(a) \in Nat BY <2>1, ApicFound DEF Found
  <2>3. i < next[a] BY <2>2 DEF Ready, Initialized, Index
  <2>4. PICK e : Ok(a, i, e) /\ Low(a, i) = <<e, "low">> /\ High(a, i) = <<e, "high">>
      BY <2>3 DEF IInv, EntryInv, Busy, Whole, Used
  <2>5. Low(a, i)[1] = e /\ Low(a, i)[2] = "low" BY <2>4
  <2> QED BY <2>4, <2>5 DEF Ok
<1> QED BY <1>1, ApicInit, ApicNextIInv, PTL DEF Spec

\* The two halves of an entry are written under the lock one by one, and yet
\* an interrupt is unmasked only with its own destination in place.
THEOREM UnmaskedWholeHolds == Spec => UnmaskedWhole
<1>1. ASSUME IInv, [Next]_vars, NEW a \in 1 .. ioApicCount, NEW i \in Index(a),
             Low(a, i)[1].masked, ~Low(a, i)'[1].masked
      PROVE  High(a, i)'[1] = Low(a, i)'[1]
  <2>1. reg' # reg BY <1>1 DEF Low
  <2>2. PICK c \in Cpus : Data(c)
      BY <1>1, <2>1 DEF Next, LockWindow, Select, Initialize, SetRedirectionEntry, Discover, vars
  <2>3. \A h \in Halves :
           reg'[a][<<i, h>>] = IF a = call[c].apic /\ i = call[c].index /\ h = half[c]
                               THEN <<call[c].entry, h>> ELSE reg[a][<<i, h>>]
      BY <1>1, <2>2, DataWrites DEF Used
  <2>4. "low" \in Halves /\ "high" \in Halves BY DEF Halves
  <2>5. a = call[c].apic /\ i = call[c].index /\ half[c] = "low" BY <1>1, <2>3, <2>4 DEF Low
  <2>6. High(a, i) = <<call[c].entry, "high">> BY <1>1, <2>2, <2>5 DEF IInv, SetInv, Data
  <2>7. reg'[a][<<i, "low">>] = <<call[c].entry, "low">> /\ reg'[a][<<i, "high">>] = <<call[c].entry, "high">>
      BY <2>3, <2>4, <2>5, <2>6 DEF High
  <2> QED BY <2>7 DEF Low, High
<1>2. IInv /\ [Next]_vars =>
        [\A a \in 1 .. ioApicCount : \A i \in Index(a) :
           Low(a, i)[1].masked /\ ~Low(a, i)'[1].masked => High(a, i)'[1] = Low(a, i)'[1]]_vars
    BY <1>1
<1> QED BY <1>2, ApicInit, ApicNextIInv, PTL DEF Spec, UnmaskedWhole
=============================================================================
