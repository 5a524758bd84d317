------------------------------- MODULE MCApic -------------------------------
(***************************************************************************)
(* The IOAPICs: two CPUs that route ISA interrupts on two kinds of         *)
(* machine, one IOAPIC behind two overrides, the second for an interrupt   *)
(* that has one already, and an override of an interrupt that is not an    *)
(* ISA one; and three IOAPICs, one more than the kernel supports, with an  *)
(* interrupt on each.  And the local APIC of a CPU, with a thread and a    *)
(* handler that send IPIs and set the timer.  And two callers that         *)
(* allocate and free the vectors for such interrupts.                      *)
(*                                                                         *)
(* They share no register and no lock, so a run takes one of the three.    *)
(***************************************************************************)
EXTENDS IOAPIC, LAPIC, VectorAllocator

Apic(base, size) == [type |-> "IOAPIC", base |-> base, size |-> size]
Iso(irq, gsi) == [type |-> "IRQSrcOverride", source |-> irq, gsi |-> gsi]
Other == [type |-> "LAPIC"]

SomeMadts == {<<Other, Iso(0, 0), Apic(0, 3), Iso(0, 2), Iso(20, 1)>>,
              <<Apic(0, 1), Other, Apic(1, 2), Iso(0, 2), Iso(2, 3), Apic(3, 1)>>}

Entry(n, m) == [name |-> n, masked |-> m]
MaskedEntry == Entry("masked", TRUE)
FirmwareEntry == Entry("firmware", FALSE)
SomeEntries == {Entry("timer", FALSE), MaskedEntry}

IPI(v, d, s) == [vector |-> v, destination |-> d, shorthand |-> s]
SomeRequests == {IPI(1, 1, "NoShorthand"), IPI(1, 2, "NoShorthand"),
                 IPI(2, 0, "Self"), IPI(2, 0, "AllExcludingSelf")}
SomeTimers == {[vector |-> 1, divide |-> 1, count |-> 1], [vector |-> 2, divide |-> 2, count |-> 2]}

ApicInit == Init /\ LInit /\ VectorInit
ApicNext == \/ Next /\ LInit /\ VectorInit /\ UNCHANGED <<lvars, vectorVars>>
            \/ LNext /\ ~Discovered /\ VectorInit /\ UNCHANGED <<vars, vectorVars>>
            \/ VectorNext /\ ~Discovered /\ LInit /\ UNCHANGED <<vars, lvars>>
ApicSpec == ApicInit /\ [][ApicNext]_<<vars, lvars, vectorVars>>
=============================================================================
