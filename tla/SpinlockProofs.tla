--------------------------- MODULE SpinlockProofs ---------------------------
(***************************************************************************)
(* Proofs about Spinlock for any number of CPUs, locks and nested handlers *)
(* and any lock order.                                                     *)
(***************************************************************************)
EXTENDS Spinlock, TLAPS

\* A context is a CPU and a level, and two contexts of one CPU that both run
\* are the same.
LEMMA ContextParts ==
    /\ \A c \in Contexts : /\ c[1] \in Cpus /\ c[2] \in Levels /\ c[2] \in Nat
                            /\ c = <<c[1], c[2]>>
    /\ \A p \in Cpus, k \in Levels : /\ <<p, k>> \in Contexts
                                     /\ <<p, k>>[1] = p /\ <<p, k>>[2] = k
    /\ \A c, d \in Contexts : c[1] = d[1] /\ c[2] = d[2] => c = d
  BY MaxIrqAssumption DEF Contexts, Levels

\* In the initial states nobody holds or wants a lock.
LEMMA InitTypeWant == Init => TypeOK /\ WantInv
  BY ContextParts, MaxIrqAssumption DEF Init, TypeOK, WantInv, Levels, Pcs, Locking

\* The types together with WantInv are inductive.
LEMMA NextTypeWant == TypeOK /\ WantInv /\ [Next]_vars => TypeOK' /\ WantInv'
<1> SUFFICES ASSUME TypeOK, WantInv, [Next]_vars PROVE TypeOK' /\ WantInv'
  OBVIOUS
<1> USE ContextParts, StopModesAssumption DEF TypeOK, WantInv, Pcs, Locking, At, Running
<1>1. ASSUME NEW c \in Contexts, NEW l \in Locks, NEW s \in StopModes, ReadFlags(c, l, s)
      PROVE TypeOK' /\ WantInv'
  BY <1>1 DEF ReadFlags
<1>2. ASSUME NEW c \in Contexts, Cli(c) PROVE TypeOK' /\ WantInv'
  BY <1>2 DEF Cli
<1>3. ASSUME NEW c \in Contexts, Load(c) PROVE TypeOK' /\ WantInv'
  BY <1>3 DEF Load
<1>4. ASSUME NEW c \in Contexts, CompareExchange(c) PROVE TypeOK' /\ WantInv'
  <2>1. want[c] \in Locks /\ pc[c] = "cas"
    BY <1>4 DEF CompareExchange
  <2>2. CASE ~locked[want[c]]
    <3>1. /\ locked' = [locked EXCEPT ![want[c]] = TRUE]
          /\ held' = [held EXCEPT ![c] = @ \cup {want[c]}]
          /\ reenable' = [reenable EXCEPT ![c][want[c]] = had[c]]
          /\ pc' = [pc EXCEPT ![c] = "idle"]
          /\ want' = [want EXCEPT ![c] = NoLock]
          /\ had' = [had EXCEPT ![c] = FALSE]
          /\ UNCHANGED <<iflag, depth, entryIF>>
      BY <1>4, <2>2 DEF CompareExchange, Return
    <3>2. TypeOK'
      BY <2>1, <3>1
    <3>3. WantInv'
      BY <2>1, <3>1
    <3> QED
      BY <3>2, <3>3
  <2>3. CASE locked[want[c]]
    <3>1. /\ pc' = [pc EXCEPT ![c] = "load"]
          /\ UNCHANGED <<locked, iflag, depth, want, had, held, reenable, entryIF>>
      BY <1>4, <2>3 DEF CompareExchange
    <3> QED
      BY <2>1, <3>1
  <2> QED
    BY <2>2, <2>3
<1>5. ASSUME NEW c \in Contexts, NEW l \in Locks, UnlockStore(c, l) PROVE TypeOK' /\ WantInv'
  BY <1>5 DEF UnlockStore
<1>6. ASSUME NEW c \in Contexts, Sti(c) PROVE TypeOK' /\ WantInv'
  BY <1>6 DEF Sti
<1>7. ASSUME NEW p \in Cpus, Interrupt(p) PROVE TypeOK' /\ WantInv'
  BY <1>7, MaxIrqAssumption DEF Interrupt, Levels
<1>8. ASSUME NEW p \in Cpus, Iret(p) PROVE TypeOK' /\ WantInv'
  BY <1>8, MaxIrqAssumption DEF Iret, Levels
<1>9. CASE UNCHANGED vars
  BY <1>9 DEF vars
<1> QED
  BY <1>1, <1>2, <1>3, <1>4, <1>5, <1>6, <1>7, <1>8, <1>9 DEF Next, Step

\* Every step of every context keeps the variables of Spinlock in their types.
THEOREM TypeCorrect == Spec => []TypeOK
<1> QED
  BY InitTypeWant, NextTypeWant, PTL DEF Spec

(***************************************************************************)
(* Mutual exclusion.  It needs no assumption on stopInterrupts: only the   *)
(* compare-exchange sets _locked, only a holder clears it.                 *)
(***************************************************************************)
LEMMA NextExclusion ==
    TypeOK /\ WantInv /\ MutualExclusion /\ [Next]_vars => MutualExclusion'
<1> SUFFICES ASSUME TypeOK, WantInv, MutualExclusion, [Next]_vars PROVE MutualExclusion'
  OBVIOUS
<1> USE DEF TypeOK, MutualExclusion
<1>1. ASSUME NEW c \in Contexts, CompareExchange(c) PROVE MutualExclusion'
  <2>1. CASE UNCHANGED <<locked, held>>
    BY <2>1
  <2>2. CASE ~locked[want[c]] /\ locked' = [locked EXCEPT ![want[c]] = TRUE]
             /\ held' = [held EXCEPT ![c] = @ \cup {want[c]}]
    <3>1. want[c] \in Locks /\ \A d \in Contexts : want[c] \notin held[d]
      BY <1>1, <2>2 DEF CompareExchange, At, WantInv, Locking
    <3> QED
      BY <2>2, <3>1
  <2> QED
    BY <1>1, <2>1, <2>2 DEF CompareExchange
<1>2. ASSUME NEW c \in Contexts, NEW l \in Locks, UnlockStore(c, l) PROVE MutualExclusion'
  BY <1>2 DEF UnlockStore, Innermost
<1>3. CASE UNCHANGED <<locked, held>>
  BY <1>3
<1> QED
  BY <1>1, <1>2, <1>3 DEF Next, Step, ReadFlags, Cli, Load, Sti, Interrupt, Iret, vars

\* No two contexts hold a lock at the same time, and _locked is set exactly
\* while one does, whatever interrupts arrive and whatever callers pass as
\* stopInterrupts.
THEOREM MutualExclusionHolds == Spec => []MutualExclusion
<1>1. Init => MutualExclusion
  BY DEF Init, MutualExclusion
<1> QED
  BY <1>1, InitTypeWant, NextTypeWant, NextExclusion, PTL DEF Spec

(***************************************************************************)
(* Interrupts, where every caller passes stopInterrupts = true.            *)
(***************************************************************************)
LEMMA InitFlag == Init => FlagInv
  BY ContextParts, MaxIrqAssumption DEF Init, FlagInv, Spinning, Running

\* Every step keeps interrupts off wherever a lock is held or being taken.
LEMMA NextFlag ==
    ASSUME StopModes = {TRUE}
    PROVE  TypeOK /\ WantInv /\ FlagInv /\ [Next]_vars => FlagInv'
<1> SUFFICES ASSUME TypeOK, WantInv, FlagInv, [Next]_vars PROVE FlagInv'
  OBVIOUS
<1> USE ContextParts DEF TypeOK, FlagInv, Pcs, Spinning, At, Running
<1>1. ASSUME NEW c \in Contexts, NEW l \in Locks, NEW s \in StopModes, ReadFlags(c, l, s)
      PROVE FlagInv'
  BY <1>1 DEF ReadFlags
<1>2. ASSUME NEW c \in Contexts, Cli(c) PROVE FlagInv'
  BY <1>2 DEF Cli
<1>3. ASSUME NEW c \in Contexts, Load(c) PROVE FlagInv'
  BY <1>3 DEF Load
<1>4. ASSUME NEW c \in Contexts, CompareExchange(c) PROVE FlagInv'
  <2>1. want[c] \in Locks /\ \A h \in held[c] : <<h, want[c]>> \in Order
    BY <1>4 DEF CompareExchange, WantInv, Locking
  <2>2. CASE ~locked[want[c]]
    BY <1>4, <2>1, <2>2 DEF CompareExchange, Return
  <2>3. CASE locked[want[c]]
    BY <1>4, <2>3 DEF CompareExchange
  <2> QED
    BY <2>2, <2>3
<1>5. ASSUME NEW c \in Contexts, NEW l \in Locks, UnlockStore(c, l) PROVE FlagInv'
  <2>1. reenable[c][l] => held[c] = {l}
    <3>1. l \in held[c] /\ \A m \in held[c] : <<l, m>> \notin Order
      BY <1>5 DEF UnlockStore, Innermost
    <3>2. \A m \in held[c] : reenable[c][l] /\ l # m => <<l, m>> \in Order
      BY <3>1
    <3> HIDE ContextParts DEF TypeOK, FlagInv
    <3> QED
      BY <3>1, <3>2
  <2>2. ~had[c]
    BY <1>5 DEF UnlockStore, WantInv, Locking
  <2> QED
    BY <1>5, <2>1, <2>2 DEF UnlockStore, Innermost
<1>6. ASSUME NEW c \in Contexts, Sti(c) PROVE FlagInv'
  BY <1>6 DEF Sti
<1>7. ASSUME NEW p \in Cpus, Interrupt(p) PROVE FlagInv'
  BY <1>7, MaxIrqAssumption DEF Interrupt, Levels
<1>8. ASSUME NEW p \in Cpus, Iret(p) PROVE FlagInv'
  <2>1. \A c \in Contexts : c[1] = p => held[c] = {} /\ pc[c] \notin Spinning
    BY <1>8, MaxIrqAssumption DEF Iret, Levels
  <2>2. ASSUME NEW c \in Contexts, c[1] = p, c[2] > depth[p] - 1 PROVE pc[c] = "idle"
    <3>0. depth[p] \in Nat /\ c[2] \in Nat
      BY MaxIrqAssumption DEF Levels
    <3>1. CASE c[2] > depth[p]
      BY <2>2, <3>1
    <3>2. CASE c[2] = depth[p]
      <4>1. c = <<p, depth[p]>>
        BY <2>2, <3>2
      <4> QED
        BY <1>8, <4>1 DEF Iret
    <3>3. c[2] > depth[p] \/ c[2] = depth[p]
      <4> HIDE ContextParts DEF TypeOK, FlagInv
      <4> QED BY <2>2, <3>0
    <3> QED
      BY <3>1, <3>2, <3>3
  <2> QED
    BY <1>8, <2>1, <2>2, MaxIrqAssumption DEF Iret, Levels
<1>9. CASE UNCHANGED vars
  BY <1>9 DEF vars
<1> QED
  BY <1>1, <1>2, <1>3, <1>4, <1>5, <1>6, <1>7, <1>8, <1>9 DEF Next, Step

\* A context that holds a lock runs with interrupts off until it has released
\* the last one: no handler ever runs on top of a critical section.
THEOREM InterruptsOffHolds ==
    ASSUME StopModes = {TRUE}
    PROVE  Spec => []InterruptsOffWhileHeld
<1>1. FlagInv => InterruptsOffWhileHeld
  BY DEF FlagInv, InterruptsOffWhileHeld
<1> QED
  BY <1>1, InitTypeWant, NextTypeWant, InitFlag, NextFlag, PTL DEF Spec

\* No context spins on a lock held by itself or by the code it interrupted,
\* so a CPU cannot deadlock with itself on a Spinlock.
THEOREM NoSelfDeadlockHolds ==
    ASSUME StopModes = {TRUE}
    PROVE  Spec => []NoSelfDeadlock
<1>1. WantInv /\ FlagInv => NoSelfDeadlock
  <2> SUFFICES ASSUME WantInv, FlagInv, NEW c \in Contexts, NEW d \in Contexts,
                      c[1] = d[1], pc[c] \in Spinning, want[c] \in held[d]
               PROVE  FALSE
    BY DEF NoSelfDeadlock
  <2>1. c = d
    BY ContextParts DEF FlagInv, Running
  <2>2. want[c] \in Locks /\ <<want[c], want[c]>> \in Order
    BY <2>1 DEF WantInv, Spinning, Locking
  <2> QED
    BY <2>2, OrderAssumption
<1> QED
  BY <1>1, InitTypeWant, NextTypeWant, InitFlag, NextFlag, PTL DEF Spec

\* Nesting levels are ordered: of two, one is not above the other.
LEMMA LevelOrder ==
    /\ \A m, n \in Nat : m # n => m < n \/ ~(m <= n)
    /\ \A m, n \in Nat : m > n /\ m # n + 1 => ~(m <= n + 1)
  OBVIOUS

\* No context has a remembered interrupt flag before it locks.
LEMMA InitEntry == Init => EntryInv
  BY ContextParts, MaxIrqAssumption DEF Init, EntryInv, EntryAt, FlagOf, Levels

\* Every step keeps what the contexts remember of the interrupt flag true.
LEMMA NextEntry ==
    ASSUME StopModes = {TRUE}
    PROVE  TypeOK /\ WantInv /\ FlagInv /\ EntryInv /\ [Next]_vars => EntryInv'
<1> SUFFICES ASSUME TypeOK, WantInv, FlagInv, EntryInv, [Next]_vars,
                    NEW d \in Contexts
             PROVE  EntryAt(d)'
  BY DEF EntryInv
<1>0. /\ \A p \in Cpus : depth[p] \in Nat
      /\ d[1] \in Cpus /\ d[2] \in Nat /\ EntryAt(d)
  BY ContextParts, MaxIrqAssumption DEF TypeOK, Levels, EntryInv
<1>a. \A c \in Contexts : Running(c) => c = d \/ d[1] # c[1] \/ d[2] # depth[c[1]]
  BY ContextParts DEF Running
<1>b. d[2] \in Nat /\ depth[d[1]] \in Nat
  BY <1>0
<1> USE <1>0 DEF TypeOK, EntryAt, FlagOf
<1>1. ASSUME NEW c \in Contexts, NEW l \in Locks, NEW s \in StopModes, ReadFlags(c, l, s)
      PROVE EntryAt(d)'
  <2>1. ~had[c]
    BY <1>1 DEF ReadFlags, At, WantInv, Locking
  <2>2. CASE c = d
    BY <1>1, <2>1, <2>2 DEF ReadFlags, At, Running
  <2>3. CASE c # d
    BY <1>1, <2>3 DEF ReadFlags
  <2> QED
    BY <2>2, <2>3
<1>2. ASSUME NEW c \in Contexts, Cli(c) PROVE EntryAt(d)'
  <2>1. CASE c = d
    BY <1>2, <2>1 DEF Cli, At, Running
  <2>2. CASE c # d
    <3>1. c[1] \in Cpus /\ c[2] = depth[c[1]] /\ (d[1] = c[1] => d[2] # depth[d[1]])
      BY <1>2, <1>a, <2>2, ContextParts DEF Cli, At, Running
    <3>2. CASE d[1] = c[1]
      <4>1. UNCHANGED depth /\ pc'[d] = pc[d] /\ UNCHANGED <<had, held, reenable, entryIF>>
        BY <1>2, <2>2 DEF Cli
      <4>2. d[2] < depth[d[1]] \/ ~(d[2] <= depth[d[1]])
        <5> HIDE <1>0 DEF TypeOK, EntryAt, FlagOf
        <5> QED BY <1>b, <3>1, <3>2, LevelOrder
      <4> QED
        BY <4>1, <4>2
    <3>3. CASE d[1] # c[1]
      BY <1>2, <2>2, <3>1, <3>3 DEF Cli
    <3> QED
      BY <3>2, <3>3
  <2> QED
    BY <2>1, <2>2
<1>3. ASSUME NEW c \in Contexts, Load(c) PROVE EntryAt(d)'
  BY <1>3 DEF Load, At
<1>4. ASSUME NEW c \in Contexts, CompareExchange(c) PROVE EntryAt(d)'
  <2>1. want[c] \in Locks /\ (had[c] => held[c] = {}) /\ pc[c] = "cas"
    BY <1>4 DEF CompareExchange, At, WantInv, Locking, FlagInv
  <2>2. want[c] \notin held[c]
    BY <2>1, OrderAssumption DEF WantInv, Locking
  <2>3. CASE locked[want[c]]
    BY <1>4, <2>1, <2>3 DEF CompareExchange
  <2>4. CASE ~locked[want[c]] /\ c = d
    <3>1. /\ held' = [held EXCEPT ![d] = @ \cup {want[d]}]
          /\ reenable' = [reenable EXCEPT ![d][want[d]] = had[d]]
          /\ pc' = [pc EXCEPT ![d] = "idle"]
          /\ had' = [had EXCEPT ![d] = FALSE]
          /\ UNCHANGED <<iflag, depth, entryIF>>
      BY <1>4, <2>4 DEF CompareExchange, Return
    <3>2. (\E l \in held'[d] : reenable'[d][l]) <=> had[d] \/ \E l \in held[d] : reenable[d][l]
      BY <2>1, <2>2, <2>4, <3>1
    <3> QED
      BY <2>1, <2>4, <3>1, <3>2
  <2>5. CASE ~locked[want[c]] /\ c # d
    BY <1>4, <2>1, <2>5 DEF CompareExchange, Return
  <2> QED
    BY <2>3, <2>4, <2>5
<1>5. ASSUME NEW c \in Contexts, NEW l \in Locks, UnlockStore(c, l) PROVE EntryAt(d)'
  <2>1. CASE c # d
    BY <1>5, <2>1 DEF UnlockStore
  <2>2. CASE c = d
    <3>1. /\ held' = [held EXCEPT ![d] = @ \ {l}]
          /\ reenable' = [reenable EXCEPT ![d][l] = FALSE]
          /\ pc' = [pc EXCEPT ![d] = IF reenable[d][l] THEN "sti" ELSE "idle"]
          /\ l \in held[d] /\ pc[d] = "idle"
          /\ UNCHANGED <<iflag, depth, had, entryIF>>
      BY <1>5, <2>2 DEF UnlockStore, At, Innermost
    <3>2. (\E m \in held[d] : reenable[d][m]) <=> reenable[d][l] \/ \E m \in held'[d] : reenable'[d][m]
      BY <3>1
    <3> QED
      BY <3>1, <3>2
  <2> QED
    BY <2>1, <2>2
<1>6. ASSUME NEW c \in Contexts, Sti(c) PROVE EntryAt(d)'
  <2>1. CASE c = d
    BY <1>6, <2>1, ContextParts DEF Sti, At, Running
  <2>2. CASE c # d
    <3>1. c[1] \in Cpus /\ c[2] = depth[c[1]] /\ (d[1] = c[1] => d[2] # depth[d[1]])
      BY <1>6, <1>a, <2>2, ContextParts DEF Sti, At, Running
    <3>2. CASE d[1] = c[1]
      <4>1. UNCHANGED depth /\ pc'[d] = pc[d] /\ UNCHANGED <<had, held, reenable, entryIF>>
        BY <1>6, <2>2 DEF Sti
      <4>2. d[2] < depth[d[1]] \/ ~(d[2] <= depth[d[1]])
        <5> HIDE <1>0 DEF TypeOK, EntryAt, FlagOf
        <5> QED BY <1>b, <3>1, <3>2, LevelOrder
      <4> QED
        BY <4>1, <4>2
    <3>3. CASE d[1] # c[1]
      BY <1>6, <2>2, <3>1, <3>3 DEF Sti
    <3> QED
      BY <3>2, <3>3
  <2> QED
    BY <2>1, <2>2
<1>7. ASSUME NEW p \in Cpus, Interrupt(p) PROVE EntryAt(d)'
  <2>1. CASE d[1] # p
    BY <1>7, <2>1, ContextParts DEF Interrupt
  <2>2. CASE d[1] = p /\ d[2] <= depth[p]
    BY <1>7, <2>2, ContextParts DEF Interrupt
  <2>3. CASE d[1] = p /\ d[2] > depth[p]
    <3>1. pc[d] = "idle" /\ held[d] = {} /\ ~had[d]
      <4>1. ~Running(d) /\ pc[d] = "idle"
        BY <2>3 DEF FlagInv, Running
      <4> QED
        BY <4>1 DEF FlagInv, WantInv, Locking
    <3>2. d = <<p, d[2]>>
      BY <2>3, ContextParts
    <3>3. <<p, depth[p] + 1>> \in Contexts
      <4>1. depth[p] + 1 \in Levels
        BY <1>7, MaxIrqAssumption DEF Interrupt, Levels
      <4> QED
        BY <4>1, ContextParts
    <3>4. depth' = [depth EXCEPT ![p] = @ + 1] /\ iflag' = [iflag EXCEPT ![p] = FALSE]
          /\ entryIF' = [entryIF EXCEPT ![<<p, depth[p] + 1>>] = FALSE]
          /\ UNCHANGED <<pc, had, held, reenable>>
      BY <1>7 DEF Interrupt
    <3>5. CASE d[2] = depth[p] + 1
      BY <2>3, <3>1, <3>2, <3>3, <3>4, <3>5
    <3>6. CASE d[2] # depth[p] + 1
      <4>1. ~(d[2] <= depth'[d[1]])
        <5>1. depth'[p] = depth[p] + 1
          BY <3>4
        <5> HIDE <1>0 DEF TypeOK, EntryAt, FlagOf
        <5> QED BY <1>b, <2>3, <3>6, <5>1, LevelOrder
      <4> QED
        BY <4>1
    <3> QED
      BY <3>5, <3>6
  <2> QED
    BY <1>7, <2>1, <2>2, <2>3
<1>8. ASSUME NEW p \in Cpus, Iret(p) PROVE EntryAt(d)'
  <2>1. CASE d[1] # p
    BY <1>8, <2>1 DEF Iret
  <2>2. CASE d[1] = p
    BY <1>8, <2>2 DEF Iret
  <2> QED
    BY <2>1, <2>2
<1>9. CASE UNCHANGED vars
  BY <1>9 DEF vars
<1> QED
  BY <1>1, <1>2, <1>3, <1>4, <1>5, <1>6, <1>7, <1>8, <1>9 DEF Next, Step

\* When a context is outside every ScopedLock its CPU's interrupt flag is the
\* one it began with.
THEOREM InterruptFlagRestoredHolds ==
    ASSUME StopModes = {TRUE}
    PROVE  Spec => []InterruptFlagRestored
<1>1. TypeOK /\ WantInv /\ EntryInv => InterruptFlagRestored
  <2> SUFFICES ASSUME TypeOK, WantInv, EntryInv, NEW c \in Contexts,
                      Running(c), pc[c] = "idle", held[c] = {}
               PROVE  iflag[c[1]] = entryIF[c]
    BY DEF InterruptFlagRestored
  <2>1. c[2] <= depth[c[1]] /\ ~(c[2] < depth[c[1]]) /\ c[1] \in Cpus
    BY ContextParts DEF Running
  <2>2. ~had[c]
    BY DEF WantInv, Locking
  <2>3. entryIF[c] <=> iflag[c[1]]
    BY <2>1, <2>2 DEF EntryInv, EntryAt, FlagOf
  <2> QED
    BY <2>1, <2>3 DEF TypeOK
<1> QED
  BY <1>1, InitTypeWant, NextTypeWant, InitFlag, NextFlag, InitEntry, NextEntry, PTL DEF Spec
(***************************************************************************)
(* The refinement: who holds a lock is AbstractLock's owner.               *)
(***************************************************************************)
OwnerInv ==
    /\ Owner = [l \in Locks |-> Owner[l]]
    /\ \A l \in Locks : (\A c \in Contexts : l \notin held[c]) => Owner[l] = <<>>
    /\ \A l \in Locks, c \in Contexts : l \in held[c] => Owner[l] = c

\* Mutual exclusion makes the holder of a lock, if any, its only owner.
LEMMA OwnerIsHolder == MutualExclusion => OwnerInv
<1> SUFFICES ASSUME MutualExclusion PROVE OwnerInv
  OBVIOUS
<1>1. \A l \in Locks, c \in Contexts, d \in Contexts :
        l \in held[c] /\ l \in held[d] => c = d
  BY DEF MutualExclusion
<1>2. ASSUME NEW l \in Locks, NEW c \in Contexts, l \in held[c] PROVE Owner[l] = c
  BY <1>1, <1>2 DEF Owner
<1> QED
  BY <1>2 DEF Owner, OwnerInv

\* Every step of the spinlock is a step of the abstract lock or leaves it alone.
LEMMA NextRefines ==
    TypeOK /\ WantInv /\ MutualExclusion /\ MutualExclusion' /\ [Next]_vars
        => [Abstract!Next]_Owner
<1> SUFFICES ASSUME TypeOK, WantInv, MutualExclusion, MutualExclusion', [Next]_vars
             PROVE  [Abstract!Next]_Owner
  OBVIOUS
<1>1. OwnerInv /\ OwnerInv'
  BY OwnerIsHolder, PTL
<1> USE <1>1 DEF OwnerInv
<1>2. ASSUME NEW c \in Contexts, CompareExchange(c), ~locked[want[c]]
      PROVE  Abstract!Next
  <2>1. want[c] \in Locks /\ \A d \in Contexts : want[c] \notin held[d]
    BY <1>2 DEF CompareExchange, At, WantInv, Locking, MutualExclusion
  <2>2. held' = [held EXCEPT ![c] = @ \cup {want[c]}]
    BY <1>2 DEF CompareExchange
  <2>3. Owner[want[c]] = <<>> /\ Owner'[want[c]] = c
    BY <2>1, <2>2 DEF TypeOK
  <2>4. \A l \in Locks : l # want[c] => Owner'[l] = Owner[l]
    BY <2>1, <2>2 DEF TypeOK
  <2>5. Owner' = [Owner EXCEPT ![want[c]] = c]
    BY <2>1, <2>3, <2>4
  <2> QED
    BY <2>1, <2>3, <2>5 DEF Abstract!Next, Abstract!Acquire
<1>3. ASSUME NEW c \in Contexts, NEW l \in Locks, UnlockStore(c, l)
      PROVE  Abstract!Next
  <2>1. l \in held[c] /\ held' = [held EXCEPT ![c] = @ \ {l}]
    BY <1>3 DEF UnlockStore, Innermost
  <2>2. \A d \in Contexts : l \notin held'[d]
    BY <2>1 DEF TypeOK, MutualExclusion
  <2>3. Owner[l] = c /\ Owner'[l] = <<>>
    BY <2>1, <2>2
  <2>4. \A m \in Locks : m # l => Owner'[m] = Owner[m]
    BY <2>1 DEF TypeOK
  <2>5. Owner' = [Owner EXCEPT ![l] = <<>>]
    BY <2>3, <2>4
  <2> QED
    BY <2>3, <2>5 DEF Abstract!Next, Abstract!Release
<1>4. CASE UNCHANGED held
  BY <1>4 DEF Owner
<1> QED
  BY <1>2, <1>3, <1>4
     DEF Next, Step, ReadFlags, Cli, Load, CompareExchange, Sti, Interrupt, Iret, vars

\* Spinlock implements AbstractLock, for any number of CPUs and interrupts.
THEOREM SpinlockImplementsAbstractLock == Spec => ImplementsAbstractLock
<1>1. Init => Abstract!Init
  BY DEF Init, Abstract!Init, Owner
<1> QED
  BY <1>1, InitTypeWant, NextTypeWant, MutualExclusionHolds, NextRefines, PTL
     DEF Spec, ImplementsAbstractLock, Abstract!Spec
=============================================================================
