------------------------------ MODULE Spinlock ------------------------------
(***************************************************************************)
(* Threading::Spinlock and Threading::ScopedLock (Threading/Spinlock.cpp)  *)
(* on several CPUs, each of which may be preempted by interrupt handlers   *)
(* that use the same locks.                                                *)
(*                                                                         *)
(* A context <<cpu, level>> is the code a CPU runs: level 0 is its thread, *)
(* level k the handler of the k-th nested interrupt.  Only the context at  *)
(* level depth[cpu] runs.  Lock and Unlock are taken apart into the steps  *)
(* between which another CPU or an interrupt can get in: the flag read,    *)
(* the cli, the relaxed load, the compare-exchange, the store and the sti. *)
(***************************************************************************)
EXTENDS Naturals

CONSTANTS Cpus,        \* the CPUs
          Locks,       \* the Spinlock objects of the kernel
          Order,       \* <<l, m>> \in Order: some code path takes m inside l
          MaxIrq,      \* bound on the nesting of interrupt handlers
          StopModes,   \* the values callers pass as stopInterrupts
          NoLock       \* the want of a context outside Lock

ASSUME OrderAssumption ==
    /\ Order \subseteq Locks \X Locks
    /\ \A l \in Locks : <<l, l>> \notin Order
    /\ \A k, l, m \in Locks :
         <<k, l>> \in Order /\ <<l, m>> \in Order => <<k, m>> \in Order
ASSUME MaxIrqAssumption == MaxIrq \in Nat
ASSUME StopModesAssumption == StopModes \subseteq BOOLEAN
ASSUME NoLockAssumption == NoLock \notin Locks

Levels   == 0 .. MaxIrq
Contexts == Cpus \X Levels

VARIABLES
    locked,     \* locked[l]: the _locked byte of Spinlock l
    iflag,      \* iflag[p]: the interrupt flag of RFLAGS on CPU p
    depth,      \* depth[p]: how many handlers are stacked on p's thread
    pc,         \* pc[c]: the next instruction of interest of context c
    want,       \* want[c]: the lock that c's call to Lock is about
    had,        \* had[c]: stopInterrupts && hadInterruptsEnabled, its result
    held,       \* held[c]: the locks whose ScopedLock is alive in c
    reenable,   \* reenable[c][l]: _reenableInterrupts of that ScopedLock
    entryIF     \* entryIF[c]: IF when c began to run (only observed)

vars == <<locked, iflag, depth, pc, want, had, held, reenable, entryIF>>

Pcs == {"idle", "cli", "load", "cas", "sti"}
Locking == {"cli", "load", "cas"}     \* inside a call to Lock
Spinning == {"load", "cas"}           \* in its loop

\* Type invariant: _locked, the CPUs' interrupt flags and nesting, and the
\* local variables of every context inside Lock or Unlock.
TypeOK ==
    /\ locked \in [Locks -> BOOLEAN]
    /\ iflag \in [Cpus -> BOOLEAN]
    /\ depth \in [Cpus -> Levels]
    /\ pc \in [Contexts -> Pcs]
    /\ want \in [Contexts -> Locks \cup {NoLock}]
    /\ had \in [Contexts -> BOOLEAN]
    /\ held \in [Contexts -> SUBSET Locks]
    /\ reenable \in [Contexts -> [Locks -> BOOLEAN]]
    /\ entryIF \in [Contexts -> BOOLEAN]

Init ==
    /\ locked = [l \in Locks |-> FALSE]
    /\ iflag \in [Cpus -> BOOLEAN]        \* before or after the sti of the IDT
    /\ depth = [p \in Cpus |-> 0]
    /\ pc = [c \in Contexts |-> "idle"]
    /\ want = [c \in Contexts |-> NoLock]
    /\ had = [c \in Contexts |-> FALSE]
    /\ held = [c \in Contexts |-> {}]
    /\ reenable = [c \in Contexts |-> [l \in Locks |-> FALSE]]
    /\ entryIF = [c \in Contexts |-> c[2] = 0 /\ iflag[c[1]]]

Running(c) == c[2] = depth[c[1]]

At(c, label) == Running(c) /\ pc[c] = label

(***************************************************************************)
(* Spinlock::Lock(stopInterrupts).  ScopedLocks nest, so a context takes a *)
(* lock only if the code does so inside every lock it already holds.       *)
(***************************************************************************)
\* Mutant: the flag is read after the cli, and so never remembered as set.
FlagsReadAfterCli(c, l, s) ==
    /\ At(c, "idle")
    /\ \A h \in held[c] : <<h, l>> \in Order
    /\ want' = [want EXCEPT ![c] = l]
    /\ had' = [had EXCEPT ![c] = FALSE]
    /\ pc' = [pc EXCEPT ![c] = IF s THEN "cli" ELSE "load"]
    /\ UNCHANGED <<locked, iflag, depth, held, reenable, entryIF>>

ReadFlags(c, l, s) ==                      \* AreInterruptsEnabled
    /\ At(c, "idle")
    /\ \A h \in held[c] : <<h, l>> \in Order
    /\ want' = [want EXCEPT ![c] = l]
    /\ had' = [had EXCEPT ![c] = s /\ iflag[c[1]]]
    /\ pc' = [pc EXCEPT ![c] = IF s THEN "cli" ELSE "load"]
    /\ UNCHANGED <<locked, iflag, depth, held, reenable, entryIF>>

NoCli(c) ==                                \* Mutant: the cli is left out
    /\ At(c, "cli")
    /\ pc' = [pc EXCEPT ![c] = "load"]
    /\ UNCHANGED <<locked, iflag, depth, want, had, held, reenable, entryIF>>

Cli(c) ==
    /\ At(c, "cli")
    /\ iflag' = [iflag EXCEPT ![c[1]] = FALSE]
    /\ pc' = [pc EXCEPT ![c] = "load"]
    /\ UNCHANGED <<locked, depth, want, had, held, reenable, entryIF>>

\* The relaxed load that reads false; reading true only pauses.
Load(c) ==
    /\ At(c, "load")
    /\ ~locked[want[c]]
    /\ pc' = [pc EXCEPT ![c] = "cas"]
    /\ UNCHANGED <<locked, iflag, depth, want, had, held, reenable, entryIF>>

Return(c) == /\ want' = [want EXCEPT ![c] = NoLock]
             /\ had' = [had EXCEPT ![c] = FALSE]

\* Mutant: no compare-exchange, _locked is stored whatever it has become.
StoreWithoutCompare(c) ==
    /\ At(c, "cas")
    /\ locked' = [locked EXCEPT ![want[c]] = TRUE]
    /\ held' = [held EXCEPT ![c] = @ \cup {want[c]}]
    /\ reenable' = [reenable EXCEPT ![c][want[c]] = had[c]]
    /\ pc' = [pc EXCEPT ![c] = "idle"]
    /\ Return(c)
    /\ UNCHANGED <<iflag, depth, entryIF>>

CompareExchange(c) ==
    /\ At(c, "cas")
    /\ \/ /\ ~locked[want[c]]
          /\ locked' = [locked EXCEPT ![want[c]] = TRUE]
          /\ held' = [held EXCEPT ![c] = @ \cup {want[c]}]
          /\ reenable' = [reenable EXCEPT ![c][want[c]] = had[c]]
          /\ pc' = [pc EXCEPT ![c] = "idle"]
          /\ Return(c)
       \/ /\ locked[want[c]]
          /\ pc' = [pc EXCEPT ![c] = "load"]
          /\ UNCHANGED <<locked, want, had, held, reenable>>
    /\ UNCHANGED <<iflag, depth, entryIF>>

(***************************************************************************)
(* ~ScopedLock: Unlock(_reenableInterrupts).  The scopes end inside out.   *)
(***************************************************************************)
Innermost(c, l) == l \in held[c] /\ \A m \in held[c] : <<l, m>> \notin Order

UnlockStore(c, l) ==
    /\ At(c, "idle")
    /\ Innermost(c, l)
    /\ locked' = [locked EXCEPT ![l] = FALSE]
    /\ held' = [held EXCEPT ![c] = @ \ {l}]
    /\ pc' = [pc EXCEPT ![c] = IF reenable[c][l] THEN "sti" ELSE "idle"]
    /\ reenable' = [reenable EXCEPT ![c][l] = FALSE]
    /\ UNCHANGED <<iflag, depth, want, had, entryIF>>

Sti(c) ==
    /\ At(c, "sti")
    /\ iflag' = [iflag EXCEPT ![c[1]] = TRUE]
    /\ pc' = [pc EXCEPT ![c] = "idle"]
    /\ UNCHANGED <<locked, depth, want, had, held, reenable, entryIF>>

(***************************************************************************)
(* An IRQ: its gate (type 0x8E) clears IF, the stub's iretq restores it.   *)
(***************************************************************************)
Interrupt(p) ==
    /\ iflag[p] /\ depth[p] < MaxIrq
    /\ depth' = [depth EXCEPT ![p] = @ + 1]
    /\ iflag' = [iflag EXCEPT ![p] = FALSE]
    /\ entryIF' = [entryIF EXCEPT ![<<p, depth[p] + 1>>] = FALSE]
    /\ UNCHANGED <<locked, pc, want, had, held, reenable>>

Iret(p) ==
    /\ depth[p] > 0
    /\ pc[<<p, depth[p]>>] = "idle" /\ held[<<p, depth[p]>>] = {}
    /\ depth' = [depth EXCEPT ![p] = @ - 1]
    /\ iflag' = [iflag EXCEPT ![p] = TRUE]
    /\ UNCHANGED <<locked, pc, want, had, held, reenable, entryIF>>

Step(c) ==
    \/ \E l \in Locks, s \in StopModes : ReadFlags(c, l, s)
    \/ Cli(c)
    \/ Load(c)
    \/ CompareExchange(c)
    \/ \E l \in Locks : UnlockStore(c, l)
    \/ Sti(c)

Next == \/ \E c \in Contexts : Step(c)
        \/ \E p \in Cpus : Interrupt(p) \/ Iret(p)

Spec == Init /\ [][Next]_vars

(***************************************************************************)
(* A critical section ends, and a CPU goes on executing instructions.      *)
(***************************************************************************)
Fairness ==
    /\ \A c \in Contexts :
         WF_vars(Cli(c) \/ Load(c) \/ CompareExchange(c) \/ Sti(c))
    /\ \A c \in Contexts : WF_vars(\E l \in Locks : UnlockStore(c, l))

FairSpec == Spec /\ Fairness

(***************************************************************************)
(* Properties.                                                             *)
(***************************************************************************)

\* A lock has one holder at most, and _locked is set exactly while it has
\* one (Lock "waits until _locked is available (false)", Spinlock.h:12).
MutualExclusion ==
    /\ \A c, d \in Contexts : c # d => held[c] \cap held[d] = {}
    /\ \A l \in Locks : locked[l] <=> \E c \in Contexts : l \in held[c]

\* While a context holds a lock that it took with stopInterrupts, its CPU
\* takes no interrupt: no handler can run between two of its steps.
InterruptsOffWhileHeld ==
    \A c \in Contexts : held[c] # {} => ~iflag[c[1]] /\ Running(c)

\* No context spins on a lock that a context of its own CPU holds: that
\* holder cannot run before the spinning one is done.
NoSelfDeadlock ==
    \A c, d \in Contexts :
        /\ c[1] = d[1]
        /\ pc[c] \in Spinning
        => want[c] \notin held[d]

\* Outside every ScopedLock the interrupt flag is what it was before the
\* first of them: a nest of scopes gives the flag back, neither an inner
\* Unlock too early nor the outer one never.
InterruptFlagRestored ==
    \A c \in Contexts :
        Running(c) /\ pc[c] = "idle" /\ held[c] = {} => iflag[c[1]] = entryIF[c]

(***************************************************************************)
(* The inductive strengthening behind these invariants (SpinlockProofs).   *)
(***************************************************************************)

\* A context inside Lock wants a lock that comes after all it holds.
WantInv == \A c \in Contexts :
    /\ pc[c] \in Locking => /\ want[c] \in Locks
                            /\ \A h \in held[c] : <<h, want[c]>> \in Order
    /\ pc[c] \notin Locking => ~had[c]

\* Where stopInterrupts is always passed: whoever holds or spins has its CPU
\* for itself, and the flag is given back by the outermost scope only.
FlagInv == \A c \in Contexts :
    /\ held[c] # {} \/ pc[c] \in Spinning => ~iflag[c[1]] /\ Running(c)
    /\ pc[c] = "sti" \/ had[c] => held[c] = {}
    /\ \A l, m \in held[c] : reenable[c][l] /\ l # m => <<l, m>> \in Order
    /\ c[2] > depth[c[1]] => pc[c] = "idle"

\* The flag of a context, as it will find it when it runs again.
FlagOf(c) == c[2] < depth[c[1]] \/ iflag[c[1]]

\* The flag that a context began with is either still set or remembered: in
\* a local of Lock, in one of its ScopedLocks, or by the sti to come.
EntryAt(c) == c[2] <= depth[c[1]] =>
    /\ entryIF[c] <=> \/ FlagOf(c) \/ had[c] \/ pc[c] = "sti"
                      \/ \E l \in held[c] : reenable[c][l]
    /\ pc[c] = "cli" => had[c] = FlagOf(c)

EntryInv == \A c \in Contexts : EntryAt(c)

\* The holder of each lock, as module AbstractLock sees it.
Owner == [l \in Locks |->
            IF \E c \in Contexts : l \in held[c]
            THEN CHOOSE c \in Contexts : l \in held[c]
            ELSE <<>>]

Abstract == INSTANCE AbstractLock WITH owner <- Owner, Nobody <- <<>>

\* Every step of Lock and Unlock is an Acquire, a Release or invisible to
\* the owners of the locks.
ImplementsAbstractLock == Abstract!Spec

\* A lock inside which no other lock is taken is released again, whatever
\* interrupts arrive and however many CPUs wait for it.
LeafLockReleased ==
    \A l \in Locks :
        (\A m \in Locks : <<l, m>> \notin Order) => (locked[l] ~> ~locked[l])
=============================================================================
