---------------------------- MODULE AbstractLock ----------------------------
(***************************************************************************)
(* What a kernel lock promises to its callers: at any time a lock has at   *)
(* most one owner, only a free lock is acquired and only its owner gives   *)
(* it back.  Threading::Spinlock (module Spinlock) implements this.        *)
(***************************************************************************)
CONSTANTS Locks,      \* the locks of the kernel
          Contexts,   \* whoever may own one: a thread or an interrupt handler
          Nobody      \* the owner of a free lock

VARIABLE owner        \* owner[l]: the context that is inside l's section

Init == owner = [l \in Locks |-> Nobody]

Acquire(c, l) == /\ owner[l] = Nobody
                 /\ owner' = [owner EXCEPT ![l] = c]

Release(c, l) == /\ owner[l] = c
                 /\ owner' = [owner EXCEPT ![l] = Nobody]

Next == \E c \in Contexts, l \in Locks : Acquire(c, l) \/ Release(c, l)

Spec == Init /\ [][Next]_owner
=============================================================================
