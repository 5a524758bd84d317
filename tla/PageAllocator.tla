---------------------------- MODULE PageAllocator ----------------------------
(***************************************************************************)
(* What the physical memory manager promises to the kernel: each call      *)
(* takes effect at one instant; an allocation hands out the lowest run of  *)
(* free frames that is long enough and fails only if there is none; frames *)
(* given back become free when the call takes effect and not before.       *)
(***************************************************************************)
EXTENDS Integers

CONSTANTS Clients,      \* the callers (CPUs, the page-table code, drivers)
          FrameCount,   \* frames covered by the bitmaps
          Reserved,     \* frames that are never handed out
          Sizes         \* the numbers of pages that are asked for or returned

VARIABLES
    own,       \* own[c]: the frames client c may use
    request    \* request[c]: the call that has not yet taken effect

Frames == 0 .. FrameCount - 1
Run(s, k) == s .. s + k - 1            \* the k frames from s on

None == [op |-> "none", start |-> 0, count |-> 0]
AllocRequest(k) == [op |-> "alloc", start |-> 0, count |-> k]
FreeRequest(s, k) == [op |-> "free", start |-> s, count |-> k]

Returning(c) == IF request[c].op = "free"
                THEN Run(request[c].start, request[c].count) ELSE {}

FreeFrames == Frames \ (Reserved \cup UNION {own[c] \cup Returning(c) : c \in Clients})

Fits(s, k) == Run(s, k) \subseteq FreeFrames
FirstFit(k) == CHOOSE s \in Frames : Fits(s, k) /\ \A t \in Frames : Fits(t, k) => s <= t

Init == /\ own = [c \in Clients |-> {}]
        /\ request = [c \in Clients |-> None]

RequestPages(c, k) == /\ request[c] = None
                      /\ request' = [request EXCEPT ![c] = AllocRequest(k)]
                      /\ UNCHANGED own

ReturnPages(c, s, k) == /\ request[c] = None
                        /\ Run(s, k) \subseteq own[c]
                        /\ own' = [own EXCEPT ![c] = @ \ Run(s, k)]
                        /\ request' = [request EXCEPT ![c] = FreeRequest(s, k)]

Grant(c) == LET k == request[c].count IN
    /\ request[c].op = "alloc" /\ k > 0
    /\ \E s \in Frames : Fits(s, k)
    /\ own' = [own EXCEPT ![c] = @ \cup Run(FirstFit(k), k)]
    /\ request' = [request EXCEPT ![c] = None]

Refuse(c) == LET k == request[c].count IN
    /\ request[c].op = "alloc"
    /\ k = 0 \/ \A s \in Frames : ~Fits(s, k)
    /\ request' = [request EXCEPT ![c] = None]
    /\ UNCHANGED own

Reclaim(c) == /\ request[c].op = "free"
              /\ request' = [request EXCEPT ![c] = None]
              /\ UNCHANGED own

Next == \E c \in Clients :
            \/ \E k \in Sizes : RequestPages(c, k)
            \/ \E s \in Frames, k \in Sizes : ReturnPages(c, s, k)
            \/ Grant(c) \/ Refuse(c) \/ Reclaim(c)

Spec == Init /\ [][Next]_<<own, request>>
=============================================================================
