---------------------------- MODULE AddressSpace ----------------------------
(***************************************************************************)
(* What Memory::Paging promises: an address space is a partial function    *)
(* from virtual to physical pages.  A call to MapPage, UnmapPage or        *)
(* GetPhysicalAddress takes effect at one instant, for its own page only.  *)
(* MapPage never replaces a mapping and is refused only for a page that is *)
(* mapped or while the allocator has no frame to spare, UnmapPage only for *)
(* one that is not mapped; a call that is refused changes nothing.         *)
(* Nothing is promised of the pages that another kind of mapping covers.   *)
(***************************************************************************)
CONSTANTS Cpus, States, VAddrs, PhysPages, Unmapped, Foreign, NoAnswer

VARIABLES mapping,      \* mapping[s][v]: a physical page, Unmapped or Foreign
          request,      \* request[c]: c's call that has not yet taken effect
          answer,       \* answer[c]: the result of its lookup
          spare         \* whether the allocator has a frame left

NoRequest == [op |-> "none"]
MapRequest(s, v, p) == [op |-> "map", state |-> s, va |-> v, pa |-> p]
UnmapRequest(s, v) == [op |-> "unmap", state |-> s, va |-> v]
GetRequest(s, v) == [op |-> "get", state |-> s, va |-> v]

Init == /\ mapping \in [States -> [VAddrs -> PhysPages \cup {Unmapped, Foreign}]]
        /\ request = [c \in Cpus |-> NoRequest]
        /\ answer = [c \in Cpus |-> NoAnswer]
        /\ spare \in BOOLEAN

Ask(c, s, v) ==
    /\ request[c] = NoRequest /\ answer[c] = NoAnswer
    /\ \/ request' = [request EXCEPT ![c] = UnmapRequest(s, v)]
       \/ request' = [request EXCEPT ![c] = GetRequest(s, v)]
       \/ \E p \in PhysPages : request' = [request EXCEPT ![c] = MapRequest(s, v, p)]
    /\ UNCHANGED <<mapping, answer, spare>>

Target(c) == mapping[request[c].state][request[c].va]

Map(c) == /\ request[c].op = "map" /\ Target(c) = Unmapped
          /\ mapping' = [mapping EXCEPT ![request[c].state][request[c].va] = request[c].pa]
          /\ request' = [request EXCEPT ![c] = NoRequest]
          /\ UNCHANGED <<answer, spare>>

Unmap(c) == /\ request[c].op = "unmap" /\ Target(c) \in PhysPages
            /\ mapping' = [mapping EXCEPT ![request[c].state][request[c].va] = Unmapped]
            /\ request' = [request EXCEPT ![c] = NoRequest]
            /\ UNCHANGED <<answer, spare>>

Get(c) == /\ request[c].op = "get" /\ Target(c) # Foreign
          /\ answer' = [answer EXCEPT ![c] = Target(c)]
          /\ request' = [request EXCEPT ![c] = NoRequest]
          /\ UNCHANGED <<mapping, spare>>

Forget(c) == /\ answer[c] # NoAnswer
             /\ answer' = [answer EXCEPT ![c] = NoAnswer]
             /\ UNCHANGED <<mapping, request, spare>>

\* PANIC: already mapped, no memory for a table, or nothing to unmap.
Refuse(c) == /\ \/ request[c].op = "map" /\ (Target(c) \in PhysPages \/ ~spare)
                \/ request[c].op = "unmap" /\ Target(c) = Unmapped
             /\ request' = [request EXCEPT ![c] = NoRequest]
             /\ UNCHANGED <<mapping, answer, spare>>

\* The allocator runs out of frames or gets some back.
Turnover == spare' = ~spare /\ UNCHANGED <<mapping, request, answer>>

Next == \/ Turnover
        \/ \E c \in Cpus : \/ Map(c) \/ Unmap(c) \/ Get(c) \/ Refuse(c) \/ Forget(c)
                           \/ \E s \in States, v \in VAddrs : Ask(c, s, v)

Spec == Init /\ [][Next]_<<mapping, request, answer, spare>>
=============================================================================
