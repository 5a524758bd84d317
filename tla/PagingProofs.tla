---------------------------- MODULE PagingProofs ----------------------------
(***************************************************************************)
(* The page tables stay trees, private to their address spaces, in which   *)
(* only the tables of Initialize have entries that lead nowhere, and no    *)
(* frame is lost or wasted, for any tables at the start, any number of     *)
(* CPUs, address spaces, frames and pages and any size of the tables.      *)
(*                                                                         *)
(* Trees are reasoned about apart from the calls: links[f][i] is what      *)
(* entry i of frame f leads to, lvl[f] the level at which f is a table (1  *)
(* for a PML4, 4 for a PT, 0 for none) and own[f] the address space that   *)
(* it belongs to.  A call changes the trees by one link at a time.         *)
(***************************************************************************)
EXTENDS Paging, WellFoundedInduction, TLAPS

Waiting == {"map_lock", "unmap_lock", "get_lock"}
Walking == {"map_walk", "map_clear", "map_link", "unmap_walk", "prune", "unlink", "get_walk"}
Section == Walking \cup {"unlock", "panic"}
Places == {"idle", "halted"} \cup Waiting \cup Section
Mapping == {"map_lock", "map_walk", "map_clear", "map_link"}

(***************************************************************************)
(* Walks in trees.                                                         *)
(***************************************************************************)
\* The first n tables of p lead from the PML4 of s towards page v.
Leads(links, lvl, own, p, n, s, v) ==
    /\ n \in 1 .. 4 /\ n <= Len(p) /\ p[1] = Pml4[s]
    /\ \A k \in 1 .. n : lvl[p[k]] = k /\ own[p[k]] = s
    /\ \A k \in 1 .. n - 1 : links[p[k]][v[k]] = p[k + 1]

(***************************************************************************)
(* The inductive invariant.                                                *)
(***************************************************************************)
Links == [f \in Frames |-> [i \in Index |-> Link(f, i)]]
News == {new[c] : c \in {d \in Cpus : new[d] # Nobody}}
Found(c) == IF pc[c] = "unlink" THEN Len(path[c]) - 1 ELSE Len(path[c])

TypeInv ==
    /\ lock \in [States -> Cpus \cup {Nobody}]
    /\ free \subseteq Frames
    /\ mem \in [Frames -> [Index -> Values]]
    /\ pc \in [Cpus -> Places]
    /\ DOMAIN call = Cpus
    /\ \A c \in Cpus : /\ pc[c] \notin {"idle", "halted"} =>
                            call[c].state \in States /\ call[c].va \in VAddrs
                       /\ pc[c] \in Mapping => call[c].pa \in PhysPages
    /\ path \in [Cpus -> Seq(Frames)]
    /\ new \in [Cpus -> Frames \cup {Nobody}]
    /\ DOMAIN answer = Cpus

\* Who is in the section of a state has its lock, and nobody else has.
LockInv ==
    \A c \in Cpus : /\ pc[c] \in Section => lock[call[c].state] = c
                    /\ \A s \in States : lock[s] = c => pc[c] \in Section /\ call[c].state = s

\* The frame that is to become a table is nobody else's, and is cleared
\* before it is linked.
NewOk(c) ==
    /\ new[c] # Nobody <=> pc[c] \in {"map_clear", "map_link"}
    /\ new[c] \notin free
    /\ \A d \in Cpus : new[c] = new[d] /\ new[c] # Nobody => c = d
    /\ pc[c] = "map_link" => mem[new[c]] = Empty

\* The entry that is about to be cleared is the only one that Links shows
\* otherwise than memory.
UnlinkOk(c) ==
    pc[c] = "unlink" =>
        /\ Len(path[c]) \in 2 .. 4
        /\ mem[path[c][Len(path[c]) - 1]][call[c].va[Len(path[c]) - 1]] \in Frames

\* The entry that was found absent stays so until the new table is linked.
HoleOk(c) == pc[c] \in {"map_clear", "map_link"} => Len(path[c]) # 4 /\ Entry(c) = Absent

\* An empty table is one that the holder of the lock is about to fill or to
\* free, or it halted before it could.
Excused(f, s) ==
    LET c == lock[s]
    IN /\ c # Nobody
       /\ \/ pc[c] = "panic"
          \/ pc[c] \in {"map_walk", "map_clear", "map_link", "prune"} /\ f = Top(c)
          \/ pc[c] = "map_walk" /\ f = Entry(c)

Kept(f, s) == EmptyAtBoot(f) \/ \E i \in KernelIndex : f = Boot[Pml4[s]][i]

EmptyOk(lvl, own, f) ==
    lvl[f] > 1 /\ IsTableEmpty(f) /\ ~Kept(f, own[f]) => Excused(f, own[f])

WalkOk(links, lvl, own, c) ==
    pc[c] \in Walking => Leads(links, lvl, own, path[c], Found(c), call[c].state, call[c].va)

CallInv == TypeInv /\ LockInv /\ \A c \in Cpus : NewOk(c) /\ UnlinkOk(c) /\ HoleOk(c)

TreesInv(lvl, own) ==
    /\ Tree(Links, lvl, own, free \cup News)
    /\ \A c \in Cpus : WalkOk(Links, lvl, own, c)
    /\ \A f \in Frames : EmptyOk(lvl, own, f)

IInv == CallInv /\ \E lvl \in [Frames -> 0 .. 4], own \in [Frames -> States] : TreesInv(lvl, own)

(***************************************************************************)
(* How a tree changes.                                                     *)
(***************************************************************************)
LEMMA Constants ==
    /\ Absent \notin Frames /\ Absent \notin PhysPages
    /\ \A f \in Frames : f \notin Wild /\ f # Absent
    /\ \A p \in PhysPages : p \notin Wild /\ p # Absent
    /\ Absent \notin Wild /\ Junk \in Wild /\ Stale \in Wild /\ Junk # Stale
    /\ \A x \in Wild : x = Junk \/ x = Stale
    /\ Nobody \notin Frames /\ Nobody \notin Cpus
    /\ \A s \in States : Pml4[s] \in Frames /\ \A i \in KernelIndex : Boot[Pml4[s]][i] \in Frames
    /\ \A i \in KernelIndex : i \in Index
    /\ \A f \in Frames : f \in Nat
    /\ \A v \in VAddrs : v[1] \in Index /\ v[2] \in Index /\ v[3] \in Index /\ v[4] \in Index
  BY PagingAssumption, BootAssumption DEF Wild

\* Entry i of table g is set to x.
LEMMA OneEntry ==
    ASSUME NEW links \in [Frames -> [Index -> Values]], NEW g \in Frames, NEW i \in Index,
           NEW x \in Values
    PROVE  /\ [links EXCEPT ![g][i] = x] \in [Frames -> [Index -> Values]]
           /\ \A f \in Frames, j \in Index :
                [links EXCEPT ![g][i] = x][f][j] = IF f = g /\ j = i THEN x ELSE links[f][j]
  OBVIOUS

\* A cleared frame is linked into a directory.
LEMMA TreeAdd ==
    ASSUME NEW links, NEW lvl, NEW own, NEW unused, Tree(links, lvl, own, unused),
           NEW g \in Frames, NEW i \in Index, Dir(lvl, g), links[g][i] = Absent,
           NEW n \in Frames, n \in unused, \A j \in Index : links[n][j] = Absent
    PROVE  Tree([links EXCEPT ![g][i] = n], [lvl EXCEPT ![n] = lvl[g] + 1],
                [own EXCEPT ![n] = own[g]], unused \ {n})
<1> DEFINE links2 == [links EXCEPT ![g][i] = n]
           lvl2 == [lvl EXCEPT ![n] = lvl[g] + 1]
           own2 == [own EXCEPT ![n] = own[g]]
<1>1. /\ links \in [Frames -> [Index -> Values]]
      /\ lvl \in [Frames -> 0 .. 4] /\ own \in [Frames -> States]
      /\ lvl[g] \in 1 .. 3 /\ lvl[n] = 0 /\ n # g
    BY DEF Tree, Values, Dir
<1>2. /\ links2 \in [Frames -> [Index -> Values]]
      /\ \A f \in Frames, j \in Index : links2[f][j] = IF f = g /\ j = i THEN n ELSE links[f][j]
    BY <1>1, OneEntry DEF Values
<1>3. /\ lvl2 \in [Frames -> 0 .. 4] /\ own2 \in [Frames -> States]
      /\ \A f \in Frames : lvl2[f] = (IF f = n THEN lvl[g] + 1 ELSE lvl[f])
      /\ \A f \in Frames : own2[f] = (IF f = n THEN own[g] ELSE own[f])
    BY <1>1
<1> HIDE DEF links2, lvl2, own2
<1> USE Constants
<1>4. \A f \in Frames : lvl2[f] = 0 <=> f \in unused \ {n} BY <1>1, <1>3 DEF Tree
<1>5. \A s \in States : lvl2[Pml4[s]] = 1 /\ own2[Pml4[s]] = s BY <1>1, <1>3 DEF Tree
<1>6. \A f \in Frames : lvl2[f] = 1 => f = Pml4[own2[f]] BY <1>1, <1>3 DEF Tree
<1>7. \A f \in Frames, j \in Index : links[f][j] = n => ~Dir(lvl, f)
    BY <1>1 DEF Tree, Dir
<1>8. ASSUME NEW f \in Frames, NEW j \in Index
      PROVE  /\ Dir(lvl2, f) /\ links2[f][j] \in Wild =>
                  Level[f] # 0 /\ links2[f][j] = Boot[f][j]
             /\ Dir(lvl2, f) /\ links2[f][j] \notin Wild \cup {Absent} =>
                  /\ links2[f][j] \in Frames /\ lvl2[links2[f][j]] = lvl2[f] + 1
                  /\ own2[links2[f][j]] = own2[f]
             /\ lvl2[f] = 4 => links2[f][j] \in PhysPages \cup {Absent}
  <2>1. CASE f = n BY <2>1, <1>1, <1>2
  <2>2. CASE f = g /\ j = i BY <2>2, <1>1, <1>2, <1>3
  <2>3. CASE f # n /\ ~(f = g /\ j = i)
    <3>1. links2[f][j] = links[f][j] /\ lvl2[f] = lvl[f] /\ own2[f] = own[f]
        BY <2>3, <1>2, <1>3
    <3>2. lvl[f] = 4 => links[f][j] \in PhysPages \cup {Absent} BY DEF Tree
    <3>3. /\ Dir(lvl, f) /\ links[f][j] \notin Wild \cup {Absent} =>
             links[f][j] \in Frames /\ lvl[links[f][j]] = lvl[f] + 1 /\ own[links[f][j]] = own[f]
          /\ Dir(lvl, f) /\ links[f][j] \in Wild => Level[f] # 0 /\ links[f][j] = Boot[f][j]
        BY DEF Tree
    <3>4. Dir(lvl2, f) => Dir(lvl, f) BY <3>1 DEF Dir
    <3> QED BY <3>1, <3>2, <3>3, <3>4, <1>3, <1>7
  <2> QED BY <2>1, <2>2, <2>3
<1>9. ASSUME NEW f \in Frames, lvl2[f] > 1
      PROVE  \E h \in Frames, j \in Index : lvl2[h] = lvl2[f] - 1 /\ links2[h][j] = f
  <2>1. CASE f = n BY <2>1, <1>1, <1>2, <1>3
  <2>2. CASE f # n
    <3>1. lvl[f] > 1 /\ lvl2[f] = lvl[f] BY <2>2, <1>3, <1>9
    <3>2. PICK h \in Frames, j \in Index : lvl[h] = lvl[f] - 1 /\ links[h][j] = f
        BY <3>1 DEF Tree
    <3>3. h # n /\ ~(h = g /\ j = i) BY <1>1, <3>1, <3>2
    <3> QED BY <1>2, <1>3, <3>1, <3>2, <3>3
  <2> QED BY <2>1, <2>2
<1>10. ASSUME NEW f \in Frames, NEW h \in Frames, NEW j \in Index, NEW k \in Index,
              Dir(lvl2, f), Dir(lvl2, h), links2[f][j] \in Frames, links2[f][j] = links2[h][k]
       PROVE  f = h /\ j = k
  <2>1. f # n /\ h # n BY <1>1, <1>2, <1>10
  <2>2. Dir(lvl, f) /\ Dir(lvl, h) BY <1>3, <1>10, <2>1 DEF Dir
  <2>3. CASE f = g /\ j = i BY <1>2, <1>7, <1>10, <2>2, <2>3
  <2>4. CASE h = g /\ k = i BY <1>2, <1>7, <1>10, <2>2, <2>4
  <2>5. CASE ~(f = g /\ j = i) /\ ~(h = g /\ k = i)
    <3>1. links[f][j] \in Frames /\ links[f][j] = links[h][k] BY <1>2, <1>10, <2>5
    <3> QED BY <2>2, <3>1 DEF Tree
  <2> QED BY <2>3, <2>4, <2>5
<1>11. ASSUME NEW s \in States, NEW j \in KernelIndex
       PROVE  links2[Pml4[s]][j] = Boot[Pml4[s]][j]
  <2>1. links[Pml4[s]][j] = Boot[Pml4[s]][j] BY DEF Tree
  <2>2. Pml4[s] \in Frames /\ j \in Index /\ Boot[Pml4[s]][j] # Absent OBVIOUS
  <2> QED BY <1>2, <2>1, <2>2
<1>12. Tree(links2, lvl2, own2, unused \ {n})
    BY <1>2, <1>3, <1>4, <1>5, <1>6, <1>8, <1>9, <1>10, <1>11 DEF Tree, Values
<1> QED BY <1>12 DEF links2, lvl2, own2

\* A table that leads to no other is taken out of its parent.
LEMMA TreeRemove ==
    ASSUME NEW links, NEW lvl, NEW own, NEW unused, Tree(links, lvl, own, unused),
           NEW g \in Frames, NEW i \in Index, Dir(lvl, g), NEW n \in Frames, links[g][i] = n,
           \A j \in Index : links[n][j] \notin Frames,
           \A s \in States, j \in KernelIndex : ~(g = Pml4[s] /\ i = j)
    PROVE  Tree([links EXCEPT ![g][i] = Absent], [lvl EXCEPT ![n] = 0], own, unused \cup {n})
<1> DEFINE links2 == [links EXCEPT ![g][i] = Absent]
           lvl2 == [lvl EXCEPT ![n] = 0]
<1> USE Constants
<1>1. /\ links \in [Frames -> [Index -> Values]]
      /\ lvl \in [Frames -> 0 .. 4] /\ own \in [Frames -> States]
      /\ lvl[g] \in 1 .. 3 /\ lvl[n] = lvl[g] + 1
    BY DEF Tree, Values, Dir
<1>2. /\ links2 \in [Frames -> [Index -> Values]]
      /\ \A f \in Frames, j \in Index :
           links2[f][j] = IF f = g /\ j = i THEN Absent ELSE links[f][j]
    BY <1>1, OneEntry DEF Values
<1>3. /\ lvl2 \in [Frames -> 0 .. 4]
      /\ \A f \in Frames : lvl2[f] = (IF f = n THEN 0 ELSE lvl[f])
    BY <1>1
<1> HIDE DEF links2, lvl2
<1>4. \A f \in Frames : lvl2[f] = 0 <=> f \in unused \cup {n} BY <1>1, <1>3 DEF Tree
<1>5. \A s \in States : lvl2[Pml4[s]] = 1 /\ own[Pml4[s]] = s BY <1>1, <1>3 DEF Tree
<1>6. \A f \in Frames : lvl2[f] = 1 => f = Pml4[own[f]] BY <1>1, <1>3 DEF Tree
<1>7. \A f \in Frames, j \in Index : links2[f][j] = n => ~Dir(lvl, f)
    BY <1>1, <1>2 DEF Tree
<1>8. ASSUME NEW f \in Frames, NEW j \in Index
      PROVE  /\ Dir(lvl2, f) /\ links2[f][j] \in Wild =>
                  Level[f] # 0 /\ links2[f][j] = Boot[f][j]
             /\ Dir(lvl2, f) /\ links2[f][j] \notin Wild \cup {Absent} =>
                  /\ links2[f][j] \in Frames /\ lvl2[links2[f][j]] = lvl2[f] + 1
                  /\ own[links2[f][j]] = own[f]
             /\ lvl2[f] = 4 => links2[f][j] \in PhysPages \cup {Absent}
  <2>1. CASE f = n BY <2>1, <1>3 DEF Dir
  <2>2. CASE f = g /\ j = i BY <2>2, <1>2
  <2>3. CASE f # n /\ ~(f = g /\ j = i)
    <3>1. links2[f][j] = links[f][j] /\ lvl2[f] = lvl[f] BY <2>3, <1>2, <1>3
    <3>2. lvl[f] = 4 => links[f][j] \in PhysPages \cup {Absent} BY DEF Tree
    <3>3. /\ Dir(lvl, f) /\ links[f][j] \notin Wild \cup {Absent} =>
             links[f][j] \in Frames /\ lvl[links[f][j]] = lvl[f] + 1 /\ own[links[f][j]] = own[f]
          /\ Dir(lvl, f) /\ links[f][j] \in Wild => Level[f] # 0 /\ links[f][j] = Boot[f][j]
        BY DEF Tree
    <3>4. Dir(lvl2, f) => Dir(lvl, f) BY <3>1 DEF Dir
    <3> QED BY <3>1, <3>2, <3>3, <3>4, <1>3, <1>7
  <2> QED BY <2>1, <2>2, <2>3
<1>9. ASSUME NEW f \in Frames, lvl2[f] > 1
      PROVE  \E h \in Frames, j \in Index : lvl2[h] = lvl2[f] - 1 /\ links2[h][j] = f
  <2>1. f # n /\ lvl[f] > 1 /\ lvl2[f] = lvl[f] BY <1>3, <1>9
  <2>2. PICK h \in Frames, j \in Index : lvl[h] = lvl[f] - 1 /\ links[h][j] = f
      BY <2>1 DEF Tree
  <2>3. h # n /\ ~(h = g /\ j = i) BY <2>1, <2>2
  <2> QED BY <1>2, <1>3, <2>1, <2>2, <2>3
<1>10. ASSUME NEW f \in Frames, NEW h \in Frames, NEW j \in Index, NEW k \in Index,
              Dir(lvl2, f), Dir(lvl2, h), links2[f][j] \in Frames, links2[f][j] = links2[h][k]
       PROVE  f = h /\ j = k
  <2>1. Dir(lvl, f) /\ Dir(lvl, h) BY <1>3, <1>10 DEF Dir
  <2>2. links[f][j] \in Frames /\ links[f][j] = links[h][k] BY <1>2, <1>10
  <2> QED BY <2>1, <2>2 DEF Tree
<1>11. \A s \in States, j \in KernelIndex : links2[Pml4[s]][j] = Boot[Pml4[s]][j]
    BY <1>2 DEF Tree
<1>12. Tree(links2, lvl2, own, unused \cup {n})
    BY <1>1, <1>2, <1>3, <1>4, <1>5, <1>6, <1>8, <1>9, <1>10, <1>11 DEF Tree, Values
<1> QED BY <1>12 DEF links2, lvl2

\* A page is mapped or unmapped in a table of the last level, or a frame that
\* is no table is written.
LEMMA TreeLeaf ==
    ASSUME NEW links, NEW lvl, NEW own, NEW unused, Tree(links, lvl, own, unused),
           NEW links2 \in [Frames -> [Index -> Values]],
           \A f \in Frames : Dir(lvl, f) => links2[f] = links[f],
           \A f \in Frames, j \in Index : lvl[f] = 4 => links2[f][j] \in PhysPages \cup {Absent}
    PROVE  Tree(links2, lvl, own, unused)
<1> USE Constants
<1>1. \A f \in Frames : lvl[f] = 1 => Dir(lvl, f) BY DEF Tree, Dir
<1>2. \A f \in Frames : lvl[f] > 1 => lvl[f] - 1 \in 1 .. 3
  <2>1. \A f \in Frames : lvl[f] \in 0 .. 4 BY DEF Tree
  <2> QED BY <2>1
<1>3. \A f \in Frames : lvl[f] > 1 =>
         \E g \in Frames, i \in Index : lvl[g] = lvl[f] - 1 /\ links2[g][i] = f
  <2> SUFFICES ASSUME NEW f \in Frames, lvl[f] > 1
               PROVE  \E g \in Frames, i \in Index : lvl[g] = lvl[f] - 1 /\ links2[g][i] = f
      OBVIOUS
  <2>1. PICK g \in Frames, i \in Index : lvl[g] = lvl[f] - 1 /\ links[g][i] = f BY DEF Tree
  <2>2. links2[g] = links[g] BY <1>2, <2>1 DEF Dir
  <2> QED BY <2>1, <2>2
<1>4. \A s \in States, i \in KernelIndex : links2[Pml4[s]][i] = Boot[Pml4[s]][i]
    BY <1>1 DEF Tree
<1>5. \A f, g \in Frames, i, j \in Index :
         Dir(lvl, f) /\ Dir(lvl, g) /\ links2[f][i] \in Frames /\ links2[f][i] = links2[g][j] =>
             f = g /\ i = j
    BY DEF Tree
<1>6. \A f \in Frames, i \in Index :
         /\ Dir(lvl, f) /\ links2[f][i] \in Wild => Level[f] # 0 /\ links2[f][i] = Boot[f][i]
         /\ Dir(lvl, f) /\ links2[f][i] \notin Wild \cup {Absent} =>
              links2[f][i] \in Frames /\ lvl[links2[f][i]] = lvl[f] + 1 /\ own[links2[f][i]] = own[f]
    BY DEF Tree
<1> QED BY <1>3, <1>4, <1>5, <1>6 DEF Tree, Values

(***************************************************************************)
(* What the trees say of Tables.                                           *)
(***************************************************************************)
At(lvl, own, s, k) == {f \in Frames : lvl[f] = k /\ own[f] = s}

LEMMA LinksAre == \A f \in Frames, i \in Index : Links[f][i] = Link(f, i)
  BY DEF Links

LEMMA ChildrenAre ==
    ASSUME NEW lvl, NEW own, NEW unused, Tree(Links, lvl, own, unused), NEW s \in States,
           NEW k \in 1 .. 3
    PROVE  Children(At(lvl, own, s, k)) = At(lvl, own, s, k + 1)
<1> USE Constants
<1>1. ASSUME NEW x \in Children(At(lvl, own, s, k)) PROVE x \in At(lvl, own, s, k + 1)
  <2>1. PICK f \in At(lvl, own, s, k), i \in Index : x = Link(f, i) /\ x \notin Wild \cup {Absent}
      BY <1>1 DEF Children
  <2>2. /\ f \in Frames /\ Dir(lvl, f) /\ lvl[f] = k /\ own[f] = s
        /\ Links[f][i] = x /\ Links[f][i] \notin Wild \cup {Absent}
      BY <2>1, LinksAre DEF At, Dir
  <2>3. x \in Frames /\ lvl[x] = k + 1 /\ own[x] = s BY <2>2 DEF Tree
  <2> QED BY <2>3 DEF At
<1>2. ASSUME NEW x \in At(lvl, own, s, k + 1) PROVE x \in Children(At(lvl, own, s, k))
  <2>1. x \in Frames /\ lvl[x] = k + 1 /\ own[x] = s /\ lvl[x] > 1 BY <1>2 DEF At
  <2>2. PICK g \in Frames, i \in Index : lvl[g] = lvl[x] - 1 /\ Links[g][i] = x
      BY <2>1 DEF Tree
  <2>3. lvl[g] = k /\ Dir(lvl, g) BY <2>1, <2>2 DEF Dir
  <2>4. own[g] = s BY <2>1, <2>2, <2>3 DEF Tree
  <2>5. g \in At(lvl, own, s, k) \cap Frames /\ Link(g, i) = x BY <2>2, <2>3, <2>4, LinksAre DEF At
  <2> QED BY <2>1, <2>5 DEF Children
<1> QED BY <1>1, <1>2

LEMMA TablesAre ==
    ASSUME NEW lvl, NEW own, NEW unused, Tree(Links, lvl, own, unused), NEW s \in States
    PROVE  /\ {Pml4[s]} = At(lvl, own, s, 1) /\ Pdps(s) = At(lvl, own, s, 2)
           /\ Pds(s) = At(lvl, own, s, 3) /\ Pts(s) = At(lvl, own, s, 4)
           /\ Tables(s) = {f \in Frames : lvl[f] # 0 /\ own[f] = s}
<1>1. {Pml4[s]} = At(lvl, own, s, 1) BY Constants DEF Tree, At
<1>2. 1 + 1 = 2 /\ 2 + 1 = 3 /\ 3 + 1 = 4 /\ 1 \in 1 .. 3 /\ 2 \in 1 .. 3 /\ 3 \in 1 .. 3 OBVIOUS
<1>3. Pdps(s) = At(lvl, own, s, 2) BY <1>1, <1>2, ChildrenAre DEF Pdps
<1>4. Pds(s) = At(lvl, own, s, 3) BY <1>2, <1>3, ChildrenAre DEF Pds
<1>5. Pts(s) = At(lvl, own, s, 4) BY <1>2, <1>4, ChildrenAre DEF Pts
<1>6. \A f \in Frames : lvl[f] \in 0 .. 4 BY DEF Tree
<1>7. \A f \in Frames : lvl[f] # 0 <=> lvl[f] = 1 \/ lvl[f] = 2 \/ lvl[f] = 3 \/ lvl[f] = 4
    BY <1>6
<1>8. Tables(s) = {f \in Frames : lvl[f] # 0 /\ own[f] = s}
    BY <1>1, <1>3, <1>4, <1>5, <1>7 DEF Tables, At
<1> QED BY <1>1, <1>3, <1>4, <1>5, <1>8

\* Memory and Links differ only in an entry that is being cleared.
LEMMA MemAndLinks ==
    ASSUME CallInv, NEW lvl, NEW own, NEW unused, Tree(Links, lvl, own, unused),
           NEW f \in Frames, lvl[f] # 0, NEW i \in Index
    PROVE  mem[f][i] = Links[f][i] \/ (Links[f][i] = Absent /\ mem[f][i] \in Frames)
<1>1. CASE Unlinking(f, i)
  <2>1. PICK c \in Cpus : /\ pc[c] = "unlink" /\ path[c][Len(path[c]) - 1] = f
                          /\ call[c].va[Len(path[c]) - 1] = i
      BY <1>1 DEF Unlinking
  <2>2. mem[f][i] \in Frames BY <2>1 DEF CallInv, UnlinkOk
  <2> QED BY <1>1, <2>2, LinksAre DEF Link
<1>2. CASE ~Unlinking(f, i) BY <1>2, LinksAre DEF Link
<1> QED BY <1>1, <1>2

LEMMA IInvTablesSound == IInv => TablesSound
<1> SUFFICES ASSUME IInv PROVE TablesSound OBVIOUS
<1>1. PICK lvl \in [Frames -> 0 .. 4], own \in [Frames -> States] : TreesInv(lvl, own)
    BY DEF IInv
<1>2. CallInv /\ Tree(Links, lvl, own, free \cup News) BY <1>1 DEF IInv, TreesInv
<1> DEFINE dirs(s) == {Pml4[s]} \cup Pdps(s) \cup Pds(s)
           lks == UNION {dirs(s) \X Index : s \in States}
<1>3. \A s \in States : Tables(s) = {f \in Frames : lvl[f] # 0 /\ own[f] = s} BY <1>2, TablesAre
<1>4. ASSUME NEW s \in States
      PROVE  /\ Tables(s) \subseteq Frames \ free
             /\ \A f \in Tables(s), i \in Index :
                  mem[f][i] \in Wild => Level[f] # 0 /\ mem[f][i] = Boot[f][i]
  <2>1. Tables(s) \subseteq Frames \ free BY <1>2, <1>3 DEF Tree
  <2>2. ASSUME NEW f \in Tables(s), NEW i \in Index, mem[f][i] \in Wild
        PROVE  Level[f] # 0 /\ mem[f][i] = Boot[f][i]
    <3>1. f \in Frames /\ lvl[f] # 0 /\ lvl[f] \in 0 .. 4 BY <1>3, <2>2
    <3>2. Dir(lvl, f) \/ lvl[f] = 4 BY <3>1 DEF Dir
    <3>3. mem[f][i] = Links[f][i] BY <1>2, <2>2, <3>1, MemAndLinks, Constants
    <3>4. lvl[f] # 4 BY <1>2, <2>2, <3>1, <3>3, Constants DEF Tree
    <3> QED BY <1>2, <2>2, <3>1, <3>2, <3>3, <3>4 DEF Tree
  <2> QED BY <2>1, <2>2
<1>5. \A s, t \in States : s # t => Tables(s) \cap Tables(t) = {} BY <1>3
<1>6. ASSUME NEW k \in lks, NEW l \in lks, k # l, Link(k[1], k[2]) \in Frames
      PROVE  Link(k[1], k[2]) # Link(l[1], l[2])
  <2>1. \A s \in States : \A f \in dirs(s) : f \in Frames /\ Dir(lvl, f)
    <3> SUFFICES ASSUME NEW s \in States, NEW f \in dirs(s) PROVE f \in Frames /\ Dir(lvl, f)
        OBVIOUS
    <3>1. f \in At(lvl, own, s, 1) \cup At(lvl, own, s, 2) \cup At(lvl, own, s, 3)
        BY <1>2, TablesAre
    <3> QED BY <3>1 DEF At, Dir
  <2>2. ASSUME NEW m \in lks
        PROVE  m[1] \in Frames /\ Dir(lvl, m[1]) /\ m[2] \in Index /\ m = <<m[1], m[2]>>
    <3>1. PICK s \in States : m \in dirs(s) \X Index OBVIOUS
    <3> HIDE DEF dirs
    <3> QED BY <2>1, <3>1
  <2> HIDE DEF lks
  <2>3. ~(k[1] = l[1] /\ k[2] = l[2]) BY <1>6, <2>2
  <2> QED BY <1>2, <1>6, <2>2, <2>3, LinksAre DEF Tree
<1> QED BY <1>4, <1>5, <1>6 DEF TablesSound

LEMMA IInvFramesAccounted == IInv => FramesAccounted
<1> SUFFICES ASSUME IInv PROVE FramesAccounted OBVIOUS
<1>1. PICK lvl \in [Frames -> 0 .. 4], own \in [Frames -> States] : TreesInv(lvl, own)
    BY DEF IInv
<1>2. CallInv /\ Tree(Links, lvl, own, free \cup News) BY <1>1 DEF IInv, TreesInv
<1>3. \A s \in States : Tables(s) = {f \in Frames : lvl[f] # 0 /\ own[f] = s} BY <1>2, TablesAre
<1>4. ASSUME NEW f \in Frames
      PROVE  f \in free \/ f \in News \/ \E s \in States : f \in Tables(s)
  <2>1. CASE lvl[f] = 0
    <3>1. f \in free \cup News BY <1>2, <2>1 DEF Tree
    <3> QED BY <3>1
  <2>2. CASE lvl[f] # 0 BY <1>3, <2>2
  <2> QED BY <2>1, <2>2
<1>5. ASSUME NEW s \in States, NEW i \in KernelIndex
      PROVE  /\ mem[Pml4[s]][i] = Boot[Pml4[s]][i] /\ Boot[Pml4[s]][i] \notin free
             /\ Boot[Pml4[s]][i] = Links[Pml4[s]][i]
  <2>1. /\ Pml4[s] \in Frames /\ lvl[Pml4[s]] = 1 /\ i \in Index
        /\ Links[Pml4[s]][i] = Boot[Pml4[s]][i] /\ Boot[Pml4[s]][i] \in Frames
        /\ Boot[Pml4[s]][i] \notin Wild \cup {Absent}
      BY <1>2, Constants DEF Tree
  <2>2. mem[Pml4[s]][i] = Links[Pml4[s]][i] BY <1>2, <2>1, MemAndLinks
  <2>3. lvl[Boot[Pml4[s]][i]] = 2 BY <1>2, <2>1 DEF Tree, Dir
  <2> QED BY <1>2, <2>1, <2>2, <2>3 DEF Tree
<1>6. ASSUME NEW s \in States, lock[s] = Nobody, NEW f \in Tables(s), IsTableEmpty(f)
      PROVE  f = Pml4[s] \/ EmptyAtBoot(f) \/ \E i \in KernelIndex : f = mem[Pml4[s]][i]
  <2>1. f \in Frames /\ lvl[f] # 0 /\ own[f] = s /\ lvl[f] \in 0 .. 4 BY <1>3, <1>6
  <2>2. CASE lvl[f] = 1 BY <1>2, <2>1, <2>2 DEF Tree
  <2>3. CASE lvl[f] > 1
    <3>1. ~Excused(f, s) BY <1>6 DEF Excused
    <3>2. Kept(f, s)
        BY <1>1, <1>6, <2>1, <2>3, <3>1 DEF TreesInv, EmptyOk
    <3> QED BY <1>5, <3>2 DEF Kept
  <2> QED BY <2>1, <2>2, <2>3
<1> DEFINE All == UNION {Tables(s) : s \in States}
<1>7. Frames \subseteq free \cup All \cup News
  <2>1. \A f \in Frames : (\E s \in States : f \in Tables(s)) => f \in All OBVIOUS
  <2> HIDE DEF All
  <2> QED BY <1>4, <2>1
<1>8. Frames \subseteq free \cup (UNION {Tables(s) : s \in States})
                       \cup {new[c] : c \in {d \in Cpus : new[d] # Nobody}}
    BY <1>7 DEF News
<1> QED BY <1>5, <1>6, <1>8 DEF FramesAccounted

(***************************************************************************)
(* A step of one CPU, and the others.                                      *)
(***************************************************************************)
\* c's step leaves the calls of the others and the locks of other states.
Still(c, s) ==
    /\ \A d \in Cpus \ {c} : /\ pc'[d] = pc[d] /\ path'[d] = path[d]
                             /\ call'[d] = call[d] /\ new'[d] = new[d]
    /\ \A t \in States \ {s} : lock'[t] = lock[t] /\ lock[t] # c
    /\ lock[s] \in {c, Nobody}

\* It leaves the trees of other states, and the frames that are no tables
\* but for the one it is going to link.
Agrees(c, s, lvl, own, lvl2, own2) ==
    \A f \in Frames :
        /\ lvl[f] # 0 /\ own[f] # s => /\ lvl2[f] = lvl[f] /\ own2[f] = own[f]
                                       /\ mem'[f] = mem[f] /\ Links'[f] = Links[f]
        /\ lvl2[f] # 0 /\ own2[f] # s => lvl[f] # 0 /\ own[f] # s
        /\ lvl[f] = 0 /\ f # new[c] => mem'[f] = mem[f]

LEMMA NotElsewhere ==
    ASSUME CallInv, NEW s \in States, NEW c \in Cpus, lock[s] \in {c, Nobody},
           NEW d \in Cpus, d # c, pc[d] \in Section
    PROVE  call[d].state \in States /\ call[d].state # s
<1>1. pc[d] \notin {"idle", "halted"} BY DEF Section, Walking
<1>2. call[d].state \in States BY <1>1 DEF CallInv, TypeInv
<1>3. lock[call[d].state] = d BY DEF CallInv, LockInv
<1> QED BY <1>2, <1>3, Constants

LEMMA Assemble ==
    ASSUME CallInv, NEW lvl, NEW own, TreesInv(lvl, own),
           NEW c \in Cpus, NEW s \in States, Still(c, s),
           NEW lvl2, NEW own2, Agrees(c, s, lvl, own, lvl2, own2),
           TypeInv', LockInv', NewOk(c)', \A d \in Cpus : new'[d] \notin free',
           UnlinkOk(c)', HoleOk(c)',
           Tree(Links', lvl2, own2, (free \cup News)'),
           WalkOk(Links, lvl2, own2, c)',
           \A f \in Frames : own2[f] = s => EmptyOk(lvl2, own2, f)'
    PROVE  IInv'
<1> USE Constants
<1>1. ASSUME NEW d \in Cpus, d # c, pc[d] \in Walking
      PROVE  /\ \A k \in 1 .. Found(d) :
                  /\ path[d][k] \in Frames /\ lvl[path[d][k]] = k
                  /\ own[path[d][k]] # s /\ lvl[path[d][k]] # 0
             /\ Leads(Links, lvl, own, path[d], Found(d), call[d].state, call[d].va)
  <2>1. Leads(Links, lvl, own, path[d], Found(d), call[d].state, call[d].va)
      BY <1>1 DEF TreesInv, WalkOk
  <2>2. call[d].state # s BY <1>1, NotElsewhere DEF Still, Section
  <2>3. path[d] \in Seq(Frames) BY DEF CallInv, TypeInv
  <2>4. Found(d) <= Len(path[d]) /\ Found(d) \in 1 .. 4 BY <2>1 DEF Leads
  <2>5. \A k \in 1 .. Found(d) : k \in 1 .. Len(path[d]) BY <2>3, <2>4
  <2> QED BY <2>1, <2>2, <2>3, <2>5 DEF Leads
<1>2. ASSUME NEW d \in Cpus, d # c PROVE WalkOk(Links, lvl2, own2, d)'
  <2> SUFFICES ASSUME pc'[d] \in Walking
               PROVE  Leads(Links', lvl2, own2, path'[d], Found(d)', call'[d].state, call'[d].va)
      BY DEF WalkOk
  <2>1. pc[d] \in Walking /\ path'[d] = path[d] /\ call'[d] = call[d] /\ Found(d)' = Found(d)
      BY <1>2 DEF Still, Found
  <2>2. \A k \in 1 .. Found(d) : /\ lvl2[path[d][k]] = lvl[path[d][k]]
                                 /\ own2[path[d][k]] = own[path[d][k]]
                                 /\ Links'[path[d][k]] = Links[path[d][k]]
      BY <1>1, <1>2, <2>1 DEF Agrees
  <2>3. Leads(Links, lvl, own, path[d], Found(d), call[d].state, call[d].va)
      BY <1>1, <1>2, <2>1
  <2>4. Found(d) \in 1 .. 4 /\ \A k \in 1 .. Found(d) - 1 : k \in 1 .. Found(d)
      BY <2>3 DEF Leads
  <2>5. Leads(Links', lvl2, own2, path[d], Found(d), call[d].state, call[d].va)
      BY <2>2, <2>3, <2>4 DEF Leads
  <2> QED BY <2>1, <2>5
<1>3. ASSUME NEW d \in Cpus, d # c PROVE UnlinkOk(d)'
  <2> SUFFICES ASSUME pc'[d] = "unlink" PROVE UnlinkOk(d)' BY DEF UnlinkOk
  <2>1. pc[d] = "unlink" /\ path'[d] = path[d] /\ call'[d] = call[d] BY <1>3 DEF Still
  <2>2. UnlinkOk(d) /\ Found(d) = Len(path[d]) - 1 /\ pc[d] \in Walking
      BY <2>1 DEF CallInv, Found, Walking
  <2>3. Len(path[d]) \in 2 .. 4 BY <2>1, <2>2 DEF UnlinkOk
  <2>4. \A n \in 2 .. 4 : n - 1 \in 1 .. n - 1 OBVIOUS
  <2>5. Len(path[d]) - 1 \in 1 .. Found(d) BY <2>2, <2>3, <2>4
  <2>6. PICK f : f = path[d][Len(path[d]) - 1] OBVIOUS
  <2>7. f \in Frames /\ lvl[f] # 0 /\ own[f] # s BY <1>1, <1>3, <2>2, <2>5, <2>6
  <2>8. mem'[f] = mem[f] BY <2>7 DEF Agrees
  <2> QED BY <2>1, <2>2, <2>6, <2>8 DEF UnlinkOk
<1>4. ASSUME NEW d \in Cpus, d # c PROVE HoleOk(d)'
  <2> SUFFICES ASSUME pc'[d] \in {"map_clear", "map_link"} PROVE HoleOk(d)' BY DEF HoleOk
  <2>1. pc'[d] = pc[d] /\ path'[d] = path[d] /\ call'[d] = call[d] BY <1>4 DEF Still
  <2>2. HoleOk(d) /\ Found(d) = Len(path[d]) /\ pc[d] \in Walking
      BY <2>1 DEF CallInv, Found, Walking
  <2>3. Found(d) \in 1 .. 4 BY <1>4, <1>1, <2>2 DEF Leads
  <2>4. Top(d) \in Frames /\ lvl[Top(d)] # 0 /\ own[Top(d)] # s
      BY <1>4, <1>1, <2>2, <2>3 DEF Top
  <2>5. mem'[Top(d)] = mem[Top(d)] BY <2>4 DEF Agrees
  <2>6. Entry(d)' = Entry(d) BY <2>1, <2>5 DEF Entry, Top, Slot
  <2> QED BY <2>1, <2>2, <2>6 DEF HoleOk
<1>5. ASSUME NEW d \in Cpus, d # c PROVE NewOk(d)'
  <2>1. pc'[d] = pc[d] /\ new'[d] = new[d] BY <1>5 DEF Still
  <2>2. NewOk(d) /\ new[d] \in Frames \cup {Nobody} BY DEF CallInv, TypeInv
  <2>3. \A e \in Cpus : new'[d] = new'[e] /\ new'[d] # Nobody => d = e
    <3> SUFFICES ASSUME NEW e \in Cpus, new'[d] = new'[e], new'[d] # Nobody PROVE d = e OBVIOUS
    <3>1. CASE e = c BY <1>5, <3>1 DEF NewOk
    <3>2. CASE e # c BY <2>1, <2>2, <3>2 DEF Still, NewOk
    <3> QED BY <3>1, <3>2
  <2>4. pc[d] = "map_link" => mem'[new[d]] = mem[new[d]]
    <3> SUFFICES ASSUME pc[d] = "map_link" PROVE mem'[new[d]] = mem[new[d]] OBVIOUS
    <3>1. new[d] # Nobody /\ new[d] \in Frames BY <2>2 DEF NewOk
    <3>2. new[d] \in News BY <3>1 DEF News
    <3>3. lvl[new[d]] = 0 BY <3>1, <3>2 DEF TreesInv, Tree
    <3>4. new[d] # new[c] BY <1>5, <2>2, <3>1 DEF NewOk
    <3> QED BY <3>1, <3>3, <3>4 DEF Agrees
  <2> QED BY <2>1, <2>2, <2>3, <2>4 DEF NewOk
<1>6. ASSUME NEW f \in Frames PROVE EmptyOk(lvl2, own2, f)'
  <2>1. CASE own2[f] = s BY <2>1
  <2>2. CASE own2[f] # s
    <3> SUFFICES ASSUME lvl2[f] > 1, IsTableEmpty(f)', ~Kept(f, own2[f])
                 PROVE  Excused(f, own2[f])'
        BY DEF EmptyOk
    <3>0. lvl2[f] # 0 BY DEF Tree
    <3>1. lvl[f] # 0 /\ own[f] # s /\ lvl2[f] = lvl[f] /\ own2[f] = own[f] /\ mem'[f] = mem[f]
        BY <2>2, <3>0 DEF Agrees
    <3>2. IsTableEmpty(f) BY <3>1 DEF IsTableEmpty, Present
    <3>3. Excused(f, own[f]) BY <3>1, <3>2 DEF TreesInv, EmptyOk
    <3>4. own[f] \in States BY DEF TreesInv, Tree
    <3>5. PICK d \in Cpus : d = lock[own[f]] BY <3>3, <3>4 DEF Excused, CallInv, TypeInv
    <3>6. d # c /\ lock'[own[f]] = d BY <3>1, <3>4, <3>5 DEF Still
    <3>7. pc'[d] = pc[d] /\ path'[d] = path[d] /\ call'[d] = call[d] BY <3>6 DEF Still
    <3>8. CASE pc[d] = "panic" BY <3>1, <3>5, <3>6, <3>7, <3>8 DEF Excused
    <3>9. CASE pc[d] \in {"map_walk", "map_clear", "map_link", "prune"} /\ f = Top(d)
        BY <3>1, <3>5, <3>6, <3>7, <3>9 DEF Excused, Top
    <3>10. CASE pc[d] = "map_walk" /\ f = Entry(d)
      <4>1. pc[d] \in Walking /\ Found(d) = Len(path[d]) BY <3>10 DEF Walking, Found
      <4>2. Found(d) \in 1 .. 4 BY <1>1, <3>6, <4>1 DEF Leads
      <4>3. Top(d) \in Frames /\ lvl[Top(d)] # 0 /\ own[Top(d)] # s
        <5>1. \A n \in 1 .. 4 : n \in 1 .. n OBVIOUS
        <5>2. Len(path[d]) \in 1 .. Found(d) BY <4>1, <4>2, <5>1
        <5> QED BY <1>1, <3>6, <4>1, <5>2 DEF Top
      <4>4. Top(d)' = Top(d) /\ Slot(d)' = Slot(d) BY <3>7 DEF Top, Slot
      <4>5. mem'[Top(d)] = mem[Top(d)] BY <4>3 DEF Agrees
      <4>6. Entry(d)' = Entry(d) BY <4>4, <4>5 DEF Entry
      <4> QED BY <3>1, <3>5, <3>6, <3>7, <3>10, <4>6 DEF Excused
    <3> QED BY <3>3, <3>5, <3>8, <3>9, <3>10 DEF Excused
  <2> QED BY <2>1, <2>2
<1>7. \A d \in Cpus : NewOk(d)' /\ UnlinkOk(d)' /\ HoleOk(d)' /\ WalkOk(Links, lvl2, own2, d)'
    BY <1>4, <1>2, <1>3, <1>5
<1>8. CallInv' BY <1>7 DEF CallInv
<1>9. TreesInv(lvl2, own2)' BY <1>6, <1>7 DEF TreesInv
<1>10. lvl2 \in [Frames -> 0 .. 4] /\ own2 \in [Frames -> States] BY DEF Tree
<1> QED BY <1>8, <1>9, <1>10 DEF IInv

(***************************************************************************)
(* Where a call is in the tree of its state.                               *)
(***************************************************************************)
LEMMA Inside ==
    ASSUME CallInv, NEW lvl, NEW own, TreesInv(lvl, own), NEW c \in Cpus, pc[c] \in Walking
    PROVE  /\ call[c].state \in States /\ lock[call[c].state] = c
           /\ call[c].va \in VAddrs /\ path[c] \in Seq(Frames) /\ Len(path[c]) \in Nat
           /\ Found(c) \in 1 .. 4 /\ Found(c) <= Len(path[c])
           /\ path[c][1] = Pml4[call[c].state]
           /\ \A k \in 1 .. Found(c) :
                /\ path[c][k] \in Frames /\ lvl[path[c][k]] = k
                /\ own[path[c][k]] = call[c].state /\ call[c].va[k] \in Index
           /\ \A k \in 1 .. Found(c) - 1 : Links[path[c][k]][call[c].va[k]] = path[c][k + 1]
<1>1. Leads(Links, lvl, own, path[c], Found(c), call[c].state, call[c].va)
    BY DEF TreesInv, WalkOk
<1>2. /\ call[c].state \in States /\ lock[call[c].state] = c
      /\ call[c].va \in VAddrs /\ path[c] \in Seq(Frames) /\ Len(path[c]) \in Nat
    BY DEF CallInv, TypeInv, LockInv, Section, Walking
<1>3. Found(c) \in 1 .. 4 /\ Found(c) <= Len(path[c]) BY <1>1 DEF Leads
<1>4. \A k \in 1 .. Found(c) : k \in 1 .. Len(path[c]) /\ (k = 1 \/ k = 2 \/ k = 3 \/ k = 4)
    BY <1>2, <1>3
<1>5. \A k \in 1 .. Found(c) : path[c][k] \in Frames BY <1>2, <1>4
<1>6. \A k \in 1 .. Found(c) : call[c].va[k] \in Index BY <1>2, <1>4, Constants
<1> QED BY <1>1, <1>2, <1>3, <1>5, <1>6 DEF Leads

\* An entry that is being cleared is one of a directory of the state that
\* the CPU has locked.
LEMMA UnlinkingIs ==
    ASSUME CallInv, NEW lvl, NEW own, TreesInv(lvl, own), NEW f, NEW i, Unlinking(f, i)
    PROVE  \E d \in Cpus : /\ pc[d] = "unlink" /\ f \in Frames /\ i \in Index /\ Dir(lvl, f)
                           /\ own[f] = call[d].state /\ lock[call[d].state] = d
                           /\ call[d].state \in States
<1>1. PICK d \in Cpus : /\ pc[d] = "unlink" /\ path[d][Len(path[d]) - 1] = f
                        /\ call[d].va[Len(path[d]) - 1] = i
    BY DEF Unlinking
<1>2. pc[d] \in Walking /\ Found(d) = Len(path[d]) - 1 BY <1>1 DEF Walking, Found
<1>3. Len(path[d]) \in 2 .. 4 BY <1>1 DEF CallInv, UnlinkOk
<1>4. \A n \in 1 .. 3 : n \in 1 .. n OBVIOUS
<1>5. Found(d) \in 1 .. 3 BY <1>2, <1>3
<1>6. Found(d) \in 1 .. Found(d) BY <1>4, <1>5
<1>7. /\ call[d].state \in States /\ lock[call[d].state] = d
      /\ f \in Frames /\ lvl[f] = Found(d) /\ own[f] = call[d].state /\ i \in Index
    BY <1>1, <1>2, <1>6, Inside
<1> QED BY <1>1, <1>5, <1>7 DEF Dir

LEMMA NotUnlinking ==
    ASSUME CallInv, NEW lvl, NEW own, TreesInv(lvl, own), NEW c \in Cpus,
           pc[c] \in Section, pc[c] # "unlink", NEW f \in Frames,
           lvl[f] = 0 \/ own[f] = call[c].state, NEW i
    PROVE  ~Unlinking(f, i)
<1> SUFFICES ASSUME Unlinking(f, i) PROVE FALSE OBVIOUS
<1>1. PICK d \in Cpus : /\ pc[d] = "unlink" /\ Dir(lvl, f) /\ own[f] = call[d].state
                        /\ lock[call[d].state] = d
    BY UnlinkingIs
<1>2. lock[call[c].state] = c BY DEF CallInv, LockInv
<1> QED BY <1>1, <1>2 DEF Dir

\* The last table that has been found, unless it is being freed.
LEMMA AtTop ==
    ASSUME CallInv, NEW lvl, NEW own, TreesInv(lvl, own), NEW c \in Cpus, pc[c] \in Walking,
           pc[c] # "unlink"
    PROVE  /\ Found(c) = Len(path[c]) /\ Len(path[c]) \in 1 .. 4
           /\ Top(c) \in Frames /\ lvl[Top(c)] = Len(path[c]) /\ own[Top(c)] = call[c].state
           /\ Slot(c) \in Index /\ Links[Top(c)][Slot(c)] = Entry(c)
           /\ Top(c) \notin free /\ Top(c) \notin News
<1>1. Found(c) = Len(path[c]) BY DEF Found
<1>2. Len(path[c]) \in 1 .. 4 /\ Len(path[c]) \in 1 .. Found(c)
  <2>1. Len(path[c]) \in 1 .. 4 BY <1>1, Inside
  <2>2. \A n \in 1 .. 4 : n \in 1 .. n OBVIOUS
  <2> QED BY <1>1, <2>1, <2>2
<1>3. /\ Top(c) \in Frames /\ lvl[Top(c)] = Len(path[c]) /\ own[Top(c)] = call[c].state
      /\ Slot(c) \in Index
    BY <1>2, Inside DEF Top, Slot
<1>4. ~Unlinking(Top(c), Slot(c)) BY <1>3, NotUnlinking DEF Section
<1>5. Links[Top(c)][Slot(c)] = Entry(c) BY <1>3, <1>4, LinksAre DEF Link, Entry
<1>6. lvl[Top(c)] # 0 BY <1>2, <1>3
<1>7. Top(c) \notin free \cup News BY <1>3, <1>6 DEF TreesInv, Tree
<1> QED BY <1>1, <1>2, <1>3, <1>5, <1>7

LEMMA SameUnlinking ==
    ASSUME \A d \in Cpus : /\ pc'[d] = "unlink" <=> pc[d] = "unlink"
                           /\ pc[d] = "unlink" => path'[d] = path[d] /\ call'[d] = call[d]
    PROVE  \A f, i : Unlinking(f, i)' <=> Unlinking(f, i)
  BY DEF Unlinking

\* Only the call of c moves on, and neither from nor to a clearing.
LEMMA SameLinks ==
    ASSUME NEW c \in Cpus, NEW s, Still(c, s), pc[c] # "unlink", pc'[c] # "unlink"
    PROVE  /\ \A f, i : Unlinking(f, i)' <=> Unlinking(f, i)
           /\ \A f \in Frames, i \in Index :
                Links'[f][i] = IF Unlinking(f, i) THEN Absent ELSE mem'[f][i]
           /\ \A f \in Frames : mem'[f] = mem[f] => Links'[f] = Links[f]
           /\ DOMAIN Links' = Frames
<1>1. \A f, i : Unlinking(f, i)' <=> Unlinking(f, i)
  <2>1. \A d \in Cpus : /\ pc'[d] = "unlink" <=> pc[d] = "unlink"
                        /\ pc[d] = "unlink" => path'[d] = path[d] /\ call'[d] = call[d]
      BY DEF Still
  <2> QED BY <2>1, SameUnlinking
<1>2. \A f \in Frames, i \in Index :
         Links'[f][i] = IF Unlinking(f, i) THEN Absent ELSE mem'[f][i]
    BY <1>1 DEF Links, Link
<1>3. ASSUME NEW f \in Frames, mem'[f] = mem[f] PROVE Links'[f] = Links[f]
  <2>1. \A i \in Index : Link(f, i)' = Link(f, i) BY <1>1, <1>3 DEF Link
  <2>2. Links'[f] = [i \in Index |-> Link(f, i)'] /\ Links[f] = [i \in Index |-> Link(f, i)]
      BY DEF Links
  <2> QED BY <2>1, <2>2
<1>4. DOMAIN Links' = Frames BY DEF Links
<1> QED BY <1>1, <1>2, <1>3, <1>4

(***************************************************************************)
(* What a walk finds.                                                      *)
(***************************************************************************)
BelowIn(links, f, i) ==
    IF f \in Frames THEN links[f][i] ELSE IF f = Junk THEN Junk ELSE Absent
WalkIn(links, s, v) ==
    BelowIn(links, BelowIn(links, BelowIn(links, BelowIn(links, Pml4[s], v[1]), v[2]), v[3]), v[4])

\* x is a table of s at level k, or there is none.
OnLevel(lvl, own, x, s, k) ==
    x \in Wild \cup {Absent} \/ (x \in Frames /\ lvl[x] = k /\ own[x] = s)

LEMMA OneDown ==
    ASSUME NEW links, NEW lvl, NEW own, NEW unused, Tree(links, lvl, own, unused),
           NEW s \in States, NEW k \in 1 .. 3, NEW x, OnLevel(lvl, own, x, s, k), NEW i \in Index
    PROVE  OnLevel(lvl, own, BelowIn(links, x, i), s, k + 1)
<1>1. CASE x \in Wild \cup {Absent} BY <1>1, Constants DEF OnLevel, BelowIn
<1>2. CASE x \notin Wild \cup {Absent}
  <2>1. x \in Frames /\ lvl[x] = k /\ own[x] = s /\ Dir(lvl, x) BY <1>2 DEF OnLevel, Dir
  <2>2. BelowIn(links, x, i) = links[x][i] BY <2>1 DEF BelowIn
  <2> QED BY <2>1, <2>2 DEF Tree, OnLevel
<1> QED BY <1>1, <1>2

LEMMA Levels ==
    ASSUME NEW links, NEW lvl, NEW own, NEW unused, Tree(links, lvl, own, unused),
           NEW s \in States, NEW v \in VAddrs
    PROVE  \E x2, x3, x4 :
             /\ x2 = BelowIn(links, Pml4[s], v[1]) /\ OnLevel(lvl, own, x2, s, 2)
             /\ x3 = BelowIn(links, x2, v[2]) /\ OnLevel(lvl, own, x3, s, 3)
             /\ x4 = BelowIn(links, x3, v[3]) /\ OnLevel(lvl, own, x4, s, 4)
             /\ WalkIn(links, s, v) = BelowIn(links, x4, v[4])
<1>1. v[1] \in Index /\ v[2] \in Index /\ v[3] \in Index /\ v[4] \in Index BY Constants
<1>2. OnLevel(lvl, own, Pml4[s], s, 1) BY Constants DEF Tree, OnLevel
<1>3. PICK x2 : x2 = BelowIn(links, Pml4[s], v[1]) OBVIOUS
<1>4. PICK x3 : x3 = BelowIn(links, x2, v[2]) OBVIOUS
<1>5. PICK x4 : x4 = BelowIn(links, x3, v[3]) OBVIOUS
<1>6. 1 \in 1 .. 3 /\ 2 \in 1 .. 3 /\ 3 \in 1 .. 3 /\ 1 + 1 = 2 /\ 2 + 1 = 3 /\ 3 + 1 = 4 OBVIOUS
<1>7. OnLevel(lvl, own, x2, s, 2) BY <1>1, <1>2, <1>3, <1>6, OneDown
<1>8. OnLevel(lvl, own, x3, s, 3) BY <1>1, <1>4, <1>6, <1>7, OneDown
<1>9. OnLevel(lvl, own, x4, s, 4) BY <1>1, <1>5, <1>6, <1>8, OneDown
<1>10. WalkIn(links, s, v) = BelowIn(links, x4, v[4]) BY <1>3, <1>4, <1>5 DEF WalkIn
<1> QED BY <1>3, <1>4, <1>5, <1>7, <1>8, <1>9, <1>10

\* Nothing is mapped below x, and nothing could stand in the way of it.
Bare(links, x) ==
    x \in {Absent, Stale} \/ (x \in Frames /\ \A j \in Index : links[x][j] \in {Absent, Stale})
Dead(links, x) == x = Absent \/ (x \in Frames /\ \A j \in Index : links[x][j] = Absent)

LEMMA DeadBelow ==
    ASSUME NEW links, NEW x, NEW i \in Index
    PROVE  /\ Dead(links, x) => BelowIn(links, x, i) = Absent
           /\ Bare(links, x) => BelowIn(links, x, i) \in {Absent, Stale}
  BY Constants DEF Dead, Bare, BelowIn

\* Links are added to and removed from empty tables only.
SameBut(links, links2, lvl) ==
    \A f \in Frames, i \in Index : lvl[f] # 0 =>
        \/ links2[f][i] = links[f][i]
        \/ Dir(lvl, f) /\ Bare(links, links[f][i]) /\ Dead(links2, links2[f][i])

Alike(links, links2, x, y) == x = y \/ (Bare(links, x) /\ Dead(links2, y))

LEMMA AlikeDown ==
    ASSUME NEW links, NEW links2, NEW lvl, NEW own, SameBut(links, links2, lvl),
           NEW unused, Tree(links, lvl, own, unused),
           NEW s, NEW k \in 1 .. 4, NEW x, OnLevel(lvl, own, x, s, k), NEW y,
           Alike(links, links2, x, y), NEW i \in Index
    PROVE  /\ Alike(links, links2, BelowIn(links, x, i), BelowIn(links2, y, i))
           /\ k = 4 => BelowIn(links, x, i) = BelowIn(links2, y, i)
<1>1. CASE Bare(links, x) /\ Dead(links2, y)
  <2>1. BelowIn(links2, y, i) = Absent /\ BelowIn(links, x, i) \in {Absent, Stale}
      BY <1>1, DeadBelow
  <2>2. Alike(links, links2, BelowIn(links, x, i), BelowIn(links2, y, i))
      BY <2>1 DEF Alike, Bare, Dead
  <2>3. ASSUME k = 4 PROVE BelowIn(links, x, i) = Absent
    <3>1. CASE x \in Frames
      <4>1. lvl[x] = 4 BY <2>3, <3>1, Constants DEF OnLevel
      <4>2. links[x][i] \in PhysPages \cup {Absent} BY <3>1, <4>1 DEF Tree
      <4>3. links[x][i] \in {Absent, Stale} BY <2>1, <3>1 DEF BelowIn
      <4> QED BY <3>1, <4>2, <4>3, Constants DEF BelowIn
    <3>2. CASE x \notin Frames BY <1>1, <3>2, Constants DEF Bare, BelowIn
    <3> QED BY <3>1, <3>2
  <2> QED BY <2>1, <2>2, <2>3
<1>2. CASE x = y
  <2>1. CASE x \in Wild \cup {Absent} BY <1>2, <2>1, Constants DEF BelowIn, Alike
  <2>2. CASE x \notin Wild \cup {Absent}
    <3>1. x \in Frames /\ lvl[x] = k /\ lvl[x] # 0 BY <2>2 DEF OnLevel
    <3>2. BelowIn(links, x, i) = links[x][i] /\ BelowIn(links2, y, i) = links2[x][i]
        BY <1>2, <3>1 DEF BelowIn
    <3>3. k = 4 => ~Dir(lvl, x) BY <3>1 DEF Dir
    <3> QED BY <3>1, <3>2, <3>3 DEF SameBut, Alike
  <2> QED BY <2>1, <2>2
<1> QED BY <1>1, <1>2 DEF Alike

LEMMA SameWalk ==
    ASSUME NEW links, NEW lvl, NEW own, NEW unused, Tree(links, lvl, own, unused),
           NEW links2, SameBut(links, links2, lvl), NEW s \in States, NEW v \in VAddrs
    PROVE  WalkIn(links2, s, v) = WalkIn(links, s, v)
<1>1. v[1] \in Index /\ v[2] \in Index /\ v[3] \in Index /\ v[4] \in Index BY Constants
<1>2. PICK x2, x3, x4 :
         /\ x2 = BelowIn(links, Pml4[s], v[1]) /\ OnLevel(lvl, own, x2, s, 2)
         /\ x3 = BelowIn(links, x2, v[2]) /\ OnLevel(lvl, own, x3, s, 3)
         /\ x4 = BelowIn(links, x3, v[3]) /\ OnLevel(lvl, own, x4, s, 4)
         /\ WalkIn(links, s, v) = BelowIn(links, x4, v[4])
    BY Levels
<1>3. PICK y2 : y2 = BelowIn(links2, Pml4[s], v[1]) OBVIOUS
<1>4. PICK y3 : y3 = BelowIn(links2, y2, v[2]) OBVIOUS
<1>5. PICK y4 : y4 = BelowIn(links2, y3, v[3]) OBVIOUS
<1>6. 1 \in 1 .. 4 /\ 2 \in 1 .. 4 /\ 3 \in 1 .. 4 /\ 4 \in 1 .. 4 OBVIOUS
<1>7. OnLevel(lvl, own, Pml4[s], s, 1) BY Constants DEF Tree, OnLevel
<1>8. Alike(links, links2, Pml4[s], Pml4[s]) BY DEF Alike
<1>9. Alike(links, links2, x2, y2) BY <1>1, <1>2, <1>3, <1>6, <1>7, <1>8, AlikeDown
<1>10. Alike(links, links2, x3, y3) BY <1>1, <1>2, <1>4, <1>6, <1>9, AlikeDown
<1>11. Alike(links, links2, x4, y4) BY <1>1, <1>2, <1>5, <1>6, <1>10, AlikeDown
<1>12. BelowIn(links, x4, v[4]) = BelowIn(links2, y4, v[4])
    BY <1>1, <1>2, <1>6, <1>11, AlikeDown
<1>13. WalkIn(links2, s, v) = BelowIn(links2, y4, v[4]) BY <1>3, <1>4, <1>5 DEF WalkIn
<1> QED BY <1>2, <1>12, <1>13

\* What the walk of a call has found so far is what the page is mapped to.
LEMMA WalkTop ==
    ASSUME NEW links, NEW lvl, NEW own, NEW unused, Tree(links, lvl, own, unused),
           NEW s \in States, NEW v \in VAddrs, NEW p \in Seq(Frames), NEW n,
           Leads(links, lvl, own, p, n, s, v)
    PROVE  /\ n = 4 => WalkIn(links, s, v) = links[p[n]][v[n]]
           /\ n # 4 /\ links[p[n]][v[n]] \in {Absent, Stale} => WalkIn(links, s, v) = Absent
<1>1. n \in 1 .. 4 /\ n <= Len(p) /\ p[1] = Pml4[s] /\ Len(p) \in Nat BY DEF Leads
<1>2. \A k \in 1 .. n : p[k] \in Frames
  <2>1. \A k \in 1 .. n : k \in 1 .. Len(p) BY <1>1
  <2> QED BY <2>1
<1>3. \A k \in 1 .. n - 1 : links[p[k]][v[k]] = p[k + 1] BY DEF Leads
<1>4. /\ p[1] \in Frames /\ (n >= 2 => p[2] \in Frames) /\ (n >= 3 => p[3] \in Frames)
      /\ (n >= 4 => p[4] \in Frames)
  <2>1. /\ 1 \in 1 .. n /\ (n >= 2 => 2 \in 1 .. n) /\ (n >= 3 => 3 \in 1 .. n)
        /\ (n >= 4 => 4 \in 1 .. n)
      BY <1>1
  <2> QED BY <1>2, <2>1
<1>5. /\ n >= 2 => links[p[1]][v[1]] = p[2]
      /\ n >= 3 => links[p[2]][v[2]] = p[3]
      /\ n >= 4 => links[p[3]][v[3]] = p[4]
  <2>1. /\ (n >= 2 => 1 \in 1 .. n - 1) /\ (n >= 3 => 2 \in 1 .. n - 1)
        /\ (n >= 4 => 3 \in 1 .. n - 1) /\ 1 + 1 = 2 /\ 2 + 1 = 3 /\ 3 + 1 = 4
      BY <1>1
  <2> QED BY <1>3, <2>1
<1>6. \A i : BelowIn(links, Absent, i) = Absent /\ BelowIn(links, Stale, i) = Absent
    BY Constants DEF BelowIn
<1>7. \A f \in Frames : \A i : BelowIn(links, f, i) = links[f][i] BY DEF BelowIn
<1>8. CASE n = 1 BY <1>1, <1>4, <1>6, <1>7, <1>8 DEF WalkIn
<1>9. CASE n = 2
  <2>1. p[1] \in Frames /\ p[2] \in Frames /\ links[p[1]][v[1]] = p[2] BY <1>4, <1>5, <1>9
  <2> QED BY <1>1, <1>6, <1>7, <1>9, <2>1 DEF WalkIn
<1>10. CASE n = 3
  <2>1. /\ p[1] \in Frames /\ p[2] \in Frames /\ p[3] \in Frames
        /\ links[p[1]][v[1]] = p[2] /\ links[p[2]][v[2]] = p[3]
      BY <1>4, <1>5, <1>10
  <2> QED BY <1>1, <1>6, <1>7, <1>10, <2>1 DEF WalkIn
<1>11. CASE n = 4
  <2>1. /\ p[1] \in Frames /\ p[2] \in Frames /\ p[3] \in Frames /\ p[4] \in Frames
        /\ links[p[1]][v[1]] = p[2] /\ links[p[2]][v[2]] = p[3] /\ links[p[3]][v[3]] = p[4]
      BY <1>4, <1>5, <1>11
  <2> QED BY <1>1, <1>6, <1>7, <1>11, <2>1 DEF WalkIn
<1> QED BY <1>1, <1>8, <1>9, <1>10, <1>11

\* links2 is links but for the entry i of g, which is x.
OneChange(links, links2, g, i, x) ==
    \A f \in Frames, j \in Index : links2[f][j] = IF f = g /\ j = i THEN x ELSE links[f][j]

\* Page v of s is mapped to x, and nothing else changes.
Remapped(links, links2, s, v, x) ==
    \A t \in States, w \in VAddrs :
        WalkIn(links2, t, w) = IF t = s /\ w = v THEN x ELSE WalkIn(links, t, w)

\* An entry of the last level belongs to one page of one address space.
LEMMA OneWalk ==
    ASSUME NEW links, NEW lvl, NEW own, NEW unused, Tree(links, lvl, own, unused),
           NEW s \in States, NEW v \in VAddrs, NEW p \in Seq(Frames),
           Leads(links, lvl, own, p, 4, s, v),
           NEW links2, NEW x, OneChange(links, links2, p[4], v[4], x)
    PROVE  Remapped(links, links2, s, v, x)
<1> SUFFICES ASSUME NEW t \in States, NEW w \in VAddrs
             PROVE  WalkIn(links2, t, w) = IF t = s /\ w = v THEN x ELSE WalkIn(links, t, w)
    BY DEF Remapped
<1>1. /\ v[1] \in Index /\ v[2] \in Index /\ v[3] \in Index /\ v[4] \in Index
      /\ w[1] \in Index /\ w[2] \in Index /\ w[3] \in Index /\ w[4] \in Index
    BY Constants
<1>2. PICK x2, x3, x4 :
         /\ x2 = BelowIn(links, Pml4[t], w[1]) /\ OnLevel(lvl, own, x2, t, 2)
         /\ x3 = BelowIn(links, x2, w[2]) /\ OnLevel(lvl, own, x3, t, 3)
         /\ x4 = BelowIn(links, x3, w[3]) /\ OnLevel(lvl, own, x4, t, 4)
         /\ WalkIn(links, t, w) = BelowIn(links, x4, w[4])
    BY Levels
<1>3. /\ p[1] = Pml4[s] /\ Len(p) >= 4
      /\ lvl[p[1]] = 1 /\ lvl[p[2]] = 2 /\ lvl[p[3]] = 3 /\ lvl[p[4]] = 4 /\ own[p[4]] = s
      /\ links[p[1]][v[1]] = p[2] /\ links[p[2]][v[2]] = p[3] /\ links[p[3]][v[3]] = p[4]
  <2>1. /\ 1 \in 1 .. 4 /\ 2 \in 1 .. 4 /\ 3 \in 1 .. 4 /\ 4 \in 1 .. 4
        /\ 1 \in 1 .. 4 - 1 /\ 2 \in 1 .. 4 - 1 /\ 3 \in 1 .. 4 - 1
        /\ 1 + 1 = 2 /\ 2 + 1 = 3 /\ 3 + 1 = 4
      OBVIOUS
  <2>2. p[1] = Pml4[s] /\ Len(p) >= 4 BY DEF Leads
  <2>3. lvl[p[1]] = 1 /\ lvl[p[2]] = 2 /\ lvl[p[3]] = 3 /\ lvl[p[4]] = 4 /\ own[p[4]] = s
      BY <2>1 DEF Leads
  <2>4. links[p[1]][v[1]] = p[2] /\ links[p[2]][v[2]] = p[3] /\ links[p[3]][v[3]] = p[4]
      BY <2>1 DEF Leads
  <2> QED BY <2>2, <2>3, <2>4
<1>4. p[1] \in Frames /\ p[2] \in Frames /\ p[3] \in Frames /\ p[4] \in Frames
  <2>1. 1 \in 1 .. Len(p) /\ 2 \in 1 .. Len(p) /\ 3 \in 1 .. Len(p) /\ 4 \in 1 .. Len(p) BY <1>3
  <2> QED BY <2>1
\* above the last level, the walk in links2 goes the same way
<1>5. \A f \in Frames, i \in Index : lvl[f] # 4 => links2[f][i] = links[f][i]
    BY <1>3 DEF OneChange
<1>6. ASSUME NEW k \in 1 .. 3, NEW y, OnLevel(lvl, own, y, t, k), NEW i \in Index
      PROVE  BelowIn(links2, y, i) = BelowIn(links, y, i)
  <2>1. k # 4 OBVIOUS
  <2>2. y \in Frames => lvl[y] # 4 BY <1>6, <2>1, Constants DEF OnLevel
  <2> QED BY <1>5, <2>2 DEF BelowIn
<1>7. OnLevel(lvl, own, Pml4[t], t, 1) BY Constants DEF Tree, OnLevel
<1>8. x2 = BelowIn(links2, Pml4[t], w[1]) BY <1>1, <1>2, <1>6, <1>7
<1>9. x3 = BelowIn(links2, x2, w[2]) BY <1>1, <1>2, <1>6
<1>10. x4 = BelowIn(links2, x3, w[3]) BY <1>1, <1>2, <1>6
<1>11. WalkIn(links2, t, w) = BelowIn(links2, x4, w[4])
    BY <1>8, <1>9, <1>10 DEF WalkIn
<1>12. CASE x4 = p[4] /\ w[4] = v[4]
\* each table has one parent entry
  <2> DEFINE Only(f, g, i, j) == Dir(lvl, f) /\ Dir(lvl, g) /\ links[f][i] \in Frames /\
                                 links[f][i] = links[g][j] => f = g /\ i = j
  <2>1. \A f, g \in Frames, i, j \in Index : Only(f, g, i, j) BY DEF Tree
  <2>2. Absent \notin Frames /\ Wild \cap Frames = {} /\ Junk \in Wild BY Constants
  <2>3. x3 \in Frames /\ lvl[x3] = 3 /\ links[x3][w[3]] = p[4]
      BY <1>2, <1>4, <1>12, <2>2 DEF OnLevel, BelowIn
  <2>4. x3 = p[3] /\ w[3] = v[3] BY <1>1, <1>3, <1>4, <2>1, <2>2, <2>3 DEF Dir
  <2>5. x2 \in Frames /\ lvl[x2] = 2 /\ links[x2][w[2]] = p[3]
      BY <1>2, <1>4, <2>2, <2>4 DEF OnLevel, BelowIn
  <2>6. x2 = p[2] /\ w[2] = v[2] BY <1>1, <1>3, <1>4, <2>1, <2>2, <2>5 DEF Dir
  <2>7. Pml4[t] \in Frames /\ lvl[Pml4[t]] = 1 /\ links[Pml4[t]][w[1]] = p[2]
      BY <1>2, <1>7, <2>6, Constants DEF OnLevel, BelowIn
  <2>8. Pml4[t] = p[1] /\ w[1] = v[1] BY <1>1, <1>3, <1>4, <2>1, <2>2, <2>7 DEF Dir
  <2>9. t = s BY <1>2, <1>3, <1>12, <2>2, <1>4 DEF OnLevel
  <2>10. w = v
    <3>1. v \in Index \X Index \X Index \X Index /\ w \in Index \X Index \X Index \X Index
        BY PagingAssumption
    <3>2. v = <<v[1], v[2], v[3], v[4]>> /\ w = <<w[1], w[2], w[3], w[4]>> BY <3>1
    <3> QED BY <1>12, <2>4, <2>6, <2>8, <3>2
  <2>11. BelowIn(links2, x4, w[4]) = x BY <1>1, <1>4, <1>12 DEF BelowIn, OneChange
  <2> QED BY <1>11, <2>9, <2>10, <2>11
<1>13. CASE ~(x4 = p[4] /\ w[4] = v[4])
  <2>1. BelowIn(links2, x4, w[4]) = BelowIn(links, x4, w[4])
      BY <1>1, <1>13 DEF BelowIn, OneChange
  <2>2. ~(t = s /\ w = v)
    <3> SUFFICES ASSUME t = s, w = v PROVE FALSE OBVIOUS
    <3>1. x2 = p[2] BY <1>2, <1>3, <1>4 DEF BelowIn
    <3>2. x3 = p[3] BY <1>2, <1>3, <1>4, <3>1 DEF BelowIn
    <3>3. x4 = p[4] BY <1>2, <1>3, <1>4, <3>2 DEF BelowIn
    <3> QED BY <1>13, <3>3
  <2> QED BY <1>2, <1>11, <2>1, <2>2
<1> QED BY <1>12, <1>13

\* A step that leaves what every page is mapped to.
SameMapping == \A s \in States, v \in VAddrs : WalkIn(Links', s, v) = WalkIn(Links, s, v)

(***************************************************************************)
(* The steps of a call.                                                    *)
(***************************************************************************)
\* The call of c is on the state s that it holds or is about to lock, and
\* only c moves on.
LEMMA OnlyItself ==
    ASSUME CallInv, NEW c \in Cpus, NEW s \in States, pc[c] \notin {"idle", "halted"}, call[c].state = s,
           lock[s] \in {c, Nobody},
           \A d \in Cpus \ {c} : /\ pc'[d] = pc[d] /\ path'[d] = path[d]
                                 /\ call'[d] = call[d] /\ new'[d] = new[d],
           \A t \in States \ {s} : lock'[t] = lock[t]
    PROVE  Still(c, s)
<1>1. \A t \in States \ {s} : lock[t] # c BY DEF CallInv, LockInv
<1> QED BY <1>1 DEF Still

\* The lock stays where it is, and so does who uses it.
LEMMA LockKept ==
    ASSUME CallInv, NEW c \in Cpus, lock' = lock, call' = call, pc[c] \in Section,
           pc'[c] \in Section, \A d \in Cpus \ {c} : pc'[d] = pc[d]
    PROVE  LockInv'
<1>1. ASSUME NEW d \in Cpus
      PROVE  /\ pc'[d] \in Section => lock[call[d].state] = d
             /\ \A s \in States : lock[s] = d => pc'[d] \in Section /\ call[d].state = s
  <2>1. CASE d = c BY <2>1 DEF CallInv, LockInv
  <2>2. CASE d # c BY <2>2 DEF CallInv, LockInv
  <2> QED BY <2>1, <2>2
<1> QED BY <1>1 DEF LockInv

LEMMA AskStep ==
    ASSUME IInv, NEW c \in Cpus, NEW w \in Waiting \cup {"halted"}, NEW r, pc[c] = "idle",
           w # "halted" => r.state \in States /\ r.va \in VAddrs,
           w = "map_lock" => r.pa \in PhysPages,
           pc' = [pc EXCEPT ![c] = w],
           call' = [call EXCEPT ![c] = r] \/ (call' = call /\ r = call[c]),
           UNCHANGED <<lock, free, mem, path, new, answer>>
    PROVE  IInv' /\ SameMapping
<1>1. PICK lvl \in [Frames -> 0 .. 4], own \in [Frames -> States] : TreesInv(lvl, own)
    BY DEF IInv
<1>2. CallInv BY DEF IInv
<1>3. /\ \A d \in Cpus : pc'[d] = (IF d = c THEN w ELSE pc[d])
      /\ \A d \in Cpus : call'[d] = (IF d = c THEN r ELSE call[d])
      /\ DOMAIN call' = Cpus
    BY <1>2 DEF CallInv, TypeInv
<1>4. w \notin Section /\ w \in {"map_lock", "unmap_lock", "get_lock", "halted"}
    BY DEF Waiting, Section, Walking
<1>5. TypeInv'
  <2>1. pc' \in [Cpus -> Places] BY <1>2 DEF CallInv, TypeInv, Places
  <2>2. ASSUME NEW d \in Cpus
        PROVE  /\ pc'[d] \notin {"idle", "halted"} =>
                    call'[d].state \in States /\ call'[d].va \in VAddrs
               /\ pc'[d] \in Mapping => call'[d].pa \in PhysPages
    <3>1. CASE d = c BY <1>3, <1>4, <3>1 DEF Mapping
    <3>2. CASE d # c BY <1>2, <1>3, <3>2 DEF CallInv, TypeInv
    <3> QED BY <3>1, <3>2
  <2> QED BY <1>2, <1>3, <2>1, <2>2 DEF CallInv, TypeInv
<1>6. \A t \in States : lock[t] # c BY <1>2 DEF CallInv, LockInv, Section, Walking
<1>7. LockInv' BY <1>2, <1>3, <1>4, <1>6 DEF CallInv, LockInv
<1>8. \A f, i : Unlinking(f, i)' <=> Unlinking(f, i)
  <2>1. \A d \in Cpus : /\ pc'[d] = "unlink" <=> pc[d] = "unlink"
                        /\ pc[d] = "unlink" => path'[d] = path[d] /\ call'[d] = call[d]
      BY <1>3, <1>4
  <2> QED BY <2>1, SameUnlinking
<1>9. Links' = Links BY <1>8 DEF Links, Link
<1>10. \A d \in Cpus : NewOk(d)' /\ UnlinkOk(d)' /\ HoleOk(d)'
    BY <1>2, <1>3, <1>4 DEF CallInv, NewOk, UnlinkOk, HoleOk, Entry, Top, Slot
<1>11. \A d \in Cpus : WalkOk(Links, lvl, own, d)'
  <2> SUFFICES ASSUME NEW d \in Cpus, pc'[d] \in Walking
               PROVE  Leads(Links', lvl, own, path'[d], Found(d)', call'[d].state, call'[d].va)
      BY DEF WalkOk
  <2>1. d # c /\ pc'[d] = pc[d] /\ call'[d] = call[d] BY <1>3, <1>4 DEF Section
  <2>2. Found(d)' = Found(d) BY <2>1 DEF Found
  <2> QED BY <1>1, <1>9, <2>1, <2>2 DEF TreesInv, WalkOk
<1>12. ASSUME NEW f \in Frames PROVE EmptyOk(lvl, own, f)'
  <2> SUFFICES ASSUME lvl[f] > 1, IsTableEmpty(f)', ~Kept(f, own[f])
               PROVE  Excused(f, own[f])'
      BY DEF EmptyOk
  <2>1. IsTableEmpty(f) BY DEF IsTableEmpty
  <2>2. Excused(f, own[f]) /\ own[f] \in States BY <1>1, <2>1 DEF TreesInv, EmptyOk
  <2>3. PICK d \in Cpus : d = lock[own[f]] BY <1>2, <2>2 DEF Excused, CallInv, TypeInv
  <2>4. pc'[d] = pc[d] /\ call'[d] = call[d] BY <1>3, <1>6, <2>2, <2>3
  <2>5. Top(d)' = Top(d) /\ Entry(d)' = Entry(d) BY <2>4 DEF Top, Entry, Slot
  <2> QED BY <2>2, <2>3, <2>4, <2>5 DEF Excused
<1>13. Tree(Links, lvl, own, free \cup News)'
  <2>1. News' = News BY DEF News
  <2> QED BY <1>1, <1>9, <2>1 DEF TreesInv
<1>14. IInv' BY <1>1, <1>5, <1>7, <1>10, <1>11, <1>12, <1>13 DEF IInv, CallInv, TreesInv
<1> QED BY <1>9, <1>14 DEF SameMapping

LEMMA HaltStep ==
    ASSUME IInv, NEW c \in Cpus, MapMisaligned(c)
    PROVE  IInv' /\ SameMapping
<1>1. PICK r : r = call[c] OBVIOUS
<1> QED BY <1>1, AskStep DEF MapMisaligned, Goto

LEMMA EnterStep ==
    ASSUME CallInv, NEW lvl, NEW own, TreesInv(lvl, own), NEW c \in Cpus,
           NEW label \in {"map_walk", "unmap_walk", "get_walk"},
           pc[c] \in Waiting, label = "map_walk" => pc[c] = "map_lock", Enter(c, label)
    PROVE  IInv' /\ SameMapping
<1> USE Constants
<1> DEFINE s == call[c].state
<1>1. /\ s \in States /\ call[c].va \in VAddrs /\ lock[s] = Nobody
      /\ pc[c] \notin Section /\ pc[c] \notin {"idle", "halted"}
    BY DEF CallInv, TypeInv, Enter, Waiting, Section, Walking
<1>2. /\ \A d \in Cpus : pc'[d] = (IF d = c THEN label ELSE pc[d])
      /\ \A d \in Cpus : path'[d] = (IF d = c THEN <<Pml4[s]>> ELSE path[d])
      /\ \A t \in States : lock'[t] = (IF t = s THEN c ELSE lock[t])
      /\ UNCHANGED <<free, mem, call, new, answer>>
    BY <1>1 DEF CallInv, TypeInv, Enter, Goto
<1>3. Still(c, s) BY <1>1, <1>2, OnlyItself
<1>4. label \in Section /\ label \in Walking BY DEF Section, Walking
<1>5. TypeInv'
  <2>1. /\ pc' \in [Cpus -> Places]
        /\ lock' \in [States -> Cpus \cup {Nobody}]
        /\ path' \in [Cpus -> Seq(Frames)]
    <3>1. <<Pml4[s]>> \in Seq(Frames) BY <1>1
    <3> QED BY <1>1, <1>4, <3>1 DEF CallInv, TypeInv, Enter, Goto, Places
  <2>2. ASSUME NEW d \in Cpus
        PROVE  /\ pc'[d] \notin {"idle", "halted"} =>
                    call'[d].state \in States /\ call'[d].va \in VAddrs
               /\ pc'[d] \in Mapping => call'[d].pa \in PhysPages
    <3>1. CASE d = c BY <1>1, <1>2, <3>1 DEF Mapping, CallInv, TypeInv
    <3>2. CASE d # c BY <1>2, <3>2 DEF CallInv, TypeInv
    <3> QED BY <3>1, <3>2
  <2> QED BY <1>2, <2>1, <2>2 DEF CallInv, TypeInv
<1>6. LockInv'
  <2>1. ASSUME NEW d \in Cpus
        PROVE  /\ pc'[d] \in Section => lock'[call[d].state] = d
               /\ \A t \in States : lock'[t] = d => pc'[d] \in Section /\ call[d].state = t
    <3>1. CASE d = c BY <1>1, <1>2, <1>4, <3>1 DEF CallInv, LockInv
    <3>2. CASE d # c
      <4>1. LockInv /\ (pc[d] \in Section => call[d].state \in States)
          BY DEF CallInv, TypeInv, Section, Walking
      <4>2. pc'[d] = pc[d] BY <1>2, <3>2
      <4>3. pc[d] \in Section => lock[call[d].state] = d BY <4>1 DEF LockInv
      <4>4. \A t \in States : lock[t] = d => pc[d] \in Section /\ call[d].state = t
          BY <4>1 DEF LockInv
      <4> QED BY <1>1, <1>2, <3>2, <4>1, <4>2, <4>3, <4>4
    <3> QED BY <3>1, <3>2
  <2> QED BY <1>2, <2>1 DEF LockInv
<1>7. pc[c] # "unlink" /\ pc'[c] # "unlink" BY <1>1, <1>2 DEF Section, Walking
<1>8. Links' = Links
  <2>1. \A f \in Frames : Links'[f] = Links[f] BY <1>2, <1>3, <1>7, SameLinks
  <2> QED BY <2>1 DEF Links
<1>9. NewOk(c)' /\ UnlinkOk(c)' /\ HoleOk(c)' /\ \A d \in Cpus : new'[d] \notin free'
  <2>1. pc[c] \notin {"map_clear", "map_link"} BY <1>1 DEF Section, Walking
  <2> QED BY <1>2, <1>7, <2>1 DEF CallInv, NewOk, UnlinkOk, HoleOk
<1>10. Tree(Links', lvl, own, (free \cup News)')
  <2>1. News' = News BY <1>2 DEF News
  <2> QED BY <1>2, <1>8, <2>1 DEF TreesInv
<1>11. WalkOk(Links, lvl, own, c)'
  <2>1. path'[c] = <<Pml4[s]>> /\ Found(c)' = 1 /\ call'[c] = call[c]
      BY <1>2, <1>7 DEF Found
  <2>2. lvl[Pml4[s]] = 1 /\ own[Pml4[s]] = s BY <1>1 DEF TreesInv, Tree
  <2>3. Leads(Links', lvl, own, <<Pml4[s]>>, 1, s, call[c].va) BY <2>2 DEF Leads
  <2> QED BY <2>1, <2>3 DEF WalkOk
<1>12. ASSUME NEW f \in Frames, own[f] = s PROVE EmptyOk(lvl, own, f)'
  <2>1. ~Excused(f, own[f]) BY <1>1, <1>12 DEF Excused
  <2>2. EmptyOk(lvl, own, f) BY DEF TreesInv
  <2>3. IsTableEmpty(f)' <=> IsTableEmpty(f) BY <1>2 DEF IsTableEmpty
  <2> QED BY <2>1, <2>2, <2>3 DEF EmptyOk
<1>13. Agrees(c, s, lvl, own, lvl, own) BY <1>2, <1>8 DEF Agrees
<1> HIDE DEF s
<1>14. SameMapping BY <1>8 DEF SameMapping
<1> QED BY <1>1, <1>3, <1>5, <1>6, <1>9, <1>10, <1>11, <1>12, <1>13, <1>14, Assemble

\* A step that reads the tables: the walk goes on, or ends.
Reads(c) ==
    /\ pc[c] \in {"map_walk", "unmap_walk", "get_walk", "prune"}
    /\ pc'[c] \in {pc[c], "unlock", "panic"}
    /\ pc' \in [Cpus -> Places] /\ path' \in [Cpus -> Seq(Frames)] /\ DOMAIN answer' = Cpus
    /\ \A d \in Cpus \ {c} : pc'[d] = pc[d] /\ path'[d] = path[d]
    /\ UNCHANGED <<lock, free, mem, call, new>>

EmptyStays(lvl, own, s) ==
    \A f \in Frames : own[f] = s /\ lvl[f] > 1 /\ IsTableEmpty(f) =>
        Kept(f, s) \/ Excused(f, s)'

LEMMA ReadStep ==
    ASSUME CallInv, NEW lvl, NEW own, TreesInv(lvl, own), NEW c \in Cpus, NEW s,
           s = call[c].state, Reads(c), EmptyStays(lvl, own, s),
           pc'[c] = pc[c] => Leads(Links, lvl, own, path'[c], Len(path'[c]), s, call[c].va)
    PROVE  IInv' /\ SameMapping
<1> USE DEF Reads
<1> USE Constants
<1>1. s \in States /\ pc[c] \in Walking /\ pc[c] \in Section /\ lock[s] = c
      /\ pc[c] \notin {"idle", "halted"}
    BY DEF CallInv, TypeInv, LockInv, Section, Walking
<1>2. Still(c, s) BY <1>1, OnlyItself
<1>3. pc'[c] \in Section BY <1>1 DEF Section
<1>4. TypeInv'
  <2>2. ASSUME NEW d \in Cpus
        PROVE  /\ pc'[d] \notin {"idle", "halted"} =>
                    call'[d].state \in States /\ call'[d].va \in VAddrs
               /\ pc'[d] \in Mapping => call'[d].pa \in PhysPages
    <3>1. CASE d = c BY <1>1, <3>1 DEF Mapping, CallInv, TypeInv
    <3>2. CASE d # c BY <3>2 DEF CallInv, TypeInv
    <3> QED BY <3>1, <3>2
  <2> QED BY <2>2 DEF CallInv, TypeInv
<1>5. LockInv' BY <1>1, <1>3, LockKept
<1>6. pc[c] # "unlink" /\ pc'[c] # "unlink" OBVIOUS
<1>7. Links' = Links
  <2>1. \A f \in Frames : Links'[f] = Links[f] BY <1>2, <1>6, SameLinks
  <2> QED BY <2>1 DEF Links
<1>8. NewOk(c)' /\ UnlinkOk(c)' /\ HoleOk(c)' /\ \A d \in Cpus : new'[d] \notin free'
    BY <1>6 DEF CallInv, NewOk, UnlinkOk, HoleOk
<1>9. Tree(Links', lvl, own, (free \cup News)')
  <2>1. News' = News BY DEF News
  <2> QED BY <1>7, <2>1 DEF TreesInv
<1>10. WalkOk(Links, lvl, own, c)'
  <2> SUFFICES ASSUME pc'[c] \in Walking
               PROVE  Leads(Links', lvl, own, path'[c], Found(c)', call'[c].state, call'[c].va)
      BY DEF WalkOk
  <2>1. pc'[c] = pc[c] BY DEF Walking
  <2>2. Found(c)' = Len(path'[c]) BY <1>6 DEF Found
  <2> QED BY <1>7, <2>1, <2>2
<1>11. ASSUME NEW f \in Frames, own[f] = s PROVE EmptyOk(lvl, own, f)'
  <2>1. IsTableEmpty(f)' <=> IsTableEmpty(f) BY DEF IsTableEmpty
  <2> QED BY <1>11, <2>1 DEF EmptyOk, EmptyStays
<1>12. Agrees(c, s, lvl, own, lvl, own) BY <1>7 DEF Agrees
<1>13. SameMapping BY <1>7 DEF SameMapping
<1> QED BY <1>1, <1>2, <1>4, <1>5, <1>8, <1>9, <1>10, <1>11, <1>12, <1>13, Assemble

\* An empty table of the state that c has locked is where c is.
LEMMA EmptyAtTop ==
    ASSUME CallInv, NEW lvl, NEW own, TreesInv(lvl, own), NEW c \in Cpus, pc[c] \in Walking,
           NEW f \in Frames, own[f] = call[c].state, lvl[f] > 1, IsTableEmpty(f)
    PROVE  \/ Kept(f, call[c].state)
           \/ pc[c] \in {"map_walk", "map_clear", "map_link", "prune"} /\ f = Top(c)
           \/ pc[c] = "map_walk" /\ f = Entry(c)
<1>1. lock[call[c].state] = c BY DEF CallInv, LockInv, Section
<1>2. EmptyOk(lvl, own, f) BY DEF TreesInv
<1>3. pc[c] # "panic" BY DEF Walking
<1> QED BY <1>1, <1>2, <1>3 DEF EmptyOk, Excused

\* Panic, with the lock held.
LEMMA PanicStep ==
    ASSUME CallInv, NEW lvl, NEW own, TreesInv(lvl, own), NEW c \in Cpus,
           pc[c] \in {"map_walk", "unmap_walk"}, Panic(c)
    PROVE  IInv' /\ SameMapping
<1>1. "panic" \in Places BY DEF Places, Section
<1>2. Reads(c) /\ pc'[c] = "panic" BY <1>1 DEF Reads, Panic, Goto, CallInv, TypeInv
<1>3. PICK s : s = call[c].state OBVIOUS
<1>4. lock[s] = c /\ c # Nobody
    BY <1>3, Constants DEF CallInv, LockInv, Section, Walking
<1>5. EmptyStays(lvl, own, s) BY <1>2, <1>4 DEF EmptyStays, Excused, Reads
<1>6. pc'[c] # pc[c] BY <1>2
<1> QED BY <1>2, <1>3, <1>5, <1>6, ReadStep

\* UnmapPage ends with PruneStop, GetPhysicalAddress with GetFound.
LEMMA EndStep ==
    ASSUME CallInv, NEW lvl, NEW own, TreesInv(lvl, own), NEW c \in Cpus,
           PruneStop(c) \/ GetFound(c)
    PROVE  IInv' /\ SameMapping
<1>1. /\ pc' = [pc EXCEPT ![c] = "unlock"] /\ UNCHANGED <<lock, free, mem, call, path, new>>
      /\ pc[c] \in {"get_walk", "prune"} /\ pc[c] \in Walking /\ pc[c] # "unlink"
      /\ DOMAIN answer' = Cpus
    BY DEF PruneStop, GetFound, Goto, Walking, CallInv, TypeInv
<1>2. "unlock" \in Places BY DEF Places, Section
<1>3. Reads(c) /\ pc'[c] # pc[c] BY <1>1, <1>2 DEF Reads, CallInv, TypeInv
<1>4. ASSUME NEW f \in Frames, own[f] = call[c].state, lvl[f] > 1, IsTableEmpty(f)
      PROVE  Kept(f, call[c].state)
  <2> SUFFICES ASSUME pc[c] = "prune", f = Top(c)
               PROVE  Kept(f, call[c].state)
      BY <1>1, <1>4, EmptyAtTop
  <2>1. ~Prunable(c) BY <1>1 DEF PruneStop, GetFound
  <2>2. lvl[f] = Len(path[c]) /\ Found(c) = Len(path[c]) BY <1>1, AtTop
  <2>3. Len(path[c]) = 2 /\ call[c].va[1] \in KernelIndex BY <1>4, <2>1, <2>2 DEF Prunable
  <2>4. /\ path[c][1] = Pml4[call[c].state] /\ call[c].state \in States
        /\ 1 \in 1 .. Found(c) - 1
      BY <1>1, <2>2, <2>3, Inside
  <2>5. Links[path[c][1]][call[c].va[1]] = path[c][1 + 1] BY <1>1, <2>4, Inside
  <2>6. f = path[c][2] /\ 1 + 1 = 2 BY <2>3 DEF Top
  <2>7. Links[Pml4[call[c].state]][call[c].va[1]] = Boot[Pml4[call[c].state]][call[c].va[1]]
      BY <2>3, <2>4 DEF TreesInv, Tree
  <2> QED BY <2>3, <2>4, <2>5, <2>6, <2>7 DEF Kept
<1>5. PICK s : s = call[c].state OBVIOUS
<1>6. EmptyStays(lvl, own, s) BY <1>4, <1>5 DEF EmptyStays
<1> QED BY <1>5, <1>6, <1>3, ReadStep

LEMMA DescendStep ==
    ASSUME CallInv, NEW lvl, NEW own, TreesInv(lvl, own), NEW c \in Cpus,
           MapDescend(c) \/ UnmapDescend(c) \/ GetDescend(c), ~Astray(c)
    PROVE  IInv' /\ SameMapping
<1> DEFINE p == Append(path[c], Entry(c))
           n == Len(path[c])
<1>1. /\ path' = [path EXCEPT ![c] = p] /\ Entry(c) \notin Wild \cup {Absent} /\ n # 4
      /\ pc[c] \in {"map_walk", "unmap_walk", "get_walk"}
      /\ UNCHANGED <<lock, free, mem, pc, call, new, answer>>
    BY DEF MapDescend, UnmapDescend, GetDescend, Descend, IsLeaf, Present, Astray
<1>2. pc[c] \in Walking /\ pc[c] # "unlink" BY <1>1 DEF Walking
<1>3. /\ n \in 1 .. 4 /\ Top(c) \in Frames /\ lvl[Top(c)] = n
      /\ own[Top(c)] = call[c].state /\ Slot(c) \in Index /\ Links[Top(c)][Slot(c)] = Entry(c)
      /\ Found(c) = n
    BY <1>2, AtTop
<1>4. Dir(lvl, Top(c)) BY <1>1, <1>3 DEF Dir
<1>5. Entry(c) \in Frames /\ lvl[Entry(c)] = n + 1 /\ own[Entry(c)] = call[c].state
    BY <1>1, <1>3, <1>4 DEF TreesInv, Tree
<1>6. p \in Seq(Frames) /\ Len(p) = n + 1 /\ p[n + 1] = Entry(c)
      /\ \A k \in 1 .. n : p[k] = path[c][k]
  <2>1. path[c] \in Seq(Frames) BY DEF CallInv, TypeInv
  <2> QED BY <1>5, <2>1
<1> HIDE DEF p
<1>7. Leads(Links, lvl, own, p, Len(p), call[c].state, call[c].va)
  <2>1. PICK m : m = n + 1 OBVIOUS
  <2>2. m \in 1 .. 4 /\ m - 1 = n
    <3>1. \A i \in 1 .. 4 : i # 4 => i + 1 \in 1 .. 4 /\ (i + 1) - 1 = i OBVIOUS
    <3> QED BY <1>1, <1>3, <2>1, <3>1
  <2>3. m <= Len(p) /\ m = Len(p) BY <1>6, <2>1, <2>2
  <2>4. p[1] = Pml4[call[c].state] BY <1>2, <1>3, <1>6, Inside
  <2>5. ASSUME NEW k \in 1 .. m PROVE lvl[p[k]] = k /\ own[p[k]] = call[c].state
    <3>1. CASE k = m BY <1>5, <1>6, <2>1, <3>1
    <3>2. CASE k # m
      <4>1. k \in 1 .. n BY <1>3, <2>1, <3>2
      <4> QED BY <1>2, <1>3, <1>6, <4>1, Inside
    <3> QED BY <3>1, <3>2
  <2>6. ASSUME NEW k \in 1 .. m - 1 PROVE Links[p[k]][call[c].va[k]] = p[k + 1]
    <3>1. CASE k = n BY <1>3, <1>6, <3>1 DEF Top, Slot
    <3>2. CASE k # n
      <4>1. k \in 1 .. n /\ k \in 1 .. n - 1 /\ k + 1 \in 1 .. n BY <1>3, <2>2, <3>2
      <4> HIDE DEF n
      <4>2. Links[path[c][k]][call[c].va[k]] = path[c][k + 1] BY <1>2, <1>3, <4>1, Inside
      <4> QED BY <1>6, <4>1, <4>2
    <3> QED BY <3>1, <3>2
  <2>7. Leads(Links, lvl, own, p, m, call[c].state, call[c].va)
      BY <2>2, <2>3, <2>4, <2>5, <2>6 DEF Leads
  <2> QED BY <2>3, <2>7
<1>8. PICK s : s = call[c].state OBVIOUS
<1>9. ASSUME NEW f \in Frames, own[f] = s, lvl[f] > 1, IsTableEmpty(f)
      PROVE  Kept(f, s) \/ Excused(f, s)'
  <2>1. ~IsTableEmpty(Top(c)) BY <1>1, <1>3, Constants DEF IsTableEmpty, Entry, Present
  <2> SUFFICES ASSUME pc[c] = "map_walk", f = Entry(c) PROVE Excused(f, s)'
      BY <1>8, <1>2, <1>9, <2>1, EmptyAtTop
  <2>2. path'[c] = p BY <1>1 DEF CallInv, TypeInv
  <2>3. Top(c)' = Entry(c) BY <1>6, <2>2 DEF Top
  <2>4. lock[s] = c /\ c # Nobody BY <1>2, <1>8, Constants, Inside
  <2> QED BY <1>1, <2>3, <2>4 DEF Excused
<1>10. /\ pc' \in [Cpus -> Places] /\ pc' = pc /\ path'[c] = p /\ path' \in [Cpus -> Seq(Frames)]
       /\ (\A d \in Cpus \ {c} : path'[d] = path[d]) /\ DOMAIN answer' = Cpus
    BY <1>1, <1>6 DEF CallInv, TypeInv
<1>11. Leads(Links, lvl, own, path'[c], Len(path'[c]), s, call[c].va) BY <1>8, <1>7, <1>10
<1>12. EmptyStays(lvl, own, s) BY <1>9 DEF EmptyStays
<1>13. Reads(c) BY <1>1, <1>10 DEF Reads
<1> HIDE DEF n
<1> QED BY <1>8, <1>11, <1>12, <1>13, ReadStep

\* A step of c inside its section.
Moves(c) ==
    /\ pc[c] \in Walking /\ pc'[c] \in Section
    /\ pc'[c] \in Mapping => pc[c] \in Mapping
    /\ pc' \in [Cpus -> Places] /\ path' \in [Cpus -> Seq(Frames)]
    /\ new' \in [Cpus -> Frames \cup {Nobody}] /\ free' \subseteq Frames
    /\ mem' \in [Frames -> [Index -> Values]]
    /\ \A d \in Cpus \ {c} : pc'[d] = pc[d] /\ path'[d] = path[d] /\ new'[d] = new[d]
    /\ UNCHANGED <<lock, call, answer>>

LEMMA MoveStep ==
    ASSUME CallInv, NEW c \in Cpus, Moves(c)
    PROVE  /\ TypeInv' /\ LockInv'
           /\ \A s : s = call[c].state => s \in States /\ lock[s] = c /\ Still(c, s)
<1> USE DEF Moves
<1>1. /\ call[c].state \in States /\ pc[c] \in Section /\ lock[call[c].state] = c
      /\ pc[c] \notin {"idle", "halted"} /\ c # Nobody
    BY Constants DEF CallInv, TypeInv, LockInv, Section, Walking
<1>2. Still(c, call[c].state) BY <1>1, OnlyItself
<1>3. LockInv' BY <1>1, LockKept
<1>4. ASSUME NEW d \in Cpus
      PROVE  /\ pc'[d] \notin {"idle", "halted"} =>
                    call'[d].state \in States /\ call'[d].va \in VAddrs
             /\ pc'[d] \in Mapping => call'[d].pa \in PhysPages
  <2>1. CASE d = c BY <1>1, <2>1 DEF CallInv, TypeInv
  <2>2. CASE d # c BY <2>2 DEF CallInv, TypeInv
  <2> QED BY <2>1, <2>2
<1>5. TypeInv' BY <1>4 DEF CallInv, TypeInv, Values
<1> QED BY <1>1, <1>2, <1>3, <1>5

\* The least of the free frames exists.
LEMMA FirstFit ==
    ASSUME NEW S, \A f \in S : f \in Nat, S # {}
    PROVE  (CHOOSE g \in S : \A h \in S : g <= h) \in S
<1> DEFINE R == OpToRel(<, Nat)
<1>1. IsWellFoundedOn(R, Nat) BY NatLessThanWellFounded
<1>2. \A x, y \in Nat : <<y, x>> \in R <=> y < x BY DEF OpToRel
<1> HIDE DEF R
<1>3. S \in SUBSET Nat OBVIOUS
<1>4. PICK x \in S : \A y \in S : ~(<<y, x>> \in R) BY <1>1, <1>3, WFMin
<1>5. ASSUME NEW y \in S PROVE x <= y
  <2>1. x \in Nat /\ y \in Nat /\ ~(<<y, x>> \in R) BY <1>4
  <2> QED BY <1>2, <2>1
<1> QED BY <1>5

LEMMA MapAllocateStep ==
    ASSUME CallInv, NEW lvl, NEW own, TreesInv(lvl, own), NEW c \in Cpus, MapAllocate(c)
    PROVE  IInv' /\ SameMapping
<1>1. PICK f \in free : f = CHOOSE g \in free : \A h \in free : g <= h
  <2>1. free # {} /\ \A f \in free : f \in Nat
      BY Constants DEF MapAllocate, CallInv, TypeInv
  <2> QED BY <2>1, FirstFit
<1>2. /\ new' = [new EXCEPT ![c] = f] /\ free' = free \ {f} /\ pc' = [pc EXCEPT ![c] = "map_clear"]
      /\ UNCHANGED <<lock, mem, call, path, answer>>
      /\ pc[c] = "map_walk" /\ Entry(c) = Absent
    BY <1>1 DEF MapAllocate, Goto, Present
<1>3. f \in Frames /\ f \in free /\ f # Nobody BY <1>1, Constants DEF CallInv, TypeInv
<1>4. /\ "map_clear" \in Places /\ "map_clear" \in Section
      /\ "map_walk" \in Walking /\ "map_walk" \in Mapping
    BY DEF Places, Section, Walking, Mapping
<1>5. Moves(c) /\ pc'[c] = "map_clear" /\ new'[c] = f
    BY <1>2, <1>3, <1>4 DEF Moves, CallInv, TypeInv, Values
<1>6. PICK s : s = call[c].state OBVIOUS
<1>7. TypeInv' /\ LockInv' /\ s \in States /\ lock[s] = c /\ Still(c, s) BY <1>5, <1>6, MoveStep
<1>8. /\ \A f2 \in Frames : Links'[f2] = Links[f2]
      /\ Links' = Links
  <2>1. \A f2 \in Frames : Links'[f2] = Links[f2] BY <1>2, <1>5, <1>7, SameLinks
  <2> QED BY <2>1 DEF Links
<1>9. \A d \in Cpus : NewOk(d) /\ new[d] \in Frames \cup {Nobody} BY DEF CallInv, TypeInv
<1>10. NewOk(c)' /\ \A d \in Cpus : new'[d] \notin free'
  <2>1. \A d \in Cpus : new'[d] = IF d = c THEN f ELSE new[d] BY <1>2 DEF CallInv, TypeInv
  <2>2. \A d \in Cpus : new[d] # f BY <1>3, <1>9 DEF NewOk
  <2> QED BY <1>2, <1>3, <1>5, <1>9, <2>1, <2>2 DEF NewOk
<1>11. UnlinkOk(c)' /\ HoleOk(c)'
    BY <1>2, <1>5 DEF UnlinkOk, HoleOk, Entry, Top, Slot, MapAllocate, IsLeaf
<1>12. (free \cup News)' = free \cup News
  <2>1. new[c] = Nobody BY <1>2, <1>9 DEF NewOk
  <2>2. \A d \in Cpus : new'[d] = IF d = c THEN f ELSE new[d] BY <1>2 DEF CallInv, TypeInv
  <2>3. \A x : x \in News' <=> x \in News \/ x = f BY <1>3, <2>1, <2>2 DEF News
  <2> QED BY <1>2, <1>3, <2>3
<1>13. Tree(Links', lvl, own, (free \cup News)') BY <1>8, <1>12 DEF TreesInv
<1>14. WalkOk(Links, lvl, own, c)'
  <2>1. Found(c)' = Found(c) BY <1>2, <1>5 DEF Found
  <2>2. pc[c] \in Walking BY <1>2, <1>4
  <2>3. Leads(Links, lvl, own, path[c], Found(c), call[c].state, call[c].va)
      BY <2>2 DEF TreesInv, WalkOk
  <2>4. path' = path /\ call' = call BY <1>2
  <2> QED BY <1>8, <2>1, <2>3, <2>4 DEF WalkOk
<1>15. ASSUME NEW g \in Frames, own[g] = s PROVE EmptyOk(lvl, own, g)'
  <2> SUFFICES ASSUME lvl[g] > 1, IsTableEmpty(g)', ~Kept(g, own[g])
               PROVE  Excused(g, s)'
      BY <1>15 DEF EmptyOk
  <2>1. IsTableEmpty(g) BY <1>2 DEF IsTableEmpty
  <2>2. pc[c] \in Walking /\ Entry(c) \notin Frames BY <1>2, <1>4, Constants
  <2>3. g = Top(c) BY <1>6, <1>15, <2>1, <2>2, EmptyAtTop
  <2>4. Top(c)' = Top(c) BY <1>2 DEF Top
  <2> QED BY <1>2, <1>5, <1>7, <2>3, <2>4, Constants DEF Excused
<1>16. Agrees(c, s, lvl, own, lvl, own) BY <1>2, <1>8 DEF Agrees
<1>17. SameMapping BY <1>8 DEF SameMapping
<1> QED BY <1>7, <1>10, <1>11, <1>13, <1>14, <1>15, <1>16, <1>17, Assemble

\* The frame that c is going to link is no table.
LEMMA NewFrame ==
    ASSUME CallInv, NEW lvl, NEW own, TreesInv(lvl, own), NEW c \in Cpus,
           pc[c] \in {"map_clear", "map_link"}
    PROVE  /\ new[c] \in Frames /\ new[c] # Nobody /\ new[c] \in News /\ lvl[new[c]] = 0
           /\ new[c] \notin free /\ \A d \in Cpus : new[d] = new[c] => d = c
           /\ \A d \in Cpus : new[d] \notin free
<1>1. /\ NewOk(c) /\ new[c] \in Frames \cup {Nobody}
      /\ \A d \in Cpus : NewOk(d)
    BY DEF CallInv, TypeInv
<1>2. new[c] \in Frames /\ new[c] # Nobody BY <1>1 DEF NewOk
<1>3. new[c] \in News BY <1>2 DEF News
<1>4. lvl[new[c]] = 0 BY <1>2, <1>3 DEF TreesInv, Tree
<1> QED BY <1>1, <1>2, <1>3, <1>4 DEF NewOk

\* The tables on the way of c, and the links between them, stay.
LEMMA LeadsKept ==
    ASSUME NEW links, NEW lvl, NEW own, NEW p, NEW n, NEW s, NEW v,
           Leads(links, lvl, own, p, n, s, v), NEW links2, NEW lvl2, NEW own2,
           \A k \in 1 .. n : lvl2[p[k]] = lvl[p[k]] /\ own2[p[k]] = own[p[k]],
           \A k \in 1 .. n - 1 : links2[p[k]][v[k]] = links[p[k]][v[k]]
    PROVE  Leads(links2, lvl2, own2, p, n, s, v)
  BY DEF Leads

LEMMA MapClearStep ==
    ASSUME CallInv, NEW lvl, NEW own, TreesInv(lvl, own), NEW c \in Cpus, MapClear(c)
    PROVE  IInv' /\ SameMapping
<1>1. /\ mem' = [mem EXCEPT ![new[c]] = Empty] /\ pc' = [pc EXCEPT ![c] = "map_link"]
      /\ pc[c] = "map_clear" /\ UNCHANGED <<lock, free, call, path, new, answer>>
    BY DEF MapClear, Goto
<1>2. /\ new[c] \in Frames /\ new[c] # Nobody /\ lvl[new[c]] = 0
      /\ \A d \in Cpus : new[d] \notin free
      /\ \A d \in Cpus : new[d] = new[c] => d = c
    BY <1>1, NewFrame
<1>3. /\ "map_link" \in Places /\ "map_link" \in Section
      /\ "map_clear" \in Walking /\ "map_clear" \in Mapping
    BY DEF Places, Section, Walking, Mapping
<1>4. Empty \in [Index -> Values] BY DEF Empty, Values
<1>5. Moves(c) /\ pc'[c] = "map_link" /\ mem'[new[c]] = Empty
    BY <1>1, <1>2, <1>3, <1>4 DEF Moves, CallInv, TypeInv, Values
<1>6. PICK s : s = call[c].state OBVIOUS
<1>7. TypeInv' /\ LockInv' /\ s \in States /\ lock[s] = c /\ Still(c, s) BY <1>5, <1>6, MoveStep
<1>8. \A f \in Frames : f # new[c] => mem'[f] = mem[f] /\ Links'[f] = Links[f]
  <2>1. \A f \in Frames : f # new[c] => mem'[f] = mem[f] BY <1>1, <1>2 DEF CallInv, TypeInv
  <2> QED BY <1>1, <1>5, <1>7, <2>1, SameLinks
<1>9. Links' \in [Frames -> [Index -> Values]]
  <2>1. mem' \in [Frames -> [Index -> Values]] BY <1>5 DEF Moves
  <2> QED BY <2>1 DEF Links, Link, Values
<1>10. \A f \in Frames : lvl[f] # 0 => f # new[c] /\ mem'[f] = mem[f] /\ Links'[f] = Links[f]
    BY <1>2, <1>8
<1>11. Tree(Links', lvl, own, (free \cup News)')
  <2>1. Tree(Links, lvl, own, free \cup News) BY DEF TreesInv
  <2>2. \A f \in Frames : Dir(lvl, f) => Links'[f] = Links[f] BY <1>10 DEF Dir
  <2>3. \A f \in Frames, j \in Index : lvl[f] = 4 => Links'[f][j] \in PhysPages \cup {Absent}
      BY <1>10, <2>1 DEF Tree
  <2>4. (free \cup News)' = free \cup News BY <1>1 DEF News
  <2>5. Tree(Links', lvl, own, free \cup News) BY <1>9, <2>1, <2>2, <2>3, TreeLeaf
  <2> QED BY <2>4, <2>5
<1>12. NewOk(c)' /\ UnlinkOk(c)' /\ HoleOk(c)' /\ \A d \in Cpus : new'[d] \notin free'
  <2>1. \A d \in Cpus : new'[d] = new[d] BY <1>1
  <2>2. Top(c) \in Frames /\ Top(c) \notin News BY <1>1, <1>3, AtTop
  <2>3. mem'[Top(c)] = mem[Top(c)] BY <1>1, <1>8, <2>2, NewFrame
  <2>4. HoleOk(c) BY DEF CallInv
  <2>5. HoleOk(c)' BY <1>1, <2>3, <2>4 DEF HoleOk, Entry, Top, Slot
  <2> QED BY <1>1, <1>2, <1>5, <2>1, <2>5 DEF NewOk, UnlinkOk
<1>13. WalkOk(Links, lvl, own, c)'
  <2>1. pc[c] \in Walking /\ Found(c)' = Found(c) BY <1>1, <1>3, <1>5 DEF Found
  <2>2. /\ Leads(Links, lvl, own, path[c], Found(c), call[c].state, call[c].va)
        /\ \A k \in 1 .. Found(c) : path[c][k] \in Frames /\ lvl[path[c][k]] = k
        /\ Found(c) \in 1 .. 4
    <3>1. Leads(Links, lvl, own, path[c], Found(c), call[c].state, call[c].va)
        BY <2>1 DEF TreesInv, WalkOk
    <3> QED BY <2>1, <3>1, Inside
  <2>3. \A n \in 1 .. 4 : \A k \in 1 .. n - 1 : k \in 1 .. n OBVIOUS
  <2>4. \A k \in 1 .. Found(c) - 1 : Links'[path[c][k]] = Links[path[c][k]]
    <3> SUFFICES ASSUME NEW k \in 1 .. Found(c) - 1 PROVE Links'[path[c][k]] = Links[path[c][k]]
        OBVIOUS
    <3>1. k \in 1 .. Found(c) BY <2>2, <2>3
    <3>2. path[c][k] \in Frames /\ lvl[path[c][k]] # 0 BY <2>2, <3>1
    <3> QED BY <1>10, <3>2
  <2>5. Leads(Links', lvl, own, path[c], Found(c), call[c].state, call[c].va)
      BY <2>2, <2>4, LeadsKept
  <2>6. path' = path /\ call' = call BY <1>1
  <2> QED BY <2>1, <2>5, <2>6 DEF WalkOk
<1>14. ASSUME NEW g \in Frames, own[g] = s PROVE EmptyOk(lvl, own, g)'
  <2> SUFFICES ASSUME lvl[g] > 1, IsTableEmpty(g)', ~Kept(g, own[g])
               PROVE  Excused(g, s)'
      BY <1>14 DEF EmptyOk
  <2>1. lvl[g] # 0 BY DEF TreesInv, Tree
  <2>2. IsTableEmpty(g) BY <1>10, <2>1 DEF IsTableEmpty
  <2>3. g = Top(c) BY <1>1, <1>3, <1>6, <1>14, <2>2, EmptyAtTop
  <2>4. Top(c)' = Top(c) BY <1>1 DEF Top
  <2> QED BY <1>1, <1>5, <1>7, <2>3, <2>4, Constants DEF Excused
<1>15. Agrees(c, s, lvl, own, lvl, own) BY <1>8, <1>10 DEF Agrees
<1>16. SameMapping 
  <2>1. SameBut(Links, Links', lvl) BY <1>10 DEF SameBut
  <2>2. Tree(Links, lvl, own, free \cup News) BY DEF TreesInv
  <2> QED BY <2>1, <2>2, SameWalk DEF SameMapping
<1> QED BY <1>7, <1>11, <1>12, <1>13, <1>14, <1>15, <1>16, Assemble

\* c writes x to the entry where its walk is.
Writes(c, x) ==
    /\ Moves(c) /\ pc[c] # "unlink" /\ pc'[c] # "unlink" /\ x \in Values
    /\ mem' = [mem EXCEPT ![Top(c)][Slot(c)] = x]

LEMMA WriteLinks ==
    ASSUME CallInv, NEW lvl, NEW own, TreesInv(lvl, own), NEW c \in Cpus, NEW x, Writes(c, x)
    PROVE  /\ Links' = [Links EXCEPT ![Top(c)][Slot(c)] = x]
           /\ Links' \in [Frames -> [Index -> Values]]
           /\ \A f \in Frames, i \in Index :
                /\ mem'[f][i] = IF f = Top(c) /\ i = Slot(c) THEN x ELSE mem[f][i]
                /\ Links'[f][i] = IF f = Top(c) /\ i = Slot(c) THEN x ELSE Links[f][i]
           /\ \A f \in Frames : f # Top(c) => mem'[f] = mem[f] /\ Links'[f] = Links[f]
<1>1. /\ Moves(c) /\ pc[c] # "unlink" /\ pc'[c] # "unlink" /\ x \in Values /\ pc[c] \in Walking
      /\ mem' = [mem EXCEPT ![Top(c)][Slot(c)] = x]
    BY DEF Writes, Moves
<1>2. PICK s : s = call[c].state OBVIOUS
<1>3. Still(c, s) BY <1>1, <1>2, MoveStep
<1>4. Top(c) \in Frames /\ Slot(c) \in Index /\ own[Top(c)] = call[c].state BY <1>1, AtTop
<1>5. mem \in [Frames -> [Index -> Values]] /\ mem' \in [Frames -> [Index -> Values]]
    BY <1>1 DEF CallInv, TypeInv, Values, Moves
<1>6. \A f \in Frames, i \in Index :
         mem'[f][i] = IF f = Top(c) /\ i = Slot(c) THEN x ELSE mem[f][i]
    BY <1>1, <1>4, <1>5, OneEntry
<1>7. \A f \in Frames, i \in Index :
         Links'[f][i] = IF Unlinking(f, i) THEN Absent ELSE mem'[f][i]
    BY <1>1, <1>3, SameLinks
<1>8. ~Unlinking(Top(c), Slot(c)) BY <1>1, <1>4, NotUnlinking DEF Section
<1>9. \A f \in Frames, i \in Index :
         Links'[f][i] = IF f = Top(c) /\ i = Slot(c) THEN x ELSE Links[f][i]
    BY <1>6, <1>7, <1>8, LinksAre DEF Link
<1>10. Links \in [Frames -> [Index -> Values]] /\ Links' \in [Frames -> [Index -> Values]]
    BY <1>5 DEF Links, Link, Values
<1>11. Links' = [Links EXCEPT ![Top(c)][Slot(c)] = x]
  <2> DEFINE L == [Links EXCEPT ![Top(c)][Slot(c)] = x]
  <2>1. /\ L \in [Frames -> [Index -> Values]]
        /\ \A f \in Frames, i \in Index :
             L[f][i] = IF f = Top(c) /\ i = Slot(c) THEN x ELSE Links[f][i]
      BY <1>1, <1>4, <1>10, OneEntry
  <2> HIDE DEF L
  <2>2. \A f \in Frames : L[f] = Links'[f]
    <3> SUFFICES ASSUME NEW f \in Frames PROVE L[f] = Links'[f] OBVIOUS
    <3>1. L[f] \in [Index -> Values] /\ Links'[f] \in [Index -> Values] BY <1>10, <2>1
    <3>2. \A i \in Index : L[f][i] = Links'[f][i] BY <1>9, <2>1
    <3> QED BY <3>1, <3>2
  <2>3. L = Links' BY <1>10, <2>1, <2>2
  <2> QED BY <2>3 DEF L
<1>12. \A f \in Frames : f # Top(c) => mem'[f] = mem[f] BY <1>1, <1>4, <1>5
<1>13. \A f \in Frames : f # Top(c) => Links'[f] = Links[f] BY <1>1, <1>3, <1>12, SameLinks
<1> QED BY <1>6, <1>9, <1>10, <1>11, <1>12, <1>13

\* The way to the table that is written is above it.
LEMMA LeadsWritten ==
    ASSUME CallInv, NEW lvl, NEW own, TreesInv(lvl, own), NEW c \in Cpus, NEW x, Writes(c, x),
           NEW lvl2, NEW own2,
           \A f \in Frames : lvl[f] # 0 => lvl2[f] = lvl[f] /\ own2[f] = own[f],
           path'[c] = path[c]
    PROVE  WalkOk(Links, lvl2, own2, c)'
<1>1. pc[c] \in Walking /\ pc[c] # "unlink" /\ pc'[c] # "unlink" BY DEF Writes, Moves
<1>2. Found(c) = Len(path[c]) /\ Len(path[c]) \in 1 .. 4 /\ lvl[Top(c)] = Len(path[c])
    BY <1>1, AtTop
<1>3. /\ \A k \in 1 .. Found(c) : path[c][k] \in Frames /\ lvl[path[c][k]] = k
    BY <1>1, Inside
<1>4. Leads(Links, lvl, own, path[c], Found(c), call[c].state, call[c].va)
    BY <1>1 DEF TreesInv, WalkOk
<1>5. \A n \in 1 .. 4 : \A k \in 1 .. n - 1 : k \in 1 .. n /\ k # n OBVIOUS
<1>6. \A k \in 1 .. Found(c) - 1 : Links'[path[c][k]] = Links[path[c][k]]
  <2> SUFFICES ASSUME NEW k \in 1 .. Found(c) - 1 PROVE Links'[path[c][k]] = Links[path[c][k]]
      OBVIOUS
  <2>1. k \in 1 .. Found(c) /\ k # Len(path[c]) BY <1>2, <1>5
  <2>2. path[c][k] \in Frames /\ path[c][k] # Top(c) BY <1>2, <1>3, <2>1
  <2> QED BY <2>2, WriteLinks
<1>7. \A k \in 1 .. Found(c) : /\ lvl2[path[c][k]] = lvl[path[c][k]]
                               /\ own2[path[c][k]] = own[path[c][k]]
  <2>1. \A k \in 1 .. Found(c) : k # 0 OBVIOUS
  <2> QED BY <1>3, <2>1
<1>8. Leads(Links', lvl2, own2, path[c], Found(c), call[c].state, call[c].va)
    BY <1>4, <1>6, <1>7, LeadsKept
<1>9. Found(c)' = Found(c) /\ call' = call BY <1>1, <1>2 DEF Found, Writes, Moves
<1> QED BY <1>8, <1>9 DEF WalkOk

LEMMA MapLinkStep ==
    ASSUME CallInv, NEW lvl, NEW own, TreesInv(lvl, own), NEW c \in Cpus, MapLink(c)
    PROVE  IInv' /\ SameMapping
<1>1. /\ mem' = [mem EXCEPT ![Top(c)][Slot(c)] = new[c]] /\ new' = [new EXCEPT ![c] = Nobody]
      /\ pc' = [pc EXCEPT ![c] = "map_walk"]
      /\ pc[c] = "map_link" /\ UNCHANGED <<lock, free, call, path, answer>>
    BY DEF MapLink, Goto
<1>2. PICK n : n = new[c] OBVIOUS
<1>3. /\ n \in Frames /\ n # Nobody /\ n \in News /\ lvl[n] = 0 /\ n \notin free
      /\ \A d \in Cpus : new[d] \notin free
      /\ \A d \in Cpus : new[d] = n => d = c
    BY <1>1, <1>2, NewFrame
<1>4. /\ "map_walk" \in Places /\ "map_walk" \in Section /\ "map_link" \in Walking
      /\ "map_link" \in Mapping
    BY DEF Places, Section, Walking, Mapping
<1>5. PICK s : s = call[c].state OBVIOUS
<1>6. /\ Len(path[c]) \in 1 .. 4 /\ Top(c) \in Frames /\ Slot(c) \in Index
      /\ lvl[Top(c)] = Len(path[c]) /\ own[Top(c)] = s /\ Links[Top(c)][Slot(c)] = Entry(c)
    BY <1>1, <1>4, <1>5, AtTop
<1>7. Len(path[c]) # 4 /\ Entry(c) = Absent BY <1>1 DEF CallInv, HoleOk
<1>8. Dir(lvl, Top(c)) /\ lvl[Top(c)] # 0 /\ Top(c) # n
  <2>1. lvl[Top(c)] \in 1 .. 3 BY <1>6, <1>7
  <2> QED BY <1>3, <2>1 DEF Dir
<1>9. mem' \in [Frames -> [Index -> Values]]
  <2>1. mem \in [Frames -> [Index -> Values]] /\ n \in Values
      BY <1>3 DEF CallInv, TypeInv, Values
  <2> QED BY <1>1, <1>2, <1>6, <2>1, OneEntry
<1>10. Moves(c) /\ pc'[c] = "map_walk" /\ new'[c] = Nobody
    BY <1>1, <1>4, <1>9 DEF Moves, CallInv, TypeInv
<1>11. Writes(c, n) BY <1>1, <1>2, <1>3, <1>10 DEF Writes, Values
<1>12. TypeInv' /\ LockInv' /\ s \in States /\ lock[s] = c /\ Still(c, s)
    BY <1>5, <1>10, MoveStep
<1>13. /\ Links' = [Links EXCEPT ![Top(c)][Slot(c)] = n]
       /\ mem'[Top(c)][Slot(c)] = n
       /\ \A f \in Frames : f # Top(c) => mem'[f] = mem[f] /\ Links'[f] = Links[f]
    BY <1>6, <1>11, WriteLinks
<1>14. PICK lvl2 : lvl2 = [lvl EXCEPT ![n] = lvl[Top(c)] + 1] OBVIOUS
<1>15. PICK own2 : own2 = [own EXCEPT ![n] = own[Top(c)]] OBVIOUS
<1>16. /\ \A f \in Frames : f # n => lvl2[f] = lvl[f] /\ own2[f] = own[f]
       /\ own2[n] = s
  <2>1. lvl \in [Frames -> 0 .. 4] /\ own \in [Frames -> States] BY DEF TreesInv, Tree
  <2> QED BY <1>3, <1>6, <1>14, <1>15, <2>1
<1>17. Tree(Links', lvl2, own2, (free \cup News)')
  <2>1. Tree(Links, lvl, own, free \cup News) BY DEF TreesInv
  <2>2. \A j \in Index : Links[n][j] = Absent
    <3>1. mem[n] = Empty BY <1>1, <1>2 DEF CallInv, NewOk
    <3>2. \A j : ~Unlinking(n, j) BY <1>1, <1>3, <1>4, NotUnlinking DEF Section
    <3> QED BY <1>3, <3>1, <3>2, LinksAre DEF Link, Empty
  <2>3. (free \cup News)' = (free \cup News) \ {n}
    <3>1. \A d \in Cpus : new'[d] = IF d = c THEN Nobody ELSE new[d]
        BY <1>1 DEF CallInv, TypeInv
    <3>2. \A x : x \in News' <=> x \in News /\ x # n BY <1>2, <1>3, <3>1 DEF News
    <3> QED BY <1>1, <1>3, <3>2
  <2>4. Tree([Links EXCEPT ![Top(c)][Slot(c)] = n], lvl2, own2, (free \cup News) \ {n})
    <3>1. n \in free \cup News /\ Links[Top(c)][Slot(c)] = Absent BY <1>3, <1>6, <1>7
    <3> QED BY <1>3, <1>6, <1>8, <1>14, <1>15, <2>1, <2>2, <3>1, TreeAdd
  <2> QED BY <1>13, <2>3, <2>4
<1>18. NewOk(c)' /\ UnlinkOk(c)' /\ HoleOk(c)' /\ \A d \in Cpus : new'[d] \notin free'
  <2>1. \A d \in Cpus : new'[d] = IF d = c THEN Nobody ELSE new[d]
      BY <1>1 DEF CallInv, TypeInv
  <2>2. Nobody \notin free BY Constants DEF CallInv, TypeInv
  <2> QED BY <1>1, <1>3, <1>10, <2>1, <2>2 DEF NewOk, UnlinkOk, HoleOk
<1>19. WalkOk(Links, lvl2, own2, c)'
  <2>1. \A f \in Frames : lvl[f] # 0 => lvl2[f] = lvl[f] /\ own2[f] = own[f] BY <1>3, <1>16
  <2>2. path'[c] = path[c] BY <1>1
  <2> QED BY <1>11, <2>1, <2>2, LeadsWritten
<1>20. ASSUME NEW g \in Frames, own2[g] = s PROVE EmptyOk(lvl2, own2, g)'
  <2> SUFFICES ASSUME lvl2[g] > 1, IsTableEmpty(g)', ~Kept(g, own2[g])
               PROVE  Excused(g, s)'
      BY <1>20 DEF EmptyOk
  <2>1. CASE g = n
    <3>1. Entry(c)' = n BY <1>1, <1>13 DEF Entry, Top, Slot
    <3> QED BY <1>1, <1>10, <1>12, <2>1, <3>1, Constants DEF Excused
  <2>2. CASE g # n
    <3>1. lvl[g] > 1 /\ own[g] = s BY <1>16, <1>20, <2>2
    <3>2. g # Top(c) BY <1>3, <1>6, <1>13, Constants DEF IsTableEmpty, Present
    <3>3. IsTableEmpty(g) BY <1>13, <3>2 DEF IsTableEmpty
    <3> QED BY <1>1, <1>4, <1>5, <1>20, <3>1, <3>2, <3>3, EmptyAtTop
  <2> QED BY <2>1, <2>2
<1>21. Agrees(c, s, lvl, own, lvl2, own2)
    BY <1>2, <1>3, <1>6, <1>8, <1>13, <1>16 DEF Agrees
<1>22. SameMapping 
  <2>1. Bare(Links, Links[Top(c)][Slot(c)]) BY <1>6, <1>7 DEF Bare
  <2>2. Dead(Links', n)
    <3>1. mem[n] = Empty BY <1>1, <1>2 DEF CallInv, NewOk
    <3>2. \A j : ~Unlinking(n, j) BY <1>1, <1>3, <1>4, NotUnlinking DEF Section
    <3>3. \A j \in Index : Links[n][j] = Absent
        BY <1>3, <3>1, <3>2, LinksAre DEF Link, Empty
    <3> QED BY <1>3, <1>8, <1>13, <3>3 DEF Dead
  <2>3. \A f \in Frames, i \in Index :
           Links'[f][i] = IF f = Top(c) /\ i = Slot(c) THEN n ELSE Links[f][i]
      BY <1>11, WriteLinks
  <2>4. SameBut(Links, Links', lvl) BY <1>8, <2>1, <2>2, <2>3 DEF SameBut
  <2>5. Tree(Links, lvl, own, free \cup News) BY DEF TreesInv
  <2> QED BY <2>4, <2>5, SameWalk DEF SameMapping
<1> QED BY <1>12, <1>17, <1>18, <1>19, <1>20, <1>21, <1>22, Assemble

\* A page is entered in a table of the last level, or taken out of it.
Leaf(c, x) == (MapWrite(c) /\ x = call[c].pa) \/ (UnmapClear(c) /\ x = Absent)

LEMMA AtLeaf ==
    ASSUME CallInv, NEW lvl, NEW own, TreesInv(lvl, own), NEW c \in Cpus, pc[c] \in Walking,
           pc[c] # "unlink", Len(path[c]) = 4
    PROVE  /\ Entry(c) \in PhysPages \cup {Absent}
           /\ Present(Entry(c)) <=> Entry(c) # Absent
<1>1. /\ Top(c) \in Frames /\ lvl[Top(c)] = 4 /\ Slot(c) \in Index
      /\ Links[Top(c)][Slot(c)] = Entry(c)
    BY AtTop
<1>2. Entry(c) \in PhysPages \cup {Absent} BY <1>1 DEF TreesInv, Tree
<1> QED BY <1>2, Constants DEF Present

LEMMA LeafWrites ==
    ASSUME CallInv, NEW lvl, NEW own, TreesInv(lvl, own), NEW c \in Cpus, NEW x, Leaf(c, x)
    PROVE  /\ Writes(c, x) /\ x \in PhysPages \cup {Absent} /\ Len(path[c]) = 4
           /\ \/ pc[c] = "map_walk" /\ pc'[c] = "unlock" /\ x # Absent /\ Entry(c) = Absent
              \/ pc[c] = "unmap_walk" /\ pc'[c] = "prune" /\ Entry(c) # Absent
           /\ UNCHANGED <<lock, free, call, path, new, answer>>
<1>1. /\ x \in PhysPages \cup {Absent} /\ mem' = [mem EXCEPT ![Top(c)][Slot(c)] = x]
      /\ \/ /\ pc[c] = "map_walk" /\ pc' = [pc EXCEPT ![c] = "unlock"]
            /\ x # Absent /\ Entry(c) = Absent
         \/ /\ pc[c] = "unmap_walk" /\ pc' = [pc EXCEPT ![c] = "prune"]
            /\ Entry(c) # Absent
      /\ Len(path[c]) = 4 /\ UNCHANGED <<lock, free, call, path, new, answer>>
  <2>1. CASE MapWrite(c) /\ x = call[c].pa
    <3>1. call[c].pa \in PhysPages BY <2>1 DEF MapWrite, CallInv, TypeInv, Mapping
    <3>2. pc[c] = "map_walk" /\ Len(path[c]) = 4 /\ ~Present(Entry(c))
        BY <2>1 DEF MapWrite, IsLeaf
    <3>3. Entry(c) = Absent BY <3>2, AtLeaf DEF Walking
    <3> QED BY <2>1, <3>1, <3>2, <3>3, Constants DEF MapWrite, Goto
  <2>2. CASE UnmapClear(c) /\ x = Absent BY <2>2 DEF UnmapClear, Goto, IsLeaf, Present
  <2> QED BY <2>1, <2>2 DEF Leaf
<1>2. /\ pc[c] \in Walking /\ pc[c] # "unlink"
      /\ "unlock" \in Places /\ "unlock" \in Section /\ "unlock" \notin Mapping
      /\ "prune" \in Places /\ "prune" \in Section /\ "prune" \notin Mapping
    BY <1>1 DEF Places, Section, Walking, Mapping
<1>3. Top(c) \in Frames /\ Slot(c) \in Index BY <1>2, AtTop
<1>4. mem' \in [Frames -> [Index -> Values]] /\ x \in Values
  <2>1. mem \in [Frames -> [Index -> Values]] /\ x \in Values
      BY <1>1 DEF CallInv, TypeInv, Values
  <2> QED BY <1>1, <1>3, <2>1, OneEntry
<1>5. pc' \in [Cpus -> Places] /\ \A d \in Cpus \ {c} : pc'[d] = pc[d]
    BY <1>1, <1>2 DEF CallInv, TypeInv
<1>6. \/ pc[c] = "map_walk" /\ pc'[c] = "unlock" /\ x # Absent /\ Entry(c) = Absent
      \/ pc[c] = "unmap_walk" /\ pc'[c] = "prune" /\ Entry(c) # Absent
    BY <1>1 DEF CallInv, TypeInv
<1>7. Moves(c) BY <1>1, <1>2, <1>4, <1>5, <1>6 DEF Moves, CallInv, TypeInv
<1>8. Writes(c, x) BY <1>1, <1>4, <1>6, <1>7 DEF Writes
<1> QED BY <1>1, <1>6, <1>8

\* It changes what its own page is mapped to, and nothing else.
LEMMA LeafMapping ==
    ASSUME CallInv, NEW lvl, NEW own, TreesInv(lvl, own), NEW c \in Cpus, NEW x, Leaf(c, x)
    PROVE  Remapped(Links, Links', call[c].state, call[c].va, x)
<1>1. Writes(c, x) /\ Len(path[c]) = 4 /\ pc[c] \in Walking /\ pc[c] # "unlink"
    BY LeafWrites DEF Walking
<1>2. Tree(Links, lvl, own, free \cup News) BY DEF TreesInv
<1>3. /\ call[c].state \in States /\ call[c].va \in VAddrs /\ path[c] \in Seq(Frames)
      /\ Found(c) = Len(path[c])
    BY <1>1, Inside, AtTop
<1>4. Leads(Links, lvl, own, path[c], Found(c), call[c].state, call[c].va)
    BY <1>1 DEF TreesInv, WalkOk
<1>5. Leads(Links, lvl, own, path[c], 4, call[c].state, call[c].va) BY <1>1, <1>3, <1>4
<1>6. Top(c) = path[c][4] /\ Slot(c) = call[c].va[4] BY <1>1 DEF Top, Slot
<1>7. OneChange(Links, Links', path[c][4], call[c].va[4], x)
    BY <1>1, <1>6, WriteLinks DEF OneChange
<1>8. PICK p \in Seq(Frames), s \in States, v \in VAddrs :
         p = path[c] /\ s = call[c].state /\ v = call[c].va
    BY <1>3
<1>9. Leads(Links, lvl, own, p, 4, s, v) /\ OneChange(Links, Links', p[4], v[4], x)
    BY <1>5, <1>7, <1>8
<1>10. Remapped(Links, Links', s, v, x) BY <1>2, <1>9, OneWalk
<1> QED BY <1>8, <1>10

LEMMA LeafStep ==
    ASSUME CallInv, NEW lvl, NEW own, TreesInv(lvl, own), NEW c \in Cpus, NEW x, Leaf(c, x)
    PROVE  IInv'
<1>1. /\ Writes(c, x) /\ x \in PhysPages \cup {Absent} /\ Len(path[c]) = 4
      /\ \/ pc[c] = "map_walk" /\ pc'[c] = "unlock" /\ x # Absent /\ Entry(c) = Absent
         \/ pc[c] = "unmap_walk" /\ pc'[c] = "prune" /\ Entry(c) # Absent
      /\ UNCHANGED <<lock, free, call, path, new, answer>>
    BY LeafWrites
<1>2. pc[c] \in {"map_walk", "unmap_walk"} /\ pc[c] \in Walking /\ pc[c] # "unlink"
    BY <1>1 DEF Walking
<1>3. PICK s : s = call[c].state OBVIOUS
<1>4. /\ Top(c) \in Frames /\ Slot(c) \in Index /\ lvl[Top(c)] = 4 /\ own[Top(c)] = s
  <2>1. /\ Top(c) \in Frames /\ Slot(c) \in Index /\ lvl[Top(c)] = Len(path[c])
        /\ own[Top(c)] = call[c].state
      BY <1>2, AtTop
  <2>2. Len(path[c]) = 4 BY <1>1
  <2> QED BY <1>3, <2>1, <2>2
<1>5. /\ \/ pc[c] = "map_walk" /\ pc'[c] = "unlock" /\ x # Absent /\ Entry(c) = Absent
         \/ pc[c] = "unmap_walk" /\ pc'[c] = "prune"
    BY <1>1
<1>6. Moves(c) BY <1>1 DEF Writes
<1>7. Writes(c, x) BY <1>1
<1>8. TypeInv' /\ LockInv' /\ s \in States /\ lock[s] = c /\ Still(c, s)
    BY <1>3, <1>6, MoveStep
<1>9. /\ Links' \in [Frames -> [Index -> Values]]
      /\ \A f \in Frames, i \in Index :
           /\ mem'[f][i] = IF f = Top(c) /\ i = Slot(c) THEN x ELSE mem[f][i]
           /\ Links'[f][i] = IF f = Top(c) /\ i = Slot(c) THEN x ELSE Links[f][i]
      /\ \A f \in Frames : f # Top(c) => mem'[f] = mem[f] /\ Links'[f] = Links[f]
    BY <1>7, WriteLinks
<1>10. Tree(Links', lvl, own, (free \cup News)')
  <2>1. Tree(Links, lvl, own, free \cup News) BY DEF TreesInv
  <2>2. \A f \in Frames : Dir(lvl, f) => Links'[f] = Links[f] BY <1>4, <1>9 DEF Dir
  <2>3. \A f \in Frames, j \in Index : lvl[f] = 4 => Links'[f][j] \in PhysPages \cup {Absent}
      BY <1>1, <1>9, <2>1 DEF Tree
  <2>4. (free \cup News)' = free \cup News BY <1>1 DEF News
  <2>5. Tree(Links', lvl, own, free \cup News) BY <1>9, <2>1, <2>2, <2>3, TreeLeaf
  <2> QED BY <2>4, <2>5
<1>11. NewOk(c)' /\ UnlinkOk(c)' /\ HoleOk(c)' /\ \A d \in Cpus : new'[d] \notin free'
  <2>1. \A d \in Cpus : NewOk(d) BY DEF CallInv
  <2> QED BY <1>1, <1>5, <2>1 DEF NewOk, UnlinkOk, HoleOk
<1>12. WalkOk(Links, lvl, own, c)'
  <2>1. path'[c] = path[c] BY <1>1
  <2> QED BY <1>7, <2>1, LeadsWritten
<1>13. ASSUME NEW g \in Frames, own[g] = s PROVE EmptyOk(lvl, own, g)'
  <2> SUFFICES ASSUME lvl[g] > 1, IsTableEmpty(g)', ~Kept(g, own[g])
               PROVE  Excused(g, s)'
      BY <1>13 DEF EmptyOk
  <2>1. CASE g = Top(c)
    <3>1. mem'[Top(c)][Slot(c)] = x BY <1>4, <1>9
    <3>2. pc'[c] = "prune" BY <1>1, <1>4, <1>5, <2>1, <3>1, Constants DEF IsTableEmpty, Present
    <3>3. Top(c)' = Top(c) BY <1>1 DEF Top
    <3> QED BY <1>1, <1>8, <2>1, <3>2, <3>3, Constants DEF Excused
  <2>2. CASE g # Top(c)
    <3>1. IsTableEmpty(g) BY <1>9, <2>2 DEF IsTableEmpty
    <3>2. pc[c] = "map_walk" /\ g = Entry(c)
        BY <1>2, <1>3, <1>13, <2>2, <3>1, EmptyAtTop
    <3>3. Entry(c) = Absent BY <1>5, <3>2
    <3> QED BY <3>2, <3>3, Constants
  <2> QED BY <2>1, <2>2
<1>14. Agrees(c, s, lvl, own, lvl, own) BY <1>4, <1>9 DEF Agrees
<1> QED BY <1>8, <1>10, <1>11, <1>12, <1>13, <1>14, Assemble

\* A table that has become empty is freed; from here on Links shows its
\* parent's entry as absent.
LEMMA PruneFreeStep ==
    ASSUME CallInv, NEW lvl, NEW own, TreesInv(lvl, own), NEW c \in Cpus, PruneFree(c)
    PROVE  IInv' /\ SameMapping
<1>1. /\ pc[c] = "prune" /\ Prunable(c) /\ free' = free \cup {Top(c)}
      /\ pc' = [pc EXCEPT ![c] = "unlink"] /\ UNCHANGED <<lock, mem, call, path, new, answer>>
    BY DEF PruneFree, Goto
<1>2. /\ "unlink" \in Places /\ "unlink" \in Section /\ "unlink" \notin Mapping
      /\ "prune" \in Walking /\ "prune" # "unlink"
    BY DEF Places, Section, Walking, Mapping
<1>3. PICK s : s = call[c].state OBVIOUS
<1>4. PICK n : n = Top(c) OBVIOUS
<1>5. PICK u : u = Len(path[c]) - 1 OBVIOUS
<1>6. /\ Found(c) = Len(path[c]) /\ Len(path[c]) \in 1 .. 4 /\ n \in Frames
      /\ lvl[n] = Len(path[c]) /\ own[n] = s /\ n \notin free /\ n \notin News
    BY <1>1, <1>2, <1>3, <1>4, AtTop
<1>7. /\ u \in 1 .. 3 /\ Len(path[c]) = u + 1 /\ Found(c) = u + 1 /\ lvl[n] = u + 1
      /\ u \in 1 .. u /\ u \in 1 .. Found(c) /\ u \in 1 .. Found(c) - 1
      /\ \A k \in 1 .. u : k \in 1 .. Found(c)
      /\ \A k \in 1 .. u - 1 : k \in 1 .. u /\ k \in 1 .. Found(c) - 1 /\ k # u
  <2>1. Len(path[c]) > 1 BY <1>1 DEF Prunable
  <2>2. u \in 1 .. 3 /\ Len(path[c]) = u + 1
    <3>1. \A m \in 1 .. 4 : m > 1 => m - 1 \in 1 .. 3 /\ m = (m - 1) + 1 OBVIOUS
    <3>2. Len(path[c]) \in 1 .. 4 BY <1>6
    <3> QED BY <1>5, <2>1, <3>1, <3>2
  <2>3. /\ \A m \in 1 .. 3 : m \in 1 .. m /\ m \in 1 .. m + 1 /\ m \in 1 .. m + 1 - 1
        /\ \A m \in 1 .. 3 : \A k \in 1 .. m : k \in 1 .. m + 1
        /\ \A m \in 1 .. 3 : \A k \in 1 .. m - 1 : k \in 1 .. m /\ k \in 1 .. m + 1 - 1 /\ k # m
      OBVIOUS
  <2>4. Found(c) = u + 1 /\ lvl[n] = u + 1 BY <1>6, <2>2
  <2> QED BY <2>2, <2>3, <2>4
<1>8. PICK g : g = path[c][u] OBVIOUS
<1>9. PICK i : i = call[c].va[u] OBVIOUS
<1>10. /\ \A k \in 1 .. u : path[c][k] \in Frames /\ lvl[path[c][k]] = k /\ own[path[c][k]] = s
       /\ \A k \in 1 .. u - 1 : Links[path[c][k]][call[c].va[k]] = path[c][k + 1]
       /\ Links[g][i] = path[c][u + 1] /\ i \in Index /\ path[c][1] = Pml4[s]
       /\ call[c].va \in VAddrs
    BY <1>1, <1>2, <1>3, <1>7, <1>8, <1>9, Inside
<1>11. /\ g \in Frames /\ lvl[g] = u /\ own[g] = s /\ Dir(lvl, g) /\ Links[g][i] = n /\ g # n
    BY <1>4, <1>7, <1>8, <1>10 DEF Top, Dir
<1>12. Moves(c) /\ pc'[c] = "unlink"
    BY <1>1, <1>2, <1>4, <1>6 DEF Moves, CallInv, TypeInv, Values
<1>13. TypeInv' /\ LockInv' /\ s \in States /\ lock[s] = c /\ Still(c, s)
    BY <1>3, <1>12, MoveStep
<1>14. \A f, j : Unlinking(f, j)' <=> Unlinking(f, j) \/ (f = g /\ j = i)
  <2>1. \A f, j : Unlinking(f, j) <=>
           \E d \in Cpus \ {c} : /\ pc[d] = "unlink" /\ path[d][Len(path[d]) - 1] = f
                                 /\ call[d].va[Len(path[d]) - 1] = j
      BY <1>1 DEF Unlinking
  <2>2. \A d \in Cpus \ {c} : pc'[d] = pc[d] BY <1>13 DEF Still
  <2>3. \A f, j : Unlinking(f, j)' <=>
           \/ \E d \in Cpus \ {c} : /\ pc[d] = "unlink" /\ path[d][Len(path[d]) - 1] = f
                                    /\ call[d].va[Len(path[d]) - 1] = j
           \/ f = g /\ j = i
      BY <1>1, <1>5, <1>8, <1>9, <1>12, <2>2 DEF Unlinking
  <2> QED BY <2>1, <2>3
<1>15. PICK links2 : links2 = [Links EXCEPT ![g][i] = Absent] OBVIOUS
<1>16. /\ Links' = links2 /\ Links \in [Frames -> [Index -> Values]]
       /\ \A f \in Frames : f # g => Links'[f] = Links[f]
  <2>1. mem \in [Frames -> [Index -> Values]] BY DEF CallInv, TypeInv, Values
  <2>2. Links \in [Frames -> [Index -> Values]] /\ Links' \in [Frames -> [Index -> Values]]
      BY <1>1, <2>1 DEF Links, Link, Values
  <2>3. /\ links2 \in [Frames -> [Index -> Values]]
        /\ \A f \in Frames, j \in Index :
             links2[f][j] = IF f = g /\ j = i THEN Absent ELSE Links[f][j]
      BY <1>10, <1>11, <1>15, <2>2, OneEntry DEF Values
  <2>4. \A f \in Frames, j \in Index :
           Links'[f][j] = IF f = g /\ j = i THEN Absent ELSE Links[f][j]
      BY <1>1, <1>14 DEF Links, Link
  <2>5. \A f \in Frames : Links'[f] = links2[f]
    <3> SUFFICES ASSUME NEW f \in Frames PROVE Links'[f] = links2[f] OBVIOUS
    <3>1. Links'[f] \in [Index -> Values] /\ links2[f] \in [Index -> Values] BY <2>2, <2>3
    <3>2. \A j \in Index : Links'[f][j] = links2[f][j] BY <2>3, <2>4
    <3> QED BY <3>1, <3>2
  <2>6. Links' = links2 BY <2>2, <2>3, <2>5
  <2>7. \A f \in Frames : f # g => links2[f] = Links[f] BY <1>15, <2>2
  <2> QED BY <2>2, <2>6, <2>7
<1>17. PICK lvl2 : lvl2 = [lvl EXCEPT ![n] = 0] OBVIOUS
<1>18. (\A f \in Frames : f # n => lvl2[f] = lvl[f]) /\ lvl2[n] = 0
  <2>1. lvl \in [Frames -> 0 .. 4] BY DEF TreesInv, Tree
  <2> QED BY <1>6, <1>17, <2>1
<1>19. Tree(Links', lvl2, own, (free \cup News)')
  <2>1. Tree(Links, lvl, own, free \cup News) BY DEF TreesInv
  <2>2. \A j \in Index : Links[n][j] \notin Frames
    <3>1. \A j \in Index : mem[n][j] \in {Absent, Stale}
        BY <1>1, <1>4 DEF Prunable, IsTableEmpty, Present
    <3> QED BY <1>6, <3>1, LinksAre, Constants DEF Link
  <2>3. \A t \in States, j \in KernelIndex : ~(g = Pml4[t] /\ i = j)
    <3> SUFFICES ASSUME NEW t \in States, NEW j \in KernelIndex, g = Pml4[t], i = j PROVE FALSE
        OBVIOUS
    <3>1. lvl[g] = 1 BY <2>1 DEF Tree
    <3>2. u = 1 /\ Len(path[c]) = 2 BY <1>7, <1>11, <3>1
    <3> QED BY <1>1, <1>9, <3>2 DEF Prunable
  <2>4. (free \cup News)' = (free \cup News) \cup {n}
    <3>1. News' = News BY <1>1 DEF News
    <3> QED BY <1>1, <1>4, <3>1
  <2>5. Tree(links2, lvl2, own, (free \cup News) \cup {n})
      BY <1>6, <1>10, <1>11, <1>15, <1>17, <2>1, <2>2, <2>3, TreeRemove
  <2> QED BY <1>16, <2>4, <2>5
<1>20. NewOk(c)' /\ HoleOk(c)' /\ \A d \in Cpus : new'[d] \notin free'
  <2>1. \A d \in Cpus : NewOk(d) BY DEF CallInv
  <2>2. \A d \in Cpus : new[d] # n BY <1>6, Constants DEF News
  <2> QED BY <1>1, <1>4, <1>12, <2>1, <2>2 DEF NewOk, HoleOk
<1>21. UnlinkOk(c)'
  <2>1. ~Unlinking(g, i) BY <1>1, <1>2, <1>3, <1>11, NotUnlinking DEF Section
  <2>2. mem[g][i] = n BY <1>10, <1>11, <2>1, LinksAre DEF Link
  <2>3. Len(path[c]) \in 2 .. 4 BY <1>7
  <2> QED BY <1>1, <1>5, <1>6, <1>8, <1>9, <2>2, <2>3 DEF UnlinkOk
<1>22. WalkOk(Links, lvl2, own, c)'
  <2>1. Found(c)' = u /\ path'[c] = path[c] /\ call'[c] = call[c]
      BY <1>1, <1>5, <1>12 DEF Found
  <2>2. \A k \in 1 .. u : lvl2[path[c][k]] = k /\ own[path[c][k]] = s
    <3> SUFFICES ASSUME NEW k \in 1 .. u PROVE lvl2[path[c][k]] = k
        BY <1>10
    <3>1. k # u + 1 BY <1>7
    <3> QED BY <1>7, <1>10, <1>18, <3>1
  <2>3. \A k \in 1 .. u - 1 : Links'[path[c][k]][call[c].va[k]] = path[c][k + 1]
    <3> SUFFICES ASSUME NEW k \in 1 .. u - 1
                 PROVE  Links'[path[c][k]][call[c].va[k]] = path[c][k + 1]
        OBVIOUS
    <3>1. path[c][k] # g /\ path[c][k] \in Frames BY <1>7, <1>10, <1>11
    <3> QED BY <1>10, <1>16, <3>1
  <2>4. u \in 1 .. 4 /\ u <= Len(path[c]) BY <1>7
  <2>5. Leads(Links', lvl2, own, path[c], u, s, call[c].va)
      BY <1>10, <2>2, <2>3, <2>4 DEF Leads
  <2> QED BY <1>3, <2>1, <2>5 DEF WalkOk
<1>23. ASSUME NEW f \in Frames, own[f] = s PROVE EmptyOk(lvl2, own, f)'
  <2> SUFFICES ASSUME lvl2[f] > 1, IsTableEmpty(f)', ~Kept(f, own[f])
               PROVE  Excused(f, s)'
      BY <1>23 DEF EmptyOk
  <2>1. f # n /\ lvl[f] > 1 BY <1>18
  <2>2. IsTableEmpty(f) BY <1>1 DEF IsTableEmpty
  <2> QED BY <1>1, <1>2, <1>3, <1>4, <1>23, <2>1, <2>2, EmptyAtTop
<1>24. Agrees(c, s, lvl, own, lvl2, own)
    BY <1>1, <1>6, <1>11, <1>16, <1>18 DEF Agrees
<1>25. SameMapping 
  <2>1. Bare(Links, n)
    <3>1. \A j \in Index : mem[n][j] \in {Absent, Stale}
        BY <1>1, <1>4 DEF Prunable, IsTableEmpty, Present
    <3> QED BY <1>6, <3>1, LinksAre DEF Link, Bare
  <2>2. Dead(Links', Absent) BY DEF Dead
  <2>3. \A f \in Frames, j \in Index :
           Links'[f][j] = IF f = g /\ j = i THEN Absent ELSE Links[f][j]
      BY <1>10, <1>11, <1>15, <1>16, OneEntry DEF Values
  <2>4. SameBut(Links, Links', lvl) BY <1>11, <2>1, <2>2, <2>3 DEF SameBut
  <2>5. Tree(Links, lvl, own, free \cup News) BY DEF TreesInv
  <2> QED BY <2>4, <2>5, SameWalk DEF SameMapping
<1> QED BY <1>13, <1>19, <1>20, <1>21, <1>22, <1>23, <1>24, <1>25, Assemble

\* The parent's entry is cleared in memory too, and the parent is next.
LEMMA PruneUnlinkStep ==
    ASSUME CallInv, NEW lvl, NEW own, TreesInv(lvl, own), NEW c \in Cpus, PruneUnlink(c)
    PROVE  IInv' /\ SameMapping
<1>1. PICK u : u = Len(path[c]) - 1 OBVIOUS
<1>2. PICK g : g = path[c][u] OBVIOUS
<1>3. PICK i : i = call[c].va[u] OBVIOUS
<1>4. PICK p : p = SubSeq(path[c], 1, u) OBVIOUS
<1>5. /\ pc[c] = "unlink" /\ mem' = [mem EXCEPT ![g][i] = Absent] /\ path' = [path EXCEPT ![c] = p]
      /\ pc' = [pc EXCEPT ![c] = "prune"] /\ UNCHANGED <<lock, free, call, new, answer>>
    BY <1>1, <1>2, <1>3, <1>4 DEF PruneUnlink, Goto
<1>6. /\ "prune" \in Places /\ "prune" \in Section /\ "prune" \notin Mapping
      /\ "unlink" \in Walking
    BY DEF Places, Section, Walking, Mapping
<1>7. PICK s : s = call[c].state OBVIOUS
<1>8. /\ u \in 1 .. 3 /\ Len(path[c]) = u + 1 /\ Found(c) = u /\ u \in 1 .. u
      /\ \A k \in 1 .. u - 1 : k \in 1 .. u /\ k + 1 \in 1 .. u /\ k # u
  <2>1. Len(path[c]) \in 2 .. 4 BY <1>5 DEF CallInv, UnlinkOk
  <2>2. u \in 1 .. 3 /\ Len(path[c]) = u + 1 BY <1>1, <2>1
  <2>3. /\ \A m \in 1 .. 3 : m \in 1 .. m
        /\ \A m \in 1 .. 3 : \A k \in 1 .. m - 1 : k \in 1 .. m /\ k + 1 \in 1 .. m /\ k # m
      OBVIOUS
  <2>4. Found(c) = u BY <1>1, <1>5 DEF Found
  <2> QED BY <2>2, <2>3, <2>4
<1>9. /\ \A k \in 1 .. u : path[c][k] \in Frames /\ lvl[path[c][k]] = k /\ own[path[c][k]] = s
      /\ \A k \in 1 .. u - 1 : Links[path[c][k]][call[c].va[k]] = path[c][k + 1]
      /\ i \in Index /\ path[c][1] = Pml4[s] /\ path[c] \in Seq(Frames)
    BY <1>3, <1>5, <1>6, <1>7, <1>8, Inside
<1>10. g \in Frames /\ lvl[g] = u /\ own[g] = s /\ lvl[g] # 0 BY <1>2, <1>8, <1>9
<1>11. p \in Seq(Frames) /\ Len(p) = u /\ \A k \in 1 .. u : p[k] = path[c][k]
    BY <1>4, <1>8, <1>9
<1>12. /\ mem' \in [Frames -> [Index -> Values]]
       /\ \A f \in Frames, j \in Index :
            mem'[f][j] = IF f = g /\ j = i THEN Absent ELSE mem[f][j]
       /\ \A f \in Frames : f # g => mem'[f] = mem[f]
  <2>1. mem \in [Frames -> [Index -> Values]] /\ Absent \in Values
      BY DEF CallInv, TypeInv, Values
  <2>2. \A f \in Frames : f # g => mem'[f] = mem[f] BY <1>5, <1>10, <2>1
  <2> QED BY <1>5, <1>9, <1>10, <2>1, <2>2, OneEntry
<1>13. Moves(c) /\ pc'[c] = "prune" /\ path'[c] = p
    BY <1>5, <1>6, <1>11, <1>12 DEF Moves, CallInv, TypeInv
<1>14. TypeInv' /\ LockInv' /\ s \in States /\ lock[s] = c /\ Still(c, s)
    BY <1>7, <1>13, MoveStep
<1>15. Links' = Links /\ \A f \in Frames : Links'[f] = Links[f]
  <2>1. Unlinking(g, i) BY <1>1, <1>2, <1>3, <1>5 DEF Unlinking
  <2>2. \A d \in Cpus \ {c} : pc'[d] = pc[d] /\ path'[d] = path[d] /\ call'[d] = call[d]
      BY <1>14 DEF Still
  <2>3. \A f, j : ~(f = g /\ j = i) => (Unlinking(f, j)' <=> Unlinking(f, j))
    <3>1. \A f, j : Unlinking(f, j) <=>
             \/ \E d \in Cpus \ {c} : /\ pc[d] = "unlink" /\ path[d][Len(path[d]) - 1] = f
                                      /\ call[d].va[Len(path[d]) - 1] = j
             \/ f = g /\ j = i
        BY <1>1, <1>2, <1>3, <1>5 DEF Unlinking
    <3>2. \A f, j : Unlinking(f, j)' <=>
             \E d \in Cpus \ {c} : /\ pc[d] = "unlink" /\ path[d][Len(path[d]) - 1] = f
                                   /\ call[d].va[Len(path[d]) - 1] = j
        BY <1>13, <2>2 DEF Unlinking
    <3> QED BY <3>1, <3>2
  <2>4. \A f \in Frames, j \in Index : Link(f, j)' = Link(f, j)
    <3> SUFFICES ASSUME NEW f \in Frames, NEW j \in Index PROVE Link(f, j)' = Link(f, j) OBVIOUS
    <3>1. CASE f = g /\ j = i BY <1>12, <2>1, <3>1 DEF Link
    <3>2. CASE ~(f = g /\ j = i) BY <1>12, <2>3, <3>2 DEF Link
    <3> QED BY <3>1, <3>2
  <2>5. Links' = Links BY <2>4 DEF Links
  <2> QED BY <2>5
<1>16. Tree(Links', lvl, own, (free \cup News)')
  <2>1. (free \cup News)' = free \cup News BY <1>5 DEF News
  <2> QED BY <1>15, <2>1 DEF TreesInv
<1>17. NewOk(c)' /\ UnlinkOk(c)' /\ HoleOk(c)' /\ \A d \in Cpus : new'[d] \notin free'
  <2>1. \A d \in Cpus : NewOk(d) BY DEF CallInv
  <2> QED BY <1>5, <1>13, <2>1 DEF NewOk, UnlinkOk, HoleOk
<1>18. WalkOk(Links, lvl, own, c)'
  <2>1. Found(c)' = u /\ call'[c] = call[c] BY <1>5, <1>11, <1>13 DEF Found
  <2>2. u \in 1 .. 4 /\ u <= Len(p) /\ 1 \in 1 .. u BY <1>8, <1>11
  <2>3. Leads(Links, lvl, own, p, u, s, call[c].va)
      BY <1>8, <1>9, <1>11, <2>2 DEF Leads
  <2> QED BY <1>7, <1>13, <1>15, <2>1, <2>3 DEF WalkOk
<1>19. ASSUME NEW f \in Frames, own[f] = s PROVE EmptyOk(lvl, own, f)'
  <2> SUFFICES ASSUME lvl[f] > 1, IsTableEmpty(f)', ~Kept(f, own[f])
               PROVE  Excused(f, s)'
      BY <1>19 DEF EmptyOk
  <2>1. CASE f = g
    <3>1. Top(c)' = g BY <1>2, <1>8, <1>11, <1>13 DEF Top
    <3> QED BY <1>5, <1>13, <1>14, <2>1, <3>1, Constants DEF Excused
  <2>2. CASE f # g
    <3>1. IsTableEmpty(f) BY <1>12, <2>2 DEF IsTableEmpty
    <3> QED BY <1>5, <1>6, <1>7, <1>19, <3>1, EmptyAtTop
  <2> QED BY <2>1, <2>2
<1>20. Agrees(c, s, lvl, own, lvl, own) BY <1>10, <1>12, <1>15 DEF Agrees
<1>21. SameMapping BY <1>15 DEF SameMapping
<1> QED BY <1>14, <1>16, <1>17, <1>18, <1>19, <1>20, <1>21, Assemble

LEMMA UnlockStep ==
    ASSUME CallInv, NEW lvl, NEW own, TreesInv(lvl, own), NEW c \in Cpus, Unlock(c)
    PROVE  IInv' /\ SameMapping
<1>1. PICK s : s = call[c].state OBVIOUS
<1>2. /\ pc[c] = "unlock" /\ lock' = [lock EXCEPT ![s] = Nobody]
      /\ call' = [call EXCEPT ![c] = NoCall] /\ path' = [path EXCEPT ![c] = <<>>]
      /\ answer' = [answer EXCEPT ![c] = Nobody] /\ pc' = [pc EXCEPT ![c] = "idle"]
      /\ UNCHANGED <<free, mem, new>>
    BY <1>1 DEF Unlock, Goto
<1>3. /\ "idle" \in Places /\ "idle" \notin Section /\ "idle" \notin Mapping
      /\ "unlock" \in Section
    BY DEF Places, Section, Walking, Mapping
<1>4. s \in States /\ lock[s] = c /\ c # Nobody
    BY <1>1, <1>2, <1>3, Constants DEF CallInv, TypeInv, LockInv
<1>5. /\ \A d \in Cpus : pc'[d] = (IF d = c THEN "idle" ELSE pc[d])
      /\ \A d \in Cpus : call'[d] = (IF d = c THEN NoCall ELSE call[d])
      /\ \A d \in Cpus : path'[d] = (IF d = c THEN <<>> ELSE path[d])
      /\ \A t \in States : lock'[t] = (IF t = s THEN Nobody ELSE lock[t])
    BY <1>2, <1>4 DEF CallInv, TypeInv
<1>6. Still(c, s) BY <1>1, <1>2, <1>4, <1>5, OnlyItself
<1>7. TypeInv'
  <2>1. /\ pc' \in [Cpus -> Places] /\ lock' \in [States -> Cpus \cup {Nobody}]
        /\ path' \in [Cpus -> Seq(Frames)] /\ DOMAIN answer' = Cpus /\ DOMAIN call' = Cpus
    <3>1. <<>> \in Seq(Frames) OBVIOUS
    <3> QED BY <1>2, <1>3, <1>4, <3>1 DEF CallInv, TypeInv
  <2>2. ASSUME NEW d \in Cpus
        PROVE  /\ pc'[d] \notin {"idle", "halted"} =>
                    call'[d].state \in States /\ call'[d].va \in VAddrs
               /\ pc'[d] \in Mapping => call'[d].pa \in PhysPages
    <3>1. CASE d = c BY <1>3, <1>5, <3>1
    <3>2. CASE d # c BY <1>5, <3>2 DEF CallInv, TypeInv
    <3> QED BY <3>1, <3>2
  <2> QED BY <1>2, <2>1, <2>2 DEF CallInv, TypeInv
<1>8. LockInv'
  <2>1. ASSUME NEW d \in Cpus
        PROVE  /\ pc'[d] \in Section => lock'[call'[d].state] = d
               /\ \A t \in States : lock'[t] = d => pc'[d] \in Section /\ call'[d].state = t
    <3>1. LockInv /\ (pc[d] \in Section => call[d].state \in States)
        BY DEF CallInv, TypeInv, Section, Walking
    <3>2. /\ pc[d] \in Section => lock[call[d].state] = d
          /\ \A t \in States : lock[t] = d => pc[d] \in Section /\ call[d].state = t
        BY <3>1 DEF LockInv
    <3>3. d # Nobody BY Constants
    <3>4. CASE d = c BY <1>1, <1>3, <1>5, <3>2, <3>3, <3>4
    <3>5. CASE d # c BY <1>4, <1>5, <3>1, <3>2, <3>3, <3>5
    <3> QED BY <3>4, <3>5
  <2> QED BY <2>1 DEF LockInv
<1>9. pc'[c] = "idle" /\ path'[c] = <<>> BY <1>5
<1>10. Links' = Links
  <2>1. \A f \in Frames : Links'[f] = Links[f] BY <1>2, <1>6, <1>9, SameLinks
  <2> QED BY <2>1 DEF Links
<1>11. NewOk(c)' /\ UnlinkOk(c)' /\ HoleOk(c)' /\ \A d \in Cpus : new'[d] \notin free'
  <2>1. \A d \in Cpus : NewOk(d) BY DEF CallInv
  <2> QED BY <1>2, <1>9, <2>1 DEF NewOk, UnlinkOk, HoleOk
<1>12. Tree(Links', lvl, own, (free \cup News)')
  <2>1. (free \cup News)' = free \cup News BY <1>2 DEF News
  <2> QED BY <1>10, <2>1 DEF TreesInv
<1>13. WalkOk(Links, lvl, own, c)' BY <1>9 DEF WalkOk, Walking
<1>14. ASSUME NEW f \in Frames, own[f] = s PROVE EmptyOk(lvl, own, f)'
  <2>1. ~Excused(f, s) BY <1>2, <1>4 DEF Excused
  <2>2. EmptyOk(lvl, own, f) BY DEF TreesInv
  <2>3. IsTableEmpty(f)' <=> IsTableEmpty(f) BY <1>2 DEF IsTableEmpty
  <2> QED BY <1>14, <2>1, <2>2, <2>3 DEF EmptyOk
<1>15. Agrees(c, s, lvl, own, lvl, own) BY <1>2, <1>10 DEF Agrees
<1>16. SameMapping BY <1>10 DEF SameMapping
<1> QED BY <1>4, <1>6, <1>7, <1>8, <1>11, <1>12, <1>13, <1>14, <1>15, <1>16, Assemble

(***************************************************************************)
(* The theorems.                                                           *)
(***************************************************************************)
LEMMA StepIInv == ASSUME IInv, NEW c \in Cpus, Step(c), ~Astray(c) PROVE IInv'
<1>1. PICK lvl \in [Frames -> 0 .. 4], own \in [Frames -> States] : TreesInv(lvl, own)
    BY DEF IInv
<1>2. CallInv BY DEF IInv
<1>3. CASE MapLock(c) \/ UnmapLock(c) \/ GetLock(c)
    BY <1>1, <1>2, <1>3, EnterStep DEF MapLock, UnmapLock, GetLock, Waiting
<1>4. CASE MapDescend(c) \/ UnmapDescend(c) \/ GetDescend(c)
    BY <1>1, <1>2, <1>4, DescendStep
<1>5. CASE MapAllocate(c) BY <1>1, <1>2, <1>5, MapAllocateStep
<1>6. CASE MapNoMemory(c) \/ MapMapped(c) \/ UnmapUnmapped(c)
    BY <1>1, <1>2, <1>6, PanicStep DEF MapNoMemory, MapMapped, UnmapUnmapped
<1>7. CASE MapClear(c) BY <1>1, <1>2, <1>7, MapClearStep
<1>8. CASE MapLink(c) BY <1>1, <1>2, <1>8, MapLinkStep
<1>9. CASE MapWrite(c) \/ UnmapClear(c) BY <1>1, <1>2, <1>9, LeafStep DEF Leaf
<1>10. CASE PruneFree(c) BY <1>1, <1>2, <1>10, PruneFreeStep
<1>11. CASE PruneUnlink(c) BY <1>1, <1>2, <1>11, PruneUnlinkStep
<1>12. CASE PruneStop(c) \/ GetFound(c) BY <1>1, <1>2, <1>12, EndStep
<1>13. CASE Unlock(c) BY <1>1, <1>2, <1>13, UnlockStep
<1> QED BY <1>3, <1>4, <1>5, <1>6, <1>7, <1>8, <1>9, <1>10, <1>11, <1>12, <1>13 DEF Step

LEMMA NextIInv == IInv /\ [Next]_vars => IInv'
<1> SUFFICES ASSUME IInv, [Next]_vars PROVE IInv' OBVIOUS
<1>1. ASSUME NEW c \in Cpus, NEW s \in States, NEW v \in VAddrs, NEW q \in PhysPages,
             MapPage(c, s, v, q)
      PROVE  IInv'
  <2>1. PICK r : r = [state |-> s, va |-> v, pa |-> q] OBVIOUS
  <2>2. r.state \in States /\ r.va \in VAddrs /\ r.pa \in PhysPages BY <2>1
  <2> QED BY <1>1, <2>1, <2>2, AskStep DEF MapPage, Goto, Waiting
<1>2. ASSUME NEW c \in Cpus, NEW s \in States, NEW v \in VAddrs,
             UnmapPage(c, s, v) \/ GetPhysicalAddress(c, s, v)
      PROVE  IInv'
  <2>1. PICK r : r = [state |-> s, va |-> v] OBVIOUS
  <2>2. r.state \in States /\ r.va \in VAddrs BY <2>1
  <2> QED BY <1>2, <2>1, <2>2, AskStep DEF UnmapPage, GetPhysicalAddress, Goto, Waiting
<1>3. ASSUME NEW c \in Cpus, Step(c), ~Astray(c) PROVE IInv' BY <1>3, StepIInv
<1>5. ASSUME NEW c \in Cpus, MapMisaligned(c) PROVE IInv' BY <1>5, HaltStep
<1>4. CASE UNCHANGED vars
  <2>1. UNCHANGED <<lock, free, mem, pc, call, path, new, answer>> BY <1>4 DEF vars
  <2>2. \A f, i : Unlinking(f, i)' <=> Unlinking(f, i) BY <2>1, SameUnlinking
  <2>3. Links' = Links BY <2>1, <2>2 DEF Links, Link
  <2>4. CallInv'
      BY <2>1 DEF IInv, CallInv, TypeInv, LockInv, NewOk, UnlinkOk, HoleOk, Entry, Top, Slot
  <2>5. PICK lvl \in [Frames -> 0 .. 4], own \in [Frames -> States] : TreesInv(lvl, own)
      BY DEF IInv
  <2>6. TreesInv(lvl, own)'
    <3>1. Tree(Links, lvl, own, free \cup News)' BY <2>1, <2>3, <2>5 DEF TreesInv, News
    <3>2. \A c \in Cpus : WalkOk(Links, lvl, own, c)'
        BY <2>1, <2>3, <2>5 DEF TreesInv, WalkOk, Found
    <3>3. \A f \in Frames : EmptyOk(lvl, own, f)'
        BY <2>1, <2>5 DEF TreesInv, EmptyOk, Excused, IsTableEmpty, Entry, Top, Slot
    <3> QED BY <3>1, <3>2, <3>3 DEF TreesInv
  <2> QED BY <2>4, <2>5, <2>6 DEF IInv
<1> QED BY <1>1, <1>2, <1>3, <1>4, <1>5 DEF Next

\* What Initialize leaves.
LEMMA InitIInv == Init => IInv
<1> SUFFICES ASSUME Init PROVE IInv OBVIOUS
<1>1. /\ lock = [s \in States |-> Nobody] /\ pc = [c \in Cpus |-> "idle"]
      /\ free = {f \in Frames : Level[f] = 0} /\ mem = Boot
      /\ call = [c \in Cpus |-> NoCall] /\ path = [c \in Cpus |-> <<>>]
      /\ new = [c \in Cpus |-> Nobody] /\ answer = [c \in Cpus |-> Nobody]
    BY DEF Init
<1>2. /\ Tree(Boot, Level, Owner, free) /\ Boot \in [Frames -> [Index -> Values]]
      /\ Level \in [Frames -> 0 .. 4] /\ Owner \in [Frames -> States]
    BY <1>1, BootAssumption DEF Tree
<1>3. Links = Boot
  <2>1. \A f, i : ~Unlinking(f, i) BY <1>1 DEF Unlinking
  <2>2. \A f \in Frames : Links[f] = [i \in Index |-> Boot[f][i]] BY <1>1, <2>1 DEF Links, Link
  <2>3. \A f \in Frames : Links[f] = Boot[f] BY <1>2, <2>2
  <2>4. Links = [f \in Frames |-> Links[f]] BY DEF Links
  <2> QED BY <1>2, <2>3, <2>4
<1>4. News = {} BY <1>1 DEF News
<1>5. CallInv
  <2>1. TypeInv
    <3>1. "idle" \in Places /\ "idle" \notin Mapping /\ <<>> \in Seq(Frames)
        BY DEF Places, Mapping
    <3> QED BY <1>1, <1>2, <3>1 DEF TypeInv
  <2>2. LockInv BY <1>1, Constants DEF LockInv, Section, Walking
  <2>3. \A c \in Cpus : NewOk(c) /\ UnlinkOk(c) /\ HoleOk(c)
      BY <1>1, Constants DEF NewOk, UnlinkOk, HoleOk
  <2> QED BY <2>1, <2>2, <2>3 DEF CallInv
<1>6. \A c \in Cpus : WalkOk(Links, Level, Owner, c) BY <1>1 DEF WalkOk, Walking
<1>7. \A f \in Frames : EmptyOk(Level, Owner, f)
    BY <1>1, <1>2 DEF EmptyOk, IsTableEmpty, Kept, EmptyAtBoot
<1>8. TreesInv(Level, Owner) BY <1>2, <1>3, <1>4, <1>6, <1>7 DEF TreesInv
<1> QED BY <1>2, <1>5, <1>8 DEF IInv

\* However the calls of the CPUs interleave, the tables of the address spaces
\* are disjoint trees of frames that are not free, and none but a table of
\* Initialize, whatever that left, has an entry that leads to no table
\* (Paging.cpp:30-156).
THEOREM TablesSoundHolds == Spec => []TablesSound
<1>1. Spec => []IInv BY InitIInv, NextIInv, PTL DEF Spec
<1> QED BY <1>1, IInvTablesSound, PTL

\* MapPage and UnmapPage lose no frame, leave no table empty that was not so
\* at the start once they have released the lock, and never free or replace a
\* PDP of the kernel's half.
THEOREM FramesAccountedHolds == Spec => []FramesAccounted
<1>1. Spec => []IInv BY InitIInv, NextIInv, PTL DEF Spec
<1> QED BY <1>1, IInvFramesAccounted, PTL

(***************************************************************************)
(* The tables implement an address space.                                  *)
(***************************************************************************)
\* An answer is there from the lookup to the return.
AnswerInv == /\ answer = [c \in Cpus |-> answer[c]]
             /\ \A c \in Cpus : pc[c] # "unlock" => answer[c] = Nobody

RInv == IInv /\ AnswerInv

\* The calls of the other CPUs stay where they are.
Others(c) == \A d \in Cpus \ {c} : pc'[d] = pc[d] /\ call'[d] = call[d]

LEMMA TranslationIs ==
    /\ Translation = [s \in States |-> [v \in VAddrs |-> WalkIn(Links, s, v)]]
    /\ Translation' = [s \in States |-> [v \in VAddrs |-> WalkIn(Links', s, v)]]
<1>1. \A v \in VAddrs : v[1] \in Index /\ v[2] \in Index /\ v[3] \in Index /\ v[4] \in Index
    BY Constants
<1>2. \A f, i : i \in Index => Below(f, i) = BelowIn(Links, f, i) BY LinksAre DEF Below, BelowIn
<1>3. \A s \in States, v \in VAddrs : Walk(s, v) = WalkIn(Links, s, v)
    BY <1>1, <1>2 DEF Walk, WalkIn
<1>4. \A f \in Frames, i \in Index : Links'[f][i] = Link(f, i)' BY DEF Links
<1>5. \A f, i : i \in Index => Below(f, i)' = BelowIn(Links', f, i) BY <1>4 DEF Below, BelowIn
<1>6. \A s \in States, v \in VAddrs : Walk(s, v)' = WalkIn(Links', s, v)
    BY <1>1, <1>5 DEF Walk, WalkIn
<1> QED BY <1>3, <1>6 DEF Translation

LEMMA TranslationUpdate ==
    ASSUME NEW s \in States, NEW v \in VAddrs, NEW x, Remapped(Links, Links', s, v, x)
    PROVE  Translation' = [Translation EXCEPT ![s][v] = x]
<1>1. PICK m : m = Translation OBVIOUS
<1>2. PICK m2 : m2 = Translation' OBVIOUS
<1>3. /\ DOMAIN m = States /\ DOMAIN m2 = States
      /\ m2 = [t \in States |-> m2[t]]
      /\ \A t \in States : /\ DOMAIN m[t] = VAddrs /\ m2[t] = [w \in VAddrs |-> m2[t][w]]
                           /\ m[t] = [w \in VAddrs |-> m[t][w]]
    BY <1>1, <1>2, TranslationIs
<1>4. \A t \in States, w \in VAddrs : m2[t][w] = IF t = s /\ w = v THEN x ELSE m[t][w]
    BY <1>1, <1>2, TranslationIs DEF Remapped
<1>5. \A t \in States : t # s => m2[t] = m[t] BY <1>3, <1>4
<1>6. m2[s] = [m[s] EXCEPT ![v] = x] BY <1>3, <1>4
<1>7. m2 = [m EXCEPT ![s] = [m[s] EXCEPT ![v] = x]] BY <1>3, <1>5, <1>6
<1>8. m2 = [m EXCEPT ![s][v] = x] BY <1>3, <1>7
<1> QED BY <1>1, <1>2, <1>8

LEMMA RequestUpdate ==
    ASSUME NEW c \in Cpus, Others(c)
    PROVE  /\ Request[c] = RequestOf(c)
           /\ Request' = [Request EXCEPT ![c] = RequestOf(c)']
           /\ RequestOf(c)' = RequestOf(c) => Request' = Request
<1>1. \A d \in Cpus \ {c} : RequestOf(d)' = RequestOf(d) BY DEF Others, RequestOf
<1>2. Request = [d \in Cpus |-> RequestOf(d)] /\ Request' = [d \in Cpus |-> RequestOf(d)']
    BY DEF Request
<1> QED BY <1>1, <1>2

\* A step of c that takes no call to its effect.
LEMMA Stutter ==
    ASSUME NEW c \in Cpus, Others(c), SameMapping, answer' = answer,
           RequestOf(c)' = RequestOf(c)
    PROVE  UNCHANGED <<Translation, Request, answer>>
<1>1. Translation' = Translation BY TranslationIs DEF SameMapping
<1> QED BY <1>1, RequestUpdate

\* What the walk of a call finds is what its page is mapped to.
LEMMA AtWalk ==
    ASSUME CallInv, NEW lvl, NEW own, TreesInv(lvl, own), NEW c \in Cpus, pc[c] \in Walking,
           pc[c] # "unlink", Len(path[c]) = 4 \/ Entry(c) \in {Absent, Stale}
    PROVE  /\ call[c].state \in States /\ call[c].va \in VAddrs
           /\ Len(path[c]) = 4 => /\ Translation[call[c].state][call[c].va] = Entry(c)
                                  /\ Entry(c) \in PhysPages \cup {Absent}
           /\ ~Present(Entry(c)) => Translation[call[c].state][call[c].va] = Absent
           /\ Present(Entry(c)) => Len(path[c]) = 4 /\ Entry(c) \in PhysPages
<1>1. /\ call[c].state \in States /\ call[c].va \in VAddrs /\ path[c] \in Seq(Frames)
      /\ Found(c) = Len(path[c]) /\ Links[Top(c)][Slot(c)] = Entry(c)
    BY Inside, AtTop
<1>2. PICK p \in Seq(Frames), s \in States, v \in VAddrs, n \in {Len(path[c])} :
         p = path[c] /\ s = call[c].state /\ v = call[c].va
    BY <1>1
<1>3. Leads(Links, lvl, own, path[c], Found(c), call[c].state, call[c].va)
    BY DEF TreesInv, WalkOk
<1>4. Leads(Links, lvl, own, p, n, s, v) BY <1>1, <1>2, <1>3
<1>5. Tree(Links, lvl, own, free \cup News) BY DEF TreesInv
<1>6. Links[p[n]][v[n]] = Entry(c) BY <1>1, <1>2 DEF Top, Slot
<1>7. /\ n = 4 => WalkIn(Links, s, v) = Entry(c)
      /\ n # 4 /\ Entry(c) \in {Absent, Stale} => WalkIn(Links, s, v) = Absent
    BY <1>4, <1>5, <1>6, WalkTop
<1>8. WalkIn(Links, s, v) = Translation[call[c].state][call[c].va] BY <1>2, TranslationIs
<1>9. CASE n = 4
  <2>1. Entry(c) \in PhysPages \cup {Absent} /\ (Present(Entry(c)) <=> Entry(c) # Absent)
      BY <1>2, <1>9, AtLeaf
  <2> QED BY <1>1, <1>2, <1>7, <1>8, <1>9, <2>1
<1>10. CASE n # 4
  <2>1. Entry(c) \in {Absent, Stale} BY <1>2, <1>10
  <2> QED BY <1>1, <1>2, <1>7, <1>8, <1>10, <2>1 DEF Present
<1> QED BY <1>9, <1>10

LEMMA RefinesAsk ==
    ASSUME RInv, NEW c \in Cpus, NEW s \in States, NEW v \in VAddrs,
           \/ \E q \in PhysPages : MapPage(c, s, v, q)
           \/ UnmapPage(c, s, v) \/ GetPhysicalAddress(c, s, v)
    PROVE  Abstract!Ask(c, s, v)
<1>0. free' = free BY DEF MapPage, UnmapPage, GetPhysicalAddress
<1>1. CallInv /\ AnswerInv BY DEF RInv, IInv
<1>2. pc[c] = "idle" /\ answer[c] = Nobody /\ answer' = answer
    BY <1>1 DEF MapPage, UnmapPage, GetPhysicalAddress, AnswerInv
<1>3. Others(c)
    BY <1>1 DEF MapPage, UnmapPage, GetPhysicalAddress, Goto, Others, CallInv, TypeInv
<1>4. SameMapping
  <2>1. ASSUME NEW q \in PhysPages, MapPage(c, s, v, q) PROVE SameMapping
    <3>1. PICK r : r = [state |-> s, va |-> v, pa |-> q] OBVIOUS
    <3>2. r.state \in States /\ r.va \in VAddrs /\ r.pa \in PhysPages BY <3>1
    <3> QED BY <2>1, <3>1, <3>2, AskStep DEF MapPage, Goto, Waiting, RInv
  <2>2. ASSUME UnmapPage(c, s, v) \/ GetPhysicalAddress(c, s, v) PROVE SameMapping
    <3>1. PICK r : r = [state |-> s, va |-> v] OBVIOUS
    <3>2. r.state \in States /\ r.va \in VAddrs BY <3>1
    <3> QED BY <2>2, <3>1, <3>2, AskStep DEF UnmapPage, GetPhysicalAddress, Goto, Waiting, RInv
  <2> QED BY <2>1, <2>2
<1>5. Translation' = Translation BY <1>4, TranslationIs DEF SameMapping
<1>6. Request[c] = [op |-> "none"] BY <1>2, <1>3, RequestUpdate DEF RequestOf
<1>7. Request' = [Request EXCEPT ![c] = RequestOf(c)'] BY <1>3, RequestUpdate
<1>8. \/ \E q \in PhysPages : RequestOf(c)' = [op |-> "map", state |-> s, va |-> v, pa |-> q]
      \/ RequestOf(c)' = [op |-> "unmap", state |-> s, va |-> v]
      \/ RequestOf(c)' = [op |-> "get", state |-> s, va |-> v]
    BY <1>1 DEF MapPage, UnmapPage, GetPhysicalAddress, Goto, RequestOf, CallInv, TypeInv
<1> QED BY <1>0, <1>2, <1>5, <1>6, <1>7, <1>8
    DEF Abstract!Ask, Abstract!NoRequest, Abstract!MapRequest, Abstract!UnmapRequest,
        Abstract!GetRequest

LEMMA RefinesLeaf ==
    ASSUME RInv, NEW c \in Cpus
    PROVE  /\ MapWrite(c) => Abstract!Map(c)
           /\ UnmapClear(c) => Abstract!Unmap(c)
<1>1. PICK lvl \in [Frames -> 0 .. 4], own \in [Frames -> States] : TreesInv(lvl, own)
    BY DEF RInv, IInv
<1>2. CallInv BY DEF RInv, IInv
<1>3. ASSUME NEW x, Leaf(c, x)
      PROVE  /\ Request[c] = RequestOf(c)
             /\ Request' = [Request EXCEPT ![c] = [op |-> "none"]]
             /\ Translation[call[c].state][call[c].va] = Entry(c)
             /\ Translation' = [Translation EXCEPT ![call[c].state][call[c].va] = x]
             /\ answer' = answer /\ free' = free
             /\ \/ pc[c] = "map_walk" /\ Entry(c) = Absent
                \/ pc[c] = "unmap_walk" /\ Entry(c) \in PhysPages
  <2>1. /\ Writes(c, x) /\ Len(path[c]) = 4
        /\ \/ pc[c] = "map_walk" /\ pc'[c] = "unlock" /\ x # Absent /\ Entry(c) = Absent
           \/ pc[c] = "unmap_walk" /\ pc'[c] = "prune" /\ Entry(c) # Absent
        /\ UNCHANGED <<lock, free, call, path, new, answer>>
      BY <1>1, <1>2, <1>3, LeafWrites
  <2>2. Others(c) BY <2>1 DEF Others, Writes, Moves
  <2>3. RequestOf(c)' = [op |-> "none"] BY <2>1 DEF RequestOf
  <2>4. pc[c] \in Walking /\ pc[c] # "unlink" BY <2>1 DEF Walking
  <2>5. /\ call[c].state \in States /\ call[c].va \in VAddrs
        /\ Translation[call[c].state][call[c].va] = Entry(c)
        /\ Entry(c) \in PhysPages \cup {Absent}
      BY <1>1, <1>2, <2>1, <2>4, AtWalk
  <2>6. Remapped(Links, Links', call[c].state, call[c].va, x) BY <1>1, <1>2, <1>3, LeafMapping
  <2>7. Translation' = [Translation EXCEPT ![call[c].state][call[c].va] = x]
      BY <2>5, <2>6, TranslationUpdate
  <2> QED BY <2>1, <2>2, <2>3, <2>5, <2>7, RequestUpdate
<1>4. ASSUME MapWrite(c) PROVE Abstract!Map(c)
  <2>1. PICK x : x = call[c].pa OBVIOUS
  <2>2. Leaf(c, x) /\ pc[c] = "map_walk" BY <1>4, <2>1 DEF Leaf, MapWrite
  <2>3. Request[c] = [op |-> "map", state |-> call[c].state, va |-> call[c].va, pa |-> x]
    <3>1. Request[c] = RequestOf(c) BY <1>3, <2>2
    <3> QED BY <2>1, <2>2, <3>1 DEF RequestOf
  <2>4. /\ Request[c].op = "map" /\ Request[c].state = call[c].state
        /\ Request[c].va = call[c].va /\ Request[c].pa = x
      BY <2>3
  <2> QED BY <1>3, <2>2, <2>4 DEF Abstract!Map, Abstract!Target, Abstract!NoRequest
<1>5. ASSUME UnmapClear(c) PROVE Abstract!Unmap(c)
  <2>1. Leaf(c, Absent) /\ pc[c] = "unmap_walk" BY <1>5 DEF Leaf, UnmapClear
  <2>2. Request[c] = [op |-> "unmap", state |-> call[c].state, va |-> call[c].va]
    <3>1. Request[c] = RequestOf(c) BY <1>3, <2>1
    <3> QED BY <2>1, <3>1 DEF RequestOf
  <2>3. /\ Request[c].op = "unmap" /\ Request[c].state = call[c].state
        /\ Request[c].va = call[c].va
      BY <2>2
  <2> QED BY <1>3, <2>1, <2>3 DEF Abstract!Unmap, Abstract!Target, Abstract!NoRequest
<1> QED BY <1>4, <1>5

LEMMA RefinesGet ==
    ASSUME RInv, NEW c \in Cpus, GetFound(c)
    PROVE  Abstract!Get(c)
<1>1. PICK lvl \in [Frames -> 0 .. 4], own \in [Frames -> States] : TreesInv(lvl, own)
    BY DEF RInv, IInv
<1>2. CallInv BY DEF RInv, IInv
<1>3. /\ pc[c] = "get_walk" /\ (Len(path[c]) = 4 \/ Entry(c) \in {Absent, Stale})
      /\ answer' = [answer EXCEPT ![c] = IF Present(Entry(c)) THEN Entry(c) ELSE Absent]
      /\ pc' = [pc EXCEPT ![c] = "unlock"] /\ call' = call /\ free' = free
    BY DEF GetFound, IsLeaf, Present, Goto
<1>4. Others(c) /\ pc'[c] = "unlock" BY <1>2, <1>3 DEF Others, CallInv, TypeInv
<1>5. SameMapping BY <1>1, <1>2, EndStep
<1>6. Translation' = Translation BY <1>5, TranslationIs DEF SameMapping
<1>7. /\ Translation[call[c].state][call[c].va] = IF Present(Entry(c)) THEN Entry(c) ELSE Absent
      /\ Translation[call[c].state][call[c].va] # Junk
    BY <1>1, <1>2, <1>3, AtWalk, Constants DEF Walking
<1>8. Request[c] = [op |-> "get", state |-> call[c].state, va |-> call[c].va]
  <2>1. Request[c] = RequestOf(c) BY <1>4, RequestUpdate
  <2> QED BY <1>3, <2>1 DEF RequestOf
<1>9. Request[c].op = "get" /\ Request[c].state = call[c].state /\ Request[c].va = call[c].va
    BY <1>8
<1>10. Request' = [Request EXCEPT ![c] = [op |-> "none"]]
  <2>1. RequestOf(c)' = [op |-> "none"] BY <1>4 DEF RequestOf
  <2> QED BY <1>4, <2>1, RequestUpdate
<1> QED BY <1>3, <1>6, <1>7, <1>9, <1>10 DEF Abstract!Get, Abstract!Target, Abstract!NoRequest

\* A call panics only where it must.
LEMMA RefinesRefuse ==
    ASSUME RInv, NEW c \in Cpus, MapNoMemory(c) \/ MapMapped(c) \/ UnmapUnmapped(c)
    PROVE  Abstract!Refuse(c)
<1>1. PICK lvl \in [Frames -> 0 .. 4], own \in [Frames -> States] : TreesInv(lvl, own)
    BY DEF RInv, IInv
<1>2. CallInv BY DEF RInv, IInv
<1>3. /\ Panic(c) /\ answer' = answer /\ call' = call /\ pc' = [pc EXCEPT ![c] = "panic"]
      /\ free' = free /\ pc[c] \in {"map_walk", "unmap_walk"}
      /\ \/ pc[c] = "map_walk" /\ free = {}
         \/ pc[c] = "map_walk" /\ Len(path[c]) = 4 /\ Present(Entry(c))
         \/ pc[c] = "unmap_walk" /\ ~Present(Entry(c))
    BY DEF MapNoMemory, MapMapped, UnmapUnmapped, Panic, Goto, IsLeaf
<1>4. Others(c) /\ pc'[c] = "panic" BY <1>2, <1>3 DEF Others, CallInv, TypeInv
<1>5. SameMapping BY <1>1, <1>2, <1>3, PanicStep
<1>6. Translation' = Translation BY <1>5, TranslationIs DEF SameMapping
<1>7. Request' = [Request EXCEPT ![c] = [op |-> "none"]]
  <2>1. RequestOf(c)' = [op |-> "none"] BY <1>4 DEF RequestOf
  <2> QED BY <1>4, <2>1, RequestUpdate
<1>8. Request[c] = RequestOf(c) BY <1>4, RequestUpdate
<1>9. CASE pc[c] = "map_walk"
  <2>1. Request[c] = [op |-> "map", state |-> call[c].state, va |-> call[c].va, pa |-> call[c].pa]
      BY <1>8, <1>9 DEF RequestOf
  <2>2. /\ Request[c].op = "map" /\ Request[c].state = call[c].state
        /\ Request[c].va = call[c].va
      BY <2>1
  <2>3. free = {} \/ Translation[call[c].state][call[c].va] \in PhysPages
      BY <1>1, <1>2, <1>3, <1>9, AtWalk DEF Walking
  <2> QED BY <1>3, <1>6, <1>7, <2>2, <2>3 DEF Abstract!Refuse, Abstract!Target, Abstract!NoRequest
<1>10. CASE pc[c] = "unmap_walk" /\ ~Present(Entry(c))
  <2>1. Request[c] = [op |-> "unmap", state |-> call[c].state, va |-> call[c].va]
      BY <1>8, <1>10 DEF RequestOf
  <2>2. /\ Request[c].op = "unmap" /\ Request[c].state = call[c].state
        /\ Request[c].va = call[c].va
      BY <2>1
  <2>3. Entry(c) \in {Absent, Stale} BY <1>10 DEF Present
  <2>4. Translation[call[c].state][call[c].va] = Absent
      BY <1>1, <1>2, <1>10, <2>3, AtWalk DEF Walking
  <2> QED BY <1>3, <1>6, <1>7, <2>2, <2>4 DEF Abstract!Refuse, Abstract!Target, Abstract!NoRequest
<1> QED BY <1>3, <1>9, <1>10

LEMMA RefinesReturn ==
    ASSUME RInv, NEW c \in Cpus, Unlock(c)
    PROVE  Abstract!Forget(c) \/ UNCHANGED <<Translation, Request, answer, free # {}>>
<1>1. PICK lvl \in [Frames -> 0 .. 4], own \in [Frames -> States] : TreesInv(lvl, own)
    BY DEF RInv, IInv
<1>2. CallInv /\ AnswerInv BY DEF RInv, IInv
<1>3. /\ pc[c] = "unlock" /\ pc' = [pc EXCEPT ![c] = "idle"]
      /\ call' = [call EXCEPT ![c] = NoCall] /\ answer' = [answer EXCEPT ![c] = Nobody]
      /\ free' = free
    BY DEF Unlock, Goto
<1>4. Others(c) /\ pc'[c] = "idle" BY <1>2, <1>3 DEF Others, CallInv, TypeInv
<1>5. SameMapping BY <1>1, <1>2, UnlockStep
<1>6. Translation' = Translation BY <1>5, TranslationIs DEF SameMapping
<1>7. Request' = Request
  <2>1. RequestOf(c)' = RequestOf(c) BY <1>3, <1>4 DEF RequestOf
  <2> QED BY <1>4, <2>1, RequestUpdate
<1>8. CASE answer[c] # Nobody BY <1>3, <1>6, <1>7, <1>8 DEF Abstract!Forget
<1>9. CASE answer[c] = Nobody
  <2>1. answer' = answer BY <1>2, <1>3, <1>9 DEF AnswerInv
  <2> QED BY <1>3, <1>6, <1>7, <2>1
<1> QED BY <1>8, <1>9

\* The steps of a call before and after the one in which it takes effect.
LEMMA RefinesInner ==
    ASSUME RInv, NEW c \in Cpus, ~Astray(c),
           \/ MapLock(c) \/ UnmapLock(c) \/ GetLock(c)
           \/ MapDescend(c) \/ UnmapDescend(c) \/ GetDescend(c)
           \/ MapAllocate(c) \/ MapClear(c) \/ MapLink(c)
           \/ PruneFree(c) \/ PruneUnlink(c) \/ PruneStop(c)
    PROVE  UNCHANGED <<Translation, Request, answer>>
<1>1. PICK lvl \in [Frames -> 0 .. 4], own \in [Frames -> States] : TreesInv(lvl, own)
    BY DEF RInv, IInv
<1>2. CallInv BY DEF RInv, IInv
<1>3. CASE MapLock(c) \/ UnmapLock(c) \/ GetLock(c)
  <2>1. SameMapping BY <1>1, <1>2, <1>3, EnterStep DEF MapLock, UnmapLock, GetLock, Waiting
  <2>2. /\ call' = call /\ answer' = answer
        /\ \/ pc[c] = "map_lock" /\ pc' = [pc EXCEPT ![c] = "map_walk"]
           \/ pc[c] = "unmap_lock" /\ pc' = [pc EXCEPT ![c] = "unmap_walk"]
           \/ pc[c] = "get_lock" /\ pc' = [pc EXCEPT ![c] = "get_walk"]
      BY <1>3 DEF MapLock, UnmapLock, GetLock, Enter, Goto
  <2>3. Others(c) BY <1>2, <2>2 DEF Others, CallInv, TypeInv
  <2>4. RequestOf(c)' = RequestOf(c) BY <1>2, <2>2 DEF RequestOf, CallInv, TypeInv
  <2> QED BY <2>1, <2>2, <2>3, <2>4, Stutter
<1>4. CASE MapDescend(c) \/ UnmapDescend(c) \/ GetDescend(c)
  <2>1. SameMapping
      BY <1>1, <1>2, <1>4, DescendStep
  <2>2. call' = call /\ answer' = answer /\ pc' = pc
      BY <1>4 DEF MapDescend, UnmapDescend, GetDescend, Descend
  <2>3. Others(c) /\ RequestOf(c)' = RequestOf(c) BY <2>2 DEF Others, RequestOf
  <2> QED BY <2>1, <2>2, <2>3, Stutter
<1>5. CASE MapAllocate(c) \/ MapClear(c) \/ MapLink(c)
  <2>1. SameMapping BY <1>1, <1>2, <1>5, MapAllocateStep, MapClearStep, MapLinkStep
  <2>2. /\ call' = call /\ answer' = answer
        /\ pc[c] \in {"map_walk", "map_clear", "map_link"}
        /\ \E l \in {"map_walk", "map_clear", "map_link"} : pc' = [pc EXCEPT ![c] = l]
      BY <1>5 DEF MapAllocate, MapClear, MapLink, Goto
  <2>3. Others(c) BY <1>2, <2>2 DEF Others, CallInv, TypeInv
  <2>4. pc'[c] \in {"map_walk", "map_clear", "map_link"} BY <1>2, <2>2 DEF CallInv, TypeInv
  <2>5. RequestOf(c)' = RequestOf(c) BY <2>2, <2>4 DEF RequestOf
  <2> QED BY <2>1, <2>2, <2>3, <2>5, Stutter
<1>6. CASE PruneFree(c) \/ PruneUnlink(c) \/ PruneStop(c)
  <2>1. SameMapping BY <1>1, <1>2, <1>6, PruneFreeStep, PruneUnlinkStep, EndStep
  <2>2. /\ call' = call /\ answer' = answer
        /\ pc[c] \in {"prune", "unlink"}
        /\ \E l \in {"prune", "unlink", "unlock"} : pc' = [pc EXCEPT ![c] = l]
      BY <1>6 DEF PruneFree, PruneUnlink, PruneStop, Goto
  <2>3. Others(c) BY <1>2, <2>2 DEF Others, CallInv, TypeInv
  <2>4. pc'[c] \in {"prune", "unlink", "unlock"} BY <1>2, <2>2 DEF CallInv, TypeInv
  <2>5. RequestOf(c)' = RequestOf(c) BY <2>2, <2>4 DEF RequestOf
  <2> QED BY <2>1, <2>2, <2>3, <2>5, Stutter
<1> QED BY <1>3, <1>4, <1>5, <1>6

LEMMA NextAnswerInv == ASSUME CallInv, AnswerInv, [Next]_vars PROVE AnswerInv'
<1>1. pc \in [Cpus -> Places] BY DEF CallInv, TypeInv
<1>2. ASSUME NEW c \in Cpus, answer' = answer, pc[c] # "unlock",
             \A d \in Cpus \ {c} : pc'[d] = pc[d]
      PROVE  AnswerInv'
    BY <1>2 DEF AnswerInv
<1>3. ASSUME NEW c \in Cpus, NEW s \in States, NEW v \in VAddrs,
             \/ \E q \in PhysPages : MapPage(c, s, v, q)
             \/ UnmapPage(c, s, v) \/ GetPhysicalAddress(c, s, v)
      PROVE  AnswerInv'
  <2>1. pc[c] = "idle" /\ answer' = answer /\ \E l : pc' = [pc EXCEPT ![c] = l]
      BY <1>3 DEF MapPage, UnmapPage, GetPhysicalAddress, Goto
  <2> QED BY <1>1, <1>2, <2>1
<1>4. ASSUME NEW c \in Cpus, Step(c) PROVE AnswerInv'
  <2>1. CASE GetFound(c)
    <3>1. /\ \E x : answer' = [answer EXCEPT ![c] = x]
          /\ pc' = [pc EXCEPT ![c] = "unlock"]
        BY <2>1 DEF GetFound, Goto
    <3> QED BY <1>1, <3>1 DEF AnswerInv
  <2>2. CASE Unlock(c)
    <3>1. answer' = [answer EXCEPT ![c] = Nobody] /\ pc' = [pc EXCEPT ![c] = "idle"]
        BY <2>2 DEF Unlock, Goto
    <3> QED BY <1>1, <3>1 DEF AnswerInv
  <2>3. CASE \/ MapLock(c) \/ UnmapLock(c) \/ GetLock(c)
             \/ MapDescend(c) \/ UnmapDescend(c) \/ GetDescend(c)
    <3>1. /\ pc[c] # "unlock" /\ answer' = answer
          /\ pc' = pc \/ \E l : pc' = [pc EXCEPT ![c] = l]
        BY <2>3 DEF MapLock, UnmapLock, GetLock, Enter, MapDescend, UnmapDescend, GetDescend,
                    Descend, Goto
    <3> QED BY <1>1, <1>2, <3>1
  <2>4. CASE \/ MapAllocate(c) \/ MapNoMemory(c) \/ MapClear(c) \/ MapLink(c) \/ MapMapped(c)
             \/ MapWrite(c) \/ UnmapUnmapped(c) \/ UnmapClear(c)
             \/ PruneFree(c) \/ PruneUnlink(c) \/ PruneStop(c)
    <3>1. pc[c] # "unlock" /\ answer' = answer /\ \E l : pc' = [pc EXCEPT ![c] = l]
        BY <2>4 DEF MapAllocate, MapNoMemory, MapClear, MapLink, MapMapped, MapWrite,
                    UnmapUnmapped, UnmapClear, PruneFree, PruneUnlink, PruneStop, Panic, Goto
    <3> QED BY <1>1, <1>2, <3>1
  <2> QED BY <1>4, <2>1, <2>2, <2>3, <2>4 DEF Step
<1>5. CASE UNCHANGED vars BY <1>5 DEF vars, AnswerInv
<1>6. ASSUME NEW c \in Cpus, MapMisaligned(c) PROVE AnswerInv'
    BY <1>1, <1>2, <1>6 DEF MapMisaligned, Goto
<1> QED BY <1>3, <1>4, <1>5, <1>6 DEF Next

LEMMA RefinesNext ==
    ASSUME RInv, [Next]_vars
    PROVE  [Abstract!Next]_<<Translation, Request, answer, free # {}>>
<1>1. ASSUME NEW c \in Cpus, NEW s \in States, NEW v \in VAddrs,
             \/ \E q \in PhysPages : MapPage(c, s, v, q)
             \/ UnmapPage(c, s, v) \/ GetPhysicalAddress(c, s, v)
      PROVE  Abstract!Next
    BY <1>1, RefinesAsk DEF Abstract!Next
<1>2. ASSUME NEW c \in Cpus, Step(c), ~Astray(c)
      PROVE  Abstract!Next \/ UNCHANGED <<Translation, Request, answer, free # {}>>
  <2>1. CASE MapWrite(c) \/ UnmapClear(c) BY <2>1, RefinesLeaf DEF Abstract!Next
  <2>2. CASE GetFound(c) BY <2>2, RefinesGet DEF Abstract!Next
  <2>3. CASE MapNoMemory(c) \/ MapMapped(c) \/ UnmapUnmapped(c)
      BY <2>3, RefinesRefuse DEF Abstract!Next
  <2>4. CASE Unlock(c) BY <2>4, RefinesReturn DEF Abstract!Next
  <2>5. CASE \/ MapLock(c) \/ UnmapLock(c) \/ GetLock(c)
             \/ MapDescend(c) \/ UnmapDescend(c) \/ GetDescend(c)
             \/ MapAllocate(c) \/ MapClear(c) \/ MapLink(c)
             \/ PruneFree(c) \/ PruneUnlink(c) \/ PruneStop(c)
    <3>1. UNCHANGED <<Translation, Request, answer>> BY <1>2, <2>5, RefinesInner
    <3>2. (free # {})' = (free # {}) \/ (free # {})' = ~(free # {}) OBVIOUS
    <3> QED BY <3>1, <3>2 DEF Abstract!Next, Abstract!Turnover
  <2> QED BY <1>2, <2>1, <2>2, <2>3, <2>4, <2>5 DEF Step
<1>3. CASE UNCHANGED vars
  <2>1. UNCHANGED <<lock, free, mem, pc, call, path, new, answer>> BY <1>3 DEF vars
  <2>2. \A f, i : Unlinking(f, i)' <=> Unlinking(f, i) BY <2>1, SameUnlinking
  <2>3. Links' = Links BY <2>1, <2>2 DEF Links, Link
  <2>4. Translation' = Translation BY <2>3, TranslationIs
  <2>5. Request' = Request BY <2>1 DEF Request, RequestOf
  <2> QED BY <2>1, <2>4, <2>5
<1>4. ASSUME NEW c \in Cpus, MapMisaligned(c)
      PROVE  UNCHANGED <<Translation, Request, answer, free # {}>>
  <2>1. SameMapping BY <1>4, HaltStep DEF RInv
  <2>2. /\ pc[c] = "idle" /\ pc' = [pc EXCEPT ![c] = "halted"]
        /\ call' = call /\ answer' = answer /\ free' = free
      BY <1>4 DEF MapMisaligned, Goto
  <2>3. Others(c) /\ pc'[c] = "halted" BY <2>2 DEF Others, RInv, IInv, CallInv, TypeInv
  <2>4. RequestOf(c)' = RequestOf(c) BY <2>2, <2>3 DEF RequestOf
  <2> QED BY <2>1, <2>2, <2>3, <2>4, Stutter
<1> QED BY <1>1, <1>2, <1>3, <1>4 DEF Next

LEMMA RefinesInit == Init => Abstract!Init /\ AnswerInv
<1> SUFFICES ASSUME Init PROVE Abstract!Init /\ AnswerInv OBVIOUS
<1>1. /\ pc = [c \in Cpus |-> "idle"] /\ answer = [c \in Cpus |-> Nobody] BY DEF Init
<1>2. AnswerInv BY <1>1 DEF AnswerInv
<1>3. Request = [c \in Cpus |-> [op |-> "none"]] BY <1>1 DEF Request, RequestOf
<1>4. PICK lvl, own : Tree(Links, lvl, own, free \cup News) BY InitIInv DEF IInv, TreesInv
<1>5. ASSUME NEW s \in States, NEW v \in VAddrs
      PROVE  WalkIn(Links, s, v) \in PhysPages \cup {Absent, Junk}
  <2>1. PICK x : OnLevel(lvl, own, x, s, 4) /\ WalkIn(Links, s, v) = BelowIn(Links, x, v[4])
      BY <1>4, Levels
  <2>2. v[4] \in Index BY Constants
  <2>3. CASE x \in Frames
    <3>1. lvl[x] = 4 BY <2>1, <2>3, Constants DEF OnLevel
    <3>2. Links[x][v[4]] \in PhysPages \cup {Absent} BY <1>4, <2>2, <2>3, <3>1 DEF Tree
    <3> QED BY <2>1, <2>3, <3>2 DEF BelowIn
  <2>4. CASE x \notin Frames BY <2>1, <2>4 DEF BelowIn
  <2> QED BY <2>3, <2>4
<1>6. Translation \in [States -> [VAddrs -> PhysPages \cup {Absent, Junk}]]
    BY <1>5, TranslationIs
<1>7. Abstract!Init BY <1>1, <1>3, <1>6 DEF Abstract!Init, Abstract!NoRequest
<1> QED BY <1>2, <1>7

\* MapPage, UnmapPage and GetPhysicalAddress implement AddressSpace: each takes
\* effect in one step, for its own page only, and panics only where it must,
\* however the calls interleave and whatever the tables share and free.
THEOREM ImplementsAddressSpaceHolds == Spec => ImplementsAddressSpace
<1>1. Init => RInv /\ Abstract!Init BY InitIInv, RefinesInit DEF RInv
<1>2. RInv /\ [Next]_vars => RInv' BY NextIInv, NextAnswerInv DEF RInv, IInv
<1>3. RInv /\ [Next]_vars => [Abstract!Next]_<<Translation, Request, answer, free # {}>>
    BY RefinesNext
<1> QED BY <1>1, <1>2, <1>3, PTL DEF Spec, ImplementsAddressSpace, Abstract!Spec
=============================================================================
