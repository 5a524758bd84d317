-------------------------- MODULE PagingInitProofs --------------------------
(***************************************************************************)
(* Proofs about the page tables that the kernel starts with: what          *)
(* Paging::Initialize copies from the boot loader's, and what the search   *)
(* for free virtual addresses finds in the copy.  The order of the calls   *)
(* is that of StartProofs, and so are the lemmas on recursive functions.   *)
(***************************************************************************)
EXTENDS StartProofs

USE DEF There, kept, lineVars, GoOn, Leave, End, Answer, Calling, Finished, Busy

(***************************************************************************)
(* Paging::Initialize.  m0 is memory as the boot loader leaves it, frames  *)
(* 1 .. n are free in it; the work touches these and frame 0 only.         *)
(***************************************************************************)
Works(m0, n) ==
    {s \in [mem : [DOMAIN m0 -> [Slots -> PageEntries]], free : {InOrder(k, n) : k \in 1 .. n + 1},
            root : 0 .. n, panic : BOOLEAN] :
       \A f \in DOMAIN m0 \ (0 .. n) : s.mem[f] = m0[f]}
NextFree(n, s) == n + 1 - Len(s.free)
BlankRow == [i \in Slots |-> NoEntry]

LEMMA Sizes == /\ Index \subseteq Slots /\ KernelSlots \subseteq Slots /\ 0 \in Index
               /\ NoEntry \in PageEntries /\ BlankRow \in [Slots -> PageEntries]
               /\ \A f \in Nat : PresentReadWrite(f) \in PageEntries
  <1>1. PML4Size \in Nat /\ TableSize \in Nat /\ TableSize >= 1 /\ TableSize <= PML4Size
        /\ PML4Size \div 2 \in Nat
    BY PagingInitAssumption
  <1>2. NoEntry \in PageEntries BY DEF NoEntry, PageEntries
  <1>3. \A f \in Nat : PresentReadWrite(f) \in PageEntries
    <2>1. {"ReadWrite"} \in SUBSET Flags BY DEF Flags
    <2> QED BY <2>1 DEF PresentReadWrite, PageEntries
  <1> QED BY <1>1, <1>2, <1>3 DEF Index, Slots, KernelSlots, BlankRow

LEMMA FreeFrameList ==
    ASSUME NEW n \in Nat, NEW k \in 1 .. n + 1
    PROVE  /\ InOrder(k, n) \in Seq(Nat) /\ Len(InOrder(k, n)) = n + 1 - k
           /\ InOrder(k, n) = <<>> <=> k = n + 1
           /\ k <= n => Head(InOrder(k, n)) = k /\ Tail(InOrder(k, n)) = InOrder(k + 1, n)
  <1> DEFINE q == InOrder(k, n)
             l == n - k + 1
  <1>1. l \in Nat /\ q = [j \in 1 .. l |-> k + j - 1] BY DEF InOrder
  <1>2. q \in Seq(Nat) /\ Len(q) = l BY <1>1
  <1>3. q = <<>> <=> l = 0 BY <1>2
  <1>4. ASSUME k <= n PROVE Head(q) = k /\ Tail(q) = InOrder(k + 1, n)
    <2>1. l >= 1 BY <1>4
    <2>2. q[1] = k BY <1>1, <2>1
    <2> HIDE DEF q, l
    <2>3. Head(q) = q[1] BY <1>2, <2>1
    <2>4. Tail(q) = [j \in 1 .. l - 1 |-> q[j + 1]]
      <3> DEFINE z == Tail(q)
      <3>1. /\ z \in Seq(Nat) /\ Len(z) = l - 1
            /\ \A j \in 1 .. l - 1 : z[j] = q[j + 1]
        BY <1>2, <2>1
      <3> HIDE DEF z
      <3>2. z = [j \in 1 .. l - 1 |-> z[j]] BY <3>1
      <3> QED BY <3>1, <3>2 DEF z
    <2>5. \A j \in 1 .. l - 1 : q[j + 1] = (k + 1) + j - 1
      <3>1. \A j \in 1 .. l - 1 : j + 1 \in 1 .. l BY <1>1
      <3> QED BY <1>1, <3>1
    <2>6. n - (k + 1) + 1 = l - 1 BY DEF l
    <2>7. InOrder(k + 1, n) = [j \in 1 .. l - 1 |-> (k + 1) + j - 1] BY <2>6 DEF InOrder
    <2> QED BY <2>2, <2>3, <2>4, <2>5, <2>7
  <1>5. l = n + 1 - k BY DEF l
  <1> HIDE DEF q, l
  <1>6. l = 0 <=> k = n + 1 BY <1>1, <1>5
  <1> QED BY <1>2, <1>3, <1>4, <1>5, <1>6 DEF q

\* AllocatePages gives the next frame, or 0 when there is none.
LEMMA Allocating ==
    ASSUME NEW m0, NEW n, Memory(m0, n), NEW s \in Works(m0, n)
    PROVE  LET k == NextFree(n, s)
               t == Taken(s)
           IN  /\ k \in 1 .. n + 1 /\ (s.free = <<>> <=> k = n + 1)
               /\ Frame(s) = (IF k <= n THEN k ELSE 0) /\ Frame(s) \in 0 .. n
               /\ t \in Works(m0, n) /\ NextFree(n, t) = (IF k <= n THEN k + 1 ELSE k)
               /\ t.mem = s.mem /\ t.root = s.root /\ t.panic = s.panic
  <1> DEFINE t == Taken(s)
  <1>0. n \in Nat BY DEF Memory
  <1>1. PICK k \in 1 .. n + 1 : s.free = InOrder(k, n) BY DEF Works
  <1>2. Len(s.free) = n + 1 - k /\ (s.free = <<>> <=> k = n + 1)
    BY <1>0, <1>1, FreeFrameList
  <1>3. NextFree(n, s) = k BY <1>0, <1>2 DEF NextFree
  <1>4. /\ t.mem = s.mem /\ t.root = s.root /\ t.panic = s.panic
        /\ t.free = IF s.free = <<>> THEN s.free ELSE Tail(s.free)
        /\ t = [mem |-> s.mem, free |-> t.free, root |-> s.root, panic |-> s.panic]
    <2> DEFINE x == IF s.free = <<>> THEN s.free ELSE Tail(s.free)
    <2>1. t = [s EXCEPT !.free = x] BY DEF Taken
    <2> HIDE DEF x, t
    <2>2. s = [mem |-> s.mem, free |-> s.free, root |-> s.root, panic |-> s.panic] BY DEF Works
    <2> QED BY <2>1, <2>2 DEF x
  <1>5. CASE k = n + 1
    <2>1. t.free = InOrder(k, n) BY <1>1, <1>2, <1>4, <1>5
    <2>2. t \in Works(m0, n) BY <1>4, <2>1 DEF Works
    <2>3. NextFree(n, t) = k BY <1>1, <1>3, <2>1 DEF NextFree
    <2>4. Frame(s) = 0 BY <1>2, <1>5 DEF Frame
    <2> QED BY <1>0, <1>2, <1>3, <1>4, <1>5, <2>2, <2>3, <2>4
  <1>6. CASE k <= n
    <2>1. k # n + 1 /\ k + 1 \in 1 .. n + 1 BY <1>0, <1>6
    <2>2. t.free = InOrder(k + 1, n) BY <1>0, <1>1, <1>2, <1>4, <1>6, <2>1, FreeFrameList
    <2>3. t \in Works(m0, n) BY <1>4, <2>1, <2>2 DEF Works
    <2>4. NextFree(n, t) = k + 1
      <3>1. Len(t.free) = n + 1 - (k + 1) BY <1>0, <2>1, <2>2, FreeFrameList
      <3> QED BY <1>0, <3>1 DEF NextFree
    <2>5. Frame(s) = k BY <1>0, <1>1, <1>2, <1>6, <2>1, FreeFrameList DEF Frame
    <2> QED BY <1>0, <1>2, <1>3, <1>4, <1>6, <2>1, <2>3, <2>4, <2>5
  <1> QED BY <1>0, <1>5, <1>6

\* What Write and Memset change.
LEMMA Writing ==
    ASSUME NEW m0, NEW n, Memory(m0, n), NEW s \in Works(m0, n),
           NEW f \in 0 .. n, NEW i \in Slots, NEW e \in PageEntries
    PROVE  LET t == Write(s, f, i, e)
           IN  /\ t \in Works(m0, n) /\ t.free = s.free /\ t.root = s.root /\ t.panic = s.panic
               /\ t.mem[f][i] = e /\ \A j \in Slots : j # i => t.mem[f][j] = s.mem[f][j]
               /\ \A g \in DOMAIN m0 : g # f => t.mem[g] = s.mem[g]
  <1> DEFINE t == Write(s, f, i, e)
             row == [s.mem[f] EXCEPT ![i] = e]
  <1>1. f \in DOMAIN m0 BY DEF Memory
  <1>2. s.mem \in [DOMAIN m0 -> [Slots -> PageEntries]] /\ s.mem[f] \in [Slots -> PageEntries]
    BY <1>1 DEF Works
  <1>3. t = [mem |-> [s.mem EXCEPT ![f] = row], free |-> s.free, root |-> s.root, panic |-> s.panic]
    BY DEF Write, Works
  <1>4. row \in [Slots -> PageEntries] /\ row[i] = e /\ \A j \in Slots : j # i => row[j] = s.mem[f][j]
    BY <1>2
  <1> HIDE DEF row
  <1>5. /\ t.mem \in [DOMAIN m0 -> [Slots -> PageEntries]] /\ t.mem[f] = row
        /\ \A g \in DOMAIN m0 : g # f => t.mem[g] = s.mem[g]
    BY <1>1, <1>2, <1>3, <1>4
  <1>6. t \in Works(m0, n)
    <2>1. \A g \in DOMAIN m0 \ (0 .. n) : t.mem[g] = m0[g] BY <1>5 DEF Works
    <2>2. /\ s.free \in {InOrder(k, n) : k \in 1 .. n + 1} /\ s.root \in 0 .. n
          /\ s.panic \in BOOLEAN
      BY DEF Works
    <2>3. t.free = s.free /\ t.root = s.root /\ t.panic = s.panic BY <1>3
    <2> HIDE DEF t
    <2> QED BY <1>3, <1>5, <2>1, <2>2, <2>3 DEF Works
  <1>7. t.free = s.free /\ t.root = s.root /\ t.panic = s.panic BY <1>3
  <1> HIDE DEF t
  <1> QED BY <1>4, <1>5, <1>6, <1>7 DEF t

LEMMA Clearing ==
    ASSUME NEW m0, NEW n, Memory(m0, n), NEW s \in Works(m0, n), NEW f \in 0 .. n
    PROVE  LET t == Memset(s, f)
           IN  /\ t \in Works(m0, n) /\ t.free = s.free /\ t.root = s.root /\ t.panic = s.panic
               /\ t.mem[f] = BlankRow /\ \A g \in DOMAIN m0 : g # f => t.mem[g] = s.mem[g]
  <1> DEFINE t == Memset(s, f)
  <1>1. f \in DOMAIN m0 BY DEF Memory
  <1>2. s.mem \in [DOMAIN m0 -> [Slots -> PageEntries]] /\ s.mem[f] \in [Slots -> PageEntries]
    BY <1>1 DEF Works
  <1>3. t = [mem |-> [s.mem EXCEPT ![f] = BlankRow],
             free |-> s.free, root |-> s.root, panic |-> s.panic]
    <2> DEFINE x == [s.mem EXCEPT ![f] = BlankRow]
    <2>1. t = [s EXCEPT !.mem = x] BY DEF Memset, BlankRow
    <2> HIDE DEF x, t
    <2>2. s = [mem |-> s.mem, free |-> s.free, root |-> s.root, panic |-> s.panic] BY DEF Works
    <2> QED BY <2>1, <2>2 DEF x
  <1>5. /\ t.mem \in [DOMAIN m0 -> [Slots -> PageEntries]] /\ t.mem[f] = BlankRow
        /\ \A g \in DOMAIN m0 : g # f => t.mem[g] = s.mem[g]
    BY <1>1, <1>2, <1>3, Sizes
  <1>6. t.free = s.free /\ t.root = s.root /\ t.panic = s.panic BY <1>3
  <1>7. t \in Works(m0, n)
    <2>1. \A g \in DOMAIN m0 \ (0 .. n) : t.mem[g] = m0[g] BY <1>5 DEF Works
    <2>2. /\ s.free \in {InOrder(k, n) : k \in 1 .. n + 1} /\ s.root \in 0 .. n
          /\ s.panic \in BOOLEAN
      BY DEF Works
    <2> HIDE DEF t
    <2> QED BY <1>3, <1>5, <1>6, <2>1, <2>2 DEF Works
  <1> HIDE DEF t
  <1> QED BY <1>5, <1>6, <1>7 DEF t

\* What every part of the work may do: take frames from the front of the
\* list and write to these, to dst and, when there is none left, to frame 0.
Grows(m0, n, s, t, dst) ==
    /\ t.root = s.root /\ (s.panic => t.panic) /\ NextFree(n, s) <= NextFree(n, t)
    /\ \A f \in DOMAIN m0 :
         f \notin {0, dst} /\ f \notin NextFree(n, s) .. NextFree(n, t) - 1 => t.mem[f] = s.mem[f]

LEMMA NextFreeIs ==
    ASSUME NEW m0, NEW n, Memory(m0, n), NEW s \in Works(m0, n)
    PROVE  /\ n \in Nat /\ NextFree(n, s) \in 1 .. n + 1 /\ NextFree(n, s) \in Int
           /\ (s.free = <<>> <=> NextFree(n, s) = n + 1)
  <1>1. n \in Nat BY DEF Memory
  <1> QED BY <1>1, Allocating

LEMMA GrowsSelf ==
    ASSUME NEW m0, NEW n, Memory(m0, n), NEW s \in Works(m0, n), NEW dst
    PROVE  Grows(m0, n, s, s, dst)
  BY NextFreeIs DEF Grows

LEMMA GrowsTrans ==
    ASSUME NEW m0, NEW n, Memory(m0, n), NEW s \in Works(m0, n), NEW t \in Works(m0, n),
           NEW u \in Works(m0, n), NEW dst, Grows(m0, n, s, t, dst), Grows(m0, n, t, u, dst)
    PROVE  Grows(m0, n, s, u, dst)
  <1> DEFINE a == NextFree(n, s)
             b == NextFree(n, t)
             c == NextFree(n, u)
  <1>1. a \in Int /\ b \in Int /\ c \in Int BY NextFreeIs
  <1>2. a <= b /\ b <= c BY DEF Grows
  <1>3. ASSUME NEW f \in DOMAIN m0, f \notin {0, dst}, f \notin a .. c - 1 PROVE u.mem[f] = s.mem[f]
    <2>1. f \notin a .. b - 1 /\ f \notin b .. c - 1
      <3> HIDE DEF a, b, c
      <3> QED BY <1>1, <1>2, <1>3
    <2>2. t.mem[f] = s.mem[f] BY <1>3, <2>1 DEF Grows
    <2>3. u.mem[f] = t.mem[f] BY <1>3, <2>1 DEF Grows
    <2> QED BY <2>2, <2>3
  <1>4. a <= c
    <2> HIDE DEF a, b, c
    <2> QED BY <1>1, <1>2
  <1> QED BY <1>3, <1>4 DEF Grows

LEMMA LoopGrows ==
    ASSUME NEW m0, NEW n, Memory(m0, n), NEW N \in Nat, NEW h \in [0 .. N -> Works(m0, n)], NEW dst,
           \A i \in 0 .. N - 1 : Grows(m0, n, h[i], h[i + 1], dst),
           NEW i \in 0 .. N, NEW j \in i .. N
    PROVE  Grows(m0, n, h[i], h[j], dst)
  <1> DEFINE T == {k \in i .. N : ~Grows(m0, n, h[i], h[k], dst)}
  <1>1. T = {}
    <2> SUFFICES ASSUME T # {} PROVE FALSE OBVIOUS
    <2>1. T \in SUBSET Nat OBVIOUS
    <2>2. PICK m \in T : \A y \in T : m <= y
      <3> HIDE DEF T
      <3> QED BY <2>1, Least
    <2>3. m \in i .. N /\ ~Grows(m0, n, h[i], h[m], dst) BY <2>2
    <2>4. h[i] \in Works(m0, n) OBVIOUS
    <2>5. m # i BY <2>3, <2>4, GrowsSelf
    <2>6. m - 1 \in i .. N /\ m - 1 \in 0 .. N - 1 /\ m \in 0 .. N /\ m - 1 \in 0 .. N
          /\ ~(m <= m - 1) /\ (m - 1) + 1 = m
      BY <2>3, <2>5
    <2>7. Grows(m0, n, h[i], h[m - 1], dst) BY <2>2, <2>6
    <2>8. Grows(m0, n, h[m - 1], h[m], dst) BY <2>6
    <2>9. h[m - 1] \in Works(m0, n) /\ h[m] \in Works(m0, n) BY <2>6
    <2> QED BY <2>3, <2>4, <2>7, <2>8, <2>9, GrowsTrans
  <1> QED BY <1>1

\* What no iteration between changes.
CellKept(h, a, b, dst, j) == \A k \in a .. b - 1 : h[k + 1].mem[dst][j] = h[k].mem[dst][j]
LEMMA LoopCell ==
    ASSUME NEW a \in Nat, NEW b \in Nat, a <= b, NEW h, NEW dst, NEW j, CellKept(h, a, b, dst, j)
    PROVE  h[b].mem[dst][j] = h[a].mem[dst][j]
  <1> DEFINE T == {k \in a .. b : h[k].mem[dst][j] # h[a].mem[dst][j]}
  <1>1. T = {}
    <2> SUFFICES ASSUME T # {} PROVE FALSE OBVIOUS
    <2>1. T \in SUBSET Nat OBVIOUS
    <2>2. PICK m \in T : \A y \in T : m <= y
      <3> HIDE DEF T
      <3> QED BY <2>1, Least
    <2>3. m \in a .. b /\ h[m].mem[dst][j] # h[a].mem[dst][j] BY <2>2
    <2>4. m # a BY <2>3
    <2>5. m - 1 \in a .. b /\ m - 1 \in a .. b - 1 /\ ~(m <= m - 1) /\ (m - 1) + 1 = m
      BY <2>3, <2>4
    <2>6. h[m - 1].mem[dst][j] = h[a].mem[dst][j] BY <2>2, <2>5
    <2>7. h[m].mem[dst][j] = h[m - 1].mem[dst][j] BY <2>5 DEF CellKept
    <2> QED BY <2>3, <2>6, <2>7
  <1> QED BY <1>1

\* A loop that writes entry i of the row of dst in its iteration i only.
RowLoop(h, N, dst) == \A i \in 0 .. N - 1 : \A j \in 0 .. N - 1 :
                        j # i => h[i + 1].mem[dst][j] = h[i].mem[dst][j]
RowLooped(h, N, dst) == \A j \in 0 .. N - 1 : /\ h[j].mem[dst][j] = h[0].mem[dst][j]
                                              /\ h[N].mem[dst][j] = h[j + 1].mem[dst][j]
LEMMA LoopRow ==
    ASSUME NEW N \in Nat, NEW h, NEW dst, RowLoop(h, N, dst)
    PROVE  RowLooped(h, N, dst)
  <1> SUFFICES ASSUME NEW j \in 0 .. N - 1
               PROVE  /\ h[j].mem[dst][j] = h[0].mem[dst][j]
                      /\ h[N].mem[dst][j] = h[j + 1].mem[dst][j]
    BY DEF RowLooped
  <1>1. h[j].mem[dst][j] = h[0].mem[dst][j]
    <2>1. 0 \in Nat /\ j \in Nat /\ 0 <= j OBVIOUS
    <2>2. \A k \in 0 .. j - 1 : k \in 0 .. N - 1 /\ j # k OBVIOUS
    <2>3. CellKept(h, 0, j, dst, j) BY <2>2 DEF RowLoop, CellKept
    <2> QED BY <2>1, <2>3, LoopCell
  <1>2. h[N].mem[dst][j] = h[j + 1].mem[dst][j]
    <2>1. j + 1 \in Nat /\ j + 1 <= N OBVIOUS
    <2>2. \A k \in j + 1 .. N - 1 : k \in 0 .. N - 1 /\ j # k OBVIOUS
    <2>3. CellKept(h, j + 1, N, dst, j) BY <2>2 DEF RowLoop, CellKept
    <2> QED BY <2>1, <2>3, LoopCell
  <1> QED BY <1>1, <1>2

\* The boot loader's tables are read as they were.
LEMMA Reading ==
    ASSUME NEW m0, NEW n, Memory(m0, n), NEW s \in Works(m0, n), NEW src, src \notin 0 .. n, NEW i
    PROVE  EntryOf(s.mem, src, i) = EntryOf(m0, src, i) /\ EntryOf(m0, src, i) \in PageEntries
  <1>1. DOMAIN s.mem = DOMAIN m0 BY DEF Works
  <1>2. CASE src \in DOMAIN m0
    <2>1. s.mem[src] = m0[src] /\ m0[src] \in [Slots -> PageEntries] BY <1>2 DEF Works, Memory
    <2> QED BY <1>1, <1>2, <2>1, Sizes DEF EntryOf
  <1>3. CASE src \notin DOMAIN m0 BY <1>1, <1>3, Sizes DEF EntryOf
  <1> QED BY <1>2, <1>3

LEMMA Cell ==
    ASSUME NEW m0, NEW n, Memory(m0, n), NEW s \in Works(m0, n), NEW f \in 0 .. n, NEW i \in Slots
    PROVE  f \in DOMAIN m0 /\ EntryOf(s.mem, f, i) = s.mem[f][i] /\ s.mem[f][i] \in PageEntries
  BY DEF Memory, Works, EntryOf

LEMMA CopyPTStep ==
    ASSUME NEW m0, NEW n, Memory(m0, n), NEW s \in Works(m0, n), NEW src, src \notin 0 .. n,
           NEW dst \in 0 .. n, NEW i \in Index
    PROVE  LET e == EntryOf(m0, src, i)
               t == CopyEntry(1, NoDeeper, src, dst, s, i)
           IN  /\ t \in Works(m0, n) /\ Grows(m0, n, s, t, dst) /\ t.free = s.free
               /\ t.mem[dst][i] = IF e.present THEN e ELSE s.mem[dst][i]
               /\ \A j \in Index : j # i => t.mem[dst][j] = s.mem[dst][j]
  <1> DEFINE e == EntryOf(m0, src, i)
             t == CopyEntry(1, NoDeeper, src, dst, s, i)
  <1>1. EntryOf(s.mem, src, i) = e /\ e \in PageEntries BY Reading
  <1>2. Index \subseteq Slots /\ i \in Slots BY Sizes
  <1>3. t = IF e.present THEN Write(s, dst, i, e) ELSE s
    <2> HIDE DEF e
    <2>1. e.present \in BOOLEAN BY <1>1 DEF PageEntries
    <2> QED BY <1>1, <2>1 DEF CopyEntry, IsLeaf
  <1> HIDE DEF e, t
  <1>4. CASE ~e.present BY <1>3, <1>4, GrowsSelf DEF e, t
  <1>5. CASE e.present
    <2> DEFINE w == Write(s, dst, i, e)
    <2>1. /\ w \in Works(m0, n) /\ w.free = s.free /\ w.root = s.root /\ w.panic = s.panic
          /\ w.mem[dst][i] = e /\ \A j \in Slots : j # i => w.mem[dst][j] = s.mem[dst][j]
          /\ \A g \in DOMAIN m0 : g # dst => w.mem[g] = s.mem[g]
      BY <1>1, <1>2, Writing
    <2>2. t = w BY <1>3, <1>5
    <2> HIDE DEF w
    <2>3. NextFree(n, t) = NextFree(n, s) /\ NextFree(n, s) \in Int BY <2>1, <2>2, NextFreeIs DEF NextFree
    <2>4. Grows(m0, n, s, t, dst) BY <2>1, <2>2, <2>3 DEF Grows
    <2> QED BY <1>2, <1>5, <2>1, <2>2, <2>4 DEF e, t
  <1> QED BY <1>4, <1>5

LEMMA CopyPTLoop ==
    ASSUME NEW m0, NEW n, Memory(m0, n), NEW st \in Works(m0, n),
           NEW src, src \notin 0 .. n, NEW dst \in 0 .. n
    PROVE  \E h \in [0 .. TableSize -> Works(m0, n)] :
             /\ h[0] = st /\ h[TableSize] = CopyPT(src, dst, st)
             /\ \A i \in 0 .. TableSize - 1 : h[i + 1] = CopyEntry(1, NoDeeper, src, dst, h[i], i)
  <1> DEFINE N == TableSize
             D == Works(m0, n)
             Step(s, i) == CopyEntry(1, NoDeeper, src, dst, s, i - 1)
             c[i \in 0 .. TableSize] == IF i = 0 THEN st ELSE CopyEntry(1, NoDeeper, src, dst, c[i - 1], i - 1)
             Q(f) == f = [i \in 0 .. N |-> IF i = 0 THEN st ELSE Step(f[i - 1], i)]
             S == [x \in D |-> [i \in 1 .. N |-> Step(x, i)]]
  <1>1. N \in Nat BY PagingInitAssumption
  <1>2. CopyPT(src, dst, st) = c[N] BY DEF CopyPT, DeepCopyLevel
  <1>3. c = CHOOSE f : Q(f) OBVIOUS
  <1> HIDE DEF c
  <1>4. \A s \in D : \A i \in 1 .. N : Step(s, i) \in D
    <2>1. \A i \in 1 .. N : i - 1 \in Index BY <1>1 DEF Index
    <2> QED BY <2>1, CopyPTStep
  <1> HIDE DEF N, D, Step
  <1>5. S \in Steps(D, N) /\ \A x \in D : \A i \in 1 .. N : S[x][i] = Step(x, i) BY <1>4 DEF Steps
  <1>6. Before(N) \in Earlier(N) /\ \A i \in 1 .. N : Before(N)[i] = i - 1 BY <1>1, BeforeIsEarlier
  <1> HIDE DEF S
  <1>7. st \in D BY DEF D
  <1>8. PICK g : Computes(g, D, st, N, Before(N), S) BY <1>1, <1>5, <1>6, <1>7, RecursionExists
  <1>9. g \in [0 .. N -> D] /\ g[0] = st /\ \A i \in 1 .. N : g[i] = S[g[i - 1]][i]
    BY <1>6, <1>8 DEF Computes
  <1>10. Q(g)
    <2>1. ASSUME NEW i \in 0 .. N PROVE g[i] = IF i = 0 THEN st ELSE Step(g[i - 1], i)
      <3>1. CASE i = 0 BY <1>9, <3>1
      <3>2. CASE i # 0
        <4>1. i \in 1 .. N /\ i - 1 \in 0 .. N BY <1>1, <3>2
        <4>2. g[i - 1] \in D BY <1>9, <4>1
        <4> QED BY <1>5, <1>9, <3>2, <4>1, <4>2
      <3> QED BY <3>1, <3>2
    <2> QED BY <1>9, <2>1
  <1> HIDE DEF Q
  <1>11. Q(c) BY <1>3, <1>10
  <1> USE DEF Q
  <1>12. \A i \in 0 .. N : c[i] = IF i = 0 THEN st ELSE Step(c[i - 1], i) BY <1>11
  <1>13. c = [i \in 0 .. N |-> c[i]] BY <1>11
  <1> HIDE DEF Q
  <1>14. \A i \in 1 .. N : i # 0 /\ i \in 0 .. N BY <1>1
  <1>15. c[0] = st /\ \A i \in 1 .. N : c[i] = Step(c[i - 1], i) BY <1>1, <1>12, <1>14
  <1>16. \A i \in 1 .. N : c[Before(N)[i]] \in D => c[i] = S[c[Before(N)[i]]][i]
    BY <1>5, <1>6, <1>15
  <1>17. Computes(c, D, st, N, Before(N), S)
    BY <1>1, <1>5, <1>6, <1>7, <1>13, <1>15, <1>16, RecursionTyped
  <1>18. c \in [0 .. N -> D] BY <1>17 DEF Computes
  <1>19. ASSUME NEW i \in 0 .. N - 1 PROVE c[i + 1] = CopyEntry(1, NoDeeper, src, dst, c[i], i)
    <2>1. i + 1 \in 1 .. N /\ (i + 1) - 1 = i BY <1>1
    <2>2. c[i + 1] = Step(c[i], i + 1) BY <1>15, <2>1
    <2> QED BY <2>1, <2>2 DEF Step
  <1> QED BY <1>2, <1>15, <1>18, <1>19 DEF N, D

CopiedPT(m0, m, src, dst, old) ==
    \A i \in Index : LET e == EntryOf(m0, src, i)
                     IN m[dst][i] = IF e.present THEN e ELSE old[i]

LEMMA CopyPTIs ==
    ASSUME NEW m0, NEW n, Memory(m0, n), NEW st \in Works(m0, n), NEW src, src \notin 0 .. n,
           NEW dst \in 0 .. n
    PROVE  LET r == CopyPT(src, dst, st)
           IN  /\ r \in Works(m0, n) /\ Grows(m0, n, st, r, dst)
               /\ CopiedPT(m0, r.mem, src, dst, st.mem[dst])
  <1> DEFINE N == TableSize
  <1>1. PICK h \in [0 .. N -> Works(m0, n)] :
          /\ h[0] = st /\ h[N] = CopyPT(src, dst, st)
          /\ \A i \in 0 .. N - 1 : h[i + 1] = CopyEntry(1, NoDeeper, src, dst, h[i], i)
    BY CopyPTLoop
  <1>2. N \in Nat /\ Index = 0 .. N - 1 BY PagingInitAssumption DEF Index
  <1>3. \A i \in 0 .. N - 1 :
          /\ Grows(m0, n, h[i], h[i + 1], dst)
          /\ LET e == EntryOf(m0, src, i)
             IN h[i + 1].mem[dst][i] = IF e.present THEN e ELSE h[i].mem[dst][i]
          /\ \A j \in Index : j # i => h[i + 1].mem[dst][j] = h[i].mem[dst][j]
    <2> TAKE i \in 0 .. N - 1
    <2>1. i \in Index /\ h[i] \in Works(m0, n) BY <1>2
    <2>2. h[i + 1] = CopyEntry(1, NoDeeper, src, dst, h[i], i) BY <1>1
    <2> QED BY <2>1, <2>2, CopyPTStep
  <1> HIDE DEF N
  <1>4. N \in 0 .. N /\ 0 \in 0 .. N BY <1>2
  <1>5. Grows(m0, n, h[0], h[N], dst) BY <1>2, <1>3, <1>4, LoopGrows
  <1>r. RowLoop(h, N, dst)
    BY <1>2, <1>3 DEF RowLoop
  <1>w. \A j \in 0 .. N - 1 : /\ h[j].mem[dst][j] = h[0].mem[dst][j]
                              /\ h[N].mem[dst][j] = h[j + 1].mem[dst][j]
    <2>1. N \in Nat BY <1>2
    <2>2. RowLooped(h, N, dst) BY ONLY <1>r, <2>1, LoopRow
    <2> QED BY ONLY <2>2 DEF RowLooped
  <1>6. ASSUME NEW i \in Index
        PROVE  LET e == EntryOf(m0, src, i)
               IN  h[N].mem[dst][i] = IF e.present THEN e ELSE st.mem[dst][i]
    <2>1. i \in 0 .. N - 1 /\ i \in Int /\ i \in 0 .. N /\ i + 1 \in 0 .. N /\ N \in i + 1 .. N
      BY <1>2
    <2>3. h[i].mem[dst][i] = h[0].mem[dst][i] /\ h[N].mem[dst][i] = h[i + 1].mem[dst][i]
      BY <1>w, <2>1
    <2>5. LET e == EntryOf(m0, src, i)
          IN h[i + 1].mem[dst][i] = IF e.present THEN e ELSE h[i].mem[dst][i]
      BY <1>3, <2>1
    <2> QED BY <1>1, <2>3, <2>5
  <1>7. h[N] \in Works(m0, n) BY <1>4
  <1> QED BY <1>1, <1>5, <1>6, <1>7 DEF CopiedPT

(***************************************************************************)
(* The levels above page tables.  An entry is linked if it points to a     *)
(* table; the tables that a loop makes are frames in the order of the      *)
(* entries that they are for.                                              *)
(***************************************************************************)
\* Linking a new table in entry i of dst, and what may then be done with it.
LinkedIn(m0, n, s, dst, i, e) ==
    LET new == Frame(s)
        w == Write(Memset(Taken(s), new), dst, i, [e EXCEPT !.to = new])
        k == NextFree(n, s)
    IN  /\ w \in Works(m0, n) /\ new \in 0 .. n
        /\ dst # 0 /\ dst < k => w.mem[new] = BlankRow
        /\ k <= n => new = k /\ NextFree(n, w) = k + 1
        /\ \A u \in Works(m0, n) : Grows(m0, n, w, u, new) =>
             /\ Grows(m0, n, s, u, dst)
             /\ NextFree(n, u) <= n => k < NextFree(n, u)
             /\ dst # 0 /\ dst < k =>
                  /\ u.mem[dst][i] = [e EXCEPT !.to = new]
                  /\ \A j \in Slots : j # i => u.mem[dst][j] = s.mem[dst][j]

LEMMA Linking ==
    ASSUME NEW m0, NEW n, Memory(m0, n), NEW s \in Works(m0, n), NEW dst \in 0 .. n,
           NEW i \in Slots, NEW e \in PageEntries
    PROVE  LinkedIn(m0, n, s, dst, i, e)
  <1> DEFINE new == Frame(s)
             t == Taken(s)
             c == Memset(t, new)
             x == [e EXCEPT !.to = new]
             w == Write(c, dst, i, x)
             k == NextFree(n, s)
  <1>1. /\ k \in 1 .. n + 1 /\ new = (IF k <= n THEN k ELSE 0) /\ new \in 0 .. n
        /\ t \in Works(m0, n) /\ NextFree(n, t) = (IF k <= n THEN k + 1 ELSE k)
        /\ t.mem = s.mem /\ t.root = s.root /\ t.panic = s.panic
    BY Allocating
  <1>2. n \in Nat /\ k \in Int BY <1>1 DEF Memory
  <1> HIDE DEF new, t, k
  <1>3. /\ c \in Works(m0, n) /\ c.free = t.free /\ c.root = t.root /\ c.panic = t.panic
        /\ c.mem[new] = BlankRow /\ \A g \in DOMAIN m0 : g # new => c.mem[g] = t.mem[g]
    BY <1>1, Clearing
  <1>4. x \in PageEntries
    <2>1. new \in Nat BY <1>1, <1>2
    <2> QED BY <2>1 DEF PageEntries
  <1> HIDE DEF c, x
  <1>5. /\ w \in Works(m0, n) /\ w.free = c.free /\ w.root = c.root /\ w.panic = c.panic
        /\ w.mem[dst][i] = x /\ \A j \in Slots : j # i => w.mem[dst][j] = c.mem[dst][j]
        /\ \A g \in DOMAIN m0 : g # dst => w.mem[g] = c.mem[g]
    BY <1>3, <1>4, Writing
  <1> HIDE DEF w
  <1>6. /\ w.root = s.root /\ w.panic = s.panic /\ NextFree(n, w) = (IF k <= n THEN k + 1 ELSE k)
        /\ \A g \in DOMAIN m0 : g # dst /\ g # new => w.mem[g] = s.mem[g]
    <2>1. NextFree(n, w) = NextFree(n, t) BY <1>3, <1>5 DEF NextFree
    <2> QED BY <1>1, <1>3, <1>5, <2>1
  <1>7. 0 .. n \subseteq DOMAIN m0 BY DEF Memory
  <1>8. dst # 0 /\ dst < k => dst # new BY <1>1, <1>2
  <1>9. dst # 0 /\ dst < k => w.mem[new] = BlankRow BY <1>1, <1>3, <1>5, <1>7, <1>8
  <1>10. k <= n => new = k /\ NextFree(n, w) = k + 1 BY <1>1, <1>6
  <1>11. ASSUME NEW u \in Works(m0, n), Grows(m0, n, w, u, new)
         PROVE  /\ Grows(m0, n, s, u, dst)
                /\ NextFree(n, u) <= n => k < NextFree(n, u)
                /\ dst # 0 /\ dst < k =>
                     /\ u.mem[dst][i] = x
                     /\ \A j \in Slots : j # i => u.mem[dst][j] = s.mem[dst][j]
    <2> DEFINE b == NextFree(n, u)
               a == NextFree(n, w)
    <2>1. b \in Int /\ a \in Int /\ a <= b BY <1>2, <1>5, <1>11, NextFreeIs DEF Grows
    <2>2. \A f \in DOMAIN m0 : f \notin {0, new} /\ f \notin a .. b - 1 => u.mem[f] = w.mem[f]
      BY <1>11 DEF Grows
    <2>3. a = (IF k <= n THEN k + 1 ELSE k) BY <1>6
    <2>3b. u.root = s.root /\ (s.panic => u.panic) BY <1>6, <1>11 DEF Grows
    <2> HIDE DEF a, b
    <2>4. k <= b BY <1>2, <2>1, <2>3
    <2>5. b <= n => k < b BY <1>2, <2>1, <2>3
    <2>6. ASSUME NEW f \in DOMAIN m0, f \notin {0, dst}, f \notin k .. b - 1 PROVE u.mem[f] = s.mem[f]
      <3>1. f # new BY <1>1, <1>2, <2>1, <2>3, <2>6
      <3>2. f \notin a .. b - 1 BY <1>2, <2>1, <2>3, <2>6
      <3> QED BY <1>6, <2>2, <2>6, <3>1, <3>2
    <2>7. Grows(m0, n, s, u, dst) BY <2>3b, <2>4, <2>6 DEF Grows, k, b
    <2>8. ASSUME dst # 0, dst < k
          PROVE  u.mem[dst][i] = x /\ \A j \in Slots : j # i => u.mem[dst][j] = s.mem[dst][j]
      <3>1. dst \notin a .. b - 1 /\ dst \in DOMAIN m0 BY <1>2, <1>7, <2>1, <2>3, <2>8
      <3>2. u.mem[dst] = w.mem[dst] BY <1>8, <2>2, <2>8, <3>1
      <3>3. c.mem[dst] = s.mem[dst] BY <1>1, <1>3, <1>8, <2>8, <3>1
      <3> QED BY <1>5, <3>2, <3>3
    <2> QED BY <2>5, <2>7, <2>8 DEF b
  <1> QED BY <1>1, <1>5, <1>9, <1>10, <1>11 DEF LinkedIn, new, t, c, x, w, k

\* An iteration of the loop for the tables above.
Stepped(m0, n, src, dst, i, s, t) ==
    /\ Grows(m0, n, s, t, dst)
    /\ dst # 0 /\ dst < NextFree(n, s) =>
         LET e == EntryOf(m0, src, i)
         IN  /\ \A j \in Index : j # i => t.mem[dst][j] = s.mem[dst][j]
             /\ t.mem[dst][i] = IF ~e.present THEN s.mem[dst][i]
                                ELSE IF e.huge THEN e ELSE [e EXCEPT !.to = Frame(s)]
             /\ Linked(e) /\ NextFree(n, t) <= n =>
                  Frame(s) = NextFree(n, s) /\ NextFree(n, s) < NextFree(n, t)

LEMMA NotLinked ==
    ASSUME NEW m0, NEW n, Memory(m0, n), NEW s \in Works(m0, n), NEW src, NEW dst \in 0 .. n,
           NEW i \in Index, NEW e, e = EntryOf(m0, src, i), e \in PageEntries, ~Linked(e),
           NEW t, t = IF e.present THEN Write(s, dst, i, e) ELSE s
    PROVE  t \in Works(m0, n) /\ Stepped(m0, n, src, dst, i, s, t)
  <1>1. Index \subseteq Slots /\ i \in Slots BY Sizes
  <1>2. e.present \in BOOLEAN /\ e.huge \in BOOLEAN BY DEF PageEntries
  <1>3. CASE ~e.present BY <1>2, <1>3, GrowsSelf DEF Stepped, Linked
  <1>4. CASE e.present
    <2>1. e.huge BY <1>2, <1>4 DEF Linked
    <2> DEFINE w == Write(s, dst, i, e)
    <2>2. /\ w \in Works(m0, n) /\ w.free = s.free /\ w.root = s.root /\ w.panic = s.panic
          /\ w.mem[dst][i] = e /\ \A j \in Slots : j # i => w.mem[dst][j] = s.mem[dst][j]
          /\ \A g \in DOMAIN m0 : g # dst => w.mem[g] = s.mem[g]
      BY <1>1, Writing
    <2>3. t = w BY <1>4
    <2> HIDE DEF w
    <2>4. NextFree(n, t) = NextFree(n, s) /\ NextFree(n, s) \in Int BY <2>2, <2>3, NextFreeIs DEF NextFree
    <2>5. Grows(m0, n, s, t, dst) BY <2>2, <2>3, <2>4 DEF Grows
    <2>6. ~Linked(e) OBVIOUS
    <2>7. \A j \in Index : j # i => t.mem[dst][j] = s.mem[dst][j] BY <1>1, <2>2, <2>3
    <2> QED BY <1>4, <2>1, <2>2, <2>3, <2>5, <2>6, <2>7 DEF Stepped
  <1> QED BY <1>2, <1>3, <1>4

\* Where the tables for the entries of a table are.
FrameMarks(N, lo, hi) == {a \in [0 .. N -> Nat] :
                       /\ a[0] = lo /\ a[N] = hi
                       /\ \A i, j \in 0 .. N : i <= j => a[i] <= a[j]}
CopiedRow(m0, m, src, dst, old, a) ==
    \A i \in Index :
        LET e == EntryOf(m0, src, i)
        IN  /\ m[dst][i] = IF ~e.present THEN old[i]
                           ELSE IF e.huge THEN e ELSE [e EXCEPT !.to = a[i]]
            /\ Linked(e) => a[i] < a[i + 1]

\* The loop as a whole.
LevelLoop(m0, n, src, dst, h) == \A i \in Index : Stepped(m0, n, src, dst, i, h[i], h[i + 1])
LevelDone(m0, n, src, dst, h, a) ==
    LET r == h[TableSize]
    IN  /\ Grows(m0, n, h[0], r, dst)
        /\ dst # 0 /\ dst < NextFree(n, h[0]) /\ NextFree(n, r) <= n =>
             /\ a \in FrameMarks(TableSize, NextFree(n, h[0]), NextFree(n, r))
             /\ CopiedRow(m0, r.mem, src, dst, h[0].mem[dst], a)
             /\ \A i \in Index : \A f \in a[i] .. a[i + 1] - 1 : r.mem[f] = h[i + 1].mem[f]

LEMMA Level ==
    ASSUME NEW m0, NEW n, Memory(m0, n), NEW src, NEW dst \in 0 .. n,
           NEW h \in [0 .. TableSize -> Works(m0, n)], LevelLoop(m0, n, src, dst, h)
    PROVE  LevelDone(m0, n, src, dst, h, [i \in 0 .. TableSize |-> NextFree(n, h[i])])
  <1> DEFINE N == TableSize
             r == h[N]
             a == [i \in 0 .. N |-> NextFree(n, h[i])]
  <1>1. N \in Nat /\ Index = 0 .. N - 1 BY PagingInitAssumption DEF Index
  <1>2. \A i \in 0 .. N - 1 : Stepped(m0, n, src, dst, i, h[i], h[i + 1]) BY <1>1 DEF LevelLoop
  <1>3. h \in [0 .. N -> Works(m0, n)] OBVIOUS
  <1> HIDE DEF N
  <1>4. \A i \in 0 .. N - 1 : Grows(m0, n, h[i], h[i + 1], dst) BY <1>2 DEF Stepped
  <1>5. \A i \in 0 .. N : \A j \in i .. N : Grows(m0, n, h[i], h[j], dst)
    <2> TAKE i \in 0 .. N
    <2> TAKE j \in i .. N
    <2> QED BY <1>1, <1>3, <1>4, LoopGrows
  <1>6. \A i \in 0 .. N : NextFree(n, h[i]) \in Nat /\ NextFree(n, h[i]) <= n + 1 /\ n \in Nat
    <2> TAKE i \in 0 .. N
    <2>1. h[i] \in Works(m0, n) BY <1>3
    <2>2. n \in Nat /\ NextFree(n, h[i]) \in 1 .. n + 1 BY <2>1, NextFreeIs
    <2> QED BY <2>2
  <1>7. \A i \in 0 .. N : a[i] = NextFree(n, h[i]) OBVIOUS
  <1>8. \A i, j \in 0 .. N : i <= j => a[i] <= a[j]
    <2> TAKE i, j \in 0 .. N
    <2>1. i <= j => j \in i .. N BY <1>1
    <2> QED BY <1>5, <1>7, <2>1 DEF Grows
  <1>9. 0 \in 0 .. N /\ N \in 0 .. N /\ \A i \in 0 .. N - 1 : i \in 0 .. N /\ i + 1 \in 0 .. N /\ i + 1 <= N
    BY <1>1
  <1>10. Grows(m0, n, h[0], r, dst)
    <2>1. N \in 0 .. N BY <1>9
    <2> QED BY <1>5, <1>9, <2>1
  <1>11. ASSUME dst # 0, dst < NextFree(n, h[0]), NextFree(n, r) <= n
         PROVE  /\ a \in FrameMarks(TableSize, NextFree(n, h[0]), NextFree(n, r))
                /\ CopiedRow(m0, r.mem, src, dst, h[0].mem[dst], a)
                /\ \A i \in Index : \A f \in a[i] .. a[i + 1] - 1 : r.mem[f] = h[i + 1].mem[f]
    <2>1. a \in FrameMarks(TableSize, NextFree(n, h[0]), NextFree(n, r))
      <3>1. a \in [0 .. N -> Nat] BY <1>6
      <3>2. a[0] = NextFree(n, h[0]) /\ a[N] = NextFree(n, r) BY <1>9
      <3> HIDE DEF a, r
      <3> QED BY <1>8, <3>1, <3>2 DEF FrameMarks, N
    <2>2. \A i \in 0 .. N : dst < NextFree(n, h[i])
      <3> TAKE i \in 0 .. N
      <3>1. NextFree(n, h[0]) <= NextFree(n, h[i]) BY <1>7, <1>8, <1>9
      <3>2. dst \in Int /\ NextFree(n, h[0]) \in Int /\ NextFree(n, h[i]) \in Int
        BY <1>6, <1>9
      <3> QED BY <1>11, <3>1, <3>2
    <2>3. \A i \in 0 .. N : NextFree(n, h[i]) <= n
      <3> TAKE i \in 0 .. N
      <3>1. NextFree(n, h[i]) <= NextFree(n, r) BY <1>1, <1>7, <1>8, <1>9
      <3>2. n \in Int /\ NextFree(n, r) \in Int /\ NextFree(n, h[i]) \in Int
        BY <1>6, <1>9
      <3> QED BY <1>11, <3>1, <3>2
    <2>4. \A i \in 0 .. N - 1 :
            LET e == EntryOf(m0, src, i)
            IN  /\ \A j \in Index : j # i => h[i + 1].mem[dst][j] = h[i].mem[dst][j]
                /\ h[i + 1].mem[dst][i] = IF ~e.present THEN h[i].mem[dst][i]
                                          ELSE IF e.huge THEN e ELSE [e EXCEPT !.to = Frame(h[i])]
                /\ Linked(e) => Frame(h[i]) = a[i] /\ a[i] < a[i + 1]
      <3> TAKE i \in 0 .. N - 1
      <3>1. Stepped(m0, n, src, dst, i, h[i], h[i + 1]) BY <1>2
      <3>2. dst < NextFree(n, h[i]) /\ NextFree(n, h[i + 1]) <= n BY <1>9, <2>2, <2>3
      <3>3. a[i] = NextFree(n, h[i]) /\ a[i + 1] = NextFree(n, h[i + 1]) BY <1>7, <1>9
      <3> HIDE DEF a
      <3> QED BY <1>11, <3>1, <3>2, <3>3 DEF Stepped
    <2>5. RowLoop(h, N, dst) BY <1>1, <2>4 DEF RowLoop
    <2>6. \A j \in 0 .. N - 1 : /\ h[j].mem[dst][j] = h[0].mem[dst][j]
                                /\ h[N].mem[dst][j] = h[j + 1].mem[dst][j]
      <3>1. TableSize \in Nat /\ RowLoop(h, TableSize, dst) BY <1>1, <2>5 DEF N
      <3>2. \A j \in 0 .. TableSize - 1 :
              /\ h[j].mem[dst][j] = h[0].mem[dst][j]
              /\ h[TableSize].mem[dst][j] = h[j + 1].mem[dst][j]
        <4>1. RowLooped(h, TableSize, dst) BY ONLY <3>1, LoopRow
        <4> QED BY ONLY <4>1 DEF RowLooped
      <3> QED BY <3>2 DEF N
    <2>7. CopiedRow(m0, r.mem, src, dst, h[0].mem[dst], a)
      <3> SUFFICES ASSUME NEW i \in Index
                   PROVE  LET e == EntryOf(m0, src, i)
                          IN  /\ r.mem[dst][i] = IF ~e.present THEN h[0].mem[dst][i]
                                                 ELSE IF e.huge THEN e ELSE [e EXCEPT !.to = a[i]]
                              /\ Linked(e) => a[i] < a[i + 1]
        BY DEF CopiedRow
      <3> HIDE DEF a
      <3> QED BY <1>1, <2>4, <2>6 DEF Linked
    <2>8. ASSUME NEW i \in Index, NEW f \in a[i] .. a[i + 1] - 1 PROVE r.mem[f] = h[i + 1].mem[f]
      <3>1. i + 1 \in 0 .. N /\ i \in 0 .. N /\ N \in i + 1 .. N /\ 0 <= i BY <1>1
      <3>2. a[i] \in Nat /\ a[i + 1] \in Nat /\ a[i + 1] = NextFree(n, h[i + 1]) /\ dst < a[i]
            /\ a[i + 1] <= n /\ a[0] <= a[i] /\ a[0] = NextFree(n, h[0]) /\ dst \in Int /\ n \in Nat
        BY <1>6, <1>7, <1>8, <1>9, <2>2, <2>3, <3>1
      <3> DEFINE b == NextFree(n, r)
      <3>3. Grows(m0, n, h[i + 1], r, dst) BY <1>5, <3>1
      <3> HIDE DEF a
      <3>4. f \in 0 .. n /\ f # 0 /\ f # dst /\ f < a[i + 1] BY <1>11, <3>2
      <3>5. f \in DOMAIN m0 BY <3>4 DEF Memory
      <3>6. f \notin a[i + 1] .. b - 1 BY <3>2, <3>4
      <3> QED BY <3>2, <3>3, <3>4, <3>5, <3>6 DEF Grows
    <2> QED BY <2>1, <2>7, <2>8
  <1> QED BY <1>10, <1>11 DEF LevelDone, N

\* A copy of a page directory in dst, with its page tables in lo .. hi - 1,
\* and of a PDP; old is what dst held before.
CopiedPD(m0, m, src, dst, old, lo, hi) ==
    \E a \in FrameMarks(TableSize, lo, hi) :
        /\ CopiedRow(m0, m, src, dst, old, a)
        /\ \A i \in Index : LET e == EntryOf(m0, src, i)
                            IN Linked(e) => CopiedPT(m0, m, e.to, a[i], BlankRow)
CopiedPDP(m0, m, src, dst, old, lo, hi) ==
    \E a \in FrameMarks(TableSize, lo, hi) :
        /\ CopiedRow(m0, m, src, dst, old, a)
        /\ \A i \in Index :
             LET e == EntryOf(m0, src, i)
             IN Linked(e) => CopiedPD(m0, m, e.to, a[i], BlankRow, a[i] + 1, a[i + 1])

LEMMA CopyPDStep ==
    ASSUME NEW m0, NEW n, Memory(m0, n), NEW s \in Works(m0, n), NEW src, SourcePD(m0, n, src),
           NEW dst \in 0 .. n, NEW i \in Index
    PROVE  LET e == EntryOf(m0, src, i)
               t == CopyEntry(2, CopyPT, src, dst, s, i)
               k == NextFree(n, s)
           IN  /\ t \in Works(m0, n) /\ Stepped(m0, n, src, dst, i, s, t)
               /\ dst # 0 /\ dst < k /\ Linked(e) /\ NextFree(n, t) <= n =>
                    CopiedPT(m0, t.mem, e.to, k, BlankRow)
  <1> DEFINE e == EntryOf(m0, src, i)
             t == CopyEntry(2, CopyPT, src, dst, s, i)
             k == NextFree(n, s)
             new == Frame(s)
             w == Write(Memset(Taken(s), new), dst, i, [e EXCEPT !.to = new])
             u == CopyPT(e.to, new, w)
  <1>1. EntryOf(s.mem, src, i) = e /\ e \in PageEntries BY Reading DEF SourcePD
  <1>2. i \in Slots /\ Index \subseteq Slots BY Sizes
  <1>3. e.present \in BOOLEAN /\ e.huge \in BOOLEAN /\ (~Linked(e) \/ Linked(e)) BY <1>1 DEF PageEntries, Linked
  <1>4. t = IF Linked(e) THEN u ELSE IF e.present THEN Write(s, dst, i, e) ELSE s
    <2> HIDE DEF e
    <2>1. EntryOf(s.mem, src, i) = e BY <1>1
    <2> QED BY <1>3, <2>1 DEF CopyEntry, IsLeaf, Linked
  <1>5. CASE ~Linked(e)
    <2> HIDE DEF e, t, u
    <2>1. t = IF e.present THEN Write(s, dst, i, e) ELSE s BY <1>4, <1>5
    <2>2. e = EntryOf(m0, src, i) BY DEF e
    <2>3. t \in Works(m0, n) /\ Stepped(m0, n, src, dst, i, s, t) BY <1>1, <1>5, <2>1, <2>2, NotLinked
    <2> QED BY <1>5, <2>3 DEF e, t
  <1>6. CASE Linked(e)
    <2>1. e.to \notin 0 .. n BY <1>6 DEF SourcePD
    <2>2. t = u BY <1>4, <1>6
    <2> HIDE DEF e
    <2>3. /\ w \in Works(m0, n) /\ new \in 0 .. n
          /\ dst # 0 /\ dst < k => w.mem[new] = BlankRow
          /\ k <= n => new = k /\ NextFree(n, w) = k + 1
          /\ \A v \in Works(m0, n) : Grows(m0, n, w, v, new) =>
               /\ Grows(m0, n, s, v, dst)
               /\ NextFree(n, v) <= n => k < NextFree(n, v)
               /\ dst # 0 /\ dst < k =>
                    /\ v.mem[dst][i] = [e EXCEPT !.to = new]
                    /\ \A j \in Slots : j # i => v.mem[dst][j] = s.mem[dst][j]
      <3>1. LinkedIn(m0, n, s, dst, i, e) BY <1>1, <1>2, Linking
      <3> QED BY ONLY <3>1 DEF LinkedIn
    <2> HIDE DEF new, w
    <2>4. /\ u \in Works(m0, n) /\ Grows(m0, n, w, u, new)
          /\ CopiedPT(m0, u.mem, e.to, new, w.mem[new])
      BY <2>1, <2>3, CopyPTIs
    <2> HIDE DEF u, t
    <2>5. k \in Int /\ n \in Nat /\ NextFree(n, u) \in Int BY <2>4, NextFreeIs
    <2>6. /\ Grows(m0, n, s, u, dst) /\ (NextFree(n, u) <= n => k < NextFree(n, u))
          /\ dst # 0 /\ dst < k =>
               /\ u.mem[dst][i] = [e EXCEPT !.to = new]
               /\ \A j \in Slots : j # i => u.mem[dst][j] = s.mem[dst][j]
      BY <2>3, <2>4
    <2> HIDE DEF k
    <2>7. NextFree(n, u) <= n => new = k BY <2>3, <2>5, <2>6
    <2>8. Stepped(m0, n, src, dst, i, s, u)
      <3>1. e.present /\ ~e.huge BY <1>6 DEF Linked
      <3> QED BY <1>2, <1>6, <2>6, <2>7, <3>1 DEF Stepped, e, k, new
    <2>9. ASSUME dst # 0, dst < k, NextFree(n, u) <= n
          PROVE  CopiedPT(m0, u.mem, e.to, k, BlankRow)
      <3>1. k <= n BY <2>5, <2>6, <2>9
      <3>2. new = k /\ NextFree(n, w) = k + 1 /\ w.mem[new] = BlankRow BY <2>3, <2>9, <3>1
      <3> QED BY <2>4, <3>2
    <2> QED BY <2>2, <2>4, <2>8, <2>9 DEF e, t, k
  <1> QED BY <1>3, <1>5, <1>6

LEMMA CopyPDLoop ==
    ASSUME NEW m0, NEW n, Memory(m0, n), NEW st \in Works(m0, n),
           NEW src, SourcePD(m0, n, src), NEW dst \in 0 .. n
    PROVE  \E h \in [0 .. TableSize -> Works(m0, n)] :
             /\ h[0] = st /\ h[TableSize] = CopyPD(src, dst, st)
             /\ \A i \in 0 .. TableSize - 1 : h[i + 1] = CopyEntry(2, CopyPT, src, dst, h[i], i)
  <1> DEFINE N == TableSize
             D == Works(m0, n)
             Step(s, i) == CopyEntry(2, CopyPT, src, dst, s, i - 1)
             c[i \in 0 .. TableSize] == IF i = 0 THEN st ELSE CopyEntry(2, CopyPT, src, dst, c[i - 1], i - 1)
             Q(f) == f = [i \in 0 .. N |-> IF i = 0 THEN st ELSE Step(f[i - 1], i)]
             S == [x \in D |-> [i \in 1 .. N |-> Step(x, i)]]
  <1>1. N \in Nat BY PagingInitAssumption
  <1>2. CopyPD(src, dst, st) = c[N] BY DEF CopyPD, DeepCopyLevel
  <1>3. c = CHOOSE f : Q(f) OBVIOUS
  <1> HIDE DEF c
  <1>4. \A s \in D : \A i \in 1 .. N : Step(s, i) \in D
    <2>1. \A i \in 1 .. N : i - 1 \in Index BY <1>1 DEF Index
    <2> QED BY <2>1, CopyPDStep
  <1> HIDE DEF N, D, Step
  <1>5. S \in Steps(D, N) /\ \A x \in D : \A i \in 1 .. N : S[x][i] = Step(x, i) BY <1>4 DEF Steps
  <1>6. Before(N) \in Earlier(N) /\ \A i \in 1 .. N : Before(N)[i] = i - 1 BY <1>1, BeforeIsEarlier
  <1> HIDE DEF S
  <1>7. st \in D BY DEF D
  <1>8. PICK g : Computes(g, D, st, N, Before(N), S) BY <1>1, <1>5, <1>6, <1>7, RecursionExists
  <1>9. g \in [0 .. N -> D] /\ g[0] = st /\ \A i \in 1 .. N : g[i] = S[g[i - 1]][i]
    BY <1>6, <1>8 DEF Computes
  <1>10. Q(g)
    <2>1. ASSUME NEW i \in 0 .. N PROVE g[i] = IF i = 0 THEN st ELSE Step(g[i - 1], i)
      <3>1. CASE i = 0 BY <1>9, <3>1
      <3>2. CASE i # 0
        <4>1. i \in 1 .. N /\ i - 1 \in 0 .. N BY <1>1, <3>2
        <4>2. g[i - 1] \in D BY <1>9, <4>1
        <4> QED BY <1>5, <1>9, <3>2, <4>1, <4>2
      <3> QED BY <3>1, <3>2
    <2> QED BY <1>9, <2>1
  <1> HIDE DEF Q
  <1>11. Q(c) BY <1>3, <1>10
  <1> USE DEF Q
  <1>12. \A i \in 0 .. N : c[i] = IF i = 0 THEN st ELSE Step(c[i - 1], i) BY <1>11
  <1>13. c = [i \in 0 .. N |-> c[i]] BY <1>11
  <1> HIDE DEF Q
  <1>14. \A i \in 1 .. N : i # 0 /\ i \in 0 .. N BY <1>1
  <1>15. c[0] = st /\ \A i \in 1 .. N : c[i] = Step(c[i - 1], i) BY <1>1, <1>12, <1>14
  <1>16. \A i \in 1 .. N : c[Before(N)[i]] \in D => c[i] = S[c[Before(N)[i]]][i]
    BY <1>5, <1>6, <1>15
  <1>17. Computes(c, D, st, N, Before(N), S)
    BY <1>1, <1>5, <1>6, <1>7, <1>13, <1>15, <1>16, RecursionTyped
  <1>18. c \in [0 .. N -> D] BY <1>17 DEF Computes
  <1>19. ASSUME NEW i \in 0 .. N - 1 PROVE c[i + 1] = CopyEntry(2, CopyPT, src, dst, c[i], i)
    <2>1. i + 1 \in 1 .. N /\ (i + 1) - 1 = i BY <1>1
    <2>2. c[i + 1] = Step(c[i], i + 1) BY <1>15, <2>1
    <2> QED BY <2>1, <2>2 DEF Step
  <1> QED BY <1>2, <1>15, <1>18, <1>19 DEF N, D

LEMMA CopyPDIs ==
    ASSUME NEW m0, NEW n, Memory(m0, n), NEW st \in Works(m0, n), NEW src, SourcePD(m0, n, src),
           NEW dst \in 0 .. n
    PROVE  LET r == CopyPD(src, dst, st)
           IN  /\ r \in Works(m0, n) /\ Grows(m0, n, st, r, dst)
               /\ dst # 0 /\ dst < NextFree(n, st) /\ NextFree(n, r) <= n =>
                    CopiedPD(m0, r.mem, src, dst, st.mem[dst], NextFree(n, st), NextFree(n, r))
  <1>1. PICK h \in [0 .. TableSize -> Works(m0, n)] :
          /\ h[0] = st /\ h[TableSize] = CopyPD(src, dst, st)
          /\ \A i \in 0 .. TableSize - 1 : h[i + 1] = CopyEntry(2, CopyPT, src, dst, h[i], i)
    BY CopyPDLoop
  <1>2. TableSize \in Nat /\ Index = 0 .. TableSize - 1 BY PagingInitAssumption DEF Index
  <1> DEFINE r == h[TableSize]
             a == [i \in 0 .. TableSize |-> NextFree(n, h[i])]
             F(i) == EntryOf(m0, src, i)
             G(m, i) == CopiedPT(m0, m, F(i).to, a[i], BlankRow)
  <1>3. \A i \in Index : i \in 0 .. TableSize /\ i + 1 \in 0 .. TableSize /\ 0 <= i BY <1>2
  <1>4. \A i \in Index :
          /\ Stepped(m0, n, src, dst, i, h[i], h[i + 1])
          /\ dst # 0 /\ dst < a[i] /\ Linked(F(i)) /\ a[i + 1] <= n => G(h[i + 1].mem, i)
    <2> TAKE i \in Index
    <2>1. h[i] \in Works(m0, n) /\ i \in 0 .. TableSize - 1 BY <1>2, <1>3
    <2>2. h[i + 1] = CopyEntry(2, CopyPT, src, dst, h[i], i) BY <1>1, <2>1
    <2>3. a[i] = NextFree(n, h[i]) /\ a[i + 1] = NextFree(n, h[i + 1]) BY <1>3
    <2> HIDE DEF a
    <2> QED BY <2>1, <2>2, <2>3, CopyPDStep
  <1>5. /\ Grows(m0, n, h[0], r, dst)
        /\ dst # 0 /\ dst < NextFree(n, h[0]) /\ NextFree(n, r) <= n =>
             /\ a \in FrameMarks(TableSize, NextFree(n, h[0]), NextFree(n, r))
             /\ CopiedRow(m0, r.mem, src, dst, h[0].mem[dst], a)
             /\ \A i \in Index : \A f \in a[i] .. a[i + 1] - 1 : r.mem[f] = h[i + 1].mem[f]
    <2>1. LevelLoop(m0, n, src, dst, h) BY <1>4 DEF LevelLoop
    <2>2. LevelDone(m0, n, src, dst, h, a) BY <2>1, Level
    <2> HIDE DEF a
    <2> QED BY <2>2 DEF LevelDone
  <1>6. ASSUME dst # 0, dst < NextFree(n, h[0]), NextFree(n, r) <= n
        PROVE  CopiedPD(m0, r.mem, src, dst, h[0].mem[dst], NextFree(n, h[0]), NextFree(n, r))
    <2>1. /\ a \in FrameMarks(TableSize, NextFree(n, h[0]), NextFree(n, r))
          /\ CopiedRow(m0, r.mem, src, dst, h[0].mem[dst], a)
          /\ \A i \in Index : \A f \in a[i] .. a[i + 1] - 1 : r.mem[f] = h[i + 1].mem[f]
      BY <1>5, <1>6
    <2>2. n \in Nat BY DEF Memory
    <2> HIDE DEF a, r
    <2>3. ASSUME NEW i \in Index, Linked(F(i)) PROVE G(r.mem, i)
      <3>1. /\ a[i] \in Nat /\ a[i + 1] \in Nat /\ a[0] <= a[i] /\ a[i + 1] <= a[TableSize]
            /\ a[0] = NextFree(n, h[0]) /\ a[TableSize] = NextFree(n, r) /\ a[0] \in Nat
            /\ a[TableSize] \in Nat
        BY <1>2, <1>3, <2>1 DEF FrameMarks
      <3>2. a[i] < a[i + 1] BY <2>1, <2>3 DEF CopiedRow
      <3>3. dst < a[i] /\ a[i + 1] <= n BY <1>6, <2>2, <3>1
      <3>4. G(h[i + 1].mem, i) BY <1>4, <1>6, <2>3, <3>3
      <3>5. \A f \in a[i] .. a[i + 1] - 1 : r.mem[f] = h[i + 1].mem[f] BY <2>1
      <3>6. a[i] \in a[i] .. a[i + 1] - 1 BY <3>1, <3>2
      <3>7. r.mem[a[i]] = h[i + 1].mem[a[i]] BY <3>5, <3>6
      <3> QED BY <3>4, <3>7 DEF CopiedPT
    <2> QED BY <2>1, <2>3 DEF CopiedPD
  <1>7. r \in Works(m0, n) BY <1>2
  <1> QED BY <1>1, <1>5, <1>6, <1>7

\* Such a copy depends on its own frames only.
LEMMA CopiedPDSame ==
    ASSUME NEW m0, NEW m, NEW t, NEW src, NEW dst \in Nat, NEW old, NEW hi \in Nat, dst < hi,
           \A f \in dst .. hi - 1 : t[f] = m[f],
           CopiedPD(m0, m, src, dst, old, dst + 1, hi)
    PROVE  CopiedPD(m0, t, src, dst, old, dst + 1, hi)
  <1>1. PICK a \in FrameMarks(TableSize, dst + 1, hi) :
          /\ CopiedRow(m0, m, src, dst, old, a)
          /\ \A i \in Index : LET e == EntryOf(m0, src, i)
                              IN Linked(e) => CopiedPT(m0, m, e.to, a[i], BlankRow)
    BY DEF CopiedPD
  <1>2. t[dst] = m[dst]
    <2>1. dst \in dst .. hi - 1 OBVIOUS
    <2> QED BY <2>1
  <1>3. CopiedRow(m0, t, src, dst, old, a) BY <1>1, <1>2 DEF CopiedRow
  <1>4. ASSUME NEW i \in Index, Linked(EntryOf(m0, src, i))
        PROVE  CopiedPT(m0, t, EntryOf(m0, src, i).to, a[i], BlankRow)
    <2>1. TableSize \in Nat /\ i \in 0 .. TableSize /\ i + 1 \in 0 .. TableSize
          /\ 0 <= i /\ i + 1 <= TableSize /\ 0 \in 0 .. TableSize /\ TableSize \in 0 .. TableSize
      BY PagingInitAssumption DEF Index
    <2>2. /\ a[i] \in Nat /\ a[i + 1] \in Nat /\ dst + 1 <= a[i] /\ a[i + 1] <= hi
      BY <2>1 DEF FrameMarks
    <2>3. a[i] < a[i + 1] BY <1>1, <1>4 DEF CopiedRow
    <2>4. a[i] \in dst .. hi - 1 BY <2>2, <2>3
    <2>5. t[a[i]] = m[a[i]] BY <2>4
    <2>6. CopiedPT(m0, m, EntryOf(m0, src, i).to, a[i], BlankRow) BY <1>1, <1>4
    <2> QED BY <2>5, <2>6 DEF CopiedPT
  <1> QED BY <1>3, <1>4 DEF CopiedPD

LEMMA CopyPDPStep ==
    ASSUME NEW m0, NEW n, Memory(m0, n), NEW s \in Works(m0, n), NEW src, SourcePDP(m0, n, src),
           NEW dst \in 0 .. n, NEW i \in Index
    PROVE  LET e == EntryOf(m0, src, i)
               t == CopyEntry(3, CopyPD, src, dst, s, i)
               k == NextFree(n, s)
           IN  /\ t \in Works(m0, n) /\ Stepped(m0, n, src, dst, i, s, t)
               /\ dst # 0 /\ dst < k /\ Linked(e) /\ NextFree(n, t) <= n =>
                    CopiedPD(m0, t.mem, e.to, k, BlankRow, k + 1, NextFree(n, t))
  <1> DEFINE e == EntryOf(m0, src, i)
             t == CopyEntry(3, CopyPD, src, dst, s, i)
             k == NextFree(n, s)
             new == Frame(s)
             w == Write(Memset(Taken(s), new), dst, i, [e EXCEPT !.to = new])
             u == CopyPD(e.to, new, w)
  <1>1. EntryOf(s.mem, src, i) = e /\ e \in PageEntries BY Reading DEF SourcePDP
  <1>2. i \in Slots /\ Index \subseteq Slots BY Sizes
  <1>3. e.present \in BOOLEAN /\ e.huge \in BOOLEAN /\ (~Linked(e) \/ Linked(e)) BY <1>1 DEF PageEntries, Linked
  <1>4. t = IF Linked(e) THEN u ELSE IF e.present THEN Write(s, dst, i, e) ELSE s
    <2> HIDE DEF e
    <2>1. EntryOf(s.mem, src, i) = e BY <1>1
    <2> QED BY <1>3, <2>1 DEF CopyEntry, IsLeaf, Linked
  <1>5. CASE ~Linked(e)
    <2> HIDE DEF e, t, u
    <2>1. t = IF e.present THEN Write(s, dst, i, e) ELSE s BY <1>4, <1>5
    <2>2. e = EntryOf(m0, src, i) BY DEF e
    <2>3. t \in Works(m0, n) /\ Stepped(m0, n, src, dst, i, s, t) BY <1>1, <1>5, <2>1, <2>2, NotLinked
    <2> QED BY <1>5, <2>3 DEF e, t
  <1>6. CASE Linked(e)
    <2>1. SourcePD(m0, n, e.to) BY <1>6 DEF SourcePDP
    <2>2. t = u BY <1>4, <1>6
    <2> HIDE DEF e
    <2>3. /\ w \in Works(m0, n) /\ new \in 0 .. n
          /\ dst # 0 /\ dst < k => w.mem[new] = BlankRow
          /\ k <= n => new = k /\ NextFree(n, w) = k + 1
          /\ \A v \in Works(m0, n) : Grows(m0, n, w, v, new) =>
               /\ Grows(m0, n, s, v, dst)
               /\ NextFree(n, v) <= n => k < NextFree(n, v)
               /\ dst # 0 /\ dst < k =>
                    /\ v.mem[dst][i] = [e EXCEPT !.to = new]
                    /\ \A j \in Slots : j # i => v.mem[dst][j] = s.mem[dst][j]
      <3>1. LinkedIn(m0, n, s, dst, i, e) BY <1>1, <1>2, Linking
      <3> QED BY ONLY <3>1 DEF LinkedIn
    <2> HIDE DEF new, w
    <2>4. /\ u \in Works(m0, n) /\ Grows(m0, n, w, u, new)
          /\ new # 0 /\ new < NextFree(n, w) /\ NextFree(n, u) <= n =>
               CopiedPD(m0, u.mem, e.to, new, w.mem[new], NextFree(n, w), NextFree(n, u))
      BY <2>1, <2>3, CopyPDIs
    <2> HIDE DEF u, t
    <2>5. k \in Int /\ n \in Nat /\ NextFree(n, u) \in Int BY <2>4, NextFreeIs
    <2>6. /\ Grows(m0, n, s, u, dst) /\ (NextFree(n, u) <= n => k < NextFree(n, u))
          /\ dst # 0 /\ dst < k =>
               /\ u.mem[dst][i] = [e EXCEPT !.to = new]
               /\ \A j \in Slots : j # i => u.mem[dst][j] = s.mem[dst][j]
      BY <2>3, <2>4
    <2> HIDE DEF k
    <2>7. NextFree(n, u) <= n => new = k BY <2>3, <2>5, <2>6
    <2>8. Stepped(m0, n, src, dst, i, s, u)
      <3>1. e.present /\ ~e.huge BY <1>6 DEF Linked
      <3> QED BY <1>2, <1>6, <2>6, <2>7, <3>1 DEF Stepped, e, k, new
    <2>9. ASSUME dst # 0, dst < k, NextFree(n, u) <= n
          PROVE  CopiedPD(m0, u.mem, e.to, k, BlankRow, k + 1, NextFree(n, u))
      <3>1. k <= n BY <2>5, <2>6, <2>9
      <3>2. new = k /\ NextFree(n, w) = k + 1 /\ w.mem[new] = BlankRow BY <2>3, <2>9, <3>1
      <3>3. k # 0 /\ k < k + 1
        <4>1. k \in 1 .. n + 1 BY NextFreeIs DEF k
        <4> QED BY <4>1
      <3> QED BY <2>4, <2>9, <3>2, <3>3
    <2> QED BY <2>2, <2>4, <2>8, <2>9 DEF e, t, k
  <1> QED BY <1>3, <1>5, <1>6

LEMMA CopyPDPLoop ==
    ASSUME NEW m0, NEW n, Memory(m0, n), NEW st \in Works(m0, n),
           NEW src, SourcePDP(m0, n, src), NEW dst \in 0 .. n
    PROVE  \E h \in [0 .. TableSize -> Works(m0, n)] :
             /\ h[0] = st /\ h[TableSize] = CopyPDP(src, dst, st)
             /\ \A i \in 0 .. TableSize - 1 : h[i + 1] = CopyEntry(3, CopyPD, src, dst, h[i], i)
  <1> DEFINE N == TableSize
             D == Works(m0, n)
             Step(s, i) == CopyEntry(3, CopyPD, src, dst, s, i - 1)
             c[i \in 0 .. TableSize] == IF i = 0 THEN st ELSE CopyEntry(3, CopyPD, src, dst, c[i - 1], i - 1)
             Q(f) == f = [i \in 0 .. N |-> IF i = 0 THEN st ELSE Step(f[i - 1], i)]
             S == [x \in D |-> [i \in 1 .. N |-> Step(x, i)]]
  <1>1. N \in Nat BY PagingInitAssumption
  <1>2. CopyPDP(src, dst, st) = c[N] BY DEF CopyPDP, DeepCopyLevel
  <1>3. c = CHOOSE f : Q(f) OBVIOUS
  <1> HIDE DEF c
  <1>4. \A s \in D : \A i \in 1 .. N : Step(s, i) \in D
    <2>1. \A i \in 1 .. N : i - 1 \in Index BY <1>1 DEF Index
    <2> QED BY <2>1, CopyPDPStep
  <1> HIDE DEF N, D, Step
  <1>5. S \in Steps(D, N) /\ \A x \in D : \A i \in 1 .. N : S[x][i] = Step(x, i) BY <1>4 DEF Steps
  <1>6. Before(N) \in Earlier(N) /\ \A i \in 1 .. N : Before(N)[i] = i - 1 BY <1>1, BeforeIsEarlier
  <1> HIDE DEF S
  <1>7. st \in D BY DEF D
  <1>8. PICK g : Computes(g, D, st, N, Before(N), S) BY <1>1, <1>5, <1>6, <1>7, RecursionExists
  <1>9. g \in [0 .. N -> D] /\ g[0] = st /\ \A i \in 1 .. N : g[i] = S[g[i - 1]][i]
    BY <1>6, <1>8 DEF Computes
  <1>10. Q(g)
    <2>1. ASSUME NEW i \in 0 .. N PROVE g[i] = IF i = 0 THEN st ELSE Step(g[i - 1], i)
      <3>1. CASE i = 0 BY <1>9, <3>1
      <3>2. CASE i # 0
        <4>1. i \in 1 .. N /\ i - 1 \in 0 .. N BY <1>1, <3>2
        <4>2. g[i - 1] \in D BY <1>9, <4>1
        <4> QED BY <1>5, <1>9, <3>2, <4>1, <4>2
      <3> QED BY <3>1, <3>2
    <2> QED BY <1>9, <2>1
  <1> HIDE DEF Q
  <1>11. Q(c) BY <1>3, <1>10
  <1> USE DEF Q
  <1>12. \A i \in 0 .. N : c[i] = IF i = 0 THEN st ELSE Step(c[i - 1], i) BY <1>11
  <1>13. c = [i \in 0 .. N |-> c[i]] BY <1>11
  <1> HIDE DEF Q
  <1>14. \A i \in 1 .. N : i # 0 /\ i \in 0 .. N BY <1>1
  <1>15. c[0] = st /\ \A i \in 1 .. N : c[i] = Step(c[i - 1], i) BY <1>1, <1>12, <1>14
  <1>16. \A i \in 1 .. N : c[Before(N)[i]] \in D => c[i] = S[c[Before(N)[i]]][i]
    BY <1>5, <1>6, <1>15
  <1>17. Computes(c, D, st, N, Before(N), S)
    BY <1>1, <1>5, <1>6, <1>7, <1>13, <1>15, <1>16, RecursionTyped
  <1>18. c \in [0 .. N -> D] BY <1>17 DEF Computes
  <1>19. ASSUME NEW i \in 0 .. N - 1 PROVE c[i + 1] = CopyEntry(3, CopyPD, src, dst, c[i], i)
    <2>1. i + 1 \in 1 .. N /\ (i + 1) - 1 = i BY <1>1
    <2>2. c[i + 1] = Step(c[i], i + 1) BY <1>15, <2>1
    <2> QED BY <2>1, <2>2 DEF Step
  <1> QED BY <1>2, <1>15, <1>18, <1>19 DEF N, D

LEMMA CopyPDPIs ==
    ASSUME NEW m0, NEW n, Memory(m0, n), NEW st \in Works(m0, n), NEW src, SourcePDP(m0, n, src),
           NEW dst \in 0 .. n
    PROVE  LET r == CopyPDP(src, dst, st)
           IN  /\ r \in Works(m0, n) /\ Grows(m0, n, st, r, dst)
               /\ dst # 0 /\ dst < NextFree(n, st) /\ NextFree(n, r) <= n =>
                    CopiedPDP(m0, r.mem, src, dst, st.mem[dst], NextFree(n, st), NextFree(n, r))
  <1>1. PICK h \in [0 .. TableSize -> Works(m0, n)] :
          /\ h[0] = st /\ h[TableSize] = CopyPDP(src, dst, st)
          /\ \A i \in 0 .. TableSize - 1 : h[i + 1] = CopyEntry(3, CopyPD, src, dst, h[i], i)
    BY CopyPDPLoop
  <1>2. TableSize \in Nat /\ Index = 0 .. TableSize - 1 BY PagingInitAssumption DEF Index
  <1> DEFINE r == h[TableSize]
             a == [i \in 0 .. TableSize |-> NextFree(n, h[i])]
             F(i) == EntryOf(m0, src, i)
             G(m, i) == CopiedPD(m0, m, F(i).to, a[i], BlankRow, a[i] + 1, a[i + 1])
  <1>3. \A i \in Index : i \in 0 .. TableSize /\ i + 1 \in 0 .. TableSize /\ 0 <= i BY <1>2
  <1>4. \A i \in Index :
          /\ Stepped(m0, n, src, dst, i, h[i], h[i + 1])
          /\ dst # 0 /\ dst < a[i] /\ Linked(F(i)) /\ a[i + 1] <= n => G(h[i + 1].mem, i)
    <2> TAKE i \in Index
    <2>1. h[i] \in Works(m0, n) /\ i \in 0 .. TableSize - 1 BY <1>2, <1>3
    <2>2. h[i + 1] = CopyEntry(3, CopyPD, src, dst, h[i], i) BY <1>1, <2>1
    <2>3. a[i] = NextFree(n, h[i]) /\ a[i + 1] = NextFree(n, h[i + 1]) BY <1>3
    <2> HIDE DEF a
    <2> QED BY <2>1, <2>2, <2>3, CopyPDPStep
  <1>5. /\ Grows(m0, n, h[0], r, dst)
        /\ dst # 0 /\ dst < NextFree(n, h[0]) /\ NextFree(n, r) <= n =>
             /\ a \in FrameMarks(TableSize, NextFree(n, h[0]), NextFree(n, r))
             /\ CopiedRow(m0, r.mem, src, dst, h[0].mem[dst], a)
             /\ \A i \in Index : \A f \in a[i] .. a[i + 1] - 1 : r.mem[f] = h[i + 1].mem[f]
    <2>1. LevelLoop(m0, n, src, dst, h) BY <1>4 DEF LevelLoop
    <2>2. LevelDone(m0, n, src, dst, h, a) BY <2>1, Level
    <2> HIDE DEF a
    <2> QED BY <2>2 DEF LevelDone
  <1>6. ASSUME dst # 0, dst < NextFree(n, h[0]), NextFree(n, r) <= n
        PROVE  CopiedPDP(m0, r.mem, src, dst, h[0].mem[dst], NextFree(n, h[0]), NextFree(n, r))
    <2>1. /\ a \in FrameMarks(TableSize, NextFree(n, h[0]), NextFree(n, r))
          /\ CopiedRow(m0, r.mem, src, dst, h[0].mem[dst], a)
          /\ \A i \in Index : \A f \in a[i] .. a[i + 1] - 1 : r.mem[f] = h[i + 1].mem[f]
      BY <1>5, <1>6
    <2>2. n \in Nat BY DEF Memory
    <2> HIDE DEF a, r
    <2>3. ASSUME NEW i \in Index, Linked(F(i)) PROVE G(r.mem, i)
      <3>1. /\ a[i] \in Nat /\ a[i + 1] \in Nat /\ a[0] <= a[i] /\ a[i + 1] <= a[TableSize]
            /\ a[0] = NextFree(n, h[0]) /\ a[TableSize] = NextFree(n, r) /\ a[0] \in Nat
            /\ a[TableSize] \in Nat
        BY <1>2, <1>3, <2>1 DEF FrameMarks
      <3>2. a[i] < a[i + 1] BY <2>1, <2>3 DEF CopiedRow
      <3>3. dst < a[i] /\ a[i + 1] <= n BY <1>6, <2>2, <3>1
      <3>4. G(h[i + 1].mem, i) BY <1>4, <1>6, <2>3, <3>3
      <3>5. \A f \in a[i] .. a[i + 1] - 1 : r.mem[f] = h[i + 1].mem[f] BY <2>1
      <3> QED BY <3>1, <3>2, <3>4, <3>5, CopiedPDSame
    <2> QED BY <2>1, <2>3 DEF CopiedPDP
  <1>7. r \in Works(m0, n) BY <1>2
  <1> QED BY <1>1, <1>5, <1>6, <1>7

LEMMA CopiedPDPSame ==
    ASSUME NEW m0, NEW m, NEW t, NEW src, NEW dst \in Nat, NEW old, NEW hi \in Nat, dst < hi,
           \A f \in dst .. hi - 1 : t[f] = m[f],
           CopiedPDP(m0, m, src, dst, old, dst + 1, hi)
    PROVE  CopiedPDP(m0, t, src, dst, old, dst + 1, hi)
  <1>1. PICK a \in FrameMarks(TableSize, dst + 1, hi) :
          /\ CopiedRow(m0, m, src, dst, old, a)
          /\ \A i \in Index :
               LET e == EntryOf(m0, src, i)
               IN Linked(e) => CopiedPD(m0, m, e.to, a[i], BlankRow, a[i] + 1, a[i + 1])
    BY DEF CopiedPDP
  <1>2. t[dst] = m[dst]
    <2>1. dst \in dst .. hi - 1 OBVIOUS
    <2> QED BY <2>1
  <1>3. CopiedRow(m0, t, src, dst, old, a) BY <1>1, <1>2 DEF CopiedRow
  <1>4. ASSUME NEW i \in Index, Linked(EntryOf(m0, src, i))
        PROVE  CopiedPD(m0, t, EntryOf(m0, src, i).to, a[i], BlankRow, a[i] + 1, a[i + 1])
    <2>1. TableSize \in Nat /\ i \in 0 .. TableSize /\ i + 1 \in 0 .. TableSize
          /\ 0 <= i /\ i + 1 <= TableSize /\ 0 \in 0 .. TableSize /\ TableSize \in 0 .. TableSize
      BY PagingInitAssumption DEF Index
    <2>2. /\ a[i] \in Nat /\ a[i + 1] \in Nat /\ dst + 1 <= a[i] /\ a[i + 1] <= hi
      BY <2>1 DEF FrameMarks
    <2>3. a[i] < a[i + 1] BY <1>1, <1>4 DEF CopiedRow
    <2>4. \A f \in a[i] .. a[i + 1] - 1 : f \in dst .. hi - 1 BY <2>2, <2>3
    <2>5. \A f \in a[i] .. a[i + 1] - 1 : t[f] = m[f] BY <2>4
    <2>6. CopiedPD(m0, m, EntryOf(m0, src, i).to, a[i], BlankRow, a[i] + 1, a[i + 1])
      BY <1>1, <1>4
    <2> QED BY <2>2, <2>3, <2>5, <2>6, CopiedPDSame
  <1> QED BY <1>3, <1>4 DEF CopiedPDP

(***************************************************************************)
(* The PML4, in frame 1: an iteration of each of its two loops.            *)
(***************************************************************************)
AtRoot(n, s) == s.root = 1 /\ 1 < NextFree(n, s)

Slotted(m0, n, cr3, i, s, t) ==
    /\ Grows(m0, n, s, t, 1)
    /\ ~t.panic =>
         LET e == EntryOf(m0, cr3, i)
             k == NextFree(n, s)
         IN  /\ \A j \in Slots : j # i => t.mem[1][j] = s.mem[1][j]
             /\ t.mem[1][i] = IF e.present THEN [e EXCEPT !.to = k] ELSE s.mem[1][i]
             /\ e.present => /\ k < NextFree(n, t)
                             /\ NextFree(n, t) <= n =>
                                  CopiedPDP(m0, t.mem, e.to, k, s.mem[k], k + 1, NextFree(n, t))

\* A panic changes nothing else.
LEMMA Panicking ==
    ASSUME NEW m0, NEW n, Memory(m0, n), NEW s \in Works(m0, n), NEW t, t = [s EXCEPT !.panic = TRUE]
    PROVE  t \in Works(m0, n) /\ Grows(m0, n, s, t, 1) /\ t.panic
  <1>1. t = [mem |-> s.mem, free |-> s.free, root |-> s.root, panic |-> TRUE] BY DEF Works
  <1>2. t.mem = s.mem /\ t.free = s.free /\ t.root = s.root /\ t.panic = TRUE BY <1>1
  <1>3. t \in Works(m0, n) BY <1>1, <1>2 DEF Works
  <1>4. NextFree(n, t) = NextFree(n, s) /\ NextFree(n, s) \in Int BY <1>2, NextFreeIs DEF NextFree
  <1> QED BY <1>2, <1>3, <1>4 DEF Grows

LEMMA CopySlotStep ==
    ASSUME NEW m0, NEW n, Memory(m0, n), NEW s \in Works(m0, n), AtRoot(n, s),
           NEW cr3, SourcePML4(m0, n, cr3), NEW i \in Slots
    PROVE  LET t == CopySlot(cr3, s, i)
           IN t \in Works(m0, n) /\ AtRoot(n, t) /\ Slotted(m0, n, cr3, i, s, t)
  <1> DEFINE e == EntryOf(m0, cr3, i)
             k == NextFree(n, s)
             new == Frame(s)
             g == Taken(s)
             u == CopyPDP(e.to, new, g)
             x == [e EXCEPT !.to = new]
             t == CopySlot(cr3, s, i)
  <1>1. EntryOf(s.mem, cr3, i) = e /\ e \in PageEntries BY Reading DEF SourcePML4
  <1>2. e.present \in BOOLEAN /\ s.panic \in BOOLEAN BY <1>1 DEF PageEntries, Works
  <1>3. /\ k \in 1 .. n + 1 /\ new = (IF k <= n THEN k ELSE 0) /\ new \in 0 .. n
        /\ g \in Works(m0, n) /\ NextFree(n, g) = (IF k <= n THEN k + 1 ELSE k)
        /\ g.mem = s.mem /\ g.root = s.root /\ g.panic = s.panic
    BY Allocating
  <1>4. n \in Nat /\ k \in Int /\ s.root = 1 /\ 1 < k /\ 0 .. n \subseteq DOMAIN m0
    BY <1>3 DEF Memory, AtRoot
  <1>5. t = IF s.panic \/ ~e.present THEN s
            ELSE IF new = 0 THEN [s EXCEPT !.panic = TRUE] ELSE Write(u, 1, i, x)
    <2> HIDE DEF e
    <2> QED BY <1>1, <1>2, <1>4 DEF CopySlot
  <1>a. e.present => SourcePDP(m0, n, e.to) BY DEF SourcePML4
  <1> HIDE DEF e, k, new, g, t, u
  <1>6. ASSUME t \in Works(m0, n), Grows(m0, n, s, t, 1) PROVE AtRoot(n, t)
    <2>1. NextFree(n, t) \in Int BY <1>6, NextFreeIs
    <2> QED BY <1>4, <1>6, <2>1 DEF AtRoot, Grows, k
  <1>7. CASE s.panic \/ ~e.present
    <2>1. t = s BY <1>5, <1>7
    <2>2. Grows(m0, n, s, t, 1) BY <2>1, GrowsSelf
    <2> QED BY <1>6, <1>7, <2>1, <2>2 DEF Slotted, t, e
  <1>8. CASE ~(s.panic \/ ~e.present) /\ new = 0
    <2>1. t = [s EXCEPT !.panic = TRUE] BY <1>5, <1>8
    <2>2. t \in Works(m0, n) /\ Grows(m0, n, s, t, 1) /\ t.panic BY <2>1, Panicking
    <2> QED BY <1>6, <2>2 DEF Slotted, t
  <1>9. CASE ~(s.panic \/ ~e.present) /\ new # 0
    <2>1. e.present /\ SourcePDP(m0, n, e.to) BY <1>2, <1>9, <1>a
    <2>2. k <= n /\ new = k /\ NextFree(n, g) = k + 1 BY <1>3, <1>4, <1>9
    <2>3. /\ u \in Works(m0, n) /\ Grows(m0, n, g, u, new)
          /\ new # 0 /\ new < NextFree(n, g) /\ NextFree(n, u) <= n =>
               CopiedPDP(m0, u.mem, e.to, new, g.mem[new], NextFree(n, g), NextFree(n, u))
      BY <1>3, <2>1, CopyPDPIs DEF u
    <2>4. x \in PageEntries
      <3>1. new \in Nat BY <1>3, <1>4
      <3> QED BY <1>1, <3>1 DEF PageEntries
    <2>5. t = Write(u, 1, i, x) BY <1>5, <1>9
    <2> HIDE DEF x
    <2>6. 1 \in 0 .. n BY <1>4, <2>2
    <2>7. /\ t \in Works(m0, n) /\ t.free = u.free /\ t.root = u.root /\ t.panic = u.panic
          /\ t.mem[1][i] = x /\ \A j \in Slots : j # i => t.mem[1][j] = u.mem[1][j]
          /\ \A f \in DOMAIN m0 : f # 1 => t.mem[f] = u.mem[f]
      BY <2>3, <2>4, <2>5, <2>6, Writing
    <2> DEFINE b == NextFree(n, u)
    <2>8. NextFree(n, t) = b BY <2>7 DEF NextFree
    <2>9. b \in 1 .. n + 1 /\ b \in Int /\ k + 1 <= b BY <2>2, <2>3, NextFreeIs DEF Grows
    <2>10. \A f \in DOMAIN m0 : f \notin {0, k} /\ f \notin k + 1 .. b - 1 => u.mem[f] = s.mem[f]
      BY <1>3, <2>2, <2>3 DEF Grows
    <2>11. u.root = s.root /\ (s.panic => u.panic) BY <1>3, <2>3 DEF Grows
    <2> HIDE DEF b
    <2>12. Grows(m0, n, s, t, 1)
      <3>1. k <= b BY <1>4, <2>9
      <3>2. ASSUME NEW f \in DOMAIN m0, f \notin {0, 1}, f \notin k .. b - 1 PROVE t.mem[f] = s.mem[f]
        <4>1. f # k /\ f \notin k + 1 .. b - 1 BY <1>4, <2>9, <3>2
        <4> QED BY <2>7, <2>10, <3>2, <4>1
      <3> QED BY <2>7, <2>8, <2>11, <3>1, <3>2 DEF Grows, k
    <2>13. u.mem[1] = s.mem[1]
      <3>1. 1 \in DOMAIN m0 /\ 1 \notin {0, k} /\ 1 \notin k + 1 .. b - 1 BY <1>4, <2>6, <2>9
      <3> QED BY <2>10, <3>1
    <2>14. \A j \in Slots : j # i => t.mem[1][j] = s.mem[1][j] BY <2>7, <2>13
    <2>15. t.mem[1][i] = [e EXCEPT !.to = k] BY <2>2, <2>7 DEF x
    <2>16. ASSUME b <= n PROVE CopiedPDP(m0, t.mem, e.to, k, s.mem[k], k + 1, b)
      <3>1. k # 0 /\ k < k + 1 BY <1>4
      <3>2. CopiedPDP(m0, u.mem, e.to, k, s.mem[k], k + 1, b) BY <1>3, <2>2, <2>3, <2>16, <3>1 DEF b
      <3>3. \A f \in k .. b - 1 : f \in DOMAIN m0 /\ f # 1
        <4>1. \A f \in k .. b - 1 : f \in 0 .. n /\ f # 1 BY <1>4, <2>9
        <4> QED BY <1>4, <4>1
      <3>4. \A f \in k .. b - 1 : t.mem[f] = u.mem[f] BY <2>7, <3>3
      <3>5. k \in Nat /\ b \in Nat /\ k < b BY <1>4, <2>9
      <3> QED BY <3>2, <3>4, <3>5, CopiedPDPSame
    <2>17. k < b BY <1>4, <2>9
    <2>18. Slotted(m0, n, cr3, i, s, t)
      BY <2>1, <2>8, <2>12, <2>14, <2>15, <2>16, <2>17 DEF Slotted, e, k
    <2> QED BY <1>6, <2>7, <2>12, <2>18 DEF t
  <1> QED BY <1>2, <1>7, <1>8, <1>9

Reserved(m0, n, i, s, t) ==
    /\ Grows(m0, n, s, t, 1)
    /\ ~t.panic =>
         LET k == NextFree(n, s)
         IN  /\ \A j \in Slots : j # i => t.mem[1][j] = s.mem[1][j]
             /\ s.mem[1][i].present => t.mem[1][i] = s.mem[1][i]
             /\ ~s.mem[1][i].present =>
                  /\ t.mem[1][i] = PresentReadWrite(k) /\ k <= n /\ k < NextFree(n, t)
                  /\ t.mem[k] = BlankRow

LEMMA Redirected == ASSUME NEW f PROVE [PresentReadWrite(0) EXCEPT !.to = f] = PresentReadWrite(f)
  <1> DEFINE p == TRUE
             h == FALSE
             fl == {"ReadWrite"}
  <1>1. \A g : PresentReadWrite(g) = [present |-> p, huge |-> h, to |-> g, flags |-> fl]
    BY DEF PresentReadWrite
  <1> HIDE DEF p, h, fl
  <1> QED BY <1>1

LEMMA ReserveSlotStep ==
    ASSUME NEW m0, NEW n, Memory(m0, n), NEW s \in Works(m0, n), AtRoot(n, s), NEW i \in Slots,
           1 <= n
    PROVE  LET t == ReserveSlot(s, i)
           IN t \in Works(m0, n) /\ AtRoot(n, t) /\ Reserved(m0, n, i, s, t)
  <1> DEFINE e == PresentReadWrite(0)
             k == NextFree(n, s)
             new == Frame(s)
             w == Write(Memset(Taken(s), new), 1, i, [e EXCEPT !.to = new])
             old == s.mem[1][i]
             t == ReserveSlot(s, i)
  <1>1. n \in Nat /\ k \in Int /\ s.root = 1 /\ 1 < k /\ 1 \in 0 .. n /\ k \in 1 .. n + 1
        /\ new = (IF k <= n THEN k ELSE 0)
    BY Allocating DEF Memory, AtRoot
  <1>2. EntryOf(s.mem, 1, i) = old /\ old \in PageEntries BY <1>1, Cell
  <1>3. old.present \in BOOLEAN /\ s.panic \in BOOLEAN BY <1>2 DEF PageEntries, Works
  <1>4. e \in PageEntries /\ [e EXCEPT !.to = new] = PresentReadWrite(new)
    <2>1. e \in PageEntries BY Sizes
    <2> QED BY <2>1, Redirected
  <1>5. t = IF s.panic \/ old.present THEN s
            ELSE IF new = 0 THEN [s EXCEPT !.panic = TRUE] ELSE w
    <2> HIDE DEF old
    <2> QED BY <1>1, <1>2, <1>3, <1>4 DEF ReserveSlot
  <1>6. LinkedIn(m0, n, s, 1, i, e)
    <2> HIDE DEF e
    <2> QED BY <1>1, <1>4, Linking
  <1>7. /\ w \in Works(m0, n) /\ w.mem[new] = BlankRow /\ (k <= n => NextFree(n, w) = k + 1)
        /\ \A u \in Works(m0, n) : Grows(m0, n, w, u, new) =>
             /\ Grows(m0, n, s, u, 1)
             /\ u.mem[1][i] = [e EXCEPT !.to = new]
             /\ \A j \in Slots : j # i => u.mem[1][j] = s.mem[1][j]
    <2> HIDE DEF e
    <2> QED BY <1>1, <1>6 DEF LinkedIn
  <1> HIDE DEF e, w, t, old, k, new
  <1>8. ASSUME t \in Works(m0, n), Grows(m0, n, s, t, 1) PROVE AtRoot(n, t)
    <2>1. NextFree(n, t) \in Int BY <1>8, NextFreeIs
    <2> QED BY <1>1, <1>8, <2>1 DEF AtRoot, Grows, k
  <1>9. CASE s.panic \/ old.present
    <2>1. t = s BY <1>5, <1>9
    <2>2. Grows(m0, n, s, t, 1) BY <2>1, GrowsSelf
    <2> QED BY <1>8, <1>9, <2>1, <2>2 DEF Reserved, t, old
  <1>10. CASE ~(s.panic \/ old.present) /\ new = 0
    <2>1. t = [s EXCEPT !.panic = TRUE] BY <1>5, <1>10
    <2>2. t \in Works(m0, n) /\ Grows(m0, n, s, t, 1) /\ t.panic BY <2>1, Panicking
    <2> QED BY <1>8, <2>2 DEF Reserved, t
  <1>11. CASE ~(s.panic \/ old.present) /\ new # 0
    <2>1. t = w BY <1>5, <1>11
    <2>2. new = k /\ k <= n BY <1>1, <1>11
    <2>3. Grows(m0, n, w, w, new) BY <1>7, GrowsSelf
    <2>4. /\ Grows(m0, n, s, t, 1) /\ t.mem[1][i] = PresentReadWrite(k)
          /\ \A j \in Slots : j # i => t.mem[1][j] = s.mem[1][j]
          /\ t.mem[k] = BlankRow /\ NextFree(n, t) = k + 1 /\ t \in Works(m0, n)
      BY <1>4, <1>7, <2>1, <2>2, <2>3
    <2>5. k < NextFree(n, t) BY <1>1, <2>4
    <2>6. ~old.present BY <1>11
    <2> QED BY <1>8, <2>2, <2>4, <2>5, <2>6 DEF Reserved, t, k, old
  <1> QED BY <1>3, <1>9, <1>10, <1>11

RootWorks(m0, n) == {s \in Works(m0, n) : AtRoot(n, s)}

LEMMA CopySlotLoop ==
    ASSUME NEW m0, NEW n, Memory(m0, n), NEW st \in RootWorks(m0, n),
           NEW cr3, SourcePML4(m0, n, cr3)
    PROVE  \E h \in [0 .. PML4Size -> RootWorks(m0, n)] :
             /\ h[0] = st /\ h[PML4Size] = CopyExistingPageTableToNew(cr3, st)
             /\ \A i \in 0 .. PML4Size - 1 : h[i + 1] = CopySlot(cr3, h[i], i)
  <1> DEFINE N == PML4Size
             D == RootWorks(m0, n)
             Step(s, i) == CopySlot(cr3, s, i - 1)
             c[i \in 0 .. PML4Size] == IF i = 0 THEN st ELSE CopySlot(cr3, c[i - 1], i - 1)
             Q(f) == f = [i \in 0 .. N |-> IF i = 0 THEN st ELSE Step(f[i - 1], i)]
             S == [x \in D |-> [i \in 1 .. N |-> Step(x, i)]]
  <1>1. N \in Nat BY PagingInitAssumption
  <1>2. CopyExistingPageTableToNew(cr3, st) = c[N] BY DEF CopyExistingPageTableToNew
  <1>3. c = CHOOSE f : Q(f) OBVIOUS
  <1> HIDE DEF c
  <1>4. \A s \in D : \A i \in 1 .. N : Step(s, i) \in D
    <2>1. \A i \in 1 .. N : i - 1 \in Slots BY <1>1 DEF Slots
    <2> QED BY <2>1, CopySlotStep DEF RootWorks
  <1> HIDE DEF N, D, Step
  <1>5. S \in Steps(D, N) /\ \A x \in D : \A i \in 1 .. N : S[x][i] = Step(x, i) BY <1>4 DEF Steps
  <1>6. Before(N) \in Earlier(N) /\ \A i \in 1 .. N : Before(N)[i] = i - 1 BY <1>1, BeforeIsEarlier
  <1> HIDE DEF S
  <1>7. st \in D BY DEF D
  <1>8. PICK g : Computes(g, D, st, N, Before(N), S) BY <1>1, <1>5, <1>6, <1>7, RecursionExists
  <1>9. g \in [0 .. N -> D] /\ g[0] = st /\ \A i \in 1 .. N : g[i] = S[g[i - 1]][i]
    BY <1>6, <1>8 DEF Computes
  <1>10. Q(g)
    <2>1. ASSUME NEW i \in 0 .. N PROVE g[i] = IF i = 0 THEN st ELSE Step(g[i - 1], i)
      <3>1. CASE i = 0 BY <1>9, <3>1
      <3>2. CASE i # 0
        <4>1. i \in 1 .. N /\ i - 1 \in 0 .. N BY <1>1, <3>2
        <4>2. g[i - 1] \in D BY <1>9, <4>1
        <4> QED BY <1>5, <1>9, <3>2, <4>1, <4>2
      <3> QED BY <3>1, <3>2
    <2> QED BY <1>9, <2>1
  <1> HIDE DEF Q
  <1>11. Q(c) BY <1>3, <1>10
  <1> USE DEF Q
  <1>12. \A i \in 0 .. N : c[i] = IF i = 0 THEN st ELSE Step(c[i - 1], i) BY <1>11
  <1>13. c = [i \in 0 .. N |-> c[i]] BY <1>11
  <1> HIDE DEF Q
  <1>14. \A i \in 1 .. N : i # 0 /\ i \in 0 .. N BY <1>1
  <1>15. c[0] = st /\ \A i \in 1 .. N : c[i] = Step(c[i - 1], i) BY <1>1, <1>12, <1>14
  <1>16. \A i \in 1 .. N : c[Before(N)[i]] \in D => c[i] = S[c[Before(N)[i]]][i]
    BY <1>5, <1>6, <1>15
  <1>17. Computes(c, D, st, N, Before(N), S)
    BY <1>1, <1>5, <1>6, <1>7, <1>13, <1>15, <1>16, RecursionTyped
  <1>18. c \in [0 .. N -> D] BY <1>17 DEF Computes
  <1>19. ASSUME NEW i \in 0 .. N - 1 PROVE c[i + 1] = CopySlot(cr3, c[i], i)
    <2>1. i + 1 \in 1 .. N /\ (i + 1) - 1 = i BY <1>1
    <2>2. c[i + 1] = Step(c[i], i + 1) BY <1>15, <2>1
    <2> QED BY <2>1, <2>2 DEF Step
  <1> QED BY <1>2, <1>15, <1>18, <1>19 DEF N, D

LEMMA ReserveSlotLoop ==
    ASSUME NEW m0, NEW n, Memory(m0, n), NEW st \in RootWorks(m0, n), 1 <= n
    PROVE  \E h \in [0 .. (PML4Size \div 2) -> RootWorks(m0, n)] :
             /\ h[0] = st /\ h[(PML4Size \div 2)] = ReserveHigherHalfPML4Slots(st)
             /\ \A i \in 0 .. (PML4Size \div 2) - 1 : h[i + 1] = ReserveSlot(h[i], (PML4Size \div 2) + i)
  <1> DEFINE N == (PML4Size \div 2)
             D == RootWorks(m0, n)
             Step(s, i) == ReserveSlot(s, (PML4Size \div 2) + i - 1)
             c[i \in 0 .. (PML4Size \div 2)] == IF i = 0 THEN st ELSE ReserveSlot(c[i - 1], (PML4Size \div 2) + i - 1)
             Q(f) == f = [i \in 0 .. N |-> IF i = 0 THEN st ELSE Step(f[i - 1], i)]
             S == [x \in D |-> [i \in 1 .. N |-> Step(x, i)]]
  <1>1. N \in Nat BY PagingInitAssumption
  <1>2. ReserveHigherHalfPML4Slots(st) = c[N] BY DEF ReserveHigherHalfPML4Slots
  <1>3. c = CHOOSE f : Q(f) OBVIOUS
  <1> HIDE DEF c
  <1>4. \A s \in D : \A i \in 1 .. N : Step(s, i) \in D
    <2>1. \A i \in 1 .. N : (PML4Size \div 2) + i - 1 \in Slots
      <3>1. PML4Size \in Nat /\ N + N <= PML4Size BY PagingInitAssumption
      <3> QED BY <1>1, <3>1 DEF Slots
    <2> QED BY <2>1, ReserveSlotStep DEF RootWorks
  <1> HIDE DEF N, D, Step
  <1>5. S \in Steps(D, N) /\ \A x \in D : \A i \in 1 .. N : S[x][i] = Step(x, i) BY <1>4 DEF Steps
  <1>6. Before(N) \in Earlier(N) /\ \A i \in 1 .. N : Before(N)[i] = i - 1 BY <1>1, BeforeIsEarlier
  <1> HIDE DEF S
  <1>7. st \in D BY DEF D
  <1>8. PICK g : Computes(g, D, st, N, Before(N), S) BY <1>1, <1>5, <1>6, <1>7, RecursionExists
  <1>9. g \in [0 .. N -> D] /\ g[0] = st /\ \A i \in 1 .. N : g[i] = S[g[i - 1]][i]
    BY <1>6, <1>8 DEF Computes
  <1>10. Q(g)
    <2>1. ASSUME NEW i \in 0 .. N PROVE g[i] = IF i = 0 THEN st ELSE Step(g[i - 1], i)
      <3>1. CASE i = 0 BY <1>9, <3>1
      <3>2. CASE i # 0
        <4>1. i \in 1 .. N /\ i - 1 \in 0 .. N BY <1>1, <3>2
        <4>2. g[i - 1] \in D BY <1>9, <4>1
        <4> QED BY <1>5, <1>9, <3>2, <4>1, <4>2
      <3> QED BY <3>1, <3>2
    <2> QED BY <1>9, <2>1
  <1> HIDE DEF Q
  <1>11. Q(c) BY <1>3, <1>10
  <1> USE DEF Q
  <1>12. \A i \in 0 .. N : c[i] = IF i = 0 THEN st ELSE Step(c[i - 1], i) BY <1>11
  <1>13. c = [i \in 0 .. N |-> c[i]] BY <1>11
  <1> HIDE DEF Q
  <1>14. \A i \in 1 .. N : i # 0 /\ i \in 0 .. N BY <1>1
  <1>15. c[0] = st /\ \A i \in 1 .. N : c[i] = Step(c[i - 1], i) BY <1>1, <1>12, <1>14
  <1>16. \A i \in 1 .. N : c[Before(N)[i]] \in D => c[i] = S[c[Before(N)[i]]][i]
    BY <1>5, <1>6, <1>15
  <1>17. Computes(c, D, st, N, Before(N), S)
    BY <1>1, <1>5, <1>6, <1>7, <1>13, <1>15, <1>16, RecursionTyped
  <1>18. c \in [0 .. N -> D] BY <1>17 DEF Computes
  <1>19. ASSUME NEW i \in 0 .. N - 1 PROVE c[i + 1] = ReserveSlot(c[i], (PML4Size \div 2) + i)
    <2>1. i + 1 \in 1 .. N /\ (i + 1) - 1 = i BY <1>1
    <2>2. c[i + 1] = Step(c[i], i + 1) BY <1>15, <2>1
    <2>3. (PML4Size \div 2) + (i + 1) - 1 = (PML4Size \div 2) + i BY PagingInitAssumption
    <2> QED BY <2>1, <2>2, <2>3 DEF Step
  <1> QED BY <1>2, <1>15, <1>18, <1>19 DEF N, D

\* A loop over the PML4, however far it goes.
RootLooped(m0, n, N, h, a) ==
    /\ a \in FrameMarks(N, NextFree(n, h[0]), NextFree(n, h[N]))
    /\ \A i \in 0 .. N :
         /\ h[i] \in Works(m0, n) /\ a[i] = NextFree(n, h[i]) /\ a[i] \in 2 .. n + 1
         /\ (h[i].panic => h[N].panic)
         /\ \A f \in a[i] .. n : h[i].mem[f] = h[0].mem[f]
         /\ \A f \in 2 .. a[i] - 1 : h[N].mem[f] = h[i].mem[f]

LEMMA RootLoop ==
    ASSUME NEW m0, NEW n, Memory(m0, n), NEW N \in Nat, NEW h \in [0 .. N -> RootWorks(m0, n)],
           \A i \in 0 .. N - 1 : Grows(m0, n, h[i], h[i + 1], 1)
    PROVE  /\ RootLooped(m0, n, N, h, [i \in 0 .. N |-> NextFree(n, h[i])])
           /\ Grows(m0, n, h[0], h[N], 1)
  <1> DEFINE a == [i \in 0 .. N |-> NextFree(n, h[i])]
  <1>1. h \in [0 .. N -> Works(m0, n)] /\ \A i \in 0 .. N : AtRoot(n, h[i]) BY DEF RootWorks
  <1>2. \A i \in 0 .. N : \A j \in i .. N : Grows(m0, n, h[i], h[j], 1)
    <2> TAKE i \in 0 .. N
    <2> TAKE j \in i .. N
    <2> QED BY <1>1, LoopGrows
  <1>3. \A i \in 0 .. N : a[i] = NextFree(n, h[i]) /\ a[i] \in 2 .. n + 1 /\ n \in Nat
    <2> TAKE i \in 0 .. N
    <2>1. h[i] \in Works(m0, n) /\ AtRoot(n, h[i]) BY <1>1
    <2>2. n \in Nat /\ NextFree(n, h[i]) \in 1 .. n + 1 BY <2>1, NextFreeIs
    <2> QED BY <2>1, <2>2 DEF AtRoot
  <1>4. \A i, j \in 0 .. N : i <= j => a[i] <= a[j]
    <2> TAKE i, j \in 0 .. N
    <2>1. i <= j => j \in i .. N OBVIOUS
    <2> QED BY <1>2, <1>3, <2>1 DEF Grows
  <1>5. a \in [0 .. N -> Nat]
    <2>1. \A i \in 0 .. N : NextFree(n, h[i]) \in Nat BY <1>3
    <2> QED BY <2>1
  <1>6. 0 \in 0 .. N /\ N \in 0 .. N /\ \A i \in 0 .. N : N \in i .. N /\ i \in 0 .. N OBVIOUS
  <1> HIDE DEF a
  <1>7. a \in FrameMarks(N, NextFree(n, h[0]), NextFree(n, h[N])) BY <1>3, <1>4, <1>5, <1>6 DEF FrameMarks
  <1>8. ASSUME NEW i \in 0 .. N
        PROVE  /\ (h[i].panic => h[N].panic)
               /\ \A f \in a[i] .. n : h[i].mem[f] = h[0].mem[f]
               /\ \A f \in 2 .. a[i] - 1 : h[N].mem[f] = h[i].mem[f]
    <2>1. Grows(m0, n, h[0], h[i], 1) /\ Grows(m0, n, h[i], h[N], 1) BY <1>2, <1>6
    <2>2. /\ n \in Nat /\ 0 .. n \subseteq DOMAIN m0 /\ a[0] \in 2 .. n + 1 /\ a[i] \in 2 .. n + 1
          /\ a[0] = NextFree(n, h[0]) /\ a[i] = NextFree(n, h[i])
      BY <1>3, <1>6 DEF Memory
    <2>3. ASSUME NEW f \in a[i] .. n PROVE h[i].mem[f] = h[0].mem[f]
      <3>1. f \in 0 .. n /\ f \notin {0, 1} /\ f \notin a[0] .. a[i] - 1 BY <2>2
      <3> QED BY <2>1, <2>2, <3>1 DEF Grows
    <2>4. ASSUME NEW f \in 2 .. a[i] - 1 PROVE h[N].mem[f] = h[i].mem[f]
      <3>1. f \in 0 .. n /\ f \notin {0, 1} /\ f \notin a[i] .. NextFree(n, h[N]) - 1 BY <2>2
      <3> QED BY <2>1, <2>2, <3>1 DEF Grows
    <2> QED BY <2>1, <2>3, <2>4 DEF Grows
  <1>9. Grows(m0, n, h[0], h[N], 1) BY <1>2, <1>6
  <1>10. \A i \in 0 .. N : h[i] \in Works(m0, n) BY <1>1
  <1> QED BY <1>3, <1>7, <1>8, <1>9, <1>10 DEF RootLooped, a

\* The copies of the boot loader's PDPs.
CopiedPML4(m0, n, cr3, st, r, a) ==
    /\ a \in FrameMarks(PML4Size, NextFree(n, st), NextFree(n, r))
    /\ \A i \in Slots :
         LET e == EntryOf(m0, cr3, i)
         IN  /\ r.mem[1][i] = IF e.present THEN [e EXCEPT !.to = a[i]] ELSE st.mem[1][i]
             /\ e.present => /\ a[i] < a[i + 1]
                             /\ NextFree(n, r) <= n =>
                                  CopiedPDP(m0, r.mem, e.to, a[i], st.mem[a[i]], a[i] + 1, a[i + 1])

LEMMA CopyPML4Is ==
    ASSUME NEW m0, NEW n, Memory(m0, n), NEW st \in RootWorks(m0, n), NEW cr3,
           SourcePML4(m0, n, cr3)
    PROVE  LET r == CopyExistingPageTableToNew(cr3, st)
           IN  /\ r \in RootWorks(m0, n) /\ Grows(m0, n, st, r, 1)
               /\ ~r.panic => \E a : CopiedPML4(m0, n, cr3, st, r, a)
  <1>1. PICK h \in [0 .. PML4Size -> RootWorks(m0, n)] :
          /\ h[0] = st /\ h[PML4Size] = CopyExistingPageTableToNew(cr3, st)
          /\ \A i \in 0 .. PML4Size - 1 : h[i + 1] = CopySlot(cr3, h[i], i)
    BY CopySlotLoop
  <1>2. PML4Size \in Nat /\ Slots = 0 .. PML4Size - 1 BY PagingInitAssumption DEF Slots
  <1>3. \A i \in Slots : i \in 0 .. PML4Size /\ i + 1 \in 0 .. PML4Size BY <1>2
  <1>4. \A i \in Slots : Slotted(m0, n, cr3, i, h[i], h[i + 1])
    <2> TAKE i \in Slots
    <2>1. h[i] \in Works(m0, n) /\ AtRoot(n, h[i]) /\ i \in 0 .. PML4Size - 1
      BY <1>2, <1>3 DEF RootWorks
    <2> QED BY <1>1, <2>1, CopySlotStep
  <1> DEFINE r == h[PML4Size]
             a == [i \in 0 .. PML4Size |-> NextFree(n, h[i])]
  <1>5. RootLooped(m0, n, PML4Size, h, a) /\ Grows(m0, n, h[0], r, 1)
    <2>1. \A i \in 0 .. PML4Size - 1 : Grows(m0, n, h[i], h[i + 1], 1) BY <1>2, <1>4 DEF Slotted
    <2> QED BY <1>2, <2>1, RootLoop
  <1>6. r \in RootWorks(m0, n) BY <1>2
  <1> HIDE DEF a
  <1>7. ASSUME ~r.panic PROVE CopiedPML4(m0, n, cr3, h[0], r, a)
    <2>1. a \in FrameMarks(PML4Size, NextFree(n, h[0]), NextFree(n, r)) BY <1>5 DEF RootLooped
    <2>2. \A i \in Slots :
            /\ h[i] \in Works(m0, n) /\ a[i] = NextFree(n, h[i]) /\ a[i] \in 2 .. n + 1
            /\ a[i + 1] = NextFree(n, h[i + 1]) /\ a[i + 1] \in 2 .. n + 1 /\ ~h[i + 1].panic
            /\ \A f \in a[i] .. n : h[i].mem[f] = h[0].mem[f]
            /\ \A f \in 2 .. a[i + 1] - 1 : r.mem[f] = h[i + 1].mem[f]
      BY <1>3, <1>5, <1>7 DEF RootLooped
    <2>3. \A i \in Slots :
            LET e == EntryOf(m0, cr3, i)
            IN  /\ \A j \in Slots : j # i => h[i + 1].mem[1][j] = h[i].mem[1][j]
                /\ h[i + 1].mem[1][i] = IF e.present THEN [e EXCEPT !.to = a[i]] ELSE h[i].mem[1][i]
                /\ e.present => /\ a[i] < a[i + 1]
                                /\ a[i + 1] <= n =>
                                     CopiedPDP(m0, h[i + 1].mem, e.to, a[i], h[i].mem[a[i]],
                                               a[i] + 1, a[i + 1])
      BY <1>4, <2>2 DEF Slotted
    <2>4. RowLoop(h, PML4Size, 1) BY <1>2, <2>3 DEF RowLoop
    <2>5. \A j \in 0 .. PML4Size - 1 : /\ h[j].mem[1][j] = h[0].mem[1][j]
                                       /\ h[PML4Size].mem[1][j] = h[j + 1].mem[1][j]
      <3>1. PML4Size \in Nat BY <1>2
      <3>2. RowLooped(h, PML4Size, 1) BY ONLY <2>4, <3>1, LoopRow
      <3> QED BY ONLY <3>2 DEF RowLooped
    <2>6. ASSUME NEW i \in Slots, EntryOf(m0, cr3, i).present, NextFree(n, r) <= n
          PROVE  CopiedPDP(m0, r.mem, EntryOf(m0, cr3, i).to, a[i], h[0].mem[a[i]], a[i] + 1, a[i + 1])
      <3>0. a[i] < a[i + 1] BY <2>3, <2>6
      <3>1. a[i] \in Nat /\ a[i + 1] \in Nat /\ a[i] >= 2 /\ a[i] < a[i + 1] /\ n \in Nat
        BY <2>2, <3>0 DEF Memory
      <3>2. a[i + 1] <= NextFree(n, r)
        <4>1. i + 1 <= PML4Size /\ PML4Size \in 0 .. PML4Size BY <1>2
        <4> QED BY <1>3, <2>1, <4>1 DEF FrameMarks
      <3>3. a[i + 1] <= n
        <4>1. NextFree(n, r) \in Int BY <1>6, NextFreeIs DEF RootWorks
        <4> QED BY <2>6, <3>1, <3>2, <4>1
      <3>4. h[i].mem[a[i]] = h[0].mem[a[i]]
        <4>1. a[i] \in a[i] .. n BY <3>1, <3>3
        <4> QED BY <2>2, <4>1
      <3>5. CopiedPDP(m0, h[i + 1].mem, EntryOf(m0, cr3, i).to, a[i], h[0].mem[a[i]],
                      a[i] + 1, a[i + 1])
        BY <2>3, <2>6, <3>3, <3>4
      <3>6. \A f \in a[i] .. a[i + 1] - 1 : f \in 2 .. a[i + 1] - 1 BY <3>1
      <3>7. \A f \in a[i] .. a[i + 1] - 1 : r.mem[f] = h[i + 1].mem[f] BY <2>2, <3>6
      <3> QED BY <3>1, <3>5, <3>7, CopiedPDPSame
    <2>7. ASSUME NEW i \in Slots
          PROVE  LET e == EntryOf(m0, cr3, i)
                 IN  /\ r.mem[1][i] = IF e.present THEN [e EXCEPT !.to = a[i]] ELSE h[0].mem[1][i]
                     /\ e.present => a[i] < a[i + 1]
      <3>1. i \in 0 .. PML4Size - 1 BY <1>2
      <3>2. h[i].mem[1][i] = h[0].mem[1][i] /\ r.mem[1][i] = h[i + 1].mem[1][i] BY <2>5, <3>1
      <3> QED BY <2>3, <3>2
    <2> HIDE DEF r
    <2> QED BY <2>1, <2>6, <2>7 DEF CopiedPML4
  <1> QED BY <1>1, <1>5, <1>6, <1>7

\* The PDPs of the kernel's slots that were absent.
ReservedPML4(n, st, r, c) ==
    LET half == PML4Size \div 2
    IN  /\ c \in FrameMarks(half, NextFree(n, st), NextFree(n, r))
        /\ \A j \in Slots :
             IF j \in KernelSlots /\ ~st.mem[1][j].present
             THEN /\ r.mem[1][j] = PresentReadWrite(c[j - half])
                  /\ c[j - half] <= n /\ c[j - half] < c[j - half + 1]
                  /\ r.mem[c[j - half]] = BlankRow
             ELSE r.mem[1][j] = st.mem[1][j]

LEMMA Halves == LET half == PML4Size \div 2
                IN  half \in Nat /\ PML4Size = half + half /\ Slots = 0 .. half + half - 1
                    /\ KernelSlots = half .. half + half - 1 /\ 1 <= half
  <1>1. PML4Size \in Nat /\ PML4Size # 0 /\ PML4Size % 2 = 0 BY PagingInitAssumption
  <1>2. PML4Size \div 2 \in Nat /\ PML4Size = 2 * (PML4Size \div 2) + (PML4Size % 2) BY <1>1
  <1> QED BY <1>1, <1>2 DEF Slots, KernelSlots

LEMMA ReserveIs ==
    ASSUME NEW m0, NEW n, Memory(m0, n), NEW st \in RootWorks(m0, n), 1 <= n
    PROVE  LET r == ReserveHigherHalfPML4Slots(st)
           IN  /\ r \in RootWorks(m0, n) /\ Grows(m0, n, st, r, 1)
               /\ ~r.panic => \E c : ReservedPML4(n, st, r, c)
  <1> DEFINE half == PML4Size \div 2
  <1>1. PICK h \in [0 .. half -> RootWorks(m0, n)] :
          /\ h[0] = st /\ h[half] = ReserveHigherHalfPML4Slots(st)
          /\ \A i \in 0 .. half - 1 : h[i + 1] = ReserveSlot(h[i], half + i)
    BY ReserveSlotLoop
  <1>2. half \in Nat /\ Slots = 0 .. half + half - 1 /\ KernelSlots = half .. half + half - 1
    BY Halves
  <1> HIDE DEF half
  <1>3. \A i \in 0 .. half - 1 : i \in 0 .. half /\ i + 1 \in 0 .. half /\ half + i \in Slots BY <1>2
  <1>4. \A i \in 0 .. half - 1 : Reserved(m0, n, half + i, h[i], h[i + 1])
    <2> TAKE i \in 0 .. half - 1
    <2>1. h[i] \in Works(m0, n) /\ AtRoot(n, h[i]) /\ half + i \in Slots
      BY <1>2, <1>3 DEF RootWorks
    <2> QED BY <1>1, <2>1, ReserveSlotStep
  <1> DEFINE r == h[half]
             c == [i \in 0 .. half |-> NextFree(n, h[i])]
  <1>5. RootLooped(m0, n, half, h, c) /\ Grows(m0, n, h[0], r, 1)
    <2>1. \A i \in 0 .. half - 1 : Grows(m0, n, h[i], h[i + 1], 1) BY <1>2, <1>4 DEF Reserved
    <2> QED BY <1>2, <2>1, RootLoop
  <1>6. r \in RootWorks(m0, n) BY <1>2
  <1> HIDE DEF c
  <1>7. ASSUME ~r.panic PROVE ReservedPML4(n, h[0], r, c)
    <2>1. c \in FrameMarks(half, NextFree(n, h[0]), NextFree(n, r)) BY <1>5 DEF RootLooped
    <2>2. \A i \in 0 .. half - 1 :
            /\ c[i] = NextFree(n, h[i]) /\ c[i] \in 2 .. n + 1
            /\ c[i + 1] = NextFree(n, h[i + 1]) /\ c[i + 1] \in 2 .. n + 1 /\ ~h[i + 1].panic
            /\ \A f \in 2 .. c[i + 1] - 1 : r.mem[f] = h[i + 1].mem[f]
      BY <1>3, <1>5, <1>7 DEF RootLooped
    <2>3. \A i \in 0 .. half - 1 :
            /\ \A j \in Slots : j # half + i => h[i + 1].mem[1][j] = h[i].mem[1][j]
            /\ h[i].mem[1][half + i].present => h[i + 1].mem[1][half + i] = h[i].mem[1][half + i]
            /\ ~h[i].mem[1][half + i].present =>
                 /\ h[i + 1].mem[1][half + i] = PresentReadWrite(c[i])
                 /\ c[i] <= n /\ c[i] < c[i + 1] /\ h[i + 1].mem[c[i]] = BlankRow
      BY <1>4, <2>2 DEF Reserved
    <2>4. ASSUME NEW j \in Slots, j \notin KernelSlots PROVE r.mem[1][j] = h[0].mem[1][j]
      <3>1. \A k \in 0 .. half - 1 : j # half + k BY <1>2, <2>4
      <3>2. CellKept(h, 0, half, 1, j) BY <2>3, <3>1 DEF CellKept
      <3>3. 0 \in Nat /\ half \in Nat /\ 0 <= half BY <1>2
      <3> QED BY <3>2, <3>3, LoopCell
    <2>5. ASSUME NEW j \in KernelSlots
          PROVE  LET i == j - half
                 IN  /\ i \in 0 .. half - 1 /\ half + i = j /\ j \in Slots
                     /\ h[i].mem[1][j] = h[0].mem[1][j] /\ r.mem[1][j] = h[i + 1].mem[1][j]
      <3> DEFINE i == j - half
      <3>1. i \in 0 .. half - 1 /\ half + i = j /\ j \in Slots /\ i \in Nat /\ i + 1 \in Nat
            /\ 0 <= i /\ i + 1 <= half /\ half \in Nat
        BY <1>2
      <3> HIDE DEF i
      <3>2. h[i].mem[1][j] = h[0].mem[1][j]
        <4>1. \A k \in 0 .. i - 1 : k \in 0 .. half - 1 /\ j # half + k BY <1>2, <3>1
        <4>2. CellKept(h, 0, i, 1, j) BY <2>3, <3>1, <4>1 DEF CellKept
        <4>3. 0 \in Nat OBVIOUS
        <4> QED BY <3>1, <4>2, <4>3, LoopCell
      <3>3. r.mem[1][j] = h[i + 1].mem[1][j]
        <4>1. \A k \in i + 1 .. half - 1 : k \in 0 .. half - 1 /\ j # half + k BY <1>2, <3>1
        <4>2. CellKept(h, i + 1, half, 1, j) BY <2>3, <3>1, <4>1 DEF CellKept
        <4>3. i + 1 \in Nat /\ half \in Nat /\ i + 1 <= half BY <3>1
        <4> HIDE DEF r
        <4>4. h[half].mem[1][j] = h[i + 1].mem[1][j] BY <4>2, <4>3, LoopCell
        <4> QED BY <4>4 DEF r
      <3> QED BY <3>1, <3>2, <3>3 DEF i
    <2>6. ASSUME NEW j \in Slots
          PROVE  IF j \in KernelSlots /\ ~h[0].mem[1][j].present
                 THEN /\ r.mem[1][j] = PresentReadWrite(c[j - half])
                      /\ c[j - half] <= n /\ c[j - half] < c[j - half + 1]
                      /\ r.mem[c[j - half]] = BlankRow
                 ELSE r.mem[1][j] = h[0].mem[1][j]
      <3>1. CASE j \notin KernelSlots BY <2>4, <3>1
      <3>2. CASE j \in KernelSlots
        <4> DEFINE i == j - half
        <4>1. /\ i \in 0 .. half - 1 /\ half + i = j
              /\ h[i].mem[1][j] = h[0].mem[1][j] /\ r.mem[1][j] = h[i + 1].mem[1][j]
          BY <2>5, <3>2
        <4>2. /\ h[i].mem[1][j].present => h[i + 1].mem[1][j] = h[i].mem[1][j]
              /\ ~h[i].mem[1][j].present =>
                   /\ h[i + 1].mem[1][j] = PresentReadWrite(c[i])
                   /\ c[i] <= n /\ c[i] < c[i + 1] /\ h[i + 1].mem[c[i]] = BlankRow
          BY <2>3, <4>1
        <4>3. c[i] \in 2 .. n + 1 /\ c[i + 1] \in 2 .. n + 1
              /\ \A f \in 2 .. c[i + 1] - 1 : r.mem[f] = h[i + 1].mem[f]
          BY <2>2, <4>1
        <4> HIDE DEF i
        <4>4. c[i] < c[i + 1] => c[i] \in 2 .. c[i + 1] - 1 BY <4>3
        <4>5. c[i] < c[i + 1] => r.mem[c[i]] = h[i + 1].mem[c[i]] BY <4>3, <4>4
        <4>6. CASE h[0].mem[1][j].present BY <4>1, <4>2, <4>6
        <4>7. CASE ~h[0].mem[1][j].present BY <3>2, <4>1, <4>2, <4>5, <4>7 DEF i
        <4> QED BY <4>6, <4>7
      <3> QED BY <3>1, <3>2
    <2> HIDE DEF r
    <2> QED BY <2>1, <2>6 DEF ReservedPML4, half
  <1> QED BY <1>1, <1>5, <1>6, <1>7

(***************************************************************************)
(* The whole of it.  Each slot that is present has frames of its own.      *)
(***************************************************************************)
Built(m0, n, cr3, m, lo, hi) ==
    /\ \A i \in Slots :
         LET e == EntryOf(m0, cr3, i)
         IN  /\ e.present => /\ m[1][i] = [e EXCEPT !.to = lo[i]]
                             /\ CopiedPDP(m0, m, e.to, lo[i], m0[lo[i]], lo[i] + 1, hi[i])
             /\ ~e.present /\ i \in KernelSlots =>
                  m[1][i] = PresentReadWrite(lo[i]) /\ m[lo[i]] = BlankRow
             /\ ~e.present /\ i \notin KernelSlots => m[1][i] = NoEntry
             /\ m[1][i].present => 2 <= lo[i] /\ lo[i] < hi[i] /\ hi[i] <= n + 1
    /\ \A i, j \in Slots :
         i # j /\ m[1][i].present /\ m[1][j].present => hi[i] <= lo[j] \/ hi[j] <= lo[i]

LEMMA Redirect ==
    ASSUME NEW e \in PageEntries, NEW x
    PROVE  LET y == [e EXCEPT !.to = x]
           IN y.present = e.present /\ y.huge = e.huge /\ y.flags = e.flags /\ y.to = x
  BY DEF PageEntries

LEMMA EntryTyped ==
    ASSUME NEW m0, NEW n, Memory(m0, n), NEW f, NEW i
    PROVE  EntryOf(m0, f, i) \in PageEntries
  BY Sizes DEF Memory, EntryOf

LEMMA Absent == ~NoEntry.present /\ \A f : PresentReadWrite(f).present /\ ~PresentReadWrite(f).huge
                                            /\ PresentReadWrite(f).to = f
  BY DEF NoEntry, PresentReadWrite

LEMMA MarksIs ==
    ASSUME NEW N \in Nat, NEW lo \in Nat, NEW hi \in Nat, NEW a \in FrameMarks(N, lo, hi)
    PROVE  /\ \A i \in 0 .. N - 1 : /\ a[i] \in Nat /\ a[i + 1] \in Nat /\ lo <= a[i]
                                    /\ a[i + 1] <= hi /\ a[i] <= a[i + 1]
           /\ \A i, j \in 0 .. N - 1 : i < j => a[i + 1] <= a[j]
  <1>1. 0 \in 0 .. N /\ N \in 0 .. N OBVIOUS
  <1>2. ASSUME NEW i \in 0 .. N - 1
        PROVE  /\ a[i] \in Nat /\ a[i + 1] \in Nat /\ lo <= a[i]
               /\ a[i + 1] <= hi /\ a[i] <= a[i + 1]
    <2>1. i \in 0 .. N /\ i + 1 \in 0 .. N /\ 0 <= i /\ i <= i + 1 /\ i + 1 <= N OBVIOUS
    <2> QED BY <1>1, <2>1 DEF FrameMarks
  <1>3. ASSUME NEW i \in 0 .. N - 1, NEW j \in 0 .. N - 1, i < j PROVE a[i + 1] <= a[j]
    <2>1. i + 1 \in 0 .. N /\ j \in 0 .. N /\ i + 1 <= j BY <1>3
    <2> QED BY <2>1 DEF FrameMarks
  <1> QED BY <1>2, <1>3

\* The state in which the copying starts.
Begun(m0, n, s) ==
    LET st == [Memset(Taken(s), 1) EXCEPT !.root = 1]
    IN  /\ Frame(s) = IF n = 0 THEN 0 ELSE 1
        /\ n # 0 => /\ st \in RootWorks(m0, n) /\ NextFree(n, st) = 2 /\ ~st.panic
                    /\ st.mem[1] = BlankRow
                    /\ \A f \in DOMAIN m0 : f # 1 => st.mem[f] = m0[f]
LEMMA Beginning ==
    ASSUME NEW m0, NEW n, Memory(m0, n), NEW s,
           s = [mem |-> m0, free |-> InOrder(1, n), root |-> 0, panic |-> FALSE]
    PROVE  Begun(m0, n, s)
  <1> DEFINE t == Taken(s)
             c == Memset(t, 1)
             st == [c EXCEPT !.root = 1]
  <1>1. n \in Nat /\ 1 \in 1 .. n + 1 BY DEF Memory
  <1>2. s.mem = m0 /\ s.free = InOrder(1, n) /\ s.root = 0 /\ s.panic = FALSE OBVIOUS
  <1>3. s \in Works(m0, n) BY <1>1, <1>2 DEF Works, Memory
  <1>4. NextFree(n, s) = 1
    <2>1. Len(s.free) = n + 1 - 1 BY <1>1, <1>2, FreeFrameList
    <2> QED BY <1>1, <2>1 DEF NextFree
  <1>5. /\ Frame(s) = (IF 1 <= n THEN 1 ELSE 0) /\ t \in Works(m0, n)
        /\ NextFree(n, t) = (IF 1 <= n THEN 2 ELSE 1) /\ t.mem = m0 /\ t.panic = FALSE
    BY <1>2, <1>3, <1>4, Allocating
  <1>6. ASSUME n # 0
        PROVE  /\ st \in RootWorks(m0, n) /\ NextFree(n, st) = 2 /\ ~st.panic
               /\ st.mem[1] = BlankRow
               /\ \A f \in DOMAIN m0 : f # 1 => st.mem[f] = m0[f]
    <2>1. 1 \in 0 .. n /\ 1 <= n BY <1>1, <1>6
    <2> HIDE DEF t
    <2>2. /\ c \in Works(m0, n) /\ c.free = t.free /\ c.panic = t.panic
          /\ c.mem[1] = BlankRow /\ \A f \in DOMAIN m0 : f # 1 => c.mem[f] = t.mem[f]
      BY <1>5, <2>1, Clearing
    <2> HIDE DEF c
    <2>3. st = [mem |-> c.mem, free |-> c.free, root |-> 1, panic |-> c.panic] BY <2>2 DEF Works
    <2>4. st.mem = c.mem /\ st.free = c.free /\ st.root = 1 /\ st.panic = FALSE BY <1>5, <2>2, <2>3
    <2>5. st \in Works(m0, n)
      <3>1. /\ c.mem \in [DOMAIN m0 -> [Slots -> PageEntries]]
            /\ c.free \in {InOrder(k, n) : k \in 1 .. n + 1}
            /\ \A f \in DOMAIN m0 \ (0 .. n) : c.mem[f] = m0[f]
        BY <2>2 DEF Works
      <3> HIDE DEF st
      <3> QED BY <2>1, <2>3, <2>4, <3>1, <1>5, <2>2 DEF Works
    <2>6. NextFree(n, st) = 2 BY <1>5, <2>1, <2>2, <2>4 DEF NextFree
    <2> HIDE DEF st
    <2>7. AtRoot(n, st) BY <2>4, <2>6 DEF AtRoot
    <2> QED BY <1>5, <2>2, <2>4, <2>5, <2>6, <2>7 DEF RootWorks
  <1>7. Frame(s) = IF n = 0 THEN 0 ELSE 1 BY <1>1, <1>5
  <1> QED BY <1>6, <1>7 DEF Begun

LEMMA InitializeIs ==
    ASSUME NEW m0, NEW n, Memory(m0, n), NEW cr3, SourcePML4(m0, n, cr3),
           NEW q \in KernelSlots, ~EntryOf(m0, cr3, q).present,
           NEW r, r = PagingInitialize(m0, cr3, InOrder(1, n)), ~r.panic
    PROVE  /\ r \in Works(m0, n) /\ r.root = 1 /\ 1 <= n
           /\ \E lo, hi \in [Slots -> Nat] : Built(m0, n, cr3, r.mem, lo, hi)
  <1> DEFINE s == [mem |-> m0, free |-> InOrder(1, n), root |-> 0, panic |-> FALSE]
             st == [Memset(Taken(s), 1) EXCEPT !.root = 1]
             c == CopyExistingPageTableToNew(cr3, st)
             half == PML4Size \div 2
             E(i) == EntryOf(m0, cr3, i)
  <1>1. /\ Frame(s) = IF n = 0 THEN 0 ELSE 1
        /\ n # 0 => /\ st \in RootWorks(m0, n) /\ NextFree(n, st) = 2 /\ ~st.panic
                    /\ st.mem[1] = BlankRow
                    /\ \A f \in DOMAIN m0 : f # 1 => st.mem[f] = m0[f]
    <2>1. s = [mem |-> m0, free |-> InOrder(1, n), root |-> 0, panic |-> FALSE] OBVIOUS
    <2> HIDE DEF s
    <2>2. Begun(m0, n, s) BY <2>1, Beginning
    <2> QED BY <2>2 DEF Begun
  <1>2. r = IF Frame(s) = 0 THEN [s EXCEPT !.panic = TRUE]
            ELSE ReserveHigherHalfPML4Slots(
                   CopyExistingPageTableToNew(cr3, [Memset(Taken(s), Frame(s)) EXCEPT !.root = Frame(s)]))
    BY DEF PagingInitialize
  <1>3. n # 0
    <2> SUFFICES ASSUME n = 0 PROVE FALSE OBVIOUS
    <2>1. r = [s EXCEPT !.panic = TRUE] BY <1>1, <1>2
    <2> QED BY <2>1
  <1>4. n \in Nat /\ 1 <= n /\ 0 .. n \subseteq DOMAIN m0 BY <1>3 DEF Memory
  <1>5. r = ReserveHigherHalfPML4Slots(c) BY <1>1, <1>2, <1>3
  <1> HIDE DEF s, st
  <1>6. /\ c \in RootWorks(m0, n) /\ Grows(m0, n, st, c, 1)
        /\ ~c.panic => \E a : CopiedPML4(m0, n, cr3, st, c, a)
    BY <1>1, <1>3, CopyPML4Is
  <1> HIDE DEF c
  <1>7. /\ r \in RootWorks(m0, n) /\ Grows(m0, n, c, r, 1) /\ \E d : ReservedPML4(n, c, r, d)
    BY <1>4, <1>5, <1>6, ReserveIs
  <1>8. ~c.panic BY <1>7 DEF Grows
  <1>9. PICK a : CopiedPML4(m0, n, cr3, st, c, a) BY <1>6, <1>8
  <1>10. PICK d : ReservedPML4(n, c, r, d) BY <1>7
  <1>11. /\ half \in Nat /\ PML4Size = half + half /\ Slots = 0 .. half + half - 1
         /\ KernelSlots = half .. half + half - 1 /\ 1 <= half
    BY Halves
  <1> DEFINE k == NextFree(n, c)
             z == NextFree(n, r)
  <1>12. c \in Works(m0, n) /\ AtRoot(n, c) /\ r \in Works(m0, n) /\ AtRoot(n, r)
    BY <1>6, <1>7 DEF RootWorks
  <1>13. k \in 1 .. n + 1 /\ z \in 1 .. n + 1 /\ k <= z BY <1>7, <1>12, NextFreeIs DEF Grows
  <1>14. a \in FrameMarks(PML4Size, 2, k) /\ d \in FrameMarks(half, k, z)
    BY <1>1, <1>3, <1>9, <1>10 DEF CopiedPML4, ReservedPML4
  <1>15. /\ \A i \in Slots : /\ a[i] \in Nat /\ a[i + 1] \in Nat /\ 2 <= a[i]
                             /\ a[i + 1] <= k /\ a[i] <= a[i + 1]
         /\ \A i, j \in Slots : i < j => a[i + 1] <= a[j]
    <2>1. PML4Size \in Nat /\ k \in Nat /\ 2 \in Nat /\ Slots = 0 .. PML4Size - 1
      BY <1>11, <1>13 DEF Slots
    <2> HIDE DEF k
    <2> QED BY <1>14, <2>1, MarksIs
  <1>16. /\ \A i \in 0 .. half - 1 : /\ d[i] \in Nat /\ d[i + 1] \in Nat /\ k <= d[i]
                                     /\ d[i + 1] <= z /\ d[i] <= d[i + 1]
         /\ \A i, j \in 0 .. half - 1 : i < j => d[i + 1] <= d[j]
    <2>1. half \in Nat /\ k \in Nat /\ z \in Nat BY <1>11, <1>13
    <2> HIDE DEF k, z, half
    <2> QED BY <1>14, <2>1, MarksIs
  <1>17. \A i \in Slots :
           /\ E(i) \in PageEntries
           /\ c.mem[1][i] = IF E(i).present THEN [E(i) EXCEPT !.to = a[i]] ELSE NoEntry
           /\ c.mem[1][i].present <=> E(i).present
           /\ E(i).present =>
                /\ a[i] < a[i + 1]
                /\ k <= n => CopiedPDP(m0, c.mem, E(i).to, a[i], st.mem[a[i]], a[i] + 1, a[i + 1])
    <2> TAKE i \in Slots
    <2>1. E(i) \in PageEntries BY EntryTyped
    <2>2. st.mem[1][i] = NoEntry BY <1>1, <1>3 DEF BlankRow
    <2> HIDE DEF E
    <2>3. /\ c.mem[1][i] = IF E(i).present THEN [E(i) EXCEPT !.to = a[i]] ELSE st.mem[1][i]
          /\ E(i).present =>
               /\ a[i] < a[i + 1]
               /\ k <= n => CopiedPDP(m0, c.mem, E(i).to, a[i], st.mem[a[i]], a[i] + 1, a[i + 1])
      BY <1>9 DEF CopiedPML4, E
    <2>4. c.mem[1][i].present <=> E(i).present
      <3>1. CASE E(i).present BY <2>1, <2>3, <3>1, Redirect
      <3>2. CASE ~E(i).present BY <2>2, <2>3, <3>2, Absent
      <3> QED BY <3>1, <3>2
    <2> QED BY <2>1, <2>2, <2>3, <2>4
  <1>18. \A j \in Slots :
           IF j \in KernelSlots /\ ~E(j).present
           THEN /\ r.mem[1][j] = PresentReadWrite(d[j - half])
                /\ d[j - half] <= n /\ d[j - half] < d[j - half + 1]
                /\ r.mem[d[j - half]] = BlankRow
           ELSE r.mem[1][j] = c.mem[1][j]
    BY <1>10, <1>17 DEF ReservedPML4
  <1>19. k <= n
    <2>1. q \in Slots /\ q - half \in 0 .. half - 1 BY <1>11
    <2>2. d[q - half] <= n BY <1>18, <2>1
    <2>3. d[q - half] \in Nat /\ k <= d[q - half] BY <1>16, <2>1
    <2> HIDE DEF k
    <2> QED BY <1>4, <1>13, <2>2, <2>3
  <1>20. \A f \in 2 .. k - 1 : r.mem[f] = c.mem[f]
    <2> TAKE f \in 2 .. k - 1
    <2>1. f \in 0 .. n /\ f \notin {0, 1} /\ f \notin k .. z - 1
      <3> HIDE DEF k, z
      <3> QED BY <1>4, <1>13, <1>19
    <2> QED BY <1>4, <1>7, <2>1 DEF Grows
  <1> DEFINE lo == [i \in Slots |-> IF ~E(i).present /\ i \in KernelSlots THEN d[i - half] ELSE a[i]]
             hi == [i \in Slots |-> IF ~E(i).present /\ i \in KernelSlots THEN d[i - half + 1] ELSE a[i + 1]]
  <1> HIDE DEF k, z, half, E
  <1>21. \A i \in KernelSlots : i \in Slots /\ i - half \in 0 .. half - 1 /\ i - half + 1 = (i - half) + 1
    BY <1>11
  <1>22. lo \in [Slots -> Nat] /\ hi \in [Slots -> Nat] BY <1>15, <1>16, <1>21
  <1>23. \A i \in Slots :
           /\ ~E(i).present /\ i \in KernelSlots => lo[i] = d[i - half] /\ hi[i] = d[i - half + 1]
           /\ E(i).present \/ i \notin KernelSlots => lo[i] = a[i] /\ hi[i] = a[i + 1]
    OBVIOUS
  <1> HIDE DEF lo, hi
  <1>24. ASSUME NEW i \in Slots
         PROVE  /\ E(i).present => /\ r.mem[1][i] = [E(i) EXCEPT !.to = lo[i]]
                                   /\ CopiedPDP(m0, r.mem, E(i).to, lo[i], m0[lo[i]], lo[i] + 1, hi[i])
                                   /\ 2 <= lo[i] /\ lo[i] < hi[i] /\ hi[i] <= k
                /\ ~E(i).present /\ i \in KernelSlots =>
                     /\ r.mem[1][i] = PresentReadWrite(lo[i]) /\ r.mem[lo[i]] = BlankRow
                     /\ k <= lo[i] /\ lo[i] < hi[i] /\ hi[i] <= z
                /\ ~E(i).present /\ i \notin KernelSlots => r.mem[1][i] = NoEntry
    <2>1. CASE E(i).present
      <3>1. lo[i] = a[i] /\ hi[i] = a[i + 1] BY <1>23, <2>1
      <3>2. r.mem[1][i] = [E(i) EXCEPT !.to = a[i]] BY <1>17, <1>18, <2>1
      <3>3. a[i] \in Nat /\ a[i + 1] \in Nat /\ 2 <= a[i] /\ a[i + 1] <= k /\ a[i] < a[i + 1]
        BY <1>15, <1>17, <2>1
      <3>4. CopiedPDP(m0, c.mem, E(i).to, a[i], st.mem[a[i]], a[i] + 1, a[i + 1])
        BY <1>17, <1>19, <2>1
      <3>5. a[i] \in DOMAIN m0 /\ a[i] # 1
        <4>1. a[i] \in 0 .. n /\ a[i] # 1 BY <1>4, <1>13, <1>19, <3>3
        <4> QED BY <1>4, <4>1
      <3>6. st.mem[a[i]] = m0[a[i]] BY <1>1, <1>3, <3>5
      <3>7. \A f \in a[i] .. a[i + 1] - 1 : f \in 2 .. k - 1 BY <1>13, <3>3
      <3>8. \A f \in a[i] .. a[i + 1] - 1 : r.mem[f] = c.mem[f] BY <1>20, <3>7
      <3>9. CopiedPDP(m0, r.mem, E(i).to, a[i], m0[a[i]], a[i] + 1, a[i + 1])
        BY <3>3, <3>4, <3>6, <3>8, CopiedPDPSame
      <3> QED BY <2>1, <3>1, <3>2, <3>3, <3>9
    <2>2. CASE ~E(i).present /\ i \in KernelSlots
      <3>1. lo[i] = d[i - half] /\ hi[i] = d[i - half + 1] BY <1>23, <2>2
      <3> QED BY <1>16, <1>18, <1>21, <2>2, <3>1
    <2>3. CASE ~E(i).present /\ i \notin KernelSlots BY <1>17, <1>18, <2>3
    <2> QED BY <2>1, <2>2, <2>3
  <1>25. \A i \in Slots : r.mem[1][i].present => E(i).present \/ i \in KernelSlots BY <1>24, Absent
  <1>26. ASSUME NEW i \in Slots, r.mem[1][i].present PROVE 2 <= lo[i] /\ lo[i] < hi[i] /\ hi[i] <= n + 1
    <2>1. 2 <= k BY <1>12, <1>13 DEF AtRoot, k
    <2>2. lo[i] \in Nat /\ hi[i] \in Nat BY <1>22
    <2>3. \/ 2 <= lo[i] /\ lo[i] < hi[i] /\ hi[i] <= k
          \/ k <= lo[i] /\ lo[i] < hi[i] /\ hi[i] <= z
      BY <1>24, <1>25, <1>26
    <2> QED BY <1>4, <1>13, <2>1, <2>2, <2>3
  <1>27. ASSUME NEW i \in Slots, NEW j \in Slots, i # j, r.mem[1][i].present, r.mem[1][j].present
         PROVE  hi[i] <= lo[j] \/ hi[j] <= lo[i]
    <2>1. (E(i).present \/ i \in KernelSlots) /\ (E(j).present \/ j \in KernelSlots) BY <1>25, <1>27
    <2>2. i \in Int /\ j \in Int /\ lo[i] \in Int /\ lo[j] \in Int /\ hi[i] \in Int /\ hi[j] \in Int
      BY <1>11, <1>22
    <2>3. i < j \/ j < i BY <1>27, <2>2
    <2>4. CASE E(i).present /\ E(j).present
      <3>1. lo[i] = a[i] /\ hi[i] = a[i + 1] /\ lo[j] = a[j] /\ hi[j] = a[j + 1] BY <1>23, <2>4
      <3> QED BY <1>15, <2>3, <3>1
    <2>5. CASE E(i).present /\ ~E(j).present
      <3>1. hi[i] <= k /\ k <= lo[j] BY <1>24, <2>1, <2>5
      <3> QED BY <1>13, <2>2, <3>1
    <2>6. CASE ~E(i).present /\ E(j).present
      <3>1. hi[j] <= k /\ k <= lo[i] BY <1>24, <2>1, <2>6
      <3> QED BY <1>13, <2>2, <3>1
    <2>7. CASE ~E(i).present /\ ~E(j).present
      <3>1. /\ lo[i] = d[i - half] /\ hi[i] = d[i - half + 1]
            /\ lo[j] = d[j - half] /\ hi[j] = d[j - half + 1]
            /\ i - half \in 0 .. half - 1 /\ j - half \in 0 .. half - 1
        BY <1>21, <1>23, <2>1, <2>7
      <3>2. i - half < j - half \/ j - half < i - half BY <1>11, <2>2, <2>3
      <3> QED BY <1>16, <3>1, <3>2
    <2> QED BY <2>4, <2>5, <2>6, <2>7
  <1>28. Built(m0, n, cr3, r.mem, lo, hi) BY <1>24, <1>26, <1>27 DEF Built, E
  <1>29. r.root = 1 BY <1>12 DEF AtRoot
  <1> QED BY <1>4, <1>12, <1>22, <1>28, <1>29

(***************************************************************************)
(* Every table is a frame of its own: the links in L that lead to tables   *)
(* lead to different ones, in lo .. hi - 1.                                *)
(***************************************************************************)
Leads(m, l) == Linked(EntryOf(m, l[1], l[2]))
To(m, l) == EntryOf(m, l[1], l[2]).to
Owns(m, L, lo, hi) ==
    \A l \in L : Leads(m, l) =>
        /\ To(m, l) \in lo .. hi - 1
        /\ \A k \in L : Leads(m, k) /\ To(m, k) = To(m, l) => k = l

\* What the links of a table own with those below them, which are in L.
Apart(m, f, K, lo, hi, L, a, b) ==
    /\ \A i \in K : Leads(m, <<f, i>>) =>
         /\ To(m, <<f, i>>) = lo[i] /\ lo[i] \in Int /\ hi[i] \in Int
         /\ lo[i] < hi[i] /\ a <= lo[i] /\ hi[i] <= b /\ Owns(m, L[i], lo[i] + 1, hi[i])
    /\ \A i, j \in K : i # j /\ Leads(m, <<f, i>>) /\ Leads(m, <<f, j>>) =>
         hi[i] <= lo[j] \/ hi[j] <= lo[i]
Own(f, K) == {<<f, i>> : i \in K}
Inner(m, f, K, L) == UNION {L[i] : i \in {j \in K : Leads(m, <<f, j>>)}}

LEMMA Nested ==
    ASSUME NEW m, NEW f, NEW K, NEW lo, NEW hi, NEW L, NEW a \in Int, NEW b \in Int,
           Apart(m, f, K, lo, hi, L, a, b)
    PROVE  Owns(m, Own(f, K) \cup Inner(m, f, K, L), a, b)
  <1> DEFINE S == Own(f, K) \cup Inner(m, f, K, L)
             Holds(l, i) == /\ i \in K /\ Leads(m, <<f, i>>) /\ To(m, l) \in lo[i] .. hi[i] - 1
                         /\ \/ l = <<f, i>> /\ To(m, l) = lo[i]
                            \/ l \in L[i] /\ To(m, l) # lo[i]
  <1>1. ASSUME NEW l \in S, Leads(m, l) PROVE \E i : Holds(l, i)
    <2>1. CASE l \in Own(f, K)
      <3>1. PICK i \in K : l = <<f, i>> BY <2>1 DEF Own
      <3>2. /\ To(m, l) = lo[i] /\ lo[i] \in Int /\ hi[i] \in Int /\ lo[i] < hi[i]
        BY <1>1, <3>1 DEF Apart
      <3>3. To(m, l) \in lo[i] .. hi[i] - 1 BY <3>2
      <3> QED BY <1>1, <3>1, <3>2, <3>3
    <2>2. CASE l \in Inner(m, f, K, L)
      <3>1. PICK i \in K : Leads(m, <<f, i>>) /\ l \in L[i] BY <2>2 DEF Inner
      <3>2. lo[i] \in Int /\ hi[i] \in Int /\ Owns(m, L[i], lo[i] + 1, hi[i]) BY <3>1 DEF Apart
      <3>3. To(m, l) \in lo[i] + 1 .. hi[i] - 1 BY <1>1, <3>1, <3>2 DEF Owns
      <3>4. To(m, l) \in lo[i] .. hi[i] - 1 /\ To(m, l) # lo[i] BY <3>2, <3>3
      <3> QED BY <3>1, <3>4
    <2> QED BY <1>1, <2>1, <2>2
  <1>2. ASSUME NEW l \in S, Leads(m, l) PROVE To(m, l) \in a .. b - 1
    <2>1. PICK i : Holds(l, i) BY <1>1, <1>2
    <2>2. lo[i] \in Int /\ hi[i] \in Int /\ a <= lo[i] /\ hi[i] <= b BY <2>1 DEF Apart
    <2> QED BY <2>1, <2>2
  <1>3. ASSUME NEW l \in S, NEW k \in S, Leads(m, l), Leads(m, k), To(m, k) = To(m, l) PROVE k = l
    <2>1. PICK i : Holds(l, i) BY <1>1, <1>3
    <2>2. PICK j : Holds(k, j) BY <1>1, <1>3
    <2>3. lo[i] \in Int /\ hi[i] \in Int /\ lo[j] \in Int /\ hi[j] \in Int BY <2>1, <2>2 DEF Apart
    <2>4. i = j
      <3> SUFFICES ASSUME i # j PROVE FALSE OBVIOUS
      <3>1. hi[i] <= lo[j] \/ hi[j] <= lo[i] BY <2>1, <2>2 DEF Apart
      <3>2. To(m, l) \in lo[i] .. hi[i] - 1 /\ To(m, l) \in lo[j] .. hi[j] - 1 BY <1>3, <2>1, <2>2
      <3> QED BY <2>3, <3>1, <3>2
    <2>5. CASE l = <<f, i>> /\ To(m, l) = lo[i] BY <1>3, <2>2, <2>4, <2>5
    <2>6. CASE l \in L[i] /\ To(m, l) # lo[i]
      <3>1. k \in L[i] BY <1>3, <2>2, <2>4, <2>6
      <3>2. Owns(m, L[i], lo[i] + 1, hi[i]) BY <2>1 DEF Apart
      <3> QED BY <1>3, <2>6, <3>1, <3>2 DEF Owns
    <2> QED BY <2>1, <2>5, <2>6
  <1> QED BY <1>2, <1>3 DEF Owns

Memories(m0) == [DOMAIN m0 -> [Slots -> PageEntries]]

LEMMA CellOf ==
    ASSUME NEW m0, NEW n, Memory(m0, n), NEW m \in Memories(m0), NEW f \in 0 .. n, NEW i \in Slots
    PROVE  EntryOf(m, f, i) = m[f][i] /\ m[f][i] \in PageEntries
  BY DEF Memory, Memories, EntryOf

\* A copied row: what an entry that was present, or is now, leads to.
EntryCopied(m0, m, src, dst, a, i) ==
    LET e == EntryOf(m0, src, i)
        y == EntryOf(m, dst, i)
    IN  /\ y.present = e.present
        /\ Leads(m, <<dst, i>>) => /\ Linked(e) /\ To(m, <<dst, i>>) = a[i] /\ a[i] < a[i + 1]
        /\ Linked(e) => /\ ~y.huge /\ y.to = a[i] /\ y.flags = e.flags
        /\ e.present /\ e.huge => y = e

LEMMA RowLeads ==
    ASSUME NEW m0, NEW n, Memory(m0, n), NEW m \in Memories(m0), NEW src, NEW dst \in 0 .. n,
           NEW old, NEW a, CopiedRow(m0, m, src, dst, old, a), NEW i \in Index,
           \/ EntryOf(m0, src, i).present
           \/ ~old[i].present
    PROVE  EntryCopied(m0, m, src, dst, a, i)
  <1> DEFINE e == EntryOf(m0, src, i)
             y == EntryOf(m, dst, i)
  <1>1. i \in Slots BY Sizes
  <1>2. y = m[dst][i] /\ y \in PageEntries BY <1>1, CellOf
  <1>3. e \in PageEntries BY EntryTyped
  <1>4. /\ m[dst][i] = IF ~e.present THEN old[i] ELSE IF e.huge THEN e ELSE [e EXCEPT !.to = a[i]]
        /\ Linked(e) => a[i] < a[i + 1]
    BY DEF CopiedRow
  <1>5. e.present \/ ~old[i].present OBVIOUS
  <1>6. Leads(m, <<dst, i>>) = Linked(y) /\ To(m, <<dst, i>>) = y.to BY DEF Leads, To
  <1> HIDE DEF e, y
  <1>7. CASE ~e.present
    <2>1. ~y.present BY <1>2, <1>4, <1>5, <1>7
    <2>2. y.present \in BOOLEAN /\ e.present \in BOOLEAN BY <1>2, <1>3 DEF PageEntries
    <2> QED BY <1>6, <1>7, <2>1, <2>2 DEF EntryCopied, Linked, e, y
  <1>8. CASE e.present /\ e.huge
    <2>1. y = e BY <1>2, <1>4, <1>8
    <2> QED BY <1>6, <1>8, <2>1 DEF EntryCopied, Linked, e, y
  <1>9. CASE e.present /\ ~e.huge
    <2>1. y = [e EXCEPT !.to = a[i]] BY <1>2, <1>4, <1>9
    <2>2. y.present = e.present /\ y.huge = e.huge /\ y.flags = e.flags /\ y.to = a[i]
      BY <1>3, <2>1, Redirect
    <2> QED BY <1>4, <1>6, <1>9, <2>2 DEF EntryCopied, Linked, e, y
  <1> QED BY <1>7, <1>8, <1>9

LEMMA IndexIs == TableSize \in Nat /\ Index = 0 .. TableSize - 1
  BY PagingInitAssumption DEF Index

LEMMA BlankIs == \A i \in Index : ~BlankRow[i].present
  BY Sizes, Absent DEF BlankRow

LEMMA PDOwns ==
    ASSUME NEW m0, NEW n, Memory(m0, n), NEW m \in Memories(m0), NEW src, NEW dst \in 0 .. n,
           NEW lo \in Nat, NEW hi \in Nat, CopiedPD(m0, m, src, dst, BlankRow, lo, hi)
    PROVE  Owns(m, Own(dst, Index), lo, hi)
  <1>1. PICK a \in FrameMarks(TableSize, lo, hi) : CopiedRow(m0, m, src, dst, BlankRow, a) BY DEF CopiedPD
  <1>2. /\ \A i \in Index : /\ a[i] \in Nat /\ a[i + 1] \in Nat /\ lo <= a[i]
                            /\ a[i + 1] <= hi /\ a[i] <= a[i + 1]
        /\ \A i, j \in Index : i < j => a[i + 1] <= a[j]
    BY IndexIs, MarksIs
  <1> DEFINE ub == [i \in Index |-> a[i + 1]]
             L == [i \in Index |-> {}]
  <1>3. \A i \in Index : Leads(m, <<dst, i>>) => To(m, <<dst, i>>) = a[i] /\ a[i] < a[i + 1]
    <2> TAKE i \in Index
    <2>1. EntryOf(m0, src, i).present \/ ~BlankRow[i].present BY BlankIs
    <2>2. EntryCopied(m0, m, src, dst, a, i) BY <1>1, <2>1, RowLeads
    <2> QED BY <2>2 DEF EntryCopied
  <1>4. \A i \in Index : ub[i] = a[i + 1] /\ L[i] = {} OBVIOUS
  <1> HIDE DEF ub, L
  <1>5. Apart(m, dst, Index, a, ub, L, lo, hi)
    <2>1. \A i, j \in Index : i # j => i < j \/ j < i BY IndexIs
    <2>2. \A i, j \in Index : i # j => ub[i] <= a[j] \/ ub[j] <= a[i] BY <1>2, <1>4, <2>1
    <2>3. \A i \in Index : Owns(m, L[i], a[i] + 1, ub[i]) BY <1>4 DEF Owns
    <2>4. \A i \in Index : Leads(m, <<dst, i>>) =>
            /\ To(m, <<dst, i>>) = a[i] /\ a[i] \in Int /\ ub[i] \in Int
            /\ a[i] < ub[i] /\ lo <= a[i] /\ ub[i] <= hi
      BY <1>2, <1>3, <1>4
    <2> QED BY <2>2, <2>3, <2>4 DEF Apart
  <1>6. Owns(m, Own(dst, Index) \cup Inner(m, dst, Index, L), lo, hi) BY <1>5, Nested
  <1>7. Inner(m, dst, Index, L) = {} BY <1>4 DEF Inner
  <1> QED BY <1>6, <1>7

\* The entries of the new PDP that were copied, and those of the PDs below.
Filled(m0, src) == {i \in Index : EntryOf(m0, src, i).present}
Under(m, dst) == [i \in Index |-> Own(To(m, <<dst, i>>), Index)]

LEMMA PDPOwns ==
    ASSUME NEW m0, NEW n, Memory(m0, n), NEW m \in Memories(m0), NEW src, NEW dst \in 0 .. n,
           NEW old, NEW lo \in Nat, NEW hi \in Nat, hi <= n + 1,
           CopiedPDP(m0, m, src, dst, old, lo, hi)
    PROVE  LET K == Filled(m0, src)
           IN Owns(m, Own(dst, K) \cup Inner(m, dst, K, Under(m, dst)), lo, hi)
  <1> DEFINE K == Filled(m0, src)
             L == Under(m, dst)
  <1>1. PICK a \in FrameMarks(TableSize, lo, hi) :
          /\ CopiedRow(m0, m, src, dst, old, a)
          /\ \A i \in Index :
               LET e == EntryOf(m0, src, i)
               IN Linked(e) => CopiedPD(m0, m, e.to, a[i], BlankRow, a[i] + 1, a[i + 1])
    BY DEF CopiedPDP
  <1>2. /\ \A i \in Index : /\ a[i] \in Nat /\ a[i + 1] \in Nat /\ lo <= a[i]
                            /\ a[i + 1] <= hi /\ a[i] <= a[i + 1]
        /\ \A i, j \in Index : i < j => a[i + 1] <= a[j]
    BY IndexIs, MarksIs
  <1> DEFINE ub == [i \in Index |-> a[i + 1]]
  <1>3. \A i \in K : i \in Index /\ EntryOf(m0, src, i).present BY DEF Filled
  <1>4. \A i \in K : Leads(m, <<dst, i>>) =>
          /\ Linked(EntryOf(m0, src, i)) /\ To(m, <<dst, i>>) = a[i] /\ a[i] < a[i + 1]
    <2> TAKE i \in K
    <2> QED BY <1>1, <1>3, RowLeads DEF EntryCopied
  <1>5. \A i \in Index : ub[i] = a[i + 1] OBVIOUS
  <1> HIDE DEF ub, L, K
  <1>6. ASSUME NEW i \in K, Leads(m, <<dst, i>>) PROVE Owns(m, L[i], a[i] + 1, ub[i])
    <2>1. /\ i \in Index /\ CopiedPD(m0, m, EntryOf(m0, src, i).to, a[i], BlankRow, a[i] + 1, a[i + 1])
          /\ a[i] < a[i + 1] /\ To(m, <<dst, i>>) = a[i]
      BY <1>1, <1>3, <1>4, <1>6
    <2>2. a[i] \in 0 .. n /\ a[i] + 1 \in Nat /\ a[i + 1] \in Nat
      <3>1. n \in Nat BY DEF Memory
      <3> QED BY <1>2, <2>1, <3>1
    <2>3. Owns(m, Own(a[i], Index), a[i] + 1, a[i + 1]) BY <2>1, <2>2, PDOwns
    <2>4. L[i] = Own(a[i], Index) BY <2>1 DEF L, Under
    <2> QED BY <1>5, <2>1, <2>3, <2>4
  <1>7. Apart(m, dst, K, a, ub, L, lo, hi)
    <2>1. \A i, j \in K : i # j => i < j \/ j < i BY <1>3, IndexIs
    <2>2. \A i, j \in K : i # j => ub[i] <= a[j] \/ ub[j] <= a[i] BY <1>2, <1>3, <1>5, <2>1
    <2>3. \A i \in K : Leads(m, <<dst, i>>) =>
            /\ To(m, <<dst, i>>) = a[i] /\ a[i] \in Int /\ ub[i] \in Int
            /\ a[i] < ub[i] /\ lo <= a[i] /\ ub[i] <= hi
      BY <1>2, <1>3, <1>4, <1>5
    <2> QED BY <1>6, <2>2, <2>3 DEF Apart
  <1>8. Owns(m, Own(dst, K) \cup Inner(m, dst, K, L), lo, hi) BY <1>7, Nested
  <1> QED BY <1>8 DEF K, L

\* All links of the new tables: each slot's, and those below it.
SlotKeys(m0, cr3, i) == IF EntryOf(m0, cr3, i).present THEN Filled(m0, EntryOf(m0, cr3, i).to) ELSE Index
SlotLinks(m0, cr3, m) ==
    [i \in Slots |-> LET f == To(m, <<1, i>>)
                         K == SlotKeys(m0, cr3, i)
                     IN Own(f, K) \cup Inner(m, f, K, Under(m, f))]

LEMMA RootOwns ==
    ASSUME NEW m0, NEW n, Memory(m0, n), 1 <= n, NEW m \in Memories(m0), NEW cr3,
           NEW lo \in [Slots -> Nat], NEW hi \in [Slots -> Nat], Built(m0, n, cr3, m, lo, hi)
    PROVE  Owns(m, Own(1, Slots) \cup Inner(m, 1, Slots, SlotLinks(m0, cr3, m)), 2, n + 1)
  <1> DEFINE L == SlotLinks(m0, cr3, m)
             E(i) == EntryOf(m0, cr3, i)
  <1>1. n \in Nat /\ 1 \in 0 .. n BY DEF Memory
  <1>2. \A i \in Slots : /\ EntryOf(m, 1, i) = m[1][i] /\ m[1][i] \in PageEntries
                         /\ E(i) \in PageEntries
    BY <1>1, CellOf, EntryTyped
  <1>3. \A i \in Slots : Leads(m, <<1, i>>) =>
          /\ m[1][i].present /\ To(m, <<1, i>>) = lo[i] /\ lo[i] \in Int /\ hi[i] \in Int
          /\ lo[i] < hi[i] /\ 2 <= lo[i] /\ hi[i] <= n + 1
    <2> TAKE i \in Slots
    <2> SUFFICES ASSUME Leads(m, <<1, i>>)
                 PROVE  /\ m[1][i].present /\ To(m, <<1, i>>) = lo[i] /\ lo[i] \in Int /\ hi[i] \in Int
                        /\ lo[i] < hi[i] /\ 2 <= lo[i] /\ hi[i] <= n + 1
      OBVIOUS
    <2>1. m[1][i].present /\ To(m, <<1, i>>) = m[1][i].to BY <1>2 DEF Leads, To, Linked
    <2>2. m[1][i].to = lo[i]
      <3>1. CASE E(i).present
        <4>1. m[1][i] = [E(i) EXCEPT !.to = lo[i]] BY <3>1 DEF Built
        <4> HIDE DEF E
        <4> QED BY <1>2, <4>1, Redirect
      <3>2. CASE ~E(i).present
        <4>1. i \in KernelSlots BY <2>1, <3>2, Absent DEF Built
        <4>2. m[1][i] = PresentReadWrite(lo[i]) BY <3>2, <4>1 DEF Built
        <4> QED BY <4>2, Absent
      <3> QED BY <3>1, <3>2
    <2>3. 2 <= lo[i] /\ lo[i] < hi[i] /\ hi[i] <= n + 1 BY <2>1 DEF Built
    <2> QED BY <2>1, <2>2, <2>3
  <1>4. ASSUME NEW i \in Slots, Leads(m, <<1, i>>) PROVE Owns(m, L[i], lo[i] + 1, hi[i])
    <2> DEFINE f == lo[i]
               K == SlotKeys(m0, cr3, i)
    <2>1. To(m, <<1, i>>) = f BY <1>3, <1>4
    <2>2. L[i] = Own(f, K) \cup Inner(m, f, K, Under(m, f)) BY <2>1 DEF SlotLinks
    <2>3. f \in Nat /\ f \in 0 .. n /\ hi[i] \in Nat /\ f + 1 \in Nat /\ hi[i] <= n + 1
      BY <1>1, <1>3, <1>4
    <2> HIDE DEF L
    <2>4. CASE E(i).present
      <3>1. CopiedPDP(m0, m, E(i).to, f, m0[f], f + 1, hi[i]) BY <2>4 DEF Built
      <3>2. K = Filled(m0, E(i).to) BY <2>4 DEF SlotKeys
      <3> HIDE DEF f, K, E
      <3>3. LET J == Filled(m0, E(i).to)
            IN Owns(m, Own(f, J) \cup Inner(m, f, J, Under(m, f)), f + 1, hi[i])
        BY <2>3, <3>1, PDPOwns
      <3> QED BY <2>2, <3>2, <3>3 DEF f
    <2>5. CASE ~E(i).present
      <3>1. m[1][i].present BY <1>3, <1>4
      <3>2. i \in KernelSlots BY <2>5, <3>1, Absent DEF Built
      <3>3. m[f] = BlankRow BY <2>5, <3>2 DEF Built
      <3>4. K = Index BY <2>5 DEF SlotKeys
      <3>5. \A j \in Index : ~Leads(m, <<f, j>>)
        <4> TAKE j \in Index
        <4>1. j \in Slots BY Sizes
        <4>2. EntryOf(m, f, j) = BlankRow[j] BY <2>3, <3>3, <4>1, CellOf
        <4>3. ~BlankRow[j].present BY BlankIs
        <4> HIDE DEF f
        <4> QED BY <4>2, <4>3 DEF Leads, Linked
      <3> HIDE DEF f, K
      <3>6. Inner(m, f, K, Under(m, f)) = {} BY <3>4, <3>5 DEF Inner
      <3>7. \A l \in Own(f, K) : ~Leads(m, l) BY <3>4, <3>5 DEF Own
      <3> QED BY <2>2, <3>6, <3>7 DEF Owns
    <2> QED BY <2>4, <2>5
  <1>5. Apart(m, 1, Slots, lo, hi, L, 2, n + 1)
    <2>1. \A i, j \in Slots : i # j /\ m[1][i].present /\ m[1][j].present =>
            hi[i] <= lo[j] \/ hi[j] <= lo[i]
      BY DEF Built
    <2> HIDE DEF L
    <2> QED BY <1>3, <1>4, <2>1 DEF Apart
  <1> HIDE DEF L
  <1>6. n + 1 \in Int BY <1>1
  <1> QED BY <1>5, <1>6, Nested DEF L

(***************************************************************************)
(* The translation.  What a PDP that was not cleared shows is left out.    *)
(***************************************************************************)
LEMMA TranslateSlot ==
    ASSUME NEW m0, NEW n, Memory(m0, n), 1 <= n, NEW m \in Memories(m0), NEW cr3,
           NEW lo \in [Slots -> Nat], NEW hi \in [Slots -> Nat], Built(m0, n, cr3, m, lo, hi),
           NEW i \in Slots, EntryOf(m0, cr3, i).present
    PROVE  LET e == EntryOf(m0, cr3, i)
               y == EntryOf(m, 1, i)
           IN  /\ y.present /\ y.to = lo[i] /\ y.flags = e.flags /\ lo[i] \in 0 .. n
               /\ hi[i] <= n + 1
               /\ CopiedPDP(m0, m, e.to, lo[i], m0[lo[i]], lo[i] + 1, hi[i])
  <1> DEFINE e == EntryOf(m0, cr3, i)
             y == EntryOf(m, 1, i)
  <1>1. n \in Nat /\ 1 \in 0 .. n BY DEF Memory
  <1>2. y = m[1][i] /\ e \in PageEntries BY <1>1, CellOf, EntryTyped
  <1>3. /\ m[1][i] = [e EXCEPT !.to = lo[i]]
        /\ CopiedPDP(m0, m, e.to, lo[i], m0[lo[i]], lo[i] + 1, hi[i])
        /\ m[1][i].present => 2 <= lo[i] /\ lo[i] < hi[i] /\ hi[i] <= n + 1
    BY DEF Built
  <1>4. e.present OBVIOUS
  <1> HIDE DEF e, y
  <1>5. y.present = e.present /\ y.flags = e.flags /\ y.to = lo[i] BY <1>2, <1>3, Redirect
  <1>6. lo[i] \in Nat /\ hi[i] \in Nat OBVIOUS
  <1>7. lo[i] \in 0 .. n BY <1>1, <1>2, <1>3, <1>4, <1>5, <1>6
  <1> QED BY <1>2, <1>3, <1>4, <1>5, <1>7 DEF e, y

\* One level down: a PD of a PDP, a PT of a PD.
LEMMA TranslatePDP ==
    ASSUME NEW m0, NEW n, Memory(m0, n), NEW m \in Memories(m0), NEW src, NEW dst \in 0 .. n,
           NEW old, NEW hi \in Nat, hi <= n + 1, CopiedPDP(m0, m, src, dst, old, dst + 1, hi),
           NEW j \in Index, EntryOf(m0, src, j).present \/ ~old[j].present
    PROVE  LET e == EntryOf(m0, src, j)
               y == EntryOf(m, dst, j)
           IN  /\ y.present = e.present
               /\ e.present /\ e.huge => y = e
               /\ Linked(e) => /\ ~y.huge /\ y.flags = e.flags /\ y.to \in 0 .. n
                               /\ \E ub \in Nat : /\ ub <= n + 1
                                                  /\ CopiedPD(m0, m, e.to, y.to, BlankRow, y.to + 1, ub)
  <1> DEFINE e == EntryOf(m0, src, j)
             y == EntryOf(m, dst, j)
  <1>0. n \in Nat /\ dst \in Nat /\ dst + 1 \in Nat BY DEF Memory
  <1>1. PICK a \in FrameMarks(TableSize, dst + 1, hi) :
          /\ CopiedRow(m0, m, src, dst, old, a)
          /\ \A i \in Index :
               LET x == EntryOf(m0, src, i)
               IN Linked(x) => CopiedPD(m0, m, x.to, a[i], BlankRow, a[i] + 1, a[i + 1])
    BY DEF CopiedPDP
  <1>2. a[j] \in Nat /\ a[j + 1] \in Nat /\ a[j + 1] <= hi BY <1>0, IndexIs, MarksIs
  <1>3. /\ y.present = e.present
        /\ Linked(e) => /\ ~y.huge /\ y.to = a[j] /\ y.flags = e.flags
        /\ e.present /\ e.huge => y = e
    <2>1. EntryCopied(m0, m, src, dst, a, j) BY <1>1, RowLeads
    <2> QED BY <2>1 DEF EntryCopied
  <1>4. Linked(e) => a[j] < a[j + 1] /\ CopiedPD(m0, m, e.to, a[j], BlankRow, a[j] + 1, a[j + 1])
    BY <1>1 DEF CopiedRow
  <1> HIDE DEF e, y
  <1>5. ASSUME Linked(e)
        PROVE  /\ ~y.huge /\ y.flags = e.flags /\ y.to \in 0 .. n
               /\ \E ub \in Nat : /\ ub <= n + 1
                                  /\ CopiedPD(m0, m, e.to, y.to, BlankRow, y.to + 1, ub)
    <2>1. y.to = a[j] /\ a[j + 1] <= n + 1 /\ a[j] \in 0 .. n BY <1>0, <1>2, <1>3, <1>4, <1>5
    <2> QED BY <1>2, <1>3, <1>4, <1>5, <2>1
  <1> QED BY <1>3, <1>5 DEF e, y

LEMMA TranslatePD ==
    ASSUME NEW m0, NEW n, Memory(m0, n), NEW m \in Memories(m0), NEW src, NEW dst \in 0 .. n,
           NEW hi \in Nat, hi <= n + 1, CopiedPD(m0, m, src, dst, BlankRow, dst + 1, hi), NEW j \in Index
    PROVE  LET e == EntryOf(m0, src, j)
               y == EntryOf(m, dst, j)
           IN  /\ y.present = e.present
               /\ e.present /\ e.huge => y = e
               /\ Linked(e) => /\ ~y.huge /\ y.flags = e.flags /\ y.to \in 0 .. n
                               /\ CopiedPT(m0, m, e.to, y.to, BlankRow)
  <1> DEFINE e == EntryOf(m0, src, j)
             y == EntryOf(m, dst, j)
  <1>0. n \in Nat /\ dst \in Nat /\ dst + 1 \in Nat BY DEF Memory
  <1>1. PICK a \in FrameMarks(TableSize, dst + 1, hi) :
          /\ CopiedRow(m0, m, src, dst, BlankRow, a)
          /\ \A i \in Index : LET x == EntryOf(m0, src, i)
                              IN Linked(x) => CopiedPT(m0, m, x.to, a[i], BlankRow)
    BY DEF CopiedPD
  <1>2. a[j] \in Nat /\ a[j + 1] \in Nat /\ a[j + 1] <= hi BY <1>0, IndexIs, MarksIs
  <1>3. /\ y.present = e.present
        /\ Linked(e) => /\ ~y.huge /\ y.to = a[j] /\ y.flags = e.flags
        /\ e.present /\ e.huge => y = e
    <2>1. ~BlankRow[j].present BY BlankIs
    <2>2. EntryCopied(m0, m, src, dst, a, j) BY <1>1, <2>1, RowLeads
    <2> QED BY <2>2 DEF EntryCopied
  <1>4. Linked(e) => a[j] < a[j + 1] /\ CopiedPT(m0, m, e.to, a[j], BlankRow) BY <1>1 DEF CopiedRow
  <1> HIDE DEF e, y
  <1>5. Linked(e) => y.to \in 0 .. n BY <1>0, <1>2, <1>3, <1>4
  <1> QED BY <1>3, <1>4, <1>5 DEF e, y

LEMMA TranslatePT ==
    ASSUME NEW m0, NEW n, Memory(m0, n), NEW m \in Memories(m0), NEW src, NEW dst \in 0 .. n,
           CopiedPT(m0, m, src, dst, BlankRow), NEW j \in Index
    PROVE  LET e == EntryOf(m0, src, j)
               y == EntryOf(m, dst, j)
           IN y.present = e.present /\ (e.present => y = e)
  <1> DEFINE e == EntryOf(m0, src, j)
             y == EntryOf(m, dst, j)
  <1>1. j \in Slots BY Sizes
  <1>2. y = m[dst][j] /\ y \in PageEntries /\ e \in PageEntries BY <1>1, CellOf, EntryTyped
  <1>3. m[dst][j] = IF e.present THEN e ELSE BlankRow[j] BY DEF CopiedPT
  <1>4. ~BlankRow[j].present BY BlankIs
  <1> HIDE DEF e, y
  <1>5. y.present \in BOOLEAN /\ e.present \in BOOLEAN BY <1>2 DEF PageEntries
  <1> QED BY <1>2, <1>3, <1>4, <1>5 DEF e, y

\* Translate, by what the entries on the way say.
Walk(pdp, pd, pt, page, k, l) ==
    IF ~pdp.present \/ ~pd.present THEN <<>>
    ELSE IF pd.huge THEN <<pd.to, <<k, l>>, <<pdp.flags, pd.flags>>>>
    ELSE IF ~pt.present THEN <<>>
    ELSE IF pt.huge THEN <<pt.to, <<l>>, <<pdp.flags, pd.flags, pt.flags>>>>
    ELSE IF page.present THEN <<page.to, <<>>, <<pdp.flags, pd.flags, pt.flags, page.flags>>>>
    ELSE <<>>
LEMMA TranslateIs ==
    ASSUME NEW mem, NEW root, NEW p, NEW pdp, NEW pd, NEW pt, NEW page,
           pdp = EntryOf(mem, root, p[1]), pd = EntryOf(mem, pdp.to, p[2]),
           pt = EntryOf(mem, pd.to, p[3]), page = EntryOf(mem, pt.to, p[4]),
           pdp.present \in BOOLEAN, pd.present \in BOOLEAN, pd.huge \in BOOLEAN,
           pt.present \in BOOLEAN, pt.huge \in BOOLEAN, page.present \in BOOLEAN
    PROVE  Translate(mem, root, p) = Walk(pdp, pd, pt, page, p[3], p[4])
  <1>1. CASE ~pdp.present \/ ~pd.present BY <1>1, Zenon DEF Translate, Walk
  <1>2. CASE pdp.present /\ pd.present /\ pd.huge BY <1>2 DEF Translate, Walk
  <1>3. CASE pdp.present /\ pd.present /\ ~pd.huge /\ ~pt.present BY <1>3 DEF Translate, Walk
  <1>4. CASE pdp.present /\ pd.present /\ ~pd.huge /\ pt.present /\ pt.huge
    BY <1>4 DEF Translate, Walk
  <1>5. CASE pdp.present /\ pd.present /\ ~pd.huge /\ pt.present /\ ~pt.huge
    BY <1>5 DEF Translate, Walk
  <1> QED BY <1>1, <1>2, <1>3, <1>4, <1>5

LEMMA AnyEntry ==
    ASSUME NEW m0, NEW n, Memory(m0, n), NEW m \in Memories(m0), NEW f, NEW i
    PROVE  LET e == EntryOf(m, f, i) IN e \in PageEntries /\ e.present \in BOOLEAN /\ e.huge \in BOOLEAN
  <1>1. EntryOf(m, f, i) \in PageEntries BY Sizes DEF Memories, EntryOf
  <1> QED BY <1>1 DEF PageEntries

LEMMA SameTranslation ==
    ASSUME NEW m0, NEW n, Memory(m0, n), 1 <= n, NEW m \in Memories(m0), NEW cr3,
           NEW lo \in [Slots -> Nat], NEW hi \in [Slots -> Nat], Built(m0, n, cr3, m, lo, hi),
           NEW i \in Slots, NEW j \in Index, NEW k \in Index, NEW l \in Index,
           NEW p, p = <<i, j, k, l>>, ~Uncopied(m0, cr3, p)
    PROVE  Translate(m, 1, p) = Translate(m0, cr3, p)
  <1> DEFINE pdp0 == EntryOf(m0, cr3, i)
             pd0 == EntryOf(m0, pdp0.to, j)
             pt0 == EntryOf(m0, pd0.to, k)
             page0 == EntryOf(m0, pt0.to, l)
             pdp == EntryOf(m, 1, i)
             pd == EntryOf(m, pdp.to, j)
             pt == EntryOf(m, pd.to, k)
             page == EntryOf(m, pt.to, l)
  <1>1. n \in Nat /\ 1 \in 0 .. n BY DEF Memory
  <1>2. m0 \in Memories(m0) BY DEF Memory, Memories
  <1>3. /\ pdp0.present \in BOOLEAN /\ pd0.present \in BOOLEAN /\ pd0.huge \in BOOLEAN
        /\ pt0.present \in BOOLEAN /\ pt0.huge \in BOOLEAN /\ page0.present \in BOOLEAN
    BY <1>2, AnyEntry
  <1>4. /\ pdp.present \in BOOLEAN /\ pd.present \in BOOLEAN /\ pd.huge \in BOOLEAN
        /\ pt.present \in BOOLEAN /\ pt.huge \in BOOLEAN /\ page.present \in BOOLEAN
    BY AnyEntry
  <1>5. p[1] = i /\ p[2] = j /\ p[3] = k /\ p[4] = l OBVIOUS
  <1>6. Translate(m0, cr3, p) = Walk(pdp0, pd0, pt0, page0, k, l)
    <2>1. /\ pdp0 = EntryOf(m0, cr3, p[1]) /\ pd0 = EntryOf(m0, pdp0.to, p[2])
          /\ pt0 = EntryOf(m0, pd0.to, p[3]) /\ page0 = EntryOf(m0, pt0.to, p[4])
      BY <1>5
    <2> HIDE DEF pdp0, pd0, pt0, page0
    <2> QED BY <1>3, <1>5, <2>1, TranslateIs
  <1>7. Translate(m, 1, p) = Walk(pdp, pd, pt, page, k, l)
    <2>1. /\ pdp = EntryOf(m, 1, p[1]) /\ pd = EntryOf(m, pdp.to, p[2])
          /\ pt = EntryOf(m, pd.to, p[3]) /\ page = EntryOf(m, pt.to, p[4])
      BY <1>5
    <2> HIDE DEF pdp, pd, pt, page
    <2> QED BY <1>4, <1>5, <2>1, TranslateIs
  <1>8. pdp0.present => pd0.present BY <1>3, <1>5 DEF Uncopied
  <1>9. CASE ~pdp0.present
    <2>1. pdp.present => ~pd.present
      <3> SUFFICES ASSUME pdp.present PROVE ~pd.present OBVIOUS
      <3>1. pdp = m[1][i] BY <1>1, CellOf
      <3>2. i \in KernelSlots
        <4>1. i \notin KernelSlots => m[1][i] = NoEntry BY <1>9 DEF Built
        <4> QED BY <3>1, <4>1, Absent
      <3>3. m[1][i] = PresentReadWrite(lo[i]) /\ m[lo[i]] = BlankRow
            /\ 2 <= lo[i] /\ lo[i] < hi[i] /\ hi[i] <= n + 1
        BY <1>9, <3>1, <3>2, Absent DEF Built
      <3>4. lo[i] \in 0 .. n BY <1>1, <3>3
      <3>5. pdp.to = lo[i] BY <3>1, <3>3, Absent
      <3>6. pd = BlankRow[j]
        <4>1. j \in Slots BY Sizes
        <4> QED BY <3>3, <3>4, <3>5, <4>1, CellOf
      <3> QED BY <3>6, BlankIs
    <2> HIDE DEF pdp0, pd0, pt0, page0, pdp, pd, pt, page
    <2> QED BY <1>6, <1>7, <1>9, <2>1 DEF Walk
  <1>10. CASE pdp0.present
    <2>1. /\ pdp.present /\ pdp.to = lo[i] /\ pdp.flags = pdp0.flags /\ lo[i] \in 0 .. n
          /\ hi[i] <= n + 1 /\ hi[i] \in Nat
          /\ CopiedPDP(m0, m, pdp0.to, lo[i], m0[lo[i]], lo[i] + 1, hi[i])
      BY <1>10, TranslateSlot
    <2>2. pd0.present BY <1>8, <1>10
    <2> HIDE DEF pdp, pdp0
    <2>3. /\ pd.present = pd0.present
          /\ pd0.present /\ pd0.huge => pd = pd0
          /\ Linked(pd0) => /\ ~pd.huge /\ pd.flags = pd0.flags /\ pd.to \in 0 .. n
                            /\ \E ub \in Nat :
                                 /\ ub <= n + 1
                                 /\ CopiedPD(m0, m, pd0.to, pd.to, BlankRow, pd.to + 1, ub)
      BY <2>1, <2>2, TranslatePDP
    <2> HIDE DEF pd, pd0
    <2>4. CASE pd0.huge
      <3> HIDE DEF pt0, page0, pt, page
      <3> QED BY <1>6, <1>7, <1>10, <2>1, <2>2, <2>3, <2>4 DEF Walk
    <2>5. CASE ~pd0.huge
      <3>1. Linked(pd0) BY <2>2, <2>5 DEF Linked
      <3>2. PICK ub \in Nat : ub <= n + 1 /\ CopiedPD(m0, m, pd0.to, pd.to, BlankRow, pd.to + 1, ub)
        BY <2>3, <3>1
      <3>3. /\ pt.present = pt0.present
            /\ pt0.present /\ pt0.huge => pt = pt0
            /\ Linked(pt0) => /\ ~pt.huge /\ pt.flags = pt0.flags /\ pt.to \in 0 .. n
                              /\ CopiedPT(m0, m, pt0.to, pt.to, BlankRow)
        BY <2>3, <3>1, <3>2, TranslatePD
      <3> HIDE DEF pt, pt0
      <3>4. CASE ~pt0.present
        <4> HIDE DEF page0, page
        <4> QED BY <1>6, <1>7, <1>10, <2>1, <2>2, <2>3, <2>5, <3>1, <3>3, <3>4 DEF Walk
      <3>5. CASE pt0.present /\ pt0.huge
        <4> HIDE DEF page0, page
        <4> QED BY <1>6, <1>7, <1>10, <2>1, <2>2, <2>3, <2>5, <3>1, <3>3, <3>5 DEF Walk
      <3>6. CASE pt0.present /\ ~pt0.huge
        <4>1. Linked(pt0) BY <3>6 DEF Linked
        <4>2. page.present = page0.present /\ (page0.present => page = page0)
          BY <3>3, <4>1, TranslatePT
        <4> HIDE DEF page, page0
        <4>3. /\ Walk(pdp0, pd0, pt0, page0, k, l) =
                 IF page0.present
                 THEN <<page0.to, <<>>, <<pdp0.flags, pd0.flags, pt0.flags, page0.flags>>>> ELSE <<>>
          BY <1>10, <2>2, <2>5, <3>6 DEF Walk
        <4>4. /\ Walk(pdp, pd, pt, page, k, l) =
                 IF page.present
                 THEN <<page.to, <<>>, <<pdp.flags, pd.flags, pt.flags, page.flags>>>> ELSE <<>>
          BY <2>1, <2>2, <2>3, <3>1, <3>3, <3>6, <4>1 DEF Walk
        <4> QED BY <1>6, <1>7, <2>1, <2>3, <3>1, <3>3, <4>1, <4>2, <4>3, <4>4
      <3> QED BY <1>3, <3>4, <3>5, <3>6 DEF pt0
    <2> QED BY <1>3, <2>4, <2>5 DEF pd0
  <1> QED BY <1>3, <1>9, <1>10

LEMMA FreeFramesAre == ASSUME NEW n \in Nat PROVE ToSet(InOrder(1, n)) = 1 .. n
  <1> DEFINE q == InOrder(1, n)
  <1>1. q = [k \in 1 .. n |-> k]
    <2>1. n - 1 + 1 = n /\ \A k \in 1 .. n : 1 + k - 1 = k OBVIOUS
    <2> QED BY <2>1 DEF InOrder
  <1>2. ToSet(q) = {q[i] : i \in DOMAIN q} BY DEF ToSet
  <1>3. DOMAIN q = 1 .. n /\ \A k \in 1 .. n : q[k] = k BY <1>1
  <1> HIDE DEF q
  <1>4. ToSet(q) = {k : k \in 1 .. n} BY <1>2, <1>3
  <1> QED BY <1>4 DEF q

\* Copied, of tables that begin at root.
CopiedAt(m0, cr3, free, m, root) ==
    LET dirty == {p \in Paths : Uncopied(m0, cr3, p)}
        pdps == {<<root, i>> : i \in Slots}
        Below(links) == UNION {{<<To(m, l), i>> : i \in Index} : l \in {k \in links : Leads(m, k)}}
        keptLinks == UNION {{<<To(m, <<root, p[1]>>), p[2]>>} : p \in dirty}
        pds == Below(pdps) \ keptLinks
        links == pdps \cup pds \cup Below(pds)
        tables == {l \in links : Leads(m, l)}
    IN /\ \A p \in Paths \ dirty : Translate(m, root, p) = Translate(m0, cr3, p)
       /\ \A i \in KernelSlots : EntryOf(m, root, i).present
       /\ \A l \in tables : To(m, l) \in ToSet(free) \ {root}
       /\ \A k, l \in tables : To(m, k) = To(m, l) => k = l
LEMMA CopiedIsAt ==
    ASSUME NEW m0, NEW cr3, NEW free, NEW r, CopiedAt(m0, cr3, free, r.mem, r.root)
    PROVE  Copied(m0, cr3, free, r)
  BY DEF Copied, CopiedAt, To, Leads, Linked

LEMMA InitializeCopies ==
    ASSUME NEW m0, NEW n, Memory(m0, n), NEW cr3, SourcePML4(m0, n, cr3),
           NEW q \in KernelSlots, ~EntryOf(m0, cr3, q).present,
           NEW r, r = PagingInitialize(m0, cr3, InOrder(1, n)), ~r.panic
    PROVE  Copied(m0, cr3, InOrder(1, n), r)
  <1>1. r \in Works(m0, n) /\ r.root = 1 /\ 1 <= n BY InitializeIs
  <1>2. PICK lo \in [Slots -> Nat], hi \in [Slots -> Nat] : Built(m0, n, cr3, r.mem, lo, hi)
    BY InitializeIs
  <1> DEFINE m == r.mem
             L == SlotLinks(m0, cr3, m)
             All == Own(1, Slots) \cup Inner(m, 1, Slots, L)
             dirty == {p \in Paths : Uncopied(m0, cr3, p)}
             pdps == {<<1, i>> : i \in Slots}
             Below(links) == UNION {{<<To(m, l), i>> : i \in Index} : l \in {k \in links : Leads(m, k)}}
             keptLinks == UNION {{<<To(m, <<1, p[1]>>), p[2]>>} : p \in dirty}
             pds == Below(pdps) \ keptLinks
             links == pdps \cup pds \cup Below(pds)
             tables == {l \in links : Leads(m, l)}
  <1>3. m \in Memories(m0) BY <1>1 DEF Works, Memories
  <1>4. n \in Nat /\ 1 \in 0 .. n BY <1>1 DEF Memory
  <1>5. Owns(m, All, 2, n + 1) BY <1>1, <1>2, <1>3, RootOwns
  <1>6. \A i \in Slots : /\ To(m, <<1, i>>) = EntryOf(m, 1, i).to
                         /\ L[i] = Own(To(m, <<1, i>>), SlotKeys(m0, cr3, i))
                              \cup Inner(m, To(m, <<1, i>>), SlotKeys(m0, cr3, i),
                                         Under(m, To(m, <<1, i>>)))
    BY DEF SlotLinks, To
  <1> HIDE DEF m, L
  <1>7. \A l \in pds : \E i \in Slots : \E j \in SlotKeys(m0, cr3, i) :
                         Leads(m, <<1, i>>) /\ l = <<To(m, <<1, i>>), j>> /\ j \in Index
    <2> TAKE l \in pds
    <2>1. PICK x \in pdps : Leads(m, x) /\ l \in {<<To(m, x), j>> : j \in Index} OBVIOUS
    <2>2. PICK i \in Slots : x = <<1, i>> BY <2>1
    <2>3. PICK j \in Index : l = <<To(m, x), j>> BY <2>1
    <2>4. j \in SlotKeys(m0, cr3, i)
      <3> SUFFICES ASSUME j \notin SlotKeys(m0, cr3, i) PROVE FALSE OBVIOUS
      <3> DEFINE p == <<i, j, 0, 0>>
      <3>1. /\ EntryOf(m0, cr3, i).present /\ ~EntryOf(m0, EntryOf(m0, cr3, i).to, j).present
        <4>1. CASE EntryOf(m0, cr3, i).present BY <4>1 DEF SlotKeys, Filled
        <4>2. CASE ~EntryOf(m0, cr3, i).present BY <4>2 DEF SlotKeys
        <4> QED BY <4>1, <4>2
      <3>2. p \in Paths /\ p[1] = i /\ p[2] = j BY Sizes DEF Paths
      <3>3. p \in dirty BY <3>1, <3>2 DEF Uncopied
      <3>4. l = <<To(m, <<1, p[1]>>), p[2]>> BY <2>2, <2>3, <3>2
      <3> HIDE DEF p, dirty
      <3>5. l \in keptLinks BY <3>3, <3>4
      <3> QED BY <3>5
    <2> QED BY <2>1, <2>2, <2>3, <2>4
  <1>8. links \subseteq All
    <2> SUFFICES ASSUME NEW l \in links PROVE l \in All OBVIOUS
    <2>1. CASE l \in pdps BY <2>1 DEF Own
    <2>2. CASE l \in pds
      <3> HIDE DEF pds
      <3>1. PICK i \in Slots : \E j \in SlotKeys(m0, cr3, i) :
                         Leads(m, <<1, i>>) /\ l = <<To(m, <<1, i>>), j>> /\ j \in Index
        BY <1>7, <2>2
      <3>2. l \in Own(To(m, <<1, i>>), SlotKeys(m0, cr3, i)) BY <3>1 DEF Own
      <3>3. l \in L[i] BY <1>6, <3>2
      <3> QED BY <3>1, <3>3 DEF Inner
    <2>3. CASE l \in Below(pds)
      <3>1. PICK x \in pds : Leads(m, x) /\ l \in {<<To(m, x), k>> : k \in Index} BY <2>3
      <3> HIDE DEF pds
      <3>2. PICK i \in Slots : \E j \in SlotKeys(m0, cr3, i) :
                         Leads(m, <<1, i>>) /\ x = <<To(m, <<1, i>>), j>> /\ j \in Index
        BY <1>7, <3>1
      <3> DEFINE f == To(m, <<1, i>>)
                 K == SlotKeys(m0, cr3, i)
      <3>3. PICK j \in K : Leads(m, <<1, i>>) /\ x = <<f, j>> /\ j \in Index BY <3>2
      <3> HIDE DEF f, K
      <3>4. l \in Own(To(m, <<f, j>>), Index) BY <3>1, <3>3 DEF Own
      <3>5. Under(m, f)[j] = Own(To(m, <<f, j>>), Index) BY <3>3 DEF Under
      <3>6. Leads(m, <<f, j>>) BY <3>1, <3>3
      <3>7. l \in Inner(m, f, K, Under(m, f)) BY <3>3, <3>4, <3>5, <3>6 DEF Inner
      <3>8. l \in L[i] BY <1>6, <3>7 DEF f, K
      <3> QED BY <3>3, <3>8 DEF Inner
    <2> HIDE DEF pdps, pds, Below
    <2> QED BY <2>1, <2>2, <2>3
  <1>9. \A l \in tables : To(m, l) \in ToSet(InOrder(1, n)) \ {1}
    <2> TAKE l \in tables
    <2>1. l \in All /\ Leads(m, l) BY <1>8
    <2>2. To(m, l) \in 2 .. (n + 1) - 1 BY <1>5, <2>1 DEF Owns
    <2>3. To(m, l) \in 1 .. n /\ To(m, l) # 1 BY <1>4, <2>2
    <2> QED BY <1>4, <2>3, FreeFramesAre
  <1>10. \A k, l \in tables : To(m, k) = To(m, l) => k = l
    <2> TAKE k, l \in tables
    <2>1. l \in All /\ Leads(m, l) /\ k \in All /\ Leads(m, k) BY <1>8
    <2> HIDE DEF All
    <2> QED BY <1>5, <2>1 DEF Owns
  <1>11. \A p \in Paths \ dirty : Translate(m, 1, p) = Translate(m0, cr3, p)
    <2> TAKE p \in Paths \ dirty
    <2>1. PICK i \in Slots, j \in Index, k \in Index, l \in Index : p = <<i, j, k, l>> BY DEF Paths
    <2>2. ~Uncopied(m0, cr3, p) OBVIOUS
    <2> QED BY <1>1, <1>2, <1>3, <2>1, <2>2, SameTranslation DEF m
  <1>12. \A i \in KernelSlots : EntryOf(m, 1, i).present
    <2> TAKE i \in KernelSlots
    <2>1. i \in Slots BY Sizes
    <2>2. EntryOf(m, 1, i) = m[1][i] BY <1>3, <1>4, <2>1, CellOf
    <2>3. CASE EntryOf(m0, cr3, i).present
      <3> DEFINE e == EntryOf(m0, cr3, i)
      <3>1. e \in PageEntries /\ e.present BY <2>3, EntryTyped
      <3>2. m[1][i] = [e EXCEPT !.to = lo[i]] BY <1>2, <2>1, <2>3 DEF Built, m
      <3> HIDE DEF e
      <3>3. \A x : [e EXCEPT !.to = x].present = e.present BY <3>1 DEF PageEntries
      <3> QED BY <2>2, <3>1, <3>2, <3>3
    <2>4. CASE ~EntryOf(m0, cr3, i).present
      <3>1. m[1][i] = PresentReadWrite(lo[i]) BY <1>2, <2>1, <2>4 DEF Built, m
      <3> QED BY <2>2, <3>1, Absent
    <2> QED BY <2>3, <2>4
  <1>13. CopiedAt(m0, cr3, InOrder(1, n), m, 1)
    <2>1. CopiedAt(m0, cr3, InOrder(1, n), m, 1) =
            (/\ \A p \in Paths \ dirty : Translate(m, 1, p) = Translate(m0, cr3, p)
             /\ \A i \in KernelSlots : EntryOf(m, 1, i).present
             /\ \A l \in tables : To(m, l) \in ToSet(InOrder(1, n)) \ {1}
             /\ \A k, l \in tables : To(m, k) = To(m, l) => k = l)
      BY DEF CopiedAt
    <2> HIDE DEF tables, dirty, m
    <2> QED BY <1>9, <1>10, <1>11, <1>12, <2>1
  <1>14. CopiedAt(m0, cr3, InOrder(1, n), r.mem, r.root)
    <2>1. r.root = 1 BY <1>1
    <2>2. CopiedAt(m0, cr3, InOrder(1, n), r.mem, 1) BY <1>13 DEF m
    <2> QED BY ONLY <2>1, <2>2
  <1> QED BY ONLY <1>14, CopiedIsAt

(***************************************************************************)
(* FindAvailableVirtualAddressRangeKernel.  In the kernel's window, a page *)
(* has a physical address, as GetPhysicalAddress finds it, exactly if the  *)
(* processor translates it; and the counter of the search is the number of *)
(* pages without one up to the page it is at.                              *)
(***************************************************************************)
LEMMA WalkEmpty ==
    ASSUME NEW pdp, NEW pd, NEW pt, NEW page, NEW k, NEW l,
           pdp.present \in BOOLEAN, pd.present \in BOOLEAN, pd.huge \in BOOLEAN,
           pt.present \in BOOLEAN, pt.huge \in BOOLEAN, page.present \in BOOLEAN,
           pdp.present /\ pd.present => ~pd.huge /\ (pt.present => ~pt.huge)
    PROVE  Walk(pdp, pd, pt, page, k, l) = <<>>
             <=> ~(pdp.present /\ pd.present /\ pt.present /\ page.present)
  <1>1. CASE ~pdp.present \/ ~pd.present BY <1>1 DEF Walk
  <1>2. CASE pdp.present /\ pd.present /\ ~pt.present BY <1>2 DEF Walk
  <1>3. CASE pdp.present /\ pd.present /\ pt.present /\ ~page.present BY <1>3 DEF Walk
  <1>4. CASE pdp.present /\ pd.present /\ pt.present /\ page.present
    <2> DEFINE x == <<pdp.flags, pd.flags, pt.flags, page.flags>>
               w == <<page.to, <<>>, x>>
    <2>1. Walk(pdp, pd, pt, page, k, l) = w BY <1>4 DEF Walk
    <2> HIDE DEF x
    <2>2. w # <<>> OBVIOUS
    <2> HIDE DEF w
    <2> QED BY <1>4, <2>1, <2>2
  <1> QED BY <1>1, <1>2, <1>3, <1>4

\* What a PDP whose frame was clean shows is what the boot loader mapped.
Clean(m0, cr3, pdp) == \A i \in Window : Uncopied(m0, cr3, <<PML4Size - 1, i>>) => ~EntryOf(m0, pdp, i).present

LEMMA WindowIs ==
    ASSUME NEW m0, NEW n, Memory(m0, n), 1 <= n, NEW m \in Memories(m0), NEW cr3, SmallPages(m0, cr3),
           NEW lo \in [Slots -> Nat], NEW hi \in [Slots -> Nat], Built(m0, n, cr3, m, lo, hi),
           Clean(m0, cr3, EntryOf(m, 1, PML4Size - 1).to),
           NEW j \in Window, NEW k \in Index, NEW l \in Index, NEW p, p = <<PML4Size - 1, j, k, l>>
    PROVE  Translate(m, 1, p) = <<>> <=> ~IsMapped(m, 1, p)
  <1> DEFINE i == PML4Size - 1
             pdp0 == EntryOf(m0, cr3, i)
             pd0 == EntryOf(m0, pdp0.to, j)
             pt0 == EntryOf(m0, pd0.to, k)
             page0 == EntryOf(m0, pt0.to, l)
             pdp == EntryOf(m, 1, i)
             pd == EntryOf(m, pdp.to, j)
             pt == EntryOf(m, pd.to, k)
             page == EntryOf(m, pt.to, l)
  <1>0. j \in Index BY PagingInitAssumption DEF Window, Index
  <1>1. n \in Nat /\ 1 \in 0 .. n BY DEF Memory
  <1>2. i \in Slots /\ i \in KernelSlots
    <2>1. PML4Size \in Nat BY PagingInitAssumption
    <2> QED BY <2>1, Halves
  <1>3. /\ pdp.present \in BOOLEAN /\ pd.present \in BOOLEAN /\ pd.huge \in BOOLEAN
        /\ pt.present \in BOOLEAN /\ pt.huge \in BOOLEAN /\ page.present \in BOOLEAN
    BY AnyEntry
  <1>4. /\ pdp0.present \in BOOLEAN /\ pd0.present \in BOOLEAN /\ pd0.huge \in BOOLEAN
        /\ pt0.present \in BOOLEAN /\ pt0.huge \in BOOLEAN /\ page0.present \in BOOLEAN
    <2>1. m0 \in Memories(m0) BY DEF Memory, Memories
    <2> QED BY <2>1, AnyEntry
  <1>5. p[1] = i /\ p[2] = j /\ p[3] = k /\ p[4] = l OBVIOUS
  <1>6. Translate(m, 1, p) = Walk(pdp, pd, pt, page, k, l)
    <2>1. /\ pdp = EntryOf(m, 1, p[1]) /\ pd = EntryOf(m, pdp.to, p[2])
          /\ pt = EntryOf(m, pd.to, p[3]) /\ page = EntryOf(m, pt.to, p[4])
      BY <1>5
    <2> HIDE DEF pdp, pd, pt, page
    <2> QED BY <1>3, <1>5, <2>1, TranslateIs
  <1>7. IsMapped(m, 1, p) <=> /\ pdp.present /\ pd.present /\ pt.present /\ page.present
                              /\ page.to # 0
    BY <1>5 DEF IsMapped, GetPhysicalAddress
  <1>8. pdp.present /\ pd.present =>
          ~pd.huge /\ (pt.present => ~pt.huge /\ (page.present => page.to # 0))
    <2>1. CASE ~pdp0.present
      <3>1. pdp = m[1][i] BY <1>1, <1>2, CellOf
      <3>2. m[1][i] = PresentReadWrite(lo[i]) /\ m[lo[i]] = BlankRow BY <1>2, <2>1 DEF Built
      <3>7. m[1][i].present /\ pdp.to = lo[i] BY <3>1, <3>2, Absent
      <3>3. 2 <= lo[i] /\ lo[i] < hi[i] /\ hi[i] <= n + 1 /\ pdp.to = lo[i]
        BY <1>2, <3>7 DEF Built
      <3>4. lo[i] \in 0 .. n BY <1>1, <1>2, <3>3
      <3>5. pd = BlankRow[j]
        <4>1. j \in Slots BY <1>0, Sizes
        <4> QED BY <3>2, <3>3, <3>4, <4>1, CellOf
      <3>6. ~pd.present
        <4>1. ~BlankRow[j].present BY <1>0, BlankIs
        <4> QED BY <3>5, <4>1
      <3> HIDE DEF pd
      <3> QED BY <3>6
    <2>2. CASE pdp0.present
      <3>1. /\ pdp.present /\ pdp.to = lo[i] /\ lo[i] \in 0 .. n /\ hi[i] <= n + 1 /\ hi[i] \in Nat
            /\ CopiedPDP(m0, m, pdp0.to, lo[i], m0[lo[i]], lo[i] + 1, hi[i])
        BY <1>2, <2>2, TranslateSlot
      <3>2. pd0.present => ~pd0.huge /\ (pt0.present => ~pt0.huge /\ (page0.present => page0.to # 0))
        BY <2>2 DEF SmallPages
      <3>3. pd0.present \/ ~m0[lo[i]][j].present
        <4> SUFFICES ASSUME ~pd0.present PROVE ~m0[lo[i]][j].present OBVIOUS
        <4>1. Uncopied(m0, cr3, <<PML4Size - 1, j>>) BY <2>2 DEF Uncopied
        <4>2. ~EntryOf(m0, lo[i], j).present BY <3>1, <4>1 DEF Clean
        <4>3. j \in Slots /\ m0 \in Memories(m0) BY <1>0, Sizes DEF Memory, Memories
        <4>4. EntryOf(m0, lo[i], j) = m0[lo[i]][j] BY <3>1, <4>3, CellOf
        <4> QED BY <4>2, <4>4
      <3> HIDE DEF pdp, pdp0
      <3>4. /\ pd.present = pd0.present
            /\ Linked(pd0) => /\ ~pd.huge /\ pd.to \in 0 .. n
                              /\ \E ub \in Nat :
                                   /\ ub <= n + 1
                                   /\ CopiedPD(m0, m, pd0.to, pd.to, BlankRow, pd.to + 1, ub)
        BY <1>0, <3>1, <3>3, TranslatePDP
      <3> HIDE DEF pd, pd0
      <3>5. CASE ~pd0.present
        <4> HIDE DEF pt, page
        <4> QED BY <3>4, <3>5
      <3>6. CASE pd0.present
        <4>1. Linked(pd0) BY <3>2, <3>6 DEF Linked
        <4>2. PICK ub \in Nat : ub <= n + 1 /\ CopiedPD(m0, m, pd0.to, pd.to, BlankRow, pd.to + 1, ub)
          BY <3>4, <4>1
        <4>3. /\ pt.present = pt0.present
              /\ Linked(pt0) => /\ ~pt.huge /\ pt.to \in 0 .. n
                                /\ CopiedPT(m0, m, pt0.to, pt.to, BlankRow)
          BY <3>4, <4>1, <4>2, TranslatePD
        <4> HIDE DEF pt, pt0
        <4>4. CASE ~pt0.present
          <5> HIDE DEF page
          <5> QED BY <3>4, <4>1, <4>3, <4>4
        <4>5. CASE pt0.present
          <5>1. Linked(pt0) BY <3>2, <3>6, <4>5 DEF Linked
          <5>2. page.present = page0.present /\ (page0.present => page = page0)
            BY <4>3, <5>1, TranslatePT
          <5> HIDE DEF page, page0
          <5> QED BY <3>2, <3>4, <3>6, <4>1, <4>3, <4>5, <5>1, <5>2
        <4> QED BY <4>4, <4>5
      <3> QED BY <3>5, <3>6
    <2> QED BY <2>1, <2>2
  <1> HIDE DEF pdp, pd, pt, page
  <1>9. Walk(pdp, pd, pt, page, k, l) = <<>>
          <=> ~(pdp.present /\ pd.present /\ pt.present /\ page.present)
    BY <1>3, <1>8, WalkEmpty
  <1> QED BY <1>6, <1>7, <1>8, <1>9

\* The pages of the window, by their number.
LEMMA WindowPages ==
    /\ LastPage \in Nat
    /\ \A page \in 0 .. LastPage - 1 :
         \E j \in Window, k \in Index, l \in Index : PathOf(page) = <<PML4Size - 1, j, k, l>>
  <1> DEFINE T == TableSize
             S == T * T
  <1>1. T \in Nat /\ T >= 2 BY PagingInitAssumption
  <1>2. S \in Nat /\ S >= 1 BY <1>1
  <1>4. LastPage = 2 * S - 1 BY DEF LastPage
  <1> HIDE DEF S, T
  <1>5. LastPage \in Nat BY <1>2, <1>4
  <1>6. ASSUME NEW page \in 0 .. LastPage - 1
        PROVE  \E j \in Window, k \in Index, l \in Index : PathOf(page) = <<PML4Size - 1, j, k, l>>
    <2> DEFINE a == page \div S
               b == (page \div T) % T
               c == page % T
    <2>1. page \in Nat /\ page < 2 * S BY <1>2, <1>4
    <2>2. a \in {0, 1} BY <1>2, <2>1
    <2>3. page \div T \in Nat BY <1>1, <2>1
    <2>4. b \in 0 .. T - 1 /\ c \in 0 .. T - 1 BY <1>1, <2>1, <2>3
    <2>7. PathOf(page) = <<PML4Size - 1, T - 2 + a, b, c>> BY DEF PathOf, S, T
    <2> HIDE DEF a, b, c
    <2>6. T - 2 + a \in Window /\ b \in Index /\ c \in Index
      BY <1>1, <2>2, <2>4 DEF Index, Window, T
    <2> QED BY <2>6, <2>7
  <1> QED BY <1>5, <1>6

\* The counter of the search: a run of pages in U that ends here.
RunCounter(f, N, U) == /\ f[-1] = 0
                    /\ \A p \in 0 .. N - 1 : f[p] = IF p \in U THEN f[p - 1] + 1 ELSE 0

LEMMA CounterIs ==
    ASSUME NEW N \in Nat, NEW U \in SUBSET (0 .. N - 1), NEW f, RunCounter(f, N, U), NEW p \in -1 .. N - 1
    PROVE  f[p] \in Nat /\ f[p] <= p + 1 /\ p - f[p] + 1 .. p \subseteq U /\ p - f[p] \notin U
  <1> DEFINE Good(q) == f[q] \in Nat /\ f[q] <= q + 1 /\ q - f[q] + 1 .. q \subseteq U /\ q - f[q] \notin U
             B == {q \in 0 .. N - 1 : ~Good(q)}
  <1>1. Good(-1)
    <2>1. f[-1] = 0 BY DEF RunCounter
    <2>2. -1 - 0 + 1 .. -1 = {} /\ -1 - 0 \notin U OBVIOUS
    <2> QED BY <2>1, <2>2
  <1>2. B = {}
    <2> SUFFICES ASSUME B # {} PROVE FALSE OBVIOUS
    <2>1. B \in SUBSET Nat OBVIOUS
    <2>2. PICK q \in B : \A y \in B : q <= y
      <3> HIDE DEF B
      <3> QED BY <2>1, Least
    <2>3. q \in 0 .. N - 1 /\ ~Good(q)
      <3> HIDE DEF Good
      <3> QED BY <2>2
    <2>4. Good(q - 1)
      <3> HIDE DEF Good
      <3>1. CASE q = 0
        <4>1. q - 1 = -1 BY <3>1
        <4> QED BY <1>1, <4>1
      <3>2. CASE q # 0
        <4>1. q - 1 \in 0 .. N - 1 /\ ~(q <= q - 1) BY <2>3, <3>2
        <4> QED BY <2>2, <4>1
      <3> QED BY <3>1, <3>2
    <2>5. f[q] = IF q \in U THEN f[q - 1] + 1 ELSE 0 BY <2>3 DEF RunCounter
    <2>6. CASE q \notin U
      <3>1. f[q] = 0 BY <2>5, <2>6
      <3>2. q - 0 + 1 .. q = {} /\ q - 0 = q BY <2>3
      <3> QED BY <2>3, <2>6, <3>1, <3>2
    <2>7. CASE q \in U
      <3> DEFINE a == f[q - 1]
      <3>1. a \in Nat /\ a <= q /\ (q - 1) - a + 1 .. q - 1 \subseteq U /\ (q - 1) - a \notin U
        BY <2>3, <2>4
      <3>2. f[q] = a + 1 BY <2>5, <2>7
      <3> HIDE DEF a
      <3>3. q - (a + 1) = (q - 1) - a /\ q \in Int BY <2>3, <3>1
      <3>4. \A x \in q - (a + 1) + 1 .. q : x = q \/ x \in (q - 1) - a + 1 .. q - 1 BY <3>1, <3>3
      <3>5. q - (a + 1) + 1 .. q \subseteq U BY <2>7, <3>1, <3>4
      <3>6. a + 1 \in Nat /\ a + 1 <= q + 1 BY <3>1, <3>3
      <3> QED BY <2>3, <3>1, <3>2, <3>3, <3>5, <3>6
    <2> QED BY <2>6, <2>7
  <1>3. Good(p)
    <2> HIDE DEF Good
    <2>1. CASE p = -1 BY <1>1, <2>1
    <2>2. CASE p # -1
      <3>1. p \in 0 .. N - 1 BY <2>2
      <3> QED BY <1>2, <3>1
    <2> QED BY <2>1, <2>2
  <1> QED BY <1>3

\* A run of c pages is complete where the counter says c, at its end at the
\* latest.
LEMMA RunEnds ==
    ASSUME NEW N \in Nat, NEW U \in SUBSET (0 .. N - 1), NEW f, RunCounter(f, N, U),
           NEW c \in Nat \ {0}, NEW q \in U, q .. q + c - 1 \subseteq U
    PROVE  \E x \in 0 .. N - 1 : f[x] = c /\ x <= q + c - 1
  <1> DEFINE z == q + c - 1
             a == f[z]
             x == z - a + c
             b == f[x]
  <1>1. q \in Int /\ q >= 0 /\ z \in Int BY DEF z
  <1>2. z \in U
    <2>1. z \in q .. q + c - 1 BY <1>1
    <2> QED BY <2>1
  <1>3. z \in 0 .. N - 1 /\ z \in -1 .. N - 1 BY <1>2
  <1>4. a \in Nat /\ a <= z + 1 /\ z - a + 1 .. z \subseteq U /\ z - a \notin U
    BY <1>3, CounterIs
  <1>z. z = q + c - 1 OBVIOUS
  <1> HIDE DEF a, z
  <1>5. a >= c
    <2> SUFFICES ASSUME a < c PROVE FALSE BY <1>4
    <2>1. z - a \in q .. q + c - 1 BY <1>1, <1>4, <1>z
    <2> QED BY <1>4, <2>1
  <1>6. x \in 0 .. N - 1 /\ x \in -1 .. N - 1 /\ x <= z /\ x \in z - a + 1 .. z
    BY <1>1, <1>3, <1>4, <1>5
  <1>7. b \in Nat /\ x - b + 1 .. x \subseteq U /\ x - b \notin U BY <1>6, CounterIs
  <1>x. x = z - a + c OBVIOUS
  <1> HIDE DEF b, x
  <1>8. x - b \notin z - a + 1 .. z BY <1>4, <1>7
  <1>9. x - b <= z - a BY <1>1, <1>4, <1>6, <1>7, <1>8
  <1>10. z - a \notin x - b + 1 .. x BY <1>4, <1>7
  <1>11. z - a < x - b + 1 BY <1>1, <1>4, <1>6, <1>7, <1>10
  <1>12. b = c BY <1>1, <1>4, <1>7, <1>9, <1>11, <1>x
  <1> QED BY <1>6, <1>12, <1>z DEF b

LEMMA CounterExists ==
    ASSUME NEW N \in Nat, NEW U
    PROVE  \E f : f = [p \in -1 .. N - 1 |-> CASE p = -1 -> 0
                                               [] p >= 0 /\ p \notin U -> 0
                                               [] OTHER -> f[p - 1] + 1]
  <1> DEFINE S == [x \in Nat |-> [i \in 1 .. N |-> IF i - 1 \in U THEN x + 1 ELSE 0]]
  <1>1. S \in Steps(Nat, N) /\ \A x \in Nat : \A i \in 1 .. N : S[x][i] = IF i - 1 \in U THEN x + 1 ELSE 0
    BY DEF Steps
  <1>2. Before(N) \in Earlier(N) /\ \A i \in 1 .. N : Before(N)[i] = i - 1 BY BeforeIsEarlier
  <1> HIDE DEF S
  <1>3. PICK g : Computes(g, Nat, 0, N, Before(N), S)
    <2>1. 0 \in Nat OBVIOUS
    <2> QED BY <1>1, <1>2, <2>1, RecursionExists
  <1>4. g \in [0 .. N -> Nat] /\ g[0] = 0 /\ \A i \in 1 .. N : g[i] = S[g[i - 1]][i]
    BY <1>2, <1>3 DEF Computes
  <1>5. \A i \in 1 .. N : i - 1 \in 0 .. N /\ g[i] = IF i - 1 \in U THEN g[i - 1] + 1 ELSE 0
    <2> TAKE i \in 1 .. N
    <2>1. i - 1 \in 0 .. N OBVIOUS
    <2>2. g[i - 1] \in Nat BY <1>4, <2>1
    <2> QED BY <1>1, <1>4, <2>1, <2>2
  <1> DEFINE f == [p \in -1 .. N - 1 |-> g[p + 1]]
             G(p) == CASE p = -1 -> 0
                       [] p >= 0 /\ p \notin U -> 0
                       [] OTHER -> f[p - 1] + 1
  <1>6. \A p \in -1 .. N - 1 : f[p] = g[p + 1] OBVIOUS
  <1>7. f = [p \in -1 .. N - 1 |-> f[p]] OBVIOUS
  <1> HIDE DEF f
  <1>8. ASSUME NEW p \in -1 .. N - 1 PROVE f[p] = G(p)
    <2>1. CASE p = -1
      <3>1. f[p] = g[0] BY <1>6, <2>1
      <3> QED BY <1>4, <2>1, <3>1
    <2>2. CASE p # -1
      <3>1. p + 1 \in 1 .. N /\ (p + 1) - 1 = p /\ p - 1 \in -1 .. N - 1 /\ (p - 1) + 1 = p /\ p >= 0
        BY <2>2
      <3>2. f[p] = g[p + 1] /\ f[p - 1] = g[p] BY <1>6, <3>1
      <3>3. g[p + 1] = IF p \in U THEN g[p] + 1 ELSE 0 BY <1>5, <3>1
      <3> QED BY <2>2, <3>1, <3>2, <3>3
    <2> QED BY <2>1, <2>2
  <1> HIDE DEF G
  <1>9. f = [p \in -1 .. N - 1 |-> G(p)] BY <1>7, <1>8
  <1> QED BY <1>9 DEF G

\* Where the first run of c pages of U begins, or -1.
FirstRun(U, c, start) ==
    LET runs == {page \in U : page .. page + c - 1 \subseteq U}
    IN  IF start = -1 THEN runs = {}
        ELSE start \in runs /\ \A q \in runs : start <= q

LEMMA FoundIs ==
    ASSUME NEW m, NEW c \in Nat \ {0}, NEW U,
           U = {page \in 0 .. LastPage - 1 : ~IsMapped(m, 1, PathOf(page))}
    PROVE  FirstRun(U, c, FindAvailable(m, 1, c))
  <1> DEFINE N == LastPage
             start == FindAvailable(m, 1, c)
             runs == {page \in U : page .. page + c - 1 \subseteq U}
             foundPages[page \in -1 .. LastPage - 1] ==
                 CASE page = -1 -> 0
                   [] page >= 0 /\ IsMapped(m, 1, PathOf(page)) -> 0
                   [] OTHER -> foundPages[page - 1] + 1
             full == {page \in 0 .. N - 1 : foundPages[page] = c}
             first == CHOOSE page \in full : \A q \in full : page <= q
             Q(f) == f = [page \in -1 .. N - 1 |->
                            CASE page = -1 -> 0
                              [] page >= 0 /\ IsMapped(m, 1, PathOf(page)) -> 0
                              [] OTHER -> f[page - 1] + 1]
  <1>1. N \in Nat /\ U \in SUBSET (0 .. N - 1) BY WindowPages
  <1>2. start = IF full = {} THEN -1 ELSE first - (c - 1) BY DEF FindAvailable
  <1>3. foundPages = CHOOSE f : Q(f) OBVIOUS
  <1> HIDE DEF foundPages, start
  <1>4. \A page \in 0 .. N - 1 : page \in U <=> ~IsMapped(m, 1, PathOf(page)) OBVIOUS
  <1> HIDE DEF N
  <1>5. PICK g : g = [p \in -1 .. N - 1 |-> CASE p = -1 -> 0
                                              [] p >= 0 /\ p \notin U -> 0
                                              [] OTHER -> g[p - 1] + 1]
    BY ONLY <1>1, CounterExists
  <1>6. Q(g)
    <2>1. \A p \in -1 .. N - 1 :
            p >= 0 /\ p \notin U <=> p >= 0 /\ IsMapped(m, 1, PathOf(p))
      <3> TAKE p \in -1 .. N - 1
      <3>1. p >= 0 => p \in 0 .. N - 1 BY <1>1
      <3> QED BY <1>4, <3>1
    <2> QED BY <1>5, <2>1
  <1>7. Q(foundPages)
    <2> HIDE DEF Q
    <2> QED BY <1>3, <1>6
  <1>8. RunCounter(foundPages, N, U)
    <2>1. -1 \in -1 .. N - 1 /\ \A p \in 0 .. N - 1 : p \in -1 .. N - 1 /\ p # -1 /\ p >= 0 BY <1>1
    <2>2. foundPages[-1] = 0 BY <1>7, <2>1
    <2>3. ASSUME NEW p \in 0 .. N - 1
          PROVE  foundPages[p] = IF p \in U THEN foundPages[p - 1] + 1 ELSE 0
      <3>1. foundPages[p] = CASE p = -1 -> 0
                              [] p >= 0 /\ IsMapped(m, 1, PathOf(p)) -> 0
                              [] OTHER -> foundPages[p - 1] + 1
        BY <1>7, <2>1
      <3>2. p # -1 /\ p >= 0 BY <2>1
      <3>3. CASE p \in U BY <1>4, <3>1, <3>2, <3>3
      <3>4. CASE p \notin U BY <1>4, <3>1, <3>2, <3>4
      <3> QED BY <3>3, <3>4
    <2> QED BY <2>2, <2>3 DEF RunCounter
  <1> HIDE DEF Q
  <1>9. \A q \in runs : \E x \in full : x <= q + c - 1
    <2> TAKE q \in runs
    <2>1. q \in U /\ q .. q + c - 1 \subseteq U OBVIOUS
    <2>2. PICK x \in 0 .. N - 1 : foundPages[x] = c /\ x <= q + c - 1
      BY <1>1, <1>8, <2>1, RunEnds
    <2> QED BY <2>2
  <1>10. CASE full = {}
    <2>1. start = -1 BY <1>2, <1>10
    <2>2. runs = {} BY <1>9, <1>10
    <2> QED BY <2>1, <2>2 DEF start, FirstRun
  <1>11. CASE full # {}
    <2>1. full \in SUBSET Nat BY <1>1
    <2>2. \E x \in full : \A q \in full : x <= q
      <3> HIDE DEF full
      <3> QED BY <1>11, <2>1, Least
    <2>3. first \in full /\ \A q \in full : first <= q
      <3> HIDE DEF full
      <3> QED BY <2>2
    <2> HIDE DEF first
    <2>4. first \in 0 .. N - 1 /\ foundPages[first] = c /\ first \in -1 .. N - 1 BY <2>3
    <2>5. c <= first + 1 /\ first - c + 1 .. first \subseteq U BY <1>1, <1>8, <2>4, CounterIs
    <2>6. start = first - (c - 1) BY <1>2, <1>11
    <2> DEFINE z == first - (c - 1)
    <2>7. z \in Int /\ z >= 0 /\ z = first - c + 1 /\ z + c - 1 = first /\ z \in first - c + 1 .. first
      BY <2>4, <2>5
    <2>8. z \in U /\ z .. z + c - 1 \subseteq U BY <2>5, <2>7
    <2>9. z \in runs BY <2>8
    <2>10. ASSUME NEW q \in runs PROVE z <= q
      <3>1. PICK x \in full : x <= q + c - 1 BY <1>9
      <3>2. first <= x /\ x \in Int BY <2>1, <2>3
      <3>3. q \in Int BY <1>1
      <3> QED BY <2>4, <3>1, <3>2, <3>3
    <2>11. z # -1 BY <2>7
    <2> HIDE DEF z, runs
    <2> QED BY <2>6, <2>9, <2>10, <2>11 DEF z, start, runs, FirstRun
  <1> QED BY <1>10, <1>11

LEMMA FindsFirst ==
    ASSUME NEW m0, NEW n, Memory(m0, n), NEW cr3, SourcePML4(m0, n, cr3), SmallPages(m0, cr3),
           NEW q \in KernelSlots, ~EntryOf(m0, cr3, q).present,
           NEW r, r = PagingInitialize(m0, cr3, InOrder(1, n)), ~r.panic,
           Clean(m0, cr3, EntryOf(r.mem, r.root, PML4Size - 1).to), NEW c \in Nat \ {0}
    PROVE  FirstUntranslated(r.mem, r.root, c, FindAvailable(r.mem, r.root, c))
  <1>1. r \in Works(m0, n) /\ r.root = 1 /\ 1 <= n BY InitializeIs
  <1>2. PICK lo \in [Slots -> Nat], hi \in [Slots -> Nat] : Built(m0, n, cr3, r.mem, lo, hi)
    BY InitializeIs
  <1> DEFINE m == r.mem
             U == {page \in 0 .. LastPage - 1 : ~IsMapped(m, 1, PathOf(page))}
             V == {page \in 0 .. LastPage - 1 : Translate(m, 1, PathOf(page)) = <<>>}
  <1>3. m \in Memories(m0) BY <1>1 DEF Works, Memories
  <1>4. \A page \in 0 .. LastPage - 1 :
          Translate(m, 1, PathOf(page)) = <<>> <=> ~IsMapped(m, 1, PathOf(page))
    <2> TAKE page \in 0 .. LastPage - 1
    <2>1. PICK j \in Window, k \in Index, l \in Index : PathOf(page) = <<PML4Size - 1, j, k, l>>
      BY WindowPages
    <2>2. Clean(m0, cr3, EntryOf(m, 1, PML4Size - 1).to) BY <1>1
    <2> HIDE DEF m
    <2> QED BY <1>1, <1>2, <1>3, <2>1, <2>2, WindowIs DEF m
  <1> HIDE DEF m
  <1>5. U = V BY <1>4
  <1>6. U = {page \in 0 .. LastPage - 1 : ~IsMapped(m, 1, PathOf(page))} OBVIOUS
  <1> HIDE DEF U
  <1>7. FirstRun(U, c, FindAvailable(m, 1, c)) BY <1>6, FoundIs
  <1>8. FirstUntranslated(m, 1, c, FindAvailable(m, 1, c))
    BY <1>5, <1>7 DEF FirstUntranslated, FirstRun
  <1> QED BY <1>1, <1>8 DEF m

\* What Paging::Initialize has made of the boot loader's tables, and where
\* the search has been.
PagingTables(g) ==
    LET boot == BootTables[g.boot]
    IN PagingInitialize(boot.mem, boot.cr3, InOrder(1, g.frames))
SearchResult(r, f) ==
    f # <<>> => f[1] \in Counts /\ f[2] = FindAvailable(r.mem, r.root, f[1])
PagingResult(g, m) ==
    /\ g.boot \in DOMAIN BootTables /\ g.frames \in FreeFrames
    /\ m[2].tables = PagingTables(g) /\ ~m[2].tables.panic
    /\ SearchResult(m[2].tables, m[2].found)
    /\ m[2] = [tables |-> m[2].tables, found |-> m[2].found]
PagingInv == call = 7 /\ made # <<>> => PagingResult(given, made)

LEMMA PagingInvNext == StartInv /\ PagingInv /\ [StartNext]_startVars => PagingInv'
  <1> SUFFICES ASSUME StartInv, PagingInv, [StartNext]_startVars PROVE PagingInv'
    OBVIOUS
  <1>1. CASE Kept({5, 7, 8, 9, 12, 15}) \/ call' # 7
    BY <1>1 DEF Kept, PagingInv
  <1>2. CASE call' = 7 /\ InitializePaging
    <2>1. CASE made' = <<>>
      BY <2>1 DEF PagingInv
    <2>2. CASE made' # <<>>
      <3>1. made = <<>>
        BY <1>2 DEF InitializePaging
      <3>2. PICK i \in Initialized :
              /\ given' = [boot |-> i.boot, frames |-> i.frames] /\ ~i.tables.panic
              /\ made' = Done([tables |-> i.tables, found |-> <<>>])
        BY <1>2, <2>2, <3>1 DEF InitializePaging
      <3>3. PICK boot \in DOMAIN BootTables, frames \in FreeFrames :
              i = [boot |-> boot, frames |-> frames,
                   tables |-> PagingInitialize(BootTables[boot].mem, BootTables[boot].cr3,
                                               InOrder(1, frames))]
        BY DEF Initialized
      <3>4. /\ i.boot = boot /\ i.frames = frames
            /\ i.tables = PagingInitialize(BootTables[boot].mem, BootTables[boot].cr3,
                                           InOrder(1, frames))
        BY <3>3
      <3> DEFINE v == [tables |-> i.tables, found |-> <<>>]
      <3>5. v.tables = i.tables /\ v.found = <<>> /\ v = [tables |-> v.tables, found |-> v.found]
        OBVIOUS
      <3>6. made'[2] = v
        BY <3>2, Marks
      <3>7. given'.boot = boot /\ given'.frames = frames
        BY <3>2, <3>4
      <3>8. i.tables = PagingTables(given')
        BY <3>4, <3>7 DEF PagingTables
      <3> HIDE DEF v
      <3> QED BY <3>2, <3>5, <3>6, <3>7, <3>8 DEF PagingInv, PagingResult, SearchResult
    <2> QED BY <2>1, <2>2
  <1>3. CASE call' = 7 /\ \E n \in Counts : FindRange(n)
    <2>1. PICK n \in Counts : FindRange(n)
      BY <1>3
    <2> DEFINE t == made[2].tables
               f == <<n, FindAvailable(t.mem, t.root, n)>>
               v == [tables |-> t, found |-> f]
    <2>2. call = 7 /\ made # <<>> /\ given' = given
          /\ made' = Done([made[2] EXCEPT !.found = f])
      BY <1>3, <2>1 DEF FindRange
    <2>3. PagingResult(given, made)
      BY <2>2 DEF PagingInv
    <2>4. made[2] = [tables |-> t, found |-> made[2].found]
      BY <2>3 DEF PagingResult
    <2>5. [made[2] EXCEPT !.found = f] = v
      BY <2>4
    <2>6. made'[2] = v
      BY <2>2, <2>5, Marks
    <2>7. v.tables = t /\ v.found = f /\ v = [tables |-> v.tables, found |-> v.found]
      OBVIOUS
    <2>8. SearchResult(t, f)
      BY DEF SearchResult
    <2> HIDE DEF v, f
    <2> QED BY <2>2, <2>3, <2>6, <2>7, <2>8 DEF PagingInv, PagingResult
  <1> QED BY <1>1, <1>2, <1>3, ByCall

LEMMA BootTablesAre ==
    ASSUME NEW k \in DOMAIN BootTables, NEW n \in FreeFrames
    PROVE  LET boot == BootTables[k]
           IN /\ Memory(boot.mem, n) /\ SourcePML4(boot.mem, n, boot.cr3)
              /\ SmallPages(boot.mem, boot.cr3)
              /\ \E q \in KernelSlots : ~EntryOf(boot.mem, boot.cr3, q).present
  <1> DEFINE boot == BootTables[k]
  <1>1. /\ Memory(boot.mem, n) /\ boot.cr3 \in DOMAIN boot.mem
        /\ SourcePML4(boot.mem, n, boot.cr3) /\ SmallPages(boot.mem, boot.cr3)
    BY BootTablesAssumption
  <1>2. PICK q \in KernelSlots : ~boot.mem[boot.cr3][q].present
    BY KernelStartAssumption
  <1>3. boot.mem[boot.cr3] \in [Slots -> PageEntries]
    BY <1>1 DEF Memory
  <1>4. q \in Slots
    BY PagingInitAssumption DEF Slots, KernelSlots
  <1>5. EntryOf(boot.mem, boot.cr3, q) = boot.mem[boot.cr3][q]
    BY <1>1, <1>3, <1>4 DEF EntryOf
  <1> QED BY <1>1, <1>2, <1>5

\* For page tables of any shape and size that the boot loader may leave and
\* any number of free frames, DeepCopyPageTables and
\* ReserveHigherHalfPML4Slots either panic or leave tables that translate as
\* the boot loader's did, each in a frame of its own.
THEOREM CopyExactHolds == StartSpec => []CopyExact
  <1>1. StartInit => PagingInv
    BY DEF StartInit, PagingInv
  <1>2. ASSUME StartInv, PagingInv, Finished("paging")
        PROVE  LET boot == BootTables[given.boot]
               IN Copied(boot.mem, boot.cr3, InOrder(1, given.frames), made[2].tables)
    <2>1. call = 7 /\ made # <<>>
      BY <1>2, CallNumbers DEF StartInv, StartTypeOK
    <2>2. PagingResult(given, made)
      BY <1>2, <2>1 DEF PagingInv
    <2> DEFINE boot == BootTables[given.boot]
               n == given.frames
               r == made[2].tables
    <2>3. /\ given.boot \in DOMAIN BootTables /\ n \in FreeFrames
          /\ r = PagingInitialize(boot.mem, boot.cr3, InOrder(1, n)) /\ ~r.panic
      BY <2>2 DEF PagingResult, PagingTables
    <2>4. /\ Memory(boot.mem, n) /\ SourcePML4(boot.mem, n, boot.cr3)
          /\ \E q \in KernelSlots : ~EntryOf(boot.mem, boot.cr3, q).present
      BY <2>3, BootTablesAre
    <2> HIDE DEF boot, n, r
    <2>5. Copied(boot.mem, boot.cr3, InOrder(1, n), r)
      BY <2>3, <2>4, InitializeCopies
    <2> QED BY <2>5 DEF boot, n, r
  <1>3. StartInv /\ PagingInv => CopyExact
    BY <1>2 DEF CopyExact
  <1> QED
    BY <1>1, <1>3, StartInvInit, StartInvNext, PagingInvNext, PTL DEF StartSpec

\* For the same tables and any number of pages,
\* FindAvailableVirtualAddressRangeKernel returns the first run of pages that
\* the processor does not translate, and panics exactly if there is none.
THEOREM FindExactHolds == StartSpec => []FindExact
  <1>1. StartInit => PagingInv
    BY DEF StartInit, PagingInv
  <1>2. ASSUME StartInv, PagingInv, Finished("paging"), made[2].found # <<>>,
               Clean(BootTables[given.boot].mem, BootTables[given.boot].cr3,
                     EntryOf(made[2].tables.mem, made[2].tables.root, PML4Size - 1).to)
        PROVE  FirstUntranslated(made[2].tables.mem, made[2].tables.root,
                                 made[2].found[1], made[2].found[2])
    <2>1. call = 7 /\ made # <<>>
      BY <1>2, CallNumbers DEF StartInv, StartTypeOK
    <2>2. PagingResult(given, made)
      BY <1>2, <2>1 DEF PagingInv
    <2> DEFINE boot == BootTables[given.boot]
               n == given.frames
               r == made[2].tables
               c == made[2].found[1]
    <2>3. /\ given.boot \in DOMAIN BootTables /\ n \in FreeFrames
          /\ r = PagingInitialize(boot.mem, boot.cr3, InOrder(1, n)) /\ ~r.panic
          /\ c \in Counts /\ made[2].found[2] = FindAvailable(r.mem, r.root, c)
      BY <1>2, <2>2 DEF PagingResult, PagingTables, SearchResult
    <2>4. /\ Memory(boot.mem, n) /\ SourcePML4(boot.mem, n, boot.cr3)
          /\ SmallPages(boot.mem, boot.cr3)
          /\ \E q \in KernelSlots : ~EntryOf(boot.mem, boot.cr3, q).present
      BY <2>3, BootTablesAre
    <2>5. c \in Nat \ {0}
      BY <2>3, BootTablesAssumption
    <2>6. Clean(boot.mem, boot.cr3, EntryOf(r.mem, r.root, PML4Size - 1).to)
      BY <1>2
    <2> HIDE DEF boot, n, r, c
    <2>7. FirstUntranslated(r.mem, r.root, c, FindAvailable(r.mem, r.root, c))
      BY <2>3, <2>4, <2>5, <2>6, FindsFirst
    <2> QED BY <2>3, <2>7 DEF r, c
  <1>3. StartInv /\ PagingInv => FindExact
    BY <1>2 DEF FindExact, Clean
  <1> QED
    BY <1>1, <1>3, StartInvInit, StartInvNext, PagingInvNext, PTL DEF StartSpec

=============================================================================
