--------------------------- MODULE VectorAllocator ---------------------------
(***************************************************************************)
(* IDT::AllocateVector and IDT::FreeVector on _allocatedVectors, a bitmap  *)
(* of bytes without a lock.  Each read and each write of a byte is a step  *)
(* (the kernel is built with -O0), so that the callers, on several CPUs or *)
(* in a handler, can get in between.  A byte is the set of its set bits.   *)
(***************************************************************************)
EXTENDS Naturals, FiniteSets

CONSTANTS
    Callers,
    Bytes,       \* bytes of _allocatedVectors (32)
    Bits,        \* bits of a byte (8)
    LowBytes,    \* bytes that Initialize fills: the exceptions (4), with vector 0
    TopBits      \* bits that it sets in the last byte (5, 6 and 7)

ASSUME VectorAssumption ==
    /\ Bytes \in Nat \ {0} /\ Bytes % 2 = 0
    /\ Bits \in {2, 4, 8} /\ LowBytes \in 1 .. Bytes - 1
    /\ TopBits \subseteq 1 .. Bits - 1

Byte == 0 .. Bytes - 1
Bit == 0 .. Bits - 1
Full == Bit                             \* 0xFF
Vectors == 0 .. Bytes * Bits - 1

VARIABLES
    allocatedVectors,  \* _allocatedVectors
    vpc,
    i,                 \* i[c]: the loop variable of AllocateVector
    bit,               \* bit[c]: the bit to set, Bits if none was clear
    old,               \* old[c]: the byte that |= or &= has read
    result,            \* result[c]: what AllocateVector returns
    own,               \* own[c]: the vectors c was given and has not freed
    overlapped         \* two calls have run at the same time (only observed)

vectorVars == <<allocatedVectors, vpc, i, bit, old, result, own, overlapped>>

\* IDT::Initialize, lines 42-49.
VectorInit ==
    /\ allocatedVectors = [b \in Byte |-> IF b < LowBytes THEN Full
                                          ELSE IF b = Bytes - 1 THEN TopBits ELSE {}]
    /\ vpc = [c \in Callers |-> "idle"]
    /\ i = [c \in Callers |-> 0]
    /\ bit = [c \in Callers |-> 0]
    /\ old = [c \in Callers |-> {}]
    /\ result = [c \in Callers |-> 0]
    /\ own = [c \in Callers |-> {}]
    /\ overlapped = FALSE

Reserved == {v \in Vectors : \/ v \div Bits < LowBytes
                             \/ v \div Bits = Bytes - 1 /\ v % Bits \in TopBits}

Goto(c, label) == vpc' = [vpc EXCEPT ![c] = label]

BeginCall(c, label) == /\ Goto(c, label)
                       /\ overlapped' = (overlapped \/ \E d \in Callers : vpc[d] # "idle")

(***************************************************************************)
(* AllocateVector.                                                         *)
(***************************************************************************)
AllocateVector(c) ==
    /\ vpc[c] = "idle"
    /\ i' = [i EXCEPT ![c] = 0]
    /\ BeginCall(c, "look")
    /\ UNCHANGED <<allocatedVectors, bit, old, result, own>>

LookFull(c) ==                          \* the loop goes on
    /\ vpc[c] = "look" /\ i[c] < Bytes
    /\ allocatedVectors[i[c]] = Full
    /\ i' = [i EXCEPT ![c] = @ + 1]
    /\ UNCHANGED <<allocatedVectors, vpc, bit, old, result, own, overlapped>>

LookFree(c) ==
    /\ vpc[c] = "look" /\ i[c] < Bytes
    /\ allocatedVectors[i[c]] # Full
    /\ Goto(c, "ffs")
    /\ UNCHANGED <<allocatedVectors, i, bit, old, result, own, overlapped>>

LookEnd(c) ==
    /\ vpc[c] = "look" /\ i[c] = Bytes
    /\ result' = [result EXCEPT ![c] = 0]
    /\ Goto(c, "return")
    /\ UNCHANGED <<allocatedVectors, i, bit, old, own, overlapped>>

LastClear(byte) ==                      \* Mutant: the highest clear bit
    CHOOSE b \in Bit : b \notin byte /\ \A a \in Bit : a > b => a \in byte

\* __builtin_ffs(~byte) - 1.  The complement is an int: when the byte has
\* become full since the test, the first set bit is the one above the byte.
FirstClear(byte) == CHOOSE b \in 0 .. Bits :
                        /\ b \notin byte
                        /\ \A a \in 0 .. b - 1 : a \in byte

FindBit(c) ==
    /\ vpc[c] = "ffs"
    /\ bit' = [bit EXCEPT ![c] = FirstClear(allocatedVectors[i[c]])]
    /\ Goto(c, "or_read")
    /\ UNCHANGED <<allocatedVectors, i, old, result, own, overlapped>>

OrRead(c) ==                            \* byte |= 1 << bit, the read
    /\ vpc[c] = "or_read"
    /\ old' = [old EXCEPT ![c] = allocatedVectors[i[c]]]
    /\ Goto(c, "or_write")
    /\ UNCHANGED <<allocatedVectors, i, bit, result, own, overlapped>>

\* (i << 3) | bit, where bit may be one above the byte.
Vector(c) == IF bit[c] \in Bit THEN i[c] * Bits + bit[c]
             ELSE IF i[c] % 2 = 1 THEN i[c] * Bits ELSE (i[c] + 1) * Bits

OrForgotten(c) ==                       \* Mutant: the bit is not set
    /\ vpc[c] = "or_write"
    /\ allocatedVectors' = [allocatedVectors EXCEPT ![i[c]] = old[c]]
    /\ result' = [result EXCEPT ![c] = Vector(c)]
    /\ Goto(c, "return")
    /\ UNCHANGED <<i, bit, old, own, overlapped>>

OrWrite(c) ==                           \* the write, cut to a byte
    /\ vpc[c] = "or_write"
    /\ allocatedVectors' = [allocatedVectors EXCEPT ![i[c]] = (old[c] \cup {bit[c]}) \cap Bit]
    /\ result' = [result EXCEPT ![c] = Vector(c)]
    /\ Goto(c, "return")
    /\ UNCHANGED <<i, bit, old, own, overlapped>>

ReturnVector(c) ==                      \* 0 tells the caller that none is left
    /\ vpc[c] = "return"
    /\ own' = IF result[c] = 0 THEN own ELSE [own EXCEPT ![c] = @ \cup {result[c]}]
    /\ i' = [i EXCEPT ![c] = 0]
    /\ bit' = [bit EXCEPT ![c] = 0]
    /\ old' = [old EXCEPT ![c] = {}]
    /\ result' = [result EXCEPT ![c] = 0]
    /\ Goto(c, "idle")
    /\ UNCHANGED <<allocatedVectors, overlapped>>

(***************************************************************************)
(* FreeVector(vector), of a vector the caller owns.                        *)
(***************************************************************************)
FreeVector(c, v) ==                     \* byte &= ~(1 << bit), the read
    /\ vpc[c] = "idle"
    /\ v \in own[c]
    /\ own' = [own EXCEPT ![c] = @ \ {v}]
    /\ i' = [i EXCEPT ![c] = v \div Bits]
    /\ bit' = [bit EXCEPT ![c] = v % Bits]
    /\ old' = [old EXCEPT ![c] = allocatedVectors[v \div Bits]]
    /\ BeginCall(c, "and_write")
    /\ UNCHANGED <<allocatedVectors, result>>

AndWholeByte(c) ==                      \* Mutant: & (1 << bit), without the ~
    /\ vpc[c] = "and_write"
    /\ allocatedVectors' = [allocatedVectors EXCEPT ![i[c]] = old[c] \cap {bit[c]}]
    /\ Goto(c, "return")
    /\ UNCHANGED <<i, bit, old, result, own, overlapped>>

AndWrite(c) ==
    /\ vpc[c] = "and_write"
    /\ allocatedVectors' = [allocatedVectors EXCEPT ![i[c]] = old[c] \ {bit[c]}]
    /\ Goto(c, "return")
    /\ UNCHANGED <<i, bit, old, result, own, overlapped>>

VectorNext == \E c \in Callers :
                  \/ AllocateVector(c) \/ LookFull(c) \/ LookFree(c) \/ LookEnd(c)
                  \/ FindBit(c) \/ OrRead(c) \/ OrWrite(c) \/ ReturnVector(c)
                  \/ \E v \in own[c] : FreeVector(c, v)
                  \/ AndWrite(c)

VectorSpec == VectorInit /\ [][VectorNext]_vectorVars

(***************************************************************************)
(* Properties.                                                             *)
(***************************************************************************)
\* The types; above all, no caller is returned a number beyond the bitmap,
\* even when the byte that AllocateVector looks at fills up under its hands.
TypeOK ==
    /\ allocatedVectors \in [Byte -> SUBSET Bit]
    /\ vpc \in [Callers -> {"idle", "look", "ffs", "or_read", "or_write", "return", "and_write"}]
    /\ i \in [Callers -> 0 .. Bytes]
    /\ bit \in [Callers -> 0 .. Bits]
    /\ old \in [Callers -> SUBSET Bit]
    /\ result \in [Callers -> Vectors]
    /\ own \in [Callers -> SUBSET Vectors]
    /\ overlapped \in BOOLEAN

Allocated == {v \in Vectors : v % Bits \in allocatedVectors[v \div Bits]}

\* However the callers interleave, AllocateVector gives none of them a
\* vector that Initialize has reserved (exceptions, 253 to 255): a byte that
\* fills up under its hands leads it to another vector, but not to those.
ReservedNeverGiven == \A c \in Callers : own[c] \cap Reserved = {}

\* What keeps them safe: the reserved bits of a byte stay set, in the bitmap
\* and in every copy of a byte that a call will write back, and no call picks
\* one of them.  The bit above a full byte stands for bit 0 of a byte.
ReservedBits(b) == IF b < LowBytes THEN Bit ELSE IF b = Bytes - 1 THEN TopBits ELSE {}
BytesInv == \A b \in Byte : ReservedBits(b) \subseteq allocatedVectors[b]
CallInv ==
    \A c \in Callers :
        /\ vpc[c] \in {"ffs", "or_read", "or_write", "and_write"} => i[c] \in LowBytes .. Bytes - 1
        /\ vpc[c] \in {"or_write", "and_write"} => ReservedBits(i[c]) \subseteq old[c]
        /\ vpc[c] \in {"or_read", "or_write", "and_write"} => bit[c] \notin ReservedBits(i[c])
        /\ result[c] # 0 => result[c] \notin Reserved
VectorInv == TypeOK /\ BytesInv /\ CallInv /\ ReservedNeverGiven

Quiet == ~overlapped /\ \A c \in Callers : vpc[c] = "idle"

\* As long as no two calls have overlapped, the set bits are, between the
\* calls, the reserved vectors and the ones handed out, each to one caller;
\* and AllocateVector returns 0 only when every vector is taken, and otherwise
\* the lowest one that was not.
VectorsExact ==
    /\ Quiet => /\ Allocated = Reserved \cup UNION {own[c] : c \in Callers}
                /\ \A c, d \in Callers : c # d => own[c] \cap own[d] = {}
    /\ ~overlapped => \A c \in Callers : vpc[c] = "return" =>
         /\ i[c] = Bytes => Allocated = Vectors
         /\ result[c] # 0 => 0 .. result[c] \subseteq Allocated
==============================================================================
