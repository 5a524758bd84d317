--------------------------------- MODULE CPU ---------------------------------
(***************************************************************************)
(* Core::CPU on the core that starts: the instructions of InitializeSIMD   *)
(* and InitializeNX in their order, with what they change and what the     *)
(* processor demands of its control registers before it executes them;     *)
(* and the trimming of the brand string.                                   *)
(*                                                                         *)
(* A core is [has, cr0, cr4, xcr0, efer]: the features CPUID reports and   *)
(* the bits that are set.                                                  *)
(***************************************************************************)
EXTENDS Integers, Sequences, SequencesExt

CONSTANTS
    BrandChars,      \* how many characters CPUID returns (48)
    CharMax          \* UINT8_MAX, scaled with it: shiftIndex wraps there

ASSUME CPUAssumption == BrandChars \in Nat \ {0} /\ CharMax \in Nat /\ CharMax >= BrandChars

Features == {"FPU", "SSE", "AVX", "MSR", "Extended", "NX"}

(***************************************************************************)
(* InitializeSIMD.  Each instruction is named; those that need AVX are     *)
(* skipped without it.                                                     *)
(***************************************************************************)
SIMD(has) ==
    <<"fninit", "fnstsw", "fnstcw", "mov_cr0", "mov_cr4">>
    \o (IF "AVX" \in has THEN <<"xgetbv", "xsetbv">> ELSE <<>>)
    \o <<"fninit", "fldcw", "ldmxcsr", "addss", "addps">>
    \o (IF "AVX" \in has THEN <<"vaddps">> ELSE <<>>)

\* The tests whose failure panics: the FPU's status and control words, an
\* addition by the FPU and one by SSE.  A failure of AVX is only reported.
Verified == {"fnstsw", "fnstcw", "addss", "addps"}

\* InitializeNX, after CoreHasMSR and the extended leaves.
NX == <<"rdmsr", "wrmsr">>

CanSIMD(has) == {"FPU", "SSE"} \subseteq has
CanNX(has) == {"MSR", "Extended", "NX"} \subseteq has

\* What the processor executes, and what the instruction does to it.
FPUUsable(core) == core.cr0 \cap {"EM", "TS"} = {}
Legal(core, ins) ==
    /\ ins \in {"fninit", "fnstsw", "fnstcw", "fldcw"} => FPUUsable(core)
    /\ ins \in {"ldmxcsr", "addss", "addps"} => FPUUsable(core) /\ "OSFXSR" \in core.cr4
    /\ ins \in {"xgetbv", "xsetbv"} => "OSXSAVE" \in core.cr4
    /\ ins = "vaddps" => /\ "OSXSAVE" \in core.cr4 /\ {"SSE", "AVX"} \subseteq core.xcr0
                         /\ "TS" \notin core.cr0
    /\ ins \in {"rdmsr", "wrmsr"} => "MSR" \in core.has

Execute(core, ins) ==
    [core EXCEPT !.cr0 = IF ins = "mov_cr0" THEN (@ \ {"EM", "TS"}) \cup {"MP"} ELSE @,
                 !.cr4 = IF ins # "mov_cr4" THEN @
                         ELSE @ \cup {"OSFXSR"} \cup IF "AVX" \in core.has THEN {"OSXSAVE"} ELSE {},
                 !.xcr0 = IF ins = "xsetbv" THEN @ \cup {"x87", "SSE", "AVX"} ELSE @,
                 !.efer = IF ins = "wrmsr" THEN @ \cup {"NXE"} ELSE @]

(***************************************************************************)
(* ReadBrandString(buffer): the brand string is BrandChars characters;     *)
(* buffer has one more, and indices from 0.  The memory behind it goes as  *)
(* far as shiftIndex does.                                                 *)
(***************************************************************************)
NUL == "NUL"
IsCharWhitespace(c) == c \in {" ", "\t", "\n", "VT", "\f", "\r"}

TrimOneShort(buffer) ==            \* Mutant: starts one character too early
    LET kept == {i \in 0 .. BrandChars - 2 : buffer[i] # NUL /\ ~IsCharWhitespace(buffer[i])}
    IN [i \in DOMAIN buffer |->
          IF i \in (0 .. BrandChars) \ {BrandChars - 1} /\ \A k \in kept : k < i
          THEN NUL ELSE buffer[i]]

\* The loop over charIndex, from the end.
TrimTrailing(buffer) ==
    LET kept == {i \in 0 .. BrandChars - 1 : buffer[i] # NUL /\ ~IsCharWhitespace(buffer[i])}
    IN [i \in DOMAIN buffer |->
          IF i \in 0 .. BrandChars /\ \A k \in kept : k < i THEN NUL ELSE buffer[i]]

BrandBuffer(brand) ==
    TrimTrailing([i \in 0 .. CharMax |-> IF i < BrandChars THEN brand[i + 1] ELSE "other"])

\* The first character that is not white space.
StartIndex(buffer) ==
    CHOOSE i \in 0 .. BrandChars :
        /\ buffer[i] = NUL \/ ~IsCharWhitespace(buffer[i])
        /\ \A k \in 0 .. i - 1 : IsCharWhitespace(buffer[k])

\* An iteration of the loop that shifts, or its end; [buffer, start, shift].
Shifting(b) == b.start > 0 /\ b.buffer[b.start + 1] # NUL
ShiftOne(b) == [b EXCEPT !.buffer[b.shift] = b.buffer[b.start + 1],
                         !.shift = (@ + 1) % (CharMax + 1)]
ShiftEnd(b) == IF b.start > 0 THEN [b EXCEPT !.buffer[b.shift] = NUL] ELSE b

Strlen(buffer) == CHOOSE n \in DOMAIN buffer :
                    buffer[n] = NUL /\ \A k \in 0 .. n - 1 : buffer[k] # NUL
GetCPUName(b) == [k \in 1 .. Strlen(b.buffer) |-> b.buffer[k - 1]]

\* The name is the brand string up to its last visible character.
NameOf(brand, name) ==
    /\ name = SubSeq(brand, 1, Len(name))
    /\ name # <<>> => Last(name) # NUL /\ ~IsCharWhitespace(Last(name))
    /\ \A k \in Len(name) + 1 .. Len(brand) : brand[k] = NUL \/ IsCharWhitespace(brand[k])
==============================================================================
