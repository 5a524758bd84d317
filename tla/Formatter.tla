------------------------------ MODULE Formatter ------------------------------
(***************************************************************************)
(* The writing half of Utility::Formatter: the check of a format string at *)
(* compile time, WriteArgs and the WriteValue of each type.  Text is a     *)
(* sequence of characters.  The parsing half is in CommandLine.            *)
(*                                                                         *)
(* A value is <<type, v>>; 64-bit integers have the scaled limits of       *)
(* CommandLine.  A char has a code.  A finite double is its sign, its      *)
(* integer part and the eighths behind the point: the arithmetic on such a *)
(* fraction is exact.                                                      *)
(***************************************************************************)
EXTENDS CommandLine, SequencesExt

Char(s, i) == IF i \in DOMAIN s THEN s[i] ELSE "NUL"

\* FormatString: how many arguments the string takes.  A turn of its loop,
\* and the loop, which has no more turns than the string has characters.
CountTurn(s, t) ==
    LET ptr == t.ptr
    IN CASE ptr > Len(s) -> t
         [] ptr <= Len(s) /\ Char(s, ptr) = "{" /\ Char(s, ptr + 1) = "}" ->
               [ptr |-> ptr + 2, count |-> t.count + 1]
         [] ptr <= Len(s) /\ [d \in 1 .. 4 |-> Char(s, ptr + d - 1)] = <<"{", "{", "}", "}">> ->
               [ptr |-> ptr + 4, count |-> t.count]
         [] OTHER -> [ptr |-> ptr + 1, count |-> t.count]
CountArgs(s) ==
    LET after[i \in 0 .. Len(s)] ==
            IF i = 0 THEN [ptr |-> 1, count |-> 0] ELSE CountTurn(s, after[i - 1])
    IN after[Len(s)].count

Digits == <<"0", "1", "2", "3", "4", "5", "6", "7", "8", "9", "A", "B", "C", "D", "E", "F">>

NoZero(value, base) ==             \* Mutant: nothing is written for 0
    LET digits[n \in 0 .. UINT64_MAX] ==
            IF n = 0 THEN <<>> ELSE Append(digits[n \div base], Digits[(n % base) + 1])
    IN digits[value]

WriteUnsigned(value, base) ==
    LET digits[n \in 0 .. UINT64_MAX] ==       \* tmp, in the order it is written
            IF n = 0 THEN <<>> ELSE Append(digits[n \div base], Digits[(n % base) + 1])
    IN IF value = 0 THEN <<"0">> ELSE digits[value]

\* The negative is made by unsigned arithmetic.
WriteSigned(value) ==
    LET W == UINT64_MAX + 1
    IN IF value < 0 THEN <<"-">> \o WriteUnsigned((W - (value % W)) % W, 10)
       ELSE WriteUnsigned(value, 10)

\* Line 12 compares as int, so that the codes below 32 pass as well.
CharCode(c) == CASE c = "BEL" -> 7 [] c = "\n" -> 10 [] c = "~" -> 126 [] c = "DEL" -> 127
WriteChar(c) ==
    IF CharCode(c) - 32 <= 94 \/ c \in {"\n", "\r", "\t"} THEN <<c>> ELSE <<"?">>

SixDigits(eighths) ==              \* the turns of the loop behind the point
    LET frac[i \in 0 .. 6] == IF i = 0 THEN eighths ELSE (frac[i - 1] * 10) % 8
    IN [i \in 1 .. 6 |-> Digits[((frac[i - 1] * 10) \div 8) + 1]]
WriteDouble(d) ==
    LET sign == IF d.negative THEN <<"-">> ELSE <<>>
    IN CASE d.kind = "nan" -> <<"n", "a", "n">>
         [] d.kind = "inf" -> sign \o <<"i", "n", "f">>
         [] OTHER -> sign \o WriteUnsigned(d.whole, 10) \o <<".">> \o SixDigits(d.eighths)

WriteValue(a) ==
    CASE a[1] \in {"uint8_t", "uint16_t", "uint32_t", "uint64_t"} -> WriteUnsigned(a[2], 10)
      [] a[1] \in {"int8_t", "int16_t", "int32_t", "int64_t"} -> WriteSigned(a[2])
      [] a[1] = "void*" -> <<"0", "x">> \o WriteUnsigned(a[2], 16)
      [] a[1] \in {"float", "double"} -> WriteDouble(a[2])
      [] a[1] = "bool" -> IF a[2] THEN <<"t", "r", "u", "e">> ELSE <<"f", "a", "l", "s", "e">>
      [] a[1] = "char" -> WriteChar(a[2])
      [] a[1] \in {"const char*", "StringView"} -> a[2]

\* WriteArgs(out, str, args): a turn of its loop after t.gone arguments,
\* and the loop.  An escape is looked for with one character between its
\* braces, and takes an argument with it.
WriteTurn(s, args, t) ==
    LET i == t.str
        k == t.gone
    IN CASE i > Len(s) -> t
         [] i <= Len(s) /\ k = Len(args) ->
               [str |-> Len(s) + 1, gone |-> k, text |-> t.text \o SubSeq(s, i, Len(s))]
         [] i <= Len(s) /\ k < Len(args) /\ Char(s, i) = "{" /\ Char(s, i + 1) = "}" ->
               [str |-> i + 2, gone |-> k + 1, text |-> t.text \o WriteValue(args[k + 1])]
         [] i <= Len(s) /\ k < Len(args) /\ Char(s, i) = "{" /\ Char(s, i + 1) = "{"
            /\ Char(s, i + 3) = "}" /\ Char(s, i + 4) = "}" ->
               [str |-> i + 5, gone |-> k + 1, text |-> t.text \o <<"{", "}">>]
         [] OTHER -> [str |-> i + 1, gone |-> k, text |-> t.text \o <<s[i]>>]
WriteArgs(s, args) ==
    LET after[i \in 0 .. Len(s)] ==
            IF i = 0 THEN [str |-> 1, gone |-> 0, text |-> <<>>]
            ELSE WriteTurn(s, args, after[i - 1])
    IN after[Len(s)].text

\* What is given to WriteValue.  A finite double is below 2^64: the cast to
\* uint64_t is undefined above.
IsValue(a) ==
    \/ a[1] \in {"uint8_t", "uint16_t", "uint32_t", "uint64_t", "void*"} /\ a[2] \in 0 .. UINT64_MAX
    \/ /\ a[1] \in {"int8_t", "int16_t", "int32_t", "int64_t"}
       /\ a[2] \in -INT64_MAX - 1 .. INT64_MAX
    \/ /\ a[1] \in {"float", "double"}
       /\ a[2] \in [kind : {"nan", "inf", "finite"}, negative : BOOLEAN, whole : 0 .. UINT64_MAX,
                    eighths : 0 .. 7]
    \/ a[1] = "bool" /\ a[2] \in BOOLEAN
    \/ a[1] = "char" /\ a[2] \in STRING
    \/ a[1] \in {"const char*", "StringView"} /\ a[2] \in Seq(STRING)

(***************************************************************************)
(* What a message says.                                                    *)
(***************************************************************************)
\* The text names the value: a decimal or hexadecimal numeral without
\* needless zeros, with a sign where the value is negative.
DigitOf(ch) == (CHOOSE k \in DOMAIN Digits : Digits[k] = ch) - 1
Reads(s, base, n) ==
    /\ s # <<>> /\ (Len(s) > 1 => s[1] # "0")
    /\ Weighed([k \in DOMAIN s |-> DigitOf(s[k])], base) = n
ReadsSigned(s, n) == IF n < 0 THEN s[1] = "-" /\ Reads(Tail(s), 10, -n) ELSE Reads(s, 10, n)
PointOf(s) == CHOOSE k \in DOMAIN s : s[k] = "."
ReadsFraction(s, whole, eighths) ==
    LET point == PointOf(s)
        part == SubSeq(s, point + 1, Len(s))
    IN /\ Reads(SubSeq(s, 1, point - 1), 10, whole)
       /\ Len(part) = 6 /\ Reads(<<"1">> \o part, 10, 1000000 + 125000 * eighths)
ReadsDouble(s, d) ==
    IF d.negative THEN s[1] = "-" /\ ReadsFraction(Tail(s), d.whole, d.eighths)
    ELSE ReadsFraction(s, d.whole, d.eighths)

Says(s, a) ==
    CASE a[1] = "uint64_t" -> Reads(s, 10, a[2])
      [] a[1] = "int64_t" -> ReadsSigned(s, a[2])
      [] a[1] = "void*" -> SubSeq(s, 1, 2) = <<"0", "x">> /\ Reads(SubSeq(s, 3, Len(s)), 16, a[2])
      [] a[1] = "double" /\ a[2].kind = "finite" -> ReadsDouble(s, a[2])
      [] OTHER -> TRUE

\* The placeholders of a format without "{{" are where "{}" stands; the
\* message is the format with the k-th of them replaced by the k-th value.
Placeholders(s) == {i \in 1 .. Len(s) - 1 : s[i] = "{" /\ s[i + 1] = "}"}
Escapes(s) == \E i \in 1 .. Len(s) - 1 : s[i] = "{" /\ s[i + 1] = "{"
MessageSays(s, args, message) ==
    LET piece(i) == CASE i \in Placeholders(s) ->
                            WriteValue(args[Cardinality({j \in Placeholders(s) : j <= i})])
                      [] i \notin Placeholders(s) /\ i - 1 \in Placeholders(s) -> <<>>
                      [] OTHER -> <<s[i]>>
    IN /\ message = FlattenSeq([i \in DOMAIN s |-> piece(i)])
       /\ \A k \in DOMAIN args : Says(WriteValue(args[k]), args[k])
==============================================================================
