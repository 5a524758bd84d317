------------------------------- MODULE MCStart -------------------------------
(***************************************************************************)
(* Inputs for the start of the kernel.                                     *)
(***************************************************************************)
EXTENDS KernelStart

\* Every line of up to five characters that matter to the splitting, and
\* every value of up to four that matter to the parsers, with each digit in
\* its place, behind an argument without a value.
Lines == BoundedSeq({"a", "1", "=", " ", "\""}, 5)
Values == BoundedSeq({"0", "1", "5", "7", "8", "a", "x", "-"}, 4)
HexDigits == {"0", "1", "2", "3", "4", "5", "6", "7", "8", "9",
              "a", "b", "c", "d", "e", "f", "A", "B", "C", "D", "E", "F"}
EveryDigit == UNION {{<<d>>, <<"0", "x", d>>, <<"0", "X", d>>, <<"0", "x", "0", d>>} :
                       d \in HexDigits \cup {"g", "G"}}
Words == {<<"t", "r", "u", "e">>, <<"f", "a", "l", "s", "e">>, <<"t", "r", "u">>}
AllLines == Lines \cup {<<"b", " ", "a", "=">> \o v : v \in Values \cup EveryDigit \cup Words}
BoolLines == {<<"a", "=">> \o v : v \in Words \cup {<<"0">>, <<"1">>, <<"2">>}}
Names == {<<"a">>, <<"b">>}
LogLevelName == <<"a">>

\* Higher-half addresses, with each lower bit on its own.
HigherHalf == {(31 .. 63) \cup {b} : b \in 0 .. 30}

\* The boot loader's tables, in frames 20 and up.  Slot 3 maps memory with
\* huge pages of both sizes or one, slot 4 is absent, and slot 5 maps some of
\* the 18 pages of the kernel's window with small ones, and the first page
\* below it.  The frames that are still free (1 to 16), and frame 0, are
\* clean or full of something.
Entry(f, huge, flags) == [present |-> TRUE, huge |-> huge, to |-> f, flags |-> flags]
Edges == {0, 1, 8, 9, 16, 17}
Windows == {{0}, {1}, {17}, {0, 2}, {2, 3}, {8, 9}, {1, 4, 10}}
           \cup {(0 .. 17) \ {a, b} : a, b \in Edges} \cup {(0 .. 17) \ (a .. a + 2) : a \in {0, 7, 15}}
Row(f) == [i \in Slots |-> IF i < Len(f) THEN f[i + 1] ELSE NoEntry]
Tables(w, big, dirty) ==
    LET Link(f, a, b) == IF w \cap (a .. b) # {} THEN Entry(f, FALSE, {"ReadWrite"}) ELSE NoEntry
        Page(p) == IF p \in w THEN Entry(60 + p, FALSE, {"ReadWrite", "Dirty"}) ELSE NoEntry
    IN [f \in 0 .. 33 |->
          CASE f = 20 -> Row(<<NoEntry, NoEntry, NoEntry, Entry(30, FALSE, {"ReadWrite"}),
                               NoEntry, Entry(21, FALSE, {"ReadWrite"})>>)
            [] f = 21 -> Row(<<Entry(32, FALSE, {"ReadWrite"}), Link(22, 0, 8), Link(23, 9, 17)>>)
            [] f \in 22 .. 23 -> Row([k \in 1 .. 3 |-> LET t == 3 * (f - 22) + k - 1
                                                      IN Link(24 + t, 3 * t, 3 * t + 2)])
            [] f \in 24 .. 29 -> Row([k \in 1 .. 3 |-> Page(3 * (f - 24) + k - 1)])
            [] f = 30 -> Row(<<IF big THEN Entry(50, TRUE, {"ReadWrite", "NoExecute"}) ELSE NoEntry,
                               Entry(31, FALSE, {"ReadWrite"})>>)
            [] f = 31 -> Row(<<Entry(52, TRUE, {"ReadWrite", "NoExecute"})>>)
            [] f = 32 -> Row(<<Entry(33, FALSE, {"ReadWrite"})>>)
            [] f = 33 -> Row(<<Entry(59, FALSE, {"ReadWrite"})>>)
            [] f < 20 /\ dirty -> [i \in Slots |-> Entry(58, FALSE, {})]
            [] OTHER -> [i \in Slots |-> NoEntry]]
SomeTables == [shape \in Windows \X BOOLEAN \X BOOLEAN |->
                 [mem |-> Tables(shape[1], shape[2], shape[3]), cr3 |-> 20]]

Visible == {b \in BoundedSeq({"x", " ", NUL}, 4) :
              /\ Len(b) = 4
              /\ \A k \in 1 .. 3 : b[k] = NUL => b[k + 1] = NUL}
PaddedBrands == {b \in Visible : IsCharWhitespace(b[1])}

\* Firmware with none, one or two tables of a kind, at either revision, and
\* with tables that do not add up or are too short.
Fadt(length, dsdt, x) == [sig |-> "FACP", length |-> length, dsdt |-> dsdt, xDsdt |-> x]
DSDT(n) == [sig |-> "DSDT", n |-> n]
Fadts == {Fadt(116, DSDT(1), Wild), Fadt(116, NullPointer, Wild), Fadt(244, DSDT(1), DSDT(2)),
          Fadt(244, DSDT(1), NullPointer), Fadt(244, NullPointer, NullPointer)}
Others == {[sig |-> "APIC", n |-> 1], [sig |-> "SSDT", n |-> 1], [sig |-> "SSDT", n |-> 2]}
Pointers == {<<>>} \cup {<<t>> : t \in Others \cup Fadts}
            \cup {<<t, f>> : t \in Others, f \in Fadts}
            \cup {<<f, t, u>> : f \in Fadts, t, u \in Others}
SdtOf(pointers, size, sum) ==
    [sum |-> sum, length |-> SizeOfSDTHeader + size * Len(pointers), pointers |-> pointers]
Empty == [sum |-> 0, length |-> 0, pointers |-> <<>>]
Firmware(revision, pointers, sum, extendedSum, length, rootSum) ==
    [revision |-> revision, sum |-> sum, extendedSum |-> extendedSum, length |-> length,
     rsdt |-> IF revision = 0 THEN SdtOf(pointers, 4, rootSum) ELSE Empty,
     xsdt |-> IF revision = 0 THEN Empty ELSE SdtOf(pointers, 8, rootSum)]
SomeFirmwares ==
    {Firmware(rev, p, 0, 256, 36, 512) : rev \in {0, 2}, p \in Pointers}
    \cup {Firmware(rev, <<Fadt(244, DSDT(1), DSDT(2))>>, sum, ext, length, root) :
            rev \in {0, 2}, sum, ext, root \in {0, 1}, length \in {20, 36}}
SomeSignatures == {"APIC", "SSDT", "DSDT", "FACP", "RSDT", "XSDT"}

\* Every format of up to five characters that matter, with values of each
\* type, at its limits too.
Number(v) == <<"uint64_t", v>>
Double(kind, negative, whole, eighths) ==
    <<"double", [kind |-> kind, negative |-> negative, whole |-> whole,
                               eighths |-> eighths]>>
Arguments ==
    {Number(v) : v \in {0, 9, 10, UINT64_MAX}}
    \cup {<<"int64_t", v>> : v \in {-INT64_MAX - 1, -1, 0, INT64_MAX}}
    \cup {<<"void*", v>> : v \in {0, UINT64_MAX}}
    \cup {Double("finite", n, 12, e) : n \in BOOLEAN, e \in 0 .. 7}
    \cup {Double("nan", FALSE, 0, 0), Double("inf", TRUE, 0, 0)}
    \cup {<<"char", c>> : c \in {"BEL", "\n", "~", "DEL"}}
    \cup {<<"bool", TRUE>>, <<"StringView", <<"{", "}">>>>}
SomeMessages ==
    UNION {{[format |-> f, args |-> a] :
              a \in [1 .. CountArgs(f) -> IF CountArgs(f) < 2 THEN Arguments
                                          ELSE {Number(0), <<"StringView", <<"{", "}">>>>}]} :
             f \in BoundedSeq({"{", "}", "a"}, 5)}
OneMessage == {[format |-> <<"a">>, args |-> <<>>]}
==============================================================================
