----------------------------- MODULE CommandLine -----------------------------
(***************************************************************************)
(* Utility::CommandLineExtractor on the command line that the boot loader  *)
(* passes: SplitArguments, one iteration of its loop per step, and the     *)
(* four GetValue<T>, with the number parsers of Utility::Formatter they    *)
(* end in.  A line is a sequence of characters and pos counts from 0, as   *)
(* in the code.                                                            *)
(*                                                                         *)
(* Every call of GetValue splits the line again, with the same result:     *)
(* here it is split once, by Initialize.  KernelStart starts it, and has    *)
(* the case that there is no response; pc is "none" outside the call.      *)
(***************************************************************************)
EXTENDS Integers, Sequences, FiniteSets

CONSTANTS
    CommandLines,    \* the lines tried
    Identifiers,     \* the identifiers asked for, none empty
    UINT64_MAX,      \* scaled down, so that numbers reach it
    INT64_MAX

ASSUME CommandLineAssumption ==
    /\ INT64_MAX \in Nat /\ UINT64_MAX = 2 * INT64_MAX + 1
    /\ <<>> \notin Identifiers
    /\ \A line \in CommandLines : line \in Seq(STRING)

VARIABLES
    cmdline,          \* _response->cmdline
    pc,               \* where Initialize is
    pos, previouspos, quotes, count, out,     \* the locals of SplitArguments
    hasCommandLine,   \* _hasCommandLine
    asked, result     \* a GetValue: <<T, identifier>> and its answer

loop == <<pos, previouspos, quotes, count, out>>
vars == <<cmdline, pc, loop, hasCommandLine, asked, result>>

None == <<"no value">>                      \* Optional()
Some(v) == <<"value", v>>
Types == {"bool", "uint64_t", "int64_t", "StringView"}
EQ == "="
QUOTE == "\""
SPACE == " "

(***************************************************************************)
(* StringView.                                                             *)
(***************************************************************************)
Substring(s, start, length) ==
    IF start >= Len(s) THEN <<>> ELSE SubSeq(s, start + 1, start + length)

\* IndexOf("=") where there is one; without one in a view that is not empty
\* it is npos.  On an empty view see LeavesLine.
Occurrences(s, ch) == {i \in 0 .. Len(s) - 1 : s[i + 1] = ch}
CountOf(s, ch) == Cardinality(Occurrences(s, ch))
IndexOf(s, ch) == CHOOSE i \in Occurrences(s, ch) : \A j \in Occurrences(s, ch) : i <= j

(***************************************************************************)
(* Formatter::Parse.                                                       *)
(***************************************************************************)
DigitValue(ch) ==                           \* '0'-'9', 'a'-'f', 'A'-'F'
    CASE ch = "0" -> 0 [] ch = "1" -> 1 [] ch = "2" -> 2 [] ch = "3" -> 3 [] ch = "4" -> 4
      [] ch = "5" -> 5 [] ch = "6" -> 6 [] ch = "7" -> 7 [] ch = "8" -> 8 [] ch = "9" -> 9
      [] ch \in {"a", "A"} -> 10 [] ch \in {"b", "B"} -> 11 [] ch \in {"c", "C"} -> 12
      [] ch \in {"d", "D"} -> 13 [] ch \in {"e", "E"} -> 14 [] ch \in {"f", "F"} -> 15
      [] OTHER -> -1

ParseBool(src) ==
    CASE src = <<"1">> -> Some(TRUE) [] src = <<"0">> -> Some(FALSE)
      [] src = <<"t", "r", "u", "e">> -> Some(TRUE)
      [] src = <<"f", "a", "l", "s", "e">> -> Some(FALSE)
      [] OTHER -> None

LaterOverflowCheck(src, base) ==            \* Mutant: does not leave room for d
    LET parsed[i \in 0 .. Len(src)] ==
            IF i = 0 THEN Some(0)
            ELSE LET d == DigitValue(src[i])
                 IN IF \/ parsed[i - 1] = None \/ d < 0 \/ d >= base
                       \/ parsed[i - 1][2] > UINT64_MAX \div base
                    THEN None
                    ELSE Some((parsed[i - 1][2] * base + d) % (UINT64_MAX + 1))
    IN IF src = <<>> THEN None ELSE parsed[Len(src)]

ParseInteger(src, base) ==
    LET parsed[i \in 0 .. Len(src)] ==      \* result after i digits
            IF i = 0 THEN Some(0)
            ELSE LET d == DigitValue(src[i])
                 IN IF \/ parsed[i - 1] = None \/ d < 0 \/ d >= base
                       \/ parsed[i - 1][2] > (UINT64_MAX - d) \div base
                    THEN None
                    ELSE Some((parsed[i - 1][2] * base + d) % (UINT64_MAX + 1))
    IN IF src = <<>> THEN None ELSE parsed[Len(src)]

ParseUint(src) ==
    IF Len(src) >= 2 /\ Substring(src, 0, 2) \in {<<"0", "x">>, <<"0", "X">>}
    THEN ParseInteger(SubSeq(src, 3, Len(src)), 16)
    ELSE ParseInteger(src, 10)

ParseInt(src) ==
    LET negative == Substring(src, 0, 1) = <<"-">>
        signed == negative \/ Substring(src, 0, 1) = <<"+">>
        mag == ParseInteger(IF signed THEN Tail(src) ELSE src, 10)
        limit == IF negative THEN INT64_MAX + 1 ELSE INT64_MAX
    IN IF src = <<>> \/ mag = None THEN None
       ELSE IF mag[2] > limit THEN None
       ELSE Some(IF negative THEN -mag[2] ELSE mag[2])

ParseView(value) ==                         \* lines 218-224, "strip the quotes"
    LET v == IF Substring(value, 0, 1) = <<QUOTE>>
             THEN Substring(value, 1, Len(value) - 2) ELSE value
    IN IF v = <<>> THEN None ELSE Some(v)

Parse(T, src) == CASE T = "bool" -> ParseBool(src) [] T = "uint64_t" -> ParseUint(src)
                   [] T = "int64_t" -> ParseInt(src) [] T = "StringView" -> ParseView(src)

(***************************************************************************)
(* GetValue<T>(identifier): the loop over the arguments, from the first.   *)
(***************************************************************************)
Name(arg) == IF CountOf(arg, EQ) = 0 THEN arg ELSE Substring(arg, 0, IndexOf(arg, EQ))

GetValue(T, identifier) ==
    LET n == count + 1
        from[i \in 1 .. n + 1] ==
            CASE i > n -> IF T = "bool" THEN Some(FALSE) ELSE None
              [] i <= n /\ T = "bool" /\ out[i] = identifier -> Some(TRUE)
              [] i <= n /\ CountOf(out[i], EQ) > 0 /\ Name(out[i]) = identifier ->
                    Parse(T, SubSeq(out[i], IndexOf(out[i], EQ) + 2, Len(out[i])))
              [] OTHER -> from[i + 1]
    IN IF hasCommandLine THEN from[1] ELSE None

\* On an empty argument size - 1 wraps around and IndexOf goes on behind the
\* view until it meets a "=" or memory that is not mapped; what it returns
\* does no harm, as Substring of the empty view is empty again.  An empty
\* first argument begins the line, so a "=" of the line stops the search; a
\* later one is the default view, "".  The loop of GetValue comes to argument
\* i if none before it has the answer.
LeavesLine(T, identifier) ==
    \E i \in 1 .. count + 1 :
        /\ out[i] = <<>> /\ (i > 1 \/ Occurrences(cmdline, EQ) = {})
        /\ \A j \in 1 .. i - 1 : /\ T = "bool" => out[j] # identifier
                                 /\ CountOf(out[j], EQ) > 0 => Name(out[j]) # identifier

(***************************************************************************)
(* SplitArguments: an iteration of its loop.  out grows as arguments are   *)
(* stored; one that is never stored keeps its default, the empty view.     *)
(***************************************************************************)
At(p) == Substring(cmdline, p, 1)
Store == out' = Append(out, Substring(cmdline, previouspos, pos - previouspos))

SplitLast ==                                \* pos == src.Size()
    /\ pc = "split" /\ pos = Len(cmdline)
    /\ Store
    /\ pc' = "initialize"
    /\ UNCHANGED <<cmdline, pos, previouspos, quotes, count, hasCommandLine, asked, result>>

SplitEnd ==                                 \* the loop ends beyond the line
    /\ pc = "split" /\ pos > Len(cmdline)
    /\ out' = Append(out, <<>>)
    /\ pc' = "initialize"
    /\ UNCHANGED <<cmdline, pos, previouspos, quotes, count, hasCommandLine, asked, result>>

\* The position after the spaces that start at p.
SkipSpaces(p) == CHOOSE q \in p .. Len(cmdline) :
                    (\A r \in p .. q - 1 : At(r) = <<SPACE>>) /\ At(q) # <<SPACE>>

SplitInQuotes ==                            \* Mutant: quotes is not looked at
    /\ pc = "split" /\ pos < Len(cmdline) /\ At(pos) = <<SPACE>>
    /\ Store
    /\ previouspos' = pos + 1
    /\ count' = count + 1
    /\ LET next == SkipSpaces(pos + 1)
       IN /\ quotes' = (quotes # (At(next) = <<QUOTE>>))
          /\ pos' = next + 1
    /\ UNCHANGED <<cmdline, pc, hasCommandLine, asked, result>>

SplitSpace ==                               \* lines 23-43
    /\ pc = "split" /\ pos < Len(cmdline) /\ At(pos) = <<SPACE>> /\ ~quotes
    /\ Store
    /\ previouspos' = pos + 1
    /\ count' = count + 1
    /\ LET next == SkipSpaces(pos + 1)
       IN /\ quotes' = (quotes # (At(next) = <<QUOTE>>))
          /\ pos' = next + 1
    /\ UNCHANGED <<cmdline, pc, hasCommandLine, asked, result>>

SplitStays ==                               \* Mutant: pos stays where it is in quotes
    /\ pc = "split" /\ pos < Len(cmdline) /\ ~(At(pos) = <<SPACE>> /\ ~quotes)
    /\ quotes' = (quotes # (At(pos) = <<QUOTE>>))
    /\ pos' = IF quotes THEN pos ELSE pos + 1
    /\ UNCHANGED <<cmdline, pc, previouspos, count, out, hasCommandLine, asked, result>>

SplitSkip ==                                \* lines 37-43
    /\ pc = "split" /\ pos < Len(cmdline) /\ ~(At(pos) = <<SPACE>> /\ ~quotes)
    /\ quotes' = (quotes # (At(pos) = <<QUOTE>>))
    /\ pos' = pos + 1
    /\ UNCHANGED <<cmdline, pc, previouspos, count, out, hasCommandLine, asked, result>>

\* The rest of Initialize, which only logs identifiers that it meets twice.
Initialize ==
    /\ pc = "initialize"
    /\ hasCommandLine' = TRUE
    /\ pc' = "ready"
    /\ UNCHANGED <<cmdline, loop, asked, result>>

Ask(T, identifier) ==                       \* GetValue changes nothing: once is enough
    /\ pc = "ready" /\ asked = <<>>
    /\ asked' = <<T, identifier>>
    /\ result' = GetValue(T, identifier)
    /\ UNCHANGED <<cmdline, pc, loop, hasCommandLine>>

(***************************************************************************)
(* What the line means, said without a loop.                               *)
(***************************************************************************)
\* A separator is the first space of a run of spaces outside quotes.
Quoted(p) == Cardinality({q \in Occurrences(cmdline, QUOTE) : q < p}) % 2 = 1
Separators == {p \in Occurrences(cmdline, SPACE) :
                 ~Quoted(p) /\ (p = 0 \/ cmdline[p] # SPACE)}

\* The text after separator p (or from the start, for -1), to the next one.
Segment(p) ==
    LET later == {q \in Separators \cup {Len(cmdline)} : q > p}
        end == CHOOSE q \in later : \A r \in later : q <= r
    IN SubSeq(cmdline, p + 2, end)
Blank(s) == \A i \in DOMAIN s : s[i] = SPACE

Weighed(d, base) ==             \* the number that has the digits d in base
    LET weight[k \in 0 .. Len(d)] == IF k = 0 THEN 1 ELSE base * weight[k - 1]
        sum[k \in 0 .. Len(d)] ==
            IF k = 0 THEN 0 ELSE sum[k - 1] + d[k] * weight[Len(d) - k]
    IN sum[Len(d)]
Numeral(s, base) ==             \* the number that s denotes in base
    LET d == [k \in DOMAIN s |-> DigitValue(s[k])]
    IN IF s # <<>> /\ \A k \in DOMAIN s : d[k] \in 0 .. base - 1
       THEN Some(Weighed(d, base)) ELSE None
UpTo(n, max) == IF n = None THEN None ELSE IF n[2] > max THEN None ELSE n

Yes == {<<"1">>, <<"t", "r", "u", "e">>}
No == {<<"0">>, <<"f", "a", "l", "s", "e">>}

Meaning(T, s) ==
    CASE T = "bool" -> IF s \in Yes \cup No THEN Some(s \in Yes) ELSE None
      [] T = "uint64_t" -> IF Len(s) > 1 /\ s[1] = "0" /\ s[2] \in {"x", "X"}
                           THEN UpTo(Numeral(SubSeq(s, 3, Len(s)), 16), UINT64_MAX)
                           ELSE UpTo(Numeral(s, 10), UINT64_MAX)
      [] T = "int64_t" -> IF s # <<>> /\ s[1] \in {"-", "+"}
                          THEN LET m == UpTo(Numeral(Tail(s), 10),
                                             IF s[1] = "-" THEN INT64_MAX + 1 ELSE INT64_MAX)
                               IN IF m = None THEN None
                                  ELSE Some(IF s[1] = "-" THEN -m[2] ELSE m[2])
                          ELSE UpTo(Numeral(s, 10), INT64_MAX)
      [] T = "StringView" -> IF CountOf(s, QUOTE) = 2 /\ s[1] = QUOTE /\ s[Len(s)] = QUOTE
                             THEN IF Len(s) = 2 THEN None ELSE Some(SubSeq(s, 2, Len(s) - 1))
                             ELSE IF s = <<>> THEN None ELSE Some(s)

(***************************************************************************)
(* Properties.                                                             *)
(***************************************************************************)
\* SplitArguments cuts the line exactly at its separators, stores one view
\* for each argument it counted (the arrays of GetValue have that size), and
\* keeps surplus spaces with the argument they precede, unless the line ends.
SplitExact ==
    pc \in {"initialize", "ready"} =>
        /\ Len(out) = count + 1 /\ count = Cardinality(Separators)
        /\ \A p \in Separators \cup {-1} :
             LET k == 1 + Cardinality({q \in Separators : q <= p})
             IN \/ out[k] = Segment(p)
                \/ k = count + 1 /\ p # -1 /\ Blank(Segment(p)) /\ out[k] = <<>>

\* A value is found for an identifier exactly if the line gives it one, at
\* its first argument of that name, and it is the number or the text that
\* the line says: numbers up to the limits of their type and none beyond.
LookupExact ==
    asked # <<>> =>
        LET T == asked[1]
            named == {k \in DOMAIN out : \/ out[k] = asked[2] /\ T = "bool"
                                         \/ CountOf(out[k], EQ) > 0 /\ Name(out[k]) = asked[2]}
            first == out[CHOOSE k \in named : \A j \in named : k <= j]
            text == SubSeq(first, Len(asked[2]) + 2, Len(first))
            odd == /\ T = "StringView" /\ text # <<>> /\ text[1] = QUOTE
                   /\ ~(CountOf(text, QUOTE) = 2 /\ text[Len(text)] = QUOTE)
        IN CASE named = {} -> result = (IF T = "bool" THEN Some(FALSE) ELSE None)
             [] named # {} /\ first = asked[2] -> result = Some(TRUE)
             [] OTHER -> odd \/ result = Meaning(T, text)

\* The comment on GetValue<bool>, CommandLineExtractor.cpp:84-85: "If the
\* identifier is available, with = the value must be either 1 or 0. Or it is
\* unknown (Optional())".
BoolIsOneOrZero ==
    asked # <<>> /\ asked[1] = "bool" =>
        \A k \in DOMAIN out :
            /\ CountOf(out[k], EQ) > 0 /\ Name(out[k]) = asked[2]
            /\ \A j \in 1 .. k - 1 : Name(out[j]) # asked[2]
            => LET text == SubSeq(out[k], Len(asked[2]) + 2, Len(out[k]))
               IN result = CASE text = <<"1">> -> Some(TRUE) [] text = <<"0">> -> Some(FALSE)
                             [] OTHER -> None
==============================================================================
