------------------------------- MODULE Format -------------------------------
(***************************************************************************)
(* The formatter of kernel/src/anbo_log.c, as a function of its output     *)
(* limit, its format string and its arguments.  A text is a sequence of    *)
(* one-character strings.                                                  *)
(***************************************************************************)
EXTENDS Integers, SequencesExt

CONSTANT IntMod   \* the number of values of an integer (2^32)

ASSUME FormatAssumption == IntMod \in Nat \ {0}

Digit == <<"0", "1", "2", "3", "4", "5", "6", "7", "8", "9", "a", "b", "c", "d", "e", "f">>

\* The end of a C string.
NUL == "nul"

At(s, p) == IF p <= Len(s) THEN s[p] ELSE NUL

\* The characters of s that fit into n places.
Fit(s, n) == SubSeq(s, 1, IF Len(s) < n THEN Len(s) ELSE n)

----------------------------------------------------------------------------
\* u32_to_dec and u32_to_hex: the digits are found from the last to the first.
Numeral(base, v) ==
    LET digits[n \in Nat] ==
            IF n = 0 THEN << >> ELSE Append(digits[n \div base], Digit[(n % base) + 1])
    IN  IF v = 0 THEN <<"0">> ELSE digits[v]

Unsigned(v) == v % IntMod

\* i32_to_dec negates v + 1, which no value overflows.
SignedNumeral(v) ==
    IF v < 0 THEN <<"-">> \o Numeral(10, Unsigned(-(v + 1)) + 1) ELSE Numeral(10, v)

Nonzero == {"1", "2", "3", "4", "5", "6", "7", "8", "9"}

\* The value a sequence of decimal digits stands for.
Value(s) ==
    LET val[i \in 0..Len(s)] ==
            IF i = 0 THEN 0 ELSE 10 * val[i - 1] + (CHOOSE d \in 0..9 : Digit[d + 1] = s[i])
    IN  val[Len(s)]

\* What follows a percent sign at p: a zero, a width, and the position of the
\* conversion.  A width is made of the digits from 1 to 9 only.
Flags(fmt, p) ==
    LET zero == At(fmt, p + 1) = "0"
        first == IF zero THEN p + 2 ELSE p + 1
        conv == CHOOSE i \in first..(Len(fmt) + 1) :
                    At(fmt, i) \notin Nonzero /\ \A j \in first..(i - 1) : fmt[j] \in Nonzero
    IN  [pad |-> IF zero THEN "0" ELSE " ", width |-> Value(SubSeq(fmt, first, conv - 1)),
         conv |-> conv]

Padded(flags, s) ==
    [i \in 1..(IF flags.width > Len(s) THEN flags.width - Len(s) ELSE 0) |-> flags.pad] \o s

Numbers == {"d", "u", "x"}
Conversions == Numbers \cup {"s", "c"}

\* The text of an argument.
Rendered(conv, flags, arg) ==
    CASE conv = "d" -> Padded(flags, SignedNumeral(arg))
      [] conv = "u" -> Padded(flags, Numeral(10, Unsigned(arg)))
      [] conv = "x" -> Padded(flags, Numeral(16, Unsigned(arg)))
      [] conv = "s" -> arg
      [] conv = "c" -> <<arg>>

\* Faulty: the place of the NUL is given away.
Room_All(size) == size

\* One byte is kept for the NUL.
Room(size) == size - 1

\* One turn of the loop of Anbo_Format_V, from position p of the format string with
\* the argument a.  An unknown conversion is copied without its flags, a percent
\* sign at the end is dropped.
Turn(size, fmt, args, st) ==
    LET flags == Flags(fmt, st.p)
        conv == At(fmt, flags.conv)
        put(s, n) == [p |-> flags.conv + 1, a |-> st.a + n, out |-> Fit(st.out \o s, Room(size))]
    IN  IF st.p > Len(fmt) \/ Len(st.out) >= Room(size) THEN st
        ELSE IF fmt[st.p] # "%" THEN [st EXCEPT !.p = @ + 1, !.out = Append(@, fmt[st.p])]
        ELSE CASE conv \in Conversions -> put(Rendered(conv, flags, args[st.a]), 1)
               [] conv = "%" -> put(<<"%">>, 0)
               [] conv = NUL -> [st EXCEPT !.p = flags.conv]
               [] OTHER -> put(<<"%", conv>>, 0)

\* Anbo_Format_V and Anbo_Format: the characters before the NUL.
FormatV(size, fmt, args) ==
    LET turn[k \in 0..Len(fmt)] ==
            IF k = 0 THEN [p |-> 1, a |-> 1, out |-> << >>]
            ELSE Turn(size, fmt, args, turn[k - 1])
    IN  IF size = 0 THEN << >> ELSE turn[Len(fmt)].out

----------------------------------------------------------------------------
\* What a format string means, item by item: [text] stands for itself,
\* [conv, zero, width, arg] for an argument, and [conv, zero, width] for the
\* conversion character, which follows a percent sign if it is not one itself.

Char == STRING \ {NUL}
Signed == (-(IntMod \div 2))..((IntMod \div 2) - 1)

Flagged(convs) == [conv : convs, zero : BOOLEAN, width : 0..9]
Taking(convs, args) == [conv : convs, zero : BOOLEAN, width : 0..9, arg : args]

Item ==
    [text : Seq(Char \ {"%"}) \ {<< >>}]
    \cup Taking({"d"}, Signed)
    \cup Taking({"u", "x"}, Signed \cup 0..(IntMod - 1))
    \cup Taking({"s"}, Seq(Char))
    \cup Taking({"c"}, Char)
    \cup Flagged(Char \ (Conversions \cup Nonzero \cup {"0"}))

Encoded(item) ==
    IF "text" \in DOMAIN item THEN item.text
    ELSE <<"%">> \o (IF item.zero THEN <<"0">> ELSE << >>)
                 \o (IF item.width = 0 THEN << >> ELSE <<Digit[item.width + 1]>>)
                 \o <<item.conv>>

Encodings(items) == [i \in 1..Len(items) |-> Encoded(items[i])]

\* The argument of an item, if it takes one.
Argument(item) == IF "arg" \in DOMAIN item THEN <<item.arg>> ELSE << >>
Arguments(items) == [i \in 1..Len(items) |-> Argument(items[i])]

Power(b, n) ==
    LET power[i \in Nat] == IF i = 0 THEN 1 ELSE b * power[i - 1]
    IN  power[n]

\* The places of a number, the highest first.
Places(base, v) ==
    LET k == CHOOSE k \in 1..(v + 1) : v < Power(base, k) /\ (k > 1 => v >= Power(base, k - 1))
    IN  [i \in 1..k |-> Digit[((v \div Power(base, k - i)) % base) + 1]]

NumberMeant(conv, arg) ==
    LET base == IF conv = "x" THEN 16 ELSE 10
    IN  IF conv = "d" /\ arg < 0 THEN <<"-">> \o Places(base, -arg)
        ELSE Places(base, arg % IntMod)

Meaning(item) ==
    IF "text" \in DOMAIN item THEN item.text
    ELSE CASE item.conv = "s" -> item.arg
           [] item.conv = "c" -> <<item.arg>>
           [] item.conv = "%" -> <<"%">>
           [] item.conv \in Numbers ->
                 Padded([pad |-> IF item.zero THEN "0" ELSE " ", width |-> item.width],
                        NumberMeant(item.conv, item.arg))
           [] OTHER -> <<"%", item.conv>>

Meanings(items) == [i \in 1..Len(items) |-> Meaning(items[i])]

\* A format string is printed as what its items mean, cut where the buffer ends.
Shows(items, size, out) ==
    out = Fit(FlattenSeq(Meanings(items)), size - 1)
=============================================================================
