----------------------------- MODULE MCLogPipe -----------------------------
(***************************************************************************)
(* LogPipe with small buffers, and lines with numbers of 6 bits.           *)
(***************************************************************************)
EXTENDS LogPipe

Text(s) == [text |-> s]
Flag(c) == [conv |-> c, zero |-> FALSE, width |-> 0]
Arg(c, z, w, a) == [conv |-> c, zero |-> z, width |-> w, arg |-> a]

Values == {-32, -5, 0, 7, 10, 31}
Numeric == {Arg(c, z, w, v) : c \in Numbers, z \in BOOLEAN, w \in {0, 1, 4}, v \in Values}

\* Each number alone, and lines that end within, behind or before an item.
MCLines ==
    {<<n>> : n \in Numeric} \cup
    {<<Text(<<"a">>), Arg("s", FALSE, 0, <<"b", "c">>), n>> : n \in {m \in Numeric : m.width = 4}}
    \cup {<<Arg("c", FALSE, 0, "z"), Text(<<"b">>)>>, <<Flag("%"), Arg("d", FALSE, 0, 7), Flag("q")>>}
=============================================================================
