-------------------------------- MODULE MCPrintf --------------------------------
(***************************************************************************)
(* Printf with an int of 7 bits and a long of 21, whose largest numeral   *)
(* has seven digits in octal and in decimal: as many as ConvertLength, and *)
(* two separators.  A format comes from one of the families below, each    *)
(* for one question.                                                       *)
(***************************************************************************)
EXTENDS Printf

Chars(s) == CASE s \in {"", "0", "none"} -> <<>>
              [] s = "12" -> <<"1", "2">>
              [] s = "63" -> <<"6", "3">>
              [] s = "64" -> <<"6", "4">>
              [] s \in {"hh", "ll"} -> IF s = "hh" THEN <<"h", "h">> ELSE <<"l", "l">>
              [] OTHER -> <<s>>

\* A conversion as it is written; width "0" is no width, precision "0" a dot.
Conversion(flags, width, precision, mod, conv) ==
    [flags |-> flags, width |-> width, precision |-> precision, mod |-> mod, conv |-> conv,
     text |-> <<"%">> \o SetToSeq(flags) \o Chars(width)
                \o (IF precision = "none" THEN <<>> ELSE <<".">> \o Chars(precision))
                \o Chars(mod) \o <<conv>>]

\* Text that is no conversion, or the beginning of one.
Literal(chars) == [conv |-> Nul, text |-> chars]

Counted == [who |-> "Snprintf", size |-> BufSize, buffer |-> TRUE, format |-> TRUE]

\* Numbers under every set of flags.
Numbers == {<<Conversion(f, w, p, "l", c)>> :
    f \in SUBSET FlagChars, w \in {"0", "5", "12"}, p \in {"none", "0", "8"},
    c \in {"d", "x", "X", "o", "u"}}

\* The types of the arguments.
Types == {<<Conversion({}, "0", "none", m, c)>> :
    m \in {"", "hh", "h", "l", "ll", "j", "t", "z"}, c \in {"i", "u", "x", "n"}}

\* The other conversions, one that is not known, and arguments for a *.
Others == {<<Conversion(f, w, p, "", c)>> :
    f \in SUBSET {"-", "0", "#"}, w \in {"0", "5"}, p \in {"none", "0", "1", "*"},
    c \in {"s", "p", "c", "%", "y"}}
  \union {<<Conversion(f, "*", p, "", c)>> :
    f \in SUBSET {"-", "0"}, p \in {"none", "1", "*"}, c \in {"d", "s"}}

\* A plain conversion after one that is not, with text between.
Pairs == {<<Conversion(f, w, p, m, c), Literal(<<":">>), Conversion({}, "0", "none", "", d)>> :
    f \in {{}, {"-", "0"}, {"#"}}, w \in {"0", "5"}, p \in {"none", "3"}, m \in {"", "hh"},
    c \in {"d", "u", "X"}, d \in {"d", "u", "s"}}

\* Formats that end within a conversion.
Endings == {<<Literal(<<"a", "%">> \o c)>> : c \in
    {<<>>, <<"-">>, <<"5">>, <<"*">>, <<".">>, <<".", "2">>, <<".", "*">>, <<"h">>, <<"h", "h">>,
     <<"l">>, <<"l", "l">>, <<"z">>}}

\* Numbers at and above the largest int in a format, and a line as long.
Huge == {<<Conversion({}, w, p, "", c)>> :
    w \in {"0", "63", "64"}, p \in {"none", "63", "64"}, c \in {"d", "s"}}

\* Lines of every length about the size of the buffer.
Lengths == {<<Literal(Repeat("a", n))>> : n \in 0 .. BufSize + 2}
             \union {<<Conversion({}, "64", "none", "", "d")>>}

MCSizes == {[who |-> "Snprintf", size |-> n, buffer |-> b, format |-> f] :
    n \in 0 .. BufSize, b \in BOOLEAN, f \in BOOLEAN}

\* The characters of a line of such items.
Use(l, c) ==
    [line |-> l, call |-> c,
     format |-> FlattenSeq([k \in 1 .. Len(l) |-> l[k].text])]

MCUses ==
    {Use(l, Counted) : l \in Numbers \union Types \union Others \union Pairs \union Endings \union Huge}
      \union {Use(l, c) : l \in Lengths, c \in MCSizes \union {Wrapped(w) : w \in Wrappers}}

MCInts == {0, 5, 63, 64, 1000, 1048575, 1048576}
MCStars == {-3, 0, 2}
MCStrings == {<<>>, <<"a">>, <<"a", "b", "c">>}
=================================================================================
