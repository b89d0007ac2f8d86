--------------------------------- MODULE Printf ---------------------------------
(***************************************************************************)
(* Vsnprintf and the functions of util.c that hand its text on.  The       *)
(* format is read one character at a time, in the states of the code; each *)
(* conversion takes an argument and adds a field to the line.              *)
(*                                                                         *)
(* A buffer is the function from the indices that were written to what was *)
(* written there, so that a write beyond the buffer shows in its domain.   *)
(***************************************************************************)
EXTENDS PrintfFields

CONSTANTS
    Uses,     \* calls of Vsnprintf: the caller, and the format, by its characters
              \* and by the conversions and other text that were meant
    Ints,     \* integers that may be passed, before they are cut to a type
    Stars,    \* integers that may be passed for a *
    Strings,  \* strings that may be passed; the empty one also stands for NULL
    BufSize   \* MAX_PRINTF_BUF

ASSUME ArgumentsAssumption == Ints \subseteq Nat /\ Stars \subseteq -IntMax .. IntMax
ASSUME StringsAssumption == Strings \subseteq Seq(STRING)
ASSUME BufSizeAssumption == BufSize \in Nat \ {0, 1}
\* A size_t has at least the bits of an int; stated for the provers, which have
\* no induction to find it by.
ASSUME PowersAssumption ==
    /\ 2^SizeBits \in Nat /\ 2^(SizeBits - 1) \in Nat
    /\ 2^SizeBits = 2 * 2^(SizeBits - 1) /\ IntMax < 2^(SizeBits - 1)

Nul == "NUL"
LF == "LF"
NoText == <<>>

Wrappers == {"Print", "PrintLn", "Log", "LogLn"}

AddLF(w) == w \in {"PrintLn", "LogLn"}

\* What a wrapper passes.
Wrapped(w) == [who |-> w, size |-> IF AddLF(w) THEN BufSize - 1 ELSE BufSize,
               buffer |-> TRUE, format |-> TRUE]

ASSUME UsesAssumption ==
    \A u \in Uses :
      /\ u.format \in Seq(STRING \ {Nul})
      /\ \/ u.call \in {Wrapped(w) : w \in Wrappers}
         \/ /\ u.call.who = "Snprintf" /\ u.call.size \in 0 .. IntMax
            /\ u.call.buffer \in BOOLEAN /\ u.call.format \in BOOLEAN

VARIABLES
    line,   \* the format as it was meant
    format, \* its characters
    call,   \* the caller, the size it passes, and whether its pointers are set
    pos,    \* where in the format the next character is
    state,  \* PRINT_S_..., "out" after the loop, then "returned" and "sent"
    spec,   \* what was read of the conversion under way
    size,   \* bytes of the buffer that may be used
    len,    \* characters made so far, whether they were kept or not
    buf,    \* the buffer
    ret,    \* the result: a length, -1 for overflow
    tty, log,     \* what the caller sent to the terminal and the log file
    text, fields  \* for the properties: all characters made; the conversions

vars == <<line, format, call, pos, state, spec, size, len, buf, ret, tty, log,
          text, fields>>

ReadStates == {"default", "flags", "width", "dot", "precision", "mod", "conv"}

FlagChars == {"-", "+", " ", "#", "0", "'"}

DigitChars == {Lower[k] : k \in 1 .. 10}

Empty == [flags |-> {}, width |-> 0, precision |-> -1, cflags |-> "", base |-> 0]

\* The k-th character of the format, counting the terminator.
CharAt(k) == IF k = Len(format) + 1 THEN Nul ELSE format[k]

Ch == CharAt(pos)

Init ==
    /\ \E use \in Uses : line = use.line /\ format = use.format /\ call = use.call
    /\ pos = 1 /\ state = "start" /\ spec = Empty
    /\ size = 0 /\ len = 0 /\ buf = <<>> /\ ret = 0
    /\ tty = NoText /\ log = NoText /\ text = NoText /\ fields = <<>>

\* Entering Vsnprintf: without a format it returns at once, without a buffer
\* it only counts.
Start ==
    /\ state = "start"
    /\ size' = IF call.buffer THEN call.size ELSE 0
    /\ state' = IF call.format THEN "default" ELSE "returned"
    /\ UNCHANGED <<line, format, call, pos, spec, len, buf, ret, tty, log, text, fields>>

\* Wrong: the byte of the terminator is given away.
KeptToTheEnd(t) ==
    LET new == {k \in 0 .. size : len <= k /\ k < len + Len(t)}
    IN  [k \in DOMAIN buf \union new |-> IF k \in new THEN t[k - len + 1] ELSE buf[k]]

\* OUTCHAR, once for each character of t: all count, those that fit are kept.
Kept(t) ==
    LET new == {k \in 0 .. size - 1 : len <= k /\ k < len + Len(t) /\ k + 1 < size}
    IN  [k \in DOMAIN buf \union new |-> IF k \in new THEN t[k - len + 1] ELSE buf[k]]

Emit(t) == buf' = Kept(t) /\ len' = len + Len(t) /\ text' = text \o t

EmitNothing == UNCHANGED <<buf, len, text, fields>>

Unchanging == UNCHANGED <<line, format, call, size, ret, tty, log>>

\* The loop goes round while there are characters.
Reading(s) == state = s /\ Ch # Nul /\ Unchanging

Next1(n) == pos' = pos + n

Default ==
    /\ Reading("default") /\ Next1(1) /\ UNCHANGED <<spec, fields>>
    /\ \/ Ch = "%" /\ state' = "flags" /\ UNCHANGED <<buf, len, text>>
       \/ Ch # "%" /\ Emit(<<Ch>>) /\ UNCHANGED state

Flags ==
    /\ Reading("flags") /\ EmitNothing
    /\ \/ /\ Ch \in FlagChars /\ Next1(1)
          /\ spec' = [spec EXCEPT !.flags = @ \union {Ch}]
          /\ UNCHANGED state
       \/ Ch \notin FlagChars /\ state' = "width" /\ UNCHANGED <<pos, spec>>

\* n with one more digit, or too large for an int.
Append10(n) == 10 * n + DigitValue[Ch]

TooLarge(n) == n > (IntMax - DigitValue[Ch]) \div 10

Overflow == state' = "overflow" /\ UNCHANGED <<pos, spec>>

\* Wrong: a negative width is taken as it is.
StarWidthSigned(s, w) == [s EXCEPT !.width = w]

\* A negative width stands for the flag - and a positive one.
StarWidth(s, w) == IF w < 0 THEN [s EXCEPT !.flags = @ \union {"-"}, !.width = -w]
                   ELSE [s EXCEPT !.width = w]

Width ==
    /\ Reading("width") /\ EmitNothing
    /\ \/ Ch \in DigitChars /\ TooLarge(spec.width) /\ Overflow
       \/ /\ Ch \in DigitChars /\ ~TooLarge(spec.width) /\ Next1(1)
          /\ spec' = [spec EXCEPT !.width = Append10(@)]
          /\ UNCHANGED state
       \/ /\ Ch = "*" /\ Next1(1) /\ state' = "dot"
          /\ \E w \in Stars : spec' = StarWidth(spec, w)
       \/ Ch \notin DigitChars \union {"*"} /\ state' = "dot" /\ UNCHANGED <<pos, spec>>

Dot ==
    /\ Reading("dot") /\ EmitNothing /\ UNCHANGED spec
    /\ \/ Ch = "." /\ Next1(1) /\ state' = "precision"
       \/ Ch # "." /\ state' = "mod" /\ UNCHANGED pos

\* The precision is 0 from the first turn on.
Precision ==
    LET p == AtLeast(spec.precision, 0)
    IN  /\ Reading("precision") /\ EmitNothing
        /\ \/ /\ Ch \in DigitChars /\ TooLarge(p)
              /\ state' = "overflow" /\ spec' = [spec EXCEPT !.precision = p]
              /\ UNCHANGED pos
           \/ /\ Ch \in DigitChars /\ ~TooLarge(p) /\ Next1(1)
              /\ spec' = [spec EXCEPT !.precision = Append10(p)]
              /\ UNCHANGED state
           \/ /\ Ch = "*" /\ Next1(1) /\ state' = "mod"
              /\ \E q \in Stars : spec' = [spec EXCEPT !.precision = AtLeast(q, -1)]
           \/ /\ Ch \notin DigitChars \union {"*"} /\ state' = "mod"
              /\ spec' = [spec EXCEPT !.precision = p] /\ UNCHANGED pos

\* Wrong: the character after an h or an l is taken whatever it is.
ModifierGreedy ==
    CASE Ch \in {"h", "l"} ->
           [cflags |-> IF CharAt(pos + 1) = Ch THEN Ch \o Ch ELSE Ch, chars |-> 2]
      [] Ch \in {"j", "t", "z"} -> [cflags |-> Ch, chars |-> 1]
      [] OTHER -> [cflags |-> "", chars |-> 0]

\* The modifier at hand and the characters it takes: h and l may be doubled.
Modifier ==
    CASE Ch = "h" /\ CharAt(pos + 1) = "h" -> [cflags |-> "hh", chars |-> 2]
      [] Ch = "l" /\ CharAt(pos + 1) = "l" -> [cflags |-> "ll", chars |-> 2]
      [] Ch \in {"h", "l", "j", "t", "z"} -> [cflags |-> Ch, chars |-> 1]
      [] OTHER -> [cflags |-> "", chars |-> 0]

\* Wrong: only a modifier is followed by the conversion.
ModOrStay ==
    /\ Reading("mod") /\ EmitNothing
    /\ state' = IF Modifier.chars = 0 THEN "mod" ELSE "conv"
    /\ Next1(Modifier.chars)
    /\ spec' = [spec EXCEPT !.cflags = Modifier.cflags]

Mod ==
    /\ Reading("mod") /\ EmitNothing /\ state' = "conv"
    /\ Next1(Modifier.chars)
    /\ spec' = [spec EXCEPT !.cflags = Modifier.cflags]

\* Wrong: the flags are not set back.
ResetKeepFlags(s) == [Empty EXCEPT !.flags = s.flags \ {"UP", "UNSIGNED"}]

\* What the conversions leave for the next one.
Reset(s) == Empty

\* The end of a conversion that was given arg, makes t and set flags and base.
Converted(arg, t, flags, base) ==
    /\ \E made \in {t} :    \* t is computed once
         /\ Emit(made)
         /\ fields' = Append(fields, [spec |-> spec, conv |-> Ch, arg |-> arg, text |-> made])
    /\ spec' = Reset([spec EXCEPT !.flags = @ \union flags, !.base = base])
    /\ state' = "default" /\ Next1(1)

\* fmtint with the flags and the base of the conversion.
Number(arg, value, flags, base, printBase) ==
    Converted(arg, FmtInt(value, printBase, spec.width, spec.precision, spec.flags \union flags),
              flags, base)

\* SSIZE_T is size_t: %zd reads an unsigned number.
ConvSigned ==
    /\ Reading("conv") /\ Ch \in {"d", "i"}
    /\ \E i \in Ints :
         LET bits == Bits(spec.cflags)
         IN  Number(i, IF spec.cflags = "z" THEN Unsigned(i, bits) ELSE Signed(i, bits),
                    {}, spec.base, 10)

\* The base falls through from x to o to u, each keeping one that is set.
ConvUnsigned ==
    LET base == IF Ch \in {"x", "X"} THEN 16
                ELSE IF spec.base # 0 THEN spec.base ELSE IF Ch = "o" THEN 8 ELSE 10
    IN  /\ Reading("conv") /\ Ch \in {"x", "X", "o", "u"}
        /\ \E i \in Ints :
             LET bits == Bits(spec.cflags)
             IN  Number(i, IF spec.cflags = "t" THEN Signed(i, bits) ELSE Unsigned(i, bits),
                        {"UNSIGNED"} \union (IF Ch = "X" THEN {"UP"} ELSE {}), base, base)

\* Neither width nor precision count, and a zero is a character too.
ConvChar ==
    /\ Reading("conv") /\ Ch = "c"
    /\ \E c \in {"c", Nul} : Converted(c, <<c>>, {}, spec.base)

ConvString ==
    /\ Reading("conv") /\ Ch = "s"
    /\ \E s \in Strings :
         Converted(s, FmtStr(s, spec.width, spec.precision, spec.flags), {}, spec.base)

ConvPointer ==
    /\ Reading("conv") /\ Ch = "p"
    /\ \E i \in Ints :
         LET address == Unsigned(i, SizeBits)
         IN  IF address = 0
             THEN Converted(i, FmtStr(<<"(", "n", "i", "l", ")">>, spec.width, -1, spec.flags),
                            {}, spec.base)
             ELSE Number(i, address, {"#", "UNSIGNED"}, spec.base, 16)

\* The count is cut to the type the argument points to.
ConvCount ==
    /\ Reading("conv") /\ Ch = "n"
    /\ Converted(Signed(len, Bits(spec.cflags)), NoText, {}, spec.base)

ConvPercent == Reading("conv") /\ Ch = "%" /\ Converted(Nul, <<Ch>>, {}, spec.base)

Conversions == {"d", "i", "x", "X", "o", "u", "c", "s", "p", "n", "%"}

ConvOther ==
    Reading("conv") /\ Ch \notin Conversions /\ Converted(Nul, NoText, {}, spec.base)

Put(b, k, c) == [j \in DOMAIN b \union {k} |-> IF j = k THEN c ELSE b[j]]

\* Wrong: only a line that fits is terminated.
TerminatedIfFits == IF len < size THEN Put(buf, len, Nul) ELSE buf

\* The terminator goes behind what was kept.
Terminated == IF len < size THEN Put(buf, len, Nul)
              ELSE IF size > 0 THEN Put(buf, size - 1, Nul) ELSE buf

\* The end of the loop.
Out ==
    /\ \/ state \in ReadStates /\ Ch = Nul
       \/ state = "overflow"
    /\ buf' = Terminated
    /\ ret' = IF state = "overflow" \/ len >= IntMax THEN -1 ELSE len
    /\ state' = "returned"
    /\ UNCHANGED <<line, format, call, pos, spec, size, len, tty, log, text, fields>>

\* The place a pointer plus n comes to.
Place(n) == Signed(n, SizeBits)

\* Wrong: the line feed goes behind the terminator.
WithLFBehind(b, n) == Put(b, Place(n + 1), LF)

\* A line feed at n, and a terminator.
WithLF(b, n) == Put(Put(b, Place(n), LF), Place(n + 1), Nul)

\* The first n bytes of b, with what was never written as "?".
Bytes(b, n) == [k \in 1 .. n |-> IF k - 1 \in DOMAIN b THEN b[k - 1] ELSE "?"]

\* Print, PrintLn, Log and LogLn: the length is a size_t, so the test for a
\* negative one never holds.
Send ==
    LET n == Unsigned(ret, SizeBits)
        bytes == Bytes(buf', IF AddLF(call.who) THEN Unsigned(n + 1, SizeBits) ELSE n)
    IN  /\ state = "returned" /\ call.who \in Wrappers
        /\ buf' = IF AddLF(call.who) THEN WithLF(buf, n) ELSE buf
        /\ tty' = bytes
        /\ log' = IF call.who \in {"Log", "LogLn"} THEN bytes ELSE log
        /\ state' = "sent"
        /\ UNCHANGED <<line, format, call, pos, spec, size, len, ret, text, fields>>

\* The caller goes on.
Resume == (state = "sent" \/ (state = "returned" /\ call.who = "Snprintf")) /\ UNCHANGED vars

Step ==
    \/ Start \/ Default \/ Flags \/ Width \/ Dot \/ Precision \/ Mod
    \/ ConvSigned \/ ConvUnsigned \/ ConvChar \/ ConvString \/ ConvPointer
    \/ ConvCount \/ ConvPercent \/ ConvOther \/ Out \/ Send

Next == Step \/ Resume

Spec == Init /\ [][Next]_vars

FairSpec == Spec /\ WF_vars(Step)

-----------------------------------------------------------------------------
(* Properties.                                                             *)

\* The variables keep their types (declarations at printf.c:284-303), and each
\* conversion has taken at least two characters of the format.
TypeOK ==
    /\ pos \in Nat /\ len \in Nat /\ size \in Nat /\ ret \in -1 .. IntMax
    /\ state \in ReadStates \union {"start", "overflow", "returned", "sent"}
    /\ spec.flags \subseteq FlagChars \union {"UP", "UNSIGNED"}
    /\ spec.width \in 0 .. IntMax /\ spec.precision \in -1 .. IntMax
    /\ DOMAIN buf \subseteq Int
    /\ 2 * Len(fields) < pos

\* Vsnprintf writes nothing outside the bytes it was given, whatever the
\* line's length, none at all when it was given none (OUTCHAR and the
\* terminator, printf.c:267-271 and 615-618).
WithinBuffer == state # "sent" => DOMAIN buf \subseteq 0 .. size - 1

\* What it leaves is a terminated string, the longest start of the whole line
\* that has room, and its result is the length of the whole line, so that the
\* caller can tell (printf.c:614-624).
TextKept ==
    state = "returned" /\ call.format =>
      /\ len = Len(text) /\ ret \in {len, -1}
      /\ size > 0 =>
           LET n == IF len < size THEN len ELSE size - 1
           IN  DOMAIN buf = 0 .. n /\ buf[n] = Nul /\ \A k \in 1 .. n : buf[k - 1] = text[k]

\* The format is not read behind its terminator, also when it ends within a
\* conversion (printf.c:411-443).
ReadsWithin == pos <= Len(format) + 1

\* Each conversion is read as it was written, whatever stood before it: its
\* flags, width, precision, modifier and letter (printf.c:316-613).
ParsesAsWritten ==
    LET written == SelectSeq(line, LAMBDA item : item.conv # Nul)
    IN  \A k \in 1 .. Len(fields) :
          LET f == fields[k]
              w == written[k]
          IN  /\ f.conv = w.conv /\ f.spec.cflags = w.mod
              /\ \/ f.spec.flags = w.flags
                 \/ w.width = "*" /\ f.spec.flags = w.flags \union {"-"}
              /\ w.width # "*" => w.width = ToString(f.spec.width)
              /\ w.precision \notin {"*", "none"} => w.precision = ToString(f.spec.precision)
              /\ w.precision = "none" => f.spec.precision = -1

\* The last field made.
Field == fields[Len(fields)]


\* A line that fits is sent as it was made, with a line feed if one is added,
\* to the terminal and by Log and LogLn to the file, and the line feed and the
\* terminator behind it still fit in print_buf (util.c:35-93).
LineSent ==
    state = "sent" /\ ret \in 0 .. size - 1 =>
      /\ tty = text \o (IF AddLF(call.who) THEN <<LF>> ELSE <<>>)
      /\ log = IF call.who \in {"Log", "LogLn"} THEN tty ELSE NoText
      /\ DOMAIN buf \subseteq 0 .. BufSize - 1

\* A line that is too big is not sent ("Log failed log (the string was too
\* big)", util.c:28-29): so nothing beyond print_buf is written or sent.
LineFits == state = "sent" => DOMAIN buf \subseteq 0 .. BufSize - 1 /\ Len(tty) <= BufSize

\* Vsnprintf reads each format to its end and its caller goes on.
FormatReturns == <>(state = "sent" \/ (state = "returned" /\ call.who = "Snprintf"))
=================================================================================
