------------------------------ MODULE PrintfProofs ------------------------------
(***************************************************************************)
(* What Vsnprintf does to its buffer, for every format, argument, buffer   *)
(* size and width of C's integers.  Every field is a sequence, whatever    *)
(* was converted; the buffer holds the start of the line made so far; and  *)
(* the terminator and the caller's line feed go behind that.               *)
(***************************************************************************)
EXTENDS Printf, TLAPS, SequenceTheorems, FiniteSetTheorems

IsSeq(t) == \E S : t \in Seq(S)

-----------------------------------------------------------------------------
(* The fields are sequences.                                               *)

\* A function on 1 .. n is a sequence of length n.
LEMMA FunctionIsSeq ==
    ASSUME NEW n \in Nat, NEW S, NEW f \in [1 .. n -> S]
    PROVE  IsSeq(f) /\ Len(f) = n
  <1>1. f \in Seq(S) /\ Len(f) = n  BY SMT
  <1> QED  BY <1>1, Zenon DEF IsSeq

\* Concatenation adds lengths and keeps characters in their order.
LEMMA Concatenation ==
    ASSUME NEW s, NEW t, IsSeq(s), IsSeq(t)
    PROVE  /\ IsSeq(s \o t)
           /\ Len(s) \in Nat /\ Len(t) \in Nat
           /\ Len(s \o t) = Len(s) + Len(t)
           /\ \A k \in 1 .. Len(s) + Len(t) :
                (s \o t)[k] = IF k <= Len(s) THEN s[k] ELSE t[k - Len(s)]
  <1>1. PICK S : s \in Seq(S)  BY Zenon DEF IsSeq
  <1>2. PICK T : t \in Seq(T)  BY Zenon DEF IsSeq
  <1> DEFINE U == S \union T
  <1>3. s \in Seq(U) /\ t \in Seq(U)  BY <1>1, <1>2, SMT
  <1> HIDE DEF U
  <1>4. (s \o t) \in Seq(U)  BY <1>3, SMT
  <1>5. IsSeq(s \o t)  BY <1>4, Zenon DEF IsSeq
  <1>6. /\ Len(s) \in Nat /\ Len(t) \in Nat
        /\ Len(s \o t) = Len(s) + Len(t)
        /\ \A k \in 1 .. Len(s) + Len(t) :
             (s \o t)[k] = IF k <= Len(s) THEN s[k] ELSE t[k - Len(s)]
    BY <1>3, SMT
  <1> QED  BY <1>5, <1>6, Zenon

\* Padding is a sequence.
LEMMA RepeatIsSeq ==
    ASSUME NEW c, NEW n \in Nat
    PROVE  IsSeq(Repeat(c, n)) /\ Len(Repeat(c, n)) = n
  <1>1. Repeat(c, n) \in [1 .. n -> {c}]  BY DEF Repeat
  <1> QED  BY <1>1, FunctionIsSeq, Zenon

LEMMA PadIsSeq ==
    ASSUME NEW l \in Nat, NEW r \in Nat, NEW t, IsSeq(t)
    PROVE  IsSeq(Pad(l, t, r))
  <1>1. IsSeq(Repeat(" ", l)) /\ IsSeq(Repeat(" ", r))  BY RepeatIsSeq, Zenon
  <1>2. IsSeq(Repeat(" ", l) \o t)  BY <1>1, Concatenation, Zenon
  <1>3. IsSeq((Repeat(" ", l) \o t) \o Repeat(" ", r))  BY <1>1, <1>2, Concatenation, Zenon
  <1> QED  BY <1>3, Zenon DEF Pad

LEMMA AtLeastZero ==
    ASSUME NEW m \in Int
    PROVE  AtLeast(m, 0) \in Nat
  BY SMT DEF AtLeast

\* fmtstr makes a sequence of each string, whatever its width and precision.
LEMMA FmtStrIsSeq ==
    ASSUME NEW v, IsSeq(v), NEW w \in Int, NEW p \in Int, p >= -1, NEW flags
    PROVE  IsSeq(FmtStr(v, w, p, flags))
  <1> DEFINE n == IF p < Len(v) THEN p ELSE Len(v)
             t == IF p = -1 THEN v ELSE SubSeq(v, 1, n)
             pad == AtLeast(w - Len(t), 0)
  <1>1. PICK S : v \in Seq(S)  BY Zenon DEF IsSeq
  <1>2. t \in Seq(S)
    <2>1. CASE p = -1  BY <1>1, <2>1
    <2>2. CASE p # -1
      <3>1. n \in 0 .. Len(v)  BY <1>1, <2>2, SMT
      <3> HIDE DEF n
      <3>2. SubSeq(v, 1, n) \in Seq(S)  BY <1>1, <3>1, SMT
      <3> QED  BY <2>2, <3>2
    <2> QED  BY <2>1, <2>2
  <1> HIDE DEF t
  <1>3. IsSeq(t)  BY <1>2, Zenon DEF IsSeq
  <1>4. Len(t) \in Nat  BY <1>2, SMT
  <1>5. pad \in Nat
    <2>1. w - Len(t) \in Int  BY <1>4, SMT
    <2> QED  BY <2>1, AtLeastZero, Zenon
  <1> HIDE DEF pad
  <1>6. IsSeq(Pad(0, t, pad)) /\ IsSeq(Pad(pad, t, 0))
    <2>1. 0 \in Nat  BY SMT
    <2> QED  BY <1>3, <1>5, <2>1, PadIsSeq, Zenon
  <1>7. FmtStr(v, w, p, flags) = IF "-" \in flags THEN Pad(0, t, pad) ELSE Pad(pad, t, 0)
    BY Zenon DEF FmtStr, t, n, pad
  <1> QED  BY <1>6, <1>7, Zenon

\* The digits are a sequence, also when they are more than there is room for.
LEMMA ConvertIsSeq ==
    ASSUME NEW u, NEW base, NEW caps
    PROVE  IsSeq(Convert(u, base, caps))
  <1> DEFINE K == {k \in 1 .. ConvertLength : k = 1 \/ u \div base^(k - 1) # 0}
             n == Cardinality(K)
             digits == IF caps THEN Upper ELSE Lower
             d(k) == digits[((u \div base^(n - k)) % base) + 1]
             D == {d(k) : k \in 1 .. n}
  <1>1. ConvertLength \in Nat  BY ConvertAssumption
  <1>2. IsFiniteSet(1 .. ConvertLength)  BY <1>1, FS_Interval, SMT
  <1>3. K \subseteq 1 .. ConvertLength  OBVIOUS
  <1>4. IsFiniteSet(K)  BY <1>2, <1>3, FS_Subset, Zenon
  <1>5. n \in Nat  BY <1>4, FS_CardinalityType, Zenon
  <1>6. Convert(u, base, caps) = [k \in 1 .. n |-> d(k)]  BY Zenon DEF Convert
  <1> HIDE DEF n, d
  <1>7. [k \in 1 .. n |-> d(k)] \in [1 .. n -> D]  OBVIOUS
  <1> QED  BY <1>5, <1>6, <1>7, FunctionIsSeq, Zenon

\* So they are with their separators.
LEMMA SeparateIsSeq ==
    ASSUME NEW t, IsSeq(t)
    PROVE  IsSeq(Separate(t))
  <1> DEFINE n == Len(t)
             P == {p \in 1 .. n - 1 : p % 3 = 0}
             length == n + Cardinality(P)
             d(k) == IF (length - k) % 4 = 3 THEN ","
                     ELSE t[n - ((length - k) - (length - k) \div 4)]
             D == {d(k) : k \in 1 .. length}
  <1>1. n \in Nat
    <2>1. PICK S : t \in Seq(S)  BY Zenon DEF IsSeq
    <2> QED  BY <2>1, SMT
  <1>2. IsFiniteSet(1 .. n - 1)
    <2>1. 1 \in Int /\ n - 1 \in Int  BY <1>1, SMT
    <2> QED  BY <2>1, FS_Interval, Zenon
  <1>3. P \subseteq 1 .. n - 1  OBVIOUS
  <1>4. IsFiniteSet(P)  BY <1>2, <1>3, FS_Subset, Zenon
  <1>5. Cardinality(P) \in Nat  BY <1>4, FS_CardinalityType, Zenon
  <1>6. length \in Nat
    <2> HIDE DEF P, n
    <2> QED  BY <1>1, <1>5, SMT
  <1>7. Separate(t) = [k \in 1 .. length |-> d(k)]  BY Zenon DEF Separate
  <1> HIDE DEF length, d
  <1>8. [k \in 1 .. length |-> d(k)] \in [1 .. length -> D]  OBVIOUS
  <1> QED  BY <1>6, <1>7, <1>8, FunctionIsSeq, Zenon

\* The literal signs and prefixes.
LEMMA HeadIsSeq ==
    /\ IsSeq(<<>>) /\ Len(<<>>) = 0
    /\ \A c, d : IsSeq(<<c>>) /\ Len(<<c>>) = 1 /\ IsSeq(<<c, d>>) /\ Len(<<c, d>>) = 2
  <1>1. <<>> \in Seq({}) /\ Len(<<>>) = 0  BY SMT
  <1>2. ASSUME NEW c, NEW d
        PROVE  /\ <<c>> \in Seq({c}) /\ Len(<<c>>) = 1
               /\ <<c, d>> \in Seq({c, d}) /\ Len(<<c, d>>) = 2
    BY SMT
  <1> QED  BY <1>1, <1>2, Zenon DEF IsSeq

\* fmtint makes a sequence of each number, whatever its base, width, precision
\* and flags.
LEMMA FmtIntIsSeq ==
    ASSUME NEW v, NEW base, NEW w \in Int, NEW p \in Int, NEW flags
    PROVE  IsSeq(FmtInt(v, base, w, p, flags))
  <1> DEFINE unsigned == "UNSIGNED" \in flags
             u == Unsigned(IF unsigned \/ v >= 0 THEN v ELSE -v, MaxBits)
             sign == IF unsigned THEN <<>>
                     ELSE IF v < 0 THEN <<"-">>
                     ELSE IF "+" \in flags THEN <<"+">>
                     ELSE IF " " \in flags THEN <<" ">> ELSE <<>>
             digits == Convert(u, base, "UP" \in flags)
             n == Len(digits)
             alternative == "#" \in flags /\ u # 0
             prefix == IF alternative /\ base = 16
                       THEN <<"0", IF "UP" \in flags THEN "X" ELSE "x">> ELSE <<>>
             precision1 == IF alternative /\ base = 8 /\ p <= n THEN n + 1 ELSE p
             separators == IF "'" \in flags THEN NumSep(n) ELSE 0
             lead == Len(sign) + Len(prefix)
             pad == Padding(n, separators, lead, w, precision1)
             zeroed == "-" \notin flags /\ "0" \in flags /\ p = -1
             zeros == IF zeroed THEN pad.zeros + pad.spaces ELSE pad.zeros
             number == IF separators > 0 THEN Separate(digits) ELSE digits
             whole == sign \o prefix \o Repeat("0", zeros) \o number
  <1>1. IsSeq(sign) /\ Len(sign) \in Nat
    <2>1. IsSeq(sign)  BY HeadIsSeq, Zenon
    <2> QED  BY <2>1, Concatenation, Zenon
  <1>2. IsSeq(prefix) /\ Len(prefix) \in Nat
    <2>1. IsSeq(prefix)  BY HeadIsSeq, Zenon
    <2> QED  BY <2>1, Concatenation, Zenon
  <1>3. IsSeq(digits) /\ n \in Nat
    <2>1. IsSeq(digits)  BY ConvertIsSeq, Zenon
    <2> QED  BY <2>1, Concatenation, Zenon
  <1>4. IsSeq(number)  BY <1>3, SeparateIsSeq, Zenon
  <1>5. FmtInt(v, base, w, p, flags) =
          IF "-" \in flags THEN Pad(0, whole, pad.spaces)
          ELSE Pad(IF zeroed THEN 0 ELSE pad.spaces, whole, 0)
    BY Zenon DEF FmtInt
  <1> HIDE DEF sign, prefix, digits, alternative, number
  <1>6. lead \in Int /\ n \in Int /\ precision1 \in Int /\ separators \in Int
    <2>1. lead \in Int  BY <1>1, <1>2, SMT
    <2>2. NumSep(n) \in Int  BY <1>3, SMT DEF NumSep
    <2> HIDE DEF n
    <2> QED  BY <1>3, <2>1, <2>2, SMT
  <1> HIDE DEF lead, precision1, separators
  <1>7. pad.zeros \in Nat /\ pad.spaces \in Nat
    <2>1. pad.zeros = AtLeast(precision1 - n - separators, 0)  BY Zenon DEF Padding
    <2>2. pad.spaces = AtLeast(w - separators - AtLeast(precision1, n) - lead, 0)
      BY Zenon DEF Padding
    <2> HIDE DEF n, pad
    <2>3. AtLeast(precision1, n) \in Int  BY <1>6, SMT DEF AtLeast
    <2>4. /\ precision1 - n - separators \in Int
          /\ w - separators - AtLeast(precision1, n) - lead \in Int
      BY <1>6, <2>3, SMT
    <2> QED  BY <2>1, <2>2, <2>4, AtLeastZero, Zenon
  <1> HIDE DEF pad
  <1>8. zeros \in Nat  BY <1>7, SMT
  <1> HIDE DEF zeros
  <1>9. IsSeq(whole)
    <2>1. IsSeq(Repeat("0", zeros))  BY <1>8, RepeatIsSeq, Zenon
    <2>2. IsSeq(sign \o prefix)  BY <1>1, <1>2, Concatenation, Zenon
    <2>3. IsSeq(sign \o prefix \o Repeat("0", zeros))  BY <2>1, <2>2, Concatenation, Zenon
    <2> QED  BY <1>4, <2>3, Concatenation, Zenon
  <1> HIDE DEF whole, zeroed
  <1>10. 0 \in Nat  BY SMT
  <1> QED  BY <1>5, <1>7, <1>9, <1>10, PadIsSeq, Zenon

-----------------------------------------------------------------------------
(* The inductive invariant.                                                *)

\* What was read of a conversion, whatever was written.
Read(f, w, p, c, b) ==
    [flags |-> f, width |-> w, precision |-> p, cflags |-> c, base |-> b]

SpecOK(s) ==
    \E f, c, b : \E w \in Int, p \in Int : p >= -1 /\ s = Read(f, w, p, c, b)

\* The use is one of Uses, and the reading is within its format.
ParseInv ==
    /\ format \in Seq(STRING \ {Nul}) /\ call.size \in Nat
    /\ pos \in 1 .. Len(format) + 1
    /\ SpecOK(spec)

\* What was made so far, and where it is kept while the line is read.
Room(n) == {k \in 0 .. size - 1 : k < n /\ k + 1 < size}

BufInv ==
    /\ size \in Nat /\ len \in Nat
    /\ IsSeq(text) /\ Len(text) = len
    /\ state \in {"start"} \union ReadStates \union {"overflow"} =>
         DOMAIN buf = Room(len) /\ \A k \in Room(len) : buf[k] = text[k + 1]
    /\ state = "start" => size = 0 /\ len = 0

IInv == ParseInv /\ BufInv /\ WithinBuffer /\ TextKept

\* Nothing was read yet.
LEMMA EmptyOK == SpecOK(Empty)
  <1>1. Empty = Read({}, 0, -1, "", 0)  BY Zenon DEF Empty, Read
  <1>2. 0 \in Int /\ -1 \in Int /\ -1 >= -1  BY SMT
  <1> QED  BY <1>1, <1>2, Zenon DEF SpecOK

\* It holds at first.
LEMMA InitInv == Init => IInv
  <1> SUFFICES ASSUME Init PROVE IInv  OBVIOUS
  <1>1. ParseInv
    <2>1. PICK use \in Uses : format = use.format /\ call = use.call  BY Zenon DEF Init
    <2>2. format \in Seq(STRING \ {Nul})  BY <2>1, UsesAssumption, Zenon
    <2>3. call.size \in Nat
      <3>1. CASE use.call \in {Wrapped(w) : w \in Wrappers}
        <4>1. PICK w \in Wrappers : use.call = Wrapped(w)  BY <3>1, Zenon
        <4>2. call.size = IF AddLF(w) THEN BufSize - 1 ELSE BufSize
          BY <2>1, <4>1, SMT DEF Wrapped
        <4> QED  BY <4>2, BufSizeAssumption, SMT
      <3>2. CASE use.call.size \in 0 .. IntMax
        BY <2>1, <3>2, IntMaxAssumption, SMT
      <3> QED  BY <2>1, <3>1, <3>2, UsesAssumption, Zenon
    <2>4. SpecOK(spec)
      <3>1. spec = Empty  BY Zenon DEF Init
      <3> QED  BY <3>1, EmptyOK, Zenon
    <2>5. pos \in 1 .. Len(format) + 1
      <3>1. pos = 1  BY Zenon DEF Init
      <3>2. Len(format) \in Nat  BY <2>2, SMT
      <3> QED  BY <3>1, <3>2, SMT
    <2> QED  BY <2>2, <2>3, <2>4, <2>5, Zenon DEF ParseInv
  <1>2. /\ size = 0 /\ len = 0 /\ state = "start" /\ text = <<>> /\ buf = <<>>
    BY Zenon DEF Init, NoText
  <1>3. DOMAIN buf = {}  BY <1>2, SMT
  <1>4. Room(len) = {}  BY <1>2, SMT DEF Room
  <1>5. BufInv  BY <1>2, <1>3, <1>4, HeadIsSeq, SMT DEF BufInv
  <1>6. WithinBuffer /\ TextKept  BY <1>2, <1>3, SMT DEF WithinBuffer, TextKept
  <1> QED  BY <1>1, <1>5, <1>6, Zenon DEF IInv

\* Characters that are made go behind those made before, as far as there is
\* room for them and the terminator.
LEMMA EmitInv ==
    ASSUME NEW t, IsSeq(t), BufInv, state \in ReadStates, Emit(t), size' = size,
           state' \in ReadStates
    PROVE  BufInv' /\ WithinBuffer' /\ TextKept'
  <1> DEFINE new == {k \in 0 .. size - 1 : len <= k /\ k < len + Len(t) /\ k + 1 < size}
  <1>1. /\ size \in Nat /\ len \in Nat /\ IsSeq(text) /\ Len(text) = len
        /\ DOMAIN buf = Room(len) /\ \A k \in Room(len) : buf[k] = text[k + 1]
    BY Zenon DEF BufInv
  <1>2. len' = len + Len(t) /\ text' = text \o t  BY Zenon DEF Emit
  <1>3. buf' = [k \in DOMAIN buf \union new |-> IF k \in new THEN t[k - len + 1] ELSE buf[k]]
    BY Zenon DEF Emit, Kept
  <1>4. /\ IsSeq(text') /\ Len(t) \in Nat /\ Len(text') = len'
        /\ \A k \in 1 .. len + Len(t) :
             text'[k] = IF k <= len THEN text[k] ELSE t[k - len]
    BY <1>1, <1>2, Concatenation, Zenon
  <1>5. len' \in Nat  BY <1>1, <1>2, <1>4, SMT
  <1>6. DOMAIN buf \union new = Room(len)'
    BY <1>1, <1>2, <1>4, SMT DEF Room
  <1>7. DOMAIN buf' = Room(len)'  BY <1>3, <1>6, Zenon
  <1>8. ASSUME NEW k \in Room(len)' PROVE buf'[k] = text'[k + 1]
    <2>1. k \in Int /\ 0 <= k /\ k < len + Len(t) /\ k < size /\ k + 1 < size
      BY <1>1, <1>2, SMT DEF Room
    <2>2. text'[k + 1] = IF k + 1 <= len THEN text[k + 1] ELSE t[(k + 1) - len]
      <3>1. k + 1 \in 1 .. len + Len(t)  BY <1>1, <1>4, <2>1, SMT
      <3> QED  BY <1>4, <3>1, Zenon
    <2>3. buf'[k] = IF k \in new THEN t[k - len + 1] ELSE buf[k]
      BY <1>3, <1>6, Zenon
    <2>4. CASE k \in new
      <3>1. ~(k + 1 <= len) /\ k - len + 1 = (k + 1) - len  BY <1>1, <2>1, <2>4, SMT
      <3> QED  BY <2>2, <2>3, <2>4, <3>1, Zenon
    <2>5. CASE k \notin new
      <3>1. k < len /\ k + 1 <= len  BY <1>1, <1>4, <2>1, <2>5, SMT
      <3>2. k \in Room(len)  BY <1>1, <2>1, <3>1, SMT DEF Room
      <3> QED  BY <1>1, <2>2, <2>3, <2>5, <3>1, <3>2, Zenon
    <2> QED  BY <2>4, <2>5, Zenon
  <1>9. state' # "start" /\ state' # "returned" /\ state' # "sent"  BY SMT DEF ReadStates
  <1>10. BufInv'  BY <1>1, <1>4, <1>5, <1>7, <1>8, <1>9, Zenon DEF BufInv
  <1>11. WithinBuffer'
    <2>1. Room(len)' \subseteq (0 .. size - 1)'  BY Zenon DEF Room
    <2> QED  BY <1>7, <2>1, Zenon DEF WithinBuffer
  <1>12. TextKept'  BY <1>9, Zenon DEF TextKept
  <1> QED  BY <1>10, <1>11, <1>12, Zenon

\* A step that makes nothing keeps what there is.
LEMMA NothingInv ==
    ASSUME IInv, state \in ReadStates, UNCHANGED <<size, len, buf, text>>,
           state' \in ReadStates \union {"overflow"}
    PROVE  BufInv' /\ WithinBuffer' /\ TextKept'
  <1>1. /\ size' = size /\ len' = len /\ buf' = buf /\ text' = text  OBVIOUS
  <1>2. state' # "start" /\ state' # "returned" /\ state' # "sent" /\ state # "sent"
    BY SMT DEF ReadStates
  <1>3. BufInv /\ WithinBuffer  BY Zenon DEF IInv
  <1>4. Room(len)' = Room(len)  BY <1>1, Zenon DEF Room
  <1>5. BufInv'  BY <1>1, <1>2, <1>3, <1>4, Zenon DEF BufInv
  <1>6. WithinBuffer'  BY <1>1, <1>2, <1>3, Zenon DEF WithinBuffer
  <1>7. TextKept'  BY <1>2, Zenon DEF TextKept
  <1> QED  BY <1>5, <1>6, <1>7, Zenon

-----------------------------------------------------------------------------
(* The steps.                                                              *)

\* While a character is left the place of the next one is in the format.
LEMMA Inside ==
    ASSUME ParseInv, Ch # Nul
    PROVE  /\ pos \in Nat /\ Len(format) \in Nat
           /\ 1 <= pos /\ pos <= Len(format)
           /\ \A k \in Nat : k <= 1 => pos + k \in 1 .. Len(format) + 1
  <1>1. Len(format) \in Nat  BY SMT DEF ParseInv
  <1>2. pos \in 1 .. Len(format) + 1  BY Zenon DEF ParseInv
  <1>3. pos # Len(format) + 1  BY Zenon DEF Ch, CharAt
  <1> HIDE DEF ParseInv
  <1> QED  BY <1>1, <1>2, <1>3, SMT

\* The parts of ParseInv that a step may change.
LEMMA ParseStep ==
    ASSUME ParseInv, format' = format, call' = call,
           pos' \in 1 .. Len(format) + 1, SpecOK(spec')
    PROVE  ParseInv'
  BY Zenon DEF ParseInv, SpecOK

\* The end of a conversion.
LEMMA ConvertedInv ==
    ASSUME NEW arg, NEW t, NEW flags, NEW base, IsSeq(t), IInv, Reading("conv"),
           Converted(arg, t, flags, base)
    PROVE  IInv'
  <1>1. ParseInv /\ BufInv  BY Zenon DEF IInv
  <1>2. /\ format' = format /\ call' = call /\ size' = size /\ state = "conv" /\ Ch # Nul
    BY Zenon DEF Reading, Unchanging
  <1>3. Emit(t)  BY Zenon DEF Converted
  <1>4. spec' = Empty /\ state' = "default" /\ pos' = pos + 1
    BY Zenon DEF Converted, Reset, Next1
  <1>5. pos' \in 1 .. Len(format) + 1
    <2>1. 1 \in Nat /\ 1 <= 1  BY SMT
    <2> QED  BY <1>1, <1>2, <1>4, <2>1, Inside, Zenon
  <1>6. ParseInv'  BY <1>1, <1>2, <1>4, <1>5, EmptyOK, ParseStep, Zenon
  <1>7. state \in ReadStates /\ state' \in ReadStates  BY <1>2, <1>4, SMT DEF ReadStates
  <1>8. BufInv' /\ WithinBuffer' /\ TextKept'  BY <1>1, <1>2, <1>3, <1>7, EmitInv, Zenon
  <1> QED  BY <1>6, <1>8, Zenon DEF IInv

\* A step that only reads: it stays in the format and within the types.
LEMMA ReadInv ==
    ASSUME NEW s \in ReadStates, IInv, Reading(s), EmitNothing,
           state' \in ReadStates \union {"overflow"},
           pos' \in 1 .. Len(format) + 1, SpecOK(spec')
    PROVE  IInv'
  <1>1. ParseInv  BY Zenon DEF IInv
  <1>2. /\ format' = format /\ call' = call /\ size' = size /\ state = s
        /\ len' = len /\ buf' = buf /\ text' = text
    BY Zenon DEF Reading, Unchanging, EmitNothing
  <1>3. ParseInv'  BY <1>1, <1>2, ParseStep, Zenon
  <1>4. BufInv' /\ WithinBuffer' /\ TextKept'  BY <1>2, NothingInv, Zenon
  <1> QED  BY <1>3, <1>4, Zenon DEF IInv

\* What the digits stand for.
LEMMA Digit == \A c \in DigitChars : DigitValue[c] \in Nat
  <1> SUFFICES ASSUME NEW c \in DigitChars PROVE DigitValue[c] \in Nat  OBVIOUS
  <1>1. PICK k \in 1 .. 10 : c = Lower[k]  BY Zenon DEF DigitChars
  <1>2. k \in 1 .. 16  BY <1>1, SMT
  <1>3. DOMAIN Lower = 1 .. 16  BY SMT DEF Lower
  <1>4. c \in ToSet(Lower) \union ToSet(Upper)  BY <1>1, <1>2, <1>3, Zenon DEF ToSet
  <1> DEFINE P(j) == c \in {Lower[j], Upper[j]}
             v == CHOOSE j \in 1 .. 16 : P(j)
  <1>5. DigitValue[c] = v - 1  BY <1>4, Zenon DEF DigitValue
  <1>6. P(k)  BY <1>1, Zenon
  <1> HIDE DEF P
  <1>7. v \in 1 .. 16  BY <1>2, <1>6, Zenon
  <1> HIDE DEF v
  <1> QED  BY <1>5, <1>7, SMT

\* Reading keeps what is a conversion one.
LEMMA SpecStep ==
    ASSUME SpecOK(spec)
    PROVE  /\ \A f : SpecOK([spec EXCEPT !.flags = f])
           /\ \A w \in Int : SpecOK([spec EXCEPT !.width = w])
           /\ \A f : \A w \in Int : SpecOK([spec EXCEPT !.flags = f, !.width = w])
           /\ \A p \in Int : p >= -1 => SpecOK([spec EXCEPT !.precision = p])
           /\ \A c : SpecOK([spec EXCEPT !.cflags = c])
           /\ spec.width \in Int /\ spec.precision \in Int /\ spec.precision >= -1
  <1>1. PICK f0, c0, b0 : \E w \in Int, p \in Int :
               p >= -1 /\ spec = Read(f0, w, p, c0, b0)
    BY Zenon DEF SpecOK
  <1>2. PICK w0 \in Int, p0 \in Int : p0 >= -1 /\ spec = Read(f0, w0, p0, c0, b0)
    BY <1>1, Zenon
  <1>3. \A f : [spec EXCEPT !.flags = f] = Read(f, w0, p0, c0, b0)
    BY <1>2, SMT DEF Read
  <1>4. \A f, w : [spec EXCEPT !.width = w] = Read(f0, w, p0, c0, b0)
    BY <1>2, SMT DEF Read
  <1>5. ASSUME NEW f, NEW w
        PROVE  [spec EXCEPT !.flags = f, !.width = w] = Read(f, w, p0, c0, b0)
    <2> DEFINE s == [spec EXCEPT !.flags = f]
    <2>1. [spec EXCEPT !.flags = f, !.width = w] = [s EXCEPT !.width = w]  BY SMT
    <2>2. s = Read(f, w0, p0, c0, b0)  BY <1>3, Zenon
    <2> HIDE DEF s
    <2>3. [s EXCEPT !.width = w] = Read(f, w, p0, c0, b0)  BY <2>2, SMT DEF Read
    <2> QED  BY <2>1, <2>3, Zenon
  <1>6. \A p : [spec EXCEPT !.precision = p] = Read(f0, w0, p, c0, b0)
    BY <1>2, SMT DEF Read
  <1>7. \A c : [spec EXCEPT !.cflags = c] = Read(f0, w0, p0, c, b0)
    BY <1>2, SMT DEF Read
  <1>8. spec.width = w0 /\ spec.precision = p0  BY <1>2, SMT DEF Read
  <1>9. \A f, c, b : \A w \in Int, p \in Int : p >= -1 => SpecOK(Read(f, w, p, c, b))
    BY Zenon DEF SpecOK
  <1>10. w0 \in Int /\ p0 \in Int /\ p0 >= -1  BY <1>2, Zenon
  <1>11. ASSUME NEW f
         PROVE  SpecOK([spec EXCEPT !.flags = f])
    <2> DEFINE s == [spec EXCEPT !.flags = f]
    <2>1. s = Read(f, w0, p0, c0, b0)  BY <1>3, Zenon
    <2> HIDE DEF s
    <2>2. SpecOK(s)  BY <1>9, <1>10, <2>1, Zenon
    <2> QED  BY <2>2 DEF s
  <1>12. ASSUME NEW w \in Int
         PROVE  SpecOK([spec EXCEPT !.width = w])
    <2> DEFINE s == [spec EXCEPT !.width = w]
    <2>1. s = Read(f0, w, p0, c0, b0)  BY <1>4, Zenon
    <2> HIDE DEF s
    <2>2. SpecOK(s)  BY <1>9, <1>10, <2>1, Zenon
    <2> QED  BY <2>2 DEF s
  <1>13. ASSUME NEW f, NEW w \in Int
         PROVE  SpecOK([spec EXCEPT !.flags = f, !.width = w])
    <2> DEFINE s == [spec EXCEPT !.flags = f, !.width = w]
    <2>1. s = Read(f, w, p0, c0, b0)  BY <1>5, Zenon
    <2> HIDE DEF s
    <2>2. SpecOK(s)  BY <1>9, <1>10, <2>1, Zenon
    <2> QED  BY <2>2 DEF s
  <1>14. ASSUME NEW p \in Int, p >= -1
         PROVE  SpecOK([spec EXCEPT !.precision = p])
    <2> DEFINE s == [spec EXCEPT !.precision = p]
    <2>1. s = Read(f0, w0, p, c0, b0)  BY <1>6, Zenon
    <2> HIDE DEF s
    <2>2. SpecOK(s)  BY <1>9, <1>10, <1>14, <2>1, Zenon
    <2> QED  BY <2>2 DEF s
  <1>15. ASSUME NEW c
         PROVE  SpecOK([spec EXCEPT !.cflags = c])
    <2> DEFINE s == [spec EXCEPT !.cflags = c]
    <2>1. s = Read(f0, w0, p0, c, b0)  BY <1>7, Zenon
    <2> HIDE DEF s
    <2>2. SpecOK(s)  BY <1>9, <1>10, <2>1, Zenon
    <2> QED  BY <2>2 DEF s
  <1>16. spec.width \in Int /\ spec.precision \in Int /\ spec.precision >= -1
    BY <1>8, <1>10, SMT
  <1> QED  BY <1>11, <1>12, <1>13, <1>14, <1>15, <1>16, Zenon

\* Entering Vsnprintf.
LEMMA StartInv == IInv /\ Start => IInv'
  <1> SUFFICES ASSUME IInv, Start PROVE IInv'  OBVIOUS
  <1>1. ParseInv /\ BufInv  BY Zenon DEF IInv
  <1>2. /\ state = "start" /\ format' = format /\ call' = call /\ pos' = pos /\ spec' = spec
        /\ len' = len /\ buf' = buf /\ text' = text
        /\ size' = (IF call.buffer THEN call.size ELSE 0)
        /\ state' = (IF call.format THEN "default" ELSE "returned")
    BY Zenon DEF Start
  <1>3. size' \in Nat  BY <1>1, <1>2, SMT DEF ParseInv
  <1>4. /\ len = 0 /\ IsSeq(text) /\ Len(text) = 0 /\ DOMAIN buf = Room(len) /\ size = 0
    <2>1. state \in {"start"} \union ReadStates \union {"overflow"}  BY <1>2, Zenon
    <2> QED  BY <1>1, <1>2, <2>1, Zenon DEF BufInv
  <1>5. Room(len) = {} /\ Room(len)' = {}  BY <1>2, <1>3, <1>4, SMT DEF Room
  <1>6. ParseInv'  BY <1>1, <1>2, Zenon DEF ParseInv, SpecOK
  <1>7. state' # "start" /\ (state' = "returned" => ~call'.format)
    BY <1>2, SMT
  <1>8. BufInv'
    <2>1. size' \in Nat /\ len' \in Nat /\ IsSeq(text') /\ Len(text') = len'
      BY <1>2, <1>3, <1>4, SMT
    <2>2. DOMAIN buf' = Room(len)' /\ \A k \in Room(len)' : buf'[k] = text'[k + 1]
      BY <1>2, <1>4, <1>5, Zenon
    <2> QED  BY <1>7, <2>1, <2>2, Zenon DEF BufInv
  <1>9. WithinBuffer'  BY <1>2, <1>4, <1>5, Zenon DEF WithinBuffer
  <1>10. TextKept'  BY <1>7, Zenon DEF TextKept
  <1> QED  BY <1>6, <1>8, <1>9, <1>10, Zenon DEF IInv

\* The characters outside conversions.
LEMMA DefaultInv == IInv /\ Default => IInv'
  <1> SUFFICES ASSUME IInv, Default PROVE IInv'  OBVIOUS
  <1>1. /\ Reading("default") /\ pos' = pos + 1 /\ spec' = spec /\ fields' = fields
        /\ \/ Ch = "%" /\ state' = "flags" /\ UNCHANGED <<buf, len, text>>
           \/ Ch # "%" /\ Emit(<<Ch>>) /\ state' = state
    BY Zenon DEF Default, Next1
  <1>2. ParseInv /\ BufInv  BY Zenon DEF IInv
  <1>3. /\ format' = format /\ call' = call /\ size' = size /\ state = "default" /\ Ch # Nul
    BY <1>1, Zenon DEF Reading, Unchanging
  <1>4. pos' \in 1 .. Len(format) + 1
    <2>1. 1 \in Nat /\ 1 <= 1  BY SMT
    <2> QED  BY <1>1, <1>2, <1>3, <2>1, Inside, Zenon
  <1>5. SpecOK(spec')  BY <1>1, <1>2, Zenon DEF ParseInv, SpecOK
  <1>6. "default" \in ReadStates /\ "flags" \in ReadStates  BY SMT DEF ReadStates
  <1>7. CASE Ch = "%" /\ state' = "flags" /\ UNCHANGED <<buf, len, text>>
    <2>1. EmitNothing  BY <1>1, <1>7, Zenon DEF EmitNothing
    <2> QED  BY <1>1, <1>4, <1>5, <1>6, <1>7, <2>1, ReadInv, Zenon
  <1>8. CASE Ch # "%" /\ Emit(<<Ch>>) /\ state' = state
    <2>1. IsSeq(<<Ch>>)  BY HeadIsSeq, Zenon
    <2>2. state \in ReadStates /\ state' \in ReadStates  BY <1>3, <1>6, <1>8, Zenon
    <2>3. BufInv' /\ WithinBuffer' /\ TextKept'
      BY <1>2, <1>3, <1>8, <2>1, <2>2, EmitInv, Zenon
    <2>4. ParseInv'  BY <1>2, <1>3, <1>4, <1>5, ParseStep, Zenon
    <2> QED  BY <2>3, <2>4, Zenon DEF IInv
  <1> QED  BY <1>1, <1>7, <1>8, Zenon

\* A character read, or none, within a conversion: what the steps below need.
LEMMA ReadPlaces ==
    ASSUME IInv, Ch # Nul
    PROVE  /\ pos \in 1 .. Len(format) + 1 /\ pos + 1 \in 1 .. Len(format) + 1
           /\ SpecOK(spec) /\ spec.width \in Int
           /\ spec.precision \in Int /\ spec.precision >= -1
  <1>1. ParseInv  BY Zenon DEF IInv
  <1>2. 1 \in Nat /\ 1 <= 1  BY SMT
  <1>3. pos + 1 \in 1 .. Len(format) + 1  BY <1>1, <1>2, Inside, Zenon
  <1>4. pos \in 1 .. Len(format) + 1 /\ SpecOK(spec)  BY <1>1, Zenon DEF ParseInv
  <1> QED  BY <1>3, <1>4, SpecStep, Zenon

LEMMA FlagsInv == IInv /\ Flags => IInv'
  <1> SUFFICES ASSUME IInv, Flags PROVE IInv'  OBVIOUS
  <1>1. Reading("flags") /\ EmitNothing  BY Zenon DEF Flags
  <1>2. Ch # Nul /\ state = "flags"  BY <1>1, Zenon DEF Reading
  <1>3. "flags" \in ReadStates /\ "width" \in ReadStates  BY SMT DEF ReadStates
  <1>4. CASE /\ Ch \in FlagChars /\ pos' = pos + 1 /\ state' = state
             /\ spec' = [spec EXCEPT !.flags = @ \union {Ch}]
    <2>1. SpecOK(spec')
      <3> DEFINE f == spec.flags \union {Ch}
      <3>1. spec' = [spec EXCEPT !.flags = f]  BY <1>4, Zenon
      <3> HIDE DEF f
      <3>2. SpecOK([spec EXCEPT !.flags = f])  BY <1>2, ReadPlaces, SpecStep, Zenon
      <3> QED  BY <3>1, <3>2 
    <2> QED  BY <1>1, <1>2, <1>3, <1>4, <2>1, ReadPlaces, ReadInv, Zenon
  <1>5. CASE Ch \notin FlagChars /\ state' = "width" /\ UNCHANGED <<pos, spec>>
    <2>1. pos' = pos /\ spec' = spec  BY <1>5, Zenon
    <2>2. SpecOK(spec')  BY <1>2, <2>1, ReadPlaces, Zenon DEF SpecOK
    <2> QED  BY <1>1, <1>2, <1>3, <1>5, <2>1, <2>2, ReadPlaces, ReadInv, Zenon
  <1> QED  BY <1>4, <1>5, Zenon DEF Flags, Next1

LEMMA WidthInv == IInv /\ Width => IInv'
  <1> SUFFICES ASSUME IInv, Width PROVE IInv'  OBVIOUS
  <1>1. Reading("width") /\ EmitNothing  BY Zenon DEF Width
  <1>2. Ch # Nul /\ state = "width"  BY <1>1, Zenon DEF Reading
  <1>3. "width" \in ReadStates /\ "dot" \in ReadStates  BY SMT DEF ReadStates
  <1>4. CASE UNCHANGED <<pos, spec>> /\ state' \in {"dot", "overflow"}
    <2>1. pos' = pos /\ spec' = spec  BY <1>4, Zenon
    <2>2. SpecOK(spec')  BY <1>2, <2>1, ReadPlaces, Zenon DEF SpecOK
    <2>3. state' \in ReadStates \union {"overflow"}  BY <1>3, <1>4, Zenon
    <2> QED  BY <1>1, <1>2, <1>3, <2>1, <2>2, <2>3, ReadPlaces, ReadInv, Zenon
  <1>5. CASE /\ Ch \in DigitChars /\ pos' = pos + 1 /\ state' = state
             /\ spec' = [spec EXCEPT !.width = Append10(@)]
    <2>1. SpecOK(spec')
      <3> DEFINE w == Append10(spec.width)
      <3>1. spec' = [spec EXCEPT !.width = w]  BY <1>5, Zenon
      <3>2. w \in Int
        <4>1. DigitValue[Ch] \in Nat  BY <1>5, Digit, Zenon
        <4>2. spec.width \in Int  BY <1>2, ReadPlaces, Zenon
        <4> QED  BY <4>1, <4>2, SMT DEF Append10
      <3> HIDE DEF w
      <3>3. SpecOK([spec EXCEPT !.width = w])  BY <1>2, <3>2, ReadPlaces, SpecStep, Zenon
      <3> QED  BY <3>1, <3>3
    <2> QED  BY <1>1, <1>2, <1>3, <1>5, <2>1, ReadPlaces, ReadInv, Zenon
  <1>6. CASE Ch = "*" /\ pos' = pos + 1 /\ state' = "dot"
             /\ \E w \in Stars : spec' = StarWidth(spec, w)
    <2>1. PICK w \in Stars : spec' = StarWidth(spec, w)  BY <1>6, Zenon
    <2>2. w \in Int /\ -w \in Int  BY ArgumentsAssumption, SMT
    <2>3. SpecOK(spec')
      <3>1. CASE w < 0
        <4> DEFINE f == spec.flags \union {"-"}
                   v == -w
        <4>1. spec' = [spec EXCEPT !.flags = f, !.width = v]  BY <2>1, <3>1, SMT DEF StarWidth
        <4>2. v \in Int  BY <2>2
        <4> HIDE DEF f, v
        <4>3. SpecOK([spec EXCEPT !.flags = f, !.width = v])
          BY <1>2, <4>2, ReadPlaces, SpecStep, Zenon
        <4> QED  BY <4>1, <4>3
      <3>2. CASE ~(w < 0)
        <4>1. spec' = [spec EXCEPT !.width = w]  BY <2>1, <3>2, Zenon DEF StarWidth
        <4>2. SpecOK([spec EXCEPT !.width = w])  BY <1>2, <2>2, ReadPlaces, SpecStep, Zenon
        <4> QED  BY <4>1, <4>2
      <3> QED  BY <3>1, <3>2, Zenon
    <2> QED  BY <1>1, <1>2, <1>3, <1>6, <2>3, ReadPlaces, ReadInv, Zenon
  <1> QED  BY <1>4, <1>5, <1>6, Zenon DEF Width, Next1, Overflow

LEMMA DotInv == IInv /\ Dot => IInv'
  <1> SUFFICES ASSUME IInv, Dot PROVE IInv'  OBVIOUS
  <1>1. Reading("dot") /\ EmitNothing /\ spec' = spec  BY Zenon DEF Dot
  <1>2. Ch # Nul  BY <1>1, Zenon DEF Reading
  <1>3. "dot" \in ReadStates /\ "precision" \in ReadStates /\ "mod" \in ReadStates
    BY SMT DEF ReadStates
  <1>4. SpecOK(spec')  BY <1>1, <1>2, ReadPlaces, Zenon DEF SpecOK
  <1>5. state' \in {"precision", "mod"} /\ pos' \in {pos, pos + 1}
    BY Zenon DEF Dot, Next1
  <1>6. state' \in ReadStates \union {"overflow"}  BY <1>3, <1>5, Zenon
  <1>7. pos' \in 1 .. Len(format) + 1  BY <1>2, <1>5, ReadPlaces, Zenon
  <1> QED  BY <1>1, <1>3, <1>4, <1>6, <1>7, ReadInv, Zenon

LEMMA PrecisionInv == IInv /\ Precision => IInv'
  <1> SUFFICES ASSUME IInv, Precision PROVE IInv'  OBVIOUS
  <1> DEFINE p == AtLeast(spec.precision, 0)
  <1>1. Reading("precision") /\ EmitNothing  BY Zenon DEF Precision
  <1>2. Ch # Nul /\ state = "precision"  BY <1>1, Zenon DEF Reading
  <1>3. "precision" \in ReadStates /\ "mod" \in ReadStates  BY SMT DEF ReadStates
  <1>4. p \in Int /\ p >= -1
    <2>1. spec.precision \in Int  BY <1>2, ReadPlaces, Zenon
    <2> QED  BY <2>1, SMT DEF AtLeast
  <1>5. ASSUME NEW q \in Int, q >= -1 PROVE SpecOK([spec EXCEPT !.precision = q])
    BY <1>2, <1>5, ReadPlaces, SpecStep, Zenon
  <1>6. CASE /\ spec' = [spec EXCEPT !.precision = p] /\ pos' = pos
             /\ state' \in {"overflow", "mod"}
    <2> HIDE DEF p
    <2>1. SpecOK([spec EXCEPT !.precision = p])  BY <1>4, <1>5
    <2>2. SpecOK(spec')  BY <1>6, <2>1
    <2>3. state' \in ReadStates \union {"overflow"}  BY <1>3, <1>6, Zenon
    <2> QED  BY <1>1, <1>2, <1>3, <1>6, <2>2, <2>3, ReadPlaces, ReadInv, Zenon
  <1>7. CASE /\ Ch \in DigitChars /\ pos' = pos + 1 /\ state' = state
             /\ spec' = [spec EXCEPT !.precision = Append10(p)]
    <2> DEFINE q == Append10(p)
    <2>1. q \in Int /\ q >= -1
      <3>1. DigitValue[Ch] \in Nat  BY <1>7, Digit, Zenon
      <3>2. p \in Nat
        <4>1. spec.precision \in Int  BY <1>2, ReadPlaces, Zenon
        <4> QED  BY <4>1, AtLeastZero, Zenon
      <3> HIDE DEF p
      <3> QED  BY <3>1, <3>2, SMT DEF Append10
    <2> HIDE DEF q
    <2>2. SpecOK([spec EXCEPT !.precision = q])  BY <1>5, <2>1
    <2>3. SpecOK(spec')  BY <1>7, <2>2 DEF q
    <2> QED  BY <1>1, <1>2, <1>3, <1>7, <2>3, ReadPlaces, ReadInv, Zenon
  <1>8. CASE /\ Ch = "*" /\ pos' = pos + 1 /\ state' = "mod"
             /\ \E q \in Stars : spec' = [spec EXCEPT !.precision = AtLeast(q, -1)]
    <2>1. PICK q \in Stars : spec' = [spec EXCEPT !.precision = AtLeast(q, -1)]
      BY <1>8, Zenon
    <2> DEFINE r == AtLeast(q, -1)
    <2>2. r \in Int /\ r >= -1
      <3>1. q \in Int  BY ArgumentsAssumption, SMT
      <3> QED  BY <3>1, SMT DEF AtLeast
    <2> HIDE DEF r
    <2>3. SpecOK([spec EXCEPT !.precision = r])  BY <1>5, <2>2
    <2>4. SpecOK(spec')  BY <2>1, <2>3 DEF r
    <2> QED  BY <1>1, <1>2, <1>3, <1>8, <2>4, ReadPlaces, ReadInv, Zenon
  <1> QED  BY <1>6, <1>7, <1>8, Zenon DEF Precision, Next1

\* A doubled modifier is read only where its second character is in the format.
LEMMA ModInv == IInv /\ Mod => IInv'
  <1> SUFFICES ASSUME IInv, Mod PROVE IInv'  OBVIOUS
  <1>1. /\ Reading("mod") /\ EmitNothing /\ state' = "conv"
        /\ pos' = pos + Modifier.chars
        /\ spec' = [spec EXCEPT !.cflags = Modifier.cflags]
    BY Zenon DEF Mod, Next1
  <1>2. Ch # Nul  BY <1>1, Zenon DEF Reading
  <1>3. "mod" \in ReadStates /\ "conv" \in ReadStates  BY SMT DEF ReadStates
  <1>4. /\ Modifier.chars \in {0, 1, 2}
        /\ Modifier.chars = 2 => CharAt(pos + 1) \in {"h", "l"}
    BY SMT DEF Modifier
  <1>5. pos' \in 1 .. Len(format) + 1
    <2>1. pos \in Nat /\ Len(format) \in Nat /\ 1 <= pos /\ pos <= Len(format)
      BY <1>2, Inside, Zenon DEF IInv
    <2>2. CASE Modifier.chars = 2
      <3>1. CharAt(pos + 1) # Nul  BY <1>4, <2>2, SMT DEF Nul
      <3>2. pos + 1 # Len(format) + 1  BY <3>1, Zenon DEF CharAt
      <3> QED  BY <1>1, <2>1, <2>2, <3>2, SMT
    <2>3. CASE Modifier.chars \in {0, 1}
      <3> DEFINE c == Modifier.chars
      <3>1. pos' = pos + c  BY <1>1, Zenon
      <3> HIDE DEF c
      <3> QED  BY <2>1, <2>3, <3>1, SMT DEF c
    <2> QED  BY <1>4, <2>2, <2>3, SMT
  <1>6. SpecOK(spec')
    <2> DEFINE c == Modifier.cflags
    <2>1. spec' = [spec EXCEPT !.cflags = c]  BY <1>1, Zenon
    <2> HIDE DEF c
    <2>2. SpecOK([spec EXCEPT !.cflags = c])  BY <1>2, ReadPlaces, SpecStep, Zenon
    <2> QED  BY <2>1, <2>2
  <1> QED  BY <1>1, <1>3, <1>5, <1>6, ReadInv, Zenon

\* The conversions of a number, with the width and precision that were read.
LEMMA NumberInv ==
    ASSUME NEW arg, NEW v, NEW flags, NEW base, NEW printBase, IInv, Reading("conv"),
           Number(arg, v, flags, base, printBase)
    PROVE  IInv'
  <1> DEFINE t == FmtInt(v, printBase, spec.width, spec.precision, spec.flags \union flags)
  <1>1. Converted(arg, t, flags, base)  BY Zenon DEF Number
  <1>2. spec.width \in Int /\ spec.precision \in Int
    BY ReadPlaces, Zenon DEF Reading
  <1>3. IsSeq(t)  BY <1>2, FmtIntIsSeq, Zenon
  <1> HIDE DEF t
  <1> QED  BY <1>1, <1>3, ConvertedInv, Zenon

\* The conversions of a string.
LEMMA StringInv ==
    ASSUME NEW arg, NEW v, IsSeq(v), NEW p \in Int, p >= -1, NEW base, IInv,
           Reading("conv"),
           Converted(arg, FmtStr(v, spec.width, p, spec.flags), {}, base)
    PROVE  IInv'
  <1> DEFINE t == FmtStr(v, spec.width, p, spec.flags)
  <1>1. spec.width \in Int  BY ReadPlaces, Zenon DEF Reading
  <1>2. IsSeq(t)  BY <1>1, FmtStrIsSeq, Zenon
  <1>3. Converted(arg, t, {}, base)  BY Zenon
  <1> HIDE DEF t
  <1> QED  BY <1>2, <1>3, ConvertedInv, Zenon

LEMMA ConversionInv ==
    ASSUME IInv,
           ConvSigned \/ ConvUnsigned \/ ConvChar \/ ConvString \/ ConvPointer
             \/ ConvCount \/ ConvPercent \/ ConvOther
    PROVE  IInv'
  <1>1. CASE ConvSigned
    <2>1. PICK i \in Ints :
            LET bits == Bits(spec.cflags)
            IN  Number(i, IF spec.cflags = "z" THEN Unsigned(i, bits) ELSE Signed(i, bits),
                       {}, spec.base, 10)
      BY <1>1, Zenon DEF ConvSigned
    <2>2. Reading("conv")  BY <1>1, Zenon DEF ConvSigned
    <2> QED  BY <2>1, <2>2, NumberInv, Zenon
  <1>2. CASE ConvUnsigned
    <2> DEFINE base == IF Ch \in {"x", "X"} THEN 16
                       ELSE IF spec.base # 0 THEN spec.base ELSE IF Ch = "o" THEN 8 ELSE 10
               flags == {"UNSIGNED"} \union (IF Ch = "X" THEN {"UP"} ELSE {})
               v(i) == IF spec.cflags = "t" THEN Signed(i, Bits(spec.cflags))
                       ELSE Unsigned(i, Bits(spec.cflags))
    <2>1. PICK i \in Ints : Number(i, v(i), flags, base, base)
      BY <1>2, Zenon DEF ConvUnsigned
    <2>2. Reading("conv")  BY <1>2, Zenon DEF ConvUnsigned
    <2> HIDE DEF base, flags, v
    <2> QED  BY <2>1, <2>2, NumberInv, Zenon
  <1>3. CASE ConvChar
    <2>1. PICK c \in {"c", Nul} : Converted(c, <<c>>, {}, spec.base)
      BY <1>3, Zenon DEF ConvChar
    <2>2. Reading("conv")  BY <1>3, Zenon DEF ConvChar
    <2> QED  BY <2>1, <2>2, HeadIsSeq, ConvertedInv, Zenon
  <1>4. CASE ConvString
    <2>1. PICK s \in Strings :
            Converted(s, FmtStr(s, spec.width, spec.precision, spec.flags), {}, spec.base)
      BY <1>4, Zenon DEF ConvString
    <2>2. Reading("conv")  BY <1>4, Zenon DEF ConvString
    <2>3. IsSeq(s)  BY StringsAssumption, Zenon DEF IsSeq
    <2>4. spec.precision \in Int /\ spec.precision >= -1
      BY <2>2, ReadPlaces, Zenon DEF Reading
    <2> QED  BY <2>1, <2>2, <2>3, <2>4, StringInv, Zenon
  <1>5. CASE ConvPointer
    <2> DEFINE nil == <<"(", "n", "i", "l", ")">>
    <2>1. PICK i \in Ints :
            \/ Converted(i, FmtStr(nil, spec.width, -1, spec.flags), {}, spec.base)
            \/ Number(i, Unsigned(i, SizeBits), {"#", "UNSIGNED"}, spec.base, 16)
      BY <1>5, Zenon DEF ConvPointer
    <2>2. Reading("conv")  BY <1>5, Zenon DEF ConvPointer
    <2>3. IsSeq(nil)
      <3>1. nil \in Seq({"(", "n", "i", "l", ")"})  BY SMT
      <3> QED  BY <3>1, Zenon DEF IsSeq
    <2> HIDE DEF nil
    <2>4. -1 \in Int /\ -1 >= -1  BY SMT
    <2>5. CASE Converted(i, FmtStr(nil, spec.width, -1, spec.flags), {}, spec.base)
      BY <2>2, <2>3, <2>4, <2>5, StringInv, Zenon
    <2>6. CASE Number(i, Unsigned(i, SizeBits), {"#", "UNSIGNED"}, spec.base, 16)
      BY <2>2, <2>6, NumberInv, Zenon
    <2> QED  BY <2>1, <2>5, <2>6, Zenon
  <1>6. CASE ConvCount
    BY <1>6, HeadIsSeq, ConvertedInv, Zenon DEF ConvCount, NoText
  <1>7. CASE ConvPercent
    BY <1>7, HeadIsSeq, ConvertedInv, Zenon DEF ConvPercent
  <1>8. CASE ConvOther
    BY <1>8, HeadIsSeq, ConvertedInv, Zenon DEF ConvOther, NoText
  <1> QED  BY <1>1, <1>2, <1>3, <1>4, <1>5, <1>6, <1>7, <1>8, Zenon

\* The terminator goes behind what was kept, in the last byte at most.
LEMMA OutInv == IInv /\ Out => IInv'
  <1> SUFFICES ASSUME IInv, Out PROVE IInv'  OBVIOUS
  <1>1. /\ state \in ReadStates \/ state = "overflow"
        /\ buf' = Terminated /\ state' = "returned"
        /\ ret' = (IF state = "overflow" \/ len >= IntMax THEN -1 ELSE len)
        /\ format' = format /\ call' = call /\ pos' = pos /\ spec' = spec
        /\ size' = size /\ len' = len /\ text' = text
    BY Zenon DEF Out
  <1>2. ParseInv /\ BufInv  BY Zenon DEF IInv
  <1>3. ParseInv'  BY <1>1, <1>2, Zenon DEF ParseInv, SpecOK
  <1>4. /\ size \in Nat /\ len \in Nat /\ IsSeq(text) /\ Len(text) = len
        /\ DOMAIN buf = Room(len) /\ \A k \in Room(len) : buf[k] = text[k + 1]
    BY <1>1, <1>2, Zenon DEF BufInv
  <1>5. state' # "start" /\ state' \notin ReadStates /\ state' # "overflow"
    BY <1>1, SMT DEF ReadStates
  <1>6. BufInv'  BY <1>1, <1>4, <1>5, Zenon DEF BufInv
  <1>7. ret' \in {len, -1}  BY <1>1, Zenon
  <1>8. CASE size = 0
    <2>1. buf' = buf  BY <1>1, <1>4, <1>8, SMT DEF Terminated
    <2>2. DOMAIN buf' = {}  BY <1>4, <1>8, <2>1, SMT DEF Room
    <2>3. WithinBuffer'  BY <2>2, Zenon DEF WithinBuffer
    <2>4. ~(size' > 0)  BY <1>1, <1>8, SMT
    <2>5. TextKept'  BY <1>1, <1>4, <1>7, <2>4, Zenon DEF TextKept
    <2> QED  BY <1>3, <1>6, <2>3, <2>5, Zenon DEF IInv
  <1>9. CASE size > 0
    <2> DEFINE n == IF len < size THEN len ELSE size - 1
    <2>1. n \in Nat /\ n <= size - 1 /\ n <= len  BY <1>4, <1>9, SMT
    <2>2. buf' = Put(buf, n, Nul)  BY <1>1, <1>9, Zenon DEF Terminated
    <2>3. Room(len) = {k \in Nat : k < n}  BY <1>4, <1>9, SMT DEF Room
    <2> HIDE DEF n
    <2>4. DOMAIN buf' = {k \in Nat : k < n} \union {n}
      BY <1>4, <2>2, <2>3, Zenon DEF Put
    <2>5. DOMAIN buf' = 0 .. n  BY <2>1, <2>4, SMT
    <2>6. buf'[n] = Nul  BY <2>2, Zenon DEF Put
    <2>7. ASSUME NEW k \in 1 .. n PROVE buf'[k - 1] = text[k]
      <3> DEFINE j == k - 1
      <3>1. j \in Nat /\ j < n /\ j + 1 = k /\ j # n  BY <2>1, SMT
      <3> HIDE DEF j
      <3>2. j \in Room(len)  BY <2>3, <3>1, Zenon
      <3>3. buf[j] = text[j + 1]  BY <1>4, <3>2, Zenon
      <3>4. buf'[j] = buf[j]  BY <1>4, <2>2, <3>1, <3>2, Zenon DEF Put
      <3> QED  BY <3>1, <3>3, <3>4 DEF j
    <2>8. WithinBuffer'
      <3>1. 0 .. n \subseteq 0 .. size - 1  BY <1>4, <2>1, SMT
      <3> QED  BY <1>1, <2>5, <3>1, Zenon DEF WithinBuffer
    <2>9. TextKept'
      <3>1. n' = n  BY <1>1, Zenon DEF n
      <3>2. DOMAIN buf' = 0 .. n' /\ buf'[n'] = Nul
            /\ \A k \in 1 .. n' : buf'[k - 1] = text'[k]
        BY <1>1, <2>5, <2>6, <2>7, <3>1, Zenon
      <3>3. len' = Len(text') /\ ret' \in {len', -1}  BY <1>1, <1>4, <1>7, Zenon
      <3> QED  BY <3>2, <3>3, Zenon DEF TextKept, n
    <2> QED  BY <1>3, <1>6, <2>8, <2>9, Zenon DEF IInv
  <1>10. size = 0 \/ size > 0  BY <1>4, SMT
  <1> QED  BY <1>8, <1>9, <1>10, Zenon

\* What a wrapper does behind Vsnprintf is outside the invariant.
LEMMA SendInv == IInv /\ Send => IInv'
  <1> SUFFICES ASSUME IInv, Send PROVE IInv'  OBVIOUS
  <1>1. /\ state' = "sent" /\ format' = format /\ call' = call /\ pos' = pos /\ spec' = spec
        /\ size' = size /\ len' = len /\ text' = text
    BY Zenon DEF Send
  <1>2. ParseInv /\ BufInv  BY Zenon DEF IInv
  <1>3. ParseInv'  BY <1>1, <1>2, Zenon DEF ParseInv, SpecOK
  <1>4. state' # "start" /\ state' \notin ReadStates /\ state' # "overflow"
        /\ state' # "returned"
    BY <1>1, SMT DEF ReadStates
  <1>5. BufInv'  BY <1>1, <1>2, <1>4, Zenon DEF BufInv
  <1>6. WithinBuffer' /\ TextKept'  BY <1>1, <1>4, Zenon DEF WithinBuffer, TextKept
  <1> QED  BY <1>3, <1>5, <1>6, Zenon DEF IInv

LEMMA StepInv == IInv /\ [Next]_vars => IInv'
  <1> SUFFICES ASSUME IInv, [Next]_vars PROVE IInv'  OBVIOUS
  <1>1. CASE UNCHANGED vars
    BY <1>1, Zenon DEF vars, IInv, ParseInv, SpecOK, BufInv, Room, WithinBuffer, TextKept
  <1>2. CASE Resume  BY <1>1, <1>2, Zenon DEF Resume
  <1>3. CASE Step
    BY <1>3, StartInv, DefaultInv, FlagsInv, WidthInv, DotInv, PrecisionInv, ModInv,
       ConversionInv, OutInv, SendInv, Zenon DEF Step
  <1> QED  BY <1>1, <1>2, <1>3, Zenon DEF Next

LEMMA Inductive == Spec => []IInv
  <1>1. Init => IInv  BY InitInv
  <1>2. IInv /\ [Next]_vars => IInv'  BY StepInv
  <1> QED  BY <1>1, <1>2, PTL DEF Spec

\* Vsnprintf writes nothing outside the bytes it was given, for every format,
\* argument and size.
THEOREM BufferRespected == Spec => []WithinBuffer
  <1>1. IInv => WithinBuffer  BY Zenon DEF IInv
  <1> QED  BY <1>1, Inductive, PTL

\* The buffer ends as a terminated start of the whole line, as long as there is
\* room for, and the result is the length of the whole line or -1.
THEOREM LineKept == Spec => []TextKept
  <1>1. IInv => TextKept  BY Zenon DEF IInv
  <1> QED  BY <1>1, Inductive, PTL

\* No character behind the format's terminator is read, wherever the format
\* ends.
THEOREM FormatRespected == Spec => []ReadsWithin
  <1>1. IInv => ReadsWithin
    <2> SUFFICES ASSUME IInv PROVE ReadsWithin  OBVIOUS
    <2>1. pos \in 1 .. Len(format) + 1  BY Zenon DEF IInv, ParseInv
    <2>2. Len(format) \in Nat
      <3>1. format \in Seq(STRING \ {Nul})  BY Zenon DEF IInv, ParseInv
      <3> QED  BY <3>1, SMT
    <2> QED  BY <2>1, <2>2, SMT DEF ReadsWithin
  <1> QED  BY <1>1, Inductive, PTL

-----------------------------------------------------------------------------
(* What the wrappers send.                                                 *)

\* A length below the largest int is the same as a size_t and as an offset.
LEMMA SmallNumbers ==
    ASSUME NEW n \in Nat, n <= IntMax
    PROVE  Unsigned(n, SizeBits) = n /\ Place(n) = n
  <1> DEFINE m == 2^SizeBits
             h == 2^(SizeBits - 1)
  <1>1. m \in Nat /\ h \in Nat /\ m = 2 * h /\ IntMax < h /\ IntMax \in Nat
    BY PowersAssumption, IntMaxAssumption, Zenon
  <1>2. Unsigned(n, SizeBits) = n % m  BY Zenon DEF Unsigned
  <1>3. Place(n) = IF n % m < h THEN n % m ELSE (n % m) - m
    BY Zenon DEF Place, Signed, Unsigned
  <1> HIDE DEF m, h
  <1>4. n < m /\ n < h /\ m > 0  BY <1>1, SMT
  <1>5. n % m = n  BY <1>1, <1>4, SMT
  <1> QED  BY <1>2, <1>3, <1>4, <1>5, Zenon

\* The bytes of a buffer that holds s are s.
LEMMA BytesOf ==
    ASSUME NEW s, IsSeq(s), NEW b,
           \A k \in 1 .. Len(s) : k - 1 \in DOMAIN b /\ b[k - 1] = s[k]
    PROVE  Bytes(b, Len(s)) = s
  <1> DEFINE n == Len(s)
  <1>1. PICK S : s \in Seq(S)  BY Zenon DEF IsSeq
  <1>2. s = [k \in 1 .. n |-> s[k]]  BY <1>1, SMT
  <1>3. Bytes(b, n) = [k \in 1 .. n |-> IF k - 1 \in DOMAIN b THEN b[k - 1] ELSE "?"]
    BY Zenon DEF Bytes
  <1>4. \A k \in 1 .. n : (IF k - 1 \in DOMAIN b THEN b[k - 1] ELSE "?") = s[k]
    BY Zenon
  <1> HIDE DEF n
  <1>5. Bytes(b, n) = [k \in 1 .. n |-> s[k]]  BY <1>3, <1>4, Zenon
  <1> QED  BY <1>2, <1>5, Zenon DEF n

\* The wrappers call Vsnprintf with the size they wrap it in, and a result
\* that is no error is below the largest int.
RetInv ==
    /\ call.who \in Wrappers => call = Wrapped(call.who)
    /\ state # "start" => (call.who \in Wrappers => size = call.size)
    /\ state = "returned" /\ call.format => (ret = -1 \/ ret < IntMax)
    /\ state # "sent" => log = NoText

SentInv == RetInv /\ LineSent

\* Until Vsnprintf returns nothing is sent.
LEMMA QuietInv ==
    ASSUME SentInv, call' = call, size' = size, log' = log, state # "sent",
           state # "start", state' \notin {"start", "returned", "sent"}
    PROVE  SentInv'
  BY Zenon DEF SentInv, RetInv, LineSent

LEMMA InitSent == Init => SentInv
  <1> SUFFICES ASSUME Init PROVE SentInv  OBVIOUS
  <1>1. state = "start" /\ log = NoText  BY Zenon DEF Init
  <1>2. PICK use \in Uses : call = use.call  BY Zenon DEF Init
  <1>3. call.who \in Wrappers => call = Wrapped(call.who)
    <2>1. CASE call \in {Wrapped(w) : w \in Wrappers}
      <3>1. PICK w \in Wrappers : call = Wrapped(w)  BY <2>1, Zenon
      <3>2. Wrapped(w).who = w  BY Zenon DEF Wrapped
      <3> QED  BY <3>1, <3>2
    <2>2. CASE call.who = "Snprintf"  BY <2>2, SMT DEF Wrappers
    <2> QED  BY <1>2, <2>1, <2>2, UsesAssumption, Zenon
  <1>4. state # "returned" /\ state # "sent"  BY <1>1, SMT
  <1> QED  BY <1>1, <1>3, <1>4, Zenon DEF SentInv, RetInv, LineSent

LEMMA StartSent == SentInv /\ Start => SentInv'
  <1> SUFFICES ASSUME SentInv, Start PROVE SentInv'  OBVIOUS
  <1>1. /\ state = "start" /\ call' = call /\ log' = log
        /\ size' = (IF call.buffer THEN call.size ELSE 0)
        /\ state' = (IF call.format THEN "default" ELSE "returned")
    BY Zenon DEF Start
  <1>2. call.who \in Wrappers => call = Wrapped(call.who)  BY Zenon DEF SentInv, RetInv
  <1>3. call.who \in Wrappers => size' = call'.size
    <2>1. SUFFICES ASSUME call.who \in Wrappers PROVE size' = call.size  BY <1>1, Zenon
    <2>2. call.buffer = TRUE
      <3>1. Wrapped(call.who).buffer = TRUE  BY Zenon DEF Wrapped
      <3> QED  BY <1>2, <2>1, <3>1
    <2> QED  BY <1>1, <2>2
  <1>4. state # "sent" /\ state' # "sent" /\ (state' = "returned" => ~call'.format)
    BY <1>1, SMT
  <1>5. log = NoText  BY <1>4, Zenon DEF SentInv, RetInv
  <1> QED  BY <1>1, <1>2, <1>3, <1>4, <1>5, Zenon DEF SentInv, RetInv, LineSent

LEMMA OutSent == IInv /\ SentInv /\ Out => SentInv'
  <1> SUFFICES ASSUME IInv, SentInv, Out PROVE SentInv'  OBVIOUS
  <1>1. /\ call' = call /\ log' = log /\ size' = size /\ state' = "returned"
        /\ ret' = (IF state = "overflow" \/ len >= IntMax THEN -1 ELSE len)
        /\ state \in ReadStates \/ state = "overflow"
    BY Zenon DEF Out
  <1>2. state # "start" /\ state # "sent" /\ state' # "start" /\ state' # "sent"
    BY <1>1, SMT DEF ReadStates
  <1>3. ret' = -1 \/ ret' < IntMax
    <2>1. len \in Nat  BY Zenon DEF IInv, BufInv
    <2> QED  BY <1>1, <2>1, IntMaxAssumption, SMT
  <1> QED  BY <1>1, <1>2, <1>3, Zenon DEF SentInv, RetInv, LineSent

\* A line that fits is sent whole, and its line feed and terminator fit too.
LEMMA SendSent == IInv /\ SentInv /\ Send => SentInv'
  <1> SUFFICES ASSUME IInv, SentInv, Send PROVE SentInv'  OBVIOUS
  <1> DEFINE n == Unsigned(ret, SizeBits)
             adds == AddLF(call.who)
             bytes == Bytes(buf', IF adds THEN Unsigned(n + 1, SizeBits) ELSE n)
  <1>1. /\ state = "returned" /\ call.who \in Wrappers /\ state' = "sent"
        /\ buf' = (IF adds THEN WithLF(buf, n) ELSE buf)
        /\ tty' = bytes /\ log' = (IF call.who \in {"Log", "LogLn"} THEN bytes ELSE log)
        /\ call' = call /\ size' = size /\ ret' = ret /\ text' = text
    BY Zenon DEF Send
  <1>2. /\ call = Wrapped(call.who) /\ size = call.size /\ log = NoText
        /\ call.format => (ret = -1 \/ ret < IntMax)
    <2>1. state # "start" /\ state # "sent"  BY <1>1, SMT
    <2> QED  BY <1>1, <2>1, Zenon DEF SentInv, RetInv
  <1>3. call.format = TRUE /\ call.size = IF adds THEN BufSize - 1 ELSE BufSize
    <2> DEFINE w == Wrapped(call.who)
    <2>1. w.format = TRUE /\ w.size = IF adds THEN BufSize - 1 ELSE BufSize
      BY Zenon DEF Wrapped
    <2> HIDE DEF w, adds
    <2>2. call = w  BY <1>2 DEF w
    <2> QED  BY <2>1, <2>2
  <1>4. RetInv'
    <2>1. state' # "returned"  BY <1>1, SMT
    <2> QED  BY <1>1, <1>2, <2>1, Zenon DEF RetInv
  <1>5. ASSUME ret \in 0 .. size - 1
        PROVE  /\ tty' = text \o (IF adds THEN <<LF>> ELSE <<>>)
               /\ log' = IF call.who \in {"Log", "LogLn"} THEN tty' ELSE NoText
               /\ DOMAIN buf' \subseteq 0 .. BufSize - 1
    <2>1. size \in Nat /\ len \in Nat /\ IsSeq(text) /\ Len(text) = len
      BY Zenon DEF IInv, BufInv
    <2>2. ret \in Nat /\ ret < size /\ size > 0 /\ ret # -1  BY <1>5, <2>1, SMT
    <2>3. ret = len /\ ret < IntMax  BY <1>1, <1>2, <1>3, <2>2, Zenon DEF IInv, TextKept
    <2>4. DOMAIN buf = 0 .. len /\ \A k \in 1 .. len : buf[k - 1] = text[k]
      <3>1. len < size  BY <2>2, <2>3, Zenon
      <3>2. TextKept /\ state = "returned" /\ call.format
        BY <1>1, <1>3, Zenon DEF IInv
      <3> QED  BY <2>2, <3>1, <3>2, Zenon DEF TextKept
    <2>5. n = len /\ Place(n) = len /\ Unsigned(n + 1, SizeBits) = len + 1
          /\ Place(n + 1) = len + 1
      <3>1. ret \in Nat /\ ret + 1 \in Nat /\ ret <= IntMax /\ ret + 1 <= IntMax
        BY <2>2, <2>3, IntMaxAssumption, SMT
      <3> QED  BY <2>3, <3>1, SmallNumbers, Zenon
    <2> HIDE DEF n, adds
    <2>6. log' = IF call.who \in {"Log", "LogLn"} THEN tty' ELSE NoText
      BY <1>1, <1>2, Zenon
    <2>7. CASE adds
      <3>1. buf' = Put(Put(buf, len, LF), len + 1, Nul)
        BY <1>1, <2>5, <2>7, Zenon DEF WithLF
      <3>2. DOMAIN buf' = 0 .. len + 1
        <4>1. DOMAIN buf' = ((0 .. len) \union {len}) \union {len + 1}
          BY <2>4, <3>1, Zenon DEF Put
        <4> QED  BY <2>1, <4>1, SMT
      <3>3. DOMAIN buf' \subseteq 0 .. BufSize - 1
        BY <1>2, <1>3, <2>1, <2>2, <2>3, <2>7, <3>2, BufSizeAssumption, SMT
      <3> DEFINE t == text \o <<LF>>
      <3>4. /\ IsSeq(t) /\ Len(t) = len + 1
            /\ \A k \in 1 .. len + 1 :
                 t[k] = IF k <= len THEN text[k] ELSE <<LF>>[k - len]
        <4> DEFINE feed == <<LF>>
        <4>1. IsSeq(feed) /\ Len(feed) = 1  BY HeadIsSeq, Zenon
        <4> HIDE DEF feed
        <4>2. /\ IsSeq(text \o feed) /\ Len(text \o feed) = Len(text) + Len(feed)
              /\ \A k \in 1 .. Len(text) + Len(feed) :
                   (text \o feed)[k] = IF k <= Len(text) THEN text[k] ELSE feed[k - Len(text)]
          BY <2>1, <4>1, Concatenation, Zenon
        <4> QED  BY <2>1, <4>1, <4>2, Zenon DEF feed
      <3> HIDE DEF t
      <3>5. ASSUME NEW k \in 1 .. len + 1
            PROVE  k - 1 \in DOMAIN buf' /\ buf'[k - 1] = t[k]
        <4> DEFINE j == k - 1
        <4>1. j \in 0 .. len /\ j # len + 1 /\ k = j + 1  BY <2>1, SMT
        <4>2. j \in DOMAIN buf'  BY <2>1, <3>2, <4>1, SMT
        <4> HIDE DEF j
        <4>3. CASE j = len
          <5>1. buf'[j] = LF  BY <2>4, <3>1, <4>1, <4>3, Zenon DEF Put
          <5>2. k - len = 1 /\ ~(k <= len)  BY <2>1, <4>1, <4>3, SMT
          <5>3. t[k] = <<LF>>[1]  BY <3>4, <5>2, Zenon
          <5>4. <<LF>>[1] = LF  BY SMT
          <5> QED  BY <4>2, <5>1, <5>3, <5>4 DEF j
        <4>4. CASE j # len
          <5>1. buf'[j] = buf[j]  BY <2>4, <3>1, <4>1, <4>4, Zenon DEF Put
          <5>2. k \in 1 .. len /\ k <= len  BY <2>1, <4>1, <4>4, SMT
          <5>3. t[k] = text[k]  BY <3>4, <5>2, Zenon
          <5>4. buf[k - 1] = text[k]  BY <2>4, <5>2, Zenon
          <5> QED  BY <4>2, <5>1, <5>3, <5>4 DEF j
        <4> QED  BY <4>3, <4>4, Zenon
      <3>6. Bytes(buf', len + 1) = t
        <4>1. \A k \in 1 .. Len(t) : k - 1 \in DOMAIN buf' /\ buf'[k - 1] = t[k]
          BY <3>4, <3>5, Zenon
        <4>2. Bytes(buf', Len(t)) = t  BY <3>4, <4>1, BytesOf, Zenon
        <4> QED  BY <3>4, <4>2, Zenon
      <3>7. tty' = t  BY <1>1, <2>5, <2>7, <3>6, Zenon
      <3> QED  BY <2>6, <2>7, <3>3, <3>7, Zenon DEF t
    <2>8. CASE ~adds
      <3>1. buf' = buf  BY <1>1, <2>8, Zenon
      <3>2. DOMAIN buf' \subseteq 0 .. BufSize - 1
        BY <1>2, <1>3, <2>1, <2>2, <2>3, <2>4, <2>8, <3>1, BufSizeAssumption, SMT
      <3>3. Bytes(buf', len) = text
        <4>1. \A k \in 1 .. len : k - 1 \in DOMAIN buf  BY <2>1, <2>4, SMT
        <4> QED  BY <2>1, <2>4, <3>1, <4>1, BytesOf, Zenon
      <3>4. text \o <<>> = text
        <4>1. PICK S : text \in Seq(S)  BY <2>1, Zenon DEF IsSeq
        <4> QED  BY <4>1, SMT
      <3>5. tty' = text  BY <1>1, <2>5, <2>8, <3>3, Zenon
      <3> QED  BY <2>6, <2>8, <3>2, <3>4, <3>5, Zenon
    <2> QED  BY <2>7, <2>8, Zenon
  <1>6. LineSent'  BY <1>1, <1>5, Zenon DEF LineSent
  <1> QED  BY <1>4, <1>6, Zenon DEF SentInv

\* A conversion or another character read leaves what was sent alone.
LEMMA ReadingSent ==
    ASSUME NEW s \in ReadStates, SentInv, Reading(s),
           state' \in ReadStates \union {"overflow"}
    PROVE  SentInv'
  <1>1. call' = call /\ size' = size /\ log' = log /\ state \in ReadStates
    BY Zenon DEF Reading, Unchanging
  <1>2. state # "sent" /\ state # "start" /\ state' \notin {"start", "returned", "sent"}
    BY <1>1, SMT DEF ReadStates
  <1> QED  BY <1>1, <1>2, QuietInv, Zenon

LEMMA StepSent == IInv /\ SentInv /\ [Next]_vars => SentInv'
  <1> SUFFICES ASSUME IInv, SentInv, [Next]_vars PROVE SentInv'  OBVIOUS
  <1>1. CASE UNCHANGED vars
    BY <1>1, Zenon DEF vars, SentInv, RetInv, LineSent
  <1>2. CASE Resume  BY <1>1, <1>2, Zenon DEF Resume
  <1>3. /\ "default" \in ReadStates /\ "flags" \in ReadStates /\ "width" \in ReadStates
        /\ "dot" \in ReadStates /\ "precision" \in ReadStates /\ "mod" \in ReadStates
        /\ "conv" \in ReadStates
    BY SMT DEF ReadStates
  <1>4. CASE Default \/ Flags \/ Width \/ Dot \/ Precision \/ Mod
    <2>1. PICK s \in ReadStates : Reading(s)
      BY <1>3, <1>4, Zenon DEF Default, Flags, Width, Dot, Precision, Mod
    <2>2. state' = state \/ state' \in {"flags", "width", "dot", "precision", "mod", "conv",
                                       "overflow"}
      BY <1>4, Zenon DEF Default, Flags, Width, Dot, Precision, Mod, Overflow
    <2>3. state' \in ReadStates \union {"overflow"}
      BY <1>3, <2>1, <2>2, Zenon DEF Reading
    <2> QED  BY <2>1, <2>3, ReadingSent, Zenon
  <1>5. CASE ConvSigned \/ ConvUnsigned \/ ConvChar \/ ConvString \/ ConvPointer
               \/ ConvCount \/ ConvPercent \/ ConvOther
    <2>1. Reading("conv")
      BY <1>5, Zenon DEF ConvSigned, ConvUnsigned, ConvChar, ConvString, ConvPointer,
         ConvCount, ConvPercent, ConvOther
    <2>2. state' = "default"
      BY <1>5, Zenon DEF ConvSigned, ConvUnsigned, ConvChar, ConvString, ConvPointer,
         ConvCount, ConvPercent, ConvOther, Number, Converted
    <2> QED  BY <1>3, <2>1, <2>2, ReadingSent, Zenon
  <1> QED
    BY <1>1, <1>2, <1>4, <1>5, StartSent, OutSent, SendSent, Zenon DEF Next, Step

\* Every line that fits is sent as it was made, and the line feed and the
\* terminator that a wrapper adds stay within print_buf.
THEOREM LinesSent == Spec => []LineSent
  <1>1. Init => SentInv  BY InitSent
  <1>2. IInv /\ SentInv /\ [Next]_vars => SentInv'  BY StepSent
  <1>3. SentInv => LineSent  BY Zenon DEF SentInv
  <1> QED  BY <1>1, <1>2, <1>3, Inductive, PTL DEF Spec

-----------------------------------------------------------------------------
(* The types: an int read from the format stays an int, and each           *)
(* conversion takes two characters at least.                               *)

\* The states within a conversion, its % being read.
Within == (ReadStates \ {"default"}) \union {"overflow"}

SpecTyped(s) ==
    /\ s.flags \subseteq FlagChars \union {"UP", "UNSIGNED"}
    /\ s.width \in 0 .. IntMax /\ s.precision \in -1 .. IntMax

\* What TypeOK needs beyond IInv: within a conversion the % is counted too.
TypeInv ==
    /\ state \in ReadStates \union {"start", "overflow", "returned", "sent"}
    /\ ret \in -1 .. IntMax
    /\ SpecTyped(spec)
    /\ IsSeq(fields)
    /\ 2 * Len(fields) < pos
    /\ state \in Within => 2 * Len(fields) + 1 < pos
    /\ state = "sent" => DOMAIN buf \subseteq Int

\* An empty conversion is one.
LEMMA EmptyTyped == SpecTyped(Empty)
  <1>1. Empty.flags = {} /\ Empty.width = 0 /\ Empty.precision = -1
    BY Zenon DEF Empty
  <1>2. 0 \in 0 .. IntMax /\ -1 \in -1 .. IntMax  BY IntMaxAssumption, SMT
  <1> QED  BY <1>1, <1>2, Zenon DEF SpecTyped

\* What is read changes one part of the conversion and keeps the others.
LEMMA SpecUpdate ==
    ASSUME SpecOK(spec), SpecTyped(spec)
    PROVE  /\ \A f : f \subseteq FlagChars \union {"UP", "UNSIGNED"} =>
                SpecTyped([spec EXCEPT !.flags = f])
           /\ \A w \in 0 .. IntMax : SpecTyped([spec EXCEPT !.width = w])
           /\ \A f : f \subseteq FlagChars \union {"UP", "UNSIGNED"} =>
                \A w \in 0 .. IntMax : SpecTyped([spec EXCEPT !.flags = f, !.width = w])
           /\ \A p \in -1 .. IntMax : SpecTyped([spec EXCEPT !.precision = p])
           /\ \A c : SpecTyped([spec EXCEPT !.cflags = c])
  <1>1. PICK f0, c0, b0 : \E w \in Int, p \in Int :
               p >= -1 /\ spec = Read(f0, w, p, c0, b0)
    BY Zenon DEF SpecOK
  <1>2. PICK w0 \in Int, p0 \in Int : spec = Read(f0, w0, p0, c0, b0)
    BY <1>1, Zenon
  <1>3. /\ "flags" \in DOMAIN spec /\ "width" \in DOMAIN spec
        /\ "precision" \in DOMAIN spec
    BY <1>2, SMT DEF Read
  <1>4. ASSUME NEW f, f \subseteq FlagChars \union {"UP", "UNSIGNED"}
        PROVE  SpecTyped([spec EXCEPT !.flags = f])
    <2> DEFINE s == [spec EXCEPT !.flags = f]
    <2>1. s.flags = f /\ s.width = spec.width /\ s.precision = spec.precision
      BY <1>3, SMT
    <2> HIDE DEF s
    <2>2. SpecTyped(s)  BY <1>4, <2>1, Zenon DEF SpecTyped
    <2> QED  BY <2>2 DEF s
  <1>5. ASSUME NEW w \in 0 .. IntMax PROVE SpecTyped([spec EXCEPT !.width = w])
    <2> DEFINE s == [spec EXCEPT !.width = w]
    <2>1. s.flags = spec.flags /\ s.width = w /\ s.precision = spec.precision
      BY <1>3, SMT
    <2> HIDE DEF s
    <2>2. SpecTyped(s)  BY <2>1, Zenon DEF SpecTyped
    <2> QED  BY <2>2 DEF s
  <1>6. ASSUME NEW f, f \subseteq FlagChars \union {"UP", "UNSIGNED"},
               NEW w \in 0 .. IntMax
        PROVE  SpecTyped([spec EXCEPT !.flags = f, !.width = w])
    <2> DEFINE s == [spec EXCEPT !.flags = f, !.width = w]
    <2>1. s.flags = f /\ s.width = w /\ s.precision = spec.precision
      BY <1>3, SMT
    <2> HIDE DEF s
    <2>2. SpecTyped(s)  BY <1>6, <2>1, Zenon DEF SpecTyped
    <2> QED  BY <2>2 DEF s
  <1>7. ASSUME NEW p \in -1 .. IntMax PROVE SpecTyped([spec EXCEPT !.precision = p])
    <2> DEFINE s == [spec EXCEPT !.precision = p]
    <2>1. s.flags = spec.flags /\ s.width = spec.width /\ s.precision = p
      BY <1>3, SMT
    <2> HIDE DEF s
    <2>2. SpecTyped(s)  BY <2>1, Zenon DEF SpecTyped
    <2> QED  BY <2>2 DEF s
  <1>8. ASSUME NEW c PROVE SpecTyped([spec EXCEPT !.cflags = c])
    <2> DEFINE s == [spec EXCEPT !.cflags = c]
    <2>1. s.flags = spec.flags /\ s.width = spec.width /\ s.precision = spec.precision
      BY <1>3, SMT
    <2> HIDE DEF s
    <2>2. SpecTyped(s)  BY <2>1, Zenon DEF SpecTyped
    <2> QED  BY <2>2 DEF s
  <1> QED  BY <1>4, <1>5, <1>6, <1>7, <1>8, Zenon

\* One more digit is taken only while the number stays an int.
LEMMA DigitFits ==
    ASSUME NEW n \in 0 .. IntMax, Ch \in DigitChars, ~TooLarge(n)
    PROVE  Append10(n) \in 0 .. IntMax
  <1> DEFINE d == DigitValue[Ch]
  <1>1. d \in Nat  BY Digit, Zenon
  <1>2. ~(n > (IntMax - d) \div 10)  BY Zenon DEF TooLarge
  <1>3. Append10(n) = 10 * n + d  BY Zenon DEF Append10
  <1> HIDE DEF d
  <1>4. 10 * n + d \in Nat /\ 10 * n + d <= IntMax
    BY <1>1, <1>2, IntMaxAssumption, SMT
  <1> QED  BY <1>3, <1>4, IntMaxAssumption, SMT

\* It holds at first.
LEMMA InitTyped == Init => TypeInv
  <1> SUFFICES ASSUME Init PROVE TypeInv  OBVIOUS
  <1>1. pos = 1 /\ state = "start" /\ spec = Empty /\ ret = 0 /\ fields = <<>>
    BY Zenon DEF Init
  <1>2. SpecTyped(spec)  BY <1>1, EmptyTyped, Zenon
  <1>3. IsSeq(fields) /\ Len(fields) = 0  BY <1>1, HeadIsSeq, Zenon
  <1>4. state \notin Within /\ state # "sent"  BY <1>1, SMT DEF Within, ReadStates
  <1>5. ret \in -1 .. IntMax  BY <1>1, IntMaxAssumption, SMT
  <1>6. 2 * Len(fields) < pos  BY <1>1, <1>3, SMT
  <1> QED  BY <1>1, <1>2, <1>3, <1>4, <1>5, <1>6, Zenon DEF TypeInv

\* A step that only reads, within a conversion: what is left to show of it.
LEMMA ReadTyped ==
    ASSUME NEW s \in Within, IInv, TypeInv, Reading(s), EmitNothing,
           state' \in Within, pos' \in {pos, pos + 1, pos + 2}, SpecTyped(spec')
    PROVE  TypeInv'
  <1>1. /\ state = s /\ fields' = fields /\ buf' = buf /\ ret' = ret
    BY Zenon DEF Reading, Unchanging, EmitNothing
  <1>2. pos \in Nat
    <2>1. pos \in 1 .. Len(format) + 1  BY Zenon DEF IInv, ParseInv
    <2>2. Len(format) \in Nat  BY SMT DEF IInv, ParseInv
    <2> QED  BY <2>1, <2>2, SMT
  <1>3. IsSeq(fields) /\ Len(fields) \in Nat
    <2>1. IsSeq(fields)  BY Zenon DEF TypeInv
    <2> QED  BY <2>1, Concatenation, Zenon
  <1>4. 2 * Len(fields) + 1 < pos  BY <1>1, Zenon DEF TypeInv
  <1>5. 2 * Len(fields) + 1 < pos' /\ 2 * Len(fields) < pos'
    BY <1>2, <1>3, <1>4, SMT
  <1>6. state' # "sent"
        /\ state' \in ReadStates \union {"start", "overflow", "returned", "sent"}
    BY SMT DEF Within, ReadStates
  <1>7. ret' \in -1 .. IntMax  BY <1>1, Zenon DEF TypeInv
  <1> QED  BY <1>1, <1>3, <1>5, <1>6, <1>7, Zenon DEF TypeInv

\* The states of a conversion.
LEMMA WithinStates ==
    /\ "flags" \in Within /\ "width" \in Within /\ "dot" \in Within
    /\ "precision" \in Within /\ "mod" \in Within /\ "conv" \in Within
    /\ "overflow" \in Within
    /\ "default" \notin Within /\ "start" \notin Within /\ "returned" \notin Within
    /\ "sent" \notin Within
  BY SMT DEF Within, ReadStates

\* The end of a conversion: a field more, and its last character.
LEMMA ConvertedTyped ==
    ASSUME NEW arg, NEW t, NEW flags, NEW base, IInv, TypeInv, Reading("conv"),
           Converted(arg, t, flags, base)
    PROVE  TypeInv'
  <1>1. /\ state = "conv" /\ ret' = ret  BY Zenon DEF Reading, Unchanging
  <1>2. spec' = Empty /\ state' = "default" /\ pos' = pos + 1
    BY Zenon DEF Converted, Reset, Next1
  <1>3. PICK field : fields' = Append(fields, field)  BY Zenon DEF Converted
  <1>4. PICK F : fields \in Seq(F)  BY Zenon DEF TypeInv, IsSeq
  <1> DEFINE G == F \union {field}
  <1>5. fields \in Seq(G) /\ field \in G  BY <1>4, SMT
  <1> HIDE DEF G
  <1>6. /\ fields' \in Seq(G) /\ Len(fields) \in Nat
        /\ Len(fields') = Len(fields) + 1
    BY <1>3, <1>5, SMT
  <1>7. IsSeq(fields')  BY <1>6, Zenon DEF IsSeq
  <1>8. pos \in Nat
    <2>1. pos \in 1 .. Len(format) + 1  BY Zenon DEF IInv, ParseInv
    <2>2. Len(format) \in Nat  BY SMT DEF IInv, ParseInv
    <2> QED  BY <2>1, <2>2, SMT
  <1>9. 2 * Len(fields) + 1 < pos  BY <1>1, WithinStates, Zenon DEF TypeInv
  <1>10. 2 * Len(fields') < pos'  BY <1>2, <1>6, <1>8, <1>9, SMT
  <1>11. /\ state' \notin Within /\ state' # "sent"
         /\ state' \in ReadStates \union {"start", "overflow", "returned", "sent"}
    BY <1>2, SMT DEF Within, ReadStates
  <1>12. SpecTyped(spec')  BY <1>2, EmptyTyped, Zenon
  <1>13. ret' \in -1 .. IntMax  BY <1>1, Zenon DEF TypeInv
  <1> QED  BY <1>7, <1>10, <1>11, <1>12, <1>13, Zenon DEF TypeInv

\* The characters outside conversions; the % opens one.
LEMMA DefaultTyped == IInv /\ TypeInv /\ Default => TypeInv'
  <1> SUFFICES ASSUME IInv, TypeInv, Default PROVE TypeInv'  OBVIOUS
  <1>1. /\ pos' = pos + 1 /\ spec' = spec /\ fields' = fields /\ ret' = ret
        /\ state' \in {"default", "flags"}
    BY Zenon DEF Default, Next1, Reading, Unchanging
  <1>2. pos \in Nat
    <2>1. pos \in 1 .. Len(format) + 1  BY Zenon DEF IInv, ParseInv
    <2>2. Len(format) \in Nat  BY SMT DEF IInv, ParseInv
    <2> QED  BY <2>1, <2>2, SMT
  <1>3. IsSeq(fields) /\ Len(fields) \in Nat
    <2>1. IsSeq(fields)  BY Zenon DEF TypeInv
    <2> QED  BY <2>1, Concatenation, Zenon
  <1>4. 2 * Len(fields) < pos  BY Zenon DEF TypeInv
  <1>5. 2 * Len(fields) + 1 < pos' /\ 2 * Len(fields) < pos'
    BY <1>1, <1>2, <1>3, <1>4, SMT
  <1>6. state' # "sent"
        /\ state' \in ReadStates \union {"start", "overflow", "returned", "sent"}
    BY <1>1, SMT DEF ReadStates
  <1>7. ret' \in -1 .. IntMax /\ SpecTyped(spec')  BY <1>1, Zenon DEF TypeInv
  <1> QED  BY <1>1, <1>3, <1>5, <1>6, <1>7, Zenon DEF TypeInv

LEMMA FlagsTyped == IInv /\ TypeInv /\ Flags => TypeInv'
  <1> SUFFICES ASSUME IInv, TypeInv, Flags PROVE TypeInv'  OBVIOUS
  <1>1. Reading("flags") /\ EmitNothing  BY Zenon DEF Flags
  <1>2. SpecOK(spec) /\ SpecTyped(spec)  BY Zenon DEF IInv, ParseInv, TypeInv
  <1>3. state' \in Within /\ pos' \in {pos, pos + 1, pos + 2}
    BY <1>1, WithinStates, Zenon DEF Flags, Next1, Reading
  <1>4. SpecTyped(spec')
    <2>1. CASE spec' = spec  BY <1>2, <2>1, Zenon
    <2>2. CASE Ch \in FlagChars /\ spec' = [spec EXCEPT !.flags = @ \union {Ch}]
      <3> DEFINE f == spec.flags \union {Ch}
      <3>1. f \subseteq FlagChars \union {"UP", "UNSIGNED"}
        BY <1>2, <2>2, Zenon DEF SpecTyped
      <3>2. spec' = [spec EXCEPT !.flags = f]  BY <2>2, Zenon
      <3> HIDE DEF f
      <3>3. SpecTyped([spec EXCEPT !.flags = f])  BY <1>2, <3>1, SpecUpdate, Zenon
      <3> QED  BY <3>2, <3>3
    <2> QED  BY <2>1, <2>2, Zenon DEF Flags
  <1> QED  BY <1>1, <1>3, <1>4, ReadTyped, WithinStates, Zenon

\* The width is an int that is not negative, also when it was given as one.
LEMMA WidthTyped == IInv /\ TypeInv /\ Width => TypeInv'
  <1> SUFFICES ASSUME IInv, TypeInv, Width PROVE TypeInv'  OBVIOUS
  <1>1. Reading("width") /\ EmitNothing  BY Zenon DEF Width
  <1>2. SpecOK(spec) /\ SpecTyped(spec)  BY Zenon DEF IInv, ParseInv, TypeInv
  <1>3. state' \in Within /\ pos' \in {pos, pos + 1, pos + 2}
    BY <1>1, WithinStates, Zenon DEF Width, Next1, Reading, Overflow
  <1>4. SpecTyped(spec')
    <2>1. CASE spec' = spec  BY <1>2, <2>1, Zenon
    <2>2. CASE /\ Ch \in DigitChars /\ ~TooLarge(spec.width)
               /\ spec' = [spec EXCEPT !.width = Append10(@)]
      <3> DEFINE w == Append10(spec.width)
      <3>1. spec.width \in 0 .. IntMax  BY <1>2, Zenon DEF SpecTyped
      <3>2. w \in 0 .. IntMax  BY <2>2, <3>1, DigitFits, Zenon
      <3>3. spec' = [spec EXCEPT !.width = w]  BY <2>2, Zenon
      <3> HIDE DEF w
      <3>4. SpecTyped([spec EXCEPT !.width = w])  BY <1>2, <3>2, SpecUpdate, Zenon
      <3> QED  BY <3>3, <3>4
    <2>3. CASE \E w \in Stars : spec' = StarWidth(spec, w)
      <3>1. PICK w \in Stars : spec' = StarWidth(spec, w)  BY <2>3, Zenon
      <3>2. w \in -IntMax .. IntMax /\ IntMax \in Nat
        BY ArgumentsAssumption, IntMaxAssumption, Zenon
      <3>3. CASE w < 0
        <4> DEFINE f == spec.flags \union {"-"}
                   v == -w
        <4>1. spec' = [spec EXCEPT !.flags = f, !.width = v]
          BY <3>1, <3>3, SMT DEF StarWidth
        <4>2. v \in 0 .. IntMax  BY <3>2, <3>3, SMT
        <4>3. f \subseteq FlagChars \union {"UP", "UNSIGNED"}
          <5>1. "-" \in FlagChars  BY SMT DEF FlagChars
          <5> QED  BY <1>2, <5>1, Zenon DEF SpecTyped
        <4> HIDE DEF f, v
        <4>4. SpecTyped([spec EXCEPT !.flags = f, !.width = v])
          BY <1>2, <4>2, <4>3, SpecUpdate, Zenon
        <4> QED  BY <4>1, <4>4
      <3>4. CASE ~(w < 0)
        <4>1. spec' = [spec EXCEPT !.width = w]  BY <3>1, <3>4, Zenon DEF StarWidth
        <4>2. w \in 0 .. IntMax  BY <3>2, <3>4, SMT
        <4>3. SpecTyped([spec EXCEPT !.width = w])  BY <1>2, <4>2, SpecUpdate, Zenon
        <4> QED  BY <4>1, <4>3
      <3> QED  BY <3>3, <3>4, Zenon
    <2> QED  BY <2>1, <2>2, <2>3, Zenon DEF Width, Overflow
  <1> QED  BY <1>1, <1>3, <1>4, ReadTyped, WithinStates, Zenon

LEMMA DotTyped == IInv /\ TypeInv /\ Dot => TypeInv'
  <1> SUFFICES ASSUME IInv, TypeInv, Dot PROVE TypeInv'  OBVIOUS
  <1>1. Reading("dot") /\ EmitNothing /\ spec' = spec  BY Zenon DEF Dot
  <1>2. state' \in Within /\ pos' \in {pos, pos + 1, pos + 2}
    BY WithinStates, Zenon DEF Dot, Next1
  <1>3. SpecTyped(spec')  BY <1>1, Zenon DEF TypeInv
  <1> QED  BY <1>1, <1>2, <1>3, ReadTyped, WithinStates, Zenon

\* So is the precision, or it is the one that stands for none.
LEMMA PrecisionTyped == IInv /\ TypeInv /\ Precision => TypeInv'
  <1> SUFFICES ASSUME IInv, TypeInv, Precision PROVE TypeInv'  OBVIOUS
  <1> DEFINE p == AtLeast(spec.precision, 0)
  <1>1. Reading("precision") /\ EmitNothing  BY Zenon DEF Precision
  <1>2. SpecOK(spec) /\ SpecTyped(spec)  BY Zenon DEF IInv, ParseInv, TypeInv
  <1>3. state' \in Within /\ pos' \in {pos, pos + 1, pos + 2}
    BY <1>1, WithinStates, Zenon DEF Precision, Next1, Reading
  <1>4. p \in 0 .. IntMax
    <2>1. spec.precision \in -1 .. IntMax  BY <1>2, Zenon DEF SpecTyped
    <2> QED  BY <2>1, IntMaxAssumption, SMT DEF AtLeast
  <1>5. ASSUME NEW q \in -1 .. IntMax, spec' = [spec EXCEPT !.precision = q]
        PROVE  SpecTyped(spec')
    <2>1. SpecTyped([spec EXCEPT !.precision = q])  BY <1>2, SpecUpdate, Zenon
    <2> QED  BY <1>5, <2>1
  <1>6. \/ spec' = [spec EXCEPT !.precision = p]
        \/ /\ Ch \in DigitChars /\ ~TooLarge(p)
           /\ spec' = [spec EXCEPT !.precision = Append10(p)]
        \/ \E q \in Stars : spec' = [spec EXCEPT !.precision = AtLeast(q, -1)]
    BY Zenon DEF Precision
  <1> HIDE DEF p
  <1>7. \A q \in 0 .. IntMax : q \in -1 .. IntMax  BY IntMaxAssumption, SMT
  <1>8. SpecTyped(spec')
    <2>1. CASE spec' = [spec EXCEPT !.precision = p]  BY <1>4, <1>5, <1>7, <2>1, Zenon
    <2>2. CASE /\ Ch \in DigitChars /\ ~TooLarge(p)
               /\ spec' = [spec EXCEPT !.precision = Append10(p)]
      <3>1. Append10(p) \in 0 .. IntMax  BY <1>4, <2>2, DigitFits, Zenon
      <3> QED  BY <1>5, <1>7, <2>2, <3>1, Zenon
    <2>3. CASE \E q \in Stars : spec' = [spec EXCEPT !.precision = AtLeast(q, -1)]
      <3>1. PICK q \in Stars : spec' = [spec EXCEPT !.precision = AtLeast(q, -1)]
        BY <2>3, Zenon
      <3>2. AtLeast(q, -1) \in -1 .. IntMax
        BY ArgumentsAssumption, IntMaxAssumption, SMT DEF AtLeast
      <3> QED  BY <1>5, <3>1, <3>2, Zenon
    <2> QED  BY <1>6, <2>1, <2>2, <2>3, Zenon
  <1> QED  BY <1>1, <1>3, <1>8, ReadTyped, WithinStates, Zenon

LEMMA ModTyped == IInv /\ TypeInv /\ Mod => TypeInv'
  <1> SUFFICES ASSUME IInv, TypeInv, Mod PROVE TypeInv'  OBVIOUS
  <1>1. /\ Reading("mod") /\ EmitNothing /\ state' = "conv"
        /\ pos' = pos + Modifier.chars
        /\ spec' = [spec EXCEPT !.cflags = Modifier.cflags]
    BY Zenon DEF Mod, Next1
  <1>2. SpecOK(spec) /\ SpecTyped(spec)  BY Zenon DEF IInv, ParseInv, TypeInv
  <1>3. SpecTyped(spec')
    <2> DEFINE c == Modifier.cflags
    <2>1. spec' = [spec EXCEPT !.cflags = c]  BY <1>1, Zenon
    <2> HIDE DEF c
    <2>2. SpecTyped([spec EXCEPT !.cflags = c])  BY <1>2, SpecUpdate, Zenon
    <2> QED  BY <2>1, <2>2
  <1>4. pos' \in {pos, pos + 1, pos + 2}
    <2> DEFINE c == Modifier.chars
    <2>1. c \in {0, 1, 2}  BY SMT DEF Modifier
    <2>2. pos' = pos + c  BY <1>1, Zenon
    <2>3. pos \in Nat
      <3>1. pos \in 1 .. Len(format) + 1  BY Zenon DEF IInv, ParseInv
      <3>2. Len(format) \in Nat  BY SMT DEF IInv, ParseInv
      <3> QED  BY <3>1, <3>2, SMT
    <2> HIDE DEF c
    <2> QED  BY <2>1, <2>2, <2>3, SMT
  <1> QED  BY <1>1, <1>3, <1>4, ReadTyped, WithinStates, Zenon

LEMMA ConversionTyped ==
    ASSUME IInv, TypeInv,
           ConvSigned \/ ConvUnsigned \/ ConvChar \/ ConvString \/ ConvPointer
             \/ ConvCount \/ ConvPercent \/ ConvOther
    PROVE  TypeInv'
  <1>1. Reading("conv")
    BY Zenon DEF ConvSigned, ConvUnsigned, ConvChar, ConvString, ConvPointer,
       ConvCount, ConvPercent, ConvOther
  <1>2. \E arg, t, flags, base : Converted(arg, t, flags, base)
    BY Zenon DEF ConvSigned, ConvUnsigned, ConvChar, ConvString, ConvPointer,
       ConvCount, ConvPercent, ConvOther, Number
  <1> QED  BY <1>1, <1>2, ConvertedTyped, Zenon

\* The result is a length below the largest int, or -1.
LEMMA OutTyped == IInv /\ TypeInv /\ Out => TypeInv'
  <1> SUFFICES ASSUME IInv, TypeInv, Out PROVE TypeInv'  OBVIOUS
  <1>1. /\ state' = "returned" /\ pos' = pos /\ spec' = spec /\ fields' = fields
        /\ ret' = (IF state = "overflow" \/ len >= IntMax THEN -1 ELSE len)
    BY Zenon DEF Out
  <1>2. ret' \in -1 .. IntMax
    <2>1. len \in Nat  BY Zenon DEF IInv, BufInv
    <2> QED  BY <1>1, <2>1, IntMaxAssumption, SMT
  <1>3. state' \notin Within /\ state' # "sent"  BY <1>1, WithinStates, SMT
  <1>4. state' \in ReadStates \union {"start", "overflow", "returned", "sent"}
    BY <1>1, Zenon
  <1> QED  BY <1>1, <1>2, <1>3, <1>4, Zenon DEF TypeInv

\* The places a line feed and a terminator are put at are offsets, however far
\* from the buffer.
LEMMA SendTyped == IInv /\ TypeInv /\ Send => TypeInv'
  <1> SUFFICES ASSUME IInv, TypeInv, Send PROVE TypeInv'  OBVIOUS
  <1> DEFINE n == Unsigned(ret, SizeBits)
  <1>1. /\ state = "returned" /\ state' = "sent" /\ pos' = pos /\ spec' = spec
        /\ fields' = fields /\ ret' = ret
        /\ buf' = (IF AddLF(call.who) THEN WithLF(buf, n) ELSE buf)
    BY Zenon DEF Send
  <1>2. DOMAIN buf \subseteq Int
    <2>1. state # "sent" /\ size \in Nat  BY <1>1, SMT DEF IInv, BufInv
    <2>2. DOMAIN buf \subseteq 0 .. size - 1  BY <2>1, Zenon DEF IInv, WithinBuffer
    <2> QED  BY <2>1, <2>2, SMT
  <1>3. \A x \in Int : Unsigned(x, SizeBits) \in Nat /\ Place(x) \in Int
    <2> DEFINE m == 2^SizeBits
               h == 2^(SizeBits - 1)
    <2>1. m \in Nat /\ h \in Nat /\ m = 2 * h /\ IntMax < h /\ IntMax \in Nat
      BY PowersAssumption, IntMaxAssumption, Zenon
    <2>2. \A x : Unsigned(x, SizeBits) = x % m  BY Zenon DEF Unsigned
    <2>3. \A x : Place(x) = IF x % m < h THEN x % m ELSE (x % m) - m
      BY Zenon DEF Place, Signed, Unsigned
    <2> HIDE DEF m, h
    <2>4. m > 0  BY <2>1, SMT
    <2>5. \A x \in Int : x % m \in Nat  BY <2>1, <2>4, SMT
    <2>6. \A x \in Int : Place(x) \in Int  BY <2>1, <2>3, <2>5, SMT
    <2> QED  BY <2>2, <2>5, <2>6, Zenon
  <1>4. Place(n) \in Int /\ Place(n + 1) \in Int
    <2>1. ret \in Int  BY IntMaxAssumption, SMT DEF TypeInv
    <2>2. n \in Nat  BY <1>3, <2>1, Zenon
    <2> HIDE DEF n
    <2>3. n \in Int /\ n + 1 \in Int  BY <2>2, SMT
    <2> QED  BY <1>3, <2>3, Zenon
  <1> HIDE DEF n
  <1>5. DOMAIN WithLF(buf, n) = (DOMAIN buf \union {Place(n)}) \union {Place(n + 1)}
    BY Zenon DEF WithLF, Put
  <1>6. DOMAIN buf' \subseteq Int  BY <1>1, <1>2, <1>4, <1>5, Zenon
  <1>7. state' \notin Within
        /\ state' \in ReadStates \union {"start", "overflow", "returned", "sent"}
    BY <1>1, WithinStates, SMT
  <1> QED  BY <1>1, <1>6, <1>7, Zenon DEF TypeInv

LEMMA StartTyped == IInv /\ TypeInv /\ Start => TypeInv'
  <1> SUFFICES ASSUME IInv, TypeInv, Start PROVE TypeInv'  OBVIOUS
  <1>1. /\ state' \in {"default", "returned"} /\ pos' = pos /\ spec' = spec
        /\ fields' = fields /\ ret' = ret
    BY Zenon DEF Start
  <1>2. /\ state' \notin Within /\ state' # "sent"
        /\ state' \in ReadStates \union {"start", "overflow", "returned", "sent"}
    BY <1>1, WithinStates, SMT DEF ReadStates
  <1> QED  BY <1>1, <1>2, Zenon DEF TypeInv

LEMMA StepTyped == IInv /\ TypeInv /\ [Next]_vars => TypeInv'
  <1> SUFFICES ASSUME IInv, TypeInv, [Next]_vars PROVE TypeInv'  OBVIOUS
  <1>1. CASE UNCHANGED vars  BY <1>1, Zenon DEF vars, TypeInv, SpecTyped, IsSeq
  <1>2. CASE Resume  BY <1>1, <1>2, Zenon DEF Resume
  <1>3. CASE Step
    BY <1>3, StartTyped, DefaultTyped, FlagsTyped, WidthTyped, DotTyped,
       PrecisionTyped, ModTyped, ConversionTyped, OutTyped, SendTyped, Zenon DEF Step
  <1> QED  BY <1>1, <1>2, <1>3, Zenon DEF Next

\* The variables keep their types whatever is formatted: no width and no
\* precision leaves the range of an int, and a negative width that was passed
\* does not stay negative.
THEOREM TypesKept == Spec => []TypeOK
  <1>1. Init => TypeInv  BY InitTyped
  <1>2. IInv /\ TypeInv /\ [Next]_vars => TypeInv'  BY StepTyped
  <1>3. IInv /\ TypeInv => TypeOK
    <2> SUFFICES ASSUME IInv, TypeInv PROVE TypeOK  OBVIOUS
    <2>1. pos \in Nat
      <3>1. pos \in 1 .. Len(format) + 1  BY Zenon DEF IInv, ParseInv
      <3>2. Len(format) \in Nat  BY SMT DEF IInv, ParseInv
      <3> QED  BY <3>1, <3>2, SMT
    <2>2. size \in Nat /\ len \in Nat  BY Zenon DEF IInv, BufInv
    <2>3. DOMAIN buf \subseteq Int
      <3>1. CASE state = "sent"  BY <3>1, Zenon DEF TypeInv
      <3>2. CASE state # "sent"
        <4>1. DOMAIN buf \subseteq 0 .. size - 1  BY <3>2, Zenon DEF IInv, WithinBuffer
        <4> QED  BY <2>2, <4>1, SMT
      <3> QED  BY <3>1, <3>2
    <2> QED  BY <2>1, <2>2, <2>3, Zenon DEF TypeOK, TypeInv, SpecTyped
  <1> QED  BY <1>1, <1>2, <1>3, Inductive, PTL DEF Spec
=================================================================================
