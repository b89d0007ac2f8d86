------------------------------ MODULE PrintfFields ------------------------------
(***************************************************************************)
(* What one conversion of Vsnprintf adds to the line: fmtstr for strings,  *)
(* fmtint for numbers, with the widths of C's integers as parameters.  The *)
(* second half says what a field is to be, after C99, without computing    *)
(* it: the code is compared with that.                                     *)
(***************************************************************************)
EXTENDS Integers, Sequences, FiniteSets, SequencesExt

CONSTANTS
    CharBits, ShortBits, IntBits, SizeBits, \* bits of char, short, int, size_t,
    LongBits, MaxBits,                      \* of long and ptrdiff_t, of long long
    IntMax,                                 \* INT_MAX
    ConvertLength                           \* MAX_CONVERT_LENGTH

ASSUME WidthsAssumption ==
    /\ CharBits \in Nat \ {0} /\ ShortBits \in Nat /\ IntBits \in Nat /\ SizeBits \in Nat
    /\ LongBits \in Nat /\ MaxBits \in Nat
    /\ CharBits <= ShortBits /\ ShortBits <= IntBits /\ IntBits <= LongBits
    /\ SizeBits >= IntBits /\ SizeBits <= MaxBits /\ LongBits <= MaxBits
ASSUME IntMaxAssumption == IntMax \in Nat /\ IntMax = 2^(IntBits - 1) - 1
ASSUME ConvertAssumption == ConvertLength \in Nat \ {0}

\* The bits of the type that a length modifier names.
Bits(mod) == CASE mod = "hh" -> CharBits
               [] mod = "h" -> ShortBits
               [] mod = "z" -> SizeBits
               [] mod \in {"l", "t"} -> LongBits
               [] mod \in {"ll", "j"} -> MaxBits
               [] OTHER -> IntBits

Unsigned(x, bits) == x % 2^bits

Signed(x, bits) ==
    LET u == Unsigned(x, bits) IN IF u < 2^(bits - 1) THEN u ELSE u - 2^bits

AtLeast(m, n) == IF m >= n THEN m ELSE n

Repeat(c, n) == [k \in 1 .. n |-> c]

Lower == <<"0","1","2","3","4","5","6","7","8","9","a","b","c","d","e","f">>

Upper == <<"0","1","2","3","4","5","6","7","8","9","A","B","C","D","E","F">>

DigitValue == [c \in ToSet(Lower) \union ToSet(Upper) |->
                  (CHOOSE k \in 1 .. 16 : c \in {Lower[k], Upper[k]}) - 1]

-----------------------------------------------------------------------------
(* The code.                                                               *)

\* The digits of u: one for each turn of the loop, which is made again while
\* something is left of u and there is room.
Convert(u, base, caps) ==
    LET n == Cardinality({k \in 1 .. ConvertLength : k = 1 \/ u \div base^(k - 1) # 0})
        digits == IF caps THEN Upper ELSE Lower
    IN  [k \in 1 .. n |-> digits[((u \div base^(n - k)) % base) + 1]]

\* The separators that go between n digits.
NumSep(n) == (n - (IF n % 3 = 0 THEN 1 ELSE 0)) \div 3

\* The digits, each followed by a separator if groups of three are to follow.
Separate(digits) ==
    LET n == Len(digits)
        length == n + Cardinality({pos \in 1 .. n - 1 : pos % 3 = 0})
    IN  [k \in 1 .. length |->
           LET right == length - k      \* characters that follow
           IN  IF right % 4 = 3 THEN "," ELSE digits[n - (right - right \div 4)]]

\* The text between `left` and `right` spaces.
Pad(left, text, right) == Repeat(" ", left) \o text \o Repeat(" ", right)

\* fmtstr: a null pointer counts as the empty string.
FmtStr(value, width, precision, flags) ==
    LET text == IF precision = -1 THEN value
                ELSE SubSeq(value, 1, IF precision < Len(value) THEN precision ELSE Len(value))
        pad == AtLeast(width - Len(text), 0)
    IN  IF "-" \in flags THEN Pad(0, text, pad) ELSE Pad(pad, text, 0)


\* The spaces and zeros fmtint pads with: their numbers before the flags
\* - and 0 say which of them are to be used.
Padding(n, separators, lead, width, precision) ==
    [zeros |-> AtLeast(precision - n - separators, 0),
     spaces |-> AtLeast(width - separators - AtLeast(precision, n) - lead, 0)]

\* fmtint.  The flag UNSIGNED is set by the conversions o, u, x, X and p, UP
\* by X.
FmtInt(value, base, width, precision, flags) ==
    LET unsigned == "UNSIGNED" \in flags
        u == Unsigned(IF unsigned \/ value >= 0 THEN value ELSE -value, MaxBits)
        sign == IF unsigned THEN <<>>
                ELSE IF value < 0 THEN <<"-">>
                ELSE IF "+" \in flags THEN <<"+">>
                ELSE IF " " \in flags THEN <<" ">> ELSE <<>>
        digits == Convert(u, base, "UP" \in flags)
        n == Len(digits)
        alternative == "#" \in flags /\ u # 0
        prefix == IF alternative /\ base = 16
                  THEN <<"0", IF "UP" \in flags THEN "X" ELSE "x">> ELSE <<>>
        precision1 == IF alternative /\ base = 8 /\ precision <= n THEN n + 1 ELSE precision
        separators == IF "'" \in flags THEN NumSep(n) ELSE 0
        pad == Padding(n, separators, Len(sign) + Len(prefix), width, precision1)
        zeroed == "-" \notin flags /\ "0" \in flags /\ precision = -1
        zeros == IF zeroed THEN pad.zeros + pad.spaces ELSE pad.zeros
        text == sign \o prefix \o Repeat("0", zeros)
                  \o (IF separators > 0 THEN Separate(digits) ELSE digits)
    IN  IF "-" \in flags THEN Pad(0, text, pad.spaces)
        ELSE Pad(IF zeroed THEN 0 ELSE pad.spaces, text, 0)

-----------------------------------------------------------------------------
(* What a field is to be.                                                  *)

\* The field is at least `width` wide and Is(its text); spaces are there only
\* to reach the width, behind the text if `left` and else before it.
Justified(field, width, left, Is(_)) ==
    /\ Len(field) >= width
    /\ \E k \in 0 .. Len(field) :
         LET text == IF left THEN SubSeq(field, 1, Len(field) - k)
                     ELSE SubSeq(field, k + 1, Len(field))
         IN  /\ k > 0 => Len(field) = width
             /\ field = IF left THEN Pad(0, text, k) ELSE Pad(k, text, 0)
             /\ Is(text)

\* The digits, highest first, are a numeral of u.
Denotes(digits, u, base) ==
    /\ ToSet(digits) \subseteq {c \in DOMAIN DigitValue : DigitValue[c] < base}
    /\ LET value[k \in 0 .. Len(digits)] ==
             IF k = 0 THEN 0 ELSE value[k - 1] * base + DigitValue[digits[k]]
       IN  value[Len(digits)] = u

\* The digits that u takes.
Numeral(u, base) == CHOOSE n \in 1 .. MaxBits : u < base^n /\ (n = 1 \/ base^(n - 1) <= u)

\* text is zeros and then the numeral of u, with a separator before each full
\* group of three digits if they are wanted; the zeros are there to reach the
\* precision, to fill the field, or to mark an octal.  A zero has no digits
\* under a precision of 0 (7.19.6.1, 8), but for the one that marks an octal.
IsNumeral(text, u, base, flags, precision, filled) ==
    LET n == IF u = 0 /\ precision = 0 THEN 0 ELSE Numeral(u, base)
        separators == IF "'" \in flags /\ n > 0 THEN (n - 1) \div 3 ELSE 0
        zeros == Len(text) - n - separators
        numeral == SubSeq(text, zeros + 1, Len(text))
        octal == base = 8 /\ "#" \in flags /\ (u # 0 \/ precision = 0)
    IN  /\ zeros >= (IF octal THEN 1 ELSE 0)
        /\ SubSeq(text, 1, zeros) = Repeat("0", zeros)
        /\ \A k \in 1 .. Len(numeral) :
             (numeral[k] = ",") <=> ("'" \in flags /\ (Len(numeral) - k) % 4 = 3)
        /\ Denotes(SelectSeq(numeral, LAMBDA c : c # ","), u, base)
        /\ n + zeros >= precision
        /\ zeros > 0 => \/ octal /\ zeros = 1
                        \/ precision = n + zeros
                        \/ "0" \in flags /\ precision = -1 /\ filled

\* A number's field: its sign, its prefix and its numeral.
NumberField(field, value, base, caps, signed, width, precision, flags) ==
    LET u == IF signed /\ value < 0 THEN -value ELSE value
        head == IF signed
                THEN IF value < 0 THEN <<"-">>
                     ELSE IF "+" \in flags THEN <<"+">>
                     ELSE IF " " \in flags THEN <<" ">> ELSE <<>>
                ELSE IF base = 16 /\ "#" \in flags /\ u # 0
                     THEN <<"0", IF caps THEN "X" ELSE "x">> ELSE <<>>
    IN  Justified(field, width, "-" \in flags,
          LAMBDA text :
            /\ IsPrefix(head, text)
            /\ IsNumeral(SubSeq(text, Len(head) + 1, Len(text)), u, base, flags,
                         precision, Len(field) = width)
            /\ \A k \in 1 .. Len(text) :
                 (base = 16 /\ caps) => text[k] \notin {"a", "b", "c", "d", "e", "f"})

\* A string's field: as much of the string as the precision allows.
StringField(field, value, width, precision, flags) ==
    Justified(field, width, "-" \in flags,
      LAMBDA text : /\ IsPrefix(text, value)
                    /\ precision # -1 => Len(text) <= precision
                    /\ text = value \/ Len(text) = precision)
==================================================================================
