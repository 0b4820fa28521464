------------------------------- MODULE Printf -------------------------------
(***************************************************************************)
(* The conversions of lib/stdio.c's __vprintf and stdlib.c's atoi.  Output *)
(* is a sequence of character codes.  A directive of a format string is a  *)
(* record: conv, the flags, width and precision as written or taken from   *)
(* an argument, and the length modifier type.                              *)
(***************************************************************************)
EXTENDS Integers, Sequences, FiniteSetsExt

CONSTANTS
  Bits,      \* Bits[type]: width of the argument type
  BufSize    \* characters in format_integer's buffer

ASSUME PrintfAssumption ==
  BufSize \in Nat \ {0} /\ \A ty \in DOMAIN Bits : Bits[ty] \in Nat \ {0}

\* Character codes.
SP == 32
PLUS == 43
COMMA == 44
MINUS == 45
DIGIT0 == 48

\* x is the letter after 0, 0 for none.
base_d == [base |-> 10, x |-> 0, group |-> 3]
base_o == [base |-> 8, x |-> 0, group |-> 3]
base_x == [base |-> 16, x |-> 120, group |-> 4]

DigitChar(k) == IF k < 10 THEN DIGIT0 + k ELSE 87 + k

output_dup(ch, cnt) == [i \in 1..cnt |-> ch]

\* parse_conversion: the flags are settled before a negative width, which only
\* an argument can give, adds MINUS.
parse_conversion(d) ==
  LET f1 == IF "MINUS" \in d.flags THEN d.flags \ {"ZERO"} ELSE d.flags
      f2 == IF "PLUS" \in f1 THEN f1 \ {"SPACE"} ELSE f1
      f3 == IF d.width < 0 THEN f2 \cup {"MINUS"} ELSE f2
      precision == IF d.precision < 0 THEN -1 ELSE d.precision
  IN  [flags |-> IF precision >= 0 THEN f3 \ {"ZERO"} ELSE f3,
       width |-> IF d.width < 0 THEN -d.width ELSE d.width,
       precision |-> precision]

RECURSIVE Digits(_, _, _, _)
\* The digits of value, lowest first, with a comma between groups.
Digits(value, b, c, cnt) ==
  IF value = 0 THEN <<>>
  ELSE (IF "GROUP" \in c.flags /\ cnt > 0 /\ cnt % b.group = 0 THEN <<COMMA>> ELSE <<>>)
       \o <<DigitChar(value % b.base)>> \o Digits(value \div b.base, b, c, cnt + 1)

\* Zeros appended for the precision, up to the last place but one.
PrecisionZeros(len, precision) == Max({0, Min({precision, BufSize - 1}) - len})

\* The buffer before it is written out backwards.
Buffer(value, b, c) ==
  LET digits == Digits(value, b, c, 0)
      precision == IF c.precision < 0 THEN 1 ELSE c.precision
      padded == digits \o output_dup(DIGIT0, PrecisionZeros(Len(digits), precision))
      octal == "POUND" \in c.flags /\ b.base = 8
               /\ (padded = <<>> \/ padded[Len(padded)] # DIGIT0)
  IN  IF octal THEN padded \o <<DIGIT0>> ELSE padded

SignChar(is_signed, negative, c) ==
  IF ~is_signed THEN <<>>
  ELSE IF negative THEN <<MINUS>>
  ELSE IF "PLUS" \in c.flags THEN <<PLUS>>
  ELSE IF "SPACE" \in c.flags THEN <<SP>> ELSE <<>>

\* Variant: the sign does not count.
pad_without_sign(c, buf, prefix, sign) == Max({0, c.width - Len(buf) - Len(prefix)})

PadCount(c, buf, prefix, sign) == Max({0, c.width - Len(buf) - Len(prefix) - Len(sign)})

format_integer(value, is_signed, negative, b, c) ==
  LET buf == Buffer(value, b, c)
      digits == [i \in 1..Len(buf) |-> buf[Len(buf) + 1 - i]]
      sign == SignChar(is_signed, negative, c)
      prefix == IF "POUND" \in c.flags /\ value # 0 /\ b.x # 0 THEN <<DIGIT0, b.x>> ELSE <<>>
      pad == PadCount(c, buf, prefix, sign)
      If(P, s) == IF P THEN s ELSE <<>>
  IN  If(c.flags \cap {"MINUS", "ZERO"} = {}, output_dup(SP, pad))
        \o sign \o prefix
        \o If("ZERO" \in c.flags, output_dup(DIGIT0, pad))
        \o digits
        \o If("MINUS" \in c.flags, output_dup(SP, pad))

\* length characters of the string, in the field.
format_string(string, length, c) ==
  LET pad == output_dup(SP, Max({0, c.width - length}))
      body == SubSeq(string, 1, length)
  IN  IF "MINUS" \in c.flags THEN body \o pad ELSE pad \o body

\* The value of an argument of the type: the low bits, as two's complement.
Unsigned(v, ty) == v % 2^Bits[ty]

SignedValue(v, ty) ==
  LET u == Unsigned(v, ty) IN IF u < 2^(Bits[ty] - 1) THEN u ELSE u - 2^Bits[ty]

SignedConversion(d, v) ==
  LET value == SignedValue(v, d.type)
  IN  format_integer(IF value < 0 THEN -value ELSE value, TRUE, value < 0, base_d,
                     parse_conversion(d))

UnsignedBase == [o |-> base_o, u |-> base_d, x |-> base_x]
UnsignedConversion(d, v) ==
  format_integer(Unsigned(v, d.type), FALSE, FALSE, UnsignedBase[d.conv], parse_conversion(d))

\* %c and %s; a negative precision is no limit.
StringConversion(d, s) ==
  LET c == parse_conversion(d)
  IN  format_string(s, IF c.precision < 0 THEN Len(s) ELSE Min({Len(s), c.precision}), c)

\* vsnprintf: what is stored in a buffer of buf_size bytes; it returns Len(out).
vsnprintf(out, buf_size) ==
  IF buf_size = 0 THEN <<>>
  ELSE SubSeq(out, 1, Min({Len(out), buf_size - 1})) \o <<0>>

RECURSIVE Number(_, _, _)
\* atoi's digit loop from position i on; the value is built up negative.
Number(s, i, value) ==
  IF i > Len(s) THEN value
  ELSE IF s[i] \notin DIGIT0..DIGIT0 + 9 THEN value
  ELSE Number(s, i + 1, value * 10 - (s[i] - DIGIT0))

atoi(s) ==
  LET text == {i \in 1..Len(s) : s[i] # SP}
      start == IF text = {} THEN Len(s) + 1 ELSE Min(text)
      sign == IF start <= Len(s) THEN s[start] ELSE 0
      value == Number(s, IF sign \in {PLUS, MINUS} THEN start + 1 ELSE start, 0)
  IN  IF sign = MINUS THEN value ELSE -value
-----------------------------------------------------------------------------
InRange(v, ty) == v \in -2^(Bits[ty] - 1)..2^(Bits[ty] - 1) - 1

\* Format and scan agree: atoi reads back the number that a signed conversion
\* wrote into a buffer that is large enough, whatever the flags, width and
\* precision, except grouping.
RoundTrip(v, Directives) ==
  \A d \in Directives :
    d.conv = "d" /\ "GROUP" \notin d.flags /\ InRange(v, d.type)
      => LET out == SignedConversion(d, v) IN atoi(vsnprintf(out, Len(out) + 1)) = v

\* The digits of an integer never overrun format_integer's buffer, grouping
\* commas, zeros for the precision and the extra octal zero included.
BufferFits(v, Directives) ==
  \A d \in Directives :
    d.conv \in DOMAIN UnsignedBase
      => Len(Buffer(Unsigned(v, d.type), UnsignedBase[d.conv], parse_conversion(d))) <= BufSize

Convert(d, v) ==
  CASE d.conv = "d" -> SignedConversion(d, v)
    [] d.conv \in DOMAIN UnsignedBase -> UnsignedConversion(d, v)
    [] d.conv = "s" -> StringConversion(d, output_dup(DIGIT0, v % 4))

\* A conversion fills its field: it is as long as the width asks or as what it
\* shows needs, whichever is more.  A `*' width that is negative together with
\* the 0 flag is left out: parse_conversion then keeps both flags, and the
\* field is padded twice.
FieldFilled(v, Directives) ==
  \A d \in Directives :
    LET c == parse_conversion(d)
        bare == [d EXCEPT !.width = 0, !.flags = @ \ {"ZERO"}]
    IN  ~({"ZERO", "MINUS"} \subseteq c.flags)
          => Len(Convert(d, v)) = Max({c.width, Len(Convert(bare, v))})
=============================================================================
