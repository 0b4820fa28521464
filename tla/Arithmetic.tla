----------------------------- MODULE Arithmetic -----------------------------
(***************************************************************************)
(* lib/arithmetic.c: division of words of 2H bits with a machine that      *)
(* divides 2H bits by H bits.  The code has H = 32.  Unsigned words are    *)
(* 0..2^2H - 1 and wrap around; signed ones are two's complement.          *)
(***************************************************************************)
EXTENDS Integers

CONSTANT H   \* bits in half a word, a power of two

ASSUME ArithmeticAssumption == H \in {4, 8, 16, 32}

B == 2^H
Wrap(x) == x % (B * B)
HalfRange == (B * B) \div 2

\* The divl instruction traps when the quotient does not fit in H bits.
Trap == -1
divl(n, d) == IF n \div d < B THEN n \div d ELSE Trap

\* nlz: the number of leading zero bits of the half word x # 0, by halving
\* from shifts of H/2 bits down to one bit.
nlz(x) ==
  LET Step[k \in 0..H, y \in 0..B] ==
        IF k = 0 THEN 0
        ELSE IF y < 2^(H - k) THEN k + Step[k \div 2, (y * 2^k) % B]
        ELSE Step[k \div 2, y]
  IN  Step[H \div 2, x]

\* Variant: the estimate is not corrected.
quotient_uncorrected(n, d, q) == q

\* The estimate q from the normalised divisor is right or one too large.
Corrected(n, d, q) == IF Wrap(n - (q - 1) * d) < d THEN q - 1 ELSE q

udiv64(n, d) ==
  IF d \div B = 0
  THEN LET low == divl(B * ((n \div B) % d) + (n % B), d)
       IN  IF low = Trap THEN Trap ELSE low + B * ((n \div B) \div d)
  ELSE IF n < d THEN 0
  ELSE LET s == nlz(d \div B)
           e == divl(n \div 2, Wrap(d * 2^s) \div B)
       IN  IF e = Trap THEN Trap ELSE Corrected(n, d, e \div 2^(H - 1 - s))

\* umod64 and smod64 return half a word.
umod64(n, d) == Wrap(n - d * udiv64(n, d)) % B

Signed(x) == IF x < HalfRange THEN x ELSE x - B * B
Abs(x) == IF x >= 0 THEN x ELSE -x

sdiv64(n, d) ==
  LET q == udiv64(Abs(n), Abs(d))
  IN  IF (n < 0) = (d < 0) THEN Signed(q) ELSE Signed(Wrap(-q))

smod64(n, d) ==
  LET r == Wrap(n - d * sdiv64(n, d)) % B
  IN  IF r < B \div 2 THEN r ELSE r - B
-----------------------------------------------------------------------------
\* The quotient n / d rounded towards zero.
Quotient(n, d) ==
  LET q == Abs(n) \div Abs(d) IN IF (n < 0) = (d < 0) THEN q ELSE -q

\* Division never traps and is exact for every divisor; the signed quotient
\* rounds towards zero and wraps around only for the smallest number by -1.
\* Remainders are exact as far as half a word holds them.
DivisionCorrect(n) ==
  /\ \A d \in 1..(B * B) - 1 :
       /\ udiv64(n, d) = n \div d
       /\ umod64(n, d) = (n % d) % B
  /\ \A d \in (-(HalfRange)..HalfRange - 1) \ {0} :
       LET sn == Signed(n) IN
       /\ sdiv64(sn, d) = IF d = -1 /\ sn = -(HalfRange) THEN sn ELSE Quotient(sn, d)
       /\ Abs(d) <= B \div 2 => smod64(sn, d) = sn - d * Quotient(sn, d)
=============================================================================
