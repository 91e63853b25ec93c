------------------------------ MODULE Float32 ------------------------------
(***************************************************************************)
(* The division of int, and the type float as unit.c and arithmetic.c use  *)
(* it: IEEE 754 single precision, rounded to the nearest value, ties to    *)
(* even; and the conversions of the C library, atof() and the format %f.   *)
(*                                                                         *)
(* A float is m * 2^e with a mantissa of 24 bits, or zero.  Infinities,    *)
(* values that are not a number and values too small to be normal are not  *)
(* represented: configured calculations do not come near them.             *)
(***************************************************************************)
EXTENDS Integers, Sequences

Abs(n)  == IF n < 0 THEN -n ELSE n
Zero    == [m |-> 0, e |-> 0]

\* Division of int truncates towards zero.
Quotient(a, b) == IF (a < 0) = (b < 0) THEN Abs(a) \div Abs(b) ELSE -(Abs(a) \div Abs(b))

\* The number of bits of M, which is below 2^30.
Size(M) == CHOOSE k \in 0..30 : M < 2^k /\ (k = 0 \/ M >= 2^(k - 1))

\* q + r/d to the nearest integer, ties to even; "more" says that a little is missing.
Nearest(q, r, d, more) ==
  IF 2 * r > d \/ (2 * r = d /\ (more \/ q % 2 = 1)) THEN q + 1 ELSE q

\* The float next to +-M * 2^e, or to a little more where "more" holds, in which case
\* M has more than 24 bits.
RoundTo24(neg, M, e, more) ==
  IF M = 0 THEN Zero
  ELSE LET s == Size(M)
           d == 2^(s - 24)
           m == IF s <= 24 THEN M * 2^(24 - s) ELSE Nearest(M \div d, M % d, d, more)
           f == IF m = 2^24 THEN [m |-> 2^23, e |-> e + s - 23] ELSE [m |-> m, e |-> e + s - 24]
       IN [f EXCEPT !.m = IF neg THEN -@ ELSE @]

FromInt(n) == RoundTo24(n < 0, Abs(n), 0, FALSE)

Negated(a) == [a EXCEPT !.m = -@]

\* The product of the mantissas has 48 bits; it is put together from halves of 12 bits.
Mul(a, b) ==
  LET x    == Abs(a.m)  y == Abs(b.m)
      low  == (x % 4096) * (y % 4096)
      mid  == (x \div 4096) * (y % 4096) + (x % 4096) * (y \div 4096) + low \div 4096
      high == (x \div 4096) * (y \div 4096) + mid \div 4096
  IN RoundTo24((a.m < 0) # (b.m < 0), high * 64 + (mid % 4096) \div 64, a.e + b.e + 18,
               mid % 64 # 0 \/ low % 4096 # 0)

\* x / y as digits of 6 bits: the quotient after that many, and what remains.
LongDivision(x, y, digits) ==
  LET After[n \in 0..digits] ==
        IF n = 0 THEN [q |-> x \div y, r |-> x % y]
        ELSE LET p == After[n - 1]
             IN [q |-> p.q * 64 + (p.r * 64) \div y, r |-> (p.r * 64) % y]
  IN After[digits]

\* 28 bits of the quotient: one before the point, 4 digits, and 3 bits.
Div(a, b) ==
  LET x == Abs(a.m)  y == Abs(b.m)
      p == LongDivision(x, y, 4)
      q == p.q * 8 + (p.r * 8) \div y
  IN RoundTo24((a.m < 0) # (b.m < 0), q, a.e - b.e - 27, (p.r * 8) % y # 0)

\* Aligned to the larger exponent, with five bits more.
Add(a, b) ==
  IF a.m = 0 THEN b ELSE IF b.m = 0 THEN a
  ELSE LET big   == IF a.e >= b.e THEN a ELSE b
           small == IF a.e >= b.e THEN b ELSE a
           d     == 2^(IF big.e - small.e > 30 THEN 30 ELSE big.e - small.e)
           sum   == big.m * 32 + (small.m * 32) \div d
           rest  == (small.m * 32) % d # 0
       IN RoundTo24(sum < 0, IF sum < 0 /\ rest THEN -sum - 1 ELSE Abs(sum), big.e - 5, rest)

\* The conversion to an integer type cuts off what is behind the point.
Trunc(a) ==
  LET n == IF a.e >= 0 THEN Abs(a.m) * 2^a.e
           ELSE IF a.e <= -24 THEN 0 ELSE Abs(a.m) \div 2^(-a.e)
  IN IF a.m < 0 THEN -n ELSE n

-----------------------------------------------------------------------------
(***************************************************************************)
(* Decimal numbers: +-(int + micro / 10^6).                                *)
(***************************************************************************)
Million == 1000000

\* int + micro / 10^6 doubled until it has 26 bits before the point.
Doubled(int, micro) ==
  LET After[x \in [int : Nat, micro : Nat, e : Int]] ==
        IF x.int >= 2^25 THEN x
        ELSE After[[int |-> 2 * x.int + (2 * x.micro) \div Million,
                    micro |-> (2 * x.micro) % Million, e |-> x.e - 1]]
  IN After[[int |-> int, micro |-> micro, e |-> 0]]

\* atof(), assigned to a float: rounding to a double first changes nothing for numbers
\* with six decimals.
FromDecimal(d) ==
  IF d.int = 0 /\ d.micro = 0 THEN Zero
  ELSE LET x == Doubled(d.int, d.micro)
       IN RoundTo24(d.neg, x.int, x.e, x.micro # 0)

\* %f: the float exactly, rounded to six decimals.  The fraction is rem / 2^s, and
\* 10^6 = 15625 * 2^6.
ToDecimal(a) ==
  LET M    == Abs(a.m)
      s    == IF a.e < 0 THEN -a.e ELSE 0
      int  == IF a.e >= 0 THEN M * 2^a.e ELSE IF s > 24 THEN 0 ELSE M \div 2^s
      rem  == IF s > 24 THEN M ELSE M % 2^s
      low  == (rem % 4096) * 15625
      high == (rem \div 4096) * 15625 + low \div 4096
      micro == IF s <= 6 THEN (rem * Million) \div 2^s
               ELSE IF s <= 18 THEN Nearest(high * 2^(18 - s) + (low % 4096) \div 2^(s - 6),
                                            (low % 4096) % 2^(s - 6), 2^(s - 6), FALSE)
               ELSE IF s <= 48 THEN Nearest(high \div 2^(s - 18), high % 2^(s - 18), 2^(s - 18),
                                            low % 4096 # 0)
               ELSE 0
  IN [neg |-> a.m < 0, int |-> int + micro \div Million, micro |-> micro % Million]
=============================================================================
