------------------------------ MODULE SingleFloat ------------------------------
(***************************************************************************)
(* What the compiler makes of a product of floats (IEEE 754 single         *)
(* precision, not negative): the number m * 2^e, whose significand m has   *)
(* 24 bits at most.  A product that needs more is rounded to the nearest   *)
(* number that does not, and to the even one of two that are as near.      *)
(*                                                                         *)
(* TLC's integers have 32 bits: the product of two significands has to     *)
(* stay below 2^31.                                                        *)
(***************************************************************************)
EXTENDS Integers

Float(m, e) == [m |-> m, e |-> e]

Precision == 24

\* How many of the bits of a product there is no room for.
ExtraBits(p) ==
  CHOOSE k \in 0 .. 31 - Precision : /\ p \div 2 ^ k < 2 ^ Precision
                                     /\ k > 0 => p \div 2 ^ (k - 1) >= 2 ^ Precision

\* p \div 2^k, rounded.
Nearest(p, k) ==
  LET q == p \div 2 ^ k
      rest == 2 * (p % 2 ^ k)
  IN IF rest > 2 ^ k \/ (rest = 2 ^ k /\ q % 2 = 1) THEN q + 1 ELSE q

FloatTimes(f, g) ==
  LET p == f.m * g.m
      k == ExtraBits(p)
  IN Float(Nearest(p, k), f.e + g.e + k)

\* The conversion to an integer drops what is behind the point.
Truncated(f) == IF f.e < 0 THEN f.m \div 2 ^ (-f.e) ELSE f.m * 2 ^ f.e
===============================================================================
