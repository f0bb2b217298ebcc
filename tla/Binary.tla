------------------------------- MODULE Binary -------------------------------
(***************************************************************************)
(* The operations of math/big that service/netutil/cidr.go uses: shifts by *)
(* powers of two and the bitwise or.  They are recursive functions, which  *)
(* the theorems of BinaryProofs can be about.                              *)
(***************************************************************************)
EXTENDS Integers

\* Lsh: a number shifted by n bits is multiplied by pow2[n].
pow2[n \in Nat] == IF n = 0 THEN 1 ELSE 2 * pow2[n - 1]

Bit(x, k) == (x \div pow2[k]) % 2

\* The lowest width bits of x and y, or'ed.
Or(x, y, width) ==
  LET or[k \in 0..width] ==
        IF k = 0 THEN 0
        ELSE or[k - 1] + (IF Bit(x, k - 1) = 1 \/ Bit(y, k - 1) = 1 THEN pow2[k - 1] ELSE 0)
  IN or[width]
=============================================================================
