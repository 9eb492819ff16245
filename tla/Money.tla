------------------------------- MODULE Money -------------------------------
(***************************************************************************)
(* Arithmetic of the exchange.  Every amount is an integer number of       *)
(* database units, the last decimal of the decimal(16,8) columns of        *)
(* db/schema.rb.  A price is an integer over a common denominator.         *)
(* BigDecimal#round and the rounding of a stored decimal both round halves *)
(* away from zero.                                                         *)
(***************************************************************************)
EXTENDS Integers

Lesser(a, b) == IF a <= b THEN a ELSE b

Greater(a, b) == IF a >= b THEN a ELSE b

(* n/d to the nearest integer, halves upwards; d > 0.  The callers that     *)
(* round a negative n discard the result unless it is positive.            *)
RoundHalfUp(n, d) == (2 * n + d) \div (2 * d)

OnGrid(a, step) == \E k \in Int : a = k * step
=============================================================================
