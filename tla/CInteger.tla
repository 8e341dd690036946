------------------------------ MODULE CInteger ------------------------------
(***************************************************************************)
(* The integer operators of C++: / and % truncate towards zero, where      *)
(* TLA+'s \div and % round down.  The divisor b is positive.               *)
(***************************************************************************)
EXTENDS Integers

Quotient(a, b) == (a \div b) + IF a < 0 /\ a % b # 0 THEN 1 ELSE 0

Remainder(a, b) == a - b * Quotient(a, b)
=============================================================================
