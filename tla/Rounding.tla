------------------------------ MODULE Rounding ------------------------------
(***************************************************************************)
(* Python's round(), which compensation.py and the land-record adapters    *)
(* use, on quotients of naturals.                                          *)
(***************************************************************************)
EXTENDS Integers

\* n / d to the nearest whole number, and to the even one in the middle.
Round(n, d) ==
    LET q == n \div d
        twice == 2 * (n % d)
    IN  IF twice < d \/ (twice = d /\ q % 2 = 0) THEN q ELSE q + 1

Abs(n) == IF n < 0 THEN -n ELSE n
=============================================================================
