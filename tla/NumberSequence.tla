--------------------------- MODULE NumberSequence ---------------------------
(***************************************************************************)
(* app/services/numbering.py: the next number of a sequence is one more    *)
(* than the highest issued, and the highest is the last in the order of    *)
(* the STRINGS, sequence numbers zero-padded to a width and longer when    *)
(* they do not fit.  The prefixes are the same on both sides of every      *)
(* comparison, so a number stands for its string.                          *)
(***************************************************************************)
EXTENDS Integers

\* How many digits build_case_number and its siblings write for n: those of the
\* padding where it fits, else as many as it has.
Digits(n, width) ==
    IF n < 10 ^ width THEN width
    ELSE CHOOSE k \in width + 1..width + n : n < 10 ^ k /\ n >= 10 ^ (k - 1)

\* The order of the two strings: by their common length, then by length.
SortsBefore(m, n, width) ==
    LET dm == Digits(m, width)
        dn == Digits(n, width)
        common == IF dm < dn THEN dm ELSE dn
        headOf(x, d) == x \div 10 ^ (d - common)
    IN \/ headOf(m, dm) < headOf(n, dn)
       \/ headOf(m, dm) = headOf(n, dn) /\ dm < dn

\* ORDER BY ... DESC LIMIT 1
Latest(issued, width) ==
    CHOOSE n \in issued : \A m \in issued : ~SortsBefore(n, m, width)

\* Mutant of NextNumber: the latest number is issued again.
NextNumberUnincremented(issued, width) ==
    IF issued = {} THEN 1 ELSE Latest(issued, width)

NextNumber(issued, width) ==
    IF issued = {} THEN 1 ELSE Latest(issued, width) + 1
=============================================================================
