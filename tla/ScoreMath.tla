------------------------------ MODULE ScoreMath ------------------------------
(***************************************************************************)
(* The arithmetic the engines share for scores of 0 to 100.                *)
(***************************************************************************)
EXTENDS Integers

\* Python's round of n / d: the nearest integer, ties to the even one.
Rounded(n, d) ==
    LET q == n \div d
        twice == 2 * (n % d)
    IN  IF twice > d \/ (twice = d /\ q % 2 = 1) THEN q + 1 ELSE q

\* round of a quotient a hair below n / d.
RoundedBelow(n, d) == Rounded(4 * n - 1, 4 * d)

Clamp(n) == IF n < 0 THEN 0 ELSE IF n > 100 THEN 100 ELSE n

Larger(a, b) == IF a > b THEN a ELSE b
Smaller(a, b) == IF a < b THEN a ELSE b

Award(condition, n) == IF condition THEN n ELSE 0
=============================================================================
