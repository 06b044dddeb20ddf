----------------------------- MODULE Rationals -----------------------------
(***************************************************************************)
(* Exact rational arithmetic, the model of the Decimal amounts of the       *)
(* accounting frameworks.  A rational is a pair <<numerator, denominator>>  *)
(* in lowest terms with a positive denominator, so equal values are equal   *)
(* pairs.  Decimal rounds a quotient to 28 digits; the accounting laws are  *)
(* stated about the exact quotient.                                        *)
(***************************************************************************)
EXTENDS Integers, Sequences, FiniteSetsExt, TLC

gcd[p \in Nat \X Nat] == IF p[2] = 0 THEN p[1] ELSE gcd[<<p[2], p[1] % p[2]>>]

Abs(n) == IF n < 0 THEN -n ELSE n

\* n / d in lowest terms, for any d # 0.
Ratio(n, d) ==
    LET g == gcd[<<Abs(n), Abs(d)>>]
        s == IF d < 0 THEN -1 ELSE 1
    IN  <<s * (n \div g), s * (d \div g)>>

Rat(n) == <<n, 1>>
Zero == Rat(0)
One == Rat(1)

\* Functions, so that TLC evaluates each operand once.
Pairs == Int \X (Nat \ {0})

\* A pair in lowest terms.
IsRat(x) == x \in Pairs /\ gcd[<<Abs(x[1]), x[2]>>] = 1

plus[p \in Pairs \X Pairs] ==
    LET x == p[1]  y == p[2] IN Ratio(x[1] * y[2] + y[1] * x[2], x[2] * y[2])
times[p \in Pairs \X Pairs] ==
    LET x == p[1]  y == p[2] IN Ratio(x[1] * y[1], x[2] * y[2])
over[p \in Pairs \X Pairs] ==
    LET x == p[1]  y == p[2] IN Ratio(x[1] * y[2], x[2] * y[1])

x ++ y  == plus[<<x, y>>]
x -- y == plus[<<x, <<-y[1], y[2]>>>>]
x \otimes y == times[<<x, y>>]
x \oslash y == over[<<x, y>>]
x \preceq y == x[1] * y[2] <= y[1] * x[2]
x \prec y   == x[1] * y[2] < y[1] * x[2]

\* The sum of the values of a function with a finite domain.
RatSum(f) == FoldFunction(++, Zero, f)
=============================================================================
