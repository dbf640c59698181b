------------------------------ MODULE Vectors -------------------------------
(* Vectors of integers, of two or three coordinates (kernel math/vec.rs).     *)
EXTENDS Integers, Sequences

Plus(a, b)  == IF Len(a) = 2 THEN <<a[1] + b[1], a[2] + b[2]>> ELSE <<a[1] + b[1], a[2] + b[2], a[3] + b[3]>>
Minus(a, b) == IF Len(a) = 2 THEN <<a[1] - b[1], a[2] - b[2]>> ELSE <<a[1] - b[1], a[2] - b[2], a[3] - b[3]>>
Times(a, k) == IF Len(a) = 2 THEN <<a[1] * k, a[2] * k>> ELSE <<a[1] * k, a[2] * k, a[3] * k>>
Half(a)     == IF Len(a) = 2 THEN <<a[1] \div 2, a[2] \div 2>> ELSE <<a[1] \div 2, a[2] \div 2, a[3] \div 2>>
Even(a)     == \A i \in DOMAIN a : a[i] % 2 = 0

Dot(a, b)   == IF Len(a) = 2 THEN a[1] * b[1] + a[2] * b[2] ELSE a[1] * b[1] + a[2] * b[2] + a[3] * b[3]
Cross(a, b) == <<a[2] * b[3] - a[3] * b[2], a[3] * b[1] - a[1] * b[3], a[1] * b[2] - a[2] * b[1]>>

Abs(n)  == IF n < 0 THEN -n ELSE n
Sign(n) == IF n > 0 THEN 1 ELSE IF n < 0 THEN -1 ELSE 0

\* The length of a vector along an axis, and a bound of it otherwise.
Span(a) == IF Len(a) = 2 THEN Abs(a[1]) + Abs(a[2]) ELSE Abs(a[1]) + Abs(a[2]) + Abs(a[3])

\* normalize(), of two coordinates along an axis: zero for a vector of no length.
Unit(a) == <<Sign(a[1]), Sign(a[2])>>
=============================================================================
