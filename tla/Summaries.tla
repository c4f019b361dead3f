------------------------------- MODULE Summaries -------------------------------
(***************************************************************************)
(* werk::SummaryStatistics, RangedSummaryStatistics and                    *)
(* WeightedSummaryStatistics (Werk/Math) as operators on records.  The     *)
(* formulas are those of the code, which updates the average and the sum   *)
(* of squares in place; the numbers are fractions, so that what rounding   *)
(* does to them is left out.                                               *)
(***************************************************************************)
EXTENDS Integers, FiniteSetsExt

\* Fractions <<numerator, denominator>> in lowest terms.
Absolute(n) == IF n < 0 THEN -n ELSE n

Fraction(n, d) ==
    LET divisor == IF n = 0 THEN Absolute(d)
                   ELSE Max({k \in 1 .. Absolute(n) : n % k = 0 /\ Absolute(d) % k = 0})
        sign == IF d < 0 THEN -1 ELSE 1 IN
    <<sign * (n \div divisor), Absolute(d) \div divisor>>

Whole(n) == <<n, 1>>
Zero == Whole(0)
Plus(a, b) == Fraction(a[1] * b[2] + b[1] * a[2], a[2] * b[2])
Minus(a, b) == Fraction(a[1] * b[2] - b[1] * a[2], a[2] * b[2])
Times(a, b) == Fraction(a[1] * b[1], a[2] * b[2])
Over(a, b) == Fraction(a[1] * b[2], a[2] * b[1])
AtMost(a, b) == a[1] * b[2] <= b[1] * a[2]
Equals(a, b) == a[1] * b[2] = b[1] * a[2]
-----------------------------------------------------------------------------
(***************************************************************************)
(* SummaryStatistics<T>                                                    *)
(***************************************************************************)
NoSummary == [count |-> 0, sum |-> 0, average |-> Zero, m2 |-> Zero]

\* Mutant: both factors with the average of before.
MutantSummarySample(s, t) ==
    LET delta == Minus(Whole(t), s.average)
        average == Plus(s.average, Over(delta, Whole(s.count + 1))) IN
    [s EXCEPT !.count = @ + 1, !.sum = @ + t, !.average = average,
              !.m2 = Plus(@, Times(delta, delta))]

SummarySample(s, t) ==
    LET delta == Minus(Whole(t), s.average)
        average == Plus(s.average, Over(delta, Whole(s.count + 1))) IN
    [s EXCEPT !.count = @ + 1, !.sum = @ + t, !.average = average,
              !.m2 = Plus(@, Times(delta, Minus(Whole(t), average)))]

SummaryReset(s) == [s EXCEPT !.count = 0, !.sum = 0, !.average = Zero, !.m2 = Zero]

Variance(s) == IF s.count >= 2 THEN Over(s.m2, Whole(s.count)) ELSE Zero
-----------------------------------------------------------------------------
(***************************************************************************)
(* RangedSummaryStatistics<T>: its reset() is that of the base class and   *)
(* leaves the range.                                                       *)
(***************************************************************************)
NoRange == [count |-> 0, sum |-> 0, average |-> Zero, m2 |-> Zero, min |-> 0, max |-> 0]

\* Mutant: a new range begins with the first sample ever, not after a reset.
MutantRangedSample(s, t) ==
    LET sampled == SummarySample(s, t) IN
    IF s = NoRange      THEN [sampled EXCEPT !.min = t, !.max = t]
    ELSE IF t > s.max   THEN [sampled EXCEPT !.max = t]
    ELSE IF t < s.min   THEN [sampled EXCEPT !.min = t]
    ELSE sampled

RangedSample(s, t) ==
    LET sampled == SummarySample(s, t) IN
    IF sampled.count = 1 THEN [sampled EXCEPT !.min = t, !.max = t]
    ELSE IF t > s.max    THEN [sampled EXCEPT !.max = t]
    ELSE IF t < s.min    THEN [sampled EXCEPT !.min = t]
    ELSE sampled
-----------------------------------------------------------------------------
(***************************************************************************)
(* WeightedSummaryStatistics.  A weight of -1 takes a value out again, but *)
(* counts as one more sample.                                              *)
(***************************************************************************)
NoWeighted == [count |-> 0, weightSum |-> 0, sum |-> 0, average |-> Zero, m2 |-> Zero]

\* Mutant: a value that is taken out moves the average the way it did when it came in.
MutantWeightedSample(s, value, weight) ==
    LET delta == Minus(Whole(value), s.average)
        average == Plus(s.average, Over(delta, Whole(s.weightSum + weight))) IN
    [count |-> s.count + 1, weightSum |-> s.weightSum + weight,
     sum |-> s.sum + value * weight, average |-> average,
     m2 |-> Plus(s.m2, Times(Times(delta, Whole(weight)), Minus(Whole(value), average)))]

WeightedSample(s, value, weight) ==
    LET delta == Minus(Whole(value), s.average)
        average == Plus(s.average, Over(Times(delta, Whole(weight)),
                                        Whole(s.weightSum + weight))) IN
    [count |-> s.count + 1, weightSum |-> s.weightSum + weight,
     sum |-> s.sum + value * weight, average |-> average,
     m2 |-> Plus(s.m2, Times(Times(delta, Whole(weight)), Minus(Whole(value), average)))]
=============================================================================
