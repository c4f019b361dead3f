------------------------------ MODULE Statistics ------------------------------
(***************************************************************************)
(* The figures of Werk/Math that are updated sample by sample: summaries   *)
(* with their range, a simple linear regression, a discrete distribution   *)
(* and the two kinds of exponential moving average.  Numbers are fractions *)
(* (module Summaries).                                                     *)
(*                                                                         *)
(* The factor of a ContinuousEma is a power of two, the unit of its        *)
(* indexes being the half-life: exp(log(2) / halfLife * (last - index)).   *)
(***************************************************************************)
EXTENDS Summaries, Arithmetic, Sequences, Functions, Folds

CONSTANTS
    Samples,                    \* what is sampled
    Alpha,                      \* _alpha of the DiscreteEma
    MaxIndex,                   \* bound on the indexes, in half-lives
    MaxSamples                  \* bound on the samples between two resets

ASSUME StatisticsAssumption ==
    /\ Samples \subseteq Int
    /\ Alpha \in (Nat \X (Nat \ {0})) /\ Alpha[1] <= Alpha[2]
    /\ MaxIndex \in Nat /\ MaxSamples \in Nat

VARIABLES
    figure,                     \* which class it is
    range,                      \* a RangedSummaryStatistics
    regression,                 \* _x, _y and _xy
    weights, weightSum,         \* of a DiscreteDistribution
    ema, lastIndex,             \* _value and _lastIndex of an average, if any
    \* History, which no action reads:
    sampled                     \* the samples since the last reset

figureVars == <<figure, range, regression, weights, weightSum, ema, lastIndex, sampled>>

None == <<>>
NoIndex == -1
Figure == {"range", "regression", "distribution", "discrete", "continuous"}

StatisticsInit ==
    /\ figure \in Figure
    /\ range = NoRange
    /\ regression = [x |-> NoSummary, y |-> NoSummary, xy |-> NoSummary]
    /\ weights = <<>> /\ weightSum = 0
    /\ ema = None /\ lastIndex = NoIndex
    /\ sampled = <<>>

Remember(sample) ==
    /\ Len(sampled) < MaxSamples
    /\ sampled' = Append(sampled, sample)
    /\ UNCHANGED figure
-----------------------------------------------------------------------------
SampleRange(t) ==
    /\ figure = "range"
    /\ Remember(t)
    /\ range' = RangedSample(range, t)
    /\ UNCHANGED <<regression, weights, weightSum, ema, lastIndex>>

SampleRegression(x, y) ==
    /\ figure = "regression"
    /\ Remember(<<x, y>>)
    /\ regression' = [x |-> SummarySample(regression.x, x),
                      y |-> SummarySample(regression.y, y),
                      xy |-> SummarySample(regression.xy, x * y)]
    /\ UNCHANGED <<range, weights, weightSum, ema, lastIndex>>

Covariance ==
    Minus(regression.xy.average, Times(regression.x.average, regression.y.average))

\* Not a number, or infinite, with one sample or without any variance of x.
HasBeta == regression.x.count >= 2 /\ Variance(regression.x) # Zero

Beta == Over(Covariance, Variance(regression.x))

Intercept == Minus(regression.y.average, Times(regression.x.average, Beta))

\* The square of correlation(): the root is left out, and the clamp is never needed.
HasCorrelation == HasBeta /\ Variance(regression.y) # Zero

Correlation2 ==
    Over(Times(Covariance, Covariance),
         Times(Variance(regression.x), Variance(regression.y)))

Predict(x) ==
    Plus(Times(Beta, Minus(Whole(x), regression.x.average)), regression.y.average)
-----------------------------------------------------------------------------
WeightOf(t) == IF t \in DOMAIN weights THEN weights[t] ELSE 0

SampleDistribution(t, weight) ==
    /\ figure = "distribution"
    /\ Remember(<<t, weight>>)
    /\ weightSum' = weightSum + weight
    /\ weights' = [v \in DOMAIN weights \union {t} |->
                      WeightOf(v) + (IF v = t THEN weight ELSE 0)]
    /\ UNCHANGED <<range, regression, ema, lastIndex>>

\* Mutant: stops at the value itself.
MutantCumulativeWeight(t) == Total(weights, {v \in DOMAIN weights : v < t})

\* The map is in the order of its values.
CumulativeWeight(t) == Total(weights, {v \in DOMAIN weights : v <= t})

Pdf(t) == IF t \in DOMAIN weights THEN Fraction(weights[t], weightSum) ELSE Zero

Cdf(t) == Fraction(CumulativeWeight(t), weightSum)
-----------------------------------------------------------------------------
Mix(share, new, old) == Plus(Times(Minus(Whole(1), share), old), Times(share, new))

SampleDiscrete(x) ==
    /\ figure = "discrete"
    /\ Remember(x)
    /\ ema' = IF ema = None THEN Whole(x) ELSE Mix(Alpha, Whole(x), ema)
    /\ UNCHANGED <<range, regression, weights, weightSum, lastIndex>>

\* Mutant: swaps what is left of the old value and what is new.
MutantShareOfNew(index) == Fraction(1, Power(2, index - lastIndex))

\* 1 - oneMinusAlpha: "after 3 half lives, 1/8 should be left of the old value"
ShareOfNew(index) == Minus(Whole(1), Fraction(1, Power(2, index - lastIndex)))

\* The next value, unless it is not a number: before the first sample, and after a
\* first sample that found a value which was set, but no index it was set at.
Decayed(index, x) ==
    IF ema = None THEN Whole(x)
    ELSE IF lastIndex = NoIndex THEN None
    ELSE Mix(ShareOfNew(index), Whole(x), ema)

\* The indexes of a series in time do not go back.
SampleContinuous(index, x) ==
    /\ figure = "continuous"
    /\ index >= lastIndex
    /\ Remember(<<index, x>>)
    /\ ema' = Decayed(index, x)
    /\ lastIndex' = index
    /\ UNCHANGED <<range, regression, weights, weightSum>>

\* add(), before the first sample, leaves it as it is: not a number.
AddToContinuous(delta) ==
    /\ figure = "continuous"
    /\ ema # None
    /\ Remember(<<NoIndex, delta>>)
    /\ ema' = Plus(ema, Whole(delta))
    /\ UNCHANGED <<range, regression, weights, weightSum, lastIndex>>

SetContinuous(value) ==
    /\ figure = "continuous"
    /\ Remember(<<NoIndex, value>>)
    /\ ema' = Whole(value)
    /\ UNCHANGED <<range, regression, weights, weightSum, lastIndex>>
-----------------------------------------------------------------------------
\* reset() of the class.
Forget(class) ==
    /\ figure = class /\ sampled # <<>>
    /\ sampled' = <<>>
    /\ UNCHANGED figure

\* That of SummaryStatistics: the range stays.
ResetRange ==
    /\ Forget("range")
    /\ range' = SummaryReset(range)
    /\ UNCHANGED <<regression, weights, weightSum, ema, lastIndex>>

ResetRegression ==
    /\ Forget("regression")
    /\ regression' = [s \in DOMAIN regression |-> SummaryReset(regression[s])]
    /\ UNCHANGED <<range, weights, weightSum, ema, lastIndex>>

ResetDistribution ==
    /\ Forget("distribution")
    /\ weights' = <<>> /\ weightSum' = 0
    /\ UNCHANGED <<range, regression, ema, lastIndex>>

ResetDiscrete ==
    /\ Forget("discrete")
    /\ ema' = None
    /\ UNCHANGED <<range, regression, weights, weightSum, lastIndex>>

ResetContinuous ==
    /\ Forget("continuous")
    /\ ema' = None /\ lastIndex' = NoIndex
    /\ UNCHANGED <<range, regression, weights, weightSum>>

StatisticsNext ==
    \/ ResetRange \/ ResetRegression \/ ResetDistribution \/ ResetDiscrete \/ ResetContinuous
    \/ \E t \in Samples :
         \/ SampleRange(t)
         \/ \E y \in Samples : SampleRegression(t, y)
         \/ \E weight \in 1 .. 2 : SampleDistribution(t, weight)
         \/ SampleDiscrete(t)
         \/ AddToContinuous(t) \/ SetContinuous(t)
         \/ \E index \in 0 .. MaxIndex : SampleContinuous(index, t)

StatisticsSpec == StatisticsInit /\ [][StatisticsNext]_figureVars
-----------------------------------------------------------------------------
Places == 1 .. Len(sampled)

\* n times m2 is n times the sum of squares less the square of the sum.
IsSummaryOf(s, f) ==
    LET n == Len(sampled)
        total == Total(f, Places)
        squares == Total([k \in Places |-> f[k] * f[k]], Places) IN
    /\ s.count = n /\ s.sum = total
    /\ Times(s.average, Whole(n)) = Whole(total)
    /\ Times(s.m2, Whole(n)) = Whole(n * squares - total * total)

\* The sum of the fractions f[x] for all x of S.
FractionTotal(f, S) ==
    MapThenFoldSet(Plus, Zero, LAMBDA x : f[x], LAMBDA s : CHOOSE x \in s : TRUE, S)

(***************************************************************************)
(* MomentsAreExact: the count, sum, average and sum of squares that        *)
(* sample() updates in place are those of the samples since the last       *)
(* reset(), and the range is theirs, although reset() does not touch it.   *)
(* The line of a regression is that of least squares: its errors add up to *)
(* zero, and do so when weighted with x; and a correlation is full if and  *)
(* only if there are no errors.                                            *)
(***************************************************************************)
RangeIsExact ==
    /\ IsSummaryOf(range, sampled)
    /\ sampled # <<>> => /\ range.min = Min(Range(sampled))
                         /\ range.max = Max(Range(sampled))

ErrorAt(k) == Minus(Whole(sampled[k][2]), Predict(sampled[k][1]))

RegressionIsExact ==
    /\ HasBeta =>
         /\ FractionTotal([k \in Places |-> ErrorAt(k)], Places) = Zero
         /\ FractionTotal([k \in Places |-> Times(Whole(sampled[k][1]), ErrorAt(k))], Places)
              = Zero
         /\ Equals(Intercept, Predict(0))
    /\ HasCorrelation =>
         /\ AtMost(Correlation2, Whole(1))
         /\ Correlation2 = Whole(1) <=> \A k \in Places : ErrorAt(k) = Zero

MomentsAreExact ==
    /\ figure = "range" => RangeIsExact
    /\ figure = "regression" =>
         /\ IsSummaryOf(regression.x, [k \in Places |-> sampled[k][1]])
         /\ IsSummaryOf(regression.y, [k \in Places |-> sampled[k][2]])
         /\ RegressionIsExact

(***************************************************************************)
(* AveragesAreWeighted: the probabilities of a distribution add up to one, *)
(* and up to the cumulative one of each value; an average lies between the *)
(* smallest and the largest sample, whatever is sampled in which order and *)
(* however far apart, unless it was added to or set; and each sample       *)
(* counts for the time during which it was the latest, decayed since.      *)
(***************************************************************************)
DistributionIsExact ==
    sampled # <<>> =>
        /\ Cdf(Max(DOMAIN weights)) = Whole(1)
        /\ \A t \in Samples :
             Equals(Cdf(t), FractionTotal([v \in DOMAIN weights |-> Pdf(v)],
                                          {v \in DOMAIN weights : v <= t}))

IsBetween(x, S) == AtMost(Whole(Min(S)), x) /\ AtMost(x, Whole(Max(S)))

Shifted == \E k \in Places : sampled[k][1] = NoIndex

\* What is left of something at the index of the k-th sample.
LeftOf(k) == IF k = 0 THEN Zero ELSE Fraction(1, Power(2, lastIndex - sampled[k][1]))

DecayIsExact ==
    Equals(ema, FractionTotal([k \in Places |-> Times(Minus(LeftOf(k), LeftOf(k - 1)),
                                                      Whole(sampled[k][2]))], Places))

AveragesAreWeighted ==
    /\ figure = "distribution" => DistributionIsExact
    /\ figure = "discrete" /\ sampled # <<>> => IsBetween(ema, Range(sampled))
    /\ figure = "continuous" /\ sampled # <<>> /\ ~Shifted
         => IsBetween(ema, {sampled[k][2] : k \in Places}) /\ DecayIsExact

\* FiguresAreExact: each figure is at any time what its definition makes of the
\* samples since the last reset, with MomentsAreExact and AveragesAreWeighted.
FiguresAreExact == MomentsAreExact /\ AveragesAreWeighted
=============================================================================
