---------------------------- MODULE SlidingWindow ----------------------------
(***************************************************************************)
(* BaseSlidingWindow and what is derived from it: SlidingWindow,           *)
(* SumSlidingWindow, SlidingSummaryStatistics, and Throttle, which is the  *)
(* same without values (Werk/Utility, Werk/Math).                          *)
(*                                                                         *)
(* The window is a ring buffer.  Its indexes are unsigned and wrap around; *)
(* here they are times that are not more than Modulus - 1 apart as long as *)
(* they are in the buffer.  Sums are exact: what rounding does to those of *)
(* floating point numbers is left out.                                     *)
(***************************************************************************)
EXTENDS Summaries, Arithmetic, Sequences, SequencesExt

CONSTANTS
    Size, Duration,             \* size, _duration
    Modulus,                    \* stands for 2^64
    Values,
    MaxTime, MaxExcess,         \* bounds on the time, and on the sum at a reset
    MaxCount                    \* bound on the count of the statistics

ASSUME WindowsAssumption ==
    /\ Size \in Nat \ {0} /\ Duration \in Nat
    /\ Modulus \in Nat /\ Duration < Modulus
    /\ Values \subseteq Nat /\ MaxTime \in Nat /\ MaxExcess \in Nat /\ MaxCount \in Nat

VARIABLES
    kind,                       \* "window", "sum", "statistics" or "throttle"
    now,                        \* the time, of which an index is the remainder
    front, count,               \* _front, _count
    indexes, values,            \* _indexes, _values: 0 for what was never written
    sum, statistics,            \* _sum, _statistics
    \* History, which no action reads:
    slid,                       \* when the window was last slid to the current time
    times,                      \* when the elements of the buffer were written
    excess,                     \* what the sum had when a window that keeps one was reset
    uses                        \* the latest uses of a throttle since it was slid by hand

bufferVars == <<front, count, indexes, values, times>>
sumVars == <<sum, statistics, excess>>
windowVars == <<kind, now, bufferVars, sumVars, slid, uses>>

Location == 0 .. Size - 1
Index == now % Modulus

WindowsInit ==
    /\ kind \in {"window", "sum", "statistics", "throttle"}
    /\ now = 0
    /\ front = 0 /\ count = 0
    /\ indexes = [l \in Location |-> 0]
    /\ values = [l \in Location |-> 0]
    /\ sum = 0 /\ statistics = NoWeighted
    /\ slid = 0
    /\ times = [l \in Location |-> 0]
    /\ excess = 0
    /\ uses = <<>>

Tick ==
    /\ now < MaxTime
    /\ count > 0 => now + 1 - times[front] < Modulus
    /\ now' = now + 1
    /\ UNCHANGED <<kind, bufferVars, sumVars, slid, uses>>
-----------------------------------------------------------------------------
\* backLocation(), and the step of _front
LocationAfter(l, n) == IF l + n >= Size THEN l + n - Size ELSE l + n

\* Mutant: signed, without the wrap.
MutantAge(l) == Index - indexes[l]

Age(l) == (Index - indexes[l]) % Modulus

Expired(l) == Age(l) > Duration

\* The locations in use, from the front.
InUse(n) == [k \in 1 .. n |-> LocationAfter(front, k - 1)]

SumOver(seq) == Total([k \in DOMAIN seq |-> values[seq[k]]], DOMAIN seq)

\* How many forceSlideOne() slide() makes: up to the first that has not expired.
SlidTo ==
    LET fresh == SelectInSeq(InUse(count), LAMBDA l : ~Expired(l)) IN
    IF fresh = 0 THEN count ELSE fresh - 1

\* onRemoveValue() of the statistics: "resetting if it's the last value"
IsLast(removed) == removed > 0 /\ removed = count

\* After onRemoveValue() of each element that forceSlideOne() removes.
SumAfter(removed) == IF kind = "sum" THEN sum - SumOver(InUse(removed)) ELSE 0

StatisticsAfter(removed) ==
    LET after[n \in 0 .. removed] ==
          IF n = 0 THEN statistics
          ELSE WeightedSample(after[n - 1], values[InUse(removed)[n]], -1) IN
    IF kind # "statistics" \/ IsLast(removed) THEN NoWeighted ELSE after[removed]

ForceSlide(removed) ==
    /\ front' = LocationAfter(front, removed)
    /\ count' = count - removed
    /\ sum' = SumAfter(removed)
    /\ statistics' = StatisticsAfter(removed)
    /\ UNCHANGED <<kind, now, indexes, values, times, excess>>

SlideOne ==
    /\ kind # "throttle"
    /\ count > 0
    /\ ForceSlide(1)
    /\ UNCHANGED <<slid, uses>>

Slide ==
    /\ kind # "throttle"
    /\ ForceSlide(SlidTo)
    /\ slid' = now
    /\ UNCHANGED uses
-----------------------------------------------------------------------------
\* What is pushed out of a full window.
PushedOut == IF count = Size THEN 1 ELSE 0

Write(value) ==
    LET back == LocationAfter(front, count) IN
    /\ front' = LocationAfter(front, PushedOut)
    /\ count' = count - PushedOut + 1
    /\ indexes' = [indexes EXCEPT ![back] = Index]
    /\ values' = [values EXCEPT ![back] = value]
    /\ times' = [times EXCEPT ![back] = now]
    /\ UNCHANGED <<kind, now, excess, slid>>

Sample(value) ==
    /\ kind # "throttle"
    /\ statistics.count + PushedOut < MaxCount
    /\ Write(value)
    /\ sum' = SumAfter(PushedOut) + (IF kind = "sum" THEN value ELSE 0)
    /\ statistics' = IF kind = "statistics"
                       THEN WeightedSample(StatisticsAfter(PushedOut), value, 1)
                       ELSE statistics
    /\ UNCHANGED uses
-----------------------------------------------------------------------------
\* The sum of a SumSlidingWindow is not reset, the statistics are.
Reset ==
    /\ kind # "throttle"
    /\ kind = "sum" => sum <= MaxExcess
    /\ front' = 0 /\ count' = 0
    /\ statistics' = NoWeighted
    /\ excess' = IF kind = "sum" THEN sum ELSE 0
    /\ UNCHANGED <<kind, now, indexes, values, times, slid, sum, uses>>
-----------------------------------------------------------------------------
(***************************************************************************)
(* Throttle                                                                *)
(***************************************************************************)
ThrottleForceSlide(removed) ==
    /\ front' = LocationAfter(front, removed)
    /\ count' = count - removed
    /\ UNCHANGED <<kind, now, indexes, values, times, sumVars>>

ThrottleSlideOne ==
    /\ kind = "throttle"
    /\ count > 0
    /\ ThrottleForceSlide(1)
    /\ uses' = <<>>
    /\ UNCHANGED slid

ThrottleSlide ==
    /\ kind = "throttle"
    /\ ThrottleForceSlide(SlidTo)
    /\ slid' = now
    /\ UNCHANGED uses

\* A sample of a throttle is forced: it is not a use of a slot.
ThrottleSample ==
    /\ kind = "throttle"
    /\ Write(0)
    /\ UNCHANGED <<sum, statistics, uses>>

\* Mutant: one too many.
MutantHasSlot == count <= Size

HasSlot == count < Size

\* At most one more than there are slots are kept.
Latest(seq) == IF Len(seq) > Size + 1 THEN Tail(seq) ELSE seq

TryUseSlot ==
    /\ kind = "throttle"
    /\ HasSlot
    /\ Write(0)
    /\ uses' = Latest(Append(uses, now))
    /\ UNCHANGED <<sum, statistics>>

ThrottleReset ==
    /\ kind = "throttle"
    /\ front' = 0 /\ count' = 0
    /\ uses' = <<>>
    /\ UNCHANGED <<kind, now, indexes, values, times, slid, sumVars>>
-----------------------------------------------------------------------------
WindowsNext ==
    \/ Tick \/ SlideOne \/ Slide \/ Reset
    \/ \E value \in Values : Sample(value)
    \/ ThrottleSlideOne \/ ThrottleSlide \/ ThrottleSample \/ TryUseSlot \/ ThrottleReset

WindowsSpec == WindowsInit /\ [][WindowsNext]_windowVars
-----------------------------------------------------------------------------
WindowsTypeOK ==
    /\ now \in 0 .. MaxTime
    /\ front \in Location /\ count \in 0 .. Size
    /\ indexes \in [Location -> 0 .. Modulus - 1]
    /\ slid \in 0 .. now
    /\ times \in [Location -> 0 .. MaxTime]
    /\ values \in [Location -> Values \union {0}]
    /\ sum \in Nat /\ excess \in Nat
    /\ statistics.count \in Nat /\ statistics.weightSum \in 0 .. Size
    /\ uses \in Seq(Nat)

\* ImplementsContract: the ring buffer, with its indexes that wrap around, is a queue
\* of the latest samples, and slide() drops those older than the duration, no other.
Contract == INSTANCE WindowContract
    WITH Value <- Values \union {0},
         samples <- [k \in 1 .. count |->
             [time |-> times[LocationAfter(front, k - 1)],
              value |-> values[LocationAfter(front, k - 1)]]]

ImplementsContract == Contract!Spec

(***************************************************************************)
(* SumIsOfContents: "A sliding window that keeps a sum" -- that of the     *)
(* values in it.  It does not hold: a window that is reset is empty, and   *)
(* keeps the sum of what was in it for good.                               *)
(***************************************************************************)
SumIsOfContents == kind = "sum" => sum = SumOver(InUse(count))

(***************************************************************************)
(* StatisticsOfContents: "A sliding window that calculates summary         *)
(* statistics" -- the sum, the average and the sum of squares, which are   *)
(* updated in place when a value comes and when one goes, are those of the *)
(* values in it, after a reset as well.                                    *)
(***************************************************************************)
StatisticsOfContents ==
    LET n == statistics.weightSum
        total == SumOver(InUse(count))
        squares == Total([k \in 1 .. count |-> values[InUse(count)[k]] * values[InUse(count)[k]]],
                         1 .. count) IN
    /\ n = count /\ statistics.sum = total
    /\ Times(statistics.average, Whole(n)) = Whole(total)
    /\ Times(statistics.m2, Whole(n)) = Whole(n * squares - total * total)

(***************************************************************************)
(* ThrottleLimit: a throttle that is not slid by hand lets at most Size    *)
(* uses pass in any period of its duration, whenever it is slid to the     *)
(* current time, and whatever samples are forced on it.                    *)
(***************************************************************************)
ThrottleLimit ==
    Len(uses) > Size => uses[Len(uses)] - uses[Len(uses) - Size] > Duration

(***************************************************************************)
(* WindowIsExact: what is derived from a window follows its contents,      *)
(* however it is filled and slid: statistics tell what is in it, a         *)
(* throttle counts its uses, and so does a sum tell what is in its window  *)
(* if that was never reset with anything left in it (SumIsOfContents       *)
(* leaves that out and is not kept).                                       *)
(***************************************************************************)
WindowIsExact ==
    /\ kind = "statistics" => StatisticsOfContents
    /\ excess = 0 => SumIsOfContents
    /\ ThrottleLimit
=============================================================================
