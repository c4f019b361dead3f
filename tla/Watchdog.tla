------------------------------ MODULE Watchdog ------------------------------
(***************************************************************************)
(* werk::Watchdog (Werk/Threading/Watchdog.hpp) as a task of the           *)
(* background thread.  The main thread resets a latch in every cycle; the  *)
(* watchdog sets it again and counts the intervals in which it stays set.  *)
(*                                                                         *)
(* The watchdog reads the background clock, which stands still from the    *)
(* beginning of a pass over the tasks until the next pass, while the latch *)
(* is read when its turn comes, so the time it notes for a reset may be    *)
(* older than the reset itself, by as much as the tasks before it take.    *)
(***************************************************************************)
EXTENDS Integers

CONSTANTS
    Interval, AllowedMisses,    \* _interval, _allowedMisses
    MaxLag,                     \* the tasks before the watchdog take at most this
    MaxPeriod,                  \* at most this from one pass to the next
    MaxTime                     \* bound on the clock

ASSUME ConstantsAssumption ==
    /\ Interval \in Nat \ {0} /\ AllowedMisses \in Nat
    /\ MaxLag \in Nat /\ MaxPeriod \in Nat \ {0} /\ MaxTime \in Nat

VARIABLES
    now,                        \* the real time
    clock,                      \* the background clock, set once per pass
    inPass,                     \* the pass has not reached the watchdog yet
    latch,                      \* _latch: FALSE after a reset
    lastTime, misses,           \* _lastTime, _misses
    \* History, which no action reads:
    lastReset,                  \* when the main thread last reset the latch
    alarms                      \* executions of the action since a reset was seen

vars == <<now, clock, inPass, latch, lastTime, misses, lastReset, alarms>>

\* The clock of a watchdog may be at 0, which the code takes for "not started".
Init ==
    /\ now \in {0, 1}
    /\ clock = now
    /\ inPass = FALSE
    /\ latch = FALSE
    /\ lastTime = 0
    /\ misses = 0
    /\ lastReset = now
    /\ alarms = 0
-----------------------------------------------------------------------------
Tick ==
    /\ now < MaxTime
    /\ now < clock + MaxPeriod
    /\ inPass => now < clock + MaxLag
    /\ now' = now + 1
    /\ UNCHANGED <<clock, inPass, latch, lastTime, misses, lastReset, alarms>>

\* The main thread, at the end of a cycle of Context::run().
Reset ==
    /\ latch' = FALSE
    /\ lastReset' = now
    /\ UNCHANGED <<now, clock, inPass, lastTime, misses, alarms>>

\* The background thread sets its clock and begins with the other tasks.
BeginPass ==
    /\ ~inPass
    /\ clock' = now
    /\ inPass' = TRUE
    /\ UNCHANGED <<now, latch, lastTime, misses, lastReset, alarms>>

Start ==
    /\ lastTime = 0
    /\ lastTime' = clock
    /\ UNCHANGED <<latch, misses, alarms>>

SeeReset ==
    /\ lastTime # 0
    /\ ~latch
    /\ latch' = TRUE
    /\ lastTime' = clock
    /\ misses' = 0
    /\ alarms' = 0

\* Mutant: the interval of the miss before.
MutantOverdue == clock > lastTime + Interval * misses

Overdue == clock > lastTime + Interval * (misses + 1)

\* Mutant: the action again at every further miss.
MutantTakesAction == misses + 1 >= AllowedMisses + 1

TakesAction == misses + 1 = AllowedMisses + 1

\* Mutant: counts every interval from the miss before it, with a threshold that
\* grows all the same.
MutantMiss ==
    /\ lastTime # 0
    /\ latch
    /\ Overdue
    /\ misses' = misses + 1
    /\ lastTime' = clock
    /\ alarms' = IF TakesAction THEN alarms + 1 ELSE alarms
    /\ UNCHANGED latch

Miss ==
    /\ lastTime # 0
    /\ latch
    /\ Overdue
    /\ misses' = misses + 1
    /\ alarms' = IF TakesAction THEN alarms + 1 ELSE alarms
    /\ UNCHANGED <<latch, lastTime>>

Wait ==
    /\ lastTime # 0
    /\ latch
    /\ ~Overdue
    /\ UNCHANGED <<latch, lastTime, misses, alarms>>

Execute ==
    /\ inPass
    /\ inPass' = FALSE
    /\ Start \/ SeeReset \/ Miss \/ Wait
    /\ UNCHANGED <<now, clock, lastReset>>

Next == Tick \/ Reset \/ BeginPass \/ Execute

Spec == Init /\ [][Next]_vars
-----------------------------------------------------------------------------
TypeOK ==
    /\ now \in Nat /\ clock \in Nat /\ lastTime \in Nat /\ lastReset \in Nat
    /\ misses \in Nat /\ alarms \in Nat
    /\ inPass \in BOOLEAN /\ latch \in BOOLEAN

(***************************************************************************)
(* ActionOnce: "Only execute the action once" -- one hang of the main      *)
(* thread, however long, triggers the action at most once, and exactly     *)
(* when more than the allowed number of intervals was missed.              *)
(***************************************************************************)
ActionOnce == alarms = IF misses > AllowedMisses THEN 1 ELSE 0

(***************************************************************************)
(* AlarmMeansSilence: the action is executed only if the main thread did   *)
(* not reset the latch for all the intervals it may miss and one more,     *)
(* less the time by which the clock of the pass that saw the last reset    *)
(* was behind.                                                             *)
(***************************************************************************)
AlarmMeansSilence ==
    [][alarms' > alarms
         => now - lastReset > Interval * (AllowedMisses + 1) - MaxLag]_vars

(***************************************************************************)
(* HangIsNoticed: if passes are no further apart than an interval, a main  *)
(* thread that stays silent is reported within the intervals it may miss,  *)
(* one more, and the passes it takes to start, to see the last reset and   *)
(* to get to the watchdog.                                                 *)
(***************************************************************************)
DetectionTime == Interval * (AllowedMisses + 1) + 3 * MaxPeriod + MaxLag

HangIsNoticed ==
    MaxPeriod <= Interval /\ now - lastReset > DetectionTime => alarms = 1
=============================================================================
