------------------------------- MODULE Timers -------------------------------
(***************************************************************************)
(* werk::Scheduler and werk::Timer (Werk/Threading), two tasks of the      *)
(* background thread which both go by its clock.  The clock is set to the  *)
(* wall clock at the beginning of a pass, which may come late; the wall    *)
(* clock may be set back.                                                  *)
(*                                                                         *)
(* Nothing protects the multimap of the scheduler: schedule() is called    *)
(* between two passes or by the action of a scheduled task.                *)
(***************************************************************************)
EXTENDS Integers, Multimap

CONSTANTS
    Task,                       \* ScheduledTask objects
    Requests,                   \* the interval and repeat they are scheduled with
    TimerInterval, TimerCounts, \* _interval of the timer, and what _count may begin with
    MaxAdjusts, MaxWall         \* bounds on the wall clock

ASSUME TimersAssumption ==
    /\ Requests \subseteq [interval : Nat, repeat : Int]
    /\ TimerInterval \in Nat /\ TimerCounts \subseteq Int
    /\ MaxAdjusts \in Nat /\ MaxWall \in Nat \ {0}

\* A pass would never end with a task of interval 0 that is repeated for ever.
ASSUME IntervalAssumption == \A r \in Requests : r.interval = 0 => r.repeat >= 0

VARIABLES
    wall, adjusts,              \* the wall clock, and how often it was set back
    pass,                       \* whose turn it is in the pass, or "sleep"
    passTime,                   \* _backgroundClock
    \* The scheduler:
    agenda,                     \* _tasks: a multimap, in the order of its keys
    interval, count,            \* _interval and _count of each task
    \* The timer:
    timerTime,                  \* _lastTime, 0 before the first pass
    timerCount,                 \* _count
    \* History, which no action reads:
    request,                    \* how each task was scheduled
    seen,                       \* the latest time of a pass that had the task, or -1
    runs,                       \* how often the task was run
    lastRun                     \* the time of the last run of the timer, 0 for none

wallVars == <<wall, adjusts>>
schedulerVars == <<agenda, interval, count, request, seen, runs>>
timerVars == <<timerTime, timerCount, lastRun>>
wheelVars == <<wallVars, pass, passTime, schedulerVars, timerVars>>

Unscheduled == [start |-> 0, interval |-> 0, repeat |-> 0, known |-> FALSE]

\* The clock is a time since the epoch: it is not 0.
TimersInit ==
    /\ wall = 1 /\ adjusts = 0
    /\ pass = "sleep"
    /\ passTime = 0
    /\ agenda = <<>>
    /\ interval = [t \in Task |-> 0]
    /\ count = [t \in Task |-> 0]
    /\ timerTime = 0
    /\ timerCount \in TimerCounts
    /\ request = [t \in Task |-> Unscheduled]
    /\ seen = [t \in Task |-> -1]
    /\ runs = [t \in Task |-> 0]
    /\ lastRun = 0
-----------------------------------------------------------------------------
WallTick ==
    /\ wall < MaxWall
    /\ wall' = wall + 1
    /\ UNCHANGED <<adjusts, pass, passTime, schedulerVars, timerVars>>

\* "it is affected by NTP adjustments"
Adjust ==
    /\ wall > 1 /\ adjusts < MaxAdjusts
    /\ wall' = wall - 1
    /\ adjusts' = adjusts + 1
    /\ UNCHANGED <<pass, passTime, schedulerVars, timerVars>>

LaterOf(a, b) == IF a >= b THEN a ELSE b

Scheduled == {t \in Task : request[t].known}

BeginTimersPass ==
    /\ pass = "sleep"
    /\ pass' = "scheduler"
    /\ passTime' = wall
    /\ seen' = [t \in Task |-> IF t \in Scheduled THEN LaterOf(seen[t], wall) ELSE -1]
    /\ UNCHANGED <<wallVars, agenda, interval, count, request, runs, timerVars>>
-----------------------------------------------------------------------------
(***************************************************************************)
(* The scheduler.                                                          *)
(***************************************************************************)
\* schedule(): any time is accepted, also one in the past.
ScheduleIn(seq, t, r, time) ==
    /\ t \notin Scheduled
    /\ agenda' = Emplace(seq, [time |-> time, task |-> t])
    /\ request' = [request EXCEPT ![t] =
           [start |-> time, interval |-> r.interval, repeat |-> r.repeat, known |-> TRUE]]

Schedule(t, r, time) ==
    /\ pass = "sleep"
    /\ ScheduleIn(agenda, t, r, time)
    /\ interval' = [interval EXCEPT ![t] = r.interval]
    /\ count' = [count EXCEPT ![t] = r.repeat]
    /\ UNCHANGED <<wallVars, pass, passTime, seen, runs, timerVars>>

Due == pass = "scheduler" /\ agenda # <<>> /\ Head(agenda).time <= passTime

\* ScheduledTask::execute(), after the action.
CountAfter(t) == IF count[t] > 0 THEN count[t] - 1 ELSE count[t]

\* Mutant: the next time from wall on, not from the time it was due.
MutantNextTime(entry) == passTime + interval[entry.task]

NextTime(entry) == entry.time + interval[entry.task]

\* Erased, then moved forward in time or deleted.
Reposted(seq, entry) ==
    IF CountAfter(entry.task) # 0
      THEN Emplace(seq, [time |-> NextTime(entry), task |-> entry.task])
      ELSE seq

CountRun(t) == runs' = [runs EXCEPT ![t] = @ + 1]

RunTask ==
    /\ Due
    /\ LET t == Head(agenda).task IN
         /\ agenda' = Reposted(Tail(agenda), Head(agenda))
         /\ count' = [count EXCEPT ![t] = CountAfter(t)]
         /\ CountRun(t)
    /\ UNCHANGED <<wallVars, pass, passTime, interval, request, seen, timerVars>>

\* The same with an action that schedules another task.
RunAndSchedule(u, r, time) ==
    /\ Due
    /\ LET t == Head(agenda).task IN
         /\ u \notin Scheduled
         /\ agenda' = Reposted(Emplace(Tail(agenda), [time |-> time, task |-> u]),
                               Head(agenda))
         /\ interval' = [interval EXCEPT ![u] = r.interval]
         /\ count' = [count EXCEPT ![t] = CountAfter(t), ![u] = r.repeat]
         /\ CountRun(t)
    /\ request' = [request EXCEPT ![u] =
           [start |-> time, interval |-> r.interval, repeat |-> r.repeat, known |-> TRUE]]
    /\ seen' = [seen EXCEPT ![u] = passTime]
    /\ UNCHANGED <<wallVars, pass, passTime, timerVars>>

EndScheduler ==
    /\ pass = "scheduler"
    /\ agenda # <<>> => Head(agenda).time > passTime
    /\ pass' = "timer"
    /\ UNCHANGED <<wallVars, passTime, schedulerVars, timerVars>>
-----------------------------------------------------------------------------
(***************************************************************************)
(* The timer.                                                              *)
(***************************************************************************)
TimerOff == timerCount = 0 /\ UNCHANGED timerVars

StartTimer ==
    /\ timerCount # 0
    /\ timerTime = 0
    /\ timerTime' = passTime
    /\ UNCHANGED <<timerCount, lastRun>>

TimerDue == timerTime + TimerInterval <= passTime

\* Mutant: forward by the interval, as the scheduler does.
MutantTimeAfter == timerTime + TimerInterval

TimeAfter == passTime

RunTimer ==
    /\ timerCount # 0
    /\ timerTime # 0
    /\ TimerDue
    /\ timerTime' = TimeAfter
    /\ timerCount' = IF timerCount > 0 THEN timerCount - 1 ELSE timerCount
    /\ lastRun' = passTime

TimerWaits == timerCount # 0 /\ timerTime # 0 /\ ~TimerDue /\ UNCHANGED timerVars

\* setCount(), by whoever holds the timer; _count is not protected either.
SetTimerCount(n) ==
    /\ pass = "sleep"
    /\ timerCount' = n
    /\ UNCHANGED <<wallVars, pass, passTime, schedulerVars, timerTime, lastRun>>

ExecuteTimer ==
    /\ pass = "timer"
    /\ TimerOff \/ StartTimer \/ RunTimer \/ TimerWaits
    /\ pass' = "sleep"
    /\ UNCHANGED <<wallVars, passTime, schedulerVars>>
-----------------------------------------------------------------------------
Scheduling ==
    \E t \in Task, r \in Requests, time \in 0 .. MaxWall :
        Schedule(t, r, time) \/ RunAndSchedule(t, r, time)

Background == BeginTimersPass \/ RunTask \/ EndScheduler \/ ExecuteTimer

TimersNext ==
    \/ WallTick \/ Adjust \/ Scheduling \/ Background
    \/ \E n \in TimerCounts : SetTimerCount(n)

TimersSpec == TimersInit /\ [][TimersNext]_wheelVars
-----------------------------------------------------------------------------
\* How often a task is to be run: a repeat of 0 and of 1 are the same, and with a
\* negative one there is no end.
IsEndless(t) == request[t].repeat < 0
Limit(t) == LaterOf(1, request[t].repeat)
IsOver(t) == ~IsEndless(t) /\ runs[t] = Limit(t)

\* The iterator of the loop always stands at the earliest task, and the tasks in
\* the multimap are those that have not been deleted.
AgendaTypeOK ==
    /\ agenda \in Seq([time : Nat, task : Task])
    /\ IsOrdered(agenda)
    /\ \A j, k \in DOMAIN agenda : j # k => agenda[j].task # agenda[k].task
    /\ \A t \in Task :
         (\E k \in DOMAIN agenda : agenda[k].task = t) <=> t \in Scheduled /\ ~IsOver(t)

TimersTypeOK ==
    /\ wall \in 1 .. MaxWall /\ adjusts \in 0 .. MaxAdjusts
    /\ pass \in {"sleep", "scheduler", "timer"}
    /\ passTime \in 0 .. MaxWall
    /\ AgendaTypeOK
    /\ interval \in [Task -> Nat] /\ count \in [Task -> Int]
    /\ request \in [Task -> [start : Nat, interval : Nat, repeat : Int, known : BOOLEAN]]
    /\ seen \in [Task -> Int] /\ runs \in [Task -> Nat]
    /\ timerTime \in 0 .. MaxWall /\ timerCount \in Int /\ lastRun \in 0 .. MaxWall

(***************************************************************************)
(* RunsAreExact: between two passes, every task has been run once for each *)
(* of the times start + k * interval up to the latest pass that had it, up *)
(* to its count: a late pass makes up for all the runs it has missed, no   *)
(* run is made twice when the clock was set back, and the times never      *)
(* drift.                                                                  *)
(***************************************************************************)
TimeOfRun(t, k) == request[t].start + k * request[t].interval

RunsAreExact ==
    pass = "sleep" => \A t \in Scheduled :
        /\ runs[t] > 0 => TimeOfRun(t, runs[t] - 1) <= seen[t]
        /\ IsOver(t) \/ TimeOfRun(t, runs[t]) > seen[t]
        /\ IsEndless(t) \/ runs[t] <= Limit(t)

\* TimerSpacing: unlike the scheduler, the timer never makes up for a missed run:
\* from one run to the next at least its interval passes, however late the passes.
TimerSpacing ==
    [][lastRun' # lastRun /\ lastRun # 0
         => lastRun' >= lastRun + TimerInterval]_wheelVars
=============================================================================
