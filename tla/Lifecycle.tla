------------------------------ MODULE Lifecycle ------------------------------
(***************************************************************************)
(* The life of a werk::Context: its constructor, run(), shutdown() and its *)
(* destructor on the main thread, beside the loop of                       *)
(* werk::BackgroundThread, which runs from the first moment on             *)
(* (Werk/Application/Context.{hpp,cpp}, Werk/OS/Signals.cpp,               *)
(* Werk/Threading/BackgroundThread.{hpp,cpp}).                             *)
(*                                                                         *)
(* The constructor gives the background thread its tasks one by one.  What *)
(* the logs and the config do in detail is in AsyncLog and ConfigReload;   *)
(* the others (scheduler, watchdog, the user's) may do no more here than   *)
(* log.  Adding a task is one step: what the loop may see of the vector    *)
(* meanwhile is in TaskList.                                               *)
(***************************************************************************)
EXTENDS Naturals, Sequences

CONSTANTS
    LogCapacity,                \* lines each log can queue
    QueueCapacity,              \* actions a queue can hold
    MaxTasks                    \* with so many the user adds no more (a bound)

ASSUME ConstantsAssumption ==
    LogCapacity \in Nat /\ QueueCapacity \in Nat /\ MaxTasks \in Nat

\* _stdoutLog, _realTimeLog, and the one made when the time is simulated
Logs == {"stdoutLog", "realTimeLog", "historicalLog"}

Kinds == Logs \union {"actions", "config", "scheduler", "watchdog", "user"}

VARIABLES
    main,                       \* where the main thread is
    log,                        \* the log of the config and the context: _log
    tasks,                      \* _tasks of the background thread
    quitting,                   \* _quitting
    running, stopped,           \* _running, _stopped of the background thread
    bg,                         \* the background thread: in a pass, past its tasks,
                                \* asleep or done
    next,                       \* the task it executes next
    loading,                    \* it is reading the sources of the config
    lines,                      \* lines queued in each log
    foreground, background,     \* _foregroundActionQueue, _backgroundActionQueue
    reload, changed,            \* the latches of the config
    \* History, which no action reads:
    dueLines, dueActions,       \* how many of those were there when the pass began
    shutdowns,                  \* times the shutdown actions were run
    strayed                     \* a foreground action was run in the background

bgVars == <<bg, next, loading, dueLines, dueActions, strayed>>
flags == <<quitting, reload, changed>>
queues == <<lines, foreground, background>>
vars == <<main, log, tasks, running, stopped, bgVars, flags, queues, shutdowns>>

\* Both kinds of deferred actions, by the accessor that was asked for the queue.
Deferred == {"foreground", "background"}

\* The background thread is started while the members are initialized.
Init ==
    /\ main = "bootstrap" /\ log = "stdoutLog"
    /\ tasks = <<>>
    /\ quitting = FALSE
    /\ running = TRUE /\ stopped = FALSE
    /\ bg = "pass" /\ next = 1 /\ loading = FALSE
    /\ lines = [l \in Logs |-> 0]
    /\ foreground = <<>> /\ background = <<>>
    /\ reload = FALSE /\ changed = FALSE
    /\ dueLines = lines /\ dueActions = 0
    /\ shutdowns = 0
    /\ strayed = FALSE
-----------------------------------------------------------------------------
\* A full queue drops a line or an action; the return value is ignored.  What is
\* logged in one step counts as one line.
OneMore(n) == IF n < LogCapacity THEN n + 1 ELSE n

\* A line or none in each of these logs.
LogTo(used) ==
    \E given \in SUBSET used :
        lines' = [l \in Logs |-> IF l \in given THEN OneMore(lines[l]) ELSE lines[l]]

Log == LogTo({log})

LogOne == lines' = [lines EXCEPT ![log] = OneMore(@)]

Push(queue, action) == IF Len(queue) < QueueCapacity THEN Append(queue, action) ELSE queue

\* foregroundActionQueue() and backgroundActionQueue() return the same queue.
Defer(action) == background' = Push(background, action)

MayDefer == (\E a \in Deferred : Defer(a)) \/ UNCHANGED background

AddTask(task) == tasks' = Append(tasks, task)
-----------------------------------------------------------------------------
(***************************************************************************)
(* The constructor, one phase after the other.                             *)
(***************************************************************************)
mainUnchanged == <<running, bgVars, foreground, shutdowns>>
startUnchanged == <<mainUnchanged, stopped, background>>

Bootstrap ==
    /\ main = "bootstrap"
    /\ main' = "stdoutLog"
    /\ AddTask("actions")
    /\ UNCHANGED <<startUnchanged, log, flags, lines>>

AddStdoutLog ==
    /\ main = "stdoutLog"
    /\ main' = "primary"
    /\ AddTask("stdoutLog")
    /\ UNCHANGED <<startUnchanged, log, flags, lines>>

\* The main thread loads the config twice before the background thread gets it:
\* from the primary files, which name the others, and then from all of them.
\* In these places it changes the sources or reads them.
AtSources == {"primary", "load primary", "all", "load all"}

\* Mutant: the background thread gets the config with its first source.
MutantAddSources ==
    /\ main \in {"primary", "all"}
    /\ main' = IF main = "primary" THEN "load primary" ELSE "load all"
    /\ reload' = TRUE
    /\ IF main = "primary" THEN AddTask("config") ELSE UNCHANGED tasks
    /\ Log
    /\ UNCHANGED <<startUnchanged, log, quitting, changed>>

AddSources ==
    /\ main \in {"primary", "all"}
    /\ main' = IF main = "primary" THEN "load primary" ELSE "load all"
    /\ reload' = TRUE
    /\ Log
    /\ UNCHANGED <<startUnchanged, log, tasks, quitting, changed>>

LoadSources ==
    /\ main \in {"load primary", "load all"}
    /\ main' = IF main = "load primary" THEN "all" ELSE "config"
    /\ reload' = FALSE
    /\ changed' = (changed \/ reload)
    /\ Log
    /\ UNCHANGED <<startUnchanged, log, tasks, quitting>>

AddConfig ==
    /\ main = "config"
    /\ main' = "realTimeLog"
    /\ AddTask("config")
    /\ LogOne
    /\ UNCHANGED <<startUnchanged, log, flags>>

AddRealTimeLog ==
    /\ main = "realTimeLog"
    /\ main' \in {"historicalLog", "components"}
    /\ AddTask("realTimeLog")
    /\ log' = "realTimeLog"
    /\ LogTo({"stdoutLog", "realTimeLog"})
    /\ UNCHANGED <<startUnchanged, flags>>

\* Only if Application.RealTime is not set.
AddHistoricalLog ==
    /\ main = "historicalLog"
    /\ main' = "components"
    /\ AddTask("historicalLog")
    /\ log' = "historicalLog"
    /\ LogTo({"stdoutLog", "historicalLog"})
    /\ UNCHANGED <<startUnchanged, flags>>

\* The system's state, a dry run, profiles, commands and aliases, the console.
AddComponents ==
    /\ main = "components"
    /\ main' = "scheduler"
    /\ LogTo({log, "stdoutLog", "realTimeLog"})
    /\ quitting' \in BOOLEAN
    /\ UNCHANGED <<startUnchanged, log, tasks, reload, changed>>

\* After the scheduler come the handlers of the signals.
AddScheduler ==
    /\ main = "scheduler"
    /\ main' = "startup"
    /\ AddTask("scheduler")
    /\ Log
    /\ UNCHANGED <<startUnchanged, log, flags>>

\* A startup command may quit, reload or log.
StartupCommands ==
    /\ main = "startup"
    /\ main' = "constructed"
    /\ LogOne
    /\ quitting' \in {quitting, TRUE}
    /\ reload' \in {reload, TRUE}
    /\ UNCHANGED <<startUnchanged, log, tasks, changed>>

Construct ==
    \/ Bootstrap \/ AddStdoutLog \/ AddSources \/ LoadSources \/ AddConfig
    \/ AddRealTimeLog \/ AddHistoricalLog \/ AddComponents \/ AddScheduler
    \/ StartupCommands

Constructing ==
    AtSources \union {"bootstrap", "stdoutLog", "config", "realTimeLog", "historicalLog",
                      "components", "scheduler", "startup"}

\* The application has tasks of its own.
AddUserTask ==
    /\ main = "constructed"
    /\ Len(tasks) < MaxTasks
    /\ AddTask("user")
    /\ LogTo({log, "stdoutLog"})
    /\ UNCHANGED <<startUnchanged, main, log, flags>>
-----------------------------------------------------------------------------
(***************************************************************************)
(* The signals: SIGINT sets the latch to quit, SIGHUP the one to reload,   *)
(* as soon as there are handlers for them.                                 *)
(***************************************************************************)
Signal ==
    /\ main \notin Constructing \ {"startup"}
    /\ \/ quitting' = TRUE /\ UNCHANGED reload
       \/ reload' = TRUE /\ UNCHANGED quitting
    /\ UNCHANGED <<main, log, tasks, running, stopped, bgVars, changed, queues, shutdowns>>
-----------------------------------------------------------------------------
(***************************************************************************)
(* run() and shutdown().                                                   *)
(***************************************************************************)
runUnchanged == <<mainUnchanged, log, tasks>>

\* run() reloads the configurables; if one fails it returns 1 at once.  An
\* application may also end without a call of run().
StartRun ==
    /\ main = "constructed"
    /\ changed' = FALSE
    /\ \/ main' = "set up" /\ Log
       \/ main' = "returned" /\ LogOne
    /\ UNCHANGED <<runUnchanged, quitting, reload, stopped, background>>

NoRun ==
    /\ main = "constructed"
    /\ main' = "returned"
    /\ UNCHANGED <<runUnchanged, flags, lines, stopped, background>>

\* The watchdog, unless its interval is zero, and the replayer with its sources.
SetUpRun ==
    /\ main = "set up"
    /\ main' = "top"
    /\ AddTask("watchdog") \/ UNCHANGED tasks
    /\ LogOne
    /\ UNCHANGED <<startUnchanged, log, flags>>

\* Mutant: do..while, which begins a cycle in a dry run and never ends one.
MutantTop ==
    /\ main = "top"
    /\ main' = "action"
    /\ UNCHANGED <<runUnchanged, flags, stopped, lines, background>>

Top ==
    /\ main = "top"
    /\ main' = IF quitting THEN "shutdown" ELSE "action"
    /\ IF quitting THEN LogOne ELSE UNCHANGED lines
    /\ UNCHANGED <<runUnchanged, flags, stopped, background>>

\* The main action may log, quit, and defer actions to either queue.  The replayer
\* quits at its end.
MainAction ==
    /\ main = "action"
    /\ main' = "deferred"
    /\ Log
    /\ MayDefer
    /\ quitting' \in {quitting, TRUE}
    /\ UNCHANGED <<runUnchanged, reload, changed, stopped>>

\* _foregroundActionQueue.execute() runs all that is in the queue.
RunForeground ==
    /\ main = "deferred"
    /\ main' = "commands"
    /\ foreground' = <<>>
    /\ Log
    /\ UNCHANGED <<running, bgVars, log, tasks, flags, stopped, background, shutdowns>>

\* The commands from the console, which only an application in real time has, may
\* quit or reload, and the cycle may be logged for its duration.
Commands ==
    /\ main = "commands"
    /\ main' = "top"
    /\ Log
    /\ \/ UNCHANGED <<quitting, reload>>
       \/ /\ log = "realTimeLog"
          /\ quitting' \in {quitting, TRUE}
          /\ reload' \in {reload, TRUE}
    /\ UNCHANGED <<runUnchanged, changed, stopped, background>>

\* Mutant: shuts down whenever it is asked to.
MutantIsShutdown == FALSE

IsShutdown == stopped

\* shutdown() at the end of run(), or from the destructor when run() returned
\* early: the shutdown commands may log or ask for a reload.
BeginShutdown ==
    /\ main \in {"shutdown", "returned"}
    /\ ~IsShutdown
    /\ main' = "actions"
    /\ Log
    /\ reload' \in {reload, TRUE}
    /\ UNCHANGED <<runUnchanged, quitting, changed, stopped, background>>

AlreadyShutDown ==
    /\ main = "returned"
    /\ IsShutdown
    /\ main' = "destroying"
    /\ UNCHANGED <<runUnchanged, flags, stopped, lines, background>>

ShutdownActions ==
    /\ main = "actions"
    /\ main' = "stopping"
    /\ shutdowns' = shutdowns + 1
    /\ LogOne
    /\ MayDefer
    /\ UNCHANGED <<running, bgVars, log, tasks, flags, stopped, foreground>>

\* Mutant: no join.
MutantStop ==
    /\ main = "stopping"
    /\ running' = FALSE
    /\ stopped' = TRUE
    /\ main' = "returned"
    /\ UNCHANGED <<bgVars, log, tasks, flags, queues, shutdowns>>

\* BackgroundThread::stop()
Stop ==
    /\ main = "stopping"
    /\ running' = FALSE
    /\ main' = "joining"
    /\ UNCHANGED <<bgVars, log, tasks, flags, queues, stopped, shutdowns>>

Join ==
    /\ main = "joining"
    /\ bg = "done"
    /\ stopped' = TRUE
    /\ main' = "returned"
    /\ UNCHANGED <<running, bgVars, log, tasks, flags, queues, shutdowns>>

\* The destructor of the background thread stops it again: _running is no longer
\* set, so there is nothing to join.
StopAgain ==
    /\ main = "destroying"
    /\ ~running
    /\ stopped' = TRUE
    /\ main' = "destroyed"
    /\ UNCHANGED <<running, bgVars, log, tasks, flags, queues, shutdowns>>

Run ==
    \/ StartRun \/ NoRun \/ SetUpRun \/ Top \/ MainAction \/ RunForeground \/ Commands
    \/ BeginShutdown \/ AlreadyShutDown \/ ShutdownActions
    \/ Stop \/ Join \/ StopAgain

Main == Construct \/ Run
-----------------------------------------------------------------------------
(***************************************************************************)
(* The background thread.                                                  *)
(***************************************************************************)
bgUnchanged == <<main, log, tasks, running, stopped, quitting, foreground, shutdowns>>

\* Mutant: `while (_running)`, without the break in the middle.
MutantWake ==
    /\ bg = "sleep"
    /\ bg' = IF running THEN "pass" ELSE "done"
    /\ next' = 1
    /\ dueLines' = lines
    /\ dueActions' = Len(background)
    /\ UNCHANGED <<bgUnchanged, loading, reload, changed, lines, background, strayed>>

Wake ==
    /\ bg = "sleep"
    /\ bg' = "pass"
    /\ next' = 1
    /\ dueLines' = lines
    /\ dueActions' = Len(background)
    /\ UNCHANGED <<bgUnchanged, loading, reload, changed, lines, background, strayed>>

\* The turn of a task of this kind.
Turn(kind) == bg = "pass" /\ next <= Len(tasks) /\ tasks[next] = kind

EndTurn == bg' = bg /\ next' = next + 1

LessOne(n) == IF n = 0 THEN 0 ELSE n - 1

\* The queue of background actions is run until it is empty.
RunAction ==
    /\ Turn("actions")
    /\ background # <<>>
    /\ background' = Tail(background)
    /\ dueActions' = LessOne(dueActions)
    /\ strayed' = (strayed \/ Head(background) = "foreground")
    /\ Log
    /\ UNCHANGED <<bgUnchanged, reload, changed, bg, next, loading, dueLines>>

EndActions ==
    /\ Turn("actions")
    /\ background = <<>>
    /\ EndTurn
    /\ UNCHANGED <<bgUnchanged, reload, changed, loading, lines, background, dueLines,
                   dueActions, strayed>>

\* Each log writes until its queue is empty.
WriteLine(l) ==
    /\ Turn(l)
    /\ lines[l] > 0
    /\ lines' = [lines EXCEPT ![l] = @ - 1]
    /\ dueLines' = [dueLines EXCEPT ![l] = LessOne(@)]
    /\ UNCHANGED <<bgUnchanged, reload, changed, bg, next, loading, background, dueActions,
                   strayed>>

EndLines(l) ==
    /\ Turn(l)
    /\ lines[l] = 0
    /\ EndTurn
    /\ UNCHANGED <<bgUnchanged, reload, changed, loading, lines, background, dueLines,
                   dueActions, strayed>>

\* "Don't reload unless asked"
SkipConfig ==
    /\ Turn("config") /\ ~loading
    /\ ~reload
    /\ EndTurn
    /\ UNCHANGED <<bgUnchanged, reload, changed, loading, lines, background, dueLines,
                   dueActions, strayed>>

LoadConfig ==
    /\ Turn("config") /\ ~loading
    /\ reload
    /\ reload' = FALSE
    /\ loading' = TRUE
    /\ UNCHANGED <<bgUnchanged, changed, bg, next, lines, background, dueLines, dueActions,
                   strayed>>

ConfigLoaded ==
    /\ Turn("config") /\ loading
    /\ loading' = FALSE
    /\ changed' = TRUE
    /\ EndTurn
    /\ Log
    /\ UNCHANGED <<bgUnchanged, reload, background, dueLines, dueActions, strayed>>

OtherTask ==
    /\ \E kind \in {"scheduler", "watchdog", "user"} : Turn(kind)
    /\ EndTurn
    /\ Log
    /\ UNCHANGED <<bgUnchanged, reload, changed, loading, background, dueLines, dueActions,
                   strayed>>

EndTasks ==
    /\ bg = "pass" /\ next > Len(tasks)
    /\ bg' = "passed"
    /\ UNCHANGED <<bgUnchanged, reload, changed, next, loading, lines, background, dueLines,
                   dueActions, strayed>>

\* "Break here to ensure that the last few lines of logs get written"
EndPass ==
    /\ bg = "passed"
    /\ bg' = IF running THEN "sleep" ELSE "done"
    /\ UNCHANGED <<bgUnchanged, reload, changed, next, loading, lines, background, dueLines,
                   dueActions, strayed>>

Background ==
    \/ Wake \/ RunAction \/ EndActions
    \/ \E l \in Logs : WriteLine(l) \/ EndLines(l)
    \/ SkipConfig \/ LoadConfig \/ ConfigLoaded \/ OtherTask \/ EndTasks \/ EndPass

Next == Signal \/ Main \/ AddUserTask \/ Background

\* Both threads keep running.  Signals come or do not come.
Spec == Init /\ [][Next]_vars /\ WF_vars(Main) /\ WF_vars(Background)
-----------------------------------------------------------------------------
Places ==
    Constructing \union
      {"constructed", "set up", "top", "action", "deferred", "commands", "shutdown",
       "actions", "stopping", "joining", "returned", "destroying", "destroyed"}

LatchesTyped ==
    /\ quitting \in BOOLEAN /\ running \in BOOLEAN /\ stopped \in BOOLEAN
    /\ reload \in BOOLEAN /\ changed \in BOOLEAN
    /\ loading \in BOOLEAN /\ strayed \in BOOLEAN

FlagsTyped ==
    /\ main \in Places
    /\ bg \in {"pass", "passed", "sleep", "done"}
    /\ LatchesTyped
    /\ shutdowns \in Nat

TasksTyped ==
    /\ tasks \in Seq(Kinds)
    /\ next \in 1 .. Len(tasks) + 1

LinesTyped ==
    /\ log \in Logs
    /\ lines \in [Logs -> 0 .. LogCapacity] /\ dueLines \in [Logs -> Nat]
    /\ \A l \in Logs : dueLines[l] <= lines[l]

QueuesTyped ==
    /\ foreground = <<>>
    /\ background \in Seq(Deferred) /\ Len(background) <= QueueCapacity
    /\ dueActions \in 0 .. Len(background)

TypeOK == FlagsTyped /\ TasksTyped /\ LinesTyped /\ QueuesTyped

(***************************************************************************)
(* FinalPass: after every sleep there is one more pass, also when the      *)
(* thread was stopped in its sleep.  When the thread ends, each line in    *)
(* each log that the constructor has made, and each action, that was       *)
(* queued when its last pass began has been dealt with.                    *)
(***************************************************************************)
FinalPass == bg = "done" => (\A l \in Logs : dueLines[l] = 0) /\ dueActions = 0

(***************************************************************************)
(* OneLoader: "Finally, with all files loaded, start reloading in the      *)
(* background" -- the background thread never reads the sources of the     *)
(* config while the main thread fills or reads them.                       *)
(***************************************************************************)
OneLoader == ~(loading /\ main \in AtSources)

(***************************************************************************)
(* NoTaskAfterShutdown: once the context counts as shut down, the          *)
(* background thread executes no task, so what the tasks use may be        *)
(* destroyed.                                                              *)
(***************************************************************************)
NoTaskAfterShutdown == stopped \/ main = "destroyed" => bg = "done"

(***************************************************************************)
(* ShutdownOnce: "Don't shut down twice" -- whether run() ends, or gives   *)
(* up, or was told to quit before it began, or was never called, the       *)
(* shutdown actions have been run exactly once when the context is gone.   *)
(***************************************************************************)
ShutdownOnce ==
    /\ shutdowns <= 1
    /\ main \in {"destroying", "destroyed"} => shutdowns = 1

(***************************************************************************)
(* ShutdownCompletes: a context that was told to quit is gone some time    *)
(* later, however much it logs and defers until then.                      *)
(***************************************************************************)
ShutdownCompletes == quitting ~> main = "destroyed"

(***************************************************************************)
(* LastLinesWritten: the comment in the loop of the background thread says *)
(* that the place of its break ensures "that the last few lines of logs    *)
(* get written".  A line that is queued after the log has had its turn in  *)
(* the pass that ends with the break stays in the queue.                   *)
(***************************************************************************)
LastLinesWritten == bg = "done" => \A l \in Logs : lines[l] = 0

(***************************************************************************)
(* ForegroundOnMain: the main loop "executes any deferred `Action`s in the *)
(* foreground queue".  foregroundActionQueue() returns the other queue.    *)
(***************************************************************************)
ForegroundOnMain == ~strayed

(***************************************************************************)
(* ReloadPropagates: the configuration can "propagate updates to a set of  *)
(* `Configurable` objects".  The main loop only does it before it begins.  *)
(***************************************************************************)
ReloadPropagates == changed /\ ~quitting ~> ~changed \/ quitting

(***************************************************************************)
(* PassesEnd: actions of the background thread "must return as all         *)
(* multitasking is cooperative".  The log does not while lines keep coming.*)
(***************************************************************************)
PassesEnd == bg = "pass" ~> bg # "pass"
=============================================================================
