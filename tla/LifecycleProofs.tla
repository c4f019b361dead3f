--------------------------- MODULE LifecycleProofs ---------------------------
(***************************************************************************)
(* What the start and the shutdown of a context guarantee for queues of    *)
(* every capacity and any number of tasks of the application, and its      *)
(* registries for any logs, libraries and identifiers.                     *)
(***************************************************************************)
EXTENDS Lifecycle, Registries, DataLemmas, FiniteSetTheorems, TLAPS

\* What lines may be added to: no log, the current one, or some of a set.
Grows(used) == lines' = lines \/ LogOne \/ LogTo(used)

\* Logs only grow, up to their capacity, and those that are not used do not.
LEMMA LogGrows ==
    ASSUME LinesTyped, NEW used \in SUBSET Logs, Grows(used)
    PROVE  /\ lines' \in [Logs -> 0 .. LogCapacity]
           /\ \A l \in Logs : lines'[l] >= lines[l]
           /\ \A l \in Logs : l \notin used \union {log} => lines'[l] = lines[l]
<1>1. \A n \in 0 .. LogCapacity : OneMore(n) \in 0 .. LogCapacity /\ OneMore(n) >= n
  BY ConstantsAssumption DEF OneMore
<1>2. lines \in [Logs -> 0 .. LogCapacity] /\ log \in Logs
  BY DEF LinesTyped
<1>3. \A l \in Logs : lines[l] \in 0 .. LogCapacity /\ lines[l] >= lines[l]
  BY <1>2
<1>4. CASE lines' = lines
  BY <1>2, <1>3, <1>4
<1>5. CASE LogOne
  BY <1>1, <1>2, <1>3, <1>5 DEF LogOne
<1>6. CASE LogTo(used)
  <2> PICK given \in SUBSET used :
        lines' = [l \in Logs |-> IF l \in given THEN OneMore(lines[l]) ELSE lines[l]]
    BY <1>6 DEF LogTo
  <2> QED
    BY <1>1, <1>2, <1>3
<1> QED
  BY <1>4, <1>5, <1>6 DEF Grows

\* A deferred action leaves the queue a bounded sequence that is no shorter.
LEMMA DeferTyped ==
    ASSUME QueuesTyped, MayDefer
    PROVE  /\ background' \in Seq(Deferred)
           /\ Len(background') <= QueueCapacity
           /\ Len(background') >= Len(background)
<1>0. /\ background \in Seq(Deferred) /\ Len(background) \in Nat
      /\ Len(background) <= QueueCapacity
  BY DEF QueuesTyped
<1>1. CASE \E a \in Deferred : Defer(a)
  <2> PICK a \in Deferred : Defer(a)
    BY <1>1
  <2>1. background' = Push(background, a)
    BY DEF Defer
  <2>2. CASE Len(background) < QueueCapacity
    <3>1. background' = Append(background, a)
      BY <2>1, <2>2 DEF Push
    <3>2. Append(background, a) \in Seq(Deferred)
             /\ Len(Append(background, a)) = Len(background) + 1
      BY <1>0
    <3> QED
      BY <3>1, <3>2, <1>0, <2>2, ConstantsAssumption
  <2>3. CASE ~(Len(background) < QueueCapacity)
    BY <1>0, <2>1, <2>3, ConstantsAssumption DEF Push
  <2> QED
    BY <2>2, <2>3
<1>2. CASE background' = background
  BY <1>0, <1>2
<1> QED
  BY <1>1, <1>2 DEF MayDefer

\* A task is added at the end: the others keep their places.
LEMMA TasksGrow ==
    ASSUME TasksTyped, tasks' = tasks \/ \E kind \in Kinds : AddTask(kind)
    PROVE  /\ tasks' \in Seq(Kinds)
           /\ Len(tasks) \in Nat /\ Len(tasks') \in Nat /\ Len(tasks') >= Len(tasks)
           /\ \A i \in 1 .. Len(tasks) : tasks'[i] = tasks[i]
<1>1. tasks \in Seq(Kinds)
  BY DEF TasksTyped
<1>2. CASE tasks' = tasks
  BY <1>1, <1>2
<1>3. CASE \E kind \in Kinds : AddTask(kind)
  <2> PICK kind \in Kinds : tasks' = Append(tasks, kind)
    BY <1>3 DEF AddTask
  <2> QED
    BY <1>1, AppendFacts
<1> QED
  BY <1>2, <1>3
-----------------------------------------------------------------------------
\* All steps but those of the background thread.
Other == Signal \/ Main \/ AddUserTask \/ UNCHANGED vars

\* What they have in common.
LEMMA OtherSteps ==
    ASSUME LinesTyped, Other
    PROVE  /\ UNCHANGED bgVars
           /\ tasks' = tasks \/ \E kind \in Kinds : AddTask(kind)
           /\ Grows(Logs)
           /\ MayDefer
<1> USE DEF MayDefer, Grows, mainUnchanged, startUnchanged, runUnchanged
<1>1. Log => LogTo(Logs)
  BY DEF Log, LogTo, LinesTyped
<1>2. \A used \in SUBSET Logs : LogTo(used) => LogTo(Logs)
  BY DEF LogTo
<1>3. \A kind \in {"actions", "stdoutLog", "config", "realTimeLog", "historicalLog",
                   "scheduler", "watchdog", "user"} : kind \in Kinds
  BY DEF Kinds, Logs
<1>4. CASE Signal
  BY <1>4 DEF Signal, queues
<1>5. CASE UNCHANGED vars
  BY <1>5 DEF vars, queues
<1>6. CASE Bootstrap \/ AddStdoutLog \/ AddConfig
  BY <1>3, <1>6 DEF Bootstrap, AddStdoutLog, AddConfig
<1>7. CASE AddSources \/ LoadSources \/ StartupCommands
  BY <1>1, <1>7 DEF AddSources, LoadSources, StartupCommands
<1>8. CASE AddScheduler \/ SetUpRun
  BY <1>1, <1>3, <1>8 DEF AddScheduler, SetUpRun
<1>9. CASE AddRealTimeLog \/ AddHistoricalLog \/ AddComponents \/ AddUserTask
  <2>1. {"stdoutLog", "realTimeLog"} \in SUBSET Logs
           /\ {"stdoutLog", "historicalLog"} \in SUBSET Logs
           /\ {log, "stdoutLog", "realTimeLog"} \in SUBSET Logs
           /\ {log, "stdoutLog"} \in SUBSET Logs
    BY DEF Logs, LinesTyped
  <2>2. LogTo(Logs)
    BY <1>2, <1>9, <2>1 DEF AddRealTimeLog, AddHistoricalLog, AddComponents, AddUserTask
  <2> QED
    BY <1>3, <1>9, <2>2 DEF AddRealTimeLog, AddHistoricalLog, AddComponents, AddUserTask
<1>10. CASE StartRun \/ NoRun \/ Top \/ MainAction
  BY <1>1, <1>10 DEF StartRun, NoRun, Top, MainAction
<1>11. CASE RunForeground \/ Commands \/ BeginShutdown \/ AlreadyShutDown \/ ShutdownActions
  BY <1>1, <1>11 DEF RunForeground, Commands, BeginShutdown, AlreadyShutDown, ShutdownActions
<1>12. CASE Stop \/ Join \/ StopAgain
  BY <1>12 DEF Stop, Join, StopAgain, queues
<1> QED
  BY <1>4, <1>5, <1>6, <1>7, <1>8, <1>9, <1>10, <1>11, <1>12 DEF Other, Main, Construct, Run

\* The main thread goes from place to place.
LEMMA PlacesNamed ==
    /\ {"bootstrap", "stdoutLog", "primary", "load primary", "all", "load all", "config",
        "realTimeLog", "historicalLog", "components", "scheduler", "startup"} \subseteq Places
    /\ {"constructed", "set up", "top", "action", "deferred", "commands"} \subseteq Places
    /\ {"shutdown", "actions", "stopping", "joining", "returned", "destroying", "destroyed"}
         \subseteq Places
BY DEF Places, Constructing, AtSources

LEMMA PlaceKept ==
    ASSUME main \in Places, Other
    PROVE  main' \in Places
<1>1. CASE Signal \/ UNCHANGED vars \/ AddUserTask
  <2>1. main' = main
    BY <1>1 DEF Signal, vars, AddUserTask, startUnchanged
  <2> QED
    BY <2>1
<1>2. CASE Bootstrap \/ AddStdoutLog
  BY <1>2, PlacesNamed DEF Bootstrap, AddStdoutLog
<1>3. CASE AddSources
  BY <1>3, PlacesNamed DEF AddSources
<1>4. CASE LoadSources
  BY <1>4, PlacesNamed DEF LoadSources
<1>5. CASE AddConfig \/ AddRealTimeLog
  BY <1>5, PlacesNamed DEF AddConfig, AddRealTimeLog
<1>6. CASE AddHistoricalLog \/ AddComponents
  BY <1>6, PlacesNamed DEF AddHistoricalLog, AddComponents
<1>7. CASE AddScheduler \/ StartupCommands
  BY <1>7, PlacesNamed DEF AddScheduler, StartupCommands
<1>8. CASE StartRun \/ NoRun
  BY <1>8, PlacesNamed DEF StartRun, NoRun
<1>9. CASE SetUpRun \/ Top
  BY <1>9, PlacesNamed DEF SetUpRun, Top
<1>10. CASE MainAction \/ RunForeground \/ Commands
  BY <1>10, PlacesNamed DEF MainAction, RunForeground, Commands
<1>11. CASE BeginShutdown \/ AlreadyShutDown \/ ShutdownActions
  BY <1>11, PlacesNamed DEF BeginShutdown, AlreadyShutDown, ShutdownActions
<1>12. CASE Stop \/ Join \/ StopAgain
  BY <1>12, PlacesNamed DEF Stop, Join, StopAgain
<1> QED
  BY <1>1, <1>2, <1>3, <1>4, <1>5, <1>6, <1>7, <1>8, <1>9, <1>10, <1>11, <1>12
     DEF Other, Main, Construct, Run

\* A latch is set, reset or left alone.
LEMMA LatchesKept ==
    ASSUME LatchesTyped, LinesTyped, Other
    PROVE  LatchesTyped'
<1>1. UNCHANGED <<loading, strayed>>
  BY OtherSteps DEF bgVars
<1> USE <1>1 DEF LatchesTyped, flags
<1>2. CASE Signal \/ UNCHANGED vars
  BY <1>2 DEF Signal, vars
<1>3. CASE Bootstrap \/ AddStdoutLog \/ AddConfig
  BY <1>3 DEF Bootstrap, AddStdoutLog, AddConfig, startUnchanged, mainUnchanged
<1>4. CASE AddSources
  BY <1>4 DEF AddSources, startUnchanged, mainUnchanged
<1>5. CASE LoadSources
  BY <1>5 DEF LoadSources, startUnchanged, mainUnchanged
<1>6. CASE AddRealTimeLog \/ AddHistoricalLog \/ AddScheduler
  BY <1>6 DEF AddRealTimeLog, AddHistoricalLog, AddScheduler, startUnchanged, mainUnchanged
<1>7. CASE AddComponents
  BY <1>7 DEF AddComponents, startUnchanged, mainUnchanged
<1>8. CASE StartupCommands
  BY <1>8 DEF StartupCommands, startUnchanged, mainUnchanged
<1>9. CASE AddUserTask \/ SetUpRun
  BY <1>9 DEF AddUserTask, SetUpRun, startUnchanged, mainUnchanged
<1>10. CASE StartRun \/ NoRun
  BY <1>10 DEF StartRun, NoRun, runUnchanged, mainUnchanged
<1>11. CASE Top \/ AlreadyShutDown
  BY <1>11 DEF Top, AlreadyShutDown, runUnchanged, mainUnchanged
<1>12. CASE MainAction
  BY <1>12 DEF MainAction, runUnchanged, mainUnchanged
<1>13. CASE RunForeground
  BY <1>13 DEF RunForeground
<1>14. CASE Commands
  BY <1>14 DEF Commands, runUnchanged, mainUnchanged
<1>15. CASE BeginShutdown
  BY <1>15 DEF BeginShutdown, runUnchanged, mainUnchanged
<1>16. CASE ShutdownActions
  BY <1>16 DEF ShutdownActions
<1>17. CASE Stop \/ Join \/ StopAgain
  BY <1>17 DEF Stop, Join, StopAgain
<1> QED
  BY <1>2, <1>3, <1>4, <1>5, <1>6, <1>7, <1>8, <1>9, <1>10, <1>11, <1>12, <1>13, <1>14, <1>15,
     <1>16, <1>17 DEF Other, Main, Construct, Run

\* The log is one of the logs, what is in the foreground is gone, and the shutdowns
\* are counted.
LEMMA RestKept ==
    ASSUME log \in Logs, foreground = <<>>, shutdowns \in Nat, Other
    PROVE  log' \in Logs /\ foreground' = <<>> /\ shutdowns' \in Nat
<1> USE DEF queues
<1>1. CASE AddRealTimeLog
  BY <1>1 DEF AddRealTimeLog, Logs, startUnchanged, mainUnchanged
<1>2. CASE AddHistoricalLog
  BY <1>2 DEF AddHistoricalLog, Logs, startUnchanged, mainUnchanged
<1>3. CASE Signal \/ UNCHANGED vars
  BY <1>3 DEF Signal, vars
<1>4. CASE Bootstrap \/ AddStdoutLog \/ AddSources \/ LoadSources
  BY <1>4 DEF Bootstrap, AddStdoutLog, AddSources, LoadSources, startUnchanged, mainUnchanged
<1>5. CASE AddConfig \/ AddComponents \/ AddScheduler
  BY <1>5 DEF AddConfig, AddComponents, AddScheduler, startUnchanged, mainUnchanged
<1>6. CASE StartupCommands \/ AddUserTask \/ SetUpRun
  BY <1>6 DEF StartupCommands, AddUserTask, SetUpRun, startUnchanged, mainUnchanged
<1>7. CASE StartRun \/ NoRun \/ Top
  BY <1>7 DEF StartRun, NoRun, Top, runUnchanged, mainUnchanged
<1>8. CASE MainAction \/ RunForeground \/ Commands
  BY <1>8 DEF MainAction, RunForeground, Commands, runUnchanged, mainUnchanged
<1>9. CASE BeginShutdown \/ AlreadyShutDown
  BY <1>9 DEF BeginShutdown, AlreadyShutDown, runUnchanged, mainUnchanged
<1>10. CASE ShutdownActions
  BY <1>10 DEF ShutdownActions
<1>11. CASE Stop \/ Join \/ StopAgain
  BY <1>11 DEF Stop, Join, StopAgain
<1> QED
  BY <1>1, <1>2, <1>3, <1>4, <1>5, <1>6, <1>7, <1>8, <1>9, <1>10, <1>11
     DEF Other, Main, Construct, Run

LEMMA FlagsKept ==
    ASSUME FlagsTyped, LinesTyped, QueuesTyped, Other
    PROVE  FlagsTyped' /\ log' \in Logs /\ foreground' = <<>>
<1>1. bg' = bg
  BY OtherSteps DEF bgVars
<1>2. log \in Logs /\ foreground = <<>>
  BY DEF LinesTyped, QueuesTyped
<1> QED
  BY <1>1, <1>2, PlaceKept, LatchesKept, RestKept DEF FlagsTyped

\* The lines keep their types as long as no line is taken out.
LEMMA LinesKept ==
    ASSUME LinesTyped, Grows(Logs), UNCHANGED dueLines, log' \in Logs
    PROVE  LinesTyped'
<1>1. lines' \in [Logs -> 0 .. LogCapacity] /\ \A l \in Logs : lines'[l] >= lines[l]
  BY LogGrows
<1>2. \A l \in Logs : dueLines[l] <= lines[l] /\ dueLines[l] \in Nat /\ lines[l] \in Nat
                         /\ lines'[l] \in Nat
  BY <1>1, ConstantsAssumption DEF LinesTyped
<1>3. \A l \in Logs : dueLines'[l] <= lines'[l]
  BY <1>1, <1>2
<1> QED
  BY <1>1, <1>3 DEF LinesTyped

\* The other steps keep the types.
LEMMA OtherTyped ==
    ASSUME TypeOK, Other
    PROVE  TypeOK'
<1>1. FlagsTyped /\ TasksTyped /\ LinesTyped /\ QueuesTyped
  BY DEF TypeOK
<1>2. /\ UNCHANGED <<next, dueLines, dueActions>>
      /\ tasks' = tasks \/ \E kind \in Kinds : AddTask(kind)
      /\ Grows(Logs)
      /\ MayDefer
  BY <1>1, OtherSteps DEF bgVars
<1>3. FlagsTyped' /\ log' \in Logs /\ foreground' = <<>>
  BY <1>1, FlagsKept
<1>4. LinesTyped'
  BY <1>1, <1>2, <1>3, LinesKept
<1>5. QueuesTyped'
  <2>1. /\ background' \in Seq(Deferred) /\ Len(background') <= QueueCapacity
        /\ Len(background') >= Len(background)
    BY <1>1, <1>2, DeferTyped
  <2>2. dueActions' \in 0 .. Len(background')
    BY <1>1, <1>2, <2>1 DEF QueuesTyped
  <2> QED
    BY <1>3, <2>1, <2>2 DEF QueuesTyped
<1>6. TasksTyped'
  <2>1. tasks' \in Seq(Kinds) /\ Len(tasks') >= Len(tasks) /\ Len(tasks') \in Nat
    BY <1>1, <1>2, TasksGrow
  <2>2. next' \in 1 .. Len(tasks') + 1
    BY <1>1, <1>2, <2>1 DEF TasksTyped
  <2> QED
    BY <2>1, <2>2 DEF TasksTyped
<1> QED
  BY <1>3, <1>4, <1>5, <1>6 DEF TypeOK

\* A task that has its turn is one of the tasks, so the next is at most one past them.
LEMMA TurnTyped ==
    ASSUME TasksTyped, NEW kind, Turn(kind)
    PROVE  next \in 1 .. Len(tasks) /\ next + 1 \in 1 .. Len(tasks) + 1
BY DEF TasksTyped, Turn

\* The steps of the background thread keep the types.
LEMMA BackgroundTyped ==
    ASSUME TypeOK, Background
    PROVE  TypeOK'
<1> USE DEF bgUnchanged
<1>0. FlagsTyped /\ TasksTyped /\ LinesTyped /\ QueuesTyped
  BY DEF TypeOK
<1>1. FlagsTyped'
  <2>0. LatchesTyped /\ bg \in {"pass", "passed", "sleep", "done"}
    BY <1>0 DEF FlagsTyped
  <2>1. UNCHANGED <<main, shutdowns, quitting, running, stopped>>
    <3>1. CASE Wake \/ EndTasks \/ EndPass \/ RunAction \/ EndActions
      BY <3>1 DEF Wake, EndTasks, EndPass, RunAction, EndActions
    <3>2. ASSUME NEW l \in Logs, WriteLine(l) \/ EndLines(l)
          PROVE  UNCHANGED <<main, shutdowns, quitting, running, stopped>>
      BY <3>2 DEF WriteLine, EndLines
    <3>3. CASE SkipConfig \/ LoadConfig \/ ConfigLoaded \/ OtherTask
      BY <3>3 DEF SkipConfig, LoadConfig, ConfigLoaded, OtherTask
    <3> QED
      BY <3>1, <3>2, <3>3 DEF Background
  <2>2. bg' \in {bg, "pass", "passed", "sleep", "done"}
    <3>1. CASE Wake \/ EndTasks \/ EndPass \/ RunAction \/ EndActions
      BY <3>1 DEF Wake, EndTasks, EndPass, RunAction, EndActions, EndTurn
    <3>2. ASSUME NEW l \in Logs, WriteLine(l) \/ EndLines(l)
          PROVE  bg' = bg
      BY <3>2 DEF WriteLine, EndLines, EndTurn
    <3>3. CASE SkipConfig \/ LoadConfig \/ ConfigLoaded \/ OtherTask
      BY <3>3 DEF SkipConfig, LoadConfig, ConfigLoaded, OtherTask, EndTurn
    <3> QED
      BY <3>1, <3>2, <3>3 DEF Background
  <2>3. reload' \in {reload, FALSE} /\ changed' \in {changed, TRUE}
    <3>1. CASE Wake \/ EndTasks \/ EndPass \/ RunAction \/ EndActions
      BY <3>1 DEF Wake, EndTasks, EndPass, RunAction, EndActions
    <3>2. ASSUME NEW l \in Logs, WriteLine(l) \/ EndLines(l)
          PROVE  UNCHANGED <<reload, changed>>
      BY <3>2 DEF WriteLine, EndLines
    <3>3. CASE SkipConfig \/ LoadConfig \/ ConfigLoaded \/ OtherTask
      BY <3>3 DEF SkipConfig, LoadConfig, ConfigLoaded, OtherTask
    <3> QED
      BY <3>1, <3>2, <3>3 DEF Background
  <2>4. loading' \in {loading, TRUE, FALSE} /\ (strayed' = strayed \/ strayed' \in BOOLEAN)
    <3>1. CASE Wake \/ EndTasks \/ EndPass \/ EndActions
      BY <3>1 DEF Wake, EndTasks, EndPass, EndActions
    <3>2. CASE RunAction
      BY <3>2 DEF RunAction
    <3>3. ASSUME NEW l \in Logs, WriteLine(l) \/ EndLines(l)
          PROVE  UNCHANGED <<loading, strayed>>
      BY <3>3 DEF WriteLine, EndLines
    <3>4. CASE SkipConfig \/ LoadConfig \/ ConfigLoaded \/ OtherTask
      BY <3>4 DEF SkipConfig, LoadConfig, ConfigLoaded, OtherTask
    <3> QED
      BY <3>1, <3>2, <3>3, <3>4 DEF Background
  <2>5. LatchesTyped'
    BY <2>0, <2>1, <2>3, <2>4 DEF LatchesTyped
  <2>6. bg' \in {"pass", "passed", "sleep", "done"}
    BY <2>0, <2>2
  <2> QED
    BY <1>0, <2>1, <2>5, <2>6 DEF FlagsTyped
<1>2. TasksTyped'
  <2>1. /\ tasks' = tasks
        /\ \/ next' \in {1, next}
           \/ next <= Len(tasks) /\ next' = next + 1
    <3> USE DEF EndTurn, Turn
    <3>1. CASE Wake \/ EndTasks \/ EndPass
      BY <3>1 DEF Wake, EndTasks, EndPass
    <3>2. CASE RunAction \/ EndActions
      BY <3>2 DEF RunAction, EndActions
    <3>3. ASSUME NEW l \in Logs, WriteLine(l) \/ EndLines(l)
          PROVE  /\ tasks' = tasks
                 /\ \/ next' \in {1, next}
                    \/ next <= Len(tasks) /\ next' = next + 1
      BY <3>3 DEF WriteLine, EndLines
    <3>4. CASE SkipConfig \/ LoadConfig \/ ConfigLoaded \/ OtherTask
      BY <3>4 DEF SkipConfig, LoadConfig, ConfigLoaded, OtherTask
    <3> QED
      BY <3>1, <3>2, <3>3, <3>4 DEF Background
  <2>2. tasks \in Seq(Kinds) /\ Len(tasks) \in Nat /\ next \in 1 .. Len(tasks) + 1
    BY <1>0 DEF TasksTyped
  <2>3. next' \in 1 .. Len(tasks) + 1
    BY <1>0, <2>1, <2>2, TurnTyped
  <2> QED
    BY <2>1, <2>2, <2>3 DEF TasksTyped
<1>3. LinesTyped'
  <2>1. CASE Wake
    <3>1. \A l \in Logs : lines[l] \in Nat /\ lines[l] <= lines[l]
      BY <1>0, ConstantsAssumption DEF LinesTyped
    <3> QED
      BY <1>0, <2>1, <3>1 DEF LinesTyped, Wake
  <2>2. ASSUME NEW l \in Logs, WriteLine(l) PROVE LinesTyped'
    <3>1. /\ lines[l] \in 0 .. LogCapacity /\ lines[l] > 0
          /\ dueLines[l] \in Nat /\ dueLines[l] <= lines[l]
      BY <1>0, <2>2 DEF LinesTyped, WriteLine
    <3>2. /\ lines[l] - 1 \in 0 .. LogCapacity
          /\ LessOne(dueLines[l]) \in Nat /\ LessOne(dueLines[l]) <= lines[l] - 1
      BY <3>1, ConstantsAssumption DEF LessOne
    <3>3. /\ lines' = [lines EXCEPT ![l] = lines[l] - 1]
          /\ dueLines' = [dueLines EXCEPT ![l] = LessOne(dueLines[l])]
          /\ log' = log
      BY <2>2 DEF WriteLine
    <3> QED
      BY <1>0, <3>2, <3>3 DEF LinesTyped
  <2>3. CASE UNCHANGED <<lines, dueLines, log>>
    BY <1>0, <2>3 DEF LinesTyped
  <2>4. CASE Grows(Logs) /\ UNCHANGED <<dueLines, log>>
    <3>1. log' \in Logs
      BY <1>0, <2>4 DEF LinesTyped
    <3> QED
      BY <1>0, <2>4, <3>1, LinesKept
  <2>5. Log => Grows(Logs)
    BY <1>0 DEF Log, LogTo, Grows, LinesTyped
  <2> QED
    BY <2>1, <2>2, <2>3, <2>4, <2>5 DEF Background, RunAction, EndActions,
       EndLines, SkipConfig, LoadConfig, ConfigLoaded, OtherTask, EndTasks, EndPass
<1>4. QueuesTyped'
  <2>0. /\ background \in Seq(Deferred) /\ Len(background) \in Nat
        /\ foreground = <<>> /\ dueActions \in 0 .. Len(background)
        /\ Len(background) <= QueueCapacity
    BY <1>0 DEF QueuesTyped
  <2>1. CASE Wake
    BY <2>0, <2>1 DEF QueuesTyped, Wake
  <2>2. CASE RunAction
    <3>1. background # <<>> /\ background' = Tail(background)
             /\ dueActions' = LessOne(dueActions) /\ foreground' = foreground
      BY <2>2 DEF RunAction
    <3>2. /\ Tail(background) \in Seq(Deferred) /\ Len(background) \in Nat \ {0}
          /\ Len(Tail(background)) = Len(background) - 1
      BY <2>0, <3>1, TailFacts
    <3>3. dueActions' \in 0 .. Len(background) - 1
      BY <2>0, <3>1, <3>2 DEF LessOne
    <3> QED
      BY <2>0, <3>1, <3>2, <3>3, ConstantsAssumption DEF QueuesTyped
  <2>3. CASE UNCHANGED <<foreground, background, dueActions>>
    BY <2>0, <2>3 DEF QueuesTyped
  <2> QED
    BY <2>1, <2>2, <2>3 DEF Background, EndActions, WriteLine,
       EndLines, SkipConfig, LoadConfig, ConfigLoaded, OtherTask, EndTasks, EndPass
<1> QED
  BY <1>1, <1>2, <1>3, <1>4 DEF TypeOK

LEMMA TypedStep ==
    ASSUME TypeOK, [Next]_vars
    PROVE  TypeOK'
BY OtherTyped, BackgroundTyped DEF Next, Other

\* TypeOK: the program counters, latches, tasks and queues keep their types, the
\* queues their capacity, and what is due is part of what is queued.
THEOREM TypeCorrect == Spec => []TypeOK
<1>1. Init => TypeOK
  <2> SUFFICES ASSUME Init PROVE TypeOK
    OBVIOUS
  <2>1. <<>> \in Seq(Deferred) /\ <<>> \in Seq(Kinds) /\ Len(<<>>) = 0
    OBVIOUS
  <2>2. FlagsTyped
    BY PlacesNamed DEF Init, FlagsTyped, LatchesTyped
  <2>3. TasksTyped
    BY <2>1 DEF Init, TasksTyped
  <2>4. LinesTyped
    BY ConstantsAssumption DEF Init, LinesTyped, Logs
  <2>5. QueuesTyped
    BY <2>1, ConstantsAssumption DEF Init, QueuesTyped
  <2> QED
    BY <2>2, <2>3, <2>4, <2>5 DEF TypeOK
<1>2. TypeOK /\ [Next]_vars => TypeOK'
  BY TypedStep
<1> QED
  BY <1>1, <1>2, PTL DEF Spec
-----------------------------------------------------------------------------
(***************************************************************************)
(* How far the constructor is, told by the place of the main thread: what  *)
(* is used is a task by then, and what is not complete is none yet.        *)
(***************************************************************************)
HasTask(kind) == \E i \in 1 .. Len(tasks) : tasks[i] = kind

BeforeLog == {"bootstrap", "stdoutLog"}
BeforeConfig == BeforeLog \union AtSources \union {"config"}

OnlyActions == background = <<>> /\ \A i \in 1 .. Len(tasks) : tasks[i] = "actions"

StartInv ==
    /\ main # "bootstrap" => HasTask("actions")
    /\ main \in BeforeLog => log = "stdoutLog" /\ OnlyActions
    /\ main \notin BeforeLog => HasTask("stdoutLog") /\ HasTask(log)
    /\ main \in {"historicalLog", "components"} => HasTask("realTimeLog")
    /\ main \in BeforeConfig => ~HasTask("config")
    /\ loading => main \notin BeforeConfig
    /\ \A l \in Logs : lines[l] > 0 => HasTask(l)

\* A step adds its task, if it has one, and no other.
LEMMA TaskAdded ==
    ASSUME TasksTyped, NEW kind \in Kinds, AddTask(kind)
    PROVE  /\ HasTask(kind)'
           /\ \A k : HasTask(k) => HasTask(k)'
           /\ \A k : HasTask(k)' => HasTask(k) \/ k = kind
           /\ \A i \in 1 .. Len(tasks') : i \in 1 .. Len(tasks) \/ tasks'[i] = kind
           /\ \A i \in 1 .. Len(tasks) : tasks'[i] = tasks[i]
<1>1. tasks \in Seq(Kinds) /\ tasks' = Append(tasks, kind)
  BY DEF TasksTyped, AddTask
<1>2. /\ Len(tasks) \in Nat /\ Len(tasks') = Len(tasks) + 1
      /\ \A i \in 1 .. Len(tasks) : tasks'[i] = tasks[i]
      /\ tasks'[Len(tasks) + 1] = kind
  BY <1>1, SeqFacts, AppendFacts
<1>3. \A i \in 1 .. Len(tasks') : i \in 1 .. Len(tasks) \/ i = Len(tasks) + 1
  BY <1>2
<1>4. /\ \A i \in 1 .. Len(tasks) : i \in 1 .. Len(tasks')
      /\ Len(tasks) + 1 \in 1 .. Len(tasks')
  BY <1>2
<1> QED
  BY <1>2, <1>3, <1>4 DEF HasTask

LEMMA TasksKept ==
    ASSUME tasks' = tasks
    PROVE  \A k : HasTask(k)' <=> HasTask(k)
BY DEF HasTask

\* Lines are only in logs that are tasks.
LEMMA LinesHaveTask ==
    ASSUME LinesTyped, StartInv, NEW used \in SUBSET Logs, Grows(used),
           \A k : HasTask(k) => HasTask(k)',
           lines' # lines => \A l \in used \union {log} : HasTask(l)'
    PROVE  \A l \in Logs : lines'[l] > 0 => HasTask(l)'
<1> SUFFICES ASSUME NEW l \in Logs, lines'[l] > 0 PROVE HasTask(l)'
  OBVIOUS
<1>1. CASE lines' # lines /\ l \in used \union {log}
  BY <1>1
<1>2. CASE lines' = lines \/ l \notin used \union {log}
  <2>1. lines'[l] = lines[l]
    BY <1>2, LogGrows
  <2> QED
    BY <2>1 DEF StartInv
<1> QED
  BY <1>1, <1>2

LEMMA StartHolds == Init => StartInv
<1> SUFFICES ASSUME Init PROVE StartInv
  OBVIOUS
<1>1. tasks = <<>> /\ Len(tasks) = 0 /\ main = "bootstrap" /\ background = <<>> /\ ~loading
  BY DEF Init
<1>2. \A k : ~HasTask(k)
  BY <1>1 DEF HasTask
<1>3. \A l \in Logs : ~(lines[l] > 0)
  BY DEF Init
<1>4. log = "stdoutLog" /\ OnlyActions
  BY <1>1 DEF Init, OnlyActions
<1> QED
  BY <1>1, <1>2, <1>3, <1>4 DEF StartInv, BeforeLog

\* The background thread logs only where there is a log, and begins to load the
\* config only when that is a task.
LEMMA StartInBackground ==
    ASSUME TypeOK, StartInv, Background
    PROVE  StartInv'
<1> USE DEF bgUnchanged
<1>1. UNCHANGED <<main, log, tasks>>
  <2>1. CASE Wake \/ RunAction \/ EndActions \/ EndTasks \/ EndPass
    BY <2>1 DEF Wake, RunAction, EndActions, EndTasks, EndPass
  <2>2. ASSUME NEW l \in Logs, WriteLine(l) \/ EndLines(l) PROVE UNCHANGED <<main, log, tasks>>
    BY <2>2 DEF WriteLine, EndLines
  <2>3. CASE SkipConfig \/ LoadConfig \/ ConfigLoaded \/ OtherTask
    BY <2>3 DEF SkipConfig, LoadConfig, ConfigLoaded, OtherTask
  <2> QED
    BY <2>1, <2>2, <2>3 DEF Background
<1>2. \A k : HasTask(k)' <=> HasTask(k)
  BY <1>1, TasksKept
<1>3. \A k : Turn(k) => HasTask(k)
  BY TurnTyped DEF TypeOK, HasTask, Turn
<1>4. main \in BeforeLog => ~RunAction /\ ~LoadConfig /\ ~ConfigLoaded /\ ~OtherTask
  <2> SUFFICES ASSUME main \in BeforeLog
               PROVE  ~RunAction /\ ~LoadConfig /\ ~ConfigLoaded /\ ~OtherTask
    OBVIOUS
  <2>1. OnlyActions
    BY DEF StartInv
  <2>2. \A k : HasTask(k) => k = "actions"
    BY <2>1 DEF OnlyActions, HasTask
  <2> QED
    BY <1>3, <2>1, <2>2 DEF OnlyActions, RunAction, LoadConfig, ConfigLoaded, OtherTask
<1>5. \A l \in Logs : lines'[l] > 0 => HasTask(l)'
  <2>1. CASE RunAction \/ ConfigLoaded \/ OtherTask
    <3>1. Log /\ HasTask(log)
      BY <1>4, <2>1 DEF RunAction, ConfigLoaded, OtherTask, StartInv
    <3>2. {log} \in SUBSET Logs /\ LinesTyped
      BY DEF TypeOK, LinesTyped
    <3> QED
      BY <1>2, <3>1, <3>2, LinesHaveTask DEF Log, Grows
  <2>2. CASE lines' = lines
    BY <1>2, <2>2 DEF StartInv
  <2>3. ASSUME NEW l \in Logs, WriteLine(l) PROVE \A k \in Logs : lines'[k] > 0 => HasTask(k)'
    <3>1. lines' = [lines EXCEPT ![l] = lines[l] - 1] /\ lines[l] > 0
      BY <2>3 DEF WriteLine
    <3>2. lines \in [Logs -> 0 .. LogCapacity]
      BY DEF TypeOK, LinesTyped
    <3>3. \A k \in Logs : lines'[k] > 0 => lines[k] > 0
      BY <3>1, <3>2
    <3> QED
      BY <1>2, <3>3 DEF StartInv
  <2> QED
    BY <2>1, <2>2, <2>3 DEF Background, Wake, EndActions, EndLines, SkipConfig, LoadConfig,
       EndTasks, EndPass
<1>6. loading' => main' \notin BeforeConfig
  <2>1. CASE LoadConfig
    BY <1>1, <1>3, <2>1 DEF LoadConfig, StartInv
  <2>2. CASE ~LoadConfig
    <3>1. loading' => loading
      BY <2>2 DEF Background, Wake, RunAction, EndActions, WriteLine, EndLines, SkipConfig,
                  ConfigLoaded, OtherTask, EndTasks, EndPass
    <3> QED
      BY <1>1, <3>1 DEF StartInv
  <2> QED
    BY <2>1, <2>2
<1>7. main \in BeforeLog => background' = background
  BY <1>4 DEF Background, Wake, EndActions, WriteLine, EndLines, SkipConfig,
              LoadConfig, ConfigLoaded, OtherTask, EndTasks, EndPass
<1>8. main' \in BeforeLog => log' = "stdoutLog" /\ OnlyActions'
  BY <1>1, <1>7 DEF StartInv, OnlyActions
<1> QED
  BY <1>1, <1>2, <1>5, <1>6, <1>8 DEF StartInv

\* The constructor makes each log a task before it is used.
LEMMA StartInConstruct ==
    ASSUME TypeOK, StartInv, Construct
    PROVE  StartInv'
<1> USE DEF mainUnchanged, startUnchanged, bgVars, flags
<1>0. TasksTyped /\ LinesTyped /\ log \in Logs
  BY DEF TypeOK, LinesTyped
<1>1. \A k \in {"actions", "stdoutLog", "config", "realTimeLog", "historicalLog", "scheduler"} :
        k \in Kinds
  BY DEF Kinds, Logs
<1>2. {log} \in SUBSET Logs /\ {"stdoutLog", "realTimeLog"} \in SUBSET Logs
         /\ {"stdoutLog", "historicalLog"} \in SUBSET Logs
         /\ {log, "stdoutLog", "realTimeLog"} \in SUBSET Logs
  BY <1>0 DEF Logs
<1> USE DEF BeforeLog, BeforeConfig, AtSources
<1>3. CASE Bootstrap
  <2>1. AddTask("actions") /\ main = "bootstrap" /\ main' = "stdoutLog"
           /\ UNCHANGED <<log, lines, background, loading>>
    BY <1>3 DEF Bootstrap
  <2>2. OnlyActions'
    BY <1>0, <1>1, <2>1, TaskAdded DEF StartInv, OnlyActions
  <2>3. HasTask("actions")' /\ ~HasTask("config")'
    BY <1>0, <1>1, <2>1, TaskAdded DEF StartInv
  <2>4. \A l \in Logs : lines'[l] > 0 => HasTask(l)'
    BY <1>0, <1>1, <2>1, TaskAdded DEF StartInv
  <2> QED
    BY <2>1, <2>2, <2>3, <2>4 DEF StartInv
<1>4. CASE AddStdoutLog
  <2>1. AddTask("stdoutLog") /\ main = "stdoutLog" /\ main' = "primary"
           /\ UNCHANGED <<log, lines, background, loading>>
    BY <1>4 DEF AddStdoutLog
  <2>2. HasTask("actions")' /\ HasTask("stdoutLog")' /\ ~HasTask("config")' /\ log' = "stdoutLog"
    BY <1>0, <1>1, <2>1, TaskAdded DEF StartInv
  <2>3. \A l \in Logs : lines'[l] > 0 => HasTask(l)'
    BY <1>0, <1>1, <2>1, TaskAdded DEF StartInv
  <2> QED
    BY <2>1, <2>2, <2>3 DEF StartInv
<1>5. CASE AddSources \/ LoadSources
  <2>1. /\ main \in AtSources /\ main' \in AtSources \union {"config"}
        /\ Log /\ UNCHANGED <<log, tasks, background, loading>>
    BY <1>5 DEF AddSources, LoadSources
  <2>2. \A k : HasTask(k)' <=> HasTask(k)
    BY <2>1, TasksKept
  <2>3. HasTask(log)' /\ HasTask("stdoutLog")' /\ HasTask("actions")' /\ ~HasTask("config")'
    BY <2>1, <2>2 DEF StartInv
  <2>4. \A l \in Logs : lines'[l] > 0 => HasTask(l)'
    BY <1>0, <1>2, <2>1, <2>2, <2>3, LinesHaveTask DEF Log, Grows
  <2>5. log' = log /\ main' \notin BeforeLog /\ main' \notin {"bootstrap", "historicalLog", "components"}
    BY <2>1
  <2>6. ~loading'
    BY <2>1 DEF StartInv
  <2> QED
    BY <2>3, <2>4, <2>5, <2>6 DEF StartInv, HasTask
<1>6. CASE AddConfig
  <2>1. /\ AddTask("config") /\ main = "config" /\ main' = "realTimeLog"
        /\ LogOne /\ log' = log
    BY <1>6 DEF AddConfig
  <2>2. \A k : HasTask(k) => HasTask(k)'
    BY <1>0, <1>1, <2>1, TaskAdded
  <2>3. HasTask(log)' /\ HasTask("stdoutLog")' /\ HasTask("actions")'
    BY <2>1, <2>2 DEF StartInv
  <2>4. \A l \in Logs : lines'[l] > 0 => HasTask(l)'
    BY <1>0, <1>2, <2>1, <2>2, <2>3, LinesHaveTask DEF Grows
  <2> QED
    BY <2>1, <2>3, <2>4 DEF StartInv, HasTask
<1>7. CASE AddRealTimeLog
  <2>1. /\ AddTask("realTimeLog") /\ main = "realTimeLog"
        /\ main' \in {"historicalLog", "components"}
        /\ LogTo({"stdoutLog", "realTimeLog"}) /\ log' = "realTimeLog"
    BY <1>7 DEF AddRealTimeLog
  <2>2. \A k : HasTask(k) => HasTask(k)'
    BY <1>0, <1>1, <2>1, TaskAdded
  <2>3. HasTask(log)' /\ HasTask("stdoutLog")' /\ HasTask("actions")' /\ HasTask("realTimeLog")'
    <3>1. HasTask("realTimeLog")'
      BY <1>0, <1>1, <2>1, TaskAdded
    <3>2. HasTask("stdoutLog")' /\ HasTask("actions")'
      BY <2>1, <2>2 DEF StartInv
    <3> QED
      BY <2>1, <3>1, <3>2 DEF HasTask
  <2>4. HasTask(log) /\ (\E i \in 1 .. Len(tasks') : tasks'[i] = log)
    BY <2>1, <2>2 DEF StartInv, HasTask
  <2>5. \A l \in {"stdoutLog", "realTimeLog"} \union {log} : HasTask(l)'
    BY <2>3, <2>4 DEF HasTask
  <2>6. \A l \in Logs : lines'[l] > 0 => HasTask(l)'
    BY <1>0, <1>2, <2>1, <2>2, <2>5, LinesHaveTask DEF Grows
  <2> QED
    BY <2>1, <2>3, <2>6 DEF StartInv, HasTask
<1>8. CASE AddHistoricalLog
  <2>1. /\ AddTask("historicalLog") /\ main = "historicalLog" /\ main' = "components"
        /\ LogTo({"stdoutLog", "historicalLog"}) /\ log' = "historicalLog"
    BY <1>8 DEF AddHistoricalLog
  <2>2. \A k : HasTask(k) => HasTask(k)'
    BY <1>0, <1>1, <2>1, TaskAdded
  <2>3. /\ HasTask("stdoutLog")' /\ HasTask("actions")' /\ HasTask("realTimeLog")'
        /\ HasTask("historicalLog")'
    <3>1. HasTask("historicalLog")'
      BY <1>0, <1>1, <2>1, TaskAdded
    <3>2. HasTask("stdoutLog")' /\ HasTask("actions")' /\ HasTask("realTimeLog")'
      BY <2>1, <2>2 DEF StartInv
    <3> QED
      BY <3>1, <3>2
  <2>4. HasTask(log) /\ (\E i \in 1 .. Len(tasks') : tasks'[i] = log)
    BY <2>1, <2>2 DEF StartInv, HasTask
  <2>5. \A l \in {"stdoutLog", "historicalLog"} \union {log} : HasTask(l)'
    BY <2>3, <2>4 DEF HasTask
  <2>6. \A l \in Logs : lines'[l] > 0 => HasTask(l)'
    BY <1>0, <1>2, <2>1, <2>2, <2>5, LinesHaveTask DEF Grows
  <2> QED
    BY <2>1, <2>3, <2>6 DEF StartInv, HasTask
<1>9. CASE AddComponents
  <2>1. /\ main = "components" /\ main' = "scheduler" /\ UNCHANGED <<tasks, log>>
        /\ LogTo({log, "stdoutLog", "realTimeLog"})
    BY <1>9 DEF AddComponents
  <2>2. \A k : HasTask(k)' <=> HasTask(k)
    BY <2>1, TasksKept
  <2>3. HasTask(log)' /\ HasTask("stdoutLog")' /\ HasTask("actions")' /\ HasTask("realTimeLog")'
    BY <2>1, <2>2 DEF StartInv
  <2>4. \A l \in Logs : lines'[l] > 0 => HasTask(l)'
    BY <1>0, <1>2, <2>1, <2>2, <2>3, LinesHaveTask DEF Grows
  <2> QED
    BY <2>1, <2>3, <2>4 DEF StartInv, HasTask
<1>10. CASE AddScheduler
  <2>1. /\ AddTask("scheduler") /\ main = "scheduler" /\ main' = "startup"
        /\ Log /\ log' = log
    BY <1>10 DEF AddScheduler
  <2>2. \A k : HasTask(k) => HasTask(k)'
    BY <1>0, <1>1, <2>1, TaskAdded
  <2>3. HasTask(log)' /\ HasTask("stdoutLog")' /\ HasTask("actions")'
    BY <2>1, <2>2 DEF StartInv
  <2>4. \A l \in Logs : lines'[l] > 0 => HasTask(l)'
    BY <1>0, <1>2, <2>1, <2>2, <2>3, LinesHaveTask DEF Log, Grows
  <2> QED
    BY <2>1, <2>3, <2>4 DEF StartInv, HasTask
<1>11. CASE StartupCommands
  <2>1. main = "startup" /\ main' = "constructed" /\ LogOne /\ UNCHANGED <<tasks, log>>
    BY <1>11 DEF StartupCommands
  <2>2. \A k : HasTask(k)' <=> HasTask(k)
    BY <2>1, TasksKept
  <2>3. HasTask(log)' /\ HasTask("stdoutLog")' /\ HasTask("actions")'
    BY <2>1, <2>2 DEF StartInv
  <2>4. \A l \in Logs : lines'[l] > 0 => HasTask(l)'
    BY <1>0, <1>2, <2>1, <2>2, <2>3, LinesHaveTask DEF Log, Grows
  <2> QED
    BY <2>1, <2>3, <2>4 DEF StartInv, HasTask
<1> QED
  BY <1>3, <1>4, <1>5, <1>6, <1>7, <1>8, <1>9, <1>10, <1>11 DEF Construct

\* After the constructor, whatever logs finds its log among the tasks.
LEMMA StartInRun ==
    ASSUME TypeOK, StartInv, Signal \/ Run \/ AddUserTask \/ UNCHANGED vars
    PROVE  StartInv'
<1>0. TasksTyped /\ LinesTyped /\ log \in Logs
  BY DEF TypeOK, LinesTyped
<1>1. CASE UNCHANGED <<main, tasks, log, lines, loading, background>>
  BY <1>1 DEF StartInv, HasTask, OnlyActions
<1>2. CASE Run \/ AddUserTask
  <2> USE DEF mainUnchanged, startUnchanged, runUnchanged, queues
  <2>1. main \notin Constructing /\ main' \notin Constructing /\ log' = log
    <3>1. CASE StartRun \/ NoRun \/ SetUpRun \/ Top \/ MainAction
      BY <3>1 DEF StartRun, NoRun, SetUpRun, Top, MainAction, Constructing, AtSources
    <3>2. CASE RunForeground \/ Commands \/ BeginShutdown \/ AlreadyShutDown
      BY <3>2 DEF RunForeground, Commands, BeginShutdown, AlreadyShutDown, Constructing,
                  AtSources
    <3>3. CASE ShutdownActions \/ Stop \/ Join \/ StopAgain \/ AddUserTask
      BY <3>3 DEF ShutdownActions, Stop, Join, StopAgain, AddUserTask, Constructing, AtSources
    <3> QED
      BY <1>2, <3>1, <3>2, <3>3 DEF Run
  <2>2. \/ tasks' = tasks
        \/ AddTask("watchdog")
        \/ AddTask("user")
    BY <1>2 DEF Run, StartRun, NoRun, SetUpRun, Top, MainAction, RunForeground, Commands,
       BeginShutdown, AlreadyShutDown, ShutdownActions, Stop, Join, StopAgain, AddUserTask
  <2>3. Grows({log, "stdoutLog"})
    <3>1. Log => LogTo({log, "stdoutLog"})
      BY DEF Log, LogTo
    <3> QED
      BY <1>2, <3>1 DEF Grows, Run, StartRun, NoRun, SetUpRun, Top, MainAction, RunForeground,
         Commands, BeginShutdown, AlreadyShutDown, ShutdownActions, Stop, Join, StopAgain,
         AddUserTask
  <2>4. \A k : HasTask(k) => HasTask(k)'
    <3>1. "watchdog" \in Kinds /\ "user" \in Kinds
      BY DEF Kinds
    <3> QED
      BY <1>0, <2>2, <3>1, TaskAdded, TasksKept
  <2>5. main \notin BeforeLog /\ main' \notin BeforeLog /\ main' \notin BeforeConfig
           /\ main \notin {"bootstrap", "historicalLog", "components"}
           /\ main' \notin {"bootstrap", "historicalLog", "components"}
    BY <2>1 DEF Constructing, BeforeLog, BeforeConfig
  <2>6. HasTask("actions")' /\ HasTask("stdoutLog")' /\ HasTask(log)'
    <3>1. HasTask("actions") /\ HasTask("stdoutLog") /\ HasTask(log)
      BY <2>5 DEF StartInv
    <3>2. HasTask("actions")' /\ HasTask("stdoutLog")'
      BY <2>4, <3>1
    <3>3. \E i \in 1 .. Len(tasks') : tasks'[i] = log
      BY <2>4, <3>1 DEF HasTask
    <3> QED
      BY <2>1, <3>2, <3>3 DEF HasTask
  <2>7. \A l \in Logs : lines'[l] > 0 => HasTask(l)'
    <3>1. {log, "stdoutLog"} \in SUBSET Logs
      BY <1>0 DEF Logs
    <3>2. \A l \in {log, "stdoutLog"} \union {log} : HasTask(l)'
      BY <2>1, <2>6 DEF HasTask
    <3> QED
      BY <1>0, <2>3, <2>4, <3>1, <3>2, LinesHaveTask
  <2> QED
    BY <2>5, <2>6, <2>7 DEF StartInv
<1> QED
  BY <1>1, <1>2 DEF Signal, vars, queues, bgVars

LEMMA StartAgain ==
    ASSUME TypeOK, StartInv, [Next]_vars
    PROVE  StartInv'
BY StartInBackground, StartInConstruct, StartInRun DEF Next, Main

\* OneLoader: the background thread never reads the sources of the config while the
\* main thread fills or reads them.
THEOREM OneLoaderHolds == Spec => []OneLoader
<1>1. TypeOK /\ StartInv /\ [Next]_vars => StartInv'
  BY StartAgain
<1>2. StartInv => OneLoader
  BY DEF StartInv, OneLoader, BeforeConfig
<1> QED
  BY <1>1, <1>2, StartHolds, TypeCorrect, PTL DEF Spec
-----------------------------------------------------------------------------
(***************************************************************************)
(* What is due when a pass begins has been taken care of when the pass has *)
(* gone past the task in question; FinalPass only tells that of the end.   *)
(***************************************************************************)
DueInv ==
    /\ bg = "pass" => \A i \in 1 .. next - 1 :
         /\ tasks[i] = "actions" => dueActions = 0
         /\ \A l \in Logs : tasks[i] = l => dueLines[l] = 0
    /\ bg \in {"passed", "done"} => (\A l \in Logs : dueLines[l] = 0) /\ dueActions = 0

\* A pass that has gone past all tasks has gone past whatever had something due.
LEMMA NothingLeft ==
    ASSUME TypeOK, StartInv, DueInv, EndTasks
    PROVE  (\A l \in Logs : dueLines[l] = 0) /\ dueActions = 0
<1>1. /\ bg = "pass" /\ next > Len(tasks)
      /\ Len(tasks) \in Nat /\ next \in 1 .. Len(tasks) + 1
  BY DEF EndTasks, TypeOK, TasksTyped
<1>2. \A i \in 1 .. Len(tasks) : i \in 1 .. next - 1
  BY <1>1
<1>3. ASSUME NEW l \in Logs PROVE dueLines[l] = 0
  <2>1. dueLines[l] \in Nat /\ lines[l] \in Nat /\ dueLines[l] <= lines[l]
    BY ConstantsAssumption DEF TypeOK, LinesTyped
  <2>2. CASE lines[l] > 0
    <3> PICK i \in 1 .. Len(tasks) : tasks[i] = l
      BY <2>2 DEF StartInv, HasTask
    <3> QED
      BY <1>1, <1>2 DEF DueInv
  <2> QED
    BY <2>1, <2>2
<1>4. dueActions = 0
  <2>1. background \in Seq(Deferred) /\ dueActions \in 0 .. Len(background)
    BY DEF TypeOK, QueuesTyped
  <2>2. CASE background = <<>>
    BY <2>1, <2>2
  <2>3. CASE background # <<>>
    <3>1. main # "bootstrap"
      BY <2>3 DEF StartInv, OnlyActions, BeforeLog
    <3> PICK i \in 1 .. Len(tasks) : tasks[i] = "actions"
      BY <3>1 DEF StartInv, HasTask
    <3> QED
      BY <1>1, <1>2 DEF DueInv
  <2> QED
    BY <2>2, <2>3
<1> QED
  BY <1>3, <1>4

\* The turn of a task ends with nothing due at it.
LEMMA TurnEnds ==
    ASSUME TypeOK, DueInv, bg = "pass", next \in 1 .. Len(tasks),
           EndTurn, UNCHANGED <<tasks, dueLines, dueActions>>,
           tasks[next] = "actions" => dueActions = 0,
           \A l \in Logs : tasks[next] = l => dueLines[l] = 0
    PROVE  DueInv'
<1>1. \A i \in 1 .. next' - 1 : i \in 1 .. next - 1 \/ i = next
  BY DEF EndTurn, TypeOK, TasksTyped
<1>2. bg' = "pass"
  BY DEF EndTurn
<1>3. \A i \in 1 .. next' - 1 :
        /\ tasks[i] = "actions" => dueActions = 0
        /\ \A l \in Logs : tasks[i] = l => dueLines[l] = 0
  BY <1>1 DEF DueInv
<1> QED
  BY <1>2, <1>3 DEF DueInv

LEMMA DueAgain ==
    ASSUME TypeOK, StartInv, DueInv, [Next]_vars
    PROVE  DueInv'
<1> USE DEF bgUnchanged
<1>0. TasksTyped /\ LinesTyped /\ QueuesTyped
  BY DEF TypeOK
<1>1. CASE Other
  <2>1. UNCHANGED <<bg, next, dueLines, dueActions>>
    BY <1>0, <1>1, OtherSteps DEF bgVars
  <2>2. \A i \in 1 .. Len(tasks) : tasks'[i] = tasks[i]
    BY <1>0, <1>1, OtherSteps, TasksGrow
  <2>3. \A i \in 1 .. next - 1 : i \in 1 .. Len(tasks)
    BY <1>0 DEF TasksTyped
  <2> QED
    BY <2>1, <2>2, <2>3 DEF DueInv
<1>2. CASE Wake
  <2>1. bg' = "pass" /\ \A i \in 1 .. next' - 1 : FALSE
    BY <1>2 DEF Wake
  <2> QED
    BY <2>1 DEF DueInv
<1>3. CASE RunAction
  <2>1. UNCHANGED <<bg, next, tasks, dueLines>> /\ dueActions' = LessOne(dueActions)
    BY <1>3 DEF RunAction
  <2>2. dueActions = 0 => dueActions' = 0
    BY <2>1 DEF LessOne
  <2> QED
    BY <2>1, <2>2 DEF DueInv
<1>4. CASE EndActions
  <2>1. Turn("actions") /\ EndTurn /\ UNCHANGED <<tasks, dueLines, dueActions>>
           /\ background = <<>>
    BY <1>4 DEF EndActions
  <2>2. dueActions = 0
    BY <1>0, <2>1 DEF QueuesTyped
  <2>3. \A l \in Logs : l # "actions"
    BY DEF Logs
  <2>4. next \in 1 .. Len(tasks) /\ bg = "pass" /\ tasks[next] = "actions"
    BY <1>0, <2>1, TurnTyped DEF Turn
  <2> QED
    BY <2>1, <2>2, <2>3, <2>4, TurnEnds
<1>5. ASSUME NEW l \in Logs, WriteLine(l) PROVE DueInv'
  <2>1. UNCHANGED <<bg, next, tasks, dueActions>>
           /\ dueLines' = [dueLines EXCEPT ![l] = LessOne(dueLines[l])]
    BY <1>5 DEF WriteLine
  <2>2. dueLines \in [Logs -> Nat]
    BY <1>0 DEF LinesTyped
  <2>3. \A k \in Logs : dueLines[k] = 0 => dueLines'[k] = 0
    BY <2>1, <2>2 DEF LessOne
  <2> QED
    BY <2>1, <2>3 DEF DueInv
<1>6. ASSUME NEW l \in Logs, EndLines(l) PROVE DueInv'
  <2>1. Turn(l) /\ EndTurn /\ UNCHANGED <<tasks, dueLines, dueActions>> /\ lines[l] = 0
    BY <1>6 DEF EndLines
  <2>2. dueLines[l] = 0
    BY <1>0, <2>1 DEF LinesTyped
  <2>3. l # "actions"
    BY DEF Logs
  <2>4. next \in 1 .. Len(tasks) /\ bg = "pass" /\ tasks[next] = l
    BY <1>0, <2>1, TurnTyped DEF Turn
  <2> QED
    BY <2>1, <2>2, <2>3, <2>4, TurnEnds
<1>7. CASE SkipConfig \/ ConfigLoaded \/ OtherTask
  <2>1. EndTurn /\ UNCHANGED <<tasks, dueLines, dueActions>>
    BY <1>7 DEF SkipConfig, ConfigLoaded, OtherTask
  <2> PICK kind \in {"config", "scheduler", "watchdog", "user"} : Turn(kind)
    BY <1>7 DEF SkipConfig, ConfigLoaded, OtherTask
  <2>2. kind # "actions" /\ \A l \in Logs : l # kind
    BY DEF Logs
  <2>3. next \in 1 .. Len(tasks) /\ bg = "pass" /\ tasks[next] = kind
    BY <1>0, TurnTyped DEF Turn
  <2> QED
    BY <2>1, <2>2, <2>3, TurnEnds
<1>8. CASE LoadConfig
  BY <1>8 DEF LoadConfig, DueInv
<1>9. CASE EndTasks
  <2>1. bg' = "passed" /\ UNCHANGED <<dueLines, dueActions>>
    BY <1>9 DEF EndTasks
  <2> QED
    BY <1>9, <2>1, NothingLeft DEF DueInv
<1>10. CASE EndPass
  <2>1. bg = "passed" /\ bg' # "pass" /\ UNCHANGED <<dueLines, dueActions>>
    BY <1>10 DEF EndPass
  <2> QED
    BY <2>1 DEF DueInv
<1> QED
  BY <1>1, <1>2, <1>3, <1>4, <1>5, <1>6, <1>7, <1>8, <1>9, <1>10 DEF Next, Background, Other

\* FinalPass: every line and action queued when the last pass began has been dealt
\* with when the background thread ends.
THEOREM FinalPassHolds == Spec => []FinalPass
<1>1. Init => DueInv
  BY DEF Init, DueInv
<1>2. TypeOK /\ StartInv /\ [Next]_vars => StartInv'
  BY StartAgain
<1>3. TypeOK /\ StartInv /\ DueInv /\ [Next]_vars => DueInv'
  BY DueAgain
<1>4. DueInv => FinalPass
  BY DEF DueInv, FinalPass
<1> QED
  BY <1>1, <1>2, <1>3, <1>4, StartHolds, TypeCorrect, PTL DEF Spec

(***************************************************************************)
(* How far the shutdown has come, told by the place of the main thread and *)
(* by the flags of the background thread.                                  *)
(***************************************************************************)
Before == Constructing \union
          {"constructed", "set up", "top", "action", "deferred", "commands", "shutdown",
           "actions"}

ShutdownInv ==
    /\ main \in Before => running /\ ~stopped /\ shutdowns = 0
    /\ main = "stopping" => running /\ ~stopped /\ shutdowns = 1
    /\ main = "joining" => ~running /\ ~stopped /\ shutdowns = 1
    /\ main = "returned" => \/ running /\ ~stopped /\ shutdowns = 0
                            \/ ~running /\ stopped /\ shutdowns = 1
    /\ main \in {"destroying", "destroyed"} => ~running /\ stopped /\ shutdowns = 1
    /\ stopped => bg = "done"
    /\ bg = "done" => ~running

LEMMA ShutdownStarts == Init => ShutdownInv
BY DEF Init, ShutdownInv, Before, Constructing

LEMMA ShutdownAgain ==
    ASSUME TypeOK, ShutdownInv, [Next]_vars
    PROVE  ShutdownInv'
<1> USE DEF ShutdownInv, mainUnchanged, startUnchanged, runUnchanged, bgVars
<1>1. CASE Background
  <2>1. UNCHANGED <<main, running, stopped, shutdowns>>
    BY <1>1 DEF Background, bgUnchanged, Wake, RunAction, EndActions, WriteLine, EndLines,
                SkipConfig, LoadConfig, ConfigLoaded, OtherTask, EndTasks, EndPass
  <2>2. bg # "done" /\ (bg' = "done" => ~running)
    BY <1>1 DEF Background, Turn, EndTurn, Wake, RunAction, EndActions, WriteLine, EndLines,
                SkipConfig, LoadConfig, ConfigLoaded, OtherTask, EndTasks, EndPass
  <2> QED
    BY <2>1, <2>2
<1>2. CASE Signal
  BY <1>2 DEF Signal
<1>3. CASE Construct
  <2>1. UNCHANGED <<bg, running, stopped, shutdowns>>
    BY <1>3 DEF Construct, Bootstrap, AddStdoutLog, AddSources, LoadSources, AddConfig,
       AddRealTimeLog, AddHistoricalLog, AddComponents, AddScheduler, StartupCommands
  <2>2. main \in Before /\ main' \in Before
    BY <1>3 DEF Construct, Bootstrap, AddStdoutLog, AddSources, LoadSources, AddConfig,
       AddRealTimeLog, AddHistoricalLog, AddComponents, AddScheduler, StartupCommands,
       Before, Constructing, AtSources
  <2> QED
    BY <2>1, <2>2 DEF Before, Constructing, AtSources
<1>4. CASE AddUserTask
  BY <1>4 DEF AddUserTask
<1>5. CASE StartRun \/ NoRun \/ SetUpRun \/ Top \/ MainAction \/ RunForeground \/ Commands
  <2>1. UNCHANGED <<bg, running, stopped, shutdowns>>
    BY <1>5 DEF StartRun, NoRun, SetUpRun, Top, MainAction, RunForeground, Commands
  <2>2. main \in Before /\ main' \in Before \union {"returned"}
    BY <1>5 DEF StartRun, NoRun, SetUpRun, Top, MainAction, RunForeground, Commands, Before
  <2> QED
    BY <2>1, <2>2 DEF Before, Constructing, AtSources
<1> USE DEF Before, Constructing, AtSources
<1>6. CASE BeginShutdown
  BY <1>6 DEF BeginShutdown, IsShutdown
<1>7. CASE AlreadyShutDown
  BY <1>7 DEF AlreadyShutDown, IsShutdown
<1>8. CASE ShutdownActions
  BY <1>8 DEF ShutdownActions
<1>9. CASE Stop
  BY <1>9 DEF Stop
<1>10. CASE Join
  BY <1>10 DEF Join
<1>11. CASE StopAgain
  BY <1>11 DEF StopAgain
<1>12. CASE UNCHANGED vars
  BY <1>12 DEF vars
<1> QED
  BY <1>1, <1>2, <1>3, <1>4, <1>5, <1>6, <1>7, <1>8, <1>9, <1>10, <1>11, <1>12
     DEF Next, Main, Run

\* NoTaskAfterShutdown: once the context counts as shut down, no task is executed.
THEOREM NoTaskAfterShutdownHolds == Spec => []NoTaskAfterShutdown
<1>1. TypeOK /\ ShutdownInv /\ [Next]_vars => ShutdownInv'
  BY ShutdownAgain
<1>2. ShutdownInv => NoTaskAfterShutdown
  BY DEF ShutdownInv, NoTaskAfterShutdown
<1> QED
  BY <1>1, <1>2, ShutdownStarts, TypeCorrect, PTL DEF Spec

\* ShutdownOnce: however run() ends, the shutdown actions are run exactly once.
THEOREM ShutdownOnceHolds == Spec => []ShutdownOnce
<1>1. TypeOK /\ ShutdownInv /\ [Next]_vars => ShutdownInv'
  BY ShutdownAgain
<1>2. TypeOK /\ ShutdownInv => ShutdownOnce
  <2> SUFFICES ASSUME FlagsTyped, ShutdownInv PROVE ShutdownOnce
    BY DEF TypeOK
  <2>1. shutdowns \in {0, 1}
    BY DEF FlagsTyped, Places, ShutdownInv, Before
  <2> QED
    BY <2>1 DEF ShutdownInv, ShutdownOnce
<1> QED
  BY <1>1, <1>2, ShutdownStarts, TypeCorrect, PTL DEF Spec
-----------------------------------------------------------------------------
(***************************************************************************)
(* The registries of an application.                                       *)
(***************************************************************************)
AnyLog == OwnLog \union Default

OfferedNames == {NameOfLog(offered[k][1]) : k \in DOMAIN offered}

ListInv ==
    /\ todo \in Seq(AnyLog)
    /\ DOMAIN logs = {"objects", "byName"} /\ logs.objects \in Seq(AnyLog)
    /\ offered \in Seq(AnyLog \X BOOLEAN)
    /\ DOMAIN logs.byName = OfferedNames
    /\ ListAgrees

\* The first offers are finitely many, and have their places in the list.
LEMMA PlaceFacts ==
    ASSUME ListInv
    PROVE  /\ FirstOffers \subseteq 1 .. Len(offered) /\ IsFiniteSet(FirstOffers)
           /\ Len(offered) \in Nat /\ Cardinality(FirstOffers) \in Nat
           /\ \A k \in FirstOffers : PlaceInList(k) \in 1 .. Len(logs.objects)
<1>1. Len(offered) \in Nat /\ DOMAIN offered = 1 .. Len(offered)
  BY SeqFacts DEF ListInv
<1>2. FirstOffers \subseteq 1 .. Len(offered)
  BY <1>1 DEF FirstOffers
<1>3. IsFiniteSet(FirstOffers)
  <2>1. IsFiniteSet(1 .. Len(offered))
    BY <1>1, FS_Interval
  <2> QED
    BY <1>2, <2>1, FS_Subset
<1>4. ASSUME NEW k \in FirstOffers PROVE PlaceInList(k) \in 1 .. Len(logs.objects)
  <2> DEFINE T == {j \in FirstOffers : j <= k}
  <2>1. T \subseteq FirstOffers /\ k \in T
    BY <1>1, <1>2
  <2>2. IsFiniteSet(T) /\ Cardinality(T) <= Cardinality(FirstOffers)
    BY <1>3, <2>1, FS_Subset
  <2>3. Cardinality(T) \in Nat /\ Cardinality(T) # 0
    BY <2>1, <2>2, FS_CardinalityType, FS_EmptySet
  <2>4. PlaceInList(k) = Cardinality(T) /\ Len(logs.objects) = Cardinality(FirstOffers)
    BY DEF PlaceInList, ListInv, ListAgrees
  <2> HIDE DEF T
  <2> QED
    BY <1>3, <2>2, <2>3, <2>4, FS_CardinalityType
<1> QED
  BY <1>1, <1>2, <1>3, <1>4, FS_CardinalityType

\* add() lists a log that comes first under its name, and leaves all others alone.
LEMMA AddKeepsList ==
    ASSUME ListInv, NEW l \in AnyLog, AddLog(l), todo' \in Seq(AnyLog)
    PROVE  ListInv'
<1> DEFINE n == Len(offered)
<1>1. /\ n \in Nat /\ DOMAIN offered = 1 .. n
      /\ DOMAIN offered' = 1 .. n + 1 /\ offered' \in Seq(AnyLog \X BOOLEAN)
      /\ \A k \in 1 .. n : offered'[k] = offered[k]
      /\ offered'[n + 1] = <<l, IsAdded(logs, l)>>
  <2>1. <<l, IsAdded(logs, l)>> \in AnyLog \X BOOLEAN
    BY DEF IsAdded
  <2> QED
    BY <2>1, SeqFacts, AppendFacts DEF AddLog, ListInv
<1> HIDE DEF n
<1>2. OfferedNames' = OfferedNames \union {NameOfLog(l)}
  BY <1>1 DEF OfferedNames
<1>3. \A k \in 1 .. n : k \in FirstOffers' <=> k \in FirstOffers
  BY <1>1 DEF FirstOffers
<1>4. n + 1 \in FirstOffers' <=> IsAdded(logs, l)
  <2>1. IsAdded(logs, l) <=> \A k \in 1 .. n : NameOfLog(offered[k][1]) # NameOfLog(l)
    BY <1>1 DEF IsAdded, ListInv, OfferedNames
  <2>2. n + 1 \in DOMAIN offered' /\ (n + 1) - 1 = n /\ offered'[n + 1][1] = l
    BY <1>1
  <2>3. n + 1 \in FirstOffers'
        <=> \A k \in 1 .. n : NameOfLog(offered'[k][1]) # NameOfLog(l)
    BY <2>2 DEF FirstOffers
  <2> QED
    BY <1>1, <2>1, <2>3
<1>5. FirstOffers' \subseteq 1 .. n + 1
  BY <1>1 DEF FirstOffers
<1>6. FirstOffers \subseteq 1 .. n /\ IsFiniteSet(FirstOffers)
      /\ Cardinality(FirstOffers) \in Nat
      /\ \A k \in FirstOffers : PlaceInList(k) \in 1 .. Len(logs.objects)
  BY PlaceFacts DEF n
<1>7. \A k \in FirstOffers : PlaceInList(k)' = PlaceInList(k)
  <2> SUFFICES ASSUME NEW k \in FirstOffers PROVE PlaceInList(k)' = PlaceInList(k)
    OBVIOUS
  <2>1. ASSUME NEW j PROVE j \in FirstOffers' /\ j <= k <=> j \in FirstOffers /\ j <= k
    <3>1. CASE j \in 1 .. n
      BY <1>3, <3>1
    <3>2. CASE j \notin 1 .. n
      <4>1. k \in 1 .. n /\ j \notin FirstOffers
        BY <1>6, <3>2
      <4>2. j \in FirstOffers' => j = n + 1
        BY <1>1, <1>5, <3>2
      <4> QED
        BY <1>1, <4>1, <4>2
    <3> QED
      BY <3>1, <3>2
  <2> QED
    BY <2>1 DEF PlaceInList
<1>8. \A k \in FirstOffers : LET m == offered[k][1] IN
        logs.objects[PlaceInList(k)] = m /\ Get(logs, NameOfLog(m)) = m
  BY DEF ListInv, ListAgrees
<1>9. \A k \in 1 .. n : offered[k][2] <=> k \in FirstOffers
  BY <1>1 DEF ListInv, ListAgrees
<1>12. \A k \in 1 .. n + 1 : offered'[k][2] <=> k \in FirstOffers'
  <2> SUFFICES ASSUME NEW k \in 1 .. n + 1 PROVE offered'[k][2] <=> k \in FirstOffers'
    OBVIOUS
  <2>1. CASE k \in 1 .. n
    BY <1>1, <1>3, <1>9, <2>1
  <2>2. CASE k = n + 1
    <3>1. offered'[k][2] = IsAdded(logs, l)
      BY <1>1, <2>2
    <3> QED
      BY <1>4, <2>2, <3>1
  <2> QED
    BY <1>1, <2>1, <2>2
<1>10. CASE IsAdded(logs, l)
  <2>1. FirstOffers' = FirstOffers \union {n + 1} /\ n + 1 \notin FirstOffers
    <3>1. \A k \in 1 .. n + 1 : k \in 1 .. n \/ k = n + 1
      BY <1>1
    <3>2. n + 1 \notin 1 .. n
      BY <1>1
    <3> QED
      BY <1>3, <1>4, <1>5, <1>6, <1>10, <3>1, <3>2
  <2>2. Cardinality(FirstOffers') = Cardinality(FirstOffers) + 1
    BY <1>6, <2>1, FS_AddElement
  <2>3. /\ logs'.objects = Append(logs.objects, l)
        /\ logs'.byName = Inserted(logs.byName, l)
        /\ DOMAIN logs' = {"objects", "byName"}
    BY <1>10 DEF AddLog, Added
  <2>4. /\ logs'.objects \in Seq(AnyLog) /\ Len(logs'.objects) = Len(logs.objects) + 1
        /\ Len(logs.objects) \in Nat
        /\ \A k \in 1 .. Len(logs.objects) : logs'.objects[k] = logs.objects[k]
        /\ logs'.objects[Len(logs.objects) + 1] = l
    BY <2>3, SeqFacts, AppendFacts DEF ListInv
  <2>5. Len(logs.objects) = Cardinality(FirstOffers)
    BY DEF ListInv, ListAgrees
  <2>6. /\ DOMAIN logs'.byName = OfferedNames' /\ logs'.byName[NameOfLog(l)] = l
        /\ \A name \in OfferedNames : logs'.byName[name] = logs.byName[name]
    BY <1>2, <1>10, <2>3 DEF ListInv, IsAdded, Inserted
  <2>7. ASSUME NEW k, k = n + 1 PROVE PlaceInList(k)' = Len(logs.objects) + 1
    <3>1. \A j \in FirstOffers' : j <= k
      BY <1>1, <1>5, <2>7
    <3>2. {j \in FirstOffers' : j <= k} = FirstOffers'
      BY <3>1
    <3> QED
      BY <2>2, <2>5, <3>2 DEF PlaceInList
  <2>8. ASSUME NEW k \in FirstOffers'
        PROVE  LET m == offered'[k][1] IN
               logs'.objects[PlaceInList(k)'] = m /\ Get(logs', NameOfLog(m)) = m
    <3>1. CASE k = n + 1
      <4>1. offered'[k][1] = l /\ PlaceInList(k)' = Len(logs.objects) + 1
        BY <1>1, <2>7, <3>1
      <4> QED
        BY <1>2, <2>4, <2>6, <4>1 DEF Get
    <3>2. CASE k \in FirstOffers
      <4>1. /\ offered'[k] = offered[k] /\ PlaceInList(k)' = PlaceInList(k)
            /\ PlaceInList(k) \in 1 .. Len(logs.objects)
            /\ NameOfLog(offered[k][1]) \in OfferedNames
        BY <1>1, <1>6, <1>7, <3>2 DEF OfferedNames
      <4>2. logs'.objects[PlaceInList(k)'] = offered'[k][1]
        BY <1>8, <2>4, <3>2, <4>1
      <4>3. Get(logs', NameOfLog(offered[k][1])) = Get(logs, NameOfLog(offered[k][1]))
        BY <1>2, <2>6, <4>1 DEF Get, ListInv
      <4> QED
        BY <1>8, <3>2, <4>1, <4>2, <4>3
    <3> QED
      BY <2>1, <3>1, <3>2
  <2> QED
    BY <1>1, <2>2, <2>3, <2>4, <2>5, <2>6, <2>8, <1>12 DEF ListInv, ListAgrees
<1>11. CASE ~IsAdded(logs, l)
  <2>1. FirstOffers' = FirstOffers /\ logs' = logs
    <3>1. \A k \in 1 .. n + 1 : k \in 1 .. n \/ k = n + 1
      BY <1>1
    <3>2. FirstOffers' = FirstOffers
      BY <1>3, <1>4, <1>5, <1>6, <1>11, <3>1
    <3> QED
      BY <1>11, <3>2 DEF AddLog, Added
  <2>2. OfferedNames' = OfferedNames
    BY <1>2, <1>11 DEF IsAdded, ListInv
  <2>3. \A k \in FirstOffers' : LET m == offered'[k][1] IN
          logs'.objects[PlaceInList(k)'] = m /\ Get(logs', NameOfLog(m)) = m
    BY <1>1, <1>6, <1>7, <1>8, <2>1
  <2> QED
    BY <1>1, <1>12, <2>1, <2>2, <2>3 DEF ListInv, ListAgrees
<1> QED
  BY <1>10, <1>11

\* Without a call of add() the list stays what it is.
LEMMA SameList ==
    ASSUME ListInv, UNCHANGED <<logs, offered>>, todo' \in Seq(AnyLog)
    PROVE  ListInv'
<1>1. FirstOffers' = FirstOffers /\ OfferedNames' = OfferedNames
  BY DEF FirstOffers, OfferedNames
<1>2. \A k : PlaceInList(k)' = PlaceInList(k)
  BY <1>1 DEF PlaceInList
<1> QED
  BY <1>1, <1>2 DEF ListInv, ListAgrees

EntriesOf(l) == {p \in Path : entries[p] # 0 /\ LibraryOf[p] = l}

LibraryInv ==
    /\ loads \in Nat /\ entries \in [Path -> Nat] /\ DOMAIN handles = Library
    /\ LibrariesAgree

\* Of one path there is one entry, or none.
LEMMA EntriesFacts ==
    ASSUME NEW l
    PROVE  /\ IsFiniteSet(EntriesOf(l)) /\ Cardinality(EntriesOf(l)) \in Nat
           /\ \A p \in Path :
                {q \in {p} : entries[q] # 0 /\ LibraryOf[q] = l}
                  = IF p \in EntriesOf(l) THEN {p} ELSE {}
<1>1. EntriesOf(l) \subseteq Path /\ IsFiniteSet(Path)
  BY RegistriesAssumption DEF EntriesOf
<1>2. IsFiniteSet(EntriesOf(l))
  BY <1>1, FS_Subset
<1> QED
  BY <1>2, FS_CardinalityType DEF EntriesOf

\* What load() opens and unload() closes is an entry more or less.
LEMMA LibrariesAgain ==
    ASSUME LibraryInv, [LibrariesNext]_libraryVars
    PROVE  LibraryInv'
<1> USE DEF LibraryInv
<1>a. \A l \in Library : handles[l] = Cardinality(EntriesOf(l))
  BY DEF LibrariesAgree, EntriesOf
<1>1. ASSUME NEW u \in User, NEW p \in Path, LoadLibrary(u, p) PROVE LibraryInv'
  <2>1. /\ entries[p] = 0 /\ loads' = loads + 1
        /\ handles' = [handles EXCEPT ![LibraryOf[p]] = @ + 1]
        /\ entries' = [entries EXCEPT ![p] = loads + 1]
    BY <1>1 DEF LoadLibrary
  <2>2. ASSUME NEW l \in Library PROVE handles'[l] = Cardinality(EntriesOf(l)')
    <3>1. CASE l = LibraryOf[p]
      <4>1. EntriesOf(l)' = EntriesOf(l) \union {p} /\ p \notin EntriesOf(l)
        BY <2>1, <3>1 DEF EntriesOf
      <4>2. Cardinality(EntriesOf(l) \union {p}) = Cardinality(EntriesOf(l)) + 1
        BY <4>1, EntriesFacts, FS_AddElement
      <4>3. handles'[l] = handles[l] + 1
        BY <2>1, <3>1
      <4> QED
        BY <1>a, <4>1, <4>2, <4>3
    <3>2. CASE l # LibraryOf[p]
      <4>1. EntriesOf(l)' = EntriesOf(l)
        BY <2>1, <3>2 DEF EntriesOf
      <4>2. handles'[l] = handles[l]
        BY <2>1, <3>2
      <4> QED
        BY <1>a, <4>1, <4>2
    <3> QED
      BY <3>1, <3>2
  <2> QED
    BY <2>1, <2>2 DEF LibrariesAgree, EntriesOf
<1>2. ASSUME NEW u \in User, NEW p \in Path, UnloadLibrary(u, p) PROVE LibraryInv'
  <2>1. /\ loads' = loads /\ handles' = Closed({p}) /\ entries' = [entries EXCEPT ![p] = 0]
    BY <1>2 DEF UnloadLibrary
  <2>2. ASSUME NEW l \in Library PROVE handles'[l] = Cardinality(EntriesOf(l)')
    <3>1. handles'[l] = handles[l]
            - Cardinality({q \in {p} : entries[q] # 0 /\ LibraryOf[q] = l})
      BY <2>1 DEF Closed
    <3>2. EntriesOf(l)' = EntriesOf(l) \ {p}
      BY <2>1 DEF EntriesOf
    <3>3. CASE p \in EntriesOf(l)
      <4>1. handles'[l] = handles[l] - Cardinality({p})
        BY <3>1, <3>3, EntriesFacts
      <4>2. Cardinality(EntriesOf(l) \ {p}) = Cardinality(EntriesOf(l)) - 1
        BY <3>3, EntriesFacts, FS_RemoveElement
      <4>3. Cardinality({p}) = 1
        BY FS_Singleton
      <4> QED
        BY <1>a, <3>2, <4>1, <4>2, <4>3
    <3>4. CASE p \notin EntriesOf(l)
      <4>1. handles'[l] = handles[l] - Cardinality({})
        BY <3>1, <3>4, EntriesFacts
      <4>2. EntriesOf(l) \ {p} = EntriesOf(l)
        BY <3>4
      <4> QED
        <5>1. Cardinality({}) = 0 /\ Cardinality(EntriesOf(l)) \in Nat
          BY EntriesFacts, FS_EmptySet
        <5> QED
          BY <1>a, <3>2, <4>1, <4>2, <5>1
    <3> QED
      BY <3>3, <3>4
  <2> QED
    BY <2>1, <2>2 DEF LibrariesAgree, EntriesOf, Closed
<1>3. CASE UnloadAll
  <2>1. loads' = loads /\ handles' = Closed(Path) /\ entries' = [p \in Path |-> 0]
    BY <1>3 DEF UnloadAll
  <2>2. ASSUME NEW l \in Library PROVE handles'[l] = Cardinality(EntriesOf(l)')
    <3>1. handles'[l] = handles[l] - Cardinality(EntriesOf(l))
      BY <2>1 DEF Closed, EntriesOf
    <3>2. EntriesOf(l)' = {}
      BY <2>1 DEF EntriesOf
    <3> QED
      BY <1>a, <3>1, <3>2, EntriesFacts, FS_EmptySet
  <2> QED
    BY <2>1, <2>2 DEF LibrariesAgree, EntriesOf, Closed
<1>4. ASSUME NEW u \in User, NEW p \in Path, FindLibrary(u, p) \/ FailToLoad(u, p)
      PROVE  LibraryInv'
  BY <1>4 DEF FindLibrary, FailToLoad, LibrariesAgree
<1>5. CASE UNCHANGED libraryVars
  <2>1. entries' = entries /\ handles' = handles /\ loads' = loads
    BY <1>5 DEF libraryVars
  <2>2. \A l : EntriesOf(l)' = EntriesOf(l)
    BY <2>1 DEF EntriesOf
  <2> QED
    BY <1>a, <2>1, <2>2 DEF LibrariesAgree, EntriesOf
<1> QED
  BY <1>1, <1>2, <1>3, <1>4, <1>5 DEF LibrariesNext, LibrariesAgree, EntriesOf

\* The remainder of a sum is that of the sum with a remainder.
LEMMA NextRemainder ==
    ASSUME NEW a \in Nat, NEW m \in Nat \ {0}
    PROVE  ((a % m) + 1) % m = (a + 1) % m
<1> DEFINE q == a \div m
           r == a % m
<1>1. r \in 0 .. m - 1 /\ q \in Int /\ a = m * q + r
  OBVIOUS
<1> HIDE DEF q, r
<1>2. ASSUME NEW x \in Int, NEW y \in 0 .. m - 1, NEW b \in Nat, b = m * x + y
      PROVE  b % m = y
  BY <1>2, SMTT(30)
<1>3. CASE r + 1 <= m - 1
  <2>1. a + 1 = m * q + (r + 1) /\ r + 1 \in 0 .. m - 1 /\ a + 1 \in Nat
    BY <1>1, <1>3
  <2>2. (a + 1) % m = r + 1
    BY <1>1, <1>2, <2>1
  <2>3. r + 1 = m * 0 + (r + 1) /\ 0 \in Int /\ r + 1 \in Nat
    BY <1>1
  <2>4. (r + 1) % m = r + 1
    BY <1>2, <2>1, <2>3
  <2> QED
    BY <2>2, <2>4 DEF r
<1>4. CASE r + 1 = m
  <2>1. a + 1 = m * (q + 1) + 0 /\ q + 1 \in Int /\ 0 \in 0 .. m - 1 /\ a + 1 \in Nat
    BY <1>1, <1>4
  <2>2. (a + 1) % m = 0
    BY <1>2, <2>1
  <2>3. (r + 1) % m = 0
    BY <1>4
  <2> QED
    BY <2>2, <2>3 DEF r
<1> QED
  BY <1>1, <1>3, <1>4

IdInv ==
    /\ start \in 0 .. IdModulus - 1 /\ ids \in Seq(Nat)
    /\ nextId = (start + Len(ids)) % IdModulus
    /\ IdsAgree

\* RegistriesAgree: the first object offered under a name keeps it and its place in
\* the list, for any objects; a library is open once for each of its entries,
\* whoever loads and unloads it; and identifiers are consecutive.
THEOREM RegistriesAgreeHolds == RegistriesSpec => []RegistriesAgree
<1> USE RegistriesAssumption
<1>1. RegistriesInit => ListInv /\ LibraryInv /\ IdInv
  <2> SUFFICES ASSUME RegistriesInit PROVE ListInv /\ LibraryInv /\ IdInv
    OBVIOUS
  <2>1. ListInv
    <3>1. FirstOffers = {} /\ OfferedNames = {} /\ offered = <<>>
      BY DEF RegistriesInit, LogsInit, FirstOffers, OfferedNames
    <3>2. todo \in Seq(AnyLog)
      <4>1. /\ "Null" \in AnyLog /\ "StdoutLog" \in AnyLog
            /\ "RealTimeLog" \in AnyLog /\ "HistoricalLog" \in AnyLog
        BY DEF AnyLog, Default
      <4> HIDE DEF AnyLog
      <4>2. <<"Null", "StdoutLog", "RealTimeLog">> \in Seq(AnyLog)
        BY <4>1
      <4>3. <<"Null", "StdoutLog", "RealTimeLog", "HistoricalLog">> \in Seq(AnyLog)
        BY <4>1
      <4> QED
        BY <4>2, <4>3 DEF RegistriesInit, LogsInit
    <3> QED
      BY <3>1, <3>2, FS_EmptySet
         DEF RegistriesInit, LogsInit, ListInv, ListAgrees, NoObjects
  <2>2. LibraryInv
    <3>1. \A l : {p \in Path : entries[p] # 0 /\ LibraryOf[p] = l} = {}
      BY DEF RegistriesInit, LibrariesInit
    <3> QED
      BY <3>1, FS_EmptySet DEF RegistriesInit, LibrariesInit, LibraryInv, LibrariesAgree
  <2>3. IdInv
    <3>1. start \in 0 .. IdModulus - 1 /\ nextId = start /\ ids = <<>>
      BY DEF RegistriesInit, IdsInit
    <3> QED
      BY <3>1 DEF IdInv, IdsAgree
  <2> QED
    BY <2>1, <2>2, <2>3
<1>2. ListInv /\ [LogsNext]_logVars => ListInv'
  <2> SUFFICES ASSUME ListInv, [LogsNext]_logVars PROVE ListInv'
    OBVIOUS
  <2>1. CASE CreateLog
    <3>1. todo # <<>> /\ todo' = Tail(todo) /\ Head(todo) \in AnyLog /\ Tail(todo) \in Seq(AnyLog)
      BY <2>1, TailFacts DEF CreateLog, ListInv
    <3>2. CASE AddLog(Head(todo))
      BY <3>1, <3>2, AddKeepsList
    <3>3. CASE UNCHANGED <<logs, offered>>
      BY <3>1, <3>3, SameList
    <3> QED
      BY <2>1, <3>2, <3>3 DEF CreateLog
  <2>2. ASSUME NEW l \in OwnLog, AddOwnLog(l) PROVE ListInv'
    BY <2>2, AddKeepsList DEF AddOwnLog, AnyLog, ListInv
  <2>3. CASE UNCHANGED logVars
    BY <2>3, SameList DEF logVars, ListInv
  <2> QED
    BY <2>1, <2>2, <2>3 DEF LogsNext
<1>3. IdInv /\ [IdsNext]_idVars => IdInv'
  <2> SUFFICES ASSUME IdInv, [IdsNext]_idVars PROVE IdInv'
    OBVIOUS
  <2> USE DEF IdInv, IdsAgree
  <2>1. CASE GetNext
    <3>1. ids' = Append(ids, nextId) /\ nextId' = (nextId + 1) % IdModulus /\ start' = start
      BY <2>1 DEF GetNext, Id
    <3>2. Len(ids) \in Nat /\ nextId \in Nat
      BY SeqFacts
    <3>3. /\ ids' \in Seq(Nat) /\ Len(ids') = Len(ids) + 1 /\ DOMAIN ids' = 1 .. Len(ids) + 1
          /\ \A k \in 1 .. Len(ids) : ids'[k] = ids[k]
          /\ ids'[Len(ids) + 1] = nextId /\ DOMAIN ids = 1 .. Len(ids)
      BY <3>1, <3>2, SeqFacts, AppendFacts
    <3>4. nextId' = (start + Len(ids) + 1) % IdModulus
      <4>1. start + Len(ids) \in Nat
        BY <3>2
      <4> QED
        BY <3>1, <4>1, NextRemainder
    <3>5. \A k \in DOMAIN ids' : ids'[k] = (start' + k - 1) % IdModulus
      <4> SUFFICES ASSUME NEW k \in 1 .. Len(ids) + 1
                   PROVE  ids'[k] = (start + k - 1) % IdModulus
        BY <3>1, <3>3
      <4>1. CASE k \in 1 .. Len(ids)
        BY <3>3, <4>1
      <4>2. CASE k = Len(ids) + 1
        BY <3>2, <3>3, <4>2
      <4> QED
        BY <3>2, <4>1, <4>2
    <3> QED
      BY <3>1, <3>2, <3>3, <3>4, <3>5
  <2>2. CASE UNCHANGED idVars
    BY <2>2 DEF idVars
  <2> QED
    BY <2>1, <2>2 DEF IdsNext
<1>4. [RegistriesNext]_registryVars
      => [LogsNext]_logVars /\ [LibrariesNext]_libraryVars /\ [IdsNext]_idVars
  BY DEF RegistriesNext, registryVars, LogsNext, LibrariesNext, IdsNext
<1>5. ListInv /\ LibraryInv /\ IdInv => RegistriesAgree
  BY DEF ListInv, LibraryInv, IdInv, RegistriesAgree
<1> QED
  BY <1>1, <1>2, <1>3, <1>4, <1>5, LibrariesAgain, PTL DEF RegistriesSpec
=============================================================================
