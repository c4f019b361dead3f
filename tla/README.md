# Werk in TLA+

Werk is a C++ framework for low-latency applications: a main thread that must
not wait, a background thread that does everything that may take time (logs,
configuration, scheduled work), and the small data structures between them.
This directory holds TLA+ models of its stateful parts, TLC configurations that
check them on small instances, and TLAPS proofs of what should hold at any
size. Paths below are relative to `src/src/Werk/` unless they begin with
`src/`.

## 1. The system

### How the parts work together

    main thread                          background thread (a pass every 10 ms)
    -----------                          --------------------------------------
    Context::run()                       background ActionQueue
      main action / TimeSeriesReplayer   AsyncLog::execute()   <- log queue <- all threads
      foreground ActionQueue             Config::execute()     <- latch <- reloadConfig()
      watchdog latch reset      ------>  Watchdog::execute()
      IpcConsoleServer/Receiver          Scheduler::execute()
        -> CommandManager                the application's own tasks
    Context::shutdown() -> BackgroundThread::stop() -> join

    IpcConsoleClient processes  --- message queue in shared memory --->  IpcConsoleServer

Everything that two threads share is a queue (log messages, actions, console
messages), a latch, an atomic pointer (the active configuration), or, in a few
places, plain memory: the vector of tasks, the counter of a console client, the
`_stopped` flag, the clocks.

### Inventory

**AsyncLog** (`Logging/AsyncLog`). State: the next number to give, a lock-free
queue of 4096 messages, the number the writer expects, the file. Operations:
`log`, `logRaw` on any thread; `execute` in the background. Hard: a producer
takes its number and pushes later, so producers overtake each other; a full
queue loses the message without telling anyone; the alarm about wrong numbers
follows what was received. Correct when each number is written, queued, with its
producer or lost; when a loss shows in the file; when the order of each thread
is kept; when everything written is flushed.

**BackgroundThread** (`Threading/BackgroundThread`). State: a vector of tasks,
an index, `_running`, `_stopped`, two clocks. Operations: `addTask`, `stop`, the
loop. Hard: tasks are added while the loop runs; stop and destructor both stop;
the break out of the loop comes after the tasks. Correct when a pass runs all the
tasks it began with, in order, and when the last pass leaves nothing behind.

**Config** (`Config/Config`, `IniConfigSource`, `MapConfigSource`). State: two
maps of values and an atomic pointer to the active one, two latches, sources,
configurables. Operations: request (any thread), reload (background), reload of
the configurables (main), reads (any thread). Hard: a request during a reload, a
change during the round of the configurables, pointers into a map that a later
reload clears, sources that fail half-way. Correct when no request or change is
lost, and no value is stale, from the wrong source or freed too early.

**ScopedConfig, Units, Booleans**. State: a list of scopes over a `Config`.
A read finds the innermost scope that has the key, then reads the key again.
Hard: a reload between the two; units that begin with each other; texts that are no
number or too large; decimals, which are read as doubles, multiplied and cut off.

**Watchdog** (`Threading/Watchdog`). State: a latch, the time it was last seen
reset, a count of misses. Operations: `reset` (main), `execute` (background).
Hard: its clock stands still during a pass and its turn is late; time zero
means "not started". Correct when it acts once for each hang, within a bounded
time, and never for a main thread that was alive.

**Scheduler, Timer** (`Threading/Scheduler`, `Threading/Timer`). State: a
multimap from due times to tasks with interval and repeat count; the last time
and the count of a timer. Hard: late passes, a clock set back, tasks that
schedule tasks. Correct when the scheduler makes exactly the runs that are due,
the timer never makes up for missed ones, and a pass returns.

**ActionQueue, Action, Latch, Counter**. Queues of single-use actions with a bound of
1024 that is not reported, drained until empty; small actions that hold and call
others, some of them only if a latch is set that anyone may set. Correct when each
action is executed once for each call that reaches it.

**Context** (`Application/Context`). State: `_quitting`, the components above,
which of its three logs is its log. Operations: construction, `run` (main loop),
`shutdown`, destruction, signals. Hard: the background thread runs while the
constructor is still adding its tasks and loads the configuration twice itself;
shutdown from several places; lines that are logged while the last pass runs;
reloads after the start. Correct when only one thread at a time reads the sources
of the configuration, the shutdown actions run once, no task runs afterwards, and
a context that was told to quit is gone in the end.

**IPC console** (`Console/`, `src/src/IpcConsoleClient`). State of a client: a
counter that its two threads share. State of the server: a bounded queue, last
number and time of each client, one flag for "somebody is connected". Hard:
equal and skipped numbers, a full queue, clients of another version, clients
that stop at any moment, time-outs. Correct when every accepted command is
executed once and in order, and a client is given up only after silence.

**Commands** (`Commands/`). State: a map of commands and the history.
Hard: commands that execute commands (aliases, actions, redo), and a reference
into a vector that grows. Correct when every command returns, the history holds
what people typed, and a redo repeats no redo.

**Replay** (`Data/`). State: a multimap of sources by the time of their next
record, a simulated clock, each parser's buffers, the jitter. Hard: a source is
advanced before the event of its record is handled; sources out of order; gaps;
jitter larger than the distance of records. Correct when the clock never goes
back, each usable record is delivered once, with its own data and time, and the
replay ends.

**Parsers** (`Data/Csv`, `Data/Pcap`). State: the open file, one or two buffers.
Hard: quotes and commas in cells, the end of a file in the middle of a line or
record, the two units of time of a capture. Correct when what was written comes
back, and nothing else.

**SlidingWindow, SlidingSummaryStatistics, Throttle**. State: a ring buffer
with running sums. Hard: unsigned indexes that wrap around, a reset that tells
no subclass. Correct when the ring is a queue of the latest samples, the sums
are those of its contents, and the throttle keeps its limit.

**Profiling** (`Profiling/`, `Math/OrderStatistics`). State of a profile: a count,
the samples since the last fractiles, a summary for each fractile. Operations:
start, stop and restart on the thread that is timed; writing on the main thread.
Hard: warm-up and two boundaries of counts; the main thread sorts and clears what
the background thread is adding to. Correct when every sample is in one statistic,
once, and a fractile is the sample of its rank.

**Mathematics** (`Math/`). Figures that are updated in place for each sample:
averages and sums of squares, ranges, weights, regressions, moving averages.
Correct when they are the figures of the samples, in whatever order these came.

**Registries and small services**. Logs and threads by name; dynamic libraries
that their users share; identifiers; a log that writes at once; random bytes and
processor masks. Hard: a registration inside an `assert`, a pointer that another
user's unload frees, a line that is printed in three calls.

**Left out**: the log that writes at once, the calls of the system (random bytes,
processor masks, the descriptions of the hardware), the benchmarks and the example
program, and the handlers of crashes. `PROJECT.json` lists each with
its reason.

## 2. Modules

| module | code | composes / used by |
|---|---|---|
| `AsyncLog` | `Logging/AsyncLog`, `LogMessage` | implements `LogContract` |
| `LogContract` | what a log promises its threads | |
| `ConfigReload` | `Config/Config`, `IniConfigSource` | |
| `Conversions` | `Utility/Units`, `Booleans`, `std::sto*` | used by `ConfigReads` |
| `ConfigReads` | `Config/ScopedConfig`, the getters of `Config` | extends `Conversions`; `MCBackground` |
| `Lifecycle` | the constructor, `run`, `shutdown` and the destructor of `Context`, the loop of `BackgroundThread`, `ActionQueue`, `OS/Signals` | joins logs, configuration and queues, each reduced to what the loop sees |
| `TaskList` | `BackgroundThread::addTask` beside the loop | `MCBackground` |
| `Profiles` | `Profiling/`, `Math/OrderStatistics` | extends `Summaries`; `MCBackground` |
| `Timers` | `Threading/Scheduler`, `Threading/Timer` | `MCBackground` |
| `Watchdog` | `Threading/Watchdog` | `MCBackground` |
| `Console` | `Console/`: the messages of clients and a server | |
| `ConsolePrograms` | `src/src/IpcConsoleClient`, `src/src/IpcConsoleCleanup`, the queue's name: the processes around it | `MCUtilities` |
| `Commands` | `Commands/` | `MCUtilities` |
| `Replay` | `Data/`: the replayer with CSV, PCAP and jitter sources | `MCReplay` |
| `Formats` | `Data/Csv/CsvParser`, `Data/Pcap/PcapParser` | `MCReplay` |
| `SlidingWindow` | `Utility/SlidingWindow`, `Throttle`, `Math/SlidingSummaryStatistics` | extends `Summaries`, `Arithmetic`, implements `WindowContract`; `MCUtilities` |
| `WindowContract` | what a sliding window promises | |
| `Summaries`, `Statistics` | `Math/`: formulas on records, and the figures with their samples | `MCUtilities` |
| `Actions` | `Utility/Action`, `Latch`, `Counter` | extends `Arithmetic`; `MCUtilities` |
| `Registries` | `NamedObjectManager`, `LogManager`, `DynamicLibraryManager`, `IdGenerator` | `MCUtilities` |
| `Arithmetic` | sums over functions, and powers | used by `SlidingWindow`, `Actions`, `Statistics` |
| `Multimap` | `std::multimap` by time, as a sorted sequence | used by `Timers`, `Replay` |
| `Bits` | `Utility/Bits`: functions, compared with their definitions by `ASSUME` | `MCUtilities` |
| `MC*` | values for the constants of TLC runs; three of them choose between specifications that share no state | |
| `AsyncLogProofs`, `ConfigReloadProofs`, `ConsoleProofs` | theorems about the module of that name | |
| `ReplayProofs` | theorems about `Replay`, `Formats` | |
| `LifecycleProofs` | theorems about `Lifecycle`, `Registries` | |
| `BackgroundProofs` | theorems about `TaskList`, `Profiles`, `Timers`, `Watchdog`, `ConfigReads` | |
| `UtilitiesProofs` | theorems about `Commands`, `ConsolePrograms`, `SlidingWindow`, `Actions`, `Statistics` | |
| `DataLemmas` | facts about sequences, multimaps, sums, powers, remainders, sorting and least squares, and induction with a set as its parameter | cited by the others |

Parts that share no state are checked side by side: in `MCBackground`,
`MCReplay` and `MCUtilities` a behaviour takes the steps of one of
the specifications (`part`) and leaves the variables of the others as they were.
Their product would only repeat each of them.

Conventions: a variable has the name of its member without the underscore, or a
comment gives it; a history variable is declared as such and no action reads it;
definitions named `Mutant...` are plausible bugs, stand beside the definition
they replace, and are used by no specification; every bound is a constant.

### State and steps

*AsyncLog.* `TakeNumber(p)` is the `fetch_add` of `AsyncLog.cpp:45`, `Push(p)`
and `Drop(p)` the `push` of line 65 (or 86); any number of other steps lies
between. The writer's `BeginExecute`, `PopAndPrint` and `EndExecute` are one
iteration each of the loop at line 94. `file` keeps for each line its number,
its thread, and the number that was expected, which differs when the alarm was
printed. The queue's nodes come from a fixed pool, and a popped node goes back
only when its memory is free again, so `HasRoom` is the bound of the queue.
The refinement mapping gives `LogContract` the messages that are written, lost
and still on their way.

*ConfigReload.* `Execute` is cut at each access to shared memory:
`SeeRequest`, `ResetRequest`, `Clear`, `LoadSource` once per source, `Swap`,
`SetChanged`. The main thread has `SeeChanged`, `ResetChanged`, and for each
configurable `TakePointer` and `UseValue`. A value is a pair of a source and of
the version of the files; `LoadSource` may fail after any part of the file.
`GraceOfOneReload` is about the pointers that `getStringRaw` gives out.

*ConfigReads.* `BeginRead`, then one step per scope (`NextScope`, `Found`,
`NotFound`), then `EndRead`, the second look-up of the getter; `Swap` may happen
before each. `Conversions` has `ParseUnits`: the unit is the one whose letters are
equal to those of the text, of which some begin with others; the number is rounded to
a double (`DoubleOf`), the product is rounded again (`InUnits`), and the cast cuts it
off (`Cast`), to any number at all if it does not fit. A double is a whole number up to
`Significands` (2^53) times one of `Places` (the powers of two); an integer is below
`IntegerModulus` (2^64).

*Lifecycle.* `main` is the place of the main thread. The constructor goes through
the phases its comments name (`Bootstrap`, `AddStdoutLog`, `AddSources` and
`LoadSources` twice, `AddConfig`, `AddRealTimeLog`, perhaps `AddHistoricalLog`,
`AddComponents`, `AddScheduler`, `StartupCommands`); most of them give the
background thread a task, and `tasks` is the list of their kinds. The application
adds its own (`AddUserTask`) and calls `run()` or not: `SetUpRun`, the loop of
`Top`, `MainAction`, `RunForeground` and `Commands`, then `BeginShutdown`,
`ShutdownActions`, `Stop` and `Join`, and the destructor. The background thread
walks `tasks`: a line, an action or the beginning of a load is a step of the task
whose turn it is, `EndTasks` leaves the walk, and `EndPass` reads `_running`.
Each of the three logs has its count of queued lines; `Log`, `LogOne` and `LogTo`
add to them wherever the code logs, and a full log drops the line.

*TaskList.* `push_back` on a full vector is: construct in the new buffer, free
the old, set the start, set the end; the loop reads the end and the start in
separate steps. Where it reads freed memory or past the end, what it calls is no task
that was added (`stray`); where its two reads are of different buffers, their difference
may let it go on or end. `settled` says that the vector has not grown since the pass
began: only of such a pass does `PassIsComplete` speak. `capacity` is that of the vector,
which doubles.

*Watchdog.* `now` is the real time, `clock` the one the pass was given. `Tick`
is bounded by `MaxLag` (from the start of a pass to the watchdog's turn) and
`MaxPeriod` (from pass to pass).

*Timers.* A pass sets `passTime` and drains the multimap `agenda`;
`RunAndSchedule` is a task whose action schedules another one; `runs` counts the runs
of each task, without a bound. `Adjust` sets the
wall clock back, `SetTimerCount` is `setCount()`.

*Profiles.* The background thread's are `StartTask`, `CountSample` (`stop()` up to its
count) and `StopTask` (the rest, which may fill a bin); the main thread's are
`Restart`, `EndUpdate`, `ResetProfile` and `Write`, which then goes through the
profiles by name: `CheckSamples`, `TakeFractile` once for each of the values of
`sampleFractiles()`, `ClearSamples`, `PrintProfile`. Each `TakeFractile` sorts the
samples if there are new ones and reads one of them (`Taken`), so that samples which
arrive meanwhile are in some of the fractiles and not in others. A profile for which
this happens is `torn`, and only of the others the exact statements hold;
`LeaveNoDataOut` is what the comment says of all, and is violated. A summary is a
record of fractions, so that averages are compared exactly.

*Console.* `Compose`, `TrySend` or `Fail`, `LoadNumber` and `StoreNumber` are
`send()` up to its non-atomic increment, once for each thread of a client. The
server receives until `receive()` is false, then updates.

*ConsolePrograms.* `queue` is which queue has the name in shared memory, `own` and
`reached` are the queues that a server created and a client opened: removing the
name takes neither away. `CrashServer` leaves the name behind, `FailToStart` is the
next application that finds it there, `CleanUp` the program that removes it. A
client goes through its arguments, its input and the join; its second thread
beats until it is told or has failed `AllowedFailures` times.

*Commands.* Nested calls of `execute()` are all in tail position, so one
variable holds the innermost. A line is known by its first word and by whether
it is exactly that word. The reference that redo passes on may point to moved
memory, hence the two texts in `Text`. `NewCommandAction` makes an action for the
scheduler, which later bypasses the manager (`ExecuteAction`). `RedoWords` are the
words that end in a redo, through any chain of aliases.

*Replay.* One event or one gap per step, with the parsers' `current` and
`previous` record beside the source's position; `agenda` is the multimap of sources by
their next time, `toAdd` the sources that are still to be given to it.

*Formats.* `ReadLine` splits a line as the parser does, from comma to comma, with
`Cleaned` for blanks and quotes; `Flip` is the exchange of its two buffers.
`OpenCapture` chooses a capture that may be cut off anywhere; `ReadRecord` gives a
packet out, `ReadNoRecord` is the end, a record that is not all there or one longer
than the buffer.

*SlidingWindow.* All four kinds of window over one ring; an index is the
remainder of the time modulo `Modulus`. The throttle has actions of its own for
what it lets its users do.

*Statistics.* One figure per behaviour, with the samples since its reset; the
factor of a `ContinuousEma` is a power of two, so that it stays a fraction.

*Actions.* The calls to come are a stack of actions; `SetByOther` is a thread or a
signal that sets the latch meanwhile.

*Registries.* `CreateLog` is a log of the constructor of `Context`, registered
inside an `assert` and so only in some builds (`asserts`); libraries have users,
each with its pointer.

## 3. Runs

Fairness is weak fairness of threads that go on as long as the process is there:
`Execute` of the log and of the configuration (the background thread has no wait but a
sleep), `Main` and `Background` of the life cycle, the drain of a console server, the
replayer in the main loop, and both threads of a console client (`MainThread`,
`HeartThread`): what a client reads is its script, and where that leaves the input open
its main thread waits for ever. Nothing is assumed of clients, users, signals, clocks,
other processes or the files. In the modules that run specifications side by side the
fairness is of the chosen one (`part = ... /\ ...`). Each property has a mutant, a
plausible bug in one definition, that TLC finds.

| run | instance | checks |
|---|---|---|
| `async_log` | 3 threads, 5 messages, queue of 2 | `LossIsReported`, `ThreadOrder`; `ImplementsContract`; `QueuedIsWritten` |
| `config_reload` | 2 sources, 1 key, 2 configurables, 2 requests, 2 edits | `RequestServed`, `ConfigurablesSettled`, `NoStaleValue`, `GraceOfOneReload`; `RequestIsServed` |
| `lifecycle` | 3 logs of one line, queue of 2 actions, up to 7 tasks | `FinalPass`, `OneLoader`; `ShutdownCompletes` |
| `lifecycle_last_lines` | the same | violates `LastLinesWritten` |
| `background` | *list:* 6 tasks added, with 4 reallocations; *profiles:* 2 tasks of one name and the 2 of the main thread, 4 values for each bin, bins of 3 and of 2, a warm-up of 1 for one of them, 3 samples; *timers:* 2 tasks of 3 kinds, a timer of interval 2, time up to 5, one adjustment; *watchdog:* interval 3, one miss, lag 1, period 2, time up to 20; *reads:* 2 scopes, 2 reloads, 1 read, all getters, integers and doubles of 6 bits | `PassIsComplete`; `NothingLeftOut`, `FractilesAreRanks`; `RunsAreExact`, `TimerSpacing`; `ActionOnce`, `HangIsNoticed`, `AlarmMeansSilence`; `StableScopeIsRead`, `WholeAmountIsExact`, `DecimalIsClose` |
| `background_profiles` | the same | violates `LeaveNoDataOut` |
| `console` | 2 clients, one with a heartbeat thread, 4 sends, queue of 2, time up to 3 | `ExecutedOnceInOrder`, `NoFalseWarning`, `DisconnectedMeansSilence`; `CommandIsExecuted` |
| `replay` | *replay:* a CSV and a PCAP file of up to 3 records with times up to 3, with and without jitter; *csv:* 3 lines of up to 2 cells of each kind; *pcap:* 2 packets of 6 kinds, both units of time, cut off anywhere | `DataOfEvent`, `AllDelivered`, `OnTime`, `Completes`; `FilesAreRead` |
| `replay_packets` | the same | violates `PacketOfEvent` |
| `utilities` | *windows:* ring of 3, duration 1, indexes modulo 4, time up to 5; *figures:* 3 samples of 3 values; *actions:* 9 actions of all classes, 4 calls, counters modulo 16; *registries:* 4 and 3 logs, 2 users of 3 paths to 2 libraries, 5 identifiers modulo 8; *commands:* one word of each kind, three aliases, one of them of another, 4 lines or actions, a history of 6; *programs:* 2 runs of the application, a client with several scripts, queue of 2, 3 failures | `WindowIsExact`, `ImplementsContract`; `FiguresAreExact`; `ActionsAreExact`; `RegistriesAgree`; `NoDoubleRedo`; `ServerIsReached`, `QuitEnds`; the assumptions of `Bits` |
| `utilities_logs` | the same | violates `LogsAreRegistered` |
| `utilities_sum` | the same | violates `SumIsOfContents` |

Most modules also state a type invariant, with the bounds of queues and the order
of multimaps. All of them are proved (section 4), that of `TaskList` as a part of
`ListInvHolds`; no run repeats the shape of the state. Some further
properties are stated beside those of the runs: `Accounting`, `AlarmOnlyOnLoss` and
`FlushedWhenIdle` (`AsyncLog`), `NoTaskAfterShutdown` and `ShutdownOnce`
(`Lifecycle`), `HistoryIsHuman` (`Commands`) and `LaterSourceWins` (`ConfigReload`)
are proved.

Why these bounds are enough:

* *async_log*: two messages fill the queue, the third is lost, and two more come
  after it, so a gap in the numbers is followed by a normal line; three threads
  overtake each other in every way.
* *config_reload*: both buffers are used twice, a request or an edit falls in
  every step of a reload, and a pointer taken before the first reload meets the
  second.
* *lifecycle*: the list has every kind of task, with logs before and after the
  configuration, with and without the historical log, the watchdog and a task of
  the application (`MaxTasks` bounds only those); a log is empty or full (a
  capacity of two gives the same answers), and the queue of actions can be
  partly filled too, so that both kinds of action stand in either order.
* *background*: six tasks are pushed with four reallocations, and twice in place
  (to a capacity of four and of eight), while the loop is anywhere in the vector; a
  profile goes through its warm-up and fills a bin, by its samples or by two of them
  and the writing, which may begin, go on and end at any step of the thread that
  samples; a late pass has up to three missed runs to make up for, and the
  adjustment can come before, between and after them; 20 units are two complete
  hangs and the recovery between them; the key of a read is in no, one or two scopes and
  moves between them meanwhile, and the texts have whole numbers and decimals, no unit,
  each unit, one that begins as another and numbers at the width of the integers and of
  the doubles, among them decimals whose amount comes out one less and one more.
* *console*: the queue fills while a number is being taken, and the time-out
  passes twice.
* *replay*: three records are the fewest in which an unordered one stands
  between two others, and gaps of up to three time-outs occur; two cells have a
  first and a last one, and three lines are the buffers' first, second and first
  again; packets are empty, as large as the buffer and larger.
* *utilities*: the ring is filled, slid and overwritten, and the indexes wrap around in
  it; three samples are the fewest whose figures depend on an order; a list of actions
  holds one of them both itself and through a conditional pair; two logs have the same
  name; four lines are a line, its redo, a redo of that and one more, and the history
  moves at its first, second, third and fifth entry; two runs of the application are
  enough for one that crashes and one that finds its queue.

Where deadlock is not checked, the bounded system may stop: no request, edit,
line or sample is left, or the replay is complete.

### Disagreements, as runs

* `lifecycle_last_lines`: the comment at `Threading/BackgroundThread.cpp:75` says
  that the loop breaks after the tasks "to ensure that the last few lines of logs
  get written". The main thread can log between the turn of the log in the last
  pass and the read of `_running`: those lines stay in the queue. What does hold
  is `FinalPass`: what was queued when the last pass began is dealt with.
* `replay_packets`: the comment at `Data/TimeSeriesReplayer.cpp:87` says that "all
  state is updated" when the main action is called. The source has already moved on
  (line 84), and a `PcapParser` has one buffer: in the event of a packet it holds the
  next one. `DataOfEvent` is what holds, for CSV files and their `lastValues()`.
* `utilities_logs`: the logs are registered by calls inside `assert`
  (`Application/Context.cpp:77`, `Logging/LogManager.hpp:45`), which a release
  build leaves out. `RegistriesAgree` is what holds in both builds.
* `background_profiles`: the comment at `Profiling/ProfileManager.hpp:60` says "Leave
  no data out". A sample of the background thread that arrives between the fractiles
  and the clearing of its profile is counted and is in none of them
  (`Profiling/Profile.hpp:108`). `NothingLeftOut` is what holds of the other profiles.
* `utilities_sum`: `SumSlidingWindow` is "a sliding window that keeps a sum"
  (`Utility/SlidingWindow.hpp:136`); `reset()` empties the ring (line 81) and leaves
  the sum, which is that of nothing from then on. What a reset left is `excess`, and
  `WindowIsExact` is about sums only where that is 0; of statistics, which have a
  `reset()` of their own, it is about all.

### Further disagreements met while modelling

These are stated in the modules, with what a comment or the documentation says,
and the code does not keep them. No run is devoted to them.

* `ForegroundOnMain` (`Lifecycle`): `foregroundActionQueue()` returns the
  background queue (`Application/Context.hpp:104`; `src/README.md:223`).
* `ReloadPropagates` (`Lifecycle`): configurables are reloaded once, when `run`
  starts (`Application/Context.cpp:453`; `src/README.md:144`).
* `PassesEnd` (`Lifecycle`): the log's loop goes on while lines keep coming
  (`Logging/AsyncLog.cpp:94`; `src/README.md:117`).
* `NeverStray` (`TaskList`): tasks are added to a vector the thread is reading
  (`Threading/BackgroundThread.hpp:105`). While it grows, a pass may also end early and
  miss tasks, which is why `PassIsComplete` leaves such passes out.
* `DecimalsWork` (`ConfigReads`): an amount is "a double so decimals will work"
  (`Utility/Units.cpp:99`), and its product is cut off (line 101): a decimal whose
  nearest double is less than it says may lose one. 0.3 of 50 is 14 with doubles of 6
  bits, as `1.001us` is 1000 with those of 53. `DecimalIsClose` is what holds.
* `ConnectedWhileHeard` (`Console`): a known client that falls silent and comes
  back does not count as connected (`Console/IpcConsoleServer.cpp:67,114`).
* `ProgramEnds` (`ConsolePrograms`): at the end of its input the client waits for
  its heartbeat thread, which goes on as long as a server reads
  (`src/src/IpcConsoleClient/Main.cpp:127`).
* `PrimaryOverridesAll` (`ConfigReload`, with `MCSourcesWithSecondary` as its
  sources): secondary configurations override the primary one
  (`Application/Context.cpp:111`).
* `ProfilesPathValid` (`ConfigReload`): the path kept for the exit dangles after
  two reloads (`Application/Context.cpp:248`).
* `RedoRepeats` and the unconditional form of `NoDoubleRedo` (`Commands`): a redo
  with blanks, arguments or an alias is repeated for ever, and the line that is
  repeated may have been moved away (`Commands/RedoCommand.cpp:40-45`).
* `ReadOfOneConfiguration` (`ConfigReads`): a key that moves between scopes
  during a read can be missed in both (`Config/ScopedConfig.cpp:47`).
* `PointersStayValid` (`Registries`): the first `unload()` of a shared library takes
  it from all who loaded it (`OS/DynamicLibraryManager.cpp:69`).
* `ContinuousEma::setValue()` before the first sample leaves an average without an
  index, and the next sample makes it no number at all (`SetContinuous` in
  `Statistics`).

Seen in the code and outside the models: `CpuMask::apply()` "returning true on success"
(`OS/CpuMask.hpp:50`) returns true if the call failed (`OS/CpuMask.cpp:68`); two threads
that share a `SyncLog` tear each other's lines (`Logging/Log.hpp:103-105`), though
nothing in the repository shares one; `BackgroundThread::mainClock()` returns the
background clock (`Threading/BackgroundThread.hpp:108`); a missing log path leads
to stdout, not stderr (`Application/Context.cpp:139`; `src/README.md:187`); the
handlers of crashes announce five seconds and sleep for one
(`OS/Signals.cpp:52-53`); scheduled commands are in the settings and commented out
(`Application/Context.cpp:343-357`); `CommandManager::logTo()` logs its list to its
own log, not to the one it is given; a header line of a historical CSV file is never
read as one, and its text would leave `std::stoll` with an exception; the parser
skips a line of one empty cell, and takes a quote after a blank for a part of the
cell; a `PcapParser` that is asked again after a record that was too long reads on
in the middle of it.

## 4. Proofs

TLAPS proves every invariant, every action property and every refinement that a
passing run checks, but for `DecimalIsClose`, and the type invariants, for all values
of the constants. The only
assumptions are the named `ASSUME`s of the modules:

* finitely many producers, actions and paths of libraries; positive capacities;
  natural numbers for sizes and times; integers for samples and for the numbers of
  texts;
* sequences of sources that are each added once; no action within itself, which the
  code could only wire as a call that never returns;
* indexes wider than the duration of a window; a counter whose initial value fits its
  width; an even number of integers, half of which are negative if they are signed;
* fractions below one; units with letters, no two with the same, the larger before the
  smaller; doubles among which are the whole numbers up to `Significands`; the share of
  an average between 0 and 1;
* cells of letters, commas and blanks: `Letters` may be any set without the quote.

None of them bounds an instance: where a constant only keeps TLC finite (`MaxTime`,
`MaxMessages`), the proof holds for each of its values.

**AsyncLogProofs.** `AccountingHolds` needs to know of each number that it is in
exactly one of four places (producer, queue, file, lost); `OnceInItsPlace` and
`Places` say so, and one lemma per action moves a number from one place to another.
`LossReported` rests on `Linked` and `GapsSpanned`: the expected number of a line is
that of the line before plus one, so whatever lies between two lines without an alarm
is nothing. `ThreadOrderHolds` rests on `OrderInv`: what a thread has in the file is
below what it has in the queue, and that is below the number it holds. `NoFalseAlarm`
adds `Chained`, from which an alarm with a single logging thread names a lost number.
`Implementation` proves the refinement of `LogContract` step by step.

**ConfigReloadProofs.** `NoRequestLost`, `GraceHolds`, `NoChangeMissed` and
`NothingStale`, each with an invariant of its own: `RequestInv` (an answered latch
belongs to a load that began later), `GraceInv` (a pointer into the active buffer is
as old as the last swap), `SettledInv` (a configurable that has been called in this
round has seen the last swap unless a change is announced) and `FreshInv` (the buffer
being filled holds nothing older than its clearing).

`LaterSourceWinsHolds` needs `PriorityInv`: the sources still to be read are the ones
after the last that was read, the buffer has values of the ones before only, and each
key has that of the last of them that gave it.

**BackgroundProofs.** `PassIsCompleteHolds`: `VectorInv` relates the two pointers of the
vector to its size and to where `push_back` stands, and `PassInv` says that a pass
during which the vector does not grow has executed exactly the tasks before its index,
and has read an end behind all that it began with. In `Timers` the
multimap holds each task that is to run again once, under the time its count of runs
gives it; `RunsAreExactHolds` and `TimerSpacingHolds` follow. `ActionOnceHolds` is an
action property; `NoEarlyAlarm` is from `LagInv` (the time the watchdog notes for a
reset is older than the reset by at most the lag), and `HangIsNoticedHolds` from
`HangInv`: the last pass that the watchdog took part in is no later after the last
reset than its count of misses allows.

`NothingLeftOutHolds` and `FractilesAreRanksHolds` are about profiles that are not torn,
at any point of the steps that sample and write them (`ProfilesInv`). `IsIntact` says
what is known of one in each phase: while it is not being written, its count is that of
its warm-up, its past bins, its bin and, between the two steps of `stop()`, one
(`IsBalanced`); while it is, what waits is in the latest bin (`IsSummed`); and while its
fractiles are read, those read so far are ranks of that bin, and what is there to be
read is of the ranks that are left (`IsTakenTo`), although the first read sorts it.
`Sorting` gives a permutation of the bin which is in order, and `RankCounts` says that
fewer than j samples are smaller than the j-th of it, and at least j smaller or equal.
`StableScopeIsReadHolds` rests on `ReadInv`: as long as every configuration since the
beginning of a read has the key in one place, the reader is not past that place while it
looks for it, and is there when it has found it. `WholeAmountIsExactHolds` needs of the
state only that the result is an outcome of `ParseUnits` for the text that was found
(`AmountInv`). The rest is about the table and the doubles: the first unit that has the
letters is the only one (`MultiplierIsSize`), a whole number below `Significands` is a
double (`WholeIsDouble`), what is a double is its own nearest (`NearestOfDouble`), so
neither rounding changes anything (`InUnitsIsExact`), and neither does the cast of what
fits (`CastIsExact`).

**LifecycleProofs.** `StartInv` says where the constructor has put the tasks by the
time it reaches each place: every log that is in use and the queue of actions have a
task, and the configuration has none while the main thread is at its sources, from
which `OneLoaderHolds`. `FinalPassHolds` needs `DueInv` with it: what was due when the
pass began and belongs to a task that had its turn is done, and every kind has a turn.
`NoTaskAfterShutdownHolds` and `ShutdownOnceHolds` are from `ShutdownInv` (where the
main thread is decides how far the shutdown is). `RegistriesAgreeHolds` has an
invariant for each registry; that of the logs (`ListInv`) says that the names known
are those that were offered, and `AddKeepsList` that a new one is listed behind all
others.

**ConsoleProofs.** `Pending` ties what was accepted to what was executed and what is
in the queue, from which `ExecutedOnceInOrderHolds`. `InSequence` follows the numbers
of a client with a single thread from the server's record of it through the queue to
the client's counter (`NoFalseWarningHolds`). `Timely` says that no client was heard
later than the server's last heartbeat (`DisconnectedMeansSilenceHolds`).

**ReplayProofs.** `SourceOK` says of each source which of three states it is in: not
added yet, waiting in the multimap at the time of the record after those it has given
out (`InStep`), or without a usable record left (`IsDone`). `DataOfEventHolds` and
`AllDeliveredHolds` follow; `OnTimeHolds` is an action property. `FilesAreReadHolds`
is in two parts. For lines: whatever the contents of the cells are, the parser's comma
is the first that no quote encloses (`Find` is unique), and by induction on the number
of cells the line splits into what was printed (`SplitsInto`, `StandsAt`); with that
`CsvInv` says that the two buffers are the last two lines. For captures: `PcapInv`
says that the records that are left to read are the last of those captured, and
`TimeIsInUnit` that a time survives either unit as far as the unit goes.

**UtilitiesProofs.** `NoDoubleRedoHolds` needs `RedoInv`: a line that a redo executes
is in the history and is not the bare word, so a second redo was disguised.
`HistoryIsHumanHolds` adds to the balance of the counts the entry that is still to
come. `ServerIsReachedHolds` is from `ReachInv`: no two servers own one queue.
`WindowImplementsQueue` is the refinement of `WindowContract` step by step; its
invariant `RingInv` orders the times from the front and keeps the oldest within a
round of the index, so that the remainder of the difference is the difference
(`AgeOfTime`). `WindowIsExactHolds` has two parts. `ThrottleLimitHolds`, about
throttles, is from `SlotInv`: as many of the latest uses as there are elements in the
ring are no younger than these, and all others are older than the duration. For
windows `SumInv` says that the sum and the statistics tell of the contents of the ring
(`Tells`): the weight is how many there are, the average their sum over that, and the
sum of squares what the squares exceed it by; of a running sum it says that it is that
of the contents and what the last reset left (`excess`), so the theorem is about sums
where nothing was left. `MomentsMove` is the heart: the update
in place of an average and of a sum of squares, for a value that comes or for one that
goes, is exact as long as it is not the last one that goes, which is where the code
resets them. `StatisticsAfterTells` repeats it for as many as `slide()` removes.
`WindowsTypeCorrect` adds that no sum ever becomes negative.

`ActionsAreExactHolds`: an action was called as often as it was executed and stands on
the stack (`CallsAreExecuted`), where its calls are those that were asked for and,
summed over all actions, how often it occurs in those that called it; an execution
changes one term of that sum. The counter is its initial value after as many
increments (`CounterIsExact`), a power of the factor if it multiplies.

`FiguresAreExactHolds` is the longest proof, as each figure has a definition of its
own. `FiguresInv` keeps the sums behind the figures. Summaries and regressions rest on
`MomentsMove`, with weights of one. That the regression's line is that of least
squares is `ErrorsCancel`; that a correlation is at most one, and one only without
errors, is the inequality of Cauchy and Schwarz, here a sum of squares of errors
(`ErrorsAreSquared`). The cumulative weights of a distribution add up to its sum. An
average is within any bounds that all samples are in (`IsWithin`), hence within the
least and the greatest; and what is left of each sample after others came is the power
of the decay that its time gives (`IsDecayed`, `Lasting`).

**DataLemmas** has the facts that these proofs cite: appending to and taking from
sequences, inserting into and taking from a multimap, remainders, powers, and the
least number of a set. From the latter follow two principles of induction whose
parameter is a set and not an operator (`NaturalsByInduction`, `SubsetsByInduction`),
so that they can be cited; from these what a sum is, which the library defines as a
fold: `TotalRemove`, `TotalLinear`, `TotalShift` and others. The last section has the
sums of products that least squares are about.

What the attempts showed:

* `NoDoubleRedo` exempted as disguised only an alias of a redo; with chains of aliases
  that was too little, and `RedoWords` follows them now.
* A run count of the timers that stops at a bound says nothing beyond it. The count is
  unbounded now, and the time bounds the instance.
* A bound on the sum of all sends was no part of what the console needs; it is a guard
  of the instance and not of the type invariant.
* `Slide` of `WindowContract` was a selection of the samples that are young enough. As
  samples are in the order of their times, those that go are a prefix, and the
  contract says just that now. `RegistriesAgree` selected the first offers in the same
  way; it states the place of each in the list instead.
* `LaterSourceWins` is false if a source is added twice, at two places of the order.
  The code never does that, and `DistinctAssumption` says so.

* The type invariant of `SlidingWindow` bounded the count of its statistics by
  `MaxCount`, which only bounds the samples: what slides out counts too
  (`Math/WeightedSummaryStatistics.hpp:57`). TLC agreed that it was false; it says a
  natural number now.
* That of `ConfigReads` is not inductive: a read that has found no scope stands at the
  key itself only if there are no scopes.
* Selections of a subsequence are recursive. The tables of units and the lines of a
  file select the first place that fits instead, and that place is unique.
* Recursion is written as functions local to a definition; a proof says what such a
  function is at each place (`IsAfter`) and that there is one.
* A sum of fractions is a fold of its own (`FractionTotal`). Where the terms need not
  be in lowest terms, equality is that of the cross products (`Equals`).
* Nothing can be proved to be a member of `STRING`; the letters of a file are a
  constant, `Letters`, which the run gives a few of.

Model-checked only:

* everything about liveness (`QueuedIsWritten`, `RequestIsServed`,
  `ShutdownCompletes`, `CommandIsExecuted`, `QuitEnds`, `Completes`), which the proof
  system does not cover under fairness;
* `DecimalIsClose`: how near two roundings and a cut come to an exact amount depends on
  how the `Places` lie, which the run has as powers of two and the proofs leave open;
* `Bits`, whose operations on words are those of a module with recursive operators:
  `ASSUME`s compare its functions with their definitions on words of 8 and 16 bits.

## 5. What is not modelled

* Formatting, levels, times and texts of log lines; the syntax of INI files; the
  bytes of PCAP headers; the scale and offset of the times of a CSV file.
* Rounding, but for amounts with units: elsewhere numbers are fractions. Square roots
  and random distributions.
* `formatUnits()`, whose quotient is only printed; amounts too large for a double.
* That two threads may sort and push to one vector of samples at the same moment
  (`Math/OrderStatistics.hpp:81,92`), which has no defined outcome: `Profiles` takes each
  as one step.
* `SyncLog`, `SystemRandom`, `CpuMask`: one call each, which keeps nothing.
* Exceptions out of the constructor of `Context` (a getter; the console server's is in
  `ConsolePrograms`): the program ends without a destructor of its own.
* Other exceptions: `std::stoll` on a text that is no number leaves the getter, and
  nothing catches it (`Config/Config.cpp:177`); `ConfigReads` ends the read with the
  outcome `thrown`.
* Plain memory shared between threads whose tearing no build shows: clocks,
  `_stopped`, the pointer of the log. The vector of tasks and the counter of a
  console client, where the order of accesses matters, are modelled. Of the other
  races only what each step may leave behind is: several producers of an
  `ActionQueue` (`Threading/ActionQueue.hpp:38`) and `schedule()` from the main thread
  in the middle of a pass (`Threading/Scheduler.hpp:72`) are not.
* The handlers of crashes, which print and abort; the hardware, the name of the host
  and the like, which are asked for once; the example, the benchmarks and the version,
  which are straight-line code around the library.

## 6. Plan

Done: the models of all parts in section 2, and the proofs of section 4.

Next, in this order:

1. Proofs: `DecimalIsClose`, with `Places` as the powers of two; `Bits`, once its
   functions on words are written without recursive operators.
2. A composition of `Lifecycle` with `AsyncLog` in place of its counted lines,
   as a refinement.
3. The command log, which a shutdown action writes after the shutdown commands.
4. INI lines as operators over small alphabets.
