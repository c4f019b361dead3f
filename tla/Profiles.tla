-------------------------------- MODULE Profiles --------------------------------
(***************************************************************************)
(* The profiles of an application (Werk/Profiling, Werk/Math/              *)
(* OrderStatistics.hpp): each task of the background thread is timed on    *)
(* that thread, the update cycle on the main thread, and the main thread   *)
(* writes them all while the background thread goes on sampling.           *)
(*                                                                         *)
(* Nothing orders the two threads.  What the main thread does to write a   *)
(* profile is taken apart into the check for samples, the reading of each  *)
(* fractile, which sorts the samples if there are new ones, the clearing   *)
(* and the print; what the background thread does to sample one, into the  *)
(* counting and the rest.  A profile for which the two overlap is "torn":  *)
(* the sample may be lost with the others when they are cleared, or be in  *)
(* some fractiles and not in others.  That the two may also sort one       *)
(* vector at a time, which can end the program, is left out.               *)
(***************************************************************************)
EXTENDS Summaries, Sequences, SequencesExt

CONSTANTS
    Timed,                      \* the tasks, each with its profile
    NameOf,                     \* the name of each profile: two may have the same
    Inter, Update,              \* _interUpdateProfile, _updateProfile
    SampleSize, WarmupSize,     \* of each profile
    Fractions,                  \* those of f25 to f99, in this order
    Modulus,                    \* stands for 2^64
    Readings,                   \* of the clock of the application
    MaxNow, MaxCount            \* bounds on the time, and on the samples

ProfileOf == Timed \union {Inter, Update}

ASSUME ProfilesAssumption ==
    /\ Inter # Update /\ {Inter, Update} \cap Timed = {}
    /\ DOMAIN NameOf = ProfileOf
    /\ SampleSize \in [ProfileOf -> Nat \ {0}] /\ WarmupSize \in [ProfileOf -> Nat]
    /\ Fractions \in Seq(Nat \X Nat)
    /\ \A k \in DOMAIN Fractions : Fractions[k][1] < Fractions[k][2]
    /\ Modulus \in Nat /\ MaxNow \in 1 .. Modulus - 1 /\ Readings \subseteq 0 .. Modulus - 1
    /\ MaxCount \in Nat

VARIABLES
    profiles,                   \* the state of each
    registered,                 \* _objects of the ProfileManager
    tasks,                      \* those given to addTask() so far
    inactive,                   \* tasks whose latch was reset
    running,                    \* the task that is being executed, if any
    lastDelta,                  \* _lastDelta, while stop() has counted its sample and
                                \* not yet taken it
    instant,                    \* monotoneTime()
    cycle,                      \* where the main thread is in its cycle
    left,                       \* what writeJson() has still to write
    taking,                     \* the fractile that sampleFractiles() reads next
    \* History, which no action reads:
    binned,                     \* how many samples the fractiles were taken of
    lastBin,                    \* the latest of these, and what was taken of them
    line,                       \* what is written of each profile
    torn                        \* profiles that were sampled and written at once

profileVars == <<profiles, registered, tasks, inactive, running, lastDelta, instant,
                 cycle, left, taking, binned, lastBin, line, torn>>

Nobody == "nobody"
NoDelta == -1
-----------------------------------------------------------------------------
(***************************************************************************)
(* OrderStatistics                                                         *)
(***************************************************************************)
NoSamples == [samples |-> <<>>, dirty |-> FALSE]

OrderSample(o, t) == [samples |-> Append(o.samples, t), dirty |-> TRUE]

\* Mutant: keeps the samples as they are.
MutantOrdered(o) == o.samples

\* std::sort(): the places in the order of what is there.
Sorting(seq) ==
    CHOOSE p \in Bijection(DOMAIN seq, DOMAIN seq) :
        \A i, j \in DOMAIN seq : i < j => seq[p[i]] <= seq[p[j]]

\* After update(), which sorts them if there are new ones.
Ordered(o) ==
    IF o.dirty THEN [k \in DOMAIN o.samples |-> o.samples[Sorting(o.samples)[k]]]
               ELSE o.samples

\* update() leaves them sorted; there is none to sort if there are no samples.
Updated(o) == IF o.samples = <<>> THEN o ELSE [samples |-> Ordered(o), dirty |-> FALSE]

\* The product of doubles is a whole number just when the exact one is.
FractileOf(o, fraction) ==
    Ordered(o)[(fraction[1] * Len(o.samples)) \div fraction[2] + 1]
-----------------------------------------------------------------------------
(***************************************************************************)
(* Profile.  Its statistics are numbered in the order in which             *)
(* sampleFractiles() samples them: first that of the smallest, then one    *)
(* for each fraction, last that of the largest.                            *)
(***************************************************************************)
Largest == Len(Fractions) + 2
Statistic == 1 .. Largest

NewProfile ==
    [count |-> 0, startTime |-> 0, order |-> NoSamples, warmup |-> NoRange,
     statistics |-> [k \in Statistic |-> NoRange]]

Started(p, time) == [profiles[p] EXCEPT !.startTime = time]

\* min(), fractile() and max(): 0 if there is nothing.
ValueOf(o, k) ==
    CASE o.samples = <<>> -> 0
      [] o.samples # <<>> /\ k = 1 -> Ordered(o)[1]
      [] o.samples # <<>> /\ k = Largest -> Ordered(o)[Len(o.samples)]
      [] o.samples # <<>> /\ k \notin {1, Largest} -> FractileOf(o, Fractions[k - 1])

\* One line of sampleFractiles().
Taken(r, k) ==
    [r EXCEPT !.order = Updated(@), !.statistics[k] = RangedSample(@, ValueOf(r.order, k))]

\* All of them, if nobody comes in between.
Summarise(r) ==
    [r EXCEPT !.order = Updated(@),
              !.statistics = [k \in Statistic |-> RangedSample(@[k], ValueOf(r.order, k))]]

\* Mutant: the samples stay in the bin.
MutantCleared(r) == [r EXCEPT !.order.dirty = FALSE]

Cleared(r) == [r EXCEPT !.order = NoSamples]

\* The difference is signed, the statistics are not.
Delta(r, time) == (time - r.startTime) % Modulus

Counted(r) == [r EXCEPT !.count = @ + 1]

IsWarmup(p, r) == r.count <= WarmupSize[p]

\* A sample of the warm-up leaves the start time as it is.
Sampled(p, r, delta) ==
    IF IsWarmup(p, r)
      THEN [r EXCEPT !.warmup = RangedSample(@, delta)]
      ELSE [r EXCEPT !.order = OrderSample(@, delta), !.startTime = 0]

\* "Bin done?"
IsFull(p, r) == Len(r.order.samples) >= SampleSize[p]

Stopped(p, r) == IF IsFull(p, r) THEN Cleared(Summarise(r)) ELSE r

\* reset() leaves the ranges.
Emptied(r) ==
    [r EXCEPT !.count = 0, !.startTime = 0, !.order = NoSamples,
              !.warmup = SummaryReset(@),
              !.statistics = [k \in Statistic |-> SummaryReset(@[k])]]

\* The history of a bin, whose fractiles are to be taken.
Bin(samples, taken) == [samples |-> samples, taken |-> taken]

BeginBin(p, r, taken) ==
    /\ binned' = [binned EXCEPT ![p] = @ + Len(r.order.samples)]
    /\ lastBin' = [lastBin EXCEPT ![p] = Bin(r.order.samples, taken)]

\* What the statistics took from one state of a profile to another.
Told(r, s) == [k \in Statistic |-> s.statistics[k].sum - r.statistics[k].sum]

\* The rest of stop(), once the sample is counted.
Record(p, r, delta) ==
    LET s == Sampled(p, r, delta) IN
    /\ profiles' = [profiles EXCEPT ![p] = Stopped(p, s)]
    /\ IF IsFull(p, s) THEN BeginBin(p, s, Told(s, Summarise(s)))
                       ELSE UNCHANGED <<binned, lastBin>>

MaySample == MapThenSumSet(LAMBDA p : profiles[p].count, ProfileOf) < MaxCount

\* On a thread that nobody interrupts.
Stop(p, time) ==
    IF profiles[p].startTime = 0
      THEN UNCHANGED <<profiles, binned, lastBin>>
      ELSE MaySample /\ Record(p, Counted(profiles[p]), Delta(profiles[p], time))
-----------------------------------------------------------------------------
NoBin == Bin(<<>>, <<>>)
NoLine == [n |-> 0, told |-> 0]

ProfilesInit ==
    /\ profiles = [p \in ProfileOf |-> NewProfile]
    /\ registered = <<Inter, Update>>
    /\ tasks = {} /\ inactive = {}
    /\ running = Nobody /\ lastDelta = NoDelta
    /\ instant = 1
    /\ cycle = "loop"
    /\ left = <<>> /\ taking = 1
    /\ binned = [p \in ProfileOf |-> 0]
    /\ lastBin = [p \in ProfileOf |-> NoBin]
    /\ line = [p \in ProfileOf |-> NoLine]
    /\ torn = {}

setUp == <<registered, tasks, inactive>>
history == <<binned, lastBin, line, torn>>
background == <<running, lastDelta>>
mainOnly == <<setUp, cycle, left, taking, line>>

Pass ==
    /\ instant < MaxNow
    /\ instant' = instant + 1
    /\ UNCHANGED <<profiles, mainOnly, background, history>>

\* addTask(): a profile is known by its name, and the first one keeps it.
AddProfile(t) ==
    /\ cycle = "loop" /\ t \notin tasks
    /\ tasks' = tasks \union {t}
    /\ registered' = IF \E p \in Range(registered) : NameOf[p] = NameOf[t]
                       THEN registered ELSE Append(registered, t)
    /\ UNCHANGED <<profiles, inactive, background, instant, cycle, left, taking, history>>

\* The latch of a task is set and reset by the application.
Toggle(t) ==
    /\ cycle = "loop" /\ t \in tasks
    /\ inactive' = IF t \in inactive THEN inactive \ {t} ELSE inactive \union {t}
    /\ UNCHANGED <<profiles, registered, tasks, background, instant, cycle, left, taking,
                   history>>
-----------------------------------------------------------------------------
(***************************************************************************)
(* BackgroundTask::execute() on the background thread.                     *)
(***************************************************************************)
StartTask(t) ==
    /\ running = Nobody
    /\ t \in tasks \ inactive
    /\ profiles' = [profiles EXCEPT ![t] = Started(t, instant)]
    /\ running' = t
    /\ UNCHANGED <<mainOnly, lastDelta, instant, binned, lastBin, torn>>

\* writeJson() is at this profile, and has checked for samples.
IsBeingWritten(p) == cycle \in {"take", "clear", "print"} /\ p = Head(left)

\* stop() has counted a sample of this profile and not yet taken it.
IsBeingSampled(p) == lastDelta # NoDelta /\ p = running

Tear == torn' = IF IsBeingWritten(running) THEN torn \union {running} ELSE torn

\* The instant at which the task was started is not 0.
CountSample ==
    /\ running # Nobody /\ lastDelta = NoDelta
    /\ profiles[running].startTime # 0
    /\ MaySample
    /\ profiles' = [profiles EXCEPT ![running] = Counted(@)]
    /\ lastDelta' = Delta(profiles[running], instant)
    /\ Tear
    /\ UNCHANGED <<mainOnly, running, instant, binned, lastBin>>

StopTask ==
    /\ lastDelta # NoDelta
    /\ Record(running, profiles[running], lastDelta)
    /\ running' = Nobody /\ lastDelta' = NoDelta
    /\ Tear
    /\ UNCHANGED <<mainOnly, instant>>
-----------------------------------------------------------------------------
(***************************************************************************)
(* The cycle of the main thread: the profile of the time between updates   *)
(* is restarted with the clock of the application, which may be simulated  *)
(* or set back; then the update itself is timed, and a command may write.  *)
(***************************************************************************)
Restart(time) ==
    /\ cycle = "loop"
    /\ MaySample
    /\ LET isStarted == profiles[Inter].startTime # 0
           sampled == Sampled(Inter, Counted(profiles[Inter]), Delta(profiles[Inter], time))
           stopped == IF isStarted THEN Stopped(Inter, sampled) ELSE profiles[Inter] IN
         /\ profiles' = [profiles EXCEPT ![Inter] = [stopped EXCEPT !.startTime = time],
                                         ![Update] = Started(Update, instant)]
         /\ IF isStarted /\ IsFull(Inter, sampled)
              THEN BeginBin(Inter, sampled, Told(sampled, Summarise(sampled)))
              ELSE UNCHANGED <<binned, lastBin>>
    /\ cycle' = "update"
    /\ UNCHANGED <<setUp, background, instant, left, taking, line, torn>>

EndUpdate ==
    /\ cycle = "update"
    /\ Stop(Update, instant)
    /\ cycle' = "loop"
    /\ UNCHANGED <<setUp, background, instant, left, taking, line, torn>>

\* By the application, on the thread that samples it, before anything was written.
ResetProfile ==
    /\ cycle = "loop" /\ line[Inter] = NoLine
    /\ profiles' = [profiles EXCEPT ![Inter] = Emptied(@)]
    /\ binned' = [binned EXCEPT ![Inter] = 0]
    /\ lastBin' = [lastBin EXCEPT ![Inter] = NoBin]
    /\ UNCHANGED <<mainOnly, background, instant, torn>>
-----------------------------------------------------------------------------
\* WriteProfilesAction::execute(), if the file can be opened: in the order of names.
Write ==
    /\ cycle = "update"
    /\ left' = SortSeq(registered, LAMBDA p, q : NameOf[p] < NameOf[q])
    /\ cycle' = "check"
    /\ UNCHANGED <<profiles, setUp, background, instant, taking, history>>

\* "Leave no data out": sampleFractiles() returns if there is none.
CheckSamples ==
    /\ cycle = "check"
    /\ LET p == Head(left) IN
         /\ IF profiles[p].order.samples # <<>>
              THEN cycle' = "take" /\ BeginBin(p, profiles[p], <<>>)
              ELSE cycle' = "print" /\ UNCHANGED <<binned, lastBin>>
         /\ torn' = IF IsBeingSampled(p) THEN torn \union {p} ELSE torn
    /\ taking' = 1
    /\ UNCHANGED <<profiles, setUp, background, instant, left, line>>

TakeFractile ==
    /\ cycle = "take"
    /\ LET p == Head(left)
           after == Taken(profiles[p], taking) IN
         /\ profiles' = [profiles EXCEPT ![p] = after]
         /\ lastBin' = [lastBin EXCEPT ![p].taken =
                           Append(@, Told(profiles[p], after)[taking])]
    /\ IF taking = Largest THEN cycle' = "clear" /\ UNCHANGED taking
                           ELSE taking' = taking + 1 /\ UNCHANGED cycle
    /\ UNCHANGED <<setUp, background, instant, left, binned, line, torn>>

ClearSamples ==
    /\ cycle = "clear"
    /\ profiles' = [profiles EXCEPT ![Head(left)] = Cleared(@)]
    /\ cycle' = "print"
    /\ UNCHANGED <<setUp, background, instant, left, taking, history>>

\* What the line says: the count, and the samples its statistics are about.
PrintProfile ==
    /\ cycle = "print"
    /\ LET p == Head(left) IN
         line' = [line EXCEPT ![p] =
            [n |-> profiles[p].count, told |-> profiles[p].warmup.count + binned[p]]]
    /\ left' = Tail(left)
    /\ cycle' = IF Len(left) = 1 THEN "update" ELSE "check"
    /\ UNCHANGED <<profiles, setUp, background, instant, taking, binned, lastBin, torn>>

ProfilesNext ==
    \/ Pass \/ CountSample \/ StopTask
    \/ EndUpdate \/ ResetProfile
    \/ Write \/ CheckSamples \/ TakeFractile \/ ClearSamples \/ PrintProfile
    \/ \E t \in Timed : AddProfile(t) \/ Toggle(t) \/ StartTask(t)
    \/ \E time \in Readings : Restart(time)

ProfilesSpec == ProfilesInit /\ [][ProfilesNext]_profileVars
-----------------------------------------------------------------------------
(***************************************************************************)
(* NothingLeftOut: "Leave no data out" -- the line that is written of a    *)
(* profile is about every sample it ever took, those of the warm-up and of *)
(* a bin that is not full included, unless it was sampled and written at   *)
(* once; and apart from these profiles, each sample is in the warm-up, in  *)
(* one bin, or still waiting for its bin to fill.                          *)
(***************************************************************************)
Accounted(p) == profiles[p].warmup.count + binned[p]

NothingLeftOut ==
    \A p \in ProfileOf \ torn :
        /\ line[p].n = line[p].told
        /\ ~IsBeingWritten(p) /\ ~IsBeingSampled(p) =>
             profiles[p].count = Accounted(p) + Len(profiles[p].order.samples)
        /\ profiles[p].warmup.count <= WarmupSize[p]

(***************************************************************************)
(* FractilesAreRanks: "Statistics taken from samples" -- what sampling one *)
(* bin adds to the statistics of a fractile has at most its share of the   *)
(* bin below it, and more than that share at or below it, and what it adds *)
(* to the first and the last is the smallest and the largest of the bin:   *)
(* the eight values that are read one by one are of one and the same bin,  *)
(* and there are eight of them, unless the profile was sampled and written *)
(* at once.                                                                *)
(***************************************************************************)
HowMany(seq, Test(_)) == Cardinality({k \in DOMAIN seq : Test(seq[k])})

HasRank(bin, value, fraction) ==
    /\ HowMany(bin, LAMBDA x : x < value) * fraction[2] <= fraction[1] * Len(bin)
    /\ HowMany(bin, LAMBDA x : x <= value) * fraction[2] > fraction[1] * Len(bin)

FractilesAreRanks ==
    \A p \in ProfileOf \ torn : lastBin[p] # NoBin =>
        LET bin == lastBin[p].samples
            taken == lastBin[p].taken IN
        /\ \A k \in DOMAIN taken :
             CASE k = 1 -> taken[k] = Min(Range(bin))
               [] k = Largest -> taken[k] = Max(Range(bin))
               [] OTHER -> HasRank(bin, taken[k], Fractions[k - 1])
        /\ ~IsBeingWritten(p) => DOMAIN taken = Statistic

(***************************************************************************)
(* LeaveNoDataOut: "Leave no data out" of every profile -- a sample that   *)
(* was counted is in the warm-up, in a bin or waiting for its bin to fill, *)
(* when neither thread is at the profile.  It does not hold: a sample of   *)
(* the background thread that arrives between the fractiles and the        *)
(* clearing is in no statistics.                                           *)
(***************************************************************************)
LeaveNoDataOut ==
    \A p \in ProfileOf : ~IsBeingWritten(p) /\ ~IsBeingSampled(p) =>
        profiles[p].count <= Accounted(p) + Len(profiles[p].order.samples)
=============================================================================
