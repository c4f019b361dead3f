-------------------------------- MODULE Replay --------------------------------
(***************************************************************************)
(* werk::TimeSeriesReplayer over CSV and PCAP files, with or without       *)
(* jitter (Werk/Data), as Context::run() sets it up and executes it.       *)
(*                                                                         *)
(* A data source moves to its next record before the main action looks at  *)
(* the current one.  CsvParser keeps the previous record for it in a       *)
(* second buffer; PcapParser has only one buffer.  A record is known by    *)
(* its place in the file and by its time; a file that is cut short in a    *)
(* record ends before it.                                                  *)
(***************************************************************************)
EXTENDS Naturals, Multimap

CONSTANTS
    Source, NoSource,
    Pcap,                       \* the sources that are PCAP files
    Paths,                      \* the sources in the order they are added
    Jitters,                    \* the settings of what may be added to the times of records
    Timeout,                    \* _timeout, 0 for none
    MaxRecords, MaxTime         \* bounds on the files

ASSUME ConstantsAssumption ==
    /\ Pcap \subseteq Source
    /\ NoSource \notin Source
    /\ Paths \in Seq(Source) /\ IsInjective(Paths)
    /\ \A j \in Jitters : j \subseteq Nat /\ j # {}
    /\ Timeout \in Nat /\ MaxRecords \in Nat /\ MaxTime \in Nat

VARIABLES
    jitter,                     \* the setting of this run, {0} for none
    records,                    \* the times of the records in each file
    toAdd,                      \* sources not added yet
    position,                   \* records read from each file
    time,                       \* time() of each source
    current, previous,          \* the records in the buffers: values(), lastValues()
    agenda,                     \* _dataSources: sources by the time of their next event
    clock,                      \* _simulatedClock
    source,                     \* _currentDataSource
    complete,                   \* _complete
    \* History, which no action reads:
    delivered                   \* for each source, the records it was current for

sourceVars == <<position, time, current, previous>>
inputVars == <<jitter, records>>
vars == <<inputVars, toAdd, sourceVars, agenda, clock, source, complete, delivered>>

None == 0
Jittered == jitter # {0}

Init ==
    /\ jitter \in Jitters
    /\ records \in [Source -> BoundedSeq(0 .. MaxTime, MaxRecords)]
    /\ toAdd = Paths
    /\ position = [s \in Source |-> 0]
    /\ time = [s \in Source |-> 0]
    /\ current = [s \in Source |-> None]
    /\ previous = [s \in Source |-> None]
    /\ agenda = <<>>
    /\ clock = 0
    /\ source = NoSource
    /\ complete = FALSE
    /\ delivered = [s \in Source |-> <<>>]
-----------------------------------------------------------------------------
(***************************************************************************)
(* moveNext() of a source, with the jitter around it.                      *)
(***************************************************************************)
HasNext(s) == position[s] < Len(records[s])

LaterOf(a, b) == IF a >= b THEN a ELSE b

\* Mutant: the jitter alone, without the time before it.
MutantJitteredTime(s, recordTime, delay) == recordTime + delay

\* "Only allow time to move forward"
JitteredTime(s, recordTime, delay) ==
    IF Jittered THEN LaterOf(time[s], recordTime + delay) ELSE recordTime

\* A CSV source has time 0 at its end, a PCAP source and the jitter keep theirs.
TimeAtEnd(s) == IF Jittered \/ s \in Pcap THEN time[s] ELSE 0

\* Mutant: no flip at the end.
MutantPreviousAtEnd(s) == previous[s]

\* "Flip the buffer one last time and preserve only the last set of values"
PreviousAtEnd(s) == current[s]

MoveNext(s) ==
    \/ /\ HasNext(s)
       /\ position' = [position EXCEPT ![s] = @ + 1]
       /\ \E delay \in jitter :
            time' = [time EXCEPT ![s] = JitteredTime(s, records[s][position[s] + 1], delay)]
       /\ current' = [current EXCEPT ![s] = position[s] + 1]
       /\ previous' = [previous EXCEPT ![s] = current[s]]
    \/ /\ ~HasNext(s)
       /\ time' = [time EXCEPT ![s] = TimeAtEnd(s)]
       /\ previous' = [previous EXCEPT ![s] = PreviousAtEnd(s)]
       /\ current' = IF s \in Pcap THEN current ELSE [current EXCEPT ![s] = None]
       /\ UNCHANGED position
-----------------------------------------------------------------------------
(***************************************************************************)
(* addDataSource().  A source that is at its end, or whose time is 0 or    *)
(* goes backwards, is not entered again.                                   *)
(***************************************************************************)
\* Mutant: a source may not have two records of the same time.
MutantIsEntered(s, nextTime) == HasNext(s) /\ nextTime # 0 /\ nextTime > time[s]

IsEntered(s, nextTime) == HasNext(s) /\ nextTime # 0 /\ nextTime >= time[s]

\* Mutant: before the sources of the same time and the time before.
MutantInsert(seq, entry) ==
    InsertAt(seq, 1 + Len(SelectSeq(seq, LAMBDA e : e.time + 1 < entry.time)), entry)

\* A multimap keeps entries with the same key in the order of their insertion.
Insert(seq, entry) == Emplace(seq, entry)

AddDataSource(s, others) ==
    /\ MoveNext(s)
    /\ agenda' = IF IsEntered(s, time'[s])
                   THEN Insert(others, [time |-> time'[s], source |-> s])
                   ELSE others

Setup ==
    /\ toAdd # <<>>
    /\ AddDataSource(Head(toAdd), agenda)
    /\ toAdd' = Tail(toAdd)
    /\ UNCHANGED <<inputVars, clock, source, complete, delivered>>
-----------------------------------------------------------------------------
(***************************************************************************)
(* execute(), once in every cycle of the main loop until it is complete.   *)
(* The main action runs at the end of it, in the new state.                *)
(***************************************************************************)
Running == toAdd = <<>> /\ ~complete

Finish ==
    /\ Running
    /\ agenda = <<>>
    /\ complete' = TRUE
    /\ UNCHANGED <<inputVars, toAdd, sourceVars, agenda, clock, source, delivered>>

First == Head(agenda).source

\* Mutant: compares the time that has passed with the whole time of the event.
MutantTimesOut == Timeout > 0 /\ clock > 0 /\ time[First] > clock + 2 * Timeout

TimesOut == Timeout > 0 /\ clock > 0 /\ time[First] > clock + Timeout

\* Mutant: the clock stays at the last event.
MutantGapEnd == clock

GapEnd == clock + Timeout

Gap ==
    /\ Running
    /\ agenda # <<>>
    /\ TimesOut
    /\ source' = NoSource
    /\ clock' = GapEnd
    /\ UNCHANGED <<inputVars, toAdd, sourceVars, agenda, complete, delivered>>

\* Mutant: the time after the source has moved on.
MutantEventTime(s) == time'[s]

EventTime(s) == time[s]

Event ==
    /\ Running
    /\ agenda # <<>>
    /\ ~TimesOut
    /\ AddDataSource(First, Tail(agenda))
    /\ source' = First
    /\ clock' = EventTime(First)
    /\ delivered' = [delivered EXCEPT ![First] = Append(@, current[First])]
    /\ UNCHANGED <<inputVars, toAdd, complete>>

Execute == Finish \/ Gap \/ Event

Next == Setup \/ Execute

Spec == Init /\ [][Next]_vars /\ WF_vars(Next)
-----------------------------------------------------------------------------
(***************************************************************************)
(* Properties.                                                             *)
(***************************************************************************)
Added == Range(Paths) \ Range(toAdd)

Entry == [time : Nat, source : Source]

\* What is left of the paths.
ToAddTypeOK ==
    /\ toAdd \in Seq(Source) /\ Len(toAdd) <= Len(Paths)
    /\ \A k \in 1 .. Len(toAdd) : toAdd[k] = Paths[Len(Paths) - Len(toAdd) + k]

\* The multimap is ordered, and its keys are the times of the sources in it.
AgendaTypeOK ==
    /\ agenda \in Seq(Entry) /\ IsOrdered(agenda)
    /\ \A j, k \in DOMAIN agenda : j # k => agenda[j].source # agenda[k].source
    /\ \A e \in Range(agenda) : e.time = time[e.source] /\ e.source \in Added

TypeOK ==
    /\ jitter \in Jitters
    /\ records \in [Source -> BoundedSeq(0 .. MaxTime, MaxRecords)]
    /\ ToAddTypeOK
    /\ position \in [Source -> 0 .. MaxRecords]
    /\ time \in [Source -> Nat]
    /\ current \in [Source -> 0 .. MaxRecords]
    /\ previous \in [Source -> 0 .. MaxRecords]
    /\ AgendaTypeOK
    /\ clock \in Nat
    /\ source \in Added \cup {NoSource}
    /\ complete \in BOOLEAN
    /\ delivered \in [Source -> BoundedSeq(1 .. MaxRecords, MaxRecords)]

\* "JitterTimeSeries ... only plays forward", the multimap merges the sources, and
\* HistoricalDataTimeout is "the maximum time between events": the simulated clock
\* never goes back, whatever is in the files, and once it is set one cycle never
\* moves it by more than the timeout.  The event of a record has the time of that
\* record although the source has moved on by then; jitter only makes it later.
OnTime ==
    [][/\ clock' >= clock
       /\ Timeout > 0 /\ clock > 0 => clock' <= clock + Timeout
       /\ \A s \in Source : delivered'[s] # delivered[s] =>
            LET recordTime == records[s][Last(delivered'[s])] IN
            /\ source' = s
            /\ clock' >= recordTime
            /\ ~Jittered => clock' = recordTime]_vars

\* A record of a source before the first one that has no time or, without jitter,
\* that is earlier than the one before it.
IsUsable(s, i) ==
    \A j \in 1 .. i :
        /\ records[s][j] > 0
        /\ Jittered \/ j = 1 \/ records[s][j] >= records[s][j - 1]

\* When the replay is complete, every source has had an event for each of its
\* usable records, once and in the order of the file.  Without jitter it has
\* had no other event: a source is abandoned at its first unusable record.
AllDelivered ==
    complete => \A s \in Range(Paths) :
        /\ \A i \in DOMAIN delivered[s] : delivered[s][i] = i
        /\ DOMAIN delivered[s] \subseteq DOMAIN records[s]
        /\ \A i \in DOMAIN records[s] : IsUsable(s, i) => i \in DOMAIN delivered[s]
        /\ ~Jittered => \A i \in DOMAIN delivered[s] : IsUsable(s, i)

\* In the event of a CSV record, values() of the source is that record,
\* although the parser is at the next one, at its end, or abandoned.
DataOfEvent ==
    source \notin Pcap \cup {NoSource} => previous[source] = Last(delivered[source])

\* "All state is updated and ready to go": in the event of a PCAP record, the
\* header and the buffer are those of that record.  They are not.
PacketOfEvent ==
    source \in Pcap => current[source] = Last(delivered[source])

\* Every replay that has its sources completes, whatever is in the files: no source
\* is entered forever, and a gap is crossed in finitely many timeouts.
Completes == toAdd = <<>> ~> complete
=============================================================================
