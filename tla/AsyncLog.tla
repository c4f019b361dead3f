------------------------------ MODULE AsyncLog ------------------------------
(***************************************************************************)
(* werk::AsyncLog (Werk/Logging/AsyncLog.{hpp,cpp}): any thread logs, one  *)
(* background thread writes.                                               *)
(*                                                                         *)
(* A producer takes a sequence number with an atomic increment, formats    *)
(* its message, and only then pushes it on a bounded lock-free queue; the  *)
(* two are separate steps, so producers overtake each other.  The result   *)
(* of the push is ignored, so a message that finds the queue full is gone. *)
(* The writer drains the queue, and prints an extra line whenever a        *)
(* message does not carry the number after the previous one.               *)
(*                                                                         *)
(* Levels, times and texts are left out: nothing depends on them.          *)
(***************************************************************************)
EXTENDS Integers, Sequences, FiniteSets

CONSTANTS
    Producers,                        \* the threads that log
    Capacity,                         \* nodes of the queue, 4096 in the code
    MaxMessages                       \* bound on the calls of a behaviour

ASSUME ProducersAssumption == IsFiniteSet(Producers)
ASSUME CapacityAssumption == Capacity \in Nat \ {0}
ASSUME MaxMessagesAssumption == MaxMessages \in Nat

VARIABLES
    nextSend,                         \* _nextSendSequenceNumber
    inFlight,                         \* number a producer took and not yet pushed
    messages,                         \* _messages
    nextReceive,                      \* _nextReceiveSequenceNumber
    executing,                        \* the writer is inside execute()
    wrote,                            \* its local variable
    file,                             \* lines printed: [seq, from, expected]
    flushed,                          \* how many of them fflush() has passed on
    dropped                           \* numbers whose push() failed

vars == <<nextSend, inFlight, messages, nextReceive, executing, wrote, file,
          flushed, dropped>>

None == -1

Init ==
    /\ nextSend = 0
    /\ inFlight = [p \in Producers |-> None]
    /\ messages = <<>>
    /\ nextReceive = 0
    /\ executing = FALSE
    /\ wrote = FALSE
    /\ file = <<>>
    /\ flushed = 0
    /\ dropped = {}
-----------------------------------------------------------------------------
(***************************************************************************)
(* log() and logRaw(): fetch_add and formatting, then push().              *)
(***************************************************************************)
\* Mutant: a load and a store instead of fetch_add, so that the increment of
\* one producer may be overwritten by another's.
MutantLoadThenStore(p) ==
    /\ inFlight[p] = None
    /\ nextSend < MaxMessages
    /\ inFlight' = [inFlight EXCEPT ![p] = nextSend]
    /\ nextSend' \in {nextSend, nextSend + 1}
    /\ UNCHANGED <<messages, nextReceive, executing, wrote, file, flushed, dropped>>

TakeNumber(p) ==
    /\ inFlight[p] = None
    /\ nextSend < MaxMessages
    /\ inFlight' = [inFlight EXCEPT ![p] = nextSend]
    /\ nextSend' = nextSend + 1
    /\ UNCHANGED <<messages, nextReceive, executing, wrote, file, flushed, dropped>>

HasRoom == Len(messages) < Capacity

\* Mutant: a lock-free stack in place of the queue.
MutantStacked(m) == <<m>> \o messages

Queue(m) == Append(messages, m)

Push(p) ==
    /\ inFlight[p] # None
    /\ HasRoom
    /\ messages' = Queue([seq |-> inFlight[p], from |-> p])
    /\ inFlight' = [inFlight EXCEPT ![p] = None]
    /\ UNCHANGED <<nextSend, nextReceive, executing, wrote, file, flushed, dropped>>

\* boost::lockfree::queue takes the node of a message before it links it, and
\* gives a popped node back after it unlinked it: at most these are in use
\* when p asks for one.
MostNodesInUse(p) ==
    Len(messages)
      + Cardinality({q \in Producers \ {p} : inFlight[q] # None})
      + (IF executing THEN 1 ELSE 0)

Drop(p) ==
    /\ inFlight[p] # None
    /\ MostNodesInUse(p) >= Capacity
    /\ dropped' = dropped \union {inFlight[p]}
    /\ inFlight' = [inFlight EXCEPT ![p] = None]
    /\ UNCHANGED <<nextSend, messages, nextReceive, executing, wrote, file, flushed>>
-----------------------------------------------------------------------------
(***************************************************************************)
(* execute(): one call drains the queue, messages that arrive meanwhile    *)
(* included, and flushes if it wrote.                                      *)
(***************************************************************************)
BeginExecute ==
    /\ ~executing
    /\ executing' = TRUE
    /\ wrote' = FALSE
    /\ UNCHANGED <<nextSend, inFlight, messages, nextReceive, file, flushed, dropped>>

\* Mutant: waits for a missing number instead of going on after it.
MutantWaitForGap == messages # <<>> /\ Head(messages).seq = nextReceive

CanPop == messages # <<>>

\* Mutant: the first message of the file is not checked.
MutantFirstUnchecked(m) ==
    [seq |-> m.seq, from |-> m.from,
     expected |-> IF file = <<>> THEN m.seq ELSE nextReceive]

\* What is printed of m: the line, and the number that was expected instead.
LineOf(m) == [seq |-> m.seq, from |-> m.from, expected |-> nextReceive]

\* Mutant: counts the messages instead of following their numbers.
MutantCountReceived(m) == nextReceive + 1

NumberAfter(m) == m.seq + 1

PopAndPrint ==
    /\ executing
    /\ CanPop
    /\ file' = Append(file, LineOf(Head(messages)))
    /\ nextReceive' = NumberAfter(Head(messages))
    /\ messages' = Tail(messages)
    /\ wrote' = TRUE
    /\ UNCHANGED <<nextSend, inFlight, executing, flushed, dropped>>

FlushIfWrote == IF wrote THEN Len(file) ELSE flushed

EndExecute ==
    /\ executing
    /\ ~CanPop
    /\ executing' = FALSE
    /\ flushed' = FlushIfWrote
    /\ UNCHANGED <<nextSend, inFlight, messages, nextReceive, wrote, file, dropped>>

Log(p) == TakeNumber(p) \/ Push(p) \/ Drop(p)

Execute == BeginExecute \/ PopAndPrint \/ EndExecute

Next == Execute \/ \E p \in Producers : Log(p)

\* The background thread runs the writer again and again; nobody is obliged
\* to log, nor to finish a call of log().
Spec == Init /\ [][Next]_vars /\ WF_vars(Execute)
-----------------------------------------------------------------------------
InFlight == {inFlight[p] : p \in Producers} \ {None}
Queued == {messages[i].seq : i \in DOMAIN messages}
Written == {file[i].seq : i \in DOMAIN file}

\* An "Incorrect log sequence number" line was printed before this one.
Alarm(line) == line.seq # line.expected

Message == [seq : Nat, from : Producers]
Line == [seq : Nat, from : Producers, expected : Nat]

TypeOK ==
    /\ nextSend \in Nat
    /\ inFlight \in [Producers -> Nat \union {None}]
    /\ messages \in Seq(Message)
    /\ Len(messages) <= Capacity
    /\ nextReceive \in Nat
    /\ executing \in BOOLEAN
    /\ wrote \in BOOLEAN
    /\ file \in Seq(Line)
    /\ flushed \in Nat
    /\ dropped \subseteq Nat

(***************************************************************************)
(* Accounting: a number given out by fetch_add is in exactly one place --  *)
(* with its producer, in the queue, in the file or dropped -- and in that  *)
(* place once.  No interleaving of log(), logRaw() and execute() loses a   *)
(* message the queue accepted, or prints one twice.                        *)
(***************************************************************************)
PlacesCover ==
    InFlight \union Queued \union Written \union dropped = 0 .. nextSend - 1

PlacesDisjoint ==
    /\ InFlight \intersect (Queued \union Written \union dropped) = {}
    /\ Queued \intersect (Written \union dropped) = {}
    /\ Written \intersect dropped = {}

OnceInItsPlace ==
    /\ \A p, q \in Producers :
         inFlight[p] = inFlight[q] /\ inFlight[p] # None => p = q
    /\ \A i, j \in DOMAIN messages : messages[i].seq = messages[j].seq => i = j
    /\ \A i, j \in DOMAIN file : file[i].seq = file[j].seq => i = j

Accounting == PlacesCover /\ PlacesDisjoint /\ OnceInItsPlace

(***************************************************************************)
(* LossIsReported: the sequence check of execute() reveals every message   *)
(* lost to a full queue.  As soon as a line with a higher number is in the *)
(* file, one of the alarms in it spans the lost number, whatever the order *)
(* in which producers overtook each other.                                 *)
(***************************************************************************)
Spans(line, n) == line.expected <= n /\ n < line.seq

LossIsReported ==
    \A d \in dropped :
      (\E i \in DOMAIN file : file[i].seq > d)
        => (\E i \in DOMAIN file : Alarm(file[i]) /\ Spans(file[i], d))

(***************************************************************************)
(* ThreadOrder: the lines of one thread are in the file in the order it    *)
(* logged them, and no later than the ones it has queued or is pushing.    *)
(***************************************************************************)
ThreadOrder ==
    \A i \in DOMAIN file :
      /\ \A j \in DOMAIN file :
           i < j /\ file[i].from = file[j].from => file[i].seq < file[j].seq
      /\ \A j \in DOMAIN messages :
           file[i].from = messages[j].from => file[i].seq < messages[j].seq

\* FlushedWhenIdle: between two runs of the writer nothing it printed is still
\* in the buffer of stdio ("Always flush, it's a log").
FlushedWhenIdle == ~executing => flushed = Len(file)

(***************************************************************************)
(* AlarmOnlyOnLoss: as long as no other thread has a message in the file,  *)
(* in the queue or on its way, nothing overtakes, and an alarm means that  *)
(* a message was really lost.  (With messages of two threads this is       *)
(* false: overtaking alone raises alarms.)                                 *)
(***************************************************************************)
Loggers ==
    {p \in Producers : inFlight[p] # None}
      \union {messages[i].from : i \in DOMAIN messages}
      \union {file[i].from : i \in DOMAIN file}

AlarmOnlyOnLoss ==
    (\A p, q \in Loggers : p = q) =>
      \A i \in DOMAIN file :
        Alarm(file[i]) => \E d \in dropped : Spans(file[i], d)

(***************************************************************************)
(* QueuedIsWritten: a message the queue accepted gets to the file, however *)
(* busy the producers are, as long as the background thread runs.          *)
(***************************************************************************)
QueuedIsWritten ==
    \A n \in 0 .. MaxMessages - 1 : n \in Queued ~> n \in Written

(***************************************************************************)
(* The asynchronous log keeps the contract of a numbered log: a number is  *)
(* pending from the fetch_add until it is printed or dropped, and an alarm *)
(* is printed exactly at the lines that do not follow their predecessor.   *)
(***************************************************************************)
Contract == INSTANCE LogContract WITH
    issued  <- nextSend,
    pending <- InFlight \union Queued,
    lines   <- [i \in DOMAIN file |-> [seq |-> file[i].seq,
                                       alarm |-> Alarm(file[i])]],
    lost    <- dropped

ImplementsContract == Contract!Spec
=============================================================================
