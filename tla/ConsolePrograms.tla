---------------------------- MODULE ConsolePrograms ----------------------------
(***************************************************************************)
(* The programs around a console queue: the application that creates it    *)
(* (Werk/Console/IpcConsoleServer.hpp), the client program (src/           *)
(* IpcConsoleClient, Werk/Console/IpcConsoleClient.hpp) with its two       *)
(* threads, and the program that cleans up (src/IpcConsoleCleanup).        *)
(*                                                                         *)
(* A queue has a name until it is removed; who has opened it keeps it.  An *)
(* application that crashes leaves the name behind.  What becomes of a     *)
(* message in the queue is the subject of Console.                         *)
(***************************************************************************)
EXTENDS Naturals, Sequences, FiniteSets

CONSTANTS
    Server, Client,             \* runs of the application, and of the client
    Scripts,                    \* what a client may be given: its arguments, the
                                \* lines of its input, and whether the input ends
    Room,                       \* messages that a queue holds
    AllowedFailures             \* 3

Message == {"command", "quit", "consoleQuit"}

ASSUME ProgramsAssumption ==
    /\ Scripts \subseteq
         [arguments : Seq(Message), lines : Seq(Seq(Message)), ends : BOOLEAN]
    /\ Room \in Nat /\ AllowedFailures \in Nat \ {0}

VARIABLES
    queue,                      \* the queue that has the name, 0 for none
    created,                    \* queues so far
    waiting,                    \* messages in each queue
    server,                     \* of each run: "off", "on", "failed" or "gone"
    own,                        \* its queue
    \* The clients:
    phase,                      \* where the main thread is
    script,                     \* what it has still to read
    messages,                   \* what it has still to send of the line
    reached,                    \* the queue it has opened
    running,                    \* the flag its threads share
    heart,                      \* where the heartbeat thread is
    failures,                   \* failedHeartbeats
    \* History, which no action reads:
    robbed                      \* a queue was removed while its server was on

serverVars == <<queue, created, server, own, robbed>>
clientVars == <<phase, script, messages, reached, running, heart, failures>>
programVars == <<serverVars, waiting, clientVars>>

Queues == 1 .. Cardinality(Server)

ProgramsInit ==
    /\ queue = 0 /\ created = 0
    /\ waiting = [q \in Queues |-> 0]
    /\ server = [s \in Server |-> "off"]
    /\ own = [s \in Server |-> 0]
    /\ phase = [c \in Client |-> "off"]
    /\ script \in [Client -> Scripts]
    /\ messages = [c \in Client |-> <<>>]
    /\ reached = [c \in Client |-> 0]
    /\ running = [c \in Client |-> TRUE]
    /\ heart = [c \in Client |-> "none"]
    /\ failures = [c \in Client |-> 0]
    /\ robbed = FALSE
-----------------------------------------------------------------------------
(***************************************************************************)
(* The application, and the clean-up.                                      *)
(***************************************************************************)
\* Mutant: takes the name whoever has it.
MutantMayCreate == TRUE

\* create_only
MayCreate == queue = 0

StartServer(s) ==
    /\ server[s] = "off" /\ MayCreate
    /\ created' = created + 1
    /\ queue' = created'
    /\ own' = [own EXCEPT ![s] = created']
    /\ server' = [server EXCEPT ![s] = "on"]
    /\ UNCHANGED <<robbed, waiting, clientVars>>

\* The exception leaves the constructor of Context, and the program.
FailToStart(s) ==
    /\ server[s] = "off" /\ ~MayCreate
    /\ server' = [server EXCEPT ![s] = "failed"]
    /\ UNCHANGED <<queue, created, own, robbed, waiting, clientVars>>

\* The name is removed, whatever queue has it.
RemoveName(others) ==
    /\ queue' = 0
    /\ robbed' = (robbed \/ \E s \in others : server[s] = "on" /\ own[s] = queue)

\* ~IpcConsoleServer()
StopServer(s) ==
    /\ server[s] = "on"
    /\ RemoveName(Server \ {s})
    /\ server' = [server EXCEPT ![s] = "gone"]
    /\ UNCHANGED <<created, own, waiting, clientVars>>

CrashServer(s) ==
    /\ server[s] = "on"
    /\ server' = [server EXCEPT ![s] = "gone"]
    /\ UNCHANGED <<queue, created, own, robbed, waiting, clientVars>>

ReceiveMessage(s) ==
    /\ server[s] = "on" /\ waiting[own[s]] > 0
    /\ waiting' = [waiting EXCEPT ![own[s]] = @ - 1]
    /\ UNCHANGED <<serverVars, clientVars>>

\* "In some situations, a queue may be left behind"
CleanUp ==
    /\ queue # 0
    /\ RemoveName(Server)
    /\ UNCHANGED <<created, server, own, waiting, clientVars>>
-----------------------------------------------------------------------------
(***************************************************************************)
(* The main thread of a client.                                            *)
(***************************************************************************)
HasRoomFor(c) == waiting[reached[c]] < Room

Send(c) == waiting' = IF HasRoomFor(c) THEN [waiting EXCEPT ![reached[c]] = @ + 1] ELSE waiting

CannotConnect(c) ==
    /\ phase[c] = "off" /\ queue = 0
    /\ phase' = [phase EXCEPT ![c] = "done"]
    /\ UNCHANGED <<serverVars, waiting, script, messages, reached, running, heart, failures>>

\* The constructor of the client sends a heartbeat, whose result is ignored.
Connect(c) ==
    /\ phase[c] = "off" /\ queue # 0
    /\ reached' = [reached EXCEPT ![c] = queue]
    /\ waiting' = [waiting EXCEPT ![queue] = IF @ < Room THEN @ + 1 ELSE @]
    /\ phase' = [phase EXCEPT ![c] = "arguments"]
    /\ UNCHANGED <<serverVars, script, messages, running, heart, failures>>

\* sendMessage() returns false: "quit" only if it was sent.
TimeToQuit(c, message) ==
    message = "consoleQuit" \/ (message = "quit" /\ HasRoomFor(c))

SendMessage(c, message) ==
    /\ IF message = "consoleQuit" THEN UNCHANGED waiting ELSE Send(c)
    /\ running' = [running EXCEPT ![c] = @ /\ ~TimeToQuit(c, message)]

\* The program returns before there is a second thread.
SendArgument(c) ==
    /\ phase[c] = "arguments" /\ script[c].arguments # <<>>
    /\ SendMessage(c, Head(script[c].arguments))
    /\ phase' = [phase EXCEPT
         ![c] = IF TimeToQuit(c, Head(script[c].arguments)) THEN "done" ELSE @]
    /\ script' = [script EXCEPT ![c].arguments = Tail(@)]
    /\ UNCHANGED <<serverVars, messages, reached, heart, failures>>

StartHeart(c) ==
    /\ phase[c] = "arguments" /\ script[c].arguments = <<>>
    /\ heart' = [heart EXCEPT ![c] = "loop"]
    /\ phase' = [phase EXCEPT ![c] = "input"]
    /\ UNCHANGED <<serverVars, waiting, script, messages, reached, running, failures>>

\* An empty line is skipped; where the input stays open, the thread waits for it.
ReadLine(c) ==
    /\ phase[c] = "input" /\ running[c] /\ script[c].lines # <<>>
    /\ messages' = [messages EXCEPT ![c] = Head(script[c].lines)]
    /\ phase' = [phase EXCEPT ![c] = IF messages'[c] = <<>> THEN @ ELSE "line"]
    /\ script' = [script EXCEPT ![c].lines = Tail(@)]
    /\ UNCHANGED <<serverVars, waiting, reached, running, heart, failures>>

\* What follows the message that quits is not sent.
SendOfLine(c) ==
    /\ phase[c] = "line"
    /\ SendMessage(c, Head(messages[c]))
    /\ messages' = [messages EXCEPT
         ![c] = IF TimeToQuit(c, Head(@)) THEN <<>> ELSE Tail(@)]
    /\ phase' = [phase EXCEPT ![c] = IF messages'[c] = <<>> THEN "input" ELSE @]
    /\ UNCHANGED <<serverVars, script, reached, heart, failures>>

\* At the end of the input the flag is still set.
EndInput(c) ==
    /\ phase[c] = "input"
    /\ ~running[c] \/ (script[c].lines = <<>> /\ script[c].ends)
    /\ phase' = [phase EXCEPT ![c] = "join"]
    /\ UNCHANGED <<serverVars, waiting, script, messages, reached, running, heart, failures>>

Join(c) ==
    /\ phase[c] = "join" /\ heart[c] = "ended"
    /\ phase' = [phase EXCEPT ![c] = "done"]
    /\ UNCHANGED <<serverVars, waiting, script, messages, reached, running, heart, failures>>

MainThread(c) ==
    \/ CannotConnect(c) \/ Connect(c) \/ SendArgument(c) \/ StartHeart(c)
    \/ ReadLine(c) \/ SendOfLine(c) \/ EndInput(c) \/ Join(c)
-----------------------------------------------------------------------------
(***************************************************************************)
(* The heartbeat thread of a client.                                       *)
(***************************************************************************)
\* Mutant: does not look at the flag.
MutantBeats(c) == TRUE

Beats(c) == running[c]

Sleep(c) ==
    /\ heart[c] = "loop"
    /\ heart' = [heart EXCEPT ![c] = IF Beats(c) THEN "sleep" ELSE "ended"]
    /\ UNCHANGED <<serverVars, waiting, phase, script, messages, reached, running, failures>>

\* The failures need not follow one another.
Heartbeat(c) ==
    /\ heart[c] = "sleep"
    /\ Send(c)
    /\ failures' = [failures EXCEPT ![c] = IF HasRoomFor(c) THEN @ ELSE @ + 1]
    /\ heart' = [heart EXCEPT ![c] = IF failures'[c] = AllowedFailures THEN "ended" ELSE "loop"]
    /\ UNCHANGED <<serverVars, phase, script, messages, reached, running>>

HeartThread(c) == Sleep(c) \/ Heartbeat(c)
-----------------------------------------------------------------------------
ProgramsNext ==
    \/ \E s \in Server : StartServer(s) \/ FailToStart(s) \/ StopServer(s)
                           \/ CrashServer(s) \/ ReceiveMessage(s)
    \/ CleanUp
    \/ \E c \in Client : MainThread(c) \/ HeartThread(c)

\* Both threads of a client run; servers and clean-ups come as they like.
ProgramsSpec ==
    /\ ProgramsInit /\ [][ProgramsNext]_programVars
    /\ \A c \in Client : WF_programVars(MainThread(c)) /\ WF_programVars(HeartThread(c))

(***************************************************************************)
(* ServerIsReached: as long as the name is never taken away from a server  *)
(* that is on, whoever opens the queue reaches the only one there is,      *)
(* however many were started, stopped, crashed and cleaned up after; and   *)
(* when none is left, the name is free or that of a crashed one.           *)
(***************************************************************************)
ServerIsReached ==
    ~robbed =>
      /\ \A s \in Server : server[s] = "on" => queue = own[s]
      /\ queue # 0 => \E s \in Server : own[s] = queue /\ server[s] \in {"on", "gone"}

(***************************************************************************)
(* QuitEnds: a client that waits for its second thread ends if it was told *)
(* to quit or if nobody reads its messages any more; the flag is seen, or  *)
(* the queue fills up and the heartbeats fail.                             *)
(***************************************************************************)
Unread(c) == \A s \in Server : own[s] = reached[c] => server[s] # "on"

QuitEnds ==
    \A c \in Client :
        phase[c] = "join" /\ (~running[c] \/ Unread(c)) ~> phase[c] = "done"

(***************************************************************************)
(* ProgramEnds: the same at the end of the input, too.  It does not hold:  *)
(* as long as a server takes the heartbeats, the program waits for ever.   *)
(***************************************************************************)
ProgramEnds == \A c \in Client : phase[c] = "join" ~> phase[c] = "done"
=============================================================================
