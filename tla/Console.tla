------------------------------- MODULE Console -------------------------------
(***************************************************************************)
(* The console (Werk/Console, IpcConsoleClient/Main.cpp): client processes *)
(* send commands and heartbeats through a bounded message queue in shared  *)
(* memory to the main loop of the application.                             *)
(*                                                                         *)
(* A client numbers its messages with a counter that its main thread and   *)
(* its heartbeat thread share without any synchronisation.  Clients may    *)
(* stop for any time, or for good, between any two steps.                  *)
(***************************************************************************)
EXTENDS Integers, Sequences, FiniteSets, FiniteSetsExt

CONSTANTS
    Client,
    Beating,                    \* clients that have started their heartbeat thread
    MaxMessages,                \* maxMessages of the server's queue
    Timeout,                    \* 5 s without a message
    MaxSends,                   \* bound on the calls of send()
    MaxTime                     \* bound on the clock

ASSUME ConstantsAssumption ==
    /\ IsFiniteSet(Client) /\ Beating \subseteq Client
    /\ MaxMessages \in Nat \ {0}
    /\ Timeout \in Nat \ {0} /\ MaxSends \in Nat /\ MaxTime \in Nat

VARIABLES
    \* The clients:
    outdated,                   \* those with another IPC_CONSOLE_VERSION
    nextNumber,                 \* _nextSequenceNumber
    call,                       \* where each thread is in send()
    sends,                      \* calls of send() so far
    \* The queue in shared memory:
    queue,
    \* The server, and the loop around it:
    cycle,                      \* receiving, or past that
    clock,                      \* _realTimeClock
    connected,                  \* _clientConnected
    lastHeartbeat,              \* _lastHeartbeatTime
    states,                     \* _clientStates
    \* The world:
    now,
    \* History, which no action reads:
    accepted,                   \* commands the queue has taken
    executed,                   \* what CommandManager::execute() got
    warned                      \* clients with a warning on their numbers

clientVars == <<outdated, nextNumber, call, sends>>
serverVars == <<cycle, clock, connected, lastHeartbeat, states, executed, warned>>
vars == <<clientVars, queue, serverVars, now, accepted>>

Thread == {"main", "heartbeat"}
Idle == [at |-> "idle", number |-> 0, command |-> FALSE]
Unknown == [known |-> FALSE, number |-> 0, heartbeat |-> 0]

\* The clock is a time since the epoch: it is not 0.
Init ==
    /\ outdated \in SUBSET Client
    /\ nextNumber = [c \in Client |-> 0]
    /\ call = [c \in Client |-> [t \in Thread |-> Idle]]
    /\ sends = [c \in Client |-> 0]
    /\ queue = <<>>
    /\ cycle = "receive"
    /\ now = 1 /\ clock = 1
    /\ connected = FALSE
    /\ lastHeartbeat = 0
    /\ states = [c \in Client |-> Unknown]
    /\ accepted = 0
    /\ executed = <<>>
    /\ warned = {}
-----------------------------------------------------------------------------
Tick ==
    /\ now < MaxTime
    /\ now' = now + 1
    /\ UNCHANGED <<clientVars, queue, serverVars, accepted>>
-----------------------------------------------------------------------------
(***************************************************************************)
(* IpcConsoleClient::send() on a thread t of client c.  The main thread    *)
(* sends the first heartbeat, in the constructor, and the commands.        *)
(***************************************************************************)
ThreadsOf(c) == IF c \in Beating THEN Thread ELSE {"main"}

Compose(c, t) ==
    /\ call[c][t].at = "idle"
    /\ MapThenSumSet(LAMBDA d : sends[d], Client) < MaxSends
    /\ \E command \in BOOLEAN :
         /\ command => t = "main" /\ sends[c] > 0
         /\ call' = [call EXCEPT ![c][t] = [at |-> "composed", number |-> nextNumber[c],
                                            command |-> command]]
    /\ sends' = [sends EXCEPT ![c] = @ + 1]
    /\ UNCHANGED <<outdated, nextNumber, queue, serverVars, now, accepted>>

\* Identifies the commands a current client got accepted, for the properties.
NextId(c, t) == IF call[c][t].command /\ c \notin outdated THEN accepted + 1 ELSE 0

Message(c, t) ==
    [client |-> c, number |-> call[c][t].number, command |-> call[c][t].command,
     id |-> NextId(c, t)]

TrySend(c, t) ==
    /\ call[c][t].at = "composed"
    /\ Len(queue) < MaxMessages
    /\ queue' = Append(queue, Message(c, t))
    /\ accepted' = IF NextId(c, t) = 0 THEN accepted ELSE accepted + 1
    /\ call' = [call EXCEPT ![c][t].at = "sent"]
    /\ UNCHANGED <<outdated, nextNumber, sends, serverVars, now>>

\* Mutant: the number is used up although the queue was full.
MutantFail(c, t) ==
    /\ call[c][t].at = "composed"
    /\ Len(queue) = MaxMessages
    /\ call' = [call EXCEPT ![c][t] = Idle]
    /\ nextNumber' = [nextNumber EXCEPT ![c] = @ + 1]
    /\ UNCHANGED <<outdated, sends, queue, serverVars, now, accepted>>

Fail(c, t) ==
    /\ call[c][t].at = "composed"
    /\ Len(queue) = MaxMessages
    /\ call' = [call EXCEPT ![c][t] = Idle]
    /\ UNCHANGED <<outdated, nextNumber, sends, queue, serverVars, now, accepted>>

\* ++_nextSequenceNumber: a load and a store.
LoadNumber(c, t) ==
    /\ call[c][t].at = "sent"
    /\ call' = [call EXCEPT ![c][t].at = "loaded", ![c][t].number = nextNumber[c]]
    /\ UNCHANGED <<outdated, nextNumber, sends, queue, serverVars, now, accepted>>

StoreNumber(c, t) ==
    /\ call[c][t].at = "loaded"
    /\ nextNumber' = [nextNumber EXCEPT ![c] = call[c][t].number + 1]
    /\ call' = [call EXCEPT ![c][t] = Idle]
    /\ UNCHANGED <<outdated, sends, queue, serverVars, now, accepted>>

Send(c, t) ==
    Compose(c, t) \/ TrySend(c, t) \/ Fail(c, t) \/ LoadNumber(c, t) \/ StoreNumber(c, t)
-----------------------------------------------------------------------------
(***************************************************************************)
(* ConsoleCommandReceiver::execute(): receive() until it returns false.    *)
(***************************************************************************)
\* Mutant: looks at the version before it takes the message out.
MutantRest == IF Head(queue).client \in outdated THEN queue ELSE Tail(queue)

Rest == Tail(queue)

\* A message of the wrong version ends the loop as if nothing had come.
ReceiveOutdated ==
    /\ cycle = "receive"
    /\ queue # <<>>
    /\ Head(queue).client \in outdated
    /\ queue' = Rest
    /\ cycle' = "update"
    /\ UNCHANGED <<clientVars, clock, connected, lastHeartbeat, states, executed,
                   warned, now, accepted>>

\* The number does not follow the last one: missing, duplicate, out of order.
Unexpected(m) ==
    states[m.client].known /\ m.number # states[m.client].number + 1

\* Mutant: takes a message with the same number as the last for a copy of it.
MutantIsExecuted(m) == m.command /\ ~(Unexpected(m) /\ m.number = states[m.client].number)

\* "Always try to resync": no number keeps a command from being executed.
IsExecuted(m) == m.command

\* Mutant: only commands count.
MutantHeard(m, time) == IF m.command THEN time ELSE lastHeartbeat

\* "Everything counts as a heartbeat"
Heard(m, time) == time

\* A line in the log may update the clock, before it is read and after.
TimeAt(m) ==
    IF ~states[m.client].known \/ Unexpected(m) THEN {clock, now} ELSE {clock}

\* The number of the first message of a client is not stored.
Receive ==
    /\ cycle = "receive"
    /\ queue # <<>>
    /\ LET m == Head(queue)
           c == m.client IN
         /\ c \notin outdated
         /\ \E time \in TimeAt(m) :
              /\ clock' \in {time, now}
              /\ lastHeartbeat' = Heard(m, time)
              /\ states' = [states EXCEPT ![c] =
                   [known |-> TRUE,
                    number |-> IF @.known THEN m.number ELSE 0,
                    heartbeat |-> time]]
         /\ connected' = (connected \/ ~states[c].known)
         /\ warned' = IF Unexpected(m) THEN warned \union {c} ELSE warned
         /\ executed' = IF IsExecuted(m) THEN Append(executed, m.id) ELSE executed
    /\ queue' = Rest
    /\ UNCHANGED <<clientVars, cycle, now, accepted>>

ReceiveNothing ==
    /\ cycle = "receive"
    /\ queue = <<>>
    /\ cycle' = "update"
    /\ UNCHANGED <<clientVars, queue, clock, connected, lastHeartbeat, states,
                   executed, warned, now, accepted>>

NoHeartbeats == lastHeartbeat # 0 /\ clock > lastHeartbeat + Timeout

\* update(), and the next cycle, which begins with setting the clock.
Update ==
    /\ cycle = "update"
    /\ connected' = (connected /\ ~NoHeartbeats)
    /\ cycle' = "receive"
    /\ clock' = now
    /\ UNCHANGED <<clientVars, queue, lastHeartbeat, states, executed, warned, now,
                   accepted>>

Server == Receive \/ ReceiveOutdated \/ ReceiveNothing \/ Update

Next == Tick \/ Server \/ \E c \in Client : \E t \in ThreadsOf(c) : Send(c, t)

\* The main loop keeps running.  Nothing is assumed of the clients.
Spec == Init /\ [][Next]_vars /\ WF_vars(Server)
-----------------------------------------------------------------------------
Call == [at : {"idle", "composed", "sent", "loaded"}, number : Nat, command : BOOLEAN]
Messages == [client : Client, number : Nat, command : BOOLEAN, id : Nat]

TypeOK ==
    /\ outdated \subseteq Client
    /\ nextNumber \in [Client -> Nat]
    /\ call \in [Client -> [Thread -> Call]]
    /\ sends \in [Client -> Nat]
    /\ queue \in Seq(Messages) /\ Len(queue) <= MaxMessages
    /\ cycle \in {"receive", "update"}
    /\ now \in Nat /\ clock \in Nat
    /\ connected \in BOOLEAN
    /\ lastHeartbeat \in Nat /\ lastHeartbeat <= clock
    /\ states \in [Client -> [known : BOOLEAN, number : Nat, heartbeat : Nat]]
    /\ accepted \in Nat
    /\ executed \in Seq(Nat)
    /\ warned \subseteq Client

(***************************************************************************)
(* ExecutedOnceInOrder: every command the queue has accepted is executed   *)
(* once, in the order of acceptance, or is still in the queue -- although  *)
(* the racing threads of a client give numbers twice or skip them.         *)
(***************************************************************************)
ExecutedOnceInOrder ==
    /\ \A k \in DOMAIN executed : executed[k] = k
    /\ {queue[k].id : k \in DOMAIN queue} \ {0} = (Len(executed) + 1) .. accepted
    /\ \A j, k \in DOMAIN queue :
         j < k /\ queue[j].id # 0 /\ queue[k].id # 0 => queue[j].id < queue[k].id

(***************************************************************************)
(* NoFalseWarning: as long as a client sends from one thread only, the     *)
(* server never complains about its numbers, however often the queue was   *)
(* full.  (With the heartbeat thread beside it this is false.)             *)
(***************************************************************************)
NoFalseWarning == warned \subseteq Beating

(***************************************************************************)
(* DisconnectedMeansSilence: the server reports that the heartbeats have   *)
(* ceased only when it has not received anything, from any client, for the *)
(* whole time allowed.                                                     *)
(***************************************************************************)
DisconnectedMeansSilence ==
    [][connected /\ ~connected'
         => \A c \in Client : states[c].known => clock > states[c].heartbeat + Timeout]_vars

\* CommandIsExecuted: a command that was accepted is executed some time, even if
\* messages of the wrong version cut the loop of the receiver short.  (The first
\* message of a client is a heartbeat.)
CommandIsExecuted ==
    \A k \in 1 .. MaxSends - 1 : accepted >= k ~> Len(executed) >= k

(***************************************************************************)
(* ConnectedWhileHeard: "Allowing up to 5 missed heartbeats" -- while the  *)
(* last heartbeat is no older than that, a client counts as connected.     *)
(* The server never connects again a client it has known before.           *)
(***************************************************************************)
ConnectedWhileHeard ==
    lastHeartbeat # 0 /\ ~NoHeartbeats => connected
=============================================================================
