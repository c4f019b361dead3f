--------------------------- MODULE UtilitiesProofs ---------------------------
(***************************************************************************)
(* What the command manager guarantees for every set of commands, aliases  *)
(* and actions, the programs around a console queue for any number of      *)
(* applications and clients, the sliding windows and the throttle for      *)
(* every size, duration and width of the index, actions of any nesting,    *)
(* and statistics of any samples.                                          *)
(***************************************************************************)
EXTENDS Commands, ConsolePrograms, SlidingWindow, Actions, Statistics, DataLemmas, TLAPS

-----------------------------------------------------------------------------
(***************************************************************************)
(* Commands.                                                               *)
(***************************************************************************)
\* The kind of a call tells what it has.
LEMMA CallKinds ==
    ASSUME call \in {Idle} \union [kind : {"line", "recorded"}, line : Lines]
                      \union [kind : {"word"}, word : Words]
    PROVE  /\ call.kind \in {"line", "recorded"} => call.line \in Lines
           /\ call.kind = "word" => call.word \in Words
<1>1. CASE call = Idle
  BY <1>1 DEF Idle
<1>2. CASE call \in [kind : {"line", "recorded"}, line : Lines]
  BY <1>2
<1>3. CASE call \in [kind : {"word"}, word : Words]
  BY <1>3
<1> QED
  BY <1>1, <1>2, <1>3

\* What is passed to execute() is a call of one of the three kinds.
LEMMA NewCalls ==
    /\ \A line \in Lines :
         ALine(line) \in [kind : {"line", "recorded"}, line : Lines]
    /\ \A line \in Lines :
         ARecordedLine(line) \in [kind : {"line", "recorded"}, line : Lines]
    /\ \A word \in Words : TheWord(word) \in [kind : {"word"}, word : Words]
BY DEF ALine, ARecordedLine, TheWord

\* A line that is not blank begins with a word; and so does what is left of a
\* recorded line when its text was moved away.
LEMMA TextHasAWord ==
    ASSUME NEW text \in Text, ~IsBlank(text), call.line \in Lines
    PROVE  text = call.line /\ text.word \in Words
BY DEF Text, IsBlank, Lines, Blank

\* TypeOK: lines and words are where the calls expect them, and the history is no
\* longer than its vector has room for.
LEMMA CommandsTypeCorrect == Spec => []TypeOK
<1>1. Init => TypeOK
  <2> SUFFICES ASSUME Init PROVE TypeOK
    OBVIOUS
  <2>1. history \in Seq(Lines) /\ Len(history) <= capacity
    BY DEF Init
  <2> QED
    BY <2>1 DEF Init, TypeOK
<1>2. TypeOK /\ [Next]_vars => TypeOK'
  <2> SUFFICES ASSUME TypeOK, [Next]_vars PROVE TypeOK'
    OBVIOUS
  <2>a. /\ call.kind \in {"line", "recorded"} => call.line \in Lines
        /\ call.kind = "word" => call.word \in Words
    BY CallKinds DEF TypeOK
  <2>b. \A a \in DOMAIN Aliases : Aliases[a] \in Words
    BY ConstantsAssumption
  <2>1. ASSUME NEW line \in Lines, Enter(line) PROVE TypeOK'
    BY <2>1, NewCalls DEF TypeOK, Enter
  <2>2. ASSUME NEW line \in Lines, NewCommandAction(line) PROVE TypeOK'
    BY <2>2 DEF TypeOK, NewCommandAction
  <2>3. ASSUME NEW word \in Words, ExecuteAction(word) PROVE TypeOK'
    BY <2>3, NewCalls DEF TypeOK, ExecuteAction
  <2>4. CASE ExecuteLine
    <3>1. call.line \in Lines
      BY <2>4, <2>a DEF ExecuteLine
    <3>2. history' \in Seq(Lines) /\ Len(history') = Len(history) + 1
      BY <2>4, <3>1 DEF ExecuteLine, TypeOK
    <3>3. capacity' \in Nat /\ Len(history') <= capacity'
      BY <2>4, <3>2 DEF ExecuteLine, TypeOK, Full
    <3>4. call' \in {Idle} \union [kind : {"word"}, word : Words]
      BY <2>4, <3>1, TextHasAWord, NewCalls DEF ExecuteLine
    <3> QED
      BY <2>4, <3>2, <3>3, <3>4 DEF ExecuteLine, TypeOK
  <2>5. CASE ExecutePlain
    BY <2>5 DEF TypeOK, ExecutePlain
  <2>6. CASE ExecuteUnknown
    BY <2>6 DEF TypeOK, ExecuteUnknown
  <2>7. CASE ExecuteAlias
    BY <2>7, <2>b, NewCalls DEF TypeOK, ExecuteAlias
  <2>8. CASE Redo
    <3>1. history[Len(history) - 1] \in Lines
      BY <2>8 DEF TypeOK, Redo, CanRedo
    <3> QED
      BY <2>8, <3>1, NewCalls DEF TypeOK, Redo
  <2>9. CASE RefuseRedo
    BY <2>9 DEF TypeOK, RefuseRedo
  <2>10. CASE UNCHANGED vars
    BY <2>10 DEF TypeOK, vars
  <2> QED
    BY <2>1, <2>2, <2>3, <2>4, <2>5, <2>6, <2>7, <2>8, <2>9, <2>10 DEF Next, Execute
<1> QED
  BY <1>1, <1>2, PTL DEF Spec

\* "redo" comes to itself, and what an alias stands for decides for the alias.
LEMMA RedoWordsClosed ==
    /\ "redo" \in RedoWords
    /\ \A alias \in DOMAIN Aliases \intersect Words :
         Aliases[alias] \in RedoWords => alias \in RedoWords
<1>1. "redo" \in Words
  BY DEF Words
<1> QED
  BY <1>1 DEF RedoWords

\* The history only grows, so what was disguised in it stays there.
LEMMA HistoryGrows ==
    ASSUME TypeOK, NEW line \in Lines, history' = Append(history, line)
    PROVE  Range(history') = Range(history) \union {line}
<1>1. history \in Seq(Lines) /\ Len(history) \in Nat
  BY DEF TypeOK
<1>2. DOMAIN history' = 1 .. Len(history) + 1
  BY <1>1
<1>3. \A k \in 1 .. Len(history) : history'[k] = history[k]
  BY <1>1
<1>4. history'[Len(history) + 1] = line
  BY <1>1
<1> QED
  BY <1>1, <1>2, <1>3, <1>4 DEF Range

(***************************************************************************)
(* Where a second redo could come from: a line that a redo executes is one *)
(* of the history, and not the bare word; so if it comes to "redo" again,  *)
(* through its alias or in spite of its arguments, it is a disguised one.  *)
(***************************************************************************)
BareRedo == [word |-> "redo", bare |-> TRUE]

RedoInv ==
    /\ redos > 1 => Disguised
    /\ call.kind = "line" => redos = 0
    /\ call.kind = "recorded" => call.line \in Range(history) \ {BareRedo}
    /\ call.kind = "word" /\ redos > 0 /\ call.word \in RedoWords => Disguised

\* Every step keeps what a second redo needs.
LEMMA RedoAgain ==
    ASSUME TypeOK, RedoInv, [Next]_vars
    PROVE  RedoInv'
<1>a. /\ call.kind \in {"line", "recorded"} => call.line \in Lines
      /\ call.kind = "word" => call.word \in Words
  BY CallKinds DEF TypeOK
<1>b. redos \in Nat
  BY DEF TypeOK
<1>1. ASSUME NEW line \in Lines, Enter(line) PROVE RedoInv'
  BY <1>1 DEF RedoInv, Enter, ALine, Disguised
<1>2. ASSUME NEW line \in Lines, NewCommandAction(line) PROVE RedoInv'
  BY <1>2 DEF RedoInv, NewCommandAction, Disguised
<1>3. ASSUME NEW word \in Words, ExecuteAction(word) PROVE RedoInv'
  BY <1>3 DEF RedoInv, ExecuteAction, TheWord, Disguised
<1>4. CASE ExecuteLine
  <2>1. call.line \in Lines /\ redos' = redos
    BY <1>4, <1>a DEF ExecuteLine
  <2>2. Range(history') = Range(history) \union {call.line}
    BY <1>4, <2>1, HistoryGrows DEF ExecuteLine
  <2>3. Disguised => Disguised'
    BY <2>2 DEF Disguised
  <2>4. PICK text \in Text : call' = IF IsBlank(text) THEN Idle ELSE TheWord(text.word)
    BY <1>4 DEF ExecuteLine
  <2>5. CASE IsBlank(text)
    BY <2>1, <2>3, <2>4, <2>5 DEF RedoInv, Idle
  <2>6. CASE ~IsBlank(text)
    <3>1. text = call.line
      BY <2>1, <2>6, TextHasAWord
    <3>2. call' = TheWord(call.line.word)
      BY <2>4, <2>6, <3>1
    <3>3. ASSUME redos > 0, call.line.word \in RedoWords PROVE Disguised'
      <4>1. call.kind = "recorded"
        BY <1>4, <1>b, <3>3 DEF ExecuteLine, RedoInv
      <4>2. call.line \in DisguisedRedo
        BY <2>1, <3>3, <4>1 DEF RedoInv, BareRedo, DisguisedRedo
      <4> QED
        BY <2>2, <4>2 DEF Disguised
    <3> QED
      BY <2>1, <2>3, <3>2, <3>3 DEF RedoInv, TheWord
  <2> QED
    BY <2>5, <2>6
<1>5. CASE ExecutePlain
  BY <1>5 DEF RedoInv, ExecutePlain, Idle, Disguised
<1>6. CASE ExecuteUnknown
  BY <1>6 DEF RedoInv, ExecuteUnknown, Idle, Disguised
<1>7. CASE ExecuteAlias
  <2>1. PICK alias \in DOMAIN Aliases :
          call.kind = "word" /\ call.word = alias /\ call' = TheWord(Aliases[alias])
    BY <1>7 DEF ExecuteAlias, Dispatched
  <2>2. redos' = redos /\ history' = history
    BY <1>7 DEF ExecuteAlias
  <2>3. Aliases[alias] \in RedoWords => alias \in RedoWords
    BY <1>a, <2>1, RedoWordsClosed
  <2> QED
    BY <2>1, <2>2, <2>3 DEF RedoInv, TheWord, Disguised
<1>8. CASE Redo
  <2> DEFINE line == history[Len(history) - 1]
  <2>1. call.kind = "word" /\ call.word = "redo" /\ redos' = redos + 1
    BY <1>8 DEF Redo, Dispatched
  <2>2. history' = history /\ call' = ARecordedLine(line)
    BY <1>8 DEF Redo
  <2>3. Len(history) - 1 \in DOMAIN history
    BY <1>8 DEF TypeOK, Redo, CanRedo
  <2>4. line \in Range(history) /\ line # BareRedo
    BY <1>8, <2>3 DEF Redo, CanRedo, BareRedo, Range
  <2>5. redos' > 1 => Disguised
    BY <1>b, <2>1, RedoWordsClosed DEF RedoInv
  <2> HIDE DEF line
  <2> QED
    BY <2>2, <2>4, <2>5 DEF RedoInv, ARecordedLine, Disguised
<1>9. CASE RefuseRedo
  BY <1>9 DEF RedoInv, RefuseRedo, Idle, Disguised
<1>10. CASE UNCHANGED vars
  BY <1>10 DEF RedoInv, vars, Disguised
<1> QED
  BY <1>1, <1>2, <1>3, <1>4, <1>5, <1>6, <1>7, <1>8, <1>9, <1>10 DEF Next, Execute

\* NoDoubleRedo: "And can't double redo" -- the line that a redo executes is never a
\* redo again, unless one was entered in disguise.
THEOREM NoDoubleRedoHolds == Spec => []NoDoubleRedo
<1>1. Init => RedoInv
  BY DEF Init, RedoInv, Idle
<1>2. TypeOK /\ RedoInv /\ [Next]_vars => RedoInv'
  BY RedoAgain
<1>3. RedoInv => NoDoubleRedo
  BY DEF RedoInv, NoDoubleRedo
<1> QED
  BY <1>1, <1>2, <1>3, CommandsTypeCorrect, PTL DEF Spec

(***************************************************************************)
(* While a line is being executed its entry is still to come.              *)
(***************************************************************************)
EntryToCome == IF call.kind \in {"line", "recorded"} THEN 1 ELSE 0

HistoryInv == Len(history) + EntryToCome = entered - actions + allRedos

\* HistoryIsHuman: "History is only added here, from human executions" -- one entry
\* for every line entered or executed again, and none for aliases and actions.
THEOREM HistoryIsHumanHolds == Spec => []HistoryIsHuman
<1>1. Init => HistoryInv
  BY DEF Init, HistoryInv, EntryToCome, Idle
<1>2. TypeOK /\ HistoryInv /\ [Next]_vars => HistoryInv'
  <2> SUFFICES ASSUME TypeOK, HistoryInv, [Next]_vars PROVE HistoryInv'
    OBVIOUS
  <2>a. {Len(history), entered, actions, allRedos} \subseteq Nat
    BY DEF TypeOK
  <2> USE DEF HistoryInv, EntryToCome
  <2>1. ASSUME NEW line \in Lines, Enter(line) PROVE HistoryInv'
    <3>1. EntryToCome = 0 /\ EntryToCome' = 1
      BY <2>1 DEF Enter, Idle, ALine
    <3> QED
      BY <2>1, <2>a, <3>1 DEF Enter
  <2>2. ASSUME NEW line \in Lines, NewCommandAction(line) PROVE HistoryInv'
    BY <2>2 DEF NewCommandAction
  <2>3. ASSUME NEW word \in Words, ExecuteAction(word) PROVE HistoryInv'
    BY <2>3, <2>a DEF ExecuteAction, Idle, TheWord
  <2>4. CASE ExecuteLine
    <3>1. call.line \in Lines
      BY <2>4, CallKinds DEF ExecuteLine, TypeOK
    <3>2. Len(history') = Len(history) + 1
      BY <2>4, <3>1 DEF ExecuteLine, TypeOK
    <3>3. call'.kind \notin {"line", "recorded"}
      BY <2>4 DEF ExecuteLine, Idle, TheWord
    <3> QED
      BY <2>4, <2>a, <3>2, <3>3 DEF ExecuteLine
  <2>5. CASE ExecutePlain
    BY <2>5 DEF ExecutePlain, Dispatched, Idle
  <2>6. CASE ExecuteUnknown
    BY <2>6 DEF ExecuteUnknown, Dispatched, Idle
  <2>7. CASE ExecuteAlias
    BY <2>7 DEF ExecuteAlias, Dispatched, TheWord
  <2>8. CASE Redo
    BY <2>8, <2>a DEF Redo, Dispatched, ARecordedLine
  <2>9. CASE RefuseRedo
    BY <2>9 DEF RefuseRedo, Dispatched, Idle
  <2>10. CASE UNCHANGED vars
    BY <2>10 DEF vars
  <2> QED
    BY <2>1, <2>2, <2>3, <2>4, <2>5, <2>6, <2>7, <2>8, <2>9, <2>10 DEF Next, Execute
<1>3. TypeOK /\ HistoryInv => HistoryIsHuman
  BY DEF TypeOK, HistoryInv, EntryToCome, HistoryIsHuman
<1> QED
  BY <1>1, <1>2, <1>3, CommandsTypeCorrect, PTL DEF Spec

-----------------------------------------------------------------------------
(***************************************************************************)
(* The programs around a console queue.                                    *)
(*                                                                         *)
(* A server that is on was the last to create a queue, since the name was  *)
(* free then and nobody has taken it away.  That two servers never have    *)
(* the same queue needs the number of queues so far.                       *)
(***************************************************************************)
ServersTypeOK ==
    /\ created \in Nat /\ queue \in 0 .. created
    /\ own \in [Server -> Nat]
    /\ server \in [Server -> {"off", "on", "failed", "gone"}]

OwnInv ==
    /\ \A s \in Server : own[s] <= created
    /\ \A s \in Server : server[s] = "on" => own[s] # 0
    /\ \A s, t \in Server : own[s] = own[t] /\ own[s] # 0 => s = t

ReachInv == ServersTypeOK /\ OwnInv /\ ServerIsReached

\* To start, a server needs the name to be free; so no other one is on.
LEMMA StartReaches ==
    ASSUME ReachInv, NEW s \in Server, StartServer(s)
    PROVE  ReachInv'
<1> USE DEF ReachInv, ServersTypeOK
<1>1. /\ server[s] = "off" /\ queue = 0
      /\ created' = created + 1 /\ queue' = created + 1 /\ robbed' = robbed
      /\ own' = [own EXCEPT ![s] = created + 1]
      /\ server' = [server EXCEPT ![s] = "on"]
  BY DEF StartServer, MayCreate, serverVars
<1>2. ServersTypeOK'
  BY <1>1
<1>3. OwnInv'
  BY <1>1 DEF OwnInv
<1>4. ASSUME ~robbed' PROVE ServerIsReached'
  <2>1. \A t \in Server \ {s} : server[t] # "on"
    BY <1>1, <1>4 DEF ServerIsReached, OwnInv
  <2>2. \A t \in Server : server'[t] = "on" => t = s
    BY <1>1, <2>1
  <2>3. own'[s] = queue' /\ server'[s] = "on"
    BY <1>1
  <2> QED
    BY <2>2, <2>3 DEF ServerIsReached
<1> QED
  BY <1>2, <1>3, <1>4 DEF ServerIsReached

\* Who stops takes only its own name away, or that of a server that it robs.
LEMMA StopReaches ==
    ASSUME ReachInv, NEW s \in Server, StopServer(s)
    PROVE  ReachInv'
<1> USE DEF ReachInv, ServersTypeOK
<1>1. /\ server[s] = "on" /\ queue' = 0 /\ created' = created /\ own' = own
      /\ server' = [server EXCEPT ![s] = "gone"]
      /\ ~robbed' => ~robbed /\ \A t \in Server \ {s} : server[t] = "on" => own[t] # queue
  BY DEF StopServer, RemoveName
<1>2. ServersTypeOK' /\ OwnInv'
  BY <1>1 DEF OwnInv
<1>3. ASSUME ~robbed' PROVE \A t \in Server : server'[t] # "on"
  BY <1>1, <1>3 DEF ServerIsReached
<1> QED
  BY <1>1, <1>2, <1>3 DEF ServerIsReached

\* A server that crashes leaves its name behind.
LEMMA CrashReaches ==
    ASSUME ReachInv, NEW s \in Server, CrashServer(s) \/ FailToStart(s)
    PROVE  ReachInv'
<1> USE DEF ReachInv, ServersTypeOK
<1>1. queue' = queue /\ created' = created /\ own' = own /\ robbed' = robbed
  BY DEF CrashServer, FailToStart
<1>2. /\ server' \in [Server -> {"off", "on", "failed", "gone"}]
      /\ \A t \in Server : server'[t] = "on" => server[t] = "on"
      /\ \A t \in Server : server[t] \in {"on", "gone"} => server'[t] \in {"on", "gone"}
  BY DEF CrashServer, FailToStart
<1> QED
  BY <1>1, <1>2 DEF OwnInv, ServerIsReached

\* Who cleans up after a server that is on robs it.
LEMMA CleanUpReaches ==
    ASSUME ReachInv, CleanUp
    PROVE  ReachInv'
<1> USE DEF ReachInv, ServersTypeOK
<1>1. /\ queue' = 0 /\ created' = created /\ own' = own /\ server' = server
      /\ ~robbed' => ~robbed /\ \A t \in Server : server[t] = "on" => own[t] # queue
  BY DEF CleanUp, RemoveName
<1> QED
  BY <1>1 DEF OwnInv, ServerIsReached

\* ServerIsReached: as long as no server is robbed of its name, whoever opens the
\* queue reaches the only server there is, for any number of servers and clients.
THEOREM ServerIsReachedHolds == ProgramsSpec => []ServerIsReached
<1>1. ProgramsInit => ReachInv
  BY DEF ProgramsInit, ReachInv, ServersTypeOK, OwnInv, ServerIsReached
<1>2. ReachInv /\ [ProgramsNext]_programVars => ReachInv'
  <2> SUFFICES ASSUME ReachInv, [ProgramsNext]_programVars PROVE ReachInv'
    OBVIOUS
  <2>1. CASE UNCHANGED serverVars
    BY <2>1 DEF serverVars, ReachInv, ServersTypeOK, OwnInv, ServerIsReached
  <2>2. ASSUME NEW s \in Server, ReceiveMessage(s) PROVE UNCHANGED serverVars
    BY <2>2 DEF ReceiveMessage
  <2>3. ASSUME NEW c \in Client, MainThread(c) \/ HeartThread(c)
        PROVE  UNCHANGED serverVars
    <3>1. CASE CannotConnect(c) \/ Connect(c) \/ SendArgument(c) \/ StartHeart(c)
      BY <3>1 DEF CannotConnect, Connect, SendArgument, StartHeart
    <3>2. CASE ReadLine(c) \/ SendOfLine(c) \/ EndInput(c) \/ Join(c)
      BY <3>2 DEF ReadLine, SendOfLine, EndInput, Join
    <3>3. CASE HeartThread(c)
      BY <3>3 DEF HeartThread, Sleep, Heartbeat
    <3> QED
      BY <2>3, <3>1, <3>2, <3>3 DEF MainThread
  <2>4. CASE UNCHANGED programVars
    BY <2>1, <2>4 DEF programVars
  <2> QED
    BY <2>1, <2>2, <2>3, <2>4, StartReaches, StopReaches, CrashReaches, CleanUpReaches
       DEF ProgramsNext
<1>3. ReachInv => ServerIsReached
  BY DEF ReachInv
<1> QED
  BY <1>1, <1>2, <1>3, PTL DEF ProgramsSpec
-----------------------------------------------------------------------------
(***************************************************************************)
(* The ring buffer of the sliding windows: its elements, from the front.   *)
(***************************************************************************)
PlaceOf(k) == LocationAfter(front, k - 1)
TimeOf(k) == times[PlaceOf(k)]
ValueOf(k) == values[PlaceOf(k)]
IndexOf(k) == indexes[PlaceOf(k)]

RingTypeOK ==
    /\ kind \in {"window", "sum", "statistics", "throttle"}
    /\ now \in Nat /\ slid \in Nat
    /\ front \in Location /\ count \in 0 .. Size
    /\ indexes \in [Location -> Nat]
    /\ times \in [Location -> Nat]
    /\ values \in [Location -> Values \union {0}]
    /\ uses \in Seq(Nat)

\* The elements are in the order of their times, which the indexes tell: the
\* oldest is less than a round of the index old.
RingInv ==
    /\ \A k \in 1 .. count : TimeOf(k) <= now /\ IndexOf(k) = TimeOf(k) % Modulus
    /\ \A j, k \in 1 .. count : j <= k => TimeOf(j) <= TimeOf(k)
    /\ count > 0 => now - TimeOf(1) < Modulus

\* The places of a ring are its locations.
LEMMA PlaceFacts ==
    ASSUME NEW f \in Location, NEW n \in 0 .. Size
    PROVE  /\ LocationAfter(f, n) \in Location
           /\ LocationAfter(f, 0) = f
BY WindowsAssumption DEF Location, LocationAfter

\* Different places are different locations, and a step from one place is one
\* from the front.
LEMMA PlaceDistinct ==
    ASSUME NEW f \in Location, NEW m \in 0 .. Size, NEW n \in 0 .. Size
    PROVE  /\ m < n /\ n - m < Size => LocationAfter(f, m) # LocationAfter(f, n)
           /\ m + n <= Size => LocationAfter(LocationAfter(f, m), n) = LocationAfter(f, m + n)
BY WindowsAssumption DEF Location, LocationAfter

\* Two times that are less than m apart are known by their remainders.
LEMMA AgeOfTime ==
    ASSUME NEW t \in Nat, NEW u \in Nat, NEW m \in Nat \ {0}, t <= u, u - t < m
    PROVE  ((u % m) - (t % m)) % m = u - t
<1> DEFINE p == t \div m
           q == u \div m
           r == t % m
           s == u % m
<1>1. r \in 0 .. m - 1 /\ s \in 0 .. m - 1 /\ p \in Int /\ q \in Int
  OBVIOUS
<1>2. t = m * p + r /\ u = m * q + s
  OBVIOUS
<1> HIDE DEF p, q, r, s
<1>3. m * (q - p) = (u - t) - (s - r)
  BY <1>1, <1>2
<1>4. q = p \/ q = p + 1
  <2>1. ASSUME q - p < 0 PROVE FALSE
    <3>1. m * (q - p) <= -m
      BY <1>1, <2>1
    <3> QED
      BY <1>1, <1>3, <3>1
  <2>2. ASSUME q - p > 1 PROVE FALSE
    <3>1. m * (q - p) >= m + m
      BY <1>1, <2>2
    <3> QED
      BY <1>1, <1>3, <3>1
  <2> QED
    BY <1>1, <2>1, <2>2
<1>5. CASE q = p
  <2>1. s - r = u - t
    BY <1>1, <1>3, <1>5
  <2>2. (u - t) % m = u - t
    BY SMTT(30)
  <2> QED
    BY <2>1, <2>2 DEF r, s
<1>6. CASE q = p + 1
  <2>1. s - r = (u - t) - m
    BY <1>1, <1>3, <1>6
  <2>2. ((u - t) - m) % m = u - t
    BY SMTT(30)
  <2> QED
    BY <2>1, <2>2 DEF r, s
<1> QED
  BY <1>4, <1>5, <1>6

\* forceSlideOne(), any number of times, takes elements from the front.
LEMMA DropOutcome ==
    ASSUME RingTypeOK, NEW n \in 0 .. count,
           front' = LocationAfter(front, n), count' = count - n,
           UNCHANGED <<indexes, values, times>>
    PROVE  /\ front' \in Location /\ count' \in 0 .. Size
           /\ \A k \in 1 .. count' : /\ TimeOf(k)' = TimeOf(k + n) /\ ValueOf(k)' = ValueOf(k + n)
                                     /\ IndexOf(k)' = IndexOf(k + n)
<1>1. n \in 0 .. Size /\ front' \in Location /\ count' \in 0 .. Size
  BY WindowsAssumption, PlaceFacts DEF RingTypeOK
<1>2. ASSUME NEW k \in 1 .. count'
      PROVE  PlaceOf(k)' = PlaceOf(k + n)
  <2>1. k - 1 \in 0 .. Size /\ n + (k - 1) = k + n - 1 /\ n + (k - 1) <= Size
    BY <1>1, <1>2, WindowsAssumption DEF RingTypeOK
  <2> QED
    BY <1>1, <2>1, PlaceDistinct DEF PlaceOf, RingTypeOK
<1> QED
  BY <1>1, <1>2 DEF TimeOf, ValueOf, IndexOf

\* sample() puts the element behind the others, in the place of the first one if
\* there is no other.
LEMMA WriteOutcome ==
    ASSUME RingTypeOK, NEW value \in Values \union {0}, Write(value)
    PROVE  /\ front' \in Location /\ count' \in 1 .. Size
           /\ count' = count - PushedOut + 1 /\ PushedOut \in {0, 1} /\ PushedOut <= count
           /\ \A k \in 1 .. count' - 1 :
                /\ TimeOf(k)' = TimeOf(k + PushedOut) /\ ValueOf(k)' = ValueOf(k + PushedOut)
                /\ IndexOf(k)' = IndexOf(k + PushedOut)
           /\ \A k \in 1 .. count' : k = count' => /\ TimeOf(k)' = now /\ ValueOf(k)' = value
                                                 /\ IndexOf(k)' = Index
<1> DEFINE back == LocationAfter(front, count)
<1>1. /\ PushedOut \in {0, 1} /\ PushedOut <= count /\ PushedOut \in 0 .. Size
      /\ count' = count - PushedOut + 1 /\ count' \in 1 .. Size
      /\ count \in 0 .. Size /\ front \in Location
  BY WindowsAssumption DEF PushedOut, Write, RingTypeOK
<1>2. front' \in Location /\ back \in Location
  BY <1>1, PlaceFacts DEF Write
<1>3. ASSUME NEW k \in 1 .. count'
      PROVE  PlaceOf(k)' = PlaceOf(k + PushedOut)
  <2>1. /\ k - 1 \in 0 .. Size /\ PushedOut + (k - 1) = k + PushedOut - 1
        /\ PushedOut + (k - 1) <= Size
    BY <1>1, <1>3, WindowsAssumption DEF PushedOut
  <2>2. PlaceOf(k)' = LocationAfter(LocationAfter(front, PushedOut), k - 1)
    BY DEF PlaceOf, Write
  <2> QED
    BY <1>1, <2>1, <2>2, PlaceDistinct DEF PlaceOf
<1>4. ASSUME NEW k \in 1 .. count', k = count'
      PROVE  PlaceOf(k)' = back
  <2>1. (k + PushedOut) - 1 = count
    BY <1>1, <1>4, WindowsAssumption
  <2> QED
    BY <1>3, <2>1 DEF PlaceOf
<1>5. ASSUME NEW k \in 1 .. count' - 1
      PROVE  PlaceOf(k + PushedOut) \in Location \ {back}
  <2>1. /\ k + PushedOut - 1 \in 0 .. Size /\ k + PushedOut - 1 < count
        /\ count - (k + PushedOut - 1) < Size
    BY <1>1, <1>5, WindowsAssumption DEF PushedOut
  <2> QED
    BY <1>1, <2>1, PlaceFacts, PlaceDistinct DEF PlaceOf
<1>6. /\ indexes' = [indexes EXCEPT ![back] = Index]
      /\ values' = [values EXCEPT ![back] = value]
      /\ times' = [times EXCEPT ![back] = now]
  BY DEF Write
<1> HIDE DEF back
<1>7. \A k \in 1 .. count' - 1 :
        /\ TimeOf(k)' = TimeOf(k + PushedOut) /\ ValueOf(k)' = ValueOf(k + PushedOut)
        /\ IndexOf(k)' = IndexOf(k + PushedOut)
  BY <1>1, <1>3, <1>5, <1>6 DEF TimeOf, ValueOf, IndexOf, RingTypeOK
<1>8. \A k \in 1 .. count' : k = count' => /\ TimeOf(k)' = now /\ ValueOf(k)' = value
                                         /\ IndexOf(k)' = Index
  BY <1>2, <1>4, <1>6 DEF TimeOf, ValueOf, IndexOf, RingTypeOK
<1> QED
  BY <1>1, <1>2, <1>7, <1>8
-----------------------------------------------------------------------------
\* What a step does to the ring: it takes elements from the front, it puts one
\* behind them, it takes all, or it leaves them.
Dropped(n) ==
    /\ front' = LocationAfter(front, n) /\ count' = count - n
    /\ UNCHANGED <<kind, now, indexes, values, times>>

Emptied ==
    /\ front' = 0 /\ count' = 0
    /\ UNCHANGED <<kind, now, indexes, values, times>>

\* An element has expired if its time is too long ago, and those that have are
\* the first ones.
LEMMA SlidToFacts ==
    ASSUME RingTypeOK, RingInv
    PROVE  /\ SlidTo \in 0 .. count
           /\ \A k \in 1 .. count : now - TimeOf(k) > Duration <=> k <= SlidTo
<1> DEFINE Fresh == {k \in 1 .. Len(InUse(count)) : ~Expired(InUse(count)[k])}
<1>1. count \in Nat /\ now \in Nat /\ Modulus \in Nat \ {0} /\ Duration \in Nat
  BY WindowsAssumption DEF RingTypeOK
<1>2. \A k \in 1 .. count : PlaceOf(k) \in Location /\ TimeOf(k) \in Nat
  BY WindowsAssumption, PlaceFacts DEF RingTypeOK, PlaceOf, TimeOf
<1>3. ASSUME NEW k \in 1 .. count
      PROVE  Expired(PlaceOf(k)) <=> now - TimeOf(k) > Duration
  <2>1. TimeOf(k) \in Nat /\ TimeOf(1) \in Nat /\ TimeOf(1) <= TimeOf(k) /\ TimeOf(k) <= now
    BY <1>1, <1>2, <1>3 DEF RingInv
  <2>2. now - TimeOf(k) < Modulus
    BY <1>1, <1>3, <2>1 DEF RingInv
  <2>3. ((now % Modulus) - (TimeOf(k) % Modulus)) % Modulus = now - TimeOf(k)
    BY <1>1, <2>1, <2>2, AgeOfTime
  <2>4. indexes[PlaceOf(k)] = TimeOf(k) % Modulus
    BY <1>3 DEF RingInv, IndexOf
  <2> QED
    BY <2>3, <2>4 DEF Expired, Age, Index
<1>4. Len(InUse(count)) = count /\ \A k \in 1 .. count : InUse(count)[k] = PlaceOf(k)
  <2>1. InUse(count) \in [1 .. count -> Location]
    BY <1>2 DEF InUse, PlaceOf
  <2> QED
    BY <1>1, <2>1, FunctionIsSeq DEF InUse, PlaceOf
<1>5. Fresh \subseteq 1 .. count /\ \A k \in 1 .. count : k \in Fresh <=> ~(now - TimeOf(k) > Duration)
  BY <1>3, <1>4
<1>6. SlidTo = LET fresh == IF Fresh # {} THEN Min(Fresh) ELSE 0
               IN  IF fresh = 0 THEN count ELSE fresh - 1
  BY DEF SlidTo, SelectInSeq
<1> HIDE DEF Fresh
<1>7. CASE Fresh = {}
  BY <1>1, <1>5, <1>6, <1>7
<1>8. CASE Fresh # {}
  <2>1. Fresh \subseteq Nat
    BY <1>1, <1>5
  <2>2. \E n \in Fresh : \A m \in Fresh : n <= m
    BY <1>8, <2>1, LeastNatural
  <2>3. Min(Fresh) \in Fresh /\ \A m \in Fresh : Min(Fresh) <= m
    BY <2>2 DEF Min
  <2>4. Min(Fresh) \in 1 .. count /\ SlidTo = Min(Fresh) - 1
    <3>1. Min(Fresh) \in 1 .. count
      BY <1>5, <2>3
    <3>2. Min(Fresh) # 0
      BY <1>1, <3>1
    <3> QED
      BY <1>6, <1>8, <3>1, <3>2
  <2>5. ASSUME NEW k \in 1 .. count, k <= SlidTo PROVE now - TimeOf(k) > Duration
    BY <1>1, <1>5, <2>3, <2>4, <2>5
  <2>6. ASSUME NEW k \in 1 .. count, ~(k <= SlidTo) PROVE ~(now - TimeOf(k) > Duration)
    <3> DEFINE n == Min(Fresh)
    <3>1. n \in 1 .. count /\ n <= k /\ TimeOf(n) <= TimeOf(k) /\ TimeOf(n) \in Nat
      BY <1>1, <1>2, <2>4, <2>6 DEF RingInv
    <3>2. ~(now - TimeOf(n) > Duration)
      BY <1>5, <2>3, <3>1
    <3> QED
      BY <1>1, <1>2, <2>6, <3>1, <3>2
  <2> QED
    BY <1>1, <2>4, <2>5, <2>6
<1> QED
  BY <1>7, <1>8

\* Every action of the windows is one of these, or only the time goes on.
LEMMA WindowSteps ==
    ASSUME RingTypeOK, RingInv, WindowsNext
    PROVE  \/ Tick
           \/ \E value \in Values \union {0} : Write(value)
           \/ \E n \in 0 .. count : Dropped(n)
           \/ Emptied
<1>1. count \in Nat
  BY WindowsAssumption DEF RingTypeOK
<1>2. CASE SlideOne \/ ThrottleSlideOne
  <2>1. Dropped(1) /\ 1 \in 0 .. count
    BY <1>1, <1>2 DEF SlideOne, ThrottleSlideOne, ForceSlide, ThrottleForceSlide, Dropped
  <2> QED
    BY <2>1
<1>3. CASE Slide \/ ThrottleSlide
  <2>1. Dropped(SlidTo)
    BY <1>3 DEF Slide, ThrottleSlide, ForceSlide, ThrottleForceSlide, Dropped
  <2> QED
    BY <2>1, SlidToFacts
<1>4. CASE Reset \/ ThrottleReset
  BY <1>4 DEF Reset, ThrottleReset, Emptied
<1>5. CASE (\E value \in Values : Sample(value)) \/ ThrottleSample \/ TryUseSlot
  BY <1>5 DEF Sample, ThrottleSample, TryUseSlot
<1> QED
  BY <1>2, <1>3, <1>4, <1>5 DEF WindowsNext

\* Each step keeps the ring well formed.
LEMMA RingTypeKept ==
    ASSUME RingTypeOK, RingInv, [WindowsNext]_windowVars
    PROVE  RingTypeOK'
<1> USE DEF RingTypeOK
<1>1. /\ Size \in Nat \ {0} /\ 0 \in Location /\ 0 \in 0 .. Size
  BY WindowsAssumption DEF Location
<1>2. slid' \in Nat
  BY DEF WindowsNext, Tick, SlideOne, Slide, Reset, Sample, Write, ForceSlide, ThrottleSlideOne,
         ThrottleSlide, ThrottleSample, TryUseSlot, ThrottleReset, windowVars
<1>3. uses' \in Seq(Nat)
  <2>1. <<>> \in Seq(Nat)
    OBVIOUS
  <2>2. ASSUME TryUseSlot PROVE uses' \in Seq(Nat)
    <3>1. Append(uses, now) \in Seq(Nat) /\ Append(uses, now) # <<>>
      BY AppendFacts, SeqFacts
    <3>2. Tail(Append(uses, now)) \in Seq(Nat)
      BY <3>1, TailFacts
    <3> QED
      BY <2>2, <3>1, <3>2 DEF TryUseSlot, Latest
  <2> QED
    BY <2>1, <2>2 DEF WindowsNext, Tick, SlideOne, Slide, Reset, Sample, ForceSlide,
         ThrottleSlideOne, ThrottleSlide, ThrottleSample, ThrottleReset, windowVars
<1>4. CASE Tick
  BY <1>2, <1>3, <1>4 DEF Tick, bufferVars
<1>5. ASSUME NEW value \in Values \union {0}, Write(value) PROVE RingTypeOK'
  <2>1. front' \in Location /\ count' \in 0 .. Size
    BY <1>1, <1>5, WriteOutcome
  <2>2. Index \in Nat
    BY WindowsAssumption DEF Index
  <2> QED
    BY <1>2, <1>3, <1>5, <2>1, <2>2 DEF Write
<1>6. ASSUME NEW n \in 0 .. count, Dropped(n) PROVE RingTypeOK'
  BY <1>2, <1>3, <1>6, DropOutcome DEF Dropped
<1>7. CASE Emptied
  BY <1>1, <1>2, <1>3, <1>7 DEF Emptied
<1>8. CASE UNCHANGED windowVars
  BY <1>8 DEF windowVars, bufferVars
<1> QED
  BY <1>4, <1>5, <1>6, <1>7, <1>8, WindowSteps

\* The places and times of a ring that keeps its variables are what they were.
LEMMA RingUnchanged ==
    ASSUME UNCHANGED <<front, count, indexes, values, times>>
    PROVE  \A k \in 1 .. count : TimeOf(k)' = TimeOf(k) /\ ValueOf(k)' = ValueOf(k)
                                 /\ IndexOf(k)' = IndexOf(k)
BY DEF TimeOf, ValueOf, IndexOf, PlaceOf

\* Each step keeps the ring in order.
LEMMA RingAgain ==
    ASSUME RingTypeOK, RingInv, [WindowsNext]_windowVars
    PROVE  RingInv'
<1>1. count \in 0 .. Size /\ Size \in Nat \ {0} /\ now \in Nat /\ Modulus \in Nat \ {0}
  BY WindowsAssumption DEF RingTypeOK
<1>2. \A k \in 1 .. count : TimeOf(k) \in Nat
  BY <1>1, PlaceFacts DEF RingTypeOK, PlaceOf, TimeOf
<1>3. CASE Tick
  <2>1. UNCHANGED <<front, count, indexes, values, times>> /\ now' = now + 1
    BY <1>3 DEF Tick, bufferVars
  <2>2. count > 0 => TimeOf(1) = times[front] /\ TimeOf(1)' = TimeOf(1)
    BY <1>1, <2>1, RingUnchanged, PlaceFacts DEF TimeOf, PlaceOf, RingTypeOK
  <2>3. count > 0 => now' - TimeOf(1)' < Modulus
    BY <1>1, <1>2, <1>3, <2>1, <2>2 DEF Tick
  <2> QED
    BY <1>1, <1>2, <2>1, <2>3, RingUnchanged DEF RingInv
<1>4. ASSUME NEW value \in Values \union {0}, Write(value) PROVE RingInv'
  <2> DEFINE p == PushedOut
  <2>1. /\ count' \in 1 .. Size /\ count' = count - p + 1 /\ p \in {0, 1} /\ p <= count
        /\ \A k \in 1 .. count' - 1 : TimeOf(k)' = TimeOf(k + p) /\ IndexOf(k)' = IndexOf(k + p)
        /\ \A k \in 1 .. count' : k = count' => TimeOf(k)' = now /\ IndexOf(k)' = Index
    BY <1>4, WriteOutcome
  <2>2. now' = now
    BY <1>4 DEF Write
  <2> HIDE DEF p
  <2>3. \A k \in 1 .. count' : TimeOf(k)' <= now' /\ IndexOf(k)' = TimeOf(k)' % Modulus
    <3> SUFFICES ASSUME NEW k \in 1 .. count'
                 PROVE  TimeOf(k)' <= now' /\ IndexOf(k)' = TimeOf(k)' % Modulus
      OBVIOUS
    <3>1. CASE k = count'
      BY <1>1, <2>1, <2>2, <3>1 DEF Index
    <3>2. CASE k # count'
      <4>1. k \in 1 .. count' - 1 /\ k + p \in 1 .. count
        BY <1>1, <2>1, <3>2
      <4> QED
        BY <1>1, <2>1, <2>2, <4>1 DEF RingInv
    <3> QED
      BY <3>1, <3>2
  <2>4. ASSUME NEW j \in 1 .. count', NEW k \in 1 .. count', j <= k
        PROVE  TimeOf(j)' <= TimeOf(k)'
    <3>1. CASE k = count'
      <4>1. TimeOf(k)' = now /\ TimeOf(j)' <= now'
        BY <2>1, <2>3, <3>1
      <4> QED
        BY <2>2, <4>1
    <3>2. CASE k # count'
      <4>1. /\ k \in 1 .. count' - 1 /\ k + p \in 1 .. count
            /\ j \in 1 .. count' - 1 /\ j + p \in 1 .. count /\ j + p <= k + p
        BY <1>1, <2>1, <2>4, <3>2
      <4> QED
        BY <2>1, <4>1 DEF RingInv
    <3> QED
      BY <3>1, <3>2
  <2>5. now' - TimeOf(1)' < Modulus
    <3>1. CASE count' = 1
      BY <1>1, <2>1, <2>2, <3>1
    <3>2. CASE count' # 1
      <4>1. 1 \in 1 .. count' - 1 /\ 1 + p \in 1 .. count /\ 1 \in 1 .. count
        BY <1>1, <2>1, <3>2
      <4>2. TimeOf(1)' = TimeOf(1 + p) /\ TimeOf(1) <= TimeOf(1 + p) /\ now - TimeOf(1) < Modulus
        BY <1>1, <2>1, <4>1 DEF RingInv
      <4>3. TimeOf(1) \in Nat /\ TimeOf(1 + p) \in Nat
        BY <1>2, <4>1
      <4> QED
        BY <1>1, <2>2, <4>2, <4>3
    <3> QED
      BY <3>1, <3>2
  <2> QED
    BY <2>3, <2>4, <2>5 DEF RingInv
<1>5. ASSUME NEW n \in 0 .. count, Dropped(n) PROVE RingInv'
  <2>1. /\ count' = count - n /\ now' = now
        /\ \A k \in 1 .. count' : TimeOf(k)' = TimeOf(k + n) /\ IndexOf(k)' = IndexOf(k + n)
    BY <1>5, DropOutcome DEF Dropped
  <2>2. \A k \in 1 .. count' : k + n \in 1 .. count
    BY <1>1, <2>1
  <2>3. \A k \in 1 .. count' : TimeOf(k)' <= now' /\ IndexOf(k)' = TimeOf(k)' % Modulus
    BY <2>1, <2>2 DEF RingInv
  <2>4. \A j, k \in 1 .. count' : j <= k => TimeOf(j)' <= TimeOf(k)'
    <3> SUFFICES ASSUME NEW j \in 1 .. count', NEW k \in 1 .. count', j <= k
                 PROVE  TimeOf(j)' <= TimeOf(k)'
      OBVIOUS
    <3>1. j + n \in 1 .. count /\ k + n \in 1 .. count /\ j + n <= k + n
      BY <1>1, <2>2
    <3> QED
      BY <2>1, <3>1 DEF RingInv
  <2>5. ASSUME count' > 0 PROVE now' - TimeOf(1)' < Modulus
    <3>1. 1 \in 1 .. count' /\ 1 + n \in 1 .. count /\ 1 \in 1 .. count
      BY <1>1, <2>1, <2>5
    <3>2. TimeOf(1)' = TimeOf(1 + n) /\ TimeOf(1) <= TimeOf(1 + n) /\ now - TimeOf(1) < Modulus
      BY <1>1, <2>1, <3>1 DEF RingInv
    <3> QED
      BY <1>1, <1>2, <2>1, <3>1, <3>2
  <2> QED
    BY <2>3, <2>4, <2>5 DEF RingInv
<1>6. CASE Emptied
  BY <1>6 DEF Emptied, RingInv
<1>7. CASE UNCHANGED windowVars
  <2>1. UNCHANGED <<now, front, count, indexes, values, times>>
    BY <1>7 DEF windowVars, bufferVars
  <2> QED
    BY <1>1, <2>1, RingUnchanged DEF RingInv
<1> QED
  BY <1>3, <1>4, <1>5, <1>6, <1>7, WindowSteps

\* The empty ring.
LEMMA RingStarts ==
    ASSUME WindowsInit
    PROVE  RingTypeOK /\ RingInv
<1>1. Size \in Nat \ {0} /\ 0 \in Location
  BY WindowsAssumption DEF Location
<1>2. <<>> \in Seq(Nat)
  OBVIOUS
<1> QED
  BY <1>1, <1>2 DEF WindowsInit, RingTypeOK, RingInv

\* The two together, always.
LEMMA RingHolds == WindowsSpec => [](RingTypeOK /\ RingInv)
<1>1. WindowsInit => RingTypeOK /\ RingInv
  BY RingStarts
<1>2. RingTypeOK /\ RingInv /\ [WindowsNext]_windowVars => (RingTypeOK /\ RingInv)'
  BY RingTypeKept, RingAgain
<1> QED
  BY <1>1, <1>2, PTL DEF WindowsSpec
-----------------------------------------------------------------------------
(***************************************************************************)
(* The ring as the queue of the contract.                                  *)
(***************************************************************************)
Entries == [k \in 1 .. count |->
              [time |-> times[LocationAfter(front, k - 1)],
               value |-> values[LocationAfter(front, k - 1)]]]

EntryKinds == [time : Nat, value : Values \union {0}]

EntriesOK ==
    /\ Entries \in Seq(EntryKinds) /\ Len(Entries) = count /\ count \in Nat
    /\ \A k \in 1 .. count : Entries[k] = [time |-> TimeOf(k), value |-> ValueOf(k)]

\* What is in the ring are samples of the queue.
LEMMA EntriesFacts == RingTypeOK => EntriesOK
<1> SUFFICES ASSUME RingTypeOK PROVE EntriesOK
  OBVIOUS
<1>1. count \in Nat
  BY WindowsAssumption DEF RingTypeOK
<1>2. \A k \in 1 .. count : Entries[k] = [time |-> TimeOf(k), value |-> ValueOf(k)]
  BY DEF Entries, TimeOf, ValueOf, PlaceOf
<1>3. \A k \in 1 .. count : TimeOf(k) \in Nat /\ ValueOf(k) \in Values \union {0}
  BY WindowsAssumption, PlaceFacts DEF RingTypeOK, TimeOf, ValueOf, PlaceOf
<1>4. Entries \in [1 .. count -> EntryKinds]
  <2>1. \A k \in 1 .. count : [time |-> TimeOf(k), value |-> ValueOf(k)] \in EntryKinds
    BY <1>3 DEF EntryKinds
  <2> QED
    BY <2>1 DEF Entries, TimeOf, ValueOf, PlaceOf
<1> QED
  BY <1>1, <1>2, <1>4, FunctionIsSeq DEF EntriesOK

\* What a step makes of the queue.
LEMMA EntriesWritten ==
    ASSUME RingTypeOK, RingTypeOK', NEW value \in Values \union {0}, Write(value)
    PROVE  Entries' = Append(IF Len(Entries) = Size THEN Tail(Entries) ELSE Entries,
                             [time |-> now, value |-> value])
<1> DEFINE rest == IF Len(Entries) = Size THEN Tail(Entries) ELSE Entries
           entry == [time |-> now, value |-> value]
           p == PushedOut
<1>1. /\ count' = count - p + 1 /\ p \in {0, 1} /\ p <= count
      /\ \A k \in 1 .. count' - 1 : TimeOf(k)' = TimeOf(k + p) /\ ValueOf(k)' = ValueOf(k + p)
      /\ \A k \in 1 .. count' : k = count' => TimeOf(k)' = now /\ ValueOf(k)' = value
  BY WriteOutcome
<1>2. /\ Entries \in Seq(EntryKinds) /\ Len(Entries) = count /\ count \in Nat
      /\ \A k \in 1 .. count : Entries[k] = [time |-> TimeOf(k), value |-> ValueOf(k)]
  BY EntriesFacts DEF EntriesOK
<1>3. /\ Entries' \in Seq(EntryKinds) /\ Len(Entries') = count' /\ count' \in Nat
      /\ \A k \in 1 .. count' : Entries'[k] = [time |-> TimeOf(k)', value |-> ValueOf(k)']
  <2>1. EntriesOK'
    BY EntriesFacts, PTL
  <2> QED
    BY <2>1 DEF EntriesOK, EntryKinds
<1>4. entry \in EntryKinds
  BY DEF EntryKinds, RingTypeOK
<1>5. /\ rest \in Seq(EntryKinds) /\ Len(rest) + 1 = count' /\ Len(rest) = count' - 1
      /\ \A k \in 1 .. count' - 1 : k + p \in 1 .. count /\ rest[k] = Entries[k + p]
  <2>1. CASE count = Size
    <3>1. p = 1 /\ Entries # <<>> /\ rest = Tail(Entries)
      BY <1>2, <2>1, WindowsAssumption, SeqFacts DEF PushedOut
    <3> QED
      BY <1>1, <1>2, <3>1, TailFacts
  <2>2. CASE count # Size
    <3>1. p = 0 /\ rest = Entries
      BY <1>2, <2>2 DEF PushedOut
    <3>2. /\ count' - 1 = count /\ count + 1 = count'
          /\ \A k \in 1 .. count' - 1 : k + p \in 1 .. count /\ k + p = k
      BY <1>1, <1>2, <3>1
    <3> QED
      BY <1>2, <3>1, <3>2
  <2> QED
    BY <2>1, <2>2
<1> HIDE DEF rest, entry, p
<1>6. /\ Append(rest, entry) \in Seq(EntryKinds) /\ Len(Append(rest, entry)) = count'
      /\ \A k \in 1 .. count' - 1 : Append(rest, entry)[k] = rest[k]
      /\ Append(rest, entry)[count'] = entry
  BY <1>4, <1>5, AppendFacts
<1>7. ASSUME NEW k \in 1 .. count' PROVE Entries'[k] = Append(rest, entry)[k]
  <2>1. CASE k = count'
    BY <1>1, <1>3, <1>6, <2>1 DEF entry
  <2>2. CASE k # count'
    <3>1. k \in 1 .. count' - 1
      BY <1>3, <2>2
    <3> QED
      BY <1>1, <1>2, <1>3, <1>5, <1>6, <3>1
  <2> QED
    BY <2>1, <2>2
<1>8. Entries' = Append(rest, entry)
  BY <1>3, <1>6, <1>7, SeqEqual
<1> QED
  BY <1>8 DEF rest, entry

\* The queue without the samples that slide out.
LEMMA EntriesDropped ==
    ASSUME RingTypeOK, RingTypeOK', NEW n \in 0 .. count, Dropped(n)
    PROVE  Entries' = SubSeq(Entries, n + 1, Len(Entries))
<1>1. /\ count' = count - n
      /\ \A k \in 1 .. count' : TimeOf(k)' = TimeOf(k + n) /\ ValueOf(k)' = ValueOf(k + n)
  BY DropOutcome DEF Dropped
<1>2. /\ Entries \in Seq(EntryKinds) /\ Len(Entries) = count /\ count \in Nat
      /\ \A k \in 1 .. count : Entries[k] = [time |-> TimeOf(k), value |-> ValueOf(k)]
  BY EntriesFacts DEF EntriesOK
<1>3. /\ Entries' \in Seq(EntryKinds) /\ Len(Entries') = count' /\ count' \in Nat
      /\ \A k \in 1 .. count' : Entries'[k] = [time |-> TimeOf(k)', value |-> ValueOf(k)']
  <2>1. EntriesOK'
    BY EntriesFacts, PTL
  <2> QED
    BY <2>1 DEF EntriesOK, EntryKinds
<1>4. /\ SubSeq(Entries, n + 1, count) \in Seq(EntryKinds)
      /\ Len(SubSeq(Entries, n + 1, count)) = count'
      /\ \A k \in 1 .. count' : SubSeq(Entries, n + 1, count)[k] = Entries[n + k]
  BY <1>1, <1>2, SubSeqProperties
<1>5. ASSUME NEW k \in 1 .. count' PROVE Entries'[k] = SubSeq(Entries, n + 1, count)[k]
  <2>1. k + n \in 1 .. count /\ n + k = k + n
    BY <1>1, <1>2
  <2> QED
    BY <1>1, <1>2, <1>3, <1>4, <2>1
<1> QED
  BY <1>2, <1>3, <1>4, <1>5, SeqEqual

\* Each step of the windows is one of the queue.
LEMMA WindowStepsQueue ==
    ASSUME RingTypeOK, RingTypeOK', RingInv, [WindowsNext]_windowVars
    PROVE  [Contract!Next]_<<now, slid, Entries>>
<1>1. Entries \in Seq(EntryKinds) /\ Len(Entries) = count /\ count \in Nat
  BY EntriesFacts DEF EntriesOK
<1>2. ASSUME UNCHANGED <<front, count, values, times>> PROVE Entries' = Entries
  BY <1>2 DEF Entries
<1>3. CASE Tick
  BY <1>2, <1>3 DEF Tick, bufferVars, Contract!Next, Contract!Tick, Entries
<1>4. ASSUME NEW value \in Values \union {0}, Write(value), slid' = slid, now' = now
      PROVE  Contract!Sample
  <2>1. Entries' = Append(IF Len(Entries) = Size THEN Tail(Entries) ELSE Entries,
                          [time |-> now, value |-> value])
    BY <1>4, EntriesWritten
  <2> QED
    BY <1>4, <2>1 DEF Contract!Sample, Entries
<1>5. CASE (\E value \in Values : Sample(value)) \/ ThrottleSample \/ TryUseSlot
  BY <1>4, <1>5 DEF Sample, ThrottleSample, TryUseSlot, Write, Contract!Next
<1>6. CASE SlideOne \/ ThrottleSlideOne
  <2>1. Dropped(1) /\ count > 0 /\ 1 \in 0 .. count /\ UNCHANGED <<now, slid>>
    BY <1>1, <1>6 DEF SlideOne, ThrottleSlideOne, ForceSlide, ThrottleForceSlide, Dropped
  <2>2. Entries' = SubSeq(Entries, 2, Len(Entries))
    BY <2>1, EntriesDropped
  <2>3. Entries # <<>>
    BY <1>1, <2>1, SeqFacts
  <2>4. Entries' = Tail(Entries)
    <3>1. /\ Tail(Entries) \in Seq(EntryKinds) /\ Len(Tail(Entries)) = count - 1
          /\ \A k \in 1 .. count - 1 : Tail(Entries)[k] = Entries[k + 1]
      BY <1>1, <2>3, TailFacts
    <3>2. \A k \in 2 .. count : Entries[k] \in EntryKinds
      BY <1>1, SeqFacts
    <3>3. /\ Entries' \in Seq(EntryKinds) /\ Len(Entries') = count - 1
          /\ \A k \in 1 .. count - 1 : Entries'[k] = Entries[2 + k - 1]
      BY <1>1, <2>1, <2>2, <3>2, SubSeqProperties
    <3>4. \A k \in 1 .. count - 1 : Entries'[k] = Tail(Entries)[k]
      <4>1. \A k \in 1 .. count - 1 : 2 + k - 1 = k + 1
        OBVIOUS
      <4> QED
        BY <3>1, <3>3, <4>1
    <3> QED
      BY <1>1, <3>1, <3>3, <3>4, SeqEqual
  <2> QED
    BY <2>1, <2>3, <2>4 DEF Contract!Next, Contract!SlideOne, Entries
<1>7. CASE Slide \/ ThrottleSlide
  <2>1. Dropped(SlidTo) /\ slid' = now /\ now' = now
    BY <1>7 DEF Slide, ThrottleSlide, ForceSlide, ThrottleForceSlide, Dropped
  <2>2. /\ SlidTo \in 0 .. Len(Entries)
        /\ \A k \in 1 .. Len(Entries) : now - Entries[k].time > Duration <=> k <= SlidTo
    BY <1>1, SlidToFacts, EntriesFacts DEF EntriesOK
  <2>3. Entries' = SubSeq(Entries, SlidTo + 1, Len(Entries))
    BY <2>1, SlidToFacts, EntriesDropped
  <2>4. Contract!Slide
    BY <2>1, <2>2, <2>3 DEF Contract!Slide, Entries
  <2> QED
    BY <2>4 DEF Contract!Next
<1>8. CASE Reset \/ ThrottleReset
  <2>1. count' = 0 /\ UNCHANGED <<now, slid>>
    BY <1>8 DEF Reset, ThrottleReset
  <2>2. EntriesOK'
    BY EntriesFacts, PTL
  <2>3. Entries' = <<>>
    BY <2>1, <2>2, SeqFacts DEF EntriesOK
  <2> QED
    BY <2>1, <2>3 DEF Contract!Next, Contract!Reset, Entries
<1>9. CASE UNCHANGED windowVars
  BY <1>2, <1>9 DEF windowVars, bufferVars
<1> QED
  BY <1>3, <1>5, <1>6, <1>7, <1>8, <1>9 DEF WindowsNext

\* ImplementsContract: the ring buffer, whatever its size, its duration and the
\* width of its indexes, is a queue of the latest samples, and slide() drops
\* those that are older than the duration and no other.
THEOREM WindowImplementsQueue == WindowsSpec => ImplementsContract
<1>1. WindowsInit => Contract!Init
  <2> SUFFICES ASSUME WindowsInit PROVE Contract!Init
    OBVIOUS
  <2>1. Entries = <<>>
    BY RingStarts, EntriesFacts, SeqFacts DEF EntriesOK, WindowsInit
  <2> QED
    BY <2>1 DEF Contract!Init, WindowsInit, Entries
<1>2. /\ RingTypeOK /\ RingInv /\ RingTypeOK' /\ [WindowsNext]_windowVars
      => [Contract!Next]_<<now, slid, Entries>>
  BY WindowStepsQueue
<1> QED
  BY <1>1, <1>2, RingHolds, PTL DEF WindowsSpec, ImplementsContract, Contract!Spec, Entries
-----------------------------------------------------------------------------
(***************************************************************************)
(* Throttles: of the latest uses, as many as there are elements in the     *)
(* ring are each as old as one of these or older, and those before them    *)
(* are older than the duration.                                            *)
(***************************************************************************)
SlotInv ==
    /\ kind # "throttle" => uses = <<>>
    /\ \A i, j \in 1 .. Len(uses) : i <= j => uses[i] <= uses[j]
    /\ \A i \in 1 .. Len(uses) :
         /\ uses[i] <= now
         /\ i + count <= Len(uses) => now - uses[i] > Duration
         /\ \A k \in 1 .. count : i + count = Len(uses) + k => uses[i] <= TimeOf(k)
    /\ ThrottleLimit

\* Where there are no uses, there is nothing to limit.
LEMMA NoUses ==
    ASSUME uses' = <<>>
    PROVE  SlotInv'
<1>1. Len(uses') = 0 /\ Size \in Nat
  BY WindowsAssumption
<1> QED
  BY <1>1 DEF SlotInv, ThrottleLimit

\* A use is put into the ring where it finds room: fewer than Size others are
\* less than the duration old.
LEMMA UseKeepsSlots ==
    ASSUME RingTypeOK, RingInv, SlotInv, TryUseSlot
    PROVE  SlotInv'
<1> DEFINE all == Append(uses, now)
           n == Len(uses)
<1>1. /\ Size \in Nat \ {0} /\ Duration \in Nat /\ count \in Nat /\ count < Size /\ now \in Nat
      /\ uses \in Seq(Nat) /\ n \in Nat /\ \A i \in 1 .. n : uses[i] \in Nat
  BY WindowsAssumption, SeqFacts DEF RingTypeOK, TryUseSlot, HasSlot
<1>2. /\ kind' = kind /\ kind = "throttle" /\ now' = now
      /\ uses' = IF Len(all) > Size + 1 THEN Tail(all) ELSE all
  BY DEF TryUseSlot, Write, Latest
<1>3. /\ count' = count + 1
      /\ \A k \in 1 .. count : TimeOf(k)' = TimeOf(k)
      /\ \A k \in 1 .. count' : k = count' => TimeOf(k)' = now
  <2>1. Write(0) /\ PushedOut = 0
    BY <1>1 DEF TryUseSlot, PushedOut
  <2>2. /\ count' = count - 0 + 1
        /\ \A k \in 1 .. count' - 1 : TimeOf(k)' = TimeOf(k + 0)
        /\ \A k \in 1 .. count' : k = count' => TimeOf(k)' = now
    BY <2>1, WriteOutcome
  <2> QED
    BY <1>1, <2>2
<1>4. /\ all \in Seq(Nat) /\ Len(all) = n + 1 /\ all # <<>>
      /\ \A i \in 1 .. n : all[i] = uses[i]
      /\ all[n + 1] = now
  <2>1. /\ all \in Seq(Nat) /\ Len(all) = n + 1
        /\ \A i \in 1 .. n : all[i] = uses[i]
        /\ all[n + 1] = now
    BY <1>1, AppendFacts
  <2> QED
    BY <1>1, <2>1, SeqFacts
<1> HIDE DEF all, n
<1>5. \A i, j \in 1 .. n + 1 : i <= j => all[i] <= all[j]
  <2>1. \A i, j \in 1 .. n : i <= j => uses[i] <= uses[j]
    BY DEF SlotInv, n
  <2>2. \A i \in 1 .. n : uses[i] <= now
    BY DEF SlotInv, n
  <2> QED
    BY <1>1, <1>4, <2>1, <2>2
<1>6. ASSUME NEW i \in 1 .. n + 1
      PROVE  /\ all[i] <= now
             /\ i + count' <= n + 1 => now - all[i] > Duration
             /\ \A k \in 1 .. count' : i + count' = n + 1 + k => all[i] <= TimeOf(k)'
  <2>1. CASE i = n + 1
    BY <1>1, <1>3, <1>4, <2>1
  <2>2. CASE i # n + 1
    <3>1. i \in 1 .. n /\ all[i] = uses[i]
      BY <1>1, <1>4, <2>2
    <3>2. /\ uses[i] <= now
          /\ i + count <= n => now - uses[i] > Duration
          /\ \A k \in 1 .. count : i + count = n + k => uses[i] <= TimeOf(k)
      BY <3>1 DEF SlotInv, n
    <3> QED
      BY <1>1, <1>3, <3>1, <3>2
  <2> QED
    BY <2>1, <2>2
<1>7. n + 1 > Size => all[n + 1] - all[n + 1 - Size] > Duration
  <2> SUFFICES ASSUME n + 1 > Size PROVE all[n + 1] - all[n + 1 - Size] > Duration
    OBVIOUS
  <2>1. n + 1 - Size \in 1 .. n + 1 /\ (n + 1 - Size) + count' <= n + 1
    BY <1>1, <1>3
  <2> QED
    BY <1>4, <1>6, <2>1
<1>8. CASE Len(all) > Size + 1
  <2>1. /\ uses' = Tail(all) /\ Len(uses') = n
        /\ \A i \in 1 .. n : uses'[i] = all[i + 1] /\ i + 1 \in 1 .. n + 1
    <3>1. Len(Tail(all)) = Len(all) - 1 /\ \A i \in 1 .. Len(all) - 1 : Tail(all)[i] = all[i + 1]
      BY <1>4, TailFacts
    <3> QED
      BY <1>1, <1>2, <1>4, <1>8, <3>1
  <2>2. \A i, j \in 1 .. n : i <= j => uses'[i] <= uses'[j]
    BY <1>1, <1>5, <2>1
  <2>3. ASSUME NEW i \in 1 .. n
        PROVE  /\ uses'[i] <= now'
               /\ i + count' <= n => now' - uses'[i] > Duration
               /\ \A k \in 1 .. count' : i + count' = n + k => uses'[i] <= TimeOf(k)'
    <3>1. /\ all[i + 1] <= now
          /\ (i + 1) + count' <= n + 1 => now - all[i + 1] > Duration
          /\ \A k \in 1 .. count' : (i + 1) + count' = n + 1 + k => all[i + 1] <= TimeOf(k)'
      BY <1>6, <2>1
    <3> QED
      BY <1>1, <1>2, <1>3, <2>1, <3>1
  <2>4. n > Size => uses'[n] - uses'[n - Size] > Duration
    <3> SUFFICES ASSUME n > Size PROVE uses'[n] - uses'[n - Size] > Duration
      OBVIOUS
    <3>1. n \in 1 .. n /\ n - Size \in 1 .. n /\ (n - Size) + 1 = n + 1 - Size /\ n + 1 > Size
      BY <1>1
    <3> QED
      BY <1>7, <2>1, <3>1
  <2> QED
    BY <1>2, <2>1, <2>2, <2>3, <2>4 DEF SlotInv, ThrottleLimit
<1>9. CASE ~(Len(all) > Size + 1)
  <2>1. uses' = all /\ Len(uses') = n + 1
    BY <1>2, <1>4, <1>9
  <2>2. \A i, j \in 1 .. n + 1 : i <= j => uses'[i] <= uses'[j]
    BY <1>5, <2>1
  <2>3. \A i \in 1 .. n + 1 :
          /\ uses'[i] <= now'
          /\ i + count' <= n + 1 => now' - uses'[i] > Duration
          /\ \A k \in 1 .. count' : i + count' = n + 1 + k => uses'[i] <= TimeOf(k)'
    BY <1>2, <1>6, <2>1
  <2>4. ThrottleLimit'
    BY <1>1, <1>7, <2>1 DEF ThrottleLimit
  <2> QED
    BY <1>2, <2>1, <2>2, <2>3, <2>4 DEF SlotInv
<1> QED
  BY <1>8, <1>9

\* A sample that is forced takes the room of a use, or pushes the oldest element
\* out of a full ring.
LEMMA SampleKeepsSlots ==
    ASSUME RingTypeOK, RingInv, SlotInv, ThrottleSample
    PROVE  SlotInv'
<1> DEFINE n == Len(uses)
           p == PushedOut
<1>1. /\ Size \in Nat \ {0} /\ Duration \in Nat /\ count \in 0 .. Size /\ now \in Nat
      /\ uses \in Seq(Nat) /\ n \in Nat /\ \A i \in 1 .. n : uses[i] \in Nat
      /\ \A k \in 1 .. count : TimeOf(k) \in Nat
  BY WindowsAssumption, SeqFacts, PlaceFacts DEF RingTypeOK, TimeOf, PlaceOf
<1>2. uses' = uses /\ kind' = kind /\ kind = "throttle" /\ now' = now
  BY DEF ThrottleSample, Write
<1>3. /\ count' = count - p + 1 /\ p \in {0, 1} /\ p <= count
      /\ \A k \in 1 .. count' - 1 : TimeOf(k)' = TimeOf(k + p)
      /\ \A k \in 1 .. count' : k = count' => TimeOf(k)' = now
  BY WriteOutcome DEF ThrottleSample
<1>4. /\ \A i, j \in 1 .. n : i <= j => uses[i] <= uses[j]
      /\ \A i \in 1 .. n :
           /\ uses[i] <= now
           /\ i + count <= n => now - uses[i] > Duration
           /\ \A k \in 1 .. count : i + count = n + k => uses[i] <= TimeOf(k)
      /\ ThrottleLimit
  BY DEF SlotInv
<1>5. \A j, k \in 1 .. count : j <= k => TimeOf(j) <= TimeOf(k)
  BY DEF RingInv
<1> HIDE DEF n, p
<1>6. ASSUME NEW i \in 1 .. n
      PROVE  i + count' <= n => now - uses[i] > Duration
  BY <1>1, <1>3, <1>4
<1>7. ASSUME NEW i \in 1 .. n, NEW k \in 1 .. count', i + count' = n + k
      PROVE  uses[i] <= TimeOf(k)'
  <2>1. CASE k = count'
    BY <1>1, <1>3, <1>4, <1>7, <2>1
  <2>2. CASE k # count'
    <3>1. k \in 1 .. count' - 1 /\ k + p \in 1 .. count /\ i + 1 \in 1 .. n
      BY <1>1, <1>3, <1>7, <2>2
    <3>2. (i + 1) + count = n + (k + p)
      BY <1>1, <1>3, <1>7
    <3>3. uses[i + 1] <= TimeOf(k + p) /\ uses[i] <= uses[i + 1]
      BY <1>4, <3>1, <3>2
    <3> QED
      BY <1>1, <1>3, <3>1, <3>3
  <2> QED
    BY <2>1, <2>2
<1> QED
  BY <1>2, <1>4, <1>6, <1>7 DEF SlotInv, ThrottleLimit, n

\* What slide() takes out of the ring has expired, and so have the uses before it.
LEMMA SlideKeepsSlots ==
    ASSUME RingTypeOK, RingInv, SlotInv, ThrottleSlide
    PROVE  SlotInv'
<1> DEFINE n == Len(uses)
           s == SlidTo
<1>1. /\ Duration \in Nat /\ count \in Nat /\ now \in Nat
      /\ uses \in Seq(Nat) /\ n \in Nat /\ \A i \in 1 .. n : uses[i] \in Nat
      /\ \A k \in 1 .. count : TimeOf(k) \in Nat
  BY WindowsAssumption, SeqFacts, PlaceFacts DEF RingTypeOK, TimeOf, PlaceOf
<1>2. Dropped(s) /\ uses' = uses
  BY DEF ThrottleSlide, ThrottleForceSlide, Dropped
<1>3. s \in 0 .. count /\ \A k \in 1 .. count : now - TimeOf(k) > Duration <=> k <= s
  BY SlidToFacts
<1>4. /\ count' = count - s /\ kind' = kind /\ now' = now
      /\ \A k \in 1 .. count' : TimeOf(k)' = TimeOf(k + s)
  BY <1>2, <1>3, DropOutcome DEF Dropped
<1>5. /\ \A i, j \in 1 .. n : i <= j => uses[i] <= uses[j]
      /\ \A i \in 1 .. n :
           /\ uses[i] <= now
           /\ i + count <= n => now - uses[i] > Duration
           /\ \A k \in 1 .. count : i + count = n + k => uses[i] <= TimeOf(k)
      /\ kind # "throttle" => uses = <<>>
      /\ ThrottleLimit
  BY DEF SlotInv
<1> HIDE DEF n, s
<1>6. ASSUME NEW i \in 1 .. n, i + count' <= n PROVE now - uses[i] > Duration
  <2>1. CASE i + count <= n
    BY <1>5, <2>1
  <2>2. CASE i + count > n
    <3> DEFINE k == i + count - n
    <3>1. k \in 1 .. count /\ i + count = n + k /\ k <= s
      BY <1>1, <1>3, <1>4, <1>6, <2>2
    <3>2. uses[i] <= TimeOf(k) /\ now - TimeOf(k) > Duration
      BY <1>3, <1>5, <3>1
    <3> QED
      BY <1>1, <3>1, <3>2
  <2> QED
    BY <1>1, <2>1, <2>2
<1>7. ASSUME NEW i \in 1 .. n, NEW k \in 1 .. count', i + count' = n + k
      PROVE  uses[i] <= TimeOf(k)'
  <2>1. k + s \in 1 .. count /\ i + count = n + (k + s)
    BY <1>1, <1>3, <1>4, <1>7
  <2> QED
    BY <1>4, <1>5, <2>1
<1> QED
  BY <1>2, <1>4, <1>5, <1>6, <1>7 DEF SlotInv, ThrottleLimit, n

\* Each step keeps what is known of the uses.
LEMMA SlotsKept ==
    ASSUME RingTypeOK, RingInv, SlotInv, [WindowsNext]_windowVars
    PROVE  SlotInv'
<1>1. CASE kind # "throttle"
  <2>1. uses = <<>> /\ uses' = uses
    BY <1>1 DEF SlotInv, WindowsNext, Tick, SlideOne, Slide, Reset, Sample, ThrottleSlideOne,
                ThrottleSlide, ThrottleSample, TryUseSlot, ThrottleReset, windowVars
  <2> QED
    BY <2>1, NoUses
<1>2. CASE ThrottleSlideOne \/ ThrottleReset
  BY <1>2, NoUses DEF ThrottleSlideOne, ThrottleReset
<1>3. CASE TryUseSlot
  BY <1>3, UseKeepsSlots
<1>4. CASE ThrottleSample
  BY <1>4, SampleKeepsSlots
<1>5. CASE ThrottleSlide
  BY <1>5, SlideKeepsSlots
<1>6. CASE Tick
  <2>1. UNCHANGED <<kind, uses, front, count, indexes, values, times>> /\ now' = now + 1
    BY <1>6 DEF Tick, bufferVars
  <2>2. \A k \in 1 .. count : TimeOf(k)' = TimeOf(k)
    BY <2>1, RingUnchanged
  <2>3. /\ now \in Nat /\ Duration \in Nat /\ Len(uses) \in Nat
        /\ \A i \in 1 .. Len(uses) : uses[i] \in Nat
    BY WindowsAssumption, SeqFacts DEF RingTypeOK
  <2>4. \A i \in 1 .. Len(uses) :
          /\ uses[i] <= now + 1
          /\ i + count <= Len(uses) => now + 1 - uses[i] > Duration
    BY <2>3 DEF SlotInv
  <2>5. ASSUME NEW i \in 1 .. Len(uses)
        PROVE  \A k \in 1 .. count : i + count = Len(uses) + k => uses[i] <= TimeOf(k)'
    BY <2>2 DEF SlotInv
  <2>6. /\ kind' # "throttle" => uses' = <<>>
        /\ \A i, j \in 1 .. Len(uses') : i <= j => uses'[i] <= uses'[j]
        /\ ThrottleLimit'
    BY <2>1 DEF SlotInv, ThrottleLimit
  <2>7. \A i \in 1 .. Len(uses') :
          /\ uses'[i] <= now'
          /\ i + count' <= Len(uses') => now' - uses'[i] > Duration
    BY <2>1, <2>3, <2>4
  <2>8. \A i \in 1 .. Len(uses') : \A k \in 1 .. count' :
          i + count' = Len(uses') + k => uses'[i] <= TimeOf(k)'
    BY <2>1, <2>5
  <2> QED
    BY <2>6, <2>7, <2>8 DEF SlotInv
<1>7. CASE UNCHANGED windowVars
  <2>1. UNCHANGED <<kind, uses, now, front, count, indexes, values, times>>
    BY <1>7 DEF windowVars, bufferVars
  <2>2. \A k \in 1 .. count : TimeOf(k)' = TimeOf(k)
    BY <2>1, RingUnchanged
  <2> QED
    BY <2>1, <2>2 DEF SlotInv, ThrottleLimit
<1> QED
  BY <1>1, <1>2, <1>3, <1>4, <1>5, <1>6, <1>7
     DEF WindowsNext, SlideOne, Slide, Reset, Sample

\* ThrottleLimit: whatever its size and duration are, whenever it is slid and
\* whatever samples are forced on it, a throttle lets no more uses pass in any
\* period of its duration than it has slots.
THEOREM ThrottleLimitHolds == WindowsSpec => []ThrottleLimit
<1>1. WindowsInit => SlotInv
  <2> SUFFICES ASSUME WindowsInit PROVE SlotInv
    OBVIOUS
  <2>1. uses = <<>> /\ Len(uses) = 0 /\ Size \in Nat
    BY WindowsAssumption DEF WindowsInit
  <2> QED
    BY <2>1 DEF SlotInv, ThrottleLimit
<1>2. RingTypeOK /\ RingInv /\ SlotInv /\ [WindowsNext]_windowVars => SlotInv'
  BY SlotsKept
<1>3. SlotInv => ThrottleLimit
  BY DEF SlotInv
<1> QED
  BY <1>1, <1>2, <1>3, RingHolds, PTL DEF WindowsSpec
-----------------------------------------------------------------------------
(***************************************************************************)
(* Fractions: what is done to fractions is done to the numbers they stand  *)
(* for.  A fraction is known by its cross products, as division is not.    *)
(***************************************************************************)
\* The fraction f is n / d.
Is(f, n, d) == /\ f[1] \in Int /\ f[2] \in Nat \ {0}
               /\ f[1] * d = n * f[2]

\* A fraction in lowest terms.
LEMMA FractionIs ==
    ASSUME NEW n \in Int, NEW d \in Nat \ {0}
    PROVE  Is(Fraction(n, d), n, d)
<1> DEFINE S == {k \in 1 .. Absolute(n) : n % k = 0 /\ Absolute(d) % k = 0}
           k == IF n = 0 THEN d ELSE Max(S)
<1>1. Absolute(n) \in Nat /\ Absolute(d) = d /\ (n # 0 => Absolute(n) >= 1)
  BY DEF Absolute
<1>2. k \in Nat \ {0} /\ n % k = 0 /\ d % k = 0
  <2>1. CASE n = 0
    <3>1. 0 % d = 0 /\ d % d = 0
      BY SMTT(30)
    <3> QED
      BY <2>1, <3>1
  <2>2. CASE n # 0
    <3>1. 1 \in S
      BY <1>1, <2>2
    <3>2. S \in SUBSET (0 .. Absolute(n))
      BY <1>1
    <3> HIDE DEF S
    <3>3. Max(S) \in S
      BY <1>1, <3>1, <3>2, MaxIsGreatest
    <3>4. Max(S) \in Nat \ {0} /\ n % Max(S) = 0 /\ d % Max(S) = 0
      BY <1>1, <3>3 DEF S
    <3> QED
      BY <2>2, <3>4
  <2> QED
    BY <2>1, <2>2
<1>3. Fraction(n, d) = <<1 * (n \div k), d \div k>>
  <2>1. ~(d < 0)
    OBVIOUS
  <2> QED
    BY <1>1, <2>1, Zenon DEF Fraction
<1> HIDE DEF k
<1> DEFINE p == n \div k
           q == d \div k
<1>4. p \in Int /\ q \in Int /\ n = k * p /\ d = k * q
  <2>1. \A z \in Int : z \div k \in Int /\ z = (k * (z \div k)) + (z % k)
    BY <1>2
  <2> QED
    BY <1>2, <2>1
<1>5. Fraction(n, d) = <<1 * p, q>>
  BY <1>3
<1> HIDE DEF p, q
<1>6. q \in Nat \ {0}
  <2>1. q <= 0 => k * q <= 0
    BY <1>2, <1>4
  <2> QED
    BY <1>4, <2>1
<1>7. p * d = n * q
  <2>1. p * (k * q) = (k * p) * q
    BY <1>2, <1>4
  <2> QED
    BY <1>4, <2>1
<1> QED
  BY <1>4, <1>5, <1>6, <1>7 DEF Is

\* One fraction stands for a number, whatever its numerator and denominator.
LEMMA IsCancel ==
    ASSUME NEW f, NEW n \in Int, NEW d \in Int, NEW k \in Int, k # 0, Is(f, n * k, d * k)
    PROVE  Is(f, n, d)
<1> DEFINE a == f[1]
           b == f[2]
<1>1. a \in Int /\ b \in Nat \ {0} /\ a * (d * k) = (n * k) * b
  BY DEF Is
<1> HIDE DEF a, b
<1>2. k * (a * d - n * b) = 0
  <2>1. a * (d * k) = k * (a * d) /\ (n * k) * b = k * (n * b)
    BY <1>1
  <2>2. k * (a * d - n * b) = k * (a * d) - k * (n * b)
    BY <1>1
  <2> QED
    BY <1>1, <2>1, <2>2
<1>3. a * d - n * b = 0
  <2>1. PICK z \in Int : z = a * d - n * b
    BY <1>1
  <2>2. z # 0 => k * z # 0
    OBVIOUS
  <2> QED
    BY <1>2, <2>1, <2>2
<1>4. a * d = n * b
  BY <1>1, <1>3
<1> QED
  BY <1>1, <1>4 DEF Is, a, b

\* What is done to fractions is done to the numbers.
LEMMA FractionSum ==
    ASSUME NEW f, NEW g, NEW n \in Int, NEW m \in Int, NEW d \in Int, NEW e \in Int,
           Is(f, n, d), Is(g, m, e)
    PROVE  /\ Is(Plus(f, g), n * e + m * d, d * e)
           /\ Is(Minus(f, g), n * e - m * d, d * e)
           /\ Is(Times(f, g), n * m, d * e)
<1> DEFINE a == f[1]
           b == f[2]
           c == g[1]
           h == g[2]
<1>1. /\ a \in Int /\ b \in Nat \ {0} /\ a * d = n * b
      /\ c \in Int /\ h \in Nat \ {0} /\ c * e = m * h
  BY DEF Is
<1>2. /\ Plus(f, g) = Fraction(a * h + c * b, b * h)
      /\ Minus(f, g) = Fraction(a * h - c * b, b * h)
      /\ Times(f, g) = Fraction(a * c, b * h)
  BY DEF Plus, Minus, Times
<1> HIDE DEF a, b, c, h
<1>3. b * h \in Nat \ {0}
  BY <1>1
<1>4. ASSUME NEW p \in Int, NEW q \in Int, p * (d * e) = q * (b * h)
      PROVE  Is(Fraction(p, b * h), q, d * e)
  <2>1. PICK x : x = Fraction(p, b * h)
    OBVIOUS
  <2>2. PICK k \in Nat \ {0} : k = b * h
    BY <1>3
  <2>3. Is(x, p, k)
    BY <2>1, <2>2, FractionIs
  <2>4. PICK r \in Int : r = d * e
    OBVIOUS
  <2>5. PICK y \in Int : y = x[1]
    BY <2>3 DEF Is
  <2>6. PICK z \in Nat \ {0} : z = x[2]
    BY <2>3 DEF Is
  <2>7. y * k = p * z /\ p * r = q * k
    BY <1>4, <2>2, <2>3, <2>4, <2>5, <2>6 DEF Is
  <2>8. y * (r * k) = (q * k) * z
    <3>1. y * (r * k) = r * (y * k) /\ r * (p * z) = (p * r) * z
      OBVIOUS
    <3> QED
      BY ONLY <2>7, <3>1
  <2>9. Is(x, q * k, r * k)
    BY <2>5, <2>6, <2>8 DEF Is
  <2>10. Is(x, q, r)
    <3>1. k \in Int /\ k # 0
      OBVIOUS
    <3> QED
      BY ONLY <2>9, <3>1, IsCancel
  <2> QED
    BY <2>1, <2>4, <2>10
<1>5. (a * h + c * b) * (d * e) = (n * e + m * d) * (b * h)
  <2>1. (a * h + c * b) * (d * e) = (a * d) * (h * e) + (c * e) * (b * d)
    BY <1>1
  <2>2. (n * e + m * d) * (b * h) = (n * b) * (h * e) + (m * h) * (b * d)
    BY <1>1
  <2> QED
    BY ONLY <1>1, <2>1, <2>2
<1>6. (a * h - c * b) * (d * e) = (n * e - m * d) * (b * h)
  <2>1. (a * h - c * b) * (d * e) = (a * d) * (h * e) - (c * e) * (b * d)
    BY <1>1
  <2>2. (n * e - m * d) * (b * h) = (n * b) * (h * e) - (m * h) * (b * d)
    BY <1>1
  <2> QED
    BY ONLY <1>1, <2>1, <2>2
<1>7. (a * c) * (d * e) = (n * m) * (b * h)
  <2>1. (a * c) * (d * e) = (a * d) * (c * e)
    BY <1>1
  <2>2. (n * m) * (b * h) = (n * b) * (m * h)
    BY <1>1
  <2> QED
    BY ONLY <1>1, <2>1, <2>2
<1>8. /\ a * h + c * b \in Int /\ a * h - c * b \in Int /\ a * c \in Int
      /\ n * e + m * d \in Int /\ n * e - m * d \in Int /\ n * m \in Int
  BY <1>1
<1> QED
  BY <1>2, <1>4, <1>5, <1>6, <1>7, <1>8

\* The same of a division by a whole number.
LEMMA FractionOver ==
    ASSUME NEW f, NEW n \in Int, NEW d \in Int, NEW k \in Nat \ {0}, Is(f, n, d)
    PROVE  Is(Over(f, Whole(k)), n, d * k)
<1>1. PICK a \in Int : a = f[1]
  BY DEF Is
<1>2. PICK b \in Nat \ {0} : b = f[2]
  BY DEF Is
<1>3. a * d = n * b
  BY <1>1, <1>2 DEF Is
<1>4. Over(f, Whole(k)) = Fraction(a, b * k)
  BY <1>1, <1>2 DEF Over, Whole
<1>5. PICK x : x = Fraction(a, b * k)
  OBVIOUS
<1>6. PICK c \in Nat \ {0} : c = b * k
  OBVIOUS
<1>7. Is(x, a, c)
  BY <1>5, <1>6, FractionIs
<1>8. PICK y \in Int : y = x[1]
  BY <1>7 DEF Is
<1>9. PICK z \in Nat \ {0} : z = x[2]
  BY <1>7 DEF Is
<1>10. y * c = a * z
  BY <1>7, <1>8, <1>9 DEF Is
<1>11. y * ((d * k) * b) = (n * b) * z
  <2>1. y * ((d * k) * b) = d * (y * (b * k)) /\ d * (a * z) = (a * d) * z
    OBVIOUS
  <2> QED
    BY ONLY <1>3, <1>6, <1>10, <2>1
<1>12. Is(x, n * b, (d * k) * b)
  BY <1>8, <1>9, <1>11 DEF Is
<1>13. Is(x, n, d * k)
  <2>1. d * k \in Int /\ b \in Int /\ b # 0
    OBVIOUS
  <2> QED
    BY <1>12, <2>1, IsCancel
<1> QED
  BY <1>4, <1>5, <1>13

\* A whole number in lowest terms.
LEMMA FractionIsWhole ==
    ASSUME NEW t \in Int, NEW d \in Nat \ {0}
    PROVE  Fraction(t * d, d) = Whole(t)
<1> DEFINE n == t * d
           S == {k \in 1 .. Absolute(n) : n % k = 0 /\ Absolute(d) % k = 0}
           k == IF n = 0 THEN d ELSE Max(S)
<1>1. n \in Int /\ Absolute(n) \in Nat /\ Absolute(d) = d /\ (n # 0 => Absolute(n) >= d)
  <2>1. n \in Int /\ Absolute(d) = d /\ Absolute(n) \in Nat
    BY DEF Absolute
  <2>2. t >= 1 => t * d >= d
    OBVIOUS
  <2>3. t <= -1 => t * d <= -d
    OBVIOUS
  <2>4. t = 0 => n = 0
    OBVIOUS
  <2>5. n # 0 => Absolute(n) >= d
    BY <2>1, <2>2, <2>3, <2>4 DEF Absolute
  <2> QED
    BY <2>1, <2>5
<1>2. n % d = 0 /\ d % d = 0 /\ n \div d = t /\ d \div d = 1
  <2>1. \A z \in Int : z \div d \in Int /\ z % d \in 0 .. d - 1 /\ z = (d * (z \div d)) + (z % d)
    OBVIOUS
  <2>2. ASSUME NEW z \in Int, NEW u \in Int, z = u * d
        PROVE  z % d = 0 /\ z \div d = u
    <3>1. PICK q \in Int : q = z \div d
      BY <2>1
    <3>2. PICK r \in 0 .. d - 1 : r = z % d
      BY <2>1
    <3>3. u * d = (d * q) + r
      BY <2>1, <2>2, <3>1, <3>2
    <3>4. d * (u - q) = r
      BY <3>3
    <3>5. u - q >= 1 => d * (u - q) >= d
      OBVIOUS
    <3>6. u - q <= -1 => d * (u - q) <= -d
      OBVIOUS
    <3>7. u - q = 0
      BY <3>4, <3>5, <3>6
    <3> QED
      BY <3>1, <3>2, <3>4, <3>7
  <2>3. d = 1 * d
    OBVIOUS
  <2> QED
    BY <1>1, <2>2, <2>3
<1>3. k = d
  <2>1. CASE n = 0
    BY <2>1
  <2>2. CASE n # 0
    <3>1. d \in S
      BY <1>1, <1>2, <2>2
    <3>2. S \in SUBSET (0 .. Absolute(n)) /\ \A j \in S : j \in 1 .. Absolute(n) /\ d % j = 0
      BY <1>1
    <3> HIDE DEF S
    <3>3. Max(S) \in S /\ d <= Max(S)
      BY <1>1, <3>1, <3>2, MaxIsGreatest
    <3>4. PICK j \in Nat \ {0} : j = Max(S)
      <4>1. Max(S) \in 1 .. Absolute(n)
        BY <3>2, <3>3
      <4>2. PICK m \in Nat : m = Absolute(n)
        BY <1>1
      <4> QED
        BY ONLY <4>1, <4>2
    <3>5. d % j = 0 /\ d <= j
      BY <3>2, <3>3, <3>4
    <3>6. ~(d < j)
      <4>1. d < j => d % j = d
        BY SMTT(30)
      <4> QED
        BY <3>5, <4>1
    <3>7. d = j
      BY <3>5, <3>6
    <3> QED
      BY <2>2, <3>4, <3>7
  <2> QED
    BY <2>1, <2>2
<1>4. Fraction(n, d) = <<1 * (n \div k), d \div k>>
  <2>1. ~(d < 0)
    OBVIOUS
  <2> QED
    BY <1>1, <2>1, Zenon DEF Fraction
<1>5. Fraction(n, d) = <<1 * (n \div d), d \div d>>
  BY <1>3, <1>4, Zenon
<1>6. Fraction(n, d) = <<1 * t, 1>>
  BY <1>2, <1>5, Zenon
<1> QED
  BY <1>6 DEF Whole

\* What is n times a fraction of denominator n is whole.
LEMMA TimesIsWhole ==
    ASSUME NEW f, NEW p \in Int, NEW n \in Nat \ {0}, Is(f, p, n)
    PROVE  Times(f, Whole(n)) = Whole(p)
<1>1. PICK a \in Int : a = f[1]
  BY DEF Is
<1>2. PICK b \in Nat \ {0} : b = f[2]
  BY DEF Is
<1>3. a * n = p * b
  BY <1>1, <1>2 DEF Is
<1>4. Times(f, Whole(n)) = Fraction(a * n, b * 1)
  BY <1>1, <1>2 DEF Times, Whole
<1>5. b * 1 = b
  OBVIOUS
<1>6. Fraction(a * n, b * 1) = Fraction(p * b, b)
  BY <1>3, <1>5, Zenon
<1> QED
  BY <1>4, <1>6, FractionIsWhole

\* The average and the sum of squares of n values of sum t, and of sum q of their squares.
Moments(average, m2, n, t, q) ==
    /\ n > 0 => Is(average, t, n) /\ Is(m2, n * q - t * t, n)
    /\ n = 0 => average = Zero /\ m2 = Zero

\* A value that comes, or one that goes and is not the last: the updates in place, of the
\* average and of the sum of squares, are exact.
LEMMA MomentsMove ==
    ASSUME NEW old, NEW m2, NEW n \in Nat, NEW t \in Int, NEW q \in Int, Moments(old, m2, n, t, q),
           NEW v \in Int, NEW w \in {-1, 1}, n + w \in Nat \ {0},
           n = 0 => t = 0 /\ q = 0,
           NEW delta, delta = Minus(Whole(v), old),
           NEW weighted, weighted = Times(delta, Whole(w)) \/ (w = 1 /\ weighted = delta),
           NEW average, average = Plus(old, Over(weighted, Whole(n + w)))
    PROVE  Moments(average, Plus(m2, Times(weighted, Minus(Whole(v), average))),
                   n + w, t + w * v, q + w * (v * v))
<1> DEFINE moved == Over(weighted, Whole(n + w))
           left == Minus(Whole(v), average)
           product == Times(weighted, left)
           new2 == Plus(m2, product)
           N == n + w
           T == t + w * v
           Q == q + w * (v * v)
<1>3. w \in Int /\ N \in Nat \ {0} /\ N = n + w /\ T \in Int /\ Q \in Int /\ t + v * w = T
  OBVIOUS
<1>4. \A x \in Int : Is(Whole(x), x, 1)
  BY DEF Is, Whole
<1>a. average = Plus(old, moved)
  OBVIOUS
<1>b. delta = Minus(Whole(v), old)
  OBVIOUS
<1> HIDE DEF N
<1>5. Is(average, T, N) /\ Is(new2, N * Q - T * T, N)
  <2>1. CASE n = 0
    <3>1. t = 0 /\ q = 0 /\ w = 1 /\ N = 1 /\ T = v /\ Q = v * v /\ n + w = 1
      BY <1>3, <2>1
    <3>2. old = Whole(0) /\ m2 = Whole(0)
      BY <2>1, <3>1 DEF Moments, Zero
    <3>3. Is(old, 0, 1) /\ Is(m2, 0, 1) /\ Is(Whole(v), v, 1) /\ Is(Whole(w), 1, 1)
      BY <1>4, <3>1, <3>2
    <3> HIDE DEF T, Q
    <3>4. Is(delta, v, 1)
      <4>0. 0 \in Int /\ 1 \in Int /\ Is(Whole(v), v, 1) /\ Is(old, 0, 1)
        BY <3>3
      <4>1. Is(delta, v * 1 - 0 * 1, 1 * 1)
        BY ONLY v \in Int, <1>b, <4>0, FractionSum, SMTT(60)
      <4>2. v * 1 - 0 * 1 = v /\ 1 * 1 = 1
        OBVIOUS
      <4> QED
        BY ONLY <4>1, <4>2
    <3>5. Is(weighted, v, 1)
      <4>1. Is(Times(delta, Whole(w)), v * 1, 1 * 1)
        BY ONLY v \in Int, <3>3, <3>4, FractionSum
      <4>2. v * 1 = v /\ 1 * 1 = 1
        OBVIOUS
      <4>3. Is(Times(delta, Whole(w)), v, 1)
        BY ONLY <4>1, <4>2
      <4> QED
        BY <3>4, <4>3
    <3>6. Is(moved, v, 1)
      <4>1. Is(Over(weighted, Whole(1)), v, 1 * 1)
        BY ONLY v \in Int, <3>5, FractionOver
      <4>2. 1 * 1 = 1
        OBVIOUS
      <4> QED
        BY ONLY <3>1, <4>1, <4>2
    <3> HIDE DEF moved
    <3>7. Is(average, v, 1)
      <4>1. Is(average, 0 * 1 + v * 1, 1 * 1)
        BY ONLY v \in Int, <1>a, <3>3, <3>6, FractionSum
      <4>2. 0 * 1 + v * 1 = v /\ 1 * 1 = 1
        OBVIOUS
      <4> QED
        BY ONLY <4>1, <4>2
    <3>8. Is(left, 0, 1)
      <4>1. Is(left, v * 1 - v * 1, 1 * 1)
        BY ONLY v \in Int, <3>3, <3>7, FractionSum
      <4>2. v * 1 - v * 1 = 0 /\ 1 * 1 = 1
        OBVIOUS
      <4> QED
        BY ONLY <4>1, <4>2
    <3> HIDE DEF left
    <3>9. Is(product, 0, 1)
      <4>1. Is(product, v * 0, 1 * 1)
        BY ONLY v \in Int, <3>5, <3>8, FractionSum
      <4>2. v * 0 = 0 /\ 1 * 1 = 1
        OBVIOUS
      <4> QED
        BY ONLY <4>1, <4>2
    <3> HIDE DEF product
    <3>10. Is(new2, 0, 1)
      <4>1. Is(new2, 0 * 1 + 0 * 1, 1 * 1)
        BY ONLY v \in Int, <3>3, <3>9, FractionSum
      <4>2. 0 * 1 + 0 * 1 = 0 /\ 1 * 1 = 1
        OBVIOUS
      <4> QED
        BY ONLY <4>1, <4>2
    <3> HIDE DEF new2
    <3>11. N * Q - T * T = 0
      BY <3>1
    <3> QED
      BY <3>1, <3>7, <3>10, <3>11
  <2>2. CASE n # 0
    <3> HIDE DEF T, Q
    <3> DEFINE p == n * q - t * t
               z == v * n - t
    <3>1. n \in Nat \ {0} /\ Is(old, t, n) /\ Is(m2, p, n)
      BY <2>2 DEF Moments
    <3>2. Is(Whole(v), v, 1) /\ Is(Whole(w), w, 1) /\ p \in Int /\ z \in Int /\ n \in Int /\ N \in Int
      BY <1>3, <1>4
    <3> HIDE DEF p
    <3>3. Is(delta, z, n)
      <4>1. Is(delta, v * n - t * 1, 1 * n)
        BY ONLY v \in Int, <1>b, <3>1, <3>2, FractionSum
      <4>2. v * n - t * 1 = z /\ 1 * n = n
        OBVIOUS
      <4> QED
        BY ONLY <4>1, <4>2
    <3>4. Is(weighted, z * w, n)
      <4>1. Is(Times(delta, Whole(w)), z * w, n * 1)
        BY <1>3, <3>2, <3>3, FractionSum
      <4>2. n * 1 = n /\ z * 1 = z
        OBVIOUS
      <4> QED
        BY <3>3, <4>1, <4>2
    <3>5. Is(moved, z * w, n * N)
      <4>1. z * w \in Int
        BY <1>3, <3>2
      <4>2. Is(Over(weighted, Whole(N)), z * w, n * N)
        BY <1>3, <3>2, <3>4, <4>1, FractionOver
      <4> QED
        BY <1>3, <4>2
    <3> HIDE DEF moved
    <3>6. Is(average, T, N)
      <4>1. z * w \in Int /\ n * N \in Int
        BY <1>3, <3>2
      <4>2. Is(average, t * (n * N) + (z * w) * n, n * (n * N))
        BY <1>a, <3>1, <3>2, <3>5, <4>1, FractionSum
      <4>3. /\ t * (n * N) + (z * w) * n = T * (n * n)
            /\ n * (n * N) = N * (n * n)
        BY <1>3 DEF T, N
      <4>4. n * n \in Int /\ n * n # 0
        BY <3>1
      <4>5. Is(average, T * (n * n), N * (n * n))
        BY ONLY <4>2, <4>3
      <4> QED
        BY <1>3, <3>2, <4>4, <4>5, IsCancel
    <3>7. Is(left, z, N)
      <4>1. Is(left, v * N - T * 1, 1 * N)
        BY <1>3, <3>2, <3>6, FractionSum
      <4>2. v * N - T * 1 = z /\ 1 * N = N
        BY <1>3 DEF T, N
      <4> QED
        BY ONLY <4>1, <4>2
    <3> HIDE DEF left
    <3>8. Is(product, (z * w) * z, n * N)
      <4>1. z * w \in Int
        BY <1>3, <3>2
      <4> QED
        BY <3>2, <3>4, <3>7, <4>1, FractionSum
    <3> HIDE DEF product
    <3>9. Is(new2, N * Q - T * T, N)
      <4>1. (z * w) * z \in Int /\ n * N \in Int
        BY <1>3, <3>2
      <4>2. Is(new2, p * (n * N) + ((z * w) * z) * n, n * (n * N))
        BY <3>1, <3>2, <3>8, <4>1, FractionSum
      <4>3. /\ p * (n * N) + ((z * w) * z) * n = (N * Q - T * T) * (n * n)
            /\ n * (n * N) = N * (n * n)
        <5>1. p * N + (z * w) * z = (N * Q - T * T) * n
          <6>1. CASE w = 1
            BY <6>1 DEF T, N, Q, p
          <6>2. CASE w = -1
            BY <6>2 DEF T, N, Q, p
          <6> QED
            BY <6>1, <6>2
        <5>2. p * (n * N) + ((z * w) * z) * n = (p * N + (z * w) * z) * n
          BY <1>3, <3>2
        <5>3. N * Q - T * T \in Int
          BY <1>3
        <5>4. ((N * Q - T * T) * n) * n = (N * Q - T * T) * (n * n)
          BY <5>3
        <5>5. n * (n * N) = N * (n * n)
          BY <3>2
        <5> QED
          BY ONLY <5>1, <5>2, <5>4, <5>5
      <4>4. n * n \in Int /\ n * n # 0 /\ N * Q - T * T \in Int
        BY <1>3, <3>1
      <4> HIDE DEF new2
      <4>5. Is(new2, (N * Q - T * T) * (n * n), N * (n * n))
        BY ONLY <4>2, <4>3
      <4> QED
        BY <1>3, <3>2, <4>4, <4>5, IsCancel
    <3> QED
      BY <3>6, <3>9
  <2> QED
    BY <2>1, <2>2
<1> HIDE DEF new2, T, Q
<1>6. Moments(average, new2, N, T, Q)
  BY <1>3, <1>5 DEF Moments
<1> QED
  BY <1>6 DEF new2, product, left, N, T, Q

-----------------------------------------------------------------------------

-----------------------------------------------------------------------------
(***************************************************************************)
(* SlidingWindow: sum and statistics are those of the contents             *)
(* (WindowIsExact).  The statistics are updated in place; an invariant     *)
(* about the numbers behind the fractions is kept by each value that comes *)
(* and by each that goes, so by as many of them as slide() removes.        *)
(***************************************************************************)
\* The statistics s are those of n values of sum t, and of sum q of their squares.
Tells(s, n, t, q) ==
    s.weightSum = n /\ s.sum = t /\ Moments(s.average, s.m2, n, t, q)

\* A value that comes or goes leaves the statistics exact.
LEMMA WeightedSampleTells ==
    ASSUME NEW s, NEW n \in Nat, NEW t \in Int, NEW q \in Int, Tells(s, n, t, q),
           NEW v \in Int, NEW w \in {-1, 1}, n + w \in Nat \ {0},
           n = 0 => t = 0 /\ q = 0
    PROVE  Tells(WeightedSample(s, v, w), n + w, t + w * v, q + w * (v * v))
<1> DEFINE r == WeightedSample(s, v, w)
<1>1. PICK delta : delta = Minus(Whole(v), s.average)
  OBVIOUS
<1>2. PICK weighted : weighted = Times(delta, Whole(w))
  OBVIOUS
<1>3. PICK average : average = Plus(s.average, Over(weighted, Whole(n + w)))
  OBVIOUS
<1>4. /\ r.weightSum = n + w /\ r.sum = t + v * w /\ r.average = average
      /\ r.m2 = Plus(s.m2, Times(weighted, Minus(Whole(v), average)))
  BY <1>1, <1>2, <1>3 DEF WeightedSample, Tells
<1>5. Moments(average, Plus(s.m2, Times(weighted, Minus(Whole(v), average))),
              n + w, t + w * v, q + w * (v * v))
  <2>1. PICK old : old = s.average
    OBVIOUS
  <2>2. PICK m2 : m2 = s.m2
    OBVIOUS
  <2>3. Moments(old, m2, n, t, q)
    BY <2>1, <2>2, Zenon DEF Tells
  <2>4. /\ delta = Minus(Whole(v), old)
        /\ average = Plus(old, Over(weighted, Whole(n + w)))
    BY ONLY <1>1, <1>3, <2>1
  <2>5. Moments(average, Plus(m2, Times(weighted, Minus(Whole(v), average))),
                n + w, t + w * v, q + w * (v * v))
    BY ONLY <1>2, <2>3, <2>4, n \in Nat, t \in Int, q \in Int, v \in Int, w \in {-1, 1},
            n + w \in Nat \ {0}, n = 0 => t = 0 /\ q = 0, MomentsMove, ZenonT(60)
  <2> QED
    BY ONLY <2>2, <2>5
<1>6. t + v * w = t + w * v
  OBVIOUS
<1> HIDE DEF r
<1>7. Tells(r, n + w, t + w * v, q + w * (v * v))
  BY <1>4, <1>5, <1>6 DEF Tells
<1> QED
  BY <1>7 DEF r

\* The values in the window and their squares, the oldest first.
Contents == [k \in 1 .. count |-> ValueOf(k)]
Squares == [k \in 1 .. count |-> ValueOf(k) * ValueOf(k)]

\* The contents as a function, which the sums of the model are over.
LEMMA ContentsFacts ==
    ASSUME RingTypeOK
    PROVE  /\ count \in Nat
           /\ \A k \in 1 .. count : /\ ValueOf(k) \in Int /\ Contents[k] = ValueOf(k)
                                    /\ Squares[k] = ValueOf(k) * ValueOf(k)
                                    /\ Contents[k] \in Int /\ Squares[k] \in Int
           /\ \A n \in 0 .. count : SumOver(InUse(n)) = Total(Contents, 1 .. n)
<1>1. count \in Nat
  BY WindowsAssumption DEF RingTypeOK
<1>2. \A k \in 1 .. count : ValueOf(k) \in Int
  <2>1. \A k \in 1 .. count : PlaceOf(k) \in Location
    BY WindowsAssumption, PlaceFacts DEF RingTypeOK, PlaceOf
  <2>2. \A l \in Location : values[l] \in Values \union {0}
    BY DEF RingTypeOK
  <2>3. \A v \in Values \union {0} : v \in Int
    BY WindowsAssumption
  <2> QED
    BY ONLY <2>1, <2>2, <2>3 DEF ValueOf
<1>3. \A k \in 1 .. count : /\ Contents[k] = ValueOf(k) /\ Contents[k] \in Int
                            /\ Squares[k] = ValueOf(k) * ValueOf(k) /\ Squares[k] \in Int
  <2> TAKE k \in 1 .. count
  <2>1. PICK v \in Int : v = ValueOf(k)
    BY <1>2
  <2>2. v * v \in Int
    OBVIOUS
  <2> QED
    BY <2>1, <2>2 DEF Contents, Squares
<1>4. ASSUME NEW n \in 0 .. count PROVE SumOver(InUse(n)) = Total(Contents, 1 .. n)
  <2> DEFINE g == [k \in DOMAIN InUse(n) |-> values[InUse(n)[k]]]
  <2>1. DOMAIN InUse(n) = 1 .. n
    BY DEF InUse
  <2>2. \A k \in 1 .. n : g[k] = Contents[k] /\ Contents[k] \in Int
    <3> TAKE k \in 1 .. n
    <3>1. k \in 1 .. count
      BY <1>1
    <3>2. InUse(n)[k] = PlaceOf(k)
      BY DEF InUse, PlaceOf
    <3>3. g[k] = values[InUse(n)[k]]
      BY <2>1
    <3> QED
      BY <1>3, <3>1, <3>2, <3>3 DEF ValueOf
  <2>3. SumOver(InUse(n)) = Total(g, 1 .. n)
    BY <2>1 DEF SumOver
  <2>4. IsFiniteSet(1 .. n)
    BY <1>1, FS_Interval
  <2> HIDE DEF g
  <2>5. Total(g, 1 .. n) = Total(Contents, 1 .. n)
    BY ONLY <2>2, <2>4, TotalSame
  <2> QED
    BY <2>3, <2>5
<1> QED
  BY <1>1, <1>2, <1>3, <1>4

\* What is behind the figures of a window, for every kind of it.
SumInv ==
    /\ excess \in Int
    /\ kind = "sum" => sum = Total(Contents, 1 .. count) + excess
    /\ kind = "statistics" =>
         Tells(statistics, count, Total(Contents, 1 .. count), Total(Squares, 1 .. count))

\* The statistics after each element that is removed.
IsAfter(p, n) ==
    p = [k \in 0 .. n |-> IF k = 0 THEN statistics
                          ELSE WeightedSample(p[k - 1], values[InUse(n)[k]], -1)]

\* StatisticsAfter(), which is defined recursively, is the last of these.
LEMMA AfterExists ==
    ASSUME NEW n \in Nat, kind = "statistics", ~IsLast(n)
    PROVE  \E p : IsAfter(p, n) /\ StatisticsAfter(n) = p[n]
<1> DEFINE Step(p, k) == IF k = 0 THEN statistics
                         ELSE WeightedSample(p[k - 1], values[InUse(n)[k]], -1)
           T == {m \in Nat : \E p : p = [k \in 0 .. m |-> Step(p, k)]}
<1>1. 0 \in T
  <2>1. [k \in 0 .. 0 |-> statistics] = [k \in 0 .. 0 |-> Step([j \in 0 .. 0 |-> statistics], k)]
    OBVIOUS
  <2> QED
    BY <2>1
<1>2. ASSUME NEW m \in T PROVE m + 1 \in T
  <2>1. PICK p : p = [k \in 0 .. m |-> Step(p, k)]
    OBVIOUS
  <2> DEFINE q == [k \in 0 .. m + 1 |-> Step(p, k)]
  <2>2. m \in Nat /\ m + 1 \in Nat
    OBVIOUS
  <2> HIDE DEF Step
  <2>3. \A k \in 0 .. m : p[k] = q[k]
    BY <2>1, <2>2
  <2>4. \A k \in 0 .. m + 1 : k # 0 => k - 1 \in 0 .. m
    BY <2>2
  <2>5. \A k \in 0 .. m + 1 : k # 0 => p[k - 1] = q[k - 1]
    BY <2>3, <2>4
  <2>6. \A k \in 0 .. m + 1 : Step(p, k) = Step(q, k)
    BY <2>5, Zenon DEF Step
  <2>7. q = [k \in 0 .. m + 1 |-> Step(q, k)]
    BY <2>6, Zenon
  <2> HIDE DEF q
  <2> QED
    BY <2>2, <2>7
<1>3. T = Nat
  <2>1. T \subseteq Nat
    OBVIOUS
  <2> HIDE DEF T
  <2> QED
    BY <1>1, <1>2, <2>1, NaturalsByInduction
<1>4. \E p : IsAfter(p, n)
  BY <1>3 DEF IsAfter
<1> DEFINE after == CHOOSE p : IsAfter(p, n)
<1>5. IsAfter(after, n)
  BY <1>4
<1>6. StatisticsAfter(n) = after[n]
  BY DEF StatisticsAfter, IsAfter
<1> QED
  BY <1>5, <1>6

\* What is left of the statistics when the first n elements were removed.
LEMMA StatisticsAfterTells ==
    ASSUME RingTypeOK, SumInv, kind = "statistics", NEW n \in 0 .. count
    PROVE  Tells(StatisticsAfter(n), count - n,
                 Total(Contents, 1 .. count) - Total(Contents, 1 .. n),
                 Total(Squares, 1 .. count) - Total(Squares, 1 .. n))
<1> DEFINE t(k) == Total(Contents, 1 .. count) - Total(Contents, 1 .. k)
           q(k) == Total(Squares, 1 .. count) - Total(Squares, 1 .. k)
<1>1. /\ count \in Nat /\ n \in Nat
      /\ \A k \in 1 .. count : /\ ValueOf(k) \in Int /\ Contents[k] = ValueOf(k)
                               /\ Squares[k] = ValueOf(k) * ValueOf(k)
                               /\ Contents[k] \in Int /\ Squares[k] \in Int
  BY ContentsFacts
<1>2. \A k \in 0 .. count : Total(Contents, 1 .. k) \in Int /\ Total(Squares, 1 .. k) \in Int
  <2> TAKE k \in 0 .. count
  <2>1. \A j \in 1 .. k : Contents[j] \in Int /\ Squares[j] \in Int
    BY <1>1
  <2>2. IsFiniteSet(1 .. k)
    BY <1>1, FS_Interval
  <2> QED
    BY ONLY <2>1, <2>2, TotalRemove
<1>3. \A k \in 0 .. count : t(k) \in Int /\ q(k) \in Int
  BY <1>1, <1>2
<1>4. t(count) = 0 /\ q(count) = 0
  BY <1>1, <1>2
<1>5. t(0) = Total(Contents, 1 .. count) /\ q(0) = Total(Squares, 1 .. count)
  <2>1. 1 .. 0 = {}
    OBVIOUS
  <2>2. Total(Contents, 1 .. 0) = 0 /\ Total(Squares, 1 .. 0) = 0
    BY <2>1, TotalEmpty
  <2> QED
    BY <1>1, <1>2, <2>2
<1>6. \A k \in 0 .. count : k < count =>
        t(k + 1) = t(k) + (-1) * ValueOf(k + 1) /\ q(k + 1) = q(k) + (-1) * (ValueOf(k + 1) * ValueOf(k + 1))
  <2> SUFFICES ASSUME NEW k \in 0 .. count, k < count
               PROVE  /\ t(k + 1) = t(k) + (-1) * ValueOf(k + 1)
                      /\ q(k + 1) = q(k) + (-1) * (ValueOf(k + 1) * ValueOf(k + 1))
    OBVIOUS
  <2>1. k \in Nat /\ k + 1 \in 1 .. count /\ k + 1 \in 0 .. count /\ \A j \in 1 .. k + 1 : j \in 1 .. count
    BY <1>1
  <2>2. \A j \in 1 .. k + 1 : Contents[j] \in Int /\ Squares[j] \in Int
    BY <1>1, <2>1
  <2>3. /\ Total(Contents, 1 .. k + 1) = Total(Contents, 1 .. k) + Contents[k + 1]
        /\ Total(Squares, 1 .. k + 1) = Total(Squares, 1 .. k) + Squares[k + 1]
    BY ONLY <2>1, <2>2, TotalNext
  <2>4. PICK v \in Int : v = ValueOf(k + 1)
    BY <1>1, <2>1
  <2>5. Contents[k + 1] = v /\ Squares[k + 1] = v * v
    BY <1>1, <2>1, <2>4
  <2>6. /\ Total(Contents, 1 .. count) \in Int /\ Total(Squares, 1 .. count) \in Int
        /\ Total(Contents, 1 .. k) \in Int /\ Total(Squares, 1 .. k) \in Int
    BY <1>1, <1>2
  <2>7. t(k + 1) = t(k) - v
    BY ONLY <2>3, <2>4, <2>5, <2>6
  <2>8. PICK w \in Int : w = v * v
    OBVIOUS
  <2>9. q(k + 1) = q(k) - w
    BY ONLY <2>3, <2>5, <2>6, <2>8
  <2>10. t(k) \in Int /\ q(k) \in Int
    BY <1>3
  <2> HIDE DEF t, q
  <2> QED
    BY ONLY <2>4, <2>7, <2>8, <2>9, <2>10
<1>7. Tells(statistics, count, t(0), q(0))
  BY <1>5 DEF SumInv
<1> HIDE DEF t, q
<1>8. CASE IsLast(n)
  <2>1. n = count /\ StatisticsAfter(n) = NoWeighted
    BY <1>8 DEF IsLast, StatisticsAfter
  <2>2. Tells(NoWeighted, 0, 0, 0)
    BY DEF Tells, Moments, NoWeighted
  <2>3. count - n = 0
    BY <1>1, <2>1
  <2>4. Tells(StatisticsAfter(n), count - n, t(n), q(n))
    BY <1>4, <2>1, <2>2, <2>3
  <2> QED
    BY <2>4 DEF t, q
<1>9. CASE ~IsLast(n)
  <2>1. PICK p : IsAfter(p, n) /\ StatisticsAfter(n) = p[n]
    BY <1>1, <1>9, AfterExists
  <2>2. n = 0 \/ n < count
    BY <1>1, <1>9 DEF IsLast
  <2>3. p[0] = statistics
    BY <1>1, <2>1 DEF IsAfter
  <2> DEFINE T == {k \in Nat : k <= n => Tells(p[k], count - k, t(k), q(k))}
  <2>4. 0 \in T
    <3>1. count - 0 = count
      BY <1>1
    <3> QED
      BY <1>7, <2>3, <3>1
  <2>5. ASSUME NEW k \in T PROVE k + 1 \in T
    <3> SUFFICES ASSUME k + 1 <= n
                 PROVE  Tells(p[k + 1], count - (k + 1), t(k + 1), q(k + 1))
      OBVIOUS
    <3>1. k \in Nat /\ k <= n /\ k < count /\ k + 1 \in 0 .. n /\ k + 1 < count
      BY <1>1, <2>2
    <3>2. Tells(p[k], count - k, t(k), q(k))
      BY <3>1
    <3>3. InUse(n)[k + 1] = PlaceOf(k + 1)
      BY <3>1 DEF InUse, PlaceOf
    <3>4. p[k + 1] = WeightedSample(p[k], ValueOf(k + 1), -1)
      <4>1. k + 1 # 0 /\ (k + 1) - 1 = k
        BY <3>1
      <4>2. p[k + 1] = WeightedSample(p[(k + 1) - 1], values[InUse(n)[k + 1]], -1)
        BY <2>1, <3>1, <4>1 DEF IsAfter
      <4> QED
        BY <3>3, <4>1, <4>2 DEF ValueOf
    <3>5. PICK v \in Int : v = ValueOf(k + 1)
      BY <1>1, <3>1
    <3>6. PICK m \in Nat \ {0} : m = count - k
      BY <1>1, <3>1
    <3>7. PICK tk \in Int : tk = t(k)
      BY <1>1, <1>3, <3>1
    <3>8. PICK qk \in Int : qk = q(k)
      BY <1>1, <1>3, <3>1
    <3>9. PICK w \in {-1, 1} : w = -1
      OBVIOUS
    <3>10. m + w \in Nat \ {0} /\ count - (k + 1) = m + w
      BY <1>1, <3>1, <3>6, <3>9
    <3>11. PICK s : s = p[k]
      OBVIOUS
    <3>12. Tells(s, m, tk, qk)
      BY <3>2, <3>6, <3>7, <3>8, <3>11
    <3>13. Tells(WeightedSample(s, v, w), m + w, tk + w * v, qk + w * (v * v))
      <4>1. m \in Nat /\ m # 0
        OBVIOUS
      <4> QED
        BY ONLY <3>10, <3>12, <4>1, WeightedSampleTells
    <3>14. t(k + 1) = tk + w * v /\ q(k + 1) = qk + w * (v * v)
      BY <1>1, <1>6, <3>1, <3>5, <3>7, <3>8, <3>9
    <3>15. p[k + 1] = WeightedSample(s, v, w)
      BY <3>4, <3>5, <3>9, <3>11
    <3> QED
      BY <3>10, <3>13, <3>14, <3>15
  <2>6. T = Nat
    <3>1. T \subseteq Nat
      OBVIOUS
    <3> HIDE DEF T
    <3> QED
      BY <2>4, <2>5, <3>1, NaturalsByInduction
  <2>7. n <= n
    BY <1>1
  <2>8. Tells(p[n], count - n, t(n), q(n))
    BY <1>1, <2>6, <2>7
  <2> QED
    BY <2>1, <2>8 DEF t, q
<1> QED
  BY <1>8, <1>9

\* What slides out of the window goes out of the sum and of the statistics.
LEMMA ForceSlideKeepsSums ==
    ASSUME RingTypeOK, SumInv, NEW n \in 0 .. count, ForceSlide(n), kind' = kind
    PROVE  SumInv'
<1>1. /\ count' = count - n /\ sum' = SumAfter(n) /\ statistics' = StatisticsAfter(n)
      /\ front' = LocationAfter(front, n) /\ excess' = excess
      /\ UNCHANGED <<indexes, values, times>>
  BY DEF ForceSlide
<1>2. \A k \in 1 .. count' : ValueOf(k)' = ValueOf(k + n)
  BY <1>1, DropOutcome
<1>3. PICK f : f = Contents
  OBVIOUS
<1>4. PICK q : q = Squares
  OBVIOUS
<1>5. PICK g : g = Contents'
  OBVIOUS
<1>6. PICK h : h = Squares'
  OBVIOUS
<1>7. PICK m \in Nat : m = count - n /\ n \in Nat
  BY ContentsFacts
<1>8. count = n + m /\ count' = m
  BY <1>1, <1>7, ContentsFacts
<1>9. \A k \in 1 .. n + m : f[k] \in Int /\ q[k] \in Int
  BY <1>3, <1>4, <1>8, ContentsFacts
<1>10. IsRest(g, f, n, m) /\ IsRest(h, q, n, m)
  <2>1. \A k \in 1 .. m : /\ k + n \in 1 .. count /\ f[k + n] = ValueOf(k + n)
                          /\ q[k + n] = ValueOf(k + n) * ValueOf(k + n)
    <3>1. \A k \in 1 .. m : k + n \in 1 .. count
      BY <1>7, <1>8
    <3> QED
      BY <1>3, <1>4, <3>1, ContentsFacts
  <2>2. \A k \in 1 .. m : g[k] = ValueOf(k)' /\ h[k] = ValueOf(k)' * ValueOf(k)'
    BY <1>5, <1>6, <1>8 DEF Contents, Squares
  <2> QED
    BY <1>2, <1>8, <2>1, <2>2 DEF IsRest
<1>11. n \in Nat
  BY <1>7
<1>12. /\ Total(f, 1 .. n + m) = Total(f, 1 .. n) + Total(g, 1 .. m)
       /\ Total(f, 1 .. n) \in Int /\ Total(g, 1 .. m) \in Int
  BY ONLY <1>9, <1>10, <1>11, TotalShift
<1>13. /\ Total(q, 1 .. n + m) = Total(q, 1 .. n) + Total(h, 1 .. m)
       /\ Total(q, 1 .. n) \in Int /\ Total(h, 1 .. m) \in Int
  BY ONLY <1>9, <1>10, <1>11, TotalShift
<1>14. ASSUME kind = "sum" PROVE sum' = Total(g, 1 .. m) + excess
  <2>1. sum = Total(f, 1 .. n + m) + excess /\ excess \in Int
    BY <1>3, <1>8, <1>14 DEF SumInv
  <2>2. sum' = sum - Total(f, 1 .. n)
    BY <1>1, <1>3, <1>14, ContentsFacts DEF SumAfter
  <2> QED
    BY ONLY <1>12, <2>1, <2>2
<1>15. ASSUME kind = "statistics" PROVE Tells(statistics', m, Total(g, 1 .. m), Total(h, 1 .. m))
  <2>1. Tells(statistics', m, Total(f, 1 .. n + m) - Total(f, 1 .. n),
                              Total(q, 1 .. n + m) - Total(q, 1 .. n))
    BY <1>1, <1>3, <1>4, <1>7, <1>8, <1>15, StatisticsAfterTells
  <2>2. /\ Total(f, 1 .. n + m) - Total(f, 1 .. n) = Total(g, 1 .. m)
        /\ Total(q, 1 .. n + m) - Total(q, 1 .. n) = Total(h, 1 .. m)
    BY ONLY <1>12, <1>13
  <2> QED
    BY <2>1, <2>2
<1> QED
  BY <1>1, <1>5, <1>6, <1>8, <1>14, <1>15 DEF SumInv

\* A sample pushes out the oldest one of a full window, and comes in.
LEMMA SampleKeepsSums ==
    ASSUME RingTypeOK, SumInv, NEW value \in Values, Sample(value)
    PROVE  SumInv'
<1>0. PICK p \in {0, 1} : p = PushedOut
  BY DEF PushedOut
<1>1. /\ Write(value) /\ kind' = kind /\ excess' = excess
      /\ sum' = SumAfter(p) + (IF kind = "sum" THEN value ELSE 0)
      /\ statistics' = IF kind = "statistics"
                         THEN WeightedSample(StatisticsAfter(p), value, 1) ELSE statistics
  BY <1>0 DEF Sample, Write
<1>2. /\ count' \in 1 .. Size
      /\ count' = count - p + 1 /\ p \in {0, 1} /\ p <= count
      /\ \A k \in 1 .. count' - 1 : ValueOf(k)' = ValueOf(k + p)
      /\ \A k \in 1 .. count' : k = count' => ValueOf(k)' = value
  BY <1>0, <1>1, WriteOutcome
<1>3. PICK f : f = Contents
  OBVIOUS
<1>4. PICK q : q = Squares
  OBVIOUS
<1>5. PICK g : g = Contents'
  OBVIOUS
<1>6. PICK h : h = Squares'
  OBVIOUS
<1>7. PICK n \in Nat : n = count
  BY ContentsFacts
<1>8. p \in 0 .. n /\ count' = n - p + 1 /\ n - p \in Nat
  BY <1>2, <1>7
<1>9. PICK v \in Int : v = value
  BY WindowsAssumption
<1>9a. PICK c \in Nat : c = count'
  BY <1>8
<1>10. \A k \in 1 .. n : f[k] \in Int /\ q[k] \in Int
  BY <1>3, <1>4, <1>7, ContentsFacts
<1>11. /\ \A k \in 1 .. n - p : g[k] = f[k + p] /\ h[k] = q[k + p]
       /\ g[n - p + 1] = v /\ h[n - p + 1] = v * v
  <2>1. \A k \in 1 .. count' : g[k] = ValueOf(k)' /\ h[k] = ValueOf(k)' * ValueOf(k)'
    BY <1>5, <1>6 DEF Contents, Squares
  <2>2. \A k \in 1 .. n - p : k \in 1 .. count' /\ k \in 1 .. count' - 1 /\ k + p \in 1 .. count
    BY <1>7, <1>8
  <2>3. \A k \in 1 .. n - p : /\ f[k + p] = ValueOf(k + p)
                              /\ q[k + p] = ValueOf(k + p) * ValueOf(k + p)
    BY <1>3, <1>4, <2>2, ContentsFacts
  <2>4. n - p + 1 \in 1 .. count' /\ n - p + 1 = count'
    BY <1>8
  <2>5. \A k \in 1 .. n - p : g[k] = f[k + p] /\ h[k] = q[k + p]
    BY <1>2, <2>1, <2>2, <2>3
  <2>6. c \in 1 .. count' /\ c = count' /\ c = n - p + 1
    BY <1>9a, <2>4
  <2>7. ValueOf(c)' = v
    BY <1>2, <1>9, <2>6
  <2>8. g[c] = v /\ h[c] = v * v
    BY <2>1, <2>6, <2>7
  <2> QED
    BY <2>5, <2>6, <2>8
<1>12. /\ Total(g, 1 .. n - p + 1) = Total(f, 1 .. n) - Total(f, 1 .. p) + v
       /\ Total(h, 1 .. n - p + 1) = Total(q, 1 .. n) - Total(q, 1 .. p) + v * v
  <2>1. PICK w \in Int : w = v * v
    OBVIOUS
  <2>2. PICK r \in 0 .. n : r = p
    BY <1>8
  <2>3. IsQueue(g, f, n, r, v) /\ IsQueue(h, q, n, r, w)
    BY ONLY <1>10, <1>11, <2>1, <2>2 DEF IsQueue
  <2>4. /\ Total(g, 1 .. n - r + 1) = Total(f, 1 .. n) - Total(f, 1 .. r) + v
        /\ Total(h, 1 .. n - r + 1) = Total(q, 1 .. n) - Total(q, 1 .. r) + w
    BY ONLY <2>3, TotalQueue
  <2> QED
    BY ONLY <2>1, <2>2, <2>4
<1>13. \A j \in 0 .. n : Total(f, 1 .. j) \in Int /\ Total(q, 1 .. j) \in Int
  <2> TAKE j \in 0 .. n
  <2>1. IsFiniteSet(1 .. j) /\ \A k \in 1 .. j : f[k] \in Int /\ q[k] \in Int
    BY <1>10, FS_Interval
  <2> QED
    BY ONLY <2>1, TotalRemove
<1>14. PICK t \in Int : t = Total(f, 1 .. n) - Total(f, 1 .. p)
  BY <1>8, <1>13
<1>15. PICK s \in Int : s = Total(q, 1 .. n) - Total(q, 1 .. p)
  BY <1>8, <1>13
<1>16. ASSUME kind = "sum" PROVE sum' = Total(g, 1 .. n - p + 1) + excess
  <2>1. sum = Total(f, 1 .. n) + excess /\ excess \in Int
    BY <1>3, <1>7, <1>16 DEF SumInv
  <2>2. SumOver(InUse(p)) = Total(f, 1 .. p)
    BY <1>3, <1>7, <1>8, ContentsFacts
  <2>3. sum' = (sum - Total(f, 1 .. p)) + v
    BY <1>1, <1>9, <1>16, <2>2 DEF SumAfter
  <2>4. Total(f, 1 .. n) \in Int /\ Total(f, 1 .. p) \in Int
    BY <1>8, <1>13
  <2> QED
    BY ONLY <1>12, <2>1, <2>3, <2>4, v \in Int
<1>17. ASSUME kind = "statistics"
       PROVE  Tells(statistics', n - p + 1, Total(g, 1 .. n - p + 1), Total(h, 1 .. n - p + 1))
  <2>1. Tells(StatisticsAfter(p), n - p, t, s)
    BY <1>3, <1>4, <1>7, <1>8, <1>14, <1>15, <1>17, StatisticsAfterTells
  <2>2. n - p = 0 => t = 0 /\ s = 0
    <3>1. n - p = 0 => p = n
      BY <1>8
    <3>2. Total(f, 1 .. n) \in Int /\ Total(q, 1 .. n) \in Int
      BY <1>13
    <3> QED
      BY <1>14, <1>15, <3>1, <3>2
  <2>3. PICK a : a = StatisticsAfter(p)
    OBVIOUS
  <2>4. PICK m \in Nat : m = n - p
    BY <1>8
  <2>5. PICK w \in {-1, 1} : w = 1
    OBVIOUS
  <2>6. m + w \in Nat \ {0} /\ Tells(a, m, t, s) /\ (m = 0 => t = 0 /\ s = 0)
    BY <2>1, <2>2, <2>3, <2>4, <2>5
  <2>7. Tells(WeightedSample(a, v, w), m + w, t + w * v, s + w * (v * v))
    BY ONLY <2>6, WeightedSampleTells
  <2>8. w * v = v /\ w * (v * v) = v * v
    BY <2>5
  <2>9. statistics' = WeightedSample(a, v, w)
    BY <1>1, <1>9, <1>17, <2>3, <2>5
  <2>10. Tells(statistics', n - p + 1, t + v, s + v * v)
    BY <2>4, <2>5, <2>7, <2>8, <2>9
  <2> QED
    BY ONLY <1>12, <1>14, <1>15, <2>10
<1> QED
  BY <1>1, <1>5, <1>6, <1>8, <1>16, <1>17 DEF SumInv

\* Nothing is in a window that was reset.
LEMMA NoContents ==
    ASSUME NEW f
    PROVE  Total(f, 1 .. 0) = 0
<1>1. 1 .. 0 = {}
  OBVIOUS
<1> QED
  BY <1>1, TotalEmpty

\* Statistics that were reset tell of no values.
LEMMA NoWeightedTells == Tells(NoWeighted, 0, 0, 0)
  BY DEF Tells, Moments, NoWeighted

\* Each step of a window keeps the sums those of its contents.
LEMMA SumsKept ==
    ASSUME RingTypeOK, RingInv, SumInv, [WindowsNext]_windowVars
    PROVE  SumInv'
<1>1. count \in Nat
  BY ContentsFacts
<1>2. CASE SlideOne
  <2>1. 1 \in 0 .. count
    BY <1>1, <1>2 DEF SlideOne
  <2>2. ForceSlide(1) /\ kind' = kind
    BY <1>2 DEF SlideOne, ForceSlide
  <2> QED
    BY <2>1, <2>2, ForceSlideKeepsSums
<1>3. CASE Slide
  <2>1. SlidTo \in 0 .. count
    BY SlidToFacts
  <2>2. ForceSlide(SlidTo) /\ kind' = kind
    BY <1>3 DEF Slide, ForceSlide
  <2> QED
    BY <2>1, <2>2, ForceSlideKeepsSums
<1>4. CASE Reset
  <2>1. /\ kind' = kind /\ count' = 0 /\ statistics' = NoWeighted /\ sum' = sum
        /\ excess' = IF kind = "sum" THEN sum ELSE 0
    BY <1>4 DEF Reset
  <2>2. Total(Contents', 1 .. 0) = 0 /\ Total(Squares', 1 .. 0) = 0
    BY NoContents
  <2>3. kind = "sum" => sum \in Int
    <3>1. Total(Contents, 1 .. count) \in Int
      <4>1. IsFiniteSet(1 .. count) /\ \A k \in 1 .. count : Contents[k] \in Int
        BY <1>1, ContentsFacts, FS_Interval
      <4> QED
        BY ONLY <4>1, TotalRemove
    <3> QED
      BY <3>1 DEF SumInv
  <2>4. kind' = "sum" => sum' = Total(Contents', 1 .. count') + excess'
    BY <2>1, <2>2, <2>3
  <2>5. Tells(statistics', count', Total(Contents', 1 .. count'), Total(Squares', 1 .. count'))
    BY <2>1, <2>2, NoWeightedTells
  <2> QED
    BY <2>1, <2>3, <2>4, <2>5 DEF SumInv
<1>5. ASSUME NEW value \in Values, Sample(value) PROVE SumInv'
  BY <1>5, SampleKeepsSums
<1>6. CASE kind = "throttle" /\ kind' = kind /\ excess' = excess
  BY <1>6 DEF SumInv
<1>7. CASE Tick
  <2>1. UNCHANGED <<kind, front, count, values, sum, statistics, excess>>
    BY <1>7 DEF Tick, bufferVars, sumVars
  <2> QED
    BY <2>1 DEF SumInv, Contents, Squares, ValueOf, PlaceOf
<1>8. CASE UNCHANGED windowVars
  <2>1. UNCHANGED <<kind, front, count, values, sum, statistics, excess>>
    BY <1>8 DEF windowVars, bufferVars, sumVars
  <2> QED
    BY <2>1 DEF SumInv, Contents, Squares, ValueOf, PlaceOf
<1>9. CASE ThrottleSlideOne \/ ThrottleSlide \/ ThrottleSample \/ TryUseSlot \/ ThrottleReset
  <2>1. kind = "throttle" /\ kind' = kind /\ excess' = excess
    BY <1>9 DEF ThrottleSlideOne, ThrottleSlide, ThrottleSample, TryUseSlot, ThrottleReset,
                ThrottleForceSlide, Write, sumVars
  <2> QED
    BY <1>6, <2>1
<1> QED
  BY <1>2, <1>3, <1>4, <1>5, <1>7, <1>8, <1>9 DEF WindowsNext

\* Nothing is in a window at first.
LEMMA SumStarts ==
    ASSUME WindowsInit
    PROVE  SumInv
<1>1. count = 0 /\ statistics = NoWeighted /\ sum = 0 /\ excess = 0
  BY DEF WindowsInit
<1>2. Total(Contents, 1 .. 0) = 0 /\ Total(Squares, 1 .. 0) = 0
  BY NoContents
<1>3. Tells(statistics, count, Total(Contents, 1 .. count), Total(Squares, 1 .. count))
  BY <1>1, <1>2, NoWeightedTells
<1>4. sum = Total(Contents, 1 .. count) + excess
  BY <1>1, <1>2
<1> QED
  BY <1>1, <1>3, <1>4 DEF SumInv

\* WindowIsExact: whatever its size, its duration and the values are, and however a
\* window is filled, slid and reset, the sum, the average and the sum of squares of its
\* statistics, which are updated in place, are those of the values in it; a throttle
\* keeps its limit; and the sum of a window that keeps one is that of the values in it as
\* long as the window was never reset with a sum.
THEOREM WindowIsExactHolds == WindowsSpec => []WindowIsExact
<1>1. WindowsInit => SumInv
  BY SumStarts
<1>2. RingTypeOK /\ RingInv /\ SumInv /\ [WindowsNext]_windowVars => SumInv'
  BY SumsKept
<1>3. RingTypeOK /\ SumInv /\ ThrottleLimit => WindowIsExact
  <2> SUFFICES ASSUME RingTypeOK, SumInv, ThrottleLimit PROVE WindowIsExact
    OBVIOUS
  <2>1. count \in Nat
    BY ContentsFacts
  <2>2. count \in 0 .. count
    BY <2>1
  <2>3. SumOver(InUse(count)) = Total(Contents, 1 .. count)
    BY <2>2, ContentsFacts
  <2>4. Total([k \in 1 .. count |-> values[InUse(count)[k]] * values[InUse(count)[k]]], 1 .. count)
          = Total(Squares, 1 .. count)
    <3>1. \A k \in 1 .. count : InUse(count)[k] = PlaceOf(k)
      BY DEF InUse, PlaceOf
    <3>2. [k \in 1 .. count |-> values[InUse(count)[k]] * values[InUse(count)[k]]] = Squares
      BY <3>1 DEF Squares, ValueOf
    <3> QED
      BY <3>2
  <2>5. ASSUME kind = "statistics" PROVE StatisticsOfContents
    <3>1. PICK n \in Nat : n = count
      BY <2>1
    <3>2. PICK t \in Int : t = Total(Contents, 1 .. count)
      <4>1. IsFiniteSet(1 .. count) /\ \A k \in 1 .. count : Contents[k] \in Int
        BY <2>1, ContentsFacts, FS_Interval
      <4> QED
        BY ONLY <4>1, TotalRemove
    <3>3. PICK q \in Int : q = Total(Squares, 1 .. count)
      <4>1. IsFiniteSet(1 .. count) /\ \A k \in 1 .. count : Squares[k] \in Int
        BY <2>1, ContentsFacts, FS_Interval
      <4> QED
        BY ONLY <4>1, TotalRemove
    <3>4. Tells(statistics, n, t, q)
      BY <2>5, <3>1, <3>2, <3>3 DEF SumInv
    <3>5. n = 0 => t = 0
      BY <3>1, <3>2, NoContents
    <3>6. Times(statistics.average, Whole(n)) = Whole(t)
      <4>1. CASE n = 0
        <5>1. statistics.average = <<0, 1>> /\ t = 0
          BY <3>4, <3>5, <4>1 DEF Tells, Moments, Zero, Whole
        <5>2. Times(<<0, 1>>, <<0, 1>>) = Fraction(0 * 1, 1)
          BY DEF Times
        <5>3. Fraction(0 * 1, 1) = Whole(0)
          BY FractionIsWhole
        <5> QED
          BY <4>1, <5>1, <5>2, <5>3 DEF Whole
      <4>2. CASE n # 0
        <5>1. Is(statistics.average, t, n) /\ n \in Nat \ {0}
          BY <3>4, <4>2 DEF Tells, Moments
        <5> QED
          BY <5>1, TimesIsWhole
      <4> QED
        BY <4>1, <4>2
    <3>7. Times(statistics.m2, Whole(n)) = Whole(n * q - t * t)
      <4>1. CASE n = 0
        <5>1. statistics.m2 = <<0, 1>> /\ t = 0
          BY <3>4, <3>5, <4>1 DEF Tells, Moments, Zero, Whole
        <5>2. Times(<<0, 1>>, <<0, 1>>) = Fraction(0 * 1, 1)
          BY DEF Times
        <5>3. Fraction(0 * 1, 1) = Whole(0)
          BY FractionIsWhole
        <5>4. n * q - t * t = 0
          BY <4>1, <5>1
        <5> QED
          BY <4>1, <5>1, <5>2, <5>3, <5>4 DEF Whole
      <4>2. CASE n # 0
        <5>1. Is(statistics.m2, n * q - t * t, n) /\ n \in Nat \ {0} /\ n * q - t * t \in Int
          BY <3>4, <4>2 DEF Tells, Moments
        <5> QED
          BY <5>1, TimesIsWhole
      <4> QED
        BY <4>1, <4>2
    <3>8. statistics.weightSum = n /\ statistics.sum = t
      BY <3>4 DEF Tells, Moments
    <3> QED
      BY <2>3, <2>4, <3>1, <3>2, <3>3, <3>6, <3>7, <3>8 DEF StatisticsOfContents
  <2>6. ASSUME excess = 0, kind = "sum" PROVE sum = SumOver(InUse(count))
    <3>1. IsFiniteSet(1 .. count) /\ \A k \in 1 .. count : Contents[k] \in Int
      BY <2>1, ContentsFacts, FS_Interval
    <3>2. Total(Contents, 1 .. count) \in Int
      BY ONLY <3>1, TotalRemove
    <3> QED
      BY <2>3, <2>6, <3>2 DEF SumInv
  <2> QED
    BY <2>5, <2>6 DEF SumIsOfContents, WindowIsExact
<1> QED
  BY <1>1, <1>2, <1>3, RingHolds, ThrottleLimitHolds, PTL DEF WindowsSpec

\* What a window has beside its ring, in its ranges.
BoundsInv ==
    /\ now \in 0 .. MaxTime /\ slid \in 0 .. now
    /\ indexes \in [Location -> 0 .. Modulus - 1]
    /\ times \in [Location -> 0 .. MaxTime]
    /\ excess \in Nat
    /\ kind # "sum" => sum = 0
    /\ kind # "statistics" => statistics = NoWeighted
    /\ statistics.count \in Nat

\* A value that is taken out counts as one more sample.
LEMMA CountAfter ==
    ASSUME NEW n \in Nat, statistics.count \in Nat
    PROVE  /\ StatisticsAfter(n).count \in Nat
           /\ kind # "statistics" => StatisticsAfter(n) = NoWeighted
<1>1. NoWeighted.count = 0
  BY DEF NoWeighted
<1>2. CASE kind # "statistics" \/ IsLast(n)
  BY <1>1, <1>2 DEF StatisticsAfter
<1>3. CASE kind = "statistics" /\ ~IsLast(n)
  <2>1. PICK p : IsAfter(p, n) /\ StatisticsAfter(n) = p[n]
    BY <1>3, AfterExists
  <2> DEFINE T == {k \in Nat : k <= n => p[k].count \in Nat}
  <2>2. 0 \in T
    BY <2>1 DEF IsAfter
  <2>3. ASSUME NEW k \in T PROVE k + 1 \in T
    <3> SUFFICES ASSUME k + 1 <= n PROVE p[k + 1].count \in Nat
      OBVIOUS
    <3>1. k + 1 \in 0 .. n /\ k + 1 # 0 /\ (k + 1) - 1 = k /\ p[k].count \in Nat
      OBVIOUS
    <3>2. p[k + 1] = WeightedSample(p[(k + 1) - 1], values[InUse(n)[k + 1]], -1)
      BY <2>1, <3>1 DEF IsAfter
    <3>3. p[k + 1].count = p[k].count + 1
      BY <3>1, <3>2 DEF WeightedSample
    <3> QED
      BY <3>1, <3>3
  <2>4. T = Nat
    <3>1. T \subseteq Nat
      OBVIOUS
    <3> HIDE DEF T
    <3> QED
      BY <2>2, <2>3, <3>1, NaturalsByInduction
  <2> QED
    BY <1>3, <2>1, <2>4
<1> QED
  BY <1>2, <1>3

\* The sum of a window is one of natural numbers.
LEMMA SumIsNatural ==
    ASSUME RingTypeOK, SumInv, BoundsInv
    PROVE  sum \in Nat /\ statistics.weightSum \in 0 .. Size
<1>1. count \in Nat /\ count \in 0 .. Size /\ Size \in Nat
  BY WindowsAssumption, ContentsFacts DEF RingTypeOK
<1>2. \A k \in 1 .. count : Contents[k] \in Nat
  <2>1. \A k \in 1 .. count : PlaceOf(k) \in Location
    BY WindowsAssumption, PlaceFacts DEF RingTypeOK, PlaceOf
  <2>2. \A l \in Location : values[l] \in Values \union {0}
    BY DEF RingTypeOK
  <2>3. \A v \in Values \union {0} : v \in Nat
    BY WindowsAssumption
  <2> QED
    BY <2>1, <2>2, <2>3, ContentsFacts DEF ValueOf
<1>3. Total(Contents, 1 .. count) \in Nat
  <2>1. PICK f : f = Contents
    OBVIOUS
  <2>2. IsFiniteSet(1 .. count) /\ \A k \in 1 .. count : f[k] \in Nat
    BY <1>1, <1>2, <2>1, FS_Interval
  <2>3. Total(f, 1 .. count) \in Nat
    BY ONLY <2>2, TotalNat
  <2> QED
    BY <2>1, <2>3
<1>4. sum \in Nat
  BY <1>3 DEF SumInv, BoundsInv
<1>5. statistics.weightSum = IF kind = "statistics" THEN count ELSE 0
  <2>1. kind # "statistics" => statistics.weightSum = 0
    BY DEF BoundsInv, NoWeighted
  <2> QED
    BY <2>1 DEF SumInv, Tells
<1> QED
  BY <1>1, <1>4, <1>5

\* Each step of a window keeps them.
LEMMA BoundsAgain ==
    ASSUME RingTypeOK, RingInv, SumInv, BoundsInv, [WindowsNext]_windowVars
    PROVE  BoundsInv'
<1> USE DEF BoundsInv
<1>1. count \in Nat /\ now \in Nat /\ MaxTime \in Nat /\ Modulus \in Nat \ {0}
  BY WindowsAssumption, ContentsFacts
<1>2. NoWeighted.count = 0
  BY DEF NoWeighted
<1>3. ASSUME NEW n \in Nat, ForceSlide(n), slid' = slid \/ slid' = now PROVE BoundsInv'
  <2>1. /\ UNCHANGED <<kind, now, indexes, times, excess>>
        /\ sum' = SumAfter(n) /\ statistics' = StatisticsAfter(n)
    BY <1>3 DEF ForceSlide
  <2>2. kind # "sum" => SumAfter(n) = 0
    BY DEF SumAfter
  <2>3. slid' \in 0 .. now
    BY <1>1, <1>3
  <2> QED
    BY <2>1, <2>2, <2>3, CountAfter
<1>4. ASSUME NEW value, Write(value)
      PROVE  /\ now' \in 0 .. MaxTime /\ slid' \in 0 .. now' /\ kind' = kind /\ excess' = excess
             /\ indexes' \in [Location -> 0 .. Modulus - 1]
             /\ times' \in [Location -> 0 .. MaxTime]
  <2>1. Index \in 0 .. Modulus - 1
    BY <1>1 DEF Index
  <2> QED
    BY <1>4, <2>1 DEF Write
<1>5. CASE Tick
  BY <1>1, <1>5 DEF Tick, bufferVars, sumVars
<1>6. CASE SlideOne
  BY <1>3, <1>6 DEF SlideOne
<1>7. CASE Slide
  <2>1. SlidTo \in Nat
    BY <1>1, SlidToFacts
  <2> QED
    BY <1>3, <1>7, <2>1 DEF Slide
<1>8. CASE Reset
  BY <1>2, <1>8, SumIsNatural DEF Reset
<1>9. ASSUME NEW value \in Values, Sample(value) PROVE BoundsInv'
  <2>1. /\ Write(value) /\ UNCHANGED uses
        /\ sum' = SumAfter(PushedOut) + (IF kind = "sum" THEN value ELSE 0)
        /\ statistics' = IF kind = "statistics"
                           THEN WeightedSample(StatisticsAfter(PushedOut), value, 1)
                           ELSE statistics
    BY <1>9 DEF Sample
  <2>2. kind # "sum" => sum' = 0
    BY <2>1 DEF SumAfter
  <2>3. PushedOut \in Nat
    BY DEF PushedOut
  <2>4. statistics'.count \in Nat
    <3>1. kind = "statistics" => statistics'.count = StatisticsAfter(PushedOut).count + 1
      BY <2>1 DEF WeightedSample
    <3> QED
      BY <2>1, <2>3, <3>1, CountAfter
  <2> QED
    BY <1>4, <2>1, <2>2, <2>4
<1>10. CASE ThrottleSample \/ TryUseSlot
  BY <1>4, <1>10 DEF ThrottleSample, TryUseSlot
<1>11. CASE ThrottleSlideOne \/ ThrottleSlide \/ ThrottleReset
  BY <1>1, <1>11 DEF ThrottleSlideOne, ThrottleSlide, ThrottleReset, ThrottleForceSlide, sumVars
<1>12. CASE UNCHANGED windowVars
  BY <1>12 DEF windowVars, bufferVars, sumVars
<1> QED
  BY <1>5, <1>6, <1>7, <1>8, <1>9, <1>10, <1>11, <1>12 DEF WindowsNext

\* WindowsTypeOK: front and count are in the ring, indexes within their width, and neither
\* the sum nor the weights are ever negative, whatever is taken out of them.
THEOREM WindowsTypeCorrect == WindowsSpec => []WindowsTypeOK
<1>1. WindowsInit => SumInv
  BY SumStarts
<1>2. WindowsInit => BoundsInv
  BY WindowsAssumption DEF WindowsInit, BoundsInv, NoWeighted
<1>3. RingTypeOK /\ RingInv /\ SumInv /\ BoundsInv /\ [WindowsNext]_windowVars
        => SumInv' /\ BoundsInv'
  BY SumsKept, BoundsAgain
<1>4. RingTypeOK /\ SumInv /\ BoundsInv => WindowsTypeOK
  <2> SUFFICES ASSUME RingTypeOK, SumInv, BoundsInv PROVE WindowsTypeOK
    OBVIOUS
  <2>1. sum \in Nat /\ statistics.weightSum \in 0 .. Size
    BY SumIsNatural
  <2> QED
    BY <2>1 DEF RingTypeOK, BoundsInv, WindowsTypeOK
<1> QED
  BY <1>1, <1>2, <1>3, <1>4, RingHolds, PTL DEF WindowsSpec
-----------------------------------------------------------------------------
(***************************************************************************)
(* Actions.  A call is executed or still on the stack, and the calls of    *)
(* each action are those that were asked for and those that its callers    *)
(* made: a sum over the actions, of which an execution changes one term.   *)
(***************************************************************************)
\* What is assumed of the actions and of the counter.
LEMMA ActionsFacts ==
    /\ IsFiniteSet(Action)
    /\ \A a \in Action : /\ Parts[a] \in Seq(Action)
                         /\ Class[a] \notin {"pair", "conditional", "compound"} => Parts[a] = <<>>
    /\ \A t \in Templates : /\ t.initial \in 0 .. CounterModulus - 1 /\ t.increment \in Nat
                            /\ t.mode \in Mode
    /\ CounterModulus \in Nat \ {0}
  BY ActionsAssumption

\* How often an action was called by those that hold it.
Callings(a) == [b \in Action |-> Calls(b) * Occurrences(a, Parts[b])]

\* The first part of ActionsAreExact, and the others with names of their own.
CallsAreExecuted ==
    \A a \in Action :
        runs[a] + Occurrences(a, stack) = called[a] + Total(Callings(a), Action)

Counting == {a \in Action : Class[a] = "counter"}

CountIsOfRuns == executed = Total(runs, Counting)

\* The value v of a counter of parameters t after n increments.
ExactCounter(t, n, v) ==
    /\ t.mode = "ADD" => v = (t.initial + n * t.increment) % CounterModulus
    /\ t.mode = "MULTIPLY" => v = (t.initial * Power(t.increment, n)) % CounterModulus
    /\ t.mode = "LSHIFT" => v = (t.initial * Power(2, n * t.increment)) % CounterModulus

CounterIsExact == ExactCounter(template, increments, counter)

\* The inductive invariant: there is nothing to strengthen but the types.
ActionsInv == ActionsTypeOK /\ CallsAreExecuted /\ CountIsOfRuns /\ CounterIsExact

\* How often a sequence holds an action: none when empty, and both parts of a concatenation.
LEMMA OccurrencesFacts ==
    ASSUME NEW a
    PROVE  /\ Occurrences(a, <<>>) = 0
           /\ \A s, t \in Seq(Action) :
                /\ Occurrences(a, s) \in Nat
                /\ Occurrences(a, s \o t) = Occurrences(a, s) + Occurrences(a, t)
           /\ \A s \in Seq(Action) : s # <<>> =>
                Occurrences(a, s) = (IF Head(s) = a THEN 1 ELSE 0) + Occurrences(a, Tail(s))
<1>1. \A s : Occurrences(a, s) = Cardinality(PlacesOf(a, s))
  BY DEF Occurrences, PlacesOf
<1>2. Occurrences(a, <<>>) = 0
  <2>1. PlacesOf(a, <<>>) = {}
    BY DEF PlacesOf
  <2> QED
    BY <1>1, <2>1, FS_EmptySet
<1>3. ASSUME NEW s \in Seq(Action), NEW t \in Seq(Action)
      PROVE  /\ Occurrences(a, s) \in Nat
             /\ Occurrences(a, s \o t) = Occurrences(a, s) + Occurrences(a, t)
  BY ONLY <1>1, <1>3, PlacesOfConcat
<1>4. ASSUME NEW s \in Seq(Action), s # <<>>
      PROVE  Occurrences(a, s) = (IF Head(s) = a THEN 1 ELSE 0) + Occurrences(a, Tail(s))
  BY ONLY <1>1, <1>4, PlacesOfTail
<1> QED
  BY <1>2, <1>3, <1>4

\* Each mode of a counter: one increment more, and what is beyond the width lost.
IsOneMore(i, s, n, M) ==
    /\ (((i + n * s) % M) + s) % M = (i + (n + 1) * s) % M
    /\ (((i * Power(s, n)) % M) * s) % M = (i * Power(s, n + 1)) % M
    /\ (((i * Power(2, n * s)) % M) * Power(2, s)) % M = (i * Power(2, (n + 1) * s)) % M

LEMMA OneIncrement ==
    ASSUME NEW i \in Nat, NEW s \in Nat, NEW n \in Nat, NEW M \in Nat \ {0}
    PROVE  IsOneMore(i, s, n, M)
<1>1. n * s \in Nat /\ (n + 1) * s = n * s + s
  OBVIOUS
<1>2. (((i + n * s) % M) + s) % M = (i + (n + 1) * s) % M
  <2>1. PICK x \in Nat : x = i + n * s
    BY <1>1
  <2>2. x + s = i + (n + 1) * s
    BY <1>1, <2>1
  <2>3. ((x % M) + s) % M = (x + s) % M
    <3>1. x \in Int /\ s \in Int
      OBVIOUS
    <3> QED
      BY <3>1, RemainderOfParts, Zenon
  <2> QED
    BY ONLY <2>1, <2>2, <2>3
<1>3. ASSUME NEW p \in Nat, NEW q \in Nat
      PROVE  (((i * p) % M) * q) % M = (i * (p * q)) % M
  <2>1. PICK x \in Nat : x = i * p
    OBVIOUS
  <2>2. x * q = i * (p * q)
    BY <2>1
  <2>3. ((x % M) * q) % M = (x * q) % M
    <3>1. x \in Int /\ q \in Int
      OBVIOUS
    <3> QED
      BY <3>1, RemainderOfParts, Zenon
  <2> QED
    BY ONLY <2>1, <2>2, <2>3
<1>4. Power(s, n) \in Nat /\ Power(s, n + 1) = Power(s, n) * s
  <2>1. Power(s, n + 1) = s * Power(s, n) /\ Power(s, n) \in Nat
    BY PowerNext, PowerNat
  <2> QED
    BY <2>1
<1>5. /\ Power(2, n * s) \in Nat /\ Power(2, s) \in Nat
      /\ Power(2, (n + 1) * s) = Power(2, n * s) * Power(2, s)
  BY <1>1, PowerSum, PowerNat
<1>6. (((i * Power(s, n)) % M) * s) % M = (i * Power(s, n + 1)) % M
  <2>1. PICK p \in Nat : p = Power(s, n)
    BY <1>4
  <2>2. (((i * p) % M) * s) % M = (i * (p * s)) % M
    BY <1>3
  <2> QED
    BY ONLY <1>4, <2>1, <2>2
<1>7. (((i * Power(2, n * s)) % M) * Power(2, s)) % M = (i * Power(2, (n + 1) * s)) % M
  <2>1. PICK p \in Nat : p = Power(2, n * s)
    BY <1>5
  <2>2. PICK q \in Nat : q = Power(2, s)
    BY <1>5
  <2>3. (((i * p) % M) * q) % M = (i * (p * q)) % M
    BY <1>3
  <2> QED
    BY ONLY <1>5, <2>1, <2>2, <2>3
<1> QED
  BY ONLY <1>2, <1>6, <1>7 DEF IsOneMore

\* A counter that was reset.
LEMMA NoIncrement ==
    ASSUME NEW M \in Nat \ {0}, NEW i \in 0 .. M - 1, NEW s \in Nat
    PROVE  /\ (i + 0 * s) % M = i
           /\ (i * Power(s, 0)) % M = i
           /\ (i * Power(2, 0 * s)) % M = i
<1>1. i % M = i
  BY SMTT(30)
<1>2. i + 0 * s = i /\ i * 1 = i /\ 0 * s = 0
  OBVIOUS
<1>3. Power(s, 0) = 1 /\ Power(2, 0) = 1
  BY PowerNext
<1> QED
  BY <1>1, <1>2, <1>3

\* The parameters of the counter.
LEMMA TemplateFacts ==
    ASSUME NEW t \in Templates
    PROVE  \E M \in Nat \ {0} : \E i \in 0 .. M - 1 : \E s \in Nat :
             /\ CounterModulus = M /\ t.initial = i /\ t.increment = s
             /\ t.mode \in Mode
<1>1. /\ t.initial \in 0 .. CounterModulus - 1 /\ t.increment \in Nat
      /\ t.mode \in Mode /\ CounterModulus \in Nat \ {0}
  BY ActionsFacts
<1> QED
  BY <1>1

\* The initial value fits into the counter.
LEMMA FreshCounter ==
    ASSUME NEW t \in Templates
    PROVE  ExactCounter(t, 0, t.initial) /\ t.initial \in Nat
<1>1. PICK M \in Nat \ {0} : \E i \in 0 .. M - 1 : \E s \in Nat :
         CounterModulus = M /\ t.initial = i /\ t.increment = s
  BY TemplateFacts
<1>2. PICK i \in 0 .. M - 1 : \E s \in Nat :
         CounterModulus = M /\ t.initial = i /\ t.increment = s
  BY <1>1
<1>3. PICK s \in Nat : CounterModulus = M /\ t.initial = i /\ t.increment = s
  BY <1>2
<1>4. /\ (i + 0 * s) % M = i
      /\ (i * Power(s, 0)) % M = i
      /\ (i * Power(2, 0 * s)) % M = i
  BY ONLY NoIncrement
<1> QED
  BY <1>3, <1>4 DEF ExactCounter

\* One increment more, of a counter that lost what was beyond its width.
LEMMA NextCounter ==
    ASSUME ActionsTypeOK, CounterIsExact, increments' = increments + 1,
           template' = template, counter' = Incremented(counter)
    PROVE  CounterIsExact' /\ counter' \in Nat
<1>a. template \in Templates /\ increments \in Nat
  BY DEF ActionsTypeOK
<1>1. PICK M \in Nat \ {0} : \E i \in 0 .. M - 1 : \E s \in Nat :
         /\ CounterModulus = M /\ template.initial = i /\ template.increment = s
         /\ template.mode \in Mode
  BY <1>a, TemplateFacts
<1>2. PICK i \in 0 .. M - 1 : \E s \in Nat :
         /\ CounterModulus = M /\ template.initial = i /\ template.increment = s
         /\ template.mode \in Mode
  BY <1>1
<1>3. PICK s \in Nat : /\ CounterModulus = M /\ template.initial = i /\ template.increment = s
                       /\ template.mode \in Mode
  BY <1>2
<1>4. PICK n \in Nat : n = increments
  BY <1>a
<1>5. i \in Nat /\ M \in Nat \ {0} /\ n \in Nat /\ s \in Nat
  OBVIOUS
<1>6. IsOneMore(i, s, n, M)
  BY <1>5, OneIncrement
<1>7. PICK mode \in Mode : mode = template.mode
  BY <1>3
<1>8. /\ mode = "ADD" => counter = (i + n * s) % M
      /\ mode = "MULTIPLY" => counter = (i * Power(s, n)) % M
      /\ mode = "LSHIFT" => counter = (i * Power(2, n * s)) % M
  BY <1>3, <1>4, <1>7 DEF CounterIsExact, ExactCounter
<1>9. /\ mode = "ADD" => counter' = (counter + s) % M
      /\ mode = "MULTIPLY" => counter' = (counter * s) % M
      /\ mode = "LSHIFT" => counter' = (counter * Power(2, s)) % M
  BY <1>3, <1>7 DEF Incremented, Factor
<1>10. /\ mode = "ADD" => counter' = (i + (n + 1) * s) % M
       /\ mode = "MULTIPLY" => counter' = (i * Power(s, n + 1)) % M
       /\ mode = "LSHIFT" => counter' = (i * Power(2, (n + 1) * s)) % M
  BY ONLY <1>6, <1>8, <1>9 DEF IsOneMore
<1>11. CounterIsExact'
  BY <1>3, <1>4, <1>7, <1>10 DEF CounterIsExact, ExactCounter
<1>12. counter' \in Nat
  <2>1. n \in Nat /\ n + 1 \in Nat /\ (n + 1) * s \in Nat
    OBVIOUS
  <2>2. Power(s, n + 1) \in Nat /\ Power(2, (n + 1) * s) \in Nat
    BY <2>1, PowerNat
  <2>3. \A x \in Nat : i * x \in Nat /\ (i + x) \in Nat /\ x % M \in Nat
    BY <1>5
  <2>4. mode = "ADD" \/ mode = "MULTIPLY" \/ mode = "LSHIFT"
    BY DEF Mode
  <2> QED
    BY ONLY <1>10, <2>1, <2>2, <2>3, <2>4
<1> QED
  BY <1>11, <1>12


\* F is a product, and G that with one factor greater by d.
Grows(F, G, c, o, S, h, d) ==
    /\ \A b \in S : c[b] \in Nat /\ o[b] \in Nat
    /\ \A b \in S : F[b] = c[b] * o[b]
    /\ \A b \in S : G[b] = (c[b] + IF b = h THEN d ELSE 0) * o[b]

\* The sum of products in which one factor grows.
LEMMA OneMoreCall ==
    ASSUME NEW S, IsFiniteSet(S), NEW h \in S, NEW d \in Nat, NEW F, NEW G,
           NEW c, NEW o, Grows(F, G, c, o, S, h, d)
    PROVE  Total(F, S) \in Nat /\ Total(G, S) = Total(F, S) + d * o[h]
<1>0. /\ \A b \in S : c[b] \in Nat /\ o[b] \in Nat
      /\ \A b \in S : F[b] = c[b] * o[b]
      /\ \A b \in S : G[b] = (c[b] + IF b = h THEN d ELSE 0) * o[b]
  BY DEF Grows
<1>1. \A x \in Nat, y \in Nat : x * y \in Nat
  OBVIOUS
<1>2. \A b \in S : F[b] \in Nat
  BY <1>0, <1>1
<1>3. \A b \in S \ {h} : G[b] = F[b]
  <2> TAKE b \in S \ {h}
  <2>1. c[b] + (IF b = h THEN d ELSE 0) = c[b]
    BY <1>0
  <2> QED
    BY <1>0, <2>1
<1>4. G[h] = (c[h] + d) * o[h] /\ c[h] \in Nat /\ o[h] \in Nat /\ F[h] = c[h] * o[h]
  BY <1>0
<1>5. G[h] = F[h] + d * o[h] /\ G[h] \in Nat /\ F[h] \in Nat /\ d * o[h] \in Nat
  <2> DEFINE x == c[h]
             y == o[h]
             z == G[h]
             w == F[h]
  <2>1. z = (x + d) * y /\ w = x * y /\ x \in Nat /\ y \in Nat
    BY <1>4
  <2> HIDE DEF x, y, z, w
  <2>2. z = w + d * y /\ z \in Nat /\ w \in Nat /\ d * y \in Nat
    BY <2>1
  <2> QED
    BY <2>2 DEF x, y, z, w
<1>6. \A b \in S : F[b] \in Int /\ G[b] \in Int
  <2> TAKE b \in S
  <2>1. CASE b = h
    BY <1>5, <2>1
  <2>2. CASE b # h
    <3>1. G[b] = F[b] /\ F[b] \in Nat
      BY <1>2, <1>3, <2>2
    <3> QED
      BY <3>1
  <2> QED
    BY <2>1, <2>2
<1>7. Total(G, S) = Total(F, S) + (G[h] - F[h])
  BY ONLY IsFiniteSet(S), h \in S, <1>3, <1>6, TotalChanged
<1>8. Total(F, S) \in Nat
  BY <1>2, TotalNat
<1> QED
  <2> DEFINE z == G[h]
             w == F[h]
             e == d * o[h]
  <2>1. Total(G, S) = Total(F, S) + (z - w) /\ z = w + e /\ w \in Nat /\ e \in Nat
    BY <1>5, <1>7
  <2> HIDE DEF z, w, e
  <2>2. Total(G, S) = Total(F, S) + e
    BY <1>8, <2>1
  <2> QED
    BY <1>8, <2>2 DEF e

\* What the execution of the action on top changes: it was called once less than it
\* has now been executed, and has called these others, its parts or nothing.
LEMMA CallsKept ==
    ASSUME ActionsTypeOK, CallsAreExecuted, stack # <<>>, NEW others \in Seq(Action),
           NEW d \in {0, 1},
           \A a \in Action : Occurrences(a, others) = d * Occurrences(a, Parts[Head(stack)]),
           stack' = others \o Tail(stack),
           runs' = [runs EXCEPT ![Head(stack)] = @ + 1],
           called' = called,
           \A b \in Action : Calls(b)' = Calls(b) + (IF b = Head(stack) THEN d ELSE 0)
    PROVE  CallsAreExecuted' /\ stack' \in Seq(Action) /\ runs' \in [Action -> Nat]
<1> DEFINE h == Head(stack)
<1>1. h \in Action /\ Tail(stack) \in Seq(Action) /\ stack \in Seq(Action)
  BY TailFacts DEF ActionsTypeOK
<1>2. stack' \in Seq(Action) /\ runs' \in [Action -> Nat]
  <2>1. stack' \in Seq(Action)
    BY <1>1, ConcatProperties
  <2>2. runs \in [Action -> Nat] /\ runs[h] + 1 \in Nat
    BY <1>1 DEF ActionsTypeOK
  <2> QED
    BY <1>1, <2>1, <2>2
<1>3. \A a \in Action : runs'[a] = runs[a] + (IF a = h THEN 1 ELSE 0)
  <2>1. runs \in [Action -> Nat]
    BY DEF ActionsTypeOK
  <2> TAKE a \in Action
  <2>2. runs[a] \in Nat
    BY <2>1
  <2>3. CASE a = h
    BY <1>1, <2>1, <2>3
  <2>4. CASE a # h
    BY <1>1, <2>1, <2>2, <2>4
  <2> QED
    BY <2>3, <2>4
<1>4. \A b \in Action : Calls(b)' = Calls(b) + (IF b = h THEN d ELSE 0)
  OBVIOUS
<1>5. \A a \in Action : Occurrences(a, others) = d * Occurrences(a, Parts[h])
  OBVIOUS
<1>6. stack = <<>> \/ \A a \in Action :
        Occurrences(a, stack) = (IF a = h THEN 1 ELSE 0) + Occurrences(a, Tail(stack))
  BY <1>1, OccurrencesFacts
<1>7. d \in Nat
  OBVIOUS
<1> HIDE DEF h
<1>8. ASSUME NEW a \in Action
      PROVE  runs'[a] + Occurrences(a, stack') = called'[a] + Total(Callings(a)', Action)
  <2> DEFINE one == IF a = h THEN 1 ELSE 0
             more == Occurrences(a, Parts[h])
             rest == Occurrences(a, Tail(stack))
             before == Total(Callings(a), Action)
             calls == [b \in Action |-> Calls(b)]
             parts == [b \in Action |-> Occurrences(a, Parts[b])]
             dm == d * more
             r == runs[a]
             c == called[a]
  <2>1. one \in Nat /\ more \in Nat /\ rest \in Nat
    BY <1>1, OccurrencesFacts, ActionsFacts
  <2>2. \A b \in Action : calls[b] \in Nat /\ parts[b] \in Nat
    <3>1. \A b \in Action : Calls(b) \in Nat
      BY DEF Calls, ActionsTypeOK
    <3> QED
      BY <3>1, OccurrencesFacts, ActionsFacts
  <2>3. \A b \in Action : Callings(a)[b] = calls[b] * parts[b]
    BY DEF Callings
  <2>4. \A b \in Action : Callings(a)'[b] = (calls[b] + IF b = h THEN d ELSE 0) * parts[b]
    <3>1. \A b \in Action : Callings(a)'[b] = Calls(b)' * parts[b]
      BY DEF Callings, Occurrences
    <3> QED
      BY <1>4, <3>1
  <2>5. parts[h] = more
    BY <1>1
  <2>6. Occurrences(a, stack') = dm + rest
    <3>1. Occurrences(a, others \o Tail(stack)) = Occurrences(a, others) + rest
      BY <1>1, OccurrencesFacts
    <3>2. Occurrences(a, stack') = Occurrences(a, others \o Tail(stack))
      OBVIOUS
    <3> QED
      BY <1>5, <3>1, <3>2
  <2>7. r + Occurrences(a, stack) = c + before
    BY DEF CallsAreExecuted
  <2>8. Occurrences(a, stack) = one + rest
    BY <1>6
  <2>9. r \in Nat /\ c \in Nat /\ runs'[a] = r + one /\ called'[a] = c
    BY <1>3 DEF ActionsTypeOK
  <2>10. dm \in Nat
    <3> HIDE DEF more
    <3> QED
      BY <1>7, <2>1
  <2> HIDE DEF calls, parts
  <2>11. before \in Nat /\ Total(Callings(a)', Action) = before + d * parts[h]
    <3>1. Grows(Callings(a), Callings(a)', calls, parts, Action, h, d)
      BY ONLY <2>2, <2>3, <2>4 DEF Grows
    <3>2. IsFiniteSet(Action)
      BY ActionsFacts
    <3> QED
      BY ONLY <1>1, <1>7, <3>1, <3>2, OneMoreCall
  <2> HIDE DEF more
  <2>12. Total(Callings(a)', Action) = before + dm
    BY <2>5, <2>11
  <2> HIDE DEF one, rest, before, dm, r, c
  <2>13. PICK x \in Nat : x = before
    BY ONLY <2>11
  <2>14. PICK y \in Nat : y = dm
    BY ONLY <2>10
  <2>15. r + (one + rest) = c + x /\ r \in Nat /\ c \in Nat /\ one \in Nat /\ rest \in Nat
    BY ONLY <2>1, <2>7, <2>8, <2>9, <2>13
  <2>16. (r + one) + (y + rest) = c + (x + y)
    BY ONLY <2>15
  <2> QED
    BY ONLY <2>6, <2>9, <2>12, <2>13, <2>14, <2>16
<1> QED
  BY <1>2, <1>8 DEF CallsAreExecuted

\* The count of the executions grows with those of the actions that count.
LEMMA CountKept ==
    ASSUME ActionsTypeOK, CountIsOfRuns, stack # <<>>,
           runs' = [runs EXCEPT ![Head(stack)] = @ + 1],
           executed' = IF Class[Head(stack)] = "counter" THEN executed + 1 ELSE executed
    PROVE  CountIsOfRuns'
<1>1. PICK h \in Action : h = Head(stack)
  BY TailFacts DEF ActionsTypeOK
<1>2. IsFiniteSet(Counting) /\ Counting \subseteq Action
  <2>1. Counting \in SUBSET Action
    BY DEF Counting
  <2> QED
    BY <2>1, ActionsFacts, FS_Subset
<1>3. PICK f \in [Action -> Nat] : f = runs
  BY DEF ActionsTypeOK
<1>4. PICK g \in [Action -> Nat] : g = runs' /\ g = [f EXCEPT ![h] = @ + 1]
  <2>1. [f EXCEPT ![h] = @ + 1] \in [Action -> Nat]
    OBVIOUS
  <2>2. runs' = [f EXCEPT ![h] = @ + 1]
    BY <1>1, <1>3
  <2> QED
    BY <2>1, <2>2
<1>5. \A a \in Counting : f[a] \in Int /\ g[a] \in Int
  BY <1>2
<1>6. CASE h \in Counting
  <2>1. \A a \in Counting \ {h} : g[a] = f[a]
    BY <1>2, <1>4
  <2>2. Total(g, Counting) = Total(f, Counting) + (g[h] - f[h])
    BY ONLY <1>2, <1>5, <1>6, <2>1, TotalChanged
  <2>3. g[h] = f[h] + 1 /\ f[h] \in Nat /\ Total(f, Counting) = executed /\ executed \in Nat
    BY <1>3, <1>4 DEF CountIsOfRuns, ActionsTypeOK
  <2>4. executed' = executed + 1
    BY <1>1, <1>6 DEF Counting
  <2>5. Total(g, Counting) = executed'
    BY ONLY <2>2, <2>3, <2>4
  <2> QED
    BY <1>4, <2>5 DEF CountIsOfRuns, Counting
<1>7. CASE h \notin Counting
  <2>1. \A a \in Counting : f[a] \in Int /\ g[a] = f[a]
    BY <1>2, <1>4, <1>5, <1>7
  <2>2. Total(g, Counting) = Total(f, Counting)
    BY ONLY <1>2, <2>1, TotalSame
  <2>3. executed' = executed
    BY <1>1, <1>7 DEF Counting
  <2> QED
    BY <1>3, <1>4, <2>2, <2>3 DEF CountIsOfRuns, Counting
<1> QED
  BY <1>6, <1>7

\* What every execution keeps but its own variables.
LEMMA ExecutesKeeps ==
    ASSUME ActionsInv, NEW class, NEW others, NEW d \in {0, 1}, Executes(class, others),
           others = IF d = 1 THEN Parts[Head(stack)] ELSE <<>>,
           Class[Head(stack)] # "conditional" => d = 1,
           taken' = IF Class[Head(stack)] = "conditional" /\ d = 1
                    THEN [taken EXCEPT ![Head(stack)] = @ + 1] ELSE taken,
           executed' = IF class = "counter" THEN executed + 1 ELSE executed
    PROVE  /\ CallsAreExecuted' /\ CountIsOfRuns'
           /\ template' = template /\ template' \in Templates
           /\ executed' \in Nat /\ stack' \in Seq(Action)
           /\ called' \in [Action -> Nat] /\ runs' \in [Action -> Nat]
           /\ taken' \in [Action -> Nat]
<1> DEFINE h == Head(stack)
<1>1. /\ stack # <<>> /\ Class[h] = class /\ template' = template /\ called' = called
      /\ stack' = others \o Tail(stack) /\ runs' = [runs EXCEPT ![h] = @ + 1]
  BY DEF Executes
<1>2. /\ ActionsTypeOK /\ CallsAreExecuted /\ CountIsOfRuns /\ template \in Templates
      /\ executed \in Nat /\ called \in [Action -> Nat] /\ runs \in [Action -> Nat]
      /\ taken \in [Action -> Nat] /\ stack \in Seq(Action)
  BY DEF ActionsInv, ActionsTypeOK
<1>3. h \in Action /\ Parts[h] \in Seq(Action) /\ others \in Seq(Action)
  <2>1. h \in Action
    BY <1>1, <1>2, TailFacts
  <2>2. Parts[h] \in Seq(Action)
    BY <2>1, ActionsFacts
  <2>3. <<>> \in Seq(Action)
    OBVIOUS
  <2> QED
    BY <2>1, <2>2, <2>3
<1>4. \A a \in Action : Occurrences(a, others) = d * Occurrences(a, Parts[h])
  <2> TAKE a \in Action
  <2>1. Occurrences(a, Parts[h]) \in Nat /\ Occurrences(a, <<>>) = 0
    BY <1>3, OccurrencesFacts
  <2>2. CASE d = 1
    BY <2>1, <2>2
  <2>3. CASE d = 0
    BY <2>1, <2>3
  <2> QED
    BY <2>2, <2>3
<1>5. \A b \in Action : runs'[b] = runs[b] + (IF b = h THEN 1 ELSE 0) /\ runs[b] \in Nat
  BY <1>1, <1>2
<1>6. /\ taken' \in [Action -> Nat]
      /\ \A b \in Action : /\ taken[b] \in Nat
                           /\ Class[b] = "conditional" =>
                                taken'[b] = taken[b] + (IF b = h THEN d ELSE 0)
  <2>1. CASE Class[h] = "conditional" /\ d = 1
    BY <1>2, <1>3, <2>1
  <2>2. CASE ~(Class[h] = "conditional" /\ d = 1)
    BY <1>2, <1>3, <2>2, SMTT(30)
  <2> QED
    BY <2>1, <2>2
<1>7. \A b \in Action : Calls(b)' = Calls(b) + (IF b = h THEN d ELSE 0)
  BY <1>5, <1>6 DEF Calls
<1>8. CallsAreExecuted' /\ stack' \in Seq(Action) /\ runs' \in [Action -> Nat]
  BY <1>1, <1>2, <1>3, <1>4, <1>7, CallsKept
<1>9. CountIsOfRuns'
  BY <1>1, <1>2, CountKept
<1> QED
  BY <1>1, <1>2, <1>6, <1>8, <1>9

\* Nothing was called.
LEMMA ActionsInvInit == ActionsInit => ActionsInv
<1> SUFFICES ASSUME ActionsInit PROVE ActionsInv
  OBVIOUS
<1>1. ActionsTypeOK
  <2>1. template.initial \in Nat
    BY FreshCounter DEF ActionsInit
  <2> QED
    BY <2>1 DEF ActionsInit, ActionsTypeOK
<1>2. CounterIsExact
  BY FreshCounter DEF ActionsInit, CounterIsExact
<1>3. IsFiniteSet(Action) /\ IsFiniteSet(Counting)
  <2>1. Counting \in SUBSET Action
    BY DEF Counting
  <2> QED
    BY <2>1, ActionsFacts, FS_Subset
<1>5. CountIsOfRuns
  <2>1. \A a \in Counting : runs[a] = 0
    BY DEF ActionsInit, Counting
  <2> QED
    BY <1>3, <2>1, TotalZero DEF CountIsOfRuns, ActionsInit
<1>6. CallsAreExecuted
  <2> SUFFICES ASSUME NEW a \in Action
               PROVE  runs[a] + Occurrences(a, stack) = called[a] + Total(Callings(a), Action)
    BY DEF CallsAreExecuted
  <2>1. \A b \in Action : Callings(a)[b] = 0
    <3> TAKE b \in Action
    <3>1. Calls(b) = 0
      BY DEF Calls, ActionsInit
    <3>2. Occurrences(a, Parts[b]) \in Nat
      BY ActionsFacts, OccurrencesFacts
    <3>3. Callings(a)[b] = 0 * Occurrences(a, Parts[b])
      BY <3>1 DEF Callings
    <3> QED
      BY <3>2, <3>3
  <2>2. Total(Callings(a), Action) = 0
    BY <1>3, <2>1, TotalZero
  <2>3. Occurrences(a, stack) = 0 /\ runs[a] = 0 /\ called[a] = 0
    BY OccurrencesFacts DEF ActionsInit
  <2> QED
    BY <2>2, <2>3
<1> QED
  BY <1>1, <1>2, <1>5, <1>6 DEF ActionsInv

\* Every step of an application that is wired from actions.
LEMMA ActionsInvNext == ActionsInv /\ [ActionsNext]_actionVars => ActionsInv'
<1> SUFFICES ASSUME ActionsInv, [ActionsNext]_actionVars PROVE ActionsInv'
  OBVIOUS
<1>1. /\ ActionsTypeOK /\ CallsAreExecuted /\ CountIsOfRuns /\ CounterIsExact
      /\ counter \in Nat /\ increments \in Nat /\ latch \in BOOLEAN
  BY DEF ActionsInv, ActionsTypeOK
<1>2. ASSUME NEW a \in Action, Call(a) PROVE ActionsInv'
  <2>1. /\ stack = <<>> /\ stack' = <<a>> /\ called' = [called EXCEPT ![a] = @ + 1]
        /\ UNCHANGED <<template, counter, executed, latch, runs, taken, increments>>
    BY <1>2 DEF Call
  <2>2. ActionsTypeOK'
    <3>1. called' \in [Action -> Nat]
      BY <1>1, <2>1 DEF ActionsTypeOK
    <3>2. stack' \in Seq(Action)
      BY <2>1
    <3> QED
      BY <1>1, <2>1, <3>1, <3>2 DEF ActionsTypeOK
  <2>3. CallsAreExecuted'
    <3> SUFFICES ASSUME NEW b \in Action
                 PROVE runs'[b] + Occurrences(b, stack') = called'[b] + Total(Callings(b)', Action)
      BY DEF CallsAreExecuted
    <3>1. Occurrences(b, stack) = 0
      BY <2>1, OccurrencesFacts
    <3>2. Occurrences(b, stack') = IF b = a THEN 1 ELSE 0
      <4>1. stack' \in Seq(Action) /\ stack' # <<>> /\ Head(stack') = a /\ Tail(stack') = <<>>
        BY <2>1
      <4>2. Occurrences(b, stack') = (IF Head(stack') = b THEN 1 ELSE 0) + Occurrences(b, Tail(stack'))
        BY <4>1, OccurrencesFacts
      <4>3. Occurrences(b, <<>>) = 0
        BY OccurrencesFacts
      <4>4. Occurrences(b, Tail(stack')) = 0
        BY <4>1, <4>3, Zenon
      <4> QED
        BY ONLY <4>1, <4>2, <4>4
    <3>3. called'[b] = called[b] + (IF b = a THEN 1 ELSE 0) /\ called[b] \in Nat /\ runs[b] \in Nat
      BY <1>1, <2>1 DEF ActionsTypeOK
    <3>4. Callings(b)' = Callings(b)
      BY <2>1 DEF Callings, Calls, Occurrences
    <3>5. Total(Callings(b)', Action) = Total(Callings(b), Action)
      BY <3>4
    <3>6. runs[b] + Occurrences(b, stack) = called[b] + Total(Callings(b), Action) /\ runs'[b] = runs[b]
      BY <1>1, <2>1 DEF CallsAreExecuted
    <3>7. Total(Callings(b), Action) \in Int
      <4>1. \A c \in Action : Callings(b)[c] \in Int
        <5> TAKE c \in Action
        <5>1. Calls(c) \in Nat /\ Occurrences(b, Parts[c]) \in Nat
          BY <1>1, ActionsFacts, OccurrencesFacts DEF Calls, ActionsTypeOK
        <5>2. Callings(b)[c] = Calls(c) * Occurrences(b, Parts[c])
          BY DEF Callings
        <5> QED
          BY <5>1, <5>2
      <4> QED
        BY <4>1, ActionsFacts, TotalRemove
    <3>8. PICK x \in Int : x = Total(Callings(b), Action)
      BY <3>7
    <3> QED
      BY ONLY <3>1, <3>2, <3>3, <3>5, <3>6, <3>8
  <2>4. CountIsOfRuns' /\ CounterIsExact'
    BY <1>1, <2>1 DEF CountIsOfRuns, Counting, CounterIsExact
  <2> QED
    BY <2>2, <2>3, <2>4 DEF ActionsInv
<1>3. CASE SetByOther
  <2>1. latch' = TRUE /\ UNCHANGED <<template, counter, executed, stack, called, runs, taken, increments>>
    BY <1>3 DEF SetByOther
  <2>2. ActionsTypeOK'
    BY <1>1, <2>1 DEF ActionsTypeOK
  <2> QED
    BY <1>1, <2>1, <2>2 DEF ActionsInv, CallsAreExecuted, CountIsOfRuns, CounterIsExact,
                            Callings, Calls, Occurrences, Counting
<1> DEFINE Kept == /\ CallsAreExecuted' /\ CountIsOfRuns'
                   /\ template' = template /\ template' \in Templates
                   /\ executed' \in Nat /\ stack' \in Seq(Action)
                   /\ called' \in [Action -> Nat] /\ runs' \in [Action -> Nat]
                   /\ taken' \in [Action -> Nat]
<1>4. ASSUME Kept, latch' \in BOOLEAN, counter' = counter, increments' = increments
      PROVE  ActionsInv'
  <2>1. ActionsTypeOK'
    BY <1>1, <1>4 DEF ActionsTypeOK
  <2>2. CounterIsExact'
    BY <1>1, <1>4 DEF CounterIsExact
  <2> QED
    BY <1>4, <2>1, <2>2 DEF ActionsInv
<1>5. ASSUME NEW class \in {"null", "counter", "set", "reset latch", "reset counter", "increment"},
             Executes(class, <<>>), UNCHANGED taken,
             executed' = IF class = "counter" THEN executed + 1 ELSE executed
      PROVE  Kept
  <2>1. Class[Head(stack)] = class /\ stack # <<>>
    BY <1>5 DEF Executes
  <2>2. Head(stack) \in Action
    BY <1>1, <2>1, TailFacts DEF ActionsTypeOK
  <2>3. Parts[Head(stack)] = <<>> /\ Class[Head(stack)] # "conditional"
    BY <1>5, <2>1, <2>2, ActionsFacts
  <2>4. \E d \in {0, 1} : d = 1
    OBVIOUS
  <2>5. PICK d \in {0, 1} : d = 1
    BY <2>4
  <2>6. <<>> = IF d = 1 THEN Parts[Head(stack)] ELSE <<>>
    BY <2>3, <2>5
  <2>7. taken' = IF Class[Head(stack)] = "conditional" /\ d = 1
                 THEN [taken EXCEPT ![Head(stack)] = @ + 1] ELSE taken
    BY <1>5, <2>3
  <2> QED
    BY <1>5, <2>3, <2>5, <2>6, <2>7, ExecutesKeeps
<1>6. ASSUME NEW class \in {"compound", "pair"}, Executes(class, PartsOfTop),
             UNCHANGED <<taken, executed>>
      PROVE  Kept
  <2>1. Class[Head(stack)] = class /\ PartsOfTop = Parts[Head(stack)]
    BY <1>6 DEF Executes, PartsOfTop
  <2>2. PICK d \in {0, 1} : d = 1
    OBVIOUS
  <2>3. PartsOfTop = IF d = 1 THEN Parts[Head(stack)] ELSE <<>>
    BY <2>1, <2>2
  <2>4. Class[Head(stack)] # "conditional" /\ class # "counter"
    BY <1>6, <2>1
  <2>5. taken' = IF Class[Head(stack)] = "conditional" /\ d = 1
                 THEN [taken EXCEPT ![Head(stack)] = @ + 1] ELSE taken
    BY <1>6, <2>4
  <2>6. executed' = IF class = "counter" THEN executed + 1 ELSE executed
    BY <1>6, <2>4
  <2> QED
    BY <1>6, <2>2, <2>3, <2>4, <2>5, <2>6, ExecutesKeeps
<1>7. CASE ExecuteNull
  BY <1>1, <1>4, <1>5, <1>7 DEF ExecuteNull
<1>8. CASE ExecuteCounter
  BY <1>1, <1>4, <1>5, <1>8 DEF ExecuteCounter
<1>9. CASE ExecuteCompound
  BY <1>1, <1>4, <1>6, <1>9 DEF ExecuteCompound
<1>10. CASE ExecutePair
  BY <1>1, <1>4, <1>6, <1>10 DEF ExecutePair
<1>11. CASE ExecuteSetLatch
  BY <1>1, <1>4, <1>5, <1>11 DEF ExecuteSetLatch
<1>12. CASE ExecuteResetLatch
  BY <1>1, <1>4, <1>5, <1>12 DEF ExecuteResetLatch
<1>13. CASE ExecuteResetCounter
  <2>1. Kept
    BY <1>5, <1>13 DEF ExecuteResetCounter
  <2>2. counter' = template.initial /\ increments' = 0 /\ latch' = latch
    BY <1>13 DEF ExecuteResetCounter
  <2>3. counter' = template'.initial
    BY <2>1, <2>2
  <2>4. CounterIsExact'
    <3>1. template' \in Templates
      BY <2>1
    <3> QED
      BY <2>2, <2>3, <3>1, FreshCounter DEF CounterIsExact
  <2>5. counter' \in Nat
    BY <2>1, <2>2, FreshCounter
  <2>6. ActionsTypeOK'
    BY <1>1, <2>1, <2>2, <2>5 DEF ActionsTypeOK
  <2> QED
    BY <2>1, <2>4, <2>6 DEF ActionsInv
<1>14. CASE ExecuteConditional
  <2>1. PICK d \in {0, 1} : d = IF latch THEN 1 ELSE 0
    OBVIOUS
  <2>2. Class[Head(stack)] = "conditional" /\ PartsOfTop = Parts[Head(stack)]
    BY <1>14 DEF ExecuteConditional, Executes, PartsOfTop
  <2>3. Kept
    <3> DEFINE others == IF latch THEN PartsOfTop ELSE <<>>
    <3>1. Executes("conditional", others) /\ executed' = executed
      BY <1>14 DEF ExecuteConditional
    <3>2. others = IF d = 1 THEN Parts[Head(stack)] ELSE <<>>
      BY <1>1, <2>1, <2>2
    <3>3. taken' = IF Class[Head(stack)] = "conditional" /\ d = 1
                   THEN [taken EXCEPT ![Head(stack)] = @ + 1] ELSE taken
      BY <1>1, <1>14, <2>1, <2>2 DEF ExecuteConditional
    <3>4. executed' = IF "conditional" = "counter" THEN executed + 1 ELSE executed
      BY <3>1
    <3> HIDE DEF others
    <3> QED
      BY <2>2, <3>1, <3>2, <3>3, <3>4, ExecutesKeeps
  <2> QED
    BY <1>1, <1>4, <1>14, <2>3 DEF ExecuteConditional
<1>15. CASE ExecuteIncrement
  <2>1. Kept
    BY <1>5, <1>15 DEF ExecuteIncrement
  <2>2. counter' = Incremented(counter) /\ increments' = increments + 1 /\ latch' = latch
    BY <1>15 DEF ExecuteIncrement
  <2>3. CounterIsExact' /\ counter' \in Nat
    BY <1>1, <2>1, <2>2, NextCounter
  <2>4. ActionsTypeOK'
    BY <1>1, <2>1, <2>2, <2>3 DEF ActionsTypeOK
  <2> QED
    BY <2>1, <2>3, <2>4 DEF ActionsInv
<1>16. CASE UNCHANGED actionVars
  BY <1>1, <1>16 DEF ActionsInv, ActionsTypeOK, CallsAreExecuted, CountIsOfRuns, CounterIsExact,
                     Callings, Calls, Occurrences, Counting, actionVars
<1> QED
  BY <1>2, <1>3, <1>7, <1>8, <1>9, <1>10, <1>11, <1>12, <1>13, <1>14, <1>15, <1>16
     DEF ActionsNext

\* ActionsTypeOK: the calls to come are calls of actions, and every count is a number.
THEOREM ActionsTypeCorrect == ActionsSpec => []ActionsTypeOK
<1>1. ActionsInv => ActionsTypeOK
  BY DEF ActionsInv
<1> QED
  BY <1>1, ActionsInvInit, ActionsInvNext, PTL DEF ActionsSpec

\* Every call of an action is executed once or still to come, and the counters tell
\* how often theirs were, whatever is wired to what.
THEOREM ActionsAreExactHolds == ActionsSpec => []ActionsAreExact
<1>1. ActionsInv => ActionsAreExact
  BY DEF ActionsInv, ActionsAreExact, CallsAreExecuted, CountIsOfRuns, CounterIsExact,
         Callings, Counting, ExactCounter
<1> QED
  BY <1>1, ActionsInvInit, ActionsInvNext, PTL DEF ActionsSpec
-----------------------------------------------------------------------------
(***************************************************************************)
(* Statistics: each figure is what its definition makes of the samples     *)
(* (FiguresAreExact).  The invariant has the numbers behind the fractions: *)
(* the sums behind a summary, the weights of a distribution, and of an     *)
(* average any bounds of the samples and what is left of each of them.     *)
(***************************************************************************)
\* What is n / d is m / e as well, if these are the same.
LEMMA IsAlso ==
    ASSUME NEW f, NEW n \in Int, NEW d \in Nat \ {0}, NEW m \in Int, NEW e \in Nat \ {0},
           n * e = m * d, Is(f, n, d)
    PROVE  Is(f, m, e)
<1>1. PICK a \in Int : a = f[1]
  BY DEF Is
<1>2. PICK b \in Nat \ {0} : b = f[2]
  BY DEF Is
<1>3. a * d = n * b
  BY <1>1, <1>2 DEF Is
<1>4. (a * e) * d = (m * b) * d
  <2>1. (a * e) * d = (a * d) * e /\ (n * b) * e = (n * e) * b /\ (m * d) * b = (m * b) * d
    OBVIOUS
  <2> QED
    BY ONLY <1>3, <2>1, n * e = m * d
<1>5. Is(f, m * d, e * d)
  <2>1. a * (e * d) = (a * e) * d /\ (m * d) * b = (m * b) * d
    OBVIOUS
  <2>2. a * (e * d) = (m * d) * b
    BY ONLY <1>4, <2>1
  <2> QED
    BY <1>1, <1>2, <2>2 DEF Is
<1>6. m \in Int /\ e \in Int /\ d \in Int /\ d # 0
  OBVIOUS
<1> QED
  BY <1>5, <1>6, IsCancel

\* Numbers that are equal are so as fractions.
LEMMA IsEqual ==
    ASSUME NEW f, NEW g, NEW n \in Int, NEW d \in Nat \ {0}, Is(f, n, d), Is(g, n, d)
    PROVE  Equals(f, g)
<1>1. PICK a \in Int : a = f[1]
  BY DEF Is
<1>2. PICK b \in Nat \ {0} : b = f[2]
  BY DEF Is
<1>3. PICK c \in Int : c = g[1]
  BY DEF Is
<1>4. PICK h \in Nat \ {0} : h = g[2]
  BY DEF Is
<1>5. a * d = n * b /\ c * d = n * h
  BY <1>1, <1>2, <1>3, <1>4 DEF Is
<1>6. d * (a * h - c * b) = 0
  <2>1. d * (a * h - c * b) = (a * d) * h - (c * d) * b /\ (n * b) * h = (n * h) * b
    OBVIOUS
  <2>2. (n * b) * h \in Int
    OBVIOUS
  <2>3. (a * d) * h = (c * d) * b
    BY ONLY <1>5, <2>1
  <2>4. PICK z \in Int : z = (c * d) * b
    OBVIOUS
  <2> QED
    BY ONLY <2>1, <2>3, <2>4
<1>7. a * h - c * b = 0
  <2>1. PICK z \in Int : z = a * h - c * b
    OBVIOUS
  <2>2. z # 0 => d * z # 0
    OBVIOUS
  <2> QED
    BY <1>6, <2>1, <2>2
<1>8. a * h = c * b
  BY <1>7
<1> QED
  BY <1>1, <1>2, <1>3, <1>4, <1>8 DEF Equals

\* A fraction in lowest terms.
IsReduced(f) == \E p \in Int : \E q \in Nat \ {0} : f = Fraction(p, q)

\* Fractions in lowest terms are equal to a whole number if what they stand for is.
LEMMA ReducedIsWhole ==
    ASSUME NEW f, IsReduced(f), NEW n \in Int, NEW d \in Nat \ {0}, Is(f, n, d), NEW t \in Int
    PROVE  f = Whole(t) <=> n = t * d
<1>1. PICK p \in Int, q \in Nat \ {0} : f = Fraction(p, q)
  BY DEF IsReduced
<1>2. PICK a \in Int : a = f[1]
  BY DEF Is
<1>3. PICK b \in Nat \ {0} : b = f[2]
  BY DEF Is
<1>4. a * d = n * b
  BY <1>2, <1>3 DEF Is
<1>5. a * q = p * b
  <2>1. Is(f, p, q)
    BY <1>1, FractionIs
  <2> QED
    BY <1>2, <1>3, <2>1 DEF Is
<1>6. ASSUME f = Whole(t) PROVE n = t * d
  <2>1. a = t /\ b = 1
    BY <1>2, <1>3, <1>6 DEF Whole
  <2> QED
    BY <1>4, <2>1
<1>7. ASSUME n = t * d PROVE f = Whole(t)
  <2>1. d * (a - t * b) = 0
    <3>1. d * (a - t * b) = a * d - (t * d) * b
      OBVIOUS
    <3>2. PICK z \in Int : z = n * b
      OBVIOUS
    <3> QED
      BY ONLY <1>4, <1>7, <3>1, <3>2
  <2>2. PICK z \in Int : z = a - t * b
    OBVIOUS
  <2>3. z # 0 => d * z # 0
    OBVIOUS
  <2>4. a = t * b
    <3>1. a - t * b = 0
      BY <2>1, <2>2, <2>3
    <3> QED
      BY <3>1
  <2>5. b * (p - t * q) = 0
    <3>1. b * (p - t * q) = p * b - (t * b) * q
      OBVIOUS
    <3>2. PICK y \in Int : y = a * q
      OBVIOUS
    <3> QED
      BY ONLY <1>5, <2>4, <3>1, <3>2
  <2>6. PICK y \in Int : y = p - t * q
    OBVIOUS
  <2>7. y # 0 => b * y # 0
    OBVIOUS
  <2>8. p = t * q
    <3>1. p - t * q = 0
      BY <2>5, <2>6, <2>7
    <3> QED
      BY <3>1
  <2> QED
    BY <1>1, <2>8, FractionIsWhole
<1> QED
  BY <1>6, <1>7

\* What is done to fractions gives fractions in lowest terms.
LEMMA ReducedSum ==
    ASSUME NEW f, NEW g, NEW n, NEW m, NEW d, NEW e, Is(f, n, d), Is(g, m, e)
    PROVE  IsReduced(Plus(f, g)) /\ IsReduced(Minus(f, g)) /\ IsReduced(Times(f, g))
<1>1. PICK a \in Int : a = f[1]
  BY DEF Is
<1>2. PICK b \in Nat \ {0} : b = f[2]
  BY DEF Is
<1>3. PICK c \in Int : c = g[1]
  BY DEF Is
<1>4. PICK h \in Nat \ {0} : h = g[2]
  BY DEF Is
<1>5. /\ Plus(f, g) = Fraction(a * h + c * b, b * h)
      /\ Minus(f, g) = Fraction(a * h - c * b, b * h)
      /\ Times(f, g) = Fraction(a * c, b * h)
  BY <1>1, <1>2, <1>3, <1>4 DEF Plus, Minus, Times
<1>6. /\ a * h + c * b \in Int /\ a * h - c * b \in Int /\ a * c \in Int
      /\ b * h \in Nat \ {0}
  OBVIOUS
<1> QED
  BY <1>5, <1>6 DEF IsReduced

\* A division by a positive number.
LEMMA OverIs ==
    ASSUME NEW f, NEW g, NEW n \in Int, NEW m \in Nat \ {0}, NEW d \in Nat \ {0}, NEW e \in Nat \ {0},
           Is(f, n, d), Is(g, m, e)
    PROVE  Is(Over(f, g), n * e, d * m) /\ IsReduced(Over(f, g))
<1>1. PICK a \in Int : a = f[1]
  BY DEF Is
<1>2. PICK b \in Nat \ {0} : b = f[2]
  BY DEF Is
<1>3. PICK c \in Int : c = g[1]
  BY DEF Is
<1>4. PICK h \in Nat \ {0} : h = g[2]
  BY DEF Is
<1>5. a * d = n * b /\ c * e = m * h
  BY <1>1, <1>2, <1>3, <1>4 DEF Is
<1>6. c \in Nat \ {0}
  <2>1. m * h > 0
    OBVIOUS
  <2>2. c <= 0 => c * e <= 0
    OBVIOUS
  <2> QED
    BY <1>5, <2>1, <2>2
<1>7. Over(f, g) = Fraction(a * h, b * c)
  BY <1>1, <1>2, <1>3, <1>4 DEF Over
<1>8. PICK q \in Nat \ {0} : q = b * c
  BY <1>6
<1>9. PICK p \in Int : p = a * h
  OBVIOUS
<1>10. PICK x : x = Fraction(p, q)
  OBVIOUS
<1>11. Is(x, p, q)
  BY <1>10, FractionIs
<1>12. PICK y \in Int : y = x[1]
  BY <1>11 DEF Is
<1>13. PICK z \in Nat \ {0} : z = x[2]
  BY <1>11 DEF Is
<1>14. y * q = p * z
  BY <1>11, <1>12, <1>13 DEF Is
<1>15. y * ((d * m) * (b * h)) = ((n * e) * (b * h)) * z
  <2>1. y * ((d * m) * (b * h)) = ((y * b) * d) * (m * h)
    OBVIOUS
  <2>2. ((y * b) * d) * (c * e) = (y * (b * c)) * (d * e)
    OBVIOUS
  <2>3. (y * q) * (d * e) = ((p * z) * d) * e
    <3>1. PICK w \in Int : w = p * z
      OBVIOUS
    <3>2. w * (d * e) = (w * d) * e
      OBVIOUS
    <3> QED
      BY ONLY <1>14, <3>1, <3>2
  <2>4. (((a * h) * z) * d) * e = ((a * d) * h) * (z * e)
    OBVIOUS
  <2>5. ((n * b) * h) * (z * e) = ((n * e) * (b * h)) * z
    OBVIOUS
  <2> QED
    BY ONLY <1>5, <1>8, <1>9, <2>1, <2>2, <2>3, <2>4, <2>5
<1>16. Is(x, (n * e) * (b * h), (d * m) * (b * h))
  BY <1>12, <1>13, <1>15 DEF Is
<1>17. Is(x, n * e, d * m)
  <2>1. n * e \in Int /\ d * m \in Int /\ b * h \in Int /\ b * h # 0
    OBVIOUS
  <2> QED
    BY <1>16, <2>1, IsCancel
<1> QED
  BY <1>7, <1>8, <1>9, <1>10, <1>17 DEF IsReduced

\* A sum of fractions on the subsets of S.
IsFractionSum(g, f, D) ==
    g = [s \in D |-> IF s = {} THEN Zero ELSE Plus(f[Pick(s)], g[s \ {Pick(s)}])]

\* Such sums exist.
LEMMA FractionSumExists ==
    ASSUME NEW f, NEW S, IsFiniteSet(S)
    PROVE  \E g : IsFractionSum(g, f, SUBSET S) /\ FractionTotal(f, S) = g[S]
<1> DEFINE Small(n) == {s \in SUBSET S : Cardinality(s) <= n}
           T == {n \in Nat : \E g : IsFractionSum(g, f, Small(n))}
<1>1. \A s \in SUBSET S : IsFiniteSet(s) /\ Cardinality(s) \in Nat /\ (Cardinality(s) = 0 <=> s = {})
  BY FS_Subset, FS_EmptySet, FS_CardinalityType
<1>2. ASSUME NEW s \in SUBSET S, s # {}
      PROVE  /\ Pick(s) \in s /\ s \ {Pick(s)} \in SUBSET S
             /\ Cardinality(s \ {Pick(s)}) = Cardinality(s) - 1
  BY <1>1, <1>2, FS_RemoveElement DEF Pick
<1>3. 0 \in T
  <2>1. \A s \in Small(0) : s = {}
    BY <1>1
  <2>2. IsFractionSum([s \in Small(0) |-> Zero], f, Small(0))
    BY <2>1 DEF IsFractionSum
  <2> QED
    BY <2>2
<1>4. ASSUME NEW n \in T PROVE n + 1 \in T
  <2>1. PICK g : IsFractionSum(g, f, Small(n))
    OBVIOUS
  <2> DEFINE h == [s \in Small(n + 1) |->
                      IF s = {} THEN Zero ELSE Plus(f[Pick(s)], g[s \ {Pick(s)}])]
  <2>2. \A s \in Small(n) : g[s] = IF s = {} THEN Zero ELSE Plus(f[Pick(s)], g[s \ {Pick(s)}])
    BY <2>1 DEF IsFractionSum
  <2>3. \A s \in Small(n) : s \in Small(n + 1) /\ h[s] = g[s]
    <3>1. \A s \in Small(n) : s \in Small(n + 1)
      BY <1>1
    <3> QED
      BY <2>2, <3>1, Zenon
  <2>4. \A s \in Small(n + 1) : s # {} => s \ {Pick(s)} \in Small(n)
    BY <1>1, <1>2
  <2>5. IsFractionSum(h, f, Small(n + 1))
    <3>1. \A s \in Small(n + 1) : s # {} => h[s \ {Pick(s)}] = g[s \ {Pick(s)}]
      BY <2>3, <2>4
    <3> QED
      BY <3>1, Zenon DEF IsFractionSum
  <2>6. n + 1 \in Nat
    OBVIOUS
  <2> HIDE DEF h, Small
  <2> QED
    BY <2>5, <2>6
<1>5. T = Nat
  <2>1. T \subseteq Nat
    OBVIOUS
  <2> HIDE DEF T
  <2> QED BY <1>3, <1>4, <2>1, NaturalsByInduction
<1>6. Small(Cardinality(S)) = SUBSET S
  BY <1>1, FS_Subset
<1>7. \E g : IsFractionSum(g, f, SUBSET S)
  BY <1>1, <1>5, <1>6
<1> DEFINE g == CHOOSE g : IsFractionSum(g, f, SUBSET S)
<1>8. IsFractionSum(g, f, SUBSET S)
  BY <1>7
<1>9. FractionTotal(f, S) = g[S]
  BY DEF FractionTotal, MapThenFoldSet, IsFractionSum, Pick
<1> QED
  BY <1>8, <1>9

\* The sum of fractions of one denominator is that of their numerators.
LEMMA FractionTotalIs ==
    ASSUME NEW f, NEW a, NEW S, IsFiniteSet(S), NEW d \in Nat \ {0},
           \A x \in S : a[x] \in Int /\ Is(f[x], a[x], d)
    PROVE  Is(FractionTotal(f, S), Total(a, S), d) /\ IsReduced(FractionTotal(f, S))
<1>1. PICK g : IsFractionSum(g, f, SUBSET S) /\ FractionTotal(f, S) = g[S]
  BY FractionSumExists
<1> DEFINE Good(s) == Is(g[s], Total(a, s), d) /\ IsReduced(g[s])
           T == {n \in Nat : \A s \in SUBSET S : Cardinality(s) = n => Good(s)}
<1>2. \A s \in SUBSET S : IsFiniteSet(s) /\ Cardinality(s) \in Nat /\ (Cardinality(s) = 0 <=> s = {})
  BY FS_Subset, FS_EmptySet, FS_CardinalityType
<1>3. \A s \in SUBSET S : g[s] = IF s = {} THEN Zero ELSE Plus(f[Pick(s)], g[s \ {Pick(s)}])
  BY <1>1 DEF IsFractionSum
<1>4. 0 \in T
  <2>1. Good({})
    <3>1. g[{}] = Zero /\ Total(a, {}) = 0
      BY <1>3, TotalEmpty
    <3>2. Is(Zero, 0, d)
      BY DEF Is, Zero, Whole
    <3>3. IsReduced(Zero)
      <4>1. Fraction(0 * 1, 1) = Zero /\ 0 * 1 = 0
        BY FractionIsWhole DEF Zero
      <4> QED
        BY <4>1 DEF IsReduced
    <3> QED
      BY <3>1, <3>2, <3>3
  <2> HIDE DEF Good
  <2> QED
    BY <1>2, <2>1
<1>5. ASSUME NEW k \in T PROVE k + 1 \in T
  <2>1. ASSUME NEW s \in SUBSET S, Cardinality(s) = k + 1 PROVE Good(s)
    <3>1. PICK r : r = s \ {Pick(s)}
      OBVIOUS
    <3>2. PICK p : p = Pick(s)
      OBVIOUS
    <3>3. s # {} /\ p \in s
      BY <1>2, <2>1, <3>2 DEF Pick
    <3>4. r \in SUBSET S /\ Cardinality(r) = k
      <4>1. Cardinality(r) = Cardinality(s) - 1
        BY <1>2, <3>1, <3>2, <3>3, FS_RemoveElement
      <4> QED
        BY <2>1, <3>1, <4>1
    <3>5. Is(g[r], Total(a, r), d)
      BY <3>4
    <3>6. g[s] = Plus(f[p], g[r])
      BY <1>3, <3>1, <3>2, <3>3
    <3>7. PICK t \in Int : t = Total(a, r)
      BY <1>2, <3>4, TotalRemove
    <3>8. Total(a, s) = a[p] + t
      <4>1. \A x \in s : a[x] \in Int
        OBVIOUS
      <4>2. Total(a, s) = a[p] + Total(a, s \ {p})
        BY <1>2, <3>3, <4>1, TotalRemove
      <4> QED
        BY <3>1, <3>2, <3>7, <4>2
    <3>9. PICK n \in Int : n = a[p] /\ Is(f[p], n, d)
      BY <3>3
    <3>10. Is(g[r], t, d) /\ d \in Int
      BY <3>5, <3>7
    <3>11. Is(g[s], n * d + t * d, d * d) /\ IsReduced(g[s])
      <4>1. PICK b : b = f[p]
        OBVIOUS
      <4>2. PICK c : c = g[r]
        OBVIOUS
      <4>3. Is(b, n, d) /\ Is(c, t, d)
        BY ONLY <3>9, <3>10, <4>1, <4>2
      <4>4. Is(Plus(b, c), n * d + t * d, d * d)
        BY ONLY <3>10, <4>3, n \in Int, t \in Int, FractionSum
      <4>5. IsReduced(Plus(b, c))
        BY ONLY <4>3, ReducedSum
      <4> QED
        BY ONLY <3>6, <4>1, <4>2, <4>4, <4>5
    <3>12. Is(g[s], n + t, d)
      <4>1. n * d + t * d = (n + t) * d
        OBVIOUS
      <4>2. Is(g[s], (n + t) * d, d * d)
        BY ONLY <3>11, <4>1
      <4>3. n + t \in Int /\ d \in Int /\ d # 0
        OBVIOUS
      <4> QED
        BY ONLY <4>2, <4>3, IsCancel
    <3> QED
      BY <3>8, <3>9, <3>11, <3>12
  <2>2. k + 1 \in Nat
    OBVIOUS
  <2> HIDE DEF Good
  <2> QED
    BY <2>1, <2>2
<1>6. T = Nat
  <2>1. T \subseteq Nat
    OBVIOUS
  <2> HIDE DEF T
  <2> QED BY <1>4, <1>5, <2>1, NaturalsByInduction
<1>7. Good(S)
  <2> HIDE DEF Good
  <2> QED
    BY <1>2, <1>6
<1> QED
  BY <1>1, <1>7

\* A summary s is that of n samples of sum t, and of sum q of their squares.
Sums(s, n, t, q) ==
    s.count = n /\ s.sum = t /\ Moments(s.average, s.m2, n, t, q)

\* What a summary consists of; a range has more.
IsSummary(s) == {"count", "sum", "average", "m2"} \subseteq DOMAIN s

\* One more sample leaves the summary exact.
LEMMA SummarySampleTells ==
    ASSUME NEW s, IsSummary(s), NEW n \in Nat, NEW t \in Int, NEW q \in Int, Sums(s, n, t, q),
           NEW v \in Int, n = 0 => t = 0 /\ q = 0
    PROVE  /\ Sums(SummarySample(s, v), n + 1, t + v, q + v * v)
           /\ DOMAIN SummarySample(s, v) = DOMAIN s
           /\ \A x \in DOMAIN s \ {"count", "sum", "average", "m2"} : SummarySample(s, v)[x] = s[x]
<1> DEFINE r == SummarySample(s, v)
<1>1. PICK delta : delta = Minus(Whole(v), s.average)
  OBVIOUS
<1>2. PICK average : average = Plus(s.average, Over(delta, Whole(n + 1)))
  OBVIOUS
<1>3. PICK m2 : m2 = Plus(s.m2, Times(delta, Minus(Whole(v), average)))
  OBVIOUS
<1>4. r = [s EXCEPT !.count = @ + 1, !.sum = @ + v, !.average = average, !.m2 = m2]
  BY <1>1, <1>2, <1>3 DEF SummarySample, Sums
<1>5. /\ r.count = n + 1 /\ r.sum = t + v /\ r.average = average /\ r.m2 = m2
      /\ DOMAIN r = DOMAIN s
      /\ \A x \in DOMAIN s \ {"count", "sum", "average", "m2"} : r[x] = s[x]
  BY <1>4 DEF Sums, IsSummary
<1>6. Moments(average, m2, n + 1, t + v, q + v * v)
  <2>1. 1 * v = v /\ 1 * (v * v) = v * v /\ 1 \in {-1, 1} /\ n + 1 \in Nat \ {0}
    OBVIOUS
  <2>2. PICK w \in {-1, 1} : w = 1
    OBVIOUS
  <2>3. /\ Moments(s.average, s.m2, n, t, q) /\ n + w \in Nat \ {0}
        /\ delta = Minus(Whole(v), s.average)
        /\ average = Plus(s.average, Over(delta, Whole(n + w)))
    BY <1>1, <1>2, <2>2 DEF Sums
  <2>4. Moments(average, Plus(s.m2, Times(delta, Minus(Whole(v), average))),
                n + w, t + w * v, q + w * (v * v))
    BY <2>2, <2>3, MomentsMove
  <2> QED
    BY ONLY <1>3, <2>1, <2>2, <2>4
<1> HIDE DEF r
<1>7. Sums(r, n + 1, t + v, q + v * v)
  BY <1>5, <1>6 DEF Sums
<1> QED
  BY <1>5, <1>7 DEF r

\* A set of integers that is finite has a least and a greatest element, Min and Max.
LEMMA FiniteBounds ==
    ASSUME NEW S, S \subseteq Int, IsFiniteSet(S), S # {}
    PROVE  /\ Min(S) \in S /\ \A x \in S : Min(S) <= x
           /\ Max(S) \in S /\ \A x \in S : x <= Max(S)
<1> DEFINE Good == {s \in SUBSET S : s # {} => /\ \E m \in s : \A x \in s : m <= x
                                               /\ \E m \in s : \A x \in s : x <= m}
<1>1. {} \in Good
  OBVIOUS
<1>2. ASSUME NEW s \in Good \cap SUBSET S, NEW y \in S \ s PROVE s \cup {y} \in Good
  <2>1. s \subseteq Int /\ y \in Int
    OBVIOUS
  <2>2. CASE s = {}
    <3>1. y <= y
      BY <2>1
    <3> QED
      BY <2>2, <3>1
  <2>3. CASE s # {}
    <3>1. PICK a \in s : \A x \in s : a <= x
      BY <2>3
    <3>2. PICK b \in s : \A x \in s : x <= b
      BY <2>3
    <3>3. \E m \in s \cup {y} : \A x \in s \cup {y} : m <= x
      <4>1. CASE a <= y
        BY <3>1, <4>1
      <4>2. CASE ~(a <= y)
        <5>1. \A x \in s \cup {y} : y <= x
          BY <2>1, <3>1, <4>2
        <5> QED
          BY <5>1
      <4> QED
        BY <4>1, <4>2
    <3>4. \E m \in s \cup {y} : \A x \in s \cup {y} : x <= m
      <4>1. CASE y <= b
        BY <3>2, <4>1
      <4>2. CASE ~(y <= b)
        <5>1. \A x \in s \cup {y} : x <= y
          BY <2>1, <3>2, <4>2
        <5> QED
          BY <5>1
      <4> QED
        BY <4>1, <4>2
    <3> QED
      BY <3>3, <3>4
  <2> QED
    BY <2>2, <2>3
<1>3. S \in Good
  <2> HIDE DEF Good
  <2> QED
    BY <1>1, <1>2, SubsetsByInduction
<1>4. \E m \in S : \A x \in S : m <= x
  BY <1>3
<1>5. \E m \in S : \A x \in S : m >= x
  <2>1. PICK m \in S : \A x \in S : x <= m
    BY <1>3
  <2>2. \A x \in S : m >= x
    BY <2>1
  <2> QED
    BY <2>2
<1>6. Min(S) \in S /\ \A x \in S : Min(S) <= x
  BY <1>4, Zenon DEF Min
<1>7. Max(S) \in S /\ \A x \in S : Max(S) >= x
  BY <1>5, Zenon DEF Max
<1>8. \A x \in S : x <= Max(S)
  <2>1. PICK m : m = Max(S)
    OBVIOUS
  <2> QED
    BY <1>7, <2>1
<1> QED
  BY <1>6, <1>7, <1>8

\* The same of the values of a function on 1 .. n.
LEMMA BoundsFacts ==
    ASSUME NEW n \in Nat, n # 0, NEW f, \A k \in 1 .. n : f[k] \in Int,
           NEW S, S = {f[k] : k \in 1 .. n}
    PROVE  /\ Min(S) \in S /\ \A x \in S : Min(S) <= x
           /\ Max(S) \in S /\ \A x \in S : x <= Max(S)
<1>1. IsFiniteSet(1 .. n)
  BY FS_Interval
<1>2. IsFiniteSet(S)
  <2> DEFINE g == [k \in 1 .. n |-> f[k]]
  <2>1. g \in Surjection(1 .. n, S)
    BY DEF Surjection
  <2> HIDE DEF g
  <2> QED
    BY <1>1, <2>1, FS_Surjection
<1>3. S \subseteq Int /\ S # {}
  <2>1. 1 \in 1 .. n
    OBVIOUS
  <2> QED
    BY <2>1
<1> QED
  BY <1>2, <1>3, FiniteBounds

\* Functions that agree up to n have the same sum.
LEMMA SameTotal ==
    ASSUME NEW n \in Nat, NEW f, NEW g, \A k \in 1 .. n : f[k] \in Int /\ g[k] = f[k]
    PROVE  Total(g, 1 .. n) = Total(f, 1 .. n)
<1>1. PICK S : S = 1 .. n
  OBVIOUS
<1>2. IsFiniteSet(S) /\ \A k \in S : f[k] \in Int /\ g[k] = f[k]
  BY <1>1, FS_Interval
<1>3. Total(g, S) = Total(f, S)
  BY ONLY <1>2, TotalSame
<1> QED
  BY <1>1, <1>3

\* The summary s is that of f[1] .. f[n].
SumsOf(s, f, n) ==
    Sums(s, n, Total(f, 1 .. n), Total([k \in 1 .. n |-> f[k] * f[k]], 1 .. n))

\* The sums behind a summary.
LEMMA SumsFacts ==
    ASSUME NEW n \in Nat, NEW f, \A k \in 1 .. n : f[k] \in Int
    PROVE  /\ Total(f, 1 .. n) \in Int
           /\ Total([k \in 1 .. n |-> f[k] * f[k]], 1 .. n) \in Int
           /\ n = 0 => /\ Total(f, 1 .. n) = 0
                       /\ Total([k \in 1 .. n |-> f[k] * f[k]], 1 .. n) = 0
<1>1. PICK g : g = [k \in 1 .. n |-> f[k] * f[k]]
  OBVIOUS
<1>2. \A k \in 1 .. n : g[k] \in Int
  BY <1>1
<1>3. IsFiniteSet(1 .. n)
  BY FS_Interval
<1>4. n = 0 => 1 .. n = {}
  OBVIOUS
<1> QED
  BY <1>1, <1>2, <1>3, <1>4, TotalRemove, TotalEmpty

\* One more sample makes the summary that of one more.
LEMMA SummaryNext ==
    ASSUME NEW s, IsSummary(s), NEW n \in Nat, NEW f, \A k \in 1 .. n : f[k] \in Int, SumsOf(s, f, n),
           NEW v \in Int, NEW g, \A k \in 1 .. n : g[k] = f[k], g[n + 1] = v
    PROVE  /\ SumsOf(SummarySample(s, v), g, n + 1) /\ IsSummary(SummarySample(s, v))
           /\ DOMAIN SummarySample(s, v) = DOMAIN s
           /\ \A x \in DOMAIN s \ {"count", "sum", "average", "m2"} : SummarySample(s, v)[x] = s[x]
<1>1. PICK f2 : f2 = [k \in 1 .. n |-> f[k] * f[k]]
  OBVIOUS
<1>2. PICK g2 : g2 = [k \in 1 .. n + 1 |-> g[k] * g[k]]
  OBVIOUS
<1>3. PICK t \in Int : t = Total(f, 1 .. n)
  BY SumsFacts
<1>4. PICK q \in Int : q = Total(f2, 1 .. n)
  BY <1>1, SumsFacts
<1>5. n = 0 => t = 0 /\ q = 0
  BY <1>1, <1>3, <1>4, SumsFacts
<1>6. \A k \in 1 .. n + 1 : g[k] \in Int /\ g2[k] \in Int
  <2>1. \A k \in 1 .. n + 1 : k \in 1 .. n \/ k = n + 1
    OBVIOUS
  <2>2. \A k \in 1 .. n + 1 : g[k] \in Int
    BY <2>1
  <2> QED
    BY <1>2, <2>2
<1>7. Total(g, 1 .. n + 1) = t + v
  <2>1. Total(g, 1 .. n) = t
    BY <1>3, SameTotal
  <2> QED
    BY <1>6, <2>1, TotalNext
<1>8. Total(g2, 1 .. n + 1) = q + v * v
  <2>1. n + 1 \in 1 .. n + 1 /\ \A k \in 1 .. n : k \in 1 .. n + 1
    OBVIOUS
  <2>2. \A k \in 1 .. n : f2[k] \in Int /\ g2[k] = f2[k]
    BY <1>1, <1>2, <2>1
  <2>3. Total(g2, 1 .. n) = q
    BY <1>4, <2>2, SameTotal
  <2>4. g2[n + 1] = v * v
    BY <1>2, <2>1
  <2> QED
    BY <1>6, <2>3, <2>4, TotalNext
<1>9. Sums(s, n, t, q)
  BY <1>1, <1>3, <1>4 DEF SumsOf
<1>10. /\ Sums(SummarySample(s, v), n + 1, t + v, q + v * v)
       /\ DOMAIN SummarySample(s, v) = DOMAIN s
       /\ \A x \in DOMAIN s \ {"count", "sum", "average", "m2"} : SummarySample(s, v)[x] = s[x]
  BY <1>5, <1>9, SummarySampleTells
<1>11. SumsOf(SummarySample(s, v), g, n + 1)
  BY <1>2, <1>7, <1>8, <1>10, Zenon DEF SumsOf
<1> QED
  BY <1>10, <1>11 DEF IsSummary

\* A summary without samples.
LEMMA NoSums ==
    ASSUME NEW s, s.count = 0, s.sum = 0, s.average = Zero, s.m2 = Zero, NEW f
    PROVE  SumsOf(s, f, 0)
<1>1. 1 .. 0 = {}
  OBVIOUS
<1>2. \A g : Total(g, 1 .. 0) = 0
  BY <1>1, TotalEmpty
<1> QED
  BY <1>2 DEF SumsOf, Sums, Moments

\* What the figures of a summary multiply to.
LEMMA SumsAreExact ==
    ASSUME NEW s, NEW n \in Nat, NEW f, \A k \in 1 .. n : f[k] \in Int, SumsOf(s, f, n)
    PROVE  /\ s.count = n /\ s.sum = Total(f, 1 .. n)
           /\ Times(s.average, Whole(n)) = Whole(Total(f, 1 .. n))
           /\ Times(s.m2, Whole(n)) =
                Whole(n * Total([k \in 1 .. n |-> f[k] * f[k]], 1 .. n)
                        - Total(f, 1 .. n) * Total(f, 1 .. n))
<1>1. PICK t \in Int : t = Total(f, 1 .. n)
  BY SumsFacts
<1>2. PICK q \in Int : q = Total([k \in 1 .. n |-> f[k] * f[k]], 1 .. n)
  BY SumsFacts
<1>3. n = 0 => t = 0
  BY <1>1, SumsFacts
<1>4. s.count = n /\ s.sum = t /\ Moments(s.average, s.m2, n, t, q)
  BY <1>1, <1>2 DEF SumsOf, Sums
<1>5. Times(Zero, Whole(0)) = Whole(0)
  <2>1. Times(<<0, 1>>, <<0, 1>>) = Fraction(0 * 1, 1)
    BY DEF Times
  <2> QED
    BY <2>1, FractionIsWhole DEF Whole, Zero
<1>6. Times(s.average, Whole(n)) = Whole(t)
  <2>1. CASE n = 0
    BY <1>3, <1>4, <1>5, <2>1 DEF Moments
  <2>2. CASE n # 0
    <3>1. Is(s.average, t, n) /\ n \in Nat \ {0}
      BY <1>4, <2>2 DEF Moments
    <3> QED
      BY <3>1, TimesIsWhole
  <2> QED
    BY <2>1, <2>2
<1>7. Times(s.m2, Whole(n)) = Whole(n * q - t * t)
  <2>1. CASE n = 0
    <3>1. n * q - t * t = 0
      BY <1>3, <2>1
    <3> QED
      BY <1>4, <1>5, <2>1, <3>1 DEF Moments
  <2>2. CASE n # 0
    <3>1. Is(s.m2, n * q - t * t, n) /\ n \in Nat \ {0} /\ n * q - t * t \in Int
      BY <1>4, <2>2 DEF Moments
    <3> QED
      BY <3>1, TimesIsWhole
  <2> QED
    BY <2>1, <2>2
<1> QED
  BY <1>1, <1>2, <1>4, <1>6, <1>7

\* Averages, covariance and variance of n points, and the slope that they give.
AreFitted(n, V, X, Y, C, ax, ay, cov, var, beta) ==
    /\ Is(ax, X, n) /\ Is(ay, Y, n) /\ Is(cov, C, n * n) /\ Is(var, V, n * n)
    /\ beta = Over(cov, var)

\* A least squares line: its slope, what it predicts, and its errors.
LEMMA LineIs ==
    ASSUME NEW n \in Nat \ {0}, NEW V \in Nat \ {0}, NEW X \in Int, NEW Y \in Int, NEW C \in Int,
           NEW ax, NEW ay, NEW cov, NEW var, NEW beta,
           AreFitted(n, V, X, Y, C, ax, ay, cov, var, beta),
           NEW p \in Int, NEW line, line = Plus(Times(beta, Minus(Whole(p), ax)), ay)
    PROVE  /\ Is(beta, C, V)
           /\ Is(line, C * (p * n - X) + Y * V, V * n)
           /\ Is(Minus(ay, Times(ax, beta)), Y * V - X * C, V * n)
           /\ \A r \in Int : /\ Is(Minus(Whole(r), line), V * (n * r - Y) - C * (n * p - X), V * n)
                             /\ IsReduced(Minus(Whole(r), line))
<1>0. /\ Is(ax, X, n) /\ Is(ay, Y, n) /\ Is(cov, C, n * n) /\ Is(var, V, n * n)
      /\ beta = Over(cov, var)
  BY DEF AreFitted
<1>1. PICK m \in Nat \ {0} : m = n * n
  OBVIOUS
<1>2. Is(beta, C, V)
  <2>1. Is(cov, C, m) /\ Is(var, V, m)
    BY <1>0, <1>1
  <2>2. Is(beta, C * m, m * V)
    BY <1>0, <2>1, OverIs
  <2>3. m * V = V * m /\ m \in Int /\ m # 0 /\ V \in Int
    OBVIOUS
  <2>4. Is(beta, C * m, V * m)
    BY ONLY <2>2, <2>3
  <2> QED
    BY ONLY <2>3, <2>4, C \in Int, IsCancel
<1>3. \A z \in Int : Is(Whole(z), z, 1)
  BY DEF Is, Whole
<1>4. n \in Int /\ V \in Int /\ 1 \in Int /\ n # 0
  OBVIOUS
<1>5. PICK l : l = Minus(Whole(p), ax)
  OBVIOUS
<1>6. PICK z \in Int : z = p * n - X
  OBVIOUS
<1>7. Is(l, z, n)
  <2>1. Is(l, p * n - X * 1, 1 * n)
    BY ONLY <1>3, <1>4, <1>5, <1>0, p \in Int, X \in Int, FractionSum
  <2>2. p * n - X * 1 = z /\ 1 * n = n
    BY <1>6
  <2> QED
    BY ONLY <2>1, <2>2
<1>8. PICK t : t = Times(beta, l)
  OBVIOUS
<1>9. Is(t, C * z, V * n)
  BY ONLY <1>2, <1>4, <1>7, <1>8, C \in Int, z \in Int, FractionSum
<1>10. line = Plus(t, ay)
  BY <1>5, <1>8
<1>11. PICK k \in Int : k = C * z + Y * V
  OBVIOUS
<1>12. PICK D \in Nat \ {0} : D = V * n
  OBVIOUS
<1>13. Is(line, k, D)
  <2>1. PICK h \in Int : h = C * z
    OBVIOUS
  <2>2. Is(t, h, D) /\ D \in Int
    BY <1>9, <1>12, <2>1
  <2>3. Is(line, h * n + Y * D, D * n)
    BY ONLY <1>4, <1>10, <2>2, <1>0, h \in Int, Y \in Int, FractionSum
  <2>4. h * n + Y * D = k * n
    <3>1. h * n + Y * (V * n) = (h + Y * V) * n
      OBVIOUS
    <3> QED
      BY ONLY <1>11, <1>12, <2>1, <3>1
  <2>5. Is(line, k * n, D * n)
    BY ONLY <2>3, <2>4
  <2> QED
    BY ONLY <1>4, <2>2, <2>5, k \in Int, IsCancel
<1>14. Is(Minus(ay, Times(ax, beta)), Y * V - X * C, V * n)
  <2>1. PICK y : y = Times(ax, beta)
    OBVIOUS
  <2>2. Is(y, X * C, n * V)
    BY ONLY <1>2, <1>4, <2>1, <1>0, X \in Int, C \in Int, FractionSum
  <2>3. PICK h \in Int : h = X * C
    OBVIOUS
  <2>4. Is(y, h, D) /\ D \in Int
    <3>1. n * V = V * n
      OBVIOUS
    <3> QED
      BY <1>12, <2>2, <2>3, <3>1
  <2>5. Is(Minus(ay, y), Y * D - h * n, n * D)
    BY ONLY <1>4, <2>4, <1>0, h \in Int, Y \in Int, FractionSum
  <2>6. PICK g \in Int : g = Y * V - h
    OBVIOUS
  <2>7. Y * D - h * n = g * n /\ n * D = D * n
    <3>1. Y * (V * n) - h * n = (Y * V - h) * n
      OBVIOUS
    <3>2. n * D = D * n
      OBVIOUS
    <3> QED
      BY ONLY <1>12, <2>6, <3>1, <3>2
  <2>8. Is(Minus(ay, y), g * n, D * n)
    BY ONLY <2>5, <2>7
  <2>9. Is(Minus(ay, y), g, D)
    BY ONLY <1>4, <2>4, <2>8, g \in Int, IsCancel
  <2> QED
    BY <1>12, <2>1, <2>3, <2>6, <2>9
<1>15. ASSUME NEW r \in Int
       PROVE  /\ Is(Minus(Whole(r), line), V * (n * r - Y) - C * (n * p - X), V * n)
              /\ IsReduced(Minus(Whole(r), line))
  <2>1. Is(Whole(r), r, 1) /\ D \in Int
    BY <1>3
  <2>2. /\ Is(Minus(Whole(r), line), r * D - k * 1, 1 * D)
        /\ IsReduced(Minus(Whole(r), line))
    BY ONLY <1>4, <1>13, <2>1, r \in Int, k \in Int, FractionSum, ReducedSum
  <2>3. r * D - k * 1 = V * (n * r - Y) - C * (n * p - X) /\ 1 * D = D
    <3>1. r * (V * n) - (C * (p * n - X) + Y * V) = V * (n * r - Y) - C * (n * p - X)
      BY ONLY V \in Int, n \in Int, X \in Int, Y \in Int, C \in Int, r \in Int, p \in Int, <1>4
    <3>2. k * 1 = k /\ 1 * D = D
      OBVIOUS
    <3> QED
      BY ONLY <1>6, <1>11, <1>12, <3>1, <3>2
  <2> QED
    BY ONLY <1>12, <2>2, <2>3
<1> QED
  BY <1>2, <1>6, <1>11, <1>12, <1>13, <1>14, <1>15

\* The variance of a summary.
LEMMA VarianceIs ==
    ASSUME NEW s, NEW n \in Nat, n >= 2, NEW f, IsIntegers(f, n), SumsOf(s, f, n),
           NEW X \in Int, X = Total(f, 1 .. n),
           NEW V \in Int, V = n * Total([k \in 1 .. n |-> f[k] * f[k]], 1 .. n) - X * X
    PROVE  Is(s.average, X, n) /\ Is(Variance(s), V, n * n) /\ IsReduced(Variance(s))
<1>1. PICK q : q = Total([k \in 1 .. n |-> f[k] * f[k]], 1 .. n)
  OBVIOUS
<1>2. Sums(s, n, X, q) /\ V = n * q - X * X
  BY <1>1 DEF SumsOf
<1>3. s.count = n /\ Is(s.average, X, n) /\ Is(s.m2, V, n)
  BY <1>2 DEF Sums, Moments
<1>4. Variance(s) = Over(s.m2, Whole(n))
  BY <1>3 DEF Variance
<1>5. Is(Whole(n), n, 1) /\ n \in Nat \ {0} /\ 1 \in Nat \ {0}
  BY DEF Is, Whole
<1>6. Is(Over(s.m2, Whole(n)), V * 1, n * n) /\ IsReduced(Over(s.m2, Whole(n)))
  BY ONLY <1>3, <1>5, V \in Int, OverIs
<1>7. V * 1 = V
  OBVIOUS
<1> QED
  BY <1>3, <1>4, <1>6, <1>7

\* A covariance, and the square of a correlation.
LEMMA CovarianceIs ==
    ASSUME NEW n \in Nat \ {0}, NEW X \in Int, NEW Y \in Int, NEW P \in Int,
           NEW ax, NEW ay, NEW axy, Is(ax, X, n), Is(ay, Y, n), Is(axy, P, n),
           NEW C \in Int, C = n * P - X * Y
    PROVE  Is(Minus(axy, Times(ax, ay)), C, n * n)
<1>1. PICK t : t = Times(ax, ay)
  OBVIOUS
<1>2. PICK m \in Nat \ {0} : m = n * n
  OBVIOUS
<1>3. PICK h \in Int : h = X * Y
  OBVIOUS
<1>4. n \in Int /\ m \in Int /\ n # 0
  OBVIOUS
<1>5. Is(t, X * Y, n * n)
  BY ONLY <1>1, <1>4, Is(ax, X, n), Is(ay, Y, n), X \in Int, Y \in Int, FractionSum
<1>6. Is(t, h, m)
  BY ONLY <1>2, <1>3, <1>5
<1>7. Is(Minus(axy, t), P * m - h * n, n * m)
  BY ONLY <1>4, <1>6, Is(axy, P, n), P \in Int, h \in Int, FractionSum
<1>8. P * m - h * n = C * n /\ n * m = m * n
  <2>1. P * (n * n) - h * n = (n * P - h) * n /\ n * m = m * n
    OBVIOUS
  <2> QED
    BY ONLY <1>2, <1>3, <2>1, C = n * P - X * Y
<1>9. Is(Minus(axy, t), C * n, m * n)
  BY ONLY <1>7, <1>8
<1>10. Is(Minus(axy, t), C, m)
  BY ONLY <1>4, <1>9, C \in Int, IsCancel
<1> QED
  BY <1>1, <1>2, <1>10

\* The square of a correlation.
LEMMA CorrelationIs ==
    ASSUME NEW n \in Nat \ {0}, NEW V \in Nat \ {0}, NEW W \in Nat \ {0}, NEW C \in Int,
           NEW cov, NEW vx, NEW vy, Is(cov, C, n * n), Is(vx, V, n * n), Is(vy, W, n * n)
    PROVE  /\ Is(Over(Times(cov, cov), Times(vx, vy)), C * C, V * W)
           /\ IsReduced(Over(Times(cov, cov), Times(vx, vy)))
<1>1. PICK m \in Nat \ {0} : m = n * n
  OBVIOUS
<1>2. PICK N \in Nat \ {0} : N = m * m
  OBVIOUS
<1>3. PICK h \in Int : h = C * C
  OBVIOUS
<1>4. PICK U \in Nat \ {0} : U = V * W
  OBVIOUS
<1>5. PICK f : f = Times(cov, cov)
  OBVIOUS
<1>6. PICK g : g = Times(vx, vy)
  OBVIOUS
<1>7. m \in Int /\ V \in Int /\ W \in Int /\ N \in Int /\ U \in Int /\ N # 0
  OBVIOUS
<1>8. Is(cov, C, m) /\ Is(vx, V, m) /\ Is(vy, W, m)
  BY <1>1
<1>9. Is(f, C * C, m * m) /\ Is(g, V * W, m * m)
  BY ONLY <1>5, <1>6, <1>7, <1>8, C \in Int, FractionSum
<1>10. Is(f, h, N) /\ Is(g, U, N)
  BY ONLY <1>2, <1>3, <1>4, <1>9
<1>11. Is(Over(f, g), h * N, N * U) /\ IsReduced(Over(f, g))
  BY <1>10, OverIs
<1>12. N * U = U * N
  OBVIOUS
<1>13. Is(Over(f, g), h * N, U * N)
  BY ONLY <1>11, <1>12
<1>14. Is(Over(f, g), h, U)
  BY ONLY <1>7, <1>13, h \in Int, IsCancel
<1> QED
  BY <1>3, <1>4, <1>5, <1>6, <1>11, <1>14

\* A fraction is compared to a whole number by its numerator.
LEMMA IsAtMost ==
    ASSUME NEW f, NEW n \in Int, NEW d \in Nat \ {0}, Is(f, n, d), NEW t \in Int
    PROVE  /\ AtMost(f, Whole(t)) <=> n <= t * d
           /\ AtMost(Whole(t), f) <=> t * d <= n
<1>1. PICK a \in Int : a = f[1]
  BY DEF Is
<1>2. PICK b \in Nat \ {0} : b = f[2]
  BY DEF Is
<1>3. a * d = n * b
  BY <1>1, <1>2 DEF Is
<1>4. /\ AtMost(f, Whole(t)) <=> a * 1 <= t * b
      /\ AtMost(Whole(t), f) <=> t * b <= a * 1
  BY <1>1, <1>2 DEF AtMost, Whole
<1>5. PICK y \in Int : y = a - t * b
  OBVIOUS
<1>6. PICK z \in Int : z = n - t * d
  OBVIOUS
<1>7. y * d = z * b
  <2>1. (a - t * b) * d = a * d - t * (b * d) /\ (n - t * d) * b = n * b - t * (b * d)
    OBVIOUS
  <2> QED
    BY ONLY <1>3, <1>5, <1>6, <2>1
<1>8. (y <= 0 <=> z <= 0) /\ (y >= 0 <=> z >= 0)
  <2>1. (y > 0 => y * d > 0) /\ (y < 0 => y * d < 0) /\ (y = 0 => y * d = 0)
    OBVIOUS
  <2>2. (z > 0 => z * b > 0) /\ (z < 0 => z * b < 0) /\ (z = 0 => z * b = 0)
    OBVIOUS
  <2> QED
    BY <1>7, <2>1, <2>2
<1>9. a * 1 <= t * b <=> y <= 0
  BY <1>5
<1>10. t * b <= a * 1 <=> y >= 0
  BY <1>5
<1>11. n <= t * d <=> z <= 0
  BY <1>6
<1>12. t * d <= n <=> z >= 0
  BY <1>6
<1> QED
  BY <1>4, <1>8, <1>9, <1>10, <1>11, <1>12

-----------------------------------------------------------------------------
(***************************************************************************)
(* The invariant: what is sampled, and the figures that are sums.          *)
(***************************************************************************)
\* The coordinates of samples that are pairs, and their products.
First == [k \in Places |-> sampled[k][1]]
Second == [k \in Places |-> sampled[k][2]]
Products == [k \in Places |-> sampled[k][1] * sampled[k][2]]

\* A range is the summary of the samples, and is bounded by two of them.
RangeInv ==
    figure = "range" =>
        /\ IsIntegers(sampled, Len(sampled))
        /\ IsSummary(range) /\ {"min", "max"} \subseteq DOMAIN range
        /\ SumsOf(range, sampled, Len(sampled))
        /\ sampled # <<>> =>
             /\ \E k \in Places : sampled[k] = range.min
             /\ \E k \in Places : sampled[k] = range.max
             /\ \A k \in Places : range.min <= sampled[k] /\ sampled[k] <= range.max

\* A regression has the summaries of both coordinates, and of their products.
RegressionInv ==
    figure = "regression" =>
        /\ \A k \in Places : sampled[k][1] \in Int /\ sampled[k][2] \in Int
        /\ DOMAIN regression = {"x", "y", "xy"}
        /\ IsSummary(regression.x) /\ SumsOf(regression.x, First, Len(sampled))
        /\ IsSummary(regression.y) /\ SumsOf(regression.y, Second, Len(sampled))
        /\ IsSummary(regression.xy) /\ SumsOf(regression.xy, Products, Len(sampled))

\* The line and the correlation that a regression gives are those of least squares.
LEMMA LineIsExact ==
    ASSUME Len(sampled) \in Nat, RegressionInv, figure = "regression"
    PROVE  RegressionIsExact
<1>1. PICK n \in Nat : n = Len(sampled)
  OBVIOUS
<1>2. Places = 1 .. n
  BY <1>1 DEF Places
<1>3. PICK x : x = First
  OBVIOUS
<1>4. PICK y : y = Second
  OBVIOUS
<1>5. PICK xy : xy = Products
  OBVIOUS
<1>6. \A k \in 1 .. n : /\ sampled[k][1] \in Int /\ sampled[k][2] \in Int
                        /\ x[k] = sampled[k][1] /\ y[k] = sampled[k][2] /\ xy[k] = x[k] * y[k]
  BY <1>2, <1>3, <1>4, <1>5 DEF RegressionInv, First, Second, Products
<1>7. /\ IsIntegers(x, n) /\ IsIntegers(y, n) /\ IsProduct(xy, x, y, n) /\ IsIntegers(xy, n)
  <2>1. IsIntegers(x, n) /\ IsIntegers(y, n) /\ IsProduct(xy, x, y, n)
    BY <1>6 DEF IsIntegers, IsProduct
  <2> QED
    BY <2>1, ProductIsInteger
<1>8. /\ SumsOf(regression.x, x, n) /\ SumsOf(regression.y, y, n)
      /\ SumsOf(regression.xy, xy, n)
  BY <1>1, <1>3, <1>4, <1>5 DEF RegressionInv
<1>9. PICK X \in Int : X = Total(x, 1 .. n)
  BY <1>7, TotalIsInteger
<1>10. PICK Y \in Int : Y = Total(y, 1 .. n)
  BY <1>7, TotalIsInteger
<1>11. PICK P \in Int : P = Total(xy, 1 .. n)
  BY <1>7, TotalIsInteger
<1>12. PICK XX \in Int : XX = Total([k \in 1 .. n |-> x[k] * x[k]], 1 .. n)
  BY <1>7, SumsFacts DEF IsIntegers
<1>13. PICK YY \in Int : YY = Total([k \in 1 .. n |-> y[k] * y[k]], 1 .. n)
  BY <1>7, SumsFacts DEF IsIntegers
<1>14. PICK V \in Int : V = n * XX - X * X
  OBVIOUS
<1>15. PICK W \in Int : W = n * YY - Y * Y
  OBVIOUS
<1>16. PICK C \in Int : C = n * P - X * Y
  OBVIOUS
<1>17. AreMoments(x, y, n, X, Y, V, W, C)
  <2>1. xy = [k \in 1 .. n |-> x[k] * y[k]]
    BY <1>2, <1>5, <1>6 DEF Products
  <2> QED
    BY <1>7, <1>9, <1>10, <1>11, <1>12, <1>13, <1>14, <1>15, <1>16, <2>1 DEF AreMoments
<1>18. SUFFICES ASSUME HasBeta PROVE RegressionIsExact
  BY DEF RegressionIsExact, HasCorrelation
<1>19. n >= 2 /\ n \in Nat \ {0}
  BY <1>8, <1>18 DEF HasBeta, SumsOf, Sums
<1>20. PICK vx : vx = Variance(regression.x)
  OBVIOUS
<1>21. PICK vy : vy = Variance(regression.y)
  OBVIOUS
<1>22. PICK ax : ax = regression.x.average
  OBVIOUS
<1>23. PICK ay : ay = regression.y.average
  OBVIOUS
<1>24. PICK cov : cov = Covariance
  OBVIOUS
<1>25. Is(ax, X, n) /\ Is(vx, V, n * n) /\ IsReduced(vx)
  BY <1>7, <1>8, <1>9, <1>12, <1>14, <1>19, <1>20, <1>22, VarianceIs
<1>26. Is(ay, Y, n) /\ Is(vy, W, n * n) /\ IsReduced(vy)
  BY <1>7, <1>8, <1>10, <1>13, <1>15, <1>19, <1>21, <1>23, VarianceIs
<1>27. Is(cov, C, n * n)
  <2>1. Is(regression.xy.average, P, n)
    BY <1>8, <1>11, <1>19 DEF SumsOf, Sums, Moments
  <2>2. cov = Minus(regression.xy.average, Times(ax, ay))
    BY <1>22, <1>23, <1>24 DEF Covariance
  <2> QED
    BY <1>16, <1>19, <1>25, <1>26, <2>1, <2>2, CovarianceIs
<1>28. /\ V >= 0 /\ W >= 0
       /\ V > 0 => \A e : IsErrors(e, x, y, n, X, Y, V, C) =>
            /\ C * C <= V * W
            /\ C * C = V * W <=> \A k \in 1 .. n : e[k] = 0
  BY ONLY <1>17, <1>19, X \in Int, Y \in Int, V \in Int, W \in Int, C \in Int, ErrorsAreSquared
<1>29. PICK m \in Nat \ {0} : m = n * n
  BY <1>19
<1>30. V \in Nat \ {0}
  <2>1. vx # Zero
    BY <1>18, <1>20 DEF HasBeta
  <2>2. vx = Whole(0) <=> V = 0 * m
    BY <1>25, <1>29, ReducedIsWhole
  <2> QED
    BY <1>28, <2>1, <2>2 DEF Zero
<1>31. PICK beta : beta = Over(cov, vx)
  OBVIOUS
<1>32. Beta = beta
  BY <1>20, <1>24, <1>31 DEF Beta
<1>33. PICK D \in Nat \ {0} : D = V * n
  BY <1>19, <1>30
<1>34. ASSUME NEW p \in Int
       PROVE  /\ Is(Predict(p), C * (p * n - X) + Y * V, D)
              /\ Is(Intercept, Y * V - X * C, D)
              /\ \A r \in Int :
                   /\ Is(Minus(Whole(r), Predict(p)), V * (n * r - Y) - C * (n * p - X), D)
                   /\ IsReduced(Minus(Whole(r), Predict(p)))
  <2>1. PICK line : line = Plus(Times(beta, Minus(Whole(p), ax)), ay)
    OBVIOUS
  <2>2. Predict(p) = line
    BY <1>22, <1>23, <1>32, <2>1 DEF Predict
  <2>3. Intercept = Minus(ay, Times(ax, beta))
    BY <1>22, <1>23, <1>32 DEF Intercept
  <2>4. /\ Is(line, C * (p * n - X) + Y * V, V * n)
        /\ Is(Minus(ay, Times(ax, beta)), Y * V - X * C, V * n)
        /\ \A r \in Int : /\ Is(Minus(Whole(r), line), V * (n * r - Y) - C * (n * p - X), V * n)
                          /\ IsReduced(Minus(Whole(r), line))
    <3>1. AreFitted(n, V, X, Y, C, ax, ay, cov, vx, beta)
      BY <1>25, <1>26, <1>27, <1>31 DEF AreFitted
    <3> QED
      BY ONLY <1>19, <1>30, <2>1, <3>1, X \in Int, Y \in Int, C \in Int, p \in Int, LineIs
  <2> QED
    BY <1>33, <2>2, <2>3, <2>4
<1>35. PICK e : e = [k \in 1 .. n |-> V * (n * y[k] - Y) - C * (n * x[k] - X)]
  OBVIOUS
<1>36. IsErrors(e, x, y, n, X, Y, V, C)
  BY <1>35 DEF IsErrors
<1>37. PICK xe : xe = [k \in 1 .. n |-> x[k] * e[k]]
  OBVIOUS
<1>38. IsProduct(xe, x, e, n)
  BY <1>37 DEF IsProduct
<1>39. /\ IsIntegers(e, n) /\ IsIntegers(xe, n)
       /\ Total(e, 1 .. n) = 0 /\ Total(xe, 1 .. n) = 0
  <2>1. n \in Nat
    OBVIOUS
  <2> QED
    BY ONLY <1>17, <1>36, <1>38, <2>1, X \in Int, Y \in Int, V \in Int, W \in Int, C \in Int,
            ErrorsCancel
<1>40. \A k \in 1 .. n : Is(ErrorAt(k), e[k], D) /\ IsReduced(ErrorAt(k)) /\ e[k] \in Int
  <2> TAKE k \in 1 .. n
  <2>1. PICK p \in Int : p = x[k]
    BY <1>6
  <2>2. PICK r \in Int : r = y[k]
    BY <1>6
  <2>3. ErrorAt(k) = Minus(Whole(r), Predict(p))
    BY <1>6, <2>1, <2>2 DEF ErrorAt
  <2>4. e[k] = V * (n * r - Y) - C * (n * p - X)
    BY <1>35, <2>1, <2>2
  <2> QED
    BY <1>34, <1>39, <2>3, <2>4 DEF IsIntegers
<1>41. IsFiniteSet(1 .. n)
  BY FS_Interval
<1>42. FractionTotal([k \in Places |-> ErrorAt(k)], Places) = Zero
  <2>1. PICK f : f = [k \in 1 .. n |-> ErrorAt(k)]
    OBVIOUS
  <2>2. \A k \in 1 .. n : e[k] \in Int /\ Is(f[k], e[k], D)
    BY <1>40, <2>1
  <2>3. Is(FractionTotal(f, 1 .. n), 0, D) /\ IsReduced(FractionTotal(f, 1 .. n))
    <3>1. PICK S : S = 1 .. n
      OBVIOUS
    <3>2. Is(FractionTotal(f, S), Total(e, S), D) /\ IsReduced(FractionTotal(f, S))
      BY <1>41, <2>2, <3>1, FractionTotalIs
    <3> QED
      BY <1>39, <3>1, <3>2
  <2>4. FractionTotal(f, 1 .. n) = Whole(0)
    <3>1. 0 = 0 * D
      OBVIOUS
    <3> QED
      BY <2>3, <3>1, ReducedIsWhole
  <2> QED
    BY <1>2, <2>1, <2>4 DEF Zero
<1>43. FractionTotal([k \in Places |-> Times(Whole(sampled[k][1]), ErrorAt(k))], Places) = Zero
  <2>1. PICK f : f = [k \in 1 .. n |-> Times(Whole(sampled[k][1]), ErrorAt(k))]
    OBVIOUS
  <2>2. \A k \in 1 .. n : xe[k] \in Int /\ Is(f[k], xe[k], D)
    <3> TAKE k \in 1 .. n
    <3>1. PICK p \in Int : p = x[k]
      BY <1>6
    <3>2. PICK r \in Int : r = e[k]
      BY <1>40
    <3>3. PICK g : g = ErrorAt(k)
      OBVIOUS
    <3>4. Is(Whole(p), p, 1) /\ 1 \in Int /\ D \in Int
      BY DEF Is, Whole
    <3>5. Is(g, r, D)
      BY <1>40, <3>2, <3>3
    <3>6. Is(Times(Whole(p), g), p * r, 1 * D)
      BY ONLY <3>4, <3>5, p \in Int, r \in Int, FractionSum
    <3>7. f[k] = Times(Whole(p), g) /\ xe[k] = p * r /\ 1 * D = D /\ p * r \in Int
      <4>1. f[k] = Times(Whole(sampled[k][1]), ErrorAt(k)) /\ x[k] = sampled[k][1]
        BY <1>6, <2>1
      <4>2. xe[k] = p * r
        BY <1>37, <3>1, <3>2
      <4>3. p * r \in Int /\ 1 * D = D
        OBVIOUS
      <4> QED
        BY ONLY <3>1, <3>3, <4>1, <4>2, <4>3
    <3> QED
      BY ONLY <3>6, <3>7
  <2>3. Is(FractionTotal(f, 1 .. n), 0, D) /\ IsReduced(FractionTotal(f, 1 .. n))
    <3>1. PICK S : S = 1 .. n
      OBVIOUS
    <3>2. Is(FractionTotal(f, S), Total(xe, S), D) /\ IsReduced(FractionTotal(f, S))
      BY <1>41, <2>2, <3>1, FractionTotalIs
    <3> QED
      BY <1>39, <3>1, <3>2
  <2>4. FractionTotal(f, 1 .. n) = Whole(0)
    <3>1. 0 = 0 * D
      OBVIOUS
    <3> QED
      BY <2>3, <3>1, ReducedIsWhole
  <2> QED
    BY <1>2, <2>1, <2>4 DEF Zero
<1>44. Equals(Intercept, Predict(0))
  <2>1. PICK h \in Int : h = Y * V - X * C
    OBVIOUS
  <2>2. C * (0 * n - X) + Y * V = h
    BY <2>1
  <2>3. Is(Intercept, h, D) /\ Is(Predict(0), h, D)
    BY <1>34, <2>1, <2>2
  <2> QED
    BY <2>3, IsEqual
<1>45. ASSUME HasCorrelation
       PROVE  /\ AtMost(Correlation2, Whole(1))
              /\ Correlation2 = Whole(1) <=> \A k \in Places : ErrorAt(k) = Zero
  <2>1. W \in Nat \ {0}
    <3>1. vy # Zero
      BY <1>21, <1>45 DEF HasCorrelation
    <3>2. vy = Whole(0) <=> W = 0 * m
      BY <1>26, <1>29, ReducedIsWhole
    <3> QED
      BY <1>28, <3>1, <3>2 DEF Zero
  <2>2. PICK corr : corr = Over(Times(cov, cov), Times(vx, vy))
    OBVIOUS
  <2>3. Correlation2 = corr
    BY <1>20, <1>21, <1>24, <2>2 DEF Correlation2
  <2>4. Is(corr, C * C, V * W) /\ IsReduced(corr)
    BY ONLY <1>19, <1>25, <1>26, <1>27, <1>30, <2>1, <2>2, C \in Int, CorrelationIs
  <2>5. PICK c \in Int : c = C * C
    OBVIOUS
  <2>6. PICK u \in Nat \ {0} : u = V * W
    BY <1>30, <2>1
  <2>7. c <= u /\ (c = u <=> \A k \in 1 .. n : e[k] = 0)
    BY <1>28, <1>30, <1>36, <2>5, <2>6
  <2>8. Is(corr, c, u)
    BY <2>4, <2>5, <2>6
  <2>9. AtMost(corr, Whole(1)) <=> c <= 1 * u
    BY <2>8, IsAtMost
  <2>10. corr = Whole(1) <=> c = 1 * u
    BY <2>4, <2>8, ReducedIsWhole
  <2>11. 1 * u = u
    OBVIOUS
  <2>12. \A k \in 1 .. n : ErrorAt(k) = Zero <=> e[k] = 0
    <3> TAKE k \in 1 .. n
    <3>1. PICK r \in Int : r = e[k]
      BY <1>40
    <3>2. Is(ErrorAt(k), r, D) /\ IsReduced(ErrorAt(k))
      BY <1>40, <3>1
    <3>3. ErrorAt(k) = Whole(0) <=> r = 0 * D
      BY <3>2, ReducedIsWhole
    <3>4. 0 * D = 0
      OBVIOUS
    <3> QED
      BY <3>1, <3>3, <3>4 DEF Zero
  <2> QED
    BY <1>2, <2>3, <2>7, <2>9, <2>10, <2>11, <2>12
<1> QED
  BY <1>42, <1>43, <1>44, <1>45 DEF RegressionIsExact

-----------------------------------------------------------------------------
(***************************************************************************)
(* Averages are within any bounds of the samples.                          *)
(***************************************************************************)
\* A number, and not None.
IsNumber(x) == \E a \in Int : \E b \in Nat \ {0} : x = <<a, b>>

\* Numbers are fractions, and fractions are numbers.
LEMMA NumberFacts ==
    ASSUME NEW x
    PROVE  /\ IsNumber(x) => x # None /\ x[1] \in Int /\ x[2] \in Nat \ {0} /\ Is(x, x[1], x[2])
           /\ IsReduced(x) => IsNumber(x)
<1>1. ASSUME IsNumber(x) PROVE x # None /\ x[1] \in Int /\ x[2] \in Nat \ {0} /\ Is(x, x[1], x[2])
  <2>1. PICK a \in Int, b \in Nat \ {0} : x = <<a, b>>
    BY <1>1 DEF IsNumber
  <2>2. x # None
    BY <2>1 DEF None
  <2>3. x[1] = a /\ x[2] = b
    BY <2>1
  <2> QED
    BY <2>2, <2>3 DEF Is
<1>2. ASSUME IsReduced(x) PROVE IsNumber(x)
  <2>1. PICK p \in Int, q \in Nat \ {0} : x = Fraction(p, q)
    BY <1>2 DEF IsReduced
  <2>2. Is(x, p, q)
    BY <2>1, FractionIs
  <2>3. \E a, b : x = <<a, b>>
    BY <2>1, Zenon DEF Fraction
  <2>4. PICK a, b : x = <<a, b>>
    BY <2>3
  <2>5. x[1] = a /\ x[2] = b
    BY <2>4
  <2> QED
    BY <2>2, <2>4, <2>5 DEF Is, IsNumber
<1> QED
  BY <1>1, <1>2

\* A whole number.
LEMMA WholeIsNumber ==
    ASSUME NEW x \in Int
    PROVE  IsNumber(Whole(x)) /\ Is(Whole(x), x, 1)
<1>1. Whole(x) = <<x, 1>> /\ 1 \in Nat \ {0}
  BY DEF Whole
<1>2. IsNumber(Whole(x))
  BY <1>1 DEF IsNumber
<1> QED
  BY <1>2 DEF Is, Whole

\* An average of what is old and a new sample.
LEMMA MixIs ==
    ASSUME NEW share, NEW s \in Int, NEW d \in Nat \ {0}, Is(share, s, d),
           NEW old, NEW o \in Int, NEW p \in Nat \ {0}, Is(old, o, p), NEW x \in Int
    PROVE  /\ Is(Mix(share, Whole(x), old), (d - s) * o + (s * x) * p, d * p)
           /\ IsReduced(Mix(share, Whole(x), old))
<1>1. Is(Whole(1), 1, 1) /\ Is(Whole(x), x, 1)
  BY WholeIsNumber
<1>2. 1 \in Int /\ d \in Int /\ p \in Int /\ d # 0
  OBVIOUS
<1>3. PICK left : left = Minus(Whole(1), share)
  OBVIOUS
<1>4. PICK r \in Int : r = d - s
  OBVIOUS
<1>5. Is(left, r, d)
  <2>1. Is(left, 1 * d - s * 1, 1 * d)
    BY ONLY <1>1, <1>2, <1>3, Is(share, s, d), s \in Int, FractionSum
  <2>2. 1 * d - s * 1 = r /\ 1 * d = d
    BY <1>4
  <2> QED
    BY ONLY <2>1, <2>2
<1>6. PICK f : f = Times(left, old)
  OBVIOUS
<1>7. Is(f, r * o, d * p)
  BY ONLY <1>2, <1>5, <1>6, Is(old, o, p), r \in Int, o \in Int, FractionSum
<1>8. PICK g : g = Times(share, Whole(x))
  OBVIOUS
<1>9. Is(g, s * x, d)
  <2>1. Is(g, s * x, d * 1)
    BY ONLY <1>1, <1>2, <1>8, Is(share, s, d), s \in Int, x \in Int, FractionSum
  <2>2. d * 1 = d
    OBVIOUS
  <2> QED
    BY ONLY <2>1, <2>2
<1>10. PICK a \in Int : a = r * o
  OBVIOUS
<1>11. PICK b \in Int : b = s * x
  OBVIOUS
<1>12. PICK e \in Int : e = d * p
  OBVIOUS
<1>13. Is(f, a, e) /\ Is(g, b, d)
  BY <1>7, <1>9, <1>10, <1>11, <1>12
<1>14. Is(Plus(f, g), a * d + b * e, e * d) /\ IsReduced(Plus(f, g))
  BY ONLY <1>2, <1>13, a \in Int, b \in Int, e \in Int, FractionSum, ReducedSum
<1>15. PICK c \in Int : c = a + b * p
  OBVIOUS
<1>16. a * d + b * e = c * d
  <2>1. a * d + b * (d * p) = (a + b * p) * d
    OBVIOUS
  <2> QED
    BY ONLY <1>12, <1>15, <2>1
<1>17. Is(Plus(f, g), c * d, e * d)
  BY ONLY <1>14, <1>16
<1>18. Is(Plus(f, g), c, e)
  BY ONLY <1>2, <1>17, c \in Int, e \in Int, IsCancel
<1>19. Mix(share, Whole(x), old) = Plus(f, g)
  BY <1>3, <1>6, <1>8 DEF Mix
<1> QED
  BY <1>4, <1>10, <1>11, <1>12, <1>14, <1>15, <1>18, <1>19

\* x is not below lo and not above hi.
Lies(x, lo, hi) == AtMost(Whole(lo), x) /\ AtMost(x, Whole(hi))

\* An average of what is within bounds is.
LEMMA MixLies ==
    ASSUME NEW share, NEW s \in Nat, NEW d \in Nat \ {0}, s <= d, Is(share, s, d),
           NEW old, IsNumber(old), NEW x \in Int, NEW lo \in Int, NEW hi \in Int,
           Lies(old, lo, hi), lo <= x, x <= hi
    PROVE  Lies(Mix(share, Whole(x), old), lo, hi)
<1>1. PICK o \in Int : o = old[1]
  BY NumberFacts
<1>2. PICK p \in Nat \ {0} : p = old[2]
  BY NumberFacts
<1>3. Is(old, o, p)
  BY <1>1, <1>2, NumberFacts
<1>4. lo * p <= o /\ o <= hi * p
  BY <1>3, IsAtMost DEF Lies
<1>5. PICK m : m = Mix(share, Whole(x), old)
  OBVIOUS
<1>6. PICK N \in Int : N = (d - s) * o + (s * x) * p
  OBVIOUS
<1>7. PICK D \in Nat \ {0} : D = d * p
  OBVIOUS
<1>8. Is(m, N, D)
  BY <1>3, <1>5, <1>6, <1>7, MixIs
<1>9. \A a, b \in Nat : \A y, z \in Int : y <= z => a * y <= a * z
  OBVIOUS
<1>10. PICK r \in Nat : r = d - s
  OBVIOUS
<1>11. PICK k \in Nat : k = s * p
  OBVIOUS
<1>12. N = r * o + k * x
  <2>1. (s * x) * p = (s * p) * x
    OBVIOUS
  <2> QED
    BY ONLY <1>6, <1>10, <1>11, <2>1
<1>13. \A t \in Int : t * D = r * (t * p) + k * t
  <2> TAKE t \in Int
  <2>1. t * (d * p) = (d - s) * (t * p) + (s * p) * t
    OBVIOUS
  <2> QED
    BY ONLY <1>7, <1>10, <1>11, <2>1
<1>14. lo * D <= N
  <2>1. PICK z \in Int : z = lo * p
    OBVIOUS
  <2>2. z <= o
    BY <1>4, <2>1
  <2>3. r * z <= r * o /\ k * lo <= k * x
    BY <1>9, <2>2
  <2>4. lo * D = r * z + k * lo
    BY <1>13, <2>1
  <2>5. r * z \in Int /\ r * o \in Int /\ k * lo \in Int /\ k * x \in Int
    OBVIOUS
  <2> QED
    BY ONLY <1>12, <2>3, <2>4, <2>5
<1>15. N <= hi * D
  <2>1. PICK z \in Int : z = hi * p
    OBVIOUS
  <2>2. o <= z
    BY <1>4, <2>1
  <2>3. r * o <= r * z /\ k * x <= k * hi
    BY <1>9, <2>2
  <2>4. hi * D = r * z + k * hi
    BY <1>13, <2>1
  <2>5. r * z \in Int /\ r * o \in Int /\ k * hi \in Int /\ k * x \in Int
    OBVIOUS
  <2> QED
    BY ONLY <1>12, <2>3, <2>4, <2>5
<1> QED
  BY <1>5, <1>8, <1>14, <1>15, IsAtMost DEF Lies

\* x lies between any bounds of f[1] .. f[n].
IsWithin(x, f, n) ==
    /\ IsNumber(x)
    /\ \A lo, hi \in Int : (\A k \in 1 .. n : lo <= f[k] /\ f[k] <= hi) => Lies(x, lo, hi)

\* The first sample.
LEMMA WithinFirst ==
    ASSUME NEW x \in Int, NEW f, f[1] = x
    PROVE  IsWithin(Whole(x), f, 1)
<1>1. IsNumber(Whole(x)) /\ Is(Whole(x), x, 1)
  BY WholeIsNumber
<1>2. ASSUME NEW lo \in Int, NEW hi \in Int, \A k \in 1 .. 1 : lo <= f[k] /\ f[k] <= hi
      PROVE  Lies(Whole(x), lo, hi)
  <2>1. 1 \in 1 .. 1 /\ lo * 1 = lo /\ hi * 1 = hi
    OBVIOUS
  <2>2. lo <= x /\ x <= hi
    BY <1>2, <2>1
  <2> QED
    BY <1>1, <2>1, <2>2, IsAtMost DEF Lies
<1> QED
  BY <1>1, <1>2 DEF IsWithin

\* One more sample.
LEMMA WithinNext ==
    ASSUME NEW n \in Nat, NEW old, NEW f, IsWithin(old, f, n),
           NEW share, NEW s \in Nat, NEW d \in Nat \ {0}, s <= d, Is(share, s, d),
           NEW x \in Int, NEW g, \A k \in 1 .. n : g[k] = f[k], g[n + 1] = x
    PROVE  IsWithin(Mix(share, Whole(x), old), g, n + 1)
<1>1. IsNumber(old)
  BY DEF IsWithin
<1>2. IsNumber(Mix(share, Whole(x), old))
  <2>1. Is(old, old[1], old[2]) /\ old[1] \in Int /\ old[2] \in Nat \ {0}
    BY <1>1, NumberFacts
  <2>2. s \in Int
    OBVIOUS
  <2>3. IsReduced(Mix(share, Whole(x), old))
    BY <2>1, <2>2, MixIs
  <2> QED
    BY <2>3, NumberFacts
<1>3. ASSUME NEW lo \in Int, NEW hi \in Int, \A k \in 1 .. n + 1 : lo <= g[k] /\ g[k] <= hi
      PROVE  Lies(Mix(share, Whole(x), old), lo, hi)
  <2>1. \A k \in 1 .. n : k \in 1 .. n + 1
    OBVIOUS
  <2>2. \A k \in 1 .. n : lo <= f[k] /\ f[k] <= hi
    BY <1>3, <2>1
  <2>3. Lies(old, lo, hi)
    BY <2>2 DEF IsWithin
  <2>4. lo <= x /\ x <= hi
    BY <1>3
  <2> QED
    BY <1>1, <2>3, <2>4, MixLies
<1> QED
  BY <1>2, <1>3 DEF IsWithin

\* So it is between the least and the greatest of them.
LEMMA WithinIsBetween ==
    ASSUME NEW n \in Nat, n # 0, NEW f, IsIntegers(f, n), NEW x, IsWithin(x, f, n),
           NEW S, S = {f[k] : k \in 1 .. n}
    PROVE  IsBetween(x, S)
<1>1. PICK lo : lo = Min(S)
  OBVIOUS
<1>2. PICK hi : hi = Max(S)
  OBVIOUS
<1>3. lo \in S /\ hi \in S /\ \A y \in S : lo <= y /\ y <= hi
  BY <1>1, <1>2, BoundsFacts DEF IsIntegers
<1>4. lo \in Int /\ hi \in Int /\ \A k \in 1 .. n : lo <= f[k] /\ f[k] <= hi
  BY <1>3 DEF IsIntegers
<1>5. Lies(x, lo, hi)
  BY <1>4 DEF IsWithin
<1> QED
  BY <1>1, <1>2, <1>5 DEF Lies, IsBetween

-----------------------------------------------------------------------------
(***************************************************************************)
(* Averages with indexes: what is left of each sample.                     *)
(***************************************************************************)
\* For how long the k-th sample was the latest, in powers of two; weighted with it.
Lasting(index, f, k) ==
    (Power(2, index[k]) - (IF k = 1 THEN 0 ELSE Power(2, index[k - 1]))) * f[k]

\* x is what is left of f[1] .. f[n] at the index of the last.
IsDecayed(x, index, f, n) ==
    Is(x, Total([k \in 1 .. n |-> Lasting(index, f, k)], 1 .. n), Power(2, index[n]))

\* Indexes that do not go back.
AreIndexes(index, n) ==
    /\ \A k \in 1 .. n : index[k] \in Nat
    /\ \A j, k \in 1 .. n : j <= k => index[j] <= index[k]

\* Powers of two are not zero.
LEMMA PowerOfTwo ==
    ASSUME NEW k \in Nat
    PROVE  Power(2, k) \in Nat \ {0}
BY PowerNat

\* What lasts is an integer.
LEMMA LastingIsInteger ==
    ASSUME NEW n \in Nat, NEW index, AreIndexes(index, n), NEW f, IsIntegers(f, n),
           NEW k \in 1 .. n
    PROVE  Lasting(index, f, k) \in Int
<1>1. PICK a \in Nat : a = Power(2, index[k])
  BY PowerOfTwo DEF AreIndexes
<1>2. PICK b \in Nat : b = IF k = 1 THEN 0 ELSE Power(2, index[k - 1])
  <2>1. k # 1 => k - 1 \in 1 .. n
    OBVIOUS
  <2> QED
    BY <2>1, PowerOfTwo DEF AreIndexes
<1>3. PICK v \in Int : v = f[k]
  BY DEF IsIntegers
<1>4. Lasting(index, f, k) = (a - b) * v
  BY <1>1, <1>2, <1>3 DEF Lasting
<1> QED
  BY <1>4

\* The first sample.
LEMMA DecayedFirst ==
    ASSUME NEW x \in Int, NEW f, f[1] = x, NEW index, AreIndexes(index, 1)
    PROVE  IsDecayed(Whole(x), index, f, 1)
<1>1. 1 .. 1 = {1} /\ 1 \in 1 .. 1
  OBVIOUS
<1>2. PICK P \in Nat \ {0} : P = Power(2, index[1])
  BY <1>1, PowerOfTwo DEF AreIndexes
<1>3. PICK a : a = [k \in 1 .. 1 |-> Lasting(index, f, k)]
  OBVIOUS
<1>4. a[1] = (P - 0) * x
  BY <1>1, <1>2, <1>3 DEF Lasting
<1>5. Total(a, 1 .. 1) = x * P
  <2>1. Total(a, 1 .. 0) = 0
    <3>1. 1 .. 0 = {}
      OBVIOUS
    <3> QED
      BY <3>1, TotalEmpty
  <2>2. (P - 0) * x = x * P /\ x * P \in Int
    OBVIOUS
  <2>3. \A k \in 1 .. 0 + 1 : a[k] \in Int
    BY <1>4, <2>2
  <2>4. Total(a, 1 .. 0 + 1) = Total(a, 1 .. 0) + a[0 + 1]
    BY <2>3, TotalNext
  <2> QED
    BY <1>4, <2>1, <2>2, <2>4
<1>6. Is(Whole(x), x * P, P)
  BY DEF Is, Whole
<1> QED
  BY <1>2, <1>3, <1>5, <1>6 DEF IsDecayed

\* One more sample.
LEMMA DecayedNext ==
    ASSUME NEW n \in Nat, n # 0, NEW index, NEW f, IsIntegers(f, n + 1), AreIndexes(index, n + 1),
           NEW old, IsDecayed(old, index, f, n),
           NEW x \in Int, x = f[n + 1], NEW j \in Nat, index[n + 1] = index[n] + j
    PROVE  /\ Is(Minus(Whole(1), Fraction(1, Power(2, j))), Power(2, j) - 1, Power(2, j))
           /\ IsDecayed(Mix(Minus(Whole(1), Fraction(1, Power(2, j))), Whole(x), old),
                        index, f, n + 1)
<1>1. n \in 1 .. n + 1 /\ n + 1 \in 1 .. n + 1 /\ \A k \in 1 .. n : k \in 1 .. n + 1
  OBVIOUS
<1>2. PICK L \in Nat : L = index[n]
  BY <1>1 DEF AreIndexes
<1>3. PICK P \in Nat \ {0} : P = Power(2, L)
  BY PowerOfTwo
<1>4. PICK J \in Nat \ {0} : J = Power(2, j)
  BY PowerOfTwo
<1>5. Power(2, index[n + 1]) = P * J
  <2>1. 2 \in Int /\ index[n + 1] = L + j
    BY <1>2
  <2>2. Power(2, L + j) = Power(2, L) * Power(2, j)
    BY ONLY <2>1, L \in Nat, j \in Nat, PowerSum
  <2> QED
    BY <1>3, <1>4, <2>1, <2>2
<1>6. PICK share : share = Minus(Whole(1), Fraction(1, J))
  OBVIOUS
<1>7. Is(share, J - 1, J)
  <2>1. PICK g : g = Fraction(1, J)
    OBVIOUS
  <2>2. Is(g, 1, J) /\ Is(Whole(1), 1, 1)
    BY <2>1, FractionIs, WholeIsNumber
  <2>3. 1 \in Int /\ J \in Int
    OBVIOUS
  <2>4. Is(share, 1 * J - 1 * 1, 1 * J)
    BY ONLY <1>6, <2>1, <2>2, <2>3, FractionSum
  <2>5. 1 * J - 1 * 1 = J - 1 /\ 1 * J = J
    OBVIOUS
  <2> QED
    BY ONLY <2>4, <2>5
<1>8. PICK a : a = [k \in 1 .. n |-> Lasting(index, f, k)]
  OBVIOUS
<1>9. PICK b : b = [k \in 1 .. n + 1 |-> Lasting(index, f, k)]
  OBVIOUS
<1>10. \A k \in 1 .. n + 1 : b[k] \in Int
  BY <1>9, LastingIsInteger
<1>11. \A k \in 1 .. n : a[k] \in Int /\ b[k] = a[k]
  BY <1>1, <1>8, <1>9, <1>10
<1>12. PICK t \in Int : t = Total(a, 1 .. n)
  BY <1>11, TotalIsInteger DEF IsIntegers
<1>13. Total(b, 1 .. n + 1) = t + (P * J - P) * x
  <2>1. Total(b, 1 .. n) = t
    BY <1>11, <1>12, SameTotal
  <2>2. Total(b, 1 .. n + 1) = t + b[n + 1]
    BY <1>10, <2>1, TotalNext
  <2>3. n + 1 # 1 /\ (n + 1) - 1 = n
    OBVIOUS
  <2>4. b[n + 1] = (P * J - P) * x
    BY <1>1, <1>2, <1>3, <1>5, <1>9, <2>3 DEF Lasting
  <2> QED
    BY <2>2, <2>4
<1>14. Is(old, t, P)
  BY <1>2, <1>3, <1>8, <1>12 DEF IsDecayed
<1>15. Is(Mix(share, Whole(x), old), (J - (J - 1)) * t + ((J - 1) * x) * P, J * P)
  <2>1. PICK s \in Int : s = J - 1
    OBVIOUS
  <2>2. Is(share, s, J)
    BY <1>7, <2>1
  <2>3. Is(Mix(share, Whole(x), old), (J - s) * t + (s * x) * P, J * P)
    BY <1>14, <2>2, MixIs
  <2> QED
    BY <2>1, <2>3
<1>16. (J - (J - 1)) * t + ((J - 1) * x) * P = t + (P * J - P) * x /\ J * P = P * J
  <2>1. (J - (J - 1)) * t = t
    OBVIOUS
  <2>2. ((J - 1) * x) * P = (P * J - P) * x
    OBVIOUS
  <2>3. J * P = P * J
    OBVIOUS
  <2> QED
    BY ONLY <2>1, <2>2, <2>3
<1>17. Is(Mix(share, Whole(x), old), t + (P * J - P) * x, P * J)
  BY ONLY <1>15, <1>16
<1>18. IsDecayed(Mix(share, Whole(x), old), index, f, n + 1)
  BY <1>5, <1>9, <1>13, <1>17 DEF IsDecayed
<1> QED
  BY <1>4, <1>6, <1>7, <1>18

-----------------------------------------------------------------------------
(***************************************************************************)
(* The whole invariant, which each action keeps.                           *)
(***************************************************************************)
\* A sample is a number or a pair of numbers.
SampleSet == Int \cup (Int \X Int)

SamplesInv == sampled \in Seq(SampleSet)

\* A distribution has the sum of its weights; a value without any is not in it.
DistributionInv ==
    figure = "distribution" =>
        /\ IsFiniteSet(DOMAIN weights) /\ DOMAIN weights \subseteq Int
        /\ \A v \in DOMAIN weights : weights[v] \in Nat \ {0}
        /\ weightSum = Total(weights, DOMAIN weights)
        /\ sampled # <<>> => DOMAIN weights # {}

\* An average is within any bounds of the samples.
DiscreteInv ==
    figure = "discrete" =>
        /\ IsIntegers(sampled, Len(sampled))
        /\ sampled = <<>> => ema = None
        /\ sampled # <<>> => IsWithin(ema, sampled, Len(sampled))

\* So is one with indexes, which is decayed to the last of them.
ContinuousInv ==
    figure = "continuous" =>
        /\ \A k \in Places : sampled[k][1] \in Int /\ sampled[k][2] \in Int
        /\ sampled = <<>> => ema = None /\ lastIndex = NoIndex
        /\ sampled # <<>> /\ ~Shifted =>
             /\ AreIndexes(First, Len(sampled)) /\ lastIndex = First[Len(sampled)]
             /\ IsWithin(ema, Second, Len(sampled))
             /\ IsDecayed(ema, First, Second, Len(sampled))

FiguresInv ==
    /\ SamplesInv /\ RangeInv /\ RegressionInv
    /\ DistributionInv /\ DiscreteInv /\ ContinuousInv

\* The samples and their coordinates.
LEMMA SampledFacts ==
    ASSUME SamplesInv
    PROVE  /\ Len(sampled) \in Nat /\ Places = 1 .. Len(sampled)
           /\ DOMAIN sampled = 1 .. Len(sampled)
           /\ sampled = <<>> <=> Len(sampled) = 0
           /\ \A k \in 1 .. Len(sampled) :
                /\ First[k] = sampled[k][1] /\ Second[k] = sampled[k][2]
                /\ Products[k] = sampled[k][1] * sampled[k][2]
<1>1. /\ Len(sampled) \in Nat /\ DOMAIN sampled = 1 .. Len(sampled)
      /\ sampled = <<>> <=> Len(sampled) = 0
  BY SeqFacts DEF SamplesInv
<1> QED
  BY <1>1 DEF Places, First, Second, Products

\* One sample more.
LEMMA RememberFacts ==
    ASSUME SamplesInv, NEW sample \in SampleSet, Remember(sample)
    PROVE  /\ SamplesInv' /\ figure' = figure
           /\ Len(sampled') = Len(sampled) + 1 /\ sampled' # <<>>
           /\ \A k \in 1 .. Len(sampled) : sampled'[k] = sampled[k]
           /\ sampled'[Len(sampled) + 1] = sample
           /\ Places' = 1 .. Len(sampled) + 1
           /\ \A k \in 1 .. Len(sampled) + 1 :
                /\ First'[k] = sampled'[k][1] /\ Second'[k] = sampled'[k][2]
                /\ Products'[k] = sampled'[k][1] * sampled'[k][2]
<1>1. sampled' = Append(sampled, sample) /\ figure' = figure
  BY DEF Remember
<1>2. /\ sampled' \in Seq(SampleSet)
      /\ Len(sampled') = Len(sampled) + 1
      /\ \A k \in 1 .. Len(sampled) : sampled'[k] = sampled[k]
      /\ sampled'[Len(sampled) + 1] = sample
  BY <1>1, AppendFacts DEF SamplesInv
<1>3. Places' = 1 .. Len(sampled) + 1
  BY <1>2 DEF Places
<1>4. sampled' # <<>>
  <2>1. Len(sampled) \in Nat
    BY SampledFacts
  <2>2. Len(sampled') # 0
    BY <1>2, <2>1
  <2> QED
    BY <1>2, <2>2, SeqFacts
<1>5. \A k \in 1 .. Len(sampled) + 1 :
        /\ First'[k] = sampled'[k][1] /\ Second'[k] = sampled'[k][2]
        /\ Products'[k] = sampled'[k][1] * sampled'[k][2]
  BY <1>3 DEF First, Second, Products
<1> QED
  BY <1>1, <1>2, <1>3, <1>4, <1>5 DEF SamplesInv

\* A summary is known by four of its fields.
LEMMA SumsAgain ==
    ASSUME NEW s, NEW f, NEW n, SumsOf(s, f, n),
           NEW r, r.count = s.count, r.sum = s.sum, r.average = s.average, r.m2 = s.m2
    PROVE  SumsOf(r, f, n)
  BY DEF SumsOf, Sums

\* A range after one sample more.
LEMMA RangeKept ==
    ASSUME SamplesInv, RangeInv, NEW t \in Int, SampleRange(t)
    PROVE  FiguresInv'
<1>1. figure = "range" /\ Remember(t) /\ range' = RangedSample(range, t)
  BY DEF SampleRange
<1>2. PICK n \in Nat : n = Len(sampled)
  BY SampledFacts
<1>3. /\ SamplesInv' /\ figure' = "range"
      /\ Len(sampled') = n + 1 /\ sampled' # <<>>
      /\ \A k \in 1 .. n : sampled'[k] = sampled[k]
      /\ sampled'[n + 1] = t /\ Places' = 1 .. n + 1
  <2>1. t \in SampleSet
    BY DEF SampleSet
  <2> QED
    BY <1>1, <1>2, <2>1, RememberFacts
<1>4. /\ \A k \in 1 .. n : sampled[k] \in Int
      /\ IsSummary(range) /\ {"min", "max"} \subseteq DOMAIN range
      /\ SumsOf(range, sampled, n)
  BY <1>1, <1>2 DEF RangeInv, IsIntegers
<1>5. PICK r : r = SummarySample(range, t)
  OBVIOUS
<1>6. /\ SumsOf(r, sampled', n + 1) /\ IsSummary(r) /\ DOMAIN r = DOMAIN range
      /\ \A x \in DOMAIN range \ {"count", "sum", "average", "m2"} : r[x] = range[x]
  <2>1. PICK g : g = sampled'
    OBVIOUS
  <2>2. /\ SumsOf(SummarySample(range, t), g, n + 1) /\ IsSummary(SummarySample(range, t))
        /\ DOMAIN SummarySample(range, t) = DOMAIN range
        /\ \A x \in DOMAIN range \ {"count", "sum", "average", "m2"} :
             SummarySample(range, t)[x] = range[x]
    BY <1>3, <1>4, <2>1, SummaryNext
  <2> QED
    BY <1>5, <2>1, <2>2
<1>7. r.min = range.min /\ r.max = range.max
  <2>1. {"min", "max"} \subseteq DOMAIN range \ {"count", "sum", "average", "m2"}
    BY <1>4
  <2> QED
    BY <1>6, <2>1
<1>8. r.count = n + 1
  BY <1>6 DEF SumsOf, Sums
<1>9. range' = IF n + 1 = 1 THEN [r EXCEPT !.min = t, !.max = t]
               ELSE IF t > range.max THEN [r EXCEPT !.max = t]
               ELSE IF t < range.min THEN [r EXCEPT !.min = t]
               ELSE r
  BY <1>1, <1>5, <1>8 DEF RangedSample
<1>10. IsIntegers(sampled', n + 1)
  <2>1. \A k \in 1 .. n + 1 : k \in 1 .. n \/ k = n + 1
    OBVIOUS
  <2> QED
    BY <1>3, <1>4, <2>1 DEF IsIntegers
<1>11. PICK q : q = range'
  OBVIOUS
<1>12. DOMAIN q = DOMAIN r /\ q.count = r.count /\ q.sum = r.sum /\ q.average = r.average /\ q.m2 = r.m2
  <2>1. CASE q = [r EXCEPT !.min = t, !.max = t]
    BY <1>4, <1>6, <2>1 DEF IsSummary
  <2>2. CASE q = [r EXCEPT !.max = t]
    BY <1>4, <1>6, <2>2 DEF IsSummary
  <2>3. CASE q = [r EXCEPT !.min = t]
    BY <1>4, <1>6, <2>3 DEF IsSummary
  <2>4. CASE q = r
    BY <2>4
  <2> QED
    BY <1>9, <1>11, <2>1, <2>2, <2>3, <2>4
<1>13. IsSummary(q) /\ {"min", "max"} \subseteq DOMAIN q /\ SumsOf(q, sampled', n + 1)
  BY <1>4, <1>6, <1>12, SumsAgain DEF IsSummary
<1>14. /\ \E k \in 1 .. n + 1 : sampled'[k] = q.min
       /\ \E k \in 1 .. n + 1 : sampled'[k] = q.max
       /\ \A k \in 1 .. n + 1 : q.min <= sampled'[k] /\ sampled'[k] <= q.max
  <2>1. n + 1 \in 1 .. n + 1 /\ \A k \in 1 .. n : k \in 1 .. n + 1
    OBVIOUS
  <2>2. \A k \in 1 .. n + 1 : k \in 1 .. n \/ k = n + 1
    OBVIOUS
  <2>3. {"min", "max"} \subseteq DOMAIN r
    BY <1>4, <1>6
  <2>4. CASE n = 0
    <3>1. q = [r EXCEPT !.min = t, !.max = t]
      BY <1>9, <1>11, <2>4
    <3>2. q.min = t /\ q.max = t
      BY <2>3, <3>1
    <3>3. \A k \in 1 .. n + 1 : sampled'[k] = t
      BY <1>3, <2>4
    <3>4. t <= t
      OBVIOUS
    <3> QED
      BY <2>1, <3>2, <3>3, <3>4
  <2>5. CASE n # 0
    <3>1. sampled # <<>>
      BY <1>2, <2>5, SampledFacts
    <3>2. Places = 1 .. n
      BY <1>2, SampledFacts
    <3>3. PICK i \in 1 .. n : sampled[i] = range.min
      BY <1>1, <3>1, <3>2 DEF RangeInv
    <3>4. PICK j \in 1 .. n : sampled[j] = range.max
      BY <1>1, <3>1, <3>2 DEF RangeInv
    <3>5. \A k \in 1 .. n : range.min <= sampled[k] /\ sampled[k] <= range.max
      BY <1>1, <3>1, <3>2 DEF RangeInv
    <3>6. PICK a \in Int : a = range.min
      BY <1>4, <3>3
    <3>7. PICK b \in Int : b = range.max
      BY <1>4, <3>4
    <3>8. a <= b
      BY <1>4, <3>3, <3>5, <3>6, <3>7
    <3>9. n + 1 # 1
      BY <2>5
    <3>10. CASE t > b
      <4>1. q = [r EXCEPT !.max = t]
        BY <1>9, <1>11, <3>7, <3>9, <3>10
      <4>2. q.min = a /\ q.max = t
        BY <1>7, <2>3, <3>6, <4>1
      <4>3. \A k \in 1 .. n + 1 : a <= sampled'[k] /\ sampled'[k] <= t
        BY <1>3, <1>4, <2>2, <3>5, <3>6, <3>7, <3>8, <3>10
      <4> QED
        BY <1>3, <2>1, <3>3, <3>6, <4>2, <4>3
    <3>11. CASE ~(t > b) /\ t < a
      <4>1. q = [r EXCEPT !.min = t]
        BY <1>9, <1>11, <3>6, <3>7, <3>9, <3>11
      <4>2. q.min = t /\ q.max = b
        BY <1>7, <2>3, <3>7, <4>1
      <4>3. \A k \in 1 .. n + 1 : t <= sampled'[k] /\ sampled'[k] <= b
        BY <1>3, <1>4, <2>2, <3>5, <3>6, <3>7, <3>8, <3>11
      <4> QED
        BY <1>3, <2>1, <3>4, <3>7, <4>2, <4>3
    <3>12. CASE ~(t > b) /\ ~(t < a)
      <4>1. q = r
        BY <1>9, <1>11, <3>6, <3>7, <3>9, <3>12
      <4>2. q.min = a /\ q.max = b
        BY <1>7, <3>6, <3>7, <4>1
      <4>3. \A k \in 1 .. n + 1 : a <= sampled'[k] /\ sampled'[k] <= b
        BY <1>3, <1>4, <2>2, <3>5, <3>6, <3>7, <3>8, <3>12
      <4> QED
        BY <1>3, <2>1, <3>3, <3>4, <3>6, <3>7, <4>2, <4>3
    <3> QED
      BY <3>10, <3>11, <3>12
  <2> QED
    BY <2>4, <2>5
<1>15. RangeInv'
  BY <1>3, <1>10, <1>11, <1>13, <1>14 DEF RangeInv
<1> QED
  BY <1>3, <1>15
    DEF FiguresInv, RegressionInv, DistributionInv, DiscreteInv, ContinuousInv

\* A regression after one sample more.
LEMMA RegressionKept ==
    ASSUME SamplesInv, RegressionInv, NEW x \in Int, NEW y \in Int, SampleRegression(x, y)
    PROVE  FiguresInv'
<1>1. /\ figure = "regression" /\ Remember(<<x, y>>)
      /\ regression' = [x |-> SummarySample(regression.x, x),
                        y |-> SummarySample(regression.y, y),
                        xy |-> SummarySample(regression.xy, x * y)]
  BY DEF SampleRegression
<1>2. PICK n \in Nat : n = Len(sampled)
  BY SampledFacts
<1>3. /\ SamplesInv' /\ figure' = "regression"
      /\ Len(sampled') = n + 1
      /\ \A k \in 1 .. n : sampled'[k] = sampled[k]
      /\ sampled'[n + 1] = <<x, y>> /\ Places' = 1 .. n + 1
      /\ \A k \in 1 .. n + 1 :
           /\ First'[k] = sampled'[k][1] /\ Second'[k] = sampled'[k][2]
           /\ Products'[k] = sampled'[k][1] * sampled'[k][2]
  <2>1. <<x, y>> \in SampleSet
    BY DEF SampleSet
  <2> QED
    BY <1>1, <1>2, <2>1, RememberFacts
<1>4. /\ \A k \in 1 .. n : sampled[k][1] \in Int /\ sampled[k][2] \in Int
      /\ IsSummary(regression.x) /\ SumsOf(regression.x, First, n)
      /\ IsSummary(regression.y) /\ SumsOf(regression.y, Second, n)
      /\ IsSummary(regression.xy) /\ SumsOf(regression.xy, Products, n)
  BY <1>1, <1>2, SampledFacts DEF RegressionInv
<1>5. \A k \in 1 .. n : /\ First[k] = sampled[k][1] /\ Second[k] = sampled[k][2]
                        /\ Products[k] = sampled[k][1] * sampled[k][2]
                        /\ First[k] \in Int /\ Second[k] \in Int /\ Products[k] \in Int
  <2> TAKE k \in 1 .. n
  <2>1. PICK a \in Int : a = sampled[k][1]
    BY <1>4
  <2>2. PICK b \in Int : b = sampled[k][2]
    BY <1>4
  <2>3. First[k] = a /\ Second[k] = b /\ Products[k] = a * b
    BY <1>2, <2>1, <2>2, SampledFacts
  <2>4. a * b \in Int
    OBVIOUS
  <2> QED
    BY <2>1, <2>2, <2>3, <2>4
<1>6. /\ \A k \in 1 .. n : First'[k] = First[k] /\ Second'[k] = Second[k]
                           /\ Products'[k] = Products[k]
      /\ First'[n + 1] = x /\ Second'[n + 1] = y /\ Products'[n + 1] = x * y
  <2>1. n + 1 \in 1 .. n + 1 /\ \A k \in 1 .. n : k \in 1 .. n + 1
    OBVIOUS
  <2>a. PICK xy : xy = <<x, y>>
    OBVIOUS
  <2>b. <<x, y>>[1] = x /\ <<x, y>>[2] = y
    OBVIOUS
  <2>2. xy = <<x, y>> /\ xy[1] = x /\ xy[2] = y
    BY ONLY <2>a, <2>b
  <2>3. ASSUME NEW k \in 1 .. n
        PROVE  First'[k] = First[k] /\ Second'[k] = Second[k] /\ Products'[k] = Products[k]
    BY <1>3, <1>5, <2>1
  <2>4. sampled'[n + 1] = xy
    BY <1>3, <2>2
  <2>5. First'[n + 1] = x /\ Second'[n + 1] = y /\ Products'[n + 1] = x * y
    BY <1>3, <2>1, <2>2, <2>4
  <2> QED
    BY ONLY <2>3, <2>5
<1>7. x * y \in Int
  OBVIOUS
<1>8. SumsOf(regression'.x, First', n + 1) /\ IsSummary(regression'.x)
  <2>1. PICK f : f = First
    OBVIOUS
  <2>2. PICK g : g = First'
    OBVIOUS
  <2>3. PICK s : s = regression.x
    OBVIOUS
  <2>4. /\ IsSummary(s) /\ SumsOf(s, f, n) /\ \A k \in 1 .. n : f[k] \in Int
        /\ \A k \in 1 .. n : g[k] = f[k]
        /\ g[n + 1] = x
    BY <1>4, <1>5, <1>6, <2>1, <2>2, <2>3
  <2>5. SumsOf(SummarySample(s, x), g, n + 1) /\ IsSummary(SummarySample(s, x))
    BY ONLY <2>4, n \in Nat, x \in Int, SummaryNext
  <2> QED
    BY <1>1, <2>2, <2>3, <2>5
<1>9. SumsOf(regression'.y, Second', n + 1) /\ IsSummary(regression'.y)
  <2>1. PICK f : f = Second
    OBVIOUS
  <2>2. PICK g : g = Second'
    OBVIOUS
  <2>3. PICK s : s = regression.y
    OBVIOUS
  <2>4. /\ IsSummary(s) /\ SumsOf(s, f, n) /\ \A k \in 1 .. n : f[k] \in Int
        /\ \A k \in 1 .. n : g[k] = f[k]
        /\ g[n + 1] = y
    BY <1>4, <1>5, <1>6, <2>1, <2>2, <2>3
  <2>5. SumsOf(SummarySample(s, y), g, n + 1) /\ IsSummary(SummarySample(s, y))
    BY ONLY <2>4, n \in Nat, y \in Int, SummaryNext
  <2> QED
    BY <1>1, <2>2, <2>3, <2>5
<1>10. SumsOf(regression'.xy, Products', n + 1) /\ IsSummary(regression'.xy)
  <2>0. PICK v \in Int : v = x * y
    BY <1>7
  <2>1. PICK f : f = Products
    OBVIOUS
  <2>2. PICK g : g = Products'
    OBVIOUS
  <2>3. PICK s : s = regression.xy
    OBVIOUS
  <2>4. /\ IsSummary(s) /\ SumsOf(s, f, n) /\ \A k \in 1 .. n : f[k] \in Int
        /\ \A k \in 1 .. n : g[k] = f[k]
        /\ g[n + 1] = v
    BY <1>4, <1>5, <1>6, <2>0, <2>1, <2>2, <2>3
  <2>5. SumsOf(SummarySample(s, v), g, n + 1) /\ IsSummary(SummarySample(s, v))
    BY ONLY <2>4, n \in Nat, v \in Int, SummaryNext
  <2> QED
    BY <1>1, <2>0, <2>2, <2>3, <2>5
<1>11. \A k \in 1 .. n + 1 : sampled'[k][1] \in Int /\ sampled'[k][2] \in Int
  <2>1. \A k \in 1 .. n + 1 : k \in 1 .. n \/ k = n + 1
    OBVIOUS
  <2>2. PICK s : s = sampled'
    OBVIOUS
  <2>3. \A k \in 1 .. n : s[k][1] \in Int /\ s[k][2] \in Int
    BY <1>3, <1>4, <2>2
  <2>4. s[n + 1] = <<x, y>>
    BY <1>3, <2>2
  <2>5. s[n + 1][1] = x /\ s[n + 1][2] = y
    BY <2>4
  <2> QED
    BY <2>1, <2>2, <2>3, <2>5
<1>12. DOMAIN regression' = {"x", "y", "xy"}
  BY <1>1
<1>13. RegressionInv'
  BY <1>3, <1>8, <1>9, <1>10, <1>11, <1>12 DEF RegressionInv
<1> QED
  BY <1>3, <1>13
    DEF FiguresInv, RangeInv, DistributionInv, DiscreteInv, ContinuousInv

\* A distribution after one sample more.
LEMMA WeightAdded ==
    ASSUME NEW w, NEW D, D = DOMAIN w, IsFiniteSet(D), D \subseteq Int,
           \A v \in D : w[v] \in Nat \ {0}, NEW t \in Int, NEW x \in 1 .. 2,
           NEW z, z = [v \in D \cup {t} |-> (IF v \in D THEN w[v] ELSE 0)
                                             + (IF v = t THEN x ELSE 0)]
    PROVE  /\ DOMAIN z = D \cup {t} /\ IsFiniteSet(D \cup {t}) /\ D \cup {t} \subseteq Int
           /\ \A v \in D \cup {t} : z[v] \in Nat \ {0}
           /\ Total(z, D \cup {t}) = Total(w, D) + x
<1>1. DOMAIN z = D \cup {t} /\ D \cup {t} \subseteq Int
  OBVIOUS
<1>2. IsFiniteSet(D \cup {t})
  BY FS_AddElement
<1>3. \A v \in D \ {t} : z[v] = w[v] /\ z[v] \in Nat \ {0}
  <2> TAKE v \in D \ {t}
  <2>1. PICK a \in Nat \ {0} : a = w[v]
    OBVIOUS
  <2>2. z[v] = a + 0
    BY <2>1
  <2> QED
    BY <2>1, <2>2
<1>4. Total(w, D) \in Int
  <2>1. \A v \in D : w[v] \in Int
    OBVIOUS
  <2> QED
    BY <2>1, TotalRemove
<1>5. CASE t \in D
  <2>1. PICK a \in Nat \ {0} : a = w[t]
    BY <1>5
  <2>2. z[t] = a + x
    BY <1>5, <2>1
  <2>3. z[t] \in Nat \ {0}
    BY <2>2
  <2>4. D \cup {t} = D
    BY <1>5
  <2>5. \A v \in D : w[v] \in Int /\ z[v] \in Int
    BY <1>3, <2>3
  <2>6. Total(z, D) = Total(w, D) + (z[t] - w[t])
    BY <1>3, <1>5, <2>5, TotalChanged
  <2>7. z[t] - w[t] = x
    BY <2>1, <2>2
  <2> QED
    BY <1>1, <1>2, <1>3, <2>3, <2>4, <2>6, <2>7
<1>6. CASE t \notin D
  <2>1. z[t] = 0 + x
    BY <1>6
  <2>2. z[t] = x /\ z[t] \in Nat \ {0}
    BY <2>1
  <2>3. \A v \in D : w[v] \in Int /\ z[v] = w[v]
    BY <1>3, <1>6
  <2>4. \A v \in D \cup {t} : z[v] \in Int
    BY <2>2, <2>3
  <2>5. Total(z, D) = Total(w, D)
    BY <2>3, TotalSame
  <2>6. Total(z, D \cup {t}) = Total(z, D) + z[t]
    BY <1>6, <2>4, TotalAdd
  <2> QED
    BY <1>1, <1>2, <1>3, <1>6, <2>2, <2>5, <2>6
<1> QED
  BY <1>5, <1>6

LEMMA DistributionKept ==
    ASSUME SamplesInv, DistributionInv, NEW t \in Int, NEW weight \in 1 .. 2,
           SampleDistribution(t, weight)
    PROVE  FiguresInv'
<1>1. /\ figure = "distribution" /\ Remember(<<t, weight>>)
      /\ weightSum' = weightSum + weight
  BY DEF SampleDistribution
<1>2. SamplesInv' /\ figure' = "distribution"
  <2>1. <<t, weight>> \in SampleSet
    BY DEF SampleSet
  <2> QED
    BY <1>1, <2>1, RememberFacts
<1>3. PICK w : w = weights
  OBVIOUS
<1>4. PICK D : D = DOMAIN w
  OBVIOUS
<1>5. PICK z : z = weights'
  OBVIOUS
<1>6. z = [v \in D \cup {t} |-> (IF v \in D THEN w[v] ELSE 0) + (IF v = t THEN weight ELSE 0)]
  BY <1>3, <1>4, <1>5 DEF SampleDistribution, WeightOf
<1>7. /\ IsFiniteSet(D) /\ D \subseteq Int /\ \A v \in D : w[v] \in Nat \ {0}
      /\ weightSum = Total(w, D)
  BY <1>1, <1>3, <1>4 DEF DistributionInv
<1>8. /\ DOMAIN z = D \cup {t} /\ IsFiniteSet(D \cup {t}) /\ D \cup {t} \subseteq Int
      /\ \A v \in D \cup {t} : z[v] \in Nat \ {0}
      /\ Total(z, D \cup {t}) = Total(w, D) + weight
  BY ONLY <1>4, <1>6, <1>7, t \in Int, weight \in 1 .. 2, WeightAdded
<1>9. weightSum' = Total(z, D \cup {t})
  BY <1>1, <1>7, <1>8
<1>10. DistributionInv'
  BY <1>5, <1>8, <1>9 DEF DistributionInv
<1> QED
  BY <1>2, <1>10 DEF FiguresInv, RangeInv, RegressionInv, DiscreteInv, ContinuousInv

\* The averages after one sample more.
LEMMA DiscreteKept ==
    ASSUME SamplesInv, DiscreteInv, NEW x \in Int, SampleDiscrete(x)
    PROVE  FiguresInv'
<1>1. /\ figure = "discrete" /\ Remember(x)
      /\ ema' = IF ema = None THEN Whole(x) ELSE Mix(Alpha, Whole(x), ema)
  BY DEF SampleDiscrete
<1>2. PICK n \in Nat : n = Len(sampled)
  BY SampledFacts
<1>3. PICK f : f = sampled
  OBVIOUS
<1>4. PICK g : g = sampled'
  OBVIOUS
<1>5. /\ SamplesInv' /\ figure' = "discrete" /\ Len(g) = n + 1 /\ g # <<>>
      /\ \A k \in 1 .. n : g[k] = f[k]
      /\ g[n + 1] = x
  <2>1. x \in SampleSet
    BY DEF SampleSet
  <2> QED
    BY <1>1, <1>2, <1>3, <1>4, <2>1, RememberFacts
<1>6. /\ \A k \in 1 .. n : f[k] \in Int
      /\ n = 0 => ema = None
      /\ n # 0 => IsWithin(ema, f, n)
  BY <1>1, <1>2, <1>3, SampledFacts DEF DiscreteInv, IsIntegers
<1>7. IsIntegers(g, n + 1)
  <2>1. \A k \in 1 .. n + 1 : k \in 1 .. n \/ k = n + 1
    OBVIOUS
  <2> QED
    BY <1>5, <1>6, <2>1 DEF IsIntegers
<1>8. IsWithin(ema', g, n + 1)
  <2>1. CASE n = 0
    <3>1. g[1] = x
      BY <1>5, <2>1
    <3>2. IsWithin(Whole(x), g, 1)
      BY <3>1, WithinFirst
    <3>3. n + 1 = 1 /\ ema' = Whole(x)
      BY <1>1, <1>6, <2>1
    <3> QED
      BY <3>2, <3>3
  <2>2. CASE n # 0
    <3>1. PICK old : old = ema
      OBVIOUS
    <3>2. IsWithin(old, f, n)
      BY <1>6, <2>2, <3>1
    <3>3. old # None
      BY <3>2, NumberFacts DEF IsWithin
    <3>4. PICK s \in Nat, d \in Nat \ {0} : Alpha = <<s, d>> /\ s <= d
      BY StatisticsAssumption
    <3>5. Is(Alpha, s, d)
      BY <3>4 DEF Is
    <3>6. IsWithin(Mix(Alpha, Whole(x), old), g, n + 1)
      BY <1>5, <3>2, <3>4, <3>5, WithinNext
    <3> QED
      BY <1>1, <3>1, <3>3, <3>6
  <2> QED
    BY <2>1, <2>2
<1>9. DiscreteInv'
  BY <1>4, <1>5, <1>7, <1>8 DEF DiscreteInv
<1> QED
  BY <1>5, <1>9 DEF FiguresInv, RangeInv, RegressionInv, DistributionInv, ContinuousInv

\* One more pair: the coordinates, and whether there is one without an index.
LEMMA PairFacts ==
    ASSUME SamplesInv, \A k \in Places : sampled[k][1] \in Int /\ sampled[k][2] \in Int,
           NEW i \in Int, NEW x \in Int, Remember(<<i, x>>)
    PROVE  /\ \A k \in Places' : sampled'[k][1] \in Int /\ sampled'[k][2] \in Int
           /\ \A k \in 1 .. Len(sampled) : First'[k] = First[k] /\ Second'[k] = Second[k]
           /\ First'[Len(sampled) + 1] = i /\ Second'[Len(sampled) + 1] = x
           /\ IsIntegers(First', Len(sampled) + 1) /\ IsIntegers(Second', Len(sampled) + 1)
           /\ Shifted' <=> Shifted \/ i = NoIndex
<1>1. PICK n \in Nat : n = Len(sampled)
  BY SampledFacts
<1>2. PICK g : g = sampled'
  OBVIOUS
<1>3. /\ Len(g) = n + 1 /\ Places' = 1 .. n + 1
      /\ \A k \in 1 .. n : g[k] = sampled[k]
      /\ g[n + 1] = <<i, x>>
      /\ \A k \in 1 .. n + 1 : First'[k] = g[k][1] /\ Second'[k] = g[k][2]
  <2>1. <<i, x>> \in SampleSet
    BY DEF SampleSet
  <2> QED
    BY <1>1, <1>2, <2>1, RememberFacts
<1>4. /\ Places = 1 .. n
      /\ \A k \in 1 .. n : First[k] = sampled[k][1] /\ Second[k] = sampled[k][2]
  BY <1>1, SampledFacts
<1>5. /\ n + 1 \in 1 .. n + 1 /\ \A k \in 1 .. n : k \in 1 .. n + 1
      /\ \A k \in 1 .. n + 1 : k \in 1 .. n \/ k = n + 1
  OBVIOUS
<1>6. g[n + 1][1] = i /\ g[n + 1][2] = x
  BY <1>3
<1>7. \A k \in 1 .. n : g[k][1] = First[k] /\ g[k][2] = Second[k]
                        /\ First[k] \in Int /\ Second[k] \in Int
  BY <1>3, <1>4
<1>8. \A k \in 1 .. n + 1 : g[k][1] \in Int /\ g[k][2] \in Int
  BY <1>5, <1>6, <1>7
<1>9. \A k \in 1 .. n : First'[k] = First[k] /\ Second'[k] = Second[k]
  BY <1>3, <1>5, <1>7
<1>10. First'[n + 1] = i /\ Second'[n + 1] = x
  BY <1>3, <1>5, <1>6
<1>11. IsIntegers(First', n + 1) /\ IsIntegers(Second', n + 1)
  BY <1>3, <1>8 DEF IsIntegers
<1>12. Shifted' <=> \E k \in 1 .. n + 1 : g[k][1] = NoIndex
  BY <1>2, <1>3 DEF Shifted, NoIndex
<1>13. Shifted <=> \E k \in 1 .. n : First[k] = NoIndex
  BY <1>4 DEF Shifted
<1>14. Shifted' <=> Shifted \/ i = NoIndex
  BY <1>5, <1>6, <1>7, <1>12, <1>13
<1> QED
  BY <1>1, <1>2, <1>3, <1>8, <1>9, <1>10, <1>11, <1>14

LEMMA ContinuousKept ==
    ASSUME SamplesInv, ContinuousInv, NEW index \in Nat, NEW x \in Int,
           SampleContinuous(index, x)
    PROVE  FiguresInv'
<1>1. /\ figure = "continuous" /\ Remember(<<index, x>>) /\ index >= lastIndex
      /\ ema' = Decayed(index, x) /\ lastIndex' = index
  BY DEF SampleContinuous
<1>2. PICK n \in Nat : n = Len(sampled)
  BY SampledFacts
<1>3. /\ SamplesInv' /\ figure' = "continuous" /\ Len(sampled') = n + 1 /\ sampled' # <<>>
  <2>1. <<index, x>> \in SampleSet
    BY DEF SampleSet
  <2> QED
    BY <1>1, <1>2, <2>1, RememberFacts
<1>4. PICK i : i = First
  OBVIOUS
<1>5. PICK f : f = Second
  OBVIOUS
<1>6. PICK j : j = First'
  OBVIOUS
<1>7. PICK g : g = Second'
  OBVIOUS
<1>8. /\ \A k \in Places' : sampled'[k][1] \in Int /\ sampled'[k][2] \in Int
      /\ \A k \in 1 .. n : j[k] = i[k] /\ g[k] = f[k]
      /\ j[n + 1] = index /\ g[n + 1] = x
      /\ IsIntegers(j, n + 1) /\ IsIntegers(g, n + 1)
      /\ Shifted' <=> Shifted \/ index = NoIndex
  <2>1. \A k \in Places : sampled[k][1] \in Int /\ sampled[k][2] \in Int
    BY <1>1 DEF ContinuousInv
  <2> QED
    BY <1>1, <1>2, <1>4, <1>5, <1>6, <1>7, <2>1, PairFacts
<1>9. ASSUME ~Shifted'
      PROVE  /\ AreIndexes(j, n + 1) /\ lastIndex' = j[n + 1]
             /\ IsWithin(ema', g, n + 1) /\ IsDecayed(ema', j, g, n + 1)
  <2>1. ~Shifted
    BY <1>8, <1>9
  <2>2. CASE n = 0
    <3>1. sampled = <<>>
      BY <1>2, <2>2, SampledFacts
    <3>2. ema' = Whole(x)
      BY <1>1, <3>1 DEF ContinuousInv, Decayed
    <3>3. g[1] = x /\ j[1] = index /\ n + 1 = 1
      BY <1>8, <2>2
    <3>4. AreIndexes(j, 1)
      <4>1. \A k \in 1 .. 1 : k = 1
        OBVIOUS
      <4> QED
        BY <3>3, <4>1 DEF AreIndexes
    <3>5. IsWithin(Whole(x), g, 1) /\ IsDecayed(Whole(x), j, g, 1)
      BY <3>3, <3>4, WithinFirst, DecayedFirst
    <3> QED
      BY <1>1, <1>8, <3>2, <3>3, <3>4, <3>5
  <2>3. CASE n # 0
    <3>1. sampled # <<>>
      BY <1>2, <2>3, SampledFacts
    <3>2. PICK old : old = ema
      OBVIOUS
    <3>3. /\ AreIndexes(i, n) /\ lastIndex = i[n]
          /\ IsWithin(old, f, n) /\ IsDecayed(old, i, f, n)
      BY <1>1, <1>2, <1>4, <1>5, <2>1, <3>1, <3>2 DEF ContinuousInv
    <3>4. n \in 1 .. n /\ n + 1 \in 1 .. n + 1
      BY <2>3
    <3>5. PICK last \in Nat : last = i[n]
      BY <3>3, <3>4 DEF AreIndexes
    <3>6. lastIndex = last /\ last <= index /\ lastIndex # NoIndex
      BY <1>1, <3>3, <3>5 DEF NoIndex
    <3>7. PICK m \in Nat : m = index - last
      BY <3>6
    <3>8. old # None
      BY <3>3, NumberFacts DEF IsWithin
    <3>9. PICK share : share = Minus(Whole(1), Fraction(1, Power(2, m)))
      OBVIOUS
    <3>10. ema' = Mix(share, Whole(x), old)
      BY <1>1, <3>2, <3>6, <3>7, <3>8, <3>9 DEF Decayed, ShareOfNew
    <3>11. AreIndexes(j, n + 1)
      <4>1. \A k \in 1 .. n + 1 : k \in 1 .. n \/ k = n + 1
        OBVIOUS
      <4>2. \A k \in 1 .. n : i[k] \in Nat /\ i[k] <= last
        BY <3>3, <3>4, <3>5 DEF AreIndexes
      <4>3. \A k \in 1 .. n : j[k] \in Nat /\ j[k] <= index
        <5> TAKE k \in 1 .. n
        <5>1. PICK a \in Nat : a = i[k] /\ a <= last
          BY <4>2
        <5>2. a <= index
          BY <3>6, <5>1
        <5> QED
          BY <1>8, <5>1, <5>2
      <4>4. \A h, k \in 1 .. n : h <= k => j[h] <= j[k]
        BY <1>8, <3>3 DEF AreIndexes
      <4>5. \A h \in 1 .. n : ~(n + 1 <= h)
        OBVIOUS
      <4>6. index <= index
        OBVIOUS
      <4>7. \A k \in 1 .. n + 1 : j[k] \in Nat
        BY <1>8, <4>1, <4>3
      <4>8. \A h, k \in 1 .. n + 1 : h <= k => j[h] <= j[k]
        BY <1>8, <4>1, <4>3, <4>4, <4>5, <4>6
      <4> QED
        BY <4>7, <4>8 DEF AreIndexes
    <3>12. j[n] = last /\ j[n + 1] = j[n] + m
      BY <1>8, <3>4, <3>5, <3>6, <3>7
    <3>13. IsDecayed(old, j, g, n)
      <4>1. \A k \in 1 .. n : k # 1 => k - 1 \in 1 .. n
        OBVIOUS
      <4>2. \A k \in 1 .. n : Lasting(j, g, k) = Lasting(i, f, k)
        BY <1>8, <4>1 DEF Lasting
      <4>3. [k \in 1 .. n |-> Lasting(j, g, k)] = [k \in 1 .. n |-> Lasting(i, f, k)]
        BY <4>2
      <4> QED
        BY <3>3, <3>5, <3>12, <4>3 DEF IsDecayed
    <3>14. /\ Is(share, Power(2, m) - 1, Power(2, m))
           /\ IsDecayed(Mix(share, Whole(x), old), j, g, n + 1)
      BY <1>8, <2>3, <3>9, <3>11, <3>12, <3>13, DecayedNext
    <3>15. IsWithin(Mix(share, Whole(x), old), g, n + 1)
      <4>1. PICK d \in Nat \ {0} : d = Power(2, m)
        BY PowerOfTwo
      <4>2. d - 1 \in Nat /\ d - 1 <= d /\ Is(share, d - 1, d)
        BY <3>14, <4>1
      <4> QED
        BY <1>8, <3>3, <4>2, WithinNext
    <3> QED
      BY <1>1, <1>8, <3>10, <3>11, <3>14, <3>15
  <2> QED
    BY <2>2, <2>3
<1>10. ContinuousInv'
  BY <1>3, <1>6, <1>7, <1>8, <1>9 DEF ContinuousInv
<1> QED
  BY <1>3, <1>10 DEF FiguresInv, RangeInv, RegressionInv, DistributionInv, DiscreteInv

\* A value that is added or set takes the average out of what is promised.
LEMMA ShiftedKept ==
    ASSUME SamplesInv, ContinuousInv, NEW x \in Int,
           AddToContinuous(x) \/ SetContinuous(x)
    PROVE  FiguresInv'
<1>1. figure = "continuous" /\ Remember(<<NoIndex, x>>)
  BY DEF AddToContinuous, SetContinuous
<1>2. NoIndex \in Int
  BY DEF NoIndex
<1>3. SamplesInv' /\ figure' = "continuous" /\ sampled' # <<>>
  <2>1. <<NoIndex, x>> \in SampleSet
    BY <1>2 DEF SampleSet
  <2> QED
    BY <1>1, <2>1, RememberFacts
<1>4. \A k \in Places : sampled[k][1] \in Int /\ sampled[k][2] \in Int
  BY <1>1 DEF ContinuousInv
<1>5. /\ \A k \in Places' : sampled'[k][1] \in Int /\ sampled'[k][2] \in Int
      /\ Shifted'
  BY <1>1, <1>2, <1>4, PairFacts
<1>6. ContinuousInv'
  BY <1>3, <1>5 DEF ContinuousInv
<1> QED
  BY <1>3, <1>6 DEF FiguresInv, RangeInv, RegressionInv, DistributionInv, DiscreteInv

\* Nothing sampled.
LEMMA ForgetFacts ==
    ASSUME sampled' = <<>>
    PROVE  /\ SamplesInv' /\ Len(sampled') = 0 /\ Places' = {}
           /\ IsIntegers(sampled', Len(sampled'))
<1>1. <<>> \in Seq(SampleSet)
  OBVIOUS
<1>2. Len(<<>>) = 0 /\ 1 .. 0 = {}
  OBVIOUS
<1> QED
  BY <1>1, <1>2 DEF SamplesInv, Places, IsIntegers

\* A summary that is reset.
LEMMA ResetFacts ==
    ASSUME NEW s, IsSummary(s), NEW f
    PROVE  /\ IsSummary(SummaryReset(s)) /\ DOMAIN SummaryReset(s) = DOMAIN s
           /\ SumsOf(SummaryReset(s), f, 0)
<1>1. PICK r : r = SummaryReset(s)
  OBVIOUS
<1>2. /\ r.count = 0 /\ r.sum = 0 /\ r.average = Zero /\ r.m2 = Zero
      /\ DOMAIN r = DOMAIN s
  BY <1>1, Zenon DEF SummaryReset, IsSummary
<1> QED
  BY <1>1, <1>2, NoSums DEF IsSummary

\* A reset leaves nothing.
LEMMA ResetKept ==
    ASSUME FiguresInv,
           ResetRange \/ ResetRegression \/ ResetDistribution \/ ResetDiscrete \/ ResetContinuous
    PROVE  FiguresInv'
<1>1. sampled' = <<>> /\ figure' = figure
  BY DEF ResetRange, ResetRegression, ResetDistribution, ResetDiscrete, ResetContinuous, Forget
<1>2. /\ SamplesInv' /\ Len(sampled') = 0 /\ Places' = {}
      /\ IsIntegers(sampled', Len(sampled'))
  BY <1>1, ForgetFacts
<1>3. CASE ResetRange
  <2>1. figure = "range" /\ range' = SummaryReset(range)
    BY <1>3 DEF ResetRange, Forget
  <2>2. IsSummary(range) /\ {"min", "max"} \subseteq DOMAIN range
    BY <2>1 DEF FiguresInv, RangeInv
  <2>3. RangeInv'
    BY <1>1, <1>2, <2>1, <2>2, ResetFacts DEF RangeInv
  <2> QED
    BY <1>1, <1>2, <2>1, <2>3
      DEF FiguresInv, RegressionInv, DistributionInv, DiscreteInv, ContinuousInv
<1>4. CASE ResetRegression
  <2>1. /\ figure = "regression"
        /\ regression' = [s \in DOMAIN regression |-> SummaryReset(regression[s])]
    BY <1>4 DEF ResetRegression, Forget
  <2>2. /\ DOMAIN regression = {"x", "y", "xy"}
        /\ IsSummary(regression.x) /\ IsSummary(regression.y) /\ IsSummary(regression.xy)
    BY <2>1 DEF FiguresInv, RegressionInv
  <2>3. /\ DOMAIN regression' = {"x", "y", "xy"}
        /\ regression'.x = SummaryReset(regression.x)
        /\ regression'.y = SummaryReset(regression.y)
        /\ regression'.xy = SummaryReset(regression.xy)
    BY <2>1, <2>2
  <2>4. RegressionInv'
    BY <1>1, <1>2, <2>1, <2>2, <2>3, ResetFacts DEF RegressionInv
  <2> QED
    BY <1>1, <1>2, <2>1, <2>4
      DEF FiguresInv, RangeInv, DistributionInv, DiscreteInv, ContinuousInv
<1>5. CASE ResetDistribution
  <2>1. figure = "distribution" /\ weights' = <<>> /\ weightSum' = 0
    BY <1>5 DEF ResetDistribution, Forget
  <2>2. DOMAIN <<>> = {} /\ IsFiniteSet({})
    BY FS_EmptySet
  <2>3. Total(<<>>, {}) = 0
    BY TotalEmpty
  <2>4. DistributionInv'
    BY <1>1, <2>1, <2>2, <2>3 DEF DistributionInv
  <2> QED
    BY <1>1, <1>2, <2>1, <2>4
      DEF FiguresInv, RangeInv, RegressionInv, DiscreteInv, ContinuousInv
<1>6. CASE ResetDiscrete
  <2>1. figure = "discrete" /\ ema' = None
    BY <1>6 DEF ResetDiscrete, Forget
  <2>2. DiscreteInv'
    BY <1>1, <1>2, <2>1 DEF DiscreteInv, None
  <2> QED
    BY <1>1, <1>2, <2>1, <2>2
      DEF FiguresInv, RangeInv, RegressionInv, DistributionInv, ContinuousInv
<1>7. CASE ResetContinuous
  <2>1. figure = "continuous" /\ ema' = None /\ lastIndex' = NoIndex
    BY <1>7 DEF ResetContinuous, Forget
  <2>2. ContinuousInv'
    BY <1>1, <1>2, <2>1 DEF ContinuousInv, None, NoIndex
  <2> QED
    BY <1>1, <1>2, <2>1, <2>2
      DEF FiguresInv, RangeInv, RegressionInv, DistributionInv, DiscreteInv
<1> QED
  BY <1>3, <1>4, <1>5, <1>6, <1>7

LEMMA FiguresInitially ==
    ASSUME StatisticsInit
    PROVE  FiguresInv
<1>1. /\ sampled = <<>> /\ range = NoRange /\ weights = <<>> /\ weightSum = 0
      /\ regression = [x |-> NoSummary, y |-> NoSummary, xy |-> NoSummary]
      /\ ema = None /\ lastIndex = NoIndex
  BY DEF StatisticsInit
<1>2. <<>> \in Seq(SampleSet) /\ Len(<<>>) = 0 /\ 1 .. 0 = {} /\ DOMAIN <<>> = {}
  OBVIOUS
<1>3. SamplesInv /\ Len(sampled) = 0 /\ Places = {}
  BY <1>1, <1>2 DEF SamplesInv, Places
<1>4. RangeInv
  <2>1. /\ DOMAIN range = {"count", "sum", "average", "m2", "min", "max"}
        /\ range.count = 0 /\ range.sum = 0 /\ range.average = Zero /\ range.m2 = Zero
    BY <1>1 DEF NoRange
  <2>2. SumsOf(range, sampled, 0)
    BY <2>1, NoSums
  <2> QED
    BY <1>1, <1>3, <2>1, <2>2 DEF RangeInv, IsSummary, IsIntegers
<1>5. RegressionInv
  <2>1. PICK s : s = NoSummary
    OBVIOUS
  <2>2. IsSummary(s) /\ \A f : SumsOf(s, f, 0)
    <3>1. /\ DOMAIN s = {"count", "sum", "average", "m2"}
          /\ s.count = 0 /\ s.sum = 0 /\ s.average = Zero /\ s.m2 = Zero
      BY <2>1 DEF NoSummary
    <3> QED
      BY <3>1, NoSums DEF IsSummary
  <2>3. /\ DOMAIN regression = {"x", "y", "xy"}
        /\ regression.x = s /\ regression.y = s /\ regression.xy = s
    BY <1>1, <2>1
  <2> QED
    BY <1>3, <2>2, <2>3 DEF RegressionInv
<1>6. DistributionInv
  <2>1. IsFiniteSet({}) /\ Total(<<>>, {}) = 0
    BY FS_EmptySet, TotalEmpty
  <2> QED
    BY <1>1, <1>2, <2>1 DEF DistributionInv
<1>7. DiscreteInv
  BY <1>1, <1>3 DEF DiscreteInv, IsIntegers
<1>8. ContinuousInv
  BY <1>1, <1>3 DEF ContinuousInv
<1> QED
  BY <1>3, <1>4, <1>5, <1>6, <1>7, <1>8 DEF FiguresInv

LEMMA FiguresKept ==
    ASSUME FiguresInv, [StatisticsNext]_figureVars
    PROVE  FiguresInv'
<1>0. Samples \subseteq Int /\ 0 .. MaxIndex \subseteq Nat
  BY StatisticsAssumption
<1>1. CASE ResetRange \/ ResetRegression \/ ResetDistribution \/ ResetDiscrete \/ ResetContinuous
  BY <1>1, ResetKept
<1>2. ASSUME NEW t \in Samples, SampleRange(t) PROVE FiguresInv'
  BY <1>0, <1>2, RangeKept DEF FiguresInv
<1>3. ASSUME NEW t \in Samples, NEW y \in Samples, SampleRegression(t, y) PROVE FiguresInv'
  BY <1>0, <1>3, RegressionKept DEF FiguresInv
<1>4. ASSUME NEW t \in Samples, NEW weight \in 1 .. 2, SampleDistribution(t, weight) PROVE FiguresInv'
  BY <1>0, <1>4, DistributionKept DEF FiguresInv
<1>5. ASSUME NEW t \in Samples, SampleDiscrete(t) PROVE FiguresInv'
  BY <1>0, <1>5, DiscreteKept DEF FiguresInv
<1>6. ASSUME NEW t \in Samples, AddToContinuous(t) \/ SetContinuous(t) PROVE FiguresInv'
  BY <1>0, <1>6, ShiftedKept DEF FiguresInv
<1>7. ASSUME NEW t \in Samples, NEW index \in 0 .. MaxIndex, SampleContinuous(index, t)
      PROVE FiguresInv'
  BY <1>0, <1>7, ContinuousKept DEF FiguresInv
<1>8. CASE UNCHANGED figureVars
  BY <1>8
    DEF FiguresInv, SamplesInv, RangeInv, RegressionInv, DistributionInv, DiscreteInv,
        ContinuousInv, figureVars, Places, First, Second, Products, Shifted, NoIndex, None
<1> QED
  BY <1>1, <1>2, <1>3, <1>4, <1>5, <1>6, <1>7, <1>8 DEF StatisticsNext

\* What the invariant makes of each figure.
LEMMA RangeTold ==
    ASSUME FiguresInv, figure = "range"
    PROVE  RangeIsExact
<1>1. PICK n \in Nat : n = Len(sampled)
  BY SampledFacts DEF FiguresInv
<1>2. PICK f : f = sampled
  OBVIOUS
<1>3. /\ Places = 1 .. n /\ DOMAIN f = 1 .. n /\ (sampled = <<>> <=> n = 0)
      /\ IsIntegers(f, n) /\ SumsOf(range, f, n)
  BY <1>1, <1>2, SampledFacts DEF FiguresInv, RangeInv
<1>4. IsSummaryOf(range, sampled)
  <2>1. PICK s : s = range
    OBVIOUS
  <2>2. /\ s.count = n /\ s.sum = Total(f, 1 .. n)
        /\ Times(s.average, Whole(n)) = Whole(Total(f, 1 .. n))
        /\ Times(s.m2, Whole(n)) =
             Whole(n * Total([k \in 1 .. n |-> f[k] * f[k]], 1 .. n)
                     - Total(f, 1 .. n) * Total(f, 1 .. n))
    BY <1>3, <2>1, SumsAreExact DEF IsIntegers
  <2> QED
    BY <1>1, <1>2, <1>3, <2>1, <2>2, Zenon DEF IsSummaryOf
<1>5. ASSUME n # 0
      PROVE  range.min = Min(Range(sampled)) /\ range.max = Max(Range(sampled))
  <2>1. PICK S : S = {f[k] : k \in 1 .. n}
    OBVIOUS
  <2>2. Range(sampled) = S
    BY <1>2, <1>3, <2>1 DEF Range
  <2>3. /\ Min(S) \in S /\ \A x \in S : Min(S) <= x
        /\ Max(S) \in S /\ \A x \in S : x <= Max(S)
    BY <1>3, <1>5, <2>1, BoundsFacts DEF IsIntegers
  <2>4. PICK a : a = range.min
    OBVIOUS
  <2>5. PICK b : b = range.max
    OBVIOUS
  <2>6. /\ \E k \in 1 .. n : f[k] = a
        /\ \E k \in 1 .. n : f[k] = b
        /\ \A k \in 1 .. n : a <= f[k] /\ f[k] <= b
    BY <1>2, <1>3, <1>5, <2>4, <2>5 DEF FiguresInv, RangeInv
  <2>7. a \in S /\ b \in S /\ \A x \in S : a <= x /\ x <= b
    BY <2>1, <2>6
  <2>8. S \subseteq Int
    BY <1>3, <2>1 DEF IsIntegers
  <2>9. PICK least \in Int : least = Min(S)
    BY <2>3, <2>8
  <2>10. PICK most \in Int : most = Max(S)
    BY <2>3, <2>8
  <2>11. a \in Int /\ b \in Int /\ a <= least /\ least <= a /\ b <= most /\ most <= b
    BY <2>3, <2>7, <2>8, <2>9, <2>10
  <2>12. a = least /\ b = most
    BY <2>11
  <2> QED
    BY <2>2, <2>4, <2>5, <2>9, <2>10, <2>12
<1> QED
  BY <1>3, <1>4, <1>5 DEF RangeIsExact

LEMMA RegressionTold ==
    ASSUME FiguresInv, figure = "regression"
    PROVE  /\ IsSummaryOf(regression.x, [k \in Places |-> sampled[k][1]])
           /\ IsSummaryOf(regression.y, [k \in Places |-> sampled[k][2]])
           /\ RegressionIsExact
<1>1. PICK n \in Nat : n = Len(sampled)
  BY SampledFacts DEF FiguresInv
<1>2. /\ Places = 1 .. n
      /\ \A k \in 1 .. n : First[k] = sampled[k][1] /\ Second[k] = sampled[k][2]
      /\ \A k \in 1 .. n : sampled[k][1] \in Int /\ sampled[k][2] \in Int
      /\ SumsOf(regression.x, First, n) /\ SumsOf(regression.y, Second, n)
  BY <1>1, SampledFacts DEF FiguresInv, RegressionInv
<1>3. ASSUME NEW s, NEW f, \A k \in 1 .. n : f[k] \in Int, SumsOf(s, f, n)
      PROVE  IsSummaryOf(s, f)
  <2>1. /\ s.count = n /\ s.sum = Total(f, 1 .. n)
        /\ Times(s.average, Whole(n)) = Whole(Total(f, 1 .. n))
        /\ Times(s.m2, Whole(n)) =
             Whole(n * Total([k \in 1 .. n |-> f[k] * f[k]], 1 .. n)
                     - Total(f, 1 .. n) * Total(f, 1 .. n))
    BY <1>3, SumsAreExact
  <2> QED
    BY <1>1, <1>2, <2>1, Zenon DEF IsSummaryOf
<1>4. IsSummaryOf(regression.x, First) /\ IsSummaryOf(regression.y, Second)
  <2>1. \A k \in 1 .. n : First[k] \in Int /\ Second[k] \in Int
    BY <1>2
  <2> QED
    BY <1>2, <1>3, <2>1
<1>5. First = [k \in Places |-> sampled[k][1]] /\ Second = [k \in Places |-> sampled[k][2]]
  BY DEF First, Second
<1>6. RegressionIsExact
  BY <1>1, LineIsExact DEF FiguresInv
<1> QED
  BY <1>4, <1>5, <1>6

LEMMA DiscreteTold ==
    ASSUME FiguresInv, figure = "discrete", sampled # <<>>
    PROVE  IsBetween(ema, Range(sampled))
<1>1. PICK n \in Nat : n = Len(sampled)
  BY SampledFacts DEF FiguresInv
<1>2. PICK f : f = sampled
  OBVIOUS
<1>3. DOMAIN f = 1 .. n /\ n # 0 /\ IsIntegers(f, n) /\ IsWithin(ema, f, n)
  BY <1>1, <1>2, SampledFacts DEF FiguresInv, DiscreteInv
<1>4. Range(f) = {f[k] : k \in 1 .. n}
  BY <1>3 DEF Range
<1> QED
  BY <1>2, <1>3, <1>4, WithinIsBetween

LEMMA DistributionTold ==
    ASSUME FiguresInv, figure = "distribution"
    PROVE  DistributionIsExact
<1> SUFFICES ASSUME sampled # <<>> PROVE DistributionIsExact
  BY DEF DistributionIsExact
<1>1. PICK w : w = weights
  OBVIOUS
<1>2. PICK D : D = DOMAIN w
  OBVIOUS
<1>3. /\ IsFiniteSet(D) /\ D \subseteq Int /\ D # {}
      /\ \A v \in D : w[v] \in Nat \ {0}
      /\ weightSum = Total(w, D)
  BY <1>1, <1>2 DEF FiguresInv, DistributionInv
<1>4. PICK W \in Nat \ {0} : W = weightSum
  <2>1. PICK v \in D : TRUE
    BY <1>3
  <2>2. \A u \in D : w[u] \in Nat
    BY <1>3
  <2>3. Total(w, D) \in Nat /\ w[v] <= Total(w, D)
    BY <1>3, <2>2, TotalNat
  <2>4. PICK a \in Nat \ {0} : a = w[v]
    BY <1>3
  <2>5. PICK b \in Nat : b = Total(w, D)
    BY <2>3
  <2>6. b # 0
    BY <2>3, <2>4, <2>5
  <2> QED
    BY <1>3, <2>5, <2>6
<1>5. Cdf(Max(DOMAIN weights)) = Whole(1)
  <2>1. PICK m : m = Max(D)
    OBVIOUS
  <2>2. \A v \in D : v <= m
    BY <1>3, <2>1, FiniteBounds
  <2>3. {v \in D : v <= m} = D
    BY <2>2
  <2>4. Cdf(m) = Fraction(W, W)
    BY <1>1, <1>2, <1>3, <1>4, <2>3 DEF Cdf, CumulativeWeight
  <2>5. 1 * W = W
    OBVIOUS
  <2>6. Fraction(1 * W, W) = Whole(1)
    BY FractionIsWhole
  <2> QED
    BY <1>1, <1>2, <2>1, <2>4, <2>5, <2>6
<1>6. ASSUME NEW t \in Samples
      PROVE  Equals(Cdf(t), FractionTotal([v \in DOMAIN weights |-> Pdf(v)],
                                          {v \in DOMAIN weights : v <= t}))
  <2>1. PICK S : S = {v \in D : v <= t}
    OBVIOUS
  <2>2. IsFiniteSet(S) /\ S \subseteq D
    BY <1>3, <2>1, FS_Subset
  <2>3. PICK p : p = [v \in D |-> Fraction(w[v], W)]
    OBVIOUS
  <2>4. [v \in DOMAIN weights |-> Pdf(v)] = p
    BY <1>1, <1>2, <1>4, <2>3 DEF Pdf
  <2>5. \A v \in S : w[v] \in Int /\ Is(p[v], w[v], W)
    <3> TAKE v \in S
    <3>1. PICK a \in Nat \ {0} : a = w[v]
      BY <1>3, <2>2
    <3>2. Is(Fraction(a, W), a, W)
      BY FractionIs
    <3>3. p[v] = Fraction(a, W)
      BY <2>2, <2>3, <3>1
    <3> QED
      BY <3>1, <3>2, <3>3
  <2>6. Is(FractionTotal(p, S), Total(w, S), W)
    BY <2>2, <2>5, FractionTotalIs
  <2>7. PICK T \in Int : T = Total(w, S)
    BY <2>2, <2>5, TotalRemove
  <2>8. Cdf(t) = Fraction(T, W)
    BY <1>1, <1>2, <1>4, <2>1, <2>7 DEF Cdf, CumulativeWeight
  <2>9. Is(Cdf(t), T, W)
    BY <2>8, FractionIs
  <2>10. Equals(Cdf(t), FractionTotal(p, S))
    BY <2>6, <2>7, <2>9, IsEqual
  <2> QED
    BY <1>1, <1>2, <2>1, <2>4, <2>10
<1> QED
  BY <1>5, <1>6 DEF DistributionIsExact

\* What is left at the index l of something at the index j.
LEMMA LeftIs ==
    ASSUME NEW l \in Nat, NEW j \in Nat, j <= l
    PROVE  Is(Fraction(1, Power(2, l - j)), Power(2, j), Power(2, l))
<1>1. PICK m \in Nat : m = l - j
  OBVIOUS
<1>2. PICK a \in Nat \ {0} : a = Power(2, m)
  BY PowerOfTwo
<1>3. PICK b \in Nat \ {0} : b = Power(2, j)
  BY PowerOfTwo
<1>4. PICK c \in Nat \ {0} : c = Power(2, l)
  BY PowerOfTwo
<1>5. c = b * a
  <2>1. j + m = l
    BY <1>1
  <2>2. Power(2, j + m) = Power(2, j) * Power(2, m)
    BY PowerSum
  <2> QED
    BY <1>2, <1>3, <1>4, <2>1, <2>2
<1>6. Is(Fraction(1, a), 1, a)
  BY FractionIs
<1>7. 1 * c = b * a /\ b \in Int
  BY <1>5
<1>8. Is(Fraction(1, a), b, c)
  BY <1>6, <1>7, IsAlso
<1> QED
  BY <1>1, <1>2, <1>3, <1>4, <1>8

\* What a sample counts for.
LEMMA ShareIs ==
    ASSUME NEW f, NEW g, NEW p \in Int, NEW q \in Int, NEW c \in Nat \ {0},
           Is(f, p, c), Is(g, q, c), NEW x \in Int
    PROVE  Is(Times(Minus(f, g), Whole(x)), (p - q) * x, c)
<1>1. PICK h : h = Minus(f, g)
  OBVIOUS
<1>2. Is(h, p * c - q * c, c * c)
  BY <1>1, FractionSum
<1>3. p * c - q * c = (p - q) * c
  BY ONLY p \in Int, q \in Int, c \in Nat \ {0}
<1>4. Is(h, p - q, c)
  <2>1. p - q \in Int /\ c \in Int /\ c # 0
    OBVIOUS
  <2> QED
    BY <1>2, <1>3, <2>1, IsCancel
<1>5. Is(Whole(x), x, 1)
  BY WholeIsNumber
<1>6. Is(Times(h, Whole(x)), (p - q) * x, c * 1)
  <2>1. p - q \in Int /\ c \in Int /\ 1 \in Int
    OBVIOUS
  <2> QED
    BY <1>4, <1>5, <2>1, FractionSum
<1>7. c * 1 = c
  OBVIOUS
<1> QED
  BY <1>1, <1>6, <1>7

LEMMA ContinuousTold ==
    ASSUME FiguresInv, figure = "continuous", sampled # <<>>, ~Shifted
    PROVE  IsBetween(ema, {sampled[k][2] : k \in Places}) /\ DecayIsExact
<1>1. PICK n \in Nat : n = Len(sampled)
  BY SampledFacts DEF FiguresInv
<1>2. PICK i : i = First
  OBVIOUS
<1>3. PICK f : f = Second
  OBVIOUS
<1>4. /\ Places = 1 .. n /\ n # 0
      /\ \A k \in 1 .. n : i[k] = sampled[k][1] /\ f[k] = sampled[k][2]
  BY <1>1, <1>2, <1>3, SampledFacts DEF FiguresInv
<1>5. IsIntegers(f, n)
  BY <1>4 DEF FiguresInv, ContinuousInv, IsIntegers
<1>6. /\ AreIndexes(i, n) /\ lastIndex = i[n]
      /\ IsWithin(ema, f, n) /\ IsDecayed(ema, i, f, n)
  BY <1>1, <1>2, <1>3 DEF FiguresInv, ContinuousInv
<1>7. IsBetween(ema, {sampled[k][2] : k \in Places})
  <2>1. PICK S : S = {f[k] : k \in 1 .. n}
    OBVIOUS
  <2>2. {sampled[k][2] : k \in Places} = S
    BY <1>4, <2>1
  <2> QED
    BY <1>4, <1>5, <1>6, <2>1, <2>2, WithinIsBetween
<1>8. PICK l \in Nat : l = lastIndex
  BY <1>4, <1>6 DEF AreIndexes
<1>9. PICK c \in Nat \ {0} : c = Power(2, l)
  BY PowerOfTwo
<1>10. \A k \in 1 .. n : i[k] \in Nat /\ i[k] <= l
  BY <1>4, <1>6, <1>8 DEF AreIndexes
<1>11. \A k \in 1 .. n : Is(LeftOf(k), Power(2, i[k]), c)
  <2> TAKE k \in 1 .. n
  <2>1. PICK j \in Nat : j = i[k] /\ j <= l
    BY <1>10
  <2>2. LeftOf(k) = Fraction(1, Power(2, l - j))
    <3>1. k # 0
      OBVIOUS
    <3> QED
      BY <1>4, <1>8, <2>1, <3>1 DEF LeftOf
  <2> QED
    BY <1>9, <2>1, <2>2, LeftIs
<1>12. Is(LeftOf(0), 0, c)
  <2>1. LeftOf(0) = <<0, 1>>
    BY DEF LeftOf, Zero, Whole
  <2>2. 0 * c = 0 * 1
    OBVIOUS
  <2>3. LeftOf(0)[1] = 0 /\ LeftOf(0)[2] = 1
    BY <2>1
  <2> QED
    BY <2>2, <2>3 DEF Is
<1>13. PICK a : a = [k \in 1 .. n |-> Lasting(i, f, k)]
  OBVIOUS
<1>14. PICK p : p = [k \in 1 .. n |-> Times(Minus(LeftOf(k), LeftOf(k - 1)), Whole(f[k]))]
  OBVIOUS
<1>15. \A k \in 1 .. n : a[k] \in Int /\ Is(p[k], a[k], c)
  <2> TAKE k \in 1 .. n
  <2>1. Lasting(i, f, k) \in Int
    BY <1>5, <1>6, LastingIsInteger
  <2>0. \A m \in 1 .. n : Power(2, i[m]) \in Int
    <3> TAKE m \in 1 .. n
    <3>1. PICK j \in Nat : j = i[m]
      BY <1>10
    <3>2. Power(2, j) \in Nat \ {0}
      BY PowerOfTwo
    <3> QED
      BY <3>1, <3>2
  <2>2. PICK r \in Int : r = Power(2, i[k])
    BY <2>0
  <2>3. PICK q \in Int : q = IF k = 1 THEN 0 ELSE Power(2, i[k - 1])
    <3>1. k # 1 => k - 1 \in 1 .. n
      OBVIOUS
    <3>2. CASE k = 1
      BY <3>2
    <3>3. CASE k # 1
      <4>1. Power(2, i[k - 1]) \in Int
        BY <2>0, <3>1, <3>3
      <4> QED
        BY <3>3, <4>1
    <3> QED
      BY <3>2, <3>3
  <2>4. Is(LeftOf(k - 1), q, c)
    <3>1. CASE k = 1
      BY <1>12, <2>3, <3>1
    <3>2. CASE k # 1
      <4>1. k - 1 \in 1 .. n
        BY <3>2
      <4> QED
        BY <1>11, <2>3, <3>2, <4>1
    <3> QED
      BY <3>1, <3>2
  <2>5. Is(LeftOf(k), r, c)
    BY <1>11, <2>2
  <2>6. PICK x \in Int : x = f[k]
    BY <1>5 DEF IsIntegers
  <2>7. Is(Times(Minus(LeftOf(k), LeftOf(k - 1)), Whole(x)), (r - q) * x, c)
    BY <2>4, <2>5, ShareIs
  <2>8. Lasting(i, f, k) = (r - q) * x
    BY <2>2, <2>3, <2>6 DEF Lasting
  <2> QED
    BY <1>13, <1>14, <2>1, <2>6, <2>7, <2>8
<1>16. Is(FractionTotal(p, 1 .. n), Total(a, 1 .. n), c)
  <2>1. IsFiniteSet(1 .. n)
    BY FS_Interval
  <2> QED
    BY <1>15, <2>1, FractionTotalIs
<1>17. Is(ema, Total(a, 1 .. n), c)
  BY <1>6, <1>8, <1>9, <1>13 DEF IsDecayed
<1>18. PICK t \in Int : t = Total(a, 1 .. n)
  <2>1. IsIntegers(a, n)
    BY <1>15 DEF IsIntegers
  <2> QED
    BY <2>1, TotalIsInteger
<1>19. Equals(ema, FractionTotal(p, 1 .. n))
  BY <1>16, <1>17, <1>18, IsEqual
<1>20. DecayIsExact
  <2>1. [k \in Places |-> Times(Minus(LeftOf(k), LeftOf(k - 1)), Whole(sampled[k][2]))] = p
    BY <1>4, <1>14
  <2> QED
    BY <1>4, <1>19, <2>1 DEF DecayIsExact
<1> QED
  BY <1>7, <1>20

\* Each figure is what its definition makes of the samples since the last reset(),
\* for any samples, shares and indexes.
THEOREM FiguresAreExactHolds == StatisticsSpec => []FiguresAreExact
<1>1. StatisticsInit => FiguresInv
  BY FiguresInitially
<1>2. FiguresInv /\ [StatisticsNext]_figureVars => FiguresInv'
  BY FiguresKept
<1>3. FiguresInv => FiguresAreExact
  <2> SUFFICES ASSUME FiguresInv PROVE FiguresAreExact
    OBVIOUS
  <2>1. MomentsAreExact
    BY RangeTold, RegressionTold DEF MomentsAreExact
  <2>2. AveragesAreWeighted
    BY DistributionTold, DiscreteTold, ContinuousTold DEF AveragesAreWeighted
  <2> QED
    BY <2>1, <2>2 DEF FiguresAreExact
<1> QED
  BY <1>1, <1>2, <1>3, PTL DEF StatisticsSpec
=============================================================================
