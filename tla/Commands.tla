------------------------------- MODULE Commands -------------------------------
(***************************************************************************)
(* werk::CommandManager with its aliases and the "redo" command            *)
(* (Werk/Commands).  A line is logged in the history, taken apart into     *)
(* words and dispatched by the first; an alias dispatches the words it     *)
(* stands for; "redo" executes the line before its own in the history.     *)
(*                                                                         *)
(* Lines are known by their first word and by whether the line is just     *)
(* that word, without blanks or arguments.  Nested calls are all in tail   *)
(* position, so the innermost one is enough.                               *)
(***************************************************************************)
EXTENDS Naturals, Sequences, Functions

CONSTANTS
    Plain,                      \* words of commands that only do something
    Aliases,                    \* what the aliases stand for: a function to words
    Unknown,                    \* words that name no command
    Actions,                    \* words of the commands that actions are made for
    MaxEntered,                 \* bound on the lines entered and actions executed
    MaxHistory                  \* bound on the history: where the stack would end

Words == Plain \union DOMAIN Aliases \union Unknown \union {"redo"}

ASSUME ConstantsAssumption ==
    /\ \A a \in DOMAIN Aliases : Aliases[a] \in Words
    /\ Actions \subseteq Words
    /\ MaxEntered \in Nat /\ MaxHistory \in Nat

VARIABLES
    history,                    \* _commandHistory
    capacity,                   \* of that vector
    call,                       \* the innermost call of execute()
    made,                       \* the words whose commands the CommandActions have
    \* History, which no action reads:
    entered,                    \* lines and actions so far
    actions,                    \* those of them that were actions
    redos,                      \* redos inside the current line or action
    allRedos,                   \* redos so far
    done                        \* plain commands executed

vars == <<history, capacity, call, made, entered, actions, redos, allRedos, done>>

Blank == [word |-> "", bare |-> TRUE]
Lines == {Blank} \union [word : Words, bare : BOOLEAN]

Idle == [kind |-> "idle"]
ALine(line) == [kind |-> "line", line |-> line]
ARecordedLine(line) == [kind |-> "recorded", line |-> line]
TheWord(word) == [kind |-> "word", word |-> word]

Init ==
    /\ history = <<>>
    /\ capacity = 0
    /\ call = Idle
    /\ made = {}
    /\ entered = 0 /\ actions = 0
    /\ redos = 0 /\ allRedos = 0
    /\ done = 0
-----------------------------------------------------------------------------
\* A line from the console, the startup or the shutdown commands.
Enter(line) ==
    /\ call = Idle
    /\ entered < MaxEntered
    /\ entered' = entered + 1
    /\ call' = ALine(line)
    /\ redos' = 0
    /\ UNCHANGED <<history, capacity, made, actions, allRedos, done>>

\* newCommandAction() does not trim the line: one that begins with a blank has an empty
\* first word, which no command has, and no action is made for it.
NewCommandAction(line) ==
    /\ call = Idle
    /\ line.word \in Actions \ Unknown
    /\ made' = made \union {line.word}
    /\ UNCHANGED <<history, capacity, call, entered, actions, redos, allRedos, done>>

\* A CommandAction has its command and does not go through the manager.
ExecuteAction(word) ==
    /\ call = Idle
    /\ word \in made
    /\ entered < MaxEntered
    /\ entered' = entered + 1
    /\ actions' = actions + 1
    /\ call' = TheWord(word)
    /\ redos' = 0
    /\ UNCHANGED <<history, capacity, made, allRedos, done>>

Full == Len(history) = capacity

\* The line that is taken apart.  "redo" passes a reference into the history; if
\* that has to grow, it moves the strings away, and an empty one or, where the
\* freed memory looks as before, the same is left behind.
Text ==
    IF call.kind = "recorded" /\ Full THEN {Blank, call.line} ELSE {call.line}

IsBlank(text) == text = Blank

\* execute(const std::string &)
ExecuteLine ==
    /\ call.kind \in {"line", "recorded"}
    /\ Len(history) < MaxHistory
    /\ history' = Append(history, call.line)
    /\ capacity' = IF ~Full THEN capacity ELSE IF capacity = 0 THEN 1 ELSE 2 * capacity
    /\ \E text \in Text : call' = IF IsBlank(text) THEN Idle ELSE TheWord(text.word)
    /\ UNCHANGED <<made, entered, actions, redos, allRedos, done>>

\* execute(const std::vector<std::string> &), with the execute() of the command.
Dispatched(word) == call.kind = "word" /\ call.word = word

ExecutePlain ==
    /\ \E word \in Plain : Dispatched(word)
    /\ call' = Idle
    /\ done' = done + 1
    /\ UNCHANGED <<history, capacity, made, entered, actions, redos, allRedos>>

ExecuteUnknown ==
    /\ \E word \in Unknown : Dispatched(word)
    /\ call' = Idle
    /\ UNCHANGED <<history, capacity, made, entered, actions, redos, allRedos, done>>

ExecuteAlias ==
    /\ \E alias \in DOMAIN Aliases :
         /\ Dispatched(alias)
         /\ call' = TheWord(Aliases[alias])
    /\ UNCHANGED <<history, capacity, made, entered, actions, redos, allRedos, done>>

\* Mutant: without the second condition.
MutantCanRedo == Len(history) >= 2

\* "And can't double redo"
CanRedo ==
    /\ Len(history) >= 2
    /\ history[Len(history) - 1] # [word |-> "redo", bare |-> TRUE]

Redo ==
    /\ Dispatched("redo")
    /\ CanRedo
    /\ call' = ARecordedLine(history[Len(history) - 1])
    /\ redos' = redos + 1
    /\ allRedos' = allRedos + 1
    /\ UNCHANGED <<history, capacity, made, entered, actions, done>>

RefuseRedo ==
    /\ Dispatched("redo")
    /\ ~CanRedo
    /\ call' = Idle
    /\ UNCHANGED <<history, capacity, made, entered, actions, redos, allRedos, done>>

Execute ==
    \/ ExecuteLine \/ ExecutePlain \/ ExecuteUnknown \/ ExecuteAlias
    \/ Redo \/ RefuseRedo

Next ==
    \/ \E line \in Lines : Enter(line) \/ NewCommandAction(line)
    \/ \E word \in Words : ExecuteAction(word)
    \/ Execute

Spec == Init /\ [][Next]_vars
-----------------------------------------------------------------------------
TypeOK ==
    /\ history \in Seq(Lines) /\ Len(history) <= capacity
    /\ call \in {Idle}
         \union [kind : {"line", "recorded"}, line : Lines]
         \union [kind : {"word"}, word : Words]
    /\ made \subseteq Actions
    /\ {capacity, entered, actions, redos, allRedos, done} \subseteq Nat

\* What comes to "redo" in the end: that word and, through any number of others, the
\* aliases of it.
RedoWords ==
    {word \in Words : \A closed \in SUBSET Words :
        /\ "redo" \in closed
        /\ \A alias \in DOMAIN Aliases : Aliases[alias] \in closed => alias \in closed
        => word \in closed}

\* The lines that come to "redo" without being just that word: those with blanks
\* or arguments, and those that begin with an alias of it.
DisguisedRedo ==
    {line \in Lines : line.word \in RedoWords} \ {[word |-> "redo", bare |-> TRUE]}

Disguised == Range(history) \intersect DisguisedRedo # {}

(***************************************************************************)
(* NoDoubleRedo: "And can't double redo" -- what a redo executes is not a  *)
(* redo again, whatever was entered, through aliases, by actions and after *)
(* the history was moved.  This holds as long as every redo was entered as *)
(* the bare word: the code compares texts, and a disguised redo is one     *)
(* that it repeats.                                                        *)
(***************************************************************************)
NoDoubleRedo == redos > 1 => Disguised

(***************************************************************************)
(* HistoryIsHuman: "History is only added here, from human executions" --  *)
(* there is one entry for every line entered and one for every line        *)
(* executed again, and none for aliases and actions.                       *)
(***************************************************************************)
HistoryIsHuman ==
    call.kind \notin {"line", "recorded"} => Len(history) = entered - actions + allRedos

(***************************************************************************)
(* RedoRepeats: "Repeats the last command." -- the line that a redo        *)
(* executes is dispatched to the command it was dispatched to before.      *)
(***************************************************************************)
RedoRepeats ==
    [][call.kind = "recorded" /\ call.line # Blank => call' = TheWord(call.line.word)]_vars
=============================================================================
