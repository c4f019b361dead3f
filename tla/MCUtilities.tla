------------------------------ MODULE MCUtilities ------------------------------
(***************************************************************************)
(* The utilities of Werk: sliding windows, figures, small actions and      *)
(* registries; and the commands of an application with the programs that   *)
(* send them.  They share no state: in each behaviour one specification    *)
(* takes its steps and the others stay as they were.                       *)
(***************************************************************************)
EXTENDS SlidingWindow, Statistics, Actions, Registries, Bits, Commands, ConsolePrograms, TLC

VARIABLE part

MCAlpha == <<1, 4>>

\* One action of each class; a compound one with actions of every other depth.
MCClass ==
    [nothing |-> "null", tally |-> "counter", set |-> "set", clear |-> "reset latch",
     restart |-> "reset counter", bump |-> "increment", gate |-> "conditional",
     two |-> "pair", all |-> "compound"]
MCParts ==
    [nothing |-> <<>>, tally |-> <<>>, set |-> <<>>, clear |-> <<>>, restart |-> <<>>,
     bump |-> <<>>, gate |-> <<"two">>, two |-> <<"bump", "tally">>,
     all |-> <<"gate", "bump", "clear", "restart", "nothing">>]
MCTemplates == [initial : {1}, increment : {3}, mode : Mode]

\* Two logs of the same name, and one with the name of a log of the Context.
MCNameOf == [own |-> "Mine", same |-> "Mine", shadow |-> "StdoutLog"]

\* Two paths to the same library.
MCLibraryOf == [link |-> "lib", file |-> "lib", other |-> "plugin"]

\* One command of each kind, with an alias of a plain command, one of "redo" and one
\* of that alias.
MCAliases == "alias" :> "echo" @@ "again" :> "redo" @@ "twice" :> "again"

\* Quitting in the arguments, in the middle of a line, at the end of one, or never.
MCScripts ==
    [arguments : {<<>>, <<"command", "quit">>},
     lines : {<<>>, << <<>>, <<"quit", "command">> >>, << <<"command", "consoleQuit">> >>},
     ends : BOOLEAN]

\* A part that takes no steps starts in one state.
MCInit ==
    /\ WindowsInit /\ StatisticsInit /\ ActionsInit /\ RegistriesInit
    /\ Init /\ ProgramsInit
    /\ part \in {"windows", "figures", "actions", "logs", "libraries", "ids",
                "commands", "programs"}
    /\ part # "windows" => kind = "window"
    /\ part # "figures" => figure = "range"
    /\ part # "actions" => template.mode = "ADD" /\ ~latch
    /\ part # "logs" => asserts /\ Len(todo) = 3
    /\ part # "ids" => start = 0 /\ step = 1
    /\ part # "programs" => script = [c \in Client |-> CHOOSE s \in Scripts : TRUE]

WindowsStep ==
    /\ part = "windows" /\ WindowsNext
    /\ UNCHANGED <<part, figureVars, actionVars, registryVars, vars, programVars>>
FiguresStep ==
    /\ part = "figures" /\ StatisticsNext
    /\ UNCHANGED <<part, windowVars, actionVars, registryVars, vars, programVars>>
ActionsStep ==
    /\ part = "actions" /\ ActionsNext
    /\ UNCHANGED <<part, windowVars, figureVars, registryVars, vars, programVars>>
RegistriesStep ==
    /\ \/ part = "logs" /\ LogsNext
       \/ part = "libraries" /\ LibrariesNext
       \/ part = "ids" /\ IdsNext
    /\ UNCHANGED <<part, windowVars, figureVars, actionVars, vars, programVars>>
CommandsStep ==
    /\ part = "commands" /\ Next
    /\ UNCHANGED <<part, windowVars, figureVars, actionVars, registryVars, programVars>>
ProgramsStep ==
    /\ part = "programs" /\ ProgramsNext
    /\ UNCHANGED <<part, windowVars, figureVars, actionVars, registryVars, vars>>

allVars == <<part, windowVars, figureVars, actionVars, registryVars, vars, programVars>>

\* The fairness of ConsolePrograms, where it takes its steps.
MCSpec ==
    /\ MCInit
    /\ [][\/ WindowsStep \/ FiguresStep \/ ActionsStep \/ RegistriesStep
          \/ CommandsStep \/ ProgramsStep]_allVars
    /\ \A c \in Client :
         /\ WF_programVars(part = "programs" /\ MainThread(c))
         /\ WF_programVars(part = "programs" /\ HeartThread(c))
=============================================================================
