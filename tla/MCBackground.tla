----------------------------- MODULE MCBackground -----------------------------
(***************************************************************************)
(* Five specifications of what happens around the tasks of a background    *)
(* thread: the list of them, their profiles, the scheduler and the timer,  *)
(* the watchdog, and what is read of a configuration while the thread      *)
(* reloads it.  They share no state: in each behaviour one of them takes   *)
(* its steps and the others stay as they were.                             *)
(***************************************************************************)
EXTENDS TaskList, Profiles, Timers, Watchdog, ConfigReads

VARIABLE part

\* Two tasks with the same name, and the two profiles of the main thread.
MCNameOf == [p \in ProfileOf |-> CASE p \in Timed -> 1 [] p = Inter -> 2 [] OTHER -> 3]
MCSampleSize == [p \in ProfileOf |-> IF p \in Timed THEN 3 ELSE 2]
MCWarmupSize == [p \in ProfileOf |-> IF p = Inter THEN 1 ELSE 0]
MCFractions == << <<1, 2>>, <<3, 4>> >>

\* Tasks of the scheduler that are repeated for ever, that are run a second time at
\* once, and that are run once.
MCRequests == {[interval |-> 1, repeat |-> -1], [interval |-> 0, repeat |-> 2],
               [interval |-> 2, repeat |-> 0]}

\* Units of which one begins as another, and texts of every kind: 0.3 of 50 is read as
\* 14, and 2.6 of 8 as 21.
MCUnits ==
    [time |-> <<[letters |-> <<"m">>, size |-> 50],
                [letters |-> <<"s">>, size |-> 10],
                [letters |-> <<"m", "s">>, size |-> 5],
                [letters |-> <<"n", "s">>, size |-> 1]>>,
     storage |-> <<[letters |-> <<"M">>, size |-> 32], [letters |-> <<"K">>, size |-> 8]>>]

\* Doubles of six bits.
MCPlaces == {2 ^ e : e \in 0 .. 14}

MCTrueWords == {<<"t">>}

Word(letter) == [tenths |-> <<>>, letters |-> <<letter>>]
Number(tenths, letters) == [tenths |-> <<tenths>>, letters |-> letters]

MCText ==
    {Word("t"), Word("m"), Number(10, <<>>), Number(-10, <<>>), Number(700, <<>>),
     Number(3, <<"m">>), Number(10, <<"m">>), Number(100, <<"m">>), Number(-10, <<"s">>),
     Number(20, <<"m", "s">>), Number(26, <<"K">>), Number(20, <<"K">>)}

\* A text of its own in each scope that has the key, or any text in all of them.
MCConfigurations ==
    {[s \in 0 .. 2 |-> IF s \in places
                         THEN <<Word("t"), Number(10, <<>>), Number(26, <<"K">>)>>[s + 1]
                         ELSE Missing] : places \in SUBSET (0 .. 2)}
    \union {[s \in 0 .. 2 |-> t] : t \in MCText}

\* A part that takes no steps starts in one state.
MCInit ==
    /\ ListInit /\ ProfilesInit /\ TimersInit /\ Init /\ ReadsInit
    /\ part \in {"list", "profiles", "timers", "watchdog", "reads"}
    /\ part # "watchdog" => now = 0
    /\ part # "reads" => /\ scopes = 0 /\ getter = "String"
                         /\ active = [s \in 0 .. 2 |-> Missing]

ListStep ==
    /\ part = "list" /\ ListNext
    /\ UNCHANGED <<part, profileVars, wheelVars, vars, readVars>>
ProfilesStep ==
    /\ part = "profiles" /\ ProfilesNext
    /\ UNCHANGED <<part, listVars, wheelVars, vars, readVars>>
TimersStep ==
    /\ part = "timers" /\ TimersNext
    /\ UNCHANGED <<part, listVars, profileVars, vars, readVars>>
WatchdogStep ==
    /\ part = "watchdog" /\ Next
    /\ UNCHANGED <<part, listVars, profileVars, wheelVars, readVars>>
ReadsStep ==
    /\ part = "reads" /\ ReadsNext
    /\ UNCHANGED <<part, listVars, profileVars, wheelVars, vars>>

allVars == <<part, listVars, profileVars, wheelVars, vars, readVars>>

MCSpec ==
    /\ MCInit
    /\ [][ListStep \/ ProfilesStep \/ TimersStep \/ WatchdogStep \/ ReadsStep]_allVars
=============================================================================
