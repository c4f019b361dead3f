-------------------------------- MODULE Actions --------------------------------
(***************************************************************************)
(* The small actions that an application is wired from (Werk/Utility:      *)
(* Action, Latch, Counter): null, counting, pairs and lists of actions,    *)
(* setting and resetting, and an action that is executed only if a latch   *)
(* is set -- which another thread or a signal may set at any moment.       *)
(*                                                                         *)
(* execute() of an action that holds others calls theirs.  The calls to    *)
(* come are a stack, and what is on its top is executed next.              *)
(***************************************************************************)
EXTENDS Arithmetic, Sequences, FiniteSets

CONSTANTS
    Class,                      \* the class of each action
    Parts,                      \* the actions that each holds, in their order
    Templates,                  \* the parameters that a Counter may have
    CounterModulus,             \* stands for 2^64
    MaxCalls                    \* bound on the calls from outside

Action == DOMAIN Class
Mode == {"ADD", "MULTIPLY", "LSHIFT"}

\* Which actions can be reached in at most n steps.
Within[n \in Nat] ==
    [a \in Action |-> IF n = 0 THEN {}
        ELSE UNION {{Parts[a][k]} \union Within[n - 1][Parts[a][k]] : k \in DOMAIN Parts[a]}]

\* No action holds itself: it would be executed for ever.
ASSUME ActionsAssumption ==
    /\ Class \in [Action -> {"null", "counter", "compound", "pair", "set", "reset latch",
                             "reset counter", "conditional", "increment"}]
    /\ DOMAIN Parts = Action /\ IsFiniteSet(Action)
    /\ \A a \in Action :
         /\ Parts[a] \in Seq(Action)
         /\ a \notin Within[Cardinality(Action)][a]
         /\ Class[a] = "pair" => Len(Parts[a]) = 2
         /\ Class[a] = "conditional" => Len(Parts[a]) = 1
         /\ Class[a] \notin {"pair", "conditional", "compound"} => Parts[a] = <<>>
    /\ Templates \subseteq [initial : 0 .. CounterModulus - 1, increment : Nat, mode : Mode]
    /\ CounterModulus \in Nat \ {0} /\ MaxCalls \in Nat

VARIABLES
    template,                   \* of the counter
    counter,                    \* Counter::_value
    executed,                   \* CounterAction::_count
    latch,                      \* Latch::_value
    stack,                      \* the calls to come, the next one first
    \* History, which no action reads:
    called,                     \* calls from outside
    runs,                       \* executions of each action
    taken,                      \* times a conditional action found its latch set
    increments                  \* of the counter, since it was reset

actionVars == <<template, counter, executed, latch, stack, called, runs, taken, increments>>

ActionsInit ==
    /\ template \in Templates
    /\ counter = template.initial
    /\ executed = 0
    /\ latch \in BOOLEAN
    /\ stack = <<>>
    /\ called = [a \in Action |-> 0]
    /\ runs = [a \in Action |-> 0]
    /\ taken = [a \in Action |-> 0]
    /\ increments = 0
-----------------------------------------------------------------------------
Call(a) ==
    /\ stack = <<>>
    /\ Total(called, Action) < MaxCalls
    /\ stack' = <<a>>
    /\ called' = [called EXCEPT ![a] = @ + 1]
    /\ UNCHANGED <<template, counter, executed, latch, runs, taken, increments>>

\* The latch is atomic: a signal handler or another thread sets it meanwhile.
SetByOther ==
    /\ stack # <<>> /\ ~latch
    /\ latch' = TRUE
    /\ UNCHANGED <<template, counter, executed, stack, called, runs, taken, increments>>

\* execute() of the action on top, of this class, which calls these others.
Executes(class, others) ==
    /\ stack # <<>> /\ Class[Head(stack)] = class
    /\ stack' = others \o Tail(stack)
    /\ runs' = [runs EXCEPT ![Head(stack)] = @ + 1]
    /\ UNCHANGED <<template, called>>

PartsOfTop == IF stack = <<>> THEN <<>> ELSE Parts[Head(stack)]

ExecuteNull ==
    /\ Executes("null", <<>>)
    /\ UNCHANGED <<counter, executed, latch, taken, increments>>

ExecuteCounter ==
    /\ Executes("counter", <<>>)
    /\ executed' = executed + 1
    /\ UNCHANGED <<counter, latch, taken, increments>>

\* Mutant: leaves out the first.
MutantExecuteCompound ==
    /\ PartsOfTop # <<>>
    /\ Executes("compound", Tail(PartsOfTop))
    /\ UNCHANGED <<counter, executed, latch, taken, increments>>

ExecuteCompound ==
    /\ Executes("compound", PartsOfTop)
    /\ UNCHANGED <<counter, executed, latch, taken, increments>>

ExecutePair ==
    /\ Executes("pair", PartsOfTop)
    /\ UNCHANGED <<counter, executed, latch, taken, increments>>

ExecuteSetLatch ==
    /\ Executes("set", <<>>)
    /\ latch' = TRUE
    /\ UNCHANGED <<counter, executed, taken, increments>>

\* A ResetAction calls the reset() of its component.
ExecuteResetLatch ==
    /\ Executes("reset latch", <<>>)
    /\ latch' = FALSE
    /\ UNCHANGED <<counter, executed, taken, increments>>

ExecuteResetCounter ==
    /\ Executes("reset counter", <<>>)
    /\ counter' = template.initial
    /\ increments' = 0
    /\ UNCHANGED <<executed, latch, taken>>

ExecuteConditional ==
    /\ Executes("conditional", IF latch THEN PartsOfTop ELSE <<>>)
    /\ taken' = IF latch THEN [taken EXCEPT ![Head(stack)] = @ + 1] ELSE taken
    /\ UNCHANGED <<counter, executed, latch, increments>>

\* Mutant: shifts by one.
MutantIncremented(v) == v * 2 % CounterModulus

\* A shift to the left multiplies by a power of two.
Factor ==
    IF template.mode = "MULTIPLY" THEN template.increment ELSE Power(2, template.increment)

Incremented(v) ==
    (IF template.mode = "ADD" THEN v + template.increment ELSE v * Factor) % CounterModulus

ExecuteIncrement ==
    /\ Executes("increment", <<>>)
    /\ counter' = Incremented(counter)
    /\ increments' = increments + 1
    /\ UNCHANGED <<executed, latch, taken>>

ActionsNext ==
    \/ \E a \in Action : Call(a)
    \/ SetByOther
    \/ ExecuteNull \/ ExecuteCounter \/ ExecuteCompound \/ ExecutePair
    \/ ExecuteSetLatch \/ ExecuteResetLatch \/ ExecuteResetCounter
    \/ ExecuteConditional \/ ExecuteIncrement

ActionsSpec == ActionsInit /\ [][ActionsNext]_actionVars
-----------------------------------------------------------------------------
ActionsTypeOK ==
    /\ template \in Templates
    /\ counter \in Nat /\ executed \in Nat /\ increments \in Nat
    /\ latch \in BOOLEAN
    /\ stack \in Seq(Action)
    /\ called \in [Action -> Nat] /\ runs \in [Action -> Nat] /\ taken \in [Action -> Nat]

\* How often a sequence holds an action.
Occurrences(a, seq) == Cardinality({k \in DOMAIN seq : seq[k] = a})

\* How often an action has called its parts.
Calls(b) == IF Class[b] = "conditional" THEN taken[b] ELSE runs[b]

(***************************************************************************)
(* ActionsAreExact: every action is executed once for each time it was     *)
(* called, from outside or by an action that holds it -- by a conditional  *)
(* one only if its latch was set by then -- or that call is still to come; *)
(* and the counters tell how often theirs were, in the arithmetic of their *)
(* mode, with what is beyond the width of the type lost.                   *)
(***************************************************************************)
ActionsAreExact ==
    /\ \A a \in Action :
         runs[a] + Occurrences(a, stack)
           = called[a] + Total([b \in Action |-> Calls(b) * Occurrences(a, Parts[b])], Action)
    /\ executed = Total(runs, {a \in Action : Class[a] = "counter"})
    /\ template.mode = "ADD" => counter =
         (template.initial + increments * template.increment) % CounterModulus
    /\ template.mode = "MULTIPLY" => counter =
         (template.initial * Power(template.increment, increments)) % CounterModulus
    /\ template.mode = "LSHIFT" => counter =
         (template.initial * Power(2, increments * template.increment)) % CounterModulus
=============================================================================
