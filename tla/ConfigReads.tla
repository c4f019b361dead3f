----------------------------- MODULE ConfigReads -----------------------------
(***************************************************************************)
(* Reading a key through a werk::ScopedConfig (Werk/Config) while the      *)
(* background thread swaps in new configurations.                          *)
(*                                                                         *)
(* A read is not of one configuration: findScopedKey() looks at each scope *)
(* in the configuration that is active by then, and the getter reads the   *)
(* key it has found once more.  (A single look is one step: that its       *)
(* pointer survives a reload is the matter of module ConfigReload.)        *)
(***************************************************************************)
EXTENDS Conversions

CONSTANTS
    MaxScopes,                  \* bound on the scopes
    Text, Missing,              \* what a key may have as its value, or none
    Configurations,             \* the values of the key itself (0) and in each scope
    MaxReloads, MaxReads        \* bounds on the reloads and the reads

ASSUME ReadsAssumption ==
    /\ MaxScopes \in Nat
    /\ Missing \notin Text
    /\ \A t \in Text : t.tenths \in Seq(Int)
    /\ Configurations \subseteq [0 .. MaxScopes -> Text \union {Missing}]
    /\ MaxReloads \in Nat /\ MaxReads \in Nat

VARIABLES
    scopes,                     \* how many scopes there are, the innermost first
    active,                     \* *_values, as far as the key is concerned
    reloads, reads,
    at,                         \* where the reader is
    getter,                     \* what it calls
    scope,                      \* the scope it looks at, or has found the key in
    result,
    \* History, which no action reads:
    during,                     \* the configurations that were active during the read
    text                        \* what the getter found for its key

readerVars == <<at, getter, scope, result, text>>
readVars == <<scopes, active, reloads, reads, during, readerVars>>

Getter == {"String", "Strings", "Bool", "Double", "Int64", "Uint64",
           "StorageAmount", "TimeAmount"}

Nothing == [outcome |-> "none", number |-> 0]
Default == [outcome |-> "default", number |-> 0]

ReadsInit ==
    /\ scopes \in 0 .. MaxScopes
    /\ active \in Configurations
    /\ reloads = 0 /\ reads = 0
    /\ at = "idle"
    /\ getter \in Getter
    /\ scope = 0
    /\ result = Nothing
    /\ during = {}
    /\ text = Missing
-----------------------------------------------------------------------------
\* The background thread has loaded another configuration.
Swap(configuration) ==
    /\ reloads < MaxReloads
    /\ reloads' = reloads + 1
    /\ active' = configuration
    /\ during' = during \union {configuration}
    /\ UNCHANGED <<scopes, reads, readerVars>>

BeginRead ==
    /\ at = "idle" /\ reads < MaxReads
    /\ reads' = reads + 1
    /\ at' = "find"
    /\ scope' = 1
    /\ result' = Nothing
    /\ text' = Missing
    /\ during' = {active}
    /\ UNCHANGED <<scopes, active, reloads, getter>>
-----------------------------------------------------------------------------
(***************************************************************************)
(* findScopedKey()                                                         *)
(***************************************************************************)
\* Mutant: goes on to the outermost scope that has the key.
MutantStopsAt(s) == active[s] # Missing /\ s = scopes

StopsAt(s) == active[s] # Missing

Found ==
    /\ at = "find"
    /\ scope <= scopes
    /\ StopsAt(scope)
    /\ at' = "get"
    /\ UNCHANGED <<scopes, active, reloads, reads, during, getter, scope, result, text>>

NextScope ==
    /\ at = "find"
    /\ scope <= scopes
    /\ ~StopsAt(scope)
    /\ scope' = scope + 1
    /\ UNCHANGED <<scopes, active, reloads, reads, during, at, getter, result, text>>

\* Without any scope the key itself, else the key in the innermost scope.
NotFound ==
    /\ at = "find"
    /\ scope > scopes
    /\ scope' = IF scopes = 0 THEN 0 ELSE 1
    /\ at' = "get"
    /\ UNCHANGED <<scopes, active, reloads, reads, during, getter, result, text>>
-----------------------------------------------------------------------------
(***************************************************************************)
(* The getters of Config.  A text is returned as it is, and split for      *)
(* getStrings().                                                           *)
(***************************************************************************)
GetString == getter = "String" /\ result' = Value(0)
GetBool == getter = "Bool" /\ result' \in ToBool(active[scope])
GetDouble == getter = "Double" /\ result' \in ToDouble(active[scope])
GetInt64 == getter = "Int64" /\ result' \in ToInt64(active[scope])
GetUint64 == getter = "Uint64" /\ result' \in ToUint64(active[scope])
GetStorageAmount ==
    getter = "StorageAmount" /\ result' \in ParseUnits("storage", active[scope])
GetTimeAmount == getter = "TimeAmount" /\ result' \in ParseUnits("time", active[scope])
GetStrings == getter = "Strings" /\ result' = Value(0)

Get ==
    \/ active[scope] = Missing /\ result' = Default
    \/ /\ active[scope] # Missing
       /\ \/ GetString \/ GetBool \/ GetDouble \/ GetInt64 \/ GetUint64
          \/ GetStorageAmount \/ GetTimeAmount \/ GetStrings

EndRead ==
    /\ at = "get"
    /\ Get
    /\ text' = active[scope]
    /\ at' = "idle"
    /\ UNCHANGED <<scopes, active, reloads, reads, during, getter, scope>>

Reader == BeginRead \/ Found \/ NextScope \/ NotFound \/ EndRead

ReadsNext == Reader \/ \E configuration \in Configurations : Swap(configuration)

ReadsSpec == ReadsInit /\ [][ReadsNext]_readVars
-----------------------------------------------------------------------------
ReadsTypeOK ==
    /\ scopes \in 0 .. MaxScopes
    /\ active \in Configurations
    /\ reloads \in 0 .. MaxReloads /\ reads \in 0 .. MaxReads
    /\ at \in {"idle", "find", "get"}
    /\ getter \in Getter
    /\ scope \in 0 .. scopes + 1
    /\ at = "get" /\ scopes > 0 => scope \in 1 .. scopes
    /\ result.outcome \in {"none", "default", "thrown", "value"}
    /\ result.outcome = "value" /\ getter \notin {"Double", "Int64"}
         => result.number \in 0 .. IntegerModulus - 1
    /\ during \subseteq Configurations
    /\ text \in Text \union {Missing}

\* Where a configuration has the key, innermost: the scope that a read of this
\* configuration alone is to take it from, or none.
Innermost(configuration) ==
    {s \in (IF scopes = 0 THEN {0} ELSE 1 .. scopes) :
        /\ configuration[s] # Missing
        /\ \A other \in 1 .. s - 1 : configuration[other] = Missing}

ReadDone == at = "idle" /\ result # Nothing

(***************************************************************************)
(* StableScopeIsRead: "allowing for cascading configurations" -- when all  *)
(* configurations that were active during a read have the key in the same  *)
(* innermost scope, the read is of that scope in one of them, whatever was *)
(* swapped between the steps, and never the default.  When they all lack   *)
(* the key, it is the default.                                             *)
(***************************************************************************)
StableScopeIsRead ==
    ReadDone => \A places \in SUBSET (0 .. scopes) :
        (\A configuration \in during : Innermost(configuration) = places)
            => /\ result = Default <=> places = {}
               /\ \A s \in places :
                    \E configuration \in during : text = configuration[s]

(***************************************************************************)
(* ReadOfOneConfiguration: each read is the read of one configuration that *)
(* was active during it.  It is not: a key that moves from one scope to    *)
(* another may be found in neither, and read as the default.               *)
(***************************************************************************)
ReadOfOneConfiguration ==
    ReadDone => \E configuration \in during :
        IF Innermost(configuration) = {}
          THEN text = Missing
          ELSE \A s \in Innermost(configuration) : text = configuration[s]

TableOf == IF getter = "TimeAmount" THEN Units["time"] ELSE Units["storage"]

\* The amount that was read has been taken for one of this unit.
IsReadIn(unit) ==
    /\ ReadDone /\ result.outcome = "value"
    /\ getter \in {"StorageAmount", "TimeAmount"}
    /\ text.letters = unit.letters

NoUnit == [letters |-> <<>>, size |-> 1]

(***************************************************************************)
(* WholeAmountIsExact: a whole number of units, of which some begin with   *)
(* the letters of others, is read as what it says up to the precision of   *)
(* a double, and one without any unit as long as it fits the integer.      *)
(***************************************************************************)
IsWhole == Tenths(text) >= 0 /\ Tenths(text) % 10 = 0

WholeAmountIsExact ==
    \A unit \in Range(TableOf) \union {NoUnit} :
        LET exact == (Tenths(text) \div 10) * unit.size IN
        /\ IsReadIn(unit) /\ IsWhole
        /\ exact < IF unit = NoUnit THEN IntegerModulus ELSE Significands
        => result.number = exact

(***************************************************************************)
(* DecimalIsClose: "Load it as a double so decimals will work" -- a number *)
(* of units with decimals, rounded twice and then cut off, is read as at   *)
(* most one more or one less than its exact amount rounded down, below     *)
(* half of what is exact in a double.                                      *)
(***************************************************************************)
ExactAmount(unit) == (Tenths(text) * unit.size) \div 10

IsDecimalIn(unit) ==
    IsReadIn(unit) /\ Tenths(text) >= 0 /\ ExactAmount(unit) < Significands \div 2

DecimalIsClose ==
    \A unit \in Range(TableOf) : IsDecimalIn(unit) =>
        result.number \in ExactAmount(unit) - 1 .. ExactAmount(unit) + 1

(***************************************************************************)
(* DecimalsWork: the same, exactly.  It does not hold: the nearest double  *)
(* of 0.3 may be less than 0.3, and so may be that of its product.         *)
(***************************************************************************)
DecimalsWork ==
    \A unit \in Range(TableOf) : IsDecimalIn(unit) => result.number = ExactAmount(unit)
=============================================================================
