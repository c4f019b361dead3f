------------------------------ MODULE Registries ------------------------------
(***************************************************************************)
(* What an application knows by a name or a number: the logs and threads   *)
(* (Werk/Utility/NamedObjectManager.hpp with the managers made of it), the *)
(* dynamic libraries (Werk/OS/DynamicLibraryManager) and the identifiers   *)
(* of IdGenerator.hpp.  Their steps are specified one by one and then      *)
(* taken together: they share no state.                                    *)
(***************************************************************************)
EXTENDS Integers, Sequences, FiniteSets

CONSTANTS
    OwnLog, NameOf,             \* logs that the application adds, their names
    User, Path, LibraryOf,      \* who loads libraries, from where, and which
    Starts, Steps, IdModulus,   \* of identifiers; 2^64
    MaxOffers, MaxLoads, MaxIds \* bounds on what is done

\* The names of the constructor of Context.
Default == {"Null", "StdoutLog", "RealTimeLog", "HistoricalLog"}
Nothing == "nothing"

ASSUME RegistriesAssumption ==
    /\ OwnLog \cap Default = {} /\ Nothing \notin OwnLog
    /\ DOMAIN NameOf = OwnLog
    /\ DOMAIN LibraryOf = Path /\ IsFiniteSet(Path)
    /\ IdModulus \in Nat \ {0} /\ Starts \subseteq 0 .. IdModulus - 1 /\ Steps \subseteq Nat

VARIABLES
    asserts,                    \* a build with asserts: "debug"
    todo,                       \* logs that the constructor has still to create
    existing,                   \* logs there are
    logs,                       \* the LogManager
    offered,                    \* history: the calls of add(), with their results
    entries,                    \* _libraries: which load each entry is of, 0 for none
    pointers,                   \* what load() returned to each user, 0 for nullptr
    handles,                    \* how often dlopen() has opened each library
    loads,                      \* history: entries that were made
    nextId, start, step,        \* of an IdGenerator
    ids                         \* history: those it gave

logVars == <<asserts, todo, existing, logs, offered>>
libraryVars == <<entries, pointers, handles, loads>>
idVars == <<nextId, start, step, ids>>
registryVars == <<logVars, libraryVars, idVars>>

Library == {LibraryOf[p] : p \in Path}
-----------------------------------------------------------------------------
(***************************************************************************)
(* NamedObjectManager: the objects in the order they came, and by name.    *)
(***************************************************************************)
NoObjects == [objects |-> <<>>, byName |-> <<>>]

NameOfLog(l) == IF l \in OwnLog THEN NameOf[l] ELSE l

Get(r, name) == IF name \in DOMAIN r.byName THEN r.byName[name] ELSE Nothing

\* insert() leaves the object alone that already has the name.
IsAdded(r, l) == NameOfLog(l) \notin DOMAIN r.byName

Inserted(byName, l) ==
    [name \in DOMAIN byName \union {NameOfLog(l)} |->
        IF name \in DOMAIN byName THEN byName[name] ELSE l]

\* Mutant: the object is listed in any case.
MutantAdded(r, l) ==
    [objects |-> Append(r.objects, l), byName |-> Inserted(r.byName, l)]

Added(r, l) ==
    IF IsAdded(r, l)
      THEN [objects |-> Append(r.objects, l), byName |-> Inserted(r.byName, l)]
      ELSE r

AddLog(l) ==
    /\ logs' = Added(logs, l)
    /\ offered' = Append(offered, <<l, IsAdded(logs, l)>>)

\* The null log, and then those of Context, the last one if the clock is simulated.
LogsInit ==
    /\ asserts \in BOOLEAN
    /\ todo \in {<<"Null", "StdoutLog", "RealTimeLog">>,
                 <<"Null", "StdoutLog", "RealTimeLog", "HistoricalLog">>}
    /\ existing = {} /\ logs = NoObjects /\ offered = <<>>

\* "assert(_logManager.add(...))": where asserts compile out, so does the call.
CreateLog ==
    /\ todo # <<>>
    /\ existing' = existing \union {Head(todo)}
    /\ IF asserts THEN AddLog(Head(todo)) ELSE UNCHANGED <<logs, offered>>
    /\ todo' = Tail(todo)
    /\ UNCHANGED asserts

\* A log of the application's own, which looks at the result or does not.
AddOwnLog(l) ==
    /\ todo = <<>> /\ Len(offered) < MaxOffers
    /\ AddLog(l)
    /\ existing' = existing \union {l}
    /\ UNCHANGED <<asserts, todo>>

LogsNext ==
    /\ CreateLog \/ \E l \in OwnLog : AddOwnLog(l)
    /\ UNCHANGED <<libraryVars, idVars>>
-----------------------------------------------------------------------------
(***************************************************************************)
(* DynamicLibraryManager: the caches of load() belong to all its users.    *)
(***************************************************************************)
LibrariesInit ==
    /\ entries = [p \in Path |-> 0]
    /\ pointers = [u \in User |-> [p \in Path |-> 0]]
    /\ handles = [l \in Library |-> 0]
    /\ loads = 0

FindLibrary(u, p) ==
    /\ entries[p] # 0
    /\ pointers' = [pointers EXCEPT ![u][p] = entries[p]]
    /\ UNCHANGED <<entries, handles, loads>>

LoadLibrary(u, p) ==
    /\ entries[p] = 0 /\ loads < MaxLoads
    /\ handles' = [handles EXCEPT ![LibraryOf[p]] = @ + 1]
    /\ loads' = loads + 1
    /\ entries' = [entries EXCEPT ![p] = loads']
    /\ pointers' = [pointers EXCEPT ![u][p] = loads']

\* dlopen() finds nothing there; that is not remembered.
FailToLoad(u, p) ==
    /\ entries[p] = 0
    /\ pointers' = [pointers EXCEPT ![u][p] = 0]
    /\ UNCHANGED <<entries, handles, loads>>

\* Mutant: erases the entry and leaves the library open.
MutantClosed(paths) == handles

\* The destructor of each DynamicLibrary closes its handle.
Closed(paths) ==
    [l \in Library |->
       handles[l] - Cardinality({p \in paths : entries[p] # 0 /\ LibraryOf[p] = l})]

\* The caller lets go of its pointer; others cannot know.
UnloadLibrary(u, p) ==
    /\ handles' = Closed({p})
    /\ entries' = [entries EXCEPT ![p] = 0]
    /\ pointers' = [pointers EXCEPT ![u][p] = 0]
    /\ UNCHANGED loads

\* ~DynamicLibraryManager(), with the Context.
UnloadAll ==
    /\ handles' = Closed(Path)
    /\ entries' = [p \in Path |-> 0]
    /\ UNCHANGED <<pointers, loads>>

LibrariesNext ==
    /\ \/ UnloadAll
       \/ \E u \in User, p \in Path :
            FindLibrary(u, p) \/ LoadLibrary(u, p) \/ FailToLoad(u, p) \/ UnloadLibrary(u, p)
    /\ UNCHANGED <<logVars, idVars>>
-----------------------------------------------------------------------------
(***************************************************************************)
(* IdGenerator.  The step it is made with is not used.                     *)
(***************************************************************************)
IdsInit ==
    /\ start \in Starts /\ step \in Steps
    /\ nextId = start
    /\ ids = <<>>

\* Mutant: returns the number after it.
MutantId == (nextId + 1) % IdModulus

Id == nextId

GetNext ==
    /\ Len(ids) < MaxIds
    /\ ids' = Append(ids, Id)
    /\ nextId' = (nextId + 1) % IdModulus
    /\ UNCHANGED <<start, step>>

IdsNext == GetNext /\ UNCHANGED <<logVars, libraryVars>>
-----------------------------------------------------------------------------
RegistriesInit == LogsInit /\ LibrariesInit /\ IdsInit
RegistriesNext == LogsNext \/ LibrariesNext \/ IdsNext
RegistriesSpec == RegistriesInit /\ [][RegistriesNext]_registryVars

(***************************************************************************)
(* RegistriesAgree: of the objects that were offered under a name, the     *)
(* first one is known by it for ever, and the list has these in their      *)
(* order and no others, which the result of add() told each caller; a      *)
(* library is open once for each entry that names it, by whatever path;    *)
(* and the identifiers are consecutive, so none comes twice before they    *)
(* wrap around.                                                            *)
(***************************************************************************)
FirstOffers ==
    {k \in DOMAIN offered :
        \A j \in 1 .. k - 1 : NameOfLog(offered[j][1]) # NameOfLog(offered[k][1])}

\* The place in the list of what was offered k-th, if it is in the list.
PlaceInList(k) == Cardinality({j \in FirstOffers : j <= k})

ListAgrees ==
    /\ Len(logs.objects) = Cardinality(FirstOffers)
    /\ \A k \in FirstOffers :
         LET l == offered[k][1] IN
         logs.objects[PlaceInList(k)] = l /\ Get(logs, NameOfLog(l)) = l
    /\ \A k \in DOMAIN offered : offered[k][2] <=> k \in FirstOffers

LibrariesAgree ==
    \A l \in Library :
        handles[l] = Cardinality({p \in Path : entries[p] # 0 /\ LibraryOf[p] = l})

IdsAgree == \A k \in DOMAIN ids : ids[k] = (start + k - 1) % IdModulus

RegistriesAgree == ListAgrees /\ LibrariesAgree /\ IdsAgree

(***************************************************************************)
(* LogsAreRegistered: what the asserts say -- the null log and the logs    *)
(* that the constructor of Context creates are added to the LogManager.    *)
(* It does not hold in a release build.                                    *)
(***************************************************************************)
LogsAreRegistered == \A l \in existing \cap Default : Get(logs, l) = l

(***************************************************************************)
(* PointersStayValid: a user's pointer to a library that it did not unload *)
(* itself is to the entry of the manager.  It does not hold: load() gives  *)
(* the same entry to all, and the first unload() takes it from all.        *)
(***************************************************************************)
PointersStayValid ==
    \A u \in User, p \in Path : pointers[u][p] \in {0, entries[p]}
=============================================================================
