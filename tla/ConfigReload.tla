---------------------------- MODULE ConfigReload ----------------------------
(***************************************************************************)
(* werk::Config (Werk/Config/Config.{hpp,cpp}): a double-buffered set of   *)
(* values.  A request only sets a latch; the background thread reads every *)
(* source into the buffer that is not active, swaps the buffers and sets a *)
(* second latch; the thread of the Configurables polls that latch and lets *)
(* each of them read the values again.  Readers take the active buffer     *)
(* anew at every read, without a lock, and get a pointer into it.          *)
(*                                                                         *)
(* A value is known by the source it came from and the version of the      *)
(* files it was read at; the files are edited as a whole, at any time.     *)
(***************************************************************************)
EXTENDS Integers, Sequences

CONSTANTS
    Source, Key,                \* config sources and keys
    Sources,                    \* _configSources, in the order they are read
    Configurables,              \* _configurables; each reads a key
    MaxRequests,                \* bound on the requests to reload
    MaxEdits                    \* bound on the edits of the files

ASSUME SourcesAssumption == Sources \in Seq(Source)

\* Context makes a source for each file and adds it once.
ASSUME DistinctAssumption ==
    /\ "none" \notin Source
    /\ \A i, j \in DOMAIN Sources : Sources[i] = Sources[j] => i = j

VARIABLES
    reload,                     \* _reloadConfig
    changed,                    \* _changed
    active,                     \* _values: which of the two buffers
    buffer,                     \* _values1 and _values2
    bg,                         \* where Config::execute() is
    toLoad,                     \* sources its loop has not read yet
    main,                       \* where reloadConfigurables() is
    toReload,                   \* configurables its loop has not called yet
    pointer,                    \* what readers hold into the buffers
    files,                      \* the keys each source's file defines
    version,                    \* edits of the files so far
    requests,                   \* requests so far
    \* History, which no action reads:
    asked,                      \* version of the files at the latest request
    builtAt,                    \* version of the files when a buffer was cleared
    filledFrom,                 \* the <<source, key>> pairs a buffer was filled from
    loads,                      \* swaps so far
    seen                        \* the number of swaps a configurable has read after

bgVars == <<reload, active, buffer, bg, toLoad, builtAt, filledFrom, loads>>
mainVars == <<main, toReload, seen>>
fileVars == <<files, version, requests, asked>>
vars == <<bgVars, changed, mainVars, pointer, fileVars>>

Buffer == {1, 2}
Reader == {"profilesPath", "configurable"}
Missing == [from |-> "none", at |-> 0]
Nothing == [buffer |-> 0, loads |-> 0, valid |-> TRUE]
Nobody == [r \in Reader |-> Nothing]

\* Mutant: selects the active buffer.
MutantActive == active

\* The buffer execute() fills.
Inactive == 3 - active
PointerTo(b) == [buffer |-> b, loads |-> loads, valid |-> TRUE]


InitialValue == [from : Source, at : {0}] \union {Missing}

\* values is what remains when the pairs of p were read in the order of Sources:
\* each key has the value of the last source that gave it.
Overlays(values, p) ==
    /\ \A k \in Key : values[k] = Missing \/ <<values[k].from, k>> \in p
    /\ \A q \in p :
         /\ values[q[2]] # Missing
         /\ \A i, j \in DOMAIN Sources :
              Sources[i] = q[1] /\ Sources[j] = values[q[2]].from => i <= j

(***************************************************************************)
(* After the constructor of Context: the values were loaded on the main    *)
(* thread, Config has just become a background task, and _profilesPath     *)
(* points into the active buffer.                                          *)
(***************************************************************************)
Init ==
    /\ loads = 0
    /\ files \in [Source -> SUBSET Key]
    /\ filledFrom = [b \in Buffer |-> {q \in Source \X Key : q[2] \in files[q[1]]}]
    /\ buffer \in [Buffer -> [Key -> InitialValue]]
    /\ \A b \in Buffer : Overlays(buffer[b], filledFrom[b])
    /\ reload = FALSE
    /\ changed = TRUE
    /\ active = 1
    /\ bg = "idle"
    /\ toLoad = <<>>
    /\ main = "idle"
    /\ toReload = {}
    /\ pointer = [Nobody EXCEPT !["profilesPath"] = PointerTo(1)]
    /\ version = 0
    /\ requests = 0
    /\ asked = 0
    /\ builtAt = [b \in Buffer |-> 0]
    /\ seen = [c \in Configurables |-> -1]
-----------------------------------------------------------------------------
(***************************************************************************)
(* The world: the files are edited, and the "reload" command or SIGHUP     *)
(* sets the latch.                                                         *)
(***************************************************************************)
EditFiles ==
    /\ version < MaxEdits
    /\ version' = version + 1
    /\ files' \in [Source -> SUBSET Key]
    /\ UNCHANGED <<bgVars, changed, mainVars, pointer, requests, asked>>

ReloadConfig ==
    /\ requests < MaxRequests
    /\ requests' = requests + 1
    /\ asked' = version
    /\ reload' = TRUE
    /\ UNCHANGED <<active, buffer, bg, toLoad, builtAt, filledFrom, loads, changed,
                   mainVars, pointer, files, version>>
-----------------------------------------------------------------------------
(***************************************************************************)
(* Config::execute() on the background thread.                             *)
(***************************************************************************)
SeeRequest ==
    /\ bg = "idle"
    /\ reload
    /\ bg' = "requested"
    /\ UNCHANGED <<reload, active, buffer, toLoad, builtAt, filledFrom, loads,
                   changed, mainVars, pointer, fileVars>>

\* Mutant: returns if the latch is not set, but after it was reset.
MutantForgets ==
    /\ bg = "requested"
    /\ reload' = FALSE
    /\ bg' = "idle"
    /\ UNCHANGED <<active, buffer, toLoad, builtAt, filledFrom, loads,
                   changed, mainVars, pointer, fileVars>>

ResetRequest ==
    /\ bg = "requested"
    /\ reload' = FALSE
    /\ bg' = "clearing"
    /\ UNCHANGED <<active, buffer, toLoad, builtAt, filledFrom, loads,
                   changed, mainVars, pointer, fileVars>>

\* Mutant: no clear() before the load.
MutantNotCleared == buffer[Inactive]

Cleared == [k \in Key |-> Missing]

\* clear() frees the strings of the inactive buffer under whoever points there.
Clear ==
    /\ bg = "clearing"
    /\ buffer' = [buffer EXCEPT ![Inactive] = Cleared]
    /\ pointer' = [r \in Reader |->
                     [pointer[r] EXCEPT !.valid = @ /\ pointer[r].buffer # Inactive]]
    /\ builtAt' = [builtAt EXCEPT ![Inactive] = version]
    /\ filledFrom' = [filledFrom EXCEPT ![Inactive] = {}]
    /\ toLoad' = Sources
    /\ bg' = "loading"
    /\ UNCHANGED <<reload, active, loads, changed, mainVars, fileVars>>

Read(s, keys) ==
    [k \in Key |-> IF k \in keys THEN [from |-> s, at |-> version]
                                 ELSE buffer[Inactive][k]]

\* reloadConfig() of the next source.  A missing file gives nothing and a
\* malformed line ends the reading, so any part of a file may arrive; either
\* failure is only logged.
LoadSource ==
    /\ bg = "loading"
    /\ toLoad # <<>>
    /\ \E keys \in SUBSET files[Head(toLoad)] :
         /\ buffer' = [buffer EXCEPT ![Inactive] = Read(Head(toLoad), keys)]
         /\ filledFrom' = [filledFrom EXCEPT ![Inactive] = @ \union ({Head(toLoad)} \X keys)]
    /\ toLoad' = Tail(toLoad)
    /\ UNCHANGED <<reload, active, bg, builtAt, loads, changed, mainVars, pointer,
                   fileVars>>

\* Mutant: resets the request when it is done, not when it is seen.
MutantLateReset ==
    /\ bg = "loading"
    /\ toLoad = <<>>
    /\ reload' = FALSE
    /\ active' = Inactive
    /\ loads' = loads + 1
    /\ bg' = "swapped"
    /\ UNCHANGED <<buffer, toLoad, builtAt, filledFrom, changed, mainVars, pointer,
                   fileVars>>

Swap ==
    /\ bg = "loading"
    /\ toLoad = <<>>
    /\ active' = Inactive
    /\ loads' = loads + 1
    /\ bg' = "swapped"
    /\ UNCHANGED <<reload, buffer, toLoad, builtAt, filledFrom, changed, mainVars,
                   pointer, fileVars>>

SetChanged ==
    /\ bg = "swapped"
    /\ changed' = TRUE
    /\ bg' = "idle"
    /\ UNCHANGED <<reload, active, buffer, toLoad, builtAt, filledFrom, loads,
                   mainVars, pointer, fileVars>>

Execute == SeeRequest \/ ResetRequest \/ Clear \/ LoadSource \/ Swap \/ SetChanged
-----------------------------------------------------------------------------
(***************************************************************************)
(* reloadConfigurables() on the thread the configurables live on.          *)
(***************************************************************************)
SeeChanged ==
    /\ main = "idle"
    /\ changed
    /\ main' = "changed"
    /\ UNCHANGED <<bgVars, changed, toReload, seen, pointer, fileVars>>

ResetChanged ==
    /\ main = "changed"
    /\ changed' = FALSE
    /\ main' = "reloading"
    /\ toReload' = Configurables
    /\ UNCHANGED <<bgVars, seen, pointer, fileVars>>

\* A configurable's reloadConfig() calls getString() or the like: it takes the
\* pointer from the atomic first, then looks its key up and uses the string.
TakePointer ==
    /\ main = "reloading"
    /\ toReload # {}
    /\ pointer["configurable"] = Nothing
    /\ pointer' = [pointer EXCEPT !["configurable"] = PointerTo(active)]
    /\ UNCHANGED <<bgVars, changed, mainVars, fileVars>>

UseValue(c) ==
    /\ main = "reloading"
    /\ pointer["configurable"] # Nothing
    /\ c \in toReload
    /\ seen' = [seen EXCEPT ![c] = pointer["configurable"].loads]
    /\ toReload' = toReload \ {c}
    /\ pointer' = [pointer EXCEPT !["configurable"] = Nothing]
    /\ UNCHANGED <<bgVars, changed, main, fileVars>>

\* Mutant: resets the change after the configurables were called.
MutantResetsAtTheEnd ==
    /\ main = "reloading"
    /\ toReload = {}
    /\ changed' = FALSE
    /\ main' = "idle"
    /\ UNCHANGED <<bgVars, toReload, seen, pointer, fileVars>>

EndReload ==
    /\ main = "reloading"
    /\ toReload = {}
    /\ main' = "idle"
    /\ UNCHANGED <<bgVars, changed, toReload, seen, pointer, fileVars>>

ReloadConfigurables ==
    \/ SeeChanged \/ ResetChanged \/ TakePointer \/ EndReload
    \/ \E c \in Configurables : UseValue(c)

Next == EditFiles \/ ReloadConfig \/ Execute \/ ReloadConfigurables

\* The background thread keeps running its tasks.  Nothing makes the main
\* thread poll: Context::run() calls reloadConfigurables() once.
Spec == Init /\ [][Next]_vars /\ WF_vars(Execute)
-----------------------------------------------------------------------------
Value == [from : Source, at : Nat] \union {Missing}
Pointer == [buffer : Buffer \union {0}, loads : Nat, valid : BOOLEAN]

TypeOK ==
    /\ reload \in BOOLEAN /\ changed \in BOOLEAN
    /\ active \in Buffer
    /\ buffer \in [Buffer -> [Key -> Value]]
    /\ bg \in {"idle", "requested", "clearing", "loading", "swapped"}
    /\ toLoad \in Seq(Source)
    /\ main \in {"idle", "changed", "reloading"}
    /\ toReload \subseteq Configurables
    /\ pointer \in [Reader -> Pointer]
    /\ files \in [Source -> SUBSET Key]
    /\ version \in Nat /\ requests \in Nat /\ asked \in Nat
    /\ builtAt \in [Buffer -> Nat]
    /\ filledFrom \in [Buffer -> SUBSET (Source \X Key)]
    /\ loads \in Nat
    /\ seen \in [Configurables -> Nat \union {-1}]

(***************************************************************************)
(* RequestServed: no request is lost between the latch and the load.  When *)
(* nothing is requested or under way, the active values come from files    *)
(* read no earlier than the latest request -- also when that request came  *)
(* in while an earlier one was being served.                               *)
(***************************************************************************)
RequestServed ==
    /\ ~reload /\ bg \in {"idle", "swapped"} => builtAt[active] >= asked
    /\ ~reload /\ bg = "loading" => builtAt[Inactive] >= asked

(***************************************************************************)
(* ConfigurablesSettled: when no change is announced or about to be, every *)
(* configurable has read the values that are active now, even if the swap  *)
(* came in the middle of an earlier round.                                 *)
(***************************************************************************)
ConfigurablesSettled ==
    main = "idle" /\ ~changed /\ bg # "swapped"
      => \A c \in Configurables : seen[c] = loads

(***************************************************************************)
(* NoStaleValue: a key that is no longer in the files is gone after the    *)
(* next load.  No value survives in the active buffer from the load before *)
(* the last, although that is what the buffer held, and although sources   *)
(* may fail.                                                               *)
(***************************************************************************)
NoStaleValue ==
    \A k \in Key : buffer[active][k] # Missing
                     => buffer[active][k].at >= builtAt[active]

(***************************************************************************)
(* LaterSourceWins: of the sources that gave a key, the active buffer has  *)
(* the value of the one that was added last.                               *)
(***************************************************************************)
LaterSourceWins == Overlays(buffer[active], filledFrom[active])

(***************************************************************************)
(* GraceOfOneReload: a reader may keep what it got from the active buffer  *)
(* through the next swap; it is freed only by the load after that one.     *)
(***************************************************************************)
GraceOfOneReload ==
    \A r \in Reader :
      \/ pointer[r].valid
      \/ loads > pointer[r].loads + 1
      \/ loads = pointer[r].loads + 1 /\ bg = "loading"

\* RequestIsServed: a requested reload happens, with files no older than the
\* request.
RequestIsServed ==
    \A v \in 0 .. MaxEdits : asked = v ~> builtAt[active] >= v

(***************************************************************************)
(* ProfilesPathValid: "Path to write profiling data on exit" -- the path   *)
(* that Context keeps for WriteProfilesAction can be used until the exit.  *)
(* It is a pointer into a buffer, and the second reload frees it.          *)
(***************************************************************************)
ProfilesPathValid == pointer["profilesPath"].valid

(***************************************************************************)
(* PrimaryOverridesAll: "Put the primary config as the highest priority".  *)
(* A secondary config is added behind the primary one and overrides it.    *)
(***************************************************************************)
PrimaryOverridesAll ==
    \A k \in Key : <<"primary", k>> \in filledFrom[active]
                     => buffer[active][k].from = "primary"
=============================================================================
