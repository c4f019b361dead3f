------------------------- MODULE ConfigReloadProofs -------------------------
(***************************************************************************)
(* What the two latches and the two buffers of Config guarantee, for any   *)
(* sources, keys and configurables and any number of reloads.              *)
(***************************************************************************)
EXTENDS ConfigReload, DataLemmas

LEMMA InactiveIsOther ==
    ASSUME active \in Buffer
    PROVE  Inactive \in Buffer /\ Inactive # active /\ 3 - Inactive = active
BY DEF Buffer, Inactive

\* TypeOK: the state keeps its types.
THEOREM TypeCorrect == Spec => []TypeOK
<1>1. Init => TypeOK
  <2> SUFFICES ASSUME Init PROVE TypeOK
    OBVIOUS
  <2>1. filledFrom \in [Buffer -> SUBSET (Source \X Key)]
    BY DEF Init
  <2>2. pointer \in [Reader -> Pointer]
    BY DEF Init, Nobody, Nothing, PointerTo, Pointer, Buffer
  <2>3. InitialValue \subseteq Value
    BY DEF InitialValue, Value
  <2>4. buffer \in [Buffer -> [Key -> Value]]
    <3>1. buffer \in [Buffer -> [Key -> InitialValue]]
      BY DEF Init
    <3>2. \A b \in Buffer : buffer[b] \in [Key -> Value]
      BY <2>3, <3>1
    <3> QED
      BY <3>1, <3>2
  <2>5. toLoad \in Seq(Source)
    <3>1. <<>> \in Seq(Source)
      OBVIOUS
    <3> QED
      BY <3>1 DEF Init
  <2>6. seen \in [Configurables -> Nat \union {-1}]
    BY DEF Init
  <2>7. builtAt \in [Buffer -> Nat]
    BY DEF Init
  <2> QED
    BY <2>1, <2>2, <2>4, <2>5, <2>6, <2>7 DEF Init, TypeOK, Buffer
<1>2. TypeOK /\ [Next]_vars => TypeOK'
  <2> SUFFICES ASSUME TypeOK, [Next]_vars PROVE TypeOK'
    OBVIOUS
  <2> USE DEF TypeOK, bgVars, mainVars, fileVars
  <2>1. CASE EditFiles
    BY <2>1 DEF EditFiles
  <2>2. CASE ReloadConfig
    BY <2>2 DEF ReloadConfig
  <2>3. CASE SeeRequest
    BY <2>3 DEF SeeRequest
  <2>4. CASE ResetRequest
    BY <2>4 DEF ResetRequest
  <2>5. CASE Clear
    <3>1. Inactive \in Buffer
      BY InactiveIsOther
    <3>2. buffer' \in [Buffer -> [Key -> Value]]
      BY <2>5, <3>1 DEF Clear, Cleared, Value
    <3>3. pointer' \in [Reader -> Pointer]
      <4>1. \A r \in Reader : [pointer[r] EXCEPT !.valid = @ /\ pointer[r].buffer # Inactive]
                                \in Pointer
        BY DEF Pointer
      <4> QED
        BY <2>5, <4>1 DEF Clear
    <3>4. filledFrom' \in [Buffer -> SUBSET (Source \X Key)] /\ builtAt' \in [Buffer -> Nat]
      BY <2>5, <3>1 DEF Clear
    <3> QED
      BY <2>5, <3>2, <3>3, <3>4, SourcesAssumption DEF Clear
  <2>6. CASE LoadSource
    <3>1. Inactive \in Buffer
      BY InactiveIsOther
    <3>2. Head(toLoad) \in Source /\ toLoad' \in Seq(Source)
      BY <2>6, TailFacts DEF LoadSource
    <3>3. PICK keys \in SUBSET files[Head(toLoad)] :
            /\ buffer' = [buffer EXCEPT ![Inactive] = Read(Head(toLoad), keys)]
            /\ filledFrom' = [filledFrom EXCEPT ![Inactive] = @ \union ({Head(toLoad)} \X keys)]
      BY <2>6 DEF LoadSource
    <3>4. keys \subseteq Key
      BY <3>2, <3>3
    <3>5. Read(Head(toLoad), keys) \in [Key -> Value]
      BY <3>1, <3>2 DEF Read, Value
    <3>6. buffer' \in [Buffer -> [Key -> Value]]
      BY <3>1, <3>3, <3>5
    <3>7. filledFrom[Inactive] \union ({Head(toLoad)} \X keys) \in SUBSET (Source \X Key)
      BY <3>1, <3>2, <3>4
    <3>8. filledFrom' \in [Buffer -> SUBSET (Source \X Key)]
      BY <3>1, <3>3, <3>7
    <3> QED
      BY <2>6, <3>2, <3>6, <3>8 DEF LoadSource
  <2>7. CASE Swap
    BY <2>7, InactiveIsOther DEF Swap
  <2>8. CASE SetChanged
    BY <2>8 DEF SetChanged
  <2>9. CASE SeeChanged
    BY <2>9 DEF SeeChanged
  <2>10. CASE ResetChanged
    BY <2>10 DEF ResetChanged
  <2>11. CASE TakePointer
    BY <2>11 DEF TakePointer, PointerTo, Pointer, Buffer, Reader
  <2>12. ASSUME NEW c \in Configurables, UseValue(c) PROVE TypeOK'
    <3>1. Nothing \in Pointer /\ pointer["configurable"].loads \in Nat
      BY DEF Nothing, Pointer, Reader
    <3>2. pointer' \in [Reader -> Pointer]
      BY <2>12, <3>1 DEF UseValue
    <3>3. seen' \in [Configurables -> Nat \union {-1}]
      BY <2>12, <3>1 DEF UseValue
    <3> QED
      BY <2>12, <3>2, <3>3 DEF UseValue
  <2>13. CASE EndReload
    BY <2>13 DEF EndReload
  <2>14. CASE UNCHANGED vars
    BY <2>14 DEF vars
  <2> QED
    BY <2>1, <2>2, <2>3, <2>4, <2>5, <2>6, <2>7, <2>8, <2>9, <2>10, <2>11, <2>12,
       <2>13, <2>14 DEF Next, Execute, ReloadConfigurables
<1> QED
  BY <1>1, <1>2, PTL DEF Spec
-----------------------------------------------------------------------------
(***************************************************************************)
(* Requests: while a request waits the latch is set, and a load begins     *)
(* with files no older than any request made before it.                    *)
(***************************************************************************)
RequestInv ==
    /\ RequestServed
    /\ asked <= version
    /\ bg = "requested" => reload

LEMMA RequestAgain ==
    ASSUME TypeOK, RequestInv, [Next]_vars
    PROVE  RequestInv'
<1> USE DEF RequestInv, RequestServed, bgVars, mainVars, fileVars
<1>0. /\ active \in Buffer /\ Inactive \in Buffer /\ Inactive # active
      /\ 3 - Inactive = active
      /\ version \in Nat /\ asked \in Nat /\ builtAt \in [Buffer -> Nat]
  BY InactiveIsOther DEF TypeOK
<1>1. CASE EditFiles
  BY <1>0, <1>1 DEF EditFiles, Inactive
<1>2. CASE ReloadConfig
  BY <1>0, <1>2 DEF ReloadConfig, Inactive
<1>3. CASE SeeRequest
  BY <1>0, <1>3 DEF SeeRequest, Inactive
<1>4. CASE ResetRequest
  BY <1>0, <1>4 DEF ResetRequest, Inactive
<1>5. CASE Clear
  <2>1. Inactive' = Inactive /\ builtAt'[Inactive] = version
    BY <1>0, <1>5 DEF Clear, Inactive
  <2> QED
    BY <1>0, <1>5, <2>1 DEF Clear
<1>6. CASE LoadSource
  BY <1>0, <1>6 DEF LoadSource, Inactive
<1>7. CASE Swap
  BY <1>0, <1>7 DEF Swap
<1>8. CASE SetChanged
  BY <1>0, <1>8 DEF SetChanged, Inactive
<1>9. CASE UNCHANGED <<reload, active, bg, builtAt, version, asked>>
  BY <1>0, <1>9 DEF Inactive
<1> QED
  BY <1>1, <1>2, <1>3, <1>4, <1>5, <1>6, <1>7, <1>8, <1>9
     DEF Next, Execute, ReloadConfigurables, SeeChanged, ResetChanged, TakePointer,
         UseValue, EndReload, vars

\* RequestServed: whatever the order of requests, edits and loads, no request
\* is answered with files read before it.
THEOREM NoRequestLost == Spec => []RequestServed
<1>1. Init => RequestInv
  BY DEF Init, RequestInv, RequestServed, Buffer
<1>2. TypeOK /\ RequestInv /\ [Next]_vars => RequestInv'
  BY RequestAgain
<1>3. RequestInv => RequestServed
  BY DEF RequestInv
<1> QED
  BY <1>1, <1>2, <1>3, TypeCorrect, PTL DEF Spec
-----------------------------------------------------------------------------
(***************************************************************************)
(* Readers: a pointer is to the active buffer until the next swap, and to  *)
(* the inactive one until the swap after that.                             *)
(***************************************************************************)
PointerInv ==
    \A r \in Reader :
      pointer[r] # Nothing =>
        /\ pointer[r].loads <= loads
        /\ loads = pointer[r].loads => pointer[r].buffer = active

GraceInv == PointerInv /\ GraceOfOneReload

LEMMA GraceAgain ==
    ASSUME TypeOK, GraceInv, [Next]_vars
    PROVE  GraceInv'
<1> USE DEF GraceInv, PointerInv, GraceOfOneReload, bgVars, mainVars, fileVars
<1>0. /\ active \in Buffer /\ Inactive \in Buffer /\ Inactive # active
      /\ pointer \in [Reader -> Pointer] /\ loads \in Nat
      /\ \A r \in Reader : pointer[r] \in Pointer
  BY InactiveIsOther DEF TypeOK
<1>1. CASE Clear
  <2>1. ASSUME NEW r \in Reader
        PROVE  /\ pointer'[r] \in Pointer
               /\ pointer'[r].loads = pointer[r].loads
               /\ pointer'[r].buffer = pointer[r].buffer
               /\ pointer'[r].valid = (pointer[r].valid /\ pointer[r].buffer # Inactive)
    BY <1>0, <1>1 DEF Clear, Pointer
  <2>2. UNCHANGED <<active, loads>> /\ bg' = "loading" /\ bg = "clearing"
    BY <1>1 DEF Clear
  <2>3. Nothing.buffer = 0 /\ Nothing.valid = TRUE /\ Nothing.loads = 0 /\ 0 # Inactive
    BY <1>0 DEF Nothing, Buffer
  <2>4. PointerInv'
    <3>1. ASSUME NEW r \in Reader, pointer'[r] # Nothing PROVE pointer[r] # Nothing
      <4>1. CASE pointer[r] = Nothing
        BY <1>0, <1>1, <2>3, <4>1, <3>1 DEF Clear, Nothing
      <4> QED
        BY <4>1
    <3> QED
      BY <2>1, <2>2, <3>1
  <2>5. GraceOfOneReload'
    <3>1. ASSUME NEW r \in Reader
          PROVE  \/ pointer'[r].valid
                 \/ loads > pointer[r].loads + 1
                 \/ loads = pointer[r].loads + 1
      <4>1. CASE pointer[r] = Nothing
        <5>1. pointer[r].valid /\ pointer[r].buffer # Inactive
          BY <2>3, <4>1
        <5> QED
          BY <2>1, <5>1
      <4>2. CASE pointer[r] # Nothing /\ loads = pointer[r].loads
        <5>1. pointer[r].buffer # Inactive /\ pointer[r].valid
          BY <1>0, <4>2 DEF Pointer
        <5> QED
          BY <2>1, <5>1
      <4>3. CASE pointer[r] # Nothing /\ loads # pointer[r].loads
        BY <1>0, <4>3 DEF Pointer
      <4> QED
        BY <4>1, <4>2, <4>3
    <3> QED
      BY <2>1, <2>2, <3>1
  <2> QED
    BY <2>4, <2>5
<1>2. CASE Swap
  <2>1. UNCHANGED pointer /\ loads' = loads + 1 /\ bg = "loading"
    BY <1>2 DEF Swap
  <2>2. \A r \in Reader : pointer[r].loads \in Nat
    BY <1>0 DEF Pointer
  <2>3. PointerInv'
    BY <1>0, <2>1, <2>2
  <2>4. GraceOfOneReload'
    BY <1>0, <2>1, <2>2
  <2> QED
    BY <2>3, <2>4
<1>3. CASE TakePointer
  <2>1. \A r \in Reader : pointer'[r] =
          IF r = "configurable" THEN PointerTo(active) ELSE pointer[r]
    BY <1>0, <1>3 DEF TakePointer
  <2>2. UNCHANGED <<active, loads, bg>>
    BY <1>3 DEF TakePointer
  <2> QED
    BY <1>0, <2>1, <2>2 DEF PointerTo
<1>4. ASSUME NEW c \in Configurables, UseValue(c) PROVE GraceInv'
  <2>1. \A r \in Reader : pointer'[r] = IF r = "configurable" THEN Nothing ELSE pointer[r]
    BY <1>0, <1>4 DEF UseValue
  <2>2. UNCHANGED <<active, loads, bg>>
    BY <1>4 DEF UseValue
  <2> QED
    BY <2>1, <2>2 DEF Nothing
<1>5. CASE UNCHANGED <<active, loads, pointer>> /\ bg # "loading"
  BY <1>5
<1>6. CASE UNCHANGED <<active, loads, pointer, bg>>
  BY <1>6
<1> QED
  BY <1>1, <1>2, <1>3, <1>4, <1>5, <1>6
     DEF Next, EditFiles, ReloadConfig, Execute, SeeRequest, ResetRequest, LoadSource,
         SetChanged, ReloadConfigurables, SeeChanged, ResetChanged, EndReload, vars

\* GraceOfOneReload: what a reader got from the active buffer stays readable
\* until the second load after it begins.
THEOREM GraceHolds == Spec => []GraceOfOneReload
<1>1. Init => GraceInv
  <2> SUFFICES ASSUME Init PROVE GraceInv
    OBVIOUS
  <2>1. loads = 0 /\ active = 1
    BY DEF Init
  <2>2. \A r \in Reader : pointer[r] = Nothing \/ pointer[r] = PointerTo(1)
    BY DEF Init, Nobody
  <2> QED
    BY <2>1, <2>2 DEF GraceInv, PointerInv, GraceOfOneReload, Nothing, PointerTo
<1>2. TypeOK /\ GraceInv /\ [Next]_vars => GraceInv'
  BY GraceAgain
<1>3. GraceInv => GraceOfOneReload
  BY DEF GraceInv
<1> QED
  BY <1>1, <1>2, <1>3, TypeCorrect, PTL DEF Spec
-----------------------------------------------------------------------------
(***************************************************************************)
(* Changes: unless a change is announced or about to be, the configurables *)
(* already called in this round have read the active values, and the one   *)
(* being called is reading them.                                           *)
(***************************************************************************)
SettledInv ==
    /\ main = "changed" => changed
    /\ main # "reloading" => pointer["configurable"] = Nothing
    /\ pointer["configurable"] # Nothing => toReload # {}
    /\ ~changed /\ bg # "swapped" =>
         /\ main = "idle" => \A c \in Configurables : seen[c] = loads
         /\ main = "reloading" =>
              /\ \A c \in Configurables \ toReload : seen[c] = loads
              /\ pointer["configurable"] # Nothing
                   => pointer["configurable"].loads = loads

LEMMA SettledAgain ==
    ASSUME TypeOK, SettledInv, [Next]_vars
    PROVE  SettledInv'
<1> USE DEF SettledInv, bgVars, mainVars, fileVars
<1>0. /\ pointer \in [Reader -> Pointer] /\ "configurable" \in Reader
      /\ seen \in [Configurables -> Nat \union {-1}]
      /\ toReload \subseteq Configurables
      /\ changed \in BOOLEAN
      /\ active \in Buffer /\ Inactive \in Buffer
  BY InactiveIsOther DEF TypeOK, Reader
<1>1. CASE Clear
  <2>1. pointer["configurable"] \in Pointer
    BY <1>0
  <2>2. pointer'["configurable"] =
          [pointer["configurable"] EXCEPT
             !.valid = @ /\ pointer["configurable"].buffer # Inactive]
    BY <1>0, <1>1 DEF Clear
  <2>3. pointer'["configurable"].loads = pointer["configurable"].loads
    BY <2>1, <2>2 DEF Pointer
  <2>4. pointer["configurable"] = Nothing => pointer'["configurable"] = Nothing
    <3> SUFFICES ASSUME pointer["configurable"] = Nothing
                 PROVE  pointer'["configurable"] = Nothing
      OBVIOUS
    <3>1. Nothing.buffer # Inactive /\ Nothing.valid = TRUE
      BY <1>0 DEF Nothing, Buffer
    <3> QED
      BY <2>2, <3>1 DEF Nothing
  <2>5. pointer'["configurable"] # Nothing => pointer["configurable"] # Nothing
    BY <2>4
  <2>6. UNCHANGED <<changed, main, toReload, seen, loads>> /\ bg = "clearing"
    BY <1>1 DEF Clear
  <2> QED
    BY <2>3, <2>4, <2>5, <2>6
<1>2. CASE Swap
  BY <1>2 DEF Swap
<1>3. CASE SetChanged
  BY <1>3 DEF SetChanged
<1>4. CASE SeeChanged
  BY <1>4 DEF SeeChanged
<1>5. CASE ResetChanged
  BY <1>5 DEF ResetChanged
<1>6. CASE TakePointer
  <2>1. pointer'["configurable"] = PointerTo(active)
    BY <1>0, <1>6 DEF TakePointer
  <2>2. PointerTo(active).loads = loads
    BY DEF PointerTo
  <2> QED
    BY <1>6, <2>1, <2>2 DEF TakePointer
<1>7. ASSUME NEW c \in Configurables, UseValue(c) PROVE SettledInv'
  <2>1. pointer'["configurable"] = Nothing
    BY <1>0, <1>7 DEF UseValue
  <2>2. \A d \in Configurables : seen'[d] =
          IF d = c THEN pointer["configurable"].loads ELSE seen[d]
    BY <1>0, <1>7 DEF UseValue
  <2>3. \A d \in Configurables \ toReload' : d = c \/ d \in Configurables \ toReload
    BY <1>7 DEF UseValue
  <2> QED
    BY <1>7, <2>1, <2>2, <2>3 DEF UseValue
<1>8. CASE EndReload
  BY <1>8 DEF EndReload
<1>9. CASE /\ UNCHANGED <<changed, main, toReload, seen, pointer, loads>>
           /\ bg' # "swapped" => bg # "swapped"
  BY <1>9
<1>10. CASE EditFiles \/ ReloadConfig
  BY <1>9, <1>10 DEF EditFiles, ReloadConfig
<1>11. CASE SeeRequest \/ ResetRequest \/ LoadSource
  BY <1>9, <1>11 DEF SeeRequest, ResetRequest, LoadSource
<1>12. CASE UNCHANGED vars
  BY <1>9, <1>12 DEF vars
<1> QED
  BY <1>1, <1>2, <1>3, <1>4, <1>5, <1>6, <1>7, <1>8, <1>10, <1>11, <1>12
     DEF Next, Execute, ReloadConfigurables

\* ConfigurablesSettled: a swap in the middle of a round of reloadConfigurables
\* is never missed for good -- either the configurables have read the active
\* values or the latch tells them to read again.
THEOREM NoChangeMissed == Spec => []ConfigurablesSettled
<1>1. Init => SettledInv
  BY DEF Init, SettledInv, Nobody, Reader
<1>2. TypeOK /\ SettledInv /\ [Next]_vars => SettledInv'
  BY SettledAgain
<1>3. SettledInv => ConfigurablesSettled
  BY DEF SettledInv, ConfigurablesSettled
<1> QED
  BY <1>1, <1>2, <1>3, TypeCorrect, PTL DEF Spec
-----------------------------------------------------------------------------
(***************************************************************************)
(* Values: what a buffer holds was read after it was cleared, from the     *)
(* moment it was cleared until it is cleared again.                        *)
(***************************************************************************)
Fresh(b) == \A k \in Key : buffer[b][k] # Missing => buffer[b][k].at >= builtAt[b]

FreshInv ==
    /\ Fresh(active)
    /\ bg = "loading" => Fresh(Inactive)
    /\ \A b \in Buffer : builtAt[b] <= version

LEMMA FreshAgain ==
    ASSUME TypeOK, FreshInv, [Next]_vars
    PROVE  FreshInv'
<1> USE DEF FreshInv, Fresh, bgVars, mainVars, fileVars
<1>0. /\ active \in Buffer /\ Inactive \in Buffer /\ Inactive # active
      /\ 3 - Inactive = active
      /\ version \in Nat /\ builtAt \in [Buffer -> Nat]
      /\ buffer \in [Buffer -> [Key -> Value]]
  BY InactiveIsOther DEF TypeOK
<1>1. CASE EditFiles
  BY <1>0, <1>1 DEF EditFiles, Inactive
<1>2. CASE Clear
  <2>1. Inactive' = Inactive /\ UNCHANGED <<active, version>> /\ bg' = "loading"
    BY <1>2 DEF Clear, Inactive
  <2>2. \A b \in Buffer :
          /\ buffer'[b] = IF b = Inactive THEN Cleared ELSE buffer[b]
          /\ builtAt'[b] = IF b = Inactive THEN version ELSE builtAt[b]
    BY <1>0, <1>2 DEF Clear
  <2> QED
    BY <1>0, <2>1, <2>2 DEF Cleared
<1>3. CASE LoadSource
  <2>1. PICK keys \in SUBSET files[Head(toLoad)] :
          buffer' = [buffer EXCEPT ![Inactive] = Read(Head(toLoad), keys)]
    BY <1>3 DEF LoadSource
  <2>2. UNCHANGED <<active, version, bg, builtAt>> /\ bg = "loading" /\ Inactive' = Inactive
    BY <1>3 DEF LoadSource, Inactive
  <2>3. buffer'[active] = buffer[active]
    BY <1>0, <2>1
  <2>4. \A k \in Key : buffer'[Inactive][k] =
          IF k \in keys THEN [from |-> Head(toLoad), at |-> version] ELSE buffer[Inactive][k]
    BY <1>0, <2>1 DEF Read
  <2>5. Fresh(active)'
    BY <2>2, <2>3
  <2>6. Fresh(Inactive)'
    BY <1>0, <2>2, <2>4
  <2> QED
    BY <2>2, <2>5, <2>6
<1>4. CASE Swap
  BY <1>0, <1>4 DEF Swap
<1>5. CASE UNCHANGED <<active, buffer, builtAt, version>> /\ (bg' = "loading" => bg = "loading")
  BY <1>0, <1>5 DEF Inactive
<1>6. CASE ReloadConfig \/ ReloadConfigurables
  BY <1>5, <1>6 DEF ReloadConfig, ReloadConfigurables, SeeChanged, ResetChanged,
                    TakePointer, UseValue, EndReload
<1>7. CASE SeeRequest \/ ResetRequest \/ SetChanged
  BY <1>5, <1>7 DEF SeeRequest, ResetRequest, SetChanged
<1>8. CASE UNCHANGED vars
  BY <1>5, <1>8 DEF vars
<1> QED
  BY <1>1, <1>2, <1>3, <1>4, <1>6, <1>7, <1>8 DEF Next, Execute

\* NoStaleValue: the buffer that was active two loads ago leaves nothing behind
\* when it is filled again, even if every source fails.
THEOREM NothingStale == Spec => []NoStaleValue
<1>1. Init => FreshInv
  <2> SUFFICES ASSUME Init PROVE FreshInv
    OBVIOUS
  <2>1. /\ \A b \in Buffer : builtAt[b] = 0
        /\ \A b \in Buffer, k \in Key : buffer[b][k] = Missing \/ buffer[b][k].at = 0
        /\ version = 0 /\ active \in Buffer /\ bg # "loading"
    BY DEF Init, InitialValue, Buffer
  <2> QED
    BY <2>1 DEF FreshInv, Fresh
<1>2. TypeOK /\ FreshInv /\ [Next]_vars => FreshInv'
  BY FreshAgain
<1>3. FreshInv => NoStaleValue
  BY DEF FreshInv, Fresh, NoStaleValue
<1> QED
  BY <1>1, <1>2, <1>3, TypeCorrect, PTL DEF Spec
-----------------------------------------------------------------------------
(***************************************************************************)
(* Priorities: the sources behind Sources[LastRead] are still to be read,  *)
(* and the buffer that is being filled overlays what the others gave.      *)
(***************************************************************************)
LastRead == Len(Sources) - Len(toLoad)

GivenBy(p, n) == \A q \in p : q[2] \in Key /\ \E i \in 1 .. n : Sources[i] = q[1]

ReplacedBy(old, new, s, v, keys) ==
    \A k \in Key : new[k] = IF k \in keys THEN [from |-> s, at |-> v] ELSE old[k]

LoadInv ==
    /\ LastRead \in 0 .. Len(Sources)
    /\ \A i \in 1 .. Len(toLoad) : toLoad[i] = Sources[LastRead + i]
    /\ GivenBy(filledFrom[Inactive], LastRead)
    /\ Overlays(buffer[Inactive], filledFrom[Inactive])

PriorityInv ==
    /\ LaterSourceWins
    /\ bg = "loading" => LoadInv

\* A buffer that was just cleared overlays nothing.
LEMMA ClearKeepsPriority ==
    ASSUME TypeOK, PriorityInv, Clear
    PROVE  PriorityInv'
<1>1. /\ active \in Buffer /\ Inactive \in Buffer /\ Inactive # active
      /\ buffer \in [Buffer -> [Key -> Value]]
      /\ filledFrom \in [Buffer -> SUBSET (Source \X Key)]
  BY InactiveIsOther DEF TypeOK
<1>2. active' = active /\ Inactive' = Inactive /\ toLoad' = Sources
  BY DEF Clear, Inactive
<1>3. /\ buffer'[active] = buffer[active] /\ filledFrom'[active] = filledFrom[active]
      /\ buffer'[Inactive] = Cleared /\ filledFrom'[Inactive] = {}
  BY <1>1 DEF Clear
<1>4. LastRead' = 0 /\ Len(Sources) \in Nat
  <2>1. Len(Sources) \in Nat
    BY SourcesAssumption, SeqFacts
  <2> QED
    BY <1>2, <2>1 DEF LastRead
<1>5. LoadInv'
  <2>1. Overlays(Cleared, {}) /\ GivenBy({}, 0)
    BY DEF Overlays, Cleared, GivenBy
  <2> QED
    BY <1>2, <1>3, <1>4, <2>1 DEF LoadInv
<1> QED
  BY <1>2, <1>3, <1>5 DEF PriorityInv, LaterSourceWins

\* The next source, whose values replace those of all before it, comes behind
\* all that the buffer was filled from.
LEMMA ReadKeepsOverlays ==
    ASSUME NEW n \in DOMAIN Sources, NEW v, NEW keys \in SUBSET Key, NEW old, NEW new, NEW p,
           GivenBy(p, n - 1), ReplacedBy(old, new, Sources[n], v, keys), Overlays(old, p)
    PROVE  Overlays(new, p \union ({Sources[n]} \X keys))
<1> USE DEF GivenBy, ReplacedBy
<1> DEFINE r == p \union ({Sources[n]} \X keys)
<1>1. DOMAIN Sources = 1 .. Len(Sources) /\ Len(Sources) \in Nat /\ Sources[n] \in Source
  BY SourcesAssumption, SeqFacts
<1>2. Sources[n] # "none"
  BY <1>1, DistinctAssumption
<1>3. \A k \in Key : new[k] = Missing \/ <<new[k].from, k>> \in r
  <2> SUFFICES ASSUME NEW k \in Key PROVE new[k] = Missing \/ <<new[k].from, k>> \in r
    OBVIOUS
  <2>1. CASE k \in keys
    BY <2>1
  <2>2. CASE k \notin keys
    BY <2>2 DEF Overlays
  <2> QED
    BY <2>1, <2>2
<1>4. ASSUME NEW q \in r
      PROVE  /\ new[q[2]] # Missing
             /\ \A i, j \in DOMAIN Sources :
                  Sources[i] = q[1] /\ Sources[j] = new[q[2]].from => i <= j
  <2>1. q[2] \in Key
    <3>1. CASE q \in p
      BY <3>1
    <3>2. CASE q \in {Sources[n]} \X keys
      BY <3>2
    <3> QED
      BY <3>1, <3>2
  <2>2. \A i \in DOMAIN Sources : Sources[i] = q[1] => i <= n
    <3>1. CASE q \in p
      <4>1. PICK m \in 1 .. n - 1 : Sources[m] = q[1]
        BY <3>1
      <4>2. m \in DOMAIN Sources
        BY <1>1, <4>1
      <4> QED
        BY <1>1, <4>1, <4>2, DistinctAssumption
    <3>2. CASE q \in {Sources[n]} \X keys
      <4>1. q[1] = Sources[n]
        BY <3>2
      <4> QED
        BY <1>1, <4>1, DistinctAssumption
    <3> QED
      BY <3>1, <3>2
  <2>3. CASE q[2] \in keys
    <3>1. new[q[2]] = [from |-> Sources[n], at |-> v]
      BY <2>1, <2>3
    <3>2. new[q[2]] # Missing /\ new[q[2]].from = Sources[n]
      BY <1>2, <3>1 DEF Missing
    <3>3. \A j \in DOMAIN Sources : Sources[j] = new[q[2]].from => j = n
      BY <3>2, DistinctAssumption
    <3> QED
      BY <1>1, <2>2, <3>2, <3>3
  <2>4. CASE q[2] \notin keys
    <3>1. q \in p
      BY <2>4
    <3>2. new[q[2]] = old[q[2]]
      BY <2>1, <2>4
    <3> QED
      BY <3>1, <3>2 DEF Overlays
  <2> QED
    BY <2>3, <2>4
<1> QED
  BY <1>3, <1>4 DEF Overlays

\* LoadSource reads the first of the sources behind Sources[LastRead].
LEMMA LoadKeepsPriority ==
    ASSUME TypeOK, PriorityInv, LoadSource
    PROVE  PriorityInv'
<1> DEFINE n == LastRead + 1
<1>1. /\ active \in Buffer /\ Inactive \in Buffer /\ Inactive # active
      /\ buffer \in [Buffer -> [Key -> Value]]
      /\ filledFrom \in [Buffer -> SUBSET (Source \X Key)]
      /\ toLoad \in Seq(Source) /\ files \in [Source -> SUBSET Key] /\ version \in Nat
  BY InactiveIsOther DEF TypeOK
<1>2. LoadInv /\ toLoad # <<>>
  BY DEF PriorityInv, LoadSource
<1>3. UNCHANGED <<active, bg>> /\ Inactive' = Inactive /\ toLoad' = Tail(toLoad)
  BY DEF LoadSource, Inactive
<1>4. DOMAIN Sources = 1 .. Len(Sources) /\ Len(Sources) \in Nat
  BY SourcesAssumption, SeqFacts
<1>5. /\ Len(toLoad) \in Nat \ {0} /\ Head(toLoad) = toLoad[1] /\ Head(toLoad) \in Source
      /\ Len(Tail(toLoad)) = Len(toLoad) - 1
      /\ \A i \in 1 .. Len(toLoad) - 1 : Tail(toLoad)[i] = toLoad[i + 1]
  BY <1>1, <1>2, TailFacts
<1>6. LastRead \in Nat /\ n \in DOMAIN Sources /\ Head(toLoad) = Sources[n] /\ LastRead' = n
  <2>1. LastRead = Len(Sources) - Len(toLoad) /\ LastRead' = Len(Sources) - Len(Tail(toLoad))
    BY <1>3 DEF LastRead
  <2>2. toLoad[1] = Sources[LastRead + 1]
    BY <1>2, <1>5 DEF LoadInv
  <2> QED
    BY <1>4, <1>5, <2>1, <2>2, <1>2 DEF LoadInv
<1>7. PICK keys \in SUBSET files[Head(toLoad)] :
        /\ buffer' = [buffer EXCEPT ![Inactive] = Read(Head(toLoad), keys)]
        /\ filledFrom' = [filledFrom EXCEPT ![Inactive] = @ \union ({Head(toLoad)} \X keys)]
  BY DEF LoadSource
<1>8. keys \in SUBSET Key
  BY <1>1, <1>5
<1>9. /\ buffer'[active] = buffer[active] /\ filledFrom'[active] = filledFrom[active]
      /\ buffer'[Inactive] = Read(Sources[n], keys)
      /\ filledFrom'[Inactive] = filledFrom[Inactive] \union ({Sources[n]} \X keys)
  BY <1>1, <1>6, <1>7
<1>10. LoadInv'
  <2>1. LastRead' \in 0 .. Len(Sources)
    BY <1>4, <1>6
  <2>2. \A i \in 1 .. Len(toLoad') : toLoad'[i] = Sources[LastRead' + i]
    <3> SUFFICES ASSUME NEW i \in 1 .. Len(toLoad') PROVE toLoad'[i] = Sources[LastRead' + i]
      OBVIOUS
    <3>1. toLoad'[i] = toLoad[i + 1] /\ i + 1 \in 1 .. Len(toLoad)
      BY <1>3, <1>5
    <3>2. toLoad[i + 1] = Sources[LastRead + (i + 1)]
      BY <1>2, <3>1 DEF LoadInv
    <3>3. LastRead + (i + 1) = LastRead' + i
      BY <1>6
    <3> QED
      BY <3>1, <3>2, <3>3
  <2>3. GivenBy(filledFrom'[Inactive], LastRead')
    <3> SUFFICES ASSUME NEW q \in filledFrom'[Inactive]
                 PROVE  q[2] \in Key /\ \E i \in 1 .. LastRead' : Sources[i] = q[1]
      BY DEF GivenBy
    <3>1. CASE q \in filledFrom[Inactive]
      <4>1. PICK i \in 1 .. LastRead : Sources[i] = q[1]
        BY <1>2, <3>1 DEF LoadInv, GivenBy
      <4> QED
        BY <1>2, <1>6, <3>1, <4>1 DEF LoadInv, GivenBy
    <3>2. CASE q \in {Sources[n]} \X keys
      <4>1. q[1] = Sources[n] /\ q[2] \in Key
        BY <1>8, <3>2
      <4> QED
        BY <1>6, <4>1
    <3> QED
      BY <1>9, <3>1, <3>2
  <2>4. Overlays(buffer'[Inactive], filledFrom'[Inactive])
    <3> DEFINE new == Read(Sources[n], keys)
    <3>1. Overlays(buffer[Inactive], filledFrom[Inactive])
      BY <1>2 DEF LoadInv
    <3>2. GivenBy(filledFrom[Inactive], n - 1)
      <4>1. n - 1 = LastRead
        BY <1>6
      <4> QED
        BY <1>2, <4>1 DEF LoadInv
    <3>3. ReplacedBy(buffer[Inactive], new, Sources[n], version, keys)
      BY DEF Read, ReplacedBy
    <3>4. n \in DOMAIN Sources
      BY <1>6
    <3>5. Overlays(new, filledFrom[Inactive] \union ({Sources[n]} \X keys))
      <4> HIDE DEF n, new
      <4> QED
        BY <1>8, <3>1, <3>2, <3>3, <3>4, ReadKeepsOverlays
    <3> QED
      BY <1>9, <3>5
  <2> QED
    BY <1>3, <2>1, <2>2, <2>3, <2>4 DEF LoadInv
<1> QED
  BY <1>3, <1>9, <1>10 DEF PriorityInv, LaterSourceWins

LEMMA PriorityAgain ==
    ASSUME TypeOK, PriorityInv, [Next]_vars
    PROVE  PriorityInv'
<1> USE DEF PriorityInv, LaterSourceWins, LoadInv, LastRead, bgVars, mainVars, fileVars
<1>1. CASE Clear
  BY <1>1, ClearKeepsPriority
<1>2. CASE LoadSource
  BY <1>2, LoadKeepsPriority
<1>3. CASE Swap
  BY <1>3 DEF Swap
<1>4. CASE UNCHANGED <<active, buffer, filledFrom, toLoad>> /\ (bg' = "loading" => bg = "loading")
  BY <1>4 DEF Inactive
<1>5. CASE EditFiles \/ ReloadConfig \/ ReloadConfigurables
  BY <1>4, <1>5 DEF EditFiles, ReloadConfig, ReloadConfigurables, SeeChanged, ResetChanged,
                    TakePointer, UseValue, EndReload
<1>6. CASE SeeRequest \/ ResetRequest \/ SetChanged
  BY <1>4, <1>6 DEF SeeRequest, ResetRequest, SetChanged
<1>7. CASE UNCHANGED vars
  BY <1>4, <1>7 DEF vars
<1> QED
  BY <1>1, <1>2, <1>3, <1>5, <1>6, <1>7 DEF Next, Execute

\* LaterSourceWins: where several sources gave a key, the active buffer has the
\* value of the one that was added last, whatever part of each file was read.
THEOREM LaterSourceWinsHolds == Spec => []LaterSourceWins
<1>1. Init => PriorityInv
  BY DEF Init, PriorityInv, LaterSourceWins, Buffer
<1>2. TypeOK /\ PriorityInv /\ [Next]_vars => PriorityInv'
  BY PriorityAgain
<1>3. PriorityInv => LaterSourceWins
  BY DEF PriorityInv
<1> QED
  BY <1>1, <1>2, <1>3, TypeCorrect, PTL DEF Spec
=============================================================================
