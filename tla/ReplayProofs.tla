---------------------------- MODULE ReplayProofs ----------------------------
(***************************************************************************)
(* What a replay of time series delivers, for any number of files of any   *)
(* kind and length, any jitter and any timeout.                            *)
(***************************************************************************)
EXTENDS Replay, Formats, DataLemmas, TLAPS

-----------------------------------------------------------------------------
(***************************************************************************)
(* The inductive invariant.  A source waits for its next event in the      *)
(* multimap, with the record that follows those it was current for; it has *)
(* not been added yet; or it is done, and no usable record is left.        *)
(***************************************************************************)
Waits(s) == \E e \in Range(agenda) : e.source = s

IsFresh(s) == position[s] = 0 /\ time[s] = 0 /\ Len(delivered[s]) = 0

InStep(s) ==
    /\ position[s] = Len(delivered[s]) + 1 /\ current[s] = position[s]
    /\ position[s] <= Len(records[s])
    /\ time[s] >= clock /\ time[s] >= records[s][position[s]]
    /\ ~Jittered => time[s] = records[s][position[s]] /\ IsUsable(s, position[s])

IsDone(s) == \A i \in 1 .. Len(records[s]) : IsUsable(s, i) => i <= Len(delivered[s])

InFileOrder(s) ==
    /\ Len(delivered[s]) <= Len(records[s])
    /\ \A i \in 1 .. Len(delivered[s]) : delivered[s][i] = i
    /\ ~Jittered => \A i \in 1 .. Len(delivered[s]) : IsUsable(s, i)

SourceOK(s) ==
    /\ InFileOrder(s)
    /\ s \notin Added => IsFresh(s)
    /\ Waits(s) => InStep(s)
    /\ s \in Added /\ ~Waits(s) => IsDone(s)

PhaseOK ==
    /\ toAdd # <<>> => clock = 0 /\ source = NoSource /\ ~complete
    /\ complete => toAdd = <<>> /\ agenda = <<>>

ReplayInv ==
    /\ TypeOK
    /\ PhaseOK
    /\ \A s \in Source : SourceOK(s)
    /\ DataOfEvent
-----------------------------------------------------------------------------
\* A bounded sequence is a sequence that is not longer than its bound.
LEMMA BoundedFacts ==
    ASSUME NEW S, NEW n \in Nat
    PROVE  /\ \A s \in BoundedSeq(S, n) : s \in Seq(S) /\ Len(s) <= n
           /\ \A s \in Seq(S) : Len(s) <= n => s \in BoundedSeq(S, n)
<1>1. ASSUME NEW s \in BoundedSeq(S, n) PROVE s \in Seq(S) /\ Len(s) <= n
  <2>1. PICK m \in 0 .. n : s \in [1 .. m -> S]
    BY DEF BoundedSeq, SeqOf
  <2> QED
    BY <2>1, FunctionIsSeq
<1>2. ASSUME NEW s \in Seq(S), Len(s) <= n PROVE s \in BoundedSeq(S, n)
  <2>1. Len(s) \in 0 .. n /\ s \in [1 .. Len(s) -> S]
    BY <1>2, LenProperties
  <2> QED
    BY <2>1 DEF BoundedSeq, SeqOf
<1> QED
  BY <1>1, <1>2

\* The files and what was delivered are sequences.
LEMMA FileFacts ==
    ASSUME TypeOK, NEW s \in Source
    PROVE  /\ Len(records[s]) \in 0 .. MaxRecords /\ DOMAIN records[s] = 1 .. Len(records[s])
           /\ \A i \in 1 .. Len(records[s]) : records[s][i] \in Nat
           /\ delivered[s] \in Seq(1 .. MaxRecords) /\ Len(delivered[s]) \in Nat
           /\ DOMAIN delivered[s] = 1 .. Len(delivered[s])
           /\ position[s] \in 0 .. MaxRecords /\ time[s] \in Nat
           /\ current[s] \in 0 .. MaxRecords
<1>1. MaxRecords \in Nat
  BY ConstantsAssumption DEF ConstantsAssumption
<1>2. records[s] \in BoundedSeq(0 .. MaxTime, MaxRecords)
  BY DEF TypeOK
<1>3. delivered[s] \in BoundedSeq(1 .. MaxRecords, MaxRecords)
  BY DEF TypeOK
<1>4. records[s] \in Seq(0 .. MaxTime) /\ Len(records[s]) <= MaxRecords
  BY <1>1, <1>2, BoundedFacts
<1>5. delivered[s] \in Seq(1 .. MaxRecords)
  BY <1>1, <1>3, BoundedFacts
<1>6. /\ Len(records[s]) \in Nat /\ DOMAIN records[s] = 1 .. Len(records[s])
      /\ \A i \in 1 .. Len(records[s]) : records[s][i] \in 0 .. MaxTime
  BY <1>4, SeqFacts
<1>7. Len(delivered[s]) \in Nat /\ DOMAIN delivered[s] = 1 .. Len(delivered[s])
  BY <1>5, SeqFacts
<1>8. position[s] \in 0 .. MaxRecords /\ time[s] \in Nat /\ current[s] \in 0 .. MaxRecords
  BY DEF TypeOK
<1> QED
  BY <1>1, <1>4, <1>5, <1>6, <1>7, <1>8

\* The multimap of the sources by the time of their next event.
IsAgenda(seq) ==
    /\ seq \in Seq(Entry) /\ IsOrdered(seq)
    /\ \A j, k \in DOMAIN seq : j # k => seq[j].source # seq[k].source

\* Entries of the agenda have a time.
LEMMA EntriesAreTimed == IsTimed(Entry)
BY DEF IsTimed, Entry

\* A source that is not in the multimap can be inserted.
LEMMA EmplaceAgenda ==
    ASSUME NEW seq, IsAgenda(seq), NEW e \in Entry,
           \A x \in Range(seq) : x.source # e.source
    PROVE  /\ IsAgenda(Emplace(seq, e))
           /\ Range(Emplace(seq, e)) = Range(seq) \cup {e}
<1> DEFINE longer == Emplace(seq, e)
<1>1. seq \in Seq(Entry) /\ IsOrdered(seq) /\ IsTimed(Entry)
  BY EntriesAreTimed DEF IsAgenda
<1>2. longer \in Seq(Entry)
  BY <1>1, EmplaceFacts
<1>3. IsOrdered(longer)
  BY <1>1, EmplaceKeepsOrder
<1>4. /\ Range(longer) = Range(seq) \cup {e}
      /\ \A j, k \in DOMAIN longer : j # k =>
           \/ longer[j] = e /\ longer[k] \in Range(seq)
           \/ longer[k] = e /\ longer[j] \in Range(seq)
           \/ \E l, m \in DOMAIN seq : l # m /\ longer[j] = seq[l] /\ longer[k] = seq[m]
  BY <1>1, EmplaceEntries
<1> HIDE DEF longer
<1>5. ASSUME NEW j \in DOMAIN longer, NEW k \in DOMAIN longer, j # k
      PROVE  longer[j].source # longer[k].source
  BY <1>4, <1>5 DEF IsAgenda
<1> QED
  BY <1>2, <1>3, <1>4, <1>5 DEF IsAgenda, longer

\* The first source has the earliest event, and is not among the others.
LEMMA TailAgenda ==
    ASSUME NEW seq, IsAgenda(seq), seq # <<>>
    PROVE  /\ Head(seq) \in Entry /\ IsAgenda(Tail(seq))
           /\ Range(seq) = Range(Tail(seq)) \cup {Head(seq)}
           /\ \A x \in Range(Tail(seq)) :
                x \in Entry /\ x.source # Head(seq).source /\ Head(seq).time <= x.time
<1> DEFINE head == Head(seq)
           rest == Tail(seq)
<1>1. seq \in Seq(Entry) /\ IsOrdered(seq)
  BY DEF IsAgenda
<1>2. /\ rest \in Seq(Entry) /\ head \in Entry
      /\ Range(seq) = Range(rest) \cup {head}
      /\ \A x \in Range(rest) : \E k \in DOMAIN seq : k # 1 /\ x = seq[k]
      /\ 1 \in DOMAIN seq /\ head = seq[1]
      /\ \A j, k \in DOMAIN rest :
           /\ j + 1 \in DOMAIN seq /\ rest[j] = seq[j + 1]
           /\ j # k => j + 1 # k + 1
           /\ j < k => j + 1 < k + 1
  BY <1>1, TailEntries
<1>3. DOMAIN seq = 1 .. Len(seq) /\ Len(seq) \in Nat /\ \A k \in DOMAIN seq : seq[k] \in Entry
  BY <1>1, SeqFacts
<1> HIDE DEF head, rest
<1>4. \A x \in Range(rest) : x \in Entry /\ x.source # head.source /\ head.time <= x.time
  <2> SUFFICES ASSUME NEW k \in DOMAIN seq, k # 1
               PROVE  /\ seq[k] \in Entry /\ seq[k].source # head.source
                      /\ head.time <= seq[k].time
    BY <1>2
  <2>1. seq[k].source # head.source
    BY <1>2 DEF IsAgenda
  <2>2. 1 < k
    BY <1>3
  <2> QED
    BY <1>1, <1>2, <1>3, <2>1, <2>2 DEF IsOrdered
<1>5. IsOrdered(rest)
  BY <1>1, <1>2 DEF IsOrdered
<1>6. \A j, k \in DOMAIN rest : j # k => rest[j].source # rest[k].source
  BY <1>2 DEF IsAgenda
<1> QED
  BY <1>2, <1>4, <1>5, <1>6 DEF IsAgenda, head, rest
-----------------------------------------------------------------------------
\* A source that is added was not among those added before: no path is given twice.
LEMMA AddedGrows ==
    ASSUME ToAddTypeOK, toAdd # <<>>, toAdd' = Tail(toAdd)
    PROVE  /\ Head(toAdd) \in Source \ Added
           /\ ToAddTypeOK'
           /\ Added' = Added \cup {Head(toAdd)}
<1>1. Paths \in Seq(Source) /\ IsInjective(Paths)
  BY ConstantsAssumption DEF ConstantsAssumption
<1>2. Len(Paths) \in Nat /\ DOMAIN Paths = 1 .. Len(Paths)
  BY <1>1, SeqFacts
<1>3. /\ toAdd \in Seq(Source) /\ Len(toAdd) <= Len(Paths)
      /\ \A k \in 1 .. Len(toAdd) : toAdd[k] = Paths[Len(Paths) - Len(toAdd) + k]
  BY DEF ToAddTypeOK
<1>4. /\ Tail(toAdd) \in Seq(Source) /\ Len(toAdd) \in Nat \ {0}
      /\ Len(Tail(toAdd)) = Len(toAdd) - 1 /\ DOMAIN Tail(toAdd) = 1 .. Len(toAdd) - 1
      /\ \A k \in 1 .. Len(toAdd) - 1 : Tail(toAdd)[k] = toAdd[k + 1]
      /\ Head(toAdd) = toAdd[1] /\ Head(toAdd) \in Source
  BY <1>3, TailFacts
<1>5. ASSUME NEW k \in 1 .. Len(toAdd) - 1
      PROVE  Tail(toAdd)[k] = Paths[Len(Paths) - (Len(toAdd) - 1) + k]
  <2>1. k + 1 \in 1 .. Len(toAdd)
    BY <1>4
  <2>2. Tail(toAdd)[k] = Paths[Len(Paths) - Len(toAdd) + (k + 1)]
    BY <1>3, <1>4, <2>1
  <2>3. Len(Paths) - Len(toAdd) + (k + 1) = Len(Paths) - (Len(toAdd) - 1) + k
    BY <1>2, <1>4
  <2> QED
    BY <2>2, <2>3
<1>6. ToAddTypeOK'
  <2>1. Len(toAdd) - 1 <= Len(Paths)
    BY <1>2, <1>3, <1>4
  <2> QED
    BY <1>4, <1>5, <2>1 DEF ToAddTypeOK
<1> DEFINE p == Len(Paths) - Len(toAdd) + 1
<1>7. p \in DOMAIN Paths /\ Head(toAdd) = Paths[p]
  BY <1>2, <1>3, <1>4
<1>8. Head(toAdd) \notin Range(Tail(toAdd))
  <2> SUFFICES ASSUME NEW k \in 1 .. Len(toAdd) - 1, Tail(toAdd)[k] = Head(toAdd) PROVE FALSE
    BY <1>4 DEF Range
  <2>1. p + k \in DOMAIN Paths /\ p + k # p
    BY <1>2, <1>3, <1>4
  <2>2. Tail(toAdd)[k] = Paths[p + k]
    <3>1. Len(Paths) - (Len(toAdd) - 1) + k = p + k
      BY <1>2, <1>4
    <3> QED
      BY <1>5, <3>1
  <2> QED
    BY <1>1, <1>7, <2>1, <2>2 DEF IsInjective
<1>9. Head(toAdd) \in Range(Paths)
  BY <1>7 DEF Range
<1>10. Range(toAdd) = Range(Tail(toAdd)) \cup {Head(toAdd)}
  BY <1>3, TailEntries
<1> QED
  BY <1>4, <1>6, <1>8, <1>9, <1>10 DEF Added

\* What moveNext() does to the state of a source, and what it leaves alone.
LEMMA MoveChanges ==
    ASSUME TypeOK, NEW s \in Source, MoveNext(s)
    PROVE  /\ position' \in [Source -> 0 .. MaxRecords] /\ time' \in [Source -> Nat]
           /\ current' \in [Source -> 0 .. MaxRecords]
           /\ previous' \in [Source -> 0 .. MaxRecords]
           /\ previous'[s] = current[s]
           /\ \A t \in Source \ {s} :
                /\ position'[t] = position[t] /\ time'[t] = time[t]
                /\ current'[t] = current[t] /\ previous'[t] = previous[t]
           /\ HasNext(s) =>
                /\ position'[s] = position[s] + 1 /\ current'[s] = position[s] + 1
                /\ time'[s] >= records[s][position[s] + 1]
                /\ Jittered => time'[s] >= time[s]
                /\ ~Jittered => time'[s] = records[s][position[s] + 1]
<1>1. /\ position \in [Source -> 0 .. MaxRecords] /\ time \in [Source -> Nat]
      /\ current \in [Source -> 0 .. MaxRecords] /\ previous \in [Source -> 0 .. MaxRecords]
  BY DEF TypeOK
<1>2. MaxRecords \in Nat /\ jitter \subseteq Nat
  BY ConstantsAssumption DEF ConstantsAssumption, TypeOK
<1>3. /\ Len(records[s]) \in 0 .. MaxRecords
      /\ \A i \in 1 .. Len(records[s]) : records[s][i] \in Nat
      /\ position[s] \in 0 .. MaxRecords /\ time[s] \in Nat /\ current[s] \in 0 .. MaxRecords
  BY FileFacts
<1>4. CASE HasNext(s)
  <2>1. PICK delay \in jitter :
          time' = [time EXCEPT ![s] = JitteredTime(s, records[s][position[s] + 1], delay)]
    BY <1>4 DEF MoveNext
  <2>2. /\ position' = [position EXCEPT ![s] = @ + 1]
        /\ current' = [current EXCEPT ![s] = position[s] + 1]
        /\ previous' = [previous EXCEPT ![s] = current[s]]
    BY <1>4 DEF MoveNext
  <2>3. position[s] + 1 \in 1 .. Len(records[s]) /\ position[s] + 1 \in 0 .. MaxRecords
    BY <1>2, <1>3, <1>4 DEF HasNext
  <2>4. PICK new : new = JitteredTime(s, records[s][position[s] + 1], delay)
    OBVIOUS
  <2>5. /\ new \in Nat /\ new >= records[s][position[s] + 1]
        /\ Jittered => new >= time[s]
        /\ ~Jittered => new = records[s][position[s] + 1]
    <3>1. PICK rec \in Nat : rec = records[s][position[s] + 1]
      BY <1>3, <2>3
    <3>2. delay \in Nat /\ rec + delay \in Nat /\ time[s] \in Nat
      BY <1>2, <1>3
    <3>3. new = IF Jittered THEN LaterOf(time[s], rec + delay) ELSE rec
      BY <2>4, <3>1 DEF JitteredTime
    <3>4. CASE Jittered
      BY <3>1, <3>2, <3>3, <3>4 DEF LaterOf
    <3>5. CASE ~Jittered
      BY <3>1, <3>3, <3>5
    <3> QED
      BY <3>4, <3>5
  <2>6. time' \in [Source -> Nat] /\ time'[s] = new /\ \A t \in Source \ {s} : time'[t] = time[t]
    BY <1>1, <2>1, <2>4, <2>5
  <2>7. /\ position' \in [Source -> 0 .. MaxRecords] /\ position'[s] = position[s] + 1
        /\ \A t \in Source \ {s} : position'[t] = position[t]
    BY <1>1, <2>2, <2>3
  <2>8. /\ current' \in [Source -> 0 .. MaxRecords] /\ current'[s] = position[s] + 1
        /\ \A t \in Source \ {s} : current'[t] = current[t]
    BY <1>1, <2>2, <2>3
  <2>9. /\ previous' \in [Source -> 0 .. MaxRecords] /\ previous'[s] = current[s]
        /\ \A t \in Source \ {s} : previous'[t] = previous[t]
    BY <1>1, <1>3, <2>2
  <2> QED
    BY <2>5, <2>6, <2>7, <2>8, <2>9
<1>5. CASE ~HasNext(s)
  <2>1. /\ time' = [time EXCEPT ![s] = TimeAtEnd(s)]
        /\ previous' = [previous EXCEPT ![s] = current[s]]
        /\ current' = IF s \in Pcap THEN current ELSE [current EXCEPT ![s] = 0]
        /\ position' = position
    BY <1>5 DEF MoveNext, PreviousAtEnd, None
  <2>2. TimeAtEnd(s) \in Nat /\ 0 \in 0 .. MaxRecords
    BY <1>2, <1>3 DEF TimeAtEnd
  <2>3. /\ time' \in [Source -> Nat]
        /\ \A t \in Source \ {s} : time'[t] = time[t]
    BY <1>1, <2>1, <2>2
  <2>4. /\ previous' \in [Source -> 0 .. MaxRecords] /\ previous'[s] = current[s]
        /\ \A t \in Source \ {s} : previous'[t] = previous[t]
    BY <1>1, <1>3, <2>1
  <2>5. /\ current' \in [Source -> 0 .. MaxRecords]
        /\ \A t \in Source \ {s} : current'[t] = current[t]
    BY <1>1, <2>1, <2>2
  <2> QED
    BY <1>1, <1>5, <2>1, <2>3, <2>4, <2>5
<1> QED
  BY <1>4, <1>5

\* A source whose d records before have had their events has its next one with the
\* record after them, or there is no usable record after them.
LEMMA MoveOutcome ==
    ASSUME TypeOK, NEW s \in Source, MoveNext(s),
           NEW d, d = position[s], d <= Len(records[s]),
           ~Jittered => \/ d = 0 /\ time[s] = 0
                        \/ d # 0 /\ time[s] = records[s][d] /\ IsUsable(s, d)
    PROVE  /\ IsEntered(s, time'[s]) =>
                /\ position'[s] = d + 1 /\ current'[s] = d + 1 /\ d + 1 <= Len(records[s])
                /\ time'[s] >= time[s] /\ time'[s] >= records[s][d + 1]
                /\ ~Jittered => time'[s] = records[s][d + 1] /\ IsUsable(s, d + 1)
           /\ ~IsEntered(s, time'[s]) =>
                \A i \in 1 .. Len(records[s]) : IsUsable(s, i) => i <= d
<1>1. /\ Len(records[s]) \in Nat /\ \A i \in 1 .. Len(records[s]) : records[s][i] \in Nat
      /\ d \in Nat /\ time[s] \in Nat
  BY FileFacts
<1>2. /\ time' \in [Source -> Nat] /\ time'[s] \in Nat
      /\ HasNext(s) =>
            /\ position'[s] = d + 1 /\ current'[s] = d + 1
            /\ time'[s] >= records[s][d + 1]
            /\ Jittered => time'[s] >= time[s]
            /\ ~Jittered => time'[s] = records[s][d + 1]
  BY MoveChanges
<1>3. HasNext(s) <=> d + 1 <= Len(records[s])
  BY <1>1 DEF HasNext
<1>4. d + 1 <= Len(records[s]) => d + 1 \in 1 .. Len(records[s]) /\ records[s][d + 1] \in Nat
  BY <1>1
<1>5. ASSUME IsEntered(s, time'[s]), ~Jittered
      PROVE  IsUsable(s, d + 1)
  <2>1. /\ d + 1 <= Len(records[s]) /\ time'[s] # 0 /\ time'[s] >= time[s]
        /\ time'[s] = records[s][d + 1]
    BY <1>2, <1>3, <1>5 DEF IsEntered
  <2>2. \A j \in 1 .. d + 1 : j \in 1 .. d \/ j = d + 1
    BY <1>1
  <2>3. records[s][d + 1] > 0
    BY <1>4, <2>1
  <2>4. CASE d = 0
    BY <2>2, <2>3, <2>4 DEF IsUsable
  <2>5. CASE d # 0
    <3>1. records[s][d + 1] >= records[s][(d + 1) - 1]
      BY <1>1, <1>5, <2>1, <2>5
    <3> QED
      BY <1>5, <2>2, <2>3, <2>5, <3>1 DEF IsUsable
  <2> QED
    BY <2>4, <2>5
<1>6. ASSUME ~IsEntered(s, time'[s]), NEW i \in 1 .. Len(records[s]), IsUsable(s, i), i > d
      PROVE  FALSE
  <2>1. HasNext(s) /\ d + 1 \in 1 .. i /\ d + 1 \in 1 .. Len(records[s])
    BY <1>1, <1>3, <1>6
  <2>2. records[s][d + 1] > 0 /\ records[s][d + 1] \in Nat
    BY <1>1, <1>6, <2>1 DEF IsUsable
  <2>3. time'[s] # 0
    BY <1>1, <1>2, <2>1, <2>2
  <2>4. time'[s] >= time[s]
    <3>1. CASE Jittered
      BY <1>2, <2>1, <3>1
    <3>2. CASE ~Jittered
      <4>1. CASE d = 0
        BY <1>1, <1>2, <2>1, <3>2, <4>1
      <4>2. CASE d # 0
        <5>1. d + 1 # 1 /\ (d + 1) - 1 = d
          BY <1>1, <4>2
        <5>2. records[s][d + 1] >= records[s][d]
          BY <1>6, <2>1, <3>2, <5>1 DEF IsUsable
        <5> QED
          BY <1>2, <2>1, <3>2, <4>2, <5>2
      <4> QED
        BY <4>1, <4>2
    <3> QED
      BY <3>1, <3>2
  <2> QED
    BY <1>6, <2>1, <2>3, <2>4 DEF IsEntered
<1> QED
  BY <1>1, <1>2, <1>3, <1>5, <1>6 DEF IsEntered

\* addDataSource() keeps the multimap one, and enters the source or does not.
LEMMA AgendaChanges ==
    ASSUME TypeOK, NEW s \in Source, NEW others, IsAgenda(others),
           \A x \in Range(others) : x.source # s,
           AddDataSource(s, others)
    PROVE  /\ IsAgenda(agenda')
           /\ Range(agenda') = IF IsEntered(s, time'[s])
                                 THEN Range(others) \cup {[time |-> time'[s], source |-> s]}
                                 ELSE Range(others)
<1>1. PICK new : new = [time |-> time'[s], source |-> s]
  OBVIOUS
<1>2. MoveNext(s) /\ agenda' = IF IsEntered(s, time'[s]) THEN Emplace(others, new) ELSE others
  BY <1>1 DEF AddDataSource, Insert
<1>3. time'[s] \in Nat
  BY <1>2, MoveChanges
<1>4. new \in Entry /\ \A x \in Range(others) : x.source # new.source
  BY <1>1, <1>3 DEF Entry
<1>5. IsAgenda(Emplace(others, new)) /\ Range(Emplace(others, new)) = Range(others) \cup {new}
  BY <1>4, EmplaceAgenda
<1> QED
  BY <1>1, <1>2, <1>5

\* The agenda that the type invariant speaks of.
LEMMA AgendaFacts ==
    ASSUME TypeOK
    PROVE  /\ IsAgenda(agenda)
           /\ \A e \in Range(agenda) : /\ e \in Entry /\ e.source \in Source
                                       /\ e.time = time[e.source] /\ e.source \in Added
<1>1. IsAgenda(agenda)
  BY DEF TypeOK, AgendaTypeOK, IsAgenda
<1>2. \A e \in Range(agenda) : e \in Entry
  <2>1. agenda \in Seq(Entry)
    BY DEF TypeOK, AgendaTypeOK
  <2>2. DOMAIN agenda = 1 .. Len(agenda) /\ \A k \in 1 .. Len(agenda) : agenda[k] \in Entry
    BY <2>1, SeqFacts
  <2> QED
    BY <2>2 DEF Range
<1> QED
  BY <1>1, <1>2 DEF TypeOK, AgendaTypeOK, Entry

\* A source is left as it was.
LEMMA OthersKept ==
    ASSUME NEW s \in Source, SourceOK(s),
           UNCHANGED inputVars, delivered'[s] = delivered[s],
           position'[s] = position[s], time'[s] = time[s],
           current'[s] = current[s],
           Waits(s)' <=> Waits(s), (s \in Added)' <=> s \in Added,
           Waits(s) => time[s] >= clock'
    PROVE  SourceOK(s)'
<1>1. \A i : IsUsable(s, i)' <=> IsUsable(s, i)
  BY DEF IsUsable, inputVars, Jittered
<1>2. InFileOrder(s)'
  BY <1>1 DEF SourceOK, InFileOrder, inputVars, Jittered
<1>3. (s \notin Added => IsFresh(s))'
  BY DEF SourceOK, IsFresh
<1>4. (Waits(s) => InStep(s))'
  <2>1. ASSUME Waits(s) PROVE InStep(s)'
    BY <1>1, <2>1 DEF SourceOK, InStep, inputVars, Jittered
  <2> QED
    BY <2>1
<1>5. (s \in Added /\ ~Waits(s) => IsDone(s))'
  BY <1>1 DEF SourceOK, IsDone, inputVars
<1> QED
  BY <1>2, <1>3, <1>4, <1>5 DEF SourceOK

\* A source that has moved on from its first d records waits with the next one, or is
\* done.
LEMMA SourceMoves ==
    ASSUME TypeOK, NEW s \in Source, NEW others, IsAgenda(others),
           \A x \in Range(others) : x.source # s,
           AddDataSource(s, others), UNCHANGED inputVars,
           NEW d, d = position[s], d <= Len(records[s]), d = Len(delivered'[s]),
           ~Jittered => \/ d = 0 /\ time[s] = 0
                        \/ d # 0 /\ time[s] = records[s][d] /\ IsUsable(s, d),
           InFileOrder(s)', (s \in Added)', time[s] >= clock', clock' \in Nat
    PROVE  /\ SourceOK(s)'
           /\ \A t \in Source \ {s} : Waits(t)' <=> \E e \in Range(others) : e.source = t
<1>1. Range(agenda') = IF IsEntered(s, time'[s])
                         THEN Range(others) \cup {[time |-> time'[s], source |-> s]}
                         ELSE Range(others)
  BY AgendaChanges
<1>2. MoveNext(s) /\ records' = records /\ jitter' = jitter
  BY DEF AddDataSource, inputVars
<1>3. \A i : IsUsable(s, i)' <=> IsUsable(s, i)
  BY <1>2 DEF IsUsable, Jittered
<1>4. /\ IsEntered(s, time'[s]) =>
            /\ position'[s] = d + 1 /\ current'[s] = d + 1 /\ d + 1 <= Len(records[s])
            /\ time'[s] >= time[s] /\ time'[s] >= records[s][d + 1]
            /\ ~Jittered => time'[s] = records[s][d + 1] /\ IsUsable(s, d + 1)
      /\ ~IsEntered(s, time'[s]) =>
            \A i \in 1 .. Len(records[s]) : IsUsable(s, i) => i <= d
  BY <1>2, MoveOutcome
<1>5. time[s] \in Nat /\ time'[s] \in Nat
  BY <1>2, FileFacts, MoveChanges
<1>6. Waits(s)' <=> IsEntered(s, time'[s])
  <2>1. CASE IsEntered(s, time'[s])
    <3>1. [time |-> time'[s], source |-> s] \in Range(agenda')
      BY <1>1, <2>1
    <3>2. [time |-> time'[s], source |-> s].source = s
      OBVIOUS
    <3>3. Waits(s)'
      BY <3>1, <3>2 DEF Waits
    <3> QED
      BY <2>1, <3>3
  <2>2. CASE ~IsEntered(s, time'[s])
    <3>1. ~Waits(s)'
      BY <1>1, <2>2 DEF Waits
    <3> QED
      BY <2>2, <3>1
  <2> QED
    BY <2>1, <2>2
<1>7. ASSUME NEW t \in Source \ {s} PROVE Waits(t)' <=> \E e \in Range(others) : e.source = t
  BY <1>1 DEF Waits
<1>8. ASSUME IsEntered(s, time'[s]) PROVE InStep(s)'
  <2>1. time'[s] >= clock'
    BY <1>4, <1>5, <1>8
  <2>2. position'[s] = Len(delivered'[s]) + 1 /\ current'[s] = position'[s]
    BY <1>4, <1>8
  <2>3. /\ position'[s] <= Len(records'[s]) /\ time'[s] >= records'[s][position'[s]]
        /\ ~Jittered' => time'[s] = records'[s][position'[s]] /\ IsUsable(s, position'[s])
    BY <1>2, <1>4, <1>8 DEF Jittered
  <2>4. ~Jittered' => IsUsable(s, d + 1)'
    BY <1>2, <1>3, <1>4, <1>8 DEF Jittered
  <2>5. IsUsable(s, position[s])' <=> IsUsable(s, d + 1)'
    BY <1>4, <1>8 DEF IsUsable
  <2> QED
    BY <2>1, <2>2, <2>3, <2>4, <2>5 DEF InStep
<1>9. ASSUME ~IsEntered(s, time'[s]) PROVE IsDone(s)'
  BY <1>2, <1>3, <1>4, <1>9 DEF IsDone
<1>10. SourceOK(s)'
  BY <1>6, <1>8, <1>9 DEF SourceOK
<1> QED
  BY <1>7, <1>10

\* The multimap has its type again when a source s has moved on.
LEMMA AgendaTypeKept ==
    ASSUME TypeOK, NEW s \in Source, NEW others, IsAgenda(others),
           \A x \in Range(others) : x \in Range(agenda) /\ x.source # s,
           AddDataSource(s, others), Added \subseteq Added', (s \in Added)'
    PROVE  AgendaTypeOK'
<1>1. /\ IsAgenda(agenda')
      /\ Range(agenda') = IF IsEntered(s, time'[s])
                            THEN Range(others) \cup {[time |-> time'[s], source |-> s]}
                            ELSE Range(others)
  BY AgendaChanges
<1>2. MoveNext(s)
  BY DEF AddDataSource
<1>3. \A t \in Source \ {s} : time'[t] = time[t]
  BY <1>2, MoveChanges
<1>4. ASSUME NEW e \in Range(agenda') PROVE e.time = time'[e.source] /\ (e.source \in Added)'
  <2>1. CASE e \in Range(others)
    <3>1. /\ e.source \in Source \ {s} /\ e.time = time[e.source] /\ e.source \in Added
      BY <2>1, AgendaFacts
    <3> QED
      BY <1>3, <3>1
  <2>2. CASE e = [time |-> time'[s], source |-> s]
    BY <2>2
  <2> QED
    BY <1>1, <2>1, <2>2
<1> QED
  BY <1>1, <1>4 DEF AgendaTypeOK, IsAgenda

\* A source that is added has had no event.
LEMMA SetupKeeps ==
    ASSUME ReplayInv, Setup
    PROVE  ReplayInv'
<1>1. TypeOK /\ PhaseOK
  BY DEF ReplayInv
<1>2. PICK s : s = Head(toAdd)
  OBVIOUS
<1>3. /\ toAdd # <<>> /\ AddDataSource(s, agenda) /\ toAdd' = Tail(toAdd)
      /\ UNCHANGED <<inputVars, clock, source, complete, delivered>>
  BY <1>2 DEF Setup
<1>4. s \in Source \ Added /\ ToAddTypeOK' /\ Added' = Added \cup {s}
  BY <1>1, <1>2, <1>3, AddedGrows DEF TypeOK
<1>5. clock = 0 /\ source = NoSource /\ ~complete
  BY <1>1, <1>3 DEF PhaseOK
<1>6. IsAgenda(agenda) /\ \A e \in Range(agenda) : e.source # s
  BY <1>1, <1>4, AgendaFacts
<1>7. MoveNext(s)
  BY <1>3 DEF AddDataSource
<1>8. /\ position' \in [Source -> 0 .. MaxRecords] /\ time' \in [Source -> Nat]
      /\ current' \in [Source -> 0 .. MaxRecords] /\ previous' \in [Source -> 0 .. MaxRecords]
      /\ \A t \in Source \ {s} : /\ position'[t] = position[t] /\ time'[t] = time[t]
                                 /\ current'[t] = current[t]
  BY <1>1, <1>4, <1>7, MoveChanges
<1>9. AgendaTypeOK'
  BY <1>1, <1>3, <1>4, <1>6, AgendaTypeKept
<1>10. TypeOK'
  <2>1. /\ jitter' \in Jitters /\ records' \in [Source -> BoundedSeq(0 .. MaxTime, MaxRecords)]
        /\ clock' \in Nat /\ complete' \in BOOLEAN
        /\ delivered' \in [Source -> BoundedSeq(1 .. MaxRecords, MaxRecords)]
    BY <1>1, <1>3 DEF TypeOK, inputVars
  <2>2. source' \in Added' \cup {NoSource}
    BY <1>3, <1>5
  <2> QED
    BY <1>4, <1>8, <1>9, <2>1, <2>2 DEF TypeOK
<1>11. PhaseOK'
  BY <1>3, <1>5 DEF PhaseOK
<1>12. IsFresh(s) /\ InFileOrder(s) /\ Len(records[s]) \in Nat
  BY <1>1, <1>4, FileFacts DEF ReplayInv, SourceOK
<1>13. InFileOrder(s)'
  <2>1. records' = records /\ jitter' = jitter /\ delivered' = delivered
    BY <1>3 DEF inputVars
  <2> QED
    BY <1>12, <2>1 DEF InFileOrder, Jittered, IsUsable
<1>14. /\ SourceOK(s)'
       /\ \A t \in Source \ {s} : Waits(t)' <=> \E e \in Range(agenda) : e.source = t
  <2>1. position[s] = 0 /\ time[s] = 0 /\ Len(delivered'[s]) = 0 /\ 0 <= Len(records[s])
    BY <1>3, <1>12 DEF IsFresh
  <2>2. (s \in Added)' /\ time[s] >= clock' /\ clock' \in Nat
    BY <1>3, <1>4, <1>5, <2>1
  <2>3. UNCHANGED inputVars
    BY <1>3
  <2> QED
    BY <1>1, <1>3, <1>4, <1>6, <1>13, <2>1, <2>2, <2>3, SourceMoves
<1>15. ASSUME NEW t \in Source \ {s} PROVE SourceOK(t)'
  <2>1. (Waits(t)' <=> Waits(t)) /\ ((t \in Added)' <=> t \in Added)
    BY <1>4, <1>14 DEF Waits
  <2>2. delivered'[t] = delivered[t] /\ UNCHANGED inputVars
    BY <1>3
  <2>3. Waits(t) => time[t] >= clock'
    BY <1>3 DEF ReplayInv, SourceOK, InStep
  <2>4. SourceOK(t)
    BY DEF ReplayInv
  <2> QED
    BY <1>8, <2>1, <2>2, <2>3, <2>4, OthersKept
<1>16. DataOfEvent'
  BY <1>3, <1>5 DEF DataOfEvent
<1> QED
  BY <1>10, <1>11, <1>14, <1>15, <1>16 DEF ReplayInv

\* The event of a source has the record it waits with, at a time that no other source
\* that waits is before.
LEMMA EventChanges ==
    ASSUME ReplayInv, Event, NEW s, s = First
    PROVE  /\ s \in Source /\ s \in Added /\ InStep(s) /\ time[s] >= clock
           /\ IsAgenda(Tail(agenda))
           /\ \A e \in Range(Tail(agenda)) :
                e \in Range(agenda) /\ e.source # s /\ e.time >= time[s]
           /\ \A t \in Source \ {s} :
                Waits(t) <=> \E e \in Range(Tail(agenda)) : e.source = t
           /\ AddDataSource(s, Tail(agenda))
           /\ toAdd = <<>> /\ ~complete /\ agenda # <<>>
           /\ source' = s /\ clock' = time[s]
           /\ delivered' = [delivered EXCEPT ![s] = Append(@, current[s])]
           /\ UNCHANGED <<inputVars, toAdd, complete>>
<1>1. TypeOK
  BY DEF ReplayInv
<1>2. /\ agenda # <<>> /\ toAdd = <<>> /\ ~complete
      /\ AddDataSource(s, Tail(agenda)) /\ source' = s /\ clock' = time[s]
      /\ delivered' = [delivered EXCEPT ![s] = Append(@, current[s])]
      /\ UNCHANGED <<inputVars, toAdd, complete>>
  BY DEF Event, Running, EventTime
<1>3. PICK head : head = Head(agenda)
  OBVIOUS
<1>4. /\ head \in Entry /\ IsAgenda(Tail(agenda))
      /\ Range(agenda) = Range(Tail(agenda)) \cup {head}
      /\ \A x \in Range(Tail(agenda)) :
           x \in Entry /\ x.source # head.source /\ head.time <= x.time
  BY <1>1, <1>2, <1>3, AgendaFacts, TailAgenda
<1>5. head \in Range(agenda) /\ head.source = s
  BY <1>3, <1>4 DEF First
<1>6. s \in Source /\ s \in Added /\ head.time = time[s] /\ head.time \in Nat
  BY <1>1, <1>4, <1>5, AgendaFacts DEF Entry
<1>7. InStep(s)
  BY <1>5, <1>6 DEF ReplayInv, SourceOK, Waits
<1>8. \A e \in Range(Tail(agenda)) : e \in Range(agenda) /\ e.source # s /\ e.time >= time[s]
  <2>1. \A e \in Range(Tail(agenda)) : e.time \in Nat
    BY <1>4 DEF Entry
  <2> QED
    BY <1>4, <1>5, <1>6, <2>1
<1>9. \A t \in Source \ {s} : Waits(t) <=> \E e \in Range(Tail(agenda)) : e.source = t
  BY <1>4, <1>5 DEF Waits
<1>10. time[s] >= clock
  BY <1>7 DEF InStep
<1> QED
  BY <1>2, <1>4, <1>6, <1>7, <1>8, <1>9, <1>10

\* What a source has delivered grows by the record that it waits with.
LEMMA DeliveryKeeps ==
    ASSUME ReplayInv, Event, NEW s, s = First
    PROVE  /\ delivered'[s] = Append(delivered[s], current[s])
           /\ Len(delivered'[s]) = Len(delivered[s]) + 1
           /\ Last(delivered'[s]) = current[s]
           /\ delivered' \in [Source -> BoundedSeq(1 .. MaxRecords, MaxRecords)]
           /\ InFileOrder(s)'
           /\ \A t \in Source \ {s} : delivered'[t] = delivered[t]
<1>1. TypeOK /\ MaxRecords \in Nat
  BY ConstantsAssumption DEF ReplayInv, ConstantsAssumption
<1>2. /\ s \in Source /\ InStep(s)
      /\ delivered' = [delivered EXCEPT ![s] = Append(@, current[s])]
      /\ UNCHANGED inputVars
  BY EventChanges
<1>3. /\ Len(records[s]) \in 0 .. MaxRecords
      /\ delivered[s] \in Seq(1 .. MaxRecords) /\ Len(delivered[s]) \in Nat
      /\ delivered \in [Source -> BoundedSeq(1 .. MaxRecords, MaxRecords)]
  BY <1>1, <1>2, FileFacts DEF TypeOK
<1> DEFINE d == Len(delivered[s])
<1>4. current[s] = d + 1 /\ d + 1 <= Len(records[s]) /\ current[s] \in 1 .. MaxRecords
  BY <1>1, <1>2, <1>3 DEF InStep
<1>5. PICK longer : longer = Append(delivered[s], current[s])
  OBVIOUS
<1>6. /\ longer \in Seq(1 .. MaxRecords) /\ Len(longer) = d + 1
      /\ \A i \in 1 .. d : longer[i] = delivered[s][i]
      /\ longer[d + 1] = current[s]
  BY <1>3, <1>4, <1>5, AppendFacts
<1>7. longer \in BoundedSeq(1 .. MaxRecords, MaxRecords)
  <2>1. Len(longer) <= MaxRecords
    BY <1>1, <1>3, <1>4, <1>6
  <2> QED
    BY <1>1, <1>6, <2>1, BoundedFacts
<1>8. delivered'[s] = longer
  BY <1>2, <1>3, <1>5
<1>9. delivered' \in [Source -> BoundedSeq(1 .. MaxRecords, MaxRecords)]
  <2>1. delivered' = [delivered EXCEPT ![s] = longer]
    BY <1>2, <1>3, <1>5
  <2> QED
    BY <1>3, <1>7, <2>1
<1>10. InFileOrder(s)'
  <2>1. /\ \A i \in 1 .. d : delivered[s][i] = i
        /\ ~Jittered => \A i \in 1 .. d : IsUsable(s, i)
    BY <1>2 DEF ReplayInv, SourceOK, InFileOrder
  <2>2. ~Jittered => IsUsable(s, d + 1)
    BY <1>2, <1>4 DEF InStep
  <2>3. \A i \in 1 .. d + 1 : i \in 1 .. d \/ i = d + 1
    BY <1>3
  <2>4. \A i \in 1 .. Len(delivered'[s]) : delivered'[s][i] = i
    BY <1>4, <1>6, <1>8, <2>1, <2>3
  <2>5. ~Jittered => \A i \in 1 .. Len(delivered'[s]) : IsUsable(s, i)
    BY <1>6, <1>8, <2>1, <2>2, <2>3
  <2>6. records' = records /\ jitter' = jitter /\ (\A i : IsUsable(s, i)' <=> IsUsable(s, i))
    BY <1>2 DEF inputVars, IsUsable, Jittered
  <2>7. Len(delivered'[s]) <= Len(records'[s])
    BY <1>4, <1>6, <1>8, <2>6
  <2> QED
    BY <2>4, <2>5, <2>6, <2>7 DEF InFileOrder, Jittered
<1>11. Last(delivered'[s]) = current[s]
  BY <1>6, <1>8 DEF Last
<1>12. \A t \in Source \ {s} : delivered'[t] = delivered[t]
  BY <1>2, <1>3
<1> QED
  BY <1>5, <1>6, <1>8, <1>9, <1>10, <1>11, <1>12

\* The source that had its event waits with its next record or is done, and its values
\* are those of the record before.
LEMMA EventKeeps ==
    ASSUME ReplayInv, Event
    PROVE  ReplayInv'
<1>1. TypeOK
  BY DEF ReplayInv
<1>2. PICK s : s = First
  OBVIOUS
<1>3. PICK others : others = Tail(agenda)
  OBVIOUS
<1>4. /\ s \in Source /\ s \in Added /\ InStep(s)
      /\ IsAgenda(others) /\ AddDataSource(s, others)
      /\ \A e \in Range(others) : e \in Range(agenda) /\ e.source # s /\ e.time >= time[s]
      /\ \A t \in Source \ {s} : Waits(t) <=> \E e \in Range(others) : e.source = t
      /\ toAdd = <<>> /\ ~complete
      /\ source' = s /\ clock' = time[s]
      /\ UNCHANGED <<inputVars, toAdd, complete>>
  BY <1>2, <1>3, EventChanges
<1>5. /\ Len(delivered'[s]) = Len(delivered[s]) + 1
      /\ Last(delivered'[s]) = current[s]
      /\ delivered' \in [Source -> BoundedSeq(1 .. MaxRecords, MaxRecords)]
      /\ InFileOrder(s)'
      /\ \A t \in Source \ {s} : delivered'[t] = delivered[t]
  BY <1>2, DeliveryKeeps
<1>6. MoveNext(s)
  BY <1>4 DEF AddDataSource
<1>7. /\ position' \in [Source -> 0 .. MaxRecords] /\ time' \in [Source -> Nat]
      /\ current' \in [Source -> 0 .. MaxRecords] /\ previous' \in [Source -> 0 .. MaxRecords]
      /\ previous'[s] = current[s]
      /\ \A t \in Source \ {s} : /\ position'[t] = position[t] /\ time'[t] = time[t]
                                 /\ current'[t] = current[t]
  BY <1>1, <1>4, <1>6, MoveChanges
<1>8. Added' = Added
  BY <1>4 DEF Added
<1>9. AgendaTypeOK'
  BY <1>1, <1>4, <1>8, AgendaTypeKept
<1>10. time[s] \in Nat /\ Len(delivered[s]) \in Nat
  BY <1>1, <1>4, FileFacts
<1>11. TypeOK'
  <2>1. /\ jitter' \in Jitters /\ records' \in [Source -> BoundedSeq(0 .. MaxTime, MaxRecords)]
        /\ complete' \in BOOLEAN /\ ToAddTypeOK'
    BY <1>1, <1>4 DEF TypeOK, ToAddTypeOK, inputVars
  <2>2. source' \in Added' \cup {NoSource} /\ clock' \in Nat
    BY <1>4, <1>8, <1>10
  <2> QED
    BY <1>5, <1>7, <1>9, <2>1, <2>2 DEF TypeOK
<1>12. PhaseOK'
  BY <1>4 DEF PhaseOK
<1>13. /\ SourceOK(s)'
       /\ \A t \in Source \ {s} : Waits(t)' <=> \E e \in Range(others) : e.source = t
  <2> DEFINE d == position[s]
  <2>1. /\ d = Len(delivered'[s]) /\ d # 0 /\ d <= Len(records[s])
        /\ ~Jittered => time[s] = records[s][d] /\ IsUsable(s, d)
    BY <1>4, <1>5, <1>10 DEF InStep
  <2>2. (s \in Added)' /\ time[s] >= clock' /\ clock' \in Nat
    BY <1>4, <1>8, <1>10
  <2>3. \A x \in Range(others) : x.source # s
    BY <1>4
  <2> HIDE DEF d
  <2>4. d = position[s] /\ UNCHANGED inputVars
    BY <1>4 DEF d
  <2> QED
    BY <1>1, <1>4, <1>5, <2>1, <2>2, <2>3, <2>4, SourceMoves
<1>14. ASSUME NEW t \in Source \ {s} PROVE SourceOK(t)'
  <2>1. (Waits(t)' <=> Waits(t)) /\ ((t \in Added)' <=> t \in Added)
    BY <1>4, <1>8, <1>13
  <2>2. delivered'[t] = delivered[t] /\ UNCHANGED inputVars
    BY <1>4, <1>5
  <2>3. Waits(t) => time[t] >= clock'
    <3>1. ASSUME NEW e \in Range(others), e.source = t PROVE time[t] >= time[s]
      BY <1>1, <1>4, <3>1, AgendaFacts
    <3> QED
      BY <1>4, <3>1
  <2>4. SourceOK(t)
    BY DEF ReplayInv
  <2> QED
    BY <1>7, <2>1, <2>2, <2>3, <2>4, OthersKept
<1>15. DataOfEvent'
  BY <1>4, <1>5, <1>7 DEF DataOfEvent
<1> QED
  BY <1>11, <1>12, <1>13, <1>14, <1>15 DEF ReplayInv

\* Neither the end nor a gap changes anything about the sources.
LEMMA QuietKeeps ==
    ASSUME ReplayInv, Finish \/ Gap \/ UNCHANGED vars
    PROVE  ReplayInv'
<1>1. TypeOK /\ PhaseOK
  BY DEF ReplayInv
<1>2. UNCHANGED <<inputVars, toAdd, sourceVars, agenda, delivered>>
  BY DEF Finish, Gap, vars
<1>3. Added' = Added
  BY <1>2 DEF Added
<1>4. Timeout \in Nat /\ NoSource \notin Source
  BY ConstantsAssumption DEF ConstantsAssumption
<1>5. \/ clock' = clock /\ source' = source /\ (complete' = complete \/ Finish)
      \/ Gap
  BY DEF Finish, vars
<1>6. ASSUME Gap
      PROVE  /\ clock' = clock + Timeout /\ source' = NoSource /\ complete' = complete
             /\ toAdd = <<>> /\ ~complete
             /\ \A e \in Range(agenda) : e.time >= clock'
  <2>1. /\ clock' = clock + Timeout /\ source' = NoSource /\ complete' = complete
        /\ toAdd = <<>> /\ ~complete /\ agenda # <<>> /\ time[First] > clock + Timeout
    BY <1>6 DEF Gap, GapEnd, Running, TimesOut
  <2>2. PICK head : head = Head(agenda)
    OBVIOUS
  <2>3. /\ head \in Entry /\ Range(agenda) = Range(Tail(agenda)) \cup {head}
        /\ \A x \in Range(Tail(agenda)) : x \in Entry /\ head.time <= x.time
    BY <1>1, <2>1, <2>2, AgendaFacts, TailAgenda
  <2>4. head.time = time[First] /\ head.time \in Nat
    BY <1>1, <2>2, <2>3, AgendaFacts DEF First, Entry
  <2>5. ASSUME NEW e \in Range(agenda) PROVE e.time >= clock'
    <3>1. e.time \in Nat /\ head.time <= e.time
      BY <2>3, <2>4 DEF Entry
    <3>2. clock \in Nat
      BY <1>1 DEF TypeOK
    <3> QED
      BY <1>4, <2>1, <2>4, <3>1, <3>2
  <2> QED
    BY <2>1, <2>5
<1>7. clock' \in Nat /\ source' \in Added' \cup {NoSource} /\ complete' \in BOOLEAN
  <2>1. CASE Gap
    BY <1>1, <1>3, <1>4, <1>6, <2>1 DEF TypeOK
  <2>2. CASE ~Gap
    BY <1>1, <1>3, <1>5, <2>2 DEF TypeOK, Finish
  <2> QED
    BY <2>1, <2>2
<1>8. AgendaTypeOK'
  BY <1>1, <1>2, <1>3 DEF TypeOK, AgendaTypeOK, sourceVars
<1>9. TypeOK'
  BY <1>1, <1>2, <1>7, <1>8 DEF TypeOK, ToAddTypeOK, inputVars, sourceVars
<1>10. PhaseOK'
  <2>1. CASE Finish
    BY <2>1 DEF PhaseOK, Finish, Running
  <2>2. CASE ~Finish
    BY <1>1, <1>2, <1>5, <1>6, <2>2 DEF PhaseOK
  <2> QED
    BY <2>1, <2>2
<1>11. ASSUME NEW t \in Source PROVE SourceOK(t)'
  <2>1. Waits(t) => time[t] >= clock'
    <3>1. CASE Gap
      BY <1>1, <1>6, <3>1, AgendaFacts DEF Waits
    <3>2. CASE ~Gap
      BY <1>5, <3>2 DEF ReplayInv, SourceOK, InStep
    <3> QED
      BY <3>1, <3>2
  <2>2. /\ UNCHANGED inputVars /\ delivered'[t] = delivered[t]
        /\ position'[t] = position[t] /\ time'[t] = time[t]
        /\ current'[t] = current[t]
        /\ (Waits(t)' <=> Waits(t)) /\ ((t \in Added)' <=> t \in Added)
    BY <1>2, <1>3 DEF sourceVars, Waits
  <2> QED
    BY <2>1, <2>2, OthersKept DEF ReplayInv
<1>12. DataOfEvent'
  BY <1>2, <1>5, <1>6 DEF ReplayInv, DataOfEvent, sourceVars
<1> QED
  BY <1>9, <1>10, <1>11, <1>12 DEF ReplayInv
-----------------------------------------------------------------------------
\* At first no source has been added.
LEMMA ReplayStarts ==
    ASSUME Init
    PROVE  ReplayInv
<1>1. /\ Paths \in Seq(Source) /\ MaxRecords \in Nat
      /\ toAdd = Paths /\ agenda = <<>> /\ clock = 0 /\ source = NoSource
      /\ complete = FALSE /\ jitter \in Jitters
      /\ records \in [Source -> BoundedSeq(0 .. MaxTime, MaxRecords)]
  BY ConstantsAssumption DEF ConstantsAssumption, Init
<1>2. Added = {}
  BY <1>1 DEF Added
<1>3. ToAddTypeOK
  <2>1. Len(Paths) \in Nat
    BY <1>1, SeqFacts
  <2>2. \A k \in 1 .. Len(Paths) : Len(Paths) - Len(Paths) + k = k
    BY <2>1
  <2> QED
    BY <1>1, <2>1, <2>2 DEF ToAddTypeOK
<1>4. AgendaTypeOK
  <2>1. agenda \in Seq(Entry) /\ DOMAIN agenda = {} /\ Range(agenda) = {}
    BY <1>1 DEF Range
  <2> QED
    BY <2>1 DEF AgendaTypeOK, IsOrdered
<1>5. /\ position \in [Source -> 0 .. MaxRecords] /\ time \in [Source -> Nat]
      /\ current \in [Source -> 0 .. MaxRecords] /\ previous \in [Source -> 0 .. MaxRecords]
  BY <1>1 DEF Init, None
<1>6. delivered \in [Source -> BoundedSeq(1 .. MaxRecords, MaxRecords)]
  <2>1. <<>> \in Seq(1 .. MaxRecords) /\ Len(<<>>) <= MaxRecords
    BY <1>1
  <2>2. <<>> \in BoundedSeq(1 .. MaxRecords, MaxRecords)
    BY <1>1, <2>1, BoundedFacts
  <2> QED
    BY <2>2 DEF Init
<1>7. TypeOK
  BY <1>1, <1>3, <1>4, <1>5, <1>6 DEF TypeOK
<1>8. PhaseOK
  BY <1>1 DEF PhaseOK
<1>9. ASSUME NEW s \in Source PROVE SourceOK(s)
  <2>1. position[s] = 0 /\ time[s] = 0 /\ Len(delivered[s]) = 0
    BY DEF Init
  <2>2. ~Waits(s)
    BY <1>1 DEF Waits, Range
  <2>3. InFileOrder(s)
    BY <1>7, <2>1, FileFacts DEF InFileOrder
  <2> QED
    BY <1>2, <2>1, <2>2, <2>3 DEF SourceOK, IsFresh
<1>10. DataOfEvent
  BY <1>1 DEF DataOfEvent
<1> QED
  BY <1>7, <1>8, <1>9, <1>10 DEF ReplayInv

\* The invariant holds in every reachable state.
LEMMA ReplayInvHolds == Spec => []ReplayInv
<1>1. ASSUME ReplayInv, [Next]_vars PROVE ReplayInv'
  BY <1>1, SetupKeeps, EventKeeps, QuietKeeps DEF Next, Execute
<1> QED
  BY <1>1, ReplayStarts, PTL DEF Spec

\* The sources in the multimap are ordered by the times they have, each is in it once,
\* and the buffers hold records of their files, whatever is in these.
THEOREM ReplayTypeCorrect == Spec => []TypeOK
<1>1. ReplayInv => TypeOK
  BY DEF ReplayInv
<1> QED
  BY <1>1, ReplayInvHolds, PTL

\* In the event of a CSV record, values() of the source is that record, for files of
\* any length and any merge of them.
THEOREM DataOfEventHolds == Spec => []DataOfEvent
<1>1. ReplayInv => DataOfEvent
  BY DEF ReplayInv
<1> QED
  BY <1>1, ReplayInvHolds, PTL

\* When the replay is complete, every source has had an event for each of its usable
\* records, once and in the order of the file, and without jitter no other event.
THEOREM AllDeliveredHolds == Spec => []AllDelivered
<1>1. ASSUME ReplayInv PROVE AllDelivered
  <2> SUFFICES ASSUME complete, NEW s \in Range(Paths)
               PROVE  /\ \A i \in DOMAIN delivered[s] : delivered[s][i] = i
                      /\ DOMAIN delivered[s] \subseteq DOMAIN records[s]
                      /\ \A i \in DOMAIN records[s] : IsUsable(s, i) => i \in DOMAIN delivered[s]
                      /\ ~Jittered => \A i \in DOMAIN delivered[s] : IsUsable(s, i)
    BY DEF AllDelivered
  <2>1. toAdd = <<>> /\ agenda = <<>>
    BY <1>1 DEF ReplayInv, PhaseOK
  <2>2. s \in Added /\ ~Waits(s)
    BY <2>1 DEF Added, Waits, Range
  <2>3. s \in Source
    <3>1. Paths \in Seq(Source)
      BY ConstantsAssumption DEF ConstantsAssumption
    <3>2. \A k \in DOMAIN Paths : Paths[k] \in Source
      BY <3>1, SeqFacts
    <3> QED
      BY <3>2 DEF Range
  <2>4. InFileOrder(s) /\ IsDone(s)
    BY <1>1, <2>2, <2>3 DEF ReplayInv, SourceOK
  <2>5. /\ DOMAIN delivered[s] = 1 .. Len(delivered[s]) /\ Len(delivered[s]) \in Nat
        /\ DOMAIN records[s] = 1 .. Len(records[s]) /\ Len(records[s]) \in Nat
    BY <1>1, <2>3, FileFacts DEF ReplayInv
  <2>6. DOMAIN delivered[s] \subseteq DOMAIN records[s]
    BY <2>4, <2>5 DEF InFileOrder
  <2>7. \A i \in DOMAIN records[s] : IsUsable(s, i) => i \in DOMAIN delivered[s]
    BY <2>4, <2>5 DEF IsDone
  <2> QED
    BY <2>4, <2>5, <2>6, <2>7 DEF InFileOrder
<1> QED
  BY <1>1, ReplayInvHolds, PTL

\* The simulated clock never goes back and, once it is set, no cycle moves it by more
\* than the timeout; an event has the time of its record, which only jitter makes later.
THEOREM OnTimeHolds == Spec => OnTime
<1>1. ASSUME ReplayInv, [Next]_vars
      PROVE  /\ clock' >= clock
             /\ Timeout > 0 /\ clock > 0 => clock' <= clock + Timeout
             /\ \A s \in Source : delivered'[s] # delivered[s] =>
                  /\ source' = s
                  /\ clock' >= records[s][Last(delivered'[s])]
                  /\ ~Jittered => clock' = records[s][Last(delivered'[s])]
  <2>1. clock \in Nat /\ Timeout \in Nat
    BY <1>1, ConstantsAssumption DEF ReplayInv, TypeOK, ConstantsAssumption
  <2>2. CASE Event
    <3>1. PICK s : s = First
      OBVIOUS
    <3>2. s \in Source /\ InStep(s) /\ time[s] >= clock /\ source' = s /\ clock' = time[s]
      BY <1>1, <2>2, <3>1, EventChanges
    <3>3. /\ Last(delivered'[s]) = current[s]
          /\ \A t \in Source \ {s} : delivered'[t] = delivered[t]
      BY <1>1, <2>2, <3>1, DeliveryKeeps
    <3>4. /\ current[s] = position[s]
          /\ clock' >= records[s][current[s]]
          /\ ~Jittered => clock' = records[s][current[s]]
      BY <3>2 DEF InStep
    <3>5. time[s] \in Nat
      BY <1>1, <3>2, FileFacts DEF ReplayInv
    <3>6. Timeout > 0 /\ clock > 0 => clock' <= clock + Timeout
      BY <2>1, <2>2, <3>1, <3>2, <3>5 DEF Event, TimesOut
    <3> QED
      BY <3>2, <3>3, <3>4, <3>6
  <2>3. CASE Gap
    BY <2>1, <2>3 DEF Gap, GapEnd
  <2>4. CASE Setup \/ Finish \/ UNCHANGED vars
    BY <2>1, <2>4 DEF Setup, Finish, vars
  <2> QED
    BY <1>1, <2>2, <2>3, <2>4 DEF Next, Execute
<1>2. ReplayInv /\ [Next]_vars =>
        [/\ clock' >= clock
         /\ Timeout > 0 /\ clock > 0 => clock' <= clock + Timeout
         /\ \A s \in Source : delivered'[s] # delivered[s] =>
              LET recordTime == records[s][Last(delivered'[s])] IN
              /\ source' = s
              /\ clock' >= recordTime
              /\ ~Jittered => clock' = recordTime]_vars
  BY <1>1
<1> QED
  BY <1>2, ReplayInvHolds, PTL DEF Spec, OnTime
-----------------------------------------------------------------------------
(***************************************************************************)
(* What the parser of lines finds.                                         *)
(***************************************************************************)
IsFound(char, line, i, next) ==
    /\ next <= Len(line) => line[next] = char
    /\ \A j \in i .. next - 1 : line[j] # char

\* Something is found from every place of a line on, if only its end.
LEMMA FindFacts ==
    ASSUME NEW S, NEW line \in Seq(S), NEW char, NEW i \in 1 .. Len(line) + 1
    PROVE  /\ Find(char, line, i) \in i .. Len(line) + 1
           /\ IsFound(char, line, i, Find(char, line, i))
<1> DEFINE T == {next \in i .. Len(line) + 1 : next <= Len(line) => line[next] = char}
<1>1. Len(line) \in Nat
  OBVIOUS
<1>2. T \subseteq Nat /\ Len(line) + 1 \in T
  BY <1>1
<1>3. PICK next \in T : \A m \in T : next <= m
  <2> HIDE DEF T
  <2> QED
    BY <1>2, LeastNatural
<1>4. next \in i .. Len(line) + 1 /\ IsFound(char, line, i, next)
  BY <1>1, <1>3 DEF IsFound
<1> QED
  BY <1>4 DEF Find, IsFound

\* And it is the only one.
LEMMA FindIs ==
    ASSUME NEW S, NEW line \in Seq(S), NEW char, NEW i \in 1 .. Len(line) + 1,
           NEW next \in i .. Len(line) + 1, IsFound(char, line, i, next)
    PROVE  Find(char, line, i) = next
<1> DEFINE c == Find(char, line, i)
<1>1. c \in i .. Len(line) + 1 /\ IsFound(char, line, i, c)
  BY FindFacts
<1> HIDE DEF c
<1>2. Len(line) \in Nat
  OBVIOUS
<1>3. ~ c < next
  BY <1>1, <1>2 DEF IsFound
<1>4. ~ next < c
  BY <1>1, <1>2 DEF IsFound
<1>5. c = next
  BY <1>1, <1>2, <1>3, <1>4
<1> QED
  BY <1>5 DEF c

LEMMA NextCommaFacts ==
    ASSUME NEW S, NEW line \in Seq(S), NEW i \in 1 .. Len(line) + 1
    PROVE  NextComma(line, i) \in i .. Len(line) + 1
<1>1. Len(line) \in Nat
  OBVIOUS
<1>2. CASE i > Len(line) \/ line[i] # Quote
  BY <1>2, FindFacts DEF NextComma
<1>3. CASE ~(i > Len(line) \/ line[i] # Quote)
  <2>1. i + 1 \in 1 .. Len(line) + 1
    BY <1>1, <1>3
  <2>2. PICK q \in i + 1 .. Len(line) + 1 : q = Find(Quote, line, i + 1)
    BY <2>1, FindFacts
  <2>3. q \in 1 .. Len(line) + 1
    BY <1>1, <2>1
  <2>4. Find(Comma, line, q) \in q .. Len(line) + 1
    BY <2>3, FindFacts
  <2>5. NextComma(line, i) = Find(Comma, line, q)
    BY <1>3, <2>2 DEF NextComma
  <2> QED
    BY <1>1, <2>4, <2>5
<1> QED
  BY <1>2, <1>3
-----------------------------------------------------------------------------
(***************************************************************************)
(* The recursive function of Split exists.                                 *)
(***************************************************************************)
CellsFrom(f, line, i) ==
    LET next == NextComma(line, i) IN
    <<Cleaned(SubSeq(line, i, next - 1))>>
        \o IF next > Len(line) THEN <<>> ELSE f[next + 1]

IsSplit(f, line) == f = [i \in 1 .. Len(line) + 1 |-> CellsFrom(f, line, i)]

\* The cells from a place on depend on those from later places only.
LEMMA CellsFromLater ==
    ASSUME NEW S, NEW line \in Seq(S), NEW i \in 1 .. Len(line) + 1, NEW f, NEW g,
           \A j \in i + 1 .. Len(line) + 1 : f[j] = g[j]
    PROVE  CellsFrom(f, line, i) = CellsFrom(g, line, i)
<1>1. PICK next \in i .. Len(line) + 1 : next = NextComma(line, i)
  BY NextCommaFacts
<1>2. Len(line) \in Nat
  OBVIOUS
<1>3. ~ next > Len(line) => f[next + 1] = g[next + 1]
  BY <1>2
<1> QED
  BY <1>1, <1>3, Zenon DEF CellsFrom

LEMMA SplitExists ==
    ASSUME NEW S, NEW line \in Seq(S)
    PROVE  \E f : IsSplit(f, line)
<1>1. PICK n \in Nat : n = Len(line)
  OBVIOUS
<1> DEFINE IsFrom(f, k) == \A i \in 1 .. n + 1 : i > n + 1 - k => f[i] = CellsFrom(f, line, i)
           T == {k \in Nat : \E f : IsFrom(f, k)}
<1>2. 0 \in T
  OBVIOUS
<1>3. ASSUME NEW k \in T PROVE k + 1 \in T
  <2>1. PICK f : IsFrom(f, k)
    OBVIOUS
  <2> DEFINE h == [i \in 1 .. n + 1 |-> IF i > n + 1 - k THEN f[i] ELSE CellsFrom(f, line, i)]
  <2>2. ASSUME NEW i \in 1 .. n + 1, i > n + 1 - (k + 1) PROVE h[i] = CellsFrom(h, line, i)
    <3>1. \A j \in i + 1 .. Len(line) + 1 : f[j] = h[j]
      BY <1>1, <2>2
    <3>2. i \in 1 .. Len(line) + 1
      BY <1>1
    <3>3. h[i] = CellsFrom(f, line, i)
      BY <2>1
    <3> HIDE DEF h
    <3>4. CellsFrom(f, line, i) = CellsFrom(h, line, i)
      BY <3>1, <3>2, CellsFromLater
    <3> QED
      BY <3>3, <3>4
  <2> HIDE DEF h
  <2> QED
    BY <2>2
<1>4. n + 1 \in T
  <2> HIDE DEF T
  <2>1. T \subseteq Nat
    BY DEF T
  <2> QED
    BY <1>2, <1>3, <2>1, NaturalsByInduction
<1>5. PICK f : IsFrom(f, n + 1)
  BY <1>4
<1> DEFINE h == [i \in 1 .. Len(line) + 1 |-> CellsFrom(f, line, i)]
<1>6. \A i \in 1 .. Len(line) + 1 : h[i] = f[i]
  BY <1>1, <1>5
<1>7. ASSUME NEW i \in 1 .. Len(line) + 1 PROVE CellsFrom(f, line, i) = CellsFrom(h, line, i)
  <2>1. \A j \in i + 1 .. Len(line) + 1 : f[j] = h[j]
    BY <1>6
  <2> HIDE DEF h
  <2> QED
    BY <2>1, CellsFromLater
<1>8. IsSplit(h, line)
  BY <1>7, Zenon DEF IsSplit
<1> QED
  BY <1>8

LEMMA SplitIs ==
    ASSUME NEW S, NEW line \in Seq(S)
    PROVE  \E f : IsSplit(f, line) /\ Split(line) = f[1]
<1>1. \E f : f = [i \in 1 .. Len(line) + 1 |->
            LET next == NextComma(line, i) IN
            <<Cleaned(SubSeq(line, i, next - 1))>>
                \o IF next > Len(line) THEN <<>> ELSE f[next + 1]]
  BY SplitExists DEF IsSplit, CellsFrom
<1> DEFINE f == CHOOSE f : f = [i \in 1 .. Len(line) + 1 |->
            LET next == NextComma(line, i) IN
            <<Cleaned(SubSeq(line, i, next - 1))>>
                \o IF next > Len(line) THEN <<>> ELSE f[next + 1]]
<1>2. IsSplit(f, line)
  BY <1>1, Zenon DEF IsSplit, CellsFrom
<1>3. Split(line) = f[1]
  BY Zenon DEF Split
<1> QED
  BY <1>2, <1>3
-----------------------------------------------------------------------------
(***************************************************************************)
(* What a cell is printed as, and what is read of it.                      *)
(***************************************************************************)
\* The text t stands at place i of the line, up to a comma or the end.
IsAt(line, i, t) ==
    /\ i + Len(t) <= Len(line) + 1
    /\ \A k \in 1 .. Len(t) : line[i + (k - 1)] = t[k]
    /\ i + Len(t) <= Len(line) => line[i + Len(t)] = Comma

\* A sequence and one more.
LEMMA OneMoreFacts ==
    ASSUME NEW S, NEW c \in Seq(S), NEW x \in S
    PROVE  /\ c \o <<x>> \in Seq(S)
           /\ Len(c \o <<x>>) = Len(c) + 1
           /\ \A k \in 1 .. Len(c) : (c \o <<x>>)[k] = c[k]
           /\ (c \o <<x>>)[Len(c) + 1] = x
OBVIOUS

\* One sequence between two others of one element.
LEMMA Surrounded ==
    ASSUME NEW S, NEW c \in Seq(S), NEW x \in S, NEW y \in S
    PROVE  /\ <<x>> \o c \o <<y>> \in Seq(S)
           /\ Len(<<x>> \o c \o <<y>>) = Len(c) + 2
           /\ (<<x>> \o c \o <<y>>)[1] = x
           /\ (<<x>> \o c \o <<y>>)[Len(c) + 2] = y
           /\ \A k \in 2 .. Len(c) + 1 : (<<x>> \o c \o <<y>>)[k] = c[k - 1]
           /\ SubSeq(<<x>> \o c \o <<y>>, 2, Len(c) + 1) = c
<1> DEFINE t == <<x>> \o c \o <<y>>
<1>1. PICK n \in Nat : n = Len(c)
  OBVIOUS
<1>2. /\ t \in Seq(S) /\ Len(t) = n + 2
      /\ t[1] = x /\ t[n + 2] = y
      /\ \A k \in 2 .. n + 1 : t[k] = c[k - 1]
  BY <1>1
<1> HIDE DEF t
<1>3. /\ SubSeq(t, 2, n + 1) \in Seq(S) /\ Len(SubSeq(t, 2, n + 1)) = n
      /\ \A k \in 1 .. n : SubSeq(t, 2, n + 1)[k] = t[k + 1]
  BY <1>2
<1>4. \A k \in 1 .. n : SubSeq(t, 2, n + 1)[k] = c[k]
  BY <1>1, <1>2, <1>3
<1>5. SubSeq(t, 2, n + 1) = c
  BY <1>1, <1>3, <1>4
<1> QED
  BY <1>1, <1>2, <1>5 DEF t

LEMMA RemoveBlanksIs ==
    ASSUME NEW S, NEW value \in Seq(S), NEW first \in 1 .. Len(value), NEW last \in 1 .. Len(value),
           value[first] # Blank, value[last] # Blank,
           \A i \in 1 .. Len(value) : value[i] # Blank => first <= i /\ i <= last
    PROVE  RemoveBlanks(value) = SubSeq(value, first, last)
<1> DEFINE kept == {i \in DOMAIN value : value[i] # Blank}
<1>1. first \in kept /\ last \in kept /\ kept \subseteq Nat
  OBVIOUS
<1>2. \A i \in kept : first <= i /\ i <= last
  OBVIOUS
<1> HIDE DEF kept
<1>3. (CHOOSE i \in kept : \A j \in kept : i <= j) = first
  <2> DEFINE c == CHOOSE i \in kept : \A j \in kept : i <= j
  <2>1. \A j \in kept : first <= j
    BY <1>1, <1>2
  <2>2. c \in kept /\ \A j \in kept : c <= j
    BY <1>1, <2>1, Zenon
  <2> HIDE DEF c
  <2>3. c = first
    BY <1>1, <1>2, <2>2
  <2> QED
    BY <2>3 DEF c
<1>4. (CHOOSE i \in kept : \A j \in kept : i >= j) = last
  <2> DEFINE c == CHOOSE i \in kept : \A j \in kept : i >= j
  <2>1. \A j \in kept : last >= j
    BY <1>1, <1>2
  <2>2. c \in kept /\ \A j \in kept : c >= j
    BY <1>1, <2>1, Zenon
  <2> HIDE DEF c
  <2>3. c = last
    BY <1>1, <1>2, <2>2
  <2> QED
    BY <2>3 DEF c
<1>5. kept # {}
  BY <1>1
<1> QED
  BY <1>3, <1>4, <1>5, Zenon DEF RemoveBlanks, kept

\* What is written bare has no blank at either end.
LEMMA BareFacts ==
    ASSUME NEW S, NEW c \in Seq(S), RemoveBlanks(c) = c, c # <<>>
    PROVE  c[1] # Blank /\ c[Len(c)] # Blank
<1> DEFINE kept == {i \in DOMAIN c : c[i] # Blank}
<1>1. PICK n \in Nat : n = Len(c)
  OBVIOUS
<1>2. kept \subseteq Nat /\ kept \subseteq 1 .. n
  BY <1>1
<1>3. CASE kept = {}
  BY <1>3 DEF RemoveBlanks
<1>4. CASE kept # {}
  <2> HIDE DEF kept
  <2>1. PICK first \in kept : \A j \in kept : first <= j
    BY <1>2, <1>4, LeastNatural
  <2>2. PICK last \in kept : \A j \in kept : last >= j
    <3> DEFINE M == {n - j : j \in kept}
    <3>1. M \subseteq Nat /\ M # {}
      BY <1>2, <1>4
    <3>2. PICK m \in M : \A k \in M : m <= k
      <4> HIDE DEF M
      <4> QED
        BY <3>1, LeastNatural
    <3>3. PICK last \in kept : m = n - last
      BY <3>2
    <3>4. ASSUME NEW j \in kept PROVE last >= j
      <4>1. n - j \in M
        OBVIOUS
      <4>2. m <= n - j
        BY <3>2, <4>1
      <4> QED
        BY <1>2, <3>3, <4>2
    <3> QED
      BY <3>4
  <2>3. RemoveBlanks(c) = SubSeq(c, first, last)
    <3>1. first \in 1 .. Len(c) /\ last \in 1 .. Len(c) /\ c[first] # Blank /\ c[last] # Blank
      BY <1>1, <1>2 DEF kept
    <3>2. \A i \in 1 .. Len(c) : c[i] # Blank => first <= i /\ i <= last
      BY <2>1, <2>2 DEF kept
    <3> QED
      BY <3>1, <3>2, RemoveBlanksIs
  <2>4. Len(SubSeq(c, first, last)) = IF first <= last THEN last - first + 1 ELSE 0
    BY <1>1, <1>2
  <2>5. first = 1 /\ last = n
    BY <1>1, <1>2, <2>1, <2>2, <2>3, <2>4
  <2> QED
    BY <1>1, <2>1, <2>2, <2>5 DEF kept
<1> QED
  BY <1>3, <1>4
\* The characters of a line.
Character == Letters \cup {Comma, Quote, Blank}

\* The text t is read as the cell c, wherever it stands.
ReadAs(t, c) ==
    /\ t \in Seq(Character)
    /\ Cleaned(t) = c
    /\ \A line \in Seq(Character) : \A i \in 1 .. Len(line) + 1 :
         IsAt(line, i, t) => NextComma(line, i) = i + Len(t)

LEMMA ContentFacts ==
    ASSUME NEW c \in Contents
    PROVE  /\ c \in Seq(Character)
           /\ \A k \in 1 .. Len(c) : c[k] # Quote
           /\ RemoveQuotes(c) = c
<1>1. c \in Seq(Letters \cup {Comma, Blank})
  BY FormatsAssumption
<1>2. c \in Seq(Character)
  BY <1>1 DEF Character
<1>3. \A k \in 1 .. Len(c) : c[k] # Quote
  <2>1. \A k \in 1 .. Len(c) : c[k] \in Letters \cup {Comma, Blank}
    BY <1>1
  <2>2. Quote \notin Letters /\ Quote # Comma /\ Quote # Blank
    BY FormatsAssumption DEF Quote, Comma, Blank
  <2> QED
    BY <2>1, <2>2
<1>4. Len(c) >= 2 => Head(c) # Quote
  BY <1>2, <1>3
<1>5. RemoveQuotes(c) = c
  BY <1>4, Zenon DEF RemoveQuotes
<1> QED
  BY <1>2, <1>3, <1>5

\* In quotes, whether a blank follows or not.
LEMMA QuotedIsRead ==
    ASSUME NEW c \in Contents
    PROVE  ReadAs(Quoted(c), c) /\ ReadAs(Quoted(c) \o <<Blank>>, c)
<1> DEFINE q == Quoted(c)
           b == Quoted(c) \o <<Blank>>
<1>1. PICK n \in Nat : n = Len(c)
  BY ContentFacts
<1>2. c \in Seq(Character) /\ \A k \in 1 .. n : c[k] # Quote
  BY <1>1, ContentFacts
<1>3. /\ q \in Seq(Character) /\ Len(q) = n + 2
      /\ q[1] = Quote /\ q[n + 2] = Quote
      /\ \A k \in 2 .. n + 1 : q[k] = c[k - 1]
      /\ SubSeq(q, 2, n + 1) = c
  <2>1. Quote \in Character
    BY DEF Character
  <2> QED
    BY <1>1, <1>2, <2>1, Surrounded DEF Quoted
<1>4. \A k \in 2 .. n + 1 : q[k] # Quote
  BY <1>2, <1>3
<1> HIDE DEF q
<1>5. b = q \o <<Blank>>
  BY DEF q
<1> HIDE DEF b
<1>6. /\ b \in Seq(Character) /\ Len(b) = n + 3
      /\ \A k \in 1 .. n + 2 : b[k] = q[k]
      /\ b[n + 3] = Blank
  <2>1. Blank \in Character
    BY DEF Character
  <2> QED
    BY <1>3, <1>5, <2>1, OneMoreFacts
<1>7. Quote # Blank /\ Quote # Comma /\ Blank # Comma
  BY DEF Quote, Comma, Blank
<1>8. RemoveBlanks(q) = q
  <2>1. RemoveBlanks(q) = SubSeq(q, 1, n + 2)
    <3>1. 1 \in 1 .. Len(q) /\ n + 2 \in 1 .. Len(q) /\ q[1] # Blank /\ q[n + 2] # Blank
      BY <1>3, <1>7
    <3>2. \A i \in 1 .. Len(q) : q[i] # Blank => 1 <= i /\ i <= n + 2
      BY <1>3
    <3>3. q \in Seq(Character)
      BY <1>3
    <3> QED
      BY ONLY <3>1, <3>2, <3>3, RemoveBlanksIs
  <2>2. SubSeq(q, 1, n + 2) = q
    BY <1>3
  <2> QED
    BY <2>1, <2>2
<1>9. RemoveBlanks(b) = q
  <2>1. b[1] # Blank /\ b[n + 2] # Blank
    BY <1>3, <1>6, <1>7
  <2>2. RemoveBlanks(b) = SubSeq(b, 1, n + 2)
    <3>1. 1 \in 1 .. Len(b) /\ n + 2 \in 1 .. Len(b)
      BY <1>6
    <3>2. \A i \in 1 .. Len(b) : b[i] # Blank => 1 <= i /\ i <= n + 2
      BY <1>6
    <3>3. b \in Seq(Character)
      BY <1>6
    <3> QED
      BY ONLY <2>1, <3>1, <3>2, <3>3, RemoveBlanksIs
  <2>3. /\ SubSeq(b, 1, n + 2) \in Seq(Character) /\ Len(SubSeq(b, 1, n + 2)) = n + 2
        /\ \A k \in 1 .. n + 2 : SubSeq(b, 1, n + 2)[k] = q[k]
    BY <1>6
  <2>4. SubSeq(b, 1, n + 2) = q
    BY <1>3, <2>3
  <2> QED
    BY <2>2, <2>4
<1>10. RemoveQuotes(q) = c
  <2>1. Len(q) >= 2 /\ Head(q) = Quote /\ Last(q) = Quote /\ Len(q) - 1 = n + 1
    BY <1>3 DEF Last
  <2> QED
    BY <1>3, <2>1 DEF RemoveQuotes
<1>11. ASSUME NEW line \in Seq(Character), NEW i \in 1 .. Len(line) + 1, NEW t \in {q, b},
              IsAt(line, i, t)
       PROVE  NextComma(line, i) = i + Len(t)
  <2>1. PICK m \in Nat : m = Len(line)
    OBVIOUS
  <2>2. PICK l \in {n + 2, n + 3} : l = Len(t)
    BY <1>3, <1>6
  <2>3. \A k \in 1 .. n + 2 : t[k] = q[k]
    BY <1>6
  <2>4. l = n + 3 => t[n + 3] = Blank
    <3>1. CASE t = q
      <4>1. l = n + 2 /\ n \in Nat
        BY <1>3, <2>2, <3>1
      <4> QED
        BY ONLY <4>1
    <3>2. CASE t = b
      BY <1>6, <3>2
    <3> QED
      BY <3>1, <3>2
  <2>5. i + l <= m + 1 /\ \A k \in 1 .. l : line[i + (k - 1)] = t[k]
    BY <1>11, <2>1, <2>2 DEF IsAt
  <2>6. i + l <= m => line[i + l] = Comma
    BY <1>11, <2>1, <2>2 DEF IsAt
  <2>7. i <= m /\ i \in Nat
    BY <2>1, <2>5
  <2>8. line[i] = Quote
    BY <1>3, <2>3, <2>5, <2>7
  <2>9. Find(Quote, line, i + 1) = i + n + 1
    <3>1. line[i + n + 1] = Quote
      <4>1. line[i + ((n + 2) - 1)] = q[n + 2]
        BY <2>3, <2>5
      <4> QED
        BY <1>3, <2>7, <4>1
    <3>2. ASSUME NEW j \in i + 1 .. (i + n + 1) - 1 PROVE line[j] # Quote
      <4>1. j - i + 1 \in 2 .. n + 1
        BY <2>7
      <4>2. line[i + ((j - i + 1) - 1)] = q[j - i + 1]
        BY <2>3, <2>5, <4>1
      <4> QED
        BY <1>4, <2>7, <4>1, <4>2
    <3>3. i + n + 1 <= m
      BY <2>2, <2>5, <2>7
    <3>4. /\ i + 1 \in 1 .. Len(line) + 1 /\ i + n + 1 \in i + 1 .. Len(line) + 1
          /\ IsFound(Quote, line, i + 1, i + n + 1)
      BY <2>1, <2>7, <3>1, <3>2, <3>3 DEF IsFound
    <3> QED
      BY ONLY <3>4, line \in Seq(Character), FindIs
  <2>10. Find(Comma, line, i + n + 1) = i + l
    <3>1. line[i + n + 1] # Comma
      <4>1. line[i + ((n + 2) - 1)] = q[n + 2]
        BY <2>3, <2>5
      <4> QED
        BY <1>3, <1>7, <2>7, <4>1
    <3>2. l = n + 3 => line[i + n + 2] # Comma
      <4>1. l = n + 3 => line[i + ((n + 3) - 1)] = t[n + 3]
        BY <2>5
      <4> QED
        BY <1>7, <2>4, <2>7, <4>1
    <3>3. \A j \in i + n + 1 .. (i + l) - 1 : line[j] # Comma
      BY <2>7, <3>1, <3>2
    <3>4. /\ i + n + 1 \in 1 .. Len(line) + 1 /\ i + l \in i + n + 1 .. Len(line) + 1
          /\ IsFound(Comma, line, i + n + 1, i + l)
      BY <2>1, <2>2, <2>5, <2>6, <2>7, <3>3 DEF IsFound
    <3> QED
      BY ONLY <3>4, line \in Seq(Character), FindIs
  <2> QED
    BY <2>1, <2>2, <2>7, <2>8, <2>9, <2>10 DEF NextComma
<1>12. ReadAs(q, c)
  BY <1>3, <1>8, <1>10, <1>11 DEF ReadAs, Cleaned
<1>13. ReadAs(b, c)
  BY <1>6, <1>9, <1>10, <1>11 DEF ReadAs, Cleaned
<1> QED
  BY <1>12, <1>13 DEF q, b

\* Bare, whether there are blanks around it or not.
LEMMA BareIsRead ==
    ASSUME NEW c \in Contents, IsBare(c)
    PROVE  ReadAs(c, c) /\ ReadAs(<<Blank>> \o c \o <<Blank>>, c)
<1> DEFINE b == <<Blank>> \o c \o <<Blank>>
<1>1. PICK n \in Nat : n = Len(c)
  BY ContentFacts
<1>2. /\ c \in Seq(Character) /\ \A k \in 1 .. n : c[k] # Quote
      /\ RemoveQuotes(c) = c
  BY <1>1, ContentFacts
<1>3. RemoveBlanks(c) = c /\ \A k \in 1 .. n : c[k] # Comma
  BY <1>1, <1>2 DEF IsBare, Range
<1>4. /\ b \in Seq(Character) /\ Len(b) = n + 2
      /\ b[1] = Blank /\ b[n + 2] = Blank
      /\ \A k \in 2 .. n + 1 : b[k] = c[k - 1]
      /\ SubSeq(b, 2, n + 1) = c
  <2>1. Blank \in Character
    BY DEF Character
  <2> QED
    BY <1>1, <1>2, <2>1, Surrounded
<1>5. Quote # Blank /\ Quote # Comma /\ Blank # Comma
  BY DEF Quote, Comma, Blank
<1> HIDE DEF b
<1>6. RemoveBlanks(b) = c
  <2>1. CASE n = 0
    <3>1. c = <<>> /\ \A k \in 1 .. Len(b) : b[k] = Blank
      BY <1>1, <1>2, <1>4, <2>1
    <3>2. {i \in DOMAIN b : b[i] # Blank} = {}
      BY <1>4, <3>1
    <3> QED
      BY <3>1, <3>2, Zenon DEF RemoveBlanks
  <2>2. CASE n # 0
    <3>1. c # <<>>
      BY <1>1, <2>2
    <3>2. c[1] # Blank /\ c[n] # Blank
      BY <1>1, <1>2, <1>3, <3>1, BareFacts
    <3>3. b[2] # Blank /\ b[n + 1] # Blank
      BY <1>4, <2>2, <3>2
    <3>4. \A i \in 1 .. Len(b) : b[i] # Blank => 2 <= i /\ i <= n + 1
      BY <1>4
    <3>5. 2 \in 1 .. Len(b) /\ n + 1 \in 1 .. Len(b)
      BY <1>4, <2>2
    <3> QED
      BY <1>4, <3>3, <3>4, <3>5, RemoveBlanksIs
  <2> QED
    BY <2>1, <2>2
<1>7. ASSUME NEW line \in Seq(Character), NEW i \in 1 .. Len(line) + 1, NEW t \in {c, b},
             IsAt(line, i, t)
      PROVE  NextComma(line, i) = i + Len(t)
  <2>1. PICK m \in Nat : m = Len(line)
    OBVIOUS
  <2>2. PICK l \in {n, n + 2} : l = Len(t)
    BY <1>1, <1>4
  <2>3. \A k \in 1 .. l : t[k] # Comma
    <3>1. CASE t = c
      BY <1>1, <1>3, <2>2, <3>1
    <3>2. CASE t = b
      BY <1>3, <1>4, <1>5, <2>2, <3>2
    <3> QED
      BY <3>1, <3>2
  <2>4. l > 0 => t[1] # Quote
    <3>1. CASE t = c
      BY <1>1, <1>2, <2>2, <3>1
    <3>2. CASE t = b
      BY <1>4, <1>5, <3>2
    <3> QED
      BY <3>1, <3>2
  <2>5. i + l <= m + 1 /\ \A k \in 1 .. l : line[i + (k - 1)] = t[k]
    BY <1>7, <2>1, <2>2 DEF IsAt
  <2>6. i + l <= m => line[i + l] = Comma
    BY <1>7, <2>1, <2>2 DEF IsAt
  <2>7. i \in Nat /\ l \in Nat
    BY <2>1
  <2>8. i <= m => line[i] # Quote
    <3>1. CASE l = 0
      BY <1>5, <2>6, <2>7, <3>1
    <3>2. CASE l > 0
      <4>1. line[i + (1 - 1)] = t[1]
        BY <2>5, <2>7, <3>2
      <4> QED
        BY <2>4, <2>7, <3>2, <4>1
    <3> QED
      BY <2>7, <3>1, <3>2
  <2>9. \A j \in i .. (i + l) - 1 : line[j] # Comma
    <3>1. TAKE j \in i .. (i + l) - 1
    <3>2. j - i + 1 \in 1 .. l
      BY <2>7
    <3>3. line[i + ((j - i + 1) - 1)] = t[j - i + 1]
      BY <2>5, <3>2
    <3> QED
      BY <2>3, <2>7, <3>2, <3>3
  <2>10. Find(Comma, line, i) = i + l
    BY <2>1, <2>5, <2>6, <2>7, <2>9, FindIs DEF IsFound
  <2> QED
    BY <2>1, <2>2, <2>7, <2>8, <2>10 DEF NextComma
<1>8. ReadAs(c, c)
  BY <1>2, <1>3, <1>7 DEF ReadAs, Cleaned
<1>9. ReadAs(b, c)
  BY <1>2, <1>4, <1>6, <1>7 DEF ReadAs, Cleaned
<1> QED
  BY <1>8, <1>9 DEF b
-----------------------------------------------------------------------------
(***************************************************************************)
(* A line and its cells, by induction on the number of cells.              *)
(***************************************************************************)
LEMMA PrintedIsRead ==
    ASSUME NEW c \in Contents, NEW t \in Printed(c)
    PROVE  ReadAs(t, c)
<1>1. CASE IsBare(c)
  BY <1>1, QuotedIsRead, BareIsRead, Zenon DEF Printed
<1>2. CASE ~IsBare(c)
  BY <1>2, QuotedIsRead, Zenon DEF Printed
<1> QED
  BY <1>1, <1>2

\* The text t is split into these cells, whatever stands before it.
SplitsInto(t, cells) ==
    /\ t \in Seq(Character) /\ cells \in Seq(Contents)
    /\ \A before \in Seq(Character) : \A f :
         IsSplit(f, before \o t) => f[Len(before) + 1] = cells

\* The cell c stands in a line from place i on up to place e, as t; f splits it.
StandsAt(c, t, line, i, e, f) ==
    /\ ReadAs(t, c) /\ line \in Seq(Character) /\ i \in 1 .. Len(line) + 1
    /\ IsAt(line, i, t) /\ e = i + Len(t) /\ IsSplit(f, line)

\* The cell at place i of a line is the one that was printed there.
LEMMA CellIsRead ==
    ASSUME NEW c, NEW t, NEW line, NEW i, NEW e, NEW f, StandsAt(c, t, line, i, e, f),
           NEW cell, cell = <<c>>
    PROVE  /\ e > Len(line) => f[i] = cell
           /\ e <= Len(line) => f[i] = <<c>> \o f[e + 1]
<1>0. /\ ReadAs(t, c) /\ line \in Seq(Character) /\ i \in 1 .. Len(line) + 1
      /\ IsAt(line, i, t) /\ e = i + Len(t) /\ IsSplit(f, line)
  BY DEF StandsAt
<1>1. PICK n \in Nat : n = Len(t)
  BY <1>0 DEF ReadAs
<1>2. PICK m \in Nat : m = Len(line)
  BY <1>0
<1>3. NextComma(line, i) = i + n
  BY <1>0, <1>1 DEF ReadAs
<1>4. SubSeq(line, i, (i + n) - 1) = t
  <2>1. i + n <= m + 1 /\ \A k \in 1 .. n : line[i + (k - 1)] = t[k]
    BY <1>0, <1>1, <1>2 DEF IsAt
  <2>2. t \in Seq(Character)
    BY <1>0 DEF ReadAs
  <2> DEFINE s == SubSeq(line, i, (i + n) - 1)
  <2>3. s \in Seq(Character) /\ Len(s) = n /\ \A k \in 1 .. n : s[k] = line[i + (k - 1)]
    BY <1>0, <1>2, <2>1
  <2> HIDE DEF s
  <2>4. \A k \in 1 .. n : s[k] = t[k]
    BY <2>1, <2>3
  <2>5. s = t
    BY <1>1, <2>2, <2>3, <2>4
  <2> QED
    BY <2>5 DEF s
<1>5. Cleaned(t) = c
  BY <1>0 DEF ReadAs
<1>6. f[i] = CellsFrom(f, line, i)
  BY <1>0 DEF IsSplit
<1>7. /\ i + n > m => f[i] = <<c>> \o <<>>
      /\ ~ i + n > m => f[i] = <<c>> \o f[i + n + 1]
  BY <1>2, <1>3, <1>4, <1>5, <1>6, Zenon DEF CellsFrom
<1>8. <<c>> \o <<>> = <<c>>
  OBVIOUS
<1>9. i + n <= m => ~ i + n > m
  BY <1>0, <1>2
<1> QED
  BY <1>0, <1>1, <1>2, <1>7, <1>8, <1>9, Zenon

LEMMA OneCellIsRead ==
    ASSUME NEW c \in Contents, NEW t, ReadAs(t, c)
    PROVE  SplitsInto(t, <<c>>)
<1>1. PICK n \in Nat : n = Len(t)
  BY DEF ReadAs
<1>2. t \in Seq(Character)
  BY DEF ReadAs
<1>3. ASSUME NEW p \in Seq(Character), NEW f, IsSplit(f, p \o t)
      PROVE  f[Len(p) + 1] = <<c>>
  <2> DEFINE line == p \o t
  <2>1. PICK k \in Nat : k = Len(p)
    OBVIOUS
  <2>2. line \in Seq(Character) /\ Len(line) = k + n
    BY <1>1, <1>2, <2>1
  <2>3. \A j \in 1 .. n : line[k + 1 + (j - 1)] = t[j]
    BY <1>1, <1>2, <2>1
  <2> HIDE DEF line
  <2>4. IsAt(line, k + 1, t)
    BY <1>1, <2>2, <2>3 DEF IsAt
  <2>5. k + 1 \in 1 .. Len(line) + 1 /\ k + 1 + Len(t) > Len(line)
    BY <1>1, <2>2
  <2>6. IsSplit(f, line)
    BY <1>3 DEF line
  <2>7. PICK i \in Nat, e \in Nat : i = k + 1 /\ e = k + 1 + Len(t)
    OBVIOUS
  <2>8. StandsAt(c, t, line, i, e, f) /\ e > Len(line)
    BY <2>2, <2>4, <2>5, <2>6, <2>7 DEF StandsAt
  <2>9. PICK cell : cell = <<c>>
    OBVIOUS
  <2>10. f[i] = cell
    BY ONLY <2>8, <2>9, CellIsRead
  <2> QED
    BY <2>1, <2>7, <2>9, <2>10
<1> QED
  BY <1>2, <1>3 DEF SplitsInto

LEMMA MoreCellsAreRead ==
    ASSUME NEW c \in Contents, NEW t, ReadAs(t, c), NEW u, NEW cells, SplitsInto(u, cells)
    PROVE  SplitsInto(t \o <<Comma>> \o u, <<c>> \o cells)
<1> DEFINE w == t \o <<Comma>> \o u
<1>1. t \in Seq(Character) /\ u \in Seq(Character) /\ cells \in Seq(Contents)
  BY DEF ReadAs, SplitsInto
<1>2. PICK n \in Nat : n = Len(t)
  BY <1>1
<1>3. PICK l \in Nat : l = Len(u)
  BY <1>1
<1>4. Comma \in Character
  BY DEF Character
<1>5. /\ w \in Seq(Character) /\ Len(w) = n + 1 + l
      /\ \A j \in 1 .. n : w[j] = t[j]
      /\ w[n + 1] = Comma
  BY <1>1, <1>2, <1>3, <1>4
<1>6. ASSUME NEW p \in Seq(Character), NEW f, IsSplit(f, p \o w)
      PROVE  f[Len(p) + 1] = <<c>> \o cells
  <2> DEFINE line == p \o w
             longer == p \o (t \o <<Comma>>)
  <2>1. PICK k \in Nat : k = Len(p)
    OBVIOUS
  <2>2. longer \in Seq(Character) /\ Len(longer) = k + n + 1
    BY <1>1, <1>2, <1>4, <2>1
  <2>3. longer \o u = line
    <3>1. t \o <<Comma>> \in Seq(Character) /\ (t \o <<Comma>>) \o u = w
      BY <1>1, <1>4
    <3> QED
      BY <1>1, <3>1
  <2> HIDE DEF w, longer
  <2>4. line \in Seq(Character) /\ Len(line) = k + n + 1 + l
    BY <1>5, <2>1
  <2>5. \A j \in 1 .. n + 1 : line[k + j] = w[j]
    BY <1>5, <2>1
  <2> HIDE DEF line
  <2>6. \A j \in 1 .. n : line[k + 1 + (j - 1)] = t[j]
    <3>1. TAKE j \in 1 .. n
    <3>2. line[k + j] = t[j] /\ k + j = k + 1 + (j - 1)
      BY <1>5, <2>5
    <3> QED
      BY <3>2
  <2>7. line[k + 1 + n] = Comma
    <3>1. n + 1 \in 1 .. n + 1 /\ k + (n + 1) = k + 1 + n
      OBVIOUS
    <3>2. line[k + (n + 1)] = w[n + 1]
      BY <2>5, <3>1
    <3> QED
      BY <1>5, <3>1, <3>2
  <2>8. IsAt(line, k + 1, t)
    BY <1>2, <2>4, <2>6, <2>7 DEF IsAt
  <2>9. k + 1 \in 1 .. Len(line) + 1 /\ k + 1 + Len(t) <= Len(line)
    BY <1>2, <2>4
  <2>10. IsSplit(f, line)
    BY <1>6 DEF line
  <2>11. f[k + 1] = <<c>> \o f[k + 1 + Len(t) + 1]
    <3>1. PICK i, e : i = k + 1 /\ e = k + 1 + Len(t)
      OBVIOUS
    <3>2. StandsAt(c, t, line, i, e, f) /\ e <= Len(line)
      BY <2>4, <2>8, <2>9, <2>10, <3>1 DEF StandsAt
    <3>3. f[i] = <<c>> \o f[e + 1]
      BY ONLY <3>2, CellIsRead
    <3> QED
      BY <3>1, <3>3
  <2>12. f[Len(longer) + 1] = cells
    BY <2>2, <2>3, <2>10, Zenon DEF SplitsInto
  <2>13. Len(longer) + 1 = k + 1 + Len(t) + 1
    BY <1>2, <2>2
  <2> QED
    BY <2>1, <2>11, <2>12, <2>13
<1>7. <<c>> \o cells \in Seq(Contents)
  BY <1>1
<1> QED
  BY <1>5, <1>6, <1>7 DEF SplitsInto

\* Each line of at most so many cells, of those of fewer.
LinesOf(shorter) ==
    OneCell \cup
      UNION {{[cells |-> l.cells \o m.cells, text |-> l.text \o <<Comma>> \o m.text] :
                m \in shorter} : l \in OneCell}

IsLines(lines, max) ==
    lines = [n \in 1 .. max |-> IF n = 1 THEN OneCell ELSE LinesOf(lines[n - 1])]

LEMMA LinesExist ==
    ASSUME NEW max \in Nat
    PROVE  \E lines : IsLines(lines, max)
<1> DEFINE T == {n \in Nat : \E lines : IsLines(lines, n)}
<1>1. 0 \in T
  <2>1. IsLines([n \in 1 .. 0 |-> {}], 0)
    BY DEF IsLines
  <2> QED
    BY <2>1
<1>2. ASSUME NEW k \in T PROVE k + 1 \in T
  <2>1. PICK g : IsLines(g, k)
    OBVIOUS
  <2>2. k \in Nat
    OBVIOUS
  <2> DEFINE h == [n \in 1 .. k + 1 |-> IF n = 1 THEN OneCell ELSE LinesOf(g[n - 1])]
  <2>3. ASSUME NEW n \in 1 .. k PROVE h[n] = g[n]
    <3>1. h[n] = IF n = 1 THEN OneCell ELSE LinesOf(g[n - 1])
      BY <2>2
    <3>2. g[n] = IF n = 1 THEN OneCell ELSE LinesOf(g[n - 1])
      BY <2>1 DEF IsLines
    <3> QED
      BY <3>1, <3>2
  <2>4. ASSUME NEW n \in 1 .. k + 1, n # 1 PROVE g[n - 1] = h[n - 1]
    <3>1. n - 1 \in 1 .. k
      BY <2>2, <2>4
    <3> QED
      BY <2>3, <3>1
  <2>5. ASSUME NEW n \in 1 .. k + 1 PROVE h[n] = IF n = 1 THEN OneCell ELSE LinesOf(h[n - 1])
    <3>1. h[n] = IF n = 1 THEN OneCell ELSE LinesOf(g[n - 1])
      OBVIOUS
    <3> HIDE DEF h
    <3> QED
      BY <2>4, <3>1
  <2>6. IsLines(h, k + 1)
    <3>1. h = [n \in 1 .. k + 1 |-> h[n]]
      OBVIOUS
    <3> HIDE DEF h
    <3>2. [n \in 1 .. k + 1 |-> h[n]]
            = [n \in 1 .. k + 1 |-> IF n = 1 THEN OneCell ELSE LinesOf(h[n - 1])]
      BY <2>5, Zenon
    <3> QED
      BY <3>1, <3>2, Zenon DEF IsLines
  <2> QED
    BY <2>2, <2>6
<1>3. T \subseteq Nat
  OBVIOUS
<1> HIDE DEF T
<1>4. max \in T
  BY <1>1, <1>2, <1>3, NaturalsByInduction
<1> QED
  BY <1>4 DEF T

LEMMA OneCellIs ==
    ASSUME NEW l \in OneCell
    PROVE  \E c \in Contents : \E t : ReadAs(t, c) /\ l = [cells |-> <<c>>, text |-> t]
<1>1. PICK c \in Contents : l \in {[cells |-> <<c>>, text |-> t] : t \in Printed(c)}
  BY Zenon DEF OneCell
<1>2. PICK t \in Printed(c) : l = [cells |-> <<c>>, text |-> t]
  BY <1>1
<1> QED
  BY <1>2, PrintedIsRead

LEMMA LinesAreSplit ==
    ASSUME NEW line \in Lines
    PROVE  SplitsInto(line.text, line.cells)
<1> DEFINE AllSplit(set) == \A l \in set : SplitsInto(l.text, l.cells)
<1>1. AllSplit(OneCell)
  <2>1. ASSUME NEW l \in OneCell PROVE SplitsInto(l.text, l.cells)
    <3>0. PICK c \in Contents : \E t : ReadAs(t, c) /\ l = [cells |-> <<c>>, text |-> t]
      BY OneCellIs
    <3>1. PICK t : ReadAs(t, c) /\ l = [cells |-> <<c>>, text |-> t]
      BY <3>0
    <3>2. SplitsInto(t, <<c>>)
      BY <3>1, OneCellIsRead
    <3>3. l.text = t /\ l.cells = <<c>>
      BY <3>1
    <3> QED
      BY <3>2, <3>3
  <2> QED
    BY <2>1
<1>2. ASSUME NEW set, AllSplit(set) PROVE AllSplit(LinesOf(set))
  <2>1. ASSUME NEW l \in OneCell, NEW m \in set
        PROVE  SplitsInto(l.text \o <<Comma>> \o m.text, l.cells \o m.cells)
    <3>0. PICK c \in Contents : \E t : ReadAs(t, c) /\ l = [cells |-> <<c>>, text |-> t]
      BY OneCellIs
    <3>1. PICK t : ReadAs(t, c) /\ l = [cells |-> <<c>>, text |-> t]
      BY <3>0
    <3>2. SplitsInto(m.text, m.cells)
      BY <1>2
    <3>3. SplitsInto(t \o <<Comma>> \o m.text, <<c>> \o m.cells)
      BY <3>1, <3>2, MoreCellsAreRead
    <3>4. l.text = t /\ l.cells = <<c>>
      BY <3>1
    <3> QED
      BY <3>3, <3>4
  <2>2. ASSUME NEW k \in LinesOf(set) PROVE SplitsInto(k.text, k.cells)
    <3>1. CASE k \in OneCell
      BY <1>1, <3>1
    <3>2. CASE k \notin OneCell
      <4>0. PICK l \in OneCell :
              k \in {[cells |-> l.cells \o m.cells, text |-> l.text \o <<Comma>> \o m.text] :
                       m \in set}
        BY <3>2, Zenon DEF LinesOf
      <4>1. PICK m \in set :
              k = [cells |-> l.cells \o m.cells, text |-> l.text \o <<Comma>> \o m.text]
        BY <4>0
      <4>2. k.text = l.text \o <<Comma>> \o m.text /\ k.cells = l.cells \o m.cells
        BY <4>1
      <4> QED
        BY <2>1, <4>2
    <3> QED
      BY <3>1, <3>2
  <2> QED
    BY <2>2
<1>3. \E f : f = [n \in 1 .. MaxCells |->
            IF n = 1 THEN OneCell
            ELSE OneCell \cup
                   UNION {{[cells |-> l.cells \o m.cells, text |-> l.text \o <<Comma>> \o m.text] :
                             m \in f[n - 1]} : l \in OneCell}]
  <2>1. MaxCells \in Nat
    BY FormatsAssumption
  <2> QED
    BY <2>1, LinesExist, Zenon DEF IsLines, LinesOf
<1> DEFINE f == CHOOSE f : f = [n \in 1 .. MaxCells |->
            IF n = 1 THEN OneCell
            ELSE OneCell \cup
                   UNION {{[cells |-> l.cells \o m.cells, text |-> l.text \o <<Comma>> \o m.text] :
                             m \in f[n - 1]} : l \in OneCell}]
<1>4. IsLines(f, MaxCells)
  BY <1>3, Zenon DEF IsLines, LinesOf
<1>5. Lines = f[MaxCells]
  BY Zenon DEF Lines
<1> HIDE DEF f, AllSplit
<1> DEFINE T == {n \in Nat : n + 1 <= MaxCells => AllSplit(f[n + 1])}
<1>6. 0 \in T
  BY <1>1, <1>4 DEF IsLines
<1>7. ASSUME NEW n \in T PROVE n + 1 \in T
  <2>1. CASE (n + 1) + 1 <= MaxCells
    <3>1. n \in Nat /\ MaxCells \in Nat /\ AllSplit(f[n + 1])
      BY <2>1, FormatsAssumption
    <3>2. f[(n + 1) + 1] = LinesOf(f[n + 1])
      BY <1>4, <2>1, <3>1 DEF IsLines
    <3> QED
      BY <1>2, <3>1, <3>2
  <2>2. CASE ~ (n + 1) + 1 <= MaxCells
    BY <2>2
  <2> QED
    BY <2>1, <2>2
<1>8. T = Nat
  <2>1. T \subseteq Nat
    OBVIOUS
  <2> HIDE DEF T
  <2> QED
    BY <1>6, <1>7, <2>1, NaturalsByInduction
<1>9. AllSplit(f[MaxCells])
  <2>1. MaxCells - 1 \in T /\ (MaxCells - 1) + 1 = MaxCells
    <3>1. MaxCells - 1 \in Nat
      BY FormatsAssumption
    <3> HIDE DEF T
    <3> QED
      BY <1>8, <3>1, FormatsAssumption
  <2> QED
    BY <2>1, FormatsAssumption
<1> QED
  BY <1>5, <1>9 DEF AllSplit

\* What is read of a line are the cells it was written with.
LEMMA SplitIsExact ==
    ASSUME NEW line \in File
    PROVE  Split(line.text) = line.cells /\ line.cells \in Seq(Contents)
<1>1. line \in Lines
  BY DEF File
<1>2. SplitsInto(line.text, line.cells)
  BY <1>1, LinesAreSplit
<1>3. line.text \in Seq(Character) /\ line.cells \in Seq(Contents)
  BY <1>2 DEF SplitsInto
<1>4. PICK f : IsSplit(f, line.text) /\ Split(line.text) = f[1]
  BY <1>3, SplitIs
<1>5. <<>> \in Seq(Character) /\ <<>> \o line.text = line.text /\ Len(<<>>) + 1 = 1
  BY <1>3
<1>6. f[Len(<<>>) + 1] = line.cells
  BY <1>2, <1>4, <1>5 DEF SplitsInto
<1> QED
  BY <1>3, <1>4, <1>5, <1>6
-----------------------------------------------------------------------------
(***************************************************************************)
(* A file of lines: the buffers hold the last two of them.                 *)
(***************************************************************************)
CsvInv ==
    /\ valuesN \in 0 .. 1
    /\ buffers = [n \in 0 .. 1 |-> buffers[n]]
    /\ rows \in Seq(Seq(Contents))
    /\ CellsAreRead

\* The buffers after a line, or none, was read.
LEMMA BufferIsFilled ==
    ASSUME CsvInv, NEW cells \in Seq(Contents),
           valuesN' = Flip(valuesN),
           buffers' = [buffers EXCEPT ![valuesN'] = cells],
           rows' = Append(rows, cells), UNCHANGED <<headers, titles>>
    PROVE  CsvInv'
<1>1. /\ valuesN \in 0 .. 1 /\ valuesN' = 1 - valuesN /\ valuesN' \in 0 .. 1
      /\ valuesN' # valuesN /\ 1 - valuesN' = valuesN
  BY DEF CsvInv, Flip
<1>2. /\ buffers' = [n \in 0 .. 1 |-> buffers'[n]]
      /\ buffers'[valuesN'] = cells /\ buffers'[valuesN] = buffers[valuesN]
  BY <1>1 DEF CsvInv
<1>3. PICK n \in Nat : n = Len(rows)
  BY DEF CsvInv
<1>4. /\ rows' \in Seq(Seq(Contents)) /\ Len(rows') = n + 1
      /\ DOMAIN rows = 1 .. n /\ DOMAIN rows' = 1 .. n + 1
      /\ rows'[n + 1] = cells /\ \A i \in 1 .. n : rows'[i] = rows[i]
  BY <1>3 DEF CsvInv
<1>5. buffers[valuesN] = IF n \in 1 .. n THEN rows[n] ELSE <<>>
  BY <1>3, <1>4 DEF CsvInv, CellsAreRead, values, RowAt
<1>6. values' = RowAt(Len(rows))'
  BY <1>2, <1>4 DEF values, RowAt
<1>7. lastValues' = RowAt(Len(rows) - 1)'
  <2>1. buffers[valuesN] = IF n \in 1 .. n + 1 THEN rows'[n] ELSE <<>>
    BY <1>4, <1>5
  <2>2. (n + 1) - 1 = n
    OBVIOUS
  <2> QED
    BY <1>1, <1>2, <1>4, <2>1, <2>2 DEF lastValues, RowAt
<1>8. headers' = titles'
  BY DEF CsvInv, CellsAreRead
<1> QED
  BY <1>1, <1>2, <1>4, <1>6, <1>7, <1>8 DEF CsvInv, CellsAreRead

LEMMA CsvInvInit == FormatsInit => CsvInv
<1> SUFFICES ASSUME FormatsInit PROVE CsvInv
  OBVIOUS
<1>1. /\ valuesN = 0 /\ buffers = [n \in 0 .. 1 |-> <<>>] /\ rows = <<>>
      /\ headers = titles
  BY DEF FormatsInit
<1>2. values = <<>> /\ lastValues = <<>>
  BY <1>1 DEF values, lastValues
<1>3. RowAt(Len(rows)) = <<>> /\ RowAt(Len(rows) - 1) = <<>>
  BY <1>1 DEF RowAt
<1> QED
  BY <1>1, <1>2, <1>3 DEF CsvInv, CellsAreRead

LEMMA CsvInvStep == CsvInv /\ [CsvNext \/ PcapNext]_formatVars => CsvInv'
<1> SUFFICES ASSUME CsvInv, [CsvNext \/ PcapNext]_formatVars PROVE CsvInv'
  OBVIOUS
<1>1. ASSUME UNCHANGED <<headers, buffers, valuesN, titles, rows>> PROVE CsvInv'
  BY <1>1 DEF CsvInv, CellsAreRead, values, lastValues, RowAt
<1>2. CASE Open \/ Close
  BY <1>1, <1>2 DEF Open, Close
<1>3. CASE LoadHeaders
  <2>1. PICK line \in File : headers' = Split(line.text) /\ titles' = line.cells
    BY <1>3 DEF LoadHeaders
  <2>2. headers' = titles'
    BY <2>1, SplitIsExact
  <2>3. UNCHANGED <<buffers, valuesN, rows>>
    BY <1>3 DEF LoadHeaders
  <2> QED
    BY <2>2, <2>3 DEF CsvInv, CellsAreRead, values, lastValues, RowAt
<1>4. CASE ReadLine
  <2>1. PICK line \in File :
          /\ valuesN' = Flip(valuesN)
          /\ buffers' = [buffers EXCEPT ![valuesN'] = Split(line.text)]
          /\ rows' = Append(rows, line.cells)
    BY <1>4 DEF ReadLine
  <2>2. Split(line.text) = line.cells /\ line.cells \in Seq(Contents)
    BY SplitIsExact
  <2>3. UNCHANGED <<headers, titles>>
    BY <1>4 DEF ReadLine
  <2> QED
    BY <2>1, <2>2, <2>3, BufferIsFilled
<1>5. CASE ReadEnd
  <2>1. /\ valuesN' = Flip(valuesN)
        /\ buffers' = [buffers EXCEPT ![valuesN'] = <<>>]
        /\ rows' = Append(rows, <<>>)
        /\ UNCHANGED <<headers, titles>>
    BY <1>5 DEF ReadEnd
  <2>2. <<>> \in Seq(Contents)
    OBVIOUS
  <2> QED
    BY <2>1, <2>2, BufferIsFilled
<1>6. CASE PcapNext
  BY <1>1, <1>6
     DEF PcapNext, OpenCapture, ReadNoRecord, ReadRecord, CloseCapture, csvVars
<1>7. CASE UNCHANGED formatVars
  BY <1>1, <1>7 DEF formatVars, csvVars
<1> QED
  BY <1>2, <1>3, <1>4, <1>5, <1>6, <1>7 DEF CsvNext
-----------------------------------------------------------------------------
(***************************************************************************)
(* A capture: the records that are left to read are the last of those that *)
(* were captured.                                                          *)
(***************************************************************************)
IsRecordOf(r, p, nanosecond) ==
    /\ r.sec = p.time \div Second
    /\ r.frac = (p.time % Second) \div UnitOf(nanosecond)
    /\ r.length = p.length

IsTakenOf(t, p, nanosecond) ==
    /\ t.bytes = p.length /\ p.length <= BufferSize
    /\ t.time = AtTime(p, nanosecond)

Entries == [length : Nat, time : Nat, bytes : Nat]

CaptureRecords == [sec : Nat, frac : Nat, length : Nat, whole : BOOLEAN]

\* Those taken, in the unit of one file.
AllTakenOf(nanosecond) ==
    \A k \in 1 .. Len(taken) : IsTakenOf(taken[k], captured[k], nanosecond)

RestIsLeft ==
    /\ Len(taken) + Len(capture.records) = Len(captured)
    /\ \A k \in 1 .. Len(capture.records) :
         IsRecordOf(capture.records[k], captured[Len(taken) + k], capture.nanosecond)

PcapInv ==
    /\ capture.state \in {"closed", "good", "failed"}
    /\ capture.nanosecond \in BOOLEAN
    /\ capture = [state |-> capture.state, nanosecond |-> capture.nanosecond,
                  records |-> capture.records]
    /\ capture.records \in Seq(CaptureRecords)
    /\ captured \in Seq(Packets)
    /\ taken \in Seq(Entries) /\ Len(taken) <= Len(captured)
    /\ \E nanosecond \in BOOLEAN :
         /\ capture.state # "closed" => nanosecond = capture.nanosecond
         /\ AllTakenOf(nanosecond)
    /\ capture.state = "closed" => capture.records = <<>>
    /\ capture.state = "good" \/ capture.records # <<>> => RestIsLeft
    /\ capture.state = "failed" /\ capture.records # <<>>
         => LET next == Head(capture.records) IN ~next.whole \/ next.length > BufferSize

LEMMA DivideFacts ==
    ASSUME NEW m \in Nat \ {0}, NEW z \in Nat
    PROVE  z \div m \in Nat /\ z % m \in 0 .. m - 1 /\ z = (m * (z \div m)) + (z % m)
<1>1. \A y \in Int : y % m \in 0 .. m - 1 /\ y \div m \in Int /\ y = (m * (y \div m)) + (y % m)
  OBVIOUS
<1>2. PICK q \in Int : q = z \div m
  BY <1>1
<1>3. PICK r \in 0 .. m - 1 : r = z % m
  BY <1>1
<1>4. z = (m * q) + r
  BY <1>1, <1>2, <1>3
<1>5. q >= 0
  <2>1. SUFFICES ASSUME q + 1 <= 0 PROVE FALSE
    BY <1>2
  <2>2. m * (q + 1) <= 0
    BY <2>1
  <2>3. m * (q + 1) = m * q + m
    OBVIOUS
  <2>4. m * q \in Int
    OBVIOUS
  <2> QED
    BY <1>4, <2>2, <2>3, <2>4
<1> QED
  BY <1>1, <1>2, <1>5

\* A time less what the unit does not tell is made of its second and fraction.
LEMMA TimeIsInUnit ==
    ASSUME NEW t \in Nat, NEW nanosecond \in BOOLEAN
    PROVE  /\ t \div Second \in Nat /\ (t % Second) \div UnitOf(nanosecond) \in Nat
           /\ (t \div Second) * Second
                + ((t % Second) \div UnitOf(nanosecond)) * UnitOf(nanosecond)
                = t - (t % UnitOf(nanosecond))
<1>1. PICK s \in Nat \ {0} : s = Second
  BY FormatsAssumption
<1>2. PICK u \in Nat \ {0} : u = UnitOf(nanosecond)
  BY FormatsAssumption DEF UnitOf
<1>3. s % u = 0
  <2>1. CASE u = 1
    BY <2>1
  <2>2. CASE u = Micro
    BY <1>1, <2>2, FormatsAssumption
  <2> QED
    BY <1>2, <2>1, <2>2 DEF UnitOf
<1>4. PICK b \in Nat : s = u * b
  <2>1. s = (u * (s \div u)) + (s % u) /\ s \div u \in Nat
    BY DivideFacts
  <2>2. u * (s \div u) \in Nat
    BY <2>1
  <2> QED
    BY <1>3, <2>1, <2>2
<1>5. PICK a \in Nat, r \in 0 .. s - 1 : a = t \div s /\ r = t % s /\ t = s * a + r
  <2>1. t \div s \in Nat /\ t % s \in 0 .. s - 1 /\ t = (s * (t \div s)) + (t % s)
    BY DivideFacts
  <2> QED
    BY <2>1
<1>6. PICK c \in Nat, d \in 0 .. u - 1 : c = r \div u /\ r = u * c + d
  <2>1. r \in Nat
    OBVIOUS
  <2>2. r \div u \in Nat /\ r % u \in 0 .. u - 1 /\ r = (u * (r \div u)) + (r % u)
    BY <2>1, DivideFacts
  <2> QED
    BY <2>2
<1>7. t = u * (b * a + c) + d
  <2>1. s * a = u * (b * a)
    BY <1>4
  <2>2. u * (b * a + c) = u * (b * a) + u * c
    OBVIOUS
  <2>3. PICK x \in Int, y \in Int : x = s * a /\ y = u * c
    OBVIOUS
  <2>4. t = x + (y + d)
    BY <1>5, <1>6, <2>3
  <2>5. u * (b * a + c) = x + y
    BY <2>1, <2>2, <2>3
  <2> QED
    BY <2>4, <2>5
<1>8. t % u = d
  <2>1. b * a + c \in Int
    OBVIOUS
  <2> QED
    BY <1>7, <2>1, RemainderIs
<1>9. a * s + c * u = t - d
  BY <1>5, <1>6
<1> QED
  BY <1>1, <1>2, <1>5, <1>6, <1>8, <1>9

LEMMA RecordFacts ==
    ASSUME NEW p \in Packets, NEW nanosecond \in BOOLEAN
    PROVE  /\ p.time \in Nat /\ p.length \in Nat
           /\ Record(p, nanosecond) \in CaptureRecords
           /\ IsRecordOf(Record(p, nanosecond), p, nanosecond)
<1>1. p.time \in Nat /\ p.length \in Nat
  BY FormatsAssumption
<1>2. /\ p.time \div Second \in Nat
      /\ (p.time % Second) \div UnitOf(nanosecond) \in Nat
  BY <1>1, TimeIsInUnit
<1> QED
  BY <1>1, <1>2, Zenon DEF Record, CaptureRecords, IsRecordOf

LEMMA CapturesFacts ==
    ASSUME NEW packets \in Seq(Packets), NEW nanosecond \in BOOLEAN,
           NEW left \in Captures(packets, nanosecond)
    PROVE  /\ left \in Seq(CaptureRecords) /\ Len(left) = Len(packets)
           /\ \A k \in 1 .. Len(left) : IsRecordOf(left[k], packets[k], nanosecond)
<1> DEFINE all == [k \in DOMAIN packets |-> Record(packets[k], nanosecond)]
<1>1. PICK n \in Nat : n = Len(packets)
  OBVIOUS
<1>2. \A k \in 1 .. n : packets[k] \in Packets
  BY <1>1
<1>3. DOMAIN packets = 1 .. n
  BY <1>1
<1>4. /\ all \in [1 .. n -> CaptureRecords]
      /\ \A k \in 1 .. n : IsRecordOf(all[k], packets[k], nanosecond)
  BY <1>2, <1>3, RecordFacts
<1> HIDE DEF all
<1>5. CASE left = all
  BY <1>1, <1>4, <1>5, FunctionIsSeq
<1>6. CASE n > 0 /\ left = [all EXCEPT ![n].whole = FALSE]
  <2>1. [all[n] EXCEPT !.whole = FALSE] \in CaptureRecords
    <3>1. PICK r : r = all[n]
      OBVIOUS
    <3>2. r \in CaptureRecords
      BY <1>4, <1>6, <3>1
    <3>3. [r EXCEPT !.whole = FALSE] \in CaptureRecords
      BY <3>2, Zenon DEF CaptureRecords
    <3> QED
      BY <3>1, <3>3
  <2>2. /\ [all[n] EXCEPT !.whole = FALSE].sec = all[n].sec
        /\ [all[n] EXCEPT !.whole = FALSE].frac = all[n].frac
        /\ [all[n] EXCEPT !.whole = FALSE].length = all[n].length
    BY <1>4, <1>6 DEF CaptureRecords
  <2>3. left = [all EXCEPT ![n] = [all[n] EXCEPT !.whole = FALSE]]
    BY <1>4, <1>6
  <2>4. /\ left \in [1 .. n -> CaptureRecords]
        /\ \A k \in 1 .. n : left[k].sec = all[k].sec /\ left[k].frac = all[k].frac
                             /\ left[k].length = all[k].length
    BY <1>4, <1>6, <2>1, <2>2, <2>3
  <2>5. left \in Seq(CaptureRecords) /\ Len(left) = n
    BY <2>4, FunctionIsSeq
  <2> QED
    BY <1>1, <1>4, <2>4, <2>5 DEF IsRecordOf
<1> QED
  BY <1>1, <1>5, <1>6 DEF Captures, all

\* What is given out of a record.
LEMMA EntryIsExact ==
    ASSUME PcapInv, NEW p \in Packets, NEW r \in CaptureRecords,
           IsRecordOf(r, p, capture.nanosecond), ~IsTooLong(r),
           NEW entry, entry = [length |-> r.length, time |-> TimeOf(r), bytes |-> r.length]
    PROVE  entry \in Entries /\ IsTakenOf(entry, p, capture.nanosecond)
<1>1. PICK nanosecond \in BOOLEAN : nanosecond = capture.nanosecond
  BY DEF PcapInv
<1>2. p.time \in Nat /\ p.length \in Nat
  BY RecordFacts
<1>3. TimeOf(r) = p.time - (p.time % UnitOf(nanosecond))
  BY <1>1, <1>2, TimeIsInUnit DEF TimeOf, IsRecordOf
<1>4. p.time - (p.time % UnitOf(nanosecond)) \in Nat
  <2>1. PICK u \in Nat \ {0} : u = UnitOf(nanosecond)
    BY FormatsAssumption DEF UnitOf
  <2>2. p.time = (u * (p.time \div u)) + (p.time % u) /\ p.time \div u \in Nat
    BY <1>2, <2>1, DivideFacts
  <2>3. PICK x \in Nat : x = u * (p.time \div u)
    BY <2>2
  <2>4. p.time % u \in Nat
    BY <1>2, <2>1, DivideFacts
  <2> QED
    BY <1>2, <2>1, <2>2, <2>3, <2>4
<1>5. r.length = p.length /\ p.length <= BufferSize
  BY <1>2, FormatsAssumption DEF IsRecordOf, IsTooLong
<1>6. /\ entry.length = p.length /\ entry.bytes = p.length
      /\ entry.time = AtTime(p, nanosecond)
      /\ entry = [length |-> p.length, time |-> AtTime(p, nanosecond), bytes |-> p.length]
  BY <1>3, <1>5 DEF AtTime
<1>7. AtTime(p, nanosecond) \in Nat
  BY <1>4 DEF AtTime
<1> QED
  BY <1>1, <1>2, <1>5, <1>6, <1>7 DEF Entries, IsTakenOf

LEMMA PcapInvInit == FormatsInit => PcapInv
<1> SUFFICES ASSUME FormatsInit PROVE PcapInv
  OBVIOUS
<1>1. /\ capture.state = "closed" /\ capture.nanosecond = FALSE /\ capture.records = <<>>
      /\ capture = [state |-> "closed", nanosecond |-> FALSE, records |-> <<>>]
  BY DEF FormatsInit, NoCapture
<1>2. captured = <<>> /\ taken = <<>>
  BY DEF FormatsInit
<1>3. AllTakenOf(FALSE)
  BY <1>2 DEF AllTakenOf
<1>4. capture = [state |-> capture.state, nanosecond |-> capture.nanosecond,
                 records |-> capture.records]
  BY <1>1, Zenon
<1>5. /\ captured \in Seq(Packets) /\ taken \in Seq(Entries) /\ Len(taken) <= Len(captured)
      /\ capture.records \in Seq(CaptureRecords)
  BY <1>1, <1>2
<1>6. \E nanosecond \in BOOLEAN :
        /\ capture.state # "closed" => nanosecond = capture.nanosecond
        /\ AllTakenOf(nanosecond)
  BY <1>1, <1>3
<1>7. capture.state # "good" /\ capture.state # "failed"
  BY <1>1
<1> QED
  BY <1>1, <1>4, <1>5, <1>6, <1>7, Zenon DEF PcapInv

\* A step that leaves what was read as it is, and fails or closes the file.
LEMMA Stopped ==
    ASSUME PcapInv, UNCHANGED <<captured, taken>>,
           \/ capture' = NoCapture
           \/ /\ Fail
              /\ capture.state = "good"
              /\ capture.records # <<>>
                   => LET next == Head(capture.records) IN ~next.whole \/ next.length > BufferSize
    PROVE  PcapInv'
<1>1. CASE capture' = NoCapture
  <2>1. /\ capture'.state = "closed" /\ capture'.nanosecond = FALSE /\ capture'.records = <<>>
        /\ capture' = [state |-> capture'.state, nanosecond |-> capture'.nanosecond,
                       records |-> capture'.records]
    BY <1>1 DEF NoCapture
  <2>2. PICK nanosecond \in BOOLEAN : AllTakenOf(nanosecond)
    BY DEF PcapInv
  <2>3. AllTakenOf(nanosecond)'
    BY <2>2 DEF AllTakenOf, IsTakenOf, AtTime, UnitOf
  <2>4. \E n \in BOOLEAN :
          /\ capture'.state # "closed" => n = capture'.nanosecond
          /\ AllTakenOf(n)'
    BY <2>1, <2>3
  <2>5. /\ captured' \in Seq(Packets) /\ taken' \in Seq(Entries) /\ Len(taken') <= Len(captured')
        /\ capture'.records \in Seq(CaptureRecords)
    BY <2>1 DEF PcapInv
  <2>6. capture'.state # "good" /\ capture'.state # "failed"
    BY <2>1
  <2> QED
    BY <2>1, <2>4, <2>5, <2>6, Zenon DEF PcapInv
<1>2. CASE Fail /\ capture.state = "good"
           /\ (capture.records # <<>>
                => LET next == Head(capture.records) IN ~next.whole \/ next.length > BufferSize)
  <2>1. /\ capture'.state = "failed" /\ capture'.nanosecond = capture.nanosecond
        /\ capture'.records = capture.records
        /\ capture' = [state |-> capture'.state, nanosecond |-> capture'.nanosecond,
                       records |-> capture'.records]
    <3>1. PICK n, l : capture = [state |-> "good", nanosecond |-> n, records |-> l]
      BY <1>2 DEF PcapInv
    <3>2. capture' = [state |-> "failed", nanosecond |-> n, records |-> l]
      BY <1>2, <3>1, Zenon DEF Fail
    <3> QED
      BY <3>1, <3>2, Zenon
  <2>2. PICK nanosecond \in BOOLEAN : nanosecond = capture.nanosecond /\ AllTakenOf(nanosecond)
    BY <1>2 DEF PcapInv
  <2>3. AllTakenOf(nanosecond)'
    BY <2>2 DEF AllTakenOf, IsTakenOf, AtTime, UnitOf
  <2>4. RestIsLeft'
    BY <1>2, <2>1 DEF PcapInv, RestIsLeft, IsRecordOf, UnitOf
  <2> QED
    BY <1>2, <2>1, <2>2, <2>3, <2>4 DEF PcapInv
<1> QED
  BY <1>1, <1>2

\* A file of these records is opened.
LEMMA Opened ==
    ASSUME PcapInv, NEW packets \in Seq(Packets), NEW nanosecond \in BOOLEAN,
           NEW left \in Captures(packets, nanosecond),
           captured' = packets, taken' = <<>>,
           capture' = [state |-> "good", nanosecond |-> nanosecond, records |-> left]
    PROVE  PcapInv'
<1>1. /\ capture'.state = "good" /\ capture'.nanosecond = nanosecond
      /\ capture'.records = left
      /\ capture' = [state |-> capture'.state, nanosecond |-> capture'.nanosecond,
                     records |-> capture'.records]
  BY Zenon
<1>2. /\ left \in Seq(CaptureRecords) /\ Len(left) = Len(packets)
      /\ \A k \in 1 .. Len(left) : IsRecordOf(left[k], packets[k], nanosecond)
  BY CapturesFacts
<1>3. AllTakenOf(nanosecond)'
  BY DEF AllTakenOf
<1>4. Len(<<>>) = 0 /\ <<>> \in Seq(Entries) /\ Len(packets) \in Nat
  OBVIOUS
<1>5. RestIsLeft'
  <2>1. \A k \in 1 .. Len(left) : Len(<<>>) + k = k
    BY <1>4
  <2>2. Len(<<>>) + Len(left) = Len(packets)
    BY <1>2, <1>4
  <2>3. \A k \in 1 .. Len(left) : IsRecordOf(left[k], packets[Len(<<>>) + k], nanosecond)
    BY <1>2, <2>1
  <2> QED
    BY <1>1, <2>2, <2>3 DEF RestIsLeft, IsRecordOf, UnitOf
<1> QED
  BY <1>1, <1>2, <1>3, <1>4, <1>5 DEF PcapInv

\* The next record is given out.
LEMMA Taken ==
    ASSUME PcapInv, capture.state = "good", capture.records # <<>>,
           NEW r, r = Head(capture.records), ~IsTooLong(r),
           NEW entry, entry = [length |-> r.length, time |-> TimeOf(r), bytes |-> r.length],
           capture' = [capture EXCEPT !.records = Tail(@)],
           taken' = Append(taken, entry), UNCHANGED captured
    PROVE  PcapInv'
<1>1. PICK nanosecond \in BOOLEAN : nanosecond = capture.nanosecond /\ AllTakenOf(nanosecond)
  BY DEF PcapInv
<1> DEFINE left == capture.records
<1>2. /\ capture'.state = "good" /\ capture'.nanosecond = nanosecond
      /\ capture'.records = Tail(left)
      /\ capture' = [state |-> capture'.state, nanosecond |-> capture'.nanosecond,
                     records |-> capture'.records]
  <2>1. PICK l : capture = [state |-> "good", nanosecond |-> nanosecond, records |-> l]
    BY <1>1 DEF PcapInv
  <2>2. left = l
    BY <2>1
  <2>3. capture' = [state |-> "good", nanosecond |-> nanosecond, records |-> Tail(l)]
    BY <2>1, Zenon
  <2>4. /\ capture'.state = "good" /\ capture'.nanosecond = nanosecond
        /\ capture'.records = Tail(l)
    BY <2>3
  <2> QED
    BY <2>2, <2>3, <2>4, Zenon
<1>3. left \in Seq(CaptureRecords) /\ left # <<>> /\ taken \in Seq(Entries)
      /\ captured \in Seq(Packets) /\ RestIsLeft
  BY DEF PcapInv
<1>4. PICK n \in Nat, m \in Nat \ {0}, t \in Nat :
        n = Len(taken) /\ m = Len(left) /\ t = Len(captured)
  <2> HIDE DEF left
  <2>1. Len(taken) \in Nat /\ Len(left) \in Nat \ {0} /\ Len(captured) \in Nat
    BY <1>3, SeqFacts
  <2> QED
    BY <2>1
<1>5. /\ n + m = t
      /\ \A k \in 1 .. m : IsRecordOf(left[k], captured[n + k], nanosecond)
  BY <1>1, <1>3, <1>4 DEF RestIsLeft
<1> HIDE DEF left
<1>6. /\ Tail(left) \in Seq(CaptureRecords) /\ Len(Tail(left)) = m - 1
      /\ \A k \in 1 .. m - 1 : Tail(left)[k] = left[k + 1]
      /\ Head(left) = left[1] /\ left[1] \in CaptureRecords
  BY <1>3, <1>4, TailFacts
<1>7. n + 1 \in 1 .. t /\ captured[n + 1] \in Packets
  <2>1. n + 1 \in 1 .. t
    BY <1>4, <1>5
  <2> QED
    BY <1>3, <1>4, <2>1
<1>8. r = left[1] /\ r \in CaptureRecords /\ IsRecordOf(r, captured[n + 1], nanosecond)
  <2>1. r = left[1]
    BY <1>6 DEF left
  <2>2. 1 \in 1 .. m
    BY <1>4
  <2> QED
    BY <1>5, <1>6, <2>1, <2>2
<1>9. entry \in Entries /\ IsTakenOf(entry, captured[n + 1], nanosecond)
  BY <1>1, <1>7, <1>8, EntryIsExact
<1>10. /\ taken' \in Seq(Entries) /\ Len(taken') = n + 1
       /\ \A k \in 1 .. n : taken'[k] = taken[k]
       /\ taken'[n + 1] = entry
  BY <1>3, <1>4, <1>9, AppendFacts
<1>11. \A k \in 1 .. n + 1 : IsTakenOf(taken'[k], captured[k], nanosecond)
  <2>1. ASSUME NEW k \in 1 .. n + 1 PROVE IsTakenOf(taken'[k], captured[k], nanosecond)
    <3>1. CASE k = n + 1
      BY <1>9, <1>10, <3>1
    <3>2. CASE k # n + 1
      <4>1. k \in 1 .. n
        BY <3>2
      <4> QED
        BY <1>1, <1>4, <1>10, <4>1 DEF AllTakenOf
    <3> QED
      BY <3>1, <3>2
  <2> QED
    BY <2>1
<1>12. AllTakenOf(nanosecond)'
  BY <1>10, <1>11 DEF AllTakenOf, IsTakenOf, AtTime, UnitOf
<1>13. RestIsLeft'
  <2>1. ASSUME NEW k \in 1 .. m - 1
        PROVE  IsRecordOf(Tail(left)[k], captured[(n + 1) + k], nanosecond)
    <3>1. k + 1 \in 1 .. m /\ n + (k + 1) = (n + 1) + k
      OBVIOUS
    <3>2. IsRecordOf(left[k + 1], captured[n + (k + 1)], nanosecond)
      BY <1>5, <3>1
    <3> QED
      BY <1>6, <3>1, <3>2
  <2>2. (n + 1) + (m - 1) = t
    BY <1>5
  <2>3. Len(capture'.records) = m - 1 /\ Len(captured') = t
    BY <1>2, <1>4, <1>6
  <2>4. Len(taken') + Len(capture'.records) = Len(captured')
    BY <1>10, <2>2, <2>3
  <2>5. ASSUME NEW k \in 1 .. Len(capture'.records)
        PROVE  IsRecordOf(capture'.records[k], captured'[Len(taken') + k], capture'.nanosecond)
    BY <1>2, <1>10, <2>1, <2>3
  <2> QED
    BY <2>4, <2>5 DEF RestIsLeft, IsRecordOf, UnitOf
<1>14. Len(taken') <= Len(captured')
  BY <1>4, <1>7, <1>10
<1>15. \E w \in BOOLEAN :
         /\ capture'.state # "closed" => w = capture'.nanosecond
         /\ AllTakenOf(w)'
  BY <1>2, <1>12
<1>16. /\ capture'.state \in {"closed", "good", "failed"} /\ capture'.nanosecond \in BOOLEAN
       /\ capture'.records \in Seq(CaptureRecords) /\ captured' \in Seq(Packets)
       /\ capture'.state # "closed" /\ capture'.state # "failed"
  BY <1>2, <1>3, <1>6
<1> QED
  BY <1>2, <1>10, <1>13, <1>14, <1>15, <1>16, Zenon DEF PcapInv

LEMMA PcapInvStep == PcapInv /\ [CsvNext \/ PcapNext]_formatVars => PcapInv'
<1> SUFFICES ASSUME PcapInv, [CsvNext \/ PcapNext]_formatVars PROVE PcapInv'
  OBVIOUS
<1>1. ASSUME UNCHANGED <<capture, captured, taken>> PROVE PcapInv'
  BY <1>1 DEF PcapInv, AllTakenOf, IsTakenOf, AtTime, RestIsLeft, IsRecordOf, UnitOf
<1>2. CASE CsvNext
  BY <1>1, <1>2 DEF CsvNext, Open, LoadHeaders, ReadLine, ReadEnd, Close, pcapVars
<1>3. CASE UNCHANGED formatVars
  BY <1>1, <1>3 DEF formatVars, pcapVars
<1>4. CASE OpenCapture
  <2>1. PICK packets \in SeqOf(Packets, MaxPackets), nanosecond \in BOOLEAN :
          /\ captured' = packets
          /\ \/ capture' = [NoCapture EXCEPT !.state = "failed"]
             \/ \E left \in Captures(packets, nanosecond) :
                  capture' = [state |-> "good", nanosecond |-> nanosecond, records |-> left]
    BY <1>4 DEF OpenCapture
  <2>2. packets \in Seq(Packets)
    <3>1. packets \in BoundedSeq(Packets, MaxPackets)
      BY DEF BoundedSeq
    <3> QED
      BY <3>1, FormatsAssumption, BoundedFacts
  <2>3. taken' = <<>>
    BY <1>4 DEF OpenCapture
  <2>4. CASE capture' = [NoCapture EXCEPT !.state = "failed"]
    <3>1. /\ capture' = [state |-> "failed", nanosecond |-> FALSE, records |-> <<>>]
          /\ capture'.state = "failed" /\ capture'.nanosecond = FALSE
          /\ capture'.records = <<>>
      BY <2>4, Zenon DEF NoCapture
    <3>2. capture' = [state |-> capture'.state, nanosecond |-> capture'.nanosecond,
                      records |-> capture'.records]
      BY <3>1, Zenon
    <3>3. AllTakenOf(FALSE)'
      BY <2>3 DEF AllTakenOf
    <3>4. /\ captured' \in Seq(Packets) /\ taken' \in Seq(Entries)
          /\ Len(taken') <= Len(captured') /\ capture'.records \in Seq(CaptureRecords)
      BY <2>1, <2>2, <2>3, <3>1
    <3>5. \E n \in BOOLEAN :
            /\ capture'.state # "closed" => n = capture'.nanosecond
            /\ AllTakenOf(n)'
      BY <3>1, <3>3
    <3>6. capture'.state # "good" /\ capture'.state # "closed"
      BY <3>1
    <3> QED
      BY <3>1, <3>2, <3>4, <3>5, <3>6, Zenon DEF PcapInv
  <2>5. ASSUME NEW left \in Captures(packets, nanosecond),
               capture' = [state |-> "good", nanosecond |-> nanosecond, records |-> left]
        PROVE  PcapInv'
    BY <2>1, <2>2, <2>3, <2>5, Opened
  <2> QED
    BY <2>1, <2>4, <2>5
<1>5. CASE ReadNoRecord
  BY <1>5, Stopped DEF ReadNoRecord
<1>6. CASE CloseCapture
  BY <1>6, Stopped DEF CloseCapture
<1>7. CASE ReadRecord
  <2> DEFINE r == Head(capture.records)
  <2>1. capture.state = "good" /\ capture.records # <<>> /\ UNCHANGED captured
    BY <1>7 DEF ReadRecord
  <2>2. r \in CaptureRecords /\ r.length \in Nat
    <3>1. capture.records \in Seq(CaptureRecords)
      BY DEF PcapInv
    <3>2. r \in CaptureRecords
      BY <2>1, <3>1, TailFacts
    <3> HIDE DEF r
    <3>3. r.length \in Nat
      BY <3>2 DEF CaptureRecords
    <3> QED
      BY <3>2, <3>3
  <2>3. CASE IsTooLong(r)
    <3>1. Fail /\ UNCHANGED taken
      BY <1>7, <2>3 DEF ReadRecord
    <3>2. r.length > BufferSize
      BY <2>3 DEF IsTooLong
    <3> QED
      BY <2>1, <3>1, <3>2, Stopped
  <2>4. CASE ~IsTooLong(r) /\ ~IsRead(r)
    <3>1. Fail /\ UNCHANGED taken
      BY <1>7, <2>4 DEF ReadRecord
    <3>2. ~r.whole
      BY <2>4 DEF IsRead
    <3> QED
      BY <2>1, <3>1, <3>2, Stopped
  <2>5. CASE ~IsTooLong(r) /\ IsRead(r)
    <3>1. /\ packet' = [length |-> r.length, time |-> TimeOf(r), bytes |-> r.length]
          /\ capture' = [capture EXCEPT !.records = Tail(@)]
          /\ taken' = Append(taken, packet')
      BY <1>7, <2>5 DEF ReadRecord, IsRead
    <3> QED
      BY <2>1, <2>5, <3>1, Taken
  <2> QED
    BY <2>3, <2>4, <2>5
<1> QED
  BY <1>2, <1>3, <1>4, <1>5, <1>6, <1>7 DEF PcapNext

LEMMA PacketsAreReadInState == PcapInv => PacketsAreRead
<1> SUFFICES ASSUME PcapInv PROVE PacketsAreRead
  OBVIOUS
<1>1. PICK nanosecond \in BOOLEAN :
        /\ capture.state # "closed" => nanosecond = capture.nanosecond
        /\ AllTakenOf(nanosecond)
  BY DEF PcapInv
<1>2. DOMAIN taken = 1 .. Len(taken) /\ DOMAIN captured = 1 .. Len(captured)
      /\ Len(taken) \in Nat /\ Len(captured) \in Nat /\ Len(taken) <= Len(captured)
  BY DEF PcapInv
<1>3. ASSUME NEW k \in DOMAIN taken
      PROVE  /\ k \in DOMAIN captured
             /\ taken[k].bytes = captured[k].length /\ captured[k].length <= BufferSize
             /\ \E n \in BOOLEAN :
                  /\ capture.state # "closed" => n = capture.nanosecond
                  /\ taken[k].time = AtTime(captured[k], n)
  <2>1. k \in DOMAIN captured
    BY <1>2
  <2>2. IsTakenOf(taken[k], captured[k], nanosecond)
    BY <1>1, <1>2 DEF AllTakenOf
  <2> QED
    BY <1>1, <2>1, <2>2 DEF IsTakenOf
<1>4. capture.state = "good" \/ capture.records # <<>>
        => Len(taken) + Len(capture.records) = Len(captured)
  BY DEF PcapInv, RestIsLeft
<1>5. capture.state = "failed" /\ capture.records # <<>>
        => LET next == Head(capture.records) IN ~next.whole \/ next.length > BufferSize
  BY DEF PcapInv
<1> QED
  BY <1>3, <1>4, <1>5, Zenon DEF PacketsAreRead

\* What was written to a file, and no more, is read from it: of lines of cells, with
\* and without quotes, blanks and commas in them, and of captures in either unit that
\* may end anywhere.
THEOREM FilesAreReadHolds == FormatsSpec => []FilesAreRead
<1>1. FormatsInit => CsvInv /\ PcapInv
  BY CsvInvInit, PcapInvInit
<1>2. CsvInv /\ PcapInv /\ [CsvNext \/ PcapNext]_formatVars => (CsvInv /\ PcapInv)'
  BY CsvInvStep, PcapInvStep
<1>3. CsvInv /\ PcapInv => FilesAreRead
  BY PacketsAreReadInState DEF CsvInv, FilesAreRead
<1> QED
  BY <1>1, <1>2, <1>3, PTL DEF FormatsSpec
=============================================================================
