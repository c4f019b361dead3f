--------------------------- MODULE AsyncLogProofs ---------------------------
(***************************************************************************)
(* What AsyncLog guarantees for any number of producers, any capacity and  *)
(* any number of messages.                                                 *)
(***************************************************************************)
EXTENDS AsyncLog, DataLemmas

\* TypeOK: every variable of the log keeps its type; the queue never holds
\* more messages than it has nodes.
THEOREM TypeCorrect == Spec => []TypeOK
<1>1. Init => TypeOK
  <2>1. <<>> \in Seq(Message) /\ <<>> \in Seq(Line) /\ Len(<<>>) = 0
    OBVIOUS
  <2> SUFFICES ASSUME Init PROVE TypeOK
    OBVIOUS
  <2>2. inFlight \in [Producers -> Nat \union {None}]
    BY DEF Init
  <2>3. messages \in Seq(Message) /\ Len(messages) <= Capacity /\ file \in Seq(Line)
    BY <2>1, CapacityAssumption DEF Init
  <2> QED
    BY <2>2, <2>3 DEF Init, TypeOK
<1>2. TypeOK /\ [Next]_vars => TypeOK'
  <2> SUFFICES ASSUME TypeOK, [Next]_vars PROVE TypeOK'
    OBVIOUS
  <2> USE DEF TypeOK
  <2>1. ASSUME NEW p \in Producers, TakeNumber(p) PROVE TypeOK'
    BY <2>1 DEF TakeNumber
  <2>2. ASSUME NEW p \in Producers, Push(p) PROVE TypeOK'
    <3>1. [seq |-> inFlight[p], from |-> p] \in Message
      BY <2>2 DEF Push, HasRoom, Queue, Message
    <3>2. messages' \in Seq(Message) /\ Len(messages') <= Capacity
      BY <2>2, <3>1, AppendFacts, SeqFacts, CapacityAssumption DEF Push, HasRoom, Queue
    <3> QED
      BY <2>2, <3>2 DEF Push, HasRoom, Queue
  <2>3. ASSUME NEW p \in Producers, Drop(p) PROVE TypeOK'
    BY <2>3 DEF Drop
  <2>4. CASE BeginExecute
    BY <2>4 DEF BeginExecute
  <2>5. CASE PopAndPrint
    <3>1. /\ Head(messages) \in Message
          /\ messages' \in Seq(Message)
          /\ Len(messages') = Len(messages) - 1
          /\ Len(messages) \in Nat
      BY <2>5, TailFacts DEF PopAndPrint, CanPop, LineOf, NumberAfter
    <3>2. [seq |-> Head(messages).seq, from |-> Head(messages).from,
           expected |-> nextReceive] \in Line
      BY <3>1 DEF Message, Line
    <3>3. file' \in Seq(Line)
      BY <2>5, <3>2, AppendFacts DEF PopAndPrint, CanPop, LineOf, NumberAfter
    <3> QED
      BY <2>5, <3>1, <3>3, CapacityAssumption 
         DEF PopAndPrint, CanPop, LineOf, NumberAfter, Message
  <2>6. CASE EndExecute
    BY <2>6, SeqFacts DEF EndExecute, FlushIfWrote
  <2>7. CASE UNCHANGED vars
    BY <2>7 DEF vars
  <2> QED
    BY <2>1, <2>2, <2>3, <2>4, <2>5, <2>6, <2>7 DEF Next, Execute, Log
<1> QED
  BY <1>1, <1>2, PTL DEF Spec
-----------------------------------------------------------------------------
(***************************************************************************)
(* What each action does to the places a number can be in.                 *)
(***************************************************************************)
\* A number leaves its producer: nobody else holds it.
LEMMA LeaveProducer ==
    ASSUME TypeOK, OnceInItsPlace, NEW p \in Producers, inFlight[p] # None,
           inFlight' = [inFlight EXCEPT ![p] = None]
    PROVE  InFlight' = InFlight \ {inFlight[p]}
<1>1. \A q \in Producers : inFlight'[q] = IF q = p THEN None ELSE inFlight[q]
  BY DEF TypeOK
<1>2. \A q \in Producers : q # p => inFlight[q] # inFlight[p]
  BY DEF OnceInItsPlace
<1> QED
  BY <1>1, <1>2 DEF InFlight

LEMMA TakeNumberMoves ==
    ASSUME TypeOK, NEW p \in Producers, TakeNumber(p)
    PROVE  /\ InFlight' = InFlight \union {nextSend}
           /\ UNCHANGED <<Queued, Written, dropped>>
<1>1. \A q \in Producers : inFlight'[q] = IF q = p THEN nextSend ELSE inFlight[q]
  BY DEF TypeOK, TakeNumber
<1>2. nextSend # None /\ inFlight[p] = None
  BY DEF TypeOK, TakeNumber, None
<1>3. InFlight' = InFlight \union {nextSend}
  BY <1>1, <1>2 DEF InFlight
<1> QED
  BY <1>3 DEF TakeNumber, Queued, Written

LEMMA PushMoves ==
    ASSUME TypeOK, OnceInItsPlace, NEW p \in Producers, Push(p)
    PROVE  /\ InFlight' = InFlight \ {inFlight[p]}
           /\ Queued' = Queued \union {inFlight[p]}
           /\ inFlight[p] \in InFlight
           /\ UNCHANGED <<nextSend, Written, dropped>>
<1>1. InFlight' = InFlight \ {inFlight[p]} /\ inFlight[p] \in InFlight
  BY LeaveProducer DEF Push, HasRoom, Queue, InFlight
<1>2. Queued' = Queued \union {inFlight[p]}
  <2>1. messages \in Seq(Message) /\ [seq |-> inFlight[p], from |-> p] \in Message
    BY DEF TypeOK, Push, HasRoom, Queue, Message
  <2>2. /\ DOMAIN messages = 1 .. Len(messages)
        /\ DOMAIN messages' = 1 .. Len(messages) + 1
        /\ Len(messages) \in Nat
        /\ \A i \in 1 .. Len(messages) : messages'[i] = messages[i]
        /\ messages'[Len(messages) + 1].seq = inFlight[p]
    BY <2>1, AppendFacts, SeqFacts DEF Push, HasRoom, Queue
  <2> QED
    BY <2>2 DEF Queued
<1> QED
  BY <1>1, <1>2 DEF Push, HasRoom, Queue, Written

LEMMA DropMoves ==
    ASSUME TypeOK, OnceInItsPlace, NEW p \in Producers, Drop(p)
    PROVE  /\ InFlight' = InFlight \ {inFlight[p]}
           /\ dropped' = dropped \union {inFlight[p]}
           /\ inFlight[p] \in InFlight
           /\ UNCHANGED <<nextSend, Queued, Written>>
BY LeaveProducer DEF Drop, InFlight, Queued, Written

LEMMA PopAndPrintMoves ==
    ASSUME TypeOK, OnceInItsPlace, PopAndPrint
    PROVE  /\ Queued' = Queued \ {messages[1].seq}
           /\ Written' = Written \union {messages[1].seq}
           /\ messages[1].seq \in Queued
           /\ UNCHANGED <<nextSend, InFlight, dropped>>
<1>1. messages \in Seq(Message) /\ messages # <<>>
  BY DEF TypeOK, PopAndPrint, CanPop, LineOf, NumberAfter
<1>2. /\ Len(messages) \in Nat \ {0}
      /\ DOMAIN messages = 1 .. Len(messages)
      /\ DOMAIN messages' = 1 .. Len(messages) - 1
      /\ \A i \in 1 .. Len(messages) - 1 : messages'[i] = messages[i + 1]
      /\ Head(messages) = messages[1]
      /\ Head(messages) \in Message
  BY <1>1, TailFacts, SeqFacts DEF PopAndPrint, CanPop, LineOf, NumberAfter
<1>3. Queued' = Queued \ {messages[1].seq}
  <2>1. \A i \in 1 .. Len(messages) - 1 : messages[i + 1].seq # messages[1].seq
    BY <1>2 DEF OnceInItsPlace
  <2>2. ASSUME NEW x \in Queued' PROVE x \in Queued \ {messages[1].seq}
    BY <1>2, <2>1, <2>2 DEF Queued
  <2>3. ASSUME NEW x \in Queued, x # messages[1].seq PROVE x \in Queued'
    <3>1. PICK i \in 1 .. Len(messages) : x = messages[i].seq
      BY <1>2 DEF Queued
    <3>2. i - 1 \in 1 .. Len(messages) - 1 /\ messages'[i - 1] = messages[i]
      BY <1>2, <2>3, <3>1
    <3> QED
      BY <1>2, <3>1, <3>2 DEF Queued
  <2> QED
    BY <2>2, <2>3
<1>4. Written' = Written \union {messages[1].seq}
  <2> DEFINE line == [seq |-> Head(messages).seq, from |-> Head(messages).from,
                      expected |-> nextReceive]
  <2>1. line \in Line /\ file \in Seq(Line)
    BY <1>2 DEF TypeOK, Message, Line
  <2>2. /\ DOMAIN file = 1 .. Len(file)
        /\ DOMAIN file' = 1 .. Len(file) + 1
        /\ Len(file) \in Nat
        /\ \A i \in 1 .. Len(file) : file'[i] = file[i]
        /\ file'[Len(file) + 1].seq = messages[1].seq
    BY <1>2, <2>1, AppendFacts, SeqFacts
       DEF PopAndPrint, CanPop, LineOf, NumberAfter
  <2> QED
    BY <2>2 DEF Written
<1>5. messages[1].seq \in Queued
  BY <1>2 DEF Queued
<1>6. UNCHANGED <<nextSend, InFlight, dropped>>
  BY DEF PopAndPrint, CanPop, LineOf, NumberAfter, InFlight
<1> QED
  BY <1>3, <1>4, <1>5, <1>6
-----------------------------------------------------------------------------
(***************************************************************************)
(* Accounting is inductive relative to TypeOK: a number moves from one     *)
(* place to the next, and OnceInItsPlace makes it leave the old one.       *)
(***************************************************************************)
LEMMA OnceAgain ==
    ASSUME TypeOK, Accounting, [Next]_vars
    PROVE  OnceInItsPlace'
<1> DEFINE OnceInFlight == \A p, q \in Producers :
               inFlight[p] = inFlight[q] /\ inFlight[p] # None => p = q
           OnceQueued == \A i, j \in DOMAIN messages :
               messages[i].seq = messages[j].seq => i = j
           OnceWritten == \A i, j \in DOMAIN file :
               file[i].seq = file[j].seq => i = j
<1>1. OnceInItsPlace' <=> OnceInFlight' /\ OnceQueued' /\ OnceWritten'
  BY DEF OnceInItsPlace
<1>2. OnceInFlight /\ OnceQueued /\ OnceWritten
  BY DEF Accounting, OnceInItsPlace
<1>3. ASSUME NEW p \in Producers, TakeNumber(p)
      PROVE  OnceInItsPlace'
  <2>1. nextSend \notin InFlight
    BY DEF Accounting, PlacesCover, TypeOK
  <2>2. \A q \in Producers : inFlight[q] # nextSend
    BY <2>1 DEF InFlight, TypeOK, None
  <2>3. \A q \in Producers : inFlight'[q] = IF q = p THEN nextSend ELSE inFlight[q]
    BY <1>3 DEF TakeNumber, TypeOK
  <2>4. OnceInFlight'
    BY <1>2, <2>2, <2>3 DEF None
  <2>5. OnceQueued' /\ OnceWritten'
    BY <1>2, <1>3 DEF TakeNumber
  <2> QED
    BY <1>1, <2>4, <2>5
<1>4. ASSUME NEW p \in Producers, Push(p)
      PROVE  OnceInItsPlace'
  <2>1. messages \in Seq(Message) /\ [seq |-> inFlight[p], from |-> p] \in Message
    BY <1>4 DEF TypeOK, Push, HasRoom, Queue, Message
  <2>2. /\ DOMAIN messages = 1 .. Len(messages)
        /\ DOMAIN messages' = 1 .. Len(messages) + 1
        /\ Len(messages) \in Nat
        /\ \A i \in 1 .. Len(messages) : messages'[i] = messages[i]
        /\ messages'[Len(messages) + 1].seq = inFlight[p]
    BY <1>4, <2>1, AppendFacts, SeqFacts DEF Push, HasRoom, Queue
  <2>3. inFlight[p] \in InFlight /\ inFlight[p] \notin Queued
    BY <1>4 DEF Push, HasRoom, Queue, InFlight, Accounting, PlacesDisjoint
  <2>4. \A i \in 1 .. Len(messages) : messages[i].seq # inFlight[p]
    BY <2>2, <2>3 DEF Queued
  <2>5. OnceQueued'
    BY <1>2, <2>2, <2>4
  <2>6. OnceInFlight'
    <3>1. \A q \in Producers : inFlight'[q] = IF q = p THEN None ELSE inFlight[q]
      BY <1>4 DEF Push, HasRoom, Queue, TypeOK
    <3> QED
      BY <1>2, <3>1
  <2>7. OnceWritten'
    BY <1>2, <1>4 DEF Push, HasRoom, Queue
  <2> QED
    BY <1>1, <2>5, <2>6, <2>7
<1>5. ASSUME NEW p \in Producers, Drop(p)
      PROVE  OnceInItsPlace'
  <2>1. \A q \in Producers : inFlight'[q] = IF q = p THEN None ELSE inFlight[q]
    BY <1>5 DEF Drop, TypeOK
  <2>2. OnceInFlight'
    BY <1>2, <2>1
  <2>3. OnceQueued' /\ OnceWritten'
    BY <1>2, <1>5 DEF Drop
  <2> QED
    BY <1>1, <2>2, <2>3
<1>6. CASE PopAndPrint
  <2>1. messages \in Seq(Message) /\ messages # <<>>
    BY <1>6 DEF TypeOK, PopAndPrint, CanPop, LineOf, NumberAfter
  <2>2. /\ Len(messages) \in Nat \ {0}
        /\ DOMAIN messages = 1 .. Len(messages)
        /\ DOMAIN messages' = 1 .. Len(messages) - 1
        /\ \A i \in 1 .. Len(messages) - 1 : messages'[i] = messages[i + 1]
        /\ Head(messages) = messages[1]
        /\ Head(messages) \in Message
    BY <1>6, <2>1, TailFacts, SeqFacts DEF PopAndPrint, CanPop, LineOf, NumberAfter
  <2>3. OnceQueued'
    BY <1>2, <2>2
  <2>4. messages[1].seq \in Queued /\ messages[1].seq \notin Written
    BY <2>2 DEF Queued, Accounting, PlacesDisjoint
  <2> DEFINE line == [seq |-> Head(messages).seq, from |-> Head(messages).from,
                      expected |-> nextReceive]
  <2>5. line \in Line /\ file \in Seq(Line)
    BY <2>2 DEF TypeOK, Message, Line
  <2>6. /\ DOMAIN file = 1 .. Len(file)
        /\ DOMAIN file' = 1 .. Len(file) + 1
        /\ Len(file) \in Nat
        /\ \A i \in 1 .. Len(file) : file'[i] = file[i]
        /\ file'[Len(file) + 1].seq = messages[1].seq
    BY <1>6, <2>2, <2>5, AppendFacts, SeqFacts
       DEF PopAndPrint, CanPop, LineOf, NumberAfter
  <2>7. \A i \in 1 .. Len(file) : file[i].seq # messages[1].seq
    BY <2>4, <2>6 DEF Written
  <2>8. OnceWritten'
    BY <1>2, <2>6, <2>7
  <2>9. OnceInFlight'
    BY <1>2, <1>6 DEF PopAndPrint, CanPop, LineOf, NumberAfter
  <2> QED
    BY <1>1, <2>3, <2>8, <2>9
<1>7. CASE BeginExecute
  BY <1>1, <1>2, <1>7 DEF BeginExecute
<1>8. CASE EndExecute
  BY <1>1, <1>2, <1>8 DEF EndExecute, FlushIfWrote
<1>9. CASE UNCHANGED vars
  BY <1>1, <1>2, <1>9 DEF vars
<1> QED
  BY <1>3, <1>4, <1>5, <1>6, <1>7, <1>8, <1>9 DEF Next, Execute, Log

LEMMA PlacesAgain ==
    ASSUME TypeOK, Accounting, [Next]_vars
    PROVE  (PlacesCover /\ PlacesDisjoint)'
<1> USE DEF PlacesCover, PlacesDisjoint
<1>0. OnceInItsPlace /\ PlacesCover /\ PlacesDisjoint /\ nextSend \in Nat
  BY DEF Accounting, TypeOK
<1>1. ASSUME NEW p \in Producers, TakeNumber(p)
      PROVE  (PlacesCover /\ PlacesDisjoint)'
  <2>1. 0 .. nextSend' - 1 = (0 .. nextSend - 1) \union {nextSend}
    BY <1>0, <1>1 DEF TakeNumber
  <2>2. nextSend \notin 0 .. nextSend - 1
    BY <1>0
  <2> QED
    BY <1>0, <1>1, <2>1, <2>2, TakeNumberMoves
<1>2. ASSUME NEW p \in Producers, Push(p)
      PROVE  (PlacesCover /\ PlacesDisjoint)'
  BY <1>0, <1>2, PushMoves
<1>3. ASSUME NEW p \in Producers, Drop(p)
      PROVE  (PlacesCover /\ PlacesDisjoint)'
  BY <1>0, <1>3, DropMoves
<1>4. CASE PopAndPrint
  <2>1. PICK n : /\ n \in Queued
                 /\ Queued' = Queued \ {n}
                 /\ Written' = Written \union {n}
                 /\ UNCHANGED <<nextSend, InFlight, dropped>>
    BY <1>0, <1>4, PopAndPrintMoves
  <2>2. PlacesCover'
    BY <1>0, <2>1
  <2>3. PlacesDisjoint'
    BY <1>0, <2>1
  <2> QED
    BY <2>2, <2>3
<1>5. CASE UNCHANGED <<nextSend, inFlight, messages, file, dropped>>
  BY <1>0, <1>5 DEF InFlight, Queued, Written
<1>6. CASE BeginExecute \/ EndExecute
  BY <1>5, <1>6 DEF BeginExecute, EndExecute, FlushIfWrote
<1>7. CASE UNCHANGED vars
  BY <1>5, <1>7 DEF vars
<1> QED
  BY <1>1, <1>2, <1>3, <1>4, <1>5, <1>6, <1>7 DEF Next, Execute, Log

\* Accounting: every number given out is in exactly one place, once; nothing
\* the queue accepted is lost or printed twice, for any number of threads.
THEOREM AccountingHolds == Spec => []Accounting
<1>1. Init => Accounting
  <2> SUFFICES ASSUME Init PROVE Accounting
    OBVIOUS
  <2>1. DOMAIN <<>> = {}
    OBVIOUS
  <2>2. InFlight = {} /\ Queued = {} /\ Written = {} /\ dropped = {}
    BY <2>1 DEF Init, InFlight, Queued, Written
  <2>3. 0 .. nextSend - 1 = {}
    BY DEF Init
  <2>4. OnceInItsPlace
    BY <2>1 DEF Init, OnceInItsPlace
  <2> QED
    BY <2>2, <2>3, <2>4 DEF Accounting, PlacesCover, PlacesDisjoint
<1>2. TypeOK /\ Accounting /\ [Next]_vars => Accounting'
  BY OnceAgain, PlacesAgain DEF Accounting
<1> QED
  BY <1>1, <1>2, TypeCorrect, PTL DEF Spec
-----------------------------------------------------------------------------
(***************************************************************************)
(* Every number missing from the file below a written line is spanned by   *)
(* an alarm.  This is about all numbers, not only the dropped ones, since  *)
(* a number may still be on its way when a later one is printed.           *)
(***************************************************************************)
Linked == nextReceive = IF file = <<>> THEN 0 ELSE file[Len(file)].seq + 1

GapsSpanned ==
    \A d \in Nat \ Written :
      (\E i \in DOMAIN file : file[i].seq > d)
        => (\E i \in DOMAIN file : Spans(file[i], d))

LEMMA GapsAgain ==
    ASSUME TypeOK, Linked, GapsSpanned, [Next]_vars
    PROVE  Linked' /\ GapsSpanned'
<1>1. CASE PopAndPrint
  <2> DEFINE line == [seq |-> Head(messages).seq, from |-> Head(messages).from,
                      expected |-> nextReceive]
             n == Len(file)
  <2>1. Head(messages) \in Message
    BY <1>1, TailFacts DEF TypeOK, PopAndPrint, CanPop, LineOf, NumberAfter
  <2>2. line \in Line /\ file \in Seq(Line)
    BY <2>1 DEF TypeOK, Message, Line
  <2>3. /\ DOMAIN file = 1 .. n
        /\ DOMAIN file' = 1 .. n + 1
        /\ n \in Nat
        /\ Len(file') = n + 1
        /\ file' # <<>>
        /\ \A i \in 1 .. n : file'[i] = file[i]
        /\ \A i \in 1 .. n : file[i].seq \in Nat
        /\ file'[n + 1] = line
        /\ file = <<>> <=> n = 0
    <3>0. /\ DOMAIN file = 1 .. n
          /\ n \in Nat
          /\ \A i \in 1 .. n : file[i] \in Line
          /\ file = <<>> <=> n = 0
      BY <2>2, SeqFacts
    <3>1. \A i \in 1 .. n : file[i].seq \in Nat
      BY <3>0 DEF Line
    <3>2. file' = Append(file, line)
      BY <1>1 DEF PopAndPrint, CanPop, LineOf, NumberAfter
    <3>3. /\ file' \in Seq(Line)
          /\ DOMAIN file' = 1 .. n + 1
          /\ Len(file') = n + 1
          /\ \A i \in 1 .. n : file'[i] = file[i]
          /\ file'[n + 1] = line
      BY <2>2, <3>2, AppendFacts
    <3>4. file' # <<>>
      BY <3>0, <3>3, SeqFacts
    <3> QED
      BY <3>0, <3>1, <3>3, <3>4
  <2>4. Linked'
    BY <1>1, <2>3 DEF Linked, PopAndPrint, CanPop, LineOf, NumberAfter
  <2>5. Written' = Written \union {line.seq} /\ Written = {file[i].seq : i \in 1 .. n}
    BY <2>3 DEF Written
  <2>6. ASSUME NEW d \in Nat, d \notin Written', NEW k \in 1 .. n + 1, file'[k].seq > d
        PROVE  \E i \in 1 .. n + 1 : Spans(file'[i], d)
    <3>1. CASE \E i \in 1 .. n : file[i].seq > d
      <4>1. PICK i \in 1 .. n : Spans(file[i], d)
        BY <2>3, <2>5, <2>6, <3>1 DEF GapsSpanned
      <4>2. i \in 1 .. n + 1 /\ file'[i] = file[i]
        BY <2>3
      <4> QED
        BY <4>1, <4>2 DEF Spans
    <3>2. CASE ~ \E i \in 1 .. n : file[i].seq > d
      <4>1. line.seq > d
        BY <2>3, <2>6, <3>2
      <4>2. nextReceive <= d
        <5>1. CASE n = 0
          BY <2>3, <5>1 DEF Linked
        <5>2. CASE n # 0
          <6>1. n \in 1 .. n /\ nextReceive = file[n].seq + 1
            BY <2>3, <5>2 DEF Linked
          <6>2. file[n].seq \in Nat /\ file[n].seq # d /\ ~(file[n].seq > d)
            BY <2>3, <2>5, <2>6, <3>2, <6>1
          <6> QED
            BY <6>1, <6>2
        <5> QED
          BY <5>1, <5>2
      <4>3. Spans(line, d)
        BY <4>1, <4>2 DEF Spans
      <4> QED
        BY <2>3, <4>3
    <3> QED
      BY <3>1, <3>2
  <2>7. GapsSpanned'
    BY <2>3, <2>6 DEF GapsSpanned
  <2> QED
    BY <2>4, <2>7
<1>2. CASE UNCHANGED <<nextReceive, file>>
  BY <1>2 DEF Linked, GapsSpanned, Written
<1> QED
  BY <1>1, <1>2
     DEF Next, Execute, Log, TakeNumber, Push, HasRoom, Queue, Drop,
         BeginExecute, EndExecute, FlushIfWrote, vars

\* LossIsReported: a dropped message is spanned by an alarm of the file as soon
\* as a later number is written, for any number of producers and any capacity.
THEOREM LossReported == Spec => []LossIsReported
<1>1. Init => Linked /\ GapsSpanned
  <2>1. DOMAIN <<>> = {}
    OBVIOUS
  <2> QED
    BY <2>1 DEF Init, Linked, GapsSpanned
<1>2. TypeOK /\ Linked /\ GapsSpanned /\ [Next]_vars => Linked' /\ GapsSpanned'
  BY GapsAgain
<1>3. TypeOK /\ Accounting /\ GapsSpanned => LossIsReported
  <2> SUFFICES ASSUME TypeOK, Accounting, GapsSpanned, NEW d \in dropped,
                      \E i \in DOMAIN file : file[i].seq > d
               PROVE  \E i \in DOMAIN file : Alarm(file[i]) /\ Spans(file[i], d)
    BY DEF LossIsReported
  <2>1. d \in Nat \ Written
    BY DEF TypeOK, Accounting, PlacesDisjoint
  <2>2. PICK i \in DOMAIN file : Spans(file[i], d)
    BY <2>1 DEF GapsSpanned
  <2>3. file[i].expected \in Nat /\ file[i].seq \in Nat
    <3>1. file \in Seq(Line)
      BY DEF TypeOK
    <3>2. file[i] \in Line
      BY <3>1, SeqFacts
    <3> QED
      BY <3>2 DEF Line
  <2>4. Alarm(file[i])
    BY <2>1, <2>2, <2>3 DEF Spans, Alarm
  <2> QED
    BY <2>2, <2>4
<1> QED
  BY <1>1, <1>2, <1>3, TypeCorrect, AccountingHolds, PTL DEF Spec
-----------------------------------------------------------------------------
(***************************************************************************)
(* The order of one thread's messages.  The numbers of a thread grow from  *)
(* the file through the queue to the number it is pushing.                 *)
(***************************************************************************)
Rising(s) == \A i, j \in DOMAIN s :
                 i < j /\ s[i].from = s[j].from => s[i].seq < s[j].seq

Before(s, t) == \A i \in DOMAIN s, j \in DOMAIN t :
                    s[i].from = t[j].from => s[i].seq < t[j].seq

BelowInFlight(s) == \A i \in DOMAIN s :
    inFlight[s[i].from] # None => s[i].seq < inFlight[s[i].from]

BelowNextSend(s) == \A i \in DOMAIN s : s[i].seq < nextSend

OrderInv ==
    /\ Rising(file)
    /\ Rising(messages)
    /\ Before(file, messages)
    /\ BelowInFlight(file) /\ BelowNextSend(file)
    /\ BelowInFlight(messages) /\ BelowNextSend(messages)
    /\ \A p \in Producers : inFlight[p] < nextSend

LEMMA OrderAgain ==
    ASSUME TypeOK, OrderInv, [Next]_vars
    PROVE  OrderInv'
<1> USE DEF OrderInv, Rising, Before, BelowInFlight, BelowNextSend
<1>0. /\ \A i \in DOMAIN messages : messages[i] \in Message
      /\ \A i \in DOMAIN file : file[i] \in Line
      /\ DOMAIN messages = 1 .. Len(messages) /\ Len(messages) \in Nat
      /\ DOMAIN file = 1 .. Len(file) /\ Len(file) \in Nat
  <2>1. messages \in Seq(Message) /\ file \in Seq(Line)
    BY DEF TypeOK
  <2> QED
    BY <2>1, SeqFacts
<1>1. ASSUME NEW p \in Producers, TakeNumber(p) PROVE OrderInv'
  <2>1. \A q \in Producers : inFlight'[q] = IF q = p THEN nextSend ELSE inFlight[q]
    BY <1>1 DEF TakeNumber, TypeOK
  <2>2. nextSend \in Nat /\ nextSend' = nextSend + 1 /\ UNCHANGED <<messages, file>>
    BY <1>1 DEF TakeNumber, TypeOK
  <2>3. /\ \A i \in DOMAIN messages : messages[i].from \in Producers
                                      /\ messages[i].seq \in Nat
        /\ \A i \in DOMAIN file : file[i].from \in Producers /\ file[i].seq \in Nat
    BY <1>0 DEF Message, Line
  <2>4. \A q \in Producers : inFlight'[q] < nextSend'
    BY <2>1, <2>2 DEF TypeOK, None
  <2>5. BelowNextSend(messages)' /\ BelowNextSend(file)'
    BY <2>2, <2>3
  <2>6. BelowInFlight(messages)' /\ BelowInFlight(file)'
    BY <2>1, <2>2, <2>3
  <2> QED
    BY <2>2, <2>4, <2>5, <2>6
<1>2. ASSUME NEW p \in Producers, Push(p) PROVE OrderInv'
  <2>1. messages \in Seq(Message) /\ [seq |-> inFlight[p], from |-> p] \in Message
    BY <1>2 DEF TypeOK, Push, HasRoom, Queue, Message
  <2>2. /\ DOMAIN messages' = 1 .. Len(messages) + 1
        /\ \A i \in 1 .. Len(messages) : messages'[i] = messages[i]
        /\ messages'[Len(messages) + 1].seq = inFlight[p]
        /\ messages'[Len(messages) + 1].from = p
    BY <1>2, <2>1, AppendFacts DEF Push, HasRoom, Queue
  <2>3. \A q \in Producers : inFlight'[q] = IF q = p THEN None ELSE inFlight[q]
    BY <1>2 DEF Push, HasRoom, Queue, TypeOK
  <2>4. inFlight[p] # None /\ inFlight[p] < nextSend /\ UNCHANGED <<nextSend, file>>
    BY <1>2 DEF Push, HasRoom, Queue
  <2>5. /\ \A i \in DOMAIN messages : messages[i].from \in Producers
        /\ \A i \in DOMAIN file : file[i].from \in Producers
    BY <1>0 DEF Message, Line
  <2>6. Rising(messages)'
    BY <1>0, <2>2, <2>4
  <2>7. Before(file, messages)'
    BY <1>0, <2>2, <2>4
  <2>8. BelowInFlight(messages)' /\ BelowInFlight(file)'
    BY <1>0, <2>2, <2>3, <2>4, <2>5
  <2>9. BelowNextSend(messages)' /\ BelowNextSend(file)'
    BY <1>0, <2>2, <2>4
  <2>10. \A q \in Producers : inFlight'[q] < nextSend'
    BY <2>3, <2>4 DEF TypeOK, None
  <2> QED
    BY <2>4, <2>6, <2>7, <2>8, <2>9, <2>10
<1>3. ASSUME NEW p \in Producers, Drop(p) PROVE OrderInv'
  <2>1. \A q \in Producers : inFlight'[q] = IF q = p THEN None ELSE inFlight[q]
    BY <1>3 DEF Drop, TypeOK
  <2>2. UNCHANGED <<nextSend, file, messages>> /\ nextSend \in Nat
    BY <1>3 DEF Drop, TypeOK
  <2>3. /\ \A i \in DOMAIN messages : messages[i].from \in Producers
        /\ \A i \in DOMAIN file : file[i].from \in Producers
    BY <1>0 DEF Message, Line
  <2>4. \A q \in Producers : inFlight'[q] < nextSend'
    BY <2>1, <2>2 DEF None
  <2> QED
    BY <2>1, <2>2, <2>3, <2>4
<1>4. CASE PopAndPrint
  <2> DEFINE line == [seq |-> Head(messages).seq, from |-> Head(messages).from,
                      expected |-> nextReceive]
             n == Len(file)
             k == Len(messages)
  <2>1. messages \in Seq(Message) /\ messages # <<>>
    BY <1>4 DEF TypeOK, PopAndPrint, CanPop, LineOf, NumberAfter
  <2>2. /\ k \in Nat \ {0}
        /\ DOMAIN messages' = 1 .. k - 1
        /\ \A i \in 1 .. k - 1 : messages'[i] = messages[i + 1]
        /\ Head(messages) = messages[1]
        /\ Head(messages) \in Message
    BY <1>4, <2>1, TailFacts DEF PopAndPrint, CanPop, LineOf, NumberAfter
  <2>3. line \in Line /\ file \in Seq(Line)
    BY <2>2 DEF TypeOK, Message, Line
  <2>4. /\ DOMAIN file' = 1 .. n + 1
        /\ \A i \in 1 .. n : file'[i] = file[i]
        /\ file'[n + 1].seq = messages[1].seq
        /\ file'[n + 1].from = messages[1].from
    <3>1. file' = Append(file, line)
      BY <1>4 DEF PopAndPrint, CanPop, LineOf, NumberAfter
    <3> QED
      BY <2>2, <2>3, <3>1, AppendFacts
  <2>5. UNCHANGED <<nextSend, inFlight>>
    BY <1>4 DEF PopAndPrint, CanPop, LineOf, NumberAfter
  <2>6. 1 \in 1 .. k /\ \A i \in 1 .. k - 1 : i + 1 \in 1 .. k /\ 1 < i + 1
    BY <2>2
  <2>7. Rising(file)'
    BY <1>0, <2>4, <2>6
  <2>8. Rising(messages)'
    <3>1. ASSUME NEW i \in 1 .. k - 1, NEW j \in 1 .. k - 1,
                 i < j, messages'[i].from = messages'[j].from
          PROVE  messages'[i].seq < messages'[j].seq
      <4>1. i + 1 \in DOMAIN messages /\ j + 1 \in DOMAIN messages /\ i + 1 < j + 1
        BY <1>0, <2>2, <3>1
      <4>2. messages'[i] = messages[i + 1] /\ messages'[j] = messages[j + 1]
        BY <2>2
      <4> QED
        BY <3>1, <4>1, <4>2
    <3> QED
      BY <2>2, <3>1
  <2>9. Before(file, messages)'
    <3>1. ASSUME NEW i \in 1 .. n + 1, NEW j \in 1 .. k - 1,
                 file'[i].from = messages'[j].from
          PROVE  file'[i].seq < messages'[j].seq
      <4>0. j + 1 \in DOMAIN messages /\ messages'[j] = messages[j + 1]
        BY <1>0, <2>2
      <4>1. CASE i \in 1 .. n
        <5>1. i \in DOMAIN file /\ file'[i] = file[i]
          BY <1>0, <2>4, <4>1
        <5> QED
          BY <3>1, <4>0, <5>1
      <4>2. CASE i = n + 1
        <5>1. 1 \in DOMAIN messages /\ 1 < j + 1
          BY <1>0, <2>6
        <5> QED
          BY <2>4, <3>1, <4>0, <4>2, <5>1
      <4> QED
        BY <1>0, <4>1, <4>2
    <3> QED
      BY <2>2, <2>4, <3>1
  <2>10. BelowInFlight(messages)' /\ BelowNextSend(messages)'
    BY <1>0, <2>2, <2>5, <2>6
  <2>11. BelowInFlight(file)'
    BY <1>0, <2>4, <2>5, <2>6
  <2>12. BelowNextSend(file)'
    BY <1>0, <2>4, <2>5, <2>6
  <2> QED
    BY <2>5, <2>7, <2>8, <2>9, <2>10, <2>11, <2>12
<1>5. CASE UNCHANGED <<nextSend, inFlight, messages, file>>
  BY <1>5
<1> QED
  BY <1>1, <1>2, <1>3, <1>4, <1>5
     DEF Next, Execute, Log, BeginExecute, EndExecute, FlushIfWrote, vars

\* ThreadOrder: the lines of a thread keep the order of its calls, whatever
\* the others do between its fetch_add and its push.
THEOREM ThreadOrderHolds == Spec => []ThreadOrder
<1>1. Init => OrderInv
  <2>1. DOMAIN <<>> = {}
    OBVIOUS
  <2> QED
    BY <2>1 DEF Init, OrderInv, Rising, Before, BelowInFlight, BelowNextSend, None
<1>2. TypeOK /\ OrderInv /\ [Next]_vars => OrderInv'
  BY OrderAgain
<1>3. OrderInv => ThreadOrder
  BY DEF OrderInv, Rising, Before, ThreadOrder
<1> QED
  BY <1>1, <1>2, <1>3, TypeCorrect, PTL DEF Spec
-----------------------------------------------------------------------------
\* FlushedWhenIdle: what one run of the writer printed is flushed before the
\* run ends.
THEOREM FlushedHolds == Spec => []FlushedWhenIdle
<1> DEFINE Flushing == (executing /\ wrote) \/ flushed = Len(file)
<1>1. Init => Flushing
  BY DEF Init
<1>2. TypeOK /\ Flushing /\ [Next]_vars => Flushing'
  BY DEF TypeOK, Next, Execute, Log, TakeNumber, Push, HasRoom, Queue, Drop, BeginExecute,
         PopAndPrint, CanPop, LineOf, NumberAfter, EndExecute, FlushIfWrote, vars
<1>3. Flushing => FlushedWhenIdle
  BY DEF FlushedWhenIdle
<1> QED
  BY <1>1, <1>2, <1>3, TypeCorrect, PTL DEF Spec
-----------------------------------------------------------------------------
(***************************************************************************)
(* What the writer expects at a line follows the line before it.  With the *)
(* messages of one thread only, the number it expects at an alarm is below *)
(* everything that is still to come and above everything written before,   *)
(* so that it can only have been dropped.                                  *)
(***************************************************************************)
Chained == \A i \in DOMAIN file :
    file[i].expected = IF i = 1 THEN 0 ELSE file[i - 1].seq + 1

LEMMA ChainAgain ==
    ASSUME TypeOK, Linked, Chained, [Next]_vars
    PROVE  Chained'
<1>1. CASE PopAndPrint
  <2> DEFINE line == [seq |-> Head(messages).seq, from |-> Head(messages).from,
                      expected |-> nextReceive]
             n == Len(file)
  <2>1. messages \in Seq(Message) /\ messages # <<>> /\ file \in Seq(Line)
    BY <1>1 DEF TypeOK, PopAndPrint, CanPop, LineOf, NumberAfter
  <2>2. line \in Line
    <3>1. Head(messages) \in Message
      BY <2>1, TailFacts
    <3> QED
      BY <3>1 DEF TypeOK, Message, Line
  <2>3. /\ n \in Nat
        /\ DOMAIN file = 1 .. n
        /\ DOMAIN file' = 1 .. n + 1
        /\ \A j \in 1 .. n : file'[j] = file[j]
        /\ file'[n + 1] = line
        /\ file = <<>> <=> n = 0
    <3>1. file' = Append(file, line)
      BY <1>1 DEF PopAndPrint, CanPop, LineOf, NumberAfter
    <3> QED
      BY <2>1, <2>2, <3>1, AppendFacts, SeqFacts
  <2>4. ASSUME NEW i \in 1 .. n
        PROVE  file'[i].expected = IF i = 1 THEN 0 ELSE file'[i - 1].seq + 1
    <3>1. i # 1 => i - 1 \in 1 .. n
      BY <2>3
    <3> QED
      BY <2>3, <2>4, <3>1 DEF Chained
  <2>5. nextReceive = IF n + 1 = 1 THEN 0 ELSE file'[n].seq + 1
    <3>1. n # 0 => n \in 1 .. n
      BY <2>3
    <3> QED
      BY <2>3, <3>1 DEF Linked
  <2> QED
    BY <2>3, <2>4, <2>5 DEF Chained
<1>2. CASE UNCHANGED file
  BY <1>2 DEF Chained
<1> QED
  BY <1>1, <1>2
     DEF Next, Execute, Log, TakeNumber, Push, HasRoom, Queue, Drop,
         BeginExecute, EndExecute, FlushIfWrote, vars

LEMMA AlarmMeansLoss ==
    ASSUME TypeOK, Accounting, OrderInv, Chained
    PROVE  AlarmOnlyOnLoss
<1> SUFFICES ASSUME \A p, q \in Loggers : p = q,
                    NEW i \in DOMAIN file, Alarm(file[i])
             PROVE  \E d \in dropped : Spans(file[i], d)
  BY Zenon DEF AlarmOnlyOnLoss
<1> DEFINE n == Len(file)
           k == Len(messages)
           e == file[i].expected
<1>1. /\ n \in Nat /\ DOMAIN file = 1 .. n
      /\ k \in Nat /\ DOMAIN messages = 1 .. k
      /\ \A j \in 1 .. n : file[j] \in Line
      /\ \A j \in 1 .. k : messages[j] \in Message
  BY SeqFacts DEF TypeOK
<1>2. /\ \A j \in 1 .. n : file[j].seq \in Nat /\ file[j].from \in Loggers
      /\ \A j \in 1 .. k : messages[j].seq \in Nat /\ messages[j].from \in Loggers
      /\ \A p \in Producers : inFlight[p] # None => p \in Loggers
  BY <1>1 DEF Line, Message, Loggers
<1>3. \A j, l \in 1 .. n : j < l => file[j].seq < file[l].seq
  BY <1>1, <1>2 DEF OrderInv, Rising
<1>4. i \in 1 .. n /\ e # file[i].seq
  BY <1>1 DEF Alarm
<1>5. e \in Nat /\ e < file[i].seq
  <2>1. CASE i = 1
    BY <1>1, <1>2, <1>4, <2>1 DEF Chained
  <2>2. CASE i # 1
    <3>1. i - 1 \in 1 .. n /\ i - 1 < i
      BY <1>1, <1>4, <2>2
    <3>2. e = file[i - 1].seq + 1
      BY <1>1, <1>4, <2>2 DEF Chained
    <3>3. file[i - 1].seq < file[i].seq
      BY <1>3, <1>4, <3>1
    <3>4. file[i - 1].seq \in Nat /\ file[i].seq \in Nat
      BY <1>2, <1>4, <3>1
    <3> QED
      BY <1>4, <3>2, <3>3, <3>4
  <2> QED
    BY <2>1, <2>2
<1>6. e \in 0 .. nextSend - 1
  <2>1. file[i].seq < nextSend /\ nextSend \in Nat /\ file[i].seq \in Nat
    BY <1>1, <1>2, <1>4 DEF OrderInv, BelowNextSend, TypeOK
  <2> QED
    BY <1>5, <2>1
<1>7. e \notin InFlight
  <2>1. ASSUME NEW p \in Producers, inFlight[p] # None
        PROVE  file[i].seq < inFlight[p]
    <3>1. file[i].from = p
      BY <1>2, <1>4, <2>1
    <3> QED
      BY <1>1, <1>4, <2>1, <3>1 DEF OrderInv, BelowInFlight
  <2>2. \A p \in Producers : inFlight[p] # None => inFlight[p] \in Nat
    BY DEF TypeOK
  <2> QED
    BY <1>2, <1>4, <1>5, <2>1, <2>2 DEF InFlight
<1>8. e \notin Queued
  <2>1. ASSUME NEW j \in 1 .. k PROVE file[i].seq < messages[j].seq
    <3>1. file[i].from = messages[j].from
      BY <1>2, <1>4
    <3> QED
      BY <1>1, <1>4, <3>1 DEF OrderInv, Before
  <2> QED
    BY <1>1, <1>2, <1>4, <1>5, <2>1 DEF Queued
<1>9. e \notin Written
  <2>1. ASSUME NEW j \in 1 .. n, file[j].seq = e PROVE FALSE
    <3>1. j < i
      BY <1>1, <1>2, <1>3, <1>4, <1>5, <2>1
    <3>2. i # 1 /\ i - 1 \in 1 .. n
      BY <1>1, <1>4, <3>1
    <3>3. e = file[i - 1].seq + 1
      BY <1>1, <1>4, <3>2 DEF Chained
    <3>4. j = i - 1 \/ j < i - 1
      BY <1>1, <1>4, <3>1
    <3>5. file[j].seq <= file[i - 1].seq
      BY <1>2, <1>3, <3>2, <3>4
    <3> QED
      BY <1>2, <2>1, <3>2, <3>3, <3>5
  <2> QED
    BY <1>1, <2>1 DEF Written
<1>10. e \in dropped
  BY <1>6, <1>7, <1>8, <1>9 DEF Accounting, PlacesCover
<1> QED
  BY <1>5, <1>10 DEF Spans

\* AlarmOnlyOnLoss: with the messages of one thread there is no false alarm.
THEOREM NoFalseAlarm == Spec => []AlarmOnlyOnLoss
<1>1. Init => Linked /\ GapsSpanned /\ OrderInv /\ Chained
  <2>1. DOMAIN <<>> = {}
    OBVIOUS
  <2> QED
    BY <2>1 DEF Init, Linked, GapsSpanned, Chained, OrderInv, Rising,
                Before, BelowInFlight, BelowNextSend, None
<1>2. TypeOK /\ Linked /\ GapsSpanned /\ [Next]_vars => Linked' /\ GapsSpanned'
  BY GapsAgain
<1>3. TypeOK /\ OrderInv /\ [Next]_vars => OrderInv'
  BY OrderAgain
<1>4. TypeOK /\ Linked /\ Chained /\ [Next]_vars => Chained'
  BY ChainAgain
<1>5. TypeOK /\ Accounting /\ OrderInv /\ Chained => AlarmOnlyOnLoss
  BY AlarmMeansLoss
<1> QED
  BY <1>1, <1>2, <1>3, <1>4, <1>5, TypeCorrect, AccountingHolds, PTL DEF Spec
-----------------------------------------------------------------------------
(***************************************************************************)
(* AsyncLog implements the contract of a numbered log.                     *)
(***************************************************************************)
pendingBar == InFlight \union Queued

linesBar == [i \in DOMAIN file |-> [seq |-> file[i].seq, alarm |-> Alarm(file[i])]]

\* What a reader of the file expects is what the writer expects.
LEMMA ExpectedIsNextReceive ==
    ASSUME TypeOK, Linked
    PROVE  Contract!Expected = nextReceive
<1>1. /\ DOMAIN file = 1 .. Len(file)
      /\ Len(file) \in Nat
      /\ file = <<>> <=> Len(file) = 0
  BY SeqFacts DEF TypeOK
<1>2. linesBar \in Seq([seq : Nat, alarm : BOOLEAN]) /\ Len(linesBar) = Len(file)
  <2>1. \A i \in 1 .. Len(file) : file[i] \in Line
    BY SeqFacts DEF TypeOK
  <2>2. linesBar \in [1 .. Len(file) -> [seq : Nat, alarm : BOOLEAN]]
    BY <1>1, <2>1 DEF linesBar, Line, Alarm
  <2> QED
    BY <1>1, <2>2, FunctionIsSeq
<1>3. linesBar = <<>> <=> file = <<>>
  BY <1>1, <1>2, SeqFacts
<1>4. CASE file = <<>>
  BY <1>3, <1>4 DEF Contract!Expected, linesBar, Linked
<1>5. CASE file # <<>>
  <2>1. Len(file) \in DOMAIN file
    BY <1>1, <1>5
  <2>2. linesBar[Len(linesBar)].seq = file[Len(file)].seq
    BY <1>2, <2>1 DEF linesBar
  <2> QED
    BY <1>3, <1>5, <2>2 DEF Contract!Expected, linesBar, Linked
<1> QED
  BY <1>4, <1>5

LEMMA ImplementsStep ==
    ASSUME TypeOK, Accounting, Linked, [Next]_vars
    PROVE  [Contract!Next]_(Contract!vars)
<1> USE DEF Contract!vars, Contract!Next
<1>0. OnceInItsPlace /\ PlacesDisjoint
  BY DEF Accounting
<1>1. ASSUME NEW p \in Producers, TakeNumber(p) PROVE Contract!Call
  <2>1. pendingBar' = pendingBar \union {nextSend} /\ UNCHANGED <<linesBar, dropped>>
    BY <1>1, TakeNumberMoves DEF pendingBar, linesBar, TakeNumber
  <2> QED
    BY <1>1, <2>1 DEF Contract!Call, pendingBar, linesBar, TakeNumber
<1>2. ASSUME NEW p \in Producers, Push(p) PROVE UNCHANGED Contract!vars
  <2>1. pendingBar' = pendingBar
    BY <1>0, <1>2, PushMoves DEF pendingBar
  <2>2. UNCHANGED <<nextSend, linesBar, dropped>>
    BY <1>2 DEF Push, HasRoom, Queue, linesBar
  <2> QED
    BY <2>1, <2>2 DEF pendingBar, linesBar
<1>3. ASSUME NEW p \in Producers, Drop(p)
      PROVE  \E n \in pendingBar : Contract!Lose(n)
  <2>1. /\ inFlight[p] \in pendingBar
        /\ pendingBar' = pendingBar \ {inFlight[p]}
        /\ dropped' = dropped \union {inFlight[p]}
    BY <1>0, <1>3, DropMoves DEF pendingBar, PlacesDisjoint
  <2>2. UNCHANGED <<nextSend, linesBar>>
    BY <1>3 DEF Drop, linesBar
  <2>3. Contract!Lose(inFlight[p])
    BY <2>1, <2>2 DEF Contract!Lose, pendingBar, linesBar
  <2> QED
    BY <2>1, <2>3
<1>4. ASSUME PopAndPrint
      PROVE  \E n \in pendingBar : Contract!Write(n)
  <2> DEFINE line == [seq |-> Head(messages).seq, from |-> Head(messages).from,
                      expected |-> nextReceive]
             h == messages[1].seq
             entry == [seq |-> h, alarm |-> h # nextReceive]
  <2>1. messages \in Seq(Message) /\ messages # <<>> /\ file \in Seq(Line)
    BY <1>4 DEF TypeOK, PopAndPrint, CanPop, LineOf, NumberAfter
  <2>2. Head(messages) = messages[1] /\ messages[1] \in Message
    BY <2>1, TailFacts
  <2>3. line \in Line /\ line.seq = h /\ line.expected = nextReceive
    BY <2>2 DEF TypeOK, Message, Line
  <2>4. /\ Len(file) \in Nat
        /\ DOMAIN file = 1 .. Len(file)
        /\ DOMAIN file' = 1 .. Len(file) + 1
        /\ \A i \in 1 .. Len(file) : file[i] \in Line /\ file'[i] = file[i]
        /\ file'[Len(file) + 1] = line
    <3>1. file' = Append(file, line)
      BY <1>4 DEF PopAndPrint, CanPop, LineOf, NumberAfter
    <3> QED
      BY <2>1, <2>3, <3>1, AppendFacts, SeqFacts
  <2>5. linesBar' = Append(linesBar, entry)
    <3> DEFINE S == [seq : Nat, alarm : BOOLEAN]
    <3>1. linesBar \in [1 .. Len(file) -> S]
      BY <2>4 DEF linesBar, Line, Alarm
    <3>2. linesBar \in Seq(S) /\ Len(linesBar) = Len(file)
      BY <2>4, <3>1, FunctionIsSeq
    <3>3. entry \in S
      BY <2>2 DEF Message
    <3>4. linesBar' \in [1 .. Len(file) + 1 -> S]
      BY <2>3, <2>4 DEF linesBar, Line, Alarm
    <3>5. linesBar' \in Seq(S) /\ Len(linesBar') = Len(file) + 1
      <4>1. Len(file) + 1 \in Nat
        BY <2>4
      <4> QED
        BY <3>4, <4>1, FunctionIsSeq
    <3> HIDE DEF S, entry
    <3>6. /\ Append(linesBar, entry) \in Seq(S)
          /\ Len(Append(linesBar, entry)) = Len(file) + 1
          /\ \A i \in 1 .. Len(file) : Append(linesBar, entry)[i] = linesBar[i]
          /\ Append(linesBar, entry)[Len(file) + 1] = entry
      BY <3>2, <3>3, AppendFacts
    <3>7. \A i \in 1 .. Len(file) : linesBar'[i] = linesBar[i]
      BY <2>4 DEF linesBar, Alarm
    <3>8. linesBar'[Len(file) + 1] = entry
      BY <2>3, <2>4 DEF linesBar, Alarm, entry
    <3>9. \A i \in 1 .. Len(file) + 1 : linesBar'[i] = Append(linesBar, entry)[i]
      BY <2>4, <3>6, <3>7, <3>8
    <3> QED
      BY <3>5, <3>6, <3>9, SeqEqual
  <2>6. /\ h \in pendingBar
        /\ pendingBar' = pendingBar \ {h}
        /\ UNCHANGED <<nextSend, dropped>>
    BY <1>0, <1>4, PopAndPrintMoves DEF pendingBar, PlacesDisjoint
  <2>7. PICK n \in pendingBar : n = h
    BY <2>6
  <2>8. Contract!Write(n)
    BY <2>5, <2>6, <2>7, ExpectedIsNextReceive DEF Contract!Write, pendingBar, linesBar
  <2> QED
    BY <2>8
<1>5. CASE UNCHANGED <<nextSend, inFlight, messages, file, dropped>>
  BY <1>5 DEF InFlight, Queued
<1>6. CASE Execute
  BY <1>4, <1>5, <1>6 DEF Execute, BeginExecute, EndExecute, FlushIfWrote, pendingBar
<1>7. CASE \E p \in Producers : Log(p)
  BY <1>1, <1>2, <1>3, <1>7 DEF Log, pendingBar
<1>8. CASE UNCHANGED vars
  BY <1>5, <1>8 DEF vars
<1> QED
  BY <1>6, <1>7, <1>8 DEF Next

\* ImplementsContract: the asynchronous log is a numbered log, so a number is
\* settled once and the alarms of the file are exactly its discontinuities.
THEOREM Implementation == Spec => ImplementsContract
<1>1. Init => Contract!Init
  <2> SUFFICES ASSUME Init PROVE Contract!Init
    OBVIOUS
  <2>1. DOMAIN <<>> = {}
    OBVIOUS
  <2>2. InFlight \union Queued = {}
    BY <2>1 DEF Init, InFlight, Queued
  <2>3. linesBar = <<>>
    BY <2>1 DEF Init, linesBar
  <2> QED
    BY <2>2, <2>3 DEF Contract!Init, Init, linesBar
<1>2. Init => Linked /\ GapsSpanned
  <2>1. DOMAIN <<>> = {}
    OBVIOUS
  <2> QED
    BY <2>1 DEF Init, Linked, GapsSpanned
<1>3. TypeOK /\ Linked /\ GapsSpanned /\ [Next]_vars => Linked' /\ GapsSpanned'
  BY GapsAgain
<1>4. TypeOK /\ Accounting /\ Linked /\ [Next]_vars => [Contract!Next]_(Contract!vars)
  BY ImplementsStep
<1> QED
  BY <1>1, <1>2, <1>3, <1>4, TypeCorrect, AccountingHolds, PTL
     DEF Spec, ImplementsContract, Contract!Spec
=============================================================================
