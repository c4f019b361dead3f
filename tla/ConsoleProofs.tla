--------------------------- MODULE ConsoleProofs ---------------------------
(***************************************************************************)
(* What holds between the clients and the server of the console for any    *)
(* number of clients, any size of the queue and any time allowed between   *)
(* two heartbeats.                                                         *)
(***************************************************************************)
EXTENDS Console, DataLemmas, TLAPS

-----------------------------------------------------------------------------
(***************************************************************************)
(* The commands in a queue q are those after done, up to last, in order;   *)
(* every other message has the number 0.                                   *)
(***************************************************************************)
Pending(q, done, last) ==
    /\ \A k \in 1 .. Len(q) : q[k].id \in {0} \cup (done + 1) .. last
    /\ \A n \in (done + 1) .. last : \E k \in 1 .. Len(q) : q[k].id = n
    /\ \A j, k \in 1 .. Len(q) :
         j < k /\ q[j].id # 0 /\ q[k].id # 0 => q[j].id < q[k].id

\* The messages of a queue, and what identifies them.
LEMMA MessageFacts ==
    ASSUME NEW q \in Seq(Messages)
    PROVE  /\ Len(q) \in Nat
           /\ \A k \in 1 .. Len(q) : q[k] \in Messages /\ q[k].id \in Nat
<1>1. Len(q) \in Nat /\ \A k \in 1 .. Len(q) : q[k] \in Messages
  BY SeqFacts
<1>2. \A m \in Messages : m.id \in Nat
  BY DEF Messages
<1> QED
  BY <1>1, <1>2

\* A message that is not a command of a current client, sent and received, changes
\* nothing about the commands.
LEMMA PendingSkip ==
    ASSUME NEW q \in Seq(Messages), NEW done \in Nat, NEW last \in Nat,
           Pending(q, done, last)
    PROVE  /\ \A m \in Messages : m.id = 0 => Pending(Append(q, m), done, last)
           /\ q # <<>> /\ Head(q).id = 0 => Pending(Tail(q), done, last)
<1>1. Len(q) \in Nat /\ \A k \in 1 .. Len(q) : q[k].id \in Nat
  BY MessageFacts
<1>2. ASSUME NEW m \in Messages, m.id = 0 PROVE Pending(Append(q, m), done, last)
  <2>1. /\ Len(Append(q, m)) = Len(q) + 1
        /\ \A i \in 1 .. Len(q) : Append(q, m)[i] = q[i]
        /\ Append(q, m)[Len(q) + 1] = m
    BY AppendFacts
  <2>2. \A k \in 1 .. Len(q) + 1 : k \in 1 .. Len(q) \/ k = Len(q) + 1
    BY <1>1
  <2>3. \A k \in 1 .. Len(q) : k \in 1 .. Len(q) + 1
    BY <1>1
  <2> QED
    BY <1>2, <2>1, <2>2, <2>3 DEF Pending
<1>3. ASSUME q # <<>>, Head(q).id = 0 PROVE Pending(Tail(q), done, last)
  <2>1. /\ Len(q) \in Nat \ {0} /\ Len(Tail(q)) = Len(q) - 1 /\ Head(q) = q[1]
        /\ \A i \in 1 .. Len(q) - 1 : Tail(q)[i] = q[i + 1]
    BY <1>3, TailFacts
  <2>2. \A k \in 1 .. Len(q) - 1 : k + 1 \in 1 .. Len(q)
    BY <2>1
  <2>3. ASSUME NEW n \in (done + 1) .. last
        PROVE  \E k \in 1 .. Len(Tail(q)) : Tail(q)[k].id = n
    <3>1. PICK k \in 1 .. Len(q) : q[k].id = n
      BY DEF Pending
    <3>2. k # 1
      BY <1>3, <2>1, <3>1
    <3>3. k - 1 \in 1 .. Len(q) - 1 /\ (k - 1) + 1 = k
      BY <2>1, <3>2
    <3> QED
      BY <2>1, <3>1, <3>3
  <2>4. \A k \in 1 .. Len(Tail(q)) : Tail(q)[k].id \in {0} \cup (done + 1) .. last
    BY <2>1, <2>2 DEF Pending
  <2>5. ASSUME NEW j \in 1 .. Len(Tail(q)), NEW k \in 1 .. Len(Tail(q)), j < k,
               Tail(q)[j].id # 0, Tail(q)[k].id # 0
        PROVE  Tail(q)[j].id < Tail(q)[k].id
    <3>1. j + 1 \in 1 .. Len(q) /\ k + 1 \in 1 .. Len(q) /\ j + 1 < k + 1
      BY <2>1, <2>5
    <3>2. Tail(q)[j] = q[j + 1] /\ Tail(q)[k] = q[k + 1]
      BY <2>1
    <3> QED
      BY <2>5, <3>1, <3>2 DEF Pending
  <2> QED
    BY <2>3, <2>4, <2>5 DEF Pending
<1> QED
  BY <1>2, <1>3

\* A command that is sent is the next one after the last.
LEMMA PendingSent ==
    ASSUME NEW q \in Seq(Messages), NEW done \in Nat, NEW last \in Nat, done <= last,
           Pending(q, done, last),
           NEW m \in Messages, m.id = last + 1
    PROVE  Pending(Append(q, m), done, last + 1)
<1>1. Len(q) \in Nat /\ \A k \in 1 .. Len(q) : q[k].id \in Nat
  BY MessageFacts
<1>2. /\ Len(Append(q, m)) = Len(q) + 1
      /\ \A i \in 1 .. Len(q) : Append(q, m)[i] = q[i]
      /\ Append(q, m)[Len(q) + 1] = m
  BY AppendFacts
<1>3. \A k \in 1 .. Len(q) + 1 : k \in 1 .. Len(q) \/ k = Len(q) + 1
  BY <1>1
<1>4. \A k \in 1 .. Len(q) : k \in 1 .. Len(q) + 1 /\ q[k].id <= last
  BY <1>1 DEF Pending
<1>5. \A k \in 1 .. Len(q) + 1 : Append(q, m)[k].id \in {0} \cup (done + 1) .. last + 1
  BY <1>1, <1>2, <1>3 DEF Pending
<1>6. ASSUME NEW n \in (done + 1) .. last + 1
      PROVE  \E k \in 1 .. Len(q) + 1 : Append(q, m)[k].id = n
  <2>1. CASE n = last + 1
    BY <1>1, <1>2, <2>1
  <2>2. CASE n # last + 1
    <3>1. n \in (done + 1) .. last
      BY <2>2
    <3>2. PICK k \in 1 .. Len(q) : q[k].id = n
      BY <3>1 DEF Pending
    <3> QED
      BY <1>2, <1>4, <3>2
  <2> QED
    BY <2>1, <2>2
<1>7. ASSUME NEW j \in 1 .. Len(q) + 1, NEW k \in 1 .. Len(q) + 1, j < k,
             Append(q, m)[j].id # 0, Append(q, m)[k].id # 0
      PROVE  Append(q, m)[j].id < Append(q, m)[k].id
  <2>1. j \in 1 .. Len(q)
    BY <1>1, <1>7
  <2>2. CASE k \in 1 .. Len(q)
    BY <1>2, <1>7, <2>1, <2>2 DEF Pending
  <2>3. CASE k = Len(q) + 1
    BY <1>1, <1>2, <1>4, <2>1, <2>3
  <2> QED
    BY <1>3, <2>2, <2>3
<1> QED
  BY <1>2, <1>5, <1>6, <1>7 DEF Pending

\* A command that is received is the one after the last that was executed.
LEMMA PendingReceived ==
    ASSUME NEW q \in Seq(Messages), NEW done \in Nat, NEW last \in Nat,
           Pending(q, done, last), q # <<>>, Head(q).id # 0
    PROVE  /\ Head(q).id = done + 1
           /\ done + 1 <= last
           /\ Pending(Tail(q), done + 1, last)
<1>1. /\ Len(q) \in Nat \ {0} /\ Len(Tail(q)) = Len(q) - 1 /\ Head(q) = q[1]
      /\ \A i \in 1 .. Len(q) - 1 : Tail(q)[i] = q[i + 1]
  BY TailFacts
<1>2. \A k \in 1 .. Len(q) : q[k].id \in Nat
  BY MessageFacts
<1>3. 1 \in 1 .. Len(q) /\ q[1].id \in (done + 1) .. last
  BY <1>1 DEF Pending
<1>4. q[1].id = done + 1
  <2>1. PICK k \in 1 .. Len(q) : q[k].id = done + 1
    BY <1>3 DEF Pending
  <2>2. CASE k = 1
    BY <2>1, <2>2
  <2>3. CASE k # 1
    <3>1. 1 < k
      BY <1>1, <2>3
    <3>2. q[1].id < q[k].id
      BY <1>1, <1>3, <2>1, <3>1 DEF Pending
    <3> QED
      BY <1>3, <2>1, <3>2
  <2> QED
    BY <2>2, <2>3
<1>5. \A k \in 1 .. Len(q) - 1 : k + 1 \in 1 .. Len(q) /\ 1 < k + 1
  BY <1>1
<1>6. \A k \in 1 .. Len(q) - 1 : Tail(q)[k].id \in {0} \cup (done + 2) .. last
  <2> SUFFICES ASSUME NEW k \in 1 .. Len(q) - 1, q[k + 1].id # 0
               PROVE  q[k + 1].id \in (done + 2) .. last
    BY <1>1
  <2>1. q[1].id < q[k + 1].id
    BY <1>1, <1>3, <1>5 DEF Pending
  <2>2. q[k + 1].id \in (done + 1) .. last
    BY <1>5 DEF Pending
  <2> QED
    BY <1>4, <2>1, <2>2
<1>7. ASSUME NEW n \in (done + 2) .. last
      PROVE  \E k \in 1 .. Len(q) - 1 : Tail(q)[k].id = n
  <2>1. n \in (done + 1) .. last /\ n # done + 1
    OBVIOUS
  <2>2. PICK k \in 1 .. Len(q) : q[k].id = n
    BY <2>1 DEF Pending
  <2>3. k - 1 \in 1 .. Len(q) - 1 /\ (k - 1) + 1 = k
    BY <1>1, <1>4, <2>1, <2>2
  <2> QED
    BY <1>1, <2>2, <2>3
<1>8. ASSUME NEW j \in 1 .. Len(q) - 1, NEW k \in 1 .. Len(q) - 1, j < k,
             Tail(q)[j].id # 0, Tail(q)[k].id # 0
      PROVE  Tail(q)[j].id < Tail(q)[k].id
  <2>1. j + 1 \in 1 .. Len(q) /\ k + 1 \in 1 .. Len(q) /\ j + 1 < k + 1
    BY <1>1, <1>8
  <2>2. Tail(q)[j] = q[j + 1] /\ Tail(q)[k] = q[k + 1]
    BY <1>1
  <2> QED
    BY <1>8, <2>1, <2>2 DEF Pending
<1>9. (done + 1) + 1 = done + 2 /\ done + 1 <= last
  BY <1>3
<1> QED
  BY <1>1, <1>4, <1>6, <1>7, <1>8, <1>9 DEF Pending
-----------------------------------------------------------------------------
(***************************************************************************)
(* The numbers of a client c in a queue q, and the number it gives next,   *)
(* follow one another without a gap and begin with first.                  *)
(***************************************************************************)
Mine(q, c, k) == k \in {0, Len(q) + 1} \/ q[k].client = c

NumberAt(q, k, next) == IF k = Len(q) + 1 THEN next ELSE q[k].number

NumberAfter(q, k, first) == IF k = 0 THEN first ELSE q[k].number + 1

InSequence(q, c, first, next) ==
    \A j \in 0 .. Len(q), k \in 1 .. Len(q) + 1 :
        /\ j < k /\ Mine(q, c, j) /\ Mine(q, c, k)
        /\ \A l \in j + 1 .. k - 1 : ~Mine(q, c, l)
        => NumberAt(q, k, next) = NumberAfter(q, j, first)

\* A message of the client with the number it has to give leaves it the number after
\* that; a message of another client changes nothing.
LEMMA InSequenceSent ==
    ASSUME NEW q \in Seq(Messages), NEW c \in Client, NEW first \in Nat, NEW next \in Nat,
           InSequence(q, c, first, next), NEW m \in Messages
    PROVE  /\ m.client # c => InSequence(Append(q, m), c, first, next)
           /\ m.client = c /\ m.number = next => InSequence(Append(q, m), c, first, next + 1)
<1>1. Len(q) \in Nat
  BY SeqFacts
<1>2. /\ Len(Append(q, m)) = Len(q) + 1
      /\ \A i \in 1 .. Len(q) : Append(q, m)[i] = q[i]
      /\ Append(q, m)[Len(q) + 1] = m
  BY AppendFacts
<1> DEFINE n == Len(q)
           longer == Append(q, m)
<1>3. \A l \in 0 .. n : Mine(longer, c, l) <=> Mine(q, c, l)
  BY <1>1, <1>2 DEF Mine
<1>4. Mine(q, c, n + 1) /\ Mine(longer, c, n + 2) /\ (Mine(longer, c, n + 1) <=> m.client = c)
  BY <1>1, <1>2 DEF Mine
<1>5. \A j \in 0 .. n : NumberAfter(longer, j, first) = NumberAfter(q, j, first)
  BY <1>1, <1>2 DEF NumberAfter
<1>6. ASSUME NEW new \in Nat, NEW j \in 0 .. n, NEW k \in 1 .. n, j < k,
             Mine(longer, c, j), Mine(longer, c, k),
             \A l \in j + 1 .. k - 1 : ~Mine(longer, c, l)
      PROVE  NumberAt(longer, k, new) = NumberAfter(longer, j, first)
  <2>1. Mine(q, c, j) /\ Mine(q, c, k) /\ k \in 1 .. n + 1
    BY <1>1, <1>3, <1>6
  <2>2. \A l \in j + 1 .. k - 1 : ~Mine(q, c, l)
    BY <1>1, <1>3, <1>6
  <2>3. NumberAt(q, k, next) = NumberAfter(q, j, first)
    BY <1>6, <2>1, <2>2 DEF InSequence
  <2>4. NumberAt(longer, k, new) = NumberAt(q, k, next)
    BY <1>1, <1>2 DEF NumberAt
  <2> QED
    BY <1>5, <2>3, <2>4
<1>7. ASSUME NEW j \in 0 .. n, Mine(longer, c, j),
             \A l \in j + 1 .. n : ~Mine(longer, c, l)
      PROVE  next = NumberAfter(longer, j, first)
  <2>1. Mine(q, c, j) /\ \A l \in j + 1 .. (n + 1) - 1 : ~Mine(q, c, l)
    BY <1>1, <1>3, <1>7
  <2>2. NumberAt(q, n + 1, next) = NumberAfter(q, j, first)
    BY <1>1, <1>4, <2>1 DEF InSequence
  <2> QED
    BY <1>5, <2>2 DEF NumberAt
<1>8. ASSUME m.client # c PROVE InSequence(longer, c, first, next)
  <2> SUFFICES ASSUME NEW j \in 0 .. n + 1, NEW k \in 1 .. n + 2, j < k,
                      Mine(longer, c, j), Mine(longer, c, k),
                      \A l \in j + 1 .. k - 1 : ~Mine(longer, c, l)
               PROVE  NumberAt(longer, k, next) = NumberAfter(longer, j, first)
    BY <1>1, <1>2 DEF InSequence
  <2>1. j \in 0 .. n /\ (k \in 1 .. n \/ k = n + 2)
    BY <1>1, <1>4, <1>8
  <2>2. CASE k = n + 2
    <3>1. \A l \in j + 1 .. n : ~Mine(longer, c, l)
      BY <1>1, <2>2
    <3> QED
      BY <1>2, <1>7, <2>1, <2>2, <3>1 DEF NumberAt
  <2> QED
    BY <1>6, <2>1, <2>2
<1>9. ASSUME m.client = c, m.number = next PROVE InSequence(longer, c, first, next + 1)
  <2> SUFFICES ASSUME NEW j \in 0 .. n + 1, NEW k \in 1 .. n + 2, j < k,
                      Mine(longer, c, j), Mine(longer, c, k),
                      \A l \in j + 1 .. k - 1 : ~Mine(longer, c, l)
               PROVE  NumberAt(longer, k, next + 1) = NumberAfter(longer, j, first)
    BY <1>1, <1>2 DEF InSequence
  <2>1. CASE k \in 1 .. n
    BY <1>1, <1>6, <2>1
  <2>2. CASE k = n + 1
    <3>1. \A l \in j + 1 .. n : ~Mine(longer, c, l)
      BY <1>1, <2>2
    <3>2. j \in 0 .. n
      BY <1>1, <2>2
    <3>3. next = NumberAfter(longer, j, first)
      BY <1>7, <3>1, <3>2
    <3> QED
      BY <1>1, <1>2, <1>9, <2>2, <3>3 DEF NumberAt
  <2>3. CASE k = n + 2
    <3>1. j = n + 1
      BY <1>1, <1>4, <1>9, <2>3
    <3> QED
      BY <1>1, <1>2, <1>9, <2>3, <3>1 DEF NumberAt, NumberAfter
  <2> QED
    BY <1>1, <2>1, <2>2, <2>3
<1> QED
  BY <1>8, <1>9

\* The first message of the client has the number that is expected; a message of
\* another client changes nothing.
LEMMA InSequenceReceived ==
    ASSUME NEW q \in Seq(Messages), NEW c \in Client, NEW first \in Nat, NEW next \in Nat,
           InSequence(q, c, first, next), q # <<>>
    PROVE  /\ Head(q).client # c => InSequence(Tail(q), c, first, next)
           /\ Head(q).client = c => /\ Head(q).number = first
                                    /\ InSequence(Tail(q), c, first + 1, next)
<1> DEFINE n == Len(q)
           rest == Tail(q)
<1>1. /\ n \in Nat \ {0} /\ Len(rest) = n - 1 /\ Head(q) = q[1]
      /\ \A i \in 1 .. n - 1 : rest[i] = q[i + 1]
  BY TailFacts
<1> HIDE DEF rest
<1>2. ASSUME NEW l \in 1 .. n PROVE Mine(rest, c, l) <=> Mine(q, c, l + 1)
  <2>1. CASE l = n
    BY <1>1, <2>1 DEF Mine
  <2>2. CASE l # n
    <3>1. l \in 1 .. n - 1 /\ l # 0 /\ l # Len(rest) + 1 /\ l + 1 # 0 /\ l + 1 # n + 1
      BY <1>1, <2>2
    <3>2. rest[l] = q[l + 1]
      BY <1>1, <3>1
    <3> HIDE DEF n
    <3>3. Mine(rest, c, l) <=> rest[l].client = c
      BY <3>1 DEF Mine
    <3>4. Mine(q, c, l + 1) <=> q[l + 1].client = c
      BY <3>1 DEF Mine, n
    <3> QED
      BY <3>2, <3>3, <3>4
  <2> QED
    BY <2>1, <2>2
<1>3. ASSUME NEW k \in 1 .. n PROVE NumberAt(rest, k, next) = NumberAt(q, k + 1, next)
  <2>1. k = Len(rest) + 1 <=> k + 1 = Len(q) + 1
    BY <1>1
  <2>2. k # Len(rest) + 1 => rest[k] = q[k + 1]
    BY <1>1
  <2> QED
    BY <2>1, <2>2 DEF NumberAt
<1>4. ASSUME NEW new \in Nat, NEW j \in 1 .. n - 1, NEW k \in 1 .. n, j < k,
             Mine(rest, c, j), Mine(rest, c, k),
             \A l \in j + 1 .. k - 1 : ~Mine(rest, c, l)
      PROVE  NumberAt(rest, k, next) = NumberAfter(rest, j, new)
  <2>1. /\ j + 1 \in 0 .. n /\ k + 1 \in 1 .. n + 1 /\ j + 1 < k + 1
        /\ Mine(q, c, j + 1) /\ Mine(q, c, k + 1)
    BY <1>1, <1>2, <1>4
  <2>2. ASSUME NEW l \in (j + 1) + 1 .. (k + 1) - 1 PROVE ~Mine(q, c, l)
    <3>1. l - 1 \in j + 1 .. k - 1 /\ l - 1 \in 1 .. n /\ (l - 1) + 1 = l
      BY <1>1
    <3> QED
      BY <1>2, <1>4, <3>1
  <2>3. NumberAt(q, k + 1, next) = NumberAfter(q, j + 1, first)
    BY <2>1, <2>2 DEF InSequence
  <2>4. NumberAfter(rest, j, new) = NumberAfter(q, j + 1, first)
    BY <1>1 DEF NumberAfter
  <2> QED
    BY <1>3, <2>3, <2>4
<1>5. ASSUME Head(q).client # c PROVE InSequence(rest, c, first, next)
  <2> SUFFICES ASSUME NEW j \in 0 .. n - 1, NEW k \in 1 .. n, j < k,
                      Mine(rest, c, j), Mine(rest, c, k),
                      \A l \in j + 1 .. k - 1 : ~Mine(rest, c, l)
               PROVE  NumberAt(rest, k, next) = NumberAfter(rest, j, first)
    BY <1>1 DEF InSequence
  <2>1. CASE j = 0
    <3>a. Mine(q, c, 0) /\ Mine(q, c, k + 1)
      BY <1>2 DEF Mine
    <3>1. Mine(q, c, 0) /\ Mine(q, c, k + 1) /\ 0 \in 0 .. n /\ k + 1 \in 1 .. n + 1 /\ 0 < k + 1
      BY <1>1, <3>a
    <3>2. ASSUME NEW l \in 0 + 1 .. (k + 1) - 1 PROVE ~Mine(q, c, l)
      <4>1. CASE l = 1
        <5>1. 1 \notin {0, n + 1} /\ q[1].client # c
          BY <1>1, <1>5
        <5> QED
          BY <4>1, <5>1 DEF Mine
      <4>2. CASE l # 1
        <5>1. l - 1 \in j + 1 .. k - 1 /\ l - 1 \in 1 .. n /\ (l - 1) + 1 = l
          BY <1>1, <2>1, <4>2
        <5> QED
          BY <1>2, <5>1
      <4> QED
        BY <4>1, <4>2
    <3>3. NumberAt(q, k + 1, next) = NumberAfter(q, 0, first)
      BY <3>1, <3>2 DEF InSequence
    <3> QED
      BY <1>3, <2>1, <3>3 DEF NumberAfter
  <2>2. CASE j # 0
    <3>1. j \in 1 .. n - 1
      BY <1>1, <2>2
    <3> QED
      BY <1>4, <3>1
  <2> QED
    BY <2>1, <2>2
<1>6. ASSUME Head(q).client = c PROVE q[1].number = first
  <2>1. /\ Mine(q, c, 0) /\ Mine(q, c, 1) /\ 0 \in 0 .. n /\ 1 \in 1 .. n + 1
        /\ \A l \in 0 + 1 .. 1 - 1 : ~Mine(q, c, l)
    BY <1>1, <1>6 DEF Mine
  <2>2. NumberAt(q, 1, next) = NumberAfter(q, 0, first)
    BY <2>1 DEF InSequence
  <2> QED
    BY <1>1, <2>2 DEF NumberAt, NumberAfter
<1>7. ASSUME Head(q).client = c PROVE InSequence(rest, c, first + 1, next)
  <2> SUFFICES ASSUME NEW j \in 0 .. n - 1, NEW k \in 1 .. n, j < k,
                      Mine(rest, c, j), Mine(rest, c, k),
                      \A l \in j + 1 .. k - 1 : ~Mine(rest, c, l)
               PROVE  NumberAt(rest, k, next) = NumberAfter(rest, j, first + 1)
    BY <1>1 DEF InSequence
  <2>1. CASE j = 0
    <3>a. Mine(q, c, 1)
      BY <1>1, <1>7 DEF Mine
    <3>b. Mine(q, c, k + 1)
      BY <1>2
    <3>1. Mine(q, c, 1) /\ Mine(q, c, k + 1) /\ 1 \in 0 .. n /\ k + 1 \in 1 .. n + 1 /\ 1 < k + 1
      BY <1>1, <3>a, <3>b
    <3>2. ASSUME NEW l \in 1 + 1 .. (k + 1) - 1 PROVE ~Mine(q, c, l)
      <4>1. l - 1 \in j + 1 .. k - 1 /\ l - 1 \in 1 .. n /\ (l - 1) + 1 = l
        BY <1>1, <2>1
      <4> QED
        BY <1>2, <4>1
    <3>3. NumberAt(q, k + 1, next) = NumberAfter(q, 1, first)
      BY <3>1, <3>2 DEF InSequence
    <3>4. NumberAfter(q, 1, first) = first + 1
      BY <1>6, <1>7 DEF NumberAfter
    <3> QED
      BY <1>3, <2>1, <3>3, <3>4 DEF NumberAfter
  <2>2. CASE j # 0
    <3>1. j \in 1 .. n - 1 /\ first + 1 \in Nat
      BY <1>1, <2>2
    <3> QED
      BY <1>4, <3>1
  <2> QED
    BY <2>1, <2>2
<1> QED
  BY <1>1, <1>5, <1>6, <1>7 DEF rest
-----------------------------------------------------------------------------
(***************************************************************************)
(* The inductive invariant.  The commands that are executed and those in   *)
(* the queue are all that were accepted; no time the server has stored is  *)
(* after the one it goes by; and the numbers of a client that sends from   *)
(* its main thread only are in sequence from the one the server expects,   *)
(* through the queue, to the one the client gives next.                    *)
(***************************************************************************)
Marked(q, old) ==
    \A k \in 1 .. Len(q) : q[k].id # 0 <=> q[k].command /\ q[k].client \notin old

InOrder ==
    /\ \A k \in 1 .. Len(executed) : executed[k] = k
    /\ Len(executed) <= accepted
    /\ Pending(queue, Len(executed), accepted)
    /\ Marked(queue, outdated)

Timely ==
    /\ clock <= now
    /\ \A c \in Client : states[c].heartbeat <= lastHeartbeat

Due(c) == nextNumber[c] + IF call[c]["main"].at \in {"sent", "loaded"} THEN 1 ELSE 0

Expected(c) == IF states[c].known THEN states[c].number + 1 ELSE 0

Orderly(c) ==
    /\ call[c]["main"].at # "idle" => call[c]["main"].number = nextNumber[c]
    /\ c \notin outdated => InSequence(queue, c, Expected(c), Due(c))
    /\ c \notin warned

ConsoleInv == TypeOK /\ InOrder /\ Timely /\ \A c \in Client \ Beating : Orderly(c)

\* The calls of a client's threads have numbers that are natural.
LEMMA CallFacts ==
    ASSUME TypeOK, NEW c \in Client, NEW t \in ThreadsOf(c)
    PROVE  /\ t \in Thread
           /\ c \notin Beating => t = "main"
           /\ call[c] \in [Thread -> Call] /\ call[c][t] \in Call
           /\ call[c][t].number \in Nat /\ call[c][t].command \in BOOLEAN
           /\ nextNumber[c] \in Nat /\ sends[c] \in Nat
<1>1. t \in Thread /\ (c \notin Beating => t = "main")
  BY DEF ThreadsOf, Thread
<1>2. call[c] \in [Thread -> Call] /\ call[c][t] \in Call
  BY <1>1 DEF TypeOK
<1>3. nextNumber[c] \in Nat /\ sends[c] \in Nat
  BY DEF TypeOK
<1> QED
  BY <1>1, <1>2, <1>3 DEF Call

\* One thread gets on with its call, and the others do not.
LEMMA CallChanges ==
    ASSUME TypeOK, NEW c \in Client, NEW t \in Thread, NEW new \in Call,
           call' = [call EXCEPT ![c][t] = new]
    PROVE  /\ call' \in [Client -> [Thread -> Call]]
           /\ call'[c][t] = new
           /\ \A d \in Client, u \in Thread :
                d # c \/ u # t => call'[d][u] = call[d][u]
<1>1. call \in [Client -> [Thread -> Call]]
  BY DEF TypeOK
<1>2. [call[c] EXCEPT ![t] = new] \in [Thread -> Call]
  BY <1>1
<1>3. call' = [call EXCEPT ![c] = [call[c] EXCEPT ![t] = new]]
  BY <1>1
<1> QED
  BY <1>1, <1>2, <1>3

\* What a step of a thread does to the state of its call, and what it leaves alone.
LEMMA SendChanges ==
    ASSUME TypeOK, NEW c \in Client, NEW t \in ThreadsOf(c), Send(c, t)
    PROVE  /\ call' \in [Client -> [Thread -> Call]]
           /\ \A d \in Client, u \in Thread :
                d # c \/ u # t => call'[d][u] = call[d][u]
           /\ UNCHANGED <<outdated, serverVars, now>>
<1> DEFINE Becomes(new) == new \in Call /\ call' = [call EXCEPT ![c][t] = new]
<1>1. /\ t \in Thread /\ call[c] \in [Thread -> Call] /\ call[c][t] \in Call
      /\ call[c][t].number \in Nat /\ nextNumber[c] \in Nat
      /\ call \in [Client -> [Thread -> Call]]
  BY CallFacts DEF TypeOK
<1>2. CASE Compose(c, t)
  <2>1. PICK command \in BOOLEAN :
          call' = [call EXCEPT ![c][t] = [at |-> "composed", number |-> nextNumber[c],
                                          command |-> command]]
    BY <1>2, Zenon DEF Compose
  <2>2. [at |-> "composed", number |-> nextNumber[c], command |-> command] \in Call
    BY <1>1 DEF Call
  <2>3. Becomes([at |-> "composed", number |-> nextNumber[c], command |-> command])
    BY <2>1, <2>2
  <2>4. UNCHANGED <<outdated, serverVars, now>>
    BY <1>2 DEF Compose
  <2> QED
    BY <1>1, <2>3, <2>4, CallChanges
<1>3. CASE TrySend(c, t)
  <2>1. Becomes([call[c][t] EXCEPT !.at = "sent"])
    BY <1>1, <1>3 DEF TrySend, Call
  <2>2. UNCHANGED <<outdated, serverVars, now>>
    BY <1>3 DEF TrySend
  <2> QED
    BY <1>1, <2>1, <2>2, CallChanges
<1>4. CASE Fail(c, t)
  <2>1. Becomes(Idle)
    BY <1>4 DEF Fail, Idle, Call
  <2>2. UNCHANGED <<outdated, serverVars, now>>
    BY <1>4 DEF Fail
  <2> QED
    BY <1>1, <2>1, <2>2, CallChanges
<1>5. CASE LoadNumber(c, t)
  <2>1. Becomes([call[c][t] EXCEPT !.at = "loaded", !.number = nextNumber[c]])
    BY <1>1, <1>5 DEF LoadNumber, Call
  <2>2. UNCHANGED <<outdated, serverVars, now>>
    BY <1>5 DEF LoadNumber
  <2> QED
    BY <1>1, <2>1, <2>2, CallChanges
<1>6. CASE StoreNumber(c, t)
  <2>1. Becomes(Idle)
    BY <1>6 DEF StoreNumber, Idle, Call
  <2>2. UNCHANGED <<outdated, serverVars, now>>
    BY <1>6 DEF StoreNumber
  <2> QED
    BY <1>1, <2>1, <2>2, CallChanges
<1> QED
  BY <1>2, <1>3, <1>4, <1>5, <1>6 DEF Send

\* What the server does with the message m in front of the queue.
LEMMA ReceiveChanges ==
    ASSUME TypeOK, Receive, NEW m, m = Head(queue)
    PROVE  /\ queue # <<>> /\ m \in Messages /\ queue' = Tail(queue)
           /\ m.client \in Client \ outdated /\ m.number \in Nat /\ m.id \in Nat
           /\ lastHeartbeat' \in {clock, now} /\ clock' \in {lastHeartbeat', now}
           /\ states' = [states EXCEPT ![m.client] =
                [known |-> TRUE,
                 number |-> IF states[m.client].known THEN m.number ELSE 0,
                 heartbeat |-> lastHeartbeat']]
           /\ warned' = IF Unexpected(m) THEN warned \union {m.client} ELSE warned
           /\ executed' = IF m.command THEN Append(executed, m.id) ELSE executed
           /\ connected' = (connected \/ ~states[m.client].known)
           /\ UNCHANGED <<clientVars, cycle, now, accepted>>
<1>1. queue # <<>> /\ queue \in Seq(Messages)
  BY DEF Receive, TypeOK
<1>2. m \in Messages
  BY <1>1, TailFacts
<1>3. m.client \in Client /\ m.number \in Nat /\ m.id \in Nat
  BY <1>2 DEF Messages
<1>4. PICK time \in TimeAt(m) :
        /\ clock' \in {time, now}
        /\ lastHeartbeat' = time
        /\ states' = [states EXCEPT ![m.client] =
             [known |-> TRUE,
              number |-> IF @.known THEN m.number ELSE 0,
              heartbeat |-> time]]
  BY DEF Receive, Heard
<1>5. time \in {clock, now}
  BY DEF TimeAt
<1>6. states \in [Client -> [known : BOOLEAN, number : Nat, heartbeat : Nat]]
  BY DEF TypeOK
<1>7. states' = [states EXCEPT ![m.client] =
        [known |-> TRUE,
         number |-> IF states[m.client].known THEN m.number ELSE 0,
         heartbeat |-> lastHeartbeat']]
  BY <1>3, <1>4, <1>6
<1>8. /\ queue' = Tail(queue) /\ m.client \notin outdated
      /\ warned' = IF Unexpected(m) THEN warned \union {m.client} ELSE warned
      /\ executed' = IF m.command THEN Append(executed, m.id) ELSE executed
      /\ UNCHANGED <<clientVars, cycle, now, accepted>>
  BY DEF Receive, Rest, IsExecuted
<1>9. connected' = (connected \/ ~states[m.client].known)
  BY DEF Receive
<1> QED
  BY <1>1, <1>2, <1>3, <1>4, <1>5, <1>7, <1>8, <1>9

\* Type correctness is kept by a step of a client.
LEMMA SendKeepsType ==
    ASSUME TypeOK, NEW c \in Client, NEW t \in ThreadsOf(c), Send(c, t)
    PROVE  TypeOK'
<1>1. /\ call' \in [Client -> [Thread -> Call]]
      /\ UNCHANGED <<outdated, serverVars, now>>
  BY SendChanges
<1>2. /\ call[c][t].number \in Nat /\ call[c][t].command \in BOOLEAN
      /\ nextNumber[c] \in Nat /\ sends[c] \in Nat
  BY CallFacts
<1>3. queue' \in Seq(Messages) /\ Len(queue') <= MaxMessages /\ accepted' \in Nat
  <2>1. CASE TrySend(c, t)
    <3>1. Message(c, t) \in Messages
      BY <1>2 DEF Message, Messages, NextId, TypeOK
    <3>2. queue \in Seq(Messages) /\ queue' = Append(queue, Message(c, t)) /\ Len(queue) < MaxMessages
      BY <2>1 DEF TrySend, TypeOK
    <3>3. queue' \in Seq(Messages) /\ Len(queue') = Len(queue) + 1 /\ Len(queue) \in Nat
      BY <3>1, <3>2, AppendFacts, SeqFacts
    <3>4. accepted' \in Nat
      BY <2>1 DEF TrySend, TypeOK
    <3> QED
      BY <3>2, <3>3, <3>4, ConstantsAssumption DEF ConstantsAssumption
  <2>2. CASE ~TrySend(c, t)
    BY <2>2 DEF Send, Compose, Fail, LoadNumber, StoreNumber, TypeOK
  <2> QED
    BY <2>1, <2>2
<1>4. nextNumber' \in [Client -> Nat]
  <2>1. nextNumber' = nextNumber \/ nextNumber' = [nextNumber EXCEPT ![c] = call[c][t].number + 1]
    <3>1. CASE Compose(c, t)
      BY <3>1 DEF Compose
    <3>2. CASE TrySend(c, t)
      BY <3>2 DEF TrySend
    <3>3. CASE Fail(c, t)
      BY <3>3 DEF Fail
    <3>4. CASE LoadNumber(c, t)
      BY <3>4 DEF LoadNumber
    <3>5. CASE StoreNumber(c, t)
      BY <3>5 DEF StoreNumber
    <3> QED
      BY <3>1, <3>2, <3>3, <3>4, <3>5 DEF Send
  <2>2. nextNumber \in [Client -> Nat]
    BY DEF TypeOK
  <2> QED
    BY <1>2, <2>1, <2>2
<1>5. sends' \in [Client -> Nat]
  <2>1. sends' = sends \/ sends' = [sends EXCEPT ![c] = @ + 1]
    <3>1. CASE Compose(c, t)
      BY <3>1 DEF Compose
    <3>2. CASE TrySend(c, t)
      BY <3>2 DEF TrySend
    <3>3. CASE Fail(c, t)
      BY <3>3 DEF Fail
    <3>4. CASE LoadNumber(c, t)
      BY <3>4 DEF LoadNumber
    <3>5. CASE StoreNumber(c, t)
      BY <3>5 DEF StoreNumber
    <3> QED
      BY <3>1, <3>2, <3>3, <3>4, <3>5 DEF Send
  <2>2. sends \in [Client -> Nat]
    BY DEF TypeOK
  <2> QED
    BY <1>2, <2>1, <2>2
<1> QED
  BY <1>1, <1>3, <1>4, <1>5 DEF TypeOK, serverVars

\* Type correctness, and that no stored time is late, are kept by the server.
LEMMA ServerKeepsType ==
    ASSUME TypeOK, Timely, Server
    PROVE  TypeOK' /\ Timely'
<1>1. CASE Receive
  <2>1. PICK m : m = Head(queue)
    OBVIOUS
  <2>2. /\ queue # <<>> /\ queue' = Tail(queue)
        /\ m.client \in Client /\ m.number \in Nat /\ m.id \in Nat
        /\ lastHeartbeat' \in {clock, now} /\ clock' \in {lastHeartbeat', now}
        /\ states' = [states EXCEPT ![m.client] =
             [known |-> TRUE,
              number |-> IF states[m.client].known THEN m.number ELSE 0,
              heartbeat |-> lastHeartbeat']]
        /\ warned' = IF Unexpected(m) THEN warned \union {m.client} ELSE warned
        /\ executed' = IF m.command THEN Append(executed, m.id) ELSE executed
        /\ UNCHANGED <<clientVars, cycle, now, accepted>>
    BY <1>1, <2>1, ReceiveChanges
  <2>3. connected' \in BOOLEAN
    BY <1>1 DEF Receive
  <2>4. queue \in Seq(Messages) /\ Len(queue) <= MaxMessages /\ executed \in Seq(Nat)
    BY DEF TypeOK
  <2>5. queue' \in Seq(Messages) /\ Len(queue') <= MaxMessages
    <3>1. queue' \in Seq(Messages) /\ Len(queue') = Len(queue) - 1 /\ Len(queue) \in Nat
      BY <2>2, <2>4, TailFacts
    <3> QED
      BY <2>4, <3>1, ConstantsAssumption DEF ConstantsAssumption
  <2>6. executed' \in Seq(Nat)
    BY <2>2, <2>4, AppendFacts
  <2>7. /\ lastHeartbeat' \in Nat /\ clock' \in Nat /\ lastHeartbeat' <= clock'
        /\ clock' <= now' /\ lastHeartbeat <= lastHeartbeat'
    BY <2>2 DEF TypeOK, Timely
  <2>8. states' \in [Client -> [known : BOOLEAN, number : Nat, heartbeat : Nat]]
    BY <2>2, <2>7 DEF TypeOK
  <2>9. warned' \subseteq Client
    BY <2>2 DEF TypeOK
  <2>10. TypeOK'
    BY <2>2, <2>3, <2>5, <2>6, <2>7, <2>8, <2>9 DEF TypeOK, clientVars
  <2>11. ASSUME NEW c \in Client PROVE states'[c].heartbeat <= lastHeartbeat'
    <3>1. states[c] \in [known : BOOLEAN, number : Nat, heartbeat : Nat]
      BY DEF TypeOK
    <3>2. CASE c = m.client
      BY <2>2, <2>7, <3>2 DEF TypeOK
    <3>3. CASE c # m.client
      <4>1. states'[c] = states[c]
        BY <2>2, <3>3 DEF TypeOK
      <4>2. states[c].heartbeat <= lastHeartbeat /\ states[c].heartbeat \in Nat
        BY <3>1 DEF Timely
      <4>3. lastHeartbeat \in Nat /\ lastHeartbeat' \in Nat
        BY <2>7 DEF TypeOK
      <4> QED
        BY <2>7, <4>1, <4>2, <4>3
    <3> QED
      BY <3>2, <3>3
  <2> QED
    BY <2>7, <2>10, <2>11 DEF Timely
<1>2. CASE ReceiveOutdated
  <2>1. queue \in Seq(Messages) /\ Len(queue) <= MaxMessages /\ queue # <<>> /\ queue' = Tail(queue)
    BY <1>2 DEF TypeOK, ReceiveOutdated, Rest
  <2>2. queue' \in Seq(Messages) /\ Len(queue') = Len(queue) - 1 /\ Len(queue) \in Nat
    BY <2>1, TailFacts
  <2>3. Len(queue') <= MaxMessages
    BY <2>1, <2>2, ConstantsAssumption DEF ConstantsAssumption
  <2>4. /\ cycle' = "update"
        /\ UNCHANGED <<clientVars, clock, connected, lastHeartbeat, states, executed,
                       warned, now, accepted>>
    BY <1>2 DEF ReceiveOutdated
  <2> QED
    BY <2>2, <2>3, <2>4 DEF TypeOK, Timely, clientVars
<1>3. CASE ReceiveNothing
  BY <1>3 DEF ReceiveNothing, TypeOK, Timely, clientVars
<1>4. CASE Update
  <2>1. connected' \in BOOLEAN
    BY <1>4 DEF Update
  <2>2. /\ cycle' = "receive" /\ clock' = now
        /\ UNCHANGED <<clientVars, queue, lastHeartbeat, states, executed, warned, now,
                       accepted>>
    BY <1>4 DEF Update
  <2> QED
    BY <2>1, <2>2 DEF TypeOK, Timely, clientVars
<1> QED
  BY <1>1, <1>2, <1>3, <1>4 DEF Server

\* Every command that is accepted is in order behind the others, and executed when
\* it is at the front.
LEMMA SendKeepsOrder ==
    ASSUME TypeOK, InOrder, NEW c \in Client, NEW t \in ThreadsOf(c), Send(c, t)
    PROVE  InOrder'
<1>1. UNCHANGED <<outdated, executed>>
  BY SendChanges DEF serverVars
<1>2. CASE ~TrySend(c, t)
  <2>1. UNCHANGED <<queue, accepted>>
    BY <1>2 DEF Send, Compose, Fail, LoadNumber, StoreNumber
  <2> QED
    BY <1>1, <2>1 DEF InOrder
<1>3. CASE TrySend(c, t)
  <2>1. PICK m : m = Message(c, t)
    OBVIOUS
  <2>2. /\ queue' = Append(queue, m) /\ queue \in Seq(Messages)
        /\ accepted' = IF NextId(c, t) = 0 THEN accepted ELSE accepted + 1
    BY <1>3, <2>1 DEF TrySend, TypeOK
  <2>3. call[c][t].number \in Nat /\ call[c][t].command \in BOOLEAN
    BY CallFacts
  <2>4. accepted \in Nat /\ Len(executed) \in Nat /\ Len(executed) <= accepted
    BY SeqFacts DEF TypeOK, InOrder
  <2>5. m \in Messages
    BY <2>1, <2>3, <2>4 DEF Message, Messages, NextId
  <2>6. /\ m.id = NextId(c, t) /\ m.command = call[c][t].command /\ m.client = c
        /\ (m.id # 0 => m.id = accepted + 1)
        /\ (m.id # 0 <=> m.command /\ m.client \notin outdated)
    BY <2>1, <2>3, <2>4 DEF Message, NextId
  <2>7. Pending(queue', Len(executed), accepted')
    <3>1. CASE m.id = 0
      BY <2>2, <2>4, <2>5, <2>6, <3>1, PendingSkip DEF InOrder
    <3>2. CASE m.id # 0
      BY <2>2, <2>4, <2>5, <2>6, <3>2, PendingSent DEF InOrder
    <3> QED
      BY <3>1, <3>2
  <2>8. Marked(queue', outdated)
    <3>1. /\ Len(queue') = Len(queue) + 1 /\ Len(queue) \in Nat
          /\ \A k \in 1 .. Len(queue) : queue'[k] = queue[k]
          /\ queue'[Len(queue) + 1] = m
      BY <2>2, <2>5, AppendFacts, SeqFacts
    <3>2. \A k \in 1 .. Len(queue) + 1 : k \in 1 .. Len(queue) \/ k = Len(queue) + 1
      BY <3>1
    <3> QED
      BY <2>6, <3>1, <3>2 DEF Marked, InOrder
  <2>9. Len(executed) <= accepted'
    BY <2>2, <2>4
  <2> QED
    BY <1>1, <2>7, <2>8, <2>9 DEF InOrder
<1> QED
  BY <1>2, <1>3

\* What is left of a queue is marked as it was.
LEMMA MarkedRest ==
    ASSUME NEW q \in Seq(Messages), q # <<>>, Marked(q, outdated)
    PROVE  /\ Marked(Tail(q), outdated)
           /\ Head(q).id # 0 <=> Head(q).command /\ Head(q).client \notin outdated
<1>1. /\ Len(q) \in Nat \ {0} /\ Len(Tail(q)) = Len(q) - 1 /\ Head(q) = q[1]
      /\ \A i \in 1 .. Len(q) - 1 : Tail(q)[i] = q[i + 1]
  BY TailFacts
<1>2. 1 \in 1 .. Len(q) /\ \A k \in 1 .. Len(q) - 1 : k + 1 \in 1 .. Len(q)
  BY <1>1
<1> QED
  BY <1>1, <1>2 DEF Marked

\* The server executes the next command, or takes a message that is none.
LEMMA ServerKeepsOrder ==
    ASSUME TypeOK, InOrder, Server
    PROVE  InOrder'
<1>1. /\ queue \in Seq(Messages) /\ accepted \in Nat /\ executed \in Seq(Nat)
      /\ Len(executed) \in Nat
  BY SeqFacts DEF TypeOK
<1>2. Len(executed) <= accepted
  BY DEF InOrder
<1>3. CASE Receive
  <2>1. PICK m : m = Head(queue)
    OBVIOUS
  <2>2. /\ queue # <<>> /\ queue' = Tail(queue) /\ m.client \notin outdated /\ m.id \in Nat
        /\ executed' = IF m.command THEN Append(executed, m.id) ELSE executed
        /\ UNCHANGED <<outdated, accepted>>
    BY <1>3, <2>1, ReceiveChanges DEF clientVars
  <2>3. Marked(queue', outdated) /\ (m.id # 0 <=> m.command)
    BY <1>1, <2>1, <2>2, MarkedRest DEF InOrder
  <2>4. CASE m.command
    <3>1. /\ m.id = Len(executed) + 1 /\ Len(executed) + 1 <= accepted
          /\ Pending(queue', Len(executed) + 1, accepted)
      BY <1>1, <2>1, <2>2, <2>3, <2>4, PendingReceived DEF InOrder
    <3>2. /\ Len(executed') = Len(executed) + 1
          /\ \A k \in 1 .. Len(executed) : executed'[k] = executed[k]
          /\ executed'[Len(executed) + 1] = m.id
      BY <1>1, <2>2, <2>4, AppendFacts
    <3>3. \A k \in 1 .. Len(executed') : executed'[k] = k
      <4>1. \A k \in 1 .. Len(executed) + 1 : k \in 1 .. Len(executed) \/ k = Len(executed) + 1
        BY <1>1
      <4> QED
        BY <3>1, <3>2, <4>1 DEF InOrder
    <3>4. Len(executed') <= accepted'
      BY <2>2, <3>1, <3>2
    <3>5. Pending(queue', Len(executed'), accepted')
      BY <2>2, <3>1, <3>2
    <3>6. Marked(queue', outdated')
      BY <2>2, <2>3
    <3> QED
      BY <3>3, <3>4, <3>5, <3>6 DEF InOrder
  <2>5. CASE ~m.command
    <3>1. Pending(queue', Len(executed), accepted)
      BY <1>1, <2>1, <2>2, <2>3, <2>5, PendingSkip DEF InOrder
    <3>2. executed' = executed
      BY <2>2, <2>5
    <3> QED
      BY <2>2, <2>3, <3>1, <3>2 DEF InOrder
  <2> QED
    BY <2>4, <2>5
<1>4. CASE ReceiveOutdated
  <2>1. /\ queue # <<>> /\ queue' = Tail(queue) /\ Head(queue).client \in outdated
        /\ UNCHANGED <<outdated, executed, accepted>>
    BY <1>4 DEF ReceiveOutdated, Rest, clientVars
  <2>2. Marked(queue', outdated) /\ Head(queue).id = 0
    BY <1>1, <2>1, MarkedRest DEF InOrder
  <2>3. Pending(queue', Len(executed), accepted)
    BY <1>1, <2>1, <2>2, PendingSkip DEF InOrder
  <2> QED
    BY <2>1, <2>2, <2>3 DEF InOrder
<1>5. CASE ReceiveNothing
  BY <1>5 DEF ReceiveNothing, InOrder, clientVars
<1>6. CASE Update
  BY <1>6 DEF Update, InOrder, clientVars
<1> QED
  BY <1>3, <1>4, <1>5, <1>6 DEF Server

\* A client that has no heartbeat thread gives its numbers in sequence, and only
\* those of the messages that the queue has taken.
LEMMA SendKeepsNumbers ==
    ASSUME TypeOK, NEW c \in Client, NEW t \in ThreadsOf(c), Send(c, t),
           NEW d \in Client \ Beating, Orderly(d)
    PROVE  Orderly(d)'
<1>1. /\ UNCHANGED <<outdated, states, warned>>
      /\ \A e \in Client, u \in Thread : e # c \/ u # t => call'[e][u] = call[e][u]
  BY SendChanges DEF serverVars
<1>2. /\ t \in Thread /\ call[c] \in [Thread -> Call] /\ call[c][t] \in Call
      /\ call \in [Client -> [Thread -> Call]]
      /\ call[c][t].number \in Nat /\ call[c][t].command \in BOOLEAN
      /\ (c \notin Beating => t = "main")
  BY CallFacts DEF TypeOK
<1>3. /\ queue \in Seq(Messages) /\ nextNumber \in [Client -> Nat]
      /\ states[d] \in [known : BOOLEAN, number : Nat, heartbeat : Nat]
      /\ accepted \in Nat
  BY DEF TypeOK
<1>4. Expected(d) \in Nat /\ Due(d) \in Nat /\ Expected(d)' = Expected(d)
  BY <1>1, <1>3 DEF Expected, Due
<1>5. CASE TrySend(c, t)
  <2>1. PICK m : m = Message(c, t)
    OBVIOUS
  <2>2. /\ call[c][t].at = "composed" /\ queue' = Append(queue, m)
        /\ call' = [call EXCEPT ![c][t].at = "sent"]
        /\ nextNumber' = nextNumber
    BY <1>5, <2>1 DEF TrySend
  <2>3. m \in Messages /\ m.client = c /\ m.number = call[c][t].number
    BY <1>2, <1>3, <2>1 DEF Message, Messages, NextId
  <2>4. CASE d # c
    <3>1. call'[d]["main"] = call[d]["main"] /\ Due(d)' = Due(d)
      BY <1>1, <2>2, <2>4 DEF Due, Thread
    <3>2. d \notin outdated => InSequence(queue', d, Expected(d), Due(d))
      BY <1>3, <1>4, <2>2, <2>3, <2>4, InSequenceSent DEF Orderly
    <3> QED
      BY <1>1, <1>4, <2>2, <3>1, <3>2 DEF Orderly
  <2>5. CASE d = c
    <3>1. t = "main"
      BY <1>2, <2>5
    <3>2. /\ call'[d]["main"].at = "sent"
          /\ call'[d]["main"].number = call[d]["main"].number
      BY <1>2, <2>2, <2>5, <3>1 DEF Call
    <3>3. m.number = nextNumber[d] /\ Due(d) = nextNumber[d] /\ Due(d)' = Due(d) + 1
      BY <1>3, <2>2, <2>3, <2>5, <3>1, <3>2 DEF Orderly, Due
    <3>4. d \notin outdated => InSequence(queue', d, Expected(d), Due(d) + 1)
      BY <1>3, <1>4, <2>2, <2>3, <2>5, <3>3, InSequenceSent DEF Orderly
    <3>5. call'[d]["main"].number = nextNumber'[d]
      BY <2>2, <3>1, <2>5, <3>2 DEF Orderly
    <3> QED
      BY <1>1, <1>4, <3>3, <3>4, <3>5 DEF Orderly
  <2> QED
    BY <2>4, <2>5
<1>6. ASSUME queue' = queue, Due(d)' = Due(d),
             call'[d]["main"].at # "idle" => call'[d]["main"].number = nextNumber'[d]
      PROVE  Orderly(d)'
  BY <1>1, <1>4, <1>6 DEF Orderly
<1>7. CASE Compose(c, t)
  <2>1. queue' = queue /\ nextNumber' = nextNumber /\ call[c][t].at = "idle"
    BY <1>7 DEF Compose
  <2>2. PICK command \in BOOLEAN :
          call' = [call EXCEPT ![c][t] = [at |-> "composed", number |-> nextNumber[c],
                                          command |-> command]]
    BY <1>7, Zenon DEF Compose
  <2>3. CASE d # c
    BY <1>1, <1>6, <2>1, <2>3 DEF Due, Orderly, Thread
  <2>4. CASE d = c
    <3>1. /\ t = "main"
          /\ call'[d]["main"] = [at |-> "composed", number |-> nextNumber[c], command |-> command]
      BY <1>2, <2>2, <2>4
    <3>2. Due(d)' = Due(d)
      BY <2>1, <2>4, <3>1 DEF Due
    <3> QED
      BY <1>6, <2>1, <2>4, <3>1, <3>2
  <2> QED
    BY <2>3, <2>4
<1>8. CASE Fail(c, t)
  <2>1. /\ queue' = queue /\ nextNumber' = nextNumber /\ call[c][t].at = "composed"
        /\ call' = [call EXCEPT ![c][t] = Idle]
    BY <1>8 DEF Fail
  <2>2. CASE d # c
    BY <1>1, <1>6, <2>1, <2>2 DEF Due, Orderly, Thread
  <2>3. CASE d = c
    <3>1. t = "main" /\ call'[d]["main"] = Idle
      BY <1>2, <2>1, <2>3
    <3>2. Due(d)' = Due(d)
      BY <2>1, <2>3, <3>1 DEF Due, Idle
    <3> QED
      BY <1>6, <2>1, <3>1, <3>2 DEF Idle
  <2> QED
    BY <2>2, <2>3
<1>9. CASE LoadNumber(c, t)
  <2>1. /\ queue' = queue /\ nextNumber' = nextNumber /\ call[c][t].at = "sent"
        /\ call' = [call EXCEPT ![c][t].at = "loaded", ![c][t].number = nextNumber[c]]
    BY <1>9 DEF LoadNumber
  <2>2. CASE d # c
    BY <1>1, <1>6, <2>1, <2>2 DEF Due, Orderly, Thread
  <2>3. CASE d = c
    <3>1. /\ t = "main" /\ call'[d]["main"].at = "loaded"
          /\ call'[d]["main"].number = nextNumber[c]
      BY <1>2, <2>1, <2>3 DEF Call
    <3>2. Due(d)' = Due(d)
      BY <2>1, <2>3, <3>1 DEF Due
    <3> QED
      BY <1>6, <2>1, <2>3, <3>1, <3>2
  <2> QED
    BY <2>2, <2>3
<1>10. CASE StoreNumber(c, t)
  <2>1. /\ queue' = queue /\ call[c][t].at = "loaded"
        /\ nextNumber' = [nextNumber EXCEPT ![c] = call[c][t].number + 1]
        /\ call' = [call EXCEPT ![c][t] = Idle]
    BY <1>10 DEF StoreNumber
  <2>2. CASE d # c
    <3>1. nextNumber'[d] = nextNumber[d]
      BY <1>3, <2>1, <2>2
    <3> QED
      BY <1>1, <1>6, <2>1, <2>2, <3>1 DEF Due, Orderly, Thread
  <2>3. CASE d = c
    <3>1. t = "main" /\ call'[d]["main"] = Idle /\ nextNumber'[d] = nextNumber[d] + 1
      BY <1>2, <1>3, <2>1, <2>3 DEF Orderly
    <3>2. Due(d)' = Due(d)
      BY <1>3, <1>2, <2>1, <2>3, <3>1 DEF Due, Idle
    <3> QED
      BY <1>6, <2>1, <3>1, <3>2 DEF Idle
  <2> QED
    BY <2>2, <2>3
<1> QED
  BY <1>5, <1>7, <1>8, <1>9, <1>10 DEF Send

\* The server finds the number it expects, and expects the next one then.
LEMMA ServerKeepsNumbers ==
    ASSUME TypeOK, Server, NEW d \in Client \ Beating, Orderly(d)
    PROVE  Orderly(d)'
<1>1. UNCHANGED <<outdated, nextNumber, call>> /\ Due(d)' = Due(d)
  BY DEF Server, Receive, ReceiveOutdated, ReceiveNothing, Update, clientVars, Due
<1>2. /\ queue \in Seq(Messages) /\ nextNumber \in [Client -> Nat]
      /\ states \in [Client -> [known : BOOLEAN, number : Nat, heartbeat : Nat]]
      /\ states[d] \in [known : BOOLEAN, number : Nat, heartbeat : Nat]
  BY DEF TypeOK
<1>3. Expected(d) \in Nat /\ Due(d) \in Nat
  BY <1>2 DEF Expected, Due
<1>4. CASE Receive
  <2>1. PICK m : m = Head(queue)
    OBVIOUS
  <2>2. /\ queue # <<>> /\ queue' = Tail(queue)
        /\ m.client \in Client \ outdated /\ m.number \in Nat
        /\ states' = [states EXCEPT ![m.client] =
             [known |-> TRUE,
              number |-> IF states[m.client].known THEN m.number ELSE 0,
              heartbeat |-> lastHeartbeat']]
        /\ warned' = IF Unexpected(m) THEN warned \union {m.client} ELSE warned
    BY <1>4, <2>1, ReceiveChanges
  <2>3. CASE d # m.client
    <3>1. Expected(d)' = Expected(d)
      BY <1>2, <2>2, <2>3 DEF Expected
    <3>2. d \notin outdated => InSequence(queue', d, Expected(d), Due(d))
      BY <1>2, <1>3, <2>1, <2>2, <2>3, InSequenceReceived DEF Orderly
    <3>3. d \notin warned'
      BY <2>2, <2>3 DEF Orderly
    <3> QED
      BY <1>1, <3>1, <3>2, <3>3 DEF Orderly
  <2>4. CASE d = m.client
    <3>1. InSequence(queue, d, Expected(d), Due(d))
      BY <2>2, <2>4 DEF Orderly
    <3>2. m.number = Expected(d) /\ InSequence(queue', d, Expected(d) + 1, Due(d))
      BY <1>2, <1>3, <2>1, <2>2, <2>4, <3>1, InSequenceReceived
    <3>3. states'[d].known /\ states'[d].number = IF states[d].known THEN m.number ELSE 0
      BY <1>2, <2>2, <2>4
    <3>4. Expected(d)' = Expected(d) + 1
      BY <1>2, <3>2, <3>3 DEF Expected
    <3>5. ~Unexpected(m)
      BY <2>4, <3>2 DEF Unexpected, Expected
    <3>6. d \notin warned'
      BY <2>2, <3>5 DEF Orderly
    <3> QED
      BY <1>1, <3>2, <3>4, <3>6 DEF Orderly
  <2> QED
    BY <2>3, <2>4
<1>5. CASE ReceiveOutdated
  <2>1. /\ queue # <<>> /\ queue' = Tail(queue) /\ Head(queue).client \in outdated
        /\ UNCHANGED <<states, warned>>
    BY <1>5 DEF ReceiveOutdated, Rest
  <2>2. Expected(d)' = Expected(d)
    BY <2>1 DEF Expected
  <2>3. d \notin outdated => InSequence(queue', d, Expected(d), Due(d))
    BY <1>2, <1>3, <2>1, InSequenceReceived DEF Orderly
  <2> QED
    BY <1>1, <2>1, <2>2, <2>3 DEF Orderly
<1>6. CASE ReceiveNothing \/ Update
  <2>1. UNCHANGED <<queue, states, warned>>
    BY <1>6 DEF ReceiveNothing, Update
  <2>2. Expected(d)' = Expected(d)
    BY <2>1 DEF Expected
  <2> QED
    BY <1>1, <2>1, <2>2 DEF Orderly
<1> QED
  BY <1>4, <1>5, <1>6 DEF Server
-----------------------------------------------------------------------------
\* At first the queue is empty and every client begins with the number 0.
LEMMA ConsoleStarts ==
    ASSUME Init
    PROVE  ConsoleInv
<1>1. TypeOK
  <2>1. Idle \in Call /\ Unknown \in [known : BOOLEAN, number : Nat, heartbeat : Nat]
    BY DEF Idle, Call, Unknown
  <2>2. call \in [Client -> [Thread -> Call]]
    BY <2>1 DEF Init
  <2>3. states \in [Client -> [known : BOOLEAN, number : Nat, heartbeat : Nat]]
    BY <2>1 DEF Init
  <2>4. nextNumber \in [Client -> Nat] /\ sends \in [Client -> Nat]
    BY DEF Init
  <2>5. queue \in Seq(Messages) /\ executed \in Seq(Nat) /\ Len(queue) = 0
    BY DEF Init
  <2>6. connected \in BOOLEAN
    BY DEF Init
  <2>7. /\ outdated \subseteq Client /\ warned \subseteq Client
        /\ cycle = "receive" /\ now = 1 /\ clock = 1 /\ lastHeartbeat = 0 /\ accepted = 0
    BY DEF Init
  <2>8. 0 <= MaxMessages
    BY ConstantsAssumption DEF ConstantsAssumption
  <2> QED
    BY <2>2, <2>3, <2>4, <2>5, <2>6, <2>7, <2>8 DEF TypeOK
<1>2. Len(queue) = 0 /\ Len(executed) = 0 /\ accepted = 0
  BY DEF Init
<1>3. InOrder
  BY <1>2 DEF InOrder, Pending, Marked
<1>4. Timely
  BY DEF Init, Timely, Unknown
<1>5. ASSUME NEW c \in Client \ Beating PROVE Orderly(c)
  <2>1. /\ call[c]["main"] = Idle /\ nextNumber[c] = 0 /\ states[c] = Unknown
        /\ c \notin warned
    BY DEF Init, Thread
  <2>2. Expected(c) = 0 /\ Due(c) = 0
    BY <2>1 DEF Expected, Due, Idle, Unknown
  <2>3. InSequence(queue, c, 0, 0)
    BY <1>2 DEF InSequence, NumberAt, NumberAfter
  <2> QED
    BY <2>1, <2>2, <2>3 DEF Orderly, Idle
<1> QED
  BY <1>1, <1>3, <1>4, <1>5 DEF ConsoleInv

\* The invariant is kept by every step.
LEMMA ConsoleInvStep ==
    ASSUME ConsoleInv, [Next]_vars
    PROVE  ConsoleInv'
<1> USE DEF ConsoleInv
<1>1. CASE Tick
  <2>1. now' = now + 1 /\ UNCHANGED <<clientVars, queue, serverVars, accepted>>
    BY <1>1 DEF Tick
  <2>2. TypeOK'
    BY <2>1 DEF TypeOK, clientVars, serverVars
  <2>3. InOrder'
    BY <2>1 DEF InOrder, clientVars, serverVars
  <2>4. Timely'
    BY <2>1 DEF Timely, TypeOK, serverVars
  <2>5. ASSUME NEW c \in Client \ Beating PROVE Orderly(c)'
    <3>1. Orderly(c) /\ Expected(c)' = Expected(c) /\ Due(c)' = Due(c)
      BY <2>1 DEF Expected, Due, clientVars, serverVars
    <3> QED
      BY <2>1, <3>1 DEF Orderly, clientVars, serverVars
  <2> QED
    BY <2>2, <2>3, <2>4, <2>5
<1>2. CASE Server
  BY <1>2, ServerKeepsType, ServerKeepsOrder, ServerKeepsNumbers
<1>3. ASSUME NEW c \in Client, NEW t \in ThreadsOf(c), Send(c, t) PROVE ConsoleInv'
  <2>1. TypeOK' /\ InOrder'
    BY <1>3, SendKeepsType, SendKeepsOrder
  <2>2. UNCHANGED <<serverVars, now>>
    BY <1>3, SendChanges
  <2>3. Timely'
    BY <2>2 DEF Timely, serverVars
  <2>4. \A d \in Client \ Beating : Orderly(d)'
    BY <1>3, SendKeepsNumbers
  <2> QED
    BY <2>1, <2>3, <2>4
<1>4. CASE UNCHANGED vars
  <2>1. TypeOK' /\ InOrder' /\ Timely'
    BY <1>4 DEF vars, clientVars, serverVars, TypeOK, InOrder, Timely
  <2>2. ASSUME NEW c \in Client \ Beating PROVE Orderly(c)'
    <3>1. Orderly(c) /\ Expected(c)' = Expected(c) /\ Due(c)' = Due(c)
      BY <1>4 DEF vars, Expected, Due, clientVars, serverVars
    <3> QED
      BY <1>4, <3>1 DEF vars, Orderly, clientVars, serverVars
  <2> QED
    BY <2>1, <2>2
<1> QED
  BY <1>1, <1>2, <1>3, <1>4 DEF Next

\* The invariant holds in every reachable state.
LEMMA ConsoleInvHolds == Spec => []ConsoleInv
<1> QED
  BY ConsoleStarts, ConsoleInvStep, PTL DEF Spec

\* The queue never holds more than it has room for, and every variable has its type,
\* however the threads of the clients race for the numbers.
THEOREM ConsoleTypeCorrect == Spec => []TypeOK
<1>1. ConsoleInv => TypeOK
  BY DEF ConsoleInv
<1> QED
  BY <1>1, ConsoleInvHolds, PTL

\* Every command that the queue has accepted is executed once, in the order of
\* acceptance, or is still in the queue, for any number of clients and any size of
\* the queue, although the racing threads of a client give numbers twice.
THEOREM ExecutedOnceInOrderHolds == Spec => []ExecutedOnceInOrder
<1>1. ASSUME ConsoleInv PROVE ExecutedOnceInOrder
  <2>1. DOMAIN queue = 1 .. Len(queue) /\ DOMAIN executed = 1 .. Len(executed)
    BY <1>1, SeqFacts DEF ConsoleInv, TypeOK
  <2>2. Len(executed) \in Nat /\ accepted \in Nat
    BY <1>1, SeqFacts DEF ConsoleInv, TypeOK
  <2>3. /\ \A k \in 1 .. Len(executed) : executed[k] = k
        /\ Pending(queue, Len(executed), accepted)
    BY <1>1 DEF ConsoleInv, InOrder
  <2>4. {queue[k].id : k \in 1 .. Len(queue)} \ {0} = (Len(executed) + 1) .. accepted
    <3>1. 0 \notin (Len(executed) + 1) .. accepted
      BY <2>2
    <3> QED
      BY <2>3, <3>1 DEF Pending
  <2> QED
    BY <2>1, <2>3, <2>4 DEF ExecutedOnceInOrder, Pending
<1> QED
  BY <1>1, ConsoleInvHolds, PTL

\* As long as a client sends from its main thread only, the server never complains
\* about its numbers, however often the queue was full.
THEOREM NoFalseWarningHolds == Spec => []NoFalseWarning
<1>1. ASSUME ConsoleInv PROVE NoFalseWarning
  <2>1. warned \subseteq Client /\ \A c \in Client \ Beating : c \notin warned
    BY <1>1 DEF ConsoleInv, TypeOK, Orderly
  <2> QED
    BY <2>1 DEF NoFalseWarning
<1> QED
  BY <1>1, ConsoleInvHolds, PTL

\* The server reports that the heartbeats have ceased only when it has not received
\* anything, from any client, for the whole time allowed.
THEOREM DisconnectedMeansSilenceHolds == Spec => DisconnectedMeansSilence
<1> DEFINE Silence == \A c \in Client : states[c].known => clock > states[c].heartbeat + Timeout
<1>1. ASSUME ConsoleInv, [Next]_vars, connected, ~connected' PROVE Silence
  <2>1. Update
    <3>1. CASE Receive
      <4>1. connected'
        BY <1>1, <3>1 DEF Receive
      <4> QED
        BY <1>1, <4>1
    <3>2. CASE Server
      BY <1>1, <3>1, <3>2 DEF Server, ReceiveOutdated, ReceiveNothing
    <3>3. ASSUME NEW c \in Client, NEW t \in ThreadsOf(c), Send(c, t) PROVE FALSE
      BY <1>1, <3>3, SendChanges DEF ConsoleInv, serverVars
    <3>4. CASE Tick \/ UNCHANGED vars
      BY <1>1, <3>4 DEF Tick, vars, serverVars
    <3> QED
      BY <1>1, <3>2, <3>3, <3>4 DEF Next
  <2>2. clock > lastHeartbeat + Timeout
    BY <1>1, <2>1 DEF Update, NoHeartbeats
  <2>3. ASSUME NEW c \in Client PROVE clock > states[c].heartbeat + Timeout
    <3>1. /\ states[c] \in [known : BOOLEAN, number : Nat, heartbeat : Nat]
          /\ states[c].heartbeat <= lastHeartbeat /\ lastHeartbeat \in Nat /\ clock \in Nat
      BY <1>1 DEF ConsoleInv, TypeOK, Timely
    <3> QED
      BY <2>2, <3>1, ConstantsAssumption DEF ConstantsAssumption
  <2> QED
    BY <2>3
<1>2. ConsoleInv /\ [Next]_vars =>
        [connected /\ ~connected'
           => \A c \in Client : states[c].known => clock > states[c].heartbeat + Timeout]_vars
  BY <1>1
<1> HIDE DEF Silence
<1> QED
  BY <1>2, ConsoleInvHolds, PTL DEF Spec, DisconnectedMeansSilence
=============================================================================
