----------------------------- MODULE DataLemmas -----------------------------
(***************************************************************************)
(* Facts about data that the proofs of the other modules cite: sequences   *)
(* and multimaps, with domains spelled out; sums, powers and remainders.   *)
(* Induction has a set as its parameter, so that it can be cited.          *)
(***************************************************************************)
EXTENDS Arithmetic, Multimap, SequenceTheorems, WellFoundedInduction,
        FiniteSetTheorems, TLAPS

\* The elements and the domain of a sequence.
LEMMA SeqFacts ==
    ASSUME NEW S, NEW s \in Seq(S)
    PROVE  /\ Len(s) \in Nat
           /\ DOMAIN s = 1 .. Len(s)
           /\ \A i \in 1 .. Len(s) : s[i] \in S
           /\ s = <<>> <=> Len(s) = 0
BY LenProperties, ElementOfSeq, EmptySeq

\* Append keeps the elements and adds one behind them.
LEMMA AppendFacts ==
    ASSUME NEW S, NEW s \in Seq(S), NEW e \in S
    PROVE  /\ Append(s, e) \in Seq(S)
           /\ Len(Append(s, e)) = Len(s) + 1
           /\ DOMAIN Append(s, e) = 1 .. Len(s) + 1
           /\ \A i \in 1 .. Len(s) : Append(s, e)[i] = s[i]
           /\ Append(s, e)[Len(s) + 1] = e
<1>1. Append(s, e) \in Seq(S) /\ Len(Append(s, e)) = Len(s) + 1
  BY AppendProperties
<1>2. DOMAIN Append(s, e) = 1 .. Len(s) + 1
  BY <1>1, SeqFacts
<1> QED
  BY <1>1, <1>2, AppendProperties, SeqFacts

\* Tail shifts the elements down by one.
LEMMA TailFacts ==
    ASSUME NEW S, NEW s \in Seq(S), s # <<>>
    PROVE  /\ Head(s) = s[1]
           /\ Head(s) \in S
           /\ Tail(s) \in Seq(S)
           /\ Len(s) \in Nat \ {0}
           /\ Len(Tail(s)) = Len(s) - 1
           /\ DOMAIN Tail(s) = 1 .. Len(s) - 1
           /\ \A i \in 1 .. Len(s) - 1 : Tail(s)[i] = s[i + 1]
<1>1. /\ Head(s) = s[1]
      /\ Head(s) \in S
      /\ Tail(s) \in Seq(S)
      /\ Len(Tail(s)) = Len(s) - 1
      /\ \A i \in 1 .. Len(Tail(s)) : Tail(s)[i] = s[i + 1]
  BY HeadTailProperties
<1>2. Len(s) \in Nat \ {0}
  BY SeqFacts
<1>3. DOMAIN Tail(s) = 1 .. Len(s) - 1
  BY <1>1, SeqFacts
<1> QED
  BY <1>1, <1>2, <1>3

\* A function on 1 .. n is a sequence of length n.
LEMMA FunctionIsSeq ==
    ASSUME NEW S, NEW n \in Nat, NEW f \in [1 .. n -> S]
    PROVE  f \in Seq(S) /\ Len(f) = n
<1>1. f \in Seq(S)
  BY SeqDef
<1>2. DOMAIN f = 1 .. Len(f) /\ Len(f) \in Nat
  BY <1>1, SeqFacts
<1>3. DOMAIN f = 1 .. n
  OBVIOUS
<1>4. ASSUME NEW a \in Nat, NEW b \in Nat, 1 .. a = 1 .. b PROVE a <= b
  <2>1. a = 0 \/ a \in 1 .. a
    OBVIOUS
  <2> QED
    BY <1>4, <2>1
<1> QED
  BY <1>1, <1>2, <1>3, <1>4

\* A set of natural numbers that is not empty has a least element.
LEMMA LeastNatural ==
    ASSUME NEW T, T \subseteq Nat, T # {}
    PROVE  \E n \in T : \A m \in T : n <= m
<1>1. PICK n \in T : \A m \in T : <<m, n>> \notin OpToRel(<, Nat)
  BY NatLessThanWellFounded, WFMin
<1>2. ASSUME NEW m \in T PROVE n <= m
  <2>1. ~(m < n)
    BY <1>1 DEF OpToRel
  <2> QED
    BY <2>1
<1> QED
  BY <1>2

\* Entries of a multimap.
IsTimed(S) == \A e \in S : e.time \in Nat

\* There is a place to insert at.
LEMMA UpperBoundFacts ==
    ASSUME NEW S, IsTimed(S),
           NEW seq \in Seq(S), NEW time \in Nat
    PROVE  /\ UpperBound(seq, time) \in 1 .. Len(seq) + 1
           /\ \A k \in 1 .. UpperBound(seq, time) - 1 : seq[k].time <= time
           /\ UpperBound(seq, time) <= Len(seq) => seq[UpperBound(seq, time)].time > time
<1> DEFINE Later == {k \in 1 .. Len(seq) : seq[k].time > time}
           IsPlace(p) == /\ \A k \in 1 .. p - 1 : seq[k].time <= time
                         /\ p <= Len(seq) => seq[p].time > time
<1>1. Len(seq) \in Nat /\ \A k \in 1 .. Len(seq) : seq[k].time \in Nat
  BY SeqFacts DEF IsTimed
<1>2. \E p \in 1 .. Len(seq) + 1 : IsPlace(p)
  <2>1. CASE Later = {}
    <3>1. IsPlace(Len(seq) + 1)
      BY <1>1, <2>1
    <3> QED
      BY <1>1, <3>1
  <2>2. CASE Later # {}
    <3>a. Later \subseteq Nat
      OBVIOUS
    <3> HIDE DEF Later
    <3>1. PICK n \in Later : \A m \in Later : n <= m
      BY <2>2, <3>a, LeastNatural
    <3>2. n \in 1 .. Len(seq) /\ seq[n].time > time
      BY <3>1 DEF Later
    <3>3. ASSUME NEW k \in 1 .. n - 1 PROVE seq[k].time <= time
      <4>1. k \in 1 .. Len(seq) /\ k < n
        BY <1>1, <3>2
      <4>2. k \notin Later
        BY <1>1, <3>1, <3>2, <4>1, <3>a DEF Later
      <4> QED
        BY <1>1, <4>1, <4>2 DEF Later
    <3>4. IsPlace(n)
      BY <3>2, <3>3
    <3> QED
      BY <1>1, <3>2, <3>4
  <2> QED
    BY <2>1, <2>2
<1> QED
  BY <1>2 DEF UpperBound

\* The entry is in its place, the others are before and behind it.
LEMMA EmplaceFacts ==
    ASSUME NEW S, IsTimed(S),
           NEW seq \in Seq(S), NEW entry \in S
    PROVE  /\ UpperBound(seq, entry.time) \in 1 .. Len(seq) + 1
           /\ Emplace(seq, entry) \in Seq(S)
           /\ Len(Emplace(seq, entry)) = Len(seq) + 1
           /\ \A k \in 1 .. Len(seq) + 1 : Emplace(seq, entry)[k] =
                IF k < UpperBound(seq, entry.time) THEN seq[k]
                ELSE IF k = UpperBound(seq, entry.time) THEN entry ELSE seq[k - 1]
<1> DEFINE p == UpperBound(seq, entry.time)
           front == SubSeq(seq, 1, p - 1)
           back == SubSeq(seq, p, Len(seq))
<1>1. Len(seq) \in Nat /\ \A k \in 1 .. Len(seq) : seq[k] \in S
  BY SeqFacts
<1>a. entry.time \in Nat
  BY DEF IsTimed
<1>2. p \in 1 .. Len(seq) + 1
  BY <1>a, UpperBoundFacts
<1> HIDE DEF p
<1>3. front \in Seq(S) /\ Len(front) = p - 1 /\ \A k \in 1 .. p - 1 : front[k] = seq[k]
  BY <1>1, <1>2, SubSeqProperties
<1>4. /\ back \in Seq(S) /\ Len(back) = Len(seq) - p + 1
      /\ \A k \in 1 .. Len(seq) - p + 1 : back[k] = seq[p + k - 1]
  BY <1>1, <1>2, SubSeqProperties
<1>5. <<entry>> \in Seq(S) /\ Len(<<entry>>) = 1 /\ <<entry>>[1] = entry
  OBVIOUS
<1> DEFINE half == front \o <<entry>>
<1> HIDE DEF front, back
<1>6. /\ half \in Seq(S) /\ Len(half) = p
      /\ \A k \in 1 .. p : half[k] = IF k <= p - 1 THEN front[k] ELSE <<entry>>[k - (p - 1)]
  BY <1>2, <1>3, <1>5, ConcatProperties
<1> HIDE DEF half
<1>b. /\ half \o back \in Seq(S) /\ Len(half \o back) = Len(half) + Len(back)
      /\ \A k \in 1 .. Len(half) + Len(back) :
           (half \o back)[k] = IF k <= Len(half) THEN half[k] ELSE back[k - Len(half)]
  BY <1>4, <1>6, ConcatProperties
<1>7. /\ half \o back \in Seq(S) /\ Len(half \o back) = p + (Len(seq) - p + 1)
      /\ \A k \in 1 .. p + (Len(seq) - p + 1) :
           (half \o back)[k] = IF k <= p THEN half[k] ELSE back[k - p]
  BY <1>4, <1>6, <1>b
<1>8. Emplace(seq, entry) = half \o back
  BY DEF Emplace, InsertAt, half, front, back, p
<1>9. \A k \in 1 .. Len(seq) + 1 : Emplace(seq, entry)[k] =
          IF k < p THEN seq[k] ELSE IF k = p THEN entry ELSE seq[k - 1]
  <2> SUFFICES ASSUME NEW k \in 1 .. Len(seq) + 1
               PROVE  (half \o back)[k] =
                        IF k < p THEN seq[k] ELSE IF k = p THEN entry ELSE seq[k - 1]
    BY <1>8
  <2>1. (half \o back)[k] = IF k <= p THEN half[k] ELSE back[k - p]
    BY <1>1, <1>2, <1>7
  <2>2. CASE k < p
    BY <1>1, <1>2, <1>3, <1>6, <2>1, <2>2
  <2>3. CASE k = p
    BY <1>1, <1>2, <1>5, <1>6, <2>1, <2>3
  <2>4. CASE k > p
    <3>1. k - p \in 1 .. Len(seq) - p + 1 /\ p + (k - p) - 1 = k - 1
      BY <1>1, <1>2, <2>4
    <3>2. back[k - p] = seq[p + (k - p) - 1]
      BY <1>4, <3>1
    <3> QED
      BY <1>2, <2>1, <2>4, <3>1, <3>2
  <2>5. k < p \/ k = p \/ k > p
    BY <1>1, <1>2
  <2> QED
    BY <2>2, <2>3, <2>4, <2>5
<1>10. Len(half \o back) = Len(seq) + 1
  BY <1>1, <1>2, <1>7
<1> QED
  BY <1>2, <1>7, <1>8, <1>9, <1>10 DEF p

\* A multimap stays in the order of its keys.
LEMMA EmplaceKeepsOrder ==
    ASSUME NEW S, IsTimed(S),
           NEW seq \in Seq(S), NEW entry \in S, IsOrdered(seq)
    PROVE  IsOrdered(Emplace(seq, entry))
<1> DEFINE p == UpperBound(seq, entry.time)
           longer == Emplace(seq, entry)
<1>1. /\ Len(seq) \in Nat /\ DOMAIN seq = 1 .. Len(seq)
      /\ \A k \in 1 .. Len(seq) : seq[k].time \in Nat
  BY SeqFacts DEF IsTimed
<1>a. entry.time \in Nat
  BY DEF IsTimed
<1>2. /\ p \in 1 .. Len(seq) + 1
      /\ \A k \in 1 .. p - 1 : seq[k].time <= entry.time
      /\ p <= Len(seq) => seq[p].time > entry.time
  BY <1>a, UpperBoundFacts
<1>3. /\ longer \in Seq(S) /\ Len(longer) = Len(seq) + 1
      /\ \A k \in 1 .. Len(seq) + 1 : longer[k] =
           IF k < p THEN seq[k] ELSE IF k = p THEN entry ELSE seq[k - 1]
  BY EmplaceFacts
<1>4. DOMAIN longer = 1 .. Len(seq) + 1
  BY <1>3, SeqFacts
<1> HIDE DEF p, longer
<1>5. \A k \in 1 .. Len(seq) : k >= p => seq[k].time > entry.time
  <2> SUFFICES ASSUME NEW k \in 1 .. Len(seq), k >= p PROVE seq[k].time > entry.time
    OBVIOUS
  <2>1. p \in 1 .. Len(seq) /\ (p < k \/ p = k)
    BY <1>1, <1>2
  <2>2. seq[p].time > entry.time /\ seq[p].time \in Nat /\ seq[k].time \in Nat
    BY <1>1, <1>2, <2>1
  <2>3. seq[p].time <= seq[k].time
    BY <1>1, <2>1, <2>2 DEF IsOrdered
  <2> QED
    BY <1>a, <2>2, <2>3
<1>6. ASSUME NEW j \in 1 .. Len(seq) + 1, NEW k \in 1 .. Len(seq) + 1, j < k
      PROVE  longer[j].time <= longer[k].time
  <2>1. CASE k < p
    <3>1. k \in 1 .. Len(seq) /\ j \in 1 .. Len(seq) /\ j < k /\ j < p
      BY <1>1, <1>2, <1>6, <2>1
    <3>2. seq[j].time <= seq[k].time
      BY <1>1, <3>1 DEF IsOrdered
    <3>3. longer[j] = seq[j] /\ longer[k] = seq[k]
      BY <1>3, <2>1, <3>1
    <3> QED
      BY <3>2, <3>3
  <2>2. CASE k = p
    <3>1. j \in 1 .. p - 1 /\ j < p
      BY <1>1, <1>2, <1>6, <2>2
    <3>2. longer[j] = seq[j] /\ longer[k] = entry
      BY <1>1, <1>2, <1>3, <2>2, <3>1
    <3> QED
      BY <1>2, <3>1, <3>2
  <2>3. CASE k > p /\ j < p
    <3>1. k - 1 \in 1 .. Len(seq) /\ j \in 1 .. Len(seq) /\ j < k - 1
      BY <1>1, <1>2, <1>6, <2>3
    <3>2. seq[j].time <= seq[k - 1].time
      BY <1>1, <3>1 DEF IsOrdered
    <3>3. longer[j] = seq[j] /\ longer[k] = seq[k - 1]
      BY <1>1, <1>2, <1>3, <2>3
    <3> QED
      BY <3>2, <3>3
  <2>4. CASE k > p /\ j = p
    <3>1. k - 1 \in 1 .. Len(seq) /\ k - 1 >= p
      BY <1>1, <1>2, <1>6, <2>4
    <3>2. longer[j] = entry /\ longer[k] = seq[k - 1]
      BY <1>1, <1>2, <1>3, <2>4
    <3>3. seq[k - 1].time > entry.time /\ seq[k - 1].time \in Nat
      BY <1>1, <1>5, <3>1
    <3> QED
      BY <1>a, <3>2, <3>3
  <2>5. CASE k > p /\ j > p
    <3>1. k - 1 \in 1 .. Len(seq) /\ j - 1 \in 1 .. Len(seq) /\ j - 1 < k - 1
      BY <1>1, <1>2, <1>6, <2>5
    <3>2. seq[j - 1].time <= seq[k - 1].time
      BY <1>1, <3>1 DEF IsOrdered
    <3>3. longer[j] = seq[j - 1] /\ longer[k] = seq[k - 1]
      BY <1>1, <1>2, <1>3, <2>5
    <3> QED
      BY <3>2, <3>3
  <2> QED
    BY <1>2, <2>1, <2>2, <2>3, <2>4, <2>5
<1> QED
  BY <1>4, <1>6 DEF IsOrdered, longer

\* An insertion adds one entry, and two places of the result hold what two places
\* of the multimap held, or one of them the entry.
LEMMA EmplaceEntries ==
    ASSUME NEW S, IsTimed(S),
           NEW seq \in Seq(S), NEW entry \in S
    PROVE  /\ Range(Emplace(seq, entry)) = Range(seq) \cup {entry}
           /\ \A j, k \in DOMAIN Emplace(seq, entry) : j # k =>
                \/ Emplace(seq, entry)[j] = entry /\ Emplace(seq, entry)[k] \in Range(seq)
                \/ Emplace(seq, entry)[k] = entry /\ Emplace(seq, entry)[j] \in Range(seq)
                \/ \E l, m \in DOMAIN seq : /\ l # m
                                            /\ Emplace(seq, entry)[j] = seq[l]
                                            /\ Emplace(seq, entry)[k] = seq[m]
<1> DEFINE p == UpperBound(seq, entry.time)
           longer == Emplace(seq, entry)
<1>1. Len(seq) \in Nat /\ DOMAIN seq = 1 .. Len(seq)
  BY SeqFacts
<1>b. entry.time \in Nat
  BY DEF IsTimed
<1>a. p \in 1 .. Len(seq) + 1
  BY <1>b, UpperBoundFacts
<1>2. /\ longer \in Seq(S) /\ Len(longer) = Len(seq) + 1
      /\ \A k \in 1 .. Len(seq) + 1 : longer[k] =
           IF k < p THEN seq[k] ELSE IF k = p THEN entry ELSE seq[k - 1]
  <2> HIDE DEF p, longer
  <2>1. /\ Emplace(seq, entry) \in Seq(S) /\ Len(Emplace(seq, entry)) = Len(seq) + 1
        /\ \A k \in 1 .. Len(seq) + 1 : Emplace(seq, entry)[k] =
             IF k < UpperBound(seq, entry.time) THEN seq[k]
             ELSE IF k = UpperBound(seq, entry.time) THEN entry ELSE seq[k - 1]
    BY EmplaceFacts
  <2> QED
    BY <2>1 DEF p, longer
<1>3. DOMAIN longer = 1 .. Len(seq) + 1
  BY <1>2, SeqFacts
<1> HIDE DEF p, longer
<1> DEFINE Source(k) == IF k < p THEN k ELSE k - 1
<1>4. \A k \in 1 .. Len(seq) + 1 : k # p => Source(k) \in 1 .. Len(seq) /\ longer[k] = seq[Source(k)]
  BY <1>1, <1>a, <1>2
<1>5. longer[p] = entry
  BY <1>1, <1>a, <1>2
<1>6. \A j, k \in 1 .. Len(seq) + 1 : j # k /\ j # p /\ k # p => Source(j) # Source(k)
  BY <1>1, <1>a, <1>2
<1>7. ASSUME NEW l \in 1 .. Len(seq) PROVE \E k \in 1 .. Len(seq) + 1 : longer[k] = seq[l]
  <2>1. CASE l < p
    <3>1. l \in 1 .. Len(seq) + 1 /\ longer[l] = seq[l]
      BY <1>1, <1>a, <1>2, <2>1
    <3> QED
      BY <3>1
  <2>2. CASE ~(l < p)
    <3>1. l + 1 \in 1 .. Len(seq) + 1 /\ l + 1 # p /\ ~(l + 1 < p) /\ l + 1 - 1 = l
      BY <1>1, <1>a, <1>2, <2>2
    <3>2. longer[l + 1] = seq[l]
      BY <1>4, <3>1
    <3> QED
      BY <3>1, <3>2
  <2> QED
    BY <2>1, <2>2
<1> HIDE DEF Source
<1>8. Range(longer) = Range(seq) \cup {entry}
  <2>1. ASSUME NEW x \in Range(longer) PROVE x \in Range(seq) \cup {entry}
    BY <1>1, <1>3, <1>4, <1>5 DEF Range
  <2>2. ASSUME NEW x \in Range(seq) PROVE x \in Range(longer)
    BY <1>1, <1>3, <1>7 DEF Range
  <2>3. entry \in Range(longer)
    BY <1>a, <1>3, <1>5 DEF Range
  <2> QED
    BY <2>1, <2>2, <2>3
<1>9. ASSUME NEW j \in 1 .. Len(seq) + 1, NEW k \in 1 .. Len(seq) + 1, j # k
      PROVE  \/ longer[j] = entry /\ longer[k] \in Range(seq)
             \/ longer[k] = entry /\ longer[j] \in Range(seq)
             \/ \E l, m \in 1 .. Len(seq) : l # m /\ longer[j] = seq[l] /\ longer[k] = seq[m]
  <2>1. \A x \in 1 .. Len(seq) + 1 : x # p => longer[x] \in Range(seq)
    BY <1>1, <1>4 DEF Range
  <2>2. CASE j = p \/ k = p
    BY <1>5, <1>9, <2>1, <2>2
  <2>3. CASE j # p /\ k # p
    BY <1>4, <1>6, <1>9, <2>3
  <2> QED
    BY <2>2, <2>3
<1>10. ASSUME NEW j \in DOMAIN longer, NEW k \in DOMAIN longer, j # k
       PROVE  \/ longer[j] = entry /\ longer[k] \in Range(seq)
              \/ longer[k] = entry /\ longer[j] \in Range(seq)
              \/ \E l, m \in DOMAIN seq : l # m /\ longer[j] = seq[l] /\ longer[k] = seq[m]
  <2>1. j \in 1 .. Len(seq) + 1 /\ k \in 1 .. Len(seq) + 1 /\ j # k
    BY <1>3, <1>10
  <2>2. \/ longer[j] = entry /\ longer[k] \in Range(seq)
        \/ longer[k] = entry /\ longer[j] \in Range(seq)
        \/ \E l, m \in 1 .. Len(seq) : l # m /\ longer[j] = seq[l] /\ longer[k] = seq[m]
    BY <1>9, <2>1
  <2> QED
    BY <1>1, <2>2
<1> QED
  BY <1>8, <1>10 DEF longer

\* What is behind the head is later in the order, and is all the rest.
LEMMA TailEntries ==
    ASSUME NEW S, NEW seq \in Seq(S), seq # <<>>
    PROVE  /\ Tail(seq) \in Seq(S) /\ Head(seq) \in S
           /\ Head(seq) \in Range(seq)
           /\ Range(seq) = Range(Tail(seq)) \cup {Head(seq)}
           /\ \A x \in Range(Tail(seq)) : \E k \in DOMAIN seq : k # 1 /\ x = seq[k]
           /\ 1 \in DOMAIN seq /\ Head(seq) = seq[1]
           /\ \A j, k \in DOMAIN Tail(seq) :
                /\ j + 1 \in DOMAIN seq /\ Tail(seq)[j] = seq[j + 1]
                /\ j # k => j + 1 # k + 1
                /\ j < k => j + 1 < k + 1
<1>1. /\ Head(seq) = seq[1] /\ Head(seq) \in S /\ Tail(seq) \in Seq(S)
      /\ Len(seq) \in Nat \ {0} /\ DOMAIN Tail(seq) = 1 .. Len(seq) - 1
      /\ \A k \in 1 .. Len(seq) - 1 : Tail(seq)[k] = seq[k + 1]
  BY TailFacts
<1>2. DOMAIN seq = 1 .. Len(seq)
  BY SeqFacts
<1>3. ASSUME NEW j \in DOMAIN Tail(seq), NEW k \in DOMAIN Tail(seq)
      PROVE  /\ j + 1 \in DOMAIN seq /\ Tail(seq)[j] = seq[j + 1]
             /\ j # k => j + 1 # k + 1
             /\ j < k => j + 1 < k + 1
  <2>1. j \in 1 .. Len(seq) - 1 /\ k \in 1 .. Len(seq) - 1
    BY <1>1
  <2>2. j + 1 \in 1 .. Len(seq)
    BY <1>1, <2>1
  <2> QED
    BY <1>1, <1>2, <2>1, <2>2
<1>4. 1 \in DOMAIN seq
  BY <1>1, <1>2
<1>5. \A x \in Range(Tail(seq)) : \E k \in DOMAIN seq : k # 1 /\ x = seq[k]
  <2> SUFFICES ASSUME NEW j \in DOMAIN Tail(seq)
               PROVE  \E k \in DOMAIN seq : k # 1 /\ Tail(seq)[j] = seq[k]
    BY DEF Range
  <2>1. j + 1 \in DOMAIN seq /\ j + 1 # 1 /\ Tail(seq)[j] = seq[j + 1]
    BY <1>1, <1>3
  <2> QED
    BY <2>1
<1>6. ASSUME NEW k \in DOMAIN seq PROVE seq[k] \in Range(Tail(seq)) \cup {Head(seq)}
  <2>1. CASE k = 1
    BY <1>1, <2>1
  <2>2. CASE k # 1
    <3>1. k - 1 \in DOMAIN Tail(seq) /\ Tail(seq)[k - 1] = seq[k]
      BY <1>1, <1>2, <2>2
    <3> QED
      BY <3>1 DEF Range
  <2> QED
    BY <2>1, <2>2
<1>7. Range(seq) = Range(Tail(seq)) \cup {Head(seq)}
  BY <1>1, <1>4, <1>5, <1>6 DEF Range
<1> QED
  BY <1>1, <1>3, <1>4, <1>5, <1>7
-----------------------------------------------------------------------------
\* Induction, with the set of the numbers it is about as its parameter.
LEMMA NaturalsByInduction ==
    ASSUME NEW T, T \subseteq Nat, 0 \in T, \A n \in T : n + 1 \in T
    PROVE  T = Nat
<1>1. SUFFICES ASSUME Nat \ T # {} PROVE FALSE
  OBVIOUS
<1>2. PICK n \in Nat \ T : \A m \in Nat \ T : n <= m
  BY <1>1, LeastNatural
<1>3. n - 1 \in Nat /\ n - 1 \in T
  BY <1>2
<1> QED
  BY <1>2, <1>3

\* The same for the subsets of a finite set.
LEMMA SubsetsByInduction ==
    ASSUME NEW S, IsFiniteSet(S), NEW Good, {} \in Good,
           \A s \in Good \cap SUBSET S : \A x \in S \ s : s \cup {x} \in Good
    PROVE  \A s \in SUBSET S : s \in Good
<1> DEFINE T == {n \in Nat : \A s \in SUBSET S : Cardinality(s) = n => s \in Good}
<1>1. 0 \in T
  BY FS_Subset, FS_EmptySet
<1>2. ASSUME NEW n \in T PROVE n + 1 \in T
  <2>1. ASSUME NEW s \in SUBSET S, Cardinality(s) = n + 1 PROVE s \in Good
    <3>1. IsFiniteSet(s) /\ s # {}
      BY <2>1, FS_Subset, FS_EmptySet
    <3>2. PICK x \in s : TRUE
      BY <3>1
    <3>3. IsFiniteSet(s \ {x}) /\ Cardinality(s \ {x}) = n
      <4>1. IsFiniteSet(s \ {x}) /\ Cardinality(s \ {x}) = Cardinality(s) - 1
        BY <3>1, FS_RemoveElement
      <4> QED
        BY <2>1, <4>1
    <3>4. s \ {x} \in Good \cap SUBSET S
      BY <3>3
    <3>5. (s \ {x}) \cup {x} \in Good
      BY <3>4
    <3>6. (s \ {x}) \cup {x} = s
      OBVIOUS
    <3> QED
      BY <3>5, <3>6
  <2> QED
    BY <2>1
<1>3. T = Nat
  <2> HIDE DEF T
  <2> QED BY <1>1, <1>2, NaturalsByInduction, T \subseteq Nat DEF T
<1>4. ASSUME NEW s \in SUBSET S PROVE s \in Good
  BY <1>3, FS_Subset, FS_CardinalityType
<1> QED
  BY <1>4

\* The element that a fold takes next.
Pick(s) == CHOOSE x \in s : TRUE

\* What a sum adds up, on the subsets of S.
IsSum(g, f, D) == g = [s \in D |-> IF s = {} THEN 0 ELSE f[Pick(s)] + g[s \ {Pick(s)}]]

\* Sums exist: one for the subsets of n elements gives one for those of n + 1.
LEMMA SumExists ==
    ASSUME NEW f, NEW S, IsFiniteSet(S)
    PROVE  \E g : IsSum(g, f, SUBSET S)
<1> DEFINE Small(n) == {s \in SUBSET S : Cardinality(s) <= n}
           T == {n \in Nat : \E g : IsSum(g, f, Small(n))}
<1>1. \A s \in SUBSET S : IsFiniteSet(s) /\ Cardinality(s) \in Nat /\ (Cardinality(s) = 0 <=> s = {})
  BY FS_Subset, FS_EmptySet, FS_CardinalityType
<1>2. ASSUME NEW s \in SUBSET S, s # {}
      PROVE  /\ Pick(s) \in s /\ s \ {Pick(s)} \in SUBSET S
             /\ Cardinality(s \ {Pick(s)}) = Cardinality(s) - 1
  BY <1>1, <1>2, FS_RemoveElement DEF Pick
<1>3. 0 \in T
  <2>1. \A s \in Small(0) : s = {}
    BY <1>1
  <2>2. IsSum([s \in Small(0) |-> 0], f, Small(0))
    BY <2>1 DEF IsSum
  <2> QED
    BY <2>2
<1>4. ASSUME NEW n \in T PROVE n + 1 \in T
  <2>1. PICK g : IsSum(g, f, Small(n))
    OBVIOUS
  <2> DEFINE h == [s \in Small(n + 1) |-> IF s = {} THEN 0 ELSE f[Pick(s)] + g[s \ {Pick(s)}]]
  <2>2. \A s \in Small(n) : g[s] = IF s = {} THEN 0 ELSE f[Pick(s)] + g[s \ {Pick(s)}]
    BY <2>1 DEF IsSum
  <2>3. \A s \in Small(n) : s \in Small(n + 1) /\ h[s] = g[s]
    <3>1. \A s \in Small(n) : s \in Small(n + 1)
      BY <1>1
    <3> QED
      BY <2>2, <3>1, Zenon
  <2>4. \A s \in Small(n + 1) : s # {} => s \ {Pick(s)} \in Small(n)
    BY <1>1, <1>2
  <2>5. IsSum(h, f, Small(n + 1))
    BY <2>3, <2>4 DEF IsSum
  <2>6. n + 1 \in Nat
    OBVIOUS
  <2> HIDE DEF h, Small
  <2> QED
    BY <2>5, <2>6
<1>5. T = Nat
  <2>1. T \subseteq Nat
    OBVIOUS
  <2> HIDE DEF T
  <2> QED BY <1>3, <1>4, <2>1, NaturalsByInduction
<1>6. Small(Cardinality(S)) = SUBSET S
  BY <1>1, FS_Subset
<1> QED
  BY <1>1, <1>5, <1>6

\* The sum is of that kind.
LEMMA TotalIsSum ==
    ASSUME NEW f, NEW S, IsFiniteSet(S)
    PROVE  \E g : IsSum(g, f, SUBSET S) /\ Total(f, S) = g[S]
<1> DEFINE g == CHOOSE g : IsSum(g, f, SUBSET S)
<1>1. IsSum(g, f, SUBSET S)
  BY SumExists
<1>2. Total(f, S) = g[S]
  BY DEF Total, MapThenSumSet, MapThenFoldSet, IsSum, Pick
<1> QED
  BY <1>1, <1>2

\* Any two of them agree.
LEMMA SumsAgree ==
    ASSUME NEW f, NEW S, IsFiniteSet(S), NEW D, NEW E, SUBSET S \subseteq D, SUBSET S \subseteq E,
           NEW g, NEW h, IsSum(g, f, D), IsSum(h, f, E)
    PROVE  g[S] = h[S]
<1> DEFINE T == {n \in Nat : \A s \in SUBSET S : Cardinality(s) = n => g[s] = h[s]}
<1>1. \A s \in SUBSET S : IsFiniteSet(s) /\ Cardinality(s) \in Nat /\ (Cardinality(s) = 0 <=> s = {})
  BY FS_Subset, FS_EmptySet, FS_CardinalityType
<1>2. ASSUME NEW s \in SUBSET S, s # {}
      PROVE  /\ Pick(s) \in s /\ s \ {Pick(s)} \in SUBSET S
             /\ Cardinality(s \ {Pick(s)}) = Cardinality(s) - 1
  BY <1>1, <1>2, FS_RemoveElement DEF Pick
<1>3. \A s \in SUBSET S :
        /\ g[s] = IF s = {} THEN 0 ELSE f[Pick(s)] + g[s \ {Pick(s)}]
        /\ h[s] = IF s = {} THEN 0 ELSE f[Pick(s)] + h[s \ {Pick(s)}]
  BY DEF IsSum
<1>4. 0 \in T
  BY <1>1, <1>3
<1>5. ASSUME NEW n \in T PROVE n + 1 \in T
  <2>1. ASSUME NEW s \in SUBSET S, Cardinality(s) = n + 1 PROVE g[s] = h[s]
    <3>1. s # {} /\ Cardinality(s \ {Pick(s)}) = n /\ s \ {Pick(s)} \in SUBSET S
      BY <1>1, <1>2, <2>1
    <3>2. g[s \ {Pick(s)}] = h[s \ {Pick(s)}]
      BY <3>1
    <3> QED
      BY <1>3, <3>1, <3>2
  <2> QED
    BY <2>1
<1>6. T = Nat
  <2>1. T \subseteq Nat
    OBVIOUS
  <2> HIDE DEF T
  <2> QED BY <1>4, <1>5, <2>1, NaturalsByInduction
<1> QED
  BY <1>1, <1>6

\* A sum, one element taken out of it.
LEMMA TotalOfPick ==
    ASSUME NEW f, NEW S, IsFiniteSet(S)
    PROVE  /\ S = {} => Total(f, S) = 0
           /\ S # {} => Total(f, S) = f[Pick(S)] + Total(f, S \ {Pick(S)})
<1>1. PICK g : IsSum(g, f, SUBSET S) /\ Total(f, S) = g[S]
  BY TotalIsSum
<1>2. g[S] = IF S = {} THEN 0 ELSE f[Pick(S)] + g[S \ {Pick(S)}]
  BY <1>1 DEF IsSum
<1>3. IsFiniteSet(S \ {Pick(S)})
  BY FS_Subset
<1>4. PICK h : IsSum(h, f, SUBSET (S \ {Pick(S)})) /\ Total(f, S \ {Pick(S)}) = h[S \ {Pick(S)}]
  BY <1>3, TotalIsSum
<1>5. g[S \ {Pick(S)}] = h[S \ {Pick(S)}]
  BY <1>1, <1>3, <1>4, SumsAgree
<1> QED
  BY <1>1, <1>2, <1>4, <1>5

\* Nothing adds up to nothing.
LEMMA TotalEmpty ==
    ASSUME NEW f
    PROVE  Total(f, {}) = 0
  BY TotalOfPick, FS_EmptySet

\* A sum of integers is one, and it does not matter which is taken out of it.
LEMMA TotalRemove ==
    ASSUME NEW f, NEW S, IsFiniteSet(S), \A x \in S : f[x] \in Int
    PROVE  /\ Total(f, S) \in Int
           /\ \A x \in S : Total(f, S) = f[x] + Total(f, S \ {x})
<1> DEFINE Good(s) == /\ Total(f, s) \in Int
                      /\ \A x \in s : Total(f, s) = f[x] + Total(f, s \ {x})
           T == {n \in Nat : \A s \in SUBSET S : Cardinality(s) <= n => Good(s)}
<1>1. \A s \in SUBSET S : IsFiniteSet(s) /\ Cardinality(s) \in Nat /\ (Cardinality(s) = 0 <=> s = {})
  BY FS_Subset, FS_EmptySet, FS_CardinalityType
<1>2. 0 \in T
  BY <1>1, TotalOfPick
<1>3. ASSUME NEW n \in T PROVE n + 1 \in T
  <2>1. ASSUME NEW s \in SUBSET S, Cardinality(s) = n + 1 PROVE Good(s)
    <3> DEFINE p == Pick(s)
    <3>1. s # {} /\ p \in s
      BY <1>1, <2>1 DEF Pick
    <3>2. \A x \in s : s \ {x} \in SUBSET S /\ Cardinality(s \ {x}) = n
      <4> TAKE x \in s
      <4>1. Cardinality(s \ {x}) = Cardinality(s) - 1
        BY <1>1, FS_RemoveElement
      <4>2. Cardinality(s) = n + 1 /\ n \in Nat
        BY <2>1
      <4> QED
        BY <4>1, <4>2
    <3>3. \A x \in s : Good(s \ {x})
      BY <3>2
    <3>4. Total(f, s) = f[p] + Total(f, s \ {p})
      BY <1>1, <3>1, TotalOfPick
    <3> HIDE DEF p
    <3>5. Total(f, s) \in Int /\ f[p] \in Int
      BY <3>1, <3>3, <3>4
    <3>6. ASSUME NEW x \in s, x # p PROVE Total(f, s) = f[x] + Total(f, s \ {x})
      <4>1. x \in s \ {p} /\ p \in s \ {x} /\ (s \ {p}) \ {x} = (s \ {x}) \ {p}
        BY <3>1, <3>6
      <4>2. Total(f, s \ {p}) = f[x] + Total(f, (s \ {p}) \ {x})
        BY <3>1, <3>3, <4>1
      <4>3. Total(f, s \ {x}) = f[p] + Total(f, (s \ {x}) \ {p})
        BY <3>3, <4>1
      <4>4. f[x] \in Int /\ Total(f, s \ {x}) \in Int /\ Total(f, s \ {p}) \in Int
        BY <3>1, <3>3
      <4>5. Total(f, (s \ {p}) \ {x}) \in Int
        <5>1. Cardinality((s \ {p}) \ {x}) <= n
          <6>1. Cardinality((s \ {p}) \ {x}) = Cardinality(s \ {p}) - 1
            BY <1>1, <3>1, <3>2, <4>1, FS_RemoveElement
          <6> QED
            BY <3>1, <3>2, <6>1
        <5> QED
          BY <5>1
      <4> QED
        <5>1. Total(f, (s \ {x}) \ {p}) = Total(f, (s \ {p}) \ {x})
          BY <4>1
        <5> QED
          BY <3>4, <3>5, <4>2, <4>3, <4>4, <4>5, <5>1
    <3> QED
      BY <3>4, <3>5, <3>6
  <2>2. \A s \in SUBSET S : Cardinality(s) <= n + 1 => Cardinality(s) <= n \/ Cardinality(s) = n + 1
    BY <1>1
  <2> QED
    BY <2>1, <2>2
<1>4. T = Nat
  <2>1. T \subseteq Nat
    OBVIOUS
  <2> HIDE DEF T
  <2> QED BY <1>2, <1>3, <2>1, NaturalsByInduction
<1> QED
  BY <1>1, <1>4


\* One element more.
LEMMA TotalAdd ==
    ASSUME NEW f, NEW S, IsFiniteSet(S), NEW x, x \notin S,
           \A y \in S \cup {x} : f[y] \in Int
    PROVE  Total(f, S \cup {x}) = Total(f, S) + f[x]
<1>1. IsFiniteSet(S \cup {x})
  BY FS_AddElement
<1>2. Total(f, (S \cup {x}) \ {x}) = Total(f, S)
  <2>1. (S \cup {x}) \ {x} = S
    OBVIOUS
  <2> QED
    BY <2>1, Zenon
<1>3. Total(f, S \cup {x}) = f[x] + Total(f, (S \cup {x}) \ {x})
  BY <1>1, TotalRemove
<1>4. Total(f, S) \in Int
  BY TotalRemove
<1>5. f[x] \in Int
  OBVIOUS
<1> QED
  BY <1>2, <1>3, <1>4, <1>5

\* A sum of what is made of two others is made of their sums.
LEMMA TotalLinear ==
    ASSUME NEW S, IsFiniteSet(S), NEW f, NEW g, NEW h, NEW a \in Int, NEW b \in Int,
           \A x \in S : f[x] \in Int /\ g[x] \in Int /\ h[x] = a * f[x] + b * g[x]
    PROVE  Total(h, S) = a * Total(f, S) + b * Total(g, S)
<1> DEFINE Good == {s \in SUBSET S : Total(h, s) = a * Total(f, s) + b * Total(g, s)}
<1>1. \A s \in SUBSET S : IsFiniteSet(s)
  BY FS_Subset
<1>2. {} \in Good
  BY TotalEmpty
<1>3. ASSUME NEW s \in Good \cap SUBSET S, NEW x \in S \ s PROVE s \cup {x} \in Good
  <2>1. /\ Total(f, s \cup {x}) = Total(f, s) + f[x]
        /\ Total(g, s \cup {x}) = Total(g, s) + g[x]
    BY <1>1, TotalAdd
  <2>2. \A y \in S : h[y] \in Int
    OBVIOUS
  <2>3. Total(h, s \cup {x}) = Total(h, s) + h[x]
    BY <1>1, <2>2, TotalAdd
  <2>4. Total(f, s) \in Int /\ Total(g, s) \in Int
    BY <1>1, TotalRemove
  <2>5. Total(h, s \cup {x}) = a * Total(f, s \cup {x}) + b * Total(g, s \cup {x})
    BY <2>1, <2>3, <2>4
  <2> QED
    BY <2>5
<1>4. S \in Good
  <2> HIDE DEF Good
  <2> QED
    BY <1>2, <1>3, SubsetsByInduction
<1> QED
  BY <1>4

\* Zeros add up to nothing.
LEMMA TotalZero ==
    ASSUME NEW f, NEW S, IsFiniteSet(S), \A x \in S : f[x] = 0
    PROVE  Total(f, S) = 0
<1> DEFINE Good == {s \in SUBSET S : Total(f, s) = 0}
<1>1. {} \in Good
  BY TotalEmpty
<1>2. ASSUME NEW s \in Good \cap SUBSET S, NEW x \in S \ s PROVE s \cup {x} \in Good
  <2>1. IsFiniteSet(s) /\ \A y \in s \cup {x} : f[y] \in Int
    BY FS_Subset
  <2>2. Total(f, s \cup {x}) = Total(f, s) + f[x]
    BY <2>1, TotalAdd
  <2> QED
    BY <2>2
<1>3. S \in Good
  <2> HIDE DEF Good
  <2> QED
    BY <1>1, <1>2, SubsetsByInduction
<1> QED
  BY <1>3

\* Functions that agree on a set have the same sum there.
LEMMA TotalSame ==
    ASSUME NEW S, IsFiniteSet(S), NEW f, NEW h,
           \A x \in S : f[x] \in Int /\ h[x] = f[x]
    PROVE  Total(h, S) = Total(f, S)
<1>1. \A x \in S : h[x] = 1 * f[x] + 0 * f[x]
  OBVIOUS
<1>2. Total(h, S) = 1 * Total(f, S) + 0 * Total(f, S)
  BY <1>1, TotalLinear
<1> QED
  BY <1>2, TotalRemove

\* One element changed.
LEMMA TotalChanged ==
    ASSUME NEW S, IsFiniteSet(S), NEW f, NEW g, NEW e \in S,
           \A x \in S : f[x] \in Int /\ g[x] \in Int,
           \A x \in S \ {e} : g[x] = f[x]
    PROVE  Total(g, S) = Total(f, S) + (g[e] - f[e])
<1> DEFINE F == Total(f, S \ {e})
           G == Total(g, S \ {e})
<1>1. IsFiniteSet(S \ {e})
  BY FS_Subset
<1>2. Total(f, S) = f[e] + F /\ Total(g, S) = g[e] + G
  BY TotalRemove
<1>3. F = G /\ F \in Int
  BY <1>1, TotalSame, TotalRemove
<1>4. f[e] \in Int /\ g[e] \in Int
  OBVIOUS
<1> HIDE DEF F, G
<1> QED
  BY <1>2, <1>3, <1>4

\* The sum over two sets apart.
LEMMA TotalUnion ==
    ASSUME NEW f, NEW R, NEW S, IsFiniteSet(R), IsFiniteSet(S), R \cap S = {},
           \A x \in R \cup S : f[x] \in Int
    PROVE  Total(f, R \cup S) = Total(f, R) + Total(f, S)
<1> DEFINE Good == {s \in SUBSET S : Total(f, R \cup s) = Total(f, R) + Total(f, s)}
<1>1. \A s \in SUBSET S : IsFiniteSet(s) /\ IsFiniteSet(R \cup s)
  BY FS_Subset, FS_Union
<1>2. {} \in Good
  <2>1. R \cup {} = R /\ Total(f, {}) = 0 /\ Total(f, R) \in Int
    BY TotalEmpty, TotalRemove
  <2> QED
    BY <2>1
<1>3. ASSUME NEW s \in Good \cap SUBSET S, NEW x \in S \ s PROVE s \cup {x} \in Good
  <2>1. Total(f, s \cup {x}) = Total(f, s) + f[x]
    BY <1>1, TotalAdd
  <2>2. Total(f, (R \cup s) \cup {x}) = Total(f, R \cup s) + f[x]
    BY <1>1, TotalAdd
  <2>3. Total(f, (R \cup s) \cup {x}) = Total(f, R \cup (s \cup {x}))
    <3>1. (R \cup s) \cup {x} = R \cup (s \cup {x})
      OBVIOUS
    <3> QED
      BY <3>1, Zenon
  <2>4. Total(f, R) \in Int /\ Total(f, s) \in Int /\ f[x] \in Int
    BY <1>1, TotalRemove
  <2>5. Total(f, R \cup (s \cup {x})) = Total(f, R) + Total(f, s \cup {x})
    <3>1. Total(f, R \cup s) = Total(f, R) + Total(f, s)
      OBVIOUS
    <3> QED
      BY <2>1, <2>2, <2>3, <2>4, <3>1
  <2> QED
    BY <2>5
<1>4. S \in Good
  <2> HIDE DEF Good
  <2> QED
    BY <1>2, <1>3, SubsetsByInduction
<1> QED
  BY <1>4

\* A sum of natural numbers is none below any of them.
LEMMA TotalNat ==
    ASSUME NEW f, NEW S, IsFiniteSet(S), \A x \in S : f[x] \in Nat
    PROVE  Total(f, S) \in Nat /\ \A x \in S : f[x] <= Total(f, S)
<1> DEFINE Good == {s \in SUBSET S : Total(f, s) \in Nat}
<1>1. \A s \in SUBSET S : IsFiniteSet(s)
  BY FS_Subset
<1>2. {} \in Good
  BY TotalEmpty
<1>3. ASSUME NEW s \in Good \cap SUBSET S, NEW x \in S \ s PROVE s \cup {x} \in Good
  <2>1. Total(f, s \cup {x}) = Total(f, s) + f[x]
    BY <1>1, TotalAdd
  <2> QED
    BY <2>1
<1>4. \A s \in SUBSET S : s \in Good
  <2> HIDE DEF Good
  <2> QED
    BY <1>2, <1>3, SubsetsByInduction
<1>5. \A x \in S : Total(f, S) = f[x] + Total(f, S \ {x})
  BY TotalRemove
<1>6. \A x \in S : S \ {x} \in SUBSET S
  OBVIOUS
<1>7. \A x \in S : Total(f, S \ {x}) \in Nat
  BY <1>4, <1>6
<1>8. Total(f, S) \in Nat
  BY <1>4
<1>9. ASSUME NEW x \in S PROVE f[x] <= Total(f, S)
  <2> DEFINE rest == Total(f, S \ {x})
  <2>1. Total(f, S) = f[x] + rest /\ f[x] \in Nat /\ rest \in Nat
    BY <1>5, <1>7
  <2> HIDE DEF rest
  <2> QED
    BY <2>1
<1> QED
  BY <1>8, <1>9

\* The powers of b up to the n-th.
IsPower(p, b, n) == p = [k \in 0 .. n |-> IF k = 0 THEN 1 ELSE b * p[k - 1]]

\* The powers of a number, one after the other.
LEMMA PowersExist ==
    ASSUME NEW b \in Int, NEW n \in Nat
    PROVE  \E p : IsPower(p, b, n) /\ Power(b, n) = p[n]
<1> DEFINE T == {k \in Nat : \E p : IsPower(p, b, k)}
<1>1. 0 \in T
  <2>1. IsPower([k \in 0 .. 0 |-> 1], b, 0)
    BY DEF IsPower
  <2> QED
    BY <2>1
<1>2. ASSUME NEW m \in T PROVE m + 1 \in T
  <2>1. PICK p : IsPower(p, b, m)
    OBVIOUS
  <2> DEFINE q == [k \in 0 .. m + 1 |-> IF k = 0 THEN 1 ELSE b * p[k - 1]]
  <2>2. m \in Nat /\ m + 1 \in Nat
    OBVIOUS
  <2>3. \A k \in 0 .. m : p[k] = q[k]
    BY <2>1, <2>2 DEF IsPower
  <2>4. IsPower(q, b, m + 1)
    <3>1. \A k \in 0 .. m + 1 : k # 0 => k - 1 \in 0 .. m
      BY <2>2
    <3>2. \A k \in 0 .. m + 1 : k # 0 => p[k - 1] = q[k - 1]
      BY <2>3, <3>1
    <3> QED
      BY <3>2, Zenon DEF IsPower
  <2> HIDE DEF q
  <2> QED
    BY <2>2, <2>4
<1>3. T = Nat
  <2>1. T \subseteq Nat
    OBVIOUS
  <2> HIDE DEF T
  <2> QED
    BY <1>1, <1>2, <2>1, NaturalsByInduction
<1>4. \E p : IsPower(p, b, n)
  BY <1>3
<1> DEFINE power == CHOOSE p : IsPower(p, b, n)
<1>5. IsPower(power, b, n)
  BY <1>4
<1>6. Power(b, n) = power[n]
  BY DEF Power, IsPower
<1> QED
  BY <1>5, <1>6

\* Each power is b times the one before.
LEMMA PowerNext ==
    ASSUME NEW b \in Int
    PROVE  /\ Power(b, 0) = 1
           /\ \A n \in Nat : Power(b, n) \in Int /\ Power(b, n + 1) = b * Power(b, n)
<1> DEFINE T == {n \in Nat : /\ Power(b, n) \in Int
                             /\ \A m \in Nat : \A p :
                                  n <= m /\ IsPower(p, b, m) => p[n] = Power(b, n)}
<1>0. Power(b, 0) = 1
  BY PowersExist DEF IsPower
<1>1. 0 \in T
  BY <1>0 DEF IsPower
<1>2. ASSUME NEW n \in T PROVE n + 1 \in T /\ Power(b, n + 1) = b * Power(b, n)
  <2>1. n \in Nat /\ n + 1 \in Nat /\ Power(b, n) \in Int
    OBVIOUS
  <2>2. ASSUME NEW m \in Nat, NEW p, n + 1 <= m, IsPower(p, b, m)
        PROVE  p[n + 1] = b * Power(b, n)
    <3>1. n + 1 \in 0 .. m /\ n + 1 # 0 /\ (n + 1) - 1 = n
      BY <2>1, <2>2
    <3>2. p[n + 1] = b * p[(n + 1) - 1]
      BY <2>2, <3>1 DEF IsPower
    <3>3. n <= m
      BY <2>1, <2>2
    <3>4. p[n] = Power(b, n)
      BY <2>2, <3>3
    <3> QED
      BY <3>1, <3>2, <3>4
  <2>3. PICK p : IsPower(p, b, n + 1) /\ Power(b, n + 1) = p[n + 1]
    BY <2>1, PowersExist
  <2>4. Power(b, n + 1) = b * Power(b, n)
    BY <2>1, <2>2, <2>3
  <2>5. Power(b, n + 1) \in Int
    BY <2>1, <2>4
  <2> QED
    BY <2>1, <2>2, <2>4, <2>5
<1>3. T = Nat
  <2>1. T \subseteq Nat /\ \A n \in T : n + 1 \in T
    BY <1>2
  <2> HIDE DEF T
  <2> QED
    BY <1>1, <2>1, NaturalsByInduction
<1>4. \A n \in Nat : n \in T
  BY <1>3
<1>5. \A n \in T : Power(b, n) \in Int
  OBVIOUS
<1> HIDE DEF T
<1> QED
  BY <1>0, <1>2, <1>4, <1>5

\* Powers of one number multiply.
LEMMA PowerSum ==
    ASSUME NEW b \in Int, NEW m \in Nat, NEW n \in Nat
    PROVE  Power(b, m + n) = Power(b, m) * Power(b, n)
<1> DEFINE T == {k \in Nat : Power(b, m + k) = Power(b, m) * Power(b, k)}
<1>1. 0 \in T
  <2>1. m + 0 = m
    OBVIOUS
  <2> QED
    BY <2>1, PowerNext
<1>2. ASSUME NEW k \in T PROVE k + 1 \in T
  <2>1. m + (k + 1) = (m + k) + 1 /\ m + k \in Nat /\ k \in Nat
    OBVIOUS
  <2>2. Power(b, m + (k + 1)) = b * Power(b, m + k)
    BY <2>1, PowerNext
  <2>3. Power(b, k + 1) = b * Power(b, k)
    BY <2>1, PowerNext
  <2>4. Power(b, m) \in Int /\ Power(b, k) \in Int
    BY PowerNext
  <2>5. Power(b, m + k) = Power(b, m) * Power(b, k)
    OBVIOUS
  <2>6. b * (Power(b, m) * Power(b, k)) = Power(b, m) * (b * Power(b, k))
    BY <2>4
  <2> QED
    BY <2>1, <2>2, <2>3, <2>5, <2>6
<1>3. T = Nat
  <2>1. T \subseteq Nat
    OBVIOUS
  <2> HIDE DEF T
  <2> QED
    BY <1>1, <1>2, <2>1, NaturalsByInduction
<1> QED
  BY <1>3

\* A natural number to a power is natural; one that is not 0 never becomes 0.
LEMMA PowerNat ==
    ASSUME NEW b \in Nat, NEW n \in Nat
    PROVE  Power(b, n) \in Nat /\ (b > 0 => Power(b, n) > 0)
<1> DEFINE T == {k \in Nat : Power(b, k) \in Nat /\ (b > 0 => Power(b, k) > 0)}
<1>1. 0 \in T
  BY PowerNext
<1>2. ASSUME NEW k \in T PROVE k + 1 \in T
  <2>1. Power(b, k + 1) = b * Power(b, k)
    BY PowerNext
  <2>2. Power(b, k) \in Nat /\ (b > 0 => Power(b, k) > 0)
    OBVIOUS
  <2> QED
    BY <2>1, <2>2
<1>3. T = Nat
  <2>1. T \subseteq Nat
    OBVIOUS
  <2> HIDE DEF T
  <2> QED
    BY <1>1, <1>2, <2>1, NaturalsByInduction
<1> QED
  BY <1>3

\* A remainder is known by the number it leaves.
LEMMA RemainderIs ==
    ASSUME NEW m \in Nat \ {0}, NEW q \in Int, NEW r \in 0 .. m - 1
    PROVE  (m * q + r) % m = r
  BY SMTT(30)

\* The remainder of a sum or product is that of the one made of remainders.
LEMMA RemainderOfParts ==
    ASSUME NEW m \in Nat \ {0}, NEW x \in Int, NEW y \in Int
    PROVE  /\ ((x % m) + y) % m = (x + y) % m
           /\ ((x % m) * y) % m = (x * y) % m
<1>1. \A z \in Int : z % m \in 0 .. m - 1 /\ z \div m \in Int /\ z = (m * (z \div m)) + (z % m)
  OBVIOUS
<1>2. ASSUME NEW k \in Int, NEW z \in Int PROVE (m * k + z) % m = z % m
  <2> DEFINE q == z \div m
             r == z % m
  <2>1. q \in Int /\ r \in 0 .. m - 1 /\ z = m * q + r
    BY <1>1
  <2> HIDE DEF q, r
  <2>2. m * k + z = m * (k + q) + r /\ k + q \in Int
    BY <2>1
  <2>3. (m * k + z) % m = r
    BY <2>1, <2>2, RemainderIs
  <2> QED
    BY <2>3 DEF r
<1> DEFINE q == x \div m
           r == x % m
<1>3. q \in Int /\ r \in 0 .. m - 1 /\ x = m * q + r
  BY <1>1
<1> HIDE DEF q, r
<1>4. (r + y) % m = (x + y) % m
  <2>1. x + y = m * q + (r + y) /\ r + y \in Int
    BY <1>3
  <2> QED
    BY <1>2, <1>3, <2>1, ZenonT(60)
<1>5. (r * y) % m = (x * y) % m
  <2>1. x * y = m * (q * y) + r * y /\ r * y \in Int /\ q * y \in Int
    BY <1>3
  <2> QED
    BY <1>2, <2>1
<1> QED
  BY <1>4, <1>5 DEF r

\* Where a sequence holds a value.
PlacesOf(x, s) == {k \in DOMAIN s : s[k] = x}

\* The places of two sequences are those of one, and those of the other behind it.
LEMMA PlacesOfConcat ==
    ASSUME NEW S, NEW s \in Seq(S), NEW t \in Seq(S), NEW x
    PROVE  /\ Cardinality(PlacesOf(x, s)) \in Nat
           /\ Cardinality(PlacesOf(x, s \o t))
                = Cardinality(PlacesOf(x, s)) + Cardinality(PlacesOf(x, t))
<1> DEFINE n == Len(s)
           moved == {n + k : k \in PlacesOf(x, t)}
<1>1. n \in Nat /\ Len(t) \in Nat /\ DOMAIN s = 1 .. n /\ DOMAIN t = 1 .. Len(t)
  OBVIOUS
<1>2. /\ DOMAIN (s \o t) = 1 .. n + Len(t)
      /\ \A i \in 1 .. n + Len(t) : (s \o t)[i] = IF i <= n THEN s[i] ELSE t[i - n]
  OBVIOUS
<1>3. /\ IsFiniteSet(PlacesOf(x, s)) /\ IsFiniteSet(PlacesOf(x, t))
      /\ Cardinality(PlacesOf(x, s)) \in Nat /\ Cardinality(PlacesOf(x, t)) \in Nat
  <2>1. PlacesOf(x, s) \in SUBSET (1 .. n) /\ PlacesOf(x, t) \in SUBSET (1 .. Len(t))
    BY <1>1 DEF PlacesOf
  <2>2. IsFiniteSet(1 .. n) /\ IsFiniteSet(1 .. Len(t))
    BY <1>1, FS_Interval
  <2> QED
    BY <2>1, <2>2, FS_Subset, FS_CardinalityType
<1> HIDE DEF n
<1>4. IsFiniteSet(moved) /\ Cardinality(moved) = Cardinality(PlacesOf(x, t))
  <2> DEFINE f == [k \in PlacesOf(x, t) |-> n + k]
  <2>1. \A k \in PlacesOf(x, t) : k \in Nat
    BY <1>1 DEF PlacesOf
  <2>2. f \in Bijection(PlacesOf(x, t), moved)
    BY <1>1, <2>1 DEF Bijection, Injection, Surjection, IsInjective
  <2> QED
    BY <1>3, <2>2, FS_Bijection DEF ExistsBijection
<1>5. PlacesOf(x, s \o t) = PlacesOf(x, s) \cup moved
  <2>1. ASSUME NEW k \in PlacesOf(x, s \o t) PROVE k \in PlacesOf(x, s) \cup moved
    <3>1. k \in 1 .. n + Len(t) /\ (s \o t)[k] = x
      BY <1>2 DEF PlacesOf
    <3>2. CASE k <= n
      BY <1>1, <1>2, <3>1, <3>2 DEF PlacesOf
    <3>3. CASE k > n
      <4>1. k - n \in 1 .. Len(t) /\ t[k - n] = x /\ k = n + (k - n)
        BY <1>1, <1>2, <3>1, <3>3
      <4>2. k - n \in PlacesOf(x, t)
        BY <1>1, <4>1 DEF PlacesOf
      <4> QED
        BY <4>1, <4>2
    <3> QED
      BY <1>1, <3>1, <3>2, <3>3
  <2>2. ASSUME NEW k \in PlacesOf(x, s) PROVE k \in PlacesOf(x, s \o t)
    BY <1>1, <1>2 DEF PlacesOf
  <2>3. ASSUME NEW k \in PlacesOf(x, t) PROVE n + k \in PlacesOf(x, s \o t)
    <3>1. k \in 1 .. Len(t) /\ t[k] = x
      BY <1>1 DEF PlacesOf
    <3>2. n + k \in 1 .. n + Len(t) /\ ~(n + k <= n) /\ (n + k) - n = k
      BY <1>1, <3>1
    <3> QED
      BY <1>2, <3>1, <3>2 DEF PlacesOf
  <2> QED
    BY <2>1, <2>2, <2>3
<1>6. PlacesOf(x, s) \cap moved = {}
  <2>1. \A k \in PlacesOf(x, s) : k \in 1 .. n
    BY <1>1 DEF PlacesOf
  <2>2. \A k \in PlacesOf(x, t) : k \in 1 .. Len(t)
    BY <1>1 DEF PlacesOf
  <2> QED
    BY <1>1, <2>1, <2>2
<1>7. Cardinality(PlacesOf(x, s) \cup moved) = Cardinality(PlacesOf(x, s)) + Cardinality(moved)
  <2> HIDE DEF moved
  <2>1. Cardinality(PlacesOf(x, s) \cup moved) = Cardinality(PlacesOf(x, s)) + Cardinality(moved)
          - Cardinality(PlacesOf(x, s) \cap moved)
    BY <1>3, <1>4, FS_Union
  <2>2. Cardinality(PlacesOf(x, s) \cap moved) = 0
    BY <1>6, FS_EmptySet
  <2> QED
    BY <1>3, <1>4, <2>1, <2>2
<1> QED
  BY <1>3, <1>4, <1>5, <1>7

\* The same of the head and what is behind it.
LEMMA PlacesOfTail ==
    ASSUME NEW S, NEW s \in Seq(S), s # <<>>, NEW x
    PROVE  Cardinality(PlacesOf(x, s))
             = (IF Head(s) = x THEN 1 ELSE 0) + Cardinality(PlacesOf(x, Tail(s)))
<1>1. /\ <<Head(s)>> \in Seq(S) /\ Tail(s) \in Seq(S) /\ Head(s) \in S
      /\ Len(Tail(s)) = Len(s) - 1 /\ Len(s) \in Nat \ {0} /\ Head(s) = s[1]
      /\ \A k \in 1 .. Len(s) - 1 : Tail(s)[k] = s[k + 1]
  BY TailFacts
<1>2. s = <<Head(s)>> \o Tail(s)
  <2>1. Len(<<Head(s)>>) = 1 /\ <<Head(s)>>[1] = Head(s)
    OBVIOUS
  <2>2. /\ <<Head(s)>> \o Tail(s) \in Seq(S)
        /\ Len(<<Head(s)>> \o Tail(s)) = 1 + Len(Tail(s))
        /\ \A i \in 1 .. 1 + Len(Tail(s)) : (<<Head(s)>> \o Tail(s))[i] =
               IF i <= 1 THEN <<Head(s)>>[i] ELSE Tail(s)[i - 1]
    BY <1>1, <2>1, ConcatProperties
  <2>3. Len(<<Head(s)>> \o Tail(s)) = Len(s)
    BY <1>1, <2>2
  <2>4. ASSUME NEW i \in 1 .. Len(s) PROVE (<<Head(s)>> \o Tail(s))[i] = s[i]
    <3>1. CASE i = 1
      BY <1>1, <2>1, <2>2, <3>1
    <3>2. CASE i # 1
      <4>1. i - 1 \in 1 .. Len(s) - 1 /\ (i - 1) + 1 = i /\ ~(i <= 1) /\ i \in 1 .. 1 + Len(Tail(s))
        BY <1>1, <3>2
      <4> QED
        BY <1>1, <2>2, <4>1
    <3> QED
      BY <3>1, <3>2
  <2> QED
    BY <2>2, <2>3, <2>4, SeqEqual
<1>3. Cardinality(PlacesOf(x, <<Head(s)>>)) = IF Head(s) = x THEN 1 ELSE 0
  <2>1. PlacesOf(x, <<Head(s)>>) = IF Head(s) = x THEN {1} ELSE {}
    BY DEF PlacesOf
  <2> QED
    BY <2>1, FS_Singleton, FS_EmptySet
<1>4. Cardinality(PlacesOf(x, <<Head(s)>> \o Tail(s)))
        = Cardinality(PlacesOf(x, <<Head(s)>>)) + Cardinality(PlacesOf(x, Tail(s)))
  BY <1>1, PlacesOfConcat
<1> QED
  BY <1>2, <1>3, <1>4

\* g has m values of f, from the n-th on.
IsRest(g, f, n, m) == \A k \in 1 .. m : g[k] = f[k + n]

\* The sum over the places up to n + m is that up to n, and that of the rest moved down.
LEMMA TotalShift ==
    ASSUME NEW f, NEW g, NEW n \in Nat, NEW m \in Nat,
           \A k \in 1 .. n + m : f[k] \in Int, IsRest(g, f, n, m)
    PROVE  /\ Total(f, 1 .. n + m) = Total(f, 1 .. n) + Total(g, 1 .. m)
           /\ Total(f, 1 .. n) \in Int /\ Total(g, 1 .. m) \in Int
<1>0. \A k \in 1 .. m : g[k] = f[k + n]
  BY DEF IsRest
<1> DEFINE Good(j) == Total(f, 1 .. n + j) = Total(f, 1 .. n) + Total(g, 1 .. j)
           T == {j \in Nat : j <= m => Good(j)}
<1>1. \A j \in Nat : j <= m => /\ \A k \in 1 .. n + j : f[k] \in Int
                               /\ \A k \in 1 .. j : g[k] \in Int
  <2> SUFFICES ASSUME NEW j \in Nat, j <= m
               PROVE  /\ \A k \in 1 .. n + j : f[k] \in Int
                      /\ \A k \in 1 .. j : g[k] \in Int
    OBVIOUS
  <2>1. \A k \in 1 .. n + j : k \in 1 .. n + m
    OBVIOUS
  <2>2. \A k \in 1 .. j : k \in 1 .. m /\ k + n \in 1 .. n + m
    OBVIOUS
  <2> QED
    BY <1>0, <2>1, <2>2
<1>2. \A j \in Nat : IsFiniteSet(1 .. j)
  BY FS_Interval
<1>3. \A j \in Nat : j <= m => Total(f, 1 .. n + j) \in Int /\ Total(g, 1 .. j) \in Int
  <2> SUFFICES ASSUME NEW j \in Nat, j <= m
               PROVE  Total(f, 1 .. n + j) \in Int /\ Total(g, 1 .. j) \in Int
    OBVIOUS
  <2>1. n + j \in Nat
    OBVIOUS
  <2> QED
    BY <1>1, <1>2, <2>1, TotalRemove
<1>4. 0 \in T
  <2>1. 1 .. 0 = {} /\ n + 0 = n
    OBVIOUS
  <2>2. Total(g, 1 .. 0) = 0
    BY <2>1, TotalEmpty
  <2>3. Total(f, 1 .. n) \in Int
    BY <1>2, TotalRemove
  <2>4. Good(0)
    BY ONLY <2>1, <2>2, <2>3
  <2> HIDE DEF Good
  <2> QED
    BY <2>4
<1>5. ASSUME NEW j \in T PROVE j + 1 \in T
  <2> SUFFICES ASSUME j + 1 <= m PROVE Good(j + 1)
    OBVIOUS
  <2>1. j \in Nat /\ j <= m /\ Good(j) /\ j + 1 \in Nat /\ n + j \in Nat
    OBVIOUS
  <2>2. /\ 1 .. j + 1 = (1 .. j) \cup {j + 1} /\ j + 1 \notin 1 .. j
        /\ 1 .. n + (j + 1) = (1 .. n + j) \cup {n + j + 1} /\ n + j + 1 \notin 1 .. n + j
    <3>1. \A i \in Nat : 1 .. i + 1 = (1 .. i) \cup {i + 1} /\ i + 1 \notin 1 .. i
      OBVIOUS
    <3>2. n + (j + 1) = (n + j) + 1
      BY <2>1
    <3> QED
      BY ONLY <2>1, <3>1, <3>2
  <2>3. PICK F : F = 1 .. n + j
    OBVIOUS
  <2>4. PICK G : G = 1 .. j
    OBVIOUS
  <2>5. Total(f, F \cup {n + j + 1}) = Total(f, F) + f[n + j + 1]
    <3>1. \A k \in F \cup {n + j + 1} : f[k] \in Int
      BY <2>1, <2>3
    <3>2. IsFiniteSet(F) /\ n + j + 1 \notin F
      BY <1>2, <2>1, <2>2, <2>3
    <3> QED
      BY ONLY <3>1, <3>2, TotalAdd
  <2>6. Total(g, G \cup {j + 1}) = Total(g, G) + g[j + 1]
    <3>1. \A k \in G \cup {j + 1} : g[k] \in Int
      <4>1. \A k \in 1 .. j + 1 : g[k] \in Int
        BY <1>1, <2>1
      <4>2. G \cup {j + 1} = 1 .. j + 1
        BY ONLY <2>2, <2>4
      <4> QED
        BY ONLY <4>1, <4>2
    <3>2. IsFiniteSet(G) /\ j + 1 \notin G
      BY <1>2, <2>1, <2>2, <2>4
    <3> QED
      BY ONLY <3>1, <3>2, TotalAdd
  <2>7. g[j + 1] = f[n + j + 1] /\ f[n + j + 1] \in Int
    <3>1. j + 1 \in 1 .. m /\ (j + 1) + n = n + j + 1 /\ n + j + 1 \in 1 .. n + m
      BY <2>1
    <3> QED
      BY <1>0, <3>1
  <2>8. Total(f, 1 .. n + j) \in Int /\ Total(g, 1 .. j) \in Int
    BY <1>3, <2>1
  <2>9. Total(f, 1 .. n) \in Int
    <3>1. 0 <= m /\ n + 0 = n
      OBVIOUS
    <3>2. Total(f, 1 .. n + 0) \in Int
      BY <1>3, <3>1
    <3> QED
      BY ONLY <3>1, <3>2
  <2>10. Total(f, 1 .. n + j) = Total(f, 1 .. n) + Total(g, 1 .. j)
    BY <2>1
  <2>11. /\ Total(f, 1 .. n + (j + 1)) = Total(f, F \cup {n + j + 1})
         /\ Total(g, 1 .. j + 1) = Total(g, G \cup {j + 1})
    BY <2>2, <2>3, <2>4, Zenon
  <2> QED
    BY ONLY <2>3, <2>4, <2>5, <2>6, <2>7, <2>8, <2>9, <2>10, <2>11
<1>6. T = Nat
  <2>1. T \subseteq Nat
    OBVIOUS
  <2> HIDE DEF T
  <2> QED
    BY <1>4, <1>5, <2>1, NaturalsByInduction
<1>7. n + 0 = n /\ 0 <= m /\ m <= m
  OBVIOUS
<1>8. Total(f, 1 .. n + 0) \in Int /\ Total(g, 1 .. m) \in Int
  BY ONLY <1>3, <1>7, m \in Nat
<1>9. Good(m)
  <2>1. m \in T
    BY <1>6
  <2> QED
    BY <2>1
<1> QED
  BY <1>7, <1>8, <1>9

\* A set of numbers below a bound has a greatest one, Max.
LEMMA MaxIsGreatest ==
    ASSUME NEW n \in Nat, NEW S \in SUBSET (0 .. n), S # {}
    PROVE  Max(S) \in S /\ \A x \in S : x <= Max(S)
<1> DEFINE T == {n - x : x \in S}
<1>0. \A x \in S : x \in Int /\ n - x \in Nat
  OBVIOUS
<1>1. T \subseteq Nat /\ T # {}
  BY <1>0
<1>2. PICK t \in T : \A u \in T : t <= u
  <2> HIDE DEF T
  <2> QED
    BY <1>1, LeastNatural
<1>3. PICK x \in S : t = n - x
  OBVIOUS
<1>4. \A y \in S : x >= y
  <2> TAKE y \in S
  <2>1. n - y \in T
    OBVIOUS
  <2>2. n - x <= n - y
    BY <1>2, <1>3, <2>1
  <2>3. x \in Int /\ y \in Int
    BY <1>0
  <2> QED
    BY <2>2, <2>3
<1>5. Max(S) \in S /\ \A y \in S : Max(S) >= y
  BY <1>3, <1>4 DEF Max
<1> QED
  BY <1>0, <1>5

\* g has the n values of f but the first p, and v behind them.
IsQueue(g, f, n, p, v) ==
    /\ \A k \in 1 .. n : f[k] \in Int
    /\ \A k \in 1 .. n - p : g[k] = f[k + p]
    /\ g[n - p + 1] = v

\* A queue of n numbers, of which the first p go and to which one is added.
LEMMA TotalQueue ==
    ASSUME NEW f, NEW g, NEW n \in Nat, NEW p \in 0 .. n, NEW v \in Int,
           IsQueue(g, f, n, p, v)
    PROVE  /\ Total(g, 1 .. n - p) = Total(f, 1 .. n) - Total(f, 1 .. p)
           /\ Total(g, 1 .. n - p + 1) = Total(f, 1 .. n) - Total(f, 1 .. p) + v
<1>0. /\ \A k \in 1 .. n : f[k] \in Int
      /\ \A k \in 1 .. n - p : g[k] = f[k + p]
      /\ g[n - p + 1] = v
  BY DEF IsQueue
<1>1. PICK m \in Nat : m = n - p
  OBVIOUS
<1>2. p \in Nat /\ n = p + m
  BY <1>1
<1>3. \A k \in 1 .. p + m : f[k] \in Int
  BY <1>0, <1>2
<1>4. \A k \in 1 .. m : g[k] = f[k + p]
  BY <1>0, <1>1
<1>5. /\ Total(f, 1 .. p + m) = Total(f, 1 .. p) + Total(g, 1 .. m)
      /\ Total(f, 1 .. p) \in Int /\ Total(g, 1 .. m) \in Int
  <2>1. PICK r \in Nat : r = p
    BY <1>2
  <2>2. (\A k \in 1 .. r + m : f[k] \in Int) /\ IsRest(g, f, r, m)
    BY ONLY <1>3, <1>4, <2>1 DEF IsRest
  <2>3. /\ Total(f, 1 .. r + m) = Total(f, 1 .. r) + Total(g, 1 .. m)
        /\ Total(f, 1 .. r) \in Int /\ Total(g, 1 .. m) \in Int
    BY ONLY <2>2, TotalShift
  <2> QED
    BY ONLY <2>1, <2>3
<1>6. Total(g, (1 .. m) \cup {m + 1}) = Total(g, 1 .. m) + g[m + 1]
  <2>1. PICK S : S = 1 .. m
    OBVIOUS
  <2>2. IsFiniteSet(S) /\ m + 1 \notin S
    BY <2>1, FS_Interval
  <2>3. \A k \in S \cup {m + 1} : g[k] \in Int
    <3>1. \A k \in 1 .. m : k + p \in 1 .. p + m
      BY <1>2
    <3>2. \A k \in 1 .. m : g[k] \in Int
      BY <1>3, <1>4, <3>1
    <3>3. g[m + 1] \in Int
      BY <1>0, <1>1
    <3> QED
      BY ONLY <2>1, <3>2, <3>3
  <2> QED
    BY ONLY <2>1, <2>2, <2>3, TotalAdd, ZenonT(60)
<1>7. (1 .. m) \cup {m + 1} = 1 .. m + 1
  OBVIOUS
<1>8. Total(g, 1 .. m + 1) = Total(g, 1 .. m) + v
  BY <1>0, <1>1, <1>6, <1>7
<1>9. PICK a \in Int : a = Total(f, 1 .. p)
  BY <1>5
<1>10. PICK b \in Int : b = Total(g, 1 .. m)
  BY <1>5
<1>11. Total(f, 1 .. n) = a + b
  BY <1>2, <1>5, <1>9, <1>10
<1> QED
  BY <1>1, <1>8, <1>9, <1>10, <1>11

\* Each prefix of the values adds one to that before.
LEMMA TotalNext ==
    ASSUME NEW f, NEW n \in Nat, \A k \in 1 .. n + 1 : f[k] \in Int
    PROVE  /\ Total(f, 1 .. n) \in Int
           /\ Total(f, 1 .. n + 1) = Total(f, 1 .. n) + f[n + 1]
<1>1. 1 .. n + 1 = (1 .. n) \cup {n + 1} /\ n + 1 \notin 1 .. n
  OBVIOUS
<1>2. PICK S : S = 1 .. n
  OBVIOUS
<1>3. IsFiniteSet(S) /\ n + 1 \notin S /\ \A k \in S \cup {n + 1} : f[k] \in Int
  BY <1>1, <1>2, FS_Interval
<1>4. Total(f, S \cup {n + 1}) = Total(f, S) + f[n + 1] /\ Total(f, S) \in Int
  BY ONLY <1>3, TotalAdd, TotalRemove
<1> QED
  BY ONLY <1>1, <1>2, <1>4

\* A number of a sequence is the greatest.
LEMMA GreatestExists ==
    ASSUME NEW n \in Nat, NEW s \in [1 .. n + 1 -> Int]
    PROVE  \E m \in 1 .. n + 1 : \A k \in 1 .. n + 1 : s[k] <= s[m]
<1> DEFINE T == {i \in Nat : i <= n => \E m \in 1 .. i + 1 : \A k \in 1 .. i + 1 : s[k] <= s[m]}
<1>1. 0 \in T
  <2>1. 1 .. 0 + 1 = {1} /\ s[1] \in Int
    OBVIOUS
  <2> QED
    BY <2>1
<1>2. ASSUME NEW i \in T PROVE i + 1 \in T
  <2> SUFFICES ASSUME i + 1 <= n
               PROVE  \E m \in 1 .. (i + 1) + 1 : \A k \in 1 .. (i + 1) + 1 : s[k] <= s[m]
    OBVIOUS
  <2>1. PICK m \in 1 .. i + 1 : \A k \in 1 .. i + 1 : s[k] <= s[m]
    OBVIOUS
  <2>2. \A k \in 1 .. (i + 1) + 1 : s[k] \in Int /\ (k \in 1 .. i + 1 \/ k = i + 2)
    OBVIOUS
  <2>3. i + 2 \in 1 .. (i + 1) + 1 /\ m \in 1 .. (i + 1) + 1
    OBVIOUS
  <2>4. CASE s[i + 2] <= s[m]
    BY <2>1, <2>2, <2>3, <2>4
  <2>5. CASE ~(s[i + 2] <= s[m])
    <3>1. \A k \in 1 .. (i + 1) + 1 : s[k] <= s[i + 2]
      BY <2>1, <2>2, <2>3, <2>5
    <3> QED
      BY <2>3, <3>1
  <2> QED
    BY <2>4, <2>5
<1>3. T = Nat
  <2>1. T \subseteq Nat
    OBVIOUS
  <2> HIDE DEF T
  <2> QED
    BY <1>1, <1>2, <2>1, NaturalsByInduction
<1>4. n \in T
  BY <1>3
<1>5. n <= n
  OBVIOUS
<1> QED
  BY <1>4, <1>5

\* The places of s in the order of what is there.
IsSorting(p, s, n) ==
    /\ p \in Bijection(1 .. n, 1 .. n)
    /\ \A i, j \in 1 .. n : i < j => s[p[i]] <= s[p[j]]

\* Any sequence of numbers can be sorted.
LEMMA SortingExists ==
    ASSUME NEW n \in Nat, NEW s \in [1 .. n -> Int]
    PROVE  \E p : IsSorting(p, s, n)
<1> DEFINE T == {i \in Nat : \A q \in [1 .. i -> Int] : \E p : IsSorting(p, q, i)}
<1>1. 0 \in T
  <2>1. ASSUME NEW q \in [1 .. 0 -> Int] PROVE IsSorting(q, q, 0)
    <3>1. 1 .. 0 = {}
      OBVIOUS
    <3>2. q \in [1 .. 0 -> 1 .. 0]
      BY <3>1
    <3> QED
      BY <3>1, <3>2 DEF IsSorting, Bijection, Injection, Surjection, IsInjective
  <2> QED
    BY <2>1
<1>2. ASSUME NEW i \in T PROVE i + 1 \in T
  <2> SUFFICES ASSUME NEW q \in [1 .. i + 1 -> Int] PROVE \E p : IsSorting(p, q, i + 1)
    OBVIOUS
  <2>0. i \in Nat
    OBVIOUS
  <2>1. PICK m \in 1 .. i + 1 : \A k \in 1 .. i + 1 : q[k] <= q[m]
    BY <2>0, GreatestExists
  <2> DEFINE r == [k \in 1 .. i |-> q[IF k = m THEN i + 1 ELSE k]]
  <2>2. r \in [1 .. i -> Int]
    <3>1. \A k \in 1 .. i : k \in 1 .. i + 1 /\ i + 1 \in 1 .. i + 1
      OBVIOUS
    <3> QED
      BY <3>1
  <2>3. PICK o : IsSorting(o, r, i)
    BY <2>2
  <2>4. /\ o \in [1 .. i -> 1 .. i]
        /\ \A j, k \in 1 .. i : o[j] = o[k] => j = k
        /\ \A k \in 1 .. i : \E j \in 1 .. i : o[j] = k
        /\ \A j, k \in 1 .. i : j < k => r[o[j]] <= r[o[k]]
    BY <2>3 DEF IsSorting, Bijection, Injection, Surjection, IsInjective
  <2> DEFINE p == [k \in 1 .. i + 1 |-> IF k = i + 1 THEN m ELSE IF o[k] = m THEN i + 1 ELSE o[k]]
  <2>5. /\ \A k \in 1 .. i + 1 : p[k] = IF k = i + 1 THEN m ELSE IF o[k] = m THEN i + 1 ELSE o[k]
        /\ \A k \in 1 .. i + 1 : k \in 1 .. i \/ k = i + 1
        /\ \A k \in 1 .. i : k \in 1 .. i + 1 /\ k # i + 1 /\ o[k] \in 1 .. i /\ o[k] # i + 1
        /\ i + 1 \in 1 .. i + 1
    <3>1. \A k \in 1 .. i : o[k] \in 1 .. i
      BY <2>4
    <3>2. /\ \A k \in 1 .. i + 1 : k \in 1 .. i \/ k = i + 1
          /\ \A k \in 1 .. i : k \in 1 .. i + 1 /\ k # i + 1
          /\ i + 1 \in 1 .. i + 1 /\ i + 1 \notin 1 .. i
      BY <2>0
    <3>3. \A k \in 1 .. i + 1 : p[k] = IF k = i + 1 THEN m ELSE IF o[k] = m THEN i + 1 ELSE o[k]
      OBVIOUS
    <3> HIDE DEF p
    <3> QED
      BY ONLY <3>1, <3>2, <3>3, ZenonT(60)
  <2>6. p \in [1 .. i + 1 -> 1 .. i + 1]
    BY <2>5
  <2> HIDE DEF p
  <2>7. \A j, k \in 1 .. i + 1 : p[j] = p[k] => j = k
    BY <2>4, <2>5
  <2>8. \A k \in 1 .. i + 1 : \E j \in 1 .. i + 1 : p[j] = k
    <3> TAKE k \in 1 .. i + 1
    <3>1. CASE k = m
      BY <2>5, <3>1
    <3>2. CASE k # m /\ k = i + 1
      <4>1. m \in 1 .. i
        BY <2>5, <3>2
      <4>2. PICK j \in 1 .. i : o[j] = m
        BY <2>4, <4>1
      <4>3. j \in 1 .. i + 1 /\ p[j] = i + 1
        BY <2>5, <4>2
      <4> QED
        BY <3>2, <4>3
    <3>3. CASE k # m /\ k # i + 1
      <4>1. k \in 1 .. i
        BY <2>5, <3>3
      <4>2. PICK j \in 1 .. i : o[j] = k
        BY <2>4, <4>1
      <4>3. j \in 1 .. i + 1 /\ p[j] = k
        BY <2>5, <3>3, <4>2
      <4> QED
        BY <4>3
    <3> QED
      BY <3>1, <3>2, <3>3
  <2>9. \A k \in 1 .. i : q[p[k]] = r[o[k]]
    BY <2>5
  <2>10. \A j, k \in 1 .. i + 1 : j < k => q[p[j]] <= q[p[k]]
    <3> TAKE j \in 1 .. i + 1, k \in 1 .. i + 1
    <3> SUFFICES ASSUME j < k PROVE q[p[j]] <= q[p[k]]
      OBVIOUS
    <3>1. j \in 1 .. i
      BY <2>0
    <3>2. CASE k = i + 1
      <4>1. p[k] = m
        BY <2>5, <3>2
      <4> QED
        BY <2>1, <2>6, <4>1
    <3>3. CASE k # i + 1
      <4>1. k \in 1 .. i
        BY <2>5, <3>3
      <4> QED
        BY <2>4, <2>9, <3>1, <4>1
    <3> QED
      BY <3>2, <3>3
  <2>11. IsSorting(p, q, i + 1)
    BY <2>6, <2>7, <2>8, <2>10 DEF IsSorting, Bijection, Injection, Surjection, IsInjective
  <2> QED
    BY <2>11
<1>3. T = Nat
  <2>1. T \subseteq Nat
    OBVIOUS
  <2> HIDE DEF T
  <2> QED
    BY <1>1, <1>2, <2>1, NaturalsByInduction
<1>4. n \in T
  BY <1>3
<1> QED
  BY <1>4

\* Of a sequence in order, at most j - 1 numbers are below the j-th, and j at or below it:
\* so it is with the sequence that was sorted.
LEMMA RankCounts ==
    ASSUME NEW n \in Nat, NEW s, \A k \in 1 .. n : s[k] \in Int,
           NEW p, IsSorting(p, s, n), NEW j \in 1 .. n
    PROVE  /\ Cardinality({k \in 1 .. n : s[k] < s[p[j]]}) \in 0 .. j - 1
           /\ Cardinality({k \in 1 .. n : s[k] <= s[p[j]]}) \in j .. n
<1> DEFINE Below == {k \in 1 .. n : s[k] < s[p[j]]}
           Within == {k \in 1 .. n : s[k] <= s[p[j]]}
<1>1. /\ p \in [1 .. n -> 1 .. n]
      /\ \A i, k \in 1 .. n : p[i] = p[k] => i = k
      /\ \A k \in 1 .. n : \E i \in 1 .. n : p[i] = k
      /\ \A i, k \in 1 .. n : i < k => s[p[i]] <= s[p[k]]
  BY DEF IsSorting, Bijection, Injection, Surjection, IsInjective
<1>2. /\ IsFiniteSet(1 .. n) /\ IsFiniteSet(1 .. j) /\ IsFiniteSet(1 .. j - 1)
      /\ Cardinality(1 .. n) = n /\ Cardinality(1 .. j) = j /\ Cardinality(1 .. j - 1) = j - 1
  <2>1. /\ n \in Int /\ j \in Int /\ j - 1 \in Int /\ 1 \in Int
        /\ ~(1 > j) /\ ~(1 > n) /\ (1 > j - 1 => j - 1 = 0)
    OBVIOUS
  <2> QED
    BY <2>1, FS_Interval
<1>3. IsFiniteSet(Below) /\ IsFiniteSet(Within) /\ Cardinality(Within) <= n
  <2>1. Below \in SUBSET (1 .. n) /\ Within \in SUBSET (1 .. n)
    OBVIOUS
  <2> QED
    BY <1>2, <2>1, FS_Subset
<1>4. Cardinality(Below) \in Nat /\ Cardinality(Within) \in Nat
  BY <1>3, FS_CardinalityType
<1>5. Cardinality(Below) <= j - 1
  <2> DEFINE f == [k \in Below |-> CHOOSE i \in 1 .. n : p[i] = k]
  <2>1. \A k \in Below : f[k] \in 1 .. n /\ p[f[k]] = k
    BY <1>1
  <2>2. \A k \in Below : f[k] < j
    <3> SUFFICES ASSUME NEW k \in Below PROVE f[k] < j
      OBVIOUS
    <3>1. PICK i \in 1 .. n : i = f[k]
      BY <2>1
    <3>2. p[i] = k /\ s[k] < s[p[j]] /\ s[k] \in Int
      BY <2>1, <3>1
    <3>3. i # j /\ ~(j < i)
      <4>1. ASSUME j < i PROVE FALSE
        <5>1. s[p[j]] <= s[p[i]]
          BY <1>1, <4>1
        <5>2. p[j] \in 1 .. n /\ s[p[j]] \in Int
          BY <1>1
        <5> QED
          BY <3>2, <5>1, <5>2
      <4>2. ASSUME i = j PROVE FALSE
        BY <3>2, <4>2
      <4> QED
        BY <4>1, <4>2
    <3> QED
      BY <3>1, <3>3
  <2> HIDE DEF f
  <2>3. f \in [Below -> 1 .. j - 1]
    <3>1. \A k \in Below : f[k] \in 1 .. j - 1
      BY <2>1, <2>2
    <3>2. f = [k \in Below |-> f[k]]
      BY DEF f
    <3> HIDE DEF Below
    <3> QED
      BY <3>1, <3>2
  <2> HIDE DEF Below
  <2>4. \A k, l \in Below : f[k] = f[l] => k = l
    BY <2>1, Zenon
  <2>5. f \in Injection(Below, 1 .. j - 1)
    BY <2>3, <2>4 DEF Injection, IsInjective
  <2> QED
    BY <1>2, <2>5, FS_Injection
<1>6. Cardinality(Within) >= j
  <2> DEFINE f == [i \in 1 .. j |-> p[i]]
  <2>1. \A i \in 1 .. j : p[i] \in Within
    <3> SUFFICES ASSUME NEW i \in 1 .. j PROVE s[p[i]] <= s[p[j]] /\ p[i] \in 1 .. n
      OBVIOUS
    <3>1. i \in 1 .. n /\ p[i] \in 1 .. n /\ p[j] \in 1 .. n
      <4>1. i \in 1 .. n
        OBVIOUS
      <4> QED
        BY <1>1, <4>1
    <3>2. i < j \/ i = j
      OBVIOUS
    <3> QED
      BY <1>1, <3>1, <3>2
  <2> HIDE DEF Within
  <2>2. f \in [1 .. j -> Within]
    BY <2>1
  <2>3. \A i, k \in 1 .. j : f[i] = f[k] => i = k
    <3>1. \A i \in 1 .. j : i \in 1 .. n /\ f[i] = p[i]
      OBVIOUS
    <3> HIDE DEF f
    <3> QED
      BY ONLY <1>1, <3>1, Zenon
  <2> HIDE DEF f
  <2>4. f \in Injection(1 .. j, Within)
    BY <2>2, <2>3 DEF Injection, IsInjective
  <2>5. Cardinality(1 .. j) <= Cardinality(Within)
    BY <1>3, <2>4, FS_Injection
  <2> QED
    BY <1>2, <1>4, <2>5
<1> HIDE DEF Below, Within
<1>7. Cardinality(Below) \in 0 .. j - 1 /\ Cardinality(Within) \in j .. n
  BY <1>3, <1>4, <1>5, <1>6
<1> QED
  BY <1>7 DEF Below, Within

-----------------------------------------------------------------------------
(***************************************************************************)
(* Sums of products.  Sums over 1 .. n are linear; the line of least       *)
(* squares leaves errors that cancel, and whose squares add up to what the *)
(* covariance falls short of the variances.                                *)
(***************************************************************************)
\* A function of integers on 1 .. n.
IsIntegers(f, n) == \A k \in 1 .. n : f[k] \in Int

\* h is a f + b g + c i + d.
IsCombined(h, f, g, i, a, b, c, d, n) ==
    \A k \in 1 .. n : h[k] = a * f[k] + b * g[k] + c * i[k] + d

\* A sum of integers.
LEMMA TotalIsInteger ==
    ASSUME NEW n \in Nat, NEW f, IsIntegers(f, n)
    PROVE  Total(f, 1 .. n) \in Int
<1>1. PICK S : S = 1 .. n
  OBVIOUS
<1>2. IsFiniteSet(S) /\ \A k \in S : f[k] \in Int
  BY <1>1, FS_Interval DEF IsIntegers
<1> QED
  BY <1>1, <1>2, TotalRemove

\* The sum of a number, n times.
LEMMA TotalConstant ==
    ASSUME NEW n \in Nat, NEW d \in Int, NEW f, \A k \in 1 .. n : f[k] = d
    PROVE  Total(f, 1 .. n) = d * n
<1> DEFINE T == {m \in Nat : m <= n => Total(f, 1 .. m) = d * m}
<1>1. 0 \in T
  <2>1. 1 .. 0 = {} /\ d * 0 = 0
    OBVIOUS
  <2> QED
    BY <2>1, TotalEmpty
<1>2. ASSUME NEW m \in T PROVE m + 1 \in T
  <2> SUFFICES ASSUME m + 1 <= n PROVE Total(f, 1 .. m + 1) = d * (m + 1)
    OBVIOUS
  <2>1. m \in Nat /\ Total(f, 1 .. m) = d * m
    OBVIOUS
  <2>2. \A k \in 1 .. m + 1 : f[k] = d /\ f[k] \in Int
    OBVIOUS
  <2>3. Total(f, 1 .. m + 1) = Total(f, 1 .. m) + f[m + 1]
    BY <2>1, <2>2, TotalNext
  <2>4. f[m + 1] = d
    BY <2>1, <2>2
  <2>5. d * m + d = d * (m + 1)
    BY <2>1
  <2> QED
    BY <2>1, <2>3, <2>4, <2>5
<1>3. T = Nat
  <2>1. T \subseteq Nat
    OBVIOUS
  <2> HIDE DEF T
  <2> QED
    BY <1>1, <1>2, <2>1, NaturalsByInduction
<1>4. n \in T
  BY <1>3
<1> QED
  BY <1>4

\* The sum of what is made of three functions and a number.
LEMMA TotalCombined ==
    ASSUME NEW n \in Nat, NEW f, NEW g, NEW i, IsIntegers(f, n), IsIntegers(g, n), IsIntegers(i, n),
           NEW a \in Int, NEW b \in Int, NEW c \in Int, NEW d \in Int,
           NEW h, IsCombined(h, f, g, i, a, b, c, d, n)
    PROVE  Total(h, 1 .. n) =
             a * Total(f, 1 .. n) + b * Total(g, 1 .. n) + c * Total(i, 1 .. n) + d * n
<1>1. PICK S : S = 1 .. n
  OBVIOUS
<1>2. /\ IsFiniteSet(S)
      /\ \A k \in S : f[k] \in Int /\ g[k] \in Int /\ i[k] \in Int
  BY <1>1, FS_Interval DEF IsIntegers
<1>3. PICK o : o = [k \in S |-> d]
  OBVIOUS
<1>4. PICK p : p = [k \in S |-> a * f[k] + b * g[k]]
  OBVIOUS
<1>5. PICK q : q = [k \in S |-> c * i[k] + 1 * o[k]]
  OBVIOUS
<1>6. \A k \in S : o[k] = d /\ o[k] \in Int
  BY <1>3
<1>7. \A k \in S : p[k] = a * f[k] + b * g[k] /\ p[k] \in Int
  BY <1>2, <1>4
<1>8. \A k \in S : q[k] = c * i[k] + 1 * o[k] /\ q[k] \in Int
  BY <1>2, <1>5, <1>6
<1>9. \A k \in S : h[k] = 1 * p[k] + 1 * q[k]
  <2> TAKE k \in S
  <2>1. h[k] = a * f[k] + b * g[k] + c * i[k] + d
    BY <1>1 DEF IsCombined
  <2>2. p[k] = a * f[k] + b * g[k] /\ q[k] = c * i[k] + 1 * d
    BY <1>6, <1>7, <1>8
  <2>3. PICK x \in Int : x = a * f[k] + b * g[k]
    BY <1>2
  <2>4. PICK y \in Int : y = c * i[k]
    BY <1>2
  <2> QED
    BY ONLY <2>1, <2>2, <2>3, <2>4, x \in Int, y \in Int, d \in Int
<1>10. Total(p, S) = a * Total(f, S) + b * Total(g, S)
  <2>1. \A k \in S : f[k] \in Int /\ g[k] \in Int /\ p[k] = a * f[k] + b * g[k]
    BY <1>2, <1>7
  <2>2. IsFiniteSet(S)
    BY <1>2
  <2> QED
    BY ONLY <2>1, <2>2, a \in Int, b \in Int, TotalLinear
<1>11. Total(q, S) = c * Total(i, S) + 1 * Total(o, S)
  <2>1. \A k \in S : i[k] \in Int /\ o[k] \in Int /\ q[k] = c * i[k] + 1 * o[k]
    BY <1>2, <1>6, <1>8
  <2>2. 1 \in Int
    OBVIOUS
  <2> QED
    BY ONLY <1>2, <2>1, <2>2, c \in Int, TotalLinear
<1>12. Total(h, S) = 1 * Total(p, S) + 1 * Total(q, S)
  BY ONLY <1>2, <1>7, <1>8, <1>9, 1 \in Int, TotalLinear
<1>13. Total(o, S) = d * n
  BY <1>1, <1>6, TotalConstant
<1>14. PICK F \in Int : F = Total(f, S)
  BY <1>2, TotalRemove
<1>15. PICK G \in Int : G = Total(g, S)
  BY <1>2, TotalRemove
<1>16. PICK I \in Int : I = Total(i, S)
  BY <1>2, TotalRemove
<1>17. Total(h, S) = 1 * (a * F + b * G) + 1 * (c * I + 1 * (d * n))
  BY <1>10, <1>11, <1>12, <1>13, <1>14, <1>15, <1>16
<1>18. 1 * (a * F + b * G) + 1 * (c * I + 1 * (d * n)) = a * F + b * G + c * I + d * n
  OBVIOUS
<1> QED
  BY ONLY <1>1, <1>14, <1>15, <1>16, <1>17, <1>18

\* h is f times g.
IsProduct(h, f, g, n) == \A k \in 1 .. n : h[k] = f[k] * g[k]

\* Products of integers.
LEMMA ProductIsInteger ==
    ASSUME NEW n, NEW f, NEW g, IsIntegers(f, n), IsIntegers(g, n), NEW h, IsProduct(h, f, g, n)
    PROVE  IsIntegers(h, n)
<1> SUFFICES ASSUME NEW k \in 1 .. n PROVE h[k] \in Int
  BY DEF IsIntegers
<1>1. PICK p \in Int : p = f[k]
  BY DEF IsIntegers
<1>2. PICK q \in Int : q = g[k]
  BY DEF IsIntegers
<1>3. h[k] = p * q
  BY <1>1, <1>2 DEF IsProduct
<1> QED
  BY <1>3

\* h is n f less the number F.
IsDeviation(h, f, F, n) == \A k \in 1 .. n : h[k] = n * f[k] - F

\* What a product of deviations is of: f and g, of sums F and G, and of sum FG of their product.
AreDeviations(h, f, g, F, G, FG, n) ==
    /\ IsIntegers(f, n) /\ IsIntegers(g, n)
    /\ F = Total(f, 1 .. n) /\ G = Total(g, 1 .. n)
    /\ \E fg : IsProduct(fg, f, g, n) /\ FG = Total(fg, 1 .. n)
    /\ \E u, v : IsDeviation(u, f, F, n) /\ IsDeviation(v, g, G, n) /\ IsProduct(h, u, v, n)

\* n times the deviations from the average, multiplied: the products less that of the sums.
LEMMA TotalDeviations ==
    ASSUME NEW n \in Nat, NEW f, NEW g, NEW F \in Int, NEW G \in Int, NEW FG \in Int,
           NEW h, AreDeviations(h, f, g, F, G, FG, n)
    PROVE  Total(h, 1 .. n) = n * (n * FG - F * G)
<1>a. PICK fg : IsProduct(fg, f, g, n) /\ FG = Total(fg, 1 .. n)
  BY DEF AreDeviations
<1>b. PICK u, v : IsDeviation(u, f, F, n) /\ IsDeviation(v, g, G, n) /\ IsProduct(h, u, v, n)
  BY DEF AreDeviations
<1>c. IsIntegers(f, n) /\ IsIntegers(g, n) /\ F = Total(f, 1 .. n) /\ G = Total(g, 1 .. n)
  BY DEF AreDeviations
<1>1. IsIntegers(fg, n)
  BY <1>a, <1>c, ProductIsInteger
<1>2. PICK a \in Int : a = n * n
  OBVIOUS
<1>3. PICK b \in Int : b = 0 - n * G
  OBVIOUS
<1>4. PICK c \in Int : c = 0 - n * F
  OBVIOUS
<1>5. PICK d \in Int : d = F * G
  OBVIOUS
<1>6. IsCombined(h, fg, f, g, a, b, c, d, n)
  <2> SUFFICES ASSUME NEW k \in 1 .. n
               PROVE  h[k] = a * fg[k] + b * f[k] + c * g[k] + d
    BY DEF IsCombined
  <2>1. PICK p \in Int : p = f[k]
    BY <1>c DEF IsIntegers
  <2>2. PICK r \in Int : r = g[k]
    BY <1>c DEF IsIntegers
  <2>3. h[k] = (n * p - F) * (n * r - G) /\ fg[k] = p * r
    BY <1>a, <1>b, <2>1, <2>2 DEF IsProduct, IsDeviation
  <2>4. (n * p - F) * (n * r - G)
          = (n * n) * (p * r) + (0 - n * G) * p + (0 - n * F) * r + F * G
    BY ONLY n \in Nat, F \in Int, G \in Int, p \in Int, r \in Int
  <2> QED
    BY ONLY <1>2, <1>3, <1>4, <1>5, <2>1, <2>2, <2>3, <2>4
<1>7. Total(h, 1 .. n) = a * FG + b * F + c * G + d * n
  BY <1>1, <1>6, <1>a, <1>c, TotalCombined
<1>8. (n * n) * FG + (0 - n * G) * F + (0 - n * F) * G + (F * G) * n = n * (n * FG - F * G)
  BY ONLY n \in Nat, F \in Int, G \in Int, FG \in Int
<1> QED
  BY ONLY <1>2, <1>3, <1>4, <1>5, <1>7, <1>8

\* The errors of a line through points, times what they are divided by.
IsErrors(e, x, y, n, X, Y, V, C) ==
    \A k \in 1 .. n : e[k] = V * (n * y[k] - Y) - C * (n * x[k] - X)

\* The sums over the points x[k], y[k]; the two variances and the covariance, times n times n.
AreMoments(x, y, n, X, Y, V, W, C) ==
    /\ IsIntegers(x, n) /\ IsIntegers(y, n)
    /\ X = Total(x, 1 .. n) /\ Y = Total(y, 1 .. n)
    /\ V = n * Total([k \in 1 .. n |-> x[k] * x[k]], 1 .. n) - X * X
    /\ W = n * Total([k \in 1 .. n |-> y[k] * y[k]], 1 .. n) - Y * Y
    /\ C = n * Total([k \in 1 .. n |-> x[k] * y[k]], 1 .. n) - X * Y

\* The errors add up to nothing, also when each is weighted with its x.
LEMMA ErrorsCancel ==
    ASSUME NEW n \in Nat, NEW x, NEW y, NEW X \in Int, NEW Y \in Int,
           NEW V \in Int, NEW W \in Int, NEW C \in Int, AreMoments(x, y, n, X, Y, V, W, C),
           NEW e, IsErrors(e, x, y, n, X, Y, V, C),
           NEW xe, IsProduct(xe, x, e, n)
    PROVE  /\ IsIntegers(e, n) /\ IsIntegers(xe, n)
           /\ Total(e, 1 .. n) = 0 /\ Total(xe, 1 .. n) = 0
<1>1. IsIntegers(x, n) /\ IsIntegers(y, n) /\ X = Total(x, 1 .. n) /\ Y = Total(y, 1 .. n)
  BY DEF AreMoments
<1>2. PICK xx : xx = [k \in 1 .. n |-> x[k] * x[k]]
  OBVIOUS
<1>3. PICK xy : xy = [k \in 1 .. n |-> x[k] * y[k]]
  OBVIOUS
<1>4. IsProduct(xx, x, x, n) /\ IsProduct(xy, x, y, n) /\ IsIntegers(xx, n) /\ IsIntegers(xy, n)
  BY <1>1, <1>2, <1>3 DEF IsProduct, IsIntegers
<1>5. PICK XX \in Int : XX = Total(xx, 1 .. n)
  BY <1>4, TotalIsInteger
<1>6. PICK XY \in Int : XY = Total(xy, 1 .. n)
  BY <1>4, TotalIsInteger
<1>7. V = n * XX - X * X /\ C = n * XY - X * Y
  BY <1>2, <1>3, <1>5, <1>6 DEF AreMoments
<1>8. PICK a \in Int : a = V * n
  OBVIOUS
<1>9. PICK b \in Int : b = 0 - C * n
  OBVIOUS
<1>10. PICK d \in Int : d = C * X - V * Y
  OBVIOUS
<1>11. IsIntegers(e, n) /\ IsIntegers(xe, n)
  <2>1. ASSUME NEW k \in 1 .. n PROVE e[k] \in Int
    <3>1. PICK p \in Int : p = x[k]
      BY <1>1 DEF IsIntegers
    <3>2. PICK r \in Int : r = y[k]
      BY <1>1 DEF IsIntegers
    <3>3. e[k] = V * (n * r - Y) - C * (n * p - X)
      BY <3>1, <3>2 DEF IsErrors
    <3> QED
      BY <3>3
  <2>2. IsIntegers(e, n)
    BY <2>1 DEF IsIntegers
  <2> QED
    BY <1>1, <2>2, ProductIsInteger
<1>12. Total(e, 1 .. n) = 0
  <2>1. IsCombined(e, y, x, x, a, b, 0, d, n)
    <3> SUFFICES ASSUME NEW k \in 1 .. n
                 PROVE  e[k] = a * y[k] + b * x[k] + 0 * x[k] + d
      BY DEF IsCombined
    <3>1. PICK p \in Int : p = x[k]
      BY <1>1 DEF IsIntegers
    <3>2. PICK r \in Int : r = y[k]
      BY <1>1 DEF IsIntegers
    <3>3. e[k] = V * (n * r - Y) - C * (n * p - X)
      BY <3>1, <3>2 DEF IsErrors
    <3>4. V * (n * r - Y) - C * (n * p - X)
            = (V * n) * r + (0 - C * n) * p + 0 * p + (C * X - V * Y)
      OBVIOUS
    <3> QED
      BY ONLY <1>8, <1>9, <1>10, <3>1, <3>2, <3>3, <3>4
  <2>2. Total(e, 1 .. n) = a * Y + b * X + 0 * X + d * n
    BY <1>1, <2>1, TotalCombined
  <2>3. (V * n) * Y + (0 - C * n) * X + 0 * X + (C * X - V * Y) * n = 0
    OBVIOUS
  <2> QED
    BY ONLY <1>8, <1>9, <1>10, <2>2, <2>3
<1>13. Total(xe, 1 .. n) = 0
  <2>1. IsCombined(xe, xy, xx, x, a, b, d, 0, n)
    <3> SUFFICES ASSUME NEW k \in 1 .. n
                 PROVE  xe[k] = a * xy[k] + b * xx[k] + d * x[k] + 0
      BY DEF IsCombined
    <3>1. PICK p \in Int : p = x[k]
      BY <1>1 DEF IsIntegers
    <3>2. PICK r \in Int : r = y[k]
      BY <1>1 DEF IsIntegers
    <3>3. xe[k] = p * (V * (n * r - Y) - C * (n * p - X)) /\ xy[k] = p * r /\ xx[k] = p * p
      BY <1>4, <3>1, <3>2 DEF IsErrors, IsProduct
    <3>4. p * (V * (n * r - Y) - C * (n * p - X))
            = (V * n) * (p * r) + (0 - C * n) * (p * p) + (C * X - V * Y) * p + 0
      OBVIOUS
    <3> QED
      BY ONLY <1>8, <1>9, <1>10, <3>1, <3>2, <3>3, <3>4
  <2>2. Total(xe, 1 .. n) = a * XY + b * XX + d * X + 0 * n
    <3>1. IsIntegers(xy, n) /\ IsIntegers(xx, n) /\ IsIntegers(x, n)
      BY <1>1, <1>4, <1>5, <1>6
    <3>2. 0 \in Int
      OBVIOUS
    <3>3. Total(xe, 1 .. n)
            = a * Total(xy, 1 .. n) + b * Total(xx, 1 .. n) + d * Total(x, 1 .. n) + 0 * n
      BY ONLY n \in Nat, a \in Int, b \in Int, d \in Int, <2>1, <3>1, <3>2, TotalCombined
    <3> QED
      BY ONLY <1>1, <1>5, <1>6, <3>3
  <2>3. (V * n) * XY + (0 - C * n) * XX + (C * X - V * Y) * X + 0 * n
          = V * (n * XY - X * Y) - C * (n * XX - X * X)
    OBVIOUS
  <2>4. V * C - C * V = 0
    OBVIOUS
  <2> QED
    BY ONLY <1>7, <1>8, <1>9, <1>10, <2>2, <2>3, <2>4
<1> QED
  BY <1>11, <1>12, <1>13

\* A variance is not negative; the square of the covariance is at most the product of the
\* variances, and is that if and only if there are no errors.
LEMMA ErrorsAreSquared ==
    ASSUME NEW n \in Nat \ {0}, NEW x, NEW y, NEW X \in Int, NEW Y \in Int,
           NEW V \in Int, NEW W \in Int, NEW C \in Int, AreMoments(x, y, n, X, Y, V, W, C)
    PROVE  /\ V >= 0 /\ W >= 0
           /\ V > 0 => \A e : IsErrors(e, x, y, n, X, Y, V, C) =>
                /\ C * C <= V * W
                /\ C * C = V * W <=> \A k \in 1 .. n : e[k] = 0
<1>1. IsIntegers(x, n) /\ IsIntegers(y, n) /\ X = Total(x, 1 .. n) /\ Y = Total(y, 1 .. n)
  BY DEF AreMoments
<1>2. PICK xx : xx = [k \in 1 .. n |-> x[k] * x[k]]
  OBVIOUS
<1>3. PICK xy : xy = [k \in 1 .. n |-> x[k] * y[k]]
  OBVIOUS
<1>4. PICK yy : yy = [k \in 1 .. n |-> y[k] * y[k]]
  OBVIOUS
<1>5. /\ IsProduct(xx, x, x, n) /\ IsProduct(xy, x, y, n) /\ IsProduct(yy, y, y, n)
      /\ IsIntegers(xx, n) /\ IsIntegers(xy, n) /\ IsIntegers(yy, n)
  BY <1>1, <1>2, <1>3, <1>4 DEF IsProduct, IsIntegers
<1>6. PICK XX \in Int : XX = Total(xx, 1 .. n)
  BY <1>5, TotalIsInteger
<1>7. PICK XY \in Int : XY = Total(xy, 1 .. n)
  BY <1>5, TotalIsInteger
<1>8. PICK YY \in Int : YY = Total(yy, 1 .. n)
  BY <1>5, TotalIsInteger
<1>9. V = n * XX - X * X /\ C = n * XY - X * Y /\ W = n * YY - Y * Y
  BY <1>2, <1>3, <1>4, <1>6, <1>7, <1>8 DEF AreMoments
<1>10. PICK u : u = [k \in 1 .. n |-> n * x[k] - X]
  OBVIOUS
<1>11. PICK w : w = [k \in 1 .. n |-> n * y[k] - Y]
  OBVIOUS
<1>12. /\ IsDeviation(u, x, X, n) /\ IsDeviation(w, y, Y, n)
       /\ IsIntegers(u, n) /\ IsIntegers(w, n)
  BY <1>1, <1>10, <1>11 DEF IsDeviation, IsIntegers
<1>13. PICK uu : uu = [k \in 1 .. n |-> u[k] * u[k]]
  OBVIOUS
<1>14. PICK uw : uw = [k \in 1 .. n |-> u[k] * w[k]]
  OBVIOUS
<1>15. PICK ww : ww = [k \in 1 .. n |-> w[k] * w[k]]
  OBVIOUS
<1>16. /\ IsProduct(uu, u, u, n) /\ IsProduct(uw, u, w, n) /\ IsProduct(ww, w, w, n)
       /\ IsIntegers(uu, n) /\ IsIntegers(uw, n) /\ IsIntegers(ww, n)
  BY <1>12, <1>13, <1>14, <1>15 DEF IsProduct, IsIntegers
<1>17. /\ Total(uu, 1 .. n) = n * V /\ Total(uw, 1 .. n) = n * C /\ Total(ww, 1 .. n) = n * W
  <2>0. n \in Nat /\ X \in Int /\ Y \in Int
    OBVIOUS
  <2>1. Total(uu, 1 .. n) = n * (n * XX - X * X)
    <3>1. AreDeviations(uu, x, x, X, X, XX, n)
      BY <1>1, <1>5, <1>6, <1>12, <1>16 DEF AreDeviations
    <3> QED
      BY ONLY <2>0, <3>1, XX \in Int, TotalDeviations
  <2>2. Total(uw, 1 .. n) = n * (n * XY - X * Y)
    <3>1. AreDeviations(uw, x, y, X, Y, XY, n)
      BY <1>1, <1>5, <1>7, <1>12, <1>16 DEF AreDeviations
    <3> QED
      BY ONLY <2>0, <3>1, XY \in Int, TotalDeviations
  <2>3. Total(ww, 1 .. n) = n * (n * YY - Y * Y)
    <3>1. AreDeviations(ww, y, y, Y, Y, YY, n)
      BY <1>1, <1>5, <1>8, <1>12, <1>16 DEF AreDeviations
    <3> QED
      BY ONLY <2>0, <3>1, YY \in Int, TotalDeviations
  <2> QED
    BY <1>9, <2>1, <2>2, <2>3
<1>18. ASSUME NEW f, NEW ff, IsIntegers(f, n), IsProduct(ff, f, f, n)
       PROVE  /\ Total(ff, 1 .. n) >= 0
              /\ Total(ff, 1 .. n) = 0 <=> \A k \in 1 .. n : f[k] = 0
  <2>1. PICK S : S = 1 .. n
    OBVIOUS
  <2>2. \A k \in S : /\ f[k] \in Int /\ ff[k] \in Nat
                     /\ f[k] # 0 => ff[k] > 0
                     /\ f[k] = 0 => ff[k] = 0
    <3> TAKE k \in S
    <3>1. PICK z \in Int : z = f[k]
      BY <1>18, <2>1 DEF IsIntegers
    <3>2. ff[k] = z * z
      BY <1>18, <2>1, <3>1 DEF IsProduct
    <3>3. z * z \in Nat /\ (z # 0 => z * z > 0) /\ (z = 0 => z * z = 0)
      <4>1. z > 0 => z * z > 0
        OBVIOUS
      <4>2. z < 0 => z * z > 0
        OBVIOUS
      <4> QED
        BY <4>1, <4>2
    <3> QED
      BY <3>1, <3>2, <3>3
  <2>3. IsFiniteSet(S)
    BY <2>1, FS_Interval
  <2>4. Total(ff, S) \in Nat /\ \A k \in S : ff[k] <= Total(ff, S)
    BY ONLY <2>2, <2>3, TotalNat
  <2>5. ASSUME Total(ff, S) = 0, NEW k \in S PROVE f[k] = 0
    <3>1. ff[k] <= 0 /\ ff[k] \in Nat
      BY <2>2, <2>4, <2>5
    <3> QED
      BY <2>2, <3>1
  <2>6. ASSUME \A k \in S : f[k] = 0 PROVE Total(ff, S) = 0
    <3>1. \A k \in S : ff[k] = 0
      BY <2>2, <2>6
    <3> QED
      BY <2>3, <3>1, TotalZero
  <2> QED
    BY <2>1, <2>4, <2>5, <2>6
<1>19. \A z \in Int : n * z >= 0 => z >= 0
  <2> TAKE z \in Int
  <2>1. z < 0 => n * z < 0
    OBVIOUS
  <2> QED
    BY <2>1
<1>20. V >= 0 /\ W >= 0
  <2>1. n * V >= 0 /\ n * W >= 0
    BY <1>12, <1>16, <1>17, <1>18
  <2> QED
    BY <1>19, <2>1
<1>21. ASSUME V > 0, NEW e, IsErrors(e, x, y, n, X, Y, V, C)
       PROVE  C * C <= V * W /\ (C * C = V * W <=> \A k \in 1 .. n : e[k] = 0)
  <2>1. PICK ee : ee = [k \in 1 .. n |-> e[k] * e[k]]
    OBVIOUS
  <2>2. \A k \in 1 .. n : e[k] = V * w[k] - C * u[k]
    BY <1>21, <1>10, <1>11 DEF IsErrors
  <2>3. IsIntegers(e, n)
    BY <1>12, <2>2 DEF IsIntegers
  <2>4. IsProduct(ee, e, e, n)
    BY <2>1 DEF IsProduct
  <2>5. PICK a \in Int : a = V * V
    OBVIOUS
  <2>6. PICK b \in Int : b = 0 - 2 * (V * C)
    OBVIOUS
  <2>7. PICK c \in Int : c = C * C
    OBVIOUS
  <2>8. IsCombined(ee, ww, uw, uu, a, b, c, 0, n)
    <3> SUFFICES ASSUME NEW k \in 1 .. n
                 PROVE  ee[k] = a * ww[k] + b * uw[k] + c * uu[k] + 0
      BY DEF IsCombined
    <3>1. PICK p \in Int : p = u[k]
      BY <1>12 DEF IsIntegers
    <3>2. PICK r \in Int : r = w[k]
      BY <1>12 DEF IsIntegers
    <3>3. /\ ee[k] = (V * r - C * p) * (V * r - C * p)
          /\ ww[k] = r * r /\ uw[k] = p * r /\ uu[k] = p * p
      BY <1>16, <2>2, <2>4, <3>1, <3>2 DEF IsProduct
    <3>4. (V * r - C * p) * (V * r - C * p)
            = (V * V) * (r * r) + (0 - 2 * (V * C)) * (p * r) + (C * C) * (p * p) + 0
      OBVIOUS
    <3> QED
      BY ONLY <2>5, <2>6, <2>7, <3>3, <3>4
  <2>9. Total(ee, 1 .. n) = a * (n * W) + b * (n * C) + c * (n * V) + 0 * n
    <3>1. n \in Nat /\ 0 \in Int
      OBVIOUS
    <3>2. Total(ee, 1 .. n) = a * Total(ww, 1 .. n) + b * Total(uw, 1 .. n)
                                + c * Total(uu, 1 .. n) + 0 * n
      BY ONLY <3>1, <1>16, <2>8, a \in Int, b \in Int, c \in Int, TotalCombined
    <3> QED
      BY ONLY <1>17, <3>2
  <2>10. PICK z \in Int : z = V * W - C * C
    OBVIOUS
  <2>11. (V * V) * (n * W) + (0 - 2 * (V * C)) * (n * C) + (C * C) * (n * V) + 0 * n
           = (n * V) * (V * W - C * C)
    OBVIOUS
  <2>12. Total(ee, 1 .. n) = (n * V) * z
    BY ONLY <2>5, <2>6, <2>7, <2>9, <2>10, <2>11
  <2>13. PICK m \in Nat \ {0} : m = n * V
    <3>1. n * V > 0
      BY <1>21
    <3> QED
      BY <3>1
  <2>14. /\ m * z >= 0
         /\ m * z = 0 <=> \A k \in 1 .. n : e[k] = 0
    BY <1>18, <2>3, <2>4, <2>12, <2>13
  <2>15. z >= 0 /\ (m * z = 0 <=> z = 0)
    <3>1. z < 0 => m * z < 0
      OBVIOUS
    <3>2. z > 0 => m * z > 0
      OBVIOUS
    <3> QED
      BY <2>14, <3>1, <3>2
  <2>16. PICK g \in Int : g = V * W
    OBVIOUS
  <2>17. z = g - c
    BY <2>7, <2>10, <2>16
  <2>18. c <= g /\ (c = g <=> z = 0)
    BY <2>15, <2>17
  <2> QED
    BY <2>7, <2>14, <2>15, <2>16, <2>18
<1> QED
  BY <1>20, <1>21
=============================================================================
