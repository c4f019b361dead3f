-------------------------- MODULE BackgroundProofs --------------------------
(***************************************************************************)
(* What holds around a background thread for any number of tasks, any      *)
(* times and any counts: the list of tasks, the scheduler and the timer,   *)
(* the watchdog, the profiles of the tasks, and what is read of a          *)
(* configuration that the thread reloads.                                  *)
(***************************************************************************)
EXTENDS TaskList, Profiles, Timers, Watchdog, ConfigReads, DataLemmas, TLAPS

-----------------------------------------------------------------------------
(***************************************************************************)
(* The list of tasks.                                                      *)
(*                                                                         *)
(* Between two calls of addTask() the buffer at the start holds what was   *)
(* added; while it grows the next buffer holds one more.  A new buffer has *)
(* room for at least one element more than the one before, so there are    *)
(* never more buffers than tasks.                                          *)
(***************************************************************************)
VectorInv ==
    /\ added <= capacity
    /\ start <= IF growing = "finish" THEN capacity + 1 ELSE capacity
    /\ growing # "no" => added < TaskCount /\ added = capacity
    /\ growing = "no" => /\ elements[start] = FirstTasks(added)
                         /\ finish = [buffer |-> start, size |-> added]
    /\ growing \in {"free", "start"} => elements[start + 1] = FirstTasks(added + 1)
    /\ growing = "finish" => elements[start] = FirstTasks(added + 1)
    /\ growing \in {"no", "free"} => freed < start \/ start = 0
    /\ start = 0 => capacity = 0
    /\ growing = "finish" => freed < start

(***************************************************************************)
(* A pass in which the vector has not grown has executed as many tasks as  *)
(* its index says, and the size that it saw is one the vector had since it *)
(* began.                                                                  *)
(***************************************************************************)
PassInv ==
    /\ settled => growing = "no" /\ i <= added /\ executed = FirstTasks(i)
    /\ bg = "task" => i < TaskCount
    /\ settled /\ bg = "start" => /\ finishSeen.buffer = start
                                  /\ finishSeen.size \in had .. added
                                  /\ i <= finishSeen.size
    /\ settled /\ bg = "task" => i < added
    /\ settled /\ bg = "rest" => had <= i

ListInv == ListTypeOK /\ VectorInv /\ PassInv

LEMMA FirstTasksFacts ==
    ASSUME NEW n \in Nat
    PROVE  /\ FirstTasks(n) \in Seq(1 .. n) /\ Len(FirstTasks(n)) = n
           /\ \A k \in 1 .. n : FirstTasks(n)[k] = k
BY FunctionIsSeq DEF FirstTasks

\* The order is kept by what is pushed and by what is executed.
LEMMA FirstTasksAppend ==
    ASSUME NEW n \in Nat
    PROVE  Append(FirstTasks(n), n + 1) = FirstTasks(n + 1)
<1>1. FirstTasks(n) \in Seq(Nat) /\ Len(FirstTasks(n)) = n
  BY FunctionIsSeq DEF FirstTasks
<1>2. FirstTasks(n + 1) \in Seq(Nat) /\ Len(FirstTasks(n + 1)) = n + 1
  BY FunctionIsSeq DEF FirstTasks
<1>3. Append(FirstTasks(n), n + 1) \in Seq(Nat) /\ Len(Append(FirstTasks(n), n + 1)) = n + 1
  BY <1>1, AppendFacts
<1>4. \A k \in 1 .. n + 1 : Append(FirstTasks(n), n + 1)[k] = FirstTasks(n + 1)[k]
  BY <1>1, AppendFacts DEF FirstTasks
<1> QED
  BY <1>2, <1>3, <1>4, SeqEqual

\* A push into the room there is: a pass goes on, and may see it.
LEMMA PushInPlaceKeeps ==
    ASSUME ListInv, PushInPlace
    PROVE  ListInv'
<1> USE TaskCountAssumption DEF ListInv, ListTypeOK, VectorTypeOK, ThreadTypeOK, Buffers, Ends
<1>1. /\ growing = "no" /\ growing' = "no" /\ added < TaskCount /\ added < capacity
      /\ added' = added + 1
      /\ elements' = [elements EXCEPT ![start] = Append(elements[start], added + 1)]
      /\ finish' = [buffer |-> start, size |-> added + 1]
      /\ UNCHANGED <<freed, start, capacity>>
      /\ UNCHANGED <<bg, i, finishSeen, executed, had, stray, settled>>
  BY DEF PushInPlace, EndOf, thread
<1>2. added + 1 \in 1 .. TaskCount
  BY <1>1
<1>3. Append(elements[start], added + 1) = FirstTasks(added + 1)
  <2>1. elements[start] = FirstTasks(added) /\ added \in Nat
    BY <1>1 DEF VectorInv
  <2> QED
    BY ONLY <2>1, FirstTasksAppend
<1>4. Append(elements[start], added + 1) \in Seq(1 .. TaskCount)
  <2>1. elements[start] \in Seq(1 .. TaskCount)
    OBVIOUS
  <2> QED
    BY ONLY <1>2, <2>1, AppendFacts
<1>5. elements' \in [Buffers -> Seq(1 .. TaskCount)] /\ elements'[start] = FirstTasks(added + 1)
  BY <1>1, <1>3, <1>4
<1>6. ListTypeOK'
  BY <1>1, <1>2, <1>5
<1>7. VectorInv'
  <2>1. /\ added + 1 <= capacity /\ start <= capacity
        /\ freed < start \/ start = 0
        /\ start = 0 => capacity = 0
    BY <1>1 DEF VectorInv
  <2> QED
    BY ONLY <1>1, <1>5, <2>1 DEF VectorInv
<1>8. PassInv'
  <2>1. had \in Int /\ added \in Int /\ i \in Int /\ finishSeen.size \in Int
    OBVIOUS
  <2>2. PassInv
    OBVIOUS
  <2> QED
    BY ONLY <1>1, <2>1, <2>2 DEF PassInv
<1> QED
  BY <1>6, <1>7, <1>8

\* The new buffer is the next one, and there is a number for it.
LEMMA CopyKeeps ==
    ASSUME ListInv, Copy
    PROVE  ListInv'
<1> USE TaskCountAssumption DEF ListInv, ListTypeOK, VectorTypeOK, ThreadTypeOK, Buffers, Ends
<1>1. /\ growing = "no" /\ growing' = "free" /\ added < TaskCount /\ added = capacity
      /\ settled' = FALSE
      /\ elements' = [elements EXCEPT ![start + 1] = Append(elements[start], added + 1)]
      /\ UNCHANGED <<added, freed, start, finish, capacity>>
      /\ UNCHANGED <<bg, i, finishSeen, executed, had, stray>>
  BY DEF Copy, thread
<1>2. start + 1 \in 0 .. TaskCount
  BY <1>1 DEF VectorInv
<1>3. Append(elements[start], added + 1) = FirstTasks(added + 1)
  <2>1. elements[start] = FirstTasks(added) /\ added \in Nat
    BY <1>1 DEF VectorInv
  <2> QED
    BY ONLY <2>1, FirstTasksAppend
<1>4. Append(elements[start], added + 1) \in Seq(1 .. TaskCount)
  <2>1. elements[start] \in Seq(1 .. TaskCount) /\ added + 1 \in 1 .. TaskCount
    BY <1>1
  <2> QED
    BY ONLY <2>1, AppendFacts
<1>5. elements' \in [Buffers -> Seq(1 .. TaskCount)]
      /\ elements'[start + 1] = FirstTasks(added + 1)
  BY <1>1, <1>2, <1>3, <1>4
<1>6. ListTypeOK'
  BY <1>1, <1>2, <1>5
<1>7. VectorInv'
  BY <1>1, <1>2, <1>5 DEF VectorInv
<1>8. PassInv'
  BY <1>1 DEF PassInv
<1> QED
  BY <1>6, <1>7, <1>8

\* The pass is not settled while the vector grows.
LEMMA GrowKeeps ==
    ASSUME ListInv, Free \/ SetStart \/ SetFinish
    PROVE  ListInv'
<1> USE TaskCountAssumption DEF ListInv, ListTypeOK, VectorTypeOK, ThreadTypeOK, Buffers, Ends
<1>1. /\ growing # "no" /\ ~settled
      /\ UNCHANGED <<bg, i, finishSeen, executed, had, stray, settled, elements>>
      /\ added' \in {added, added + 1}
  BY DEF Free, SetStart, SetFinish, thread, PassInv
<1>p. PassInv'
  BY <1>1 DEF PassInv
<1>t. ThreadTypeOK'
  BY <1>1
<1>2. CASE Free
  <2>1. /\ growing = "free" /\ growing' = "start" /\ freed' = start
        /\ UNCHANGED <<added, start, finish, capacity>>
    BY <1>2 DEF Free
  <2>f. finish' \in Ends /\ freed' <= start'
    BY <2>1
  <2>2. VectorTypeOK'
    BY <1>1, <2>1, <2>f
  <2>3. VectorInv'
    BY <1>1, <2>1 DEF VectorInv
  <2> QED
    BY <1>p, <1>t, <2>2, <2>3
<1>3. CASE SetStart
  <2>1. /\ growing = "start" /\ growing' = "finish" /\ start' = start + 1
        /\ UNCHANGED <<added, freed, finish, capacity>>
    BY <1>3 DEF SetStart
  <2>2. start + 1 \in 0 .. TaskCount
    BY <2>1 DEF VectorInv
  <2>f. finish' \in Ends /\ freed' <= start'
    BY <2>1
  <2>3. VectorTypeOK'
    BY <1>1, <2>1, <2>2, <2>f
  <2>4. VectorInv'
    BY <1>1, <2>1 DEF VectorInv
  <2> QED
    BY <1>p, <1>t, <2>3, <2>4
<1>4. CASE SetFinish
  <2>1. /\ growing = "finish" /\ growing' = "no" /\ added' = added + 1
        /\ finish' = [buffer |-> start, size |-> added + 1]
        /\ capacity' = GrownCapacity
        /\ UNCHANGED <<freed, start>>
    BY <1>4 DEF SetFinish, EndOf
  <2>2. added < TaskCount /\ capacity \in Nat
    BY <2>1 DEF VectorInv
  <2>3. capacity' \in Nat /\ capacity' >= capacity + 1
    <3>1. capacity' = IF capacity = 0 THEN 1 ELSE 2 * capacity
      BY <2>1 DEF GrownCapacity
    <3> QED
      BY ONLY <2>2, <3>1
  <2>4. added' \in 0 .. TaskCount
    BY <2>1, <2>2
  <2>5. finish' \in Ends
    BY <2>1, <2>2
  <2>6. VectorTypeOK'
    BY <1>1, <2>1, <2>3, <2>4, <2>5
  <2>7. VectorInv'
    BY <1>1, <2>1, <2>2, <2>3 DEF VectorInv
  <2> QED
    BY <1>p, <1>t, <2>6, <2>7
<1> QED
  BY <1>2, <1>3, <1>4

\* The thread reads a buffer that is not freed and has the task, or goes astray.
LEMMA ExecuteTaskKeeps ==
    ASSUME ListInv, ExecuteTask
    PROVE  ListInv'
<1> USE TaskCountAssumption DEF ListInv, ListTypeOK, VectorTypeOK, ThreadTypeOK, Buffers, Ends
<1>1. /\ bg = "task" /\ bg' = "finish" /\ i' = i + 1 /\ i < TaskCount
      /\ UNCHANGED <<added, growing, freed, elements, start, finish, capacity>>
      /\ UNCHANGED <<had, settled, finishSeen>>
  BY DEF ExecuteTask, NextIndex, PassInv, vector
<1>2. VectorTypeOK' /\ VectorInv'
  BY <1>1 DEF VectorInv
<1>3. settled => /\ start > freed /\ i < added
                 /\ elements[start] = FirstTasks(added) /\ executed = FirstTasks(i)
  BY <1>1 DEF PassInv, VectorInv
<1>4. executed' \in Seq(1 .. TaskCount) /\ stray' \in BOOLEAN
  <2>1. CASE start > freed /\ i < Len(elements[start])
    <3>1. executed' = Append(executed, elements[start][i + 1]) /\ stray' = stray
      BY <2>1 DEF ExecuteTask
    <3>2. elements[start] \in Seq(1 .. TaskCount) /\ i + 1 \in 1 .. Len(elements[start])
      BY <2>1
    <3>3. elements[start][i + 1] \in 1 .. TaskCount
      BY ONLY <3>2, ElementOfSeq
    <3>4. executed \in Seq(1 .. TaskCount) /\ stray \in BOOLEAN
      OBVIOUS
    <3>5. executed' \in Seq(1 .. TaskCount)
      BY ONLY <3>1, <3>3, <3>4, AppendFacts
    <3> QED
      BY ONLY <3>1, <3>4, <3>5, Zenon
  <2>2. CASE ~(start > freed /\ i < Len(elements[start]))
    <3>1. executed' = executed /\ stray' = TRUE
      BY <2>2 DEF ExecuteTask
    <3> QED
      BY <3>1
  <2> QED
    BY <2>1, <2>2
<1>5. settled => executed' = FirstTasks(i + 1)
  <2> SUFFICES ASSUME settled PROVE executed' = FirstTasks(i + 1)
    OBVIOUS
  <2>1. i \in Nat /\ added \in Nat /\ i + 1 \in 1 .. added
    BY <1>3
  <2>2. Len(elements[start]) = added /\ elements[start][i + 1] = i + 1
    BY ONLY <1>3, <2>1, FirstTasksFacts, settled
  <2>3. executed' = Append(executed, elements[start][i + 1])
    BY <1>3, <2>1, <2>2 DEF ExecuteTask
  <2> QED
    BY ONLY <1>3, <2>1, <2>2, <2>3, FirstTasksAppend, settled
<1>6. i' \in 0 .. TaskCount /\ bg' \in {"finish", "start", "task", "rest"}
  BY <1>1
<1>7. ThreadTypeOK'
  BY <1>1, <1>4, <1>6
<1>8. PassInv'
  BY <1>1, <1>3, <1>5 DEF PassInv
<1> QED
  BY <1>2, <1>7, <1>8

\* The other steps of the thread only read.
LEMMA ReadKeeps ==
    ASSUME ListInv, ReadFinish \/ Enter \/ EndPass \/ NextPass
    PROVE  ListInv'
<1> USE TaskCountAssumption DEF ListInv, ListTypeOK, VectorTypeOK, ThreadTypeOK, Buffers, Ends
<1>1. UNCHANGED <<added, growing, freed, elements, start, finish, capacity, stray>>
  BY DEF ReadFinish, Enter, EndPass, NextPass, vector
<1>2. VectorTypeOK' /\ VectorInv'
  BY <1>1 DEF VectorInv
<1>3. CASE ReadFinish
  <2>1. bg' = "start" /\ finishSeen' = finish /\ UNCHANGED <<had, settled, i, executed>>
    BY <1>3 DEF ReadFinish
  <2>2. ListTypeOK'
    BY <1>1, <2>1
  <2>3. settled => finish.buffer = start /\ finish.size = added
    BY DEF PassInv, VectorInv
  <2>4. PassInv'
    BY <1>1, <2>1, <2>3 DEF PassInv
  <2> QED
    BY <1>2, <2>2, <2>4
<1>4. CASE Enter
  <2>1. bg = "start" /\ bg' = "task" /\ i < TaskCount /\ MayGoOn
        /\ UNCHANGED <<had, settled, i, finishSeen, executed>>
    BY <1>4 DEF Enter
  <2>2. settled => i < added
    BY <2>1 DEF MayGoOn, PassInv, VectorInv
  <2> QED
    BY <1>1, <1>2, <2>1, <2>2 DEF PassInv
<1>5. CASE EndPass
  <2>1. bg = "start" /\ bg' = "rest" /\ MayEnd
        /\ UNCHANGED <<had, settled, i, finishSeen, executed>>
    BY <1>5 DEF EndPass
  <2>2. settled => had <= i
    BY <2>1 DEF MayEnd, MayGoOn, PassInv
  <2> QED
    BY <1>1, <1>2, <2>1, <2>2 DEF PassInv
<1>6. CASE NextPass
  <2>1. /\ bg' = "finish" /\ i' = 0 /\ executed' = <<>> /\ had' = added
        /\ settled' = (growing = "no") /\ finishSeen' = finishSeen
    BY <1>6 DEF NextPass
  <2>2. executed' \in Seq(1 .. TaskCount) /\ executed' = FirstTasks(0)
    BY <2>1 DEF FirstTasks
  <2>a. settled' \in BOOLEAN /\ stray' \in BOOLEAN
    BY <1>1, <2>1, Zenon
  <2>b. bg' \in {"finish", "start", "task", "rest"} /\ i' \in 0 .. TaskCount /\ finishSeen' \in Ends
    BY <1>1, <2>1
  <2>c. had' \in 0 .. added'
    BY <1>1, <2>1
  <2>4. ListTypeOK'
    BY <1>2, <2>2, <2>a, <2>b, <2>c
  <2>5. PassInv'
    BY <1>1, <2>1, <2>2 DEF PassInv
  <2> QED
    BY <1>2, <2>4, <2>5
<1> QED
  BY <1>3, <1>4, <1>5, <1>6

\* ListTypeOK and what PassIsComplete rests on.
THEOREM ListInvHolds == ListSpec => []ListInv
<1>1. ListInit => ListInv
  <2> SUFFICES ASSUME ListInit PROVE ListInv
    OBVIOUS
  <2> USE TaskCountAssumption DEF ListInit, Buffers
  <2>1. executed \in Seq(1 .. TaskCount) /\ executed = FirstTasks(0)
    BY DEF FirstTasks
  <2>2. <<>> \in Seq(1 .. TaskCount) /\ <<>> = FirstTasks(0)
    BY DEF FirstTasks
  <2>3. elements \in [0 .. TaskCount -> Seq(1 .. TaskCount)] /\ elements[0] = FirstTasks(0)
    BY <2>2
  <2>4. finish \in [buffer : 0 .. TaskCount, size : 0 .. TaskCount]
    OBVIOUS
  <2>a. VectorTypeOK
    BY <2>3, <2>4 DEF VectorTypeOK, Ends
  <2>b. ThreadTypeOK
    <3>1. /\ finishSeen \in [buffer : 0 .. TaskCount, size : 0 .. TaskCount]
          /\ bg = "finish" /\ i = 0 /\ had = 0 /\ added = 0
          /\ settled \in BOOLEAN /\ stray \in BOOLEAN
      BY <2>4
    <3> QED
      BY ONLY <2>1, <3>1, TaskCountAssumption DEF ThreadTypeOK, Ends, Buffers
  <2>5. ListTypeOK
    BY <2>a, <2>b DEF ListTypeOK
  <2>6. VectorInv
    BY <2>3 DEF VectorInv
  <2> QED
    BY <2>1, <2>5, <2>6 DEF ListInv, PassInv
<1>2. ListInv /\ [ListNext]_listVars => ListInv'
  <2> SUFFICES ASSUME ListInv, [ListNext]_listVars PROVE ListInv'
    OBVIOUS
  <2>1. CASE UNCHANGED listVars
    BY <2>1 DEF listVars, vector, thread, ListInv, ListTypeOK, VectorTypeOK, ThreadTypeOK, VectorInv, PassInv
  <2> QED
    BY <2>1, PushInPlaceKeeps, CopyKeeps, GrowKeeps, ExecuteTaskKeeps, ReadKeeps
       DEF ListNext, AddTask, Thread
<1> QED
  BY <1>1, <1>2, PTL DEF ListSpec

\* PassIsComplete: "Tasks in the order they should be executed" -- a pass during which
\* the vector does not grow executes, in that order, every task that was there when it
\* began and the first of those that were added since.
THEOREM PassIsCompleteHolds == ListSpec => []PassIsComplete
<1>1. ListInv => PassIsComplete
  <2> SUFFICES ASSUME ListInv, bg = "rest", settled
               PROVE  \E n \in had .. added : executed = FirstTasks(n)
    BY DEF PassIsComplete
  <2>1. executed = FirstTasks(i) /\ had <= i /\ i <= added
    BY DEF ListInv, PassInv
  <2>2. i \in had .. added
    BY <2>1, TaskCountAssumption DEF ListInv, ListTypeOK, VectorTypeOK, ThreadTypeOK
  <2> QED
    BY <2>1, <2>2
<1> QED
  BY <1>1, ListInvHolds, PTL
-----------------------------------------------------------------------------
(***************************************************************************)
(* The scheduler and the timer.                                            *)
(*                                                                         *)
(* A task in the multimap stands at the time of its next run, and that is  *)
(* later than every pass that had the task, except in a pass that has not  *)
(* come to it yet.                                                         *)
(***************************************************************************)
Entry == [time : Nat, task : Task]

IsAgenda(seq) ==
    /\ seq \in Seq(Entry)
    /\ IsOrdered(seq)
    /\ \A j, k \in DOMAIN seq : j # k => seq[j].task # seq[k].task

EntryOK(e) ==
    /\ e.task \in Scheduled
    /\ e.time = TimeOfRun(e.task, runs[e.task])
    /\ count[e.task] = IF IsEndless(e.task) THEN request[e.task].repeat
                       ELSE request[e.task].repeat - runs[e.task]
    /\ interval[e.task] = request[e.task].interval
    /\ e.time <= seen[e.task] => pass = "scheduler" /\ seen[e.task] = passTime

TaskOK(t) ==
    /\ t \notin Scheduled => runs[t] = 0 /\ seen[t] = -1
    /\ t \in Scheduled =>
         /\ IsEndless(t) \/ runs[t] <= Limit(t)
         /\ runs[t] > 0 => TimeOfRun(t, runs[t] - 1) <= seen[t]
         /\ pass # "sleep" => passTime <= seen[t]

WheelTypeOK ==
    /\ wall \in 1 .. MaxWall /\ adjusts \in 0 .. MaxAdjusts
    /\ pass \in {"sleep", "scheduler", "timer"}
    /\ passTime \in 0 .. MaxWall
    /\ pass # "sleep" => passTime > 0

TasksTypeOK ==
    /\ interval \in [Task -> Nat] /\ count \in [Task -> Int]
    /\ request \in [Task -> [start : Nat, interval : Nat, repeat : Int, known : BOOLEAN]]
    /\ seen \in [Task -> Int] /\ runs \in [Task -> Nat]

TimerInv ==
    /\ timerTime \in 0 .. MaxWall /\ timerCount \in Int
    /\ lastRun \in {0, timerTime}

AgendaInv ==
    /\ IsAgenda(agenda)
    /\ \A e \in Range(agenda) : EntryOK(e)
    /\ \A t \in Task :
         /\ (\E e \in Range(agenda) : e.task = t) <=> t \in Scheduled /\ ~IsOver(t)
         /\ TaskOK(t)

TimersInv == WheelTypeOK /\ TasksTypeOK /\ TimerInv /\ AgendaInv

\* Entries of the agenda have a time.
LEMMA EntriesAreTimed == IsTimed(Entry)
BY DEF IsTimed, Entry

\* A task that is not in the multimap can be inserted.
LEMMA EmplaceAgenda ==
    ASSUME NEW seq, IsAgenda(seq), NEW e \in Entry,
           \A x \in Range(seq) : x.task # e.task
    PROVE  /\ IsAgenda(Emplace(seq, e))
           /\ Range(Emplace(seq, e)) = Range(seq) \cup {e}
<1> DEFINE longer == Emplace(seq, e)
<1>1. seq \in Seq(Entry) /\ IsOrdered(seq) /\ IsTimed(Entry)
  BY EntriesAreTimed DEF IsAgenda
<1>2. longer \in Seq(Entry)
  BY <1>1, EmplaceFacts
<1>3. IsOrdered(longer)
  BY <1>1, EmplaceKeepsOrder
<1>4. /\ Range(longer) = Range(seq) \cup {e}
      /\ \A j, k \in DOMAIN longer : j # k =>
           \/ longer[j] = e /\ longer[k] \in Range(seq)
           \/ longer[k] = e /\ longer[j] \in Range(seq)
           \/ \E l, m \in DOMAIN seq : l # m /\ longer[j] = seq[l] /\ longer[k] = seq[m]
  BY <1>1, EmplaceEntries
<1> HIDE DEF longer
<1>5. ASSUME NEW j \in DOMAIN longer, NEW k \in DOMAIN longer, j # k
      PROVE  longer[j].task # longer[k].task
  BY <1>4, <1>5 DEF IsAgenda
<1>6. IsAgenda(longer)
  BY <1>2, <1>3, <1>5 DEF IsAgenda
<1> QED
  BY <1>4, <1>6 DEF longer

\* The first task is the earliest one, and is not among the others.
LEMMA TailAgenda ==
    ASSUME NEW seq, IsAgenda(seq), seq # <<>>
    PROVE  /\ Head(seq) \in Entry /\ Range(Tail(seq)) \subseteq Entry
           /\ IsAgenda(Tail(seq))
           /\ Range(seq) = Range(Tail(seq)) \cup {Head(seq)}
           /\ \A x \in Range(Tail(seq)) : x.task # Head(seq).task
           /\ \A x \in Range(seq) : Head(seq).time <= x.time
<1> DEFINE head == Head(seq)
           rest == Tail(seq)
<1>1. seq \in Seq(Entry) /\ IsOrdered(seq)
  BY DEF IsAgenda
<1>2. /\ rest \in Seq(Entry) /\ head \in Entry
      /\ Range(seq) = Range(rest) \cup {head}
      /\ \A x \in Range(rest) : \E k \in DOMAIN seq : k # 1 /\ x = seq[k]
      /\ 1 \in DOMAIN seq /\ head = seq[1]
      /\ \A j, k \in DOMAIN rest :
           /\ j + 1 \in DOMAIN seq /\ rest[j] = seq[j + 1]
           /\ j # k => j + 1 # k + 1
           /\ j < k => j + 1 < k + 1
  BY <1>1, TailEntries
<1>3. DOMAIN seq = 1 .. Len(seq) /\ Len(seq) \in Nat /\ \A k \in DOMAIN seq : seq[k] \in Entry
  BY <1>1, SeqFacts
<1> HIDE DEF head, rest
<1>4. \A x \in Range(rest) : x \in Entry /\ x.task # head.task /\ head.time <= x.time
  <2> SUFFICES ASSUME NEW k \in DOMAIN seq, k # 1
               PROVE  seq[k] \in Entry /\ seq[k].task # head.task /\ head.time <= seq[k].time
    BY <1>2
  <2>1. seq[k].task # head.task
    BY <1>2 DEF IsAgenda
  <2>2. 1 < k
    BY <1>3
  <2> QED
    BY <1>1, <1>2, <1>3, <2>1, <2>2 DEF IsOrdered
<1>5. head.time <= head.time
  BY <1>2 DEF Entry
<1>6. IsOrdered(rest)
  BY <1>1, <1>2 DEF IsOrdered
<1>7. \A j, k \in DOMAIN rest : j # k => rest[j].task # rest[k].task
  BY <1>2 DEF IsAgenda
<1>8. IsAgenda(rest)
  BY <1>2, <1>6, <1>7 DEF IsAgenda
<1> QED
  BY <1>2, <1>4, <1>5, <1>8 DEF head, rest

\* An invariant of the timer: what it notes as its last time is that of the last run.
LEMMA TimerKeeps ==
    ASSUME TimersInv, ExecuteTimer
    PROVE  TimersInv'
<1> USE DEF TimersInv, WheelTypeOK, TimerInv
<1>1. /\ pass = "timer" /\ pass' = "sleep"
      /\ UNCHANGED <<wall, adjusts, passTime, agenda, interval, count, request, seen, runs>>
  BY DEF ExecuteTimer, wallVars, schedulerVars
<1>2. WheelTypeOK' /\ TasksTypeOK'
  BY <1>1 DEF TasksTypeOK
<1>3. TimerInv'
  BY DEF ExecuteTimer, TimerOff, StartTimer, RunTimer, TimerWaits, timerVars, TimeAfter
<1>4. AgendaInv'
  BY <1>1 DEF AgendaInv, EntryOK, TaskOK, Scheduled, IsOver, IsEndless, Limit, LaterOf, TimeOfRun
<1> QED
  BY <1>2, <1>3, <1>4

\* The wall clock and setCount() change nothing that the scheduler goes by.
LEMMA ClockKeeps ==
    ASSUME TimersInv, WallTick \/ Adjust \/ \E n \in TimerCounts : SetTimerCount(n)
    PROVE  TimersInv'
<1> USE TimersAssumption DEF TimersInv
<1>1. /\ UNCHANGED <<pass, passTime, agenda, interval, count, request, seen, runs, timerTime, lastRun>>
      /\ wall' \in 1 .. MaxWall /\ adjusts' \in 0 .. MaxAdjusts /\ timerCount' \in Int
  BY DEF WallTick, Adjust, SetTimerCount, wallVars, schedulerVars, timerVars, WheelTypeOK, TimerInv
<1>2. WheelTypeOK' /\ TasksTypeOK' /\ TimerInv'
  BY <1>1 DEF WheelTypeOK, TasksTypeOK, TimerInv
<1>3. AgendaInv'
  BY <1>1 DEF AgendaInv, EntryOK, TaskOK, Scheduled, IsOver, IsEndless, Limit, LaterOf, TimeOfRun
<1> QED
  BY <1>2, <1>3

\* Every task that waits is later than the passes that had it, so it counts as seen
\* by this one if its time has come.
LEMMA BeginPassKeeps ==
    ASSUME TimersInv, BeginTimersPass
    PROVE  TimersInv'
<1> USE DEF TimersInv
<1>1. /\ pass = "sleep" /\ pass' = "scheduler" /\ passTime' = wall
      /\ seen' = [t \in Task |-> IF t \in Scheduled THEN LaterOf(seen[t], wall) ELSE -1]
      /\ UNCHANGED <<wall, adjusts, agenda, interval, count, request, runs>>
      /\ UNCHANGED <<timerTime, timerCount, lastRun>>
  BY DEF BeginTimersPass, wallVars, timerVars
<1>2. WheelTypeOK' /\ TimerInv'
  BY <1>1 DEF WheelTypeOK, TimerInv
<1>3. wall \in Nat /\ wall > 0
  BY DEF WheelTypeOK
<1>4. TasksTypeOK'
  <2>1. seen' \in [Task -> Int]
    BY <1>1, <1>3 DEF TasksTypeOK, LaterOf
  <2> QED
    BY <1>1, <2>1 DEF TasksTypeOK
<1>5. ASSUME NEW t \in Scheduled
      PROVE  seen'[t] >= wall /\ seen'[t] >= seen[t] /\ (seen'[t] = seen[t] \/ seen'[t] = wall)
  BY <1>1, <1>3 DEF LaterOf, TasksTypeOK, Scheduled
<1>6. ASSUME NEW t \in Task, t \notin Scheduled PROVE seen'[t] = -1
  BY <1>1, <1>6
<1>7. \A t \in Task : TimeOfRun(t, runs[t]) \in Int /\ (runs[t] > 0 => TimeOfRun(t, runs[t] - 1) \in Int)
  BY DEF TasksTypeOK, TimeOfRun
<1>8. ASSUME NEW e \in Range(agenda) PROVE EntryOK(e)'
  <2>1. EntryOK(e)
    BY DEF AgendaInv
  <2>2. e.task \in Scheduled /\ e.task \in Task
    BY <2>1 DEF EntryOK, Scheduled
  <2>3. e.time \in Int /\ ~(e.time <= seen[e.task]) /\ seen[e.task] \in Int
    BY <1>1, <1>7, <2>1, <2>2 DEF EntryOK, TasksTypeOK
  <2>4. e.time <= seen'[e.task] => seen'[e.task] = wall
    BY <1>5, <2>2, <2>3
  <2> QED
    BY <1>1, <2>1, <2>4 DEF EntryOK, Scheduled, IsEndless, TimeOfRun
<1>9. ASSUME NEW t \in Task PROVE TaskOK(t)'
  <2>1. TaskOK(t)
    BY DEF AgendaInv
  <2>2. t \notin Scheduled => runs'[t] = 0 /\ seen'[t] = -1
    BY <1>1, <1>6, <2>1 DEF TaskOK
  <2>3. t \in Scheduled /\ runs[t] > 0 => TimeOfRun(t, runs[t] - 1) <= seen'[t]
    <3> SUFFICES ASSUME t \in Scheduled, runs[t] > 0 PROVE TimeOfRun(t, runs[t] - 1) <= seen'[t]
      OBVIOUS
    <3>1. TimeOfRun(t, runs[t] - 1) <= seen[t]
      BY <2>1 DEF TaskOK
    <3>2. TimeOfRun(t, runs[t] - 1) \in Int /\ seen[t] \in Int /\ seen'[t] \in Int
      BY <1>4, <1>7 DEF TasksTypeOK
    <3> QED
      BY <1>5, <3>1, <3>2
  <2> QED
    BY <1>1, <1>5, <2>1, <2>2, <2>3 DEF TaskOK, Scheduled, IsEndless, Limit, LaterOf, TimeOfRun
<1>10. AgendaInv'
  <2>1. IsAgenda(agenda') /\ Range(agenda') = Range(agenda)
    BY <1>1 DEF AgendaInv
  <2>2. \A t \in Task : ((\E e \in Range(agenda) : e.task = t) <=> t \in Scheduled /\ ~IsOver(t))'
    BY <1>1 DEF AgendaInv, Scheduled, IsOver, IsEndless, Limit, LaterOf
  <2> QED
    BY <1>8, <1>9, <2>1, <2>2 DEF AgendaInv
<1> QED
  BY <1>2, <1>4, <1>10

\* When the loop ends at a task that is not due, no task behind it is.
LEMMA EndSchedulerKeeps ==
    ASSUME TimersInv, EndScheduler
    PROVE  TimersInv'
<1> USE DEF TimersInv
<1>1. /\ pass = "scheduler" /\ pass' = "timer"
      /\ agenda # <<>> => Head(agenda).time > passTime
      /\ UNCHANGED <<wall, adjusts, passTime, agenda, interval, count, request, seen, runs>>
      /\ UNCHANGED <<timerTime, timerCount, lastRun>>
  BY DEF EndScheduler, wallVars, schedulerVars, timerVars
<1>2. WheelTypeOK' /\ TasksTypeOK' /\ TimerInv'
  BY <1>1 DEF WheelTypeOK, TasksTypeOK, TimerInv
<1>3. ASSUME NEW e \in Range(agenda) PROVE EntryOK(e)'
  <2>1. EntryOK(e) /\ IsAgenda(agenda)
    BY DEF AgendaInv
  <2>2. agenda # <<>>
    BY DEF Range
  <2>3. Head(agenda).time <= e.time /\ Head(agenda) \in Entry /\ e \in Entry
    BY <2>1, <2>2, TailAgenda
  <2>4. e.time > passTime
    BY <1>1, <2>2, <2>3 DEF Entry, WheelTypeOK
  <2>5. ~(e.time <= seen[e.task])
    BY <2>1, <2>3, <2>4 DEF EntryOK, Entry, WheelTypeOK
  <2> QED
    BY <1>1, <2>1, <2>5 DEF EntryOK, Scheduled, IsEndless, TimeOfRun
<1>4. AgendaInv'
  BY <1>1, <1>3 DEF AgendaInv, TaskOK, Scheduled, IsOver, IsEndless, Limit, LaterOf, TimeOfRun
<1> QED
  BY <1>2, <1>4

\* A task that was not scheduled is entered with its first time.
LEMMA ScheduleKeeps ==
    ASSUME TimersInv, NEW t \in Task, NEW r \in Requests, NEW time \in 0 .. MaxWall,
           Schedule(t, r, time)
    PROVE  TimersInv'
<1> DEFINE new == [time |-> time, task |-> t]
<1> USE TimersAssumption DEF TimersInv
<1>1. /\ pass = "sleep" /\ t \notin Scheduled
      /\ agenda' = Emplace(agenda, new)
      /\ request' = [request EXCEPT ![t] =
             [start |-> time, interval |-> r.interval, repeat |-> r.repeat, known |-> TRUE]]
      /\ interval' = [interval EXCEPT ![t] = r.interval]
      /\ count' = [count EXCEPT ![t] = r.repeat]
      /\ UNCHANGED <<wall, adjusts, pass, passTime, seen, runs>>
      /\ UNCHANGED <<timerTime, timerCount, lastRun>>
  BY DEF Schedule, ScheduleIn, wallVars, timerVars
<1>2. r.interval \in Nat /\ r.repeat \in Int /\ time \in Nat
  OBVIOUS
<1>3. WheelTypeOK' /\ TimerInv'
  BY <1>1 DEF WheelTypeOK, TimerInv
<1>4. TasksTypeOK'
  BY <1>1, <1>2 DEF TasksTypeOK
<1>5. new \in Entry /\ \A e \in Range(agenda) : e.task # t
  BY <1>1, <1>2 DEF Entry, AgendaInv, EntryOK
<1>6. IsAgenda(agenda') /\ Range(agenda') = Range(agenda) \cup {new}
  BY <1>1, <1>5, EmplaceAgenda DEF AgendaInv
<1>7. /\ \A u \in Task : u # t => request'[u] = request[u] /\ interval'[u] = interval[u]
                                  /\ count'[u] = count[u]
      /\ request'[t] = [start |-> time, interval |-> r.interval, repeat |-> r.repeat, known |-> TRUE]
      /\ interval'[t] = r.interval /\ count'[t] = r.repeat
      /\ runs'[t] = 0 /\ seen'[t] = -1
  BY <1>1 DEF TasksTypeOK, AgendaInv, TaskOK
<1>8. EntryOK(new)'
  <2>1. TimeOfRun(t, 0)' = time
    BY <1>2, <1>7 DEF TimeOfRun
  <2>2. t \in Scheduled'
    BY <1>7 DEF Scheduled
  <2> QED
    BY <1>2, <1>7, <2>1, <2>2 DEF EntryOK
<1>9. ASSUME NEW e \in Range(agenda) PROVE EntryOK(e)'
  <2>1. EntryOK(e) /\ e.task # t /\ e.task \in Task
    BY <1>5 DEF AgendaInv, EntryOK, Scheduled
  <2> QED
    BY <1>1, <1>7, <2>1 DEF EntryOK, Scheduled, IsEndless, TimeOfRun
<1>10. ASSUME NEW u \in Task, u # t
       PROVE  /\ TaskOK(u)'
              /\ ((\E e \in Range(agenda) : e.task = u) <=> u \in Scheduled /\ ~IsOver(u))'
  <2>1. TaskOK(u) /\ ((\E e \in Range(agenda) : e.task = u) <=> u \in Scheduled /\ ~IsOver(u))
    BY DEF AgendaInv
  <2>2. TaskOK(u)'
    BY <1>1, <1>7, <1>10, <2>1 DEF TaskOK, Scheduled, IsEndless, Limit, LaterOf, TimeOfRun
  <2>3. (u \in Scheduled /\ ~IsOver(u))' <=> u \in Scheduled /\ ~IsOver(u)
    BY <1>1, <1>7, <1>10 DEF Scheduled, IsOver, IsEndless, Limit, LaterOf
  <2> QED
    BY <1>6, <1>10, <2>1, <2>2, <2>3
<1>11. TaskOK(t)' /\ (t \in Scheduled /\ ~IsOver(t))'
  BY <1>1, <1>2, <1>7 DEF TaskOK, Scheduled, IsOver, IsEndless, Limit, LaterOf
<1>12. AgendaInv'
  BY <1>6, <1>8, <1>9, <1>10, <1>11 DEF AgendaInv
<1> QED
  BY <1>3, <1>4, <1>12

\* What becomes of the head of the agenda when it was run, whatever the others are.
LEMMA RepostedFacts ==
    ASSUME TimersInv, Due, NEW rest, IsAgenda(rest),
           \A e \in Range(rest) : e.task # Head(agenda).task
    PROVE  LET t == Head(agenda).task
               next == [time |-> TimeOfRun(t, runs[t] + 1), task |-> t]
               done == ~IsEndless(t) /\ runs[t] + 1 = Limit(t)
           IN  /\ Head(agenda) \in Entry /\ EntryOK(Head(agenda)) /\ ~IsOver(t) /\ TaskOK(t)
               /\ TimeOfRun(t, runs[t]) <= passTime
               /\ CountAfter(t) \in Int
               /\ IsAgenda(Reposted(rest, Head(agenda)))
               /\ Range(Reposted(rest, Head(agenda))) =
                    IF done THEN Range(rest) ELSE Range(rest) \cup {next}
               /\ ~done => CountAfter(t) = IF IsEndless(t) THEN request[t].repeat
                                           ELSE request[t].repeat - (runs[t] + 1)
               /\ next \in Entry
<1> DEFINE head == Head(agenda)
           t == head.task
           next == [time |-> TimeOfRun(t, runs[t] + 1), task |-> t]
           done == ~IsEndless(t) /\ runs[t] + 1 = Limit(t)
<1> USE DEF TimersInv
<1>1. head \in Entry /\ head \in Range(agenda)
  BY TailAgenda DEF Due, AgendaInv
<1>2. EntryOK(head) /\ t \in Task /\ TaskOK(t) /\ ~IsOver(t)
  BY <1>1 DEF AgendaInv, Entry
<1> HIDE DEF head
<1>3. /\ runs[t] \in Nat /\ request[t].start \in Nat /\ request[t].interval \in Nat
      /\ request[t].repeat \in Int /\ count[t] \in Int
  BY <1>2 DEF TasksTypeOK
<1>4. NextTime(head) = TimeOfRun(t, runs[t] + 1) /\ TimeOfRun(t, runs[t] + 1) \in Nat
  <2>1. NextTime(head) = request[t].start + runs[t] * request[t].interval + request[t].interval
    BY <1>2 DEF NextTime, EntryOK, TimeOfRun
  <2>2. (runs[t] + 1) * request[t].interval = runs[t] * request[t].interval + request[t].interval
        /\ runs[t] * request[t].interval \in Nat
    BY <1>3
  <2>3. TimeOfRun(t, runs[t] + 1) = request[t].start + (runs[t] + 1) * request[t].interval
    BY DEF TimeOfRun
  <2> DEFINE before == runs[t] * request[t].interval
  <2> HIDE DEF before, t
  <2>4. NextTime(head) = request[t].start + before + request[t].interval
        /\ TimeOfRun(t, runs[t] + 1) = request[t].start + (before + request[t].interval)
        /\ before \in Nat
    BY <2>1, <2>2, <2>3 DEF before
  <2> QED
    BY <1>3, <2>4
<1>5. (CountAfter(t) = 0 <=> done) /\ CountAfter(t) \in Int
  BY <1>2, <1>3 DEF CountAfter, EntryOK, TaskOK, IsOver, IsEndless, Limit, LaterOf
<1>6. ~done => CountAfter(t) = IF IsEndless(t) THEN request[t].repeat
                               ELSE request[t].repeat - (runs[t] + 1)
  BY <1>2, <1>3 DEF CountAfter, EntryOK, TaskOK, IsOver, IsEndless, Limit, LaterOf
<1>7. next \in Entry
  BY <1>2, <1>4 DEF Entry
<1>8. Reposted(rest, head) = IF done THEN rest ELSE Emplace(rest, next)
  BY <1>4, <1>5 DEF Reposted
<1>9. TimeOfRun(t, runs[t]) <= passTime
  BY <1>2 DEF Due, EntryOK, head
<1>10. IsAgenda(Emplace(rest, next)) /\ Range(Emplace(rest, next)) = Range(rest) \cup {next}
  <2>1. \A e \in Range(rest) : e.task # next.task
    BY DEF head
  <2> HIDE DEF next
  <2> QED
    BY <1>7, <2>1, EmplaceAgenda
<1> HIDE DEF next, done
<1>11. /\ IsAgenda(Reposted(rest, head))
       /\ Range(Reposted(rest, head)) = IF done THEN Range(rest) ELSE Range(rest) \cup {next}
  BY <1>8, <1>10
<1> QED
  BY <1>1, <1>2, <1>5, <1>6, <1>7, <1>9, <1>11 DEF head, next, done

\* The task that ran is one run further; the agenda is right if the others are.
LEMMA RunHeadKeeps ==
    ASSUME TimersInv, Due, NEW t, t = Head(agenda).task, NEW rest, IsAgenda(rest),
           \A e \in Range(rest) : e.task # t,
           agenda' = Reposted(rest, Head(agenda)),
           count'[t] = CountAfter(t), runs'[t] = runs[t] + 1,
           request'[t] = request[t], interval'[t] = interval[t], seen'[t] = seen[t],
           pass' = pass, passTime' = passTime,
           \A e \in Range(rest) : EntryOK(e)',
           \A u \in Task \ {t} :
              /\ TaskOK(u)'
              /\ (\E e \in Range(rest) : e.task = u) <=> (u \in Scheduled /\ ~IsOver(u))'
    PROVE  AgendaInv'
<1> USE DEF TimersInv
<1>a. PICK head : head = Head(agenda)
  OBVIOUS
<1>b. PICK next : next = [time |-> TimeOfRun(t, runs[t] + 1), task |-> t]
  OBVIOUS
<1> DEFINE done == ~IsEndless(t) /\ runs[t] + 1 = Limit(t)
<1>1. /\ head \in Entry /\ EntryOK(head) /\ ~IsOver(t) /\ TaskOK(t)
      /\ TimeOfRun(t, runs[t]) <= passTime
      /\ CountAfter(t) \in Int
      /\ IsAgenda(agenda')
      /\ Range(agenda') = IF done THEN Range(rest) ELSE Range(rest) \cup {next}
      /\ ~done => CountAfter(t) = IF IsEndless(t) THEN request[t].repeat
                                  ELSE request[t].repeat - (runs[t] + 1)
      /\ next \in Entry
  BY <1>a, <1>b, RepostedFacts
<1>2. next.task = t /\ next.time = TimeOfRun(t, runs[t] + 1) /\ head.task = t
  BY <1>a, <1>b
<1>3. t \in Task /\ t \in Scheduled /\ pass = "scheduler"
  BY <1>1, <1>2 DEF Entry, EntryOK, Due
<1>4. passTime <= seen[t] /\ runs[t] \in Nat /\ seen[t] \in Int /\ passTime \in Int
  BY <1>1, <1>3 DEF TaskOK, TasksTypeOK, WheelTypeOK
<1>5. TimeOfRun(t, runs[t]) \in Int /\ TimeOfRun(t, runs[t]) <= seen[t]
  BY <1>1, <1>3, <1>4 DEF TasksTypeOK, TimeOfRun
<1>6. seen[t] = passTime
  BY <1>1, <1>2, <1>5 DEF EntryOK
<1>7. ASSUME ~done PROVE EntryOK(next)'
  <2>1. next.time = TimeOfRun(t, runs'[t])
    BY <1>2
  <2>2. count'[t] = IF IsEndless(t) THEN request[t].repeat ELSE request[t].repeat - runs'[t]
    BY <1>1, <1>7
  <2>3. interval[t] = request[t].interval
    BY <1>1, <1>2 DEF EntryOK
  <2> HIDE DEF done
  <2> QED
    BY <1>2, <1>3, <1>6, <2>1, <2>2, <2>3 DEF EntryOK, Scheduled, IsEndless, TimeOfRun
<1>8. TaskOK(t)'
  <2>1. Limit(t) \in Int
    BY <1>3 DEF Limit, LaterOf, TasksTypeOK
  <2>2. ASSUME ~IsEndless(t) PROVE runs'[t] <= Limit(t)
    <3>1. runs[t] <= Limit(t) /\ runs[t] # Limit(t)
      BY <1>1, <1>3, <2>2 DEF TaskOK, IsOver
    <3> QED
      BY <1>4, <2>1, <3>1
  <2>3. IsEndless(t) \/ runs'[t] <= Limit(t)
    BY <2>2
  <2>4. TimeOfRun(t, runs'[t] - 1) <= seen[t]
    BY <1>4, <1>5
  <2> QED
    BY <1>3, <1>4, <2>3, <2>4 DEF TaskOK, Scheduled, IsEndless, Limit, LaterOf, TimeOfRun
<1>9. (t \in Scheduled /\ ~IsOver(t))' <=> ~done
  BY <1>3 DEF Scheduled, IsOver, IsEndless, Limit, LaterOf
<1> HIDE DEF done
<1>10. (\E e \in Range(agenda') : e.task = t) <=> ~done
  <2>1. CASE done
    BY <1>1, <2>1
  <2>2. CASE ~done
    BY <1>1, <1>2, <2>2
  <2> QED
    BY <2>1, <2>2
<1>11. \A u \in Task \ {t} :
         (\E e \in Range(agenda') : e.task = u) <=> (\E e \in Range(rest) : e.task = u)
  BY <1>1, <1>2
<1>12. \A e \in Range(agenda') : EntryOK(e)'
  BY <1>1, <1>7
<1>13. ASSUME NEW u \in Task
       PROVE  /\ TaskOK(u)'
              /\ (\E e \in Range(agenda') : e.task = u) <=> (u \in Scheduled /\ ~IsOver(u))'
  <2>1. CASE u = t
    BY <1>8, <1>9, <1>10, <2>1
  <2>2. CASE u # t
    BY <1>11, <2>2
  <2> QED
    BY <2>1, <2>2
<1> QED
  BY <1>1, <1>12, <1>13 DEF AgendaInv

\* Nothing changes for the other tasks.
LEMMA RunTaskKeeps ==
    ASSUME TimersInv, RunTask
    PROVE  TimersInv'
<1> USE DEF TimersInv
<1>a. PICK t : t = Head(agenda).task
  OBVIOUS
<1>b. PICK rest : rest = Tail(agenda)
  OBVIOUS
<1>1. /\ Due
      /\ agenda' = Reposted(rest, Head(agenda))
      /\ count' = [count EXCEPT ![t] = CountAfter(t)]
      /\ runs' = [runs EXCEPT ![t] = runs[t] + 1]
      /\ UNCHANGED <<wall, adjusts, pass, passTime, interval, request, seen>>
      /\ UNCHANGED <<timerTime, timerCount, lastRun>>
  BY <1>a, <1>b DEF RunTask, CountRun, wallVars, timerVars
<1>2. /\ IsAgenda(rest) /\ \A e \in Range(rest) : e.task # t
      /\ Range(agenda) = Range(rest) \cup {Head(agenda)}
  BY <1>1, <1>a, <1>b, TailAgenda DEF Due, AgendaInv
<1>3. t \in Task /\ CountAfter(t) \in Int
  BY <1>1, <1>2, <1>a, RepostedFacts DEF Entry
<1>4. WheelTypeOK' /\ TimerInv'
  BY <1>1 DEF WheelTypeOK, TimerInv
<1>5. TasksTypeOK'
  BY <1>1, <1>3 DEF TasksTypeOK
<1>6. /\ runs'[t] = runs[t] + 1 /\ count'[t] = CountAfter(t)
      /\ \A u \in Task \ {t} : runs'[u] = runs[u] /\ count'[u] = count[u]
  BY <1>1, <1>3 DEF TasksTypeOK
<1>7. ASSUME NEW e \in Range(rest) PROVE EntryOK(e)'
  <2>1. EntryOK(e) /\ e.task # t /\ e.task \in Task
    BY <1>2 DEF AgendaInv, EntryOK, Scheduled
  <2> QED
    BY <1>1, <1>6, <2>1 DEF EntryOK, Scheduled, IsEndless, TimeOfRun
<1>8. ASSUME NEW u \in Task \ {t}
      PROVE  /\ TaskOK(u)'
             /\ (\E e \in Range(rest) : e.task = u) <=> (u \in Scheduled /\ ~IsOver(u))'
  <2>1. TaskOK(u) /\ ((\E e \in Range(agenda) : e.task = u) <=> u \in Scheduled /\ ~IsOver(u))
    BY DEF AgendaInv
  <2>2. TaskOK(u)'
    BY <1>1, <1>6, <2>1 DEF TaskOK, Scheduled, IsEndless, Limit, LaterOf, TimeOfRun
  <2>3. (u \in Scheduled /\ ~IsOver(u))' <=> u \in Scheduled /\ ~IsOver(u)
    BY <1>1, <1>6 DEF Scheduled, IsOver, IsEndless, Limit, LaterOf
  <2>4. (\E e \in Range(rest) : e.task = u) <=> (\E e \in Range(agenda) : e.task = u)
    BY <1>2, <1>a
  <2> QED
    BY <2>1, <2>2, <2>3, <2>4
<1>9. AgendaInv'
  BY <1>1, <1>2, <1>6, <1>7, <1>8, <1>a, RunHeadKeeps
<1> QED
  BY <1>4, <1>5, <1>9

\* The action of the task has entered another one before it is reposted.
LEMMA RunAndScheduleKeeps ==
    ASSUME TimersInv, NEW new \in Task, NEW r \in Requests, NEW time \in 0 .. MaxWall,
           RunAndSchedule(new, r, time)
    PROVE  TimersInv'
<1> USE TimersAssumption DEF TimersInv
<1>a. PICK t : t = Head(agenda).task
  OBVIOUS
<1>b. PICK first : first = [time |-> time, task |-> new]
  OBVIOUS
<1>c. PICK rest : rest = Emplace(Tail(agenda), first)
  OBVIOUS
<1>1. /\ Due /\ pass = "scheduler" /\ new \notin Scheduled
      /\ agenda' = Reposted(rest, Head(agenda))
      /\ interval' = [interval EXCEPT ![new] = r.interval]
      /\ count' = [count EXCEPT ![t] = CountAfter(t), ![new] = r.repeat]
      /\ runs' = [runs EXCEPT ![t] = runs[t] + 1]
      /\ request' = [request EXCEPT ![new] =
             [start |-> time, interval |-> r.interval, repeat |-> r.repeat, known |-> TRUE]]
      /\ seen' = [seen EXCEPT ![new] = passTime]
      /\ UNCHANGED <<wall, adjusts, pass, passTime, timerTime, timerCount, lastRun>>
  BY <1>a, <1>b, <1>c DEF RunAndSchedule, Due, CountRun, wallVars, timerVars
<1>2. r.interval \in Nat /\ r.repeat \in Int /\ time \in Nat
  OBVIOUS
<1>3. /\ IsAgenda(Tail(agenda)) /\ \A e \in Range(Tail(agenda)) : e.task # t
      /\ Range(agenda) = Range(Tail(agenda)) \cup {Head(agenda)}
  BY <1>1, <1>a, TailAgenda DEF Due, AgendaInv
<1>4. t \in Task /\ CountAfter(t) \in Int /\ t \in Scheduled /\ t # new
  <2>1. Head(agenda) \in Entry /\ EntryOK(Head(agenda)) /\ CountAfter(t) \in Int
    BY <1>1, <1>3, <1>a, RepostedFacts
  <2> QED
    BY <1>1, <1>a, <2>1 DEF Entry, EntryOK
<1>5. first \in Entry /\ first.task = new /\ first.time = time
  BY <1>2, <1>b DEF Entry
<1>6. \A e \in Range(agenda) : e.task # new
  BY <1>1 DEF AgendaInv, EntryOK
<1>7. IsAgenda(rest) /\ Range(rest) = Range(Tail(agenda)) \cup {first}
  BY <1>3, <1>5, <1>6, <1>c, EmplaceAgenda
<1>8. \A e \in Range(rest) : e.task # t
  BY <1>3, <1>4, <1>5, <1>7
<1>9. WheelTypeOK' /\ TimerInv'
  BY <1>1 DEF WheelTypeOK, TimerInv
<1>10. TasksTypeOK'
  <2>a. interval' \in [Task -> Nat] /\ runs' \in [Task -> Nat]
    <3>1. interval' \in [Task -> Nat]
      BY <1>1, <1>2 DEF TasksTypeOK
    <3>2. runs[t] + 1 \in Nat
      BY <1>4 DEF TasksTypeOK
    <3>3. runs' \in [Task -> Nat]
      BY <1>1, <3>2 DEF TasksTypeOK
    <3> QED
      BY <3>1, <3>3
  <2>1. seen' \in [Task -> Int]
    BY <1>1 DEF TasksTypeOK, WheelTypeOK
  <2>2. request' \in [Task -> [start : Nat, interval : Nat, repeat : Int, known : BOOLEAN]]
    BY <1>1, <1>2 DEF TasksTypeOK
  <2>3. count' \in [Task -> Int]
    BY <1>1, <1>2, <1>4 DEF TasksTypeOK
  <2> QED
    BY <2>a, <2>1, <2>2, <2>3 DEF TasksTypeOK
<1>11. /\ runs'[t] = runs[t] + 1 /\ count'[t] = CountAfter(t)
       /\ request'[t] = request[t] /\ interval'[t] = interval[t] /\ seen'[t] = seen[t]
       /\ \A u \in Task \ {t, new} :
            /\ runs'[u] = runs[u] /\ count'[u] = count[u]
            /\ request'[u] = request[u] /\ interval'[u] = interval[u] /\ seen'[u] = seen[u]
  BY <1>1, <1>4 DEF TasksTypeOK
<1>12. /\ runs'[new] = 0 /\ count'[new] = r.repeat /\ interval'[new] = r.interval
       /\ request'[new] = [start |-> time, interval |-> r.interval, repeat |-> r.repeat, known |-> TRUE]
       /\ seen'[new] = passTime /\ passTime \in Int
  BY <1>1, <1>4 DEF TasksTypeOK, AgendaInv, TaskOK, WheelTypeOK
<1>13. EntryOK(first)'
  <2>1. TimeOfRun(new, 0)' = time
    BY <1>2, <1>12 DEF TimeOfRun
  <2>2. new \in Scheduled'
    BY <1>12 DEF Scheduled
  <2> QED
    BY <1>1, <1>2, <1>5, <1>12, <2>1, <2>2 DEF EntryOK
<1>14. ASSUME NEW e \in Range(Tail(agenda)) PROVE EntryOK(e)'
  <2>1. EntryOK(e) /\ e.task # t /\ e.task # new /\ e.task \in Task
    BY <1>3, <1>6 DEF AgendaInv, EntryOK, Scheduled
  <2> QED
    BY <1>1, <1>11, <2>1 DEF EntryOK, Scheduled, IsEndless, TimeOfRun
<1>15. ASSUME NEW u \in Task \ {t}, u # new
       PROVE  /\ TaskOK(u)'
              /\ (\E e \in Range(rest) : e.task = u) <=> (u \in Scheduled /\ ~IsOver(u))'
  <2>1. TaskOK(u) /\ ((\E e \in Range(agenda) : e.task = u) <=> u \in Scheduled /\ ~IsOver(u))
    BY DEF AgendaInv
  <2>2. TaskOK(u)'
    BY <1>1, <1>11, <1>15, <2>1 DEF TaskOK, Scheduled, IsEndless, Limit, LaterOf, TimeOfRun
  <2>3. (u \in Scheduled /\ ~IsOver(u))' <=> u \in Scheduled /\ ~IsOver(u)
    BY <1>1, <1>11, <1>15 DEF Scheduled, IsOver, IsEndless, Limit, LaterOf
  <2>4. (\E e \in Range(rest) : e.task = u) <=> (\E e \in Range(agenda) : e.task = u)
    BY <1>3, <1>5, <1>7, <1>15, <1>a
  <2> QED
    BY <2>1, <2>2, <2>3, <2>4
<1>16. TaskOK(new)' /\ (new \in Scheduled /\ ~IsOver(new))' /\ \E e \in Range(rest) : e.task = new
  <2>1. new \in Scheduled' /\ ~IsOver(new)'
    BY <1>2, <1>12 DEF Scheduled, IsOver, IsEndless, Limit, LaterOf
  <2>2. TaskOK(new)'
    BY <1>1, <1>2, <1>12, <2>1 DEF TaskOK, Limit, LaterOf
  <2> QED
    BY <1>5, <1>7, <2>1, <2>2
<1>17. \A u \in Task \ {t} :
         /\ TaskOK(u)'
         /\ (\E e \in Range(rest) : e.task = u) <=> (u \in Scheduled /\ ~IsOver(u))'
  BY <1>15, <1>16
<1>18. \A e \in Range(rest) : EntryOK(e)'
  BY <1>7, <1>13, <1>14
<1>19. AgendaInv'
  BY <1>1, <1>7, <1>8, <1>11, <1>17, <1>18, <1>a, RunHeadKeeps
<1> QED
  BY <1>9, <1>10, <1>19

\* The agenda is always what the tasks and their runs say.
THEOREM TimersInvHolds == TimersSpec => []TimersInv
<1>1. TimersInit => TimersInv
  <2> SUFFICES ASSUME TimersInit PROVE TimersInv
    OBVIOUS
  <2> USE TimersAssumption DEF TimersInit
  <2>1. agenda = <<>> /\ agenda \in Seq(Entry) /\ DOMAIN agenda = {} /\ Range(agenda) = {}
    BY DEF Range
  <2>2. WheelTypeOK /\ TimerInv
    BY DEF WheelTypeOK, TimerInv
  <2>3. TasksTypeOK
    BY DEF TasksTypeOK, Unscheduled
  <2>4. Scheduled = {} /\ \A t \in Task : runs[t] = 0 /\ seen[t] = -1
    BY DEF Scheduled, Unscheduled
  <2>5. AgendaInv
    BY <2>1, <2>4 DEF AgendaInv, IsAgenda, IsOrdered, TaskOK
  <2> QED
    BY <2>2, <2>3, <2>5 DEF TimersInv
<1>2. TimersInv /\ [TimersNext]_wheelVars => TimersInv'
  <2> SUFFICES ASSUME TimersInv, [TimersNext]_wheelVars PROVE TimersInv'
    OBVIOUS
  <2>1. CASE UNCHANGED wheelVars
    BY <2>1 DEF wheelVars, wallVars, schedulerVars, timerVars, TimersInv, WheelTypeOK, TasksTypeOK,
                TimerInv, AgendaInv, EntryOK, TaskOK, Scheduled, IsOver, IsEndless, Limit, LaterOf,
                TimeOfRun
  <2>2. CASE Scheduling
    BY <2>2, ScheduleKeeps, RunAndScheduleKeeps DEF Scheduling
  <2>3. CASE Background
    BY <2>3, BeginPassKeeps, RunTaskKeeps, EndSchedulerKeeps, TimerKeeps DEF Background
  <2> QED
    BY <2>1, <2>2, <2>3, ClockKeeps DEF TimersNext
<1> QED
  BY <1>1, <1>2, PTL DEF TimersSpec

\* TimersTypeOK: the loop always stands at the earliest task, and the multimap has
\* exactly the tasks that are not over.
THEOREM TimersTypeCorrect == TimersSpec => []TimersTypeOK
<1>1. TimersInv => TimersTypeOK
  <2> SUFFICES ASSUME TimersInv PROVE TimersTypeOK
    OBVIOUS
  <2>1. agenda \in Seq([time : Nat, task : Task]) /\ IsOrdered(agenda)
    BY DEF TimersInv, AgendaInv, IsAgenda, Entry
  <2>2. \A j, k \in DOMAIN agenda : j # k => agenda[j].task # agenda[k].task
    BY DEF TimersInv, AgendaInv, IsAgenda
  <2>3. ASSUME NEW t \in Task
        PROVE  (\E k \in DOMAIN agenda : agenda[k].task = t) <=> t \in Scheduled /\ ~IsOver(t)
    <3>1. (\E e \in Range(agenda) : e.task = t) <=> \E k \in DOMAIN agenda : agenda[k].task = t
      BY DEF Range
    <3> QED
      BY <3>1 DEF TimersInv, AgendaInv
  <2>4. AgendaTypeOK
    BY <2>1, <2>2, <2>3 DEF AgendaTypeOK
  <2>5. lastRun \in 0 .. MaxWall
    BY TimersAssumption DEF TimersInv, TimerInv
  <2> QED
    BY <2>4, <2>5 DEF TimersTypeOK, TimersInv, WheelTypeOK, TasksTypeOK, TimerInv
<1> QED
  BY <1>1, TimersInvHolds, PTL

\* RunsAreExact: between two passes every task has made exactly the runs that were
\* due in the latest pass that had it, up to its count.
THEOREM RunsAreExactHolds == TimersSpec => []RunsAreExact
<1>1. TimersInv => RunsAreExact
  <2> SUFFICES ASSUME TimersInv, pass = "sleep", NEW t \in Scheduled
               PROVE  /\ runs[t] > 0 => TimeOfRun(t, runs[t] - 1) <= seen[t]
                      /\ IsOver(t) \/ TimeOfRun(t, runs[t]) > seen[t]
                      /\ IsEndless(t) \/ runs[t] <= Limit(t)
    BY DEF RunsAreExact
  <2>1. t \in Task /\ TaskOK(t)
    BY DEF TimersInv, AgendaInv, Scheduled
  <2>2. ASSUME ~IsOver(t) PROVE TimeOfRun(t, runs[t]) > seen[t]
    <3>1. PICK e \in Range(agenda) : e.task = t
      BY <2>1, <2>2 DEF TimersInv, AgendaInv
    <3>2. EntryOK(e)
      BY DEF TimersInv, AgendaInv
    <3>3. ~(TimeOfRun(t, runs[t]) <= seen[t])
      BY <3>1, <3>2 DEF EntryOK
    <3>4. TimeOfRun(t, runs[t]) \in Int /\ seen[t] \in Int
      BY <2>1 DEF TimersInv, TasksTypeOK, TimeOfRun
    <3> QED
      BY <3>3, <3>4
  <2> QED
    BY <2>1, <2>2 DEF TaskOK
<1> QED
  BY <1>1, TimersInvHolds, PTL

\* TimerSpacing: from one run of the timer to the next at least its interval passes.
THEOREM TimerSpacingHolds == TimersSpec => TimerSpacing
<1>1. TimersInv /\ [TimersNext]_wheelVars =>
        [lastRun' # lastRun /\ lastRun # 0 => lastRun' >= lastRun + TimerInterval]_wheelVars
  <2> SUFFICES ASSUME TimersInv, TimersNext, lastRun' # lastRun, lastRun # 0
               PROVE  lastRun' >= lastRun + TimerInterval
    OBVIOUS
  <2>1. RunTimer
    BY DEF TimersNext, Scheduling, Background, WallTick, Adjust, Schedule, RunAndSchedule,
           BeginTimersPass, RunTask, EndScheduler, ExecuteTimer, TimerOff, StartTimer, TimerWaits,
           SetTimerCount, timerVars
  <2>2. lastRun = timerTime
    BY DEF TimersInv, TimerInv
  <2> QED
    BY <2>1, <2>2 DEF RunTimer, TimerDue
<1> QED
  BY <1>1, TimersInvHolds, PTL DEF TimersSpec, TimerSpacing

-----------------------------------------------------------------------------
(***************************************************************************)
(* The watchdog.                                                           *)
(***************************************************************************)
\* TypeOK: times and counts are natural numbers.
THEOREM WatchdogTypeCorrect == Spec => []TypeOK
<1>1. Init => TypeOK
  <2> SUFFICES ASSUME Init PROVE TypeOK
    OBVIOUS
  <2>1. now \in Nat /\ clock \in Nat /\ lastTime \in Nat /\ lastReset \in Nat
    BY DEF Init
  <2>2. misses \in Nat /\ alarms \in Nat
    BY DEF Init
  <2> QED
    BY <2>1, <2>2 DEF Init, TypeOK
<1>2. TypeOK /\ [Next]_vars => TypeOK'
  <2> SUFFICES ASSUME TypeOK, [Next]_vars PROVE TypeOK'
    OBVIOUS
  <2> USE DEF TypeOK
  <2>1. CASE Tick
    BY <2>1 DEF Tick
  <2>2. CASE Reset
    BY <2>2 DEF Reset
  <2>3. CASE BeginPass
    BY <2>3 DEF BeginPass
  <2>4. CASE Execute /\ Start
    BY <2>4 DEF Execute, Start
  <2>5. CASE Execute /\ SeeReset
    BY <2>5 DEF Execute, SeeReset
  <2>6. CASE Execute /\ Miss
    <3>1. misses' \in Nat /\ alarms' \in Nat
      BY <2>6 DEF Execute, Miss
    <3> QED
      BY <2>6, <3>1 DEF Execute, Miss
  <2>7. CASE Execute /\ Wait
    BY <2>7 DEF Execute, Wait
  <2>8. CASE UNCHANGED vars
    BY <2>8 DEF vars
  <2> QED
    BY <2>1, <2>2, <2>3, <2>4, <2>5, <2>6, <2>7, <2>8 DEF Next, Execute
<1> QED
  BY <1>1, <1>2, PTL DEF Spec

\* ActionOnce: one hang of the main thread triggers the action at most once.
THEOREM ActionOnceHolds == Spec => []ActionOnce
<1>1. Init => ActionOnce
  BY ConstantsAssumption DEF Init, ActionOnce
<1>2. TypeOK /\ ActionOnce /\ [Next]_vars => ActionOnce'
  BY ConstantsAssumption
     DEF TypeOK, ActionOnce, Next, vars, Tick, Reset, BeginPass, Execute, Start,
         SeeReset, Miss, Wait, TakesAction
<1> QED
  BY <1>1, <1>2, WatchdogTypeCorrect, PTL DEF Spec

(***************************************************************************)
(* The time noted for the last reset is behind it by MaxLag at most, since *)
(* the latch is read in a pass whose clock is no older than that.          *)
(***************************************************************************)
LagInv ==
    /\ clock <= now
    /\ inPass => now <= clock + MaxLag
    /\ lastReset <= now
    /\ lastTime <= clock
    /\ latch => lastTime # 0 /\ lastReset <= lastTime + MaxLag

LEMMA LagAgain ==
    ASSUME TypeOK, LagInv, [Next]_vars
    PROVE  LagInv'
<1> USE ConstantsAssumption DEF TypeOK, LagInv
<1>1. CASE Tick
  BY <1>1 DEF Tick
<1>2. CASE Reset
  BY <1>2 DEF Reset
<1>3. CASE BeginPass
  BY <1>3 DEF BeginPass
<1>4. CASE Execute /\ Start
  BY <1>4 DEF Execute, Start
<1>5. CASE Execute /\ SeeReset
  BY <1>5 DEF Execute, SeeReset
<1>6. CASE Execute /\ (Miss \/ Wait)
  BY <1>6 DEF Execute, Miss, Wait
<1>7. CASE UNCHANGED vars
  BY <1>7 DEF vars
<1> QED
  BY <1>1, <1>2, <1>3, <1>4, <1>5, <1>6, <1>7 DEF Next, Execute

\* AlarmMeansSilence: no step executes the action unless the main thread has
\* been silent for the allowed intervals and one more, less the lag.
THEOREM NoEarlyAlarm == Spec => AlarmMeansSilence
<1>1. Init => LagInv
  BY ConstantsAssumption DEF Init, LagInv
<1>2. TypeOK /\ LagInv /\ [Next]_vars => LagInv'
  BY LagAgain
<1>3. TypeOK /\ LagInv /\ [Next]_vars
        => [alarms' > alarms
              => now - lastReset > Interval * (AllowedMisses + 1) - MaxLag]_vars
  <2> SUFFICES ASSUME TypeOK, LagInv, Next, alarms' > alarms
               PROVE  now - lastReset > Interval * (AllowedMisses + 1) - MaxLag
    BY DEF vars
  <2>1. Execute /\ Miss /\ TakesAction
    BY DEF TypeOK, Next, Tick, Reset, BeginPass, Execute, Start, SeeReset, Miss, Wait
  <2>2. clock > lastTime + Interval * (misses + 1) /\ misses + 1 = AllowedMisses + 1
    BY <2>1 DEF Miss, Overdue, TakesAction
  <2>3. clock > lastTime + Interval * (AllowedMisses + 1)
    BY <2>2
  <2> DEFINE allowed == Interval * (AllowedMisses + 1)
  <2>4. allowed \in Int
    BY ConstantsAssumption
  <2>5. clock > lastTime + allowed
    BY <2>3
  <2>6. latch /\ lastReset <= lastTime + MaxLag /\ clock <= now
    BY <2>1 DEF Miss, LagInv
  <2> HIDE DEF allowed
  <2>7. now - lastReset > allowed - MaxLag
    BY <2>4, <2>5, <2>6, ConstantsAssumption DEF TypeOK
  <2> QED
    BY <2>7 DEF allowed
<1> QED
  BY <1>1, <1>2, <1>3, WatchdogTypeCorrect, PTL DEF Spec, AlarmMeansSilence

(***************************************************************************)
(* The pass before this one, or the last one, can have begun no later than *)
(* this; a watchdog that is not started, that has not seen the reset, or   *)
(* that is short of a further miss did not execute in a later pass.        *)
(***************************************************************************)
Executed == IF inPass THEN clock - MaxPeriod ELSE clock

HangInv ==
    /\ now <= clock + MaxPeriod
    /\ lastTime = 0 => Executed <= lastReset
    /\ ~latch => Executed <= lastReset + MaxPeriod
    /\ latch => /\ lastTime <= lastReset + 2 * MaxPeriod
                /\ Executed <= lastTime + Interval * (misses + 1)

\* A further interval, and no fewer of them, is later.
LEMMA MoreIntervals ==
    ASSUME NEW m \in Nat, NEW n \in Nat, m <= n
    PROVE  /\ Interval * (m + 1) \in Nat /\ Interval * (n + 1) \in Nat
           /\ Interval * (m + 1) <= Interval * (n + 1)
           /\ Interval * (m + 2) = Interval * (m + 1) + Interval
<1>1. \A a, b, c \in Nat : a <= b => c * a <= c * b /\ c * a \in Nat /\ c * b \in Nat
  <2> SUFFICES ASSUME NEW a \in Nat, NEW b \in Nat, NEW c \in Nat, a <= b
               PROVE  c * a <= c * b /\ c * a \in Nat /\ c * b \in Nat
    OBVIOUS
  <2>1. PICK d \in Nat : b = a + d
    <3>1. b - a \in Nat /\ b = a + (b - a)
      OBVIOUS
    <3> QED
      BY <3>1
  <2>2. c * b = c * a + c * d /\ c * d \in Nat /\ c * a \in Nat
    BY <2>1
  <2> QED
    BY <2>2
<1>2. Interval \in Nat
  BY ConstantsAssumption
<1>3. Interval * (m + 2) = Interval * (m + 1) + Interval
  BY <1>2
<1> QED
  BY <1>1, <1>2, <1>3

LEMMA HangAgain ==
    ASSUME MaxPeriod <= Interval, TypeOK, LagInv, HangInv, [Next]_vars
    PROVE  HangInv'
<1> USE ConstantsAssumption DEF TypeOK, LagInv, HangInv, Executed
<1>1. CASE Tick
  BY <1>1 DEF Tick
<1>2. CASE Reset
  BY <1>2 DEF Reset
<1>3. CASE BeginPass
  BY <1>3 DEF BeginPass
<1>4. CASE Execute /\ Start
  BY <1>4 DEF Execute, Start
<1>5. CASE Execute /\ SeeReset
  BY <1>5 DEF Execute, SeeReset
<1>6. CASE Execute /\ Miss
  <2>1. Interval * (misses' + 1) = Interval * (misses + 1) + Interval
    <3>1. misses' = misses + 1
      BY <1>6 DEF Miss
    <3> QED
      BY <3>1, MoreIntervals
  <2>2. Interval * (misses + 1) \in Nat
    BY MoreIntervals
  <2> DEFINE due == Interval * (misses + 1)
  <2>3. clock - MaxPeriod <= lastTime + due /\ due \in Nat
    BY <1>6, <2>2 DEF Execute, Miss
  <2> HIDE DEF due
  <2>4. clock <= lastTime + (due + Interval)
    BY <2>3
  <2>5. clock <= lastTime + Interval * (misses' + 1)
    BY <2>1, <2>4 DEF due
  <2> QED
    BY <1>6, <2>5 DEF Execute, Miss
<1>7. CASE Execute /\ Wait
  BY <1>7 DEF Execute, Wait, Overdue
<1>8. CASE UNCHANGED vars
  BY <1>8 DEF vars
<1> QED
  BY <1>1, <1>2, <1>3, <1>4, <1>5, <1>6, <1>7, <1>8 DEF Next, Execute

\* HangIsNoticed: a main thread that stays silent is reported in time.
THEOREM HangIsNoticedHolds == Spec => []HangIsNoticed
<1>1. Init => LagInv /\ (MaxPeriod <= Interval => HangInv)
  BY ConstantsAssumption DEF Init, LagInv, HangInv, Executed
<1>2. TypeOK /\ LagInv /\ (MaxPeriod <= Interval => HangInv) /\ [Next]_vars
        => LagInv' /\ (MaxPeriod <= Interval => HangInv)'
  BY LagAgain, HangAgain
<1>3. ASSUME TypeOK, ActionOnce, LagInv, MaxPeriod <= Interval => HangInv
      PROVE  HangIsNoticed
  <2> SUFFICES ASSUME MaxPeriod <= Interval, now - lastReset > DetectionTime, alarms # 1
               PROVE  FALSE
    BY DEF HangIsNoticed
  <2>1. misses <= AllowedMisses
    BY <1>3, ConstantsAssumption DEF TypeOK, ActionOnce
  <2> DEFINE allowed == Interval * (AllowedMisses + 1)
             due == Interval * (misses + 1)
  <2>2. allowed \in Nat /\ due \in Nat /\ due <= allowed
    BY <1>3, <2>1, MoreIntervals, ConstantsAssumption DEF TypeOK
  <2>3. /\ ~latch => Executed <= lastReset + MaxPeriod
        /\ latch => lastTime <= lastReset + 2 * MaxPeriod /\ Executed <= lastTime + due
    BY <1>3 DEF HangInv
  <2>4. now <= Executed + MaxPeriod + MaxLag /\ Executed \in Int
    BY <1>3, ConstantsAssumption DEF TypeOK, LagInv, HangInv, Executed
  <2>5. now - lastReset > allowed + 3 * MaxPeriod + MaxLag
    BY DEF DetectionTime
  <2> HIDE DEF allowed, due
  <2> QED
    BY <1>3, <2>2, <2>3, <2>4, <2>5, ConstantsAssumption DEF TypeOK
<1> QED
  BY <1>1, <1>2, <1>3, WatchdogTypeCorrect, ActionOnceHolds, PTL DEF Spec
-----------------------------------------------------------------------------
(***************************************************************************)
(* Profiles that were not sampled while they were written: what each has   *)
(* counted, where its samples are, and what was taken of them.             *)
(***************************************************************************)
IsInOrder(seq) == \A j, k \in 1 .. Len(seq) : j < k => seq[j] <= seq[k]

\* The samples of a bin; if they are not dirty, they are in order.
IsBin(o) ==
    /\ o.samples \in Seq(Int) /\ o.dirty \in BOOLEAN
    /\ ~o.dirty => IsInOrder(o.samples)

\* Each statistics has a sum, which tells what it took last.
HasSums(statistics) ==
    /\ DOMAIN statistics = Statistic
    /\ \A k \in Statistic : "sum" \in DOMAIN statistics[k] /\ statistics[k].sum \in Int

IsProfile(r) ==
    /\ DOMAIN r = {"count", "startTime", "order", "warmup", "statistics"}
    /\ "count" \in DOMAIN r.warmup
    /\ r.count \in Nat /\ r.warmup.count \in Nat /\ r.startTime \in Int
    /\ IsBin(r.order) /\ HasSums(r.statistics)

\* The value v is what the statistics k has to take of a bin.
IsRank(bin, k, v) ==
    /\ k = 1 => v = Min(Range(bin))
    /\ k = Largest => v = Max(Range(bin))
    /\ k \notin {1, Largest} => HasRank(bin, v, Fractions[k - 1])

\* All that are taken of a bin.
HasRanks(b) ==
    b = NoBin \/ (DOMAIN b.taken = Statistic /\ \A k \in Statistic : IsRank(b.samples, k, b.taken[k]))

\* Of the n samples that are in no warm-up and do not wait, all are in bins.
IsBalanced(p, r, n) ==
    /\ n \in Nat
    /\ r.count = r.warmup.count + n + Len(r.order.samples)
    /\ r.warmup.count <= WarmupSize[p]

\* While it is written, those that wait are in the latest bin.
IsSummed(p, r, n) ==
    /\ n \in Nat
    /\ r.count = r.warmup.count + n
    /\ r.warmup.count <= WarmupSize[p]

\* The ranks of the statistics before k were taken, and what is there to be taken has
\* the ranks of the others.
IsTakenTo(r, b, k) ==
    /\ "taken" \in DOMAIN b /\ b.taken \in Seq(Int) /\ Len(b.taken) = k - 1
    /\ \A j \in 1 .. k - 1 : IsRank(b.samples, j, b.taken[j])
    /\ r.order.samples # <<>>
    /\ \A j \in Statistic : IsRank(b.samples, j, ValueOf(r.order, j))

\* What is known of a profile in each phase in which it is written, or while it is not.
IsIntact(p, r, n, b, l, phase, pending, k) ==
    /\ l.n = l.told
    /\ phase = "idle" => IsBalanced(p, r, n + pending)
    /\ phase # "idle" => pending = 0 /\ IsSummed(p, r, n)
    /\ phase = "print" => r.order.samples = <<>>
    /\ phase = "take" => IsTakenTo(r, b, k)
    /\ phase # "take" => HasRanks(b)

Phase(p) == IF IsBeingWritten(p) THEN cycle ELSE "idle"

Pending(p) == IF IsBeingSampled(p) THEN 1 ELSE 0

Intact(p) ==
    IsIntact(p, profiles[p], binned[p], lastBin[p], line[p], Phase(p), Pending(p), taking)

ThreadsOK ==
    /\ instant \in Int /\ lastDelta \in Int
    /\ running = Nobody => lastDelta = NoDelta
    /\ running # Nobody => running \in Timed
    /\ cycle = "take" => taking \in Statistic

ProfilesOK ==
    /\ DOMAIN profiles = ProfileOf /\ DOMAIN binned = ProfileOf
    /\ DOMAIN lastBin = ProfileOf /\ DOMAIN line = ProfileOf
    /\ \A p \in ProfileOf : IsProfile(profiles[p]) /\ binned[p] \in Nat

ProfilesInv == ThreadsOK /\ ProfilesOK /\ \A p \in ProfileOf \ torn : Intact(p)

\* A summary counts one more sample, and adds it to the sum.
LEMMA RangedFacts ==
    ASSUME NEW s, NEW t
    PROVE  /\ "count" \in DOMAIN s =>
                /\ "count" \in DOMAIN RangedSample(s, t)
                /\ RangedSample(s, t).count = s.count + 1
           /\ "sum" \in DOMAIN s =>
                /\ "sum" \in DOMAIN RangedSample(s, t)
                /\ RangedSample(s, t).sum = s.sum + t
<1> DEFINE sampled == SummarySample(s, t)
<1>1. /\ "count" \in DOMAIN s => "count" \in DOMAIN sampled /\ sampled.count = s.count + 1
      /\ "sum" \in DOMAIN s => "sum" \in DOMAIN sampled /\ sampled.sum = s.sum + t
  BY DEF SummarySample
<1> HIDE DEF sampled
<1> QED
  BY <1>1 DEF RangedSample, sampled

\* The samples, once they are sorted.
LEMMA OrderFacts ==
    ASSUME NEW o, IsBin(o)
    PROVE  /\ Ordered(o) \in Seq(Int) /\ Len(Ordered(o)) = Len(o.samples)
           /\ IsInOrder(Ordered(o))
           /\ \E p : /\ IsSorting(p, o.samples, Len(o.samples))
                     /\ \A k \in 1 .. Len(o.samples) : Ordered(o)[k] = o.samples[p[k]]
<1> DEFINE bin == o.samples
           n == Len(o.samples)
<1>1. bin \in Seq(Int) /\ n \in Nat /\ DOMAIN bin = 1 .. n /\ bin \in [1 .. n -> Int]
  <2>1. bin \in Seq(Int)
    BY DEF IsBin
  <2>2. bin = [k \in 1 .. n |-> bin[k]]
    BY <2>1, SeqFacts
  <2> QED
    BY <2>1, <2>2, SeqFacts
<1> HIDE DEF bin, n
<1>2. CASE o.dirty
  <2>1. \E p : IsSorting(p, bin, n)
    BY <1>1, SortingExists
  <2>2. IsSorting(Sorting(bin), bin, n)
    <3>1. Sorting(bin) = CHOOSE p : IsSorting(p, bin, n)
      BY <1>1 DEF Sorting, IsSorting
    <3> QED
      BY <2>1, <3>1
  <2> DEFINE p == Sorting(bin)
  <2>3. Ordered(o) = [k \in 1 .. n |-> bin[p[k]]]
    BY <1>1, <1>2 DEF Ordered, bin
  <2>4. \A k \in 1 .. n : p[k] \in 1 .. n
    BY <2>2 DEF IsSorting, Bijection, Injection
  <2>5. \A k \in 1 .. n : bin[p[k]] \in Int
    BY <1>1, <2>4
  <2> HIDE DEF p
  <2>6. Ordered(o) \in Seq(Int) /\ Len(Ordered(o)) = n
    <3>1. Ordered(o) \in [1 .. n -> Int]
      BY <2>3, <2>5
    <3>2. [1 .. n -> Int] \subseteq Seq(Int)
      BY <1>1, SeqDef
    <3>3. Ordered(o) \in Seq(Int) /\ DOMAIN Ordered(o) = 1 .. n
      BY <3>1, <3>2
    <3>4. Len(Ordered(o)) \in Nat /\ 1 .. Len(Ordered(o)) = 1 .. n
      BY <3>3, SeqFacts
    <3> QED
      BY <1>1, <3>3, <3>4
  <2>7. \A k \in 1 .. n : Ordered(o)[k] = bin[p[k]]
    BY <2>3
  <2>8. IsInOrder(Ordered(o))
    BY <2>2, <2>6, <2>7 DEF IsInOrder, IsSorting, p
  <2> QED
    BY <2>2, <2>6, <2>7, <2>8 DEF p, bin, n
<1>3. CASE ~o.dirty
  <2>1. Ordered(o) = bin /\ IsInOrder(bin)
    BY <1>3 DEF Ordered, bin, IsBin
  <2> DEFINE p == [k \in 1 .. n |-> k]
  <2>2. IsSorting(p, bin, n)
    <3>1. p \in [1 .. n -> 1 .. n] /\ \A k \in 1 .. n : p[k] = k
      OBVIOUS
    <3> HIDE DEF p
    <3>2. p \in Bijection(1 .. n, 1 .. n)
      BY <3>1 DEF Bijection, Injection, Surjection, IsInjective
    <3> QED
      BY <2>1, <3>1, <3>2 DEF IsSorting, IsInOrder, n, bin
  <2>3. \A k \in 1 .. n : Ordered(o)[k] = bin[p[k]]
    BY <2>1
  <2> QED
    BY <1>1, <2>1, <2>2, <2>3 DEF bin, n
<1> QED
  BY <1>2, <1>3

\* Each fractile of a bin that is not empty is of its rank.
LEMMA ValueIsRank ==
    ASSUME NEW o, IsBin(o), o.samples # <<>>, NEW f \in Statistic
    PROVE  ValueOf(o, f) \in Int /\ IsRank(o.samples, f, ValueOf(o, f))
<1> DEFINE bin == o.samples
           b == Ordered(o)
<1>0. /\ Largest \in Nat /\ Largest # 1 /\ f \in 1 .. Largest
      /\ \A k \in 1 .. Largest : k \notin {1, Largest} => k - 1 \in DOMAIN Fractions
  <2>1. DOMAIN Fractions = 1 .. Len(Fractions) /\ Len(Fractions) \in Nat
    BY SeqFacts, ProfilesAssumption
  <2> QED
    BY <2>1 DEF Largest, Statistic
<1>1. PICK n \in Nat \ {0} : n = Len(bin)
  <2>1. bin \in Seq(Int)
    BY DEF IsBin
  <2>2. Len(bin) \in Nat /\ (bin = <<>> <=> Len(bin) = 0)
    BY <2>1, SeqFacts
  <2> QED
    BY <2>2
<1>2. bin \in Seq(Int) /\ DOMAIN bin = 1 .. n /\ \A k \in 1 .. n : bin[k] \in Int
  BY <1>1, SeqFacts DEF IsBin
<1>3. b \in Seq(Int) /\ Len(b) = n /\ IsInOrder(b)
  BY <1>1, OrderFacts
<1>4. PICK p : IsSorting(p, bin, n) /\ \A k \in 1 .. n : b[k] = bin[p[k]]
  BY <1>1, OrderFacts
<1>5. /\ \A k \in 1 .. n : b[k] \in Int
      /\ \A l, k \in 1 .. n : l < k => b[l] <= b[k]
  BY <1>3, SeqFacts DEF IsInOrder
<1>6. Range(bin) = {b[k] : k \in 1 .. n}
  <2>1. \A k \in 1 .. n : p[k] \in 1 .. n /\ \E l \in 1 .. n : p[l] = k
    BY <1>4 DEF IsSorting, Bijection, Injection, Surjection
  <2>2. Range(bin) = {bin[k] : k \in 1 .. n}
    BY <1>2 DEF Range
  <2>3. \A k \in 1 .. n : (\E l \in 1 .. n : bin[k] = b[l]) /\ (\E l \in 1 .. n : b[k] = bin[l])
    <3> SUFFICES ASSUME NEW k \in 1 .. n
                 PROVE  (\E l \in 1 .. n : bin[k] = b[l]) /\ (\E l \in 1 .. n : b[k] = bin[l])
      OBVIOUS
    <3>1. PICK l \in 1 .. n : p[l] = k
      BY <2>1
    <3>2. b[l] = bin[k] /\ b[k] = bin[p[k]] /\ p[k] \in 1 .. n
      BY <1>4, <2>1, <3>1
    <3> HIDE DEF bin, b
    <3> QED
      BY <3>1, <3>2
  <2> HIDE DEF bin, b
  <2>4. {bin[k] : k \in 1 .. n} \subseteq {b[k] : k \in 1 .. n}
    BY ONLY <2>3
  <2>5. {b[k] : k \in 1 .. n} \subseteq {bin[k] : k \in 1 .. n}
    BY ONLY <2>3
  <2> QED
    BY <2>2, <2>4, <2>5
<1> HIDE DEF bin, b
<1>7. CASE f = 1
  <2>1. 1 \in 1 .. n /\ \A k \in 1 .. n : k = 1 \/ 1 < k
    OBVIOUS
  <2>2. \A k \in 1 .. n : b[1] <= b[k]
    BY <1>5, <2>1
  <2>3. b[1] \in Range(bin) /\ \A x \in Range(bin) : x \in Int /\ b[1] <= x
    BY <1>5, <1>6, <2>1, <2>2
  <2>4. b[1] = Min(Range(bin))
    <3>1. \A y \in Range(bin) : (\A x \in Range(bin) : y <= x) => y = b[1]
      BY <1>5, <2>1, <2>3
    <3> QED
      BY <2>3, <3>1 DEF Min
  <2>5. ValueOf(o, f) = b[1]
    BY <1>0, <1>7 DEF ValueOf, b
  <2>6. f \in {1, Largest} /\ f # Largest
    BY <1>0, <1>7
  <2> QED
    BY <1>5, <2>1, <2>4, <2>5, <2>6 DEF IsRank, bin
<1>8. CASE f = Largest
  <2>1. n \in 1 .. n /\ \A k \in 1 .. n : k = n \/ k < n
    OBVIOUS
  <2>2. \A k \in 1 .. n : b[k] <= b[n]
    BY <1>5, <2>1
  <2>3. b[n] \in Range(bin) /\ \A x \in Range(bin) : x \in Int /\ x <= b[n]
    BY <1>5, <1>6, <2>1, <2>2
  <2>4. b[n] = Max(Range(bin))
    <3>1. \A y \in Range(bin) : (\A x \in Range(bin) : y >= x) => y = b[n]
      BY <1>5, <2>1, <2>3
    <3>2. \A x \in Range(bin) : b[n] >= x
      BY <1>5, <2>1, <2>3
    <3> QED
      BY <2>3, <3>1, <3>2 DEF Max
  <2>5. ValueOf(o, f) = b[n]
    BY <1>0, <1>1, <1>8 DEF ValueOf, b, bin
  <2>6. f \in {1, Largest} /\ f # 1
    BY <1>0, <1>8
  <2> QED
    BY <1>5, <2>1, <2>4, <2>5, <2>6 DEF IsRank, bin
<1>9. CASE f \notin {1, Largest}
  <2> DEFINE fraction == Fractions[f - 1]
  <2>1. /\ fraction[1] \in Nat /\ fraction[2] \in Nat
        /\ fraction[1] < fraction[2]
    <3>1. f - 1 \in DOMAIN Fractions
      BY <1>0, <1>9
    <3> QED
      BY <3>1, SeqFacts, ProfilesAssumption
  <2>2. PICK a \in Nat : a = fraction[1]
    BY <2>1
  <2>3. PICK d \in Nat \ {0} : d = fraction[2] /\ a < d
    BY <2>1, <2>2
  <2>4. PICK j \in Int : j = (a * n) \div d + 1
    OBVIOUS
  <2>5. j \in 1 .. n /\ (j - 1) * d <= a * n /\ j * d > a * n
    <3>1. PICK q \in Int : q = (a * n) \div d
      OBVIOUS
    <3>2. PICK r \in 0 .. d - 1 : r = (a * n) % d
      OBVIOUS
    <3>3. a * n = (d * q) + r
      BY <3>1, <3>2
    <3>4. q >= 0
      <4>1. q <= -1 => d * q <= -d
        OBVIOUS
      <4>2. a * n >= 0
        OBVIOUS
      <4> QED
        BY <3>3, <4>1, <4>2
    <3>5. q <= n - 1
      <4>1. q >= n => d * q >= d * n
        BY ONLY q \in Int, n \in Nat \ {0}, d \in Nat \ {0}, SMTT(30)
      <4>2. a * n < d * n
        BY <2>3, SMTT(30)
      <4> QED
        BY <3>3, <4>1, <4>2
    <3>6. (q + 1) * d = (d * q) + d /\ ((q + 1) - 1) * d = d * q
      OBVIOUS
    <3>7. j = q + 1
      BY <2>4, <3>1
    <3> QED
      BY <3>3, <3>4, <3>5, <3>6, <3>7
  <2>6. ValueOf(o, f) = b[j]
    <3>1. ValueOf(o, f) = FractileOf(o, fraction)
      BY <1>9 DEF ValueOf
    <3> QED
      BY <1>1, <2>2, <2>3, <2>4, <3>1 DEF FractileOf, b, bin
  <2>7. PICK v \in Int : v = b[j]
    BY <1>5, <2>5
  <2>8. v = bin[p[j]]
    BY <1>4, <2>5, <2>7
  <2>9. PICK low : low = Cardinality({k \in 1 .. n : bin[k] < v})
    OBVIOUS
  <2>10. PICK high : high = Cardinality({k \in 1 .. n : bin[k] <= v})
    OBVIOUS
  <2>11. low \in 0 .. j - 1 /\ high \in j .. n
    <3>1. /\ Cardinality({k \in 1 .. n : bin[k] < bin[p[j]]}) \in 0 .. j - 1
          /\ Cardinality({k \in 1 .. n : bin[k] <= bin[p[j]]}) \in j .. n
      <4>1. PICK c : c = bin
        OBVIOUS
      <4>2. (\A k \in 1 .. n : c[k] \in Int) /\ IsSorting(p, c, n) /\ n \in Nat
        BY <1>2, <1>4, <4>1
      <4>3. /\ Cardinality({k \in 1 .. n : c[k] < c[p[j]]}) \in 0 .. j - 1
            /\ Cardinality({k \in 1 .. n : c[k] <= c[p[j]]}) \in j .. n
        BY ONLY <2>5, <4>2, RankCounts, ZenonT(60)
      <4> QED
        BY ONLY <4>1, <4>3, Zenon
    <3> QED
      BY ONLY <2>8, <2>9, <2>10, <3>1, Zenon
  <2>12. low * d <= a * n /\ high * d > a * n
    <3>1. low * d <= (j - 1) * d
      BY <2>5, <2>11
    <3>2. high * d >= j * d
      BY <2>5, <2>11
    <3> QED
      BY <2>5, <2>11, <3>1, <3>2
  <2>13. /\ HowMany(bin, LAMBDA x : x < v) = low
         /\ HowMany(bin, LAMBDA x : x <= v) = high
    BY <1>2, <2>9, <2>10 DEF HowMany
  <2> QED
    BY <1>1, <1>9, <2>2, <2>3, <2>6, <2>7, <2>12, <2>13 DEF IsRank, HasRank, bin
<1> QED
  BY <1>7, <1>8, <1>9

\* A value is read of an empty bin, too.
LEMMA ValueIsInt ==
    ASSUME NEW o, IsBin(o), NEW k \in Statistic
    PROVE  ValueOf(o, k) \in Int
<1>1. CASE o.samples = <<>>
  BY <1>1 DEF ValueOf
<1>2. CASE o.samples # <<>>
  BY <1>2, ValueIsRank
<1> QED
  BY <1>1, <1>2

\* Sorting a bin changes none of its values.
LEMMA UpdatedFacts ==
    ASSUME NEW o, IsBin(o)
    PROVE  /\ IsBin(Updated(o))
           /\ Updated(o).samples = <<>> <=> o.samples = <<>>
           /\ \A k \in Statistic : ValueOf(Updated(o), k) = ValueOf(o, k)
<1>1. CASE o.samples = <<>>
  BY <1>1 DEF Updated
<1>2. CASE o.samples # <<>>
  <2>1. Updated(o).samples = Ordered(o) /\ Updated(o).dirty = FALSE
    BY <1>2 DEF Updated
  <2>2. PICK u : u = Updated(o)
    OBVIOUS
  <2>3. Ordered(u) = Ordered(o)
    BY <2>1, <2>2 DEF Ordered
  <2>4. /\ Ordered(o) \in Seq(Int) /\ IsInOrder(Ordered(o))
        /\ Len(u.samples) = Len(o.samples)
    BY <2>1, <2>2, OrderFacts
  <2>5. u.samples # <<>>
    <3>1. o.samples \in Seq(Int) /\ u.samples \in Seq(Int)
      BY <2>1, <2>2, <2>4 DEF IsBin
    <3> QED
      BY <1>2, <2>4, <3>1, SeqFacts
  <2>6. IsBin(u)
    BY <2>1, <2>2, <2>4 DEF IsBin
  <2>7. \A k \in Statistic : ValueOf(u, k) = ValueOf(o, k)
    BY <1>2, <2>3, <2>4, <2>5 DEF ValueOf, FractileOf
  <2> QED
    BY <1>2, <2>2, <2>5, <2>6, <2>7
<1> QED
  BY <1>1, <1>2

\* What changes neither the bin nor the statistics.
LEMMA ProfileHelpers ==
    ASSUME NEW r, IsProfile(r)
    PROVE  /\ \A t \in Int : /\ IsProfile([r EXCEPT !.startTime = t])
                             /\ [r EXCEPT !.startTime = t].count = r.count
                             /\ [r EXCEPT !.startTime = t].warmup = r.warmup
                             /\ [r EXCEPT !.startTime = t].order = r.order
           /\ IsProfile(Counted(r)) /\ Counted(r).count = r.count + 1
           /\ Counted(r).warmup = r.warmup /\ Counted(r).order = r.order
           /\ IsProfile(Cleared(r)) /\ Cleared(r).count = r.count
           /\ Cleared(r).warmup = r.warmup /\ Cleared(r).order.samples = <<>>
<1>1. \A t \in Int : /\ IsProfile([r EXCEPT !.startTime = t])
                     /\ [r EXCEPT !.startTime = t].count = r.count
                     /\ [r EXCEPT !.startTime = t].warmup = r.warmup
                     /\ [r EXCEPT !.startTime = t].order = r.order
  BY DEF IsProfile
<1>2. /\ IsProfile(Counted(r)) /\ Counted(r).count = r.count + 1
      /\ Counted(r).warmup = r.warmup /\ Counted(r).order = r.order
  BY DEF IsProfile, Counted
<1>3. /\ IsProfile(Cleared(r)) /\ Cleared(r).count = r.count
      /\ Cleared(r).warmup = r.warmup /\ Cleared(r).order.samples = <<>>
  <2>1. IsBin(NoSamples) /\ NoSamples.samples = <<>>
    BY DEF IsBin, NoSamples, IsInOrder
  <2> QED
    BY <2>1 DEF IsProfile, Cleared
<1> QED
  BY <1>1, <1>2, <1>3

\* reset() of a profile.
LEMMA EmptiedFacts ==
    ASSUME NEW r, IsProfile(r)
    PROVE  /\ IsProfile(Emptied(r)) /\ Emptied(r).count = 0
           /\ Emptied(r).warmup.count = 0 /\ Emptied(r).order.samples = <<>>
<1> DEFINE statistics == [k \in Statistic |-> SummaryReset(r.statistics[k])]
<1>1. /\ Emptied(r).count = 0 /\ Emptied(r).startTime = 0
      /\ Emptied(r).order = NoSamples /\ Emptied(r).warmup = SummaryReset(r.warmup)
      /\ Emptied(r).statistics = statistics /\ DOMAIN Emptied(r) = DOMAIN r
  BY DEF Emptied, IsProfile
<1>2. SummaryReset(r.warmup).count = 0 /\ "count" \in DOMAIN SummaryReset(r.warmup)
  BY DEF SummaryReset, IsProfile
<1>3. IsBin(NoSamples) /\ NoSamples.samples = <<>>
  BY DEF IsBin, NoSamples, IsInOrder
<1>4. HasSums(statistics)
  <2>1. \A k \in Statistic : /\ "sum" \in DOMAIN SummaryReset(r.statistics[k])
                             /\ SummaryReset(r.statistics[k]).sum = 0
    BY DEF IsProfile, HasSums, SummaryReset
  <2> QED
    BY <2>1 DEF HasSums
<1> HIDE DEF statistics
<1> QED
  BY <1>1, <1>2, <1>3, <1>4 DEF IsProfile

\* A statistics takes its value.
LEMMA SumTakes ==
    ASSUME NEW r, IsProfile(r), NEW k \in Statistic
    PROVE  /\ ValueOf(r.order, k) \in Int /\ r.statistics[k].sum \in Int
           /\ "sum" \in DOMAIN RangedSample(r.statistics[k], ValueOf(r.order, k))
           /\ RangedSample(r.statistics[k], ValueOf(r.order, k)).sum
                = r.statistics[k].sum + ValueOf(r.order, k)
<1>1. "sum" \in DOMAIN r.statistics[k] /\ r.statistics[k].sum \in Int
  BY DEF IsProfile, HasSums
<1>2. ValueOf(r.order, k) \in Int
  BY ValueIsInt DEF IsProfile
<1> QED
  BY <1>1, <1>2, RangedFacts

\* One statistics is sampled.
LEMMA TakenFacts ==
    ASSUME NEW r, IsProfile(r), NEW k \in Statistic
    PROVE  /\ IsProfile(Taken(r, k)) /\ Taken(r, k).count = r.count
           /\ Taken(r, k).warmup = r.warmup /\ Taken(r, k).order = Updated(r.order)
           /\ Told(r, Taken(r, k))[k] = ValueOf(r.order, k)
<1>1. PICK v : v = RangedSample(r.statistics[k], ValueOf(r.order, k))
  OBVIOUS
<1>2. PICK o : o = Updated(r.order)
  OBVIOUS
<1>3. "sum" \in DOMAIN v /\ v.sum = r.statistics[k].sum + ValueOf(r.order, k)
  BY <1>1, SumTakes
<1>4. r.statistics[k].sum \in Int /\ ValueOf(r.order, k) \in Int
  BY SumTakes
<1>5. /\ Taken(r, k).count = r.count /\ Taken(r, k).warmup = r.warmup
      /\ Taken(r, k).startTime = r.startTime /\ Taken(r, k).order = o
      /\ Taken(r, k).statistics = [r.statistics EXCEPT ![k] = v]
      /\ DOMAIN Taken(r, k) = DOMAIN r
  BY <1>1, <1>2 DEF Taken, IsProfile
<1>6. IsBin(o)
  BY <1>2, UpdatedFacts DEF IsProfile
<1>7. HasSums([r.statistics EXCEPT ![k] = v])
  BY <1>3, <1>4 DEF IsProfile, HasSums
<1>8. Told(r, Taken(r, k))[k] = v.sum - r.statistics[k].sum
  BY <1>5 DEF Told, IsProfile, HasSums
<1>9. IsProfile(Taken(r, k))
  BY <1>5, <1>6, <1>7 DEF IsProfile
<1> QED
  BY <1>2, <1>3, <1>4, <1>5, <1>8, <1>9

\* All are sampled, and what they take of a bin that is not empty has its ranks.
LEMMA SummariseFacts ==
    ASSUME NEW r, IsProfile(r)
    PROVE  /\ IsProfile(Summarise(r)) /\ Summarise(r).count = r.count
           /\ Summarise(r).warmup = r.warmup
           /\ r.order.samples # <<>>
              => HasRanks(Bin(r.order.samples, Told(r, Summarise(r))))
<1> DEFINE statistics == [k \in Statistic |-> RangedSample(r.statistics[k], ValueOf(r.order, k))]
<1>1. PICK o : o = Updated(r.order)
  OBVIOUS
<1>2. /\ Summarise(r).count = r.count /\ Summarise(r).warmup = r.warmup
      /\ Summarise(r).startTime = r.startTime /\ Summarise(r).order = o
      /\ Summarise(r).statistics = statistics
      /\ DOMAIN Summarise(r) = DOMAIN r
  BY <1>1 DEF Summarise, IsProfile
<1>3. IsBin(o)
  BY <1>1, UpdatedFacts DEF IsProfile
<1>4. HasSums(statistics)
  <2>1. \A k \in Statistic : "sum" \in DOMAIN statistics[k] /\ statistics[k].sum \in Int
    BY SumTakes
  <2> QED
    BY <2>1 DEF HasSums
<1>5. \A k \in Statistic : Told(r, Summarise(r))[k] = ValueOf(r.order, k)
  <2> SUFFICES ASSUME NEW k \in Statistic
               PROVE  Told(r, Summarise(r))[k] = ValueOf(r.order, k)
    OBVIOUS
  <2>1. Told(r, Summarise(r))[k] = statistics[k].sum - r.statistics[k].sum
    BY <1>2 DEF Told
  <2>2. statistics[k] = RangedSample(r.statistics[k], ValueOf(r.order, k))
    OBVIOUS
  <2> HIDE DEF statistics
  <2>3. statistics[k].sum = r.statistics[k].sum + ValueOf(r.order, k)
    BY <2>2, SumTakes
  <2> QED
    BY <2>1, <2>3, SumTakes
<1> HIDE DEF statistics
<1>6. IsProfile(Summarise(r))
  BY <1>2, <1>3, <1>4 DEF IsProfile
<1>7. ASSUME r.order.samples # <<>>
      PROVE  HasRanks(Bin(r.order.samples, Told(r, Summarise(r))))
  <2>1. PICK t : t = Told(r, Summarise(r))
    OBVIOUS
  <2>2. DOMAIN t = Statistic
    BY <2>1 DEF Told
  <2>3. \A k \in Statistic : IsRank(r.order.samples, k, t[k])
    BY <1>5, <1>7, <2>1, ValueIsRank DEF IsProfile
  <2>4. Bin(r.order.samples, t).samples = r.order.samples /\ Bin(r.order.samples, t).taken = t
    BY DEF Bin
  <2> QED
    BY <2>1, <2>2, <2>3, <2>4 DEF HasRanks
<1> QED
  BY <1>2, <1>6, <1>7

\* A sample that was counted goes to the warm-up or to the bin.
LEMMA SampledFacts ==
    ASSUME NEW p \in ProfileOf, NEW r, IsProfile(r), NEW delta \in Int
    PROVE  /\ IsProfile(Sampled(p, r, delta))
           /\ \A n \in Nat : IsBalanced(p, r, n + 1) => IsBalanced(p, Sampled(p, r, delta), n)
<1>0. WarmupSize[p] \in Nat
  BY ProfilesAssumption
<1>1. CASE IsWarmup(p, r)
  <2>1. PICK w : w = RangedSample(r.warmup, delta)
    OBVIOUS
  <2>2. "count" \in DOMAIN w /\ w.count = r.warmup.count + 1
    BY <2>1, RangedFacts DEF IsProfile
  <2>3. PICK s : s = Sampled(p, r, delta)
    OBVIOUS
  <2>4. /\ s.count = r.count /\ s.warmup = w /\ s.order = r.order
        /\ s.startTime = r.startTime /\ s.statistics = r.statistics /\ DOMAIN s = DOMAIN r
    BY <1>1, <2>1, <2>3 DEF Sampled, IsProfile
  <2>5. IsProfile(s)
    BY <2>2, <2>4 DEF IsProfile
  <2>6. ASSUME NEW n \in Nat, IsBalanced(p, r, n + 1) PROVE IsBalanced(p, s, n)
    <3>1. Len(r.order.samples) \in Nat
      BY SeqFacts DEF IsProfile, IsBin
    <3>2. r.count <= WarmupSize[p]
      BY <1>1 DEF IsWarmup
    <3> QED
      BY <1>0, <2>2, <2>4, <2>6, <3>1, <3>2 DEF IsBalanced, IsProfile
  <2> QED
    BY <2>3, <2>5, <2>6
<1>2. CASE ~IsWarmup(p, r)
  <2>1. PICK samples : samples = Append(r.order.samples, delta)
    OBVIOUS
  <2>2. /\ r.order.samples \in Seq(Int) /\ samples \in Seq(Int)
        /\ Len(r.order.samples) \in Nat /\ Len(samples) = Len(r.order.samples) + 1
    BY <2>1, AppendFacts, SeqFacts DEF IsProfile, IsBin
  <2>3. PICK s : s = Sampled(p, r, delta)
    OBVIOUS
  <2>4. /\ s.count = r.count /\ s.warmup = r.warmup /\ s.order = OrderSample(r.order, delta)
        /\ s.startTime = 0 /\ s.statistics = r.statistics /\ DOMAIN s = DOMAIN r
    BY <1>2, <2>3 DEF Sampled, IsProfile
  <2>5. s.order.samples = samples /\ s.order.dirty = TRUE
    BY <2>1, <2>4 DEF OrderSample
  <2>6. IsBin(s.order)
    BY <2>2, <2>5 DEF IsBin
  <2>7. IsProfile(s)
    BY <2>4, <2>6 DEF IsProfile
  <2>8. ASSUME NEW n \in Nat, IsBalanced(p, r, n + 1) PROVE IsBalanced(p, s, n)
    <3>1. PICK l \in Nat : l = Len(r.order.samples) /\ Len(s.order.samples) = l + 1
      BY <2>2, <2>5
    <3>2. PICK w \in Nat : w = r.warmup.count /\ w = s.warmup.count
      BY <2>4 DEF IsProfile
    <3>3. s.count = w + (n + 1) + l /\ w <= WarmupSize[p]
      BY <2>4, <2>8, <3>1, <3>2 DEF IsBalanced
    <3>4. w + (n + 1) + l = w + n + (l + 1)
      BY ONLY n \in Nat, w \in Nat, l \in Nat
    <3>5. s.count = s.warmup.count + n + Len(s.order.samples)
      BY <3>1, <3>2, <3>3, <3>4
    <3> QED
      BY <3>2, <3>3, <3>5 DEF IsBalanced
  <2> QED
    BY <2>3, <2>7, <2>8
<1> QED
  BY <1>1, <1>2

\* A bin that is full is taken and cleared.
LEMMA StoppedFacts ==
    ASSUME NEW p \in ProfileOf, NEW s, IsProfile(s)
    PROVE  /\ IsProfile(Stopped(p, s))
           /\ ~IsFull(p, s) => Stopped(p, s) = s
           /\ IsFull(p, s) =>
                /\ HasRanks(Bin(s.order.samples, Told(s, Summarise(s))))
                /\ \A n \in Nat : IsBalanced(p, s, n)
                     => IsBalanced(p, Stopped(p, s), n + Len(s.order.samples))
<1>1. CASE ~IsFull(p, s)
  BY <1>1 DEF Stopped
<1>2. CASE IsFull(p, s)
  <2>1. s.order.samples # <<>> /\ Len(s.order.samples) \in Nat
    <3>1. Len(s.order.samples) >= SampleSize[p] /\ SampleSize[p] \in Nat \ {0}
      BY <1>2, ProfilesAssumption DEF IsFull
    <3>2. s.order.samples \in Seq(Int)
      BY DEF IsProfile, IsBin
    <3> QED
      BY <3>1, <3>2, SeqFacts
  <2>2. PICK t : t = Summarise(s)
    OBVIOUS
  <2>3. IsProfile(t) /\ t.count = s.count /\ t.warmup = s.warmup
    BY <2>2, SummariseFacts
  <2>4. PICK c : c = Cleared(t)
    OBVIOUS
  <2>5. /\ IsProfile(c) /\ c.count = s.count /\ c.warmup = s.warmup
        /\ c.order.samples = <<>> /\ Len(<<>>) = 0
    BY <2>3, <2>4, ProfileHelpers
  <2>6. Stopped(p, s) = c
    BY <1>2, <2>2, <2>4 DEF Stopped
  <2>7. ASSUME NEW n \in Nat, IsBalanced(p, s, n)
        PROVE  IsBalanced(p, c, n + Len(s.order.samples))
    BY <2>1, <2>5, <2>7 DEF IsBalanced, IsProfile
  <2>8. HasRanks(Bin(s.order.samples, Told(s, Summarise(s))))
    BY <2>1, SummariseFacts
  <2> QED
    BY <1>2, <2>5, <2>6, <2>7, <2>8
<1> QED
  BY <1>1, <1>2

\* The rest of stop(): the profile stays balanced, and its bins keep their ranks.
LEMMA RecordFacts ==
    ASSUME ProfilesOK, NEW p \in ProfileOf, NEW r, IsProfile(r), NEW delta \in Int,
           Record(p, r, delta)
    PROVE  /\ DOMAIN profiles' = ProfileOf /\ DOMAIN binned' = ProfileOf
           /\ DOMAIN lastBin' = ProfileOf
           /\ \A q \in ProfileOf : q # p =>
                profiles'[q] = profiles[q] /\ binned'[q] = binned[q] /\ lastBin'[q] = lastBin[q]
           /\ IsProfile(profiles'[p]) /\ binned'[p] \in Nat
           /\ IsBalanced(p, r, binned[p] + 1) => IsBalanced(p, profiles'[p], binned'[p])
           /\ HasRanks(lastBin[p]) => HasRanks(lastBin'[p])
<1>1. PICK s : s = Sampled(p, r, delta)
  OBVIOUS
<1>2. /\ IsProfile(s)
      /\ \A n \in Nat : IsBalanced(p, r, n + 1) => IsBalanced(p, s, n)
  BY <1>1, SampledFacts
<1>3. /\ profiles' = [profiles EXCEPT ![p] = Stopped(p, s)]
      /\ IF IsFull(p, s) THEN BeginBin(p, s, Told(s, Summarise(s)))
                         ELSE UNCHANGED <<binned, lastBin>>
  BY <1>1 DEF Record
<1>4. IsProfile(Stopped(p, s))
  BY <1>2, StoppedFacts
<1>5. /\ DOMAIN profiles' = ProfileOf /\ profiles'[p] = Stopped(p, s)
      /\ \A q \in ProfileOf : q # p => profiles'[q] = profiles[q]
  BY <1>3 DEF ProfilesOK
<1>6. CASE ~IsFull(p, s)
  <2>1. Stopped(p, s) = s /\ UNCHANGED <<binned, lastBin>>
    BY <1>2, <1>3, <1>6, StoppedFacts
  <2> QED
    BY <1>2, <1>4, <1>5, <2>1 DEF ProfilesOK
<1>7. CASE IsFull(p, s)
  <2>1. PICK b : b = Bin(s.order.samples, Told(s, Summarise(s)))
    OBVIOUS
  <2>2. /\ binned' = [binned EXCEPT ![p] = @ + Len(s.order.samples)]
        /\ lastBin' = [lastBin EXCEPT ![p] = b]
    BY <1>3, <1>7, <2>1 DEF BeginBin
  <2>3. /\ HasRanks(b)
        /\ \A n \in Nat : IsBalanced(p, s, n)
             => IsBalanced(p, Stopped(p, s), n + Len(s.order.samples))
    BY <1>2, <1>7, <2>1, StoppedFacts
  <2>4. /\ DOMAIN binned' = ProfileOf /\ DOMAIN lastBin' = ProfileOf
        /\ binned'[p] = binned[p] + Len(s.order.samples) /\ lastBin'[p] = b
        /\ \A q \in ProfileOf : q # p => binned'[q] = binned[q] /\ lastBin'[q] = lastBin[q]
    BY <2>2 DEF ProfilesOK
  <2>5. binned[p] \in Nat /\ Len(s.order.samples) \in Nat
    BY <1>2, SeqFacts DEF ProfilesOK, IsProfile, IsBin
  <2> QED
    BY <1>2, <1>4, <1>5, <2>3, <2>4, <2>5
<1> QED
  BY <1>6, <1>7

\* A profile of which neither the count nor the warm-up nor the bin changes.
LEMMA IntactAgain ==
    ASSUME NEW p, NEW r, NEW n, NEW b, NEW l, NEW phase, NEW pending, NEW k,
           IsIntact(p, r, n, b, l, phase, pending, k),
           NEW s, s.count = r.count, s.warmup = r.warmup, s.order = r.order,
           NEW j, phase = "idle" \/ j = k
    PROVE  IsIntact(p, s, n, b, l, phase, pending, j)
<1>1. \A m : IsBalanced(p, r, m) => IsBalanced(p, s, m)
  BY DEF IsBalanced
<1>2. IsSummed(p, r, n) => IsSummed(p, s, n)
  BY DEF IsSummed
<1>3. j = k /\ IsTakenTo(r, b, k) => IsTakenTo(s, b, j)
  BY DEF IsTakenTo
<1>4. "idle" # "take"
  OBVIOUS
<1> QED
  BY <1>1, <1>2, <1>3, <1>4 DEF IsIntact

\* A profile that a step leaves alone.
LEMMA Untouched ==
    ASSUME NEW p, Intact(p),
           profiles'[p].count = profiles[p].count, profiles'[p].warmup = profiles[p].warmup,
           profiles'[p].order = profiles[p].order,
           binned'[p] = binned[p], lastBin'[p] = lastBin[p], line'[p] = line[p],
           Pending(p)' = Pending(p), Phase(p)' = Phase(p),
           Phase(p) = "idle" \/ taking' = taking
    PROVE  Intact(p)'
BY IntactAgain DEF Intact

\* A profile that is not written, once it is recorded or reset.
LEMMA IdleAgain ==
    ASSUME NEW p, NEW r, NEW n, NEW b, NEW l, NEW k,
           l.n = l.told, IsBalanced(p, r, n), HasRanks(b)
    PROVE  IsIntact(p, r, n, b, l, "idle", 0, k)
<1>1. n + 0 = n
  BY DEF IsBalanced
<1> QED
  BY <1>1 DEF IsIntact

\* The steps that touch no profile, and the start of a task.
LEMMA StepsAside ==
    ASSUME ProfilesInv,
           Pass \/ (\E t \in Timed : AddProfile(t) \/ Toggle(t) \/ StartTask(t))
           \/ UNCHANGED profileVars
    PROVE  ProfilesInv'
<1>1. CASE Pass \/ (\E t \in Timed : AddProfile(t) \/ Toggle(t)) \/ UNCHANGED profileVars
  <2>1. /\ UNCHANGED <<profiles, binned, lastBin, line, torn, cycle, left, taking, running,
                       lastDelta>>
        /\ instant' \in Int
    BY <1>1 DEF Pass, AddProfile, Toggle, mainOnly, background, history, profileVars,
                ProfilesInv, ThreadsOK
  <2>2. \A p : Pending(p)' = Pending(p) /\ Phase(p)' = Phase(p)
    BY <2>1 DEF IsBeingSampled, Pending, Phase, IsBeingWritten
  <2>3. \A p \in ProfileOf \ torn' : Intact(p)'
    BY <2>1, <2>2, Untouched DEF ProfilesInv
  <2> QED
    BY <2>1, <2>3 DEF ProfilesInv, ProfilesOK, ThreadsOK
<1>2. ASSUME NEW t \in Timed, StartTask(t) PROVE ProfilesInv'
  <2>1. /\ running = Nobody /\ running' = t
        /\ profiles' = [profiles EXCEPT ![t] = [profiles[t] EXCEPT !.startTime = instant]]
        /\ UNCHANGED <<binned, lastBin, line, torn, cycle, left, taking, lastDelta, instant>>
    BY <1>2 DEF StartTask, Started, mainOnly
  <2>2. lastDelta = NoDelta /\ t \in ProfileOf
    BY <2>1 DEF ProfilesInv, ThreadsOK, ProfileOf
  <2>3. \A p : Pending(p)' = Pending(p) /\ Phase(p)' = Phase(p)
    BY <2>1, <2>2 DEF IsBeingSampled, Pending, Phase, IsBeingWritten
  <2>4. /\ DOMAIN profiles' = ProfileOf
        /\ \A p \in ProfileOf : /\ IsProfile(profiles'[p])
                                /\ profiles'[p].count = profiles[p].count
                                /\ profiles'[p].warmup = profiles[p].warmup
                                /\ profiles'[p].order = profiles[p].order
    <3>1. PICK s : s = [profiles[t] EXCEPT !.startTime = instant]
      OBVIOUS
    <3>2. /\ IsProfile(s) /\ s.count = profiles[t].count
          /\ s.warmup = profiles[t].warmup /\ s.order = profiles[t].order
      BY <2>2, <3>1, ProfileHelpers DEF ProfilesInv, ProfilesOK, ThreadsOK
    <3>3. profiles' = [profiles EXCEPT ![t] = s]
      BY <2>1, <3>1
    <3> QED
      BY <3>2, <3>3 DEF ProfilesInv, ProfilesOK
  <2>5. \A p \in ProfileOf \ torn' : Intact(p)'
    BY <2>1, <2>3, <2>4, Untouched DEF ProfilesInv
  <2> QED
    BY <2>1, <2>2, <2>4, <2>5 DEF ProfilesInv, ProfilesOK, ThreadsOK
<1> QED
  BY <1>1, <1>2

\* A sample that was counted is one more than those in bins, until it is taken.
LEMMA CountedBalances ==
    ASSUME NEW p, NEW r, IsProfile(r), NEW n, IsBalanced(p, r, n)
    PROVE  IsBalanced(p, Counted(r), n + 1)
<1>1. PICK s : s = Counted(r)
  OBVIOUS
<1>2. s.count = r.count + 1 /\ s.warmup = r.warmup /\ s.order = r.order
  BY <1>1, ProfileHelpers
<1>3. Len(r.order.samples) \in Nat
  BY SeqFacts DEF IsProfile, IsBin
<1> QED
  BY <1>1, <1>2, <1>3 DEF IsBalanced, IsProfile

\* A profile that is not written.
LEMMA IdleFacts ==
    ASSUME ProfilesInv, NEW p \in ProfileOf \ torn, Phase(p) = "idle"
    PROVE  /\ line[p].n = line[p].told /\ HasRanks(lastBin[p])
           /\ Pending(p) = 1 => IsBalanced(p, profiles[p], binned[p] + 1)
           /\ Pending(p) = 0 => IsBalanced(p, profiles[p], binned[p])
<1>1. PICK n \in Nat : n = binned[p]
  BY DEF ProfilesInv, ProfilesOK
<1>2. IsIntact(p, profiles[p], n, lastBin[p], line[p], "idle", Pending(p), taking)
  BY <1>1 DEF ProfilesInv, Intact
<1>3. /\ line[p].n = line[p].told /\ HasRanks(lastBin[p])
      /\ IsBalanced(p, profiles[p], n + Pending(p))
  BY <1>2 DEF IsIntact
<1> QED
  BY <1>1, <1>3

\* The background thread counts a sample.
LEMMA CountSampleKeeps ==
    ASSUME ProfilesInv, CountSample
    PROVE  ProfilesInv'
<1>1. /\ running # Nobody /\ lastDelta = NoDelta
      /\ profiles' = [profiles EXCEPT ![running] = Counted(profiles[running])]
      /\ lastDelta' = Delta(profiles[running], instant)
      /\ torn' = IF IsBeingWritten(running) THEN torn \union {running} ELSE torn
      /\ UNCHANGED <<binned, lastBin, line, cycle, left, taking, running, instant>>
  BY DEF CountSample, Tear, mainOnly
<1>2. running \in Timed /\ running \in ProfileOf /\ IsProfile(profiles[running])
  BY <1>1 DEF ProfilesInv, ThreadsOK, ProfilesOK, ProfileOf
<1>3. lastDelta' \in Nat
  <2>1. profiles[running].startTime \in Int /\ instant \in Int /\ Modulus \in Nat \ {0}
    BY <1>2, ProfilesAssumption DEF ProfilesInv, ThreadsOK, IsProfile
  <2> QED
    BY <1>1, <2>1 DEF Delta
<1>4. PICK s : s = Counted(profiles[running])
  OBVIOUS
<1>5. /\ IsProfile(s) /\ s.count = profiles[running].count + 1
      /\ s.warmup = profiles[running].warmup /\ s.order = profiles[running].order
  BY <1>2, <1>4, ProfileHelpers
<1>6. /\ DOMAIN profiles' = ProfileOf /\ profiles'[running] = s
      /\ \A p \in ProfileOf : p # running => profiles'[p] = profiles[p]
  BY <1>1, <1>2, <1>4 DEF ProfilesInv, ProfilesOK
<1>7. \A p : /\ Phase(p)' = Phase(p) /\ Pending(p) = 0
             /\ Pending(p)' = IF p = running THEN 1 ELSE 0
  BY <1>1, <1>3 DEF IsBeingSampled, Pending, Phase, IsBeingWritten, NoDelta
<1>8. ASSUME NEW p \in ProfileOf \ torn' PROVE Intact(p)'
  <2>1. p \in ProfileOf \ torn /\ Intact(p)
    BY <1>1 DEF ProfilesInv
  <2>2. CASE p # running
    <3>1. Pending(p)' = Pending(p)
      BY <1>7, <2>2
    <3> QED
      BY <1>1, <1>6, <1>7, <2>1, <2>2, <3>1, Untouched
  <2>3. CASE p = running
    <3>1. Phase(p) = "idle"
      BY <1>1, <2>3 DEF Phase
    <3>2. PICK n \in Nat : n = binned[p]
      BY <2>1 DEF ProfilesInv, ProfilesOK
    <3>3. /\ line[p].n = line[p].told /\ HasRanks(lastBin[p])
          /\ IsBalanced(p, profiles[p], n)
      BY <1>7, <2>1, <3>1, <3>2, IdleFacts
    <3>4. IsBalanced(p, s, n + 1)
      BY <1>2, <1>4, <2>3, <3>3, CountedBalances
    <3>5. IsIntact(p, s, n, lastBin[p], line[p], "idle", 1, taking)
      BY <3>3, <3>4 DEF IsIntact
    <3> QED
      BY <1>1, <1>6, <1>7, <2>3, <3>1, <3>2, <3>5 DEF Intact
  <2> QED
    BY <2>2, <2>3
<1> QED
  BY <1>1, <1>2, <1>3, <1>5, <1>6, <1>8 DEF ProfilesInv, ProfilesOK, ThreadsOK

\* The background thread takes the sample it has counted.
LEMMA StopTaskKeeps ==
    ASSUME ProfilesInv, StopTask
    PROVE  ProfilesInv'
<1>1. /\ lastDelta # NoDelta /\ Record(running, profiles[running], lastDelta)
      /\ running' = Nobody /\ lastDelta' = NoDelta
      /\ torn' = IF IsBeingWritten(running) THEN torn \union {running} ELSE torn
      /\ UNCHANGED <<line, cycle, left, taking, instant>>
  BY DEF StopTask, Tear, mainOnly
<1>2. /\ running \in Timed /\ running \in ProfileOf /\ IsProfile(profiles[running])
      /\ lastDelta \in Int
  BY <1>1 DEF ProfilesInv, ThreadsOK, ProfilesOK, ProfileOf
<1>3. /\ DOMAIN profiles' = ProfileOf /\ DOMAIN binned' = ProfileOf
      /\ DOMAIN lastBin' = ProfileOf
      /\ \A q \in ProfileOf : q # running =>
           profiles'[q] = profiles[q] /\ binned'[q] = binned[q] /\ lastBin'[q] = lastBin[q]
      /\ IsProfile(profiles'[running]) /\ binned'[running] \in Nat
      /\ IsBalanced(running, profiles[running], binned[running] + 1)
         => IsBalanced(running, profiles'[running], binned'[running])
      /\ HasRanks(lastBin[running]) => HasRanks(lastBin'[running])
  BY <1>1, <1>2, RecordFacts DEF ProfilesInv
<1>4. \A p : /\ Phase(p)' = Phase(p) /\ Pending(p)' = 0
             /\ Pending(p) = IF p = running THEN 1 ELSE 0
  BY <1>1 DEF IsBeingSampled, Pending, Phase, IsBeingWritten
<1>5. ASSUME NEW p \in ProfileOf \ torn' PROVE Intact(p)'
  <2>1. p \in ProfileOf \ torn /\ Intact(p)
    BY <1>1 DEF ProfilesInv
  <2>2. CASE p # running
    <3>1. Pending(p)' = Pending(p)
      BY <1>4, <2>2
    <3> QED
      BY <1>1, <1>3, <1>4, <2>1, <2>2, <3>1, Untouched
  <2>3. CASE p = running
    <3>1. Phase(p) = "idle"
      BY <1>1, <2>3 DEF Phase
    <3>2. /\ line[p].n = line[p].told /\ HasRanks(lastBin[p])
          /\ IsBalanced(p, profiles[p], binned[p] + 1)
      BY <1>4, <2>1, <2>3, <3>1, IdleFacts
    <3>3. IsBalanced(p, profiles'[p], binned'[p]) /\ HasRanks(lastBin'[p])
      BY <1>3, <2>3, <3>2
    <3>4. IsIntact(p, profiles'[p], binned'[p], lastBin'[p], line'[p], "idle", 0, taking')
      BY <1>1, <3>2, <3>3, IdleAgain
    <3> QED
      BY <1>4, <3>1, <3>4 DEF Intact
  <2> QED
    BY <2>2, <2>3
<1>6. lastDelta' \in Int
  BY <1>1 DEF NoDelta
<1> QED
  BY <1>1, <1>2, <1>3, <1>5, <1>6 DEF ProfilesInv, ProfilesOK, ThreadsOK

\* The cycle of the main thread samples and resets the profiles of no task.
LEMMA CycleFacts ==
    ASSUME ProfilesInv
    PROVE  /\ Inter \in ProfileOf /\ Update \in ProfileOf /\ Inter # Update
           /\ Pending(Inter) = 0 /\ Pending(Update) = 0
<1>1. /\ Inter \in ProfileOf /\ Update \in ProfileOf /\ Inter # Update
      /\ Inter \notin Timed /\ Update \notin Timed
  BY ProfilesAssumption DEF ProfileOf
<1> QED
  BY <1>1 DEF IsBeingSampled, Pending, ProfilesInv, ThreadsOK

LEMMA EndUpdateKeeps ==
    ASSUME ProfilesInv, EndUpdate
    PROVE  ProfilesInv'
<1>1. /\ cycle = "update" /\ cycle' = "loop" /\ Stop(Update, instant)
      /\ UNCHANGED <<running, lastDelta, instant, left, taking, line, torn>>
  BY DEF EndUpdate, background
<1>2. \A p : /\ Phase(p) = "idle" /\ Phase(p)' = "idle"
             /\ Pending(p)' = Pending(p)
  BY <1>1 DEF Phase, IsBeingWritten, IsBeingSampled, Pending
<1>3. CASE profiles[Update].startTime = 0
  <2>1. UNCHANGED <<profiles, binned, lastBin>>
    BY <1>1, <1>3 DEF Stop
  <2>2. \A p \in ProfileOf \ torn' : Intact(p)'
    BY <1>1, <1>2, <2>1, Untouched DEF ProfilesInv
  <2> QED
    BY <1>1, <2>1, <2>2 DEF ProfilesInv, ProfilesOK, ThreadsOK
<1>4. CASE profiles[Update].startTime # 0
  <2>1. PICK delta : delta = Delta(profiles[Update], instant)
    OBVIOUS
  <2>2. PICK r : r = Counted(profiles[Update])
    OBVIOUS
  <2>3. Record(Update, r, delta)
    BY <1>1, <1>4, <2>1, <2>2 DEF Stop
  <2>4. Update \in ProfileOf /\ Pending(Update) = 0 /\ IsProfile(profiles[Update])
    BY CycleFacts DEF ProfilesInv, ProfilesOK
  <2>5. delta \in Int /\ IsProfile(r)
    <3>1. profiles[Update].startTime \in Int /\ instant \in Int /\ Modulus \in Nat \ {0}
      BY <2>4, ProfilesAssumption DEF ProfilesInv, ThreadsOK, IsProfile
    <3>2. delta \in Int
      BY <2>1, <3>1 DEF Delta
    <3> QED
      BY <2>2, <2>4, <3>2, ProfileHelpers
  <2>6. /\ DOMAIN profiles' = ProfileOf /\ DOMAIN binned' = ProfileOf
        /\ DOMAIN lastBin' = ProfileOf
        /\ \A q \in ProfileOf : q # Update =>
             profiles'[q] = profiles[q] /\ binned'[q] = binned[q] /\ lastBin'[q] = lastBin[q]
        /\ IsProfile(profiles'[Update]) /\ binned'[Update] \in Nat
        /\ IsBalanced(Update, r, binned[Update] + 1)
           => IsBalanced(Update, profiles'[Update], binned'[Update])
        /\ HasRanks(lastBin[Update]) => HasRanks(lastBin'[Update])
    BY <2>3, <2>4, <2>5, RecordFacts DEF ProfilesInv
  <2>7. ASSUME NEW p \in ProfileOf \ torn' PROVE Intact(p)'
    <3>1. p \in ProfileOf \ torn /\ Intact(p)
      BY <1>1 DEF ProfilesInv
    <3>2. CASE p # Update
      BY <1>1, <1>2, <2>6, <3>1, <3>2, Untouched
    <3>3. CASE p = Update
      <4>1. /\ line[p].n = line[p].told /\ HasRanks(lastBin[p])
            /\ IsBalanced(p, profiles[p], binned[p])
        BY <1>2, <2>4, <3>1, <3>3, IdleFacts
      <4>2. IsBalanced(p, r, binned[p] + 1)
        BY <2>2, <2>4, <3>3, <4>1, CountedBalances
      <4>3. IsIntact(p, profiles'[p], binned'[p], lastBin'[p], line'[p], "idle", 0, taking')
        BY <1>1, <2>6, <3>3, <4>1, <4>2, IdleAgain
      <4> QED
        BY <1>2, <2>4, <3>3, <4>3 DEF Intact
    <3> QED
      BY <3>2, <3>3
  <2> QED
    BY <1>1, <2>6, <2>7 DEF ProfilesInv, ProfilesOK, ThreadsOK
<1> QED
  BY <1>3, <1>4

LEMMA RestartKeeps ==
    ASSUME ProfilesInv, NEW time \in Readings, Restart(time)
    PROVE  ProfilesInv'
<1>1. PICK sampled : sampled = Sampled(Inter, Counted(profiles[Inter]), Delta(profiles[Inter], time))
  OBVIOUS
<1>2. PICK stopped : stopped = IF profiles[Inter].startTime # 0 THEN Stopped(Inter, sampled)
                                                              ELSE profiles[Inter]
  OBVIOUS
<1>3. PICK full \in BOOLEAN : full <=> profiles[Inter].startTime # 0 /\ IsFull(Inter, sampled)
  OBVIOUS
<1>4. PICK b : b = Bin(sampled.order.samples, Told(sampled, Summarise(sampled)))
  OBVIOUS
<1>5. PICK u : u = [stopped EXCEPT !.startTime = time]
  OBVIOUS
<1>6. PICK v : v = [profiles[Update] EXCEPT !.startTime = instant]
  OBVIOUS
<1>7. /\ cycle = "loop" /\ cycle' = "update"
      /\ profiles' = [profiles EXCEPT ![Inter] = u, ![Update] = v]
      /\ full => /\ binned' = [binned EXCEPT ![Inter] = @ + Len(sampled.order.samples)]
                 /\ lastBin' = [lastBin EXCEPT ![Inter] = b]
      /\ ~full => UNCHANGED <<binned, lastBin>>
      /\ UNCHANGED <<running, lastDelta, instant, left, taking, line, torn>>
  BY <1>1, <1>2, <1>3, <1>4, <1>5, <1>6 DEF Restart, Started, BeginBin, background
<1>8. /\ Inter \in ProfileOf /\ Update \in ProfileOf /\ Inter # Update
      /\ Pending(Inter) = 0 /\ IsProfile(profiles[Inter]) /\ IsProfile(profiles[Update])
  BY CycleFacts DEF ProfilesInv, ProfilesOK
<1>9. /\ time \in Int /\ instant \in Int
  BY ProfilesAssumption DEF ProfilesInv, ThreadsOK
<1>10. \A p : /\ Phase(p) = "idle" /\ Phase(p)' = "idle"
              /\ Pending(p)' = Pending(p)
  BY <1>7 DEF Phase, IsBeingWritten, IsBeingSampled, Pending
<1>11. /\ IsProfile(sampled)
       /\ \A n \in Nat : IsBalanced(Inter, profiles[Inter], n) => IsBalanced(Inter, sampled, n)
  <2>1. PICK r : r = Counted(profiles[Inter])
    OBVIOUS
  <2>2. IsProfile(r) /\ \A n : IsBalanced(Inter, profiles[Inter], n) => IsBalanced(Inter, r, n + 1)
    BY <1>8, <2>1, ProfileHelpers, CountedBalances
  <2>3. PICK delta \in Int : delta = Delta(profiles[Inter], time)
    <3>1. profiles[Inter].startTime \in Int /\ Modulus \in Nat \ {0}
      BY <1>8, ProfilesAssumption DEF IsProfile
    <3> QED
      BY <1>9, <3>1 DEF Delta
  <2>4. sampled = Sampled(Inter, r, delta)
    BY <1>1, <2>1, <2>3
  <2> QED
    BY <1>8, <2>2, <2>4, SampledFacts
<1>12. /\ IsProfile(stopped)
       /\ ~full => \A n \in Nat : IsBalanced(Inter, profiles[Inter], n)
                     => IsBalanced(Inter, stopped, n)
       /\ full => /\ HasRanks(b)
                  /\ \A n \in Nat : IsBalanced(Inter, profiles[Inter], n)
                       => IsBalanced(Inter, stopped, n + Len(sampled.order.samples))
  BY <1>2, <1>3, <1>4, <1>8, <1>11, StoppedFacts
<1>13. /\ IsProfile(u) /\ u.count = stopped.count
       /\ u.warmup = stopped.warmup /\ u.order = stopped.order
       /\ IsProfile(v) /\ v.count = profiles[Update].count
       /\ v.warmup = profiles[Update].warmup /\ v.order = profiles[Update].order
  BY <1>5, <1>6, <1>8, <1>9, <1>12, ProfileHelpers
<1>14. \A n : IsBalanced(Inter, stopped, n) => IsBalanced(Inter, u, n)
  BY <1>13 DEF IsBalanced
<1>15. Len(sampled.order.samples) \in Nat
  BY <1>11, SeqFacts DEF IsProfile, IsBin
<1>16. /\ DOMAIN profiles' = ProfileOf /\ profiles'[Inter] = u /\ profiles'[Update] = v
       /\ \A q \in ProfileOf : q \notin {Inter, Update} => profiles'[q] = profiles[q]
  BY <1>7, <1>8 DEF ProfilesInv, ProfilesOK
<1>17. /\ DOMAIN binned' = ProfileOf /\ DOMAIN lastBin' = ProfileOf
       /\ \A q \in ProfileOf : q # Inter => binned'[q] = binned[q] /\ lastBin'[q] = lastBin[q]
       /\ ~full => binned'[Inter] = binned[Inter] /\ lastBin'[Inter] = lastBin[Inter]
       /\ full => /\ binned'[Inter] = binned[Inter] + Len(sampled.order.samples)
                  /\ lastBin'[Inter] = b
  BY <1>7, <1>8 DEF ProfilesInv, ProfilesOK
<1>18. binned[Inter] \in Nat /\ binned'[Inter] \in Nat
  BY <1>8, <1>15, <1>17 DEF ProfilesInv, ProfilesOK
<1>19. ASSUME NEW p \in ProfileOf \ torn' PROVE Intact(p)'
  <2>1. p \in ProfileOf \ torn /\ Intact(p)
    BY <1>7 DEF ProfilesInv
  <2>2. CASE p \notin {Inter, Update}
    BY <1>7, <1>10, <1>16, <1>17, <2>1, <2>2, Untouched
  <2>3. CASE p = Update
    BY <1>7, <1>8, <1>10, <1>13, <1>16, <1>17, <2>1, <2>3, Untouched
  <2>4. CASE p = Inter
    <3>1. /\ line[p].n = line[p].told /\ HasRanks(lastBin[p])
          /\ IsBalanced(p, profiles[p], binned[p])
      BY <1>8, <1>10, <2>1, <2>4, IdleFacts
    <3>2. IsBalanced(p, u, binned'[p]) /\ HasRanks(lastBin'[p])
      BY <1>12, <1>14, <1>17, <1>18, <2>4, <3>1
    <3>3. IsIntact(p, profiles'[p], binned'[p], lastBin'[p], line'[p], "idle", 0, taking')
      BY <1>7, <1>16, <2>4, <3>1, <3>2, IdleAgain
    <3> QED
      BY <1>8, <1>10, <2>4, <3>3 DEF Intact
  <2> QED
    BY <2>2, <2>3, <2>4
<1>20. \A p \in ProfileOf : IsProfile(profiles'[p]) /\ binned'[p] \in Nat
  BY <1>13, <1>16, <1>17, <1>18 DEF ProfilesInv, ProfilesOK
<1> QED
  BY <1>7, <1>16, <1>17, <1>19, <1>20 DEF ProfilesInv, ProfilesOK, ThreadsOK

LEMMA ResetProfileKeeps ==
    ASSUME ProfilesInv, ResetProfile
    PROVE  ProfilesInv'
<1>1. PICK e : e = Emptied(profiles[Inter])
  OBVIOUS
<1>2. /\ cycle = "loop"
      /\ profiles' = [profiles EXCEPT ![Inter] = e]
      /\ binned' = [binned EXCEPT ![Inter] = 0]
      /\ lastBin' = [lastBin EXCEPT ![Inter] = NoBin]
      /\ UNCHANGED <<cycle, running, lastDelta, instant, left, taking, line, torn>>
  BY <1>1 DEF ResetProfile, background, mainOnly
<1>3. Inter \in ProfileOf /\ Pending(Inter) = 0 /\ IsProfile(profiles[Inter])
  BY CycleFacts DEF ProfilesInv, ProfilesOK
<1>4. \A p : /\ Phase(p) = "idle" /\ Phase(p)' = "idle"
             /\ Pending(p)' = Pending(p)
  BY <1>2 DEF Phase, IsBeingWritten, IsBeingSampled, Pending
<1>5. /\ IsProfile(e) /\ e.count = 0 /\ e.warmup.count = 0 /\ e.order.samples = <<>>
      /\ WarmupSize[Inter] \in Nat /\ Len(<<>>) = 0
  BY <1>1, <1>3, EmptiedFacts, ProfilesAssumption
<1>6. /\ DOMAIN profiles' = ProfileOf /\ DOMAIN binned' = ProfileOf
      /\ DOMAIN lastBin' = ProfileOf
      /\ profiles'[Inter] = e /\ binned'[Inter] = 0 /\ lastBin'[Inter] = NoBin
      /\ \A q \in ProfileOf : q # Inter =>
           profiles'[q] = profiles[q] /\ binned'[q] = binned[q] /\ lastBin'[q] = lastBin[q]
  BY <1>2, <1>3 DEF ProfilesInv, ProfilesOK
<1>7. ASSUME NEW p \in ProfileOf \ torn' PROVE Intact(p)'
  <2>1. p \in ProfileOf \ torn /\ Intact(p)
    BY <1>2 DEF ProfilesInv
  <2>2. CASE p # Inter
    BY <1>2, <1>4, <1>6, <2>1, <2>2, Untouched
  <2>3. CASE p = Inter
    <3>1. line[p].n = line[p].told
      BY <1>3, <1>4, <2>1, <2>3, IdleFacts
    <3>2. IsBalanced(p, e, 0) /\ HasRanks(NoBin)
      BY <1>5, <2>3 DEF IsBalanced, HasRanks
    <3>3. IsIntact(p, profiles'[p], binned'[p], lastBin'[p], line'[p], "idle", 0, taking')
      BY <1>2, <1>6, <2>3, <3>1, <3>2, IdleAgain
    <3> QED
      BY <1>3, <1>4, <2>3, <3>3 DEF Intact
  <2> QED
    BY <2>2, <2>3
<1> QED
  BY <1>2, <1>5, <1>6, <1>7 DEF ProfilesInv, ProfilesOK, ThreadsOK

LEMMA WriteKeeps ==
    ASSUME ProfilesInv, Write
    PROVE  ProfilesInv'
<1>1. /\ cycle = "update" /\ cycle' = "check"
      /\ UNCHANGED <<profiles, running, lastDelta, instant, taking, binned, lastBin, line, torn>>
  BY Zenon DEF Write, background, history
<1>2. \A p : /\ Phase(p) = "idle" /\ Phase(p)' = "idle"
             /\ Pending(p)' = Pending(p)
  BY <1>1 DEF Phase, IsBeingWritten, IsBeingSampled, Pending
<1>3. \A p \in ProfileOf \ torn' : Intact(p)'
  BY <1>1, <1>2, Untouched DEF ProfilesInv
<1> QED
  BY <1>1, <1>3 DEF ProfilesInv, ProfilesOK, ThreadsOK

\* The bin of a profile is about to be taken, or it is empty.
LEMMA CheckSamplesKeeps ==
    ASSUME ProfilesInv, CheckSamples
    PROVE  ProfilesInv'
<1>1. PICK p : p = Head(left)
  OBVIOUS
<1>2. /\ cycle = "check" /\ cycle' \in {"take", "print"} /\ taking' = 1
      /\ cycle' = "take" <=> profiles[p].order.samples # <<>>
      /\ torn' = IF IsBeingSampled(p) THEN torn \union {p} ELSE torn
      /\ UNCHANGED <<profiles, running, lastDelta, instant, left, line>>
      /\ cycle' = "take" =>
           /\ binned' = [binned EXCEPT ![p] = @ + Len(profiles[p].order.samples)]
           /\ lastBin' = [lastBin EXCEPT ![p] = Bin(profiles[p].order.samples, <<>>)]
      /\ cycle' = "print" => UNCHANGED <<binned, lastBin>>
  BY <1>1 DEF CheckSamples, BeginBin, background
<1>3. /\ \A q : Phase(q) = "idle" /\ Pending(q)' = Pending(q)
      /\ \A q : Phase(q)' = IF q = p THEN cycle' ELSE "idle"
  BY <1>1, <1>2 DEF Phase, IsBeingWritten, IsBeingSampled, Pending
<1>4. \A q \in ProfileOf : IsProfile(profiles[q]) /\ binned[q] \in Nat
                           /\ Len(profiles[q].order.samples) \in Nat
  BY SeqFacts DEF ProfilesInv, ProfilesOK, IsProfile, IsBin
<1>5. /\ DOMAIN binned' = ProfileOf /\ DOMAIN lastBin' = ProfileOf
      /\ \A q \in ProfileOf : binned'[q] \in Nat
      /\ \A q \in ProfileOf : q # p => binned'[q] = binned[q] /\ lastBin'[q] = lastBin[q]
  BY <1>2, <1>4 DEF ProfilesInv, ProfilesOK
<1>6. 1 \in Statistic
  BY SeqFacts, ProfilesAssumption DEF Statistic, Largest
<1>7. ASSUME NEW q \in ProfileOf \ torn' PROVE Intact(q)'
  <2>1. q \in ProfileOf \ torn /\ Intact(q)
    BY <1>2 DEF ProfilesInv
  <2>2. CASE q # p
    BY <1>2, <1>3, <1>5, <2>1, <2>2, Untouched
  <2>3. CASE q = p
    <3>1. Pending(q) = 0
      BY <1>2, <2>3 DEF Pending
    <3>2. /\ line[q].n = line[q].told /\ HasRanks(lastBin[q])
          /\ IsBalanced(q, profiles[q], binned[q])
      BY <1>3, <2>1, <3>1, IdleFacts
    <3>3. CASE cycle' = "print"
      <4>1. profiles[q].order.samples = <<>> /\ binned' = binned /\ lastBin' = lastBin
        BY <1>2, <2>3, <3>3
      <4>2. IsSummed(q, profiles[q], binned[q])
        BY <1>4, <3>2, <4>1 DEF IsBalanced, IsSummed, IsProfile
      <4>3. IsIntact(q, profiles[q], binned[q], lastBin[q], line[q], "print", 0, taking')
        BY <3>2, <4>1, <4>2 DEF IsIntact
      <4> QED
        BY <1>2, <1>3, <2>3, <3>1, <3>3, <4>1, <4>3 DEF Intact
    <3>4. CASE cycle' = "take"
      <4>1. PICK samples : samples = profiles[q].order.samples
        OBVIOUS
      <4>2. PICK n : n = binned[q] + Len(samples)
        OBVIOUS
      <4>3. /\ samples # <<>> /\ lastBin'[q] = Bin(samples, <<>>) /\ binned'[q] = n
        BY <1>2, <2>1, <2>3, <3>4, <4>1, <4>2 DEF ProfilesInv, ProfilesOK
      <4>4. IsSummed(q, profiles[q], n)
        BY <1>4, <3>2, <4>1, <4>2 DEF IsBalanced, IsSummed, IsProfile
      <4>5. IsTakenTo(profiles[q], Bin(samples, <<>>), 1)
        <5>1. PICK b : b = Bin(samples, <<>>)
          OBVIOUS
        <5>2. "taken" \in DOMAIN b /\ b.samples = samples /\ b.taken = <<>>
          BY <5>1 DEF Bin
        <5>3. <<>> \in Seq(Int) /\ Len(<<>>) = 1 - 1 /\ \A j \in 1 .. 1 - 1 : FALSE
          OBVIOUS
        <5>4. \A j \in Statistic : IsRank(samples, j, ValueOf(profiles[q].order, j))
          BY <1>4, <4>1, <4>3, ValueIsRank DEF IsProfile
        <5> QED
          BY <4>1, <4>3, <5>1, <5>2, <5>3, <5>4 DEF IsTakenTo
      <4>6. IsIntact(q, profiles[q], n, Bin(samples, <<>>), line[q], "take", 0, 1)
        BY <3>2, <4>4, <4>5 DEF IsIntact
      <4> QED
        BY <1>2, <1>3, <2>3, <3>1, <3>4, <4>3, <4>6 DEF Intact
    <3> QED
      BY <1>2, <3>3, <3>4
  <2> QED
    BY <2>2, <2>3
<1> QED
  BY <1>2, <1>4, <1>5, <1>6, <1>7 DEF ProfilesInv, ProfilesOK, ThreadsOK

\* One more statistics has taken its value of the bin.
LEMMA TakenOnce ==
    ASSUME NEW r, IsProfile(r), NEW k \in Statistic, NEW b, IsTakenTo(r, b, k),
           NEW taken, taken = Append(b.taken, ValueOf(r.order, k)),
           NEW c, "taken" \in DOMAIN c, c.samples = b.samples, c.taken = taken
    PROVE  /\ k = Largest => HasRanks(c)
           /\ k # Largest => IsTakenTo(Taken(r, k), c, k + 1)
<1>1. PICK v : v = ValueOf(r.order, k)
  OBVIOUS
<1>2. v \in Int
  BY <1>1, ValueIsInt DEF IsProfile
<1>3. /\ b.taken \in Seq(Int) /\ Len(b.taken) = k - 1 /\ r.order.samples # <<>>
      /\ \A j \in 1 .. k - 1 : IsRank(b.samples, j, b.taken[j])
      /\ \A j \in Statistic : IsRank(b.samples, j, ValueOf(r.order, j))
  BY DEF IsTakenTo
<1>4. Largest \in Nat /\ k \in 1 .. Largest
  BY SeqFacts, ProfilesAssumption DEF Statistic, Largest
<1>5. /\ taken \in Seq(Int) /\ Len(taken) = k /\ DOMAIN taken = 1 .. k
      /\ \A j \in 1 .. k - 1 : taken[j] = b.taken[j]
      /\ taken[k] = v
  <2>1. taken = Append(b.taken, v)
    BY <1>1
  <2>2. /\ Append(b.taken, v) \in Seq(Int) /\ Len(Append(b.taken, v)) = Len(b.taken) + 1
        /\ DOMAIN Append(b.taken, v) = 1 .. Len(b.taken) + 1
        /\ \A j \in 1 .. Len(b.taken) : Append(b.taken, v)[j] = b.taken[j]
        /\ Append(b.taken, v)[Len(b.taken) + 1] = v
    BY <1>2, <1>3, AppendFacts
  <2>3. Len(b.taken) + 1 = k
    BY <1>3, <1>4
  <2> QED
    BY <1>3, <2>1, <2>2, <2>3
<1>6. \A j \in 1 .. k : IsRank(c.samples, j, c.taken[j])
  <2> SUFFICES ASSUME NEW j \in 1 .. k PROVE IsRank(c.samples, j, c.taken[j])
    OBVIOUS
  <2>1. CASE j = k
    BY <1>1, <1>3, <1>5, <2>1
  <2>2. CASE j # k
    <3>1. j \in 1 .. k - 1
      BY <1>4, <2>2
    <3> QED
      BY <1>3, <1>5, <3>1
  <2> QED
    BY <2>1, <2>2
<1>7. ASSUME k = Largest PROVE HasRanks(c)
  BY <1>5, <1>6, <1>7 DEF HasRanks, Statistic
<1>8. IsTakenTo(Taken(r, k), c, k + 1)
  <2>1. PICK o : o = Taken(r, k).order
    OBVIOUS
  <2>2. o = Updated(r.order)
    BY <2>1, TakenFacts
  <2>3. o.samples # <<>> /\ \A j \in Statistic : ValueOf(o, j) = ValueOf(r.order, j)
    BY <1>3, <2>2, UpdatedFacts DEF IsProfile
  <2>4. (k + 1) - 1 = k
    BY <1>4
  <2> QED
    BY <1>3, <1>5, <1>6, <2>1, <2>3, <2>4 DEF IsTakenTo
<1> QED
  BY <1>7, <1>8

LEMMA TakeFractileKeeps ==
    ASSUME ProfilesInv, TakeFractile
    PROVE  ProfilesInv'
<1>1. PICK p : p = Head(left)
  OBVIOUS
<1>2. PICK s : s = Taken(profiles[p], taking)
  OBVIOUS
<1>3. PICK v : v = Told(profiles[p], s)[taking]
  OBVIOUS
<1>4. /\ cycle = "take" /\ profiles' = [profiles EXCEPT ![p] = s]
      /\ lastBin' = [lastBin EXCEPT ![p].taken = Append(@, v)]
      /\ taking = Largest => cycle' = "clear" /\ taking' = taking
      /\ taking # Largest => cycle' = "take" /\ taking' = taking + 1
      /\ UNCHANGED <<running, lastDelta, instant, left, binned, line, torn>>
  BY <1>1, <1>2, <1>3 DEF TakeFractile, background
<1>5. /\ \A q : Phase(q) = IF q = p THEN "take" ELSE "idle"
      /\ \A q : Phase(q)' = IF q = p THEN cycle' ELSE "idle"
      /\ \A q : Pending(q)' = Pending(q)
  BY <1>1, <1>4 DEF Phase, IsBeingWritten, IsBeingSampled, Pending
<1>6. taking \in Statistic /\ taking' \in Statistic
  <2>1. taking \in Statistic
    BY <1>4 DEF ProfilesInv, ThreadsOK
  <2>2. Largest \in Nat
    BY SeqFacts, ProfilesAssumption DEF Largest
  <2> QED
    BY <1>4, <2>1, <2>2 DEF Statistic
<1>7. /\ DOMAIN profiles' = ProfileOf /\ DOMAIN lastBin' = ProfileOf
      /\ p \in ProfileOf => profiles'[p] = s
      /\ \A q \in ProfileOf : q # p => profiles'[q] = profiles[q] /\ lastBin'[q] = lastBin[q]
  BY <1>4 DEF ProfilesInv, ProfilesOK
<1>8. p \in ProfileOf => /\ IsProfile(s) /\ s.count = profiles[p].count
                         /\ s.warmup = profiles[p].warmup
                         /\ v = ValueOf(profiles[p].order, taking)
  BY <1>2, <1>3, <1>6, TakenFacts DEF ProfilesInv, ProfilesOK
<1>9. ASSUME NEW q \in ProfileOf \ torn' PROVE Intact(q)'
  <2>1. q \in ProfileOf \ torn /\ Intact(q)
    BY <1>4 DEF ProfilesInv
  <2>2. CASE q # p
    BY <1>4, <1>5, <1>7, <2>1, <2>2, Untouched
  <2>3. CASE q = p
    <3>1. PICK r : r = profiles[q]
      OBVIOUS
    <3>2. PICK b : b = lastBin[q]
      OBVIOUS
    <3>3. IsIntact(q, r, binned[q], b, line[q], "take", Pending(q), taking)
      BY <1>5, <2>1, <2>3, <3>1, <3>2 DEF Intact
    <3>4. /\ line[q].n = line[q].told /\ Pending(q) = 0 /\ IsSummed(q, r, binned[q])
          /\ IsTakenTo(r, b, taking)
      BY <3>3 DEF IsIntact
    <3>5. IsSummed(q, s, binned[q])
      BY <1>8, <2>3, <3>1, <3>4 DEF IsSummed
    <3>6. PICK c : c = lastBin'[q]
      OBVIOUS
    <3>7. c = [b EXCEPT !.taken = Append(@, v)]
      BY <1>4, <2>1, <2>3, <3>2, <3>6 DEF ProfilesInv, ProfilesOK
    <3>8. /\ "taken" \in DOMAIN c
          /\ c.samples = b.samples /\ c.taken = Append(b.taken, v)
      BY <3>4, <3>7 DEF IsTakenTo
    <3>9. /\ taking = Largest => HasRanks(c)
          /\ taking # Largest => IsTakenTo(s, c, taking + 1)
      BY <1>2, <1>6, <1>8, <2>3, <3>1, <3>4, <3>8, TakenOnce DEF ProfilesInv, ProfilesOK
    <3>10. IsIntact(q, s, binned[q], c, line[q], cycle', 0, taking')
      BY <1>4, <3>4, <3>5, <3>9 DEF IsIntact
    <3> QED
      BY <1>4, <1>5, <1>7, <2>1, <2>3, <3>4, <3>6, <3>10 DEF Intact
  <2> QED
    BY <2>2, <2>3
<1>10. \A q \in ProfileOf : IsProfile(profiles'[q])
  BY <1>7, <1>8 DEF ProfilesInv, ProfilesOK
<1> QED
  BY <1>4, <1>6, <1>7, <1>9, <1>10 DEF ProfilesInv, ProfilesOK, ThreadsOK

LEMMA ClearSamplesKeeps ==
    ASSUME ProfilesInv, ClearSamples
    PROVE  ProfilesInv'
<1>1. PICK p : p = Head(left)
  OBVIOUS
<1>2. PICK s : s = Cleared(profiles[p])
  OBVIOUS
<1>3. /\ cycle = "clear" /\ cycle' = "print"
      /\ profiles' = [profiles EXCEPT ![p] = s]
      /\ UNCHANGED <<running, lastDelta, instant, left, taking, binned, lastBin, line, torn>>
  BY <1>1, <1>2 DEF ClearSamples, background, history
<1>4. /\ \A q : Phase(q) = IF q = p THEN "clear" ELSE "idle"
      /\ \A q : Phase(q)' = IF q = p THEN "print" ELSE "idle"
      /\ \A q : Pending(q)' = Pending(q)
  BY <1>1, <1>3 DEF Phase, IsBeingWritten, IsBeingSampled, Pending
<1>5. p \in ProfileOf => /\ IsProfile(s) /\ s.count = profiles[p].count
                         /\ s.warmup = profiles[p].warmup /\ s.order.samples = <<>>
  BY <1>2, ProfileHelpers DEF ProfilesInv, ProfilesOK
<1>6. /\ DOMAIN profiles' = ProfileOf
      /\ p \in ProfileOf => profiles'[p] = s
      /\ \A q \in ProfileOf : q # p => profiles'[q] = profiles[q]
  BY <1>3 DEF ProfilesInv, ProfilesOK
<1>7. ASSUME NEW q \in ProfileOf \ torn' PROVE Intact(q)'
  <2>1. q \in ProfileOf \ torn /\ Intact(q)
    BY <1>3 DEF ProfilesInv
  <2>2. CASE q # p
    BY <1>3, <1>4, <1>6, <2>1, <2>2, Untouched
  <2>3. CASE q = p
    <3>1. PICK r : r = profiles[q]
      OBVIOUS
    <3>2. IsIntact(q, r, binned[q], lastBin[q], line[q], "clear", Pending(q), taking)
      BY <1>4, <2>1, <2>3, <3>1 DEF Intact
    <3>3. /\ line[q].n = line[q].told /\ Pending(q) = 0 /\ IsSummed(q, r, binned[q])
          /\ HasRanks(lastBin[q])
      BY <3>2 DEF IsIntact
    <3>4. IsSummed(q, s, binned[q])
      BY <1>5, <2>3, <3>1, <3>3 DEF IsSummed
    <3>5. IsIntact(q, s, binned[q], lastBin[q], line[q], "print", 0, taking)
      BY <1>5, <2>3, <3>3, <3>4 DEF IsIntact
    <3> QED
      BY <1>3, <1>4, <1>6, <2>1, <2>3, <3>3, <3>5 DEF Intact
  <2> QED
    BY <2>2, <2>3
<1> QED
  BY <1>3, <1>5, <1>6, <1>7 DEF ProfilesInv, ProfilesOK, ThreadsOK

LEMMA PrintProfileKeeps ==
    ASSUME ProfilesInv, PrintProfile
    PROVE  ProfilesInv'
<1>1. PICK p : p = Head(left)
  OBVIOUS
<1>2. PICK l : l = [n |-> profiles[p].count, told |-> profiles[p].warmup.count + binned[p]]
  OBVIOUS
<1>3. /\ cycle = "print" /\ cycle' \in {"update", "check"}
      /\ line' = [line EXCEPT ![p] = l]
      /\ UNCHANGED <<profiles, running, lastDelta, instant, taking, binned, lastBin, torn>>
  BY <1>1, <1>2 DEF PrintProfile, background
<1>4. /\ \A q : Phase(q) = IF q = p THEN "print" ELSE "idle"
      /\ \A q : Phase(q)' = "idle" /\ Pending(q)' = Pending(q)
  BY <1>1, <1>3 DEF Phase, IsBeingWritten, IsBeingSampled, Pending
<1>5. DOMAIN line' = ProfileOf /\ \A q \in ProfileOf : q # p => line'[q] = line[q]
  BY <1>3 DEF ProfilesInv, ProfilesOK
<1>6. ASSUME NEW q \in ProfileOf \ torn' PROVE Intact(q)'
  <2>1. q \in ProfileOf \ torn /\ Intact(q)
    BY <1>3 DEF ProfilesInv
  <2>2. CASE q # p
    BY <1>3, <1>4, <1>5, <2>1, <2>2, Untouched
  <2>3. CASE q = p
    <3>1. PICK r : r = profiles[q]
      OBVIOUS
    <3>2. IsIntact(q, r, binned[q], lastBin[q], line[q], "print", Pending(q), taking)
      BY <1>4, <2>1, <2>3, <3>1 DEF Intact
    <3>3. /\ Pending(q) = 0 /\ IsSummed(q, r, binned[q])
          /\ r.order.samples = <<>> /\ HasRanks(lastBin[q])
      BY <3>2 DEF IsIntact
    <3>4. line'[q] = l /\ l.n = l.told
      BY <1>2, <1>3, <2>1, <2>3, <3>1, <3>3 DEF ProfilesInv, ProfilesOK, IsSummed
    <3>5. IsBalanced(q, r, binned[q])
      <4>1. IsProfile(r) /\ Len(<<>>) = 0
        BY <2>1, <3>1 DEF ProfilesInv, ProfilesOK
      <4> QED
        BY <3>3, <4>1 DEF IsSummed, IsBalanced, IsProfile
    <3>6. IsIntact(q, r, binned[q], lastBin[q], l, "idle", 0, taking)
      BY <3>3, <3>4, <3>5, IdleAgain
    <3> QED
      BY <1>3, <1>4, <3>1, <3>3, <3>4, <3>6 DEF Intact
  <2> QED
    BY <2>2, <2>3
<1> QED
  BY <1>3, <1>5, <1>6 DEF ProfilesInv, ProfilesOK, ThreadsOK

LEMMA ProfilesInvHolds == ProfilesSpec => []ProfilesInv
<1>1. ProfilesInit => ProfilesInv
  <2> SUFFICES ASSUME ProfilesInit PROVE ProfilesInv
    OBVIOUS
  <2>1. /\ instant = 1 /\ lastDelta = NoDelta /\ running = Nobody /\ cycle = "loop"
        /\ DOMAIN profiles = ProfileOf /\ DOMAIN binned = ProfileOf
        /\ DOMAIN lastBin = ProfileOf /\ DOMAIN line = ProfileOf
        /\ \A p \in ProfileOf : /\ profiles[p] = NewProfile /\ binned[p] = 0
                                /\ lastBin[p] = NoBin /\ line[p] = NoLine
    BY DEF ProfilesInit
  <2>2. IsProfile(NewProfile)
    <3>1. IsBin(NoSamples)
      BY DEF IsBin, NoSamples, IsInOrder
    <3>2. HasSums(NewProfile.statistics)
      BY DEF HasSums, NewProfile, NoRange
    <3> QED
      BY <3>1, <3>2 DEF IsProfile, NewProfile, NoRange
  <2>3. \A p : Phase(p) = "idle" /\ Pending(p) = 0
    BY <2>1 DEF Phase, IsBeingWritten, IsBeingSampled, Pending
  <2>4. ASSUME NEW p \in ProfileOf PROVE Intact(p)
    <3>1. NoLine.n = NoLine.told /\ HasRanks(NoBin)
      BY DEF NoLine, HasRanks
    <3>2. IsBalanced(p, NewProfile, 0)
      <4>1. /\ NewProfile.count = 0 /\ NewProfile.warmup.count = 0
            /\ NewProfile.order.samples = <<>> /\ Len(<<>>) = 0
        BY DEF NewProfile, NoRange, NoSamples
      <4>2. WarmupSize[p] \in Nat
        BY ProfilesAssumption
      <4> QED
        BY <4>1, <4>2 DEF IsBalanced
    <3>3. IsIntact(p, NewProfile, 0, NoBin, NoLine, "idle", 0, taking)
      BY <3>1, <3>2, IdleAgain
    <3> QED
      BY <2>1, <2>3, <3>3 DEF Intact
  <2> QED
    BY <2>1, <2>2, <2>4 DEF ProfilesInv, ProfilesOK, ThreadsOK, NoDelta
<1>2. ProfilesInv /\ [ProfilesNext]_profileVars => ProfilesInv'
  BY StepsAside, CountSampleKeeps, StopTaskKeeps, EndUpdateKeeps, RestartKeeps,
     ResetProfileKeeps, WriteKeeps, CheckSamplesKeeps, TakeFractileKeeps,
     ClearSamplesKeeps, PrintProfileKeeps DEF ProfilesNext
<1> QED
  BY <1>1, <1>2, PTL DEF ProfilesSpec

\* NothingLeftOut: "Leave no data out" -- for any profiles, sizes of bins and of
\* warm-ups, clocks and interleavings of the two threads, what is written of a
\* profile is about every sample it took, if none arrived while it was written.
THEOREM NothingLeftOutHolds == ProfilesSpec => []NothingLeftOut
<1>1. ProfilesInv => NothingLeftOut
  <2> SUFFICES ASSUME ProfilesInv, NEW p \in ProfileOf \ torn
               PROVE  /\ line[p].n = line[p].told
                      /\ ~IsBeingWritten(p) /\ ~IsBeingSampled(p) =>
                           profiles[p].count = Accounted(p) + Len(profiles[p].order.samples)
                      /\ profiles[p].warmup.count <= WarmupSize[p]
    BY DEF NothingLeftOut
  <2>1. CASE IsBeingWritten(p)
    <3>1. Phase(p) # "idle"
      BY <2>1 DEF Phase, IsBeingWritten
    <3> QED
      BY <2>1, <3>1 DEF ProfilesInv, Intact, IsIntact, IsSummed
  <2>2. CASE ~IsBeingWritten(p)
    <3>1. Phase(p) = "idle"
      BY <2>2 DEF Phase
    <3>2. /\ line[p].n = line[p].told
          /\ IsBeingSampled(p) => IsBalanced(p, profiles[p], binned[p] + 1)
          /\ ~IsBeingSampled(p) => IsBalanced(p, profiles[p], binned[p])
      BY <3>1, IdleFacts DEF Pending
    <3> QED
      BY <3>2 DEF IsBalanced, Accounted
  <2> QED
    BY <2>1, <2>2
<1> QED
  BY <1>1, ProfilesInvHolds, PTL

\* FractilesAreRanks: whatever the samples are, the size of the bins, the fractions, and
\* the interleaving of the two threads, the values that the statistics take of a bin,
\* one after the other, are those of the ranks that the fractions say, the smallest
\* and the largest, of one and the same bin, if no sample arrived in between.
THEOREM FractilesAreRanksHolds == ProfilesSpec => []FractilesAreRanks
<1>1. ProfilesInv => FractilesAreRanks
  <2> SUFFICES ASSUME ProfilesInv, NEW p \in ProfileOf \ torn, lastBin[p] # NoBin
               PROVE  LET bin == lastBin[p].samples
                          taken == lastBin[p].taken IN
                      /\ \A k \in DOMAIN taken :
                           CASE k = 1 -> taken[k] = Min(Range(bin))
                             [] k = Largest -> taken[k] = Max(Range(bin))
                             [] OTHER -> HasRank(bin, taken[k], Fractions[k - 1])
                      /\ ~IsBeingWritten(p) => DOMAIN taken = Statistic
    BY DEF FractilesAreRanks
  <2> DEFINE bin == lastBin[p].samples
             taken == lastBin[p].taken
  <2>1. /\ Phase(p) = "take" => IsTakenTo(profiles[p], lastBin[p], taking)
        /\ Phase(p) # "take" => HasRanks(lastBin[p])
    BY DEF ProfilesInv, Intact, IsIntact
  <2>2. \A k \in DOMAIN taken : IsRank(bin, k, taken[k])
    <3>1. CASE Phase(p) = "take"
      <4>1. /\ taken \in Seq(Int) /\ Len(taken) = taking - 1
            /\ \A k \in 1 .. taking - 1 : IsRank(bin, k, taken[k])
        BY <2>1, <3>1 DEF IsTakenTo
      <4>2. DOMAIN taken = 1 .. Len(taken)
        BY <4>1, SeqFacts
      <4> QED
        BY <4>1, <4>2
    <3>2. CASE Phase(p) # "take"
      BY <2>1, <3>2 DEF HasRanks
    <3> QED
      BY <3>1, <3>2
  <2>3. ~IsBeingWritten(p) => DOMAIN taken = Statistic
    BY <2>1 DEF HasRanks, Phase
  <2> HIDE DEF bin, taken
  <2>4. \A k \in DOMAIN taken :
          CASE k = 1 -> taken[k] = Min(Range(bin))
            [] k = Largest -> taken[k] = Max(Range(bin))
            [] OTHER -> HasRank(bin, taken[k], Fractions[k - 1])
    BY <2>2 DEF IsRank
  <2> QED
    BY <2>3, <2>4 DEF bin, taken
<1> QED
  BY <1>1, ProfilesInvHolds, PTL
-----------------------------------------------------------------------------
(***************************************************************************)
(* Reads of a configuration.  As long as all configurations that were      *)
(* active during a read have the key in the same place, the reader has not *)
(* gone past it while it looks for it, and is there when it has found it.  *)
(***************************************************************************)
Looked == IF scopes = 0 THEN {0} ELSE 1 .. scopes

AllIn(places) == \A configuration \in during : Innermost(configuration) = places

IsRead(places) ==
    /\ result = Default <=> places = {}
    /\ \A s \in places : \E configuration \in during : text = configuration[s]

ReadInv ==
    /\ scopes \in Nat /\ at \in {"idle", "find", "get"}
    /\ at # "idle" => active \in during
    /\ at = "find" => scope \in 1 .. scopes + 1
    /\ at = "get" => scope \in Looked
    /\ \A places \in SUBSET (0 .. scopes) : AllIn(places) =>
         /\ at = "find" => \A s \in places : s = 0 \/ scope <= s
         /\ at = "get" => \A s \in places : s = scope
         /\ ReadDone => IsRead(places)

\* Each configuration has the key in one innermost scope or in none.
LEMMA InnermostFacts ==
    ASSUME scopes \in Nat, NEW c
    PROVE  /\ Innermost(c) \subseteq Looked
           /\ \A s \in Innermost(c) : /\ c[s] # Missing
                                      /\ \A other \in 1 .. s - 1 : c[other] = Missing
           /\ Innermost(c) = {} => \A s \in Looked : c[s] = Missing
<1>1. /\ Innermost(c) \subseteq Looked
      /\ \A s \in Innermost(c) : c[s] # Missing /\ \A other \in 1 .. s - 1 : c[other] = Missing
  BY DEF Innermost, Looked
<1>2. ASSUME NEW s \in Looked, c[s] # Missing PROVE Innermost(c) # {}
  <2> DEFINE T == {t \in Looked : c[t] # Missing}
  <2>1. T \subseteq Nat /\ T # {}
    BY <1>2 DEF Looked
  <2>2. PICK t \in T : \A u \in T : t <= u
    <3> HIDE DEF T
    <3> QED
      BY <2>1, LeastNatural
  <2>3. \A other \in 1 .. t - 1 : c[other] = Missing
    BY <2>2 DEF Looked
  <2>4. t \in Innermost(c)
    BY <2>2, <2>3 DEF Innermost, Looked
  <2> QED
    BY <2>4
<1> QED
  BY <1>1, <1>2

\* A getter gives the default if there is no text, and never if there is one.
LEMMA GetFacts ==
    ASSUME Get
    PROVE  result' = Default <=> active[scope] = Missing
<1>1. CASE active[scope] = Missing
  BY <1>1 DEF Get
<1>2. CASE active[scope] # Missing
  <2>1. /\ Default.outcome = "default" /\ Thrown.outcome = "thrown"
        /\ \A n : Value(n).outcome = "value"
    BY DEF Default, Thrown, Value
  <2>2. \A t : /\ \A r \in ToBool(t) : \E n : r = Value(n)
               /\ \A r \in ToDouble(t) : r = Thrown \/ \E n : r = Value(n)
               /\ \A r \in ToInt64(t) : r = Thrown \/ \E n : r = Value(n)
               /\ \A r \in ToUint64(t) : r = Thrown \/ \E n : r = Value(n)
    BY DEF ToBool, ToDouble, ToInt64, ToUint64
  <2>3. \A h : \A r \in Cast(h) : \E n : r = Value(n)
    BY DEF Cast
  <2>4. \A table, t : \A r \in ParseUnits(table, t) : r = Thrown \/ \E n : r = Value(n)
    BY <2>2, <2>3 DEF ParseUnits
  <2>5. result' = Thrown \/ \E n : result' = Value(n)
    BY <1>2, <2>2, <2>4 DEF Get, GetString, GetStrings, GetBool, GetDouble, GetInt64,
                            GetUint64, GetStorageAmount, GetTimeAmount
  <2> QED
    BY <1>2, <2>1, <2>5
<1> QED
  BY <1>1, <1>2

\* Every step of the reader, and every other configuration, leaves it so.
LEMMA ReadAgain ==
    ASSUME ReadInv, [ReadsNext]_readVars
    PROVE  ReadInv'
<1> USE DEF ReadInv, ReadDone
<1>1. ASSUME NEW c \in Configurations, Swap(c) PROVE ReadInv'
  <2>1. /\ UNCHANGED <<scopes, at, scope, result, text>>
        /\ active' = c /\ during' = during \union {c}
    BY <1>1 DEF Swap, readerVars
  <2>2. \A places : AllIn(places)' => AllIn(places)
    BY <2>1 DEF AllIn, Innermost
  <2>3. \A places : IsRead(places) => IsRead(places)'
    BY <2>1 DEF IsRead
  <2> QED
    BY <2>1, <2>2, <2>3 DEF Looked
<1>2. CASE BeginRead
  <2>1. /\ at' = "find" /\ scope' = 1 /\ during' = {active} /\ active' = active
        /\ scopes' = scopes
    BY <1>2 DEF BeginRead
  <2> QED
    BY <2>1
<1>3. CASE NextScope
  <2>1. /\ at = "find" /\ scope <= scopes /\ active[scope] = Missing /\ scope' = scope + 1
        /\ UNCHANGED <<scopes, active, during, at, result, text>>
    BY <1>3 DEF NextScope, StopsAt
  <2>2. \A places : AllIn(places)' => AllIn(places) /\ Innermost(active) = places
    BY <2>1 DEF AllIn, Innermost
  <2>3. \A s \in Innermost(active) : s = 0 \/ scope <= s => s = 0 \/ scope + 1 <= s
    BY <2>1, InnermostFacts DEF Looked
  <2> QED
    BY <2>1, <2>2, <2>3
<1>4. CASE Found
  <2>1. /\ at = "find" /\ scope <= scopes /\ active[scope] # Missing /\ at' = "get"
        /\ UNCHANGED <<scopes, active, during, scope>>
    BY <1>4 DEF Found, StopsAt
  <2>2. \A places : AllIn(places)' => AllIn(places) /\ Innermost(active) = places
    BY <2>1 DEF AllIn, Innermost
  <2>3. \A s \in Innermost(active) : s = 0 \/ scope <= s => s = scope
    BY <2>1, InnermostFacts DEF Looked
  <2>4. scope' \in Looked'
    BY <2>1 DEF Looked
  <2> QED
    BY <2>1, <2>2, <2>3, <2>4
<1>5. CASE NotFound
  <2>1. /\ at = "find" /\ scope > scopes /\ at' = "get"
        /\ scope' = IF scopes = 0 THEN 0 ELSE 1
        /\ UNCHANGED <<scopes, active, during>>
    BY <1>5 DEF NotFound
  <2>2. \A places : AllIn(places)' => AllIn(places) /\ Innermost(active) = places
    BY <2>1 DEF AllIn, Innermost
  <2>3. \A s \in Innermost(active) : s = 0 \/ scope <= s => s = scope'
    BY <2>1, InnermostFacts DEF Looked
  <2>4. scope' \in Looked'
    BY <2>1 DEF Looked
  <2> QED
    BY <2>1, <2>2, <2>3, <2>4
<1>6. CASE EndRead
  <2>1. /\ at = "get" /\ Get /\ text' = active[scope] /\ at' = "idle"
        /\ UNCHANGED <<scopes, active, during, scope>>
    BY <1>6 DEF EndRead
  <2>2. \A places : AllIn(places)' => AllIn(places) /\ Innermost(active) = places
    BY <2>1 DEF AllIn, Innermost
  <2>3. ASSUME NEW places \in SUBSET (0 .. scopes), AllIn(places)'
        PROVE  IsRead(places)'
    <3>1. /\ Innermost(active) = places /\ \A s \in places : s = scope
          /\ scope \in Looked /\ active \in during
      BY <2>1, <2>2, <2>3
    <3>2. places = {} <=> active[scope] = Missing
      BY <3>1, InnermostFacts
    <3>3. result' = Default <=> places = {}
      BY <2>1, <3>2, GetFacts
    <3> QED
      BY <2>1, <3>1, <3>3 DEF IsRead
  <2> QED
    BY <2>1, <2>3
<1>7. CASE UNCHANGED readVars
  BY <1>7 DEF readVars, readerVars, AllIn, Innermost, IsRead, Looked
<1> QED
  BY <1>1, <1>2, <1>3, <1>4, <1>5, <1>6, <1>7 DEF ReadsNext, Reader

\* StableScopeIsRead: "allowing for cascading configurations" -- for any number of
\* scopes and reloads, a key that all configurations during a read have in the same
\* innermost scope is read there, and is the default only if none of them has it.
THEOREM StableScopeIsReadHolds == ReadsSpec => []StableScopeIsRead
<1>1. ReadsInit => ReadInv
  BY ReadsAssumption DEF ReadsInit, ReadInv, ReadDone
<1>2. ReadInv => StableScopeIsRead
  BY DEF ReadInv, StableScopeIsRead, AllIn, IsRead
<1> QED
  BY <1>1, <1>2, ReadAgain, PTL DEF ReadsSpec
-----------------------------------------------------------------------------
(***************************************************************************)
(* Amounts.  The first unit that has the letters is the only one, and a    *)
(* whole number of units is a double all along.                            *)
(***************************************************************************)
LEMMA UnitsFacts ==
    ASSUME NEW table \in {"storage", "time"}
    PROVE  /\ Len(Units[table]) \in Nat /\ DOMAIN Units[table] = 1 .. Len(Units[table])
           /\ \A k \in DOMAIN Units[table] :
                /\ Units[table][k].size \in 1 .. IntegerModulus - 1
                /\ Units[table][k].letters # <<>>
           /\ \A k, m \in DOMAIN Units[table] :
                Units[table][k].letters = Units[table][m].letters => k = m
<1>1. /\ Units[table] \in Seq([letters : Seq(STRING), size : 1 .. IntegerModulus - 1])
      /\ \A k, m \in DOMAIN Units[table] :
           /\ Units[table][k].letters # <<>>
           /\ k < m => Units[table][k].letters # Units[table][m].letters
  BY UnitsAssumption
<1> DEFINE units == Units[table]
<1>2. /\ Len(units) \in Nat /\ DOMAIN units = 1 .. Len(units)
      /\ \A k \in 1 .. Len(units) :
           units[k] \in [letters : Seq(STRING), size : 1 .. IntegerModulus - 1]
  BY ONLY <1>1, LenProperties, ElementOfSeq
<1>3. \A k, m \in DOMAIN units : k < m \/ m < k \/ k = m
  BY <1>2
<1> QED
  BY <1>1, <1>2, <1>3

LEMMA MultiplierIsSize ==
    ASSUME NEW table \in {"storage", "time"}, NEW k \in DOMAIN Units[table]
    PROVE  Multiplier(table, Units[table][k].letters) = Units[table][k].size
<1> DEFINE units == Units[table]
           letters == units[k].letters
           same == {m \in 1 .. Len(units) : IsUnit(units[m], letters)}
<1>1. same = {k}
  BY UnitsFacts DEF IsUnit
<1>2. Min(same) = k
  BY <1>1, UnitsFacts DEF Min
<1>3. Multiplier(table, letters)
        = LET first == IF same # {} THEN Min(same) ELSE 0
          IN  IF first = 0 THEN 1 ELSE units[first].size
  BY DEF Multiplier, SelectInSeq
<1> HIDE DEF same
<1>4. same # {} /\ k # 0
  BY <1>1, UnitsFacts
<1> QED
  BY <1>2, <1>3, <1>4

\* A double is its own nearest.
LEMMA NearestOfDouble ==
    ASSUME NEW x \in Double, NEW d \in Nat \ {0}
    PROVE  Rounded(x * d, d) = x
<1>1. Double \subseteq Nat
  <2>1. ASSUME NEW m \in 0 .. Significands, NEW place \in Places PROVE m * place \in Nat
    <3>1. m \in Nat /\ place \in Nat
      BY DoublesAssumption
    <3> QED
      BY ONLY <3>1
  <2>2. ASSUME NEW y \in Double PROVE y \in Nat
    <3>1. PICK m \in 0 .. Significands, place \in Places : y = m * place
      BY <2>2 DEF Double
    <3> QED
      BY <2>1, <3>1, Zenon
  <2> QED
    BY <2>2, Zenon
<1>2. \A y \in Double : (y * d <= x * d <=> y <= x) /\ (y * d >= x * d <=> y >= x)
  <2> SUFFICES ASSUME NEW y \in Nat, NEW z \in Nat, y < z PROVE y * d < z * d
    BY <1>1
  <2>1. y * d + d <= z * d
    <3>1. (y + 1) * d <= z * d
      OBVIOUS
    <3> QED
      BY <3>1
  <2> QED
    BY <2>1
<1> DEFINE below == {y \in Double : y * d <= x * d}
           above == {y \in Double : y * d >= x * d}
<1>3. Max(below) = x
  <2>1. x \in below /\ \A y \in below : y \in Nat /\ x >= y
    BY <1>1, <1>2
  <2>2. \A z \in below : (\A y \in below : z >= y) => z = x
    BY <2>1
  <2> HIDE DEF below
  <2> QED
    BY <2>1, <2>2 DEF Max
<1>4. Min(above) = x
  <2>1. x \in above /\ \A y \in above : y \in Nat /\ x <= y
    BY <1>1, <1>2
  <2>2. \A z \in above : (\A y \in above : z <= y) => z = x
    BY <2>1
  <2> HIDE DEF above
  <2> QED
    BY <2>1, <2>2 DEF Min
<1>5. Nearest(x * d, d) = x
  BY <1>3, <1>4 DEF Nearest
<1>6. x * d \in Nat
  BY <1>1
<1>7. PICK n \in Nat : n = x * d
  BY <1>6
<1>8. ~(n < 0)
  OBVIOUS
<1> QED
  BY <1>5, <1>7, <1>8 DEF Rounded

\* A whole number that has few enough bits is a double, and is not changed by the cast.
LEMMA WholeIsDouble ==
    ASSUME NEW n \in 0 .. Significands
    PROVE  n * Scale \in Double
BY DoublesAssumption DEF Double

LEMMA CastIsExact ==
    ASSUME NEW n \in 0 .. Significands - 1
    PROVE  Cast(n * Scale) = {Value(n)}
<1>1. PICK size \in Nat \ {0} : size = Scale
  BY DoublesAssumption
<1>2. n \in Nat /\ n * size >= 0 /\ (n * size) \div size = n
  OBVIOUS
<1>3. Truncated(n * Scale, Scale) = n
  BY <1>1, <1>2 DEF Truncated
<1>4. n \in 0 .. IntegerModulus - 1
  BY DoublesAssumption, ModulusAssumption
<1> QED
  BY <1>3, <1>4 DEF Cast

\* The double of a whole number, and its product, are exact.
LEMMA InUnitsIsExact ==
    ASSUME NEW t, NEW w \in Nat, Tenths(t) = 10 * w, NEW size \in Nat \ {0},
           w * size < Significands
    PROVE  InUnits(t, size) = (w * size) * Scale
<1>1. PICK scale \in Nat \ {0} : scale = Scale
  BY DoublesAssumption
<1>2. w * 1 <= w * size
  OBVIOUS
<1>3. w \in 0 .. Significands /\ w * size \in 0 .. Significands
  BY <1>2, DoublesAssumption
<1>4. DoubleOf(t) = w * scale
  <2>1. Tenths(t) * Scale = (w * scale) * 10
    BY <1>1
  <2>2. w * scale \in Double
    BY <1>1, <1>3, WholeIsDouble
  <2> QED
    BY <2>1, <2>2, NearestOfDouble DEF DoubleOf
<1>5. DoubleOf(t) * size = ((w * size) * scale) * 1
  BY <1>4
<1>6. (w * size) * scale \in Double
  BY <1>1, <1>3, WholeIsDouble
<1> QED
  BY <1>1, <1>5, <1>6, NearestOfDouble DEF InUnits

\* A text of a whole number that gave a value.
LEMMA AmountFacts ==
    ASSUME NEW table \in {"storage", "time"}, NEW t \in Text,
           NEW r \in ParseUnits(table, t), r.outcome = "value",
           NEW w \in Nat, Tenths(t) = 10 * w
    PROVE  /\ t.letters = <<>> /\ w < IntegerModulus => r.number = w
           /\ \A k \in DOMAIN Units[table] :
                t.letters = Units[table][k].letters /\ w * Units[table][k].size < Significands
                  => r.number = w * Units[table][k].size
<1>1. r # Thrown /\ \A n : Value(n).number = n
  BY DEF Thrown, Value
<1>2. HasNumber(t)
  BY <1>1 DEF ParseUnits, ToUint64
<1>3. ASSUME t.letters = <<>>, w < IntegerModulus PROVE r.number = w
  <2>1. Truncated(Tenths(t), 10) = w
    BY DEF Truncated
  <2>2. w % IntegerModulus = w /\ w \in 1 - IntegerModulus .. IntegerModulus - 1
    BY <1>3, ModulusAssumption
  <2>3. r = Value(w)
    BY <1>2, <1>3, <2>1, <2>2 DEF ParseUnits, ToUint64
  <2> QED
    BY <1>1, <2>3
<1>4. ASSUME NEW k \in DOMAIN Units[table], t.letters = Units[table][k].letters,
             w * Units[table][k].size < Significands
      PROVE  r.number = w * Units[table][k].size
  <2>1. PICK size \in Nat \ {0} : size = Units[table][k].size
    BY UnitsFacts
  <2>2. InUnits(t, size) = (w * size) * Scale
    BY <1>4, <2>1, InUnitsIsExact
  <2>3. r \in Cast(InUnits(t, size))
    BY <1>2, <1>4, <2>1, UnitsFacts, MultiplierIsSize DEF ParseUnits
  <2>4. w * size \in 0 .. Significands - 1
    BY <1>4, <2>1, DoublesAssumption
  <2>5. r = Value(w * size)
    BY <2>2, <2>3, <2>4, CastIsExact
  <2> QED
    BY <1>1, <2>1, <2>5
<1> QED
  BY <1>3, <1>4

\* What has been read for an amount is an outcome of parseUnits() for a text.
Table == IF getter = "TimeAmount" THEN "time" ELSE "storage"

AmountInv ==
    /\ scopes \in 0 .. MaxScopes /\ active \in Configurations
    /\ at = "find" => scope \in Nat \ {0}
    /\ at = "get" => scope \in 0 .. MaxScopes
    /\ ReadDone /\ result # Default /\ getter \in {"StorageAmount", "TimeAmount"}
         => text \in Text /\ result \in ParseUnits(Table, text)

LEMMA AmountAgain ==
    ASSUME AmountInv, [ReadsNext]_readVars
    PROVE  AmountInv'
<1> USE DEF AmountInv, ReadDone, Table
<1>1. ASSUME NEW c \in Configurations, Swap(c) PROVE AmountInv'
  BY <1>1 DEF Swap, readerVars
<1>2. CASE BeginRead
  BY <1>2 DEF BeginRead
<1>3. CASE NextScope
  BY <1>3 DEF NextScope
<1>4. CASE Found
  BY <1>4, ReadsAssumption DEF Found
<1>5. CASE NotFound
  BY <1>5, ReadsAssumption DEF NotFound
<1>6. CASE EndRead
  <2>1. /\ at = "get" /\ Get /\ text' = active[scope] /\ at' = "idle"
        /\ UNCHANGED <<scopes, active, scope, getter>>
    BY <1>6 DEF EndRead
  <2>2. active[scope] \in Text \union {Missing}
    BY <2>1, ReadsAssumption
  <2>3. ASSUME result' # Default, getter \in {"StorageAmount", "TimeAmount"}
        PROVE  active[scope] # Missing /\ result' \in ParseUnits(Table, active[scope])
    BY <2>1, <2>3 DEF Get, GetString, GetStrings, GetBool, GetDouble, GetInt64,
                      GetUint64, GetStorageAmount, GetTimeAmount
  <2> QED
    BY <2>1, <2>2, <2>3
<1>7. CASE UNCHANGED readVars
  BY <1>7 DEF readVars, readerVars
<1> QED
  BY <1>1, <1>2, <1>3, <1>4, <1>5, <1>6, <1>7 DEF ReadsNext, Reader

\* WholeAmountIsExact: for any table whose units have letters of their own, and any
\* doubles among which whole numbers below a bound are, a whole number of units is
\* read as what it says, as long as it is below this bound.
THEOREM WholeAmountIsExactHolds == ReadsSpec => []WholeAmountIsExact
<1>1. ReadsInit => AmountInv
  BY ReadsAssumption DEF ReadsInit, AmountInv, ReadDone
<1>2. AmountInv => WholeAmountIsExact
  <2> SUFFICES ASSUME AmountInv, NEW unit \in Range(TableOf) \union {NoUnit},
                      IsReadIn(unit), IsWhole,
                      (Tenths(text) \div 10) * unit.size
                        < IF unit = NoUnit THEN IntegerModulus ELSE Significands
               PROVE  result.number = (Tenths(text) \div 10) * unit.size
    BY DEF WholeAmountIsExact
  <2>1. /\ Table \in {"storage", "time"} /\ TableOf = Units[Table]
        /\ text \in Text /\ result \in ParseUnits(Table, text)
        /\ result.outcome = "value" /\ text.letters = unit.letters
    BY DEF AmountInv, Default, Table, TableOf, IsReadIn
  <2>2. HasNumber(text) /\ Tenths(text) \in Int
    <3>1. HasNumber(text)
      BY <2>1 DEF ParseUnits, ToUint64, Thrown
    <3> QED
      BY <2>1, <3>1, ReadsAssumption DEF HasNumber, Tenths
  <2>3. PICK w \in Nat : w = Tenths(text) \div 10 /\ Tenths(text) = 10 * w
    BY <2>2 DEF IsWhole
  <2>4. /\ text.letters = <<>> /\ w < IntegerModulus => result.number = w
        /\ \A k \in DOMAIN TableOf :
             text.letters = TableOf[k].letters /\ w * TableOf[k].size < Significands
               => result.number = w * TableOf[k].size
    BY <2>1, <2>3, AmountFacts
  <2>5. CASE unit = NoUnit
    <3>1. unit.letters = <<>> /\ unit.size = 1
      BY <2>5 DEF NoUnit
    <3> QED
      BY <2>1, <2>3, <2>4, <2>5, <3>1
  <2>6. CASE unit # NoUnit
    <3>1. PICK k \in DOMAIN TableOf : unit = TableOf[k]
      BY <2>6 DEF Range
    <3> QED
      BY <2>1, <2>3, <2>4, <2>6, <3>1
  <2> QED
    BY <2>5, <2>6
<1> QED
  BY <1>1, <1>2, AmountAgain, PTL DEF ReadsSpec
-----------------------------------------------------------------------------
\* Every number of a getter but those of doubles and signed integers fits the width of
\* an unsigned one.
LEMMA OutcomeFacts ==
    ASSUME Get
    PROVE  /\ result'.outcome \in {"default", "thrown", "value"}
           /\ result'.outcome = "value" /\ getter \notin {"Double", "Int64"}
                => result'.number \in 0 .. IntegerModulus - 1
<1> DEFINE Fits(r) == \/ r = Thrown
                       \/ \E n \in 0 .. IntegerModulus - 1 : r = Value(n)
           IsOutcome(r) == r = Thrown \/ \E n : r = Value(n)
<1>1. /\ Default.outcome = "default" /\ Thrown.outcome = "thrown"
      /\ \A n : Value(n).outcome = "value" /\ Value(n).number = n
  BY DEF Default, Thrown, Value
<1>2. CASE result' = Default
  BY <1>1, <1>2
<1>3. CASE active[scope] # Missing
  <2> DEFINE t == active[scope]
  <2>1. /\ 0 \in 0 .. IntegerModulus - 1 /\ 1 \in 0 .. IntegerModulus - 1
        /\ \A k \in 1 - IntegerModulus .. IntegerModulus - 1 :
             k % IntegerModulus \in 0 .. IntegerModulus - 1
    BY ModulusAssumption
  <2>2. \A r \in ToBool(t) : Fits(r)
    BY <2>1 DEF ToBool
  <2>3. \A r \in ToUint64(t) : Fits(r)
    BY <2>1 DEF ToUint64
  <2>4. \A h : \A r \in Cast(h) : Fits(r)
    BY DEF Cast
  <2>5. \A table : \A r \in ParseUnits(table, t) : Fits(r)
    BY <2>3, <2>4 DEF ParseUnits
  <2>6. /\ \A r \in ToDouble(t) : IsOutcome(r)
        /\ \A r \in ToInt64(t) : IsOutcome(r)
    BY DEF ToDouble, ToInt64
  <2>7. Fits(Value(0))
    BY <2>1
  <2>8. IsOutcome(result') /\ (getter \notin {"Double", "Int64"} => Fits(result'))
    <3> HIDE DEF Fits
    <3>1. \A r : Fits(r) => IsOutcome(r)
      BY DEF Fits
    <3> HIDE DEF IsOutcome
    <3> QED
      BY <1>3, <2>2, <2>3, <2>5, <2>6, <2>7, <3>1
         DEF Get, GetString, GetStrings, GetBool, GetDouble, GetInt64, GetUint64,
             GetStorageAmount, GetTimeAmount
  <2> QED
    BY <1>1, <2>8
<1> QED
  BY <1>2, <1>3 DEF Get

\* ReadsTypeOK: a read stands at a scope that there is, its text is one of a configuration,
\* and an unsigned number, a Boolean or an amount is within the width of the integer.
THEOREM ReadsTypeCorrect == ReadsSpec => []ReadsTypeOK
<1> DEFINE Typed == /\ ReadsTypeOK
                    /\ at = "find" => scope >= 1
                    /\ at = "get" => scope \in Looked
<1>1. ReadsInit => Typed
  <2> SUFFICES ASSUME ReadsInit PROVE Typed
    OBVIOUS
  <2>1. scopes \in Nat /\ result.outcome = "none"
    BY ReadsAssumption DEF ReadsInit, Nothing
  <2> QED
    BY <2>1, ReadsAssumption DEF ReadsInit, ReadsTypeOK
<1>2. Typed /\ [ReadsNext]_readVars => Typed'
  <2> SUFFICES ASSUME Typed, [ReadsNext]_readVars PROVE Typed'
    OBVIOUS
  <2> USE ReadsAssumption DEF ReadsTypeOK, Looked
  <2>1. ASSUME NEW c \in Configurations, Swap(c) PROVE Typed'
    BY <2>1 DEF Swap, readerVars
  <2>2. CASE BeginRead
    BY <2>2 DEF BeginRead, Nothing
  <2>3. CASE NextScope
    BY <2>3 DEF NextScope
  <2>4. CASE Found
    BY <2>4 DEF Found
  <2>5. CASE NotFound
    BY <2>5 DEF NotFound
  <2>6. CASE EndRead
    <3>1. /\ at = "get" /\ Get /\ text' = active[scope] /\ at' = "idle"
          /\ UNCHANGED <<scopes, active, reloads, reads, during, getter, scope>>
      BY <2>6 DEF EndRead
    <3>2. active[scope] \in Text \union {Missing}
      <4>1. scope \in 0 .. MaxScopes
        BY <3>1
      <4> QED
        BY <4>1
    <3> QED
      BY <3>1, <3>2, OutcomeFacts
  <2>7. CASE UNCHANGED readVars
    BY <2>7 DEF readVars, readerVars
  <2> QED
    BY <2>1, <2>2, <2>3, <2>4, <2>5, <2>6, <2>7 DEF ReadsNext, Reader
<1> QED
  BY <1>1, <1>2, PTL DEF ReadsSpec
=============================================================================
