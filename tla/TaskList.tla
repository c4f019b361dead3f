------------------------------- MODULE TaskList -------------------------------
(***************************************************************************)
(* The list of tasks of werk::BackgroundThread (Werk/Threading/            *)
(* BackgroundThread.{hpp,cpp}): addTask() pushes onto a std::vector while  *)
(* the thread, which the constructor has already started, walks along it.  *)
(*                                                                         *)
(* The vector is libstdc++'s: to grow it copies the elements to a new      *)
(* buffer of twice the size, frees the old one, and then sets its          *)
(* pointers.  Nothing orders these steps and the reads of the other        *)
(* thread.  A buffer is known by its number, and a task by that of the     *)
(* call that added it.                                                     *)
(***************************************************************************)
EXTENDS Naturals, Sequences

CONSTANT TaskCount              \* how often the main thread calls addTask()

ASSUME TaskCountAssumption == TaskCount \in Nat

VARIABLES
    added,                      \* completed calls of addTask()
    growing,                    \* what push_back() does next if it has to grow
    freed,                      \* buffers up to this one are freed
    elements,                   \* of each buffer: the tasks that were put there
    start, finish,              \* the pointers of the vector: a buffer, and one
                                \* past the last element in some buffer
    capacity,                   \* that of the vector, which only the main thread reads
    bg,                         \* what the thread reads next
    i,                          \* its index
    finishSeen,                 \* its copy of finish
    \* History, which no action reads:
    executed,                   \* the tasks of this pass
    had,                        \* how many were added when this pass began
    settled,                    \* the vector has not grown since then
    stray                       \* it read where there was no element

vector == <<growing, freed, elements, start, finish, capacity>>
thread == <<bg, i, finishSeen, executed, had, stray>>
listVars == <<added, vector, thread, settled>>

Buffers == 0 .. TaskCount

ListInit ==
    /\ added = 0
    /\ growing = "no"
    /\ freed = 0
    /\ elements = [b \in Buffers |-> <<>>]
    /\ start = 0 /\ finish = [buffer |-> 0, size |-> 0]
    /\ capacity = 0
    /\ bg = "finish" /\ i = 0
    /\ finishSeen = finish
    /\ executed = <<>>
    /\ had = 0 /\ settled = TRUE
    /\ stray = FALSE
-----------------------------------------------------------------------------
(***************************************************************************)
(* addTask() on the main thread.                                           *)
(***************************************************************************)
EndOf(b) == [buffer |-> b, size |-> added + 1]

PushInPlace ==
    /\ growing = "no" /\ added < TaskCount
    /\ added < capacity
    /\ elements' = [elements EXCEPT ![start] = Append(@, added + 1)]
    /\ finish' = EndOf(start)
    /\ added' = added + 1
    /\ UNCHANGED <<growing, freed, start, capacity, thread, settled>>

Copy ==
    /\ growing = "no" /\ added < TaskCount
    /\ added = capacity
    /\ elements' = [elements EXCEPT ![start + 1] = Append(elements[start], added + 1)]
    /\ growing' = "free"
    /\ settled' = FALSE
    /\ UNCHANGED <<added, freed, start, finish, capacity, thread>>

Free ==
    /\ growing = "free"
    /\ freed' = start
    /\ growing' = "start"
    /\ UNCHANGED <<added, elements, start, finish, capacity, thread, settled>>

SetStart ==
    /\ growing = "start"
    /\ start' = start + 1
    /\ growing' = "finish"
    /\ UNCHANGED <<added, freed, elements, finish, capacity, thread, settled>>

GrownCapacity == IF capacity = 0 THEN 1 ELSE 2 * capacity

SetFinish ==
    /\ growing = "finish"
    /\ finish' = EndOf(start)
    /\ capacity' = GrownCapacity
    /\ growing' = "no"
    /\ added' = added + 1
    /\ UNCHANGED <<freed, elements, start, thread, settled>>

AddTask == PushInPlace \/ Copy \/ Free \/ SetStart \/ SetFinish
-----------------------------------------------------------------------------
(***************************************************************************)
(* The loop of the background thread: `i < _tasks.size()` reads both       *)
(* pointers, `_tasks[i]` reads the first one again.                        *)
(***************************************************************************)
ReadFinish ==
    /\ bg = "finish"
    /\ finishSeen' = finish
    /\ bg' = "start"
    /\ UNCHANGED <<added, vector, had, settled, i, executed, stray>>

\* Mutant: stops one short of the size.
MutantMayGoOn == finishSeen.buffer = start => i + 1 < finishSeen.size

\* The difference of pointers into two buffers can be anything.
MayGoOn == finishSeen.buffer = start => i < finishSeen.size
MayEnd  == finishSeen.buffer = start => ~MayGoOn

Enter ==
    /\ bg = "start"
    /\ MayGoOn /\ i < TaskCount
    /\ bg' = "task"
    /\ UNCHANGED <<added, vector, had, settled, i, finishSeen, executed, stray>>

EndPass ==
    /\ bg = "start"
    /\ MayEnd
    /\ bg' = "rest"
    /\ UNCHANGED <<added, vector, had, settled, i, finishSeen, executed, stray>>

\* Mutant: increments the index twice.
MutantNextIndex == i + 2

NextIndex == i + 1

ExecuteTask ==
    /\ bg = "task"
    /\ IF start > freed /\ i < Len(elements[start])
         THEN executed' = Append(executed, elements[start][i + 1]) /\ UNCHANGED stray
         ELSE stray' = TRUE /\ UNCHANGED executed
    /\ i' = NextIndex
    /\ bg' = "finish"
    /\ UNCHANGED <<added, vector, had, settled, finishSeen>>

\* Mutant: the index is not set back.
MutantNextPass ==
    /\ bg = "rest"
    /\ bg' = "finish"
    /\ executed' = <<>>
    /\ had' = added /\ settled' = (growing = "no")
    /\ UNCHANGED <<added, vector, i, finishSeen, stray>>

NextPass ==
    /\ bg = "rest"
    /\ bg' = "finish"
    /\ i' = 0
    /\ executed' = <<>>
    /\ had' = added /\ settled' = (growing = "no")
    /\ UNCHANGED <<added, vector, finishSeen, stray>>

Thread == ReadFinish \/ Enter \/ EndPass \/ ExecuteTask \/ NextPass

ListNext == AddTask \/ Thread

ListSpec == ListInit /\ [][ListNext]_listVars
-----------------------------------------------------------------------------
Ends == [buffer : Buffers, size : 0 .. TaskCount]

VectorTypeOK ==
    /\ added \in 0 .. TaskCount
    /\ growing \in {"no", "free", "start", "finish"}
    /\ freed \in Buffers /\ start \in Buffers /\ freed <= start
    /\ elements \in [Buffers -> Seq(1 .. TaskCount)]
    /\ capacity \in Nat
    /\ finish \in Ends

ThreadTypeOK ==
    /\ bg \in {"finish", "start", "task", "rest"}
    /\ i \in 0 .. TaskCount
    /\ finishSeen \in Ends
    /\ executed \in Seq(1 .. TaskCount)
    /\ had \in 0 .. added
    /\ settled \in BOOLEAN /\ stray \in BOOLEAN

ListTypeOK == VectorTypeOK /\ ThreadTypeOK

(***************************************************************************)
(* PassIsComplete: "Tasks in the order they should be executed" -- a pass  *)
(* during which the vector does not grow has executed, when it ends, every *)
(* task that was there when it began, and in the order in which they were  *)
(* added, with none left out before those that came during the pass, for   *)
(* which there was room.  A pass during which the vector grows may end     *)
(* early, miss tasks, or go astray.                                        *)
(***************************************************************************)
FirstTasks(n) == [k \in 1 .. n |-> k]

PassIsComplete ==
    bg = "rest" /\ settled => \E n \in had .. added : executed = FirstTasks(n)

(***************************************************************************)
(* NeverStray: the class declares the list as "Config before", apart from  *)
(* the state it shares with its thread, yet the constructor starts the     *)
(* thread and the tasks are added later.  The thread can read a buffer     *)
(* that was freed, or past the elements of the new one.                    *)
(***************************************************************************)
NeverStray == ~stray
=============================================================================
