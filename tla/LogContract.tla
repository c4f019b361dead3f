---------------------------- MODULE LogContract ----------------------------
(***************************************************************************)
(* What a numbered log promises its callers, without saying how.           *)
(*                                                                         *)
(* Every call gets the next number.  A number is settled once: its line is *)
(* written, or it is lost.  A line that does not follow the number of the  *)
(* line before it carries an alarm, so that a reader of the file can tell  *)
(* where something is missing or out of order.                             *)
(***************************************************************************)
EXTENDS Integers, Sequences

CONSTANT MaxMessages                  \* bound on the calls of a behaviour

VARIABLES
    issued,                           \* numbers given out so far
    pending,                          \* called, neither written nor lost
    lines,                            \* the file: [seq, alarm] records
    lost                              \* numbers that will never be written

vars == <<issued, pending, lines, lost>>

Init ==
    /\ issued = 0
    /\ pending = {}
    /\ lines = <<>>
    /\ lost = {}

\* The number a reader of the file expects next.
Expected == IF lines = <<>> THEN 0 ELSE lines[Len(lines)].seq + 1

Call ==
    /\ issued < MaxMessages
    /\ issued' = issued + 1
    /\ pending' = pending \union {issued}
    /\ UNCHANGED <<lines, lost>>

Write(n) ==
    /\ pending' = pending \ {n}
    /\ lines' = Append(lines, [seq |-> n, alarm |-> n # Expected])
    /\ UNCHANGED <<issued, lost>>

Lose(n) ==
    /\ pending' = pending \ {n}
    /\ lost' = lost \union {n}
    /\ UNCHANGED <<issued, lines>>

Next == Call \/ \E n \in pending : Write(n) \/ Lose(n)

Spec == Init /\ [][Next]_vars
=============================================================================
