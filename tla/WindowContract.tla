--------------------------- MODULE WindowContract ---------------------------
(***************************************************************************)
(* What a sliding window of Werk/Utility promises: a queue of the latest   *)
(* samples, at most Size of them.  To slide to a time drops the samples    *)
(* that are older than the duration, and no other.                         *)
(***************************************************************************)
EXTENDS Integers, Sequences

CONSTANTS Size, Duration, Value

VARIABLES
    now,                        \* the time, which never decreases
    slid,                       \* when it was last slid to the current time
    samples                     \* times and values, the oldest first

Init == now = 0 /\ slid = 0 /\ samples = <<>>

Tick == now' = now + 1 /\ UNCHANGED <<slid, samples>>

\* The oldest one makes room.
Sample ==
    /\ \E value \in Value :
         samples' = Append(IF Len(samples) = Size THEN Tail(samples) ELSE samples,
                           [time |-> now, value |-> value])
    /\ UNCHANGED <<now, slid>>

\* The samples are in the order of their times: those that go are the first ones.
Slide ==
    /\ \E gone \in 0 .. Len(samples) :
         /\ samples' = SubSeq(samples, gone + 1, Len(samples))
         /\ \A k \in 1 .. Len(samples) : now - samples[k].time > Duration <=> k <= gone
    /\ slid' = now
    /\ UNCHANGED now

SlideOne ==
    /\ samples # <<>>
    /\ samples' = Tail(samples)
    /\ UNCHANGED <<now, slid>>

Reset == samples' = <<>> /\ UNCHANGED <<now, slid>>

Next == Tick \/ Sample \/ Slide \/ SlideOne \/ Reset

Spec == Init /\ [][Next]_<<now, slid, samples>>
=============================================================================
