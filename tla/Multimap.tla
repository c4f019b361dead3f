------------------------------- MODULE Multimap -------------------------------
(***************************************************************************)
(* A std::multimap by time, as the scheduler and the replayer use it: the  *)
(* sequence of its entries in the order of their keys, which are their     *)
(* times.  Entries with the same key stay in the order of their insertion. *)
(***************************************************************************)
EXTENDS Naturals, Sequences, SequencesExt

\* The place of the first entry that is later, or the end.
UpperBound(seq, time) ==
    CHOOSE p \in 1 .. Len(seq) + 1 :
        /\ \A k \in 1 .. p - 1 : seq[k].time <= time
        /\ p <= Len(seq) => seq[p].time > time

Emplace(seq, entry) == InsertAt(seq, UpperBound(seq, entry.time), entry)

IsOrdered(seq) == \A j, k \in DOMAIN seq : j < k => seq[j].time <= seq[k].time
=============================================================================
