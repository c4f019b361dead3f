------------------------------ MODULE Arithmetic ------------------------------
(***************************************************************************)
(* Sums and powers, as operators on functions and numbers that proofs can  *)
(* be given about: TLAPS knows no power.                                   *)
(***************************************************************************)
EXTENDS Integers, FiniteSetsExt

\* The sum of f[x] for all x of S.
Total(f, S) == MapThenSumSet(LAMBDA x : f[x], S)

\* b to the power of n.
Power(b, n) ==
    LET power[k \in 0 .. n] == IF k = 0 THEN 1 ELSE b * power[k - 1] IN power[n]
=============================================================================
