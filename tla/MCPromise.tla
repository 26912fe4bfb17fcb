----------------------------- MODULE MCPromise -----------------------------
(***************************************************************************)
(* Small instances of Promise for TLC.                                     *)
(***************************************************************************)
EXTENDS Promise, TLC

CONSTANTS a1, a2, q1, q2, q3, s1, s2, s3

MCSymmetry ==
    Permutations(Awaiters) \cup Permutations(Producers) \cup Permutations(Structs)
=============================================================================
