---------------------------- MODULE MCOwnership ----------------------------
(***************************************************************************)
(* Small instances of Ownership for TLC.                                   *)
(***************************************************************************)
EXTENDS Ownership, TLC

CONSTANTS o1, o2, t1, t2

MCSymmetry == Permutations(Threads)

\* The callbacks whose references are balanced, and one unbalanced operation
\* with them, or all.
MCBalanced == {"lend", "probe", "collect", "event", "sink"}
MCChain    == [o \in Objects |-> MCBalanced \cup {"chain"}]
MCFixate   == [o \in Objects |-> MCBalanced \cup {"fixate"}]
MCWritable == [o \in Objects |-> MCBalanced \cup {"writable"}]
MCFilled   == [o \in Objects |-> MCBalanced \cup {"filled"}]

\* A balanced object beside one everything is done with.
MCMixed ==
    [o \in Objects |->
        IF o = o1 THEN MCBalanced ELSE Trampolines \cup Unbalanced]
=============================================================================
