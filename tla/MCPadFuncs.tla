----------------------------- MODULE MCPadFuncs -----------------------------
(***************************************************************************)
(* Small instances of PadFuncs for TLC.                                    *)
(***************************************************************************)
EXTENDS PadFuncs, TLC

CONSTANTS p1, p2, k1, k2, f1, f2, i1, i2, i3, i4, t1, t2

MCSymmetry ==
    Permutations(Infos) \cup Permutations(Threads) \cup Permutations(Pads)
    \cup Permutations(Funcs)
=============================================================================
