---------------------------- MODULE MCSeekWriter ----------------------------
(***************************************************************************)
(* Small instances of SeekWriter for TLC.                                  *)
(***************************************************************************)
EXTENDS SeekWriter

MCValues == {1, 2}
MCLengths == {1, 3}
MCOneValue == {1}
=============================================================================
