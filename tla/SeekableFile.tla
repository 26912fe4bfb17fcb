---------------------------- MODULE SeekableFile ----------------------------
(***************************************************************************)
(* What a seekable writer promises: bytes are written at a position,       *)
(* closing publishes what was written.  An operation that fails may have   *)
(* written a first part of its data; a failed close publishes nothing or,  *)
(* when only the clean-up failed, everything.                              *)
(***************************************************************************)
EXTENDS Naturals, Sequences

CONSTANTS
    MaxSize,      \* bound on the size of the file
    Values,       \* bytes that are written
    Lengths,      \* lengths of writes
    NoObject      \* nothing was published

VARIABLES
    data,         \* [position -> byte], 0 where nothing was written
    size,         \* end of the file
    pos,          \* where the next write goes
    object        \* what was published

vars == <<data, size, pos, object>>

Positions == 0 .. MaxSize - 1

Init ==
    /\ data = [i \in Positions |-> 0]
    /\ size = 0 /\ pos = 0 /\ object = NoObject

\* The first k of n bytes v.
Write(n, v) == \E k \in 0 .. n :
    /\ data' = [i \in Positions |-> IF i \in pos .. pos + k - 1 THEN v ELSE data[i]]
    /\ size' = IF k > 0 /\ pos + k > size THEN pos + k ELSE size
    /\ pos' = pos + k
    /\ UNCHANGED object

Seek(p) == pos' = p /\ UNCHANGED <<data, size, object>>

Bytes == [i \in 1 .. size |-> data[i - 1]]

\* The file is gone once it is published.
Close ==
    /\ size > 0
    /\ object' = Bytes
    /\ data' = [i \in Positions |-> 0]
    /\ size' = 0
    /\ UNCHANGED pos

Next ==
    \/ \E n \in Lengths, v \in Values : Write(n, v)
    \/ \E p \in 0 .. MaxSize : Seek(p)
    \/ Close

Spec == Init /\ [][Next]_vars
=============================================================================
