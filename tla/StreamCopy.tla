----------------------------- MODULE StreamCopy -----------------------------
(***************************************************************************)
(* What a pipeline "filesrc ! filesink" promises: the copy is made of bytes *)
(* of the source in their order.  The order breaks only where somebody      *)
(* asked for it, by a seek or by starting the source again, or after an     *)
(* error; it is the abstract specification of FileCopy.                     *)
(***************************************************************************)
EXTENDS Integers, Sequences

CONSTANTS
    Files,
    MaxLength,   \* bound on the length of a file
    Nowhere      \* no file and no place in it

VARIABLES
    reading,   \* the file that is being copied, or Nowhere
    cursor,    \* the bytes of it before this one are behind us, or Nowhere
    asked,     \* how often a place to go on from was asked for
    copy       \* the bytes written

vars == <<reading, cursor, asked, copy>>

\* Bytes are told apart by their place: byte i of a file, from 0.
Bytes(f, from, n) == [i \in 1..n |-> <<f, from + i - 1>>]

Init ==
    /\ reading = Nowhere
    /\ cursor = Nowhere
    /\ asked = 0
    /\ copy = <<>>

\* The next bytes arrive.
Continue(n) ==
    /\ cursor # Nowhere
    /\ cursor + n <= MaxLength
    /\ copy' = copy \o Bytes(reading, cursor, n)
    /\ cursor' = cursor + n
    /\ UNCHANGED <<reading, asked>>

\* Some of the next bytes arrive and the stream breaks.
Break(n) ==
    /\ cursor # Nowhere
    /\ copy' = copy \o Bytes(reading, cursor, n)
    /\ cursor' = Nowhere
    /\ UNCHANGED <<reading, asked>>

\* A start of the source or a seek.
Ask ==
    /\ asked' = asked + 1
    /\ reading' \in Files
    /\ cursor' \in 0..MaxLength
    /\ UNCHANGED copy

\* The end of the file, an error or a stop of the source: nothing more arrives
\* until somebody asks.
End ==
    /\ cursor' = Nowhere
    /\ reading' \in {reading, Nowhere}
    /\ UNCHANGED <<asked, copy>>

Next ==
    \/ \E n \in 0..MaxLength : Continue(n) \/ Break(n)
    \/ Ask \/ End

Spec == Init /\ [][Next]_vars

=============================================================================
