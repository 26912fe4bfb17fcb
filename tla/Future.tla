------------------------------- MODULE Future -------------------------------
(***************************************************************************)
(* What gst.Promise promises to the goroutines that await it: a cell that  *)
(* is written once, with a result and possibly a reply.  An await returns  *)
(* what the cell holds, or that its own context was cancelled.             *)
(***************************************************************************)
CONSTANTS
    Awaiters,     \* goroutines in Promise.Await
    Structs,      \* reply structures
    None          \* no structure

Pending  == <<"PENDING", None>>
Nothing  == <<"nothing", None>>
Canceled == <<"canceled", None>>
Settled  == ({"REPLIED"} \X (Structs \cup {None}))
              \cup ({"INTERRUPTED", "EXPIRED"} \X {None})

VARIABLES
    value,        \* the cell
    got           \* [awaiter -> what its await returned, Nothing before]

vars == <<value, got>>

Init ==
    /\ value = Pending
    /\ got = [a \in Awaiters |-> Nothing]

Settle(v) ==
    /\ value = Pending
    /\ value' = v
    /\ UNCHANGED got

Return(a) ==
    /\ value # Pending
    /\ got[a] = Nothing
    /\ got' = [got EXCEPT ![a] = value]
    /\ UNCHANGED value

Cancel(a) ==
    /\ got[a] = Nothing
    /\ got' = [got EXCEPT ![a] = Canceled]
    /\ UNCHANGED value

Next ==
    \/ \E v \in Settled : Settle(v)
    \/ \E a \in Awaiters : Return(a) \/ Cancel(a)

Spec == Init /\ [][Next]_vars
=============================================================================
