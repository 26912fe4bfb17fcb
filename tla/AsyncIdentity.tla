--------------------------- MODULE AsyncIdentity ---------------------------
(***************************************************************************)
(* The state changes of the asyncidentity element: going between PAUSED and *)
(* PLAYING is announced as asynchronous and a goroutine ends it after the   *)
(* delay; the other changes ask the flag asyncPending whether one is under  *)
(* way ("check against forcing state change").                              *)
(*                                                                         *)
(* External parts: GstElement, which makes one change at a time (it holds   *)
(* its state lock), each from the state the last one led to, and asks for   *)
(* neither more nor less than one step between NULL and PLAYING.  An        *)
(* application may ask for the next change before the last one has ended.   *)
(* The delay is a property; it only says how long a goroutine waits.        *)
(***************************************************************************)
EXTENDS Integers, FiniteSets

CONSTANTS
    Goroutines,   \* names for the goroutines of asyncStateChange
    Patient,      \* the application waits for ASYNC_DONE before it goes on
    MaxChanges,   \* bound on the state changes
    None

ASSUME AsyncIdentityAssumption ==
    /\ Patient \in BOOLEAN
    /\ MaxChanges \in Nat

States == {"NULL", "READY", "PAUSED", "PLAYING"}

Transitions ==
    {<<"NULL", "READY">>, <<"READY", "PAUSED">>, <<"PAUSED", "PLAYING">>,
     <<"PLAYING", "PAUSED">>, <<"PAUSED", "READY">>, <<"READY", "NULL">>}

VARIABLES
    state,         \* what the last change led to
    change,        \* the transition ChangeState is working on, or None
    asyncPending,
    pc,            \* [goroutine -> "none", "spawned", "waiting" or "posted"]
    messages,      \* ASYNC_START and ASYNC_DONE messages posted: a pair
    last,          \* the last transition and what ChangeState returned
    changes

vars == <<state, change, asyncPending, pc, messages, last, changes>>

\* Goroutines that have not ended.
Running == {g \in Goroutines : pc[g] # "none"}

\* Goroutines that are still to post ASYNC_DONE.
Owing == {g \in Goroutines : pc[g] \in {"spawned", "waiting"}}

Init ==
    /\ state = "NULL"
    /\ change = None
    /\ asyncPending = FALSE
    /\ pc = [g \in Goroutines |-> "none"]
    /\ messages = [start |-> 0, done |-> 0]
    /\ last = [of |-> None, ret |-> "SUCCESS"]
    /\ changes = 0

-----------------------------------------------------------------------------
\* ChangeState up to the return of ParentChangeState: when that fails the state
\* stays.
ParentChangeState(t) ==
    /\ change = None
    /\ changes < MaxChanges
    /\ t[1] = state
    /\ Patient => messages.start = messages.done
    /\ changes' = changes + 1
    /\ \/ change' = t /\ UNCHANGED last
       \/ last' = [of |-> t, ret |-> "FAILURE"] /\ UNCHANGED change
    /\ UNCHANGED <<state, asyncPending, pc, messages>>

\* ChangeState returns ret and the element goes on from the next state.
Returns(ret) ==
    /\ last' = [of |-> change, ret |-> ret]
    /\ state' = change[2]
    /\ change' = None
    /\ UNCHANGED changes

\* READY to PAUSED: "async will be ignored due to no_preroll".
NoPreroll ==
    /\ change = <<"READY", "PAUSED">>
    /\ Returns("NO_PREROLL")
    /\ UNCHANGED <<asyncPending, pc, messages>>

\* asyncStateChange, between PAUSED and PLAYING: ASYNC_START is posted, and the
\* goroutine has not run when ChangeState returns.
AsyncStateChange(g) ==
    /\ change \in {<<"PAUSED", "PLAYING">>, <<"PLAYING", "PAUSED">>}
    /\ pc[g] = "none"
    /\ pc' = [pc EXCEPT ![g] = "spawned"]
    /\ messages' = [messages EXCEPT !.start = @ + 1]
    /\ Returns("ASYNC")
    /\ UNCHANGED asyncPending

\* The other transitions: "check against forcing state change".
CheckForced ==
    /\ change \in {<<"NULL", "READY">>, <<"PAUSED", "READY">>, <<"READY", "NULL">>}
    /\ Returns(IF asyncPending THEN "ASYNC" ELSE "SUCCESS")
    /\ UNCHANGED <<asyncPending, pc, messages>>

\* The goroutine begins: asyncPending.Store(true).
Begin(g) ==
    /\ pc[g] = "spawned"
    /\ asyncPending' = TRUE
    /\ pc' = [pc EXCEPT ![g] = "waiting"]
    /\ UNCHANGED <<state, change, messages, last, changes>>

\* Fault: the goroutine leaves when it finds that another one has ended.
PostDone_OnlyOnce(g) ==
    /\ pc[g] = "waiting"
    /\ pc' = [pc EXCEPT ![g] = "posted"]
    /\ messages' = [messages EXCEPT !.done = IF asyncPending THEN @ + 1 ELSE @]
    /\ UNCHANGED <<state, change, asyncPending, last, changes>>

\* The delay is over: ASYNC_DONE is posted.
PostDone(g) ==
    /\ pc[g] = "waiting"
    /\ pc' = [pc EXCEPT ![g] = "posted"]
    /\ messages' = [messages EXCEPT !.done = @ + 1]
    /\ UNCHANGED <<state, change, asyncPending, last, changes>>

\* Fault: the flag stays when the element was stopped in the meantime.
End_Forgets(g) ==
    /\ pc[g] = "posted"
    /\ asyncPending' = (asyncPending /\ state = "NULL")
    /\ pc' = [pc EXCEPT ![g] = "none"]
    /\ UNCHANGED <<state, change, messages, last, changes>>

\* asyncPending.Store(false), the last thing the goroutine does.
End(g) ==
    /\ pc[g] = "posted"
    /\ asyncPending' = FALSE
    /\ pc' = [pc EXCEPT ![g] = "none"]
    /\ UNCHANGED <<state, change, messages, last, changes>>

-----------------------------------------------------------------------------
ChangeState == NoPreroll \/ CheckForced \/ \E g \in Goroutines : AsyncStateChange(g)

Goroutine(g) == Begin(g) \/ PostDone(g) \/ End(g)

Next ==
    \/ \E t \in Transitions : ParentChangeState(t)
    \/ ChangeState
    \/ \E g \in Goroutines : Goroutine(g)

Spec == Init /\ [][Next]_vars

\* A change that was begun goes on; goroutines run, and their timers fire.
FairSpec ==
    /\ Spec
    /\ WF_vars(ChangeState)
    /\ \A g \in Goroutines : WF_vars(Goroutine(g))

-----------------------------------------------------------------------------
TypeOK ==
    /\ state \in States
    /\ change \in Transitions \cup {None}
    /\ asyncPending \in BOOLEAN
    /\ pc \in [Goroutines -> {"none", "spawned", "waiting", "posted"}]
    /\ messages \in [start : Nat, done : Nat]
    /\ last.of \in Transitions \cup {None}
    /\ last.ret \in {"SUCCESS", "ASYNC", "NO_PREROLL", "FAILURE"}
    /\ changes \in 0..MaxChanges

\* However changes overlap and goroutines overtake each other, the flag is not
\* left behind by the last of them, so it cannot make later changes of an idle
\* element asynchronous; and it is the goroutines that are still to post that
\* make up the difference between the messages.
FlagHasOwner ==
    /\ asyncPending => Running # {}
    /\ messages.start = messages.done + Cardinality(Owing)

\* Every ASYNC_START is followed by its ASYNC_DONE, also when the element has
\* been stopped in the meantime: a bin that waits for it goes on.
StartsAreEnded == []<>(messages.start = messages.done)

\* A change that is forced while ASYNC_DONE is still to come does not return
\* success (asyncidentity.go:213).
ForcedIsAsync ==
    [][CheckForced /\ last'.ret = "SUCCESS" => Owing = {}]_vars

\* A forced change that returns ASYNC is ended by an ASYNC_DONE: nobody is told
\* to wait for a message that was posted already.
AsyncIsEnded ==
    [][CheckForced /\ last'.ret = "ASYNC" => Owing # {}]_vars

=============================================================================
