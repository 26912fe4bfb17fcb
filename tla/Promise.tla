------------------------------- MODULE Promise -------------------------------
(***************************************************************************)
(* gst/gst_promise.go: a Go wrapper of a GstPromise that can be awaited    *)
(* without blocking a thread.                                              *)
(*                                                                         *)
(* NewPromise gives C a change function that closes a Go channel.          *)
(* Await waits for the channel or for its context, then asks C for the     *)
(* result and wraps the reply, which stays owned by the promise: the       *)
(* wrapper of the reply keeps the wrapper of the promise alive.            *)
(* Producers settle the promise from any thread: through a reference of    *)
(* their own (a promise marshalled through a GValue), or, the sharers,     *)
(* through NewPromise's wrapper. Reply, Interrupt and Expire of the        *)
(* bindings do not keep the wrapper they are called on alive, so the       *)
(* finalizer of a bare caller, which does not use its wrapper after the    *)
(* call, can release its reference while C is in the call.                 *)
(*                                                                         *)
(* External parts: the C promise (reply, interrupt and expire are atomic   *)
(* under its lock and act in PENDING only, the change function runs after  *)
(* the lock is released, an interrupted promise frees a late reply, the    *)
(* last unref frees the reply and runs the notify), C's refusal to free a  *)
(* structure that has a parent, and the garbage collector.                 *)
(***************************************************************************)
EXTENDS Integers

CONSTANTS
    Awaiters,     \* goroutines that call Await
    Producers,    \* threads that settle the promise
    Structs,      \* structures used as replies
    None,         \* no structure
    GoAnswers,    \* the structures the application makes with NewStructure
    Sharers,      \* the producers that call through NewPromise's wrapper
    Bare          \* the producers in Go whose call is the last use of theirs

ASSUME PromiseAssumption ==
    /\ None \notin Structs
    /\ GoAnswers \subseteq Structs
    /\ Sharers \subseteq Producers
    /\ Bare \subseteq Producers

VARIABLES
    result,       \* GST_PROMISE_RESULT
    reply,        \* the structure in the C promise
    done,         \* "open", "closed" or "panicked" (closed twice)
    handle,       \* the gopointer of the closure is saved
    alive,        \* the C promise is not freed
    wrapper,      \* "held" by the application, "dropped", or "collected"
    pc,           \* [awaiter -> where it is in Await]
    canceled,     \* the awaiters whose context is done
    got,          \* [awaiter -> what Await returned]
    keeps,        \* the awaiters that still hold the wrapper of their reply
    pp,           \* [producer -> where it is]
    refs,         \* the producers that have a reference to the C promise
    wrapped,      \* structures whose Go wrapper has Free as finalizer
    parented,     \* structures with the promise as parent
    frees         \* [structure -> how often it was freed]

vars == <<result, reply, done, handle, alive, wrapper, pc, canceled, got,
          keeps, pp, refs, wrapped, parented, frees>>

awaiting == <<pc, canceled, got, keeps>>

F == INSTANCE Future WITH value <- <<result, reply>>

-----------------------------------------------------------------------------
\* Producers whose call on the promise has not ended.
Using == {q \in Producers : pp[q] \in {"holding", "notify", "acted"}}

\* gst_structure_free: refused for a structure that has a parent.
Free(s, parents) == [frees EXCEPT ![s] = IF s \in parents THEN @ ELSE @ + 1]

\* Fault: the destroy notify is not passed to C.
Unref_KeepsClosure(last) ==
    IF last
      THEN /\ alive' = FALSE
           /\ parented' = parented \ {reply}
           /\ frees' = IF reply = None THEN frees ELSE Free(reply, {})
           /\ UNCHANGED handle
      ELSE UNCHANGED <<alive, handle, parented, frees>>

\* The promise is freed when the reference that goes is the last one: the
\* notify releases the closure, the reply loses its parent and is freed.
Unref(last) ==
    IF last
      THEN /\ alive' = FALSE
           /\ handle' = FALSE
           /\ parented' = parented \ {reply}
           /\ frees' = IF reply = None THEN frees ELSE Free(reply, {})
      ELSE UNCHANGED <<alive, handle, parented, frees>>

-----------------------------------------------------------------------------
\* NewPromise has returned: the channel is open and the wrapper has a
\* finalizer.
Init ==
    /\ result = "PENDING"
    /\ reply = None
    /\ done = "open"
    /\ handle = TRUE
    /\ alive = TRUE
    /\ wrapper = "held"
    /\ pc = [a \in Awaiters |-> "idle"]
    /\ canceled = {}
    /\ got = [a \in Awaiters |-> F!Nothing]
    /\ keeps = {}
    /\ pp = [q \in Producers |-> "none"]
    /\ refs = {}
    /\ wrapped = {}
    /\ parented = {}
    /\ frees = [s \in Structs |-> 0]

\* A goroutine that has the wrapper calls Await.
Await(a) ==
    /\ wrapper = "held"
    /\ pc[a] = "idle"
    /\ pc' = [pc EXCEPT ![a] = "select"]
    /\ UNCHANGED <<result, reply, done, handle, alive, wrapper, canceled, got,
                   keeps, pp, refs, wrapped, parented, frees>>

\* The context of an awaiter is cancelled or its deadline passes.
CancelContext(a) ==
    /\ a \notin canceled
    /\ canceled' = canceled \cup {a}
    /\ UNCHANGED <<result, reply, done, handle, alive, wrapper, pc, got, keeps,
                   pp, refs, wrapped, parented, frees>>

\* The select takes <-ctx.Done(): Await returns ctx.Err().
SelectContext(a) ==
    /\ pc[a] = "select"
    /\ a \in canceled
    /\ pc' = [pc EXCEPT ![a] = "returned"]
    /\ got' = [got EXCEPT ![a] = F!Canceled]
    /\ UNCHANGED <<result, reply, done, handle, alive, wrapper, canceled, keeps,
                   pp, refs, wrapped, parented, frees>>

\* Fault: the select has a default case.
SelectDone_Polls(a) ==
    /\ pc[a] = "select"
    /\ pc' = [pc EXCEPT ![a] = "wait"]
    /\ UNCHANGED <<result, reply, done, handle, alive, wrapper, canceled, got,
                   keeps, pp, refs, wrapped, parented, frees>>

\* Fault: the change function sends one value instead of closing the channel.
SelectDone_Consumes(a) ==
    /\ pc[a] = "select"
    /\ done = "closed"
    /\ done' = "open"
    /\ pc' = [pc EXCEPT ![a] = "wait"]
    /\ UNCHANGED <<result, reply, handle, alive, wrapper, canceled, got,
                   keeps, pp, refs, wrapped, parented, frees>>

\* The select takes <-p.done.
SelectDone(a) ==
    /\ pc[a] = "select"
    /\ done = "closed"
    /\ pc' = [pc EXCEPT ![a] = "wait"]
    /\ UNCHANGED <<result, reply, done, handle, alive, wrapper, canceled, got,
                   keeps, pp, refs, wrapped, parented, frees>>

\* Fault: the result is not looked at, a missing reply is reported as such.
WaitOther_NotChecked(a) ==
    /\ pc[a] = "wait"
    /\ result \in {"INTERRUPTED", "EXPIRED"}
    /\ pc' = [pc EXCEPT ![a] = "returned"]
    /\ got' = [got EXCEPT ![a] = <<"REPLIED", None>>]
    /\ UNCHANGED <<result, reply, done, handle, alive, wrapper, canceled, keeps,
                   pp, refs, wrapped, parented, frees>>

\* gst_promise_wait returns; a promise that was not replied is an error.
WaitOther(a) ==
    /\ pc[a] = "wait"
    /\ result \in {"INTERRUPTED", "EXPIRED"}
    /\ pc' = [pc EXCEPT ![a] = "returned"]
    /\ got' = [got EXCEPT ![a] = <<result, None>>]
    /\ UNCHANGED <<result, reply, done, handle, alive, wrapper, canceled, keeps,
                   pp, refs, wrapped, parented, frees>>

WaitReplied(a) ==
    /\ pc[a] = "wait"
    /\ result = "REPLIED"
    /\ pc' = [pc EXCEPT ![a] = "reply"]
    /\ UNCHANGED <<result, reply, done, handle, alive, wrapper, canceled, got,
                   keeps, pp, refs, wrapped, parented, frees>>

\* Fault: the reply is wrapped as if the caller owned it.
GetReply_Full(a) ==
    /\ pc[a] = "reply"
    /\ pc' = [pc EXCEPT ![a] = "returned"]
    /\ got' = [got EXCEPT ![a] = <<"REPLIED", reply>>]
    /\ keeps' = IF reply = None THEN keeps ELSE keeps \cup {a}
    /\ wrapped' = wrapped \cup ({reply} \ {None})
    /\ UNCHANGED <<result, reply, done, handle, alive, wrapper, canceled, pp,
                   refs, parented, frees>>

\* GetReply: a nil reply becomes ErrNilPromiseReply, another one is wrapped
\* and keeps the promise alive.
GetReply(a) ==
    /\ pc[a] = "reply"
    /\ pc' = [pc EXCEPT ![a] = "returned"]
    /\ got' = [got EXCEPT ![a] = <<"REPLIED", reply>>]
    /\ keeps' = IF reply = None THEN keeps ELSE keeps \cup {a}
    /\ UNCHANGED <<result, reply, done, handle, alive, wrapper, canceled, pp,
                   refs, wrapped, parented, frees>>

\* The wrapper of a reply is collected: its finalizer lets the promise go.
DropReply(a) ==
    /\ a \in keeps
    /\ keeps' = keeps \ {a}
    /\ UNCHANGED <<result, reply, done, handle, alive, wrapper, pc, canceled,
                   got, pp, refs, wrapped, parented, frees>>

-----------------------------------------------------------------------------
\* The application forgets the promise.
DropWrapper ==
    /\ wrapper = "held"
    /\ wrapper' = "dropped"
    /\ UNCHANGED <<result, reply, done, handle, alive, awaiting, pp, refs,
                   wrapped, parented, frees>>

\* No goroutine uses NewPromise's wrapper again: an await does until it has
\* returned, a sharer does after its call unless it is bare.
Unused ==
    /\ \A a \in Awaiters : pc[a] \in {"idle", "returned"}
    /\ Using \cap (Sharers \ Bare) = {}

\* Fault: the wrapper of a reply does not keep the promise alive.
Finalize_IgnoresReplies ==
    /\ wrapper = "dropped"
    /\ Unused
    /\ wrapper' = "collected"
    /\ Unref(refs = {})
    /\ UNCHANGED <<result, reply, done, awaiting, pp, refs, wrapped>>

\* Fault: producers get the promise without a reference.
Finalize_TheOnlyReference ==
    /\ wrapper = "dropped"
    /\ Unused
    /\ keeps = {}
    /\ wrapper' = "collected"
    /\ Unref(TRUE)
    /\ UNCHANGED <<result, reply, done, awaiting, pp, refs, wrapped>>

\* Nothing refers to the wrapper any more: its finalizer unrefs the promise.
Finalize ==
    /\ wrapper = "dropped"
    /\ Unused
    /\ keeps = {}
    /\ wrapper' = "collected"
    /\ Unref(refs = {})
    /\ UNCHANGED <<result, reply, done, awaiting, pp, refs, wrapped>>

\* A producer gets the promise: a sharer the wrapper of NewPromise, the others
\* a reference of their own (ToGValue and marshalPromise). A bare one enters
\* the C function at once, from there on its wrapper can be collected.
Take(q) ==
    /\ pp[q] = "none"
    /\ wrapper = "held"
    /\ pp' = [pp EXCEPT ![q] = "holding"]
    /\ refs' = refs \cup ({q} \ Sharers)
    /\ UNCHANGED <<result, reply, done, handle, alive, wrapper, awaiting,
                   wrapped, parented, frees>>

\* The finalizer of marshalPromise's wrapper runs during the call of its caller.
Collect(q) ==
    /\ q \in Bare \cap refs
    /\ pp[q] \in {"holding", "notify"}
    /\ refs' = refs \ {q}
    /\ Unref(refs = {q} /\ wrapper = "collected")
    /\ UNCHANGED <<result, reply, done, wrapper, awaiting, pp, wrapped>>

\* The call of a bare caller is at work on a promise that was freed under it:
\* C locks freed memory, or the change function restores a closure that is not
\* saved any more. Whatever comes of it, the call is not followed any further.
Stray(q) ==
    /\ q \in Bare
    /\ pp[q] \in {"holding", "notify"}
    /\ ~alive
    /\ pp' = [pp EXCEPT ![q] = "stray"]
    /\ UNCHANGED <<result, reply, done, handle, alive, wrapper, awaiting, refs,
                   wrapped, parented, frees>>

\* A producer in a call that has not taken the lock of the promise yet.
Calling(q) == pp[q] = "holding" /\ (q \in Bare => alive)

\* The promise leaves PENDING; the change function is still to be called.
Settle(q, r, s) ==
    /\ result' = r
    /\ reply' = s
    /\ parented' = IF s = None THEN parented ELSE parented \cup {s}
    /\ pp' = [pp EXCEPT ![q] = "notify"]
    /\ UNCHANGED frees

\* A call that finds the promise settled changes nothing, but a reply to an
\* interrupted promise frees the structure.
Late(q, s) ==
    /\ result # "PENDING"
    /\ pp' = [pp EXCEPT ![q] = "acted"]
    /\ frees' = IF result = "INTERRUPTED" /\ s # None THEN Free(s, parented)
                ELSE frees
    /\ UNCHANGED <<result, reply, parented>>

\* Fault: Interrupt closes the channel itself, next to the change function.
Interrupt_Closes(q) ==
    /\ Calling(q)
    /\ \/ result = "PENDING" /\ Settle(q, "INTERRUPTED", None)
       \/ Late(q, None)
    /\ done' = IF done = "open" THEN "closed" ELSE "panicked"
    /\ UNCHANGED <<handle, alive, wrapper, awaiting, refs, wrapped>>

\* Interrupt and Expire.
Interrupt(q) ==
    /\ Calling(q)
    /\ \/ result = "PENDING" /\ Settle(q, "INTERRUPTED", None)
       \/ Late(q, None)
    /\ UNCHANGED <<done, handle, alive, wrapper, awaiting, refs, wrapped>>

Expire(q) ==
    /\ Calling(q)
    /\ \/ result = "PENDING" /\ Settle(q, "EXPIRED", None)
       \/ Late(q, None)
    /\ UNCHANGED <<done, handle, alive, wrapper, awaiting, refs, wrapped>>

\* Reply with a structure C made itself, or with NULL.
ReplyFromC(q, s) ==
    /\ Calling(q) /\ q \notin Bare
    /\ s # None => s \notin GoAnswers \cup wrapped \cup parented /\ frees[s] = 0
    /\ \/ result = "PENDING" /\ Settle(q, "REPLIED", s)
       \/ Late(q, s)
    /\ UNCHANGED <<done, handle, alive, wrapper, awaiting, refs, wrapped>>

\* NewStructure: the wrapper's finalizer is Free.
NewStructure(s) ==
    /\ s \in GoAnswers
    /\ s \notin wrapped \cup parented
    /\ frees[s] = 0
    /\ wrapped' = wrapped \cup {s}
    /\ UNCHANGED <<result, reply, done, handle, alive, wrapper, awaiting, pp,
                   refs, parented, frees>>

\* Promise.Reply(answer): C takes the structure, the wrapper keeps its
\* finalizer. An answer that is collected between the call and the lock is not
\* followed.
Reply(q, s) ==
    /\ Calling(q)
    /\ s \in wrapped
    /\ \/ result = "PENDING" /\ Settle(q, "REPLIED", s)
       \/ Late(q, s)
    /\ UNCHANGED <<done, handle, alive, wrapper, awaiting, refs, wrapped>>

\* The wrapper of an answer is collected: its finalizer frees the structure.
CollectAnswer(s) ==
    /\ s \in wrapped
    /\ wrapped' = wrapped \ {s}
    /\ frees' = Free(s, parented)
    /\ UNCHANGED <<result, reply, done, handle, alive, wrapper, awaiting, pp,
                   refs, parented>>

\* goPromiseChangeFunc restores the closure, which closes the channel.
ChangeFunc(q) ==
    /\ pp[q] = "notify" /\ (q \in Bare => alive)
    /\ done' = IF done = "open" /\ handle THEN "closed" ELSE "panicked"
    /\ pp' = [pp EXCEPT ![q] = "acted"]
    /\ UNCHANGED <<result, reply, handle, alive, wrapper, awaiting, refs,
                   wrapped, parented, frees>>

\* The producer is done and releases the reference it still has. A bare one
\* that has entered C comes out after the call only.
Release(q) ==
    /\ pp[q] \in {"holding", "acted"}
    /\ pp[q] = "holding" => q \notin Bare
    /\ pp' = [pp EXCEPT ![q] = "gone"]
    /\ refs' = refs \ {q}
    /\ Unref(refs = {q} /\ wrapper = "collected")
    /\ UNCHANGED <<result, reply, done, wrapper, awaiting, wrapped>>

AwaiterStep(a) ==
    SelectContext(a) \/ SelectDone(a) \/ WaitOther(a) \/ WaitReplied(a)
    \/ GetReply(a)

ProducerStep(q) ==
    \/ Interrupt(q) \/ Expire(q)
    \/ \E s \in Structs : Reply(q, s)
    \/ \E s \in Structs \cup {None} : ReplyFromC(q, s)
    \/ ChangeFunc(q) \/ Release(q) \/ Collect(q) \/ Stray(q)

Next ==
    \/ \E a \in Awaiters :
         Await(a) \/ CancelContext(a) \/ AwaiterStep(a) \/ DropReply(a)
    \/ DropWrapper \/ Finalize
    \/ \E q \in Producers : Take(q) \/ ProducerStep(q)
    \/ \E s \in Structs : NewStructure(s) \/ CollectAnswer(s)

Spec == Init /\ [][Next]_vars

\* Goroutines in Await run on, C calls the change function it owes, and the
\* garbage collector runs the finalizers of what is unreachable.
FairSpec ==
    /\ Spec
    /\ \A a \in Awaiters : WF_vars(AwaiterStep(a))
    /\ \A q \in Producers : WF_vars(ChangeFunc(q)) /\ WF_vars(Release(q))
    /\ WF_vars(Finalize)

-----------------------------------------------------------------------------
TypeOK ==
    /\ result \in {"PENDING", "REPLIED", "INTERRUPTED", "EXPIRED"}
    /\ reply \in Structs \cup {None}
    /\ done \in {"open", "closed", "panicked"}
    /\ handle \in BOOLEAN
    /\ alive \in BOOLEAN
    /\ wrapper \in {"held", "dropped", "collected"}
    /\ pc \in [Awaiters -> {"idle", "select", "wait", "reply", "returned"}]
    /\ canceled \subseteq Awaiters
    /\ got \in [Awaiters -> F!Settled \cup {F!Nothing, F!Canceled}]
    /\ keeps \subseteq Awaiters
    /\ pp \in [Producers -> {"none", "holding", "notify", "acted", "gone", "stray"}]
    /\ refs \subseteq Producers
    /\ wrapped \subseteq Structs
    /\ parented \subseteq Structs
    /\ frees \in [Structs -> Nat]

\* The channel is closed once, however many producers race
\* (gst_promise.go:68-70), and the change function of every caller that is not
\* stray finds its closure saved.
NeverPanics == done # "panicked"

\* An awaiter that has seen the channel closed never blocks in
\* gst_promise_wait: "the promise has already changed state"
\* (gst_promise.go:133).
WaitNeverBlocks == \A a \in Awaiters : pc[a] = "wait" => result # "PENDING"

\* Nobody uses the C promise after it was freed: neither an awaiter, nor the
\* holder of a reference or of the wrapper, nor the call and the change function
\* of a producer. The one exception is a bare caller, whose wrapper nothing keeps
\* alive during the call (gst_promise.go:168-181): it finds the promise freed
\* when its finalizer has run and no other reference is left.
InUseAlive ==
    (\/ \E a \in Awaiters : pc[a] \notin {"idle", "returned"}
     \/ Using \ Bare # {}
     \/ refs # {}
     \/ wrapper # "collected") => alive /\ handle

\* Not even a bare caller does.
NobodyStrays == \A q \in Producers : pp[q] # "stray"

\* A reply can be read as long as its wrapper lives: "the structure is owned
\* by the promise, so we keep the promise alive" (gst_promise.go:159).
ReplyAccessible ==
    \A a \in keeps :
        got[a][2] \in Structs /\ (got[a][2] \notin GoAnswers => frees[got[a][2]] = 0)

\* A reply made by C is freed once, however late it comes and whoever is still
\* reading it.
FreedOnce == \A s \in Structs \ GoAnswers : frees[s] <= 1

\* Neither is an answer made by the application and given to Promise.Reply
\* freed twice.
AnswersFreedOnce == \A s \in GoAnswers : frees[s] <= 1

\* When nobody refers to the promise it is freed, and so is its reply.
NoLeak ==
    wrapper = "collected" /\ refs = {} =>
        ~alive /\ ~handle /\ (reply # None => frees[reply] > 0)

\* Awaiters see a cell that is written once (module Future): all that are not
\* cancelled return the same result and reply.
ImplementsFuture == F!Spec

\* An await of a settled promise returns.
AwaitReturns ==
    \A a \in Awaiters :
        pc[a] = "select" /\ result # "PENDING" ~> pc[a] = "returned"

=============================================================================
