---------------------------- MODULE Promise_proof ----------------------------
(***************************************************************************)
(* Proofs about module Promise, for any awaiters, producers and            *)
(* structures, and whatever the application answers with.                  *)
(***************************************************************************)
EXTENDS Promise, TLAPS

\* Where a producer can be.
Points == {"none", "holding", "notify", "acted", "gone", "stray"}

-----------------------------------------------------------------------------
\* What the proofs need to know of the types.
Typed ==
    /\ result \in {"PENDING", "REPLIED", "INTERRUPTED", "EXPIRED"}
    /\ reply \in Structs \cup {None}
    /\ pc \in [Awaiters -> {"idle", "select", "wait", "reply", "returned"}]
    /\ keeps \subseteq Awaiters
    /\ got = [a \in Awaiters |-> got[a]]
    /\ pp \in [Producers -> Points]
    /\ refs \subseteq Producers
    /\ wrapped \subseteq GoAnswers
    /\ frees \in [Structs -> Nat]

\* Why the channel is closed once: the producer that settles the promise is the
\* only one that owes the change function, and owes it until the channel is
\* closed.
Channel ==
    /\ done \in {"open", "closed"}
    /\ result = "PENDING" => done = "open"
    /\ \A q \in Producers : pp[q] = "notify" => done = "open" /\ result # "PENDING"
    /\ \A q, r \in Producers : pp[q] = "notify" /\ pp[r] = "notify" => q = r

\* The promise and its closure live for as long as the Go wrapper or a producer
\* has a reference; goroutines in Await and wrappers of the reply keep the
\* wrapper. A caller that is not bare keeps what it calls through.
Referenced ==
    /\ alive <=> (wrapper # "collected" \/ refs # {})
    /\ handle <=> alive
    /\ \A a \in Awaiters : pc[a] \notin {"idle", "returned"} => wrapper # "collected"
    /\ keeps # {} => wrapper # "collected"
    /\ \A q \in Using \ Bare :
         IF q \in Sharers THEN wrapper # "collected" ELSE q \in refs

\* How far an awaiter is says what it knows of the cell.
Awaited ==
    /\ result # "REPLIED" => reply = None
    /\ \A a \in Awaiters :
         /\ pc[a] = "wait" => result # "PENDING"
         /\ pc[a] = "reply" => result = "REPLIED"
         /\ pc[a] # "returned" => got[a] = F!Nothing
    /\ \A a \in keeps : got[a] = <<"REPLIED", reply>> /\ reply # None

\* The reply has the promise as its parent until the promise is freed, and is
\* freed with it; no other structure has a parent.
Owned ==
    /\ parented = IF alive THEN {reply} \ {None} ELSE {}
    /\ ~alive /\ reply # None => frees[reply] > 0
    /\ \A s \in Structs \ GoAnswers :
         /\ frees[s] <= 1
         /\ alive /\ reply = s => frees[s] = 0

IInv == Typed /\ Channel /\ Referenced /\ Awaited /\ Owned

-----------------------------------------------------------------------------
LEMMA InitIInv == Init => IInv
  <1> SUFFICES ASSUME Init PROVE IInv
    OBVIOUS
  <1> USE PromiseAssumption DEF Init
  <1>1. Typed
    BY DEF Typed, Points
  <1>2. Channel /\ Referenced
    BY DEF Channel, Referenced, Using
  <1>3. Awaited /\ Owned
    BY DEF Awaited, Owned
  <1> QED
    BY <1>1, <1>2, <1>3 DEF IInv

\* A goroutine in Await, its context, or a wrapper of the reply.
AwaiterActs(a) == Await(a) \/ CancelContext(a) \/ AwaiterStep(a) \/ DropReply(a)

\* They leave the promise and its producers alone.
LEMMA AwaiterFrame ==
    ASSUME NEW a \in Awaiters, AwaiterActs(a)
    PROVE  UNCHANGED <<result, reply, done, handle, alive, wrapper, pp, refs,
                       wrapped, parented, frees>>
  BY DEF AwaiterActs, Await, CancelContext, AwaiterStep, SelectContext,
         SelectDone, WaitOther, WaitReplied, GetReply, DropReply

LEMMA AwaiterIInv ==
    ASSUME IInv, NEW a \in Awaiters, AwaiterActs(a)
    PROVE  IInv'
  <1>1. UNCHANGED <<result, reply, done, handle, alive, wrapper, pp, refs,
                    wrapped, parented, frees>>
    BY AwaiterFrame
  <1>2. Channel' /\ Owned'
    BY <1>1 DEF IInv, Channel, Owned
  <1>3. /\ Typed' /\ Awaited'
        /\ \A b \in Awaiters : pc'[b] \notin {"idle", "returned"} => wrapper # "collected"
        /\ keeps' # {} => wrapper # "collected"
    <2> USE <1>1 DEF IInv, Typed, Referenced, Awaited
    <2>1. CASE Await(a)
      BY <2>1 DEF Await
    <2>2. CASE CancelContext(a)
      BY <2>2 DEF CancelContext
    <2>3. CASE SelectContext(a)
      <3>1. a \notin keeps
        BY <2>3 DEF SelectContext, F!Nothing
      <3> QED
        BY <2>3, <3>1 DEF SelectContext
    <2>4. CASE SelectDone(a)
      BY <2>4 DEF SelectDone, Channel
    <2>5. CASE WaitOther(a)
      BY <2>5 DEF WaitOther
    <2>6. CASE WaitReplied(a)
      BY <2>6 DEF WaitReplied
    <2>7. CASE GetReply(a)
      BY <2>7 DEF GetReply
    <2>8. CASE DropReply(a)
      BY <2>8 DEF DropReply
    <2> QED
      BY <2>1, <2>2, <2>3, <2>4, <2>5, <2>6, <2>7, <2>8 DEF AwaiterActs, AwaiterStep
  <1>4. Referenced'
    BY <1>1, <1>3 DEF IInv, Referenced, Using
  <1> QED
    BY <1>2, <1>3, <1>4 DEF IInv

-----------------------------------------------------------------------------
\* The reference that goes may be the last one: it is when wrapper and producers
\* have none afterwards.
LEMMA UnrefIInv ==
    ASSUME IInv, NEW last \in BOOLEAN, Unref(last),
           last <=> alive /\ ~(wrapper' # "collected" \/ refs' # {}),
           ~alive => wrapper' = "collected" /\ refs' = {},
           refs' \subseteq Producers,
           \A q \in Using' \ Bare :
             IF q \in Sharers THEN wrapper' # "collected" ELSE q \in refs',
           UNCHANGED <<result, reply, done, awaiting, wrapped>>,
           pp' \in [Producers -> Points],
           \A q \in Producers : pp'[q] = "notify" => pp[q] = "notify",
           wrapper' = "collected" =>
              keeps = {} /\ \A a \in Awaiters : pc[a] \in {"idle", "returned"}
    PROVE  IInv'
  <1>1. UNCHANGED <<pc, canceled, got, keeps>>
    BY DEF awaiting
  <1>2. CASE last
    <2>1. /\ alive' = FALSE /\ handle' = FALSE /\ parented' = parented \ {reply}
          /\ frees' = IF reply = None THEN frees
                      ELSE [frees EXCEPT ![reply] = @ + 1]
      BY <1>2 DEF Unref, Free
    <2>2. Typed'
      BY <1>1, <2>1 DEF IInv, Typed
    <2>3. Channel'
      BY DEF IInv, Channel
    <2>4. Referenced'
      BY <1>1, <1>2, <2>1 DEF Referenced
    <2>5. Awaited'
      BY <1>1 DEF IInv, Awaited
    <2>6. Owned'
      BY <1>2, <2>1, PromiseAssumption DEF IInv, Owned, Typed
    <2> QED
      BY <2>2, <2>3, <2>4, <2>5, <2>6 DEF IInv
  <1>3. CASE ~last
    <2>1. UNCHANGED <<alive, handle, parented, frees>>
      BY <1>3 DEF Unref
    <2>2. Typed' /\ Channel' /\ Awaited' /\ Owned'
      BY <1>1, <2>1 DEF IInv, Typed, Channel, Awaited, Owned
    <2>3. Referenced'
      BY <1>1, <1>3, <2>1 DEF IInv, Referenced
    <2> QED
      BY <2>2, <2>3 DEF IInv
  <1> QED
    BY <1>2, <1>3

LEMMA DropWrapperIInv == IInv /\ DropWrapper => IInv'
  BY DEF IInv, DropWrapper, awaiting, Typed, Channel, Referenced, Using,
         Awaited, Owned

LEMMA FinalizeIInv == IInv /\ Finalize => IInv'
  <1> SUFFICES ASSUME IInv, Finalize PROVE IInv'
    OBVIOUS
  <1>1. /\ wrapper = "dropped" /\ wrapper' = "collected" /\ Unref(refs = {})
        /\ UNCHANGED <<result, reply, done, awaiting, pp, refs, wrapped>>
        /\ keeps = {} /\ \A a \in Awaiters : pc[a] \in {"idle", "returned"}
        /\ Using \cap (Sharers \ Bare) = {}
    BY DEF Finalize, Unused
  <1>2. alive /\ Using' = Using /\ (refs = {}) \in BOOLEAN
    BY <1>1 DEF IInv, Referenced, Using
  <1>3. /\ pp' \in [Producers -> Points]
        /\ refs' \subseteq Producers
        /\ \A q \in Producers : pp'[q] = "notify" => pp[q] = "notify"
    BY <1>1 DEF IInv, Typed
  <1>4. \A q \in Using' \ Bare : q \notin Sharers /\ q \in refs'
    BY <1>1, <1>2 DEF IInv, Referenced
  <1> QED
    BY <1>1, <1>2, <1>3, <1>4, UnrefIInv

LEMMA TakeIInv ==
    ASSUME IInv, NEW q \in Producers, Take(q)
    PROVE  IInv'
  <1>1. /\ wrapper = "held" /\ pp' = [pp EXCEPT ![q] = "holding"]
        /\ refs' = refs \cup ({q} \ Sharers)
        /\ UNCHANGED <<result, reply, done, handle, alive, wrapper, pc, canceled,
                       got, keeps, wrapped, parented, frees>>
    BY DEF Take, awaiting
  <1>2. Typed' /\ Channel' /\ Awaited' /\ Owned'
    BY <1>1 DEF IInv, Typed, Points, Channel, Awaited, Owned
  <1>3. Referenced'
    BY <1>1 DEF IInv, Typed, Referenced, Using
  <1> QED
    BY <1>2, <1>3 DEF IInv

-----------------------------------------------------------------------------
\* A producer whose call goes on keeps what it calls through.
LEMMA StillUsing ==
    ASSUME IInv, NEW q \in Producers, q \in Using,
           NEW p \in {"notify", "acted"}, pp' = [pp EXCEPT ![q] = p],
           UNCHANGED <<handle, alive, wrapper, refs, awaiting>>
    PROVE  /\ pp' \in [Producers -> Points]
           /\ Referenced'
  BY DEF IInv, Typed, Points, Referenced, Using, awaiting

\* A call finds the promise alive.
LEMMA CallingAlive ==
    ASSUME IInv, NEW q \in Producers, q \in Using, q \in Bare => alive
    PROVE  alive
  BY DEF IInv, Referenced

\* The promise is settled once, with a structure nobody has freed.
LEMMA SettleIInv ==
    ASSUME IInv, NEW q \in Producers, Calling(q), result = "PENDING",
           NEW r \in {"REPLIED", "INTERRUPTED", "EXPIRED"},
           NEW s \in Structs \cup {None}, Settle(q, r, s),
           r # "REPLIED" => s = None,
           s \in Structs \ GoAnswers => frees[s] = 0,
           UNCHANGED <<done, handle, alive, wrapper, awaiting, refs, wrapped>>
    PROVE  IInv'
  <1>1. /\ result' = r /\ reply' = s /\ pp' = [pp EXCEPT ![q] = "notify"]
        /\ parented' = IF s = None THEN parented ELSE parented \cup {s}
        /\ UNCHANGED <<frees, pc, canceled, got, keeps>>
    BY DEF Settle, awaiting
  <1>2. q \in Using /\ alive
    BY CallingAlive DEF Calling, Using
  <1>3. pp' \in [Producers -> Points] /\ Referenced'
    BY <1>1, <1>2, StillUsing
  <1>4. reply = None /\ keeps = {}
    BY DEF IInv, Awaited
  <1>5. Typed'
    BY <1>1, <1>3 DEF IInv, Typed
  <1>6. Channel'
    BY <1>1 DEF IInv, Typed, Channel
  <1>7. Awaited'
    BY <1>1, <1>4 DEF IInv, Awaited
  <1>8. Owned'
    BY <1>1, <1>2, <1>4, PromiseAssumption DEF IInv, Owned
  <1> QED
    BY <1>3, <1>5, <1>6, <1>7, <1>8 DEF IInv

\* A call that comes late frees at most what it brought.
LEMMA LateIInv ==
    ASSUME IInv, NEW q \in Producers, Calling(q),
           NEW s \in Structs \cup {None}, Late(q, s),
           s \in Structs \ GoAnswers => frees[s] = 0,
           UNCHANGED <<done, handle, alive, wrapper, awaiting, refs, wrapped>>
    PROVE  IInv'
  <1>1. /\ result # "PENDING" /\ pp' = [pp EXCEPT ![q] = "acted"]
        /\ UNCHANGED <<result, reply, parented, pc, canceled, got, keeps>>
    BY DEF Late, awaiting
  <1>2. q \in Using /\ alive
    BY CallingAlive DEF Calling, Using
  <1>3. pp' \in [Producers -> Points] /\ Referenced'
    BY <1>1, <1>2, StillUsing
  <1>4. \/ frees' = frees
        \/ /\ result = "INTERRUPTED" /\ s \in Structs
           /\ frees' = [frees EXCEPT ![s] = @ + 1]
    BY DEF Late, Free, IInv, Typed
  <1>5. Typed'
    BY <1>1, <1>3, <1>4 DEF IInv, Typed
  <1>6. Channel' /\ Awaited'
    BY <1>1 DEF IInv, Typed, Channel, Awaited
  <1>7. Owned'
    BY <1>1, <1>2, <1>4, PromiseAssumption DEF IInv, Owned, Typed, Awaited
  <1> QED
    BY <1>3, <1>5, <1>6, <1>7 DEF IInv

\* The reference of a producer goes, if it still has one: at the end of its
\* call, or by the finalizer of a bare one.
LEMMA LastOut ==
    ASSUME IInv, NEW q \in Producers, refs' = refs \ {q},
           Unref(refs = {q} /\ wrapper = "collected"),
           UNCHANGED <<result, reply, done, wrapper, awaiting, wrapped>>,
           pp' \in [Producers -> Points],
           \A r \in Producers : pp'[r] = "notify" => pp[r] = "notify",
           Using' = Using \ {q} \/ (Using' = Using /\ q \in Bare)
    PROVE  IInv'
  <1>1. /\ refs' \subseteq Producers
        /\ ~alive => wrapper' = "collected" /\ refs' = {}
        /\ (refs = {q} /\ wrapper = "collected")
             <=> alive /\ ~(wrapper' # "collected" \/ refs' # {})
    BY DEF IInv, Typed, Referenced
  <1>2. \A r \in Using' \ Bare :
          IF r \in Sharers THEN wrapper' # "collected" ELSE r \in refs'
    BY DEF IInv, Referenced
  <1>3. wrapper' = "collected" =>
          keeps = {} /\ \A a \in Awaiters : pc[a] \in {"idle", "returned"}
    BY DEF IInv, Referenced
  <1> QED
    BY <1>1, <1>2, <1>3, UnrefIInv

LEMMA ProducerIInv ==
    ASSUME IInv, NEW q \in Producers, ProducerStep(q)
    PROVE  IInv'
  <1>1. CASE Interrupt(q) \/ Expire(q)
    BY <1>1, SettleIInv, LateIInv, PromiseAssumption DEF Interrupt, Expire
  <1>2. ASSUME NEW s \in Structs, Reply(q, s)
        PROVE  IInv'
    <2>1. s \in GoAnswers
      BY <1>2 DEF Reply, IInv, Typed
    <2> QED
      BY <1>2, <2>1, SettleIInv, LateIInv DEF Reply
  <1>3. ASSUME NEW s \in Structs \cup {None}, ReplyFromC(q, s)
        PROVE  IInv'
    <2>1. s \in Structs \ GoAnswers => frees[s] = 0
      BY <1>3, PromiseAssumption DEF ReplyFromC
    <2> QED
      BY <1>3, <2>1, SettleIInv, LateIInv DEF ReplyFromC
  <1>4. CASE ChangeFunc(q)
    <2>1. /\ pp[q] = "notify" /\ pp' = [pp EXCEPT ![q] = "acted"]
          /\ done' = IF done = "open" /\ handle THEN "closed" ELSE "panicked"
          /\ UNCHANGED <<result, reply, handle, alive, wrapper, pc, canceled, got,
                         keeps, refs, wrapped, parented, frees>>
      BY <1>4 DEF ChangeFunc, awaiting
    <2>2. q \in Using /\ alive
      BY <1>4, CallingAlive DEF ChangeFunc, Using
    <2>3. pp' \in [Producers -> Points] /\ Referenced'
      BY <2>1, <2>2, StillUsing DEF awaiting
    <2>4. done' = "closed"
      BY <2>1, <2>2 DEF IInv, Channel, Referenced
    <2>5. Channel'
      BY <2>1, <2>4 DEF IInv, Typed, Channel
    <2>6. Typed' /\ Awaited' /\ Owned'
      BY <2>1, <2>3 DEF IInv, Typed, Awaited, Owned
    <2> QED
      BY <2>3, <2>5, <2>6 DEF IInv
  <1>5. CASE Release(q)
    <2>1. /\ q \in Using /\ pp' = [pp EXCEPT ![q] = "gone"] /\ refs' = refs \ {q}
          /\ Unref(refs = {q} /\ wrapper = "collected")
          /\ UNCHANGED <<result, reply, done, wrapper, awaiting, wrapped>>
      BY <1>5 DEF Release, Using
    <2>2. /\ pp' \in [Producers -> Points] /\ refs' \subseteq Producers
          /\ \A r \in Producers : pp'[r] = "notify" => pp[r] = "notify"
          /\ Using' = Using \ {q}
      BY <2>1 DEF IInv, Typed, Points, Using
    <2> QED
      BY <2>1, <2>2, LastOut
  <1>6. CASE Collect(q)
    <2>1. /\ q \in Bare /\ refs' = refs \ {q}
          /\ Unref(refs = {q} /\ wrapper = "collected")
          /\ UNCHANGED <<result, reply, done, wrapper, awaiting, pp, wrapped>>
      BY <1>6 DEF Collect
    <2>2. /\ pp' \in [Producers -> Points] /\ refs' \subseteq Producers
          /\ \A r \in Producers : pp'[r] = "notify" => pp[r] = "notify"
          /\ Using' = Using
      BY <2>1 DEF IInv, Typed, Using
    <2> QED
      BY <2>1, <2>2, LastOut
  <1>7. CASE Stray(q)
    <2>1. /\ q \in Bare /\ pp' = [pp EXCEPT ![q] = "stray"]
          /\ UNCHANGED <<result, reply, done, handle, alive, wrapper, pc, canceled,
                         got, keeps, refs, wrapped, parented, frees>>
      BY <1>7 DEF Stray, awaiting
    <2>2. Typed' /\ Channel' /\ Awaited' /\ Owned'
      BY <2>1 DEF IInv, Typed, Points, Channel, Awaited, Owned
    <2>3. Referenced'
      BY <2>1 DEF IInv, Typed, Referenced, Using
    <2> QED
      BY <2>2, <2>3 DEF IInv
  <1> QED
    BY <1>1, <1>2, <1>3, <1>4, <1>5, <1>6, <1>7 DEF ProducerStep

LEMMA StructureIInv ==
    ASSUME IInv, NEW s \in Structs, NewStructure(s) \/ CollectAnswer(s)
    PROVE  IInv'
  <1>1. /\ UNCHANGED <<result, reply, done, handle, alive, wrapper, pc, canceled,
                       got, keeps, pp, refs, parented>>
        /\ wrapped' \subseteq GoAnswers /\ s \in GoAnswers
        /\ frees' = frees \/ frees' = [frees EXCEPT ![s] = @ + 1]
    BY DEF NewStructure, CollectAnswer, Free, awaiting, IInv, Typed
  <1>2. Typed' /\ Channel' /\ Referenced' /\ Awaited'
    <2>1. frees' \in [Structs -> Nat]
      BY <1>1 DEF IInv, Typed
    <2>2. Typed'
      BY <1>1, <2>1 DEF IInv, Typed
    <2>3. Channel' /\ Awaited'
      BY <1>1 DEF IInv, Channel, Awaited
    <2>4. Referenced'
      BY <1>1 DEF IInv, Referenced, Using
    <2> QED
      BY <2>2, <2>3, <2>4
  <1>3. Owned'
    BY <1>1 DEF IInv, Typed, Owned
  <1> QED
    BY <1>2, <1>3 DEF IInv

LEMMA NextIInv == IInv /\ [Next]_vars => IInv'
  <1> SUFFICES ASSUME IInv, [Next]_vars PROVE IInv'
    OBVIOUS
  <1>1. CASE UNCHANGED vars
    BY <1>1 DEF vars, IInv, Typed, Channel, Referenced, Using, Awaited, Owned
  <1>2. CASE Next
    BY <1>2, AwaiterIInv, DropWrapperIInv, FinalizeIInv, TakeIInv, ProducerIInv,
       StructureIInv DEF Next, AwaiterActs
  <1> QED
    BY <1>1, <1>2

LEMMA Invariance == Spec => []IInv
  BY InitIInv, NextIInv, PTL DEF Spec

-----------------------------------------------------------------------------
\* The channel is closed at most once, and by a closure that is still saved,
\* however many producers reply, interrupt and expire at the same time.
THEOREM ClosedOnce == Spec => []NeverPanics
  <1>1. IInv => NeverPanics
    BY DEF IInv, Channel, NeverPanics
  <1> QED
    BY <1>1, Invariance, PTL

\* An awaiter asks C for the result only when there is one: gst_promise_wait
\* does not block the thread the goroutine is on.
THEOREM NoBlockingWait == Spec => []WaitNeverBlocks
  <1>1. IInv => WaitNeverBlocks
    BY DEF IInv, Awaited, WaitNeverBlocks
  <1> QED
    BY <1>1, Invariance, PTL

\* Awaiters, whoever has a reference or the wrapper, and every call on the
\* promise with its change function find the C promise and the closure alive;
\* only a bare caller can find them freed, and then when its own reference was
\* released by its finalizer and nobody else has one.
THEOREM UsedAlive == Spec => []InUseAlive
  <1>1. IInv => InUseAlive
    <2>1. Referenced /\ (\E a \in Awaiters : pc[a] \notin {"idle", "returned"})
            => wrapper # "collected"
      BY DEF Referenced
    <2>2. Referenced /\ Using \ Bare # {} => wrapper # "collected" \/ refs # {}
      BY DEF Referenced
    <2>3. Referenced /\ (wrapper # "collected" \/ refs # {}) => alive /\ handle
      BY DEF Referenced
    <2> QED
      BY <2>1, <2>2, <2>3, Zenon DEF IInv, InUseAlive
  <1> QED
    BY <1>1, Invariance, PTL

\* A reply of C is there for as long as a Go wrapper of it is.
THEOREM ReplyLives == Spec => []ReplyAccessible
  <1> SUFFICES ASSUME IInv PROVE ReplyAccessible
    BY Invariance, PTL
  <1>1. SUFFICES ASSUME NEW a \in keeps
                 PROVE  /\ got[a][2] \in Structs
                        /\ got[a][2] \notin GoAnswers => frees[got[a][2]] = 0
    BY DEF ReplyAccessible
  <1>2. got[a] = <<"REPLIED", reply>> /\ reply \in Structs
    <2>1. got[a] = <<"REPLIED", reply>> /\ reply # None
      BY DEF IInv, Awaited
    <2> QED
      BY <2>1 DEF IInv, Typed
  <1>3. alive
    BY DEF IInv, Referenced
  <1> QED
    BY <1>2, <1>3 DEF IInv, Owned

\* Nothing C made is freed twice: neither the reply that is kept nor one that
\* comes too late.
THEOREM RepliesFreedOnce == Spec => []FreedOnce
  <1>1. IInv => FreedOnce
    BY DEF IInv, Owned, FreedOnce
  <1> QED
    BY <1>1, Invariance, PTL

\* The promise, its closure and its reply are gone when nobody refers to them.
THEOREM AllReleased == Spec => []NoLeak
  <1>1. IInv => NoLeak
    <2>1. Referenced /\ wrapper = "collected" /\ refs = {} => ~alive /\ ~handle
      BY DEF Referenced
    <2> QED
      BY <2>1, Zenon DEF IInv, Owned, NoLeak
  <1> QED
    BY <1>1, Invariance, PTL

-----------------------------------------------------------------------------
\* The refinement: producers write the cell, awaiters return what it holds.

\* Whoever settles the promise writes the cell, and late calls leave it alone.
LEMMA ProducerFuture ==
    ASSUME IInv, NEW q \in Producers, ProducerStep(q)
    PROVE  [F!Next]_F!vars
  <1>1. got' = got
    BY DEF ProducerStep, Interrupt, Expire, Reply, ReplyFromC, ChangeFunc,
           Release, Collect, Stray, awaiting
  <1>2. ASSUME NEW r \in {"REPLIED", "INTERRUPTED", "EXPIRED"},
               NEW s \in Structs \cup {None}, r # "REPLIED" => s = None,
               result = "PENDING", Settle(q, r, s)
        PROVE  F!Next
    <2>1. <<r, s>> \in F!Settled
      BY <1>2 DEF F!Settled
    <2>2. reply = None
      BY <1>2 DEF IInv, Awaited
    <2>3. F!Settle(<<r, s>>)
      BY <1>1, <1>2, <2>2 DEF Settle, F!Settle, F!Pending
    <2> QED
      BY <2>1, <2>3 DEF F!Next
  <1>3. ASSUME NEW s, Late(q, s)
        PROVE  UNCHANGED F!vars
    BY <1>1, <1>3 DEF Late, F!vars
  <1>4. CASE ChangeFunc(q) \/ Release(q) \/ Collect(q) \/ Stray(q)
    BY <1>1, <1>4 DEF ChangeFunc, Release, Collect, Stray, F!vars
  <1>5. CASE Interrupt(q) \/ Expire(q)
    BY <1>2, <1>3, <1>5 DEF Interrupt, Expire
  <1>6. CASE \/ \E s \in Structs : Reply(q, s)
             \/ \E s \in Structs \cup {None} : ReplyFromC(q, s)
    BY <1>2, <1>3, <1>6 DEF Reply, ReplyFromC
  <1> QED
    BY <1>4, <1>5, <1>6 DEF ProducerStep

\* An awaiter returns the cell once it is written, or gives up.
LEMMA AwaiterFuture ==
    ASSUME IInv, NEW a \in Awaiters, AwaiterActs(a)
    PROVE  [F!Next]_F!vars
  <1>1. UNCHANGED <<result, reply>>
    BY AwaiterFrame
  <1>2. pc[a] # "returned" => got[a] = F!Nothing
    BY DEF IInv, Awaited
  <1>3. CASE SelectContext(a)
    <2>1. F!Cancel(a)
      BY <1>1, <1>2, <1>3 DEF SelectContext, F!Cancel
    <2> QED
      BY <2>1 DEF F!Next
  <1>4. CASE WaitOther(a) \/ GetReply(a)
    <2>1. result # "PENDING" /\ got[a] = F!Nothing
      BY <1>2, <1>4 DEF WaitOther, GetReply, IInv, Awaited
    <2>2. got' = [got EXCEPT ![a] = <<result, reply>>]
      BY <1>4 DEF WaitOther, GetReply, IInv, Awaited
    <2>3. F!Return(a)
      BY <1>1, <2>1, <2>2 DEF F!Return, F!Pending
    <2> QED
      BY <2>3 DEF F!Next
  <1>5. CASE ~(SelectContext(a) \/ WaitOther(a) \/ GetReply(a))
    <2>1. got' = got
      BY <1>5 DEF AwaiterActs, Await, CancelContext, AwaiterStep, SelectDone,
                  WaitReplied, DropReply
    <2> QED
      BY <1>1, <2>1 DEF F!vars
  <1> QED
    BY <1>3, <1>4, <1>5

LEMMA NextFuture == IInv /\ [Next]_vars => [F!Next]_F!vars
  <1> SUFFICES ASSUME IInv, [Next]_vars PROVE [F!Next]_F!vars
    OBVIOUS
  <1>1. CASE UNCHANGED vars
    BY <1>1 DEF vars, F!vars
  <1>2. CASE \/ DropWrapper \/ Finalize
             \/ \E q \in Producers : Take(q)
             \/ \E s \in Structs : NewStructure(s) \/ CollectAnswer(s)
    BY <1>2 DEF DropWrapper, Finalize, Take, NewStructure, CollectAnswer,
                awaiting, F!vars
  <1> QED
    BY <1>1, <1>2, AwaiterFuture, ProducerFuture DEF Next, AwaiterActs

\* A promise is a cell that is written once, whatever is in a race: awaiters
\* whose context was not cancelled return what it holds, all of them the same.
THEOREM PromiseIsFuture == Spec => ImplementsFuture
  <1>1. Init => F!Init
    BY DEF Init, F!Init, F!Pending
  <1> QED
    BY <1>1, Invariance, NextFuture, PTL DEF Spec, ImplementsFuture, F!Spec

-----------------------------------------------------------------------------
\* The variables the inductive invariant says little of.
Rest ==
    /\ handle \in BOOLEAN
    /\ alive \in BOOLEAN
    /\ wrapper \in {"held", "dropped", "collected"}
    /\ canceled \subseteq Awaiters
    /\ got \in [Awaiters -> F!Settled \cup {F!Nothing, F!Canceled}]

\* Steps of the future are what keeps the type of what awaiters return.
LEMMA FutureGot ==
    ASSUME IInv, Rest, [F!Next]_F!vars
    PROVE  got' \in [Awaiters -> F!Settled \cup {F!Nothing, F!Canceled}]
  <1>1. result # "PENDING" => <<result, reply>> \in F!Settled
    BY DEF IInv, Typed, Awaited, F!Settled
  <1>2. CASE UNCHANGED F!vars
    BY <1>2 DEF Rest, F!vars
  <1>3. ASSUME NEW v \in F!Settled, F!Settle(v)
        PROVE  got' = got
    BY <1>3 DEF F!Settle
  <1>4. ASSUME NEW a \in Awaiters, F!Return(a) \/ F!Cancel(a)
        PROVE  got' \in [Awaiters -> F!Settled \cup {F!Nothing, F!Canceled}]
    <2>1. CASE F!Return(a)
      <3>1. <<result, reply>> \in F!Settled
        BY <1>1, <2>1 DEF F!Return, F!Pending, IInv, Awaited
      <3> QED
        BY <2>1, <3>1 DEF Rest, F!Return
    <2>2. CASE F!Cancel(a)
      BY <2>2 DEF Rest, F!Cancel
    <2> QED
      BY <1>4, <2>1, <2>2
  <1> QED
    BY <1>2, <1>3, <1>4 DEF Rest, F!Next

LEMMA NextRest == IInv /\ Rest /\ [Next]_vars => Rest'
  <1> SUFFICES ASSUME IInv, Rest, [Next]_vars PROVE Rest'
    OBVIOUS
  <1>1. got' \in [Awaiters -> F!Settled \cup {F!Nothing, F!Canceled}]
    BY NextFuture, FutureGot
  <1>2. CASE UNCHANGED vars
    BY <1>1, <1>2 DEF Rest, vars
  <1>3. ASSUME NEW a \in Awaiters, AwaiterActs(a)
        PROVE  Rest'
    <2>1. canceled' \subseteq Awaiters
      BY <1>3 DEF Rest, AwaiterActs, Await, CancelContext, AwaiterStep,
                  SelectContext, SelectDone, WaitOther, WaitReplied, GetReply,
                  DropReply
    <2> QED
      BY <1>1, <1>3, <2>1, AwaiterFrame DEF Rest
  <1>4. CASE DropWrapper
    BY <1>1, <1>4 DEF Rest, DropWrapper, awaiting
  <1>5. CASE Finalize
    BY <1>1, <1>5 DEF Rest, Finalize, Unref, awaiting
  <1>6. ASSUME NEW q \in Producers, Take(q) \/ ProducerStep(q)
        PROVE  Rest'
    <2>1. UNCHANGED <<wrapper, canceled>>
      BY <1>6 DEF Take, ProducerStep, Interrupt, Expire, Reply, ReplyFromC,
                  ChangeFunc, Release, Collect, Stray, awaiting
    <2>2. alive' \in BOOLEAN /\ handle' \in BOOLEAN
      BY <1>6 DEF Rest, Take, ProducerStep, Interrupt, Expire, Reply, ReplyFromC,
                  ChangeFunc, Release, Collect, Stray, Unref
    <2> QED
      BY <1>1, <2>1, <2>2 DEF Rest
  <1>7. ASSUME NEW s \in Structs, NewStructure(s) \/ CollectAnswer(s)
        PROVE  Rest'
    BY <1>1, <1>7 DEF Rest, NewStructure, CollectAnswer, awaiting
  <1> QED
    BY <1>2, <1>3, <1>4, <1>5, <1>6, <1>7 DEF Next, AwaiterActs

\* Every variable of the promise has its type; what an await returned is a
\* settled cell or the error of its context (gst_promise.go:126-155).
THEOREM PromiseTyped == Spec => []TypeOK
  <1>1. Init => Rest
    BY DEF Init, Rest
  <1>2. Spec => []Rest
    BY <1>1, Invariance, NextRest, PTL DEF Spec
  <1>3. IInv /\ Rest => TypeOK
    <2> SUFFICES ASSUME IInv, Rest PROVE TypeOK
      OBVIOUS
    <2>1. /\ parented \subseteq Structs
          /\ wrapped \subseteq Structs
      BY PromiseAssumption DEF IInv, Typed, Owned
    <2>2. done \in {"open", "closed", "panicked"}
      BY DEF IInv, Channel
    <2> QED
      BY <2>1, <2>2 DEF IInv, Typed, Points, Rest, TypeOK
  <1> QED
    BY <1>2, <1>3, Invariance, PTL

=============================================================================
