-------------------------- MODULE Ownership_proof --------------------------
(***************************************************************************)
(* Proofs about module Ownership, for any sets of objects, threads and     *)
(* callbacks.                                                              *)
(***************************************************************************)
EXTENDS Ownership, FiniteSetTheorems, TLAPS

Numbers == [Objects -> Int]

\* Every table holds a number for every object.
Tables ==
    /\ count \in Numbers /\ core \in Numbers /\ given \in Numbers
    /\ lent \in Numbers /\ owned \in Numbers /\ manual \in Numbers
    /\ excess \in Numbers

\* The conservation law is inductive together with the tables' types.
IInv == Tables /\ Accounted

\* Nothing has put the count of a balanced object off, and it is in no
\* unbalanced callback.
NoExcess ==
    /\ \A o \in Balanced : excess[o] = 0
    /\ \A t \in Threads : frame[t].kind = "fixate" => frame[t].obj \notin Balanced
    /\ frame \in [Threads -> {Idle} \cup [kind : Trampolines, obj : Objects]]

\* Adding or taking one at one object of a table.
LEMMA Change ==
    ASSUME NEW f \in Numbers, NEW o \in Objects
    PROVE  /\ Plus(f, o) \in Numbers
           /\ Minus(f, o) \in Numbers
           /\ \A p \in Objects : Plus(f, o)[p] = IF p = o THEN f[p] + 1 ELSE f[p]
           /\ \A p \in Objects : Minus(f, o)[p] = IF p = o THEN f[p] - 1 ELSE f[p]
BY DEF Numbers, Plus, Minus

\* The initial tables are empty.
LEMMA InitIInv == Init => IInv
BY DEF Init, IInv, Tables, Numbers, Accounted, Claims

\* Constructors, references, queues, ranges, MakeWritable and finalizers change
\* the count and the claims together, or record the difference.
LEMMA ApplicationIInv ==
    ASSUME IInv, NEW o \in Objects, Application(o)
    PROVE  IInv'
<1> USE DEF IInv, Tables, Accounted, Claims, Numbers, Plus, Minus
<1>1. CASE New(o)
  BY <1>1 DEF New
<1>2. CASE Ref(o)
  BY <1>2 DEF Ref
<1>3. CASE Unref(o)
  BY <1>3 DEF Unref
<1>4. CASE Push(o)
  BY <1>4 DEF Push
<1>5. CASE Pop(o)
  BY <1>5 DEF Pop
<1>6. CASE Get(o)
  BY <1>6 DEF Get
<1>7. CASE GetRange(o)
  BY <1>7 DEF GetRange, vars
<1>8. CASE MakeWritable(o)
  <2> UNCHANGED <<core, given, lent, manual>>
    BY <1>8 DEF MakeWritable
  <2>1. CASE owned' = Plus(owned, o) /\ excess' = Minus(excess, o) /\ UNCHANGED count
    BY <2>1
  <2>2. CASE UNCHANGED <<count, owned, excess>>
    BY <2>2
  <2>3. CASE count' = Minus(count, o) /\ excess' = Minus(excess, o) /\ UNCHANGED owned
    BY <2>3
  <2>4. QED  BY <1>8, <2>1, <2>2, <2>3 DEF MakeWritable
<1>9. CASE Collect(o)
  BY <1>9 DEF Collect
<1>10. CASE PullRange(o)
  <2> UNCHANGED <<count, given, lent, manual>>
    BY <1>10 DEF PullRange
  <2>1. CASE core' = Minus(core, o) /\ owned' = Plus(owned, o) /\ UNCHANGED excess
    BY <2>1
  <2>2. CASE owned' = Plus(owned, o) /\ excess' = Minus(excess, o) /\ UNCHANGED core
    BY <2>2
  <2>3. QED  BY <1>10, <2>1, <2>2 DEF PullRange
<1>11. QED
  BY <1>1, <1>2, <1>3, <1>4, <1>5, <1>6, <1>7, <1>8, <1>9, <1>10 DEF Application

\* The C core keeps its own references straight.
LEMMA CoreIInv ==
    ASSUME IInv, NEW o \in Objects, Core(o)
    PROVE  IInv'
<1> USE DEF IInv, Tables, Accounted, Claims, Numbers, Plus, Minus
<1>1. CASE CoreNew(o)
  BY <1>1 DEF CoreNew
<1>2. CASE CoreRef(o)
  BY <1>2 DEF CoreRef
<1>3. CASE CoreUnref(o)
  BY <1>3 DEF CoreUnref
<1>4. QED  BY <1>1, <1>2, <1>3 DEF Core

\* A callback moves the reference C passes from one claim to another, and the
\* unbalanced ones record what they lose or add.
LEMMA CallbackIInv ==
    ASSUME IInv, NEW o \in Objects, NEW t \in Threads, Callback(t, o)
    PROVE  IInv'
<1> USE DEF IInv, Tables, Accounted, Claims, Numbers, Plus, Minus
<1>1. CASE EnterLend(t, o)
  BY <1>1 DEF EnterLend, Enter
<1>2. CASE LeaveLend(t, o)
  BY <1>2 DEF LeaveLend, Leave
<1>3. CASE EnterProbe(t, o)
  BY <1>3 DEF EnterProbe, Enter
<1>4. CASE LeaveProbe(t, o)
  BY <1>4 DEF LeaveProbe, Leave
<1>5. CASE EnterCollect(t, o)
  BY <1>5 DEF EnterCollect, Enter
<1>6. CASE LeaveCollect(t, o)
  BY <1>6 DEF LeaveCollect, Leave
<1>7. CASE EnterEvent(t, o)
  BY <1>7 DEF EnterEvent, Enter
<1>8. CASE EnterSink(t, o)
  BY <1>8 DEF EnterSink, Enter
<1>9. ASSUME NEW k \in {"event", "sink"}, ChainUp(t, k, o) PROVE IInv'
  BY <1>9 DEF ChainUp, Leave
<1>10. ASSUME NEW k \in {"event", "sink"}, Drop(t, k, o) PROVE IInv'
  BY <1>10 DEF Drop, Leave
<1>11. CASE EnterChain(t, o)
  BY <1>11 DEF EnterChain, Enter
<1>12. CASE LeaveChain(t, o)
  BY <1>12 DEF LeaveChain, Leave
<1>13. CASE EnterFixate(t, o)
  <2>1. core' = Minus(core, o) /\ given' = Plus(given, o)
        /\ UNCHANGED <<count, lent, owned, manual, excess>>
    BY <1>13 DEF EnterFixate, Enter
  <2>2. QED  BY <2>1
<1>14. CASE LeaveFixate(t, o)
  BY <1>14 DEF LeaveFixate, Leave
<1>15. QED  BY <1>1, <1>2, <1>3, <1>4, <1>5, <1>6, <1>7, <1>8, <1>9, <1>10, <1>11, <1>12, <1>13, <1>14 DEF Callback

LEMMA NextIInv == IInv /\ [Next]_vars => IInv'
<1>1. CASE UNCHANGED vars
  BY <1>1 DEF vars, IInv, Tables, Accounted, Claims
<1>2. ASSUME IInv, Next PROVE IInv'
  BY <1>2, ApplicationIInv, CoreIInv, CallbackIInv DEF Next
<1>3. QED  BY <1>1, <1>2

\* Whatever callbacks the application implements, the reference count of an
\* object differs from the claims to it by exactly what chain callbacks,
\* FixateCaps, MakeWritable and PullRange into a given buffer put it off.
THEOREM CountsAccounted == Spec => []Accounted
<1>1. IInv => Accounted  BY DEF IInv
<1>2. QED  BY InitIInv, NextIInv, <1>1, PTL DEF Spec

\* The uses of a balanced object.
LEMMA BalancedUses ==
    ASSUME NEW o \in Balanced
    PROVE  /\ o \in Objects
           /\ "chain" \notin Uses[o] /\ "fixate" \notin Uses[o]
           /\ "writable" \notin Uses[o] /\ "filled" \notin Uses[o]
BY DEF Balanced, Unbalanced

\* Entering a callback the object is used in, or leaving one, keeps the frames.
LEMMA FrameMoves ==
    ASSUME NoExcess, NEW o \in Objects, NEW t \in Threads,
           \/ frame' = [frame EXCEPT ![t] = Idle]
           \/ \E k \in Uses[o] \cap Trampolines :
                 frame' = [frame EXCEPT ![t] = [kind |-> k, obj |-> o]]
    PROVE  /\ frame' \in [Threads -> {Idle} \cup [kind : Trampolines, obj : Objects]]
           /\ \A u \in Threads : frame'[u].kind = "fixate" => frame'[u].obj \notin Balanced
<1> USE DEF NoExcess
<1>1. CASE frame' = [frame EXCEPT ![t] = Idle]
  BY <1>1 DEF Idle
<1>2. ASSUME NEW k \in Uses[o] \cap Trampolines,
             frame' = [frame EXCEPT ![t] = [kind |-> k, obj |-> o]]
      PROVE  /\ frame' \in [Threads -> {Idle} \cup [kind : Trampolines, obj : Objects]]
             /\ \A u \in Threads : frame'[u].kind = "fixate" => frame'[u].obj \notin Balanced
  <2>1. k = "fixate" => o \notin Balanced
    BY BalancedUses
  <2>2. QED  BY <1>2, <2>1
<1>3. QED  BY <1>1, <1>2

\* A change of excess at one object leaves it alone at every other.
LEMMA AtOneObject ==
    ASSUME IInv, NEW o \in Objects, NEW p \in Objects, p # o,
           excess' = Minus(excess, o) \/ excess' = Plus(excess, o)
    PROVE  excess'[p] = excess[p]
BY DEF IInv, Tables, Numbers, Minus, Plus

\* Only the four unbalanced operations touch excess, and only of their object.
LEMMA NextNoExcess ==
    ASSUME IInv, NoExcess, [Next]_vars
    PROVE  NoExcess'
<1>1. CASE UNCHANGED vars
  BY <1>1 DEF vars, NoExcess
<1>2. ASSUME NEW o \in Objects, Application(o) PROVE NoExcess'
  <2>1. UNCHANGED frame
    BY <1>2 DEF Application, New, Ref, Unref, Push, Pop, Get, PullRange,
       GetRange, MakeWritable, Collect, vars
  <2>2. UNCHANGED excess \/ (o \notin Balanced /\ excess' = Minus(excess, o))
    BY <1>2, BalancedUses DEF Application, New, Ref, Unref, Push, Pop, Get,
       PullRange, GetRange, MakeWritable, Collect, vars
  <2>3. \A p \in Balanced : excess'[p] = 0
    BY <2>2, BalancedUses, AtOneObject DEF NoExcess
  <2>4. QED  BY <2>1, <2>3 DEF NoExcess
<1>3. ASSUME NEW o \in Objects, Core(o) PROVE NoExcess'
  BY <1>3 DEF NoExcess, Core, CoreNew, CoreRef, CoreUnref
<1>4. ASSUME NEW o \in Objects, NEW t \in Threads, Callback(t, o) PROVE NoExcess'
  <2>1. \/ frame' = [frame EXCEPT ![t] = Idle]
        \/ \E k \in Uses[o] \cap Trampolines :
              frame' = [frame EXCEPT ![t] = [kind |-> k, obj |-> o]]
    BY <1>4 DEF Callback, Enter, Leave, EnterLend, LeaveLend, EnterProbe,
       LeaveProbe, EnterCollect, LeaveCollect, EnterEvent, EnterSink,
       ChainUp, Drop, EnterChain, LeaveChain, EnterFixate, LeaveFixate,
       Trampolines
  <2>2. ASSUME o \in Balanced PROVE excess' = excess
    <3>1. ~EnterChain(t, o) /\ ~LeaveFixate(t, o)
      BY <2>2, BalancedUses DEF EnterChain, LeaveFixate, Enter, Leave, NoExcess
    <3>2. QED
      BY <1>4, <3>1 DEF Callback, EnterLend, LeaveLend, EnterProbe,
         LeaveProbe, EnterCollect, LeaveCollect, EnterEvent, EnterSink,
         ChainUp, Drop, LeaveChain, EnterFixate
  <2>3. excess' = excess \/ excess' = Minus(excess, o) \/ excess' = Plus(excess, o)
    BY <1>4 DEF Callback, EnterLend, LeaveLend, EnterProbe, LeaveProbe,
       EnterCollect, LeaveCollect, EnterEvent, EnterSink, ChainUp, Drop,
       EnterChain, LeaveChain, EnterFixate, LeaveFixate
  <2>4. \A p \in Balanced : excess'[p] = 0
    BY <2>2, <2>3, BalancedUses, AtOneObject DEF NoExcess
  <2>5. QED  BY <2>1, <2>4, FrameMoves DEF NoExcess
<1>5. QED  BY <1>1, <1>2, <1>3, <1>4 DEF Next

\* The initial state has no excess and no callback.
LEMMA InitNoExcess == Init => NoExcess
BY DEF Init, NoExcess, Idle, Balanced

\* Whatever is done with other objects, an object no unbalanced operation is
\* applied to is alive as long as anybody will still use or unref it.
THEOREM BalancedAlways == Spec => []BalancedAlive
<1>1. IInv /\ NoExcess => BalancedAlive
  BY BalancedUses
     DEF IInv, Tables, Numbers, Accounted, Claims, NoExcess, BalancedAlive
<1>2. QED  BY InitIInv, NextIInv, InitNoExcess, NextNoExcess, <1>1, PTL DEF Spec

\* And it is freed when nobody has a claim to it any more.
THEOREM BalancedReleased == Spec => []BalancedFreed
<1>1. IInv /\ NoExcess => BalancedFreed
  BY BalancedUses
     DEF IInv, Tables, Numbers, Accounted, Claims, NoExcess, BalancedFreed
<1>2. QED  BY InitIInv, NextIInv, InitNoExcess, NextNoExcess, <1>1, PTL DEF Spec

-----------------------------------------------------------------------------
(***************************************************************************)
(* The references C has passed are those of the callbacks that run.        *)
(***************************************************************************)
GivenKinds == {"collect", "event", "sink", "chain", "fixate"}
LentKinds == {"lend", "probe"}
Running(o, kinds) == Cardinality(InCallback(o, kinds))

Frames == frame \in [Threads -> {Idle} \cup [kind : Trampolines, obj : Objects]]

Passed ==
    \A o \in Objects : /\ given[o] = Running(o, GivenKinds)
                       /\ lent[o] = Running(o, LentKinds)

\* Nobody gives back what he does not have.
Solvent == \A o \in Objects : core[o] >= 0 /\ owned[o] >= 0 /\ manual[o] >= 0

CInv == Frames /\ Passed /\ Solvent

\* One more callback runs.
LEMMA Entered ==
    ASSUME Frames, NEW t \in Threads, NEW o \in Objects, NEW k \in Trampolines,
           NEW K \in SUBSET Trampolines, frame[t] = Idle,
           frame' = [frame EXCEPT ![t] = [kind |-> k, obj |-> o]]
    PROVE  /\ Frames'
           /\ \A p \in Objects : Running(p, K)' =
                IF p = o /\ k \in K THEN Running(p, K) + 1 ELSE Running(p, K)
<1>1. Frames'
  BY DEF Frames
<1>2. ASSUME NEW p \in Objects
      PROVE  Running(p, K)' = IF p = o /\ k \in K THEN Running(p, K) + 1 ELSE Running(p, K)
  <2>1. t \notin InCallback(p, K)
    BY OwnershipAssumption DEF InCallback, Idle
  <2>2. /\ frame'[t].kind = k /\ frame'[t].obj = o
        /\ \A u \in Threads \ {t} : frame'[u] = frame[u]
    BY DEF Frames
  <2>3. IsFiniteSet(InCallback(p, K))
    BY OwnershipAssumption, FS_Subset DEF InCallback
  <2>4. CASE p = o /\ k \in K
    <3>1. InCallback(p, K)' = InCallback(p, K) \cup {t}
      BY <2>2, <2>4 DEF InCallback
    <3>2. QED  BY <2>1, <2>3, <2>4, <3>1, FS_AddElement DEF Running
  <2>5. CASE ~(p = o /\ k \in K)
    <3>1. InCallback(p, K)' = InCallback(p, K)
      BY <2>1, <2>2, <2>5 DEF InCallback
    <3>2. QED  BY <2>5, <3>1 DEF Running
  <2>6. QED  BY <2>4, <2>5
<1>3. QED  BY <1>1, <1>2

\* One callback has returned.
LEMMA Left ==
    ASSUME Frames, NEW t \in Threads, NEW o \in Objects, NEW k \in Trampolines,
           NEW K \in SUBSET Trampolines, Leave(t, k, o)
    PROVE  /\ Frames'
           /\ \A p \in Objects : Running(p, K)' =
                IF p = o /\ k \in K THEN Running(p, K) - 1 ELSE Running(p, K)
<1>1. Frames'
  BY DEF Frames, Leave
<1>2. ASSUME NEW p \in Objects
      PROVE  Running(p, K)' = IF p = o /\ k \in K THEN Running(p, K) - 1 ELSE Running(p, K)
  <2>1. /\ frame[t].kind = k /\ frame[t].obj = o /\ frame'[t] = Idle
        /\ \A u \in Threads \ {t} : frame'[u] = frame[u]
    BY DEF Frames, Leave
  <2>2. t \notin InCallback(p, K)'
    BY <2>1, OwnershipAssumption DEF InCallback, Idle
  <2>3. IsFiniteSet(InCallback(p, K))
    BY OwnershipAssumption, FS_Subset DEF InCallback
  <2>4. CASE p = o /\ k \in K
    <3>1. t \in InCallback(p, K) /\ InCallback(p, K)' = InCallback(p, K) \ {t}
      BY <2>1, <2>2, <2>4 DEF InCallback
    <3>2. Cardinality(InCallback(p, K) \ {t}) = Cardinality(InCallback(p, K)) - 1
      BY <2>3, <3>1, FS_RemoveElement
    <3>3. QED  BY <2>4, <3>1, <3>2 DEF Running
  <2>5. CASE ~(p = o /\ k \in K)
    <3>1. InCallback(p, K)' = InCallback(p, K)
      BY <2>1, <2>2, <2>5 DEF InCallback
    <3>2. QED  BY <2>5, <3>1 DEF Running
  <2>6. QED  BY <2>4, <2>5
<1>3. QED  BY <1>1, <1>2

LEMMA InitCInv == Init => CInv
<1> SUFFICES ASSUME Init PROVE CInv
  OBVIOUS
<1>1. Frames /\ Solvent
  BY DEF Init, Frames, Solvent
<1>2. ASSUME NEW o \in Objects, NEW K PROVE Running(o, K) = 0
  <2>1. InCallback(o, K) = {}
    BY OwnershipAssumption DEF Init, InCallback, Idle
  <2>2. QED  BY <2>1, FS_EmptySet DEF Running
<1>3. QED  BY <1>1, <1>2 DEF Init, CInv, Passed

LEMMA EnterCInv ==
    ASSUME IInv, CInv, NEW t \in Threads, NEW o \in Objects, NEW k \in Trampolines,
           Enter(t, k, o),
           \/ k \in GivenKinds /\ given' = Plus(given, o) /\ UNCHANGED lent
           \/ k \in LentKinds /\ lent' = Plus(lent, o) /\ UNCHANGED given,
           owned' = owned \/ owned' = Plus(owned, o)
    PROVE  CInv'
<1>1. /\ GivenKinds \in SUBSET Trampolines /\ LentKinds \in SUBSET Trampolines
      /\ GivenKinds \cap LentKinds = {}
  BY DEF GivenKinds, LentKinds, Trampolines
<1>2. Frames /\ frame[t] = Idle /\ frame' = [frame EXCEPT ![t] = [kind |-> k, obj |-> o]]
  BY DEF Enter, CInv
<1>3. \A p \in Objects : Running(p, GivenKinds)' =
        IF p = o /\ k \in GivenKinds
          THEN Running(p, GivenKinds) + 1 ELSE Running(p, GivenKinds)
  BY <1>1, <1>2, Entered
<1>4. \A p \in Objects : Running(p, LentKinds)' =
        IF p = o /\ k \in LentKinds
          THEN Running(p, LentKinds) + 1 ELSE Running(p, LentKinds)
  BY <1>1, <1>2, Entered
<1> USE DEF IInv, Tables, CInv
<1>5. Passed'
  <2>1. CASE k \in GivenKinds
    <3>1. given' = Plus(given, o) /\ lent' = lent /\ k \notin LentKinds
      BY <1>1, <2>1
    <3>2. \A p \in Objects : given'[p] = IF p = o THEN given[p] + 1 ELSE given[p]
      BY <3>1, Change
    <3>3. QED  BY <1>3, <1>4, <2>1, <3>1, <3>2 DEF Passed
  <2>2. CASE k \in LentKinds
    <3>1. lent' = Plus(lent, o) /\ given' = given /\ k \notin GivenKinds
      BY <1>1, <2>2
    <3>2. \A p \in Objects : lent'[p] = IF p = o THEN lent[p] + 1 ELSE lent[p]
      BY <3>1, Change
    <3>3. QED  BY <1>3, <1>4, <2>2, <3>1, <3>2 DEF Passed
  <2>3. QED  BY <2>1, <2>2
<1>6. Frames'
  BY <1>1, <1>2, Entered
<1>7. Solvent'
  <2>1. \A p \in Objects : core[p] \in Int /\ owned[p] \in Int
    BY DEF Numbers
  <2>2. \A p \in Objects : owned'[p] = owned[p] \/ owned'[p] = owned[p] + 1
    <3>1. \A p \in Objects : Plus(owned, o)[p] = owned[p] \/ Plus(owned, o)[p] = owned[p] + 1
      <4>1. owned \in Numbers
        OBVIOUS
      <4>2. QED  BY <4>1, Change
    <3>2. CASE owned' = Plus(owned, o)
      BY <3>1, <3>2
    <3>3. QED  BY <3>2
  <2>3. \A p \in Objects : core'[p] = IF p = o THEN core[p] - 1 ELSE core[p]
    BY Change DEF Enter
  <2>4. core[o] > 0 /\ manual' = manual
    BY DEF Enter
  <2>5. QED  BY <2>1, <2>2, <2>3, <2>4 DEF Solvent
<1>8. QED  BY <1>5, <1>6, <1>7

LEMMA LeaveCInv ==
    ASSUME IInv, CInv, NEW t \in Threads, NEW o \in Objects, NEW k \in Trampolines,
           Leave(t, k, o),
           \/ k \in GivenKinds /\ given' = Minus(given, o) /\ UNCHANGED lent
           \/ k \in LentKinds /\ lent' = Minus(lent, o) /\ UNCHANGED given,
           core' = core \/ core' = Plus(core, o), UNCHANGED <<owned, manual>>
    PROVE  CInv'
<1> USE DEF IInv, Tables, CInv
<1>1. /\ GivenKinds \in SUBSET Trampolines /\ LentKinds \in SUBSET Trampolines
      /\ GivenKinds \cap LentKinds = {}
  BY DEF GivenKinds, LentKinds, Trampolines
<1>2. Frames'
  BY <1>1, Left
<1>3. Passed'
  <2>1. \A p \in Objects : Running(p, GivenKinds)' =
          IF p = o /\ k \in GivenKinds
            THEN Running(p, GivenKinds) - 1 ELSE Running(p, GivenKinds)
    BY <1>1, <1>2, Left
  <2>2. \A p \in Objects : Running(p, LentKinds)' =
          IF p = o /\ k \in LentKinds
            THEN Running(p, LentKinds) - 1 ELSE Running(p, LentKinds)
    BY <1>1, <1>2, Left
  <2>3. CASE k \in GivenKinds
    <3>1. given' = Minus(given, o) /\ lent' = lent /\ k \notin LentKinds
      BY <1>1, <2>3
    <3>2. \A p \in Objects : given'[p] = IF p = o THEN given[p] - 1 ELSE given[p]
      BY <3>1, Change
    <3>3. QED  BY <2>1, <2>2, <2>3, <3>1, <3>2 DEF Passed
  <2>4. CASE k \in LentKinds
    <3>1. lent' = Minus(lent, o) /\ given' = given /\ k \notin GivenKinds
      BY <1>1, <2>4
    <3>2. \A p \in Objects : lent'[p] = IF p = o THEN lent[p] - 1 ELSE lent[p]
      BY <3>1, Change
    <3>3. QED  BY <2>1, <2>2, <2>4, <3>1, <3>2 DEF Passed
  <2>5. QED  BY <2>3, <2>4
<1>4. Solvent'
  <2>1. \A p \in Objects : core[p] \in Int
    BY DEF Numbers
  <2>2. \A p \in Objects : core'[p] = core[p] \/ core'[p] = core[p] + 1
    <3>1. \A p \in Objects : Plus(core, o)[p] = core[p] \/ Plus(core, o)[p] = core[p] + 1
      <4>1. core \in Numbers
        OBVIOUS
      <4>2. QED  BY <4>1, Change
    <3>2. CASE core' = Plus(core, o)
      BY <3>1, <3>2
    <3>3. QED  BY <3>2
  <2>3. QED  BY <2>1, <2>2 DEF Solvent
<1>5. QED  BY <1>2, <1>3, <1>4

LEMMA CallbackCInv ==
    ASSUME IInv, CInv, NEW o \in Objects, NEW t \in Threads, Callback(t, o)
    PROVE  CInv'
<1> USE DEF Trampolines, GivenKinds, LentKinds
<1>1. CASE EnterLend(t, o)
  BY <1>1, EnterCInv DEF EnterLend
<1>2. CASE LeaveLend(t, o)
  BY <1>2, LeaveCInv DEF LeaveLend
<1>3. CASE EnterProbe(t, o)
  BY <1>3, EnterCInv DEF EnterProbe
<1>4. CASE LeaveProbe(t, o)
  BY <1>4, LeaveCInv DEF LeaveProbe
<1>5. CASE EnterCollect(t, o)
  BY <1>5, EnterCInv DEF EnterCollect
<1>6. CASE LeaveCollect(t, o)
  BY <1>6, LeaveCInv DEF LeaveCollect
<1>7. CASE EnterEvent(t, o)
  BY <1>7, EnterCInv DEF EnterEvent
<1>8. CASE EnterSink(t, o)
  BY <1>8, EnterCInv DEF EnterSink
<1>9. ASSUME NEW k \in {"event", "sink"}, ChainUp(t, k, o) PROVE CInv'
  BY <1>9, LeaveCInv DEF ChainUp
<1>10. ASSUME NEW k \in {"event", "sink"}, Drop(t, k, o) PROVE CInv'
  BY <1>10, LeaveCInv DEF Drop
<1>11. CASE EnterChain(t, o)
  BY <1>11, EnterCInv DEF EnterChain
<1>12. CASE LeaveChain(t, o)
  BY <1>12, LeaveCInv DEF LeaveChain
<1>13. CASE EnterFixate(t, o)
  BY <1>13, EnterCInv DEF EnterFixate
<1>14. CASE LeaveFixate(t, o)
  BY <1>14, LeaveCInv DEF LeaveFixate
<1>15. QED
  BY <1>1, <1>2, <1>3, <1>4, <1>5, <1>6, <1>7, <1>8, <1>9, <1>10, <1>11, <1>12,
     <1>13, <1>14 DEF Callback

\* What the application and the core do outside callbacks.
LEMMA OutsideCInv ==
    ASSUME IInv, CInv, NEW o \in Objects, Application(o) \/ Core(o)
    PROVE  CInv'
<1>1. UNCHANGED <<frame, given, lent>>
  BY DEF Application, New, Ref, Unref, Push, Pop, Get, PullRange, GetRange,
     MakeWritable, Collect, Core, CoreNew, CoreRef, CoreUnref, vars
<1>2. Frames' /\ Passed'
  BY <1>1 DEF CInv, Frames, Passed, Running, InCallback
<1>3. /\ core' = core \/ core' = Plus(core, o) \/ (core[o] > 0 /\ core' = Minus(core, o))
      /\ owned' = owned \/ owned' = Plus(owned, o) \/ (owned[o] > 0 /\ owned' = Minus(owned, o))
      /\ manual' = manual \/ manual' = Plus(manual, o)
           \/ (manual[o] > 0 /\ manual' = Minus(manual, o))
  BY DEF Application, New, Ref, Unref, Push, Pop, Get, PullRange, GetRange,
     MakeWritable, Collect, Core, CoreNew, CoreRef, CoreUnref, vars
<1>4. Solvent'
  <2>1. ASSUME NEW f \in Numbers, NEW g, \A p \in Objects : f[p] >= 0,
               g = f \/ g = Plus(f, o) \/ (f[o] > 0 /\ g = Minus(f, o))
        PROVE  \A p \in Objects : g[p] >= 0
    <3>1. \A p \in Objects : f[p] \in Int
      BY DEF Numbers
    <3>2. CASE g = f
      BY <2>1, <3>2
    <3>3. CASE g = Plus(f, o)
      <4>1. \A p \in Objects : g[p] = IF p = o THEN f[p] + 1 ELSE f[p]
        BY <3>3, Change
      <4>2. QED  BY <2>1, <3>1, <4>1
    <3>4. CASE f[o] > 0 /\ g = Minus(f, o)
      <4>1. \A p \in Objects : g[p] = IF p = o THEN f[p] - 1 ELSE f[p]
        BY <3>4, Change
      <4>2. QED  BY <2>1, <3>1, <3>4, <4>1
    <3>5. QED  BY <2>1, <3>2, <3>3, <3>4
  <2>2. QED  BY <1>3, <2>1 DEF IInv, Tables, CInv, Solvent
<1>5. QED  BY <1>2, <1>4 DEF CInv

LEMMA NextCInv == IInv /\ CInv /\ [Next]_vars => CInv'
<1>1. CASE UNCHANGED vars
  BY <1>1 DEF vars, CInv, Frames, Passed, Solvent, Running, InCallback
<1>2. QED  BY <1>1, CallbackCInv, OutsideCInv DEF Next

\* The references C has passed to Go are those of the callbacks that run, one
\* for each, whatever the callbacks do and however they overlap: a trampoline
\* settles exactly what it was called with.
THEOREM CallbacksSettle == Spec => []Passed
<1>1. CInv => Passed
  BY DEF CInv
<1>2. QED  BY InitIInv, NextIInv, InitCInv, NextCInv, <1>1, PTL DEF Spec

\* The variables keep their types: nobody gives back a reference he does not have.
THEOREM Typed == Spec => []TypeOK
<1>1. IInv /\ CInv => TypeOK
  <2> SUFFICES ASSUME IInv, CInv PROVE TypeOK
    OBVIOUS
  <2>1. \A o \in Objects, K \in SUBSET Trampolines : Running(o, K) \in Nat
    BY OwnershipAssumption, FS_Subset, FS_CardinalityType DEF InCallback, Running
  <2>2. \A o \in Objects : given[o] \in Nat /\ lent[o] \in Nat
    BY <2>1 DEF CInv, Passed, GivenKinds, LentKinds, Trampolines
  <2>3. \A o \in Objects : core[o] \in Nat /\ owned[o] \in Nat /\ manual[o] \in Nat
    BY DEF IInv, Tables, Numbers, CInv, Solvent
  <2>4. /\ core \in Counter /\ owned \in Counter /\ manual \in Counter
        /\ given \in Counter /\ lent \in Counter
    BY <2>2, <2>3 DEF IInv, Tables, Numbers, Counter
  <2>5. QED  BY <2>4 DEF TypeOK, IInv, Tables, Numbers, CInv, Frames
<1>2. QED  BY InitIInv, NextIInv, InitCInv, NextCInv, <1>1, PTL DEF Spec

\* No object is freed under a callback that works with it, when no unbalanced
\* operation is applied to it.
THEOREM CalledAlive ==
    Spec => [](\A o \in Balanced : InCallback(o, Trampolines) # {} => count[o] > 0)
<1>1. TypeOK /\ IInv /\ CInv /\ NoExcess =>
        \A o \in Balanced : InCallback(o, Trampolines) # {} => count[o] > 0
  <2> SUFFICES ASSUME TypeOK, IInv, CInv, NoExcess, NEW o \in Balanced,
                      InCallback(o, Trampolines) # {}
               PROVE  count[o] > 0
    OBVIOUS
  <2>1. o \in Objects
    BY BalancedUses
  <2>2. InCallback(o, GivenKinds) # {} \/ InCallback(o, LentKinds) # {}
    BY DEF InCallback, Trampolines, GivenKinds, LentKinds
  <2>3. \A K : IsFiniteSet(InCallback(o, K))
    BY OwnershipAssumption, FS_Subset DEF InCallback
  <2>4. Running(o, GivenKinds) # 0 \/ Running(o, LentKinds) # 0
    BY <2>2, <2>3, FS_EmptySet DEF Running
  <2>5. given[o] # 0 \/ lent[o] # 0
    BY <2>1, <2>4 DEF CInv, Passed
  <2>6. /\ core[o] \in Nat /\ given[o] \in Nat /\ lent[o] \in Nat
        /\ owned[o] \in Nat /\ manual[o] \in Nat
    BY <2>1 DEF TypeOK, Counter
  <2>7. Claims(o) \in Nat /\ Claims(o) # 0
    <3>1. Claims(o) = core[o] + given[o] + lent[o] + owned[o] + manual[o]
      BY DEF Claims
    <3>2. \A a, b, c, d, e \in Nat :
            a + b + c + d + e \in Nat /\ (b # 0 \/ c # 0 => a + b + c + d + e # 0)
      OBVIOUS
    <3>3. QED  BY <2>5, <2>6, <3>1, <3>2
  <2>8. count[o] = Claims(o) + excess[o] /\ excess[o] = 0
    BY <2>1 DEF IInv, Accounted, NoExcess
  <2>9. QED  BY <2>7, <2>8
<1>2. QED
  BY Typed, InitIInv, NextIInv, InitCInv, NextCInv, InitNoExcess, NextNoExcess, <1>1, PTL
  DEF Spec
=============================================================================
