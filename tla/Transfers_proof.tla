---------------------------- MODULE Transfers_proof ----------------------------
(***************************************************************************)
(* Proofs about module Transfers, for any table, holders, items and        *)
(* threads.  The tables of the bindings have rows in which Go and C        *)
(* disagree; what is proved is that they do harm to the items they move    *)
(* and to nothing else.                                                    *)
(***************************************************************************)
EXTENDS Transfers, FiniteSetTheorems, TLAPS

\* The two sides of a row agree.
Fits(r) == r.what \in {"object", "structure", "memory"} /\ Agrees(r)

\* They do in all rows the behaviour uses.
RowsFit == \A r \in Passing \cup Returning : Fits(r)

\* They do in the calls that get or return one of the items in G.
Spared(G) ==
    \A t \in Threads : frame[t] # Idle /\ frame[t].item \in G => Fits(frame[t].row)

Held(x) == Cardinality(holders[x])
Carried(x) == Cardinality(Carrying(x))

\* The count of a thing is the number of those that will let go of it.
Exact(G) == \A x \in Holders \cup G : count[x] = Claims(x)

\* A structure or memory has at most one owner.
Single(G) == \A x \in G \cap (Structures \cup Memory) : Claims(x) <= 1

\* No holder is in two calls, none is given what it has, and the item of a call
\* is of the sort its row is for.
Apart ==
    \A t \in Threads : frame[t] # Idle =>
        /\ frame[t].item \in OfKind(frame[t].row.what)
        /\ \A u \in Threads \ {t} : frame[u].holder # frame[t].holder
        /\ frame[t].row.way = "arg" => frame[t].holder \notin holders[frame[t].item]

IInv(G) == TypeOK /\ Exact(G) /\ Single(G) /\ Apart

Calls == [row : Passing \cup Returning, item : Items, holder : Holders]

-----------------------------------------------------------------------------
\* Sets of holders and of threads have a size.
LEMMA Sizes ==
    /\ \A S \in SUBSET Holders : Cardinality(S) \in Nat /\ (Cardinality(S) = 0 <=> S = {})
    /\ \A S \in SUBSET Threads : Cardinality(S) \in Nat
BY TransfersAssumption, FS_Subset, FS_CardinalityType, FS_EmptySet

\* A call that begins carries its item when its row says so.
LEMMA Begins ==
    ASSUME TypeOK, NEW t \in Threads, frame[t] = Idle, NEW c \in Calls,
           frame' = [frame EXCEPT ![t] = c]
    PROVE  \A x \in All :
             Carried(x)' = IF x = c.item /\ CarryingRow(c.row)
                             THEN Carried(x) + 1 ELSE Carried(x)
<1> SUFFICES ASSUME NEW x \in All
             PROVE  Carried(x)' = IF x = c.item /\ CarryingRow(c.row)
                                    THEN Carried(x) + 1 ELSE Carried(x)
  OBVIOUS
<1>1. t \notin Carrying(x)
  BY TransfersAssumption DEF Carrying, Idle, CarryingRow
<1>2. frame'[t] = c /\ \A u \in Threads \ {t} : frame'[u] = frame[u]
  BY DEF TypeOK
<1>3. IsFiniteSet(Carrying(x))
  BY TransfersAssumption, FS_Subset DEF Carrying
<1>4. CASE x = c.item /\ CarryingRow(c.row)
  <2>1. Carrying(x)' = Carrying(x) \cup {t}
    BY <1>2, <1>4 DEF Carrying, CarryingRow
  <2>2. QED  BY <2>1, <1>1, <1>3, <1>4, FS_AddElement DEF Carried
<1>5. CASE ~(x = c.item /\ CarryingRow(c.row))
  <2>1. Carrying(x)' = Carrying(x)
    BY <1>1, <1>2, <1>5 DEF Carrying, CarryingRow
  <2>2. QED  BY <2>1, <1>5 DEF Carried
<1>6. QED  BY <1>4, <1>5

\* A call that returns carries nothing any more.
LEMMA Ends ==
    ASSUME TypeOK, NEW t \in Threads, frame[t] \in Calls,
           frame' = [frame EXCEPT ![t] = Idle]
    PROVE  \A x \in All :
             Carried(x)' = IF x = frame[t].item /\ CarryingRow(frame[t].row)
                             THEN Carried(x) - 1 ELSE Carried(x)
<1> SUFFICES ASSUME NEW x \in All
             PROVE  Carried(x)' = IF x = frame[t].item /\ CarryingRow(frame[t].row)
                                    THEN Carried(x) - 1 ELSE Carried(x)
  OBVIOUS
<1>2. frame'[t] = Idle /\ \A u \in Threads \ {t} : frame'[u] = frame[u]
  BY DEF TypeOK
<1>1. t \notin Carrying(x)'
  BY <1>2, TransfersAssumption DEF Carrying, Idle, CarryingRow
<1>3. IsFiniteSet(Carrying(x))
  BY TransfersAssumption, FS_Subset DEF Carrying
<1>4. CASE x = frame[t].item /\ CarryingRow(frame[t].row)
  <2>1. Carrying(x)' = Carrying(x) \ {t} /\ t \in Carrying(x)
    BY <1>1, <1>2, <1>4 DEF Carrying, CarryingRow
  <2>2. QED  BY <2>1, <1>3, <1>4, FS_RemoveElement DEF Carried
<1>5. CASE ~(x = frame[t].item /\ CarryingRow(frame[t].row))
  <2>1. Carrying(x)' = Carrying(x)
    BY <1>1, <1>2, <1>5 DEF Carrying, CarryingRow
  <2>2. QED  BY <2>1, <1>5 DEF Carried
<1>6. QED  BY <1>4, <1>5

\* No call begins or ends.
LEMMA FrameStays ==
    ASSUME UNCHANGED frame
    PROVE  \A x \in All : Carried(x)' = Carried(x)
BY DEF Carried, Carrying, CarryingRow

\* A holder takes an item it does not have.
LEMMA Holds ==
    ASSUME TypeOK, NEW h \in Holders, NEW i \in Items, h \notin holders[i],
           holders' = [holders EXCEPT ![i] = @ \cup {h}]
    PROVE  \A x \in All : Held(x)' = IF x = i THEN Held(x) + 1 ELSE Held(x)
<1>1. i \in All /\ IsFiniteSet(holders[i])
  BY TransfersAssumption, FS_Subset DEF TypeOK, All
<1>2. Cardinality(holders[i] \cup {h}) = Cardinality(holders[i]) + 1
  BY <1>1, FS_AddElement
<1>3. QED  BY <1>1, <1>2 DEF Held, TypeOK

\* A holder lets go of an item it has.
LEMMA LetsGo ==
    ASSUME TypeOK, NEW h \in Holders, NEW i \in Items, h \in holders[i],
           holders' = [holders EXCEPT ![i] = @ \ {h}]
    PROVE  \A x \in All : Held(x)' = IF x = i THEN Held(x) - 1 ELSE Held(x)
<1>1. i \in All /\ IsFiniteSet(holders[i])
  BY TransfersAssumption, FS_Subset DEF TypeOK, All
<1>2. Cardinality(holders[i] \ {h}) = Cardinality(holders[i]) - 1
  BY <1>1, FS_RemoveElement
<1>3. QED  BY <1>1, <1>2 DEF Held, TypeOK

LEMMA HoldersStay ==
    ASSUME UNCHANGED holders
    PROVE  \A x \in All : Held(x)' = Held(x)
BY DEF Held

-----------------------------------------------------------------------------
\* The tables, the frames and the loans keep their types.
LEMMA TypeInit == Init => TypeOK
BY DEF Init, TypeOK, Counter

\* What a holder does.
LEMMA TypeHolder ==
    ASSUME TypeOK, NEW h \in Holders,
           \/ Make(h) \/ Send(h) \/ Receive(h) \/ CoreUnref(h)
           \/ \E i \in Items : Arrive(h, i) \/ Release(h, i)
    PROVE  TypeOK'
<1> h \in All /\ Items \subseteq All
  BY DEF All
<1> USE DEF TypeOK, Counter, Add
<1>1. CASE Make(h)
  BY <1>1 DEF Make
<1>2. CASE Send(h)
  BY <1>2 DEF Send
<1>3. CASE Receive(h)
  BY <1>3 DEF Receive
<1>4. CASE CoreUnref(h)
  BY <1>4 DEF CoreUnref
<1>5. ASSUME NEW i \in Items, Arrive(h, i) PROVE TypeOK'
  BY <1>5 DEF Arrive
<1>6. ASSUME NEW i \in Items, Release(h, i) PROVE TypeOK'
  BY <1>6 DEF Release
<1>7. QED  BY <1>1, <1>2, <1>3, <1>4, <1>5, <1>6

LEMMA TypeApplication ==
    ASSUME TypeOK, NEW x \in All, Finalize(x) \/ Unref(x)
    PROVE  TypeOK'
<1> USE DEF TypeOK, Counter, Add
<1>1. CASE Finalize(x)
  BY <1>1 DEF Finalize
<1>2. CASE Unref(x)
  BY <1>2 DEF Unref, LastUse
<1>3. QED  BY <1>1, <1>2

LEMMA TypeBegin ==
    ASSUME TypeOK, NEW t \in Threads, NEW h \in Holders, NEW i \in Items,
           \/ \E a \in Passing : Pass(t, h, i, a)
           \/ \E r \in Returning : Fetch(t, h, i, r)
    PROVE  TypeOK'
<1> i \in All
  BY DEF All
<1> USE DEF TypeOK, Counter, Add, One
<1>1. ASSUME NEW a \in Passing, Pass(t, h, i, a) PROVE TypeOK'
  BY <1>1 DEF Pass, LastUse
<1>2. ASSUME NEW r \in Returning, Fetch(t, h, i, r) PROVE TypeOK'
  BY <1>2 DEF Fetch
<1>3. QED  BY <1>1, <1>2

\* The two sorts of rows.
LEMMA RowWays ==
    /\ \A a \in Passing : a.way = "arg"
    /\ \A r \in Returning : r.way = "result"
<1>1. ASSUME NEW way, NEW r \in Ways(way) PROVE r.way = way
  <2>1. PICK s \in Rows :
          s.way = way /\ r = [way |-> s.way, what |-> s.what, go |-> s.go, c |-> s.c]
    BY DEF Ways
  <2>2. QED  BY <2>1
<1>2. QED  BY <1>1 DEF Passing, Returning

\* A thread in a call has the frame of one.
LEMMA InCall ==
    ASSUME TypeOK, NEW t \in Threads,
           frame[t].row.way \in {"arg", "result"}
    PROVE  /\ frame[t] \in Calls
           /\ frame[t].item \in Items /\ frame[t].item \in All
           /\ frame[t].holder \in Holders
           /\ frame[t].row.way = "arg" => frame[t].row \in Passing
           /\ frame[t].row.way = "result" => frame[t].row \in Returning
<1>1. frame[t] \in Calls
  BY DEF TypeOK, Calls, Idle
<1>2. frame[t].row \in Passing \cup Returning
  BY <1>1 DEF Calls
<1>3. QED  BY <1>1, <1>2, RowWays DEF Calls, All

LEMMA TypeEnd ==
    ASSUME TypeOK, NEW t \in Threads, PassReturns(t) \/ FetchReturns(t)
    PROVE  TypeOK'
<1> USE DEF TypeOK, Counter, Add, One
<1>1. CASE PassReturns(t)
  <2>1. frame[t].item \in All /\ frame[t].holder \in Holders
    BY <1>1, InCall DEF PassReturns
  <2>2. holders' \in [All -> SUBSET Holders]
    BY <1>1, <2>1 DEF PassReturns
  <2>3. count' \in [All -> Int]
    BY <1>1, <2>1 DEF PassReturns
  <2>4. QED  BY <1>1, <2>2, <2>3 DEF PassReturns
<1>2. CASE FetchReturns(t)
  <2>1. frame[t].item \in Items /\ frame[t].item \in All /\ frame[t].holder \in Holders
    BY <1>2, InCall DEF FetchReturns
  <2>2. loans' \subseteq [item : Items, holder : Holders, kept : BOOLEAN]
    <3>1. [item |-> frame[t].item, holder |-> frame[t].holder,
           kept |-> frame[t].row.go = "kept" /\ wrapped[frame[t].holder] > 0]
             \in [item : Items, holder : Holders, kept : BOOLEAN]
      BY <2>1
    <3>2. QED  BY <1>2, <3>1 DEF FetchReturns
  <2>3. count' \in [All -> Int] /\ wrapped' \in [All -> Nat] /\ manual' \in [All -> Nat]
    BY <1>2, <2>1 DEF FetchReturns
  <2>4. QED  BY <1>2, <2>2, <2>3 DEF FetchReturns
<1>3. QED  BY <1>1, <1>2

LEMMA TypeNext == TypeOK /\ [Next]_vars => TypeOK'
<1>1. CASE UNCHANGED vars
  BY <1>1 DEF vars, TypeOK
<1>2. ASSUME TypeOK, Next PROVE TypeOK'
  <2>1. ASSUME NEW l \in loans, DropLoan(l) PROVE TypeOK'
    BY <1>2, <2>1 DEF DropLoan, TypeOK
  <2>2. QED
    BY <1>2, <2>1, TypeHolder, TypeApplication, TypeBegin, TypeEnd DEF Next
<1>3. QED  BY <1>1, <1>2

-----------------------------------------------------------------------------
\* What a fitting argument can be.
LEMMA FittingArguments ==
    ASSUME NEW a \in Passing, Fits(a)
    PROVE  /\ a.way = "arg"
           /\ CarryingRow(a) <=> a.go \in {"ref", "temp", "made", "yielded"}
           /\ \/ a.go = "plain" /\ a.c \in {"none", "keeps"}
              \/ a.go = "ref" /\ a.c = "consumes" /\ a.what = "object"
              \/ a.go = "copy" /\ a.c = "consumes" /\ a.what # "object"
              \/ a.go = "temp" /\ a.c \in {"none", "keeps"} /\ a.what # "object"
              \/ a.go \in {"made", "yielded"} /\ a.c = "consumes" /\ a.what # "object"
           /\ OfKind(a.what) \subseteq
                IF a.what = "object" THEN Objects ELSE Structures \cup Memory
BY RowWays DEF Fits, Agrees, CarryingRow, OfKind

\* What a fitting result can be.
LEMMA FittingResults ==
    ASSUME NEW r \in Returning, Fits(r)
    PROVE  /\ r.way = "result"
           /\ CarryingRow(r) <=> r.c \in {"full", "floating"}
           /\ \/ r.c = "full" /\ r.go \in {"full", "handed", "freed"}
              \/ r.c = "none" /\ r.go \in {"bare", "kept", "copied"}
              \/ r.c \in {"none", "floating"} /\ r.go = "none" /\ r.what = "object"
           /\ OfKind(r.what) \subseteq
                IF r.what = "object" THEN Objects ELSE Structures \cup Memory
BY RowWays DEF Fits, Agrees, CarryingRow, OfKind

\* The sums before and after a step.
LEMMA Sums ==
    ASSUME TypeOK, TypeOK'
    PROVE  \A x \in All :
        /\ Held(x) \in Nat /\ Carried(x) \in Nat
        /\ Held(x)' \in Nat /\ Carried(x)' \in Nat
        /\ wrapped[x] \in Nat /\ manual[x] \in Nat /\ core[x] \in Nat
        /\ wrapped'[x] \in Nat /\ manual'[x] \in Nat /\ core'[x] \in Nat
        /\ count[x] \in Int /\ count'[x] \in Int
        /\ Claims(x) = wrapped[x] + manual[x] + core[x] + Held(x) + Carried(x)
        /\ Claims(x)' = wrapped'[x] + manual'[x] + core'[x] + Held(x)' + Carried(x)'
<1> SUFFICES ASSUME NEW x \in All
    PROVE
        /\ Held(x) \in Nat /\ Carried(x) \in Nat
        /\ Held(x)' \in Nat /\ Carried(x)' \in Nat
        /\ wrapped[x] \in Nat /\ manual[x] \in Nat /\ core[x] \in Nat
        /\ wrapped'[x] \in Nat /\ manual'[x] \in Nat /\ core'[x] \in Nat
        /\ count[x] \in Int /\ count'[x] \in Int
        /\ Claims(x) = wrapped[x] + manual[x] + core[x] + Held(x) + Carried(x)
        /\ Claims(x)' = wrapped'[x] + manual'[x] + core'[x] + Held(x)' + Carried(x)'
  OBVIOUS
<1>1. holders[x] \in SUBSET Holders /\ holders'[x] \in SUBSET Holders
  BY DEF TypeOK
<1>2. Carrying(x) \in SUBSET Threads /\ Carrying(x)' \in SUBSET Threads
  BY DEF Carrying
<1>3. /\ Held(x) \in Nat /\ Carried(x) \in Nat
      /\ Held(x)' \in Nat /\ Carried(x)' \in Nat
  BY <1>1, <1>2, Sizes DEF Held, Carried
<1>4. /\ Claims(x) = wrapped[x] + manual[x] + core[x] + Held(x) + Carried(x)
      /\ Claims(x)' = wrapped'[x] + manual'[x] + core'[x] + Held(x)' + Carried(x)'
  BY DEF Claims, Held, Carried
<1>5. QED  BY <1>3, <1>4 DEF TypeOK, Counter

\* Holders are not items, and structures and memory are no objects.
LEMMA Sorts ==
    /\ Items \subseteq All /\ Holders \subseteq All
    /\ \A h \in Holders : h \notin Items /\ h \notin Structures \cup Memory
    /\ Structures \cup Memory \subseteq Items /\ Objects \subseteq Items
    /\ \A i \in Objects : i \notin Structures \cup Memory
BY TransfersAssumption DEF Items, All

-----------------------------------------------------------------------------
\* Holders come and go, are sent, received and released with their count.
LEMMA ExactHolder ==
    ASSUME NEW G \in SUBSET Items, IInv(G), TypeOK',
           NEW h \in Holders,
           Make(h) \/ Send(h) \/ Receive(h) \/ CoreUnref(h)
    PROVE  Exact(G)' /\ Single(G)' /\ Apart'
<1> USE Sorts, Sums DEF IInv
<1>1. UNCHANGED <<holders, frame>>
  BY DEF Make, Send, Receive, CoreUnref
<1>2. Apart'
  BY <1>1 DEF Apart
<1>3. \A x \in All : Held(x)' = Held(x) /\ Carried(x)' = Carried(x)
  BY <1>1, HoldersStay, FrameStays
<1>4. Exact(G)'
  BY <1>3 DEF Exact, Make, Send, Receive, CoreUnref, Add, TypeOK, Counter
<1>5. \A x \in Items : UNCHANGED <<wrapped[x], manual[x], core[x]>>
  BY DEF Make, Send, Receive, CoreUnref, Add, TypeOK, Counter
<1>6. Single(G)'
  BY <1>3, <1>5 DEF Single
<1>7. QED  BY <1>2, <1>4, <1>6

\* A holder that arrives from C brings an item or a reference to one.
LEMMA ExactArrive ==
    ASSUME NEW G \in SUBSET Items, IInv(G), TypeOK',
           NEW h \in Holders, NEW i \in Items, Arrive(h, i)
    PROVE  Exact(G)' /\ Single(G)' /\ Apart'
<1> USE Sorts, Sums DEF IInv
<1>1. h \notin holders[i] /\ UNCHANGED frame
  BY DEF Arrive, Fresh
<1>2. \A x \in All : /\ Held(x)' = IF x = i THEN Held(x) + 1 ELSE Held(x)
                     /\ Carried(x)' = Carried(x)
  BY <1>1, Holds, FrameStays DEF Arrive
<1>3. Exact(G)'
  BY <1>2 DEF Exact, Arrive, Add, TypeOK, Counter
<1>4. Single(G)'
  <2>1. \A x \in Items : UNCHANGED <<wrapped[x], manual[x], core[x]>>
    BY DEF Arrive, Add, TypeOK, Counter
  <2>2. i \in Structures \cup Memory => Claims(i) = 0
    BY DEF Arrive, Fresh
  <2>3. QED  BY <1>2, <2>1, <2>2 DEF Single
<1>5. Apart'
  <2>1. \A t \in Threads : frame[t].holder # h
    BY DEF Arrive, Fresh, Using
  <2>2. \A x \in All : holders'[x] = holders[x] \/ holders'[x] = holders[x] \cup {h}
    BY DEF Arrive, TypeOK
  <2>3. \A t \in Threads : frame[t] # Idle => frame[t].item \in All
    BY DEF TypeOK
  <2>4. QED  BY <1>1, <2>1, <2>2, <2>3 DEF Apart
<1>6. QED  BY <1>3, <1>4, <1>5

\* A freed holder gives back the reference it had.
LEMMA ExactRelease ==
    ASSUME NEW G \in SUBSET Items, IInv(G), TypeOK',
           NEW h \in Holders, NEW i \in Items, Release(h, i)
    PROVE  Exact(G)' /\ Single(G)' /\ Apart'
<1> USE Sorts, Sums DEF IInv
<1>1. UNCHANGED <<frame, wrapped, manual, core>>
  BY DEF Release
<1>2. \A x \in All : /\ Held(x)' = IF x = i THEN Held(x) - 1 ELSE Held(x)
                     /\ Carried(x)' = Carried(x)
  BY <1>1, LetsGo, FrameStays DEF Release
<1>3. Exact(G)'
  <2>1. \A x \in All : count'[x] = IF x = i THEN count[x] - 1 ELSE count[x]
    BY DEF Release, Add, TypeOK
  <2>2. SUFFICES ASSUME NEW y \in Holders \cup G PROVE count'[y] = Claims(y)'
    BY DEF Exact
  <2>3. QED  BY <1>1, <1>2, <2>1 DEF Exact
<1>4. Single(G)'
  BY <1>1, <1>2 DEF Single
<1>5. Apart'
  <2>1. \A x \in All : holders'[x] \subseteq holders[x]
    BY DEF Release, TypeOK
  <2>2. \A t \in Threads : frame[t] # Idle => frame[t].item \in All
    BY DEF TypeOK
  <2>3. QED  BY <1>1, <2>1, <2>2 DEF Apart
<1>6. QED  BY <1>3, <1>4, <1>5

\* A finalizer gives back the reference of its wrapper: the wrapper of a
\* structure is its only owner, so C does not refuse to free it.
LEMMA ExactFinalize ==
    ASSUME NEW G \in SUBSET Items, IInv(G), TypeOK',
           NEW x \in All, Finalize(x)
    PROVE  Exact(G)' /\ Single(G)' /\ Apart'
<1> USE Sorts, Sums DEF IInv
<1>1. UNCHANGED <<frame, holders, manual, core>>
  BY DEF Finalize
<1>2. \A y \in All : Held(y)' = Held(y) /\ Carried(y)' = Carried(y)
  BY <1>1, HoldersStay, FrameStays
<1>3. \A y \in All : wrapped'[y] = IF y = x THEN wrapped[y] - 1 ELSE wrapped[y]
  BY DEF Finalize, Add, TypeOK, Counter
<1>4. x \in G => ~(x \in Structures /\ holders[x] # {})
  <2>1. SUFFICES ASSUME x \in G, x \in Structures, holders[x] # {} PROVE FALSE
    OBVIOUS
  <2>2. Held(x) # 0
    BY <2>1, Sizes DEF Held, TypeOK
  <2>3. wrapped[x] > 0
    BY DEF Finalize
  <2>4. Claims(x) <= 1
    BY <2>1 DEF Single
  <2>5. QED  BY <2>2, <2>3, <2>4
<1>5. \A y \in Holders \cup G : count'[y] = IF y = x THEN count[y] - 1 ELSE count[y]
  <2>1. x \in Holders \cup G => ~(x \in Structures /\ holders[x] # {})
    BY <1>4
  <2>2. \A y \in All : count'[y] = IF y = x /\ ~(x \in Structures /\ holders[x] # {})
                                     THEN count[y] - 1 ELSE count[y]
    BY DEF Finalize, Add, TypeOK, Counter
  <2>3. QED  BY <2>1, <2>2
<1>6. Exact(G)'
  <2>1. SUFFICES ASSUME NEW y \in Holders \cup G PROVE count'[y] = Claims(y)'
    BY DEF Exact
  <2>2. count[y] = Claims(y) /\ y \in All
    BY DEF Exact
  <2>3. QED  BY <1>1, <1>2, <1>3, <1>5, <2>2
<1>7. Single(G)'
  BY <1>1, <1>2, <1>3 DEF Single
<1>8. QED  BY <1>1, <1>6, <1>7 DEF Apart

LEMMA ExactUnref ==
    ASSUME NEW G \in SUBSET Items, IInv(G), TypeOK',
           NEW x \in All, Unref(x)
    PROVE  Exact(G)' /\ Single(G)' /\ Apart'
<1> USE Sorts, Sums DEF IInv
<1>1. UNCHANGED <<frame, holders, wrapped, core>>
  BY DEF Unref
<1>2. \A y \in All : Held(y)' = Held(y) /\ Carried(y)' = Carried(y)
  BY <1>1, HoldersStay, FrameStays
<1>3. \A y \in All : /\ manual'[y] = IF y = x THEN manual[y] - 1 ELSE manual[y]
                     /\ count'[y] = IF y = x THEN count[y] - 1 ELSE count[y]
  BY DEF Unref, Add, TypeOK, Counter
<1>4. Exact(G)'
  <2>1. SUFFICES ASSUME NEW y \in Holders \cup G PROVE count'[y] = Claims(y)'
    BY DEF Exact
  <2>2. count[y] = Claims(y)
    BY DEF Exact
  <2>3. /\ wrapped'[y] = wrapped[y] /\ core'[y] = core[y]
        /\ manual'[y] = IF y = x THEN manual[y] - 1 ELSE manual[y]
        /\ count'[y] = IF y = x THEN count[y] - 1 ELSE count[y]
        /\ Held(y)' = Held(y) /\ Carried(y)' = Carried(y)
    BY <1>1, <1>2, <1>3
  <2>4. QED  BY <2>2, <2>3
<1>5. Single(G)'
  BY <1>1, <1>2, <1>3 DEF Single
<1>6. QED  BY <1>1, <1>4, <1>5 DEF Apart

-----------------------------------------------------------------------------
\* Calls that begin and end keep Apart when the holder is in no other call.
LEMMA ApartBegins ==
    ASSUME NEW G \in SUBSET Items, IInv(G),
           NEW t \in Threads, frame[t] = Idle, NEW c \in Calls,
           Using(c.holder) = {},
           c.row.way = "arg" => c.holder \notin holders[c.item],
           c.item \in OfKind(c.row.what),
           frame' = [frame EXCEPT ![t] = c], UNCHANGED holders
    PROVE  Apart'
<1>1. \A u \in Threads : frame'[u] = IF u = t THEN c ELSE frame[u]
  BY DEF IInv, TypeOK
<1>2. \A u \in Threads : frame[u].holder # c.holder
  BY DEF Using
<1>3. QED  BY <1>1, <1>2 DEF Apart, IInv

LEMMA ApartEnds ==
    ASSUME NEW G \in SUBSET Items, IInv(G),
           NEW t \in Threads, frame[t] \in Calls,
           frame' = [frame EXCEPT ![t] = Idle],
           \A x \in All : holders'[x] \subseteq holders[x] \cup {frame[t].holder}
    PROVE  Apart'
<1>1. \A u \in Threads : frame'[u] = IF u = t THEN Idle ELSE frame[u]
  BY DEF IInv, TypeOK
<1>2. frame[t] # Idle
  BY TransfersAssumption DEF Calls, Idle, All
<1>3. \A u \in Threads \ {t} : frame[u].holder # frame[t].holder
  BY <1>2 DEF Apart, IInv
<1>4. Idle.holder = NoItem /\ frame[t].holder # NoItem
  BY TransfersAssumption DEF Idle, Calls, All
<1>5. \A u \in Threads : frame[u] # Idle =>
         frame[u].item \in All /\ frame[u].holder # NoItem
  BY TransfersAssumption DEF IInv, TypeOK, All
<1>6. SUFFICES ASSUME NEW u \in Threads, frame'[u] # Idle
      PROVE /\ frame'[u].item \in OfKind(frame'[u].row.what)
            /\ \A v \in Threads \ {u} : frame'[v].holder # frame'[u].holder
            /\ frame'[u].row.way = "arg" =>
                 frame'[u].holder \notin holders'[frame'[u].item]
  BY DEF Apart
<1>7. u # t /\ frame'[u] = frame[u] /\ frame[u] # Idle
  BY <1>1, <1>6
<1>8. \A v \in Threads \ {u} : frame'[v].holder # frame'[u].holder
  BY <1>1, <1>4, <1>5, <1>7 DEF Apart, IInv
<1>9. ASSUME frame'[u].row.way = "arg"
      PROVE  frame'[u].holder \notin holders'[frame'[u].item]
  BY <1>3, <1>5, <1>7, <1>9 DEF Apart, IInv
<1>10. frame'[u].item \in OfKind(frame'[u].row.what)
  BY <1>7 DEF Apart, IInv
<1>11. QED  BY <1>8, <1>9, <1>10

\* The row of a call that begins.
LEMMA BeginsFit ==
    ASSUME TypeOK, NEW G, Spared(G)', NEW t \in Threads, NEW c \in Calls,
           frame' = [frame EXCEPT ![t] = c]
    PROVE  c.item \in G => Fits(c.row)
<1>1. frame'[t] = c /\ c # Idle
  BY TransfersAssumption DEF TypeOK, Calls, Idle, All
<1>2. QED  BY <1>1 DEF Spared

LEMMA ExactPass ==
    ASSUME NEW G \in SUBSET Items, IInv(G), TypeOK', Spared(G)',
           NEW t \in Threads, NEW h \in Holders,
           NEW i \in Items, NEW a \in Passing, Pass(t, h, i, a)
    PROVE  Exact(G)' /\ Single(G)' /\ Apart'
<1> USE Sorts, Sums DEF IInv
<1> DEFINE c == [row |-> a, item |-> i, holder |-> h]
<1>1. c \in Calls
  BY DEF Calls
<1>0. i \in G => Fits(a)
  BY <1>1, BeginsFit DEF Pass
<1>2. \A x \in All :
         /\ Held(x)' = Held(x)
         /\ Carried(x)' = IF x = i /\ CarryingRow(a) THEN Carried(x) + 1 ELSE Carried(x)
  <2>1. frame' = [frame EXCEPT ![t] = c] /\ frame[t] = Idle /\ UNCHANGED holders
    BY DEF Pass
  <2>2. \A x \in All : Carried(x)' = IF x = c.item /\ CarryingRow(c.row)
                                        THEN Carried(x) + 1 ELSE Carried(x)
    BY <1>1, <2>1, Begins
  <2>3. QED  BY <2>1, <2>2, HoldersStay
<1>3. \A x \in All :
         /\ wrapped'[x] = wrapped[x] /\ core'[x] = core[x]
         /\ count'[x] = IF x = i /\ a.go \in {"ref", "temp", "made"}
                          THEN count[x] + 1 ELSE count[x]
         /\ manual'[x] = IF x = i /\ a.go = "yielded"
                           THEN manual[x] - 1 ELSE manual[x]
  BY DEF Pass, Add, One, TypeOK, Counter
<1>4. Exact(G)'
  <2>1. SUFFICES ASSUME NEW y \in Holders \cup G, Fits(a)
                 PROVE  count'[y] = Claims(y)'
    <3>1. ASSUME NEW y \in Holders \cup G, ~Fits(a) PROVE count'[y] = Claims(y)'
      <4>1. y # i
        BY <1>0, <3>1
      <4>2. count[y] = Claims(y) /\ y \in All
        BY DEF Exact
      <4>3. QED  BY <1>2, <1>3, <4>1, <4>2
    <3>2. QED  BY <3>1 DEF Exact
  <2>2. count[y] = Claims(y) /\ y \in All
    BY DEF Exact
  <2>3. CASE a.go \in {"ref", "temp", "made"}
    <3>1. CarryingRow(a) /\ a.go # "yielded"
      BY <2>3, <1>0, <2>1, FittingArguments
    <3>2. /\ manual'[y] = manual[y] /\ Held(y)' = Held(y)
          /\ count'[y] = IF y = i THEN count[y] + 1 ELSE count[y]
          /\ Carried(y)' = IF y = i THEN Carried(y) + 1 ELSE Carried(y)
          /\ wrapped'[y] = wrapped[y] /\ core'[y] = core[y]
      BY <1>2, <1>3, <2>2, <2>3, <3>1
    <3>3. QED  BY <2>2, <3>2
  <2>4. CASE a.go = "yielded"
    <3>1. CarryingRow(a) /\ a.go \notin {"ref", "temp", "made"}
      BY <2>4, <1>0, <2>1, FittingArguments
    <3>2. /\ count'[y] = count[y] /\ Held(y)' = Held(y)
          /\ manual'[y] = IF y = i THEN manual[y] - 1 ELSE manual[y]
          /\ Carried(y)' = IF y = i THEN Carried(y) + 1 ELSE Carried(y)
      BY <1>2, <1>3, <2>4, <3>1
    <3>3. QED  BY <1>3, <2>2, <3>2
  <2>5. CASE a.go \in {"plain", "copy"}
    <3>1. ~CarryingRow(a) /\ a.go # "yielded" /\ a.go \notin {"ref", "temp", "made"}
      BY <2>5, <1>0, <2>1, FittingArguments
    <3>2. QED  BY <1>2, <1>3, <2>2, <3>1
  <2>6. QED  BY <2>3, <2>4, <2>5, <1>0, <2>1, FittingArguments
<1>5. Single(G)'
  <2>1. SUFFICES ASSUME NEW y \in G \cap (Structures \cup Memory), y = i
                 PROVE  Claims(y)' <= 1
    BY <1>2, <1>3 DEF Single
  <2>2. Claims(y) <= 1
    BY DEF Single
  <2>3. y = i => a.go # "ref"
    BY <1>0, <2>1, FittingArguments DEF Pass
  <2>4. CASE a.go \in {"temp", "made"}
    <3>1. Claims(i) = 0
      BY <2>4 DEF Pass, Fresh
    <3>2. QED  BY <1>2, <1>3, <2>2, <2>4, <3>1
  <2>5. CASE a.go = "yielded"
    BY <1>2, <1>3, <2>2, <2>5
  <2>6. CASE a.go \in {"plain", "copy"} \/ y # i
    BY <1>2, <1>3, <2>2, <2>6, <1>0, <2>1, FittingArguments
  <2>7. QED  BY <2>3, <2>4, <2>5, <2>6, <1>0, <2>1, FittingArguments
<1>6. Apart'
  BY <1>1, ApartBegins DEF Pass
<1>7. QED  BY <1>4, <1>5, <1>6

LEMMA ExactPassReturns ==
    ASSUME NEW G \in SUBSET Items, IInv(G), TypeOK', Spared(G),
           NEW t \in Threads, PassReturns(t)
    PROVE  Exact(G)' /\ Single(G)' /\ Apart'
<1> USE Sorts, Sums DEF IInv
<1> DEFINE a == frame[t].row
           i == frame[t].item
           h == frame[t].holder
           holds == \/ a.c = "keeps" /\ a.what = "object"
                    \/ a.c = "consumes" /\ a.go # "copy"
<1>1. /\ frame[t] \in Calls /\ i \in Items /\ i \in All /\ h \in Holders
      /\ a \in Passing /\ a.way = "arg"
  BY InCall DEF PassReturns
<1>0. frame[t] # Idle
  BY <1>1 DEF Idle
<1>9. i \in G => Fits(a)
  BY <1>0 DEF Spared
<1>2. h \notin holders[i]
  BY <1>0, <1>1 DEF Apart
<1>3. \A x \in All :
         /\ Held(x)' = IF x = i /\ holds THEN Held(x) + 1 ELSE Held(x)
         /\ Carried(x)' = IF x = i /\ CarryingRow(a) THEN Carried(x) - 1 ELSE Carried(x)
  <2>1. \A x \in All :
          Carried(x)' = IF x = i /\ CarryingRow(a) THEN Carried(x) - 1 ELSE Carried(x)
    BY <1>1, Ends DEF PassReturns
  <2>2. CASE holds
    <3>1. holders' = [holders EXCEPT ![i] = @ \cup {h}]
      BY <2>2 DEF PassReturns
    <3>2. QED  BY <1>1, <1>2, <2>1, <2>2, <3>1, Holds
  <2>3. CASE ~holds
    <3>1. UNCHANGED holders
      BY <2>3 DEF PassReturns
    <3>2. QED  BY <2>1, <2>3, <3>1, HoldersStay
  <2>4. QED  BY <2>2, <2>3
<1>4. \A x \in All :
         /\ wrapped'[x] = wrapped[x] /\ core'[x] = core[x] /\ manual'[x] = manual[x]
         /\ count'[x] = IF x = i
              THEN count[x] + One(a.c = "keeps" /\ a.what = "object") - One(a.go = "temp")
              ELSE count[x]
  BY <1>1 DEF PassReturns, Add, One, TypeOK, Counter
<1> HIDE DEF a, i, h
<1>5. Exact(G)'
  <2>1. SUFFICES ASSUME NEW y \in Holders \cup G, Fits(a)
                 PROVE  count'[y] = Claims(y)'
    <3>1. ASSUME NEW y \in Holders \cup G, ~Fits(a) PROVE count'[y] = Claims(y)'
      <4>1. y # i
        BY <1>1, <1>9, <3>1
      <4>2. count[y] = Claims(y) /\ y \in All
        BY DEF Exact
      <4>3. QED  BY <1>3, <1>4, <4>1, <4>2
    <3>2. QED  BY <3>1 DEF Exact
  <2>2. count[y] = Claims(y) /\ y \in All
    BY DEF Exact
  <2>3. CASE a.go = "plain"
    BY <1>1, <1>3, <1>4, <2>2, <2>3, <1>9, <2>1, FittingArguments DEF One
  <2>4. CASE a.go = "ref"
    BY <1>1, <1>3, <1>4, <2>2, <2>4, <1>9, <2>1, FittingArguments DEF One
  <2>5. CASE a.go = "copy"
    BY <1>1, <1>3, <1>4, <2>2, <2>5, <1>9, <2>1, FittingArguments DEF One
  <2>6. CASE a.go = "temp"
    BY <1>1, <1>3, <1>4, <2>2, <2>6, <1>9, <2>1, FittingArguments DEF One
  <2>7. CASE a.go \in {"made", "yielded"}
    <3>1. CarryingRow(a) /\ holds /\ a.c # "keeps" /\ a.go # "temp"
      BY <1>1, <2>7, <1>9, <2>1, FittingArguments
    <3>2. /\ count'[y] = count[y]
          /\ Held(y)' = IF y = i THEN Held(y) + 1 ELSE Held(y)
          /\ Carried(y)' = IF y = i THEN Carried(y) - 1 ELSE Carried(y)
          /\ UNCHANGED <<wrapped[y], core[y], manual[y]>>
      BY <1>3, <1>4, <2>2, <3>1 DEF One
    <3>3. QED  BY <2>2, <3>2
  <2>8. QED  BY <1>1, <2>3, <2>4, <2>5, <2>6, <2>7, <1>9, <2>1, FittingArguments
<1>6. Single(G)'
  <2>1. SUFFICES ASSUME NEW y \in G \cap (Structures \cup Memory), y = i
                 PROVE  Claims(y)' <= 1
    BY <1>3, <1>4 DEF Single
  <2>2. Claims(y) <= 1
    BY DEF Single
  <2>3. y = i => a.what # "object"
    BY <1>0, <1>1, <1>9, <2>1, FittingArguments DEF a, i, Apart
  <2>4. y = i /\ holds => CarryingRow(a)
    BY <1>1, <2>3, <1>9, <2>1, FittingArguments
  <2>5. QED  BY <1>3, <1>4, <2>2, <2>4
<1>7. Apart'
  <2>1. \A x \in All : holders'[x] \subseteq holders[x] \cup {h}
    BY <1>1 DEF PassReturns, TypeOK, h
  <2>2. QED  BY <1>1, <2>1, ApartEnds DEF PassReturns, h
<1>8. QED  BY <1>5, <1>6, <1>7

LEMMA ExactFetch ==
    ASSUME NEW G \in SUBSET Items, IInv(G), TypeOK', Spared(G)',
           NEW t \in Threads, NEW h \in Holders,
           NEW i \in Items, NEW r \in Returning, Fetch(t, h, i, r)
    PROVE  Exact(G)' /\ Single(G)' /\ Apart'
<1> USE Sorts, Sums DEF IInv
<1> DEFINE c == [row |-> r, item |-> i, holder |-> h]
<1>1. c \in Calls /\ c.row.way # "arg"
  BY RowWays DEF Calls
<1>0. i \in G => Fits(r)
  BY <1>1, BeginsFit DEF Fetch
<1>2. \A x \in All :
         /\ Held(x)' = Held(x)
         /\ Carried(x)' = IF x = i /\ CarryingRow(r) THEN Carried(x) + 1 ELSE Carried(x)
  <2>1. \A x \in All : Held(x)' = Held(x)
    BY HoldersStay DEF Fetch
  <2>2. \A x \in All :
           Carried(x)' = IF x = i /\ CarryingRow(r) THEN Carried(x) + 1 ELSE Carried(x)
    <3>1. frame[t] = Idle /\ frame' = [frame EXCEPT ![t] = c] /\ c.item = i /\ c.row = r
      BY DEF Fetch
    <3> HIDE DEF c
    <3>2. QED  BY <1>1, <3>1, Begins
  <2>3. QED  BY <2>1, <2>2
<1>3. \A x \in All :
         /\ wrapped'[x] = wrapped[x] /\ core'[x] = core[x] /\ manual'[x] = manual[x]
         /\ count'[x] = IF x = i /\ CarryingRow(r) THEN count[x] + 1 ELSE count[x]
  BY DEF Fetch, Add, One, TypeOK, Counter
<1>4. Exact(G)'
  <2>1. SUFFICES ASSUME NEW y \in Holders \cup G PROVE count'[y] = Claims(y)'
    BY DEF Exact
  <2>2. count[y] = Claims(y)
    BY DEF Exact
  <2>3. QED  BY <1>2, <1>3, <2>2
<1>5. Single(G)'
  <2>1. SUFFICES ASSUME NEW y \in G \cap (Structures \cup Memory), y = i
                 PROVE  Claims(y)' <= 1
    BY <1>2, <1>3 DEF Single
  <2>2. Claims(y) <= 1
    BY DEF Single
  <2>3. CASE y = i /\ CarryingRow(r)
    <3>1. r.what # "object" /\ r.c # "none"
      BY <2>3, <1>0, <2>1, FittingResults DEF Fetch
    <3>2. Claims(i) = 0
      BY <2>3, <3>1 DEF Fetch, Fresh
    <3>3. QED  BY <1>2, <1>3, <2>3, <3>2
  <2>4. CASE ~(y = i /\ CarryingRow(r))
    BY <1>2, <1>3, <2>2, <2>4
  <2>5. QED  BY <2>3, <2>4
<1>6. Apart'
  BY <1>1, ApartBegins DEF Fetch
<1>7. QED  BY <1>4, <1>5, <1>6

\* What the wrapper of a fitting result takes is what the call carried and
\* what the wrapping adds to the count.
LEMMA ResultBalance ==
    ASSUME NEW r \in Returning, Fits(r)
    PROVE  /\ One(r.go = "none" /\ r.c # "floating") - One(r.go = "freed")
                = One(r.go \in {"full", "none"}) + One(r.go = "handed")
                    - One(CarryingRow(r))
           /\ r.what # "object" =>
                One(r.go \in {"full", "none"}) + One(r.go = "handed")
                  <= One(CarryingRow(r))
BY FittingResults DEF One

LEMMA ExactFetchReturns ==
    ASSUME NEW G \in SUBSET Items, IInv(G), TypeOK', Spared(G),
           NEW t \in Threads, FetchReturns(t)
    PROVE  Exact(G)' /\ Single(G)' /\ Apart'
<1> USE Sorts, Sums DEF IInv
<1> DEFINE r == frame[t].row
           i == frame[t].item
<1>1. /\ frame[t] \in Calls /\ i \in Items /\ i \in All
      /\ r \in Returning /\ r.way = "result"
  BY InCall DEF FetchReturns
<1>2. frame[t] # Idle
  BY <1>1 DEF Idle
<1>0. i \in G => Fits(r)
  BY <1>2 DEF Spared
<1>3. UNCHANGED holders /\ \A x \in All :
         /\ Held(x)' = Held(x)
         /\ Carried(x)' = IF x = i /\ CarryingRow(r) THEN Carried(x) - 1 ELSE Carried(x)
  BY <1>1, Ends, HoldersStay DEF FetchReturns
<1>4. \A x \in All \ {i} :
         /\ wrapped'[x] = wrapped[x] /\ core'[x] = core[x]
         /\ manual'[x] = manual[x] /\ count'[x] = count[x]
  BY <1>1 DEF FetchReturns, Add, TypeOK, Counter
<1>5. /\ wrapped'[i] = wrapped[i] + One(r.go \in {"full", "none"})
      /\ manual'[i] = manual[i] + One(r.go = "handed")
      /\ core'[i] = core[i]
      /\ count'[i] = count[i] + One(r.go = "none" /\ r.c # "floating") - One(r.go = "freed")
  BY <1>1 DEF FetchReturns, Add, One, TypeOK, Counter
<1> HIDE DEF r, i
<1>6. ASSUME NEW y \in G, y = i
      PROVE  /\ count'[y] - count[y] = Claims(y)' - Claims(y)
             /\ r.what # "object" => Claims(y)' <= Claims(y)
  <2> DEFINE w == One(r.go \in {"full", "none"})
             m == One(r.go = "handed")
             new == One(r.go = "none" /\ r.c # "floating")
             gone == One(r.go = "freed")
             carried == One(CarryingRow(r))
  <2>1. /\ new - gone = w + m - carried
        /\ r.what # "object" => w + m <= carried
    BY <1>0, <1>1, <1>6, ResultBalance
  <2>2. w \in Int /\ m \in Int /\ new \in Int /\ gone \in Int /\ carried \in Int
    BY DEF One
  <2>3. Carried(y)' = Carried(y) - carried
    BY <1>3, <1>6 DEF One
  <2>4. /\ wrapped'[y] = wrapped[y] + w /\ manual'[y] = manual[y] + m
        /\ core'[y] = core[y] /\ count'[y] = count[y] + new - gone
        /\ Held(y)' = Held(y)
    BY <1>3, <1>5, <1>6
  <2> HIDE DEF w, m, new, gone, carried
  <2>5. Claims(y)' - Claims(y) = w + m - carried
    <3>1. /\ Claims(y) = wrapped[y] + manual[y] + core[y] + Held(y) + Carried(y)
          /\ Claims(y)' = wrapped'[y] + manual'[y] + core'[y] + Held(y)' + Carried(y)'
          /\ wrapped[y] \in Int /\ manual[y] \in Int /\ core[y] \in Int
          /\ Held(y) \in Int /\ Carried(y) \in Int
      OBVIOUS
    <3>2. Claims(y)' = (wrapped[y] + w) + (manual[y] + m) + core[y] + Held(y)
                         + (Carried(y) - carried)
      BY <2>3, <2>4, <3>1
    <3>3. QED  BY <2>2, <3>1, <3>2
  <2>6. QED  BY <2>1, <2>2, <2>4, <2>5
<1>7. Exact(G)'
  <2>1. SUFFICES ASSUME NEW y \in Holders \cup G PROVE count'[y] = Claims(y)'
    BY DEF Exact
  <2>2. count[y] = Claims(y)
    BY DEF Exact
  <2>3. CASE y = i
    <3>1. count'[y] - count[y] = Claims(y)' - Claims(y)
      BY <1>1, <1>6, <2>3
    <3>2. Claims(y) \in Int /\ Claims(y)' \in Int /\ count'[y] \in Int
      OBVIOUS
    <3>3. count'[y] = count[y] + (Claims(y)' - Claims(y)) /\ count[y] \in Int
      BY <3>1, <3>2
    <3>4. QED  BY <2>2, <3>2, <3>3
  <2>4. CASE y # i
    BY <1>3, <1>4, <2>2, <2>4
  <2>5. QED  BY <2>3, <2>4
<1>8. Single(G)'
  <2>1. SUFFICES ASSUME NEW y \in G \cap (Structures \cup Memory), y = i
                 PROVE  Claims(y)' <= 1
    BY <1>3, <1>4 DEF Single
  <2>2. Claims(y) <= 1
    BY DEF Single
  <2>3. y = i => r.what # "object"
    BY <1>0, <1>1, <1>2, <2>1, FittingResults DEF i, r, Apart
  <2>4. CASE y = i
    BY <1>6, <2>2, <2>3, <2>4
  <2>5. CASE y # i
    BY <1>3, <1>4, <2>2, <2>5
  <2>6. QED  BY <2>4, <2>5
<1>9. Apart'
  BY <1>1, <1>3, ApartEnds DEF FetchReturns
<1>10. QED  BY <1>7, <1>8, <1>9

-----------------------------------------------------------------------------
LEMMA InitIInv ==
    ASSUME NEW G \in SUBSET Items PROVE Init => IInv(G)
<1> SUFFICES ASSUME Init PROVE IInv(G)
  OBVIOUS
<1>1. TypeOK
  BY TypeInit
<1>2. \A x \in All : holders[x] = {} /\ Carrying(x) = {}
  BY TransfersAssumption DEF Init, Carrying, Idle
<1>3. \A x \in All : Claims(x) = 0
  BY <1>2, FS_EmptySet DEF Claims, Init
<1>4. QED  BY <1>1, <1>3, Sorts DEF IInv, Exact, Single, Apart, Init

LEMMA NextIInv ==
    ASSUME NEW G \in SUBSET Items
    PROVE  IInv(G) /\ Spared(G) /\ Spared(G)' /\ [Next]_vars => IInv(G)'
<1> SUFFICES ASSUME IInv(G), Spared(G), Spared(G)', [Next]_vars PROVE IInv(G)'
  OBVIOUS
<1>1. TypeOK'
  BY TypeNext DEF IInv
<1>2. CASE UNCHANGED vars
  BY <1>1, <1>2 DEF vars, IInv, Exact, Single, Apart, Claims, Carrying, CarryingRow
<1>3. CASE Next
  <2>1. ASSUME NEW l \in loans, DropLoan(l) PROVE IInv(G)'
    BY <1>1, <2>1 DEF DropLoan, IInv, Exact, Single, Apart, Claims, Carrying, CarryingRow
  <2>2. QED
    BY <1>1, <1>3, <2>1, ExactHolder, ExactArrive, ExactRelease, ExactFinalize,
       ExactUnref, ExactPass, ExactFetch, ExactPassReturns, ExactFetchReturns
    DEF Next, IInv
<1>4. QED  BY <1>2, <1>3

\* The variables keep their types, whatever the table holds.
THEOREM TypesKept == Spec => []TypeOK
BY TypeInit, TypeNext, PTL DEF Spec

\* An item that only calls of fitting rows get or return, and every holder, is
\* freed exactly when the last claim goes, whatever the other rows do to other
\* items: a function in which Go and C disagree harms what it moves and nothing
\* else.
THEOREM SparedExact ==
    ASSUME NEW G \in SUBSET Items
    PROVE  Spec /\ []Spared(G) =>
             [](\A x \in Holders \cup G : /\ Claims(x) > 0 => count[x] > 0
                                          /\ Claims(x) = 0 => count[x] = 0)
<1>1. IInv(G) => \A x \in Holders \cup G : /\ Claims(x) > 0 => count[x] > 0
                                           /\ Claims(x) = 0 => count[x] = 0
  BY DEF IInv, Exact
<1>2. QED  BY InitIInv, NextIInv, <1>1, PTL DEF Spec

\* With a table of fitting rows this is every item.
LEMMA FittingIInv ==
    ASSUME RowsFit PROVE Spec => []IInv(Items)
<1>1. TypeOK => Spared(Items)
  BY DEF RowsFit, TypeOK, Spared
<1>2. Init => IInv(Items)
  BY InitIInv
<1>3. IInv(Items) /\ Spared(Items) /\ Spared(Items)' /\ [Next]_vars => IInv(Items)'
  BY NextIInv
<1>4. QED  BY TypesKept, <1>1, <1>2, <1>3, PTL DEF Spec

\* When the two sides of every row agree, nothing is freed while a wrapper, a
\* holder, C or a call will still let go of it, whatever the table holds and
\* however holders share, calls overlap and finalizers run.
THEOREM FittingAlive == ASSUME RowsFit PROVE Spec => []AliveWhileClaimed
<1>1. IInv(Items) => AliveWhileClaimed
  BY DEF IInv, Exact, AliveWhileClaimed, All
<1>2. QED  BY FittingIInv, <1>1, PTL

\* And nothing is leaked: what nobody will let go of any more has been freed.
THEOREM FittingFreed == ASSUME RowsFit PROVE Spec => []FreedWhenUnclaimed
<1>1. IInv(Items) => FreedWhenUnclaimed
  BY DEF IInv, Exact, FreedWhenUnclaimed, All
<1>2. QED  BY FittingIInv, <1>1, PTL

-----------------------------------------------------------------------------
\* What keeps the pointers of a call valid: the application has its holder, and
\* the item is carried, kept reachable too, or in the holder.
PinnedCall(c) ==
    /\ Reachable(c.holder)
    /\ ~CarryingRow(c.row) =>
         IF c.row.way = "arg" THEN Reachable(c.item) ELSE c.holder \in holders[c.item]

\* What keeps the structure of a kept loan valid: the wrapper of its caps.
PinnedLoan(l) == l.kept => wrapped[l.holder] > 0 /\ l.holder \in holders[l.item]

\* The calls and loans of the items in G are kept valid.
Pinned(G) ==
    /\ \A t \in Threads : frame[t] # Idle /\ frame[t].item \in G => PinnedCall(frame[t])
    /\ \A l \in loans : l.item \in G => PinnedLoan(l)

\* A step that takes no reference from what is in use, and begins only calls
\* and loans that are pinned.
LEMMA PinnedKept ==
    ASSUME TypeOK, TypeOK', NEW G \in SUBSET Items, Pinned(G),
           \A x \in All : Using(x) # {} /\ Reachable(x) => Reachable(x)',
           \A x \in All : KeptLoans(x) # {} /\ wrapped[x] > 0 => wrapped'[x] > 0,
           \A i \in Items : \A h \in holders[i] : Reachable(h) => h \in holders'[i],
           \A t \in Threads : \A c \in Calls :
               frame'[t] = c /\ c.item \in G => frame[t] = c \/ PinnedCall(c)',
           \A l \in loans' : l.item \in G => l \in loans \/ PinnedLoan(l)'
    PROVE  Pinned(G)'
<1> USE Sorts
<1>1. ASSUME NEW t \in Threads, NEW c \in Calls, frame[t] = c, c.item \in G
      PROVE  PinnedCall(c)'
  <2>1. c # Idle /\ c.holder \in All /\ c.item \in Items /\ c.item \in All
    BY TransfersAssumption DEF Calls, Idle
  <2>2. PinnedCall(c)
    BY <1>1, <2>1 DEF Pinned
  <2>3. Using(c.holder) # {} /\ (c.row.way = "arg" => Using(c.item) # {})
    BY <1>1 DEF Using
  <2>4. QED  BY <2>1, <2>2, <2>3 DEF PinnedCall, CarryingRow
<1>2. ASSUME NEW l \in loans, l.item \in G PROVE PinnedLoan(l)'
  <2>1. SUFFICES ASSUME l.kept PROVE wrapped'[l.holder] > 0 /\ l.holder \in holders'[l.item]
    BY DEF PinnedLoan
  <2>2. l.holder \in All /\ l.item \in Items /\ manual[l.holder] \in Nat
        /\ wrapped[l.holder] \in Nat
    BY DEF TypeOK, Counter
  <2>3. wrapped[l.holder] > 0 /\ l.holder \in holders[l.item]
    BY <1>2, <2>1 DEF Pinned, PinnedLoan
  <2>4. Reachable(l.holder) /\ KeptLoans(l.holder) # {}
    BY <2>1, <2>2, <2>3 DEF Reachable, KeptLoans
  <2>5. QED  BY <2>2, <2>3, <2>4
<1>3. \A t \in Threads : frame'[t] # Idle => frame'[t] \in Calls
  BY DEF TypeOK, Calls
<1>4. ASSUME NEW t \in Threads, NEW c \in Calls, frame'[t] = c, c.item \in G
      PROVE  PinnedCall(c)'
  BY <1>1, <1>4
<1>5. \A t \in Threads :
        frame'[t] # Idle /\ frame'[t].item \in G => PinnedCall(frame[t])'
  <2>1. SUFFICES ASSUME NEW t \in Threads, frame'[t] # Idle, frame'[t].item \in G
                 PROVE  PinnedCall(frame[t])'
    OBVIOUS
  <2>2. PICK c \in Calls : frame'[t] = c
    BY <1>3, <2>1
  <2>3. PinnedCall(c)'
    BY <1>4, <2>1, <2>2
  <2>4. QED  BY <2>2, <2>3 DEF PinnedCall, Reachable
<1>6. \A l \in loans' : l.item \in G => PinnedLoan(l)'
  BY <1>2
<1>7. QED  BY <1>5, <1>6 DEF Pinned

LEMMA PinnedHolder ==
    ASSUME NEW G \in SUBSET Items, IInv(G), TypeOK',
           Pinned(G), NEW h \in Holders,
           Make(h) \/ Send(h) \/ Receive(h) \/ CoreUnref(h)
    PROVE  Pinned(G)'
<1>1. UNCHANGED <<frame, holders, loans, manual>>
  BY DEF Make, Send, Receive, CoreUnref
<1>2. \A x \in All : wrapped'[x] >= wrapped[x] /\ wrapped[x] \in Nat
                     /\ manual[x] \in Nat /\ wrapped'[x] \in Nat
  BY Sorts DEF Make, Send, Receive, CoreUnref, Add, IInv, TypeOK, Counter
<1>3. \A x \in All : Reachable(x) => Reachable(x)'
  BY <1>1, <1>2 DEF Reachable
<1>4. \A x \in All : wrapped[x] > 0 => wrapped'[x] > 0
  BY <1>2
<1>5. QED  BY <1>1, <1>3, <1>4, PinnedKept DEF IInv

LEMMA PinnedArrive ==
    ASSUME NEW G \in SUBSET Items, IInv(G), TypeOK',
           Pinned(G), NEW h \in Holders, NEW i \in Items, Arrive(h, i)
    PROVE  Pinned(G)'
<1>1. UNCHANGED <<frame, wrapped, loans, manual>>
  BY DEF Arrive
<1>2. \A x \in Items : holders[x] \subseteq holders'[x]
  BY Sorts DEF Arrive, IInv, TypeOK
<1>3. \A x \in All : Reachable(x) => Reachable(x)'
  BY <1>1 DEF Reachable
<1>4. QED  BY <1>1, <1>2, <1>3, PinnedKept DEF IInv

LEMMA PinnedRelease ==
    ASSUME NEW G \in SUBSET Items, IInv(G), TypeOK',
           Pinned(G), NEW h \in Holders, NEW i \in Items, Release(h, i)
    PROVE  Pinned(G)'
<1>1. UNCHANGED <<frame, wrapped, loans, manual>>
  BY DEF Release
<1>2. ~Reachable(h)
  BY Sorts, Sums DEF Release, IInv, Exact, Reachable
<1>3. \A x \in Items : \A g \in holders[x] : Reachable(g) => g \in holders'[x]
  BY Sorts, <1>2 DEF Release, IInv, TypeOK
<1>4. \A x \in All : Reachable(x) => Reachable(x)'
  BY <1>1 DEF Reachable
<1>5. QED  BY <1>1, <1>3, <1>4, PinnedKept DEF IInv

LEMMA PinnedApplication ==
    ASSUME NEW G \in SUBSET Items, IInv(G), TypeOK',
           Pinned(G), Careful, NEW x \in All, Finalize(x) \/ Unref(x)
    PROVE  Pinned(G)'
<1>1. UNCHANGED <<frame, holders, loans>>
  BY DEF Finalize, Unref
<1>2. \A y \in All \ {x} : wrapped'[y] = wrapped[y] /\ manual'[y] = manual[y]
  BY DEF Finalize, Unref, Add, IInv, TypeOK, Counter
<1>3. /\ wrapped[x] + manual[x] - 1 = wrapped'[x] + manual'[x]
      /\ wrapped[x] \in Nat /\ manual[x] \in Nat
  BY DEF Finalize, Unref, Add, IInv, TypeOK, Counter
<1>4. Using(x) # {} => wrapped[x] + manual[x] > 1
  BY DEF Finalize, Unref, LastUse
<1>5. \A y \in All : Using(y) # {} /\ Reachable(y) => Reachable(y)'
  BY <1>2, <1>3, <1>4 DEF Reachable
<1>6. KeptLoans(x) # {} /\ wrapped[x] > 0 => wrapped'[x] > 0
  BY <1>3 DEF Finalize, Unref, Add, IInv, TypeOK, Counter
<1>7. QED  BY <1>1, <1>2, <1>5, <1>6, PinnedKept DEF IInv

LEMMA PinnedPass ==
    ASSUME NEW G \in SUBSET Items, IInv(G), TypeOK',
           Pinned(G), Spared(G)', NEW t \in Threads, NEW h \in Holders,
           NEW i \in Items, NEW a \in Passing, Pass(t, h, i, a)
    PROVE  Pinned(G)'
<1> DEFINE c == [row |-> a, item |-> i, holder |-> h]
<1>1. UNCHANGED <<holders, loans, wrapped>>
  BY DEF Pass
<1>2. /\ \A x \in All \ {i} : manual'[x] = manual[x]
      /\ a.go # "yielded" => manual'[i] = manual[i]
      /\ a.go = "yielded" => manual'[i] = manual[i] - 1 /\ LastUse(i)
  BY Sorts DEF Pass, Add, One, IInv, TypeOK, Counter
<1>3. \A x \in All : wrapped[x] \in Nat /\ manual[x] \in Nat
  BY DEF IInv, TypeOK, Counter
<1>4. \A x \in All : Using(x) # {} /\ Reachable(x) => Reachable(x)'
  BY <1>1, <1>2, <1>3 DEF Reachable, LastUse
<1>5. c \in Calls /\ (i \in G => Fits(a))
  <2>1. c \in Calls
    BY DEF Calls
  <2>2. QED  BY <2>1, BeginsFit DEF Pass, IInv
<1>6. i \in G => PinnedCall(c)'
  <2>0. SUFFICES ASSUME i \in G PROVE PinnedCall(c)'
    OBVIOUS
  <2>1. Reachable(h)'
    BY Sorts, <1>1, <1>2 DEF Pass, Reachable
  <2>2. ~CarryingRow(a) => Reachable(i)'
    BY <1>5, <1>1, <1>2, <2>0, FittingArguments DEF Pass, Reachable
  <2>3. a.way = "arg"
    BY RowWays
  <2>4. QED  BY <2>1, <2>2, <2>3 DEF PinnedCall
<1>7. \A u \in Threads : frame'[u] = IF u = t THEN c ELSE frame[u]
  BY DEF Pass, IInv, TypeOK
<1> HIDE DEF c
<1>8. \A u \in Threads : \A d \in Calls :
        frame'[u] = d /\ d.item \in G => frame[u] = d \/ PinnedCall(d)'
  <2>1. SUFFICES ASSUME NEW u \in Threads, NEW d \in Calls, frame'[u] = d,
                        d.item \in G, u = t
                 PROVE  PinnedCall(d)'
    BY <1>7
  <2>2. d = c
    BY <1>7, <2>1
  <2>3. QED  BY <1>6, <2>1, <2>2 DEF c
<1>9. QED  BY <1>1, <1>4, <1>8, PinnedKept DEF IInv

LEMMA PinnedFetch ==
    ASSUME NEW G \in SUBSET Items, IInv(G), TypeOK',
           Pinned(G), Spared(G)', NEW t \in Threads, NEW h \in Holders,
           NEW i \in Items, NEW r \in Returning, Fetch(t, h, i, r)
    PROVE  Pinned(G)'
<1> DEFINE c == [row |-> r, item |-> i, holder |-> h]
<1>1. UNCHANGED <<holders, loans, wrapped, manual>>
  BY DEF Fetch
<1>2. \A x \in All : Reachable(x) => Reachable(x)'
  BY <1>1 DEF Reachable
<1>3. c \in Calls /\ (i \in G => Fits(r))
  <2>1. c \in Calls
    BY DEF Calls
  <2>2. QED  BY <2>1, BeginsFit DEF Fetch, IInv
<1>4. i \in G => PinnedCall(c)'
  <2>0. SUFFICES ASSUME i \in G PROVE PinnedCall(c)'
    OBVIOUS
  <2>1. Reachable(h)'
    BY <1>1 DEF Fetch, Reachable
  <2>2. ~CarryingRow(r) => h \in holders'[i]
    BY <1>3, <1>1, <2>0, FittingResults DEF Fetch
  <2>3. r.way # "arg"
    BY RowWays
  <2>4. QED  BY <2>1, <2>2, <2>3 DEF PinnedCall
<1>5. \A u \in Threads : frame'[u] = IF u = t THEN c ELSE frame[u]
  BY DEF Fetch, IInv, TypeOK
<1> HIDE DEF c
<1>6. \A u \in Threads : \A d \in Calls :
        frame'[u] = d /\ d.item \in G => frame[u] = d \/ PinnedCall(d)'
  <2>1. SUFFICES ASSUME NEW u \in Threads, NEW d \in Calls, frame'[u] = d,
                        d.item \in G, u = t
                 PROVE  PinnedCall(d)'
    BY <1>5
  <2>2. d = c
    BY <1>5, <2>1
  <2>3. QED  BY <1>4, <2>1, <2>2 DEF c
<1>7. QED  BY <1>1, <1>2, <1>6, PinnedKept DEF IInv

LEMMA PinnedPassReturns ==
    ASSUME NEW G \in SUBSET Items, IInv(G), TypeOK',
           Pinned(G), NEW t \in Threads, PassReturns(t)
    PROVE  Pinned(G)'
<1>1. UNCHANGED <<loans, wrapped, manual>>
  BY DEF PassReturns
<1>2. \A x \in All : Reachable(x) => Reachable(x)'
  BY <1>1 DEF Reachable
<1>3. \A x \in Items : holders[x] \subseteq holders'[x]
  BY Sorts DEF PassReturns, IInv, TypeOK
<1>4. \A u \in Threads : frame'[u] = IF u = t THEN Idle ELSE frame[u]
  BY DEF PassReturns, IInv, TypeOK
<1>5. Idle \notin Calls
  BY TransfersAssumption DEF Calls, Idle, All
<1>6. QED  BY <1>1, <1>2, <1>3, <1>4, <1>5, PinnedKept DEF IInv

LEMMA PinnedFetchReturns ==
    ASSUME NEW G \in SUBSET Items, IInv(G), TypeOK',
           Pinned(G), Spared(G), NEW t \in Threads, FetchReturns(t)
    PROVE  Pinned(G)'
<1>1. UNCHANGED holders
  BY DEF FetchReturns
<1>2. frame[t] \in Calls /\ frame[t] # Idle /\ frame[t].holder \in Holders
      /\ frame[t].item \in Items /\ frame[t].row \in Returning
  BY InCall DEF FetchReturns, IInv, Idle
<1>3. \A x \in All : wrapped'[x] >= wrapped[x] /\ manual'[x] >= manual[x]
                     /\ wrapped[x] \in Nat /\ manual[x] \in Nat
                     /\ wrapped'[x] \in Nat /\ manual'[x] \in Nat
  BY DEF FetchReturns, Add, One, IInv, TypeOK, Counter
<1>4. \A x \in All : Reachable(x) => Reachable(x)'
  BY <1>3 DEF Reachable
<1>5. \A x \in All : wrapped[x] > 0 => wrapped'[x] > 0
  BY <1>3
<1>6. \A u \in Threads : frame'[u] = IF u = t THEN Idle ELSE frame[u]
  BY DEF FetchReturns, IInv, TypeOK
<1>7. Idle \notin Calls
  BY TransfersAssumption DEF Calls, Idle, All
<1>8. ASSUME NEW l \in loans', l.item \in G, l \notin loans PROVE PinnedLoan(l)'
  <2>1. /\ l.holder = frame[t].holder /\ l.item = frame[t].item
        /\ l.kept = (frame[t].row.go = "kept" /\ wrapped[frame[t].holder] > 0)
    BY <1>8 DEF FetchReturns
  <2>2. SUFFICES ASSUME l.kept PROVE wrapped'[l.holder] > 0 /\ l.holder \in holders'[l.item]
    BY DEF PinnedLoan
  <2>3. Fits(frame[t].row)
    BY <1>2, <1>8, <2>1 DEF Spared
  <2>4. ~CarryingRow(frame[t].row) /\ frame[t].row.way # "arg"
    BY <1>2, <2>1, <2>2, <2>3, FittingResults
  <2>5. frame[t].holder \in holders[frame[t].item]
    BY <1>2, <1>8, <2>1, <2>4 DEF Pinned, PinnedCall
  <2>6. QED  BY Sorts, <1>1, <1>2, <1>5, <2>1, <2>2, <2>5
<1>9. QED  BY <1>1, <1>4, <1>5, <1>6, <1>7, <1>8, PinnedKept DEF IInv

LEMMA NextPinned ==
    ASSUME NEW G \in SUBSET Items, Careful
    PROVE  IInv(G) /\ Pinned(G) /\ Spared(G) /\ Spared(G)' /\ [Next]_vars => Pinned(G)'
<1> SUFFICES ASSUME IInv(G), Pinned(G), Spared(G), Spared(G)', [Next]_vars
             PROVE  Pinned(G)'
  OBVIOUS
<1>1. TypeOK'
  BY TypeNext DEF IInv
<1>2. CASE UNCHANGED vars
  BY <1>2 DEF vars, Pinned, PinnedCall, PinnedLoan, Reachable, CarryingRow
<1>3. CASE Next
  <2>1. ASSUME NEW l \in loans, DropLoan(l) PROVE Pinned(G)'
    BY <2>1 DEF DropLoan, Pinned, PinnedCall, PinnedLoan, Reachable, CarryingRow
  <2>2. QED
    BY <1>1, <1>3, <2>1, PinnedHolder, PinnedArrive, PinnedRelease, PinnedApplication,
       PinnedPass, PinnedFetch, PinnedPassReturns, PinnedFetchReturns
    DEF Next
<1>4. QED  BY <1>2, <1>3

LEMMA InitPinned == ASSUME NEW G \in SUBSET Items PROVE Init => Pinned(G)
BY DEF Init, Pinned

\* The calls and the kept loans of the items in G work with valid pointers.
Valid(G) ==
    /\ \A t \in Threads :
         frame[t] # Idle /\ frame[t].item \in G =>
             count[frame[t].item] > 0 /\ count[frame[t].holder] > 0
    /\ \A l \in loans :
         l.kept /\ l.item \in G => l.holder \in holders[l.item] /\ count[l.item] > 0

LEMMA PinnedValid ==
    ASSUME NEW G \in SUBSET Items PROVE IInv(G) /\ Pinned(G) => Valid(G)
<1> SUFFICES ASSUME IInv(G), Pinned(G) PROVE Valid(G)
  OBVIOUS
<1> USE Sorts
<1>1. \A x \in Holders \cup G :
        /\ wrapped[x] \in Nat /\ manual[x] \in Nat /\ core[x] \in Nat
        /\ Held(x) \in Nat /\ Carried(x) \in Nat
        /\ count[x] = wrapped[x] + manual[x] + core[x] + Held(x) + Carried(x)
  <2>1. SUFFICES ASSUME NEW x \in Holders \cup G
                 PROVE  /\ wrapped[x] \in Nat /\ manual[x] \in Nat /\ core[x] \in Nat
                        /\ Held(x) \in Nat /\ Carried(x) \in Nat
                        /\ count[x] = wrapped[x] + manual[x] + core[x] + Held(x) + Carried(x)
    OBVIOUS
  <2>2. x \in All /\ holders[x] \in SUBSET Holders /\ Carrying(x) \in SUBSET Threads
    BY DEF IInv, TypeOK, Carrying
  <2>3. QED  BY <2>2, Sizes DEF IInv, TypeOK, Counter, Exact, Claims, Held, Carried
<1>2. \A x \in Holders \cup G : Reachable(x) => count[x] > 0
  BY <1>1 DEF Reachable
<1>3. \A x \in G : holders[x] # {} => count[x] > 0
  <2>1. \A x \in G : holders[x] # {} => Held(x) # 0
    BY Sizes DEF Held, IInv, TypeOK
  <2>2. QED  BY <1>1, <2>1
<1>4. \A x \in G : Carrying(x) # {} => count[x] > 0
  <2>1. \A x \in G : Carrying(x) # {} => Carried(x) # 0
    BY TransfersAssumption, FS_Subset, FS_EmptySet DEF Carried, Carrying
  <2>2. QED  BY <1>1, <2>1
<1>5. ASSUME NEW t \in Threads, frame[t] # Idle, frame[t].item \in G
      PROVE  count[frame[t].item] > 0 /\ count[frame[t].holder] > 0
  <2>1. frame[t].holder \in Holders
    BY <1>5 DEF IInv, TypeOK
  <2>2. PinnedCall(frame[t])
    BY <1>5 DEF Pinned
  <2>3. CASE CarryingRow(frame[t].row)
    <3>1. t \in Carrying(frame[t].item)
      BY <2>3 DEF Carrying
    <3>2. QED  BY <1>2, <1>4, <1>5, <2>1, <2>2, <3>1 DEF PinnedCall
  <2>4. CASE ~CarryingRow(frame[t].row)
    BY <1>2, <1>3, <1>5, <2>1, <2>2, <2>4 DEF PinnedCall
  <2>5. QED  BY <2>3, <2>4
<1>6. ASSUME NEW l \in loans, l.kept, l.item \in G
      PROVE  l.holder \in holders[l.item] /\ count[l.item] > 0
  <2>1. l.holder \in holders[l.item]
    BY <1>6 DEF Pinned, PinnedLoan
  <2>2. QED  BY <1>3, <1>6, <2>1
<1>7. QED  BY <1>5, <1>6 DEF Valid

\* While the application keeps arguments reachable, the pointers of the calls
\* that get or return an item of fitting rows are valid until they return, and
\* the structure of a wrapper that keeps its caps reachable is valid as long as
\* that wrapper is, whatever the other rows do to other items.
THEOREM SparedValid ==
    ASSUME NEW G \in SUBSET Items, Careful
    PROVE  Spec /\ []Spared(G) => []Valid(G)
<1>1. QED
  BY InitIInv, NextIInv, InitPinned, NextPinned, PinnedValid, PTL DEF Spec

\* With a table of fitting rows these are all calls and all loans.
LEMMA FittingValid ==
    ASSUME RowsFit, Careful PROVE Spec => []Valid(Items)
<1>1. TypeOK => Spared(Items)
  BY DEF RowsFit, TypeOK, Spared
<1>2. Init => Pinned(Items)
  BY InitPinned
<1>3. IInv(Items) /\ Pinned(Items) /\ Spared(Items) /\ Spared(Items)' /\ [Next]_vars
        => Pinned(Items)'
  BY NextPinned
<1>4. IInv(Items) /\ Pinned(Items) => Valid(Items)
  BY PinnedValid
<1>5. QED  BY TypesKept, FittingIInv, <1>1, <1>2, <1>3, <1>4, PTL DEF Spec

\* While the application keeps arguments reachable, every pointer a call works
\* with is valid until it returns.
THEOREM FittingCallsSafe == ASSUME RowsFit, Careful PROVE Spec => []CallsSafe
<1>1. TypeOK /\ Valid(Items) => CallsSafe
  BY DEF TypeOK, Valid, CallsSafe
<1>2. QED  BY TypesKept, FittingValid, <1>1, PTL

\* And the structure of a wrapper that keeps its caps reachable is valid.
THEOREM FittingLoansValid == ASSUME RowsFit, Careful PROVE Spec => []KeptLoansValid
<1>1. TypeOK /\ Valid(Items) => KeptLoansValid
  BY DEF TypeOK, Valid, KeptLoansValid
<1>2. QED  BY TypesKept, FittingValid, <1>1, PTL
=============================================================================
