---------------------------- MODULE PadFuncs_proof ----------------------------
(***************************************************************************)
(* Proofs about the callback registry.                                     *)
(*                                                                         *)
(* The properties of PadFuncs are not inductive: that a notify record's    *)
(* handles are live exactly while it is held needs to know that a record   *)
(* is in one place only, which needs to know that no two setters and no    *)
(* setter and finaliser work on the same function of the same pad.         *)
(* IInv adds these facts; RInv adds what makes the lookup succeed for the  *)
(* kinds whose functions are set once.                                     *)
(***************************************************************************)
EXTENDS PadFuncs, TLAPS

\* The thread t is finalising its pad.
Finalizing(t) ==
    \/ pc[t] = "finalize"
    \/ pc[t] \in {"remove", "unref"} /\ new[t] = None

\* What the state of a thread says of its local variables.
LocalsOK ==
    \A t \in Threads :
      /\ pc[t] # "idle" => pad[t] \in Pads
      /\ pc[t] \notin {"idle", "finalize"} => kind[t] \in Kinds
      /\ pc[t] \in {"write", "save", "store"} => fn[t] \in Funcs
      /\ pc[t] = "store" => new[t] # None
      /\ new[t] # None => pc[t] \in {"store", "remove", "unref"} /\ fn[t] \in Funcs
      /\ pc[t] \in {"remove", "unref"} =>
           old[t] # None /\ old[t] = slot[pad[t]][kind[t]]

\* A pad is finalised by one thread when no other thread uses it.
LifeOK ==
    /\ \A t \in Threads : pc[t] # "idle" =>
         life[pad[t]] = IF Finalizing(t) THEN "finalizing" ELSE "alive"
    /\ \A t, u \in Threads :
         t # u /\ pc[t] # "idle" /\ pc[u] # "idle" /\ pad[t] = pad[u]
           => life[pad[t]] = "alive"

\* No two threads set the same function of the same pad.
SetterAlone ==
    \A t, u \in Threads :
        t # u /\ pc[t] \in Setting /\ pc[u] \in Setting
          => pad[t] # pad[u] \/ kind[t] # kind[u]

\* A held record restores to the pad and the map it was made for.
InfoOK ==
    /\ \A p \in Pads, k \in Kinds :
         slot[p][k] # None => notifyInfo[slot[p][k]] = <<p, k>>
    /\ \A t \in Threads :
         new[t] # None => notifyInfo[new[t]] = <<pad[t], kind[t]>>

\* A setter has written the map and not yet filled the slot.
Pending(p, k) ==
    \E t \in Threads : pc[t] \in {"save", "store"} /\ pad[t] = p /\ kind[t] = k

\* An entry of a map is backed by a slot, or by a setter about to fill it,
\* and it is gone before its record is.
MapBacked ==
    /\ \A p \in Pads, k \in Kinds :
         funcMaps[k][p] # None => slot[p][k] # None \/ Pending(p, k)
    /\ \A p \in Pads, k \in Kinds : slot[p][k] # None => life[p] # "absent"
    /\ \A t \in Threads :
         pc[t] = "unref" => funcMaps[kind[t]][pad[t]] = None

IInv ==
    /\ TypeOK
    /\ LocalsOK
    /\ LifeOK
    /\ SetterAlone
    /\ InfoOK
    /\ HeldOnce
    /\ HandlesOwned
    /\ MapBacked

\* For the kinds whose functions are set once: a setter works on an empty
\* slot, and while a slot is full and not being given back, the map has its
\* function.
RInv ==
    /\ \A t \in Threads : kind[t] \notin Replaceable =>
         /\ pc[t] \in {"write", "save", "store"} => slot[pad[t]][kind[t]] = None
         /\ pc[t] \in {"save", "store"} => funcMaps[kind[t]][pad[t]] = fn[t]
         /\ pc[t] \in {"remove", "unref"} => new[t] = None
         /\ pc[t] \in {"find", "call"} => slot[pad[t]][kind[t]] # None
    /\ \A p \in Pads, k \in Kinds \ Replaceable :
         life[p] = "alive" /\ slot[p][k] # None =>
           funcMaps[k][p] = current[p][k] /\ current[p][k] # None
    /\ DispatchesCurrent

-----------------------------------------------------------------------------
\* The initial state satisfies the invariant.
LEMMA InitIInv == Init => IInv
<1> SUFFICES ASSUME Init PROVE IInv
  OBVIOUS
<1>1. TypeOK
  BY DEF Init, TypeOK, InMap, Setting, Writing, Reading
<1>2. LocalsOK /\ LifeOK /\ SetterAlone
  BY DEF Init, LocalsOK, LifeOK, SetterAlone, Setting, Finalizing
<1>3. InfoOK /\ HeldOnce /\ MapBacked
  BY DEF Init, InfoOK, HeldOnce, MapBacked, Pending
<1>4. HandlesOwned
  BY PadFuncsAssumption DEF Init, HandlesOwned, Owned
<1>5. QED
  BY <1>1, <1>2, <1>3, <1>4 DEF IInv

\* A step that moves no record and no handle keeps them balanced.
LEMMA HandlesFrame ==
    ASSUME HandlesOwned, UNCHANGED <<saved, slot, new>>
    PROVE  HandlesOwned'
BY DEF HandlesOwned, Owned

\* The record in a slot has live handles: the notify can restore them.
LEMMA SlotHandles ==
    ASSUME IInv, NEW p \in Pads, NEW k \in Kinds, slot[p][k] # None
    PROVE  HandlesOf(slot[p][k]) \subseteq saved
<1>1. slot[p][k] \in Infos /\ Owned(slot[p][k])
  BY DEF IInv, TypeOK, Owned
<1>2. QED
  BY <1>1 DEF IInv, HandlesOwned, HandlesOf

\* The record C gives back restores to the very pad and map C is notifying.
LEMMA RemovedEntry ==
    ASSUME IInv, NEW t \in Threads, RemoveFuncForPad(t)
    PROVE  /\ pc[t] = "remove" /\ pad[t] \in Pads /\ kind[t] \in Kinds
           /\ funcMaps' = [funcMaps EXCEPT ![kind[t]][pad[t]] = None]
<1>1. /\ pc[t] = "remove" /\ pad[t] \in Pads /\ kind[t] \in Kinds
      /\ old[t] = slot[pad[t]][kind[t]] /\ old[t] # None
  BY DEF IInv, LocalsOK, RemoveFuncForPad
<1>2. notifyInfo[old[t]] = <<pad[t], kind[t]>>
  BY <1>1 DEF IInv, InfoOK
<1>3. QED
  BY <1>1, <1>2 DEF RemoveFuncForPad

LEMMA NewPadStep ==
    ASSUME IInv, NEW p \in Pads, NewPad(p)
    PROVE  IInv'
<1>1. TypeOK'
  BY DEF IInv, TypeOK, NewPad, local, InMap, Setting, Writing, Reading
<1>2. LocalsOK'
  BY DEF IInv, TypeOK, NewPad, local, InMap, Setting, Writing, Reading, LocalsOK
<1>3. LifeOK'
  BY DEF IInv, TypeOK, NewPad, local, InMap, Setting, Writing, Reading,
         LocalsOK, LifeOK, Finalizing
<1>4. SetterAlone'
  BY DEF IInv, TypeOK, NewPad, local, InMap, Setting, Writing, Reading,
         LocalsOK, SetterAlone
<1>5. InfoOK'
  BY DEF IInv, TypeOK, NewPad, local, InMap, Setting, Writing, Reading,
         LocalsOK, InfoOK
<1>6. HeldOnce'
  BY DEF IInv, TypeOK, NewPad, local, InMap, Setting, Writing, Reading,
         LocalsOK, HeldOnce
<1>7. HandlesOwned'
  BY HandlesFrame DEF IInv, NewPad, local
<1>8. MapBacked'
  BY DEF IInv, TypeOK, NewPad, local, InMap, Setting, Writing, Reading,
         LocalsOK, LifeOK, Finalizing, MapBacked, Pending
<1>9. QED
  BY <1>1, <1>2, <1>3, <1>4, <1>5, <1>6, <1>7, <1>8 DEF IInv

LEMMA BeginSetStep ==
    ASSUME IInv, NEW t \in Threads, NEW p \in Pads, NEW k \in Kinds, NEW f \in Funcs, BeginSet(t, p, k, f)
    PROVE  IInv'
<1>1. TypeOK'
  BY DEF IInv, TypeOK, BeginSet, local, InMap, Setting, Writing, Reading
<1>2. LocalsOK'
  BY DEF IInv, TypeOK, BeginSet, local, InMap, Setting, Writing, Reading,
         LocalsOK
<1>3. LifeOK'
  BY DEF IInv, TypeOK, BeginSet, local, InMap, Setting, Writing, Reading,
         LocalsOK, LifeOK, Finalizing
<1>4. SetterAlone'
  BY DEF IInv, TypeOK, BeginSet, local, InMap, Setting, Writing, Reading,
         LocalsOK, SetterAlone
<1>5. InfoOK'
  BY DEF IInv, TypeOK, BeginSet, local, InMap, Setting, Writing, Reading,
         LocalsOK, InfoOK
<1>6. HeldOnce'
  BY DEF IInv, TypeOK, BeginSet, local, InMap, Setting, Writing, Reading,
         LocalsOK, HeldOnce
<1>7. HandlesOwned'
  BY HandlesFrame DEF IInv, BeginSet, local
<1>8. MapBacked'
  <2>1. ASSUME NEW q \in Pads, NEW l \in Kinds, Pending(q, l)
        PROVE  Pending(q, l)'
    <3>1. PICK u \in Threads :
            pc[u] \in {"save", "store"} /\ pad[u] = q /\ kind[u] = l
      BY <2>1 DEF Pending
    <3>2. u # t
      BY <3>1 DEF BeginSet
    <3>3. QED
      BY <3>1, <3>2 DEF IInv, TypeOK, BeginSet, local, Pending
  <2>2. ASSUME NEW u \in Threads, pc'[u] = "unref"
        PROVE  funcMaps[kind'[u]][pad'[u]] = None
    BY <2>2 DEF IInv, TypeOK, MapBacked, BeginSet, local
  <2>3. \A q \in Pads, l \in Kinds : slot[q][l] # None => life'[q] # "absent"
    BY DEF IInv, TypeOK, MapBacked, LocalsOK, BeginSet
  <2>4. QED
    BY <2>1, <2>2, <2>3 DEF IInv, MapBacked, BeginSet
<1>9. QED
  BY <1>1, <1>2, <1>3, <1>4, <1>5, <1>6, <1>7, <1>8 DEF IInv

LEMMA WriteMapStep ==
    ASSUME IInv, NEW t \in Threads, WriteMap(t)
    PROVE  IInv'
<1>1. TypeOK'
  BY DEF IInv, TypeOK, WriteMap, local, InMap, Setting, Writing, Reading
<1>2. LocalsOK'
  BY DEF IInv, TypeOK, WriteMap, local, InMap, Setting, Writing, Reading,
         LocalsOK
<1>3. LifeOK'
  BY DEF IInv, TypeOK, WriteMap, local, InMap, Setting, Writing, Reading,
         LocalsOK, LifeOK, Finalizing
<1>4. SetterAlone'
  BY DEF IInv, TypeOK, WriteMap, local, InMap, Setting, Writing, Reading,
         LocalsOK, SetterAlone
<1>5. InfoOK'
  BY DEF IInv, TypeOK, WriteMap, local, InMap, Setting, Writing, Reading,
         LocalsOK, InfoOK
<1>6. HeldOnce'
  BY DEF IInv, TypeOK, WriteMap, local, InMap, Setting, Writing, Reading,
         LocalsOK, HeldOnce
<1>7. HandlesOwned'
  BY HandlesFrame DEF IInv, WriteMap, local
<1>8. MapBacked'
  BY DEF IInv, TypeOK, WriteMap, local, InMap, Setting, Writing, Reading,
         LocalsOK, SetterAlone, LifeOK, Finalizing, MapBacked, Pending
<1>9. QED
  BY <1>1, <1>2, <1>3, <1>4, <1>5, <1>6, <1>7, <1>8 DEF IInv

LEMMA SaveInfoStep ==
    ASSUME IInv, NEW t \in Threads, SaveInfo(t)
    PROVE  IInv'
<1>1. PICK i \in Infos :
        /\ ~Owned(i)
        /\ notifyInfo' = [notifyInfo EXCEPT ![i] = <<pad[t], kind[t]>>]
        /\ saved' = saved \cup HandlesOf(i)
        /\ new' = [new EXCEPT ![t] = i]
  BY DEF SaveInfo
<1>2. pc[t] = "save" /\ pad[t] \in Pads /\ kind[t] \in Kinds /\ new[t] = None
  BY DEF SaveInfo, IInv, LocalsOK
<1>3. TypeOK'
  <2>1. saved' \subseteq Infos \X HandleFields
    BY <1>1 DEF IInv, TypeOK, HandlesOf
  <2>2. notifyInfo' \in [Infos -> (Pads \X Kinds) \cup {<<None, None>>}]
    BY <1>1, <1>2 DEF IInv, TypeOK
  <2>3. QED
    BY <1>1, <2>1, <2>2 DEF IInv, TypeOK, SaveInfo, InMap, Setting, Writing,
                            Reading
<1>4. LocalsOK'
  BY PadFuncsAssumption, <1>1, <1>2
  DEF IInv, TypeOK, SaveInfo, local, InMap, Setting, Writing, Reading, LocalsOK
<1>5. LifeOK'
  BY PadFuncsAssumption, <1>1, <1>2
  DEF IInv, TypeOK, SaveInfo, local, InMap, Setting, Writing, Reading, LocalsOK,
      LifeOK, Finalizing
<1>6. SetterAlone'
  BY PadFuncsAssumption, <1>1, <1>2
  DEF IInv, TypeOK, SaveInfo, local, InMap, Setting, Writing, Reading, LocalsOK,
      SetterAlone
<1>7. InfoOK'
  BY PadFuncsAssumption, <1>1, <1>2
  DEF IInv, TypeOK, SaveInfo, local, InMap, Setting, Writing, Reading, LocalsOK,
      InfoOK, Owned
<1>8. HeldOnce'
  BY PadFuncsAssumption, <1>1, <1>2
  DEF IInv, TypeOK, SaveInfo, local, InMap, Setting, Writing, Reading, LocalsOK,
      HeldOnce, Owned
<1>9. HandlesOwned'
  <2>1. ASSUME NEW j \in Infos PROVE Owned(j)' <=> Owned(j) \/ j = i
    BY <1>1, <1>2, PadFuncsAssumption DEF IInv, TypeOK, Owned, SaveInfo
  <2>2. ASSUME NEW j \in Infos, NEW h \in HandleFields
        PROVE  <<j, h>> \in saved' <=> <<j, h>> \in saved \/ j = i
    BY <1>1 DEF HandlesOf
  <2>3. QED
    BY <2>1, <2>2 DEF IInv, HandlesOwned
<1>10. MapBacked'
  BY PadFuncsAssumption, <1>1, <1>2
  DEF IInv, TypeOK, SaveInfo, local, InMap, Setting, Writing, Reading, LocalsOK,
      LifeOK, Finalizing, MapBacked, Pending
<1>11. QED
  BY <1>3, <1>4, <1>5, <1>6, <1>7, <1>8, <1>9, <1>10 DEF IInv

LEMMA StoreFirstStep ==
    ASSUME IInv, NEW t \in Threads, StoreFirst(t)
    PROVE  IInv'
<1>1. TypeOK'
  BY PadFuncsAssumption
  DEF IInv, TypeOK, StoreFirst, local, InMap, Setting, Writing, Reading
<1>2. LocalsOK'
  BY PadFuncsAssumption
  DEF IInv, TypeOK, StoreFirst, local, InMap, Setting, Writing, Reading,
      LocalsOK, SetterAlone
<1>3. LifeOK'
  BY PadFuncsAssumption
  DEF IInv, TypeOK, StoreFirst, local, InMap, Setting, Writing, Reading,
      LocalsOK, LifeOK, Finalizing
<1>4. SetterAlone'
  BY PadFuncsAssumption
  DEF IInv, TypeOK, StoreFirst, local, InMap, Setting, Writing, Reading,
      LocalsOK, SetterAlone
<1>5. InfoOK'
  BY PadFuncsAssumption
  DEF IInv, TypeOK, StoreFirst, local, InMap, Setting, Writing, Reading,
      LocalsOK, InfoOK, SetterAlone
<1>6. HeldOnce'
  BY PadFuncsAssumption
  DEF IInv, TypeOK, StoreFirst, local, InMap, Setting, Writing, Reading,
      LocalsOK, HeldOnce
<1>7. HandlesOwned'
  <2>1. ASSUME NEW j \in Infos PROVE Owned(j)' <=> Owned(j)
    <3>1. pad[t] \in Pads /\ kind[t] \in Kinds /\ new[t] \in Infos
      BY DEF IInv, TypeOK, LocalsOK, StoreFirst
    <3>2. slot'[pad[t]][kind[t]] = new[t] /\ new'[t] = None
      BY <3>1 DEF IInv, TypeOK, StoreFirst
    <3>3. \A p \in Pads, k \in Kinds :
            p # pad[t] \/ k # kind[t] => slot'[p][k] = slot[p][k]
      BY <3>1 DEF IInv, TypeOK, StoreFirst
    <3>4. \A u \in Threads : u # t => new'[u] = new[u]
      BY DEF IInv, TypeOK, StoreFirst
    <3>5. slot[pad[t]][kind[t]] = None /\ j # None
      BY PadFuncsAssumption DEF StoreFirst
    <3>6. QED
      BY <3>1, <3>2, <3>3, <3>4, <3>5 DEF Owned
  <2>2. QED
    BY <2>1 DEF IInv, HandlesOwned, StoreFirst
<1>8. MapBacked'
  BY PadFuncsAssumption
  DEF IInv, TypeOK, StoreFirst, local, InMap, Setting, Writing, Reading,
      LocalsOK, LifeOK, Finalizing, MapBacked, Pending
<1>9. QED
  BY <1>1, <1>2, <1>3, <1>4, <1>5, <1>6, <1>7, <1>8 DEF IInv

LEMMA NotifyReplacedStep ==
    ASSUME IInv, NEW t \in Threads, NotifyReplaced(t)
    PROVE  IInv'
<1>1. HandlesOf(slot[pad[t]][kind[t]]) \subseteq saved
  BY SlotHandles DEF IInv, LocalsOK, NotifyReplaced, Notify
<1>2. /\ pc[t] = "store" /\ pc' = [pc EXCEPT ![t] = "remove"]
      /\ old' = [old EXCEPT ![t] = slot[pad[t]][kind[t]]]
      /\ slot[pad[t]][kind[t]] # None
      /\ UNCHANGED <<funcMaps, saved, notifyInfo, slot, life, pad, kind, fn,
                      new, current, panicked>>
  BY <1>1 DEF NotifyReplaced, Notify
<1>3. TypeOK'
  <2>1. pad[t] \in Pads /\ kind[t] \in Kinds
    BY <1>2 DEF IInv, LocalsOK
  <2>2. slot[pad[t]][kind[t]] \in Infos
    BY <1>2, <2>1 DEF IInv, TypeOK
  <2>3. QED
    BY <1>2, <2>2 DEF IInv, TypeOK, InMap, Setting, Writing, Reading
<1>4. LocalsOK'
  BY <1>2 DEF IInv, TypeOK, NotifyReplaced, local, InMap, Setting, Writing,
              Reading, LocalsOK
<1>5. LifeOK'
  BY <1>2 DEF IInv, TypeOK, NotifyReplaced, local, InMap, Setting, Writing,
              Reading, LocalsOK, LifeOK, Finalizing
<1>6. SetterAlone'
  BY <1>2 DEF IInv, TypeOK, NotifyReplaced, local, InMap, Setting, Writing,
              Reading, LocalsOK, SetterAlone
<1>7. InfoOK'
  BY <1>2 DEF IInv, TypeOK, NotifyReplaced, local, InMap, Setting, Writing,
              Reading, LocalsOK, InfoOK
<1>8. HeldOnce'
  BY <1>2 DEF IInv, TypeOK, NotifyReplaced, local, InMap, Setting, Writing,
              Reading, LocalsOK, HeldOnce
<1>9. HandlesOwned'
  BY HandlesFrame DEF IInv, NotifyReplaced, local
<1>10. MapBacked'
  BY <1>2 DEF IInv, TypeOK, NotifyReplaced, local, InMap, Setting, Writing,
              Reading, LocalsOK, LifeOK, Finalizing, MapBacked, Pending
<1>11. QED
  BY <1>3, <1>4, <1>5, <1>6, <1>7, <1>8, <1>9, <1>10 DEF IInv

LEMMA RemoveFuncForPadStep ==
    ASSUME IInv, NEW t \in Threads, RemoveFuncForPad(t)
    PROVE  IInv'
<1>1. /\ pc[t] = "remove" /\ pad[t] \in Pads /\ kind[t] \in Kinds
      /\ funcMaps' = [funcMaps EXCEPT ![kind[t]][pad[t]] = None]
  BY RemovedEntry
<1>2. TypeOK'
  <2>1. funcMaps' \in [Kinds -> [Pads -> Funcs \cup {None}]]
    BY <1>1 DEF IInv, TypeOK
  <2>2. QED
    BY <1>1, <2>1 DEF IInv, TypeOK, RemoveFuncForPad, local, InMap, Setting,
                       Writing, Reading
<1>3. LocalsOK'
  BY <1>1 DEF IInv, TypeOK, RemoveFuncForPad, local, InMap, Setting, Writing,
              Reading, LocalsOK
<1>4. LifeOK'
  BY <1>1 DEF IInv, TypeOK, RemoveFuncForPad, local, InMap, Setting, Writing,
              Reading, LocalsOK, LifeOK, Finalizing
<1>5. SetterAlone'
  BY <1>1 DEF IInv, TypeOK, RemoveFuncForPad, local, InMap, Setting, Writing,
              Reading, LocalsOK, SetterAlone
<1>6. InfoOK'
  BY <1>1 DEF IInv, TypeOK, RemoveFuncForPad, local, InMap, Setting, Writing,
              Reading, LocalsOK, InfoOK
<1>7. HeldOnce'
  BY <1>1 DEF IInv, TypeOK, RemoveFuncForPad, local, InMap, Setting, Writing,
              Reading, LocalsOK, HeldOnce
<1>8. HandlesOwned'
  BY HandlesFrame DEF IInv, RemoveFuncForPad, local
<1>9. MapBacked'
  <2>1. ASSUME NEW q \in Pads, NEW l \in Kinds
        PROVE  funcMaps'[l][q] = IF q = pad[t] /\ l = kind[t] THEN None
                                 ELSE funcMaps[l][q]
    BY <1>1 DEF IInv, TypeOK
  <2>2. ASSUME NEW q \in Pads, NEW l \in Kinds, Pending(q, l)
        PROVE  Pending(q, l)'
    BY <2>2 DEF IInv, TypeOK, Pending, RemoveFuncForPad, local
  <2>3. ASSUME NEW u \in Threads, pc'[u] = "unref"
        PROVE  funcMaps'[kind[u]][pad[u]] = None
    <3>1. pad[u] \in Pads /\ kind[u] \in Kinds
      BY <2>3 DEF IInv, TypeOK, LocalsOK, RemoveFuncForPad
    <3>2. u # t => pc[u] = "unref"
      BY <2>3 DEF IInv, TypeOK, RemoveFuncForPad
    <3>3. QED
      BY <2>1, <3>1, <3>2 DEF IInv, MapBacked
  <2>4. QED
    BY <2>1, <2>2, <2>3 DEF IInv, MapBacked, RemoveFuncForPad, local
<1>10. QED
  BY <1>2, <1>3, <1>4, <1>5, <1>6, <1>7, <1>8, <1>9 DEF IInv

LEMMA UnrefInfoStep ==
    ASSUME IInv, NEW t \in Threads, UnrefInfo(t)
    PROVE  IInv'
<1>1. /\ pc[t] = "unref" /\ pad[t] \in Pads /\ kind[t] \in Kinds
      /\ old[t] \in Infos /\ slot[pad[t]][kind[t]] = old[t]
      /\ saved' = saved \ HandlesOf(old[t])
      /\ slot' = [slot EXCEPT ![pad[t]][kind[t]] = new[t]]
      /\ new' = [new EXCEPT ![t] = None]
  BY DEF IInv, TypeOK, LocalsOK, UnrefInfo
<1>2. TypeOK'
  <2>1. slot' \in [Pads -> [Kinds -> Infos \cup {None}]]
    BY <1>1 DEF IInv, TypeOK
  <2>2. current' \in [Pads -> [Kinds -> Funcs \cup {None}]]
    <3>1. /\ current \in [Pads -> [Kinds -> Funcs \cup {None}]]
          /\ fn[t] \in Funcs \cup {None}
      BY DEF IInv, TypeOK
    <3>2. CASE current' = [current EXCEPT ![pad[t]][kind[t]] = fn[t]]
      BY <1>1, <3>1, <3>2
    <3>3. CASE current' = [current EXCEPT ![pad[t]][kind[t]] = None]
      BY <1>1, <3>1, <3>3
    <3>4. QED
      BY <3>2, <3>3 DEF UnrefInfo
  <2>3. new' \in [Threads -> Infos \cup {None}]
    BY <1>1 DEF IInv, TypeOK
  <2>4. saved' \subseteq Infos \X HandleFields
    BY <1>1 DEF IInv, TypeOK
  <2>5. pc' \in [Threads -> {"idle", "call", "finalize"} \cup InMap \cup Setting]
    BY DEF IInv, TypeOK, UnrefInfo
  <2>6. QED
    BY <2>1, <2>2, <2>3, <2>4, <2>5 DEF IInv, TypeOK, UnrefInfo
<1>3. LocalsOK'
  BY PadFuncsAssumption, <1>1
  DEF IInv, TypeOK, UnrefInfo, local, InMap, Setting, Writing, Reading,
      LocalsOK, LifeOK, Finalizing, SetterAlone
<1>4. LifeOK'
  BY PadFuncsAssumption, <1>1
  DEF IInv, TypeOK, UnrefInfo, local, InMap, Setting, Writing, Reading,
      LocalsOK, LifeOK, Finalizing
<1>5. SetterAlone'
  BY PadFuncsAssumption, <1>1
  DEF IInv, TypeOK, UnrefInfo, local, InMap, Setting, Writing, Reading,
      LocalsOK, SetterAlone
<1>6. InfoOK'
  BY PadFuncsAssumption, <1>1
  DEF IInv, TypeOK, UnrefInfo, local, InMap, Setting, Writing, Reading,
      LocalsOK, InfoOK
<1>7. HeldOnce'
  BY PadFuncsAssumption, <1>1
  DEF IInv, TypeOK, UnrefInfo, local, InMap, Setting, Writing, Reading,
      LocalsOK, HeldOnce
<1>8. HandlesOwned'
  <2>1. ASSUME NEW j \in Infos PROVE Owned(j)' <=> Owned(j) /\ j # old[t]
    <3>1. slot'[pad[t]][kind[t]] = new[t] /\ new'[t] = None /\ j # None
      BY <1>1, PadFuncsAssumption DEF IInv, TypeOK
    <3>2. \A p \in Pads, k \in Kinds :
            p # pad[t] \/ k # kind[t] => slot'[p][k] = slot[p][k]
      BY <1>1 DEF IInv, TypeOK
    <3>3. \A u \in Threads : u # t => new'[u] = new[u]
      BY <1>1 DEF IInv, TypeOK
    <3>4. \A p \in Pads, k \in Kinds :
            slot[p][k] = old[t] => p = pad[t] /\ k = kind[t]
      BY <1>1, PadFuncsAssumption DEF IInv, HeldOnce
    <3>5. \A u \in Threads : new[u] # old[t]
      BY <1>1, PadFuncsAssumption DEF IInv, HeldOnce
    <3>6. QED
      BY <1>1, <3>1, <3>2, <3>3, <3>4, <3>5 DEF Owned
  <2>2. ASSUME NEW j \in Infos, NEW h \in HandleFields
        PROVE  <<j, h>> \in saved' <=> <<j, h>> \in saved /\ j # old[t]
    BY <1>1 DEF HandlesOf
  <2>3. QED
    BY <2>1, <2>2 DEF IInv, HandlesOwned
<1>9. MapBacked'
  <2>1. ASSUME NEW q \in Pads, NEW l \in Kinds, funcMaps[l][q] # None,
               slot'[q][l] = None
        PROVE  Pending(q, l)'
    <3>1. q # pad[t] \/ l # kind[t]
      BY <1>1, <2>1 DEF IInv, MapBacked
    <3>2. slot[q][l] = None
      BY <1>1, <2>1, <3>1 DEF IInv, TypeOK
    <3>3. PICK u \in Threads :
            pc[u] \in {"save", "store"} /\ pad[u] = q /\ kind[u] = l
      BY <2>1, <3>2 DEF IInv, MapBacked, Pending
    <3>4. QED
      BY <1>1, <3>3 DEF IInv, TypeOK, UnrefInfo, Pending
  <2>2. ASSUME NEW q \in Pads, NEW l \in Kinds, slot'[q][l] # None
        PROVE  life[q] # "absent"
    <3>1. CASE q = pad[t] /\ l = kind[t]
      BY <1>1, <3>1 DEF IInv, MapBacked, LocalsOK
    <3>2. CASE q # pad[t] \/ l # kind[t]
      BY <1>1, <2>2, <3>2 DEF IInv, TypeOK, MapBacked
    <3>3. QED
      BY <3>1, <3>2
  <2>3. ASSUME NEW u \in Threads, pc'[u] = "unref"
        PROVE  funcMaps[kind[u]][pad[u]] = None
    BY <1>1, <2>3 DEF IInv, TypeOK, UnrefInfo, MapBacked
  <2>4. QED
    BY <2>1, <2>2, <2>3 DEF MapBacked, UnrefInfo
<1>10. QED
  BY <1>2, <1>3, <1>4, <1>5, <1>6, <1>7, <1>8, <1>9 DEF IInv

LEMMA BeginFinalizeStep ==
    ASSUME IInv, NEW t \in Threads, NEW p \in Pads, BeginFinalize(t, p)
    PROVE  IInv'
<1>1. TypeOK'
  BY DEF IInv, TypeOK, BeginFinalize, local, InMap, Setting, Writing, Reading
<1>2. LocalsOK'
  BY DEF IInv, TypeOK, BeginFinalize, local, InMap, Setting, Writing, Reading,
         LocalsOK
<1>3. LifeOK'
  BY DEF IInv, TypeOK, BeginFinalize, local, InMap, Setting, Writing, Reading,
         LocalsOK, LifeOK, Finalizing
<1>4. SetterAlone'
  BY DEF IInv, TypeOK, BeginFinalize, local, InMap, Setting, Writing, Reading,
         LocalsOK, SetterAlone
<1>5. InfoOK'
  BY DEF IInv, TypeOK, BeginFinalize, local, InMap, Setting, Writing, Reading,
         LocalsOK, InfoOK
<1>6. HeldOnce'
  BY DEF IInv, TypeOK, BeginFinalize, local, InMap, Setting, Writing, Reading,
         LocalsOK, HeldOnce
<1>7. HandlesOwned'
  BY HandlesFrame DEF IInv, BeginFinalize, local
<1>8. MapBacked'
  <2>1. ASSUME NEW q \in Pads, NEW l \in Kinds, Pending(q, l)
        PROVE  Pending(q, l)'
    <3>1. PICK u \in Threads :
            pc[u] \in {"save", "store"} /\ pad[u] = q /\ kind[u] = l
      BY <2>1 DEF Pending
    <3>2. u # t
      BY <3>1 DEF BeginFinalize
    <3>3. QED
      BY <3>1, <3>2 DEF IInv, TypeOK, BeginFinalize, local, Pending
  <2>2. ASSUME NEW u \in Threads, pc'[u] = "unref"
        PROVE  funcMaps[kind'[u]][pad'[u]] = None
    BY <2>2 DEF IInv, TypeOK, MapBacked, BeginFinalize, local
  <2>3. \A q \in Pads, l \in Kinds : slot[q][l] # None => life'[q] # "absent"
    BY DEF IInv, TypeOK, MapBacked, LocalsOK, BeginFinalize
  <2>4. QED
    BY <2>1, <2>2, <2>3 DEF IInv, MapBacked, BeginFinalize
<1>9. QED
  BY <1>1, <1>2, <1>3, <1>4, <1>5, <1>6, <1>7, <1>8 DEF IInv

LEMMA NotifyFinalizedStep ==
    ASSUME IInv, NEW t \in Threads, NEW k \in Kinds, NotifyFinalized(t, k)
    PROVE  IInv'
<1>1. pc[t] = "finalize" /\ pad[t] \in Pads /\ new[t] = None
  BY DEF IInv, LocalsOK, NotifyFinalized
<1>2. HandlesOf(slot[pad[t]][k]) \subseteq saved
  BY <1>1, SlotHandles DEF NotifyFinalized, Notify
<1>3. /\ pc' = [pc EXCEPT ![t] = "remove"] /\ kind' = [kind EXCEPT ![t] = k]
      /\ old' = [old EXCEPT ![t] = slot[pad[t]][k]]
      /\ slot[pad[t]][k] # None
      /\ UNCHANGED <<funcMaps, saved, notifyInfo, slot, life, pad, fn, new,
                      current, panicked>>
  BY <1>2 DEF NotifyFinalized, Notify
<1>4. \A u \in Threads : u # t /\ pc[u] # "idle" => pad[u] # pad[t]
  BY <1>1 DEF IInv, LifeOK, Finalizing
<1>5. TypeOK'
  BY <1>1, <1>3, <1>4
  DEF IInv, TypeOK, NotifyFinalized, local, InMap, Setting, Writing, Reading
<1>6. LocalsOK'
  BY <1>1, <1>3, <1>4
  DEF IInv, TypeOK, NotifyFinalized, local, InMap, Setting, Writing, Reading,
      LocalsOK
<1>7. LifeOK'
  BY <1>1, <1>3, <1>4
  DEF IInv, TypeOK, NotifyFinalized, local, InMap, Setting, Writing, Reading,
      LocalsOK, LifeOK, Finalizing
<1>8. SetterAlone'
  BY <1>1, <1>3, <1>4
  DEF IInv, TypeOK, NotifyFinalized, local, InMap, Setting, Writing, Reading,
      LocalsOK, SetterAlone
<1>9. InfoOK'
  BY <1>1, <1>3, <1>4
  DEF IInv, TypeOK, NotifyFinalized, local, InMap, Setting, Writing, Reading,
      LocalsOK, InfoOK
<1>10. HeldOnce'
  BY <1>1, <1>3, <1>4
  DEF IInv, TypeOK, NotifyFinalized, local, InMap, Setting, Writing, Reading,
      LocalsOK, HeldOnce
<1>11. HandlesOwned'
  BY HandlesFrame DEF IInv, NotifyFinalized, local
<1>12. MapBacked'
  BY <1>1, <1>3, <1>4
  DEF IInv, TypeOK, NotifyFinalized, local, InMap, Setting, Writing, Reading,
      LocalsOK, LifeOK, Finalizing, MapBacked, Pending
<1>13. QED
  BY <1>5, <1>6, <1>7, <1>8, <1>9, <1>10, <1>11, <1>12 DEF IInv

LEMMA EndFinalizeStep ==
    ASSUME IInv, NEW t \in Threads, EndFinalize(t)
    PROVE  IInv'
<1>1. TypeOK'
  BY DEF IInv, TypeOK, EndFinalize, local, InMap, Setting, Writing, Reading
<1>2. LocalsOK'
  BY DEF IInv, TypeOK, EndFinalize, local, InMap, Setting, Writing, Reading,
         LocalsOK
<1>3. LifeOK'
  BY DEF IInv, TypeOK, EndFinalize, local, InMap, Setting, Writing, Reading,
         LocalsOK, LifeOK, Finalizing
<1>4. SetterAlone'
  BY DEF IInv, TypeOK, EndFinalize, local, InMap, Setting, Writing, Reading,
         LocalsOK, SetterAlone
<1>5. InfoOK'
  BY DEF IInv, TypeOK, EndFinalize, local, InMap, Setting, Writing, Reading,
         LocalsOK, InfoOK
<1>6. HeldOnce'
  BY DEF IInv, TypeOK, EndFinalize, local, InMap, Setting, Writing, Reading,
         LocalsOK, HeldOnce
<1>7. HandlesOwned'
  BY HandlesFrame DEF IInv, EndFinalize, local
<1>8. MapBacked'
  <2>1. ASSUME NEW q \in Pads, NEW l \in Kinds, Pending(q, l)
        PROVE  Pending(q, l)'
    <3>1. PICK u \in Threads :
            pc[u] \in {"save", "store"} /\ pad[u] = q /\ kind[u] = l
      BY <2>1 DEF Pending
    <3>2. u # t
      BY <3>1 DEF EndFinalize
    <3>3. QED
      BY <3>1, <3>2 DEF IInv, TypeOK, EndFinalize, local, Pending
  <2>2. ASSUME NEW u \in Threads, pc'[u] = "unref"
        PROVE  funcMaps[kind'[u]][pad'[u]] = None
    BY <2>2 DEF IInv, TypeOK, MapBacked, EndFinalize, local
  <2>3. \A q \in Pads, l \in Kinds : slot[q][l] # None => life'[q] # "absent"
    BY DEF IInv, TypeOK, MapBacked, LocalsOK, EndFinalize
  <2>4. QED
    BY <2>1, <2>2, <2>3 DEF IInv, MapBacked, EndFinalize
<1>9. QED
  BY <1>1, <1>2, <1>3, <1>4, <1>5, <1>6, <1>7, <1>8 DEF IInv

LEMMA BeginDispatchStep ==
    ASSUME IInv, NEW t \in Threads, NEW p \in Pads, NEW k \in Kinds, BeginDispatch(t, p, k)
    PROVE  IInv'
<1>1. TypeOK'
  BY DEF IInv, TypeOK, BeginDispatch, local, InMap, Setting, Writing, Reading
<1>2. LocalsOK'
  BY DEF IInv, TypeOK, BeginDispatch, local, InMap, Setting, Writing, Reading,
         LocalsOK
<1>3. LifeOK'
  BY DEF IInv, TypeOK, BeginDispatch, local, InMap, Setting, Writing, Reading,
         LocalsOK, LifeOK, Finalizing
<1>4. SetterAlone'
  BY DEF IInv, TypeOK, BeginDispatch, local, InMap, Setting, Writing, Reading,
         LocalsOK, SetterAlone
<1>5. InfoOK'
  BY DEF IInv, TypeOK, BeginDispatch, local, InMap, Setting, Writing, Reading,
         LocalsOK, InfoOK
<1>6. HeldOnce'
  BY DEF IInv, TypeOK, BeginDispatch, local, InMap, Setting, Writing, Reading,
         LocalsOK, HeldOnce
<1>7. HandlesOwned'
  BY HandlesFrame DEF IInv, BeginDispatch, local
<1>8. MapBacked'
  <2>1. ASSUME NEW q \in Pads, NEW l \in Kinds, Pending(q, l)
        PROVE  Pending(q, l)'
    <3>1. PICK u \in Threads :
            pc[u] \in {"save", "store"} /\ pad[u] = q /\ kind[u] = l
      BY <2>1 DEF Pending
    <3>2. u # t
      BY <3>1 DEF BeginDispatch
    <3>3. QED
      BY <3>1, <3>2 DEF IInv, TypeOK, BeginDispatch, local, Pending
  <2>2. ASSUME NEW u \in Threads, pc'[u] = "unref"
        PROVE  funcMaps[kind'[u]][pad'[u]] = None
    BY <2>2 DEF IInv, TypeOK, MapBacked, BeginDispatch, local
  <2>3. \A q \in Pads, l \in Kinds : slot[q][l] # None => life'[q] # "absent"
    BY DEF IInv, TypeOK, MapBacked, LocalsOK, BeginDispatch
  <2>4. QED
    BY <2>1, <2>2, <2>3 DEF IInv, MapBacked, BeginDispatch
<1>9. QED
  BY <1>1, <1>2, <1>3, <1>4, <1>5, <1>6, <1>7, <1>8 DEF IInv

LEMMA FoundStep ==
    ASSUME IInv, NEW t \in Threads, Found(t)
    PROVE  IInv'
<1>1. TypeOK'
  <2>1. FuncForPad(kind[t], pad[t]) \in Funcs \cup {None}
    BY DEF IInv, TypeOK, LocalsOK, Found, FuncForPad
  <2>2. QED
    BY <2>1 DEF IInv, TypeOK, Found, InMap, Setting, Writing, Reading
<1>2. LocalsOK'
  BY DEF IInv, TypeOK, Found, local, InMap, Setting, Writing, Reading, LocalsOK
<1>3. LifeOK'
  BY DEF IInv, TypeOK, Found, local, InMap, Setting, Writing, Reading, LocalsOK,
         LifeOK, Finalizing
<1>4. SetterAlone'
  BY DEF IInv, TypeOK, Found, local, InMap, Setting, Writing, Reading, LocalsOK,
         SetterAlone
<1>5. InfoOK'
  BY DEF IInv, TypeOK, Found, local, InMap, Setting, Writing, Reading, LocalsOK,
         InfoOK
<1>6. HeldOnce'
  BY DEF IInv, TypeOK, Found, local, InMap, Setting, Writing, Reading, LocalsOK,
         HeldOnce
<1>7. HandlesOwned'
  BY HandlesFrame DEF IInv, Found, local
<1>8. MapBacked'
  BY DEF IInv, TypeOK, Found, local, InMap, Setting, Writing, Reading, LocalsOK,
         LifeOK, Finalizing, MapBacked, Pending
<1>9. QED
  BY <1>1, <1>2, <1>3, <1>4, <1>5, <1>6, <1>7, <1>8 DEF IInv

LEMMA NotFoundStep ==
    ASSUME IInv, NEW t \in Threads, NotFound(t)
    PROVE  IInv'
<1>1. TypeOK'
  BY DEF IInv, TypeOK, NotFound, local, InMap, Setting, Writing, Reading
<1>2. LocalsOK'
  BY DEF IInv, TypeOK, NotFound, local, InMap, Setting, Writing, Reading,
         LocalsOK
<1>3. LifeOK'
  BY DEF IInv, TypeOK, NotFound, local, InMap, Setting, Writing, Reading,
         LocalsOK, LifeOK, Finalizing
<1>4. SetterAlone'
  BY DEF IInv, TypeOK, NotFound, local, InMap, Setting, Writing, Reading,
         LocalsOK, SetterAlone
<1>5. InfoOK'
  BY DEF IInv, TypeOK, NotFound, local, InMap, Setting, Writing, Reading,
         LocalsOK, InfoOK
<1>6. HeldOnce'
  BY DEF IInv, TypeOK, NotFound, local, InMap, Setting, Writing, Reading,
         LocalsOK, HeldOnce
<1>7. HandlesOwned'
  BY HandlesFrame DEF IInv, NotFound, local
<1>8. MapBacked'
  BY DEF IInv, TypeOK, NotFound, local, InMap, Setting, Writing, Reading,
         LocalsOK, LifeOK, Finalizing, MapBacked, Pending
<1>9. QED
  BY <1>1, <1>2, <1>3, <1>4, <1>5, <1>6, <1>7, <1>8 DEF IInv

LEMMA ReturnStep ==
    ASSUME IInv, NEW t \in Threads, Return(t)
    PROVE  IInv'
<1>1. TypeOK'
  BY DEF IInv, TypeOK, Return, local, InMap, Setting, Writing, Reading
<1>2. LocalsOK'
  BY DEF IInv, TypeOK, Return, local, InMap, Setting, Writing, Reading, LocalsOK
<1>3. LifeOK'
  BY DEF IInv, TypeOK, Return, local, InMap, Setting, Writing, Reading,
         LocalsOK, LifeOK, Finalizing
<1>4. SetterAlone'
  BY DEF IInv, TypeOK, Return, local, InMap, Setting, Writing, Reading,
         LocalsOK, SetterAlone
<1>5. InfoOK'
  BY DEF IInv, TypeOK, Return, local, InMap, Setting, Writing, Reading,
         LocalsOK, InfoOK
<1>6. HeldOnce'
  BY DEF IInv, TypeOK, Return, local, InMap, Setting, Writing, Reading,
         LocalsOK, HeldOnce
<1>7. HandlesOwned'
  BY HandlesFrame DEF IInv, Return, local
<1>8. MapBacked'
  BY DEF IInv, TypeOK, Return, local, InMap, Setting, Writing, Reading,
         LocalsOK, LifeOK, Finalizing, MapBacked, Pending
<1>9. QED
  BY <1>1, <1>2, <1>3, <1>4, <1>5, <1>6, <1>7, <1>8 DEF IInv

\* Every step keeps the invariant.
LEMMA IInvStep == IInv /\ [Next]_vars => IInv'
<1> SUFFICES ASSUME IInv, [Next]_vars PROVE IInv'
  OBVIOUS
<1>1. ASSUME NEW p \in Pads, NewPad(p) PROVE IInv'
  BY <1>1, NewPadStep
<1>2. ASSUME NEW t \in Threads, Advance(t) PROVE IInv'
  BY <1>2, WriteMapStep, SaveInfoStep, StoreFirstStep, NotifyReplacedStep,
     RemoveFuncForPadStep, UnrefInfoStep, NotifyFinalizedStep, EndFinalizeStep,
     FoundStep, NotFoundStep, ReturnStep DEF Advance
<1>3. ASSUME NEW t \in Threads, NEW p \in Pads, BeginFinalize(t, p) PROVE IInv'
  BY <1>3, BeginFinalizeStep
<1>4. ASSUME NEW t \in Threads, NEW p \in Pads, NEW k \in Kinds,
             BeginDispatch(t, p, k)
      PROVE  IInv'
  BY <1>4, BeginDispatchStep
<1>5. ASSUME NEW t \in Threads, NEW p \in Pads, NEW k \in Kinds, NEW f \in Funcs,
             BeginSet(t, p, k, f)
      PROVE  IInv'
  BY <1>5, BeginSetStep
<1>6. CASE UNCHANGED vars
  <2>1. HandlesOwned'
    BY <1>6, HandlesFrame DEF vars, IInv
  <2>2. TypeOK' /\ LocalsOK' /\ LifeOK' /\ SetterAlone'
    BY <1>6 DEF vars, local, IInv, TypeOK, LocalsOK, LifeOK, Finalizing,
                SetterAlone
  <2>3. InfoOK'
    BY <1>6 DEF vars, local, IInv, InfoOK
  <2>4. HeldOnce'
    BY <1>6 DEF vars, local, IInv, HeldOnce
  <2>5. MapBacked'
    BY <1>6 DEF vars, local, IInv, MapBacked, Pending
  <2>6. QED
    BY <2>1, <2>2, <2>3, <2>4, <2>5 DEF IInv
<1>7. QED
  BY <1>1, <1>2, <1>3, <1>4, <1>5, <1>6 DEF Next

\* IInv holds in every reachable state, whatever the application does with
\* the setters.
THEOREM IInvHolds == Spec => []IInv
BY InitIInv, IInvStep, PTL DEF Spec

\* The variables keep their types.
THEOREM TypeCorrect == Spec => []TypeOK
<1>1. IInv => TypeOK
  BY DEF IInv
<1>2. QED
  BY <1>1, IInvHolds, PTL

\* The two gopointer handles of a notify record (gst_pad.go:772-773) are live
\* exactly while C or a setter holds the record, even when functions are
\* replaced: goGstPadFuncDestroyNotify always restores, and nothing leaks.
THEOREM HandlesBalanced == Spec => []HandlesOwned
<1>1. IInv => HandlesOwned
  BY DEF IInv
<1>2. QED
  BY <1>1, IInvHolds, PTL

\* A notify record is in one slot or in one setter: C notifies it once.
THEOREM RecordHeldOnce == Spec => []HeldOnce
<1>1. IInv => HeldOnce
  BY DEF IInv
<1>2. QED
  BY <1>1, IInvHolds, PTL

\* A pad allocated at the address of a finalised one inherits no function:
\* RemoveFuncForPad has run for every kind.
THEOREM AddressReuse == Spec => []AbsentPadForgotten
<1>1. ASSUME IInv, NEW p \in Pads, NEW k \in Kinds, life[p] = "absent"
      PROVE  funcMaps[k][p] = None /\ slot[p][k] = None
  <2>1. slot[p][k] = None
    BY <1>1 DEF IInv, MapBacked
  <2>2. ~Pending(p, k)
    BY <1>1 DEF IInv, Pending, LifeOK, Finalizing
  <2>3. QED
    BY <1>1, <2>1, <2>2 DEF IInv, MapBacked
<1>2. IInv => AbsentPadForgotten
  BY <1>1 DEF AbsentPadForgotten
<1>3. QED
  BY <1>2, IInvHolds, PTL

-----------------------------------------------------------------------------
\* Every step keeps RInv: a step on a replaceable kind touches no entry, slot
\* or function of another kind.
LEMMA RInvStep ==
    ASSUME IInv, IInv', RInv, [Next]_vars
    PROVE  RInv'
<1> USE PadFuncsAssumption DEF Setting
<1>1. ASSUME NEW p \in Pads, NewPad(p) PROVE RInv'
  BY <1>1 DEF NewPad, RInv, local, IInv, TypeOK, MapBacked, DispatchesCurrent
<1>2. ASSUME NEW t \in Threads, NEW p \in Pads, BeginFinalize(t, p) PROVE RInv'
  BY <1>2 DEF BeginFinalize, RInv, local, IInv, TypeOK, LocalsOK, LifeOK,
              SetterAlone, Finalizing, DispatchesCurrent, FuncForPad
<1>3. ASSUME NEW t \in Threads, NEW p \in Pads, NEW k \in Kinds, BeginDispatch(t, p, k)
      PROVE  RInv'
  BY <1>3 DEF BeginDispatch, RInv, local, IInv, TypeOK, LocalsOK, LifeOK,
              SetterAlone, Finalizing, DispatchesCurrent, FuncForPad
<1>4. ASSUME NEW t \in Threads, NEW p \in Pads, NEW k \in Kinds, NEW f \in Funcs, BeginSet(t, p, k, f)
      PROVE  RInv'
  BY <1>4 DEF BeginSet, RInv, local, IInv, TypeOK, LocalsOK, LifeOK,
              SetterAlone, Finalizing, DispatchesCurrent, FuncForPad
<1>5. ASSUME NEW t \in Threads, WriteMap(t) PROVE RInv'
  BY <1>5 DEF WriteMap, RInv, local, IInv, TypeOK, LocalsOK, LifeOK,
              SetterAlone, Finalizing, DispatchesCurrent, FuncForPad
<1>6. ASSUME NEW t \in Threads, SaveInfo(t) PROVE RInv'
  BY <1>6 DEF SaveInfo, RInv, local, IInv, TypeOK, LocalsOK, LifeOK,
              SetterAlone, Finalizing, DispatchesCurrent, FuncForPad
<1>7. ASSUME NEW t \in Threads, StoreFirst(t) PROVE RInv'
  BY <1>7 DEF StoreFirst, RInv, local, IInv, TypeOK, LocalsOK, LifeOK,
              SetterAlone, Finalizing, DispatchesCurrent, FuncForPad
<1>8. ASSUME NEW t \in Threads, NotifyReplaced(t) PROVE RInv'
  <2>1. pc[t] = "store" /\ kind[t] \in Kinds /\ slot[pad[t]][kind[t]] # None
    BY <1>8 DEF NotifyReplaced, Notify, IInv, LocalsOK
  <2>2. kind[t] \in Replaceable
    BY <2>1 DEF RInv
  <2>3. /\ \A u \in Threads : u # t => pc'[u] = pc[u]
        /\ UNCHANGED <<funcMaps, slot, life, pad, kind, fn, new, current>>
    BY <1>8 DEF NotifyReplaced, Notify, IInv, TypeOK
  <2>4. QED
    BY <2>2, <2>3 DEF RInv, DispatchesCurrent
<1>9. ASSUME NEW t \in Threads, RemoveFuncForPad(t) PROVE RInv'
  <2>1. /\ pc[t] = "remove" /\ pad[t] \in Pads /\ kind[t] \in Kinds
        /\ funcMaps' = [funcMaps EXCEPT ![kind[t]][pad[t]] = None]
    BY <1>9, RemovedEntry
  <2>2. kind[t] \notin Replaceable => new[t] = None /\ life[pad[t]] = "finalizing"
    BY <1>9, <2>1 DEF RInv, IInv, LifeOK, Finalizing
  <2>3. ASSUME NEW u \in Threads, u # t, pc[u] # "idle", kind[t] \notin Replaceable
        PROVE  pad[u] # pad[t]
    BY <2>1, <2>2, <2>3 DEF IInv, LifeOK
  <2>4. ASSUME NEW q \in Pads, NEW l \in Kinds, q # pad[t] \/ l # kind[t]
        PROVE  funcMaps'[l][q] = funcMaps[l][q]
    BY <2>1, <2>4 DEF IInv, TypeOK
  <2>5. ASSUME NEW u \in Threads, pc'[u] \in {"save", "store"},
               kind[u] \notin Replaceable
        PROVE  funcMaps'[kind[u]][pad[u]] = fn[u]
    <3>1. u # t /\ pc[u] = pc'[u]
      BY <1>9, <2>5 DEF RemoveFuncForPad, IInv, TypeOK
    <3>2. pad[u] \in Pads /\ kind[u] \in Kinds
      BY <2>5, <3>1 DEF IInv, LocalsOK
    <3>3. pad[u] # pad[t] \/ kind[u] # kind[t]
      BY <2>3, <2>5, <3>1
    <3>4. QED
      BY <2>4, <2>5, <3>1, <3>2, <3>3 DEF RInv
  <2>6. \A u \in Threads : pc'[u] = pc[u] \/ (u = t /\ pc'[u] = "unref")
    BY <1>9 DEF RemoveFuncForPad, IInv, TypeOK
  <2>7. ASSUME NEW q \in Pads, NEW l \in Kinds \ Replaceable, life[q] = "alive"
        PROVE  funcMaps'[l][q] = funcMaps[l][q]
    BY <2>2, <2>4, <2>7
  <2>8. QED
    BY <1>9, <2>1, <2>2, <2>5, <2>6, <2>7
    DEF RemoveFuncForPad, RInv, local, DispatchesCurrent
<1>10. ASSUME NEW t \in Threads, UnrefInfo(t) PROVE RInv'
  <2>1. pc[t] = "unref" /\ pad[t] \in Pads /\ kind[t] \in Kinds
    BY <1>10 DEF UnrefInfo, IInv, LocalsOK
  <2>2. kind[t] \notin Replaceable => new[t] = None /\ life[pad[t]] = "finalizing"
    BY <2>1 DEF RInv, IInv, LifeOK, Finalizing
  <2>3. ASSUME NEW u \in Threads, u # t, pc[u] # "idle", kind[t] \notin Replaceable
        PROVE  pad[u] # pad[t]
    BY <2>1, <2>2, <2>3 DEF IInv, LifeOK
  <2>4. ASSUME NEW q \in Pads, NEW l \in Kinds, q # pad[t] \/ l # kind[t]
        PROVE  slot'[q][l] = slot[q][l] /\ current'[q][l] = current[q][l]
    BY <1>10, <2>1, <2>4 DEF UnrefInfo, IInv, TypeOK
  <2>5. /\ UNCHANGED <<funcMaps, life, pad, kind, fn>>
        /\ \A u \in Threads : new[u] = None => new'[u] = None
        /\ \A u \in Threads : u # t => pc'[u] = pc[u]
        /\ pc'[t] \in {"idle", "finalize"}
    BY <1>10 DEF UnrefInfo, IInv, TypeOK
  <2>6. ASSUME NEW u \in Threads, u # t, pc[u] \notin {"idle", "finalize"},
               kind[u] \notin Replaceable
        PROVE  /\ slot'[pad[u]][kind[u]] = slot[pad[u]][kind[u]]
               /\ current'[pad[u]][kind[u]] = current[pad[u]][kind[u]]
    <3>1. pad[u] \in Pads /\ kind[u] \in Kinds
      BY <2>6 DEF IInv, LocalsOK
    <3>2. QED
      BY <2>3, <2>4, <2>6, <3>1
  <2>7. ASSUME NEW q \in Pads, NEW l \in Kinds \ Replaceable, life[q] = "alive"
        PROVE  slot'[q][l] = slot[q][l] /\ current'[q][l] = current[q][l]
    BY <2>2, <2>4, <2>7
  <2>8. QED
    BY <2>5, <2>6, <2>7 DEF RInv, DispatchesCurrent
<1>11. ASSUME NEW t \in Threads, NEW k \in Kinds, NotifyFinalized(t, k)
      PROVE  RInv'
  <2>1. pc[t] = "finalize" /\ pad[t] \in Pads /\ new[t] = None
    BY <1>11 DEF NotifyFinalized, IInv, LocalsOK
  <2>2. HandlesOf(slot[pad[t]][k]) \subseteq saved
    BY <1>11, <2>1, SlotHandles DEF NotifyFinalized, Notify
  <2>3. /\ pc' = [pc EXCEPT ![t] = "remove"] /\ kind' = [kind EXCEPT ![t] = k]
        /\ UNCHANGED <<funcMaps, slot, life, pad, fn, new, current, panicked>>
    BY <1>11, <2>2 DEF NotifyFinalized, Notify
  <2>4. \A u \in Threads : u # t => pc'[u] = pc[u] /\ kind'[u] = kind[u]
    BY <2>3 DEF IInv, TypeOK
  <2>5. pc'[t] = "remove"
    BY <2>3 DEF IInv, TypeOK
  <2>6. QED
    BY <2>1, <2>3, <2>4, <2>5 DEF RInv, DispatchesCurrent
<1>12. ASSUME NEW t \in Threads, EndFinalize(t) PROVE RInv'
  BY <1>12 DEF EndFinalize, RInv, local, IInv, TypeOK, LocalsOK, LifeOK,
               SetterAlone, Finalizing, DispatchesCurrent, FuncForPad
<1>13. ASSUME NEW t \in Threads, Found(t) PROVE RInv'
  BY <1>13 DEF Found, RInv, local, IInv, TypeOK, LocalsOK, LifeOK, SetterAlone,
               Finalizing, DispatchesCurrent, FuncForPad
<1>14. ASSUME NEW t \in Threads, NotFound(t) PROVE RInv'
  BY <1>14 DEF NotFound, RInv, local, DispatchesCurrent
<1>15. ASSUME NEW t \in Threads, Return(t) PROVE RInv'
  BY <1>15 DEF Return, RInv, local, IInv, TypeOK, LocalsOK, LifeOK, SetterAlone,
               Finalizing, DispatchesCurrent, FuncForPad
<1>16. CASE UNCHANGED vars
  BY <1>16 DEF vars, local, RInv, DispatchesCurrent
<1>17. QED
  BY <1>1, <1>2, <1>3, <1>4, <1>5, <1>6, <1>7, <1>8, <1>9, <1>10, <1>11,
     <1>12, <1>13, <1>14, <1>15, <1>16 DEF Next, Advance

THEOREM RInvHolds == Spec => []RInv
<1>1. Init => RInv
  BY PadFuncsAssumption DEF Init, RInv, DispatchesCurrent
<1>2. IInv /\ IInv' /\ RInv /\ [Next]_vars => RInv'
  BY RInvStep
<1>3. QED
  BY <1>1, <1>2, IInvHolds, PTL DEF Spec

\* A thread looking up a function that is set once will find it.
LEMMA LookupFinds == IInv /\ RInv => FindsFunction
<1> SUFFICES ASSUME IInv, RInv, NEW t \in Threads, pc[t] = "find",
                    kind[t] \notin Replaceable
             PROVE  FuncForPad(kind[t], pad[t]) # None
  BY DEF FindsFunction
<1>1. pad[t] \in Pads /\ kind[t] \in Kinds
  BY DEF IInv, LocalsOK
<1>2. life[pad[t]] = "alive" /\ slot[pad[t]][kind[t]] # None
  BY DEF IInv, LifeOK, Finalizing, RInv
<1>3. QED
  BY <1>1, <1>2 DEF RInv, FuncForPad

\* A dispatch of a kind whose functions are set once finds a function, even
\* while functions of other kinds are replaced on the same pads.
THEOREM SetOnceFound == Spec => []FindsFunction
BY IInvHolds, RInvHolds, LookupFinds, PTL

\* ... and what it runs is the function that was last set.
THEOREM SetOnceDispatchesCurrent == Spec => []DispatchesCurrent
<1>1. RInv => DispatchesCurrent
  BY DEF RInv
<1>2. QED
  BY <1>1, RInvHolds, PTL

\* When no function is ever replaced, no type assertion of the bindings fails.
THEOREM SetOnceNeverPanics == ASSUME Replaceable = {} PROVE Spec => []NeverPanics
<1>1. Init => NeverPanics
  BY DEF Init, NeverPanics
<1>2. ASSUME IInv, RInv, NeverPanics, [Next]_vars PROVE NeverPanics'
  <2> USE DEF NeverPanics
  <2>1. ASSUME NEW t \in Threads, Advance(t) PROVE ~panicked'
    <3>1. CASE NotFound(t)
      BY <1>2, <3>1, LookupFinds DEF NotFound, FindsFunction
    <3>2. CASE NotifyReplaced(t)
      <4>1. pad[t] \in Pads /\ kind[t] \in Kinds /\ slot[pad[t]][kind[t]] # None
        BY <1>2, <3>2 DEF NotifyReplaced, Notify, IInv, LocalsOK
      <4>2. HandlesOf(slot[pad[t]][kind[t]]) \subseteq saved
        BY <1>2, <4>1, SlotHandles
      <4>3. QED
        BY <1>2, <3>2, <4>2 DEF NotifyReplaced, Notify
    <3>3. ASSUME NEW k \in Kinds, NotifyFinalized(t, k) PROVE ~panicked'
      <4>1. pad[t] \in Pads /\ slot[pad[t]][k] # None
        BY <1>2, <3>3 DEF NotifyFinalized, Notify, IInv, LocalsOK
      <4>2. HandlesOf(slot[pad[t]][k]) \subseteq saved
        BY <1>2, <4>1, SlotHandles
      <4>3. QED
        BY <1>2, <3>3, <4>2 DEF NotifyFinalized, Notify
    <3>4. QED
      BY <1>2, <2>1, <3>1, <3>2, <3>3 DEF Advance, WriteMap, SaveInfo,
         StoreFirst, RemoveFuncForPad, UnrefInfo, EndFinalize, Found, Return
  <2>2. ASSUME ~\E t \in Threads : Advance(t) PROVE ~panicked'
    BY <1>2, <2>2 DEF Next, NewPad, BeginFinalize, BeginDispatch, BeginSet, vars
  <2>3. QED
    BY <2>1, <2>2
<1>3. QED
  BY <1>1, <1>2, IInvHolds, RInvHolds, PTL DEF Spec
=============================================================================
