------------------------------ MODULE PadFuncs ------------------------------
(***************************************************************************)
(* The callback registry of gst/gst_pad.go and gst/gst_pad_exports.go.     *)
(*                                                                         *)
(* GstPad functions carry no user data, so the bindings keep one Go map    *)
(* per kind of function (padChainFuncs, padQueryFuncs, ...), keyed by the  *)
(* address of the pad.  A setter writes the map, allocates a notify        *)
(* record with two gopointer handles, and hands the record to the C pad;   *)
(* C gives the record back to goGstPadFuncDestroyNotify when the function  *)
(* is replaced or the pad is finalised.  C calls the exported trampoline   *)
(* on any streaming thread, and the trampoline looks the function up by    *)
(* the address of the pad.                                                 *)
(*                                                                         *)
(* External parts, modelled from how the code uses them: the notify slot   *)
(* and the function pointer of a C pad (a replaced slot is notified BEFORE *)
(* the new record is stored), the life of a pad address (an address may be *)
(* used again by a later pad), and the handle table of go-pointer.         *)
(***************************************************************************)
EXTENDS FiniteSets, Integers

CONSTANTS
    Pads,         \* addresses of pads
    Kinds,        \* the kinds of pad function: one PadFuncMap each
    Funcs,        \* Go functions an application registers
    Infos,        \* addresses malloc can give to a PadDestroyNotifyInfo
    Threads,      \* application and streaming threads
    None,         \* no function, no record, no pad
    Replaceable,  \* kinds of which a pad may be given a second function
    Serialised    \* TRUE: no two threads are inside one map at the same time

ASSUME PadFuncsAssumption ==
    /\ None \notin Pads \cup Kinds \cup Funcs \cup Infos
    /\ Replaceable \subseteq Kinds
    /\ Serialised \in BOOLEAN

VARIABLES
    funcMaps,     \* [kind -> [pad -> function or None]]: the PadFuncMaps
    saved,        \* the live gopointer handles
    notifyInfo,   \* [info -> the pad and the kind its two handles restore to]
    slot,         \* [pad -> [kind -> info or None]]: C's notify data
    life,         \* [pad -> "absent", "alive" or "finalizing"]
    pc,           \* [thread -> what it is doing]
    pad,          \* [thread -> the pad it is working on]
    kind,         \* [thread -> the kind of function it is working on]
    fn,           \* [thread -> the function it registers or runs]
    new,          \* [thread -> the record it has allocated]
    old,          \* [thread -> the record C gives back]
    current,      \* history: [pad -> [kind -> the last function C accepted]]
    panicked      \* a trampoline asserted the type of a nil function

vars == <<funcMaps, saved, notifyInfo, slot, life, pc, pad, kind, fn, new,
          old, current, panicked>>

local == <<pad, kind, fn, new, old>>

-----------------------------------------------------------------------------
HandleFields == {"pad_ptr", "func_map_ptr"}

\* The two gopointer handles of a notify record.
HandlesOf(i) == {i} \X HandleFields

\* The states in which a thread is inside a PadFuncMap.
Writing   == {"write", "remove"}
Reading   == {"find"}
InMap     == Writing \cup Reading

\* The states in which a setter is under way.
Setting   == {"write", "save", "store", "remove", "unref"}

\* A thread may enter the map of kind k: always, unless the application
\* serialises its use of the registry.
MayEnter(k) ==
    Serialised => \A t \in Threads : pc[t] \in InMap => kind[t] # k

\* Records no slot and no thread refers to: malloc may return one of them.
Owned(i) ==
    \/ \E p \in Pads, k \in Kinds : slot[p][k] = i
    \/ \E t \in Threads : new[t] = i

\* Fault: the keys are not compared, the first entry of the map is returned.
FuncForPad_AnyPad(k, p) ==
    IF \E q \in Pads : funcMaps[k][q] # None
      THEN CHOOSE f \in {funcMaps[k][q] : q \in Pads} : f # None
      ELSE None

\* FuncForPad: the function registered for the pad, or nil.
FuncForPad(k, p) == funcMaps[k][p]

-----------------------------------------------------------------------------
Init ==
    /\ funcMaps = [k \in Kinds |-> [p \in Pads |-> None]]
    /\ saved = {}
    /\ notifyInfo = [i \in Infos |-> <<None, None>>]
    /\ slot = [p \in Pads |-> [k \in Kinds |-> None]]
    /\ life = [p \in Pads |-> "absent"]
    /\ pc = [t \in Threads |-> "idle"]
    /\ pad = [t \in Threads |-> None]
    /\ kind = [t \in Threads |-> None]
    /\ fn = [t \in Threads |-> None]
    /\ new = [t \in Threads |-> None]
    /\ old = [t \in Threads |-> None]
    /\ current = [p \in Pads |-> [k \in Kinds |-> None]]
    /\ panicked = FALSE

\* C allocates a pad at a free address.
NewPad(p) ==
    /\ ~panicked
    /\ life[p] = "absent"
    /\ life' = [life EXCEPT ![p] = "alive"]
    /\ UNCHANGED <<funcMaps, saved, notifyInfo, slot, pc, local, current,
                   panicked>>

\* A setter (SetChainFunction, ...) enters registerCallback and starts the
\* write fmap[selfPtr] = f.  A pad's functions are set by its owner, one at a
\* time.
BeginSet(t, p, k, f) ==
    /\ ~panicked
    /\ pc[t] = "idle"
    /\ life[p] = "alive"
    /\ k \in Replaceable \/ slot[p][k] = None
    /\ \A u \in Threads : pc[u] \in Setting => pad[u] # p \/ kind[u] # k
    /\ MayEnter(k)
    /\ pc' = [pc EXCEPT ![t] = "write"]
    /\ pad' = [pad EXCEPT ![t] = p]
    /\ kind' = [kind EXCEPT ![t] = k]
    /\ fn' = [fn EXCEPT ![t] = f]
    /\ UNCHANGED <<funcMaps, saved, notifyInfo, slot, life, new, old, current,
                   panicked>>

\* The map write of registerCallback is done.
WriteMap(t) ==
    /\ ~panicked
    /\ pc[t] = "write"
    /\ funcMaps' = [funcMaps EXCEPT ![kind[t]][pad[t]] = fn[t]]
    /\ pc' = [pc EXCEPT ![t] = "save"]
    /\ UNCHANGED <<saved, notifyInfo, slot, life, local, current, panicked>>

\* Fault: one record per pad and kind, allocated again only when none is held.
SaveInfo_ReusesRecord(t) ==
    /\ ~panicked
    /\ pc[t] = "save"
    /\ \E i \in Infos :
         /\ IF slot[pad[t]][kind[t]] # None
              THEN i = slot[pad[t]][kind[t]] ELSE ~Owned(i)
         /\ notifyInfo' = [notifyInfo EXCEPT ![i] = <<pad[t], kind[t]>>]
         /\ saved' = saved \cup HandlesOf(i)
         /\ new' = [new EXCEPT ![t] = i]
    /\ pc' = [pc EXCEPT ![t] = "store"]
    /\ UNCHANGED <<funcMaps, slot, life, pad, kind, fn, old, current, panicked>>

\* The rest of registerCallback: malloc the record, save the address of the
\* pad and the map.
SaveInfo(t) ==
    /\ ~panicked
    /\ pc[t] = "save"
    /\ \E i \in Infos :
         /\ ~Owned(i)
         /\ notifyInfo' = [notifyInfo EXCEPT ![i] = <<pad[t], kind[t]>>]
         /\ saved' = saved \cup HandlesOf(i)
         /\ new' = [new EXCEPT ![t] = i]
    /\ pc' = [pc EXCEPT ![t] = "store"]
    /\ UNCHANGED <<funcMaps, slot, life, pad, kind, fn, old, current, panicked>>

\* gst_pad_set_*_function_full on a pad whose slot is empty: C stores the
\* function, the record and the notify.
StoreFirst(t) ==
    /\ ~panicked
    /\ pc[t] = "store"
    /\ slot[pad[t]][kind[t]] = None
    /\ slot' = [slot EXCEPT ![pad[t]][kind[t]] = new[t]]
    /\ current' = [current EXCEPT ![pad[t]][kind[t]] = fn[t]]
    /\ new' = [new EXCEPT ![t] = None]
    /\ pc' = [pc EXCEPT ![t] = "idle"]
    /\ UNCHANGED <<funcMaps, saved, notifyInfo, life, pad, kind, fn, old,
                   panicked>>

\* C calls goGstPadFuncDestroyNotify for the k slot of the pad.  It restores
\* the two handles of the record (a dead handle restores to nil and panics)
\* and starts RemoveFuncForPad.
Notify(t, k) ==
    /\ slot[pad[t]][k] # None
    /\ MayEnter(k)
    /\ old' = [old EXCEPT ![t] = slot[pad[t]][k]]
    /\ IF HandlesOf(slot[pad[t]][k]) \subseteq saved
         THEN pc' = [pc EXCEPT ![t] = "remove"] /\ UNCHANGED panicked
         ELSE panicked' = TRUE /\ UNCHANGED pc

\* gst_pad_set_*_function_full on a pad that has a function of this kind:
\* C first notifies the owner of the old one.
NotifyReplaced(t) ==
    /\ ~panicked
    /\ pc[t] = "store"
    /\ Notify(t, kind[t])
    /\ UNCHANGED <<funcMaps, saved, notifyInfo, slot, life, pad, kind, fn, new,
                   current>>

\* Fault: the keys are not compared, every entry of the map is deleted.
RemoveFuncForPad_AllPads(t) ==
    /\ ~panicked
    /\ pc[t] = "remove"
    /\ funcMaps' = [funcMaps EXCEPT
                      ![notifyInfo[old[t]][2]] = [p \in Pads |-> None]]
    /\ pc' = [pc EXCEPT ![t] = "unref"]
    /\ UNCHANGED <<saved, notifyInfo, slot, life, local, current, panicked>>

\* Fault: the entry is never deleted.
RemoveFuncForPad_Keeps(t) ==
    /\ ~panicked
    /\ pc[t] = "remove"
    /\ pc' = [pc EXCEPT ![t] = "unref"]
    /\ UNCHANGED <<funcMaps, saved, notifyInfo, slot, life, local, current,
                   panicked>>

\* RemoveFuncForPad is done: the entry of the restored pad is deleted from
\* the restored map.
RemoveFuncForPad(t) ==
    /\ ~panicked
    /\ pc[t] = "remove"
    /\ funcMaps' = [funcMaps EXCEPT
                      ![notifyInfo[old[t]][2]][notifyInfo[old[t]][1]] = None]
    /\ pc' = [pc EXCEPT ![t] = "unref"]
    /\ UNCHANGED <<saved, notifyInfo, slot, life, local, current, panicked>>

\* Fault: only one of the two handles is released.
UnrefInfo_KeepsMapHandle(t) ==
    /\ ~panicked
    /\ pc[t] = "unref"
    /\ saved' = saved \ {<<old[t], "pad_ptr">>}
    /\ old' = [old EXCEPT ![t] = None]
    /\ new' = [new EXCEPT ![t] = None]
    /\ slot' = [slot EXCEPT ![pad[t]][kind[t]] = new[t]]
    /\ IF new[t] # None
         THEN /\ current' = [current EXCEPT ![pad[t]][kind[t]] = fn[t]]
              /\ pc' = [pc EXCEPT ![t] = "idle"]
         ELSE /\ current' = [current EXCEPT ![pad[t]][kind[t]] = None]
              /\ pc' = [pc EXCEPT ![t] = "finalize"]
    /\ UNCHANGED <<funcMaps, notifyInfo, life, pad, kind, fn, panicked>>

\* The deferred Unrefs release both handles, cgoPadFuncDestroyNotify frees
\* the record, and C goes on: a setter stores the new record, a finalising
\* pad turns to its next slot.
UnrefInfo(t) ==
    /\ ~panicked
    /\ pc[t] = "unref"
    /\ saved' = saved \ HandlesOf(old[t])
    /\ old' = [old EXCEPT ![t] = None]
    /\ new' = [new EXCEPT ![t] = None]
    /\ slot' = [slot EXCEPT ![pad[t]][kind[t]] = new[t]]
    /\ IF new[t] # None
         THEN /\ current' = [current EXCEPT ![pad[t]][kind[t]] = fn[t]]
              /\ pc' = [pc EXCEPT ![t] = "idle"]
         ELSE /\ current' = [current EXCEPT ![pad[t]][kind[t]] = None]
              /\ pc' = [pc EXCEPT ![t] = "finalize"]
    /\ UNCHANGED <<funcMaps, notifyInfo, life, pad, kind, fn, panicked>>

\* The last reference to the pad goes: nobody else is using it.
BeginFinalize(t, p) ==
    /\ ~panicked
    /\ pc[t] = "idle"
    /\ life[p] = "alive"
    /\ \A u \in Threads : pc[u] # "idle" => pad[u] # p
    /\ life' = [life EXCEPT ![p] = "finalizing"]
    /\ pc' = [pc EXCEPT ![t] = "finalize"]
    /\ pad' = [pad EXCEPT ![t] = p]
    /\ UNCHANGED <<funcMaps, saved, notifyInfo, slot, kind, fn, new, old,
                   current, panicked>>

\* gst_pad_finalize notifies the owner of each function that is set.
NotifyFinalized(t, k) ==
    /\ ~panicked
    /\ pc[t] = "finalize"
    /\ Notify(t, k)
    /\ kind' = [kind EXCEPT ![t] = k]
    /\ UNCHANGED <<funcMaps, saved, notifyInfo, slot, life, pad, fn, new,
                   current>>

\* No slot is left: the memory of the pad is released.
EndFinalize(t) ==
    /\ ~panicked
    /\ pc[t] = "finalize"
    /\ \A k \in Kinds : slot[pad[t]][k] = None
    /\ life' = [life EXCEPT ![pad[t]] = "absent"]
    /\ pc' = [pc EXCEPT ![t] = "idle"]
    /\ UNCHANGED <<funcMaps, saved, notifyInfo, slot, local, current, panicked>>

\* A streaming thread calls the trampoline C has for the pad; FuncForPad
\* starts to iterate over the map.
BeginDispatch(t, p, k) ==
    /\ ~panicked
    /\ pc[t] = "idle"
    /\ life[p] = "alive"
    /\ slot[p][k] # None
    /\ MayEnter(k)
    /\ pc' = [pc EXCEPT ![t] = "find"]
    /\ pad' = [pad EXCEPT ![t] = p]
    /\ kind' = [kind EXCEPT ![t] = k]
    /\ UNCHANGED <<funcMaps, saved, notifyInfo, slot, life, fn, new, old,
                   current, panicked>>

\* FuncForPad returned a function: the trampoline calls it.
Found(t) ==
    /\ ~panicked
    /\ pc[t] = "find"
    /\ FuncForPad(kind[t], pad[t]) # None
    /\ fn' = [fn EXCEPT ![t] = FuncForPad(kind[t], pad[t])]
    /\ pc' = [pc EXCEPT ![t] = "call"]
    /\ UNCHANGED <<funcMaps, saved, notifyInfo, slot, life, pad, kind, new, old,
                   current, panicked>>

\* FuncForPad returned nil: the type assertion of the trampoline panics in
\* a thread no Go code recovers, and the process ends.
NotFound(t) ==
    /\ ~panicked
    /\ pc[t] = "find"
    /\ FuncForPad(kind[t], pad[t]) = None
    /\ panicked' = TRUE
    /\ UNCHANGED <<funcMaps, saved, notifyInfo, slot, life, pc, local, current>>

\* The function returns to C.
Return(t) ==
    /\ ~panicked
    /\ pc[t] = "call"
    /\ pc' = [pc EXCEPT ![t] = "idle"]
    /\ UNCHANGED <<funcMaps, saved, notifyInfo, slot, life, local, current,
                   panicked>>

Advance(t) ==
    \/ WriteMap(t) \/ SaveInfo(t) \/ StoreFirst(t) \/ NotifyReplaced(t)
    \/ RemoveFuncForPad(t) \/ UnrefInfo(t)
    \/ \E k \in Kinds : NotifyFinalized(t, k)
    \/ EndFinalize(t) \/ Found(t) \/ NotFound(t) \/ Return(t)

Next ==
    \/ \E p \in Pads : NewPad(p)
    \/ \E t \in Threads :
         \/ Advance(t)
         \/ \E p \in Pads :
              \/ BeginFinalize(t, p)
              \/ \E k \in Kinds :
                   \/ BeginDispatch(t, p, k)
                   \/ \E f \in Funcs : BeginSet(t, p, k, f)

Spec == Init /\ [][Next]_vars

-----------------------------------------------------------------------------
TypeOK ==
    /\ funcMaps \in [Kinds -> [Pads -> Funcs \cup {None}]]
    /\ saved \subseteq Infos \X HandleFields
    /\ notifyInfo \in [Infos -> (Pads \X Kinds) \cup {<<None, None>>}]
    /\ slot \in [Pads -> [Kinds -> Infos \cup {None}]]
    /\ life \in [Pads -> {"absent", "alive", "finalizing"}]
    /\ pc \in [Threads -> {"idle", "call", "finalize"} \cup InMap \cup Setting]
    /\ pad \in [Threads -> Pads \cup {None}]
    /\ kind \in [Threads -> Kinds \cup {None}]
    /\ fn \in [Threads -> Funcs \cup {None}]
    /\ new \in [Threads -> Infos \cup {None}]
    /\ old \in [Threads -> Infos \cup {None}]
    /\ current \in [Pads -> [Kinds -> Funcs \cup {None}]]
    /\ panicked \in BOOLEAN

\* Exactly the notify records that C or a setter still holds have live
\* handles: a record C holds can always be restored (gst_pad_exports.go:29
\* would panic on a dead one), and no handle outlives its record (a leak of
\* the pad address and of the map).
HandlesOwned ==
    \A i \in Infos, h \in HandleFields : <<i, h>> \in saved <=> Owned(i)

\* A record is held in one place only, so C never notifies it twice.
HeldOnce ==
    /\ \A p, q \in Pads, k, l \in Kinds :
         slot[p][k] = slot[q][l] /\ slot[p][k] # None => p = q /\ k = l
    /\ \A t \in Threads : new[t] # None =>
         /\ \A u \in Threads : new[u] = new[t] => u = t
         /\ \A p \in Pads, k \in Kinds : slot[p][k] # new[t]

\* When the address of a pad is free, no map has an entry for it: a later pad
\* at the same address does not inherit a function.
AbsentPadForgotten ==
    \A p \in Pads : life[p] = "absent" =>
        \A k \in Kinds : funcMaps[k][p] = None /\ slot[p][k] = None

\* A dispatch of a kind whose functions are set once finds a function,
\* whatever happens to other kinds and other pads: "FuncForPad ... will return
\* the function matching the Pad at the given address" (gst_pad.go:92-93).
FindsFunction ==
    \A t \in Threads :
        pc[t] = "find" /\ kind[t] \notin Replaceable =>
            FuncForPad(kind[t], pad[t]) # None

\* ... and the trampoline runs the function that was last set on the pad.
DispatchesCurrent ==
    \A t \in Threads :
        pc[t] = "call" /\ kind[t] \notin Replaceable =>
            fn[t] = current[pad[t]][kind[t]]

\* No type assertion of a trampoline or of the notify fails.
NeverPanics == ~panicked

\* No thread writes a PadFuncMap while another reads or writes it: the Go
\* runtime ends the process when it sees one do so.
NoMapRace ==
    \A t, u \in Threads :
        t # u /\ pc[t] \in Writing /\ pc[u] \in InMap => kind[t] # kind[u]

=============================================================================
