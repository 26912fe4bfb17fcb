------------------------------ MODULE Ownership ------------------------------
(***************************************************************************)
(* Who owns the references of a mini object (buffer, buffer list, event,   *)
(* message, query, caps, sample) while it travels between the C core, Go   *)
(* wrappers with a finalizer, and callbacks C makes into Go.               *)
(*                                                                         *)
(* count is the reference count C keeps.  Every holder that will call      *)
(* unref later has a claim; the bindings are right when the count is the   *)
(* number of claims.  The claims are                                       *)
(*   core     references of elements, queues and pads in C;                *)
(*   given    references C passed to a callback that must consume them;    *)
(*   lent     references C keeps for the time of a callback;               *)
(*   owned    Go wrappers with Unref as finalizer;                         *)
(*   manual   references the application took with Ref or was handed       *)
(*            without a finalizer, and gives back with Unref.              *)
(* excess records how far operations have put the count off; no operation  *)
(* reads it.                                                               *)
(*                                                                         *)
(* The application follows the documented rules: it uses an object only    *)
(* while it has a wrapper or runs in a callback with it, calls Unref only  *)
(* for references it took, and disposes of what a callback makes it own.   *)
(* Trampolines are the callbacks in use:                                   *)
(*   "lend"     render, fill, transform, probe buffers, bus handlers       *)
(*   "probe"    PadProbeInfo.GetEvent in a probe                           *)
(*   "collect"  buffer and clip functions of collect pads                  *)
(*   "event"    event functions of collect pads                            *)
(*   "sink"     SinkEvent and SrcEvent of a transform                      *)
(*   "chain"    chain, chain list and event functions of a pad             *)
(*   "fixate"   FixateCaps of a transform                                  *)
(***************************************************************************)
EXTENDS Integers, FiniteSets

CONSTANTS
    Objects,      \* addresses of mini objects
    Threads,      \* threads that call into Go
    Uses,         \* [object -> what is done with it: callbacks it is passed
                  \* to, "writable" when MakeWritable is called on it, and
                  \* "filled" when it is given to PullRange to be filled]
    NoObject,     \* no object
    MaxRefs       \* bound on the claims to an object and on excess

Trampolines ==
    {"lend", "probe", "collect", "event", "sink", "chain", "fixate"}

\* Uses that put the count off.
Unbalanced == {"chain", "fixate", "writable", "filled"}

ASSUME OwnershipAssumption ==
    /\ NoObject \notin Objects
    /\ Uses \in [Objects -> SUBSET (Trampolines \cup Unbalanced)]
    /\ MaxRefs \in Nat
    /\ IsFiniteSet(Threads)

\* Objects none of these is done with. The functions of the bindings whose rows
\* in module Transfers disagree with C are unbalanced as well; of those only
\* these four are operations here.
Balanced == {o \in Objects : Uses[o] \cap Unbalanced = {}}

VARIABLES
    count,        \* [object -> reference count, 0 when freed]
    core,         \* [object -> claims of the C core]
    given,        \* [object -> references passed to running callbacks]
    lent,         \* [object -> references kept during running callbacks]
    owned,        \* [object -> wrappers with a finalizer]
    manual,       \* [object -> references the application has to return]
    frame,        \* [thread -> the callback it is in]
    excess        \* [object -> how far the count is off], history only

vars == <<count, core, given, lent, owned, manual, frame, excess>>

Idle == [kind |-> "idle", obj |-> NoObject]

\* Functions of objects, changed at one object.
Plus(f, o)  == [f EXCEPT ![o] = @ + 1]
Minus(f, o) == [f EXCEPT ![o] = @ - 1]

Claims(o) == core[o] + given[o] + lent[o] + owned[o] + manual[o]

\* Wrappers that are alive because a callback still uses them.
InCallback(o, kinds) == {t \in Threads : frame[t].obj = o /\ frame[t].kind \in kinds}

\* The application can name the object.
Reachable(o) == owned[o] > 0 \/ manual[o] > 0 \/ InCallback(o, Trampolines) # {}

Room(o) == Claims(o) < MaxRefs /\ excess[o] \in -MaxRefs .. MaxRefs

-----------------------------------------------------------------------------
\* Constructors: C returns a new object, From*UnsafeFull wraps it with a
\* finalizer.
New(o) ==
    /\ count[o] = 0 /\ Claims(o) = 0
    /\ count' = Plus(count, o)
    /\ owned' = Plus(owned, o)
    /\ UNCHANGED <<core, given, lent, manual, frame, excess>>

\* Ref: the application has to call Unref for it.
Ref(o) ==
    /\ Reachable(o) /\ Room(o)
    /\ count' = Plus(count, o)
    /\ manual' = Plus(manual, o)
    /\ UNCHANGED <<core, given, lent, owned, frame, excess>>

Unref(o) ==
    /\ manual[o] > 0
    /\ count' = Minus(count, o)
    /\ manual' = Minus(manual, o)
    /\ UNCHANGED <<core, given, lent, owned, frame, excess>>

\* Push, PushEvent, PushList, Chain, SendEvent, Post, PushBuffer: a reference
\* for C, which consumes it.
Push(o) ==
    /\ Reachable(o) /\ Room(o)
    /\ count' = Plus(count, o)
    /\ core' = Plus(core, o)
    /\ UNCHANGED <<given, lent, owned, manual, frame, excess>>

\* Pop, PullSample, AcquireBuffer: C returns a reference of its own,
\* From*UnsafeFull wraps it.
Pop(o) ==
    /\ core[o] > 0
    /\ core' = Minus(core, o)
    /\ owned' = Plus(owned, o)
    /\ UNCHANGED <<count, given, lent, manual, frame, excess>>

\* Fault: transfer none is wrapped like transfer full.
Get_Full(o) ==
    /\ core[o] > 0 /\ Room(o)
    /\ owned' = Plus(owned, o)
    /\ UNCHANGED <<count, core, given, lent, manual, frame, excess>>

\* Sample.GetBuffer, ParseCaps, QueuedBuffer: C keeps its reference,
\* From*UnsafeNone takes one.
Get(o) ==
    /\ core[o] > 0 /\ Room(o)
    /\ count' = Plus(count, o)
    /\ owned' = Plus(owned, o)
    /\ UNCHANGED <<core, given, lent, manual, frame, excess>>

\* Pad.PullRange without a buffer: C returns a new one, which is wrapped with a
\* finalizer. With a buffer of the caller C fills it, or leaves it alone, and
\* returns the same one: a second finalizer for one reference.
PullRange(o) ==
    \/ /\ core[o] > 0
       /\ core' = Minus(core, o)
       /\ owned' = Plus(owned, o)
       /\ UNCHANGED <<count, given, lent, manual, frame, excess>>
    \/ /\ "filled" \in Uses[o]
       /\ Reachable(o) /\ Room(o)
       /\ owned' = Plus(owned, o)
       /\ excess' = Minus(excess, o)
       /\ UNCHANGED <<count, core, given, lent, manual, frame>>

\* Pad.GetRange without a buffer: the caller owns the new one, its wrapper has
\* no finalizer. A buffer of the caller comes back in a second wrapper, which
\* has no finalizer either and no reference: who has the first one keeps it.
GetRange(o) ==
    \/ /\ core[o] > 0
       /\ core' = Minus(core, o)
       /\ manual' = Plus(manual, o)
       /\ UNCHANGED <<count, given, lent, owned, frame, excess>>
    \/ /\ Reachable(o)
       /\ UNCHANGED vars

\* MakeWritable: a sole reference comes back in a second wrapper, which has a
\* finalizer for caps; a shared object is copied and loses one reference.
MakeWritable(o) ==
    /\ "writable" \in Uses[o]
    /\ owned[o] > 0 /\ Room(o)
    /\ IF count[o] = 1
         THEN \/ /\ owned' = Plus(owned, o)
                 /\ excess' = Minus(excess, o)
                 /\ UNCHANGED count
              \/ UNCHANGED <<count, owned, excess>>
         ELSE /\ count' = Minus(count, o)
              /\ excess' = Minus(excess, o)
              /\ UNCHANGED owned
    /\ UNCHANGED <<core, given, lent, manual, frame>>

\* The finalizer of a wrapper no callback uses.
Collect(o) ==
    /\ owned[o] > 0
    /\ InCallback(o, {"collect", "chain"}) = {} \/ owned[o] > 1
    /\ count' = Minus(count, o)
    /\ owned' = Minus(owned, o)
    /\ UNCHANGED <<core, given, lent, manual, frame, excess>>

-----------------------------------------------------------------------------
\* The core: elements create objects, take and release references.
CoreNew(o) ==
    /\ count[o] = 0 /\ Claims(o) = 0
    /\ count' = Plus(count, o)
    /\ core' = Plus(core, o)
    /\ UNCHANGED <<given, lent, owned, manual, frame, excess>>

CoreRef(o) ==
    /\ core[o] > 0 /\ Room(o)
    /\ count' = Plus(count, o)
    /\ core' = Plus(core, o)
    /\ UNCHANGED <<given, lent, owned, manual, frame, excess>>

CoreUnref(o) ==
    /\ core[o] > 0
    /\ count' = Minus(count, o)
    /\ core' = Minus(core, o)
    /\ UNCHANGED <<given, lent, owned, manual, frame, excess>>

Enter(t, k, o) ==
    /\ k \in Uses[o]
    /\ frame[t] = Idle
    /\ core[o] > 0
    /\ core' = Minus(core, o)
    /\ frame' = [frame EXCEPT ![t] = [kind |-> k, obj |-> o]]
    /\ UNCHANGED manual

Leave(t, k, o) ==
    /\ frame[t] = [kind |-> k, obj |-> o]
    /\ frame' = [frame EXCEPT ![t] = Idle]

\* To*: a borrowed wrapper, valid during the call.
EnterLend(t, o) ==
    /\ Enter(t, "lend", o)
    /\ lent' = Plus(lent, o)
    /\ UNCHANGED <<count, given, owned, excess>>

LeaveLend(t, o) ==
    /\ Leave(t, "lend", o)
    /\ lent' = Minus(lent, o)
    /\ core' = Plus(core, o)
    /\ UNCHANGED <<count, given, owned, manual, excess>>

\* PadProbeInfo.GetEvent takes a reference and places a finalizer.
EnterProbe(t, o) ==
    /\ Enter(t, "probe", o) /\ Room(o)
    /\ lent' = Plus(lent, o)
    /\ count' = Plus(count, o)
    /\ owned' = Plus(owned, o)
    /\ UNCHANGED <<given, excess>>

LeaveProbe(t, o) ==
    /\ Leave(t, "probe", o)
    /\ lent' = Minus(lent, o)
    /\ core' = Plus(core, o)
    /\ UNCHANGED <<count, given, owned, manual, excess>>

\* Buffer and clip functions of collect pads: a wrapper with a reference of
\* its own; the deferred Unref consumes the reference C passed.
EnterCollect(t, o) ==
    /\ Enter(t, "collect", o) /\ Room(o)
    /\ given' = Plus(given, o)
    /\ count' = Plus(count, o)
    /\ owned' = Plus(owned, o)
    /\ UNCHANGED <<lent, excess>>

\* Fault: no deferred Unref.
LeaveCollect_NoUnref(t, o) ==
    /\ Leave(t, "collect", o)
    /\ given' = Minus(given, o)
    /\ UNCHANGED <<count, core, lent, owned, manual, excess>>

LeaveCollect(t, o) ==
    /\ Leave(t, "collect", o)
    /\ given' = Minus(given, o)
    /\ count' = Minus(count, o)
    /\ UNCHANGED <<core, lent, owned, manual, excess>>

\* Event functions of collect pads: a wrapper with a reference of its own; the
\* callback owns the reference C passed.
EnterEvent(t, o) ==
    /\ Enter(t, "event", o) /\ Room(o)
    /\ given' = Plus(given, o)
    /\ count' = Plus(count, o)
    /\ owned' = Plus(owned, o)
    /\ UNCHANGED <<lent, excess>>

\* SinkEvent and SrcEvent of a transform: a borrowed wrapper, and the callback
\* owns the reference C passed.
EnterSink(t, o) ==
    /\ Enter(t, "sink", o)
    /\ given' = Plus(given, o)
    /\ UNCHANGED <<count, lent, owned, excess>>

\* The callback chains up (EventDefault, ParentSinkEvent), which passes the
\* reference on, and returns.
ChainUp(t, k, o) ==
    /\ k \in {"event", "sink"}
    /\ Leave(t, k, o)
    /\ given' = Minus(given, o)
    /\ core' = Plus(core, o)
    /\ UNCHANGED <<count, lent, owned, manual, excess>>

\* The callback drops the event with Unref and returns.
Drop(t, k, o) ==
    /\ k \in {"event", "sink"}
    /\ Leave(t, k, o)
    /\ given' = Minus(given, o)
    /\ count' = Minus(count, o)
    /\ UNCHANGED <<core, lent, owned, manual, excess>>

\* Chain, chain list and event functions of a pad: From*UnsafeFull and a
\* deferred Unref for the same reference.
EnterChain(t, o) ==
    /\ Enter(t, "chain", o) /\ Room(o)
    /\ given' = Plus(given, o)
    /\ owned' = Plus(owned, o)
    /\ excess' = Minus(excess, o)
    /\ UNCHANGED <<count, lent>>

LeaveChain(t, o) ==
    /\ Leave(t, "chain", o)
    /\ given' = Minus(given, o)
    /\ count' = Minus(count, o)
    /\ UNCHANGED <<core, lent, owned, manual, excess>>

\* FixateCaps of a transform: C passes a reference to othercaps, the wrapper
\* is borrowed, and the callback returns othercaps.Ref() to C.
EnterFixate(t, o) ==
    /\ Enter(t, "fixate", o) /\ Room(o)
    /\ given' = Plus(given, o)
    /\ UNCHANGED <<count, lent, owned, excess>>

LeaveFixate(t, o) ==
    /\ Leave(t, "fixate", o)
    /\ given' = Minus(given, o)
    /\ count' = Plus(count, o)
    /\ core' = Plus(core, o)
    /\ excess' = Plus(excess, o)
    /\ UNCHANGED <<lent, owned, manual>>

-----------------------------------------------------------------------------
Init ==
    /\ count = [o \in Objects |-> 0]
    /\ core = [o \in Objects |-> 0]
    /\ given = [o \in Objects |-> 0]
    /\ lent = [o \in Objects |-> 0]
    /\ owned = [o \in Objects |-> 0]
    /\ manual = [o \in Objects |-> 0]
    /\ frame = [t \in Threads |-> Idle]
    /\ excess = [o \in Objects |-> 0]

Application(o) ==
    \/ New(o) \/ Ref(o) \/ Unref(o) \/ Push(o) \/ Pop(o) \/ Get(o)
    \/ PullRange(o) \/ GetRange(o) \/ MakeWritable(o) \/ Collect(o)

Core(o) == CoreNew(o) \/ CoreRef(o) \/ CoreUnref(o)

Callback(t, o) ==
    \/ EnterLend(t, o) \/ LeaveLend(t, o)
    \/ EnterProbe(t, o) \/ LeaveProbe(t, o)
    \/ EnterCollect(t, o) \/ LeaveCollect(t, o)
    \/ EnterEvent(t, o) \/ EnterSink(t, o)
    \/ \E k \in {"event", "sink"} : ChainUp(t, k, o) \/ Drop(t, k, o)
    \/ EnterChain(t, o) \/ LeaveChain(t, o)
    \/ EnterFixate(t, o) \/ LeaveFixate(t, o)

Next ==
    \E o \in Objects :
        Application(o) \/ Core(o) \/ \E t \in Threads : Callback(t, o)

Spec == Init /\ [][Next]_vars

-----------------------------------------------------------------------------
Counter == [Objects -> Nat]

TypeOK ==
    /\ count \in [Objects -> Int] /\ excess \in [Objects -> Int]
    /\ core \in Counter /\ given \in Counter /\ lent \in Counter
    /\ owned \in Counter /\ manual \in Counter
    /\ frame \in [Threads ->
         {Idle} \cup [kind : Trampolines, obj : Objects]]

\* An object none of the four unbalanced uses is made of is alive as long as
\* anybody will still use or unref it, whatever is done with other objects:
\* callbacks return, wrappers leave their callbacks and finalizers run in any
\* order (gst_message.go, gst_sample.go, gst_pad.go:1136,
\* gst_collect_pads_exports.go).
BalancedAlive == \A o \in Balanced : Claims(o) > 0 => count[o] > 0

\* And it is freed when the last of them lets go.
BalancedFreed == \A o \in Balanced : Claims(o) = 0 => count[o] = 0

\* The same of every object.  Any object is alive as long as anybody will
\* still use or unref it, in
\* whatever order callbacks return, finalizers run and C lets go
\* (gst_pad.go:828: "GStreamer API will produce a refcount to buffer, and the
\* bindings will automatically call Unref").
NeverFreedInUse == \A o \in Objects : Claims(o) > 0 => count[o] > 0

\* Any object nobody has a claim to is freed (gst_base_transform_impl.go:95:
\* "the bindings will Unref them after the callback is complete").
NoLeak == \A o \in Objects : Claims(o) = 0 => count[o] <= 0

\* Whatever callbacks are used, the count is off by exactly this much: one
\* missing reference for every chain callback (gst_pad_exports.go:58-59), every
\* MakeWritable that copies or wraps a second time and every PullRange into a
\* buffer of the caller (gst_pad.go:638-644), one lost reference for every
\* FixateCaps; every other operation keeps claims and count equal.
Accounted == \A o \in Objects : count[o] = Claims(o) + excess[o]
=============================================================================
