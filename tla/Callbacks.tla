------------------------------ MODULE Callbacks ------------------------------
(***************************************************************************)
(* Functions of the application that C calls through a user-data pointer:  *)
(* bus watches and sync handlers, pad probes, the callbacks of appsrc and  *)
(* appsink, clock waits, CallAsync, ConvertSampleAsync, the ForEach        *)
(* functions, the notify of NewBufferFull, plugin inits, collect pads.     *)
(*                                                                         *)
(* C cannot hold a Go function, so each of these saves the function under  *)
(* an address (gopointer.Save), passes the address, and a trampoline looks *)
(* the function up again (gopointer.Restore).  The entry has to be there   *)
(* for as long as C may call, and to go when C lets go; who does that      *)
(* differs from kind to kind.  Pad functions are in PadFuncs, the change   *)
(* function of a promise is in Promise.                                    *)
(*                                                                         *)
(* External parts: gopointer (an address comes from malloc and may be one  *)
(* that was freed before), and C: it counts the calls in progress of a     *)
(* callback and runs the destroy notify when the callback is gone and the  *)
(* last call has returned, on whichever thread that happens.               *)
(* A callback that is "lost" has an entry that C has not got, or has       *)
(* dropped without a notify.                                               *)
(***************************************************************************)
EXTENDS Integers, FiniteSets, Sequences

CONSTANTS
    Threads,       \* goroutines and C threads
    Callbacks,     \* functions of the application
    Addresses,     \* what gopointer.Save returns
    None,
    Kinds,         \* the kinds the application uses, a part of AllKinds
    Slips,         \* what it is not careful about, a part of AllSlips
    ThreadCached,  \* malloc keeps a freed address to the thread that freed it
                   \* until that thread has left the destroy notify
    MaxDepth       \* bound on calls nested on a thread

AllKinds == {"watch", "sync", "app", "probe", "call", "convert", "clock",
             "foreach", "buffer", "init", "collect", "private"}

AllSlips == {"second watch", "second wait", "never called", "early free"}

ASSUME CallbacksAssumption ==
    /\ None \notin Callbacks \cup Addresses \cup AllKinds
    /\ Kinds \subseteq AllKinds
    /\ Slips \subseteq AllSlips
    /\ ThreadCached \in BOOLEAN
    /\ MaxDepth \in Nat \ {0}

\* Called once; "init" is the function of a plugin or a meta, which runs inside
\* the call that registers it.
Once == {"call", "convert", "init", "buffer"}

\* The trampoline releases the entry itself, when the function returns.
SelfReleased == {"init", "buffer"}

\* Fault: AddProbe passes the notify that leaves the profile alone.
NoRun_WithoutProbes == {"call", "clock"}

\* The destroy notify is goGDestroyNotifyFuncNoRun, which also takes the
\* address out of the profile of pad probes.
NoRun == {"probe", "call", "clock"}

VARIABLES
    store,     \* [address -> the function saved there]
    kind,      \* [function -> the kind it is registered as]
    ptr,       \* [function -> the address C has]
    state,     \* [function -> "free", "saved", "set", "gone" or "lost"]
    profile,   \* padprobesProfile
    stack,     \* [thread -> its frames in registering functions, trampolines
               \* and destroy notifies, the newest last]
    panicked   \* the process ended in a panic or a double free

vars == <<store, kind, ptr, state, profile, stack, panicked>>

Points == {"saved", "profiled", "iterating", "called", "running", "notify",
           "unprofile"}

Frames == [at : Points, cb : Callbacks, addr : Addresses]

-----------------------------------------------------------------------------
Top(t) == stack[t][Len(stack[t])]

TopIs(t, point) == stack[t] # <<>> /\ Top(t).at = point

\* The thread is outside of go-gst, or inside a function of the application.
Free(t) ==
    \/ stack[t] = <<>>
    \/ TopIs(t, "running") /\ Len(stack[t]) < MaxDepth

Enter(t, point, c, a) ==
    stack' = [stack EXCEPT ![t] = Append(@, [at |-> point, cb |-> c, addr |-> a])]

Become(t, frames) ==
    stack' = [stack EXCEPT ![t] = SubSeq(@, 1, Len(@) - 1) \o frames]

GoTo(t, point) == Become(t, <<[Top(t) EXCEPT !.at = point]>>)

\* Frames of calls of c in progress.
InCall(c) ==
    {f \in Threads \X (1..MaxDepth) :
        /\ f[2] <= Len(stack[f[1]])
        /\ stack[f[1]][f[2]].cb = c
        /\ stack[f[1]][f[2]].at \in {"called", "running"}}

\* Fault: no destroy notify is passed to C.
NotifyFrames_None(cs) == <<>>

\* The notify C owes when the callbacks in cs, at most one, cannot be called
\* any more.  Collect pads have none.
NotifyFrames(cs) ==
    IF cs = {} \/ \E c \in cs : kind[c] = "collect" THEN <<>>
    ELSE LET c == CHOOSE x \in cs : TRUE
         IN <<[at |-> "notify", cb |-> c, addr |-> ptr[c]]>>

-----------------------------------------------------------------------------
Init ==
    /\ store = [a \in Addresses |-> None]
    /\ kind = [c \in Callbacks |-> None]
    /\ ptr = [c \in Callbacks |-> None]
    /\ state = [c \in Callbacks |-> "free"]
    /\ profile = {}
    /\ stack = [t \in Threads |-> <<>>]
    /\ panicked = FALSE

\* The addresses malloc may return to a thread.
Mallocable ==
    {a \in Addresses :
        /\ store[a] = None
        /\ ThreadCached =>
             \A t \in Threads : TopIs(t, "unprofile") => Top(t).addr # a}

\* gopointer.Save, the first thing all the registering functions do.
Save(t, c, k) ==
    /\ Free(t)
    /\ state[c] = "free"
    /\ \E a \in Mallocable :
         /\ store' = [store EXCEPT ![a] = c]
         /\ ptr' = [ptr EXCEPT ![c] = a]
         /\ Enter(t, "saved", c, a)
    /\ kind' = [kind EXCEPT ![c] = k]
    /\ state' = [state EXCEPT ![c] = "saved"]
    /\ UNCHANGED <<profile, panicked>>

\* AddProbe: the profile panics when it has the address already.
ProfileAdd(t) ==
    /\ TopIs(t, "saved")
    /\ kind[Top(t).cb] = "probe"
    /\ profile' = profile \cup {Top(t).addr}
    /\ panicked' = (panicked \/ Top(t).addr \in profile)
    /\ GoTo(t, "profiled")
    /\ UNCHANGED <<store, kind, ptr, state>>

\* The functions C has for kind k: a bus has one watch and one sync handler, an
\* app element one set of callbacks, a clock id one wait, a pad one private.
Current(k) == {c \in Callbacks : kind[c] = k /\ state[c] = "set"}

\* C takes the callback the thread has saved, and those in out are no longer
\* called.
Takes(t, out, as) ==
    /\ state' = [c \in Callbacks |->
                   CASE c = Top(t).cb -> "set" [] c \in out -> as [] OTHER -> state[c]]
    /\ UNCHANGED <<store, kind, ptr, profile, panicked>>

\* C does not get, or does not keep, what the thread has saved, and does not
\* notify either.
Loses(t) ==
    /\ state' = [state EXCEPT ![Top(t).cb] = "lost"]
    /\ Become(t, <<>>)
    /\ UNCHANGED <<store, kind, ptr, profile, panicked>>

\* AddWatch: gst_bus_add_watch_full refuses a second watch.
AddWatch(t) ==
    /\ TopIs(t, "saved")
    /\ kind[Top(t).cb] = "watch"
    /\ \/ Current("watch") = {} /\ Takes(t, {}, "gone") /\ Become(t, <<>>)
       \/ "second watch" \in Slips /\ Current("watch") # {} /\ Loses(t)

\* Fault: nothing releases the callbacks that are replaced.
SetCallbacks_Forgets(t) ==
    LET old == Current(kind[Top(t).cb]) IN
    /\ TopIs(t, "saved")
    /\ kind[Top(t).cb] \in {"sync", "app"}
    /\ Takes(t, old, "lost")
    /\ Become(t, <<>>)

\* SetSyncHandler and both SetCallbacks: C lets go of the old ones.
SetCallbacks(t) ==
    LET old == Current(kind[Top(t).cb]) IN
    /\ TopIs(t, "saved")
    /\ kind[Top(t).cb] \in {"sync", "app"}
    /\ Takes(t, old, "gone")
    /\ Become(t, NotifyFrames({c \in old : InCall(c) = {}}))

\* WaitAsync: C overwrites the function of an earlier wait on the clock id.
WaitAsync(t) ==
    LET old == Current("clock") IN
    /\ TopIs(t, "saved")
    /\ kind[Top(t).cb] = "clock"
    /\ old # {} => "second wait" \in Slips
    /\ Takes(t, old, "lost")
    /\ Become(t, <<>>)

\* SetElementPrivate: nothing is ever notified.
SetElementPrivate(t) ==
    /\ TopIs(t, "saved")
    /\ kind[Top(t).cb] = "private"
    /\ Takes(t, Current("private"), "lost")
    /\ Become(t, <<>>)

\* AddProbe, CallAsync, ConvertSampleAsync, NewBufferFull.
Register(t) ==
    /\ \/ TopIs(t, "profiled")
       \/ TopIs(t, "saved")
          /\ kind[Top(t).cb] \in {"call", "convert", "buffer"}
    /\ Takes(t, {}, "gone")
    /\ Become(t, <<>>)

\* NewCollectPads, and CollectData.Collect each time it is called: a wrapper of
\* collect pads saves itself, and C has nothing of it yet.
WrapCollectPads(t) ==
    /\ TopIs(t, "saved")
    /\ kind[Top(t).cb] = "collect"
    /\ Loses(t)

\* SetFunction and the other setters of a wrapper, and Start after Stop.  A
\* setter may put the functions of another wrapper out of use.
SetCollectFunction(t, c) ==
    /\ Free(t)
    /\ kind[c] = "collect"
    /\ state[c] \in {"lost", "gone"}
    /\ \E out \in SUBSET (Current("collect") \ {c}) :
         state' = [x \in Callbacks |->
                     CASE x = c -> "set" [] x \in out -> "gone" [] OTHER -> state[x]]
    /\ UNCHANGED <<store, kind, ptr, profile, stack, panicked>>

\* Forward, ForEach, FilterAndMapInPlace, Values ...: C calls from this thread,
\* and the entry is released when C returns.
BeginForEach(t) ==
    /\ TopIs(t, "saved")
    /\ kind[Top(t).cb] = "foreach"
    /\ Takes(t, {}, "gone")
    /\ GoTo(t, "iterating")

\* RegisterPlugin and AddMeta call the init function, if C comes to it.
CallInit(t) ==
    /\ TopIs(t, "saved")
    /\ kind[Top(t).cb] = "init"
    /\ \/ Takes(t, {}, "gone") /\ GoTo(t, "called")
       \/ "never called" \in Slips /\ Loses(t)

-----------------------------------------------------------------------------
\* C calls a callback that is set, from any thread; the main loop runs a watch
\* once at a time, and an iteration calls from its own thread.
Call(t, c) ==
    /\ state[c] = "set"
    /\ kind[c] \notin {"buffer", "init", "private"}
    /\ kind[c] \in Once \cup {"watch"} => InCall(c) = {}
    /\ IF kind[c] = "foreach"
         THEN TopIs(t, "iterating") /\ Top(t).cb = c /\ Len(stack[t]) < MaxDepth
         ELSE Free(t)
    /\ Enter(t, "called", c, ptr[c])
    /\ UNCHANGED <<store, kind, ptr, state, profile, panicked>>

\* The trampoline restores the function.  An entry that is not there, or is of
\* another function, fails its type assertion: most trampolines panic.
Restore(t) ==
    /\ TopIs(t, "called")
    /\ panicked' = (panicked \/ store[Top(t).addr] # Top(t).cb)
    /\ GoTo(t, "running")
    /\ UNCHANGED <<store, kind, ptr, state, profile>>

\* gopointer.Unref: a second one frees memory that is free.
Unref(c, a) ==
    /\ store' = [store EXCEPT ![a] = None]
    /\ panicked' = (panicked \/ store[a] = None)
    /\ ptr' = [ptr EXCEPT ![c] = None]
    /\ kind' = [kind EXCEPT ![c] = None]
    /\ state' = [state EXCEPT ![c] = "free"]

\* Fault: the trampoline of a function called once releases the entry, next to
\* the notify.
Return_Releases(t) ==
    LET c == Top(t).cb
        lastCall == InCall(c) = {<<t, Len(stack[t])>>}
        ends(gone) == Become(t, IF gone /\ lastCall THEN NotifyFrames({c}) ELSE <<>>)
    IN
    /\ TopIs(t, "running")
    /\ kind[c] \notin SelfReleased
    /\ state' = [state EXCEPT ![c] = IF kind[c] \in Once THEN "gone" ELSE @]
    /\ store' = [store EXCEPT ![Top(t).addr] = IF kind[c] \in Once THEN None ELSE @]
    /\ ends(state'[c] = "gone")
    /\ UNCHANGED <<kind, ptr, profile, panicked>>

\* The function returns.  A watch that returns false, a probe that returns
\* PadProbeRemove and a function called once are let go; the thread that ends
\* the last call of one that was let go runs the notify.
Return(t) ==
    LET c == Top(t).cb
        lastCall == InCall(c) = {<<t, Len(stack[t])>>}
        ends(gone) == Become(t, IF gone /\ lastCall THEN NotifyFrames({c}) ELSE <<>>)
    IN
    /\ TopIs(t, "running")
    /\ kind[c] \notin SelfReleased
    /\ \/ /\ kind[c] \notin Once
          /\ ends(state[c] = "gone")
          /\ UNCHANGED state
       \/ /\ kind[c] \in Once \cup {"watch", "probe"}
          /\ state' = [state EXCEPT ![c] = "gone"]
          /\ ends(TRUE)
    /\ UNCHANGED <<store, kind, ptr, profile, panicked>>

\* goPluginInit, goMetaInitFunc, goGDestroyNotifyFunc: the deferred Unref.
ReturnReleasing(t) ==
    /\ TopIs(t, "running")
    /\ kind[Top(t).cb] \in SelfReleased
    /\ Unref(Top(t).cb, Top(t).addr)
    /\ Become(t, <<>>)
    /\ UNCHANGED profile

\* The deferred Unref of the iterating functions.
EndForEach(t) ==
    /\ TopIs(t, "iterating")
    /\ Unref(Top(t).cb, Top(t).addr)
    /\ Become(t, <<>>)
    /\ UNCHANGED profile

\* Fault: RemoveProbe and the like release the entry themselves, although a call
\* may be in progress.
Remove_Releases(t, c) ==
    /\ Free(t)
    /\ state[c] = "set"
    /\ kind[c] \in {"watch", "sync", "app", "probe", "clock", "buffer"}
    /\ Unref(c, ptr[c])
    /\ UNCHANGED <<profile, stack>>

\* The application removes a callback (RemoveWatch, RemoveProbe), or the object
\* that has it goes; the one of a buffer is called at that moment.
Remove(t, c) ==
    /\ Free(t)
    /\ state[c] = "set"
    /\ kind[c] \in {"watch", "sync", "app", "probe", "clock", "buffer"}
    /\ state' = [state EXCEPT ![c] = "gone"]
    /\ IF kind[c] = "buffer" THEN Enter(t, "called", c, ptr[c])
       ELSE IF InCall(c) = {} THEN Enter(t, "notify", c, ptr[c])
       ELSE UNCHANGED stack
    /\ UNCHANGED <<store, kind, ptr, profile, panicked>>

\* goUnrefGopointerUserData, goAppGDestroyNotifyFunc, goVideoGDestroyNotifyFunc,
\* and the first half of goGDestroyNotifyFuncNoRun.
Notify(t) ==
    /\ TopIs(t, "notify")
    /\ Unref(Top(t).cb, Top(t).addr)
    /\ IF kind[Top(t).cb] \in NoRun THEN GoTo(t, "unprofile") ELSE Become(t, <<>>)
    /\ UNCHANGED profile

\* goGDestroyNotifyFuncNoRun: "no-op if it wasn't a pad probe".
ProfileRemove(t) ==
    /\ TopIs(t, "unprofile")
    /\ profile' = profile \ {Top(t).addr}
    /\ Become(t, <<>>)
    /\ UNCHANGED <<store, kind, ptr, state, panicked>>

\* Collect pads are stopped: C does not call them any more.
StopCollecting(c) ==
    /\ kind[c] = "collect"
    /\ state[c] = "set"
    /\ state' = [state EXCEPT ![c] = "gone"]
    /\ UNCHANGED <<store, kind, ptr, profile, stack, panicked>>

\* CollectPads.Free, which nobody but the application calls.
FreeCollectPads(t, c) ==
    /\ Free(t)
    /\ kind[c] = "collect"
    /\ \/ state[c] \in {"gone", "lost"} /\ InCall(c) = {} /\ Unref(c, ptr[c])
       \/ /\ "early free" \in Slips
          /\ state[c] = "set"
          /\ store' = [store EXCEPT ![ptr[c]] = None]
          /\ panicked' = (panicked \/ store[ptr[c]] = None)
          /\ UNCHANGED <<kind, ptr, state>>
    /\ UNCHANGED <<profile, stack>>

-----------------------------------------------------------------------------
\* A function of the application or an iteration comes to its end.
Ends(t) == Return(t) \/ ReturnReleasing(t) \/ EndForEach(t)

ThreadStep(t) ==
    \/ ProfileAdd(t) \/ AddWatch(t) \/ SetCallbacks(t) \/ WaitAsync(t)
    \/ SetElementPrivate(t) \/ Register(t) \/ WrapCollectPads(t)
    \/ BeginForEach(t) \/ CallInit(t)
    \/ Restore(t) \/ Ends(t)
    \/ Notify(t) \/ ProfileRemove(t)

Next ==
    /\ ~panicked
    /\ \/ \E t \in Threads :
            \/ ThreadStep(t)
            \/ \E c \in Callbacks :
                 \/ \E k \in Kinds : Save(t, c, k)
                 \/ Call(t, c) \/ Remove(t, c)
                 \/ SetCollectFunction(t, c) \/ FreeCollectPads(t, c)
       \/ \E c \in Callbacks : StopCollecting(c)

Spec == Init /\ [][Next]_vars

\* Threads go on; functions of the application return and iterations end,
\* however often they call into go-gst before.
FairSpec ==
    /\ Spec
    /\ \A t \in Threads :
         /\ WF_vars(ThreadStep(t))
         /\ \A d \in 1..MaxDepth : SF_vars(Len(stack[t]) = d /\ Ends(t))

-----------------------------------------------------------------------------
TypeOK ==
    /\ store \in [Addresses -> Callbacks \cup {None}]
    /\ kind \in [Callbacks -> Kinds \cup {None}]
    /\ ptr \in [Callbacks -> Addresses \cup {None}]
    /\ state \in [Callbacks -> {"free", "saved", "set", "gone", "lost"}]
    /\ profile \subseteq Addresses
    /\ \A t \in Threads :
         /\ Len(stack[t]) <= MaxDepth
         /\ \A i \in 1..Len(stack[t]) : stack[t][i] \in Frames
    /\ panicked \in BOOLEAN

\* A callback that C can still call, or is calling, is found by its trampoline:
\* its entry is there and is its own, although addresses are used again and it
\* may be replaced or removed from inside a call or from another thread.
LiveWhileCallable ==
    \A c \in Callbacks :
        state[c] = "set" \/ InCall(c) # {} => ptr[c] # None /\ store[ptr[c]] = c

\* No trampoline meets a missing entry, no entry is released twice, and the
\* profile is never given an address it has.
NeverPanics == ~panicked

\* What nobody is bound to release: a watch that is refused, a clock wait that
\* is overwritten, an init function C does not come to, private data; and a
\* wrapper of collect pads that C has not got, as CollectData.Collect makes one
\* on every call (gst_collect_pads.go:118, 173-180), unless the application
\* happens to call its Free.
Dropped == {"watch", "clock", "init", "private", "collect"}

\* Every entry that is saved belongs to a callback C, or a function of go-gst
\* that is running, still has, or to one of these; no other is forgotten, not
\* even one that was replaced while it was being called.
NothingLost ==
    \A a \in Addresses :
        store[a] # None =>
            /\ ptr[store[a]] = a
            /\ state[store[a]] = "lost" => kind[store[a]] \in Dropped

\* Not even those are forgotten.
NothingForgotten == \A c \in Callbacks : state[c] # "lost"

\* While no thread is between the two halves of a registration or a notify, the
\* profile names the probes that are active ("go-gst-active-pad-probes").
ProfileNamesProbes ==
    (\A t \in Threads : \A i \in 1..Len(stack[t]) :
        stack[t][i].at \notin {"saved", "unprofile"})
    => profile = {ptr[c] : c \in {x \in Callbacks : kind[x] = "probe"}}

\* A callback that was removed or replaced is released, and its place can be
\* used again.
RemovedIsReleased ==
    \A c \in Callbacks :
        state[c] = "gone" /\ kind[c] # "collect" ~> state[c] = "free"

=============================================================================
