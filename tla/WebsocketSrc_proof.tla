------------------------- MODULE WebsocketSrc_proof -------------------------
(***************************************************************************)
(* Proofs about module WebsocketSrc, for any clients, watchers, state      *)
(* changes and bounds, with or without failures.                           *)
(***************************************************************************)
EXTENDS WebsocketSrc, TLAPS

WatcherIsFunction == watcher = [w \in Watchers |-> watcher[w]]

\* Why there is one watcher: only a playing element has the flag set, the flag
\* is set whenever a watcher runs, and start makes one only without the flag.
OneWatcher ==
    /\ channelsStarted \in BOOLEAN
    /\ elemState # "PLAYING" => ~channelsStarted
    /\ app = "pausing" => elemState = "PLAYING"
    /\ \A w \in Watchers : Running(w) => channelsStarted
    /\ AtMostOneWatcher

IInv == WatcherIsFunction /\ OneWatcher

LEMMA InitIInv == Init => IInv
<1> SUFFICES ASSUME Init PROVE IInv
  OBVIOUS
<1>1. watcher = [w \in Watchers |-> Off] /\ \A w \in Watchers : watcher[w].pc = "off"
  BY DEF Init, Off
<1>2. WatcherIsFunction
  BY <1>1 DEF WatcherIsFunction
<1>3. elemState = "NULL" /\ app = "idle" /\ channelsStarted = FALSE
  BY DEF Init
<1>4. QED  BY <1>1, <1>2, <1>3 DEF IInv, OneWatcher, AtMostOneWatcher, Running

\* A step of a running watcher starts no other one.
LEMMA WatcherStep ==
    ASSUME IInv, NEW w \in Watchers, Running(w), WatcherIsFunction',
           \A v \in Watchers \ {w} : watcher'[v] = watcher[v],
           UNCHANGED <<elemState, app, channelsStarted>>
    PROVE  IInv'
BY DEF IInv, OneWatcher, AtMostOneWatcher, Running

\* A step that leaves the watchers and what start looks at alone.
LEMMA OtherStep ==
    ASSUME IInv, UNCHANGED <<elemState, app, channelsStarted, watcher>>
    PROVE  IInv'
BY DEF IInv, WatcherIsFunction, OneWatcher, AtMostOneWatcher, Running

LEMMA ChangeStateIInv == IInv /\ ChangeState => IInv'
<1> SUFFICES ASSUME IInv, ChangeState PROVE IInv'
  OBVIOUS
<1> USE DEF IInv, WatcherIsFunction, OneWatcher, AtMostOneWatcher, Running
<1>1. CASE NullToReady
  BY <1>1 DEF NullToReady, Change, flags
<1>2. CASE ReadyToPaused
  BY <1>2 DEF ReadyToPaused, Change, object, flags
<1>3. CASE PausedToPlaying
  <2>1. /\ elemState = "PAUSED" /\ elemState' = "PLAYING" /\ app' = app
        /\ channelsStarted' = TRUE /\ ~channelsStarted
    BY <1>3 DEF PausedToPlaying, Change
  <2>2. PICK w \in Watchers :
          watcher' = [watcher EXCEPT ![w] = [Off EXCEPT !.pc = "select"]]
    BY <1>3, <2>1 DEF PausedToPlaying
  <2>3. \A v \in Watchers : watcher[v].pc = "off"
    BY <2>1
  <2>4. WatcherIsFunction' /\ \A v \in Watchers \ {w} : watcher'[v] = watcher[v]
    BY <2>2
  <2>5. \A v \in Watchers : watcher'[v].pc # "off" => v = w
    BY <2>3, <2>4
  <2>6. QED  BY <2>1, <2>4, <2>5
<1>4. CASE PlayingToPaused
  BY <1>4 DEF PlayingToPaused, Change, object, flags
<1>5. CASE PausedToReady
  <2>1. /\ elemState = "PAUSED" /\ elemState' = "READY" /\ app' = app
        /\ app = "idle" /\ ~channelsStarted /\ channelsStarted' = FALSE
        /\ watcher' = watcher
    BY <1>5 DEF PausedToReady, Change
  <2>2. QED  BY <2>1
<1>6. CASE ReadyToNull
  <2>1. /\ elemState = "READY" /\ elemState' = "NULL" /\ app' = app
        /\ app = "idle" /\ channelsStarted' = FALSE /\ watcher' = watcher
    BY <1>6 DEF ReadyToNull, Change
  <2>2. QED  BY <2>1
<1>7. QED  BY <1>1, <1>2, <1>3, <1>4, <1>5, <1>6 DEF ChangeState

\* pause clears the flag in the step in which the only watcher ends.
LEMMA PausedIInv == IInv /\ Paused => IInv'
<1> SUFFICES ASSUME IInv, Paused PROVE IInv'
  OBVIOUS
<1> USE DEF IInv, WatcherIsFunction, OneWatcher, AtMostOneWatcher, Running
<1>1. PICK w \in Watchers : At(w, "select") /\ watcher' = [watcher EXCEPT ![w] = Off]
  BY DEF Paused, Signal
<1>2. elemState' = "PAUSED" /\ app' = "idle" /\ channelsStarted' = FALSE
  BY DEF Paused
<1>3. Off.pc = "off"
  BY DEF Off
<1>4. \A v \in Watchers : watcher'[v].pc = "off"
  BY <1>1, <1>3 DEF At
<1>5. QED  BY <1>1, <1>2, <1>3, <1>4

LEMMA WatchIInv ==
    ASSUME IInv, NEW w \in Watchers, WatchChannels(w)
    PROVE  IInv'
<1>1. UNCHANGED <<elemState, app, channelsStarted>>
  BY DEF WatchChannels, Receive, AcquireBuffer, PreludeLock, PushStreamStart,
         PushSegment, PreludeDone, PushBuffer, watcherOnly
<1>2. Running(w)
  BY DEF WatchChannels, Receive, AcquireBuffer, PreludeLock, PushStreamStart,
         PushSegment, PreludeDone, PushBuffer, Running, At
<1>3. \/ watcher' = watcher
      \/ \E pc : watcher' = [watcher EXCEPT ![w].pc = pc]
      \/ \E v : watcher' = [watcher EXCEPT ![w] = v]
  BY DEF WatchChannels, Receive, AcquireBuffer, PreludeLock, PushStreamStart,
         PushSegment, PreludeDone, PushBuffer, PreludeReturn, Goto
<1>4. /\ WatcherIsFunction'
      /\ \A v \in Watchers \ {w} : watcher'[v] = watcher[v]
  BY <1>3 DEF IInv, WatcherIsFunction
<1>5. QED  BY <1>1, <1>2, <1>4, WatcherStep

LEMMA NextIInv == IInv /\ [Next]_vars => IInv'
<1> SUFFICES ASSUME IInv, [Next]_vars PROVE IInv'
  OBVIOUS
<1>1. CASE UNCHANGED vars
  BY <1>1, OtherStep DEF vars, object, flags
<1>2. CASE StartServer
  BY <1>2, OtherStep DEF StartServer, flags
<1>3. ASSUME NEW c \in Clients, Handle(c) PROVE IInv'
  BY <1>3, OtherStep DEF Handle, Connect, Lock, Defer, Read, ReadFails,
     SendOnClosed, handlerOnly, object, flags
<1>4. QED  BY <1>1, <1>2, <1>3, ChangeStateIInv, PausedIInv, WatchIInv DEF Next

\* However the element pauses and resumes, and whatever fails, at most one
\* goroutine moves chunks to the pad.
THEOREM OnlyOneWatcher == Spec => []AtMostOneWatcher
<1>1. IInv => AtMostOneWatcher  BY DEF IInv, OneWatcher
<1>2. QED  BY InitIInv, NextIInv, <1>1, PTL DEF Spec

-----------------------------------------------------------------------------
(***************************************************************************)
(* The types.                                                              *)
(***************************************************************************)
WatcherPc == {"off", "select", "acquire", "prelude", "events", "push"}
HandlerPc == {"idle", "lock", "defer", "read", "send"}
WatcherStates == [pc : WatcherPc, data : Chunks \cup {NoChunk}]
HandlerStates ==
    [pc : HandlerPc, locked : {0} \cup Gens, unlock : {0} \cup Gens, to : {0} \cup Gens]
Events ==
    [pad : {0} \cup Gens, kind : {"stream-start", "segment", "buffer"},
     data : Chunks \cup {NoChunk}]

AppTypes ==
    /\ elemState \in {"NULL", "READY", "PAUSED", "PLAYING"}
    /\ changes \in 0 .. MaxChanges /\ app \in {"idle", "pausing"}
    /\ gen \in Gens /\ srcpad \in {0} \cup Gens
    /\ serverStarted \in BOOLEAN /\ channelsStarted \in BOOLEAN
    /\ sentInitialEvents \in BOOLEAN /\ sentSegment \in BOOLEAN
    /\ server \in {"none", "new", "serving", "closed"}
    /\ servers \in Nat

WatcherTypes ==
    /\ watcher \in [Watchers -> WatcherStates]
    /\ mux \in {Free, "app"} \cup Watchers
    /\ mux = "app" <=> app = "pausing"
    /\ \A w \in Watchers : mux = w <=> At(w, "events")
    /\ out \in Seq(Events)

HandlerTypes ==
    /\ connmux \in [Gens -> {Free} \cup Clients]
    /\ handler \in [Clients -> HandlerStates]
    /\ read \in [Clients -> 0 .. MaxChunks]
    /\ \A c \in Clients : handler[c].pc = "send" => read[c] > 0
    /\ crashed \in {"no", "nil server", "unlock of unlocked", "send on closed channel"}

Types == AppTypes /\ WatcherTypes /\ HandlerTypes

LEMMA TypesAreTypeOK == Types => TypeOK
<1>1. {serverStarted, channelsStarted, sentInitialEvents, sentSegment} \subseteq BOOLEAN
      <=> /\ serverStarted \in BOOLEAN /\ channelsStarted \in BOOLEAN
          /\ sentInitialEvents \in BOOLEAN /\ sentSegment \in BOOLEAN
  OBVIOUS
<1>2. QED
  BY <1>1 DEF TypeOK, Types, AppTypes, WatcherTypes, HandlerTypes, Events,
     WatcherStates, HandlerStates, WatcherPc, HandlerPc

LEMMA RecordTypes ==
    /\ Off \in WatcherStates /\ Off.pc = "off" /\ Off.data = NoChunk
    /\ [Off EXCEPT !.pc = "select"] \in WatcherStates
    /\ [Off EXCEPT !.pc = "select"].pc = "select"
    /\ [Off EXCEPT !.pc = "select"].data = NoChunk
    /\ NoConn \in HandlerStates /\ NoConn.pc = "idle"
BY DEF Off, NoConn, WatcherStates, HandlerStates, WatcherPc, HandlerPc

\* What a watcher's next state is.
LEMMA WatcherSet ==
    ASSUME watcher \in [Watchers -> WatcherStates], NEW w \in Watchers,
           NEW s \in WatcherStates, watcher' = [watcher EXCEPT ![w] = s]
    PROVE  /\ watcher' \in [Watchers -> WatcherStates]
           /\ watcher'[w] = s
           /\ \A v \in Watchers \ {w} : watcher'[v] = watcher[v]
OBVIOUS

\* A handler that reads, or hands a chunk over.
LEMMA HandlerMoves ==
    ASSUME handler \in [Clients -> HandlerStates], NEW c \in Clients,
           NEW pc \in HandlerPc, NEW g \in {0} \cup Gens,
           handler' = [handler EXCEPT ![c].pc = pc, ![c].to = g]
    PROVE  /\ handler' \in [Clients -> HandlerStates]
           /\ handler'[c].pc = pc
           /\ \A d \in Clients \ {c} : handler'[d] = handler[d]
<1>1. handler[c] \in HandlerStates
  OBVIOUS
<1>2. [handler[c] EXCEPT !.pc = pc, !.to = g] \in HandlerStates
  BY <1>1 DEF HandlerStates
<1>3. handler' = [handler EXCEPT ![c] = [handler[c] EXCEPT !.pc = pc, !.to = g]]
  OBVIOUS
<1>4. [handler[c] EXCEPT !.pc = pc, !.to = g].pc = pc
  BY <1>1 DEF HandlerStates
<1>5. QED  BY <1>2, <1>3, <1>4

LEMMA WatcherGoto ==
    ASSUME watcher \in [Watchers -> WatcherStates], NEW w \in Watchers,
           NEW pc \in WatcherPc, Goto(w, pc)
    PROVE  /\ watcher' \in [Watchers -> WatcherStates]
           /\ watcher'[w].pc = pc /\ watcher'[w].data = watcher[w].data
           /\ \A v \in Watchers \ {w} : watcher'[v] = watcher[v]
BY DEF Goto, WatcherStates

\* The channel a handler looks up is that of w.state, or nil.
LEMMA ReadLooksUp ==
    ASSUME NEW c \in Clients, Read(c)
    PROVE  \E to \in {0, gen} :
             handler' = [handler EXCEPT ![c].pc = "send", ![c].to = to]
<1>1. CASE server = "none"
  <2>1. handler' = [handler EXCEPT ![c].pc = "send", ![c].to = 0]
    BY <1>1 DEF Read
  <2>2. QED  BY <2>1
<1>2. CASE server # "none"
  <2>1. handler' = [handler EXCEPT ![c].pc = "send", ![c].to = gen]
    BY <1>2 DEF Read
  <2>2. QED  BY <2>1
<1>3. QED  BY <1>1, <1>2

LEMMA InitTypes == Init => Types
<1>1. 1 \in Gens /\ <<>> \in Seq(Events) /\ "app" # Free /\ Free \notin Watchers
  BY WebsocketSrcAssumption DEF Gens
<1>2. ASSUME Init PROVE AppTypes /\ HandlerTypes
  <2>1. AppTypes
    <3>1. 0 \in 0 .. MaxChanges /\ 0 \in Nat
      BY WebsocketSrcAssumption
    <3>2. QED  BY <1>1, <1>2, <3>1 DEF Init, AppTypes, ElementPad
  <2>2. HandlerTypes
    <3>1. 0 \in 0 .. MaxChunks
      BY WebsocketSrcAssumption
    <3>2. QED  BY <1>2, <3>1, RecordTypes DEF Init, HandlerTypes
  <2>3. QED  BY <2>1, <2>2
<1>3. ASSUME Init PROVE WatcherTypes
  BY <1>1, <1>3, RecordTypes DEF Init, WatcherTypes, At
<1>4. QED  BY <1>2, <1>3 DEF Types

\* The state-change thread, which starts one watcher at most and ends one.
LEMMA ChangeTypes ==
    ASSUME Types, ChangeState \/ Paused \/ StartServer
    PROVE  Types'
<1> USE DEF Types
<1>1. AppTypes'
  <2>1. ASSUME NEW tr, NEW from, NEW to \in {"NULL", "READY", "PAUSED", "PLAYING"},
               Change(tr, from, to)
        PROVE  /\ elemState' \in {"NULL", "READY", "PAUSED", "PLAYING"}
               /\ changes' \in 0 .. MaxChanges /\ app = "idle"
    BY <2>1, WebsocketSrcAssumption DEF Change, AppTypes
  <2>2. gen \in Nat /\ gen \in Gens /\ (gen < MaxGen => gen + 1 \in Gens)
    BY WebsocketSrcAssumption DEF AppTypes, Gens
  <2>3. CASE NullToReady
    BY <2>1, <2>2, <2>3 DEF NullToReady, AppTypes, flags
  <2>4. CASE ReadyToPaused
    BY <2>1, <2>4 DEF ReadyToPaused, AppTypes, object, flags
  <2>5. CASE PausedToPlaying
    BY <2>1, <2>5 DEF PausedToPlaying, AppTypes
  <2>6. CASE PlayingToPaused
    BY <2>1, <2>6 DEF PlayingToPaused, AppTypes, object, flags
  <2>7. CASE PausedToReady
    BY <2>1, <2>7 DEF PausedToReady, AppTypes
  <2>8. CASE ReadyToNull
    BY <2>1, <2>2, <2>8 DEF ReadyToNull, AppTypes
  <2>9. CASE Paused
    BY <2>9 DEF Paused, AppTypes
  <2>10. CASE StartServer
    <3>1. /\ UNCHANGED <<elemState, changes, app, gen, flags, srcpad>>
          /\ servers > 0 /\ servers' = servers - 1 /\ server' \in {server, "serving"}
      BY <2>10 DEF StartServer
    <3>2. servers' \in Nat
      BY <3>1 DEF AppTypes
    <3>3. QED  BY <3>1, <3>2 DEF AppTypes, flags
  <2>11. QED
    BY <2>3, <2>4, <2>5, <2>6, <2>7, <2>8, <2>9, <2>10 DEF ChangeState
<1>2. WatcherTypes'
  <2>1. "app" # Free /\ "app" \notin Watchers /\ Free \notin Watchers
    BY WebsocketSrcAssumption
  <2>2. CASE PausedToPlaying /\ ~channelsStarted
    <3>1. PICK w \in Watchers :
            ~Running(w) /\ watcher' = [watcher EXCEPT ![w] = [Off EXCEPT !.pc = "select"]]
      BY <2>2 DEF PausedToPlaying
    <3>2. \A v \in Watchers : watcher'[v].pc = "events" <=> watcher[v].pc = "events"
      BY <3>1, RecordTypes DEF Running, WatcherTypes
    <3>3. watcher' \in [Watchers -> WatcherStates]
      BY <3>1, RecordTypes DEF WatcherTypes
    <3>4. UNCHANGED <<mux, app, out>>
      BY <2>2 DEF PausedToPlaying
    <3>5. QED  BY <3>2, <3>3, <3>4 DEF WatcherTypes, At
  <2>3. CASE PlayingToPaused
    <3>1. mux = Free /\ mux' = "app" /\ app' = "pausing" /\ UNCHANGED <<watcher, out>>
      BY <2>3 DEF PlayingToPaused
    <3>2. QED  BY <2>1, <3>1 DEF WatcherTypes, At
  <2>4. CASE Paused \/ (PausedToReady /\ channelsStarted)
    <3>1. PICK w \in Watchers :
            At(w, "select") /\ watcher' = [watcher EXCEPT ![w] = Off]
      BY <2>4 DEF Paused, PausedToReady, Signal
    <3>2. \A v \in Watchers : watcher'[v].pc = "events" <=> watcher[v].pc = "events"
      BY <3>1, RecordTypes DEF At, WatcherTypes
    <3>3. watcher' \in [Watchers -> WatcherStates]
      BY <3>1, RecordTypes DEF WatcherTypes
    <3>4. out' = out /\ (mux' = "app" <=> app' = "pausing") /\ mux' \in {Free, "app"}
      BY <2>1, <2>4 DEF Paused, PausedToReady, WatcherTypes, Change
    <3>5. \A v \in Watchers : watcher[v].pc # "events"
      BY <2>1, <2>4 DEF Paused, PausedToReady, WatcherTypes, At
    <3>6. QED  BY <2>1, <3>2, <3>3, <3>4, <3>5 DEF WatcherTypes, At
  <2>5. CASE \/ NullToReady \/ ReadyToPaused \/ ReadyToNull \/ StartServer
             \/ PausedToPlaying /\ channelsStarted
             \/ PausedToReady /\ ~channelsStarted
    <3>1. UNCHANGED <<watcher, mux, app, out>>
      BY <2>5 DEF NullToReady, ReadyToPaused, ReadyToNull, StartServer,
         PausedToPlaying, PausedToReady, object, flags
    <3>2. QED  BY <3>1 DEF WatcherTypes, At
  <2>6. QED  BY <2>2, <2>3, <2>4, <2>5 DEF ChangeState
<1>3. HandlerTypes'
  <2>1. UNCHANGED <<connmux, handler, read>> /\ crashed' \in {crashed, "nil server"}
    BY DEF ChangeState, NullToReady, ReadyToPaused, PausedToPlaying, PlayingToPaused,
       PausedToReady, ReadyToNull, Paused, StartServer
  <2>2. QED  BY <2>1 DEF HandlerTypes
<1>4. QED  BY <1>1, <1>2, <1>3

LEMMA WatchTypes ==
    ASSUME Types, NEW w \in Watchers, WatchChannels(w)
    PROVE  Types'
<1> USE DEF Types
<1>1. AppTypes'
  <2>1. /\ UNCHANGED <<elemState, changes, app, gen, srcpad, serverStarted,
                       channelsStarted, server, servers>>
        /\ sentInitialEvents' \in BOOLEAN /\ sentSegment' \in BOOLEAN
    BY DEF WatchChannels, Receive, AcquireBuffer, PreludeLock, PushStreamStart,
       PushSegment, PreludeDone, PushBuffer, watcherOnly, AppTypes
  <2>2. QED  BY <2>1 DEF AppTypes
<1>2. HandlerTypes'
  <2>1. UNCHANGED <<connmux, read, crashed>>
    BY DEF WatchChannels, Receive, AcquireBuffer, PreludeLock, PushStreamStart,
       PushSegment, PreludeDone, PushBuffer, watcherOnly
  <2>2. CASE \E c \in Clients : Receive(w, c)
    <3>1. PICK c \in Clients :
            handler' = [handler EXCEPT ![c].pc = "read", ![c].to = 0]
      BY <2>2 DEF Receive
    <3>2. /\ handler' \in [Clients -> HandlerStates] /\ handler'[c].pc = "read"
          /\ \A d \in Clients \ {c} : handler'[d] = handler[d]
      BY <3>1, HandlerMoves DEF HandlerTypes, HandlerPc
    <3>3. QED  BY <2>1, <3>2 DEF HandlerTypes
  <2>3. CASE handler' = handler
    BY <2>1, <2>3 DEF HandlerTypes
  <2>4. QED
    BY <2>2, <2>3 DEF WatchChannels, AcquireBuffer, PreludeLock, PushStreamStart,
       PushSegment, PreludeDone, PushBuffer
<1>3. watcher \in [Watchers -> WatcherStates]
      /\ {"prelude", "events", "push"} \subseteq WatcherPc
  BY DEF WatcherTypes, WatcherPc
<1>4. /\ watcher' \in [Watchers -> WatcherStates]
      /\ \A v \in Watchers \ {w} : watcher'[v] = watcher[v]
      /\ \/ mux' = mux /\ (watcher'[w].pc = "events" <=> At(w, "events"))
         \/ mux = Free /\ mux' = w /\ watcher'[w].pc = "events"
         \/ mux = w /\ mux' = Free /\ watcher'[w].pc # "events"
  <2>1. CASE \E c \in Clients : Receive(w, c)
    <3>1. PICK c \in Clients : handler[c].pc = "send" /\ Receive(w, c)
      BY <2>1 DEF Receive
    <3>2. [pc |-> "acquire", data |-> [from |-> c, n |-> read[c]]] \in WatcherStates
      <4>1. read[c] \in 0 .. MaxChunks /\ read[c] > 0
        BY <3>1 DEF HandlerTypes
      <4>2. read[c] \in 1 .. MaxChunks
        BY <4>1, WebsocketSrcAssumption
      <4>3. [from |-> c, n |-> read[c]] \in Chunks
        BY <4>2 DEF Chunks
      <4>4. QED  BY <4>3 DEF WatcherStates, WatcherPc
    <3>3. QED  BY <1>3, <3>1, <3>2, WatcherSet DEF Receive, At
  <2>2. CASE AcquireBuffer(w)
    <3>1. CASE Goto(w, "prelude")
      BY <1>3, <2>2, <3>1, WatcherGoto DEF AcquireBuffer, At
    <3>2. CASE watcher' = [watcher EXCEPT ![w] = Off]
      BY <1>3, <2>2, <3>2, WatcherSet, RecordTypes DEF AcquireBuffer, At
    <3>3. QED  BY <2>2, <3>1, <3>2 DEF AcquireBuffer
  <2>3. CASE PreludeLock(w)
    BY <1>3, <2>3, WatcherGoto DEF PreludeLock
  <2>4. CASE PushStreamStart(w) \/ PushSegment(w) \/ PreludeDone(w)
    <3>1. mux = w /\ At(w, "events")
      BY <2>4 DEF PushStreamStart, PushSegment, PreludeDone, WatcherTypes
    <3>2. CASE watcher' = watcher /\ mux' = mux
      BY <1>3, <3>2 DEF At
    <3>3. CASE PreludeReturn(w)
      BY <1>3, <3>1, <3>3, WatcherGoto DEF PreludeReturn
    <3>4. QED  BY <2>4, <3>2, <3>3 DEF PushStreamStart, PushSegment, PreludeDone
  <2>5. CASE PushBuffer(w)
    <3>1. \/ watcher' = [watcher EXCEPT ![w] = [Off EXCEPT !.pc = "select"]]
          \/ watcher' = [watcher EXCEPT ![w] = Off]
      BY <2>5 DEF PushBuffer
    <3>2. mux' = mux /\ ~At(w, "events")
      BY <2>5 DEF PushBuffer, At
    <3>3. /\ watcher' \in [Watchers -> WatcherStates]
          /\ watcher'[w].pc # "events"
          /\ \A v \in Watchers \ {w} : watcher'[v] = watcher[v]
      BY <1>3, <3>1, RecordTypes, WatcherSet
    <3>4. QED  BY <3>2, <3>3
  <2>6. QED  BY <2>1, <2>2, <2>3, <2>4, <2>5 DEF WatchChannels
<1>5. WatcherTypes'
  <2>1. Free \notin Watchers /\ "app" \notin Watchers /\ "app" # Free /\ app' = app
    BY WebsocketSrcAssumption DEF WatchChannels, Receive, AcquireBuffer, PreludeLock,
       PushStreamStart, PushSegment, PreludeDone, PushBuffer, watcherOnly
  <2>2. out' \in Seq(Events)
    <3>1. /\ Event("stream-start") \in Events /\ Event("segment") \in Events
          /\ [pad |-> srcpad, kind |-> "buffer", data |-> watcher[w].data] \in Events
      BY DEF Event, Events, AppTypes, WatcherTypes, WatcherStates
    <3>2. \/ out' = out
          \/ \E e \in Events : out' = Append(out, e)
      BY <3>1 DEF WatchChannels, Receive, AcquireBuffer, PreludeLock, PushStreamStart,
         PushSegment, PreludeDone, PushBuffer
    <3>3. QED  BY <3>2 DEF WatcherTypes
  <2>3. /\ mux' \in {Free, "app"} \cup Watchers
        /\ mux' = "app" <=> app' = "pausing"
    BY <1>4, <2>1 DEF WatcherTypes
  <2>4. ASSUME NEW v \in Watchers PROVE mux' = v <=> watcher'[v].pc = "events"
    <3>1. CASE v = w
      BY <1>4, <2>1, <3>1 DEF WatcherTypes, At
    <3>2. CASE v # w
      BY <1>4, <2>1, <3>2 DEF WatcherTypes, At
    <3>3. QED  BY <3>1, <3>2
  <2>5. QED  BY <1>4, <2>2, <2>3, <2>4 DEF WatcherTypes, At
<1>6. QED  BY <1>1, <1>2, <1>5

LEMMA HandleTypes ==
    ASSUME Types, NEW c \in Clients, Handle(c)
    PROVE  Types'
<1> USE DEF Types
<1>1. UNCHANGED <<elemState, changes, app, gen, flags, server, srcpad, servers,
                  mux, watcher, out>>
  BY DEF Handle, Connect, Lock, Defer, Read, ReadFails, SendOnClosed, handlerOnly, object
<1>2. AppTypes' /\ WatcherTypes'
  BY <1>1 DEF AppTypes, WatcherTypes, flags, At
<1>3. HandlerTypes'
  <2>1. gen \in Gens /\ MaxChunks \in Nat
    BY WebsocketSrcAssumption DEF AppTypes
  <2>2. CASE Connect(c)
    BY <2>1, <2>2 DEF Connect, HandlerTypes, HandlerStates, HandlerPc, NoConn
  <2>3. CASE Lock(c)
    BY <2>3 DEF Lock, HandlerTypes, HandlerStates, HandlerPc
  <2>4. CASE Defer(c)
    BY <2>1, <2>4 DEF Defer, HandlerTypes, HandlerStates, HandlerPc
  <2>5. CASE Read(c)
    <3>1. /\ \E to \in {0, gen} :
                handler' = [handler EXCEPT ![c].pc = "send", ![c].to = to]
          /\ read' = [read EXCEPT ![c] = @ + 1] /\ read[c] < MaxChunks
          /\ UNCHANGED <<connmux, crashed>>
      BY <2>5, ReadLooksUp DEF Read
    <3>2. read[c] \in Nat /\ read[c] + 1 \in 0 .. MaxChunks /\ read[c] + 1 > 0
      <4>1. read[c] \in 0 .. MaxChunks
        BY DEF HandlerTypes
      <4>2. QED  BY <2>1, <3>1, <4>1
    <3>3. read' \in [Clients -> 0 .. MaxChunks]
      BY <3>1, <3>2 DEF HandlerTypes
    <3>4. handler' \in [Clients -> HandlerStates]
      BY <2>1, <3>1, HandlerMoves DEF HandlerTypes, HandlerPc
    <3>5. \A d \in Clients : handler'[d].pc = "send" => read'[d] > 0
      BY <3>1, <3>2 DEF HandlerTypes
    <3>6. QED  BY <3>1, <3>3, <3>4, <3>5 DEF HandlerTypes
  <2>6. CASE ReadFails(c)
    BY <2>6, RecordTypes DEF ReadFails, HandlerTypes
  <2>7. CASE SendOnClosed(c)
    BY <2>7 DEF SendOnClosed, HandlerTypes
  <2>8. QED  BY <2>2, <2>3, <2>4, <2>5, <2>6, <2>7 DEF Handle
<1>4. QED  BY <1>2, <1>3

LEMMA NextTypes == Types /\ [Next]_vars => Types'
<1> SUFFICES ASSUME Types, [Next]_vars PROVE Types'
  OBVIOUS
<1>1. CASE UNCHANGED vars
  <2>1. AppTypes'
    BY <1>1 DEF vars, object, flags, Types, AppTypes
  <2>2. WatcherTypes'
    BY <1>1 DEF vars, Types, WatcherTypes, At
  <2>3. HandlerTypes'
    BY <1>1 DEF vars, Types, HandlerTypes
  <2>4. QED  BY <2>1, <2>2, <2>3 DEF Types
<1>2. QED  BY <1>1, ChangeTypes, WatchTypes, HandleTypes DEF Next

\* The variables keep their types; and the mutex is held by the watcher that is
\* in its critical section, or by a state change that waits for the watcher.
THEOREM WellTyped == Spec => []TypeOK
<1>1. QED  BY InitTypes, NextTypes, TypesAreTypeOK, PTL DEF Spec

-----------------------------------------------------------------------------
(***************************************************************************)
(* Clients, as long as the state object is replaced at quiet moments only. *)
(***************************************************************************)

\* Why one client streams and nothing crashes: a handler that is past its lock
\* owns the mutex it locked and unlocks that one, one that is still to look its
\* mutex up works with the state object that w.state points to, a channel that
\* is being sent on is that object's or nil, and what has left NULL has a server.
Owned(c) ==
    /\ handler[c].pc \in {"lock", "defer"} => handler[c].locked = gen
    /\ handler[c].pc \in {"defer", "read", "send"} =>
         handler[c].locked \in Gens /\ connmux[handler[c].locked] = c
    /\ handler[c].pc \in {"read", "send"} => handler[c].unlock = handler[c].locked
    /\ handler[c].pc = "send" => handler[c].to \in {0, gen}

Connected ==
    /\ crashed = "no"
    /\ elemState # "NULL" => server # "none"
    /\ servers > 0 => server # "none"
    /\ \A c \in Clients : Owned(c)

LEMMA InitConnected == Init => Connected
<1> SUFFICES ASSUME Init PROVE Connected
  OBVIOUS
<1>1. \A c \in Clients : handler[c].pc = "idle"
  BY DEF Init, NoConn
<1>2. crashed = "no" /\ elemState = "NULL" /\ ~(servers > 0)
  BY DEF Init
<1>3. QED  BY <1>1, <1>2 DEF Connected, Owned

\* A step that leaves what clients use alone.
LEMMA ConnectedKept ==
    ASSUME Connected, UNCHANGED <<gen, crashed, handler, connmux>>,
           elemState' # "NULL" => server' # "none",
           servers' > 0 => server' # "none"
    PROVE  Connected'
BY DEF Connected, Owned

\* At a quiet moment the handlers are gone or wait for their clients, and what
\* those use later is their own mutex and the channel they look up then.
LEMMA TeardownConnected ==
    ASSUME Connected, ReadyToNull, QuietMoment
    PROVE  Connected'
<1>1. /\ elemState' = "NULL"
      /\ UNCHANGED <<crashed, handler, connmux, servers>>
  BY DEF ReadyToNull, Change
<1>2. ~(servers' > 0)
  BY <1>1 DEF QuietMoment
<1>3. \A c \in Clients : Owned(c)'
  BY <1>1 DEF Connected, Owned, QuietMoment
<1>4. QED  BY <1>1, <1>2, <1>3 DEF Connected

LEMMA ChangeConnected ==
    ASSUME IInv, Connected, ChangeState \/ Paused \/ StartServer,
           ReadyToNull => QuietMoment
    PROVE  Connected'
<1>1. CASE NullToReady
  BY <1>1, ConnectedKept DEF NullToReady, flags
<1>2. CASE ReadyToPaused
  BY <1>2, ConnectedKept DEF ReadyToPaused, Change, object, flags, Connected
<1>3. CASE PausedToPlaying
  BY <1>3, ConnectedKept DEF PausedToPlaying, Change, Connected
<1>4. CASE PlayingToPaused
  BY <1>4, ConnectedKept DEF PlayingToPaused, Change, object, flags, Connected
<1>5. CASE PausedToReady
  BY <1>5, ConnectedKept DEF PausedToReady, Change, Connected
<1>6. CASE Paused
  <2>1. app = "pausing" /\ UNCHANGED <<gen, crashed, handler, connmux, server, servers>>
    BY <1>6 DEF Paused
  <2>2. elemState = "PLAYING" /\ server # "none"
    BY <2>1 DEF IInv, OneWatcher, Connected
  <2>3. QED  BY <2>1, <2>2, ConnectedKept
<1>7. CASE StartServer
  <2>1. /\ servers > 0 /\ UNCHANGED <<gen, handler, connmux, elemState>>
        /\ server' = IF server = "new" THEN "serving" ELSE server
        /\ crashed' = IF server = "none" THEN "nil server" ELSE crashed
    BY <1>7 DEF StartServer
  <2>2. server # "none" /\ server' # "none" /\ crashed' = crashed
    BY <2>1 DEF Connected
  <2>3. QED  BY <2>1, <2>2, ConnectedKept
<1>8. QED
  BY <1>1, <1>2, <1>3, <1>4, <1>5, <1>6, <1>7, TeardownConnected DEF ChangeState

LEMMA WatchConnected ==
    ASSUME Types, Connected, NEW w \in Watchers, WatchChannels(w)
    PROVE  Connected'
<1>1. UNCHANGED <<elemState, gen, server, connmux, servers, crashed>>
  BY DEF WatchChannels, Receive, AcquireBuffer, PreludeLock, PushStreamStart,
     PushSegment, PreludeDone, PushBuffer, watcherOnly
<1>2. CASE \E c \in Clients : Receive(w, c)
  <2>1. PICK c \in Clients :
          /\ handler[c].pc = "send"
          /\ handler' = [handler EXCEPT ![c].pc = "read", ![c].to = 0]
    BY <1>2 DEF Receive
  <2>2. /\ handler'[c].pc = "read" /\ handler'[c].unlock = handler[c].unlock
        /\ handler'[c].locked = handler[c].locked
        /\ \A d \in Clients \ {c} : handler'[d] = handler[d]
    BY <2>1 DEF Types, HandlerTypes, HandlerStates
  <2>3. \A d \in Clients : Owned(d)'
    <3>1. Owned(c)'
      BY <1>1, <2>1, <2>2 DEF Owned, Connected
    <3>2. \A d \in Clients \ {c} : Owned(d)'
      BY <1>1, <2>2 DEF Owned, Connected
    <3>3. QED  BY <3>1, <3>2
  <2>4. QED  BY <1>1, <2>3 DEF Connected
<1>3. CASE handler' = handler
  BY <1>1, <1>3, ConnectedKept DEF Connected
<1>4. QED
  BY <1>2, <1>3 DEF WatchChannels, AcquireBuffer, PreludeLock, PushStreamStart,
     PushSegment, PreludeDone, PushBuffer

\* A step of a handler that takes nothing from the others.
LEMMA HandlerKeeps ==
    ASSUME Connected, UNCHANGED <<gen, elemState, server, servers, crashed>>,
           NEW c \in Clients, Owned(c)',
           \A d \in Clients \ {c} :
              /\ handler'[d] = handler[d]
              /\ \A g \in Gens : connmux[g] = d => connmux'[g] = d
    PROVE  Connected'
<1>1. \A d \in Clients : Owned(d)'
  BY DEF Connected, Owned
<1>2. QED  BY <1>1 DEF Connected

LEMMA HandleConnected ==
    ASSUME Types, Connected, NEW c \in Clients, Handle(c)
    PROVE  Connected'
<1>1. UNCHANGED <<gen, elemState, server, servers>> /\ crashed = "no"
  BY DEF Handle, Connect, Lock, Defer, Read, ReadFails, SendOnClosed, handlerOnly,
     object, Connected
<1>2. Owned(c) /\ handler[c] \in HandlerStates /\ gen \in Gens
  BY DEF Connected, Types, HandlerTypes, AppTypes
<1>3. handler \in [Clients -> HandlerStates] /\ connmux \in [Gens -> {Free} \cup Clients]
  BY DEF Types, HandlerTypes
<1>4. Free \notin Clients
  BY WebsocketSrcAssumption
<1> DEFINE l == handler[c].locked
<1>5. CASE Connect(c)
  <2>1. /\ handler' = [handler EXCEPT ![c] = [NoConn EXCEPT !.pc = "lock", !.locked = gen]]
        /\ UNCHANGED <<connmux, crashed>>
    BY <1>5 DEF Connect
  <2>2. handler'[c].pc = "lock" /\ handler'[c].locked = gen'
    BY <1>1, <1>3, <2>1 DEF NoConn
  <2>3. QED  BY <1>1, <1>3, <2>1, <2>2, HandlerKeeps DEF Owned
<1>6. CASE Lock(c)
  <2>1. /\ handler[c].pc = "lock" /\ l = gen /\ connmux[l] = Free
        /\ connmux' = [connmux EXCEPT ![l] = c]
        /\ handler' = [handler EXCEPT ![c].pc = "defer"] /\ UNCHANGED crashed
    BY <1>2, <1>6 DEF Lock, Owned
  <2>2. handler'[c].pc = "defer" /\ handler'[c].locked = gen /\ connmux'[gen] = c
    BY <1>2, <1>3, <2>1 DEF HandlerStates
  <2>3. \A d \in Clients \ {c} :
           handler'[d] = handler[d] /\ \A g \in Gens : connmux[g] = d => connmux'[g] = d
    BY <1>3, <1>4, <2>1
  <2>4. Owned(c)'
    BY <1>1, <1>2, <2>2 DEF Owned
  <2>5. QED  BY <1>1, <2>1, <2>3, <2>4, HandlerKeeps
<1>7. CASE Defer(c)
  <2>1. /\ handler[c].pc = "defer" /\ UNCHANGED <<connmux, crashed>>
        /\ handler' = [handler EXCEPT ![c].pc = "read", ![c].unlock = gen]
    BY <1>7 DEF Defer
  <2>2. handler'[c].pc = "read" /\ handler'[c].unlock = gen /\ handler'[c].locked = l
    BY <1>2, <1>3, <2>1 DEF HandlerStates
  <2>3. \A d \in Clients \ {c} : handler'[d] = handler[d]
    BY <1>3, <2>1
  <2>4. Owned(c)'
    BY <1>2, <2>1, <2>2 DEF Owned
  <2>5. QED  BY <1>1, <2>1, <2>3, <2>4, HandlerKeeps
<1>8. CASE Read(c)
  <2>1. PICK to \in {0, gen} :
          /\ handler[c].pc = "read" /\ UNCHANGED <<connmux, crashed>>
          /\ handler' = [handler EXCEPT ![c].pc = "send", ![c].to = to]
    BY <1>8, ReadLooksUp DEF Read
  <2>2. /\ handler'[c].pc = "send" /\ handler'[c].to = to
        /\ handler'[c].unlock = handler[c].unlock /\ handler'[c].locked = l
    BY <1>2, <1>3, <2>1 DEF HandlerStates
  <2>3. \A d \in Clients \ {c} : handler'[d] = handler[d]
    BY <1>3, <2>1
  <2>4. Owned(c)'
    BY <1>1, <1>2, <2>1, <2>2 DEF Owned
  <2>5. QED  BY <1>1, <2>1, <2>3, <2>4, HandlerKeeps
<1>9. CASE ReadFails(c)
  <2>1. handler[c].pc = "read" /\ handler[c].unlock = l /\ l \in Gens /\ connmux[l] = c
    BY <1>2, <1>9 DEF ReadFails, Owned
  <2>2. /\ handler' = [handler EXCEPT ![c] = NoConn]
        /\ connmux' = [connmux EXCEPT ![l] = Free]
        /\ crashed' = crashed
    BY <1>4, <1>9, <2>1 DEF ReadFails
  <2>3. \A d \in Clients \ {c} :
           handler'[d] = handler[d] /\ \A g \in Gens : connmux[g] = d => connmux'[g] = d
    BY <1>3, <2>1, <2>2
  <2>4. handler'[c].pc = "idle"
    BY <1>3, <2>2, RecordTypes
  <2>5. QED  BY <1>1, <2>2, <2>3, <2>4, HandlerKeeps DEF Owned
<1>10. CASE SendOnClosed(c)
  <2>1. handler[c].to \in 1 .. gen - 1 /\ handler[c].to \in {0, gen}
    BY <1>2, <1>10 DEF SendOnClosed, Owned
  <2>2. gen \in Nat
    BY <1>2 DEF Gens
  <2>3. QED  BY <2>1, <2>2
<1>11. QED  BY <1>5, <1>6, <1>7, <1>8, <1>9, <1>10 DEF Handle

LEMMA NextConnected ==
    ASSUME IInv, Types, Connected, [Next]_vars, ReadyToNull => QuietMoment
    PROVE  Connected'
<1>1. CASE UNCHANGED vars
  <2>1. UNCHANGED <<gen, crashed, handler, connmux, elemState, server, servers>>
    BY <1>1 DEF vars, object
  <2>2. QED  BY <2>1, ConnectedKept DEF Connected
<1>2. QED  BY <1>1, ChangeConnected, WatchConnected, HandleConnected DEF Next

LEMMA ConnectedAlways ==
    ASSUME Quiet
    PROVE  Spec => []Connected
<1>1. ReadyToNull => QuietMoment
  BY DEF ReadyToNull
<1>2. IInv /\ Types /\ Connected /\ [Next]_vars => IInv' /\ Types' /\ Connected'
  BY <1>1, NextIInv, NextTypes, NextConnected
<1>3. Init => IInv /\ Types /\ Connected
  BY InitIInv, InitTypes, InitConnected
<1>4. QED  BY <1>2, <1>3, PTL DEF Spec

\* Over any number of lives of the state object, each of which ends at a quiet
\* moment, the clients that came in under one of them stream one at a time: a
\* connection that outlives its state object keeps that object's mutex.
THEOREM OneClientOnly ==
    ASSUME Quiet
    PROVE  Spec => []OneClient
<1>1. Connected => OneClient
  BY DEF Connected, Owned, OneClient, Streams
<1>2. QED  BY <1>1, ConnectedAlways, PTL

\* The process does not die, as long as the element goes through NULL at quiet
\* moments only: what is left running then finds its own mutex locked, the next
\* object's channel open or none, and a server.
THEOREM NoCrash ==
    ASSUME Quiet
    PROVE  Spec => []NeverCrashes
<1>1. Connected => NeverCrashes
  BY DEF Connected, NeverCrashes
<1>2. QED  BY <1>1, ConnectedAlways, PTL

\* The pad that Constructed added stays until unprepare.
FirstLife == gen = 1 => Connected /\ srcpad = ElementPad

LEMMA GoroutinesKeepObject ==
    ASSUME \/ StartServer
           \/ \E w \in Watchers : WatchChannels(w)
           \/ \E c \in Clients : Handle(c)
    PROVE  gen' = gen /\ srcpad' = srcpad
<1>1. CASE StartServer
  BY <1>1 DEF StartServer
<1>2. ASSUME NEW w \in Watchers, WatchChannels(w) PROVE gen' = gen /\ srcpad' = srcpad
  BY <1>2 DEF WatchChannels, Receive, AcquireBuffer, PreludeLock, PushStreamStart,
     PushSegment, PreludeDone, PushBuffer, watcherOnly
<1>3. ASSUME NEW c \in Clients, Handle(c) PROVE gen' = gen /\ srcpad' = srcpad
  BY <1>3 DEF Handle, Connect, Lock, Defer, Read, ReadFails, SendOnClosed,
     handlerOnly, object
<1>4. QED  BY <1>1, <1>2, <1>3

LEMMA ObjectKept ==
    ASSUME [Next]_vars, ~ReadyToNull
    PROVE  gen' = gen /\ (srcpad # 0 => srcpad' = srcpad)
<1>1. CASE UNCHANGED vars
  BY <1>1 DEF vars, object
<1>2. CASE NullToReady
  BY <1>2 DEF NullToReady
<1>3. CASE ReadyToPaused \/ PausedToPlaying \/ PlayingToPaused \/ PausedToReady
  BY <1>3 DEF ReadyToPaused, PausedToPlaying, PlayingToPaused, PausedToReady, object
<1>4. CASE Paused
  BY <1>4 DEF Paused
<1>5. QED
  BY <1>1, <1>2, <1>3, <1>4, GoroutinesKeepObject DEF Next, ChangeState

LEMMA NextFirstLife == IInv /\ Types /\ FirstLife /\ [Next]_vars => FirstLife'
<1> SUFFICES ASSUME IInv, Types, FirstLife, [Next]_vars, gen' = 1
             PROVE  Connected' /\ srcpad' = ElementPad
  BY DEF FirstLife
<1>1. ~ReadyToNull
  <2>1. gen \in Nat \ {0}
    BY DEF Types, AppTypes, Gens
  <2>2. gen + 1 # 1
    BY <2>1
  <2>3. QED  BY <2>2 DEF ReadyToNull
<1>2. gen = 1 /\ (srcpad # 0 => srcpad' = srcpad)
  BY <1>1, ObjectKept
<1>3. Connected /\ srcpad = ElementPad
  BY <1>2 DEF FirstLife
<1>4. QED  BY <1>1, <1>2, <1>3, NextConnected DEF ElementPad

\* Whatever the application does, nothing goes wrong before the element's first
\* return to NULL: one client streams, nothing that was torn down is used, and
\* the pad is the element's.  What the runs with NULL find needs a second state
\* object.
THEOREM SafeUntilNull ==
    Spec => [](gen = 1 => OneClient /\ NeverCrashes /\ PadOnElement)
<1>1. FirstLife => (gen = 1 => OneClient /\ NeverCrashes /\ PadOnElement)
  BY DEF FirstLife, Connected, Owned, OneClient, Streams, NeverCrashes, PadOnElement
<1>2. Init => IInv /\ Types /\ FirstLife
  BY InitIInv, InitTypes, InitConnected DEF FirstLife, Init
<1>3. IInv /\ Types /\ FirstLife /\ [Next]_vars => IInv' /\ Types' /\ FirstLife'
  BY NextIInv, NextTypes, NextFirstLife
<1>4. QED  BY <1>1, <1>2, <1>3, PTL DEF Spec

-----------------------------------------------------------------------------
(***************************************************************************)
(* The order of the chunks.                                                *)
(***************************************************************************)

\* Only a watcher that is past its select holds a chunk.
NothingIdle ==
    \A w \in Watchers : watcher[w].pc \in {"off", "select"} => watcher[w].data = NoChunk

\* The chunk a watcher holds is older than the one its client is sending and
\* newer than those that were pushed.
HeldInOrder ==
    \A c \in Clients, w \in Watchers : watcher[w].data.from = c =>
        /\ watcher[w].data.n <= read[c]
        /\ handler[c].pc = "send" => watcher[w].data.n < read[c]
        /\ \A i \in Sent(c) : out[i].data.n < watcher[w].data.n

SentInOrder ==
    \A c \in Clients : \A i \in Sent(c) :
        /\ out[i].data.n <= read[c]
        /\ handler[c].pc = "send" => out[i].data.n < read[c]
        /\ \A j \in Sent(c) : i < j => out[i].data.n < out[j].data.n

Ordered == NothingIdle /\ HeldInOrder /\ SentInOrder

LEMMA InitOrdered == Init => Ordered
<1> SUFFICES ASSUME Init PROVE Ordered
  OBVIOUS
<1>1. \A w \in Watchers : watcher[w].data = NoChunk
  BY RecordTypes DEF Init
<1>2. \A c \in Clients : Sent(c) = {}
  <2>1. Len(out) = 0
    BY DEF Init
  <2>2. QED  BY <2>1 DEF Sent
<1>3. NoChunk.from \notin Clients
  BY WebsocketSrcAssumption DEF NoChunk
<1>4. QED  BY <1>1, <1>2, <1>3 DEF Ordered, NothingIdle, HeldInOrder, SentInOrder

\* A step in which nothing is read or pushed and a chunk at most dropped.
LEMMA OrderedKept ==
    ASSUME Ordered, UNCHANGED <<out, read>>,
           \A w \in Watchers : watcher'[w].data \in {watcher[w].data, NoChunk},
           NothingIdle',
           \A c \in Clients : handler'[c].pc = "send" => handler[c].pc = "send"
    PROVE  Ordered'
<1>1. \A c \in Clients : Sent(c)' = Sent(c)
  BY DEF Sent
<1>2. NoChunk.from \notin Clients
  BY WebsocketSrcAssumption DEF NoChunk
<1>3. HeldInOrder'
  <2> SUFFICES ASSUME NEW c \in Clients, NEW w \in Watchers, watcher'[w].data.from = c
               PROVE  /\ watcher'[w].data.n <= read'[c]
                      /\ handler'[c].pc = "send" => watcher'[w].data.n < read'[c]
                      /\ \A i \in Sent(c)' : out'[i].data.n < watcher'[w].data.n
    BY DEF HeldInOrder
  <2>1. watcher'[w].data = watcher[w].data
    BY <1>2
  <2>2. QED  BY <1>1, <2>1 DEF Ordered, HeldInOrder
<1>4. SentInOrder'
  BY <1>1 DEF Ordered, SentInOrder
<1>5. QED  BY <1>3, <1>4 DEF Ordered

\* What is pushed comes last.
LEMMA OutAppend ==
    ASSUME Types, NEW e \in Events, out' = Append(out, e)
    PROVE  /\ Len(out) \in Nat /\ Len(out') = Len(out) + 1
           /\ \A i \in 1 .. Len(out) : out'[i] = out[i]
           /\ out'[Len(out) + 1] = e
BY DEF Types, WatcherTypes

LEMMA SentAppend ==
    ASSUME Types, NEW e \in Events, out' = Append(out, e), NEW c
    PROVE  /\ Sent(c) \subseteq 1 .. Len(out)
           /\ \A i \in Sent(c) : i \in Sent(c)' /\ out'[i] = out[i] /\ i < Len(out) + 1
           /\ \A i \in Sent(c)' : i \in Sent(c) \/ i = Len(out) + 1
           /\ Len(out) + 1 \in Sent(c)' <=> (e.kind = "buffer" /\ e.data.from = c)
<1>1. /\ Len(out) \in Nat /\ Len(out') = Len(out) + 1
      /\ \A i \in 1 .. Len(out) : out'[i] = out[i]
      /\ out'[Len(out) + 1] = e
  BY OutAppend
<1>2. 1 .. Len(out') = (1 .. Len(out)) \cup {Len(out) + 1} /\ Len(out) + 1 \notin 1 .. Len(out)
  BY <1>1
<1>3. \A i \in 1 .. Len(out) : i < Len(out) + 1
  BY <1>1
<1>4. QED  BY <1>1, <1>2, <1>3 DEF Sent

LEMMA EventTypes ==
    ASSUME Types, NEW w \in Watchers
    PROVE  /\ Event("stream-start") \in Events /\ Event("segment") \in Events
           /\ Event("stream-start").kind = "stream-start"
           /\ Event("segment").kind = "segment"
           /\ Event("stream-start").pad = srcpad /\ Event("segment").pad = srcpad
           /\ [pad |-> srcpad, kind |-> "buffer", data |-> watcher[w].data] \in Events
BY DEF Event, Events, Types, AppTypes, WatcherTypes, WatcherStates

\* Events are not chunks.
LEMMA EventOrdered ==
    ASSUME Types, Ordered, NEW e \in Events, e.kind # "buffer", out' = Append(out, e),
           UNCHANGED <<watcher, handler, read>>
    PROVE  Ordered'
<1>1. ASSUME NEW c \in Clients
      PROVE  Sent(c)' = Sent(c) /\ \A i \in Sent(c) : out'[i] = out[i]
  <2>1. /\ \A i \in Sent(c) : i \in Sent(c)' /\ out'[i] = out[i]
        /\ \A i \in Sent(c)' : i \in Sent(c) \/ i = Len(out) + 1
        /\ Len(out) + 1 \notin Sent(c)'
    BY SentAppend
  <2>2. QED  BY <2>1
<1>2. NothingIdle'
  BY DEF Ordered, NothingIdle
<1>3. HeldInOrder'
  BY <1>1 DEF Ordered, HeldInOrder
<1>4. SentInOrder'
  BY <1>1 DEF Ordered, SentInOrder
<1>5. QED  BY <1>2, <1>3, <1>4 DEF Ordered

\* The others are off while a watcher runs.
LEMMA OthersIdle ==
    ASSUME IInv, Types, Ordered, NEW w \in Watchers, watcher[w].pc # "off"
    PROVE  \A v \in Watchers \ {w} : watcher[v].data.from \notin Clients
<1>1. \A v \in Watchers \ {w} : watcher[v].pc = "off"
  BY DEF IInv, OneWatcher, AtMostOneWatcher, Running
<1>2. NoChunk.from \notin Clients
  BY WebsocketSrcAssumption DEF NoChunk
<1>3. QED  BY <1>1, <1>2 DEF Ordered, NothingIdle

LEMMA PushOrdered ==
    ASSUME IInv, Types, Ordered, NEW w \in Watchers, watcher[w].pc = "push",
           out' = Append(out, [pad |-> srcpad, kind |-> "buffer", data |-> watcher[w].data]),
           watcher' = [watcher EXCEPT ![w] = [Off EXCEPT !.pc = "select"]],
           UNCHANGED <<handler, read>>
    PROVE  Ordered'
<1> DEFINE e == [pad |-> srcpad, kind |-> "buffer", data |-> watcher[w].data]
<1>1. e \in Events /\ e.kind = "buffer" /\ e.data = watcher[w].data
  BY EventTypes
<1>2. /\ watcher'[w].pc = "select" /\ watcher'[w].data = NoChunk
      /\ \A v \in Watchers \ {w} : watcher'[v] = watcher[v]
  BY RecordTypes, WatcherSet DEF Types, WatcherTypes
<1>3. \A v \in Watchers : watcher'[v].data.from \notin Clients
  BY <1>2, OthersIdle, WebsocketSrcAssumption DEF NoChunk
<1>4. NothingIdle'
  BY <1>2 DEF Ordered, NothingIdle
<1>5. HeldInOrder'
  BY <1>3 DEF HeldInOrder
<1>6. ASSUME NEW c \in Clients, NEW i \in Sent(c)'
      PROVE  /\ out'[i].data.n <= read[c]
             /\ handler[c].pc = "send" => out'[i].data.n < read[c]
             /\ \A j \in Sent(c)' : i < j => out'[i].data.n < out'[j].data.n
  <2>1. /\ Sent(c) \subseteq 1 .. Len(out)
        /\ \A k \in Sent(c) : out'[k] = out[k] /\ k < Len(out) + 1
        /\ \A k \in Sent(c)' : k \in Sent(c) \/ k = Len(out) + 1
        /\ Len(out) + 1 \in Sent(c)' => watcher[w].data.from = c
    BY <1>1, SentAppend
  <2>2. /\ Len(out) \in Nat /\ out'[Len(out) + 1] = e
    BY <1>1, OutAppend
  <2>3. CASE i = Len(out) + 1
    <3>1. \A j \in Sent(c)' : ~(i < j)
      BY <2>1, <2>2, <2>3
    <3>2. out'[i].data = watcher[w].data /\ watcher[w].data.from = c
      BY <1>1, <2>1, <2>2, <2>3, <1>6
    <3>3. QED  BY <3>1, <3>2 DEF Ordered, HeldInOrder
  <2>4. CASE i \in Sent(c)
    <3>1. ASSUME NEW j \in Sent(c)', i < j PROVE out'[i].data.n < out'[j].data.n
      <4>1. CASE j \in Sent(c)
        BY <2>1, <2>4, <3>1, <4>1 DEF Ordered, SentInOrder
      <4>2. CASE j = Len(out) + 1
        <5>1. watcher[w].data.from = c /\ out'[j].data = watcher[w].data
          BY <1>1, <2>1, <2>2, <3>1, <4>2
        <5>2. QED  BY <2>1, <2>4, <5>1 DEF Ordered, HeldInOrder
      <4>3. QED  BY <2>1, <3>1, <4>1, <4>2
    <3>2. QED  BY <2>1, <2>4, <3>1 DEF Ordered, SentInOrder
  <2>5. QED  BY <1>6, <2>1, <2>3, <2>4
<1>7. SentInOrder'
  BY <1>6 DEF SentInOrder
<1>8. QED  BY <1>4, <1>5, <1>7 DEF Ordered

LEMMA ReceiveOrdered ==
    ASSUME IInv, Types, Ordered, NEW w \in Watchers, NEW c \in Clients, Receive(w, c)
    PROVE  Ordered'
<1>1. /\ watcher[w].pc = "select" /\ handler[c].pc = "send"
      /\ watcher' = [watcher EXCEPT ![w] =
           [pc |-> "acquire", data |-> [from |-> c, n |-> read[c]]]]
      /\ handler' = [handler EXCEPT ![c].pc = "read", ![c].to = 0]
      /\ UNCHANGED <<read, out>>
  BY DEF Receive, At, watcherOnly
<1>2. /\ watcher'[w].pc = "acquire" /\ watcher'[w].data.from = c
      /\ watcher'[w].data.n = read[c]
      /\ \A v \in Watchers \ {w} : watcher'[v] = watcher[v]
  BY <1>1 DEF Types, WatcherTypes
<1>3. /\ handler'[c].pc = "read"
      /\ \A d \in Clients \ {c} : handler'[d].pc = handler[d].pc
  BY <1>1 DEF Types, HandlerTypes, HandlerStates
<1>4. \A d \in Clients : Sent(d)' = Sent(d)
  BY <1>1 DEF Sent
<1>5. NothingIdle'
  BY <1>2 DEF Ordered, NothingIdle
<1>6. HeldInOrder'
  <2>1. \A d \in Clients, v \in Watchers :
           watcher'[v].data.from = d => v = w /\ d = c
    BY <1>1, <1>2, OthersIdle
  <2>2. read[c] <= read[c]
    <3>1. read[c] \in 0 .. MaxChunks
      BY DEF Types, HandlerTypes
    <3>2. QED  BY <3>1, WebsocketSrcAssumption
  <2>3. \A i \in Sent(c) : out[i].data.n < read[c]
    BY <1>1 DEF Ordered, SentInOrder
  <2>4. QED  BY <1>1, <1>2, <1>3, <1>4, <2>1, <2>2, <2>3 DEF HeldInOrder
<1>7. SentInOrder'
  <2>1. \A d \in Clients : handler'[d].pc = "send" => handler[d].pc = "send"
    BY <1>3
  <2>2. QED  BY <1>1, <1>4, <2>1 DEF Ordered, SentInOrder
<1>8. QED  BY <1>5, <1>6, <1>7 DEF Ordered

LEMMA WatchOrdered ==
    ASSUME IInv, Types, Ordered, NEW w \in Watchers, WatchChannels(w)
    PROVE  Ordered'
<1>1. watcher \in [Watchers -> WatcherStates] /\ {"prelude", "events", "push"} \subseteq WatcherPc
  BY DEF Types, WatcherTypes, WatcherPc
<1>2. read' = read
  BY DEF WatchChannels, Receive, AcquireBuffer, PreludeLock, PushStreamStart,
     PushSegment, PreludeDone, PushBuffer, watcherOnly
<1>3. ASSUME NEW pc \in {"prelude", "events", "push"}, Goto(w, pc), UNCHANGED <<out, handler>>
      PROVE  Ordered'
  <2>1. /\ watcher'[w].pc = pc /\ watcher'[w].data = watcher[w].data
        /\ \A v \in Watchers \ {w} : watcher'[v] = watcher[v]
    BY <1>1, <1>3, WatcherGoto
  <2>2. NothingIdle'
    BY <2>1 DEF Ordered, NothingIdle
  <2>3. QED  BY <1>2, <1>3, <2>1, <2>2, OrderedKept
<1>4. ASSUME NEW s \in {Off, [Off EXCEPT !.pc = "select"]},
             watcher' = [watcher EXCEPT ![w] = s], UNCHANGED <<out, handler>>
      PROVE  Ordered'
  <2>1. /\ watcher'[w].data = NoChunk
        /\ \A v \in Watchers \ {w} : watcher'[v] = watcher[v]
    BY <1>1, <1>4, WatcherSet, RecordTypes
  <2>2. NothingIdle'
    BY <2>1 DEF Ordered, NothingIdle
  <2>3. QED  BY <1>2, <1>4, <2>1, <2>2, OrderedKept
<1>5. CASE AcquireBuffer(w)
  BY <1>3, <1>4, <1>5 DEF AcquireBuffer
<1>6. CASE PreludeLock(w)
  BY <1>3, <1>6 DEF PreludeLock
<1>7. CASE PushStreamStart(w)
  BY <1>2, <1>3, <1>7, EventTypes, EventOrdered DEF PushStreamStart, PreludeReturn
<1>8. CASE PushSegment(w)
  BY <1>2, <1>3, <1>8, EventTypes, EventOrdered DEF PushSegment, PreludeReturn
<1>9. CASE PreludeDone(w)
  BY <1>3, <1>9 DEF PreludeDone, PreludeReturn
<1>10. CASE PushBuffer(w)
  BY <1>2, <1>4, <1>10, PushOrdered DEF PushBuffer, At
<1>11. QED
  BY <1>5, <1>6, <1>7, <1>8, <1>9, <1>10, ReceiveOrdered DEF WatchChannels

LEMMA ChangeOrdered ==
    ASSUME Types, Ordered, ChangeState \/ Paused \/ StartServer
    PROVE  Ordered'
<1>1. UNCHANGED <<out, read, handler>>
  BY DEF ChangeState, NullToReady, ReadyToPaused, PausedToPlaying, PlayingToPaused,
     PausedToReady, ReadyToNull, Paused, StartServer
<1>2. watcher \in [Watchers -> WatcherStates]
  BY DEF Types, WatcherTypes
<1>3. \/ watcher' = watcher
      \/ \E w \in Watchers, s \in {Off, [Off EXCEPT !.pc = "select"]} :
            watcher' = [watcher EXCEPT ![w] = s]
  BY DEF ChangeState, NullToReady, ReadyToPaused, PausedToPlaying, PlayingToPaused,
     PausedToReady, ReadyToNull, Paused, StartServer, Signal
<1>4. CASE watcher' = watcher
  BY <1>1, <1>4, OrderedKept DEF Ordered, NothingIdle
<1>5. ASSUME NEW w \in Watchers, NEW s \in {Off, [Off EXCEPT !.pc = "select"]},
             watcher' = [watcher EXCEPT ![w] = s]
      PROVE  Ordered'
  <2>1. s \in WatcherStates /\ s.data = NoChunk
    BY RecordTypes
  <2>2. /\ watcher'[w].data = NoChunk
        /\ \A v \in Watchers \ {w} : watcher'[v] = watcher[v]
    BY <1>2, <1>5, <2>1, WatcherSet
  <2>3. NothingIdle'
    BY <2>2 DEF Ordered, NothingIdle
  <2>4. QED  BY <1>1, <2>2, <2>3, OrderedKept
<1>6. QED  BY <1>3, <1>4, <1>5

LEMMA ReadOrdered ==
    ASSUME Types, Ordered, NEW c \in Clients, Read(c)
    PROVE  Ordered'
<1>1. /\ read[c] < MaxChunks /\ UNCHANGED <<watcher, out>>
      /\ read' = [read EXCEPT ![c] = @ + 1]
      /\ \E to \in {0, gen} :
            handler' = [handler EXCEPT ![c].pc = "send", ![c].to = to]
  BY ReadLooksUp DEF Read, handlerOnly
<1>2. /\ read[c] \in Nat /\ read'[c] = read[c] + 1
      /\ \A d \in Clients \ {c} : read'[d] = read[d] /\ handler'[d] = handler[d]
  <2>1. read[c] \in 0 .. MaxChunks /\ read'[c] = read[c] + 1
    BY <1>1 DEF Types, HandlerTypes
  <2>2. \A d \in Clients \ {c} : read'[d] = read[d] /\ handler'[d] = handler[d]
    BY <1>1 DEF Types, HandlerTypes
  <2>3. QED  BY <2>1, <2>2, WebsocketSrcAssumption
<1>3. \A d \in Clients : Sent(d)' = Sent(d)
  BY <1>1 DEF Sent
<1>4. \A w \in Watchers : watcher[w].data.n \in Nat
  BY DEF Types, WatcherTypes, WatcherStates, Chunks, NoChunk
<1>5. \A d \in Clients : \A i \in Sent(d) : out[i].data.n \in Nat
  <2>1. \A i \in 1 .. Len(out) : out[i] \in Events
    BY DEF Types, WatcherTypes
  <2>2. \A e \in Events : e.data.n \in Nat
    BY DEF Events, Chunks, NoChunk
  <2>3. QED  BY <2>1, <2>2 DEF Sent
<1>6. HeldInOrder'
  <2> SUFFICES ASSUME NEW d \in Clients, NEW w \in Watchers, watcher[w].data.from = d
               PROVE  /\ watcher[w].data.n <= read'[d]
                      /\ handler'[d].pc = "send" => watcher[w].data.n < read'[d]
                      /\ \A i \in Sent(d) : out[i].data.n < watcher[w].data.n
    BY <1>1, <1>3 DEF HeldInOrder
  <2>1. /\ watcher[w].data.n <= read[d]
        /\ handler[d].pc = "send" => watcher[w].data.n < read[d]
        /\ \A i \in Sent(d) : out[i].data.n < watcher[w].data.n
    BY DEF Ordered, HeldInOrder
  <2>2. CASE d = c
    BY <1>2, <1>4, <2>1, <2>2
  <2>3. CASE d # c
    BY <1>2, <2>1, <2>3
  <2>4. QED  BY <2>2, <2>3
<1>7. SentInOrder'
  <2> SUFFICES ASSUME NEW d \in Clients, NEW i \in Sent(d)
               PROVE  /\ out[i].data.n <= read'[d]
                      /\ handler'[d].pc = "send" => out[i].data.n < read'[d]
                      /\ \A j \in Sent(d) : i < j => out[i].data.n < out[j].data.n
    BY <1>1, <1>3 DEF SentInOrder
  <2>1. /\ out[i].data.n <= read[d]
        /\ handler[d].pc = "send" => out[i].data.n < read[d]
        /\ \A j \in Sent(d) : i < j => out[i].data.n < out[j].data.n
    BY DEF Ordered, SentInOrder
  <2>2. CASE d = c
    <3>1. out[i].data.n \in Nat
      BY <1>5
    <3>2. out[i].data.n <= read'[d] /\ out[i].data.n < read'[d]
      BY <1>2, <2>1, <2>2, <3>1
    <3>3. QED  BY <2>1, <3>2
  <2>3. CASE d # c
    BY <1>2, <2>1, <2>3
  <2>4. QED  BY <2>2, <2>3
<1>8. NothingIdle'
  BY <1>1 DEF Ordered, NothingIdle
<1>9. QED  BY <1>6, <1>7, <1>8 DEF Ordered

LEMMA HandleOrdered ==
    ASSUME Types, Ordered, NEW c \in Clients, Handle(c)
    PROVE  Ordered'
<1>1. CASE Connect(c) \/ Lock(c) \/ Defer(c) \/ ReadFails(c) \/ SendOnClosed(c)
  <2>1. UNCHANGED <<watcher, out, read>>
    BY <1>1 DEF Connect, Lock, Defer, ReadFails, SendOnClosed, handlerOnly
  <2>2. handler \in [Clients -> HandlerStates]
    BY DEF Types, HandlerTypes
  <2>3. \A d \in Clients : handler'[d].pc = "send" => handler[d].pc = "send"
    <3>1. CASE Connect(c) \/ ReadFails(c)
      <4>1. handler'[c].pc # "send" /\ \A d \in Clients \ {c} : handler'[d] = handler[d]
        <5>1. CASE Connect(c)
          <6>1. handler' = [handler EXCEPT ![c] = [NoConn EXCEPT !.pc = "lock", !.locked = gen]]
            BY <5>1 DEF Connect
          <6>2. QED  BY <2>2, <6>1 DEF NoConn
        <5>2. CASE ReadFails(c)
          BY <2>2, <5>2, RecordTypes DEF ReadFails
        <5>3. QED  BY <3>1, <5>1, <5>2
      <4>2. QED  BY <4>1
    <3>2. CASE Lock(c) \/ Defer(c)
      BY <2>2, <3>2 DEF Lock, Defer, HandlerStates
    <3>3. CASE SendOnClosed(c)
      BY <3>3 DEF SendOnClosed
    <3>4. QED  BY <1>1, <3>1, <3>2, <3>3
  <2>4. NothingIdle'
    BY <2>1 DEF Ordered, NothingIdle
  <2>5. QED  BY <2>1, <2>3, <2>4, OrderedKept
<1>2. QED  BY <1>1, ReadOrdered DEF Handle

LEMMA NextOrdered == IInv /\ Types /\ Ordered /\ [Next]_vars => Ordered'
<1> SUFFICES ASSUME IInv, Types, Ordered, [Next]_vars PROVE Ordered'
  OBVIOUS
<1>1. CASE UNCHANGED vars
  BY <1>1, OrderedKept DEF vars, Ordered, NothingIdle
<1>2. QED  BY <1>1, ChangeOrdered, WatchOrdered, HandleOrdered DEF Next

\* However the element is paused, stopped and torn down, and whatever fails, the
\* chunks of a client go out in the order they were read, and none twice.
THEOREM ChunksInOrder == Spec => []InOrder
<1>1. Ordered => InOrder
  <2> SUFFICES ASSUME Ordered, NEW c \in Clients, NEW i \in Sent(c)
               PROVE  /\ \A j \in Sent(c) : i < j => out[i].data.n < out[j].data.n
                      /\ \A n \in Held(c) : out[i].data.n < n
    BY DEF InOrder
  <2>1. \A j \in Sent(c) : i < j => out[i].data.n < out[j].data.n
    BY DEF Ordered, SentInOrder
  <2>2. ASSUME NEW n \in Held(c) PROVE out[i].data.n < n
    <3>1. \/ \E w \in Watchers : watcher[w].data.from = c /\ n = watcher[w].data.n
          \/ handler[c].pc = "send" /\ n = read[c]
      BY DEF Held
    <3>2. QED  BY <3>1 DEF Ordered, HeldInOrder, SentInOrder
  <2>3. QED  BY <2>1, <2>2
<1>2. Init => IInv /\ Types /\ Ordered
  BY InitIInv, InitTypes, InitOrdered
<1>3. IInv /\ Types /\ Ordered /\ [Next]_vars => IInv' /\ Types' /\ Ordered'
  BY NextIInv, NextTypes, NextOrdered
<1>4. QED  BY <1>1, <1>2, <1>3, PTL DEF Spec

-----------------------------------------------------------------------------
(***************************************************************************)
(* The prelude, and every chunk, when nothing fails.                       *)
(***************************************************************************)

\* What went out on the pad of this state object.
Here == {i \in 1 .. Len(out) : out[i].pad = gen}

\* Outside NULL the pad is that of this state object, and no later one is used.
PadCurrent ==
    /\ srcpad \in {0, gen}
    /\ elemState # "NULL" => srcpad = gen
    /\ \A i \in 1 .. Len(out) : out[i].pad <= gen

\* The flags tell how much of the prelude the pad of this state object has had,
\* and a watcher that pushes has sent it all.
Introduced ==
    /\ PadCurrent
    /\ \A w \in Watchers : watcher[w].pc = "push" => sentSegment
    /\ sentSegment => sentInitialEvents
    /\ ~sentInitialEvents => Here = {}
    /\ sentInitialEvents /\ ~sentSegment => \E j \in Here : Here = {j}
    /\ sentSegment => \E j, k \in Here : j # k
    /\ PreludeFirst

LEMMA InitIntroduced == Init => Introduced
<1> SUFFICES ASSUME Init PROVE Introduced
  OBVIOUS
<1>1. Len(out) = 0
  BY DEF Init
<1>2. 1 .. Len(out) = {}
  BY <1>1
<1>3. Here = {} /\ PreludeFirst
  BY <1>2 DEF Here, PreludeFirst
<1>4. \A w \in Watchers : watcher[w].pc = "off"
  BY RecordTypes DEF Init
<1>5. gen = 1 /\ srcpad = 1 /\ ~sentInitialEvents /\ ~sentSegment /\ elemState = "NULL"
  BY DEF Init, ElementPad
<1>6. QED  BY <1>2, <1>3, <1>4, <1>5 DEF Introduced, PadCurrent

\* A step in which nothing goes out.
LEMMA IntroducedKept ==
    ASSUME Introduced, UNCHANGED <<out, gen, sentInitialEvents, sentSegment>>,
           PadCurrent', \A w \in Watchers : watcher'[w].pc = "push" => sentSegment
    PROVE  Introduced'
<1>1. Here' = Here
  BY DEF Here
<1>2. PreludeFirst'
  <2>1. PreludeFirst /\ out' = out
    BY DEF Introduced
  <2>2. \A i : Earlier(i)' = Earlier(i)
    BY <2>1 DEF Earlier
  <2>3. QED  BY <2>1, <2>2 DEF PreludeFirst
<1>3. QED  BY <1>1, <1>2 DEF Introduced

\* What goes out next on the pad of this state object.
LEMMA IntroducedAppend ==
    ASSUME Types, Introduced, NEW e \in Events, out' = Append(out, e), gen' = gen,
           e.pad = gen,
           e.kind = "stream-start" <=> Here = {},
           e.kind = "segment" <=> \E j \in Here : Here = {j}
    PROVE  /\ Len(out) \in Nat
           /\ Here' = Here \cup {Len(out) + 1} /\ Here \subseteq 1 .. Len(out)
           /\ \A i \in 1 .. Len(out') : out'[i].pad <= gen'
           /\ PreludeFirst'
<1>1. /\ Len(out) \in Nat /\ Len(out') = Len(out) + 1
      /\ \A i \in 1 .. Len(out) : out'[i] = out[i]
      /\ out'[Len(out) + 1] = e
  BY OutAppend
<1>2. 1 .. Len(out') = (1 .. Len(out)) \cup {Len(out) + 1} /\ Len(out) + 1 \notin 1 .. Len(out)
  BY <1>1
<1>3. Here' = Here \cup {Len(out) + 1} /\ Here \subseteq 1 .. Len(out)
  BY <1>1, <1>2 DEF Here
<1>4. gen <= gen
  BY DEF Types, AppTypes, Gens
<1>5. \A i \in 1 .. Len(out') : out'[i].pad <= gen'
  BY <1>1, <1>2, <1>4 DEF Introduced, PadCurrent
<1>6. ASSUME NEW i \in 1 .. Len(out')
      PROVE  /\ out'[i].kind = "stream-start" <=> Earlier(i)' = {}
             /\ out'[i].kind = "segment" <=> \E j \in Earlier(i)' : Earlier(i)' = {j}
  <2>1. CASE i \in 1 .. Len(out)
    <3>1. \A j \in 1 .. i - 1 : j \in 1 .. Len(out)
      BY <1>1, <2>1
    <3>2. Earlier(i)' = Earlier(i)
      BY <1>1, <2>1, <3>1 DEF Earlier
    <3>3. QED  BY <1>1, <2>1, <3>2 DEF Introduced, PreludeFirst
  <2>2. CASE i = Len(out) + 1
    <3>1. 1 .. i - 1 = 1 .. Len(out)
      BY <1>1, <2>2
    <3>2. Earlier(i)' = Here
      BY <1>1, <2>2, <3>1 DEF Earlier, Here
    <3>3. out'[i] = e
      BY <1>1, <2>2
    <3>4. QED  BY <3>2, <3>3
  <2>3. QED  BY <1>2, <2>1, <2>2
<1>7. PreludeFirst'
  BY <1>6 DEF PreludeFirst
<1>8. QED  BY <1>1, <1>3, <1>5, <1>7

\* A state change leaves what went out, and how much of it, or begins a state
\* object when no watcher runs.
LEMMA ChangePads ==
    ASSUME IInv, Types, PadCurrent, ChangeState \/ Paused \/ StartServer
    PROVE  /\ PadCurrent' /\ out' = out
           /\ \/ UNCHANGED <<gen, sentInitialEvents, sentSegment>>
              \/ /\ Here' = {} /\ ~sentInitialEvents' /\ ~sentSegment'
                 /\ \A w \in Watchers : watcher'[w].pc = "off"
<1>1. CASE NullToReady
  <2>1. /\ UNCHANGED <<out, gen, sentInitialEvents, sentSegment>>
        /\ srcpad' = IF srcpad = 0 THEN gen ELSE srcpad
    BY <1>1 DEF NullToReady, flags
  <2>2. QED  BY <2>1 DEF PadCurrent
<1>2. CASE ReadyToNull
  <2>1. /\ out' = out /\ gen' = gen + 1 /\ srcpad' = 0 /\ elemState = "READY"
        /\ elemState' = "NULL" /\ ~sentInitialEvents' /\ ~sentSegment'
        /\ watcher' = watcher
    BY <1>2 DEF ReadyToNull, Change
  <2>2. \A w \in Watchers : watcher[w].pc = "off"
    BY <2>1 DEF IInv, OneWatcher, Running
  <2>3. \A i \in 1 .. Len(out) : out[i].pad <= gen + 1 /\ out[i].pad # gen + 1
    <3>1. gen \in Nat
      BY DEF Types, AppTypes, Gens
    <3>2. ASSUME NEW i \in 1 .. Len(out) PROVE out[i].pad \in Nat
      <4>1. out[i] \in Events
        BY DEF Types, WatcherTypes
      <4>2. QED  BY <4>1 DEF Events, Gens
    <3>3. \A i \in 1 .. Len(out) : out[i].pad <= gen
      BY DEF PadCurrent
    <3>4. QED  BY <3>1, <3>2, <3>3
  <2>4. Here' = {}
    BY <2>1, <2>3 DEF Here
  <2>5. QED  BY <2>1, <2>2, <2>3, <2>4 DEF PadCurrent
<1>3. CASE \/ ReadyToPaused \/ PausedToPlaying \/ PlayingToPaused \/ PausedToReady
           \/ Paused \/ StartServer
  <2>1. /\ UNCHANGED <<out, gen, sentInitialEvents, sentSegment, srcpad>>
        /\ elemState = "NULL" => elemState' = "NULL"
    <3>1. CASE ReadyToPaused \/ PausedToPlaying \/ PlayingToPaused \/ PausedToReady
      BY <3>1 DEF ReadyToPaused, PausedToPlaying, PlayingToPaused, PausedToReady,
         Change, object, flags
    <3>2. CASE Paused
      BY <3>2 DEF Paused, IInv, OneWatcher
    <3>3. CASE StartServer
      BY <3>3 DEF StartServer, flags
    <3>4. QED  BY <1>3, <3>1, <3>2, <3>3
  <2>2. QED  BY <2>1 DEF PadCurrent
<1>4. QED  BY <1>1, <1>2, <1>3 DEF ChangeState

LEMMA ChangeIntroduced ==
    ASSUME IInv, Types, Introduced, ChangeState \/ Paused \/ StartServer
    PROVE  Introduced'
<1>1. watcher \in [Watchers -> WatcherStates]
  BY DEF Types, WatcherTypes
<1>2. \/ watcher' = watcher
      \/ \E w \in Watchers, s \in {Off, [Off EXCEPT !.pc = "select"]} :
            watcher' = [watcher EXCEPT ![w] = s]
  BY DEF ChangeState, NullToReady, ReadyToPaused, PausedToPlaying, PlayingToPaused,
     PausedToReady, ReadyToNull, Paused, StartServer, Signal
<1>3. \A w \in Watchers : watcher'[w].pc = "push" => watcher[w].pc = "push"
  <2>1. ASSUME NEW w \in Watchers, NEW s \in {Off, [Off EXCEPT !.pc = "select"]},
               watcher' = [watcher EXCEPT ![w] = s]
        PROVE  \A v \in Watchers : watcher'[v].pc = "push" => watcher[v].pc = "push"
    <3>1. s \in WatcherStates /\ s.pc # "push"
      BY RecordTypes
    <3>2. watcher'[w] = s /\ \A v \in Watchers \ {w} : watcher'[v] = watcher[v]
      BY <1>1, <2>1, <3>1, WatcherSet
    <3>3. QED  BY <3>1, <3>2
  <2>2. QED  BY <1>2, <2>1
<1>4. \A w \in Watchers : watcher'[w].pc = "push" => sentSegment
  BY <1>3 DEF Introduced
<1>5. /\ PadCurrent' /\ out' = out
      /\ \/ UNCHANGED <<gen, sentInitialEvents, sentSegment>>
         \/ /\ Here' = {} /\ ~sentInitialEvents' /\ ~sentSegment'
            /\ \A w \in Watchers : watcher'[w].pc = "off"
  BY ChangePads DEF Introduced
<1>6. CASE UNCHANGED <<gen, sentInitialEvents, sentSegment>>
  BY <1>4, <1>5, <1>6, IntroducedKept
<1>7. CASE /\ Here' = {} /\ ~sentInitialEvents' /\ ~sentSegment'
           /\ \A w \in Watchers : watcher'[w].pc = "off"
  <2>1. PreludeFirst'
    <3>1. PreludeFirst /\ out' = out
      BY <1>5 DEF Introduced
    <3>2. \A i : Earlier(i)' = Earlier(i)
      BY <3>1 DEF Earlier
    <3>3. QED  BY <3>1, <3>2 DEF PreludeFirst
  <2>2. QED  BY <1>5, <1>7, <2>1 DEF Introduced
<1>8. QED  BY <1>5, <1>6, <1>7

LEMMA WatchIntroduced ==
    ASSUME IInv, Types, Introduced, NEW w \in Watchers, WatchChannels(w), ~Failures
    PROVE  Introduced'
<1>1. watcher \in [Watchers -> WatcherStates] /\ {"prelude", "events", "push"} \subseteq WatcherPc
  BY DEF Types, WatcherTypes, WatcherPc
<1>2. UNCHANGED <<gen, srcpad, elemState>>
  BY DEF WatchChannels, Receive, AcquireBuffer, PreludeLock, PushStreamStart,
     PushSegment, PreludeDone, PushBuffer, watcherOnly
<1>3. srcpad = gen
  <2>1. Running(w)
    BY DEF WatchChannels, Receive, AcquireBuffer, PreludeLock, PushStreamStart,
       PushSegment, PreludeDone, PushBuffer, Running, At
  <2>2. QED  BY <2>1 DEF IInv, OneWatcher, Introduced, PadCurrent
<1>4. ASSUME UNCHANGED <<out, sentInitialEvents, sentSegment>>,
             \A v \in Watchers \ {w} : watcher'[v] = watcher[v],
             watcher'[w].pc # "push" \/ sentSegment
      PROVE  Introduced'
  <2>1. \A v \in Watchers : watcher'[v].pc = "push" => sentSegment
    BY <1>4 DEF Introduced
  <2>2. PadCurrent'
    BY <1>2, <1>4 DEF Introduced, PadCurrent
  <2>3. QED  BY <1>2, <1>4, <2>1, <2>2, IntroducedKept
<1>5. CASE \E c \in Clients : Receive(w, c)
  <2>1. PICK c \in Clients : watcher' = [watcher EXCEPT ![w] =
                               [pc |-> "acquire", data |-> [from |-> c, n |-> read[c]]]]
    BY <1>5 DEF Receive
  <2>2. watcher'[w].pc = "acquire" /\ \A v \in Watchers \ {w} : watcher'[v] = watcher[v]
    BY <1>1, <2>1
  <2>3. UNCHANGED <<out, sentInitialEvents, sentSegment>>
    BY <1>5 DEF Receive
  <2>4. QED  BY <1>4, <2>2, <2>3
<1>6. CASE AcquireBuffer(w) \/ PreludeLock(w)
  <2>1. PICK pc \in {"prelude", "events"} : Goto(w, pc)
    BY <1>6 DEF AcquireBuffer, PreludeLock
  <2>2. watcher'[w].pc = pc /\ \A v \in Watchers \ {w} : watcher'[v] = watcher[v]
    BY <1>1, <2>1, WatcherGoto
  <2>3. UNCHANGED <<out, sentInitialEvents, sentSegment>>
    BY <1>6 DEF AcquireBuffer, PreludeLock
  <2>4. QED  BY <1>4, <2>1, <2>2, <2>3
<1>7. CASE PushStreamStart(w)
  <2>1. /\ ~sentInitialEvents /\ sentInitialEvents' /\ sentSegment' = sentSegment
        /\ out' = Append(out, Event("stream-start")) /\ watcher' = watcher
    BY <1>7 DEF PushStreamStart
  <2>2. Here = {} /\ ~sentSegment
    BY <2>1 DEF Introduced
  <2>3. /\ Here' = Here \cup {Len(out) + 1}
        /\ \A i \in 1 .. Len(out') : out'[i].pad <= gen'
        /\ PreludeFirst'
    BY <1>2, <1>3, <2>1, <2>2, EventTypes, IntroducedAppend
  <2>4. \E j \in Here' : Here' = {j}
    BY <2>2, <2>3
  <2>5. QED  BY <1>2, <2>1, <2>2, <2>3, <2>4 DEF Introduced, PadCurrent
<1>8. CASE PushSegment(w)
  <2>1. /\ sentInitialEvents /\ ~sentSegment /\ sentSegment'
        /\ sentInitialEvents' = sentInitialEvents
        /\ out' = Append(out, Event("segment")) /\ watcher' = watcher
    BY <1>8 DEF PushSegment
  <2>2. \E j \in Here : Here = {j}
    BY <2>1 DEF Introduced
  <2>3. /\ Len(out) \in Nat /\ Here \subseteq 1 .. Len(out)
        /\ Here' = Here \cup {Len(out) + 1}
        /\ \A i \in 1 .. Len(out') : out'[i].pad <= gen'
        /\ PreludeFirst'
    BY <1>2, <1>3, <2>1, <2>2, EventTypes, IntroducedAppend
  <2>4. Len(out) + 1 \notin 1 .. Len(out)
    BY <2>3
  <2>5. \E j, k \in Here' : j # k
    BY <2>2, <2>3, <2>4
  <2>6. QED  BY <1>2, <2>1, <2>3, <2>5 DEF Introduced, PadCurrent
<1>9. CASE PreludeDone(w)
  <2>1. Goto(w, "push") /\ sentSegment /\ UNCHANGED <<out, sentInitialEvents, sentSegment>>
    BY <1>9 DEF PreludeDone, PreludeReturn
  <2>2. \A v \in Watchers \ {w} : watcher'[v] = watcher[v]
    BY <1>1, <2>1, WatcherGoto
  <2>3. QED  BY <1>4, <2>1, <2>2
<1>10. CASE PushBuffer(w)
  <2>1. /\ At(w, "push") /\ UNCHANGED <<sentInitialEvents, sentSegment>>
        /\ out' = Append(out, [pad |-> srcpad, kind |-> "buffer", data |-> watcher[w].data])
        /\ watcher' = [watcher EXCEPT ![w] = [Off EXCEPT !.pc = "select"]]
    BY <1>10 DEF PushBuffer
  <2>2. sentSegment /\ sentInitialEvents
    BY <2>1 DEF At, Introduced
  <2>3. PICK j, k \in Here : j # k
    BY <2>2 DEF Introduced
  <2>4. Here # {} /\ ~ \E i \in Here : Here = {i}
    BY <2>3
  <2>5. /\ Here' = Here \cup {Len(out) + 1}
        /\ \A i \in 1 .. Len(out') : out'[i].pad <= gen'
        /\ PreludeFirst'
    <3> DEFINE e == [pad |-> srcpad, kind |-> "buffer", data |-> watcher[w].data]
    <3>1. e \in Events /\ e.kind = "buffer" /\ e.pad = srcpad /\ out' = Append(out, e)
      BY <2>1, EventTypes
    <3> HIDE DEF e
    <3>2. QED  BY <1>2, <1>3, <2>4, <3>1, IntroducedAppend
  <2>6. \E i, l \in Here' : i # l
    BY <2>3, <2>5
  <2>7. \A v \in Watchers : watcher'[v].pc = "push" => sentSegment'
    BY <2>1, <2>2
  <2>8. QED  BY <1>2, <1>3, <2>1, <2>2, <2>5, <2>6, <2>7 DEF Introduced, PadCurrent
<1>11. QED  BY <1>5, <1>6, <1>7, <1>8, <1>9, <1>10 DEF WatchChannels

LEMMA NextIntroduced ==
    ASSUME IInv, Types, Introduced, [Next]_vars, ~Failures
    PROVE  Introduced'
<1>1. ASSUME UNCHANGED <<out, gen, flags, srcpad, elemState, watcher>> PROVE Introduced'
  BY <1>1, IntroducedKept DEF flags, Introduced, PadCurrent
<1>2. CASE UNCHANGED vars
  BY <1>1, <1>2 DEF vars, object
<1>3. ASSUME NEW c \in Clients, Handle(c) PROVE Introduced'
  BY <1>1, <1>3 DEF Handle, Connect, Lock, Defer, Read, ReadFails, SendOnClosed,
     handlerOnly, object
<1>4. QED  BY <1>2, <1>3, ChangeIntroduced, WatchIntroduced DEF Next

\* When downstream takes events every pad, that of each state object, is told of
\* the stream and of the segment once, before its first buffer.
THEOREM PreludeComesFirst ==
    ASSUME ~Failures
    PROVE  Spec => []PreludeFirst
<1>1. Introduced => PreludeFirst
  BY DEF Introduced
<1>2. Init => IInv /\ Types /\ Introduced
  BY InitIInv, InitTypes, InitIntroduced
<1>3. IInv /\ Types /\ Introduced /\ [Next]_vars => IInv' /\ Types' /\ Introduced'
  BY NextIInv, NextTypes, NextIntroduced
<1>4. QED  BY <1>1, <1>2, <1>3, PTL DEF Spec

-----------------------------------------------------------------------------
(***************************************************************************)
(* The prelude when events and pushes may fail: what failed is sent again   *)
(* before the next buffer, but a buffer may come before it.                 *)
(***************************************************************************)

\* Something of this kind went out on the pad of this state object.
Told(kind) == \E j \in Here : out[j].kind = kind

\* On every pad at most one stream start and one segment, in this order
\* (pushPrelude, line 263).
PreludeOnce ==
    \A i \in 1 .. Len(out) :
        /\ out[i].kind = "stream-start" =>
             \A j \in Earlier(i) : out[j].kind = "buffer"
        /\ out[i].kind = "segment" =>
             /\ \A j \in Earlier(i) : out[j].kind # "segment"
             /\ \E j \in Earlier(i) : out[j].kind = "stream-start"

\* The flags tell what the pad of this state object has had.
Once ==
    /\ PadCurrent
    /\ sentInitialEvents <=> Told("stream-start")
    /\ sentSegment <=> Told("segment")
    /\ sentSegment => sentInitialEvents
    /\ PreludeOnce

LEMMA InitOnce == Init => Once
<1> SUFFICES ASSUME Init PROVE Once
  OBVIOUS
<1>1. Len(out) = 0
  BY DEF Init
<1>2. 1 .. Len(out) = {}
  BY <1>1
<1>3. ~Told("stream-start") /\ ~Told("segment") /\ PreludeOnce
  BY <1>2 DEF Told, Here, PreludeOnce
<1>4. gen = 1 /\ srcpad = 1 /\ ~sentInitialEvents /\ ~sentSegment
  BY DEF Init, ElementPad
<1>5. QED  BY <1>2, <1>3, <1>4 DEF Once, PadCurrent

\* A step in which nothing goes out.
LEMMA OnceKept ==
    ASSUME Once, PadCurrent', UNCHANGED <<out, gen, sentInitialEvents, sentSegment>>
    PROVE  Once'
<1>1. \A kind : Told(kind)' = Told(kind)
  BY DEF Told, Here
<1>2. PreludeOnce'
  BY DEF Once, PreludeOnce, Earlier
<1>3. QED  BY <1>1, <1>2 DEF Once

\* What goes out next on the pad of this state object, when it is no stream
\* start or segment that was sent before.
LEMMA OnceAppend ==
    ASSUME Types, Once, NEW e \in Events, out' = Append(out, e), gen' = gen,
           e.pad = gen, UNCHANGED <<srcpad, elemState>>,
           e.kind = "stream-start" => ~Told("stream-start") /\ ~Told("segment"),
           e.kind = "segment" => Told("stream-start") /\ ~Told("segment")
    PROVE  /\ PadCurrent' /\ PreludeOnce'
           /\ \A kind : Told(kind)' <=> Told(kind) \/ e.kind = kind
<1>1. /\ Len(out) \in Nat /\ Len(out') = Len(out) + 1
      /\ \A i \in 1 .. Len(out) : out'[i] = out[i]
      /\ out'[Len(out) + 1] = e
  BY OutAppend
<1>2. 1 .. Len(out') = (1 .. Len(out)) \cup {Len(out) + 1} /\ Len(out) + 1 \notin 1 .. Len(out)
  BY <1>1
<1>3. Here' = Here \cup {Len(out) + 1} /\ Here \subseteq 1 .. Len(out)
  BY <1>1, <1>2 DEF Here
<1>4. \A kind : Told(kind)' <=> Told(kind) \/ e.kind = kind
  BY <1>1, <1>3 DEF Told
<1>5. gen <= gen
  BY DEF Types, AppTypes, Gens
<1>6. PadCurrent'
  BY <1>1, <1>2, <1>5 DEF Once, PadCurrent
<1>7. ASSUME NEW i \in 1 .. Len(out')
      PROVE  /\ out'[i].kind = "stream-start" =>
                  \A j \in Earlier(i)' : out'[j].kind = "buffer"
             /\ out'[i].kind = "segment" =>
                  /\ \A j \in Earlier(i)' : out'[j].kind # "segment"
                  /\ \E j \in Earlier(i)' : out'[j].kind = "stream-start"
  <2>1. CASE i \in 1 .. Len(out)
    <3>1. \A j \in 1 .. i - 1 : j \in 1 .. Len(out)
      BY <1>1, <2>1
    <3>2. Earlier(i)' = Earlier(i) /\ Earlier(i) \subseteq 1 .. Len(out)
      BY <1>1, <2>1, <3>1 DEF Earlier
    <3>3. QED  BY <1>1, <2>1, <3>2 DEF Once, PreludeOnce
  <2>2. CASE i = Len(out) + 1
    <3>1. 1 .. i - 1 = 1 .. Len(out)
      BY <1>1, <2>2
    <3>2. Earlier(i)' = Here
      BY <1>1, <2>2, <3>1 DEF Earlier, Here
    <3>3. ASSUME NEW j \in Here
          PROVE  out'[j] = out[j] /\ out[j].kind \in {"stream-start", "segment", "buffer"}
      <4>1. j \in 1 .. Len(out) /\ out'[j] = out[j]
        BY <1>1, <1>3
      <4>2. out[j] \in Events
        BY <4>1 DEF Types, WatcherTypes
      <4>3. QED  BY <4>1, <4>2 DEF Events
    <3>4. out'[i] = e
      BY <1>1, <2>2
    <3>5. QED  BY <3>2, <3>3, <3>4 DEF Told
  <2>3. QED  BY <1>2, <2>1, <2>2
<1>8. QED  BY <1>4, <1>6, <1>7 DEF PreludeOnce

LEMMA ChangeOnce ==
    ASSUME IInv, Types, Once, ChangeState \/ Paused \/ StartServer
    PROVE  Once'
<1>1. /\ PadCurrent' /\ out' = out
      /\ \/ UNCHANGED <<gen, sentInitialEvents, sentSegment>>
         \/ Here' = {} /\ ~sentInitialEvents' /\ ~sentSegment'
  BY ChangePads DEF Once
<1>2. CASE UNCHANGED <<gen, sentInitialEvents, sentSegment>>
  BY <1>1, <1>2, OnceKept
<1>3. CASE Here' = {} /\ ~sentInitialEvents' /\ ~sentSegment'
  <2>1. PreludeOnce'
    BY <1>1 DEF Once, PreludeOnce, Earlier
  <2>2. \A kind : ~Told(kind)'
    BY <1>3 DEF Told
  <2>3. QED  BY <1>1, <1>3, <2>1, <2>2 DEF Once
<1>4. QED  BY <1>1, <1>2, <1>3

LEMMA WatchOnce ==
    ASSUME IInv, Types, Once, NEW w \in Watchers, WatchChannels(w)
    PROVE  Once'
<1>1. UNCHANGED <<gen, srcpad, elemState>>
  BY DEF WatchChannels, Receive, AcquireBuffer, PreludeLock, PushStreamStart,
     PushSegment, PreludeDone, PushBuffer, watcherOnly
<1>2. srcpad = gen
  <2>1. Running(w)
    BY DEF WatchChannels, Receive, AcquireBuffer, PreludeLock, PushStreamStart,
       PushSegment, PreludeDone, PushBuffer, Running, At
  <2>2. QED  BY <2>1 DEF IInv, OneWatcher, Once, PadCurrent
<1>3. ASSUME UNCHANGED <<out, sentInitialEvents, sentSegment>> PROVE Once'
  <2>1. PadCurrent'
    BY <1>1, <1>3 DEF Once, PadCurrent
  <2>2. QED  BY <1>1, <1>3, <2>1, OnceKept
<1>4. CASE (\E c \in Clients : Receive(w, c)) \/ AcquireBuffer(w) \/ PreludeLock(w)
           \/ PreludeDone(w)
  BY <1>3, <1>4 DEF Receive, AcquireBuffer, PreludeLock, PreludeDone
<1>5. CASE PushStreamStart(w)
  <2>1. ~sentInitialEvents /\ sentSegment' = sentSegment
    BY <1>5 DEF PushStreamStart
  <2>2. CASE sentInitialEvents' /\ out' = Append(out, Event("stream-start"))
    <3>1. ~Told("stream-start") /\ ~Told("segment")
      BY <2>1 DEF Once
    <3>2. /\ PadCurrent' /\ PreludeOnce'
          /\ \A kind : Told(kind)' <=> Told(kind) \/ Event("stream-start").kind = kind
      BY <1>1, <1>2, <2>2, <3>1, EventTypes, OnceAppend
    <3>3. Told("stream-start")' /\ ~Told("segment")'
      BY <3>1, <3>2, EventTypes
    <3>4. QED  BY <2>1, <2>2, <3>2, <3>3 DEF Once
  <2>3. CASE UNCHANGED <<out, sentInitialEvents>>
    BY <1>3, <2>1, <2>3
  <2>4. QED  BY <1>5, <2>2, <2>3 DEF PushStreamStart
<1>6. CASE PushSegment(w)
  <2>1. sentInitialEvents /\ ~sentSegment /\ sentInitialEvents' = sentInitialEvents
    BY <1>6 DEF PushSegment
  <2>2. CASE sentSegment' /\ out' = Append(out, Event("segment"))
    <3>1. Told("stream-start") /\ ~Told("segment")
      BY <2>1 DEF Once
    <3>2. /\ PadCurrent' /\ PreludeOnce'
          /\ \A kind : Told(kind)' <=> Told(kind) \/ Event("segment").kind = kind
      BY <1>1, <1>2, <2>2, <3>1, EventTypes, OnceAppend
    <3>3. Told("stream-start")' /\ Told("segment")'
      BY <3>1, <3>2, EventTypes
    <3>4. QED  BY <2>1, <2>2, <3>2, <3>3 DEF Once
  <2>3. CASE UNCHANGED <<out, sentSegment>>
    BY <1>3, <2>1, <2>3
  <2>4. QED  BY <1>6, <2>2, <2>3 DEF PushSegment
<1>7. CASE PushBuffer(w)
  <2> DEFINE e == [pad |-> srcpad, kind |-> "buffer", data |-> watcher[w].data]
  <2>1. UNCHANGED <<sentInitialEvents, sentSegment>> /\ (out' = Append(out, e) \/ out' = out)
    BY <1>7 DEF PushBuffer
  <2>2. e \in Events /\ e.kind = "buffer" /\ e.pad = srcpad
    BY EventTypes
  <2> HIDE DEF e
  <2>3. CASE out' = Append(out, e)
    <3>1. /\ PadCurrent' /\ PreludeOnce'
          /\ \A kind : Told(kind)' <=> Told(kind) \/ e.kind = kind
      BY <1>1, <1>2, <2>2, <2>3, OnceAppend
    <3>2. /\ Told("stream-start")' <=> Told("stream-start")
          /\ Told("segment")' <=> Told("segment")
      BY <2>2, <3>1
    <3>3. QED  BY <2>1, <3>1, <3>2 DEF Once
  <2>4. CASE out' = out
    BY <1>3, <2>1, <2>4
  <2>5. QED  BY <2>1, <2>3, <2>4
<1>8. QED  BY <1>4, <1>5, <1>6, <1>7 DEF WatchChannels

LEMMA NextOnce ==
    ASSUME IInv, Types, Once, [Next]_vars
    PROVE  Once'
<1>1. ASSUME UNCHANGED <<out, gen, flags, srcpad, elemState>> PROVE Once'
  BY <1>1, OnceKept DEF flags, Once, PadCurrent
<1>2. CASE UNCHANGED vars
  BY <1>1, <1>2 DEF vars, object
<1>3. ASSUME NEW c \in Clients, Handle(c) PROVE Once'
  BY <1>1, <1>3 DEF Handle, Connect, Lock, Defer, Read, ReadFails, SendOnClosed,
     handlerOnly, object
<1>4. QED  BY <1>2, <1>3, ChangeOnce, WatchOnce DEF Next

\* Whatever fails and however often, and through any pausing, stopping and
\* replacing of the state object, no pad is told of a stream or of a segment
\* twice, nor of the segment before the stream: a retry of pushPrelude repeats
\* only what did not get through.
THEOREM PreludeSentOnce == Spec => []PreludeOnce
<1>1. Once => PreludeOnce
  BY DEF Once
<1>2. Init => IInv /\ Types /\ Once
  BY InitIInv, InitTypes, InitOnce
<1>3. IInv /\ Types /\ Once /\ [Next]_vars => IInv' /\ Types' /\ Once'
  BY NextIInv, NextTypes, NextOnce
<1>4. QED  BY <1>1, <1>2, <1>3, PTL DEF Spec

-----------------------------------------------------------------------------
\* Chunk n of client c went out or is on its way.
Seen(c, n) ==
    \/ \E i \in Sent(c) : out[i].data.n = n
    \/ \E w \in Watchers : watcher[w].data.from = c /\ watcher[w].data.n = n
    \/ handler[c].pc = "send" /\ n = read[c]

\* All chunks that were read, and no others.
AllSeen == \A c \in Clients : \A n : Seen(c, n) <=> n \in 1 .. read[c]

LEMMA InitAllSeen == Init => AllSeen
<1> SUFFICES ASSUME Init, NEW c \in Clients, NEW n PROVE ~Seen(c, n) /\ n \notin 1 .. read[c]
  BY DEF AllSeen
<1>1. Len(out) = 0 /\ handler[c].pc = "idle" /\ read[c] = 0
  BY RecordTypes DEF Init
<1>2. Sent(c) = {}
  BY <1>1 DEF Sent
<1>3. \A w \in Watchers : watcher[w].data.from \notin Clients
  BY RecordTypes, WebsocketSrcAssumption DEF Init, NoChunk
<1>4. QED  BY <1>1, <1>2, <1>3 DEF Seen

\* A step in which no chunk is read, handed over, dropped or pushed.
LEMMA AllSeenKept ==
    ASSUME AllSeen, read' = read,
           \A c \in Clients : Sent(c)' = Sent(c) /\ \A i \in Sent(c) : out'[i] = out[i],
           \A w \in Watchers : watcher'[w].data = watcher[w].data,
           \A c \in Clients : handler'[c].pc = "send" <=> handler[c].pc = "send"
    PROVE  AllSeen'
<1>1. ASSUME NEW c \in Clients, NEW n PROVE Seen(c, n)' <=> Seen(c, n)
  BY DEF Seen
<1>2. QED  BY <1>1 DEF AllSeen

LEMMA EventAllSeen ==
    ASSUME Types, AllSeen, NEW e \in Events, e.kind # "buffer", out' = Append(out, e),
           UNCHANGED <<watcher, handler, read>>
    PROVE  AllSeen'
<1>1. ASSUME NEW c \in Clients
      PROVE  Sent(c)' = Sent(c) /\ \A i \in Sent(c) : out'[i] = out[i]
  <2>1. /\ \A i \in Sent(c) : i \in Sent(c)' /\ out'[i] = out[i]
        /\ \A i \in Sent(c)' : i \in Sent(c) \/ i = Len(out) + 1
        /\ Len(out) + 1 \notin Sent(c)'
    BY SentAppend
  <2>2. QED  BY <2>1
<1>2. QED  BY <1>1, AllSeenKept

\* A chunk that is pushed leaves the watcher.
LEMMA PushAllSeen ==
    ASSUME Types, AllSeen, NEW w \in Watchers,
           out' = Append(out, [pad |-> srcpad, kind |-> "buffer", data |-> watcher[w].data]),
           watcher' = [watcher EXCEPT ![w] = [Off EXCEPT !.pc = "select"]],
           UNCHANGED <<handler, read>>
    PROVE  AllSeen'
<1> DEFINE e == [pad |-> srcpad, kind |-> "buffer", data |-> watcher[w].data]
<1>1. e \in Events /\ e.kind = "buffer" /\ e.data = watcher[w].data
  BY EventTypes
<1>2. out' = Append(out, e)
  OBVIOUS
<1> HIDE DEF e
<1>3. /\ watcher'[w].data = NoChunk
      /\ \A v \in Watchers \ {w} : watcher'[v] = watcher[v]
  BY RecordTypes, WatcherSet DEF Types, WatcherTypes
<1>4. NoChunk.from \notin Clients
  BY WebsocketSrcAssumption DEF NoChunk
<1>5. ASSUME NEW c \in Clients, NEW n PROVE Seen(c, n)' <=> Seen(c, n)
  <2>1. /\ \A i \in Sent(c) : i \in Sent(c)' /\ out'[i] = out[i]
        /\ \A i \in Sent(c)' : i \in Sent(c) \/ i = Len(out) + 1
        /\ Len(out) + 1 \in Sent(c)' <=> watcher[w].data.from = c
    BY <1>1, <1>2, SentAppend
  <2>2. out'[Len(out) + 1].data = watcher[w].data
    BY <1>1, <1>2, OutAppend
  <2>3. (\E i \in Sent(c)' : out'[i].data.n = n)
        <=> \/ \E i \in Sent(c) : out[i].data.n = n
            \/ watcher[w].data.from = c /\ watcher[w].data.n = n
    BY <2>1, <2>2
  <2>4. (\E v \in Watchers : watcher'[v].data.from = c /\ watcher'[v].data.n = n)
        <=> \E v \in Watchers \ {w} : watcher[v].data.from = c /\ watcher[v].data.n = n
    BY <1>3, <1>4
  <2>5. QED  BY <2>3, <2>4 DEF Seen
<1>6. QED  BY <1>5 DEF AllSeen

\* A chunk that is handed over leaves the handler.
LEMMA ReceiveAllSeen ==
    ASSUME Types, Ordered, AllSeen, NEW w \in Watchers, NEW c \in Clients, Receive(w, c)
    PROVE  AllSeen'
<1>1. /\ watcher[w].pc = "select" /\ handler[c].pc = "send"
      /\ watcher' = [watcher EXCEPT ![w] =
           [pc |-> "acquire", data |-> [from |-> c, n |-> read[c]]]]
      /\ handler' = [handler EXCEPT ![c].pc = "read", ![c].to = 0]
      /\ UNCHANGED <<read, out>>
  BY DEF Receive, At, watcherOnly
<1>2. /\ watcher'[w].data.from = c /\ watcher'[w].data.n = read[c]
      /\ \A v \in Watchers \ {w} : watcher'[v] = watcher[v]
  BY <1>1 DEF Types, WatcherTypes
<1>3. /\ handler'[c].pc = "read"
      /\ \A d \in Clients \ {c} : handler'[d].pc = handler[d].pc
  BY <1>1 DEF Types, HandlerTypes, HandlerStates
<1>4. watcher[w].data.from \notin Clients
  BY <1>1, WebsocketSrcAssumption DEF Ordered, NothingIdle, NoChunk
<1>5. ASSUME NEW d \in Clients, NEW n PROVE Seen(d, n)' <=> Seen(d, n)
  <2>1. Sent(d)' = Sent(d)
    BY <1>1 DEF Sent
  <2>2. (\E v \in Watchers : watcher'[v].data.from = d /\ watcher'[v].data.n = n)
        <=> \/ \E v \in Watchers : watcher[v].data.from = d /\ watcher[v].data.n = n
            \/ d = c /\ n = read[c]
    BY <1>2, <1>4
  <2>3. (handler'[d].pc = "send" /\ n = read'[d]) \/ (d = c /\ n = read[c])
        <=> handler[d].pc = "send" /\ n = read[d]
    BY <1>1, <1>3
  <2>4. QED  BY <1>1, <2>1, <2>2, <2>3 DEF Seen
<1>6. QED  BY <1>1, <1>5 DEF AllSeen

LEMMA ReadAllSeen ==
    ASSUME Types, AllSeen, NEW c \in Clients, Read(c)
    PROVE  AllSeen'
<1>1. /\ handler[c].pc = "read" /\ UNCHANGED <<watcher, out>>
      /\ read' = [read EXCEPT ![c] = @ + 1]
      /\ \E to \in {0, gen} :
            handler' = [handler EXCEPT ![c].pc = "send", ![c].to = to]
  BY ReadLooksUp DEF Read, handlerOnly
<1>2. /\ handler'[c].pc = "send"
      /\ \A d \in Clients \ {c} : handler'[d].pc = handler[d].pc
  <2>1. PICK to \in {0, gen} : handler' = [handler EXCEPT ![c].pc = "send", ![c].to = to]
    BY <1>1
  <2>2. QED  BY <2>1 DEF Types, HandlerTypes, HandlerStates
<1>3. /\ read[c] \in 0 .. MaxChunks /\ read'[c] = read[c] + 1
      /\ \A d \in Clients \ {c} : read'[d] = read[d]
  BY <1>1 DEF Types, HandlerTypes
<1>4. \A d \in Clients : Sent(d)' = Sent(d)
  BY <1>1 DEF Sent
<1>5. ASSUME NEW d \in Clients \ {c}, NEW n PROVE Seen(d, n)' <=> Seen(d, n)
  BY <1>1, <1>2, <1>3, <1>4 DEF Seen
<1>6. ASSUME NEW n PROVE Seen(c, n)' <=> n = read[c] + 1 \/ Seen(c, n)
  BY <1>1, <1>2, <1>3, <1>4 DEF Seen
<1>7. \A n : n \in 1 .. read[c] + 1 <=> n = read[c] + 1 \/ n \in 1 .. read[c]
  BY <1>3, WebsocketSrcAssumption
<1>8. QED  BY <1>3, <1>5, <1>6, <1>7 DEF AllSeen

LEMMA WatchAllSeen ==
    ASSUME Types, Ordered, AllSeen, NEW w \in Watchers, WatchChannels(w), ~Failures
    PROVE  AllSeen'
<1>1. watcher \in [Watchers -> WatcherStates] /\ {"prelude", "events", "push"} \subseteq WatcherPc
  BY DEF Types, WatcherTypes, WatcherPc
<1>2. read' = read
  BY DEF WatchChannels, Receive, AcquireBuffer, PreludeLock, PushStreamStart,
     PushSegment, PreludeDone, PushBuffer, watcherOnly
<1>3. CASE AcquireBuffer(w) \/ PreludeLock(w) \/ PreludeDone(w)
  <2>1. PICK pc \in {"prelude", "events", "push"} : Goto(w, pc)
    BY <1>3 DEF AcquireBuffer, PreludeLock, PreludeDone, PreludeReturn
  <2>2. \A v \in Watchers : watcher'[v].data = watcher[v].data
    BY <1>1, <2>1, WatcherGoto
  <2>3. UNCHANGED <<out, handler>>
    BY <1>3 DEF AcquireBuffer, PreludeLock, PreludeDone
  <2>4. \A c \in Clients : Sent(c)' = Sent(c)
    BY <2>3 DEF Sent
  <2>5. QED  BY <1>2, <2>2, <2>3, <2>4, AllSeenKept
<1>4. CASE PushStreamStart(w)
  BY <1>2, <1>4, EventTypes, EventAllSeen DEF PushStreamStart
<1>5. CASE PushSegment(w)
  BY <1>2, <1>5, EventTypes, EventAllSeen DEF PushSegment
<1>6. CASE PushBuffer(w)
  BY <1>2, <1>6, PushAllSeen DEF PushBuffer
<1>7. QED  BY <1>3, <1>4, <1>5, <1>6, ReceiveAllSeen DEF WatchChannels

\* A watcher that is started or ended holds nothing.
LEMMA ChangeAllSeen ==
    ASSUME Types, Ordered, AllSeen, ChangeState \/ Paused \/ StartServer
    PROVE  AllSeen'
<1>1. UNCHANGED <<out, read, handler>>
  BY DEF ChangeState, NullToReady, ReadyToPaused, PausedToPlaying, PlayingToPaused,
     PausedToReady, ReadyToNull, Paused, StartServer
<1>2. watcher \in [Watchers -> WatcherStates]
  BY DEF Types, WatcherTypes
<1>3. \/ watcher' = watcher
      \/ \E w \in Watchers, s \in {Off, [Off EXCEPT !.pc = "select"]} :
            watcher[w].pc \in {"off", "select"} /\ watcher' = [watcher EXCEPT ![w] = s]
  BY DEF ChangeState, NullToReady, ReadyToPaused, PausedToPlaying, PlayingToPaused,
     PausedToReady, ReadyToNull, Paused, StartServer, Signal, At, Running
<1>4. ASSUME NEW w \in Watchers, NEW s \in {Off, [Off EXCEPT !.pc = "select"]},
             watcher[w].pc \in {"off", "select"}, watcher' = [watcher EXCEPT ![w] = s]
      PROVE  \A v \in Watchers : watcher'[v].data = watcher[v].data
  <2>1. s \in WatcherStates /\ s.data = NoChunk
    BY RecordTypes
  <2>2. watcher'[w] = s /\ \A v \in Watchers \ {w} : watcher'[v] = watcher[v]
    BY <1>2, <1>4, <2>1, WatcherSet
  <2>3. watcher[w].data = NoChunk
    BY <1>4 DEF Ordered, NothingIdle
  <2>4. QED  BY <2>1, <2>2, <2>3
<1>5. \A v \in Watchers : watcher'[v].data = watcher[v].data
  BY <1>3, <1>4
<1>6. \A c \in Clients : Sent(c)' = Sent(c)
  BY <1>1 DEF Sent
<1>7. QED  BY <1>1, <1>5, <1>6, AllSeenKept

LEMMA HandleAllSeen ==
    ASSUME Types, AllSeen, NEW c \in Clients, Handle(c)
    PROVE  AllSeen'
<1>1. CASE Connect(c) \/ Lock(c) \/ Defer(c) \/ ReadFails(c) \/ SendOnClosed(c)
  <2>1. UNCHANGED <<watcher, out, read>>
    BY <1>1 DEF Connect, Lock, Defer, ReadFails, SendOnClosed, handlerOnly
  <2>2. handler \in [Clients -> HandlerStates]
    BY DEF Types, HandlerTypes
  <2>3. \A d \in Clients : handler'[d].pc = "send" <=> handler[d].pc = "send"
    <3>1. CASE Connect(c)
      <4>1. /\ handler[c].pc = "idle"
            /\ handler' = [handler EXCEPT ![c] = [NoConn EXCEPT !.pc = "lock", !.locked = gen]]
        BY <3>1 DEF Connect
      <4>2. QED  BY <2>2, <4>1 DEF NoConn
    <3>2. CASE ReadFails(c)
      BY <2>2, <3>2, RecordTypes DEF ReadFails
    <3>3. CASE Lock(c) \/ Defer(c)
      BY <2>2, <3>3 DEF Lock, Defer, HandlerStates
    <3>4. CASE SendOnClosed(c)
      BY <3>4 DEF SendOnClosed
    <3>5. QED  BY <1>1, <3>1, <3>2, <3>3, <3>4
  <2>4. \A d \in Clients : Sent(d)' = Sent(d)
    BY <2>1 DEF Sent
  <2>5. QED  BY <2>1, <2>3, <2>4, AllSeenKept
<1>2. QED  BY <1>1, ReadAllSeen DEF Handle

LEMMA NextAllSeen ==
    ASSUME Types, Ordered, AllSeen, [Next]_vars, ~Failures
    PROVE  AllSeen'
<1>1. CASE UNCHANGED vars
  <2>1. UNCHANGED <<out, watcher, handler, read>>
    BY <1>1 DEF vars
  <2>2. \A c \in Clients : Sent(c)' = Sent(c)
    BY <2>1 DEF Sent
  <2>3. QED  BY <2>1, <2>2, AllSeenKept
<1>2. QED  BY <1>1, ChangeAllSeen, WatchAllSeen, HandleAllSeen DEF Next

\* When nothing fails no chunk that was read is dropped, however the element is
\* paused and stopped between its being read and its being pushed.
THEOREM NoChunkLost ==
    ASSUME ~Failures
    PROVE  Spec => []NothingLost
<1>1. AllSeen => NothingLost
  <2> SUFFICES ASSUME AllSeen, NEW c \in Clients
               PROVE  {out[i].data.n : i \in Sent(c)} \cup Held(c) = 1 .. read[c]
    BY DEF NothingLost
  <2>1. \A n : n \in {out[i].data.n : i \in Sent(c)} \cup Held(c) <=> Seen(c, n)
    BY DEF Held, Seen
  <2>2. QED  BY <2>1 DEF AllSeen
<1>2. Init => IInv /\ Types /\ Ordered /\ AllSeen
  BY InitIInv, InitTypes, InitOrdered, InitAllSeen
<1>3. IInv /\ Types /\ Ordered /\ AllSeen /\ [Next]_vars
      => IInv' /\ Types' /\ Ordered' /\ AllSeen'
  BY NextIInv, NextTypes, NextOrdered, NextAllSeen
<1>4. QED  BY <1>1, <1>2, <1>3, PTL DEF Spec
=============================================================================
