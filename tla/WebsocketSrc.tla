---------------------------- MODULE WebsocketSrc ----------------------------
(***************************************************************************)
(* The websocket source element: the thread that changes the element's     *)
(* state (app), the goroutine that moves chunks from a channel to the src  *)
(* pad (watcher), one handler goroutine per websocket client, and the      *)
(* goroutine that runs the HTTP server.                                    *)
(*                                                                         *)
(* unprepare replaces the state object, so every variable of the struct    *)
(* belongs to a generation: gen is the generation w.state points to, and   *)
(* goroutines that looked at w.state earlier may hold the locks or the     *)
(* channel of an older one.  The state's mutex (mux) is only ever held for *)
(* the current generation.  The channels of generation g are nil until the *)
(* element is prepared, open while g = gen and closed when g < gen.        *)
(*                                                                         *)
(* A chunk is the n-th message of a client.  Sockets, the buffer pool and  *)
(* the pads' peers are external: reads, acquisitions and pushes succeed or *)
(* fail.                                                                   *)
(*                                                                         *)
(* unprepare waits for nobody.  Quiet says that the application takes the  *)
(* element to NULL only once the server's goroutine has run, and while no  *)
(* client is connecting or has a chunk waiting; a silent connection may    *)
(* outlive the state object even so.                                       *)
(***************************************************************************)
EXTENDS Naturals, Sequences

CONSTANTS
    Clients,      \* websocket clients
    Watchers,     \* names for goroutines running watchChannels
    Transitions,  \* state changes the application makes
    Failures,     \* TRUE: buffers, events and pushes may fail
    Quiet,        \* TRUE: NULL is entered at a quiet moment only
    NoClient,     \* no client
    Free,         \* an unlocked mutex
    MaxGen,       \* bound on state objects
    MaxChanges,   \* bound on state changes
    MaxChunks     \* bound on the chunks of a client

ASSUME WebsocketSrcAssumption ==
    /\ Transitions \subseteq
         {"NullToReady", "ReadyToPaused", "PausedToPlaying",
          "PlayingToPaused", "PausedToReady", "ReadyToNull"}
    /\ Failures \in BOOLEAN /\ Quiet \in BOOLEAN
    /\ MaxGen \in Nat \ {0} /\ MaxChanges \in Nat /\ MaxChunks \in Nat
    /\ NoClient \notin Clients /\ Free \notin Clients \cup Watchers \cup {"app"}
    /\ "app" \notin Watchers

VARIABLES
    elemState,         \* GStreamer state of the element
    changes,           \* state changes started
    app,               \* "idle", or "pausing": in pause, holding mux
    gen,               \* generation of w.state
    serverStarted, channelsStarted, sentInitialEvents, sentSegment,
    server,            \* "none", "new", "serving" or "closed"
    srcpad,            \* w.state.srcpad: generation that made it, 0 for nil
    mux,               \* Free, "app" or a watcher
    connmux,           \* [generation -> Free or client]
    servers,           \* startServer goroutines that have not run yet
    watcher,           \* [watcher -> where it is and its chunk]
    handler,           \* [client -> where its handler is]
    read,              \* [client -> chunks its handlers have read]
    out,               \* what was pushed, on any pad
    crashed            \* "no", or why the process died

flags == <<serverStarted, channelsStarted, sentInitialEvents, sentSegment>>
object == <<gen, flags, server, srcpad>>
vars == <<elemState, changes, app, object, mux, connmux, servers, watcher,
          handler, read, out, crashed>>

Gens == 1 .. MaxGen
Chunks == [from : Clients, n : 1 .. MaxChunks]
NoChunk == [from |-> NoClient, n |-> 0]
Off == [pc |-> "off", data |-> NoChunk]
NoConn == [pc |-> "idle", locked |-> 0, unlock |-> 0, to |-> 0]

\* The pad on the element: Constructed adds it; a second pad named src is
\* refused, and the refusal is ignored.
ElementPad == 1

Running(w) == watcher[w].pc # "off"

At(w, pc) == watcher[w].pc = pc
Goto(w, pc) == watcher' = [watcher EXCEPT ![w].pc = pc]
Event(kind) == [pad |-> srcpad, kind |-> kind, data |-> NoChunk]

-----------------------------------------------------------------------------
\* The state-change thread.

Change(tr, from, to) ==
    /\ app = "idle" /\ tr \in Transitions /\ changes < MaxChanges
    /\ elemState = from
    /\ elemState' = to
    /\ changes' = changes + 1

\* prepare: the pad if there is none, channels, a server that is not running.
NullToReady ==
    /\ Change("NullToReady", "NULL", "READY")
    /\ mux = Free
    /\ srcpad' = IF srcpad = 0 THEN gen ELSE srcpad
    /\ server' = "new"
    /\ UNCHANGED <<app, gen, flags, mux, connmux, servers, watcher, handler,
                   read, out, crashed>>

\* Only the parent class acts; it fails when pads cannot be activated.
ReadyToPaused ==
    /\ \/ Change("ReadyToPaused", "READY", "PAUSED")
       \/ Failures /\ Change("ReadyToPaused", "READY", "READY")
    /\ UNCHANGED <<app, object, mux, connmux, servers, watcher, handler, read,
                   out, crashed>>

\* start: goroutines for the server and the channels that are not running.
PausedToPlaying ==
    /\ Change("PausedToPlaying", "PAUSED", "PLAYING")
    /\ mux = Free
    /\ servers' = IF serverStarted THEN servers ELSE servers + 1
    /\ serverStarted' = TRUE
    /\ channelsStarted' = TRUE
    /\ IF channelsStarted
         THEN UNCHANGED watcher
         ELSE \E w \in Watchers :
                /\ ~Running(w)
                /\ watcher' = [watcher EXCEPT ![w] = [Off EXCEPT !.pc = "select"]]
    /\ UNCHANGED <<app, gen, sentInitialEvents, sentSegment, server, srcpad,
                   mux, connmux, handler, read, out, crashed>>

\* pause takes mux and then waits until a watcher takes the stop signal.
PlayingToPaused ==
    /\ Change("PlayingToPaused", "PLAYING", "PLAYING")
    /\ mux = Free
    /\ mux' = "app"
    /\ app' = "pausing"
    /\ UNCHANGED <<object, connmux, servers, watcher, handler, read, out, crashed>>

\* Fault: the watcher is cancelled wherever it is.
Signal_Anywhere(w) == Running(w) /\ watcher' = [watcher EXCEPT ![w] = Off]

\* stopchan: the sender and the watcher meet in the watcher's select.
Signal(w) == At(w, "select") /\ watcher' = [watcher EXCEPT ![w] = Off]

\* Fault: pause closes a done channel and does not wait.
Paused_NoWait ==
    /\ app = "pausing"
    /\ channelsStarted' = FALSE
    /\ mux' = Free
    /\ app' = "idle"
    /\ elemState' = "PAUSED"
    /\ UNCHANGED <<changes, gen, serverStarted, sentInitialEvents, sentSegment,
                   server, srcpad, connmux, servers, watcher, handler, read, out,
                   crashed>>

Paused ==
    /\ app = "pausing"
    /\ \E w \in Watchers : Signal(w)
    /\ channelsStarted' = FALSE
    /\ mux' = Free
    /\ app' = "idle"
    /\ elemState' = "PAUSED"
    /\ UNCHANGED <<changes, gen, serverStarted, sentInitialEvents, sentSegment,
                   server, srcpad, connmux, servers, handler, read, out, crashed>>

\* stop: signals a watcher if there is one, and shuts the server down, which
\* leaves hijacked connections, websockets, alone.
PausedToReady ==
    /\ Change("PausedToReady", "PAUSED", "READY")
    /\ mux = Free
    /\ IF channelsStarted THEN \E w \in Watchers : Signal(w) ELSE UNCHANGED watcher
    /\ server' = IF serverStarted THEN "closed" ELSE server
    /\ channelsStarted' = FALSE
    /\ serverStarted' = FALSE
    /\ UNCHANGED <<app, gen, sentInitialEvents, sentSegment, srcpad, mux,
                   connmux, servers, handler, read, out, crashed>>

\* No goroutine is about to use the server, a mutex or a channel.
QuietMoment ==
    servers = 0 /\ \A c \in Clients : handler[c].pc \in {"idle", "read"}

\* unprepare: closes the channels and makes a new, empty state object.
ReadyToNull ==
    /\ gen < MaxGen
    /\ Quiet => QuietMoment
    /\ Change("ReadyToNull", "READY", "NULL")
    /\ mux = Free
    /\ gen' = gen + 1
    /\ serverStarted' = FALSE /\ channelsStarted' = FALSE
    /\ sentInitialEvents' = FALSE /\ sentSegment' = FALSE
    /\ server' = "none"
    /\ srcpad' = 0
    /\ UNCHANGED <<app, mux, connmux, servers, watcher, handler, read, out, crashed>>

\* startServer: a server that was shut down does not serve again, and there
\* is none in a state that is not prepared.
StartServer ==
    /\ servers > 0
    /\ servers' = servers - 1
    /\ server' = IF server = "new" THEN "serving" ELSE server
    /\ crashed' = IF server = "none" THEN "nil server" ELSE crashed
    /\ UNCHANGED <<elemState, changes, app, gen, flags, srcpad, mux, connmux,
                   watcher, handler, read, out>>

-----------------------------------------------------------------------------
\* watchChannels and pushPrelude.

watcherOnly == <<elemState, changes, app, gen, serverStarted, channelsStarted,
                 server, srcpad, connmux, servers, read, crashed>>

\* Fault: the sender goes on sending the chunk it handed over.
Receive_KeepsSender(w, c) ==
    /\ At(w, "select") /\ server # "none"
    /\ handler[c].pc = "send" /\ handler[c].to = gen
    /\ watcher' = [watcher EXCEPT ![w] =
         [pc |-> "acquire", data |-> [from |-> c, n |-> read[c]]]]
    /\ UNCHANGED <<watcherOnly, handler, sentInitialEvents, sentSegment, mux, out>>

\* bufferchan has no capacity: sender and watcher meet.
Receive(w, c) ==
    /\ At(w, "select") /\ server # "none"
    /\ handler[c].pc = "send" /\ handler[c].to = gen
    /\ watcher' = [watcher EXCEPT ![w] =
         [pc |-> "acquire", data |-> [from |-> c, n |-> read[c]]]]
    /\ handler' = [handler EXCEPT ![c].pc = "read", ![c].to = 0]
    /\ UNCHANGED <<watcherOnly, sentInitialEvents, sentSegment, mux, out>>

\* A buffer from the pool; without one the watcher returns.
AcquireBuffer(w) ==
    /\ At(w, "acquire")
    /\ \/ Goto(w, "prelude")
       \/ Failures /\ watcher' = [watcher EXCEPT ![w] = Off]
    /\ UNCHANGED <<watcherOnly, handler, sentInitialEvents, sentSegment, mux, out>>

PreludeLock(w) ==
    /\ At(w, "prelude")
    /\ mux = Free
    /\ mux' = w
    /\ Goto(w, "events")
    /\ UNCHANGED <<watcherOnly, handler, sentInitialEvents, sentSegment, out>>

\* pushPrelude returns: early when an event is refused.
PreludeReturn(w) ==
    /\ mux' = Free
    /\ Goto(w, "push")

\* Fault: the stream start is not remembered.
PushStreamStart_Forgets(w) ==
    /\ At(w, "events") /\ ~sentInitialEvents
    /\ out' = Append(out, Event("stream-start"))
    /\ PreludeReturn(w)
    /\ UNCHANGED <<watcherOnly, handler, sentInitialEvents, sentSegment>>

PushStreamStart(w) ==
    /\ At(w, "events") /\ ~sentInitialEvents
    /\ \/ /\ out' = Append(out, Event("stream-start"))
          /\ sentInitialEvents' = TRUE
          /\ UNCHANGED <<mux, watcher>>
       \/ Failures /\ PreludeReturn(w) /\ UNCHANGED <<out, sentInitialEvents>>
    /\ UNCHANGED <<watcherOnly, handler, sentSegment>>

PushSegment(w) ==
    /\ At(w, "events") /\ sentInitialEvents /\ ~sentSegment
    /\ \/ /\ out' = Append(out, Event("segment"))
          /\ sentSegment' = TRUE
          /\ UNCHANGED <<mux, watcher>>
       \/ Failures /\ PreludeReturn(w) /\ UNCHANGED <<out, sentSegment>>
    /\ UNCHANGED <<watcherOnly, handler, sentInitialEvents>>

PreludeDone(w) ==
    /\ At(w, "events") /\ sentInitialEvents /\ sentSegment
    /\ PreludeReturn(w)
    /\ UNCHANGED <<watcherOnly, handler, sentInitialEvents, sentSegment, out>>

\* Fault: the watcher returns after any push.
PushBuffer_Once(w) ==
    /\ At(w, "push")
    /\ out' = Append(out, [pad |-> srcpad, kind |-> "buffer", data |-> watcher[w].data])
    /\ watcher' = [watcher EXCEPT ![w] = Off]
    /\ UNCHANGED <<watcherOnly, handler, sentInitialEvents, sentSegment, mux>>

\* The buffer goes to the pad; the watcher returns on FlowError only.  Another
\* refused push (flushing, end of stream, no peer) drops the chunk, and the
\* watcher goes on to the next.
PushBuffer(w) ==
    /\ At(w, "push")
    /\ \/ /\ out' = Append(out, [pad |-> srcpad, kind |-> "buffer", data |-> watcher[w].data])
          /\ watcher' = [watcher EXCEPT ![w] = [Off EXCEPT !.pc = "select"]]
       \/ /\ Failures
          /\ \/ watcher' = [watcher EXCEPT ![w] = Off]
             \/ watcher' = [watcher EXCEPT ![w] = [Off EXCEPT !.pc = "select"]]
          /\ UNCHANGED out
    /\ UNCHANGED <<watcherOnly, handler, sentInitialEvents, sentSegment, mux>>

-----------------------------------------------------------------------------
\* The handler of a websocket connection.

handlerOnly == <<elemState, changes, app, object, mux, servers, watcher, out>>

\* The server accepts; the handler looks up w.state and waits for its connmux.
Connect(c) ==
    /\ server = "serving" /\ handler[c].pc = "idle"
    /\ handler' = [handler EXCEPT ![c] = [NoConn EXCEPT !.pc = "lock", !.locked = gen]]
    /\ UNCHANGED <<handlerOnly, connmux, read, crashed>>

Lock(c) ==
    /\ handler[c].pc = "lock"
    /\ connmux[handler[c].locked] = Free
    /\ connmux' = [connmux EXCEPT ![handler[c].locked] = c]
    /\ handler' = [handler EXCEPT ![c].pc = "defer"]
    /\ UNCHANGED <<handlerOnly, read, crashed>>

\* defer w.state.connmux.Unlock() looks w.state up again.
Defer(c) ==
    /\ handler[c].pc = "defer"
    /\ handler' = [handler EXCEPT ![c].pc = "read", ![c].unlock = gen]
    /\ UNCHANGED <<handlerOnly, connmux, read, crashed>>

\* Fault: the handler goes on with the channel of the state it came in under.
Read_KeepsChannel(c) ==
    /\ handler[c].pc = "read" /\ read[c] < MaxChunks
    /\ read' = [read EXCEPT ![c] = @ + 1]
    /\ handler' = [handler EXCEPT ![c].pc = "send", ![c].to = handler[c].locked]
    /\ UNCHANGED <<handlerOnly, connmux, crashed>>

\* conn.Read returns a chunk, and the handler looks up the channel.  A state
\* that is not prepared has a nil channel (0), and the send waits forever.
Read(c) ==
    /\ handler[c].pc = "read" /\ read[c] < MaxChunks
    /\ read' = [read EXCEPT ![c] = @ + 1]
    /\ handler' = [handler EXCEPT ![c].pc = "send",
                                  ![c].to = IF server = "none" THEN 0 ELSE gen]
    /\ UNCHANGED <<handlerOnly, connmux, crashed>>

\* Fault: a deferred closure looks w.state up when the handler returns.
ReadFails_LooksUp(c) ==
    /\ handler[c].pc = "read"
    /\ handler' = [handler EXCEPT ![c] = NoConn]
    /\ connmux' = [connmux EXCEPT ![gen] = Free]
    /\ crashed' = IF connmux[gen] = Free THEN "unlock of unlocked" ELSE crashed
    /\ UNCHANGED <<handlerOnly, read>>

\* conn.Read fails: the connection is over, the deferred unlock runs.
ReadFails(c) ==
    /\ handler[c].pc = "read"
    /\ handler' = [handler EXCEPT ![c] = NoConn]
    /\ connmux' = [connmux EXCEPT ![handler[c].unlock] = Free]
    /\ crashed' = IF connmux[handler[c].unlock] = Free THEN "unlock of unlocked" ELSE crashed
    /\ UNCHANGED <<handlerOnly, read>>

\* Sending on a channel that unprepare has closed.
SendOnClosed(c) ==
    /\ handler[c].pc = "send" /\ handler[c].to \in 1 .. gen - 1
    /\ crashed' = "send on closed channel"
    /\ UNCHANGED <<handlerOnly, connmux, handler, read>>

-----------------------------------------------------------------------------
\* Constructed adds the first pad to the first state object.
Init ==
    /\ elemState = "NULL" /\ changes = 0 /\ app = "idle"
    /\ gen = 1 /\ server = "none" /\ srcpad = ElementPad
    /\ serverStarted = FALSE /\ channelsStarted = FALSE
    /\ sentInitialEvents = FALSE /\ sentSegment = FALSE
    /\ mux = Free /\ connmux = [g \in Gens |-> Free]
    /\ servers = 0
    /\ watcher = [w \in Watchers |-> Off]
    /\ handler = [c \in Clients |-> NoConn]
    /\ read = [c \in Clients |-> 0]
    /\ out = <<>>
    /\ crashed = "no"

ChangeState ==
    \/ NullToReady \/ ReadyToPaused \/ PausedToPlaying
    \/ PlayingToPaused \/ PausedToReady \/ ReadyToNull

WatchChannels(w) ==
    \/ \E c \in Clients : Receive(w, c)
    \/ AcquireBuffer(w) \/ PreludeLock(w) \/ PushStreamStart(w)
    \/ PushSegment(w) \/ PreludeDone(w) \/ PushBuffer(w)

Handle(c) ==
    \/ Connect(c) \/ Lock(c) \/ Defer(c) \/ Read(c) \/ ReadFails(c)
    \/ SendOnClosed(c)

Next ==
    /\ crashed = "no"
    /\ \/ ChangeState \/ Paused \/ StartServer
       \/ \E w \in Watchers : WatchChannels(w)
       \/ \E c \in Clients : Handle(c)

Spec == Init /\ [][Next]_vars

\* Goroutines are scheduled and downstream returns; the application and the
\* clients owe nothing.
Fairness ==
    /\ WF_vars(crashed = "no" /\ Paused)
    /\ WF_vars(crashed = "no" /\ StartServer)
    /\ \A w \in Watchers : WF_vars(crashed = "no" /\ WatchChannels(w))
    /\ \A c \in Clients : WF_vars(crashed = "no" /\ (Lock(c) \/ Defer(c)))

FairSpec == Spec /\ Fairness

-----------------------------------------------------------------------------
\* The types, and mux is held by who says so.
TypeOK ==
    /\ elemState \in {"NULL", "READY", "PAUSED", "PLAYING"}
    /\ changes \in 0 .. MaxChanges /\ app \in {"idle", "pausing"}
    /\ gen \in Gens /\ srcpad \in {0} \cup Gens
    /\ {serverStarted, channelsStarted, sentInitialEvents, sentSegment} \subseteq BOOLEAN
    /\ server \in {"none", "new", "serving", "closed"}
    /\ mux \in {Free, "app"} \cup Watchers
    /\ connmux \in [Gens -> {Free} \cup Clients]
    /\ servers \in Nat
    /\ watcher \in [Watchers ->
         [pc : {"off", "select", "acquire", "prelude", "events", "push"},
          data : Chunks \cup {NoChunk}]]
    /\ handler \in [Clients ->
         [pc : {"idle", "lock", "defer", "read", "send"},
          locked : {0} \cup Gens, unlock : {0} \cup Gens, to : {0} \cup Gens]]
    /\ read \in [Clients -> 0 .. MaxChunks]
    /\ out \in Seq([pad : {0} \cup Gens, kind : {"stream-start", "segment", "buffer"},
                    data : Chunks \cup {NoChunk}])
    /\ crashed \in {"no", "nil server", "unlock of unlocked", "send on closed channel"}
    /\ mux = "app" <=> app = "pausing"
    /\ \A w \in Watchers : mux = w <=> At(w, "events")

\* Pausing and resuming never leaves two goroutines pushing on one pad: start
\* looks at a flag that pause clears only after the old goroutine has taken the
\* signal (lines 244-247, 314-315).
AtMostOneWatcher == \A v, w \in Watchers : Running(v) /\ Running(w) => v = w

\* Where the chunks of one client are in what went out.
Sent(c) == {i \in 1 .. Len(out) : out[i].kind = "buffer" /\ out[i].data.from = c}

\* What the goroutines still hold of a client's chunks.
Held(c) ==
    {watcher[w].data.n : w \in {v \in Watchers : watcher[v].data.from = c}}
    \cup (IF handler[c].pc = "send" THEN {read[c]} ELSE {})

\* However pausing, resuming and reconnecting interleave with data, the chunks
\* of a client that the pad takes are pushed in the order they were read, none
\* twice (lines 157-177, 199-220).  A chunk whose push is refused leaves a gap.
InOrder ==
    \A c \in Clients : \A i \in Sent(c) :
        /\ \A j \in Sent(c) : i < j => out[i].data.n < out[j].data.n
        /\ \A n \in Held(c) : out[i].data.n < n

\* A chunk that was read is held by its handler or the watcher, or was pushed, as
\* long as nothing fails: pausing loses nothing.
NothingLost ==
    \A c \in Clients : {out[i].data.n : i \in Sent(c)} \cup Held(c) = 1 .. read[c]

\* What went out before the i-th event or buffer on the same pad.
Earlier(i) == {j \in 1 .. i - 1 : out[j].pad = out[i].pad}

\* On every pad a stream start and a segment come first, each once
\* (pushPrelude, line 263), when downstream takes events.
PreludeFirst ==
    \A i \in 1 .. Len(out) :
        /\ out[i].kind = "stream-start" <=> Earlier(i) = {}
        /\ out[i].kind = "segment" <=> \E j \in Earlier(i) : Earlier(i) = {j}

Streams(c) == handler[c].pc \in {"read", "send"}

\* Of the clients that came in under one state object, only one streams at a
\* time (line 150): a handler that outlives its state object gives back the
\* mutex it holds, and not the next one's (line 152).
OneClient ==
    \A c, d \in Clients :
        Streams(c) /\ Streams(d) /\ handler[c].locked = handler[d].locked => c = d

\* "Only allow a stream from one client at a time" (line 150), across a
\* teardown too.
OneStream == \A c, d \in Clients : Streams(c) /\ Streams(d) => c = d

\* No goroutine uses what unprepare tore down (line 318, "Tears down all
\* resources for the element"): a handler that outlives its state object
\* unlocks a mutex it holds and sends on an open channel, and the server's
\* goroutine finds a server.
NeverCrashes == crashed = "no"

\* A prepared element pushes on the pad it has (line 120, "prepare verifies the
\* src pad has been added to the element").
PadOnElement == server # "none" => srcpad = ElementPad

\* A playing element has a server, once the goroutine ran (line 234, "start will
\* start the websocket server").
PlayingServes == elemState = "PLAYING" /\ servers = 0 => server = "serving"

\* pause stops the goroutine and returns (line 309).
PauseReturns == app = "pausing" ~> app = "idle"

\* The handler sends on the nil channel of a state that is not prepared.
Stuck(c) == handler[c].pc = "send" /\ handler[c].to = 0

\* Once the element stays in PLAYING, however often it was paused and stopped
\* before, every chunk a client has sent is pushed (lines 157-177, 199-220),
\* but for one that was read while the element was in NULL.
ChunksArrive ==
    <>[](elemState = "PLAYING" /\ app = "idle") =>
        \A c \in Clients : \A k \in 1 .. MaxChunks :
            read[c] = k /\ ~Stuck(c) ~> \E i \in 1 .. Len(out) : out[i].data = [from |-> c, n |-> k]
=============================================================================
