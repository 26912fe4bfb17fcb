# Verification of go-gst

This directory holds TLA+ models of go-gst (`../src`), the Go bindings of
GStreamer, the TLC configurations that check them on small instances, and TLAPS
proofs of their main invariants.  Every definition is translated from the Go
(and cgo) source; `PROJECT.json` gives the lines of each one.

## 1. Inventory

go-gst is a layer between three worlds: Go code with a garbage collector and
goroutines, the GStreamer C core with reference counts and its own threads, and
application callbacks that C calls on any thread.  Most of its 30 000 lines are
one-line wrappers.  What can go wrong is in the places where the worlds meet:
who owns a reference, which callback a C thread finds, what a finalizer may
release, and what a goroutine sees of a state another thread is changing.  The
repository also ships complete elements written with the bindings
(`examples/plugins`), which are concurrent programs of their own.

| part | source | state it keeps | operations | interacts with | hard behaviour |
|---|---|---|---|---|---|
| Pad function registry | `gst/gst_pad.go`, `gst/gst_pad_exports.go` | eleven `PadFuncMap`s, one notify record and two gopointer handles per function | `Set*Function`, trampolines, destroy notify | C pads, streaming threads | unsynchronised maps, replacement, address reuse, leaks |
| Mini-object ownership | `gst/gst_buffer.go`, `gst_event.go`, `gst_pad.go`, `gst_pad_exports.go`, `gst/base/*_exports.go`, ... | reference counts, Go finalizers | `From*UnsafeFull/None`, `To*`, `Ref`, `Unref`, push, chain, probes | C core, garbage collector | a reference released by a finalizer and by `defer`, borrowed wrappers that outlive the call |
| Promise | `gst/gst_promise.go`, `gst/cgo_exports.go` | result, reply, `done` channel, closure handle | `NewPromise`, `Await`, `GetReply`, `Reply`, `Interrupt`, `Expire` | producer threads, contexts, finalizers | close exactly once, await against cancellation, life of the reply |
| Bus, pad probes, callbacks with user data | `gst/gst_bus.go`, `gst_pad.go`, `gst/cgo_exports.go`, `gst_caps.go`, `gst_tag_list.go`, `gst_clock.go`, `gst/video/gst_video_converter.go`, ... | gopointer addresses, the pad-probe profile | `AddWatch`, `SetSyncHandler`, `AddProbe`, `WaitAsync`, `Foreach*`, `CallAsync`, `ConvertSampleAsync` | main loop, streaming threads, C destroy notifies | an entry released once and not before the last call; addresses used again; watches and waits that are refused or overwritten |
| App source and sink | `gst/app` | callback structs behind one handle | `SetCallbacks`, `PushBuffer`, `PullSample` | streaming threads | callbacks replaced while running, or from inside |
| Buffer memory maps | `gst/gst_buffer.go`, `gst_memory.go`, `gst_mapinfo.go` | the map of a buffer | `Map`, `Unmap`, reader, writer | callers | a failed map, bounds of the writer |
| Meta registry | `gst/gst_meta.go` | `registeredMetas` | register, init, transform, free | streaming threads | unsynchronised nested maps |
| Structure iteration | `gst/gst_structure.go` | a channel and a goroutine per call | `Values` | C foreach | goroutine against the reader |
| Debug log function | `gst/gst_debug.go` | the log function under an RWMutex | `SetLogFunction`, `goLogFunction` | every thread | replaced while called |
| Element and base-class glue | `gst/gst_element_*.go`, `gst/gst_bin_*.go`, `gst/gst_uri*.go`, `gst/base` | none of their own | virtual method trampolines | C base classes | ownership of arguments and of what is returned |
| CollectPads | `gst/base/gst_collect_pads*.go` | callbacks behind one self handle | setters, `Free` | streaming threads | callbacks after `Free` |
| Websocket source | `examples/plugins/websocketsrc` | the state struct, two mutexes, two channels, an HTTP server | `prepare`, `start`, `pause`, `stop`, `unprepare`, `watchChannels`, connection handlers | state changes, watcher goroutine, connections | deadlock, restart, closed channels, two clients |
| Minio sink and seek writer | `examples/plugins/minio` | parts in memory, checksums of uploaded parts, position | `Write`, `Seek`, `flush`, `Close`; `Start`, `Stop`, `Render`, `Event` | object store | parts uploaded in any order, failures, compose |
| Minio source | `examples/plugins/minio/miniosrc.go` | object reader, position | `Start`, `Stop`, `Fill`, `DoSeek` | object store | check outside the lock |
| Async identity | `examples/plugins/async-identity` | `asyncPending` | delayed chain, async state change | goroutine, state changes | the flag of two overlapping changes |
| File source and sink | `examples/plugins/gofilesrc`, `gofilesink` | file, position, started | `Start`, `Stop`, `Fill`, `Render`, `Event`, `SetURI` | base class | restart, partial copy, position against the file's own offset |
| Events, messages, queries, caps, structures, tag lists, tables of contents, samples, buffers, memory | `gst/gst_event*.go`, `gst_message*.go`, `gst_query.go`, `gst_caps*.go`, `gst_structure.go`, `gst_tag_list.go`, `gst_toc*.go`, `gst_sample.go`, `gst_buffer*.go`, ... | none (values live in C); finalizers | constructors, setters, getters | C, garbage collector | who frees what: some 1000 transfers of references, structures and strings |
| Elements, bins, pipelines, factories, pads, clocks, devices, plugins, registry | `gst/gst_element*.go`, `gst_bin.go`, `gst_pipeline.go`, `gst_pad.go`, `gst_clock.go`, `gst_device*.go`, `gst_plugin*.go`, ... | none; finalizers | the same | C, streaming threads | the same; iterators restarted while a list changes |
| Audio, video, SDP, WebRTC, RTP, net clock, discoverer | the rest of `gst/` | none (values live in C) | getters and setters | C | none beyond ownership |
| Plugin generator | `cmd/gst-plugin-gen` | none | parse comments, print Go | file system | none |
| Example applications | `examples/*` | pipelines | main programs | GStreamer | none of their own |

### What makes each part correct

* **Pad function registry.** A dispatch finds the function last set; a record
  has live handles exactly while somebody holds it; a finalised pad leaves no
  entry for the next pad at its address; finalisation ends.
* **Ownership.** Every reference is released once; nobody uses an object without
  a reference; nothing is leaked at the end.
* **Promise.** `done` is closed once and only after the result is set, so the C
  wait in `Await` never blocks; all awaiters agree; a returned reply stays
  alive; every await of a settled promise returns.
* **Transfers.** Whatever a function passes to C or gets from it - a reference, a
  structure, a string - is released by exactly one side, whichever side lets go
  first, and stays valid while a call or a wrapper on it is in use.
* **Callbacks.** What C can still call is found by its trampoline; an entry is
  released once, after the last call; what was removed is released in the end;
  the profile of pad probes names the probes there are.
* **File source and sink.** The copy is the bytes of the source in order, and an
  end of stream means that all of them are there.
* **Async identity.** Every announced change ends, whatever is forced meanwhile;
  the flag outlives no goroutine.
* **Seek writer.** What can be read back from parts in memory and uploaded parts
  is what was written, whatever uploads failed; `Close` composes the same bytes.
* **Websocket source.** One watcher; chunks pushed in the order received; stream
  start and segment first; one client at a time; state changes return.

## 2. Plan

Written, in the order of how much of the library rests on them:

1. `PadFuncs` - every element written in Go dispatches through this registry.
2. `Ownership` - every wrapper of a mini object follows these rules.
3. `Promise`, with the abstract `Future` it implements.
4. `WebsocketSrc` - the most concurrent element of the repository.
5. `SeekWriter`, with the abstract `SeekableFile` it implements.
6. `Transfers`, with a table of what each function does with pointers:
   `EventTransfers`, `MessageTransfers`, `QueryTransfers`, `CapsTransfers`,
   `TagTransfers`, `BufferTransfers`, `ObjectTransfers`, `PadTransfers`,
   `DeviceTransfers`, and `BaseTransfers` for the virtual methods, the marshalers
   and the packages beside the core.
7. `Callbacks` - everything the application hands to C as user data.
8. `FileCopy`, with the abstract `StreamCopy` it implements - two elements that
   only together do something that can be right or wrong.
9. `AsyncIdentity` - the one element that changes state asynchronously.

`MC*` modules give each of them its small instance, `*_proof` modules hold the
theorems.  Components share no variables in the code (they meet in C), so each
module is closed under the interface the C core offers it; the compositions that
exist are `FileCopy`, which puts source, sink and base classes together, and the
refinements (`Promise` with `Future`, `SeekWriter` with `SeekableFile`,
`FileCopy` with `StreamCopy`).

Left out, and worth adding if the code changes there: `Iteration`
(`iteratorToElementSlice` and `iteratorToPadSlice` against children that come and
go: a restart keeps what was collected before), with a snapshot of the children as
its abstract specification.  The data path it feeds is covered by the rows of
`ObjectTransfers`.

## 3. The modules

### PadFuncs

One `[pad -> function]` table per kind of pad function (`funcMaps`, the package
variables `padActivateFuncs` ... `padUnlinkFuncs`), the live go-pointer handles
(`saved`), the notify records malloc gave out (`notifyInfo`) and C's slot for them
(`slot`). A thread is the setter of a function, the finaliser of a pad, or a
streaming thread inside a trampoline; `pc` says where it is.

| code | actions |
|---|---|
| `Set*Function`, `registerCallback` | `BeginSet`, `WriteMap`, `SaveInfo` |
| `gst_pad_set_*_function_full` (C) | `StoreFirst`, `NotifyReplaced` |
| `goGstPadFuncDestroyNotify`, `RemoveFuncForPad`, `cgoPadFuncDestroyNotify` | `Notify`, `RemoveFuncForPad`, `UnrefInfo` |
| `gst_pad_finalize` (C) | `BeginFinalize`, `NotifyFinalized`, `EndFinalize` |
| the trampolines of `gst_pad_exports.go`, `FuncForPad` | `BeginDispatch`, `Found`, `NotFound`, `Return` |

A map operation takes two steps (entering and leaving), so that two threads can
be inside one map.  C notifies the owner of the old function before it stores
the new one; everything about the repeated setting of a function follows from
that.  `Replaceable` names the kinds an application sets more than once on the
same pad; `Serialised` says whether it keeps threads out of each other's map
accesses.  A pad's function is set by one thread at a time, as C itself requires.
`event` and `event_full` have separate slots and maps here; C keeps one slot for
both, so an application that sets both on a pad is in the case of `Replaceable`.

### Ownership

The reference count of a mini object next to the claims to it: references of the
C core, references passed to or kept during a callback, wrappers with a
finalizer, and references the application took by hand.  An operation is an
action that moves both: `New` (a constructor and `From*UnsafeFull`), `Get`
(`From*UnsafeNone`), `Push` (`Ref` and a consuming C call), `Pop`, `PullRange`,
`GetRange`, `MakeWritable`, `Collect` (a finalizer), and for each convention of
the trampolines a pair `Enter*`/`Leave*`.  `Uses` says what is done with each
object.  `excess` is a history variable: no action reads it except to stay in
bounds.

`PullRange` and `GetRange` have two cases each.  Without a buffer C returns a new
one, which `PullRange` wraps with a finalizer and `GetRange` without.  A buffer
the caller gives comes back as the same one: from `GetRange` in a wrapper with
neither a reference nor a finalizer, from `PullRange` in one with a second
finalizer on the caller's one reference.  The last is a use of its own,
`"filled"`, and one of the four in `Unbalanced`; `Balanced` objects are those none
of the four is applied to.  The functions whose rows in `Transfers` disagree with
C are unbalanced too; apart from these four they are no operations here.

### Promise and Future

One `GstPromise` (pending, replied, interrupted or expired), the `done` channel
closed by the change function, goroutines in `Await` (waiting in the `select`,
in `gst_promise_wait`, in `GetReply`), producers that settle it, and the
finalizers of the promise wrappers and of reply wrappers.  `GoAnswers` are replies
made by the application with `NewStructure`.  `Future` is a cell written once.

| code | actions |
|---|---|
| `Await`, `GetReply` | `Await`, `SelectContext`, `SelectDone`, `WaitOther`, `WaitReplied`, `GetReply` |
| the finalizers of `NewPromise`, of a reply, of `marshalPromise` | `Finalize`, `DropReply`, `Collect` |
| `ToGValue` and `marshalPromise` | `Take` |
| `Interrupt`, `Expire`, `Reply`; C's own replies | `Interrupt`, `Expire`, `Reply`; `ReplyFromC` |
| `goPromiseChangeFunc` | `ChangeFunc` |

A producer has a reference of its own (`refs`), or is a *sharer* that calls
through `NewPromise`'s wrapper.  `Reply`, `Interrupt` and `Expire` keep nothing
alive: a producer in Go whose call is the last use of its wrapper is in `Bare`,
and the finalizer of that wrapper (`Collect`, or `Finalize` for a sharer) may run
while C is in the call.  Where the reference it releases was the last one, the
call works on freed memory.  The model records that as `Stray` and follows the
call no further, because nothing can be said of what freed memory does.

### SeekWriter and SeekableFile

`parts` and `uploadedParts` are the fields of the same names; `store` is the
bucket, `object` what `ComposeObject` produced.  The sink holds its mutex during
each operation, so `Write`, `Seek`, `FlushStop` and `Close` are one step each;
the step chooses which requests fail and how far `flush` got, in any order of the
map.  A checksum stands for the content it was computed of.  `err` says whether
the operation succeeded, was refused by the store, or asked for a part that does
not exist.  `SeekableFile` is a byte array with a position; an operation that
fails may have written a first part of its bytes.

### Transfers and its tables

Most of the library is functions that hand pointers over, and one that follows
another convention than C does corrupts or loses memory somewhere else.
`TransferRows` has the vocabulary: a row is a function, the sort of the thing
(counted object, structure with one owner, memory), what Go does with it and
what C does with it.  The table modules list the rows of one group of files
each, 1062 rows of 829 functions.  What Go does is read from the code;
what C does is the transfer annotation of the C function, the external part of
these modules.

`Transfers` says what the rows do to reference counts when holders (an event,
caps, a bin) share what they hold, calls overlap on threads, and finalizers run
at any time.

| code | actions |
|---|---|
| constructors with `From*UnsafeFull` | `Make` |
| a call with an argument: before C, and C's part with the return | `Pass`, `PassReturns` |
| a call with a result: C's part, and wrapping or copying it | `Fetch`, `FetchReturns` |
| `runtime.SetFinalizer`, the `KeepAlive` of `Caps.GetStructureAt` | `Finalize`, `DropLoan` |
| an `Unref` or `Free` the documentation asks for | `Unref` |
| `Post`, `Push`, `SendEvent`; `Pop`, `PullSample` | `Send`, `Receive` |
| C: an element creates an object, drops one, a freed object lets go | `Arrive`, `CoreUnref`, `Release` |

`Careful` says that the application keeps its arguments reachable until the call
returns; the bindings do not do it for it.  Each table module ends with a list
of the rows in which Go and C disagree (`EventDivergent` ...).  `TableExact` in
`MCTransfers` says that these lists are exactly the rows `Agrees` rejects; the
run leaves them out of the behaviour, and section 6 puts them back.  Functions
that hand over numbers only have no row.  In `BaseTransfers` a trampoline is read
the other way round: it *fetches* its arguments from C and *passes* what it
returns, in a row of its own named `<fn>.return`.

### Callbacks

A function of the application goes through `state` `free`, `saved`
(`gopointer.Save` has given it an address, `ptr`), `set` (C may call it), `gone`
(C has let go of it) and back, or ends as `lost` when C drops it without a
notify.  `store` is gopointer's table, `profile` the set `padprobesProfile`.
Each thread has a stack of frames, because a function called from C calls into
go-gst again: it adds callbacks, and it removes others or itself.

| code | actions |
|---|---|
| `gopointer.Save` at the head of every registering function | `Save` |
| `Pad.AddProbe` | `ProfileAdd`, `Register` |
| `Bus.AddWatch`; `SetSyncHandler` and both `SetCallbacks`; `WaitAsync`; `SetElementPrivate` | `AddWatch`; `SetCallbacks`; `WaitAsync`; `SetElementPrivate` |
| `CallAsync`, `ConvertSampleAsync`, `NewBufferFull` | `Register` |
| `NewCollectPads`, `CollectData.Collect` | `WrapCollectPads` |
| `CollectPads.SetFunction` and the other setters; `Start` after `Stop` | `SetCollectFunction` |
| the `ForEach` functions, `FilterAndMapInPlace`, `Structure.Values` | `BeginForEach`, `EndForEach` |
| `RegisterPlugin`, `Buffer.AddMeta` | `CallInit` |
| C calls; the trampolines | `Call`, `Restore`, `Return`, `ReturnReleasing` |
| the destroy notifies | `Notify`, and `ProfileRemove` for the second half of `goGDestroyNotifyFuncNoRun` |
| `RemoveWatch`, `RemoveProbe`, the end of the owner | `Remove` |
| `CollectPads.Stop`, `Free` | `StopCollecting`, `FreeCollectPads` |

Every wrapper of collect pads saves itself when it is made, so also each call of
`CollectData.Collect` does, and C has nothing of it (`lost`) until one of its
setters is called; only `Free` releases it.

C counts the calls in progress: whoever ends the last call of a callback that was
let go runs the notify.  `Slips` names what an application may do that goes
wrong, `ThreadCached` an assumption on malloc (see section 6).

### FileCopy and StreamCopy

`gofilesrc ! gofilesink`, with what `GstBaseSrc` and `GstBaseSink` do with them:
`StartSink`, `StartSrc`, `StopSrc`, `StopSink` are the state changes, `Fill` and
`Render` the virtual methods, `Seek` a flushing seek.  `position` is the field of
the source, `offset` what the kernel keeps for the open file; `Fill` seeks only
when `position` is not what it is asked for, so the two must agree.  A byte stands
for its place in its file, hence a copy that skips or repeats is seen.  `Faults`
says what the file system does: files shrink or grow while they are copied, reads,
writes, seeks and closes fail.  `StreamCopy` has no position: bytes arrive in
order from a cursor which only a start or a seek moves.

### AsyncIdentity

`ParentChangeState` and `ChangeState`'s three cases (`NoPreroll`,
`AsyncStateChange`, `CheckForced`), and the goroutine of `asyncStateChange` in
three steps, `Begin`, `PostDone`, `End`: it stores the flag, waits and posts, and
clears the flag, while other changes are made and other goroutines run.

### WebsocketSrc

The state-changing thread (`app`), watcher goroutines, connection handlers and
the server goroutine.  `unprepare` replaces the state struct, hence `gen`, and
each goroutine remembers the generation it looked at.  Channels without a buffer
are rendezvous: `Paused` and `PausedToReady` take the watcher out of its
`select`, `Receive` moves a chunk from a handler to a watcher.  `out` is what the
element pushed, events and buffers, on the pad it had at that time; `Sent(c)` are
the places in it where the chunks of a client are, and `Held(c)` the chunks of it
that goroutines still hold.  `InOrder`, `NothingLost` and `PreludeFirst` say how
these relate.

A push that fails has two outcomes, because line 220 asks for `FlowError` only:
after an error the watcher returns, after any other bad flow (flushing, EOS, not
linked) the chunk is gone and the watcher takes the next.  A handler looks its
channel up when it sends: in the time between `unprepare` and the next `prepare`
the channel is nil, and the handler blocks forever (`Stuck`) with the connection
mutex of the old state struct.  `Quiet` says how careful the application is when
it takes the element to NULL, which waits for nobody: it does so only once the
server's goroutine has run and no client is connecting or has a chunk waiting
(`QuietMoment`); a silent connection may outlive the state struct even then.

## 4. The runs

`PROJECT.json` lists them. Deadlock is not checked (`CHECK_DEADLOCK FALSE`)
where the instance comes to a rest: a process that has panicked, a pad registry
whose settled setters ran out of records, callbacks that used up the addresses,
a promise that is freed, an element that used up its state changes
(`MaxChanges`) and chunks, a sink that has closed, a pipeline that was started
as often as `MaxStarts` allows.

| run | shows | bounds |
|---|---|---|
| `pad_registry` | dispatches find the current function, handles and records are neither leaked nor used twice, and a reused address starts clean, while another kind of function is being replaced on the same pads | 2 pads, 2 kinds, 2 functions, 2 threads: every pair of setter, finaliser and dispatcher meets on the same and on different maps. 4 records: two slots held and one in flight per thread |
| `pad_replace` | **violated**: a function that is set twice is lost, and the next dispatch panics | 1 pad, 1 thread |
| `promise` | closed once, no wait blocks, no leak, no use after free but by a bare caller itself, awaiters agree and return | 2 awaiters and 3 producers race: one has a reference and calls from C or Go with its wrapper in use, one has a reference and is bare, one is a sharer and bare; 3 replies, one of them made by the application. A sharer that is not bare delays a finalizer like an await does and is left to the proof |
| `own_all` | objects no unbalanced operation is applied to are freed exactly when the last claim goes, next to an object all four are applied to | every action touches one object, so one of each sort is enough; 2 threads so that callbacks overlap; 4 claims, more than the largest number one operation needs |
| `ws_safe` | without failures, and over NULL at quiet moments: nothing is lost, stream start and segment come first on each pad, the clients that came in under one state struct stream one at a time, nothing that was torn down is used, and what was read is pushed once the element stays in PLAYING | 2 generations: silent connections outlive the first and send to the second; 10 state changes: up to PLAYING, down to NULL and up again, with a pause; 3 chunks per client, 2 clients, 2 watcher names (a second watcher could exist) |
| `ws_restart` | over NULL and back at any moment, with failures everywhere (chunks that a bad flow drops included), there is one watcher and what the pad takes of a client is in order and not twice | 2 generations, 12 changes, 2 chunks |
| `ws_pause` | **violated**: pausing while a chunk is under way hangs | 4 changes, 1 chunk |
| `transfers` | with every row in which both sides agree, nothing is freed while a claim is left, everything is freed when none is, and calls and kept loans stay valid | 2 holders that share one object, one structure, one piece of memory; 2 threads; 2 claims to one item: rows that agree move one claim at a time, and two holders are what it takes for one to release what the other uses. Rows with the same convention behave alike, so the functions' names are dropped before exploring |
| `callbacks` | callbacks of all twelve kinds are found while C can call them, released once and in the end, the profile is right between registrations, and only what nobody is bound to release is forgotten: what C drops without a word, and the wrappers of `CollectData.Collect` | 2 threads, 2 callbacks, 2 addresses: one callback is registered at the address another is about to leave, or replaces the other from inside it. Stacks of 2: a trampoline and what its function calls |
| `file_copy` | what the sink writes is the source in order, whatever is stopped, sought, cut or refused; an end of stream nobody interfered with means a complete copy; a running task ends | 2 files of up to 4 bytes in blocks of 2: none, a short, a full and two blocks; 2 starts (the second on another file), 1 seek. `{"shrink", "write", "seek", "close"}` go wrong |
| `async_state` | the flag is never left behind, and every `ASYNC_START` gets its `ASYNC_DONE` | 3 goroutines, the third overtaking two; 9 changes: up to PLAYING, to and fro, down to NULL and up again |
| `mw_safe` | whatever requests fail, the writer has what it believes it uploaded, only the last part is short, and the published object is what a file would hold | parts of 2 bytes, 5 bytes: a full, a shared and a short part; lengths 1 and 3 reach inside a part, to its end and over a whole part; 2 values so that overwriting shows |

**Fairness.** `Promise`: goroutines inside `Await` run, C calls the change
function it owes, producers release what they took, finalizers of unreachable
wrappers run.  Producers need not settle the promise and contexts need not be
cancelled.  `WebsocketSrc`: the scheduler runs runnable goroutines and pushes
return (there are no failures in the runs that state liveness); applications
need not change states, clients need not connect or send.  `Callbacks`: threads
inside go-gst go on, and functions of the application return however often they
call into go-gst before (strong fairness, because such calls disable the return);
C need not call anything, and nobody need remove a callback.  `FileCopy`: the
streaming thread runs.  `AsyncIdentity`: a change that was begun goes on and
timers fire; nobody need change states.

Each module defines `TypeOK`.  The runs check what can be wrong besides; the
types follow from them or are proved (section 5).

**Symmetry** is used in safety runs only, over sets no `CHOOSE` depends on.

## 5. The proofs

All theorems hold for all values of the constants; the assumptions are the named
`ASSUME`s of the modules (distinctness of the special values, types).

* `PadFuncs_proof`.  `HandlesOwned` and `HeldOnce` are not inductive alone: a
  setter that is about to release the old record must be known to hold exactly
  the one in its slot, no two threads may work on one slot, and a finalising pad
  has one thread.  `IInv` says that.  Then `TypeCorrect`, `HandlesBalanced`,
  `RecordHeldOnce`.  `RInv` adds what connects maps, slots and `current` for the
  kinds that are set once: an entry is there from the write of the map until the
  finaliser removes it.  Then `AddressReuse`, `SetOnceFound`,
  `SetOnceDispatchesCurrent`, and, when no kind is replaceable,
  `SetOnceNeverPanics`.
* `Ownership_proof`.  `CountsAccounted` is the conservation law `Accounted`: the
  count is the claims plus `excess`, whatever callbacks are used.  It is
  inductive with the types of the tables.  `NoExcess` (nothing puts a `Balanced`
  object off) turns it into `BalancedAlways` and `BalancedReleased`.  A buffer
  given to `GetRange` stays balanced, one given to `PullRange` does not
  (`BalancedUses`); for that one `CountsAccounted` says what is missing, and
  `MCOwnership_chain.cfg` with `MCFilled` shows the consequence.
  `CallbacksSettle` relates the two tables of what C passes to the calls in
  progress: the references given and lent are as many as the running callbacks of
  the kinds that are given or lent one (`Passed`; counting them needs that there
  are finitely many threads).  It gives the lower bounds the types need
  (`Typed`), and `CalledAlive`: no trampoline works with a freed object, when
  nothing unbalanced is done to it.
* `Promise_proof`.  `IInv` is `Channel` (the producer that settles the promise is
  the only one that owes the change function, and the channel is open until it is
  called), `Referenced` (the promise and its closure live exactly as long as the
  wrapper or a producer has a reference, and every call that is not bare has one
  or keeps the wrapper), `Awaited` (what an awaiter knows of the
  cell) and `Owned` (the reply, and nothing else, has the promise as its parent
  while that lives).  Each needs the others: that the closure is still saved when
  the channel is closed is a matter of references, and that a late reply frees the
  right structure one of parents.  No hypothesis says who is bare: a bare caller
  whose reference was the last one goes astray, and `UsedAlive` names that as the
  one exception, while awaiters, holders of references and all other calls find
  promise and closure alive.  Then `ClosedOnce`, `NoBlockingWait`,
  `UsedAlive`, `ReplyLives`, `RepliesFreedOnce`, `AllReleased`, and
  `PromiseIsFuture`: every step is one of `Future`, or none.  `PromiseTyped` gets
  the type of what awaiters return from that refinement.
* `Callbacks_proof`.  `IInv` says that gopointer's table and the addresses held by C
  are each other's inverse (`Entries`), what each point in a call says of its
  callback (`Framed`), and who is alone with one (`Alone`): whoever registers a
  callback, notifies for it, or runs one that releases itself.  `Alone` is what
  keeps a callback from being released under a call of it, on any number of threads
  and with calls nested to any depth.  `EntriesOwned` names what may be forgotten
  (`Dropped`), the wrappers of `CollectData.Collect` among it. `CallableFound` and
  `EntriesOwned` need that collect pads are not freed while they run (`"early free"
  \notin Slips`).  `PInv` adds the profile of probes; it holds when malloc does not
  give an address to another thread before the notify is through (`ThreadCached`),
  and gives `NoPanic` and `ProfileIsProbes`.  `CallbacksTyped` needs `IInv` too: an
  address that enters the profile is the one of the frame on top.
  `Callbacks_slips.cfg` and `Callbacks_profile.cfg` refute `NeverPanics` without the
  two hypotheses.
* `WebsocketSrc_proof`.  `OnlyOneWatcher`: the invariant relates `channelsStarted`,
  the running watcher and the element's state, because it is the state that keeps
  `start` from running a second watcher after a failure. `Types` (with who holds the
  element's mutex) gives `WellTyped`.  `Connected` says which handler has which
  connection mutex, and that it unlocks the one it locked and sends to an open
  channel or to none: hence `OneClientOnly` and `NoCrash`, over any number of lives
  of the state struct, if the element goes to NULL at quiet moments (`Quiet`).
  Without that `MCWebsocketSrc_null.cfg` refutes both.  What `OneClient` does not
  say, because it is not so even then, is that clients of different state structs do
  not stream together (`OneStream`). `SafeUntilNull` holds of applications that do
  anything: what is in `gen = 1`, before the first return to NULL, is safe, the pad
  is the element's, and one client streams at a time.  Only `ReadyToNull` changes the
  generation, and no goroutine replaces the state struct (`ObjectKept`).  `Ordered`
  compares the number of what a client's handler and a watcher hold with what was
  pushed before: `ChunksInOrder` holds whatever fails, a chunk that a bad flow drops
  included, and over NULL; a chunk that was dropped is a gap, not a change of order.
  `Introduced` ties the two flags to what the pad of this state struct has had, and
  `AllSeen` says where every chunk is that was read: `PreludeComesFirst` and
  `NoChunkLost`, when nothing fails, because a watcher pushes a chunk also when its
  prelude was refused, and drops one it has no buffer for or cannot push. Whatever
  fails, `PreludeSentOnce` holds: on no pad a stream start or a segment is sent
  twice, or the segment before the stream start (`PreludeOnce`, in the proof
  module). `Once` is what makes it inductive: a flag is set exactly when its event
  went out on the pad of this state struct.
* `SeekWriter_proof`.  `UploadsInStore` needs only that a failed upload leaves the
  store alone.  `IInv` says why parts can be composed: before a part that is known
  all parts are known, and full (`Chain`), and the position is not beyond the end
  (`Reaches`).  It gives `ShortOnlyLast`, `FirstObjectComplete` (nothing is missing
  until the object is published) and, with the sink stopping after EOS,
  `NeverMissing`.  With gaps only `Close` can meet a missing part: `FetchesFind` is
  an action property of `Write`, from `UploadsStored` alone.  For `WriterIsFile` the
  bytes of the object are what its parts say (`Base`, `Holds`, `Size`): a write that
  got as far as part *m* has moved the bytes of the parts before *m* and no others
  (`Covers`, `Moves`), also when a fetch stopped it there; flushing changes where
  parts are, not what they are; and the parts put together by `Close` are the
  object.  The hypotheses are that seeks stay in the object (`~Gaps`), nothing is
  written after EOS (`~Reuse`), and failed uploads did not happen (`~LateFailures`);
  `MCSeekWriter_limits.cfg` refutes `NothingMissing` and `ImplementsFile` without
  them.  Sums over the parts up to *n* would need induction with an operator as
  parameter; the proof uses that a set of numbers which has with each number all
  smaller ones is known by its cardinality (`FirstNumbers`, `UpTo`).  The same
  argument shows that the recursive function in `Concat` exists and is what its
  equations say (`ConcatSteps`), and so gives `WriterTyped`, which needs no
  hypothesis: parts fit their size (`Fits`) with gaps, late failures and reuse too.
* `FileCopy_proof`.  `CopiesInOrder`: `FileCopy` implements `StreamCopy` for files
  of any length, any block size, and any number of starts and seeks.  The
  refinement needs that a `Fill` reads at `next`.  `Honest` says why it does: the
  file's offset is `position`, or a read has met the end and everything further
  fails too.  It stands on `Started` (base classes and elements agree on who is
  started), `Places` (types) and `Carried` (the buffer holds the bytes before
  `next`).  The hypothesis is `Steady`: reads fail only at the end of the file,
  and a file that is cut does not grow again; without it `FileCopy_limits.cfg`
  refutes the theorem.  `EosComplete` needs no such hypothesis: as long as nobody
  interfered (`clean`), position, offset and the bytes that are through go together
  (`Complete`), and whatever fails ends in an error instead of the end of the
  stream.  `FileTyped` holds with all faults: a read takes no more than is left of
  the file (`Took`), so neither `position` nor the file's offset leaves it.
* `FlagOwned`, at the end of `FileCopy_proof`, is about `AsyncIdentity`: a flag
  that is set belongs to a goroutine which has not ended, and the goroutines that
  have not posted are as many as the `ASYNC_DONE` messages that are missing.
  `IdentityTyped` is its type invariant.
* `Transfers_proof`.  The argument is that the count *is* the number of claims
  (`Exact`), which needs that a structure or memory has one owner (`Single`, so
  that C never refuses to free what a wrapper frees) and that no holder is in two
  calls or given what it has (`Apart`, so that a holder counts once).  These three
  speak of a set `G` of items, and are kept by every step as long as the calls that
  get or return items of `G` use rows whose two sides agree (`Spared(G)`):
  whatever a divergent row does to another item leaves `G` alone.  So
  `SparedExact` is a theorem about the code with its 118 divergent rows: what only
  fitting functions have moved, and every holder, is freed exactly when the last
  claim goes.  When the application is `Careful`, `Pinned` adds what keeps the
  pointers of a call and of a kept loan valid, and gives `SparedValid`.  For a
  table without divergent rows (`RowsFit`; that the two sides of all other rows
  agree is what `TableExact` says of the tables) `G` is all items, and
  `FittingAlive`, `FittingFreed`, `FittingCallsSafe` and `FittingLoansValid`
  follow.  `TypesKept` needs neither hypothesis.  The hypotheses are needed: with
  the divergent rows `AliveWhileClaimed` fails, and without `Careful`
  `MCTransfers_tables.cfg` with `Careful = FALSE` refutes `CallsSafe`.

Every safety property of the passing runs is stated by one of these theorems, and
so are the three refinements.  Only model-checked: liveness (`AwaitReturns`,
`ChunksArrive`, `StreamEnds`, `RemovedIsReleased`, `StartsAreEnded`), which is out
of the prover's reach, and the hypotheses of the theorems as far as they speak of
tables: that the lists `*Divergent` are exact is the operator `TableExact`, which
TLC evaluates when it is named as an invariant of a configuration like
`MCTransfers_tables.cfg`.  The type invariant of every module with variables is a
theorem (the three abstract specifications apart, which have none), the one of
`Callbacks` as long as collect pads are not freed while they run.

## 6. Where the code and its comments disagree

Two disagreements are runs (`pad_replace`, `ws_pause`).  The configurations below
show others; `tlc -config <cfg> <module>` ends with a violation of the property
named.  Where a configuration names several, TLC stops at the first it meets; to
see another, leave that one out.

| configuration | module | property | what happens |
|---|---|---|---|
| `MCPadFuncs_race.cfg` | `MCPadFuncs` | `NoMapRace` | two pads set up on two threads write one Go map; the runtime aborts when it notices |
| `MCPromise_races.cfg` with the invariant `NobodyStrays` | `MCPromise` | `NobodyStrays` | `Promise.Reply`, `Interrupt` and `Expire` (`gst_promise.go:168-181`) have no `runtime.KeepAlive`: the finalizer of a wrapper that is not used afterwards frees the promise while C is in the call |
| `MCPromise_answer.cfg` | `MCPromise` | `AnswersFreedOnce` | a structure from `NewStructure` given to `Promise.Reply` is freed by the promise and by its finalizer |
| `MCOwnership_chain.cfg` with `Uses <- MCFixate` and the invariant `NoLeak` | `MCOwnership` | `NoLeak` | `FixateCaps` takes a reference C already passed |
| `MCOwnership_chain.cfg` | `MCOwnership` | `NeverFreedInUse` | a chain or event function of a pad gets a buffer that `defer` and a finalizer release. With `Uses <- MCWritable` in its place: `MakeWritable` consumes a reference the old wrapper still releases. With `Uses <- MCFilled`: `PullRange` places a second finalizer on the buffer it was given (`gst_pad.go:644`) |
| `MCWebsocketSrc_null.cfg` | `MCWebsocketSrc` | `PadOnElement` | after NULL and back the element pushes on a pad that is not on it |
| | | `NeverCrashes` | a handler sends on the channel `unprepare` closed, or unlocks a mutex of another state struct |
| | | `OneClient` | a handler that connects while the element goes to NULL locks a mutex of one state struct and unlocks that of another: two clients of one state struct stream together |
| | | `OneStream` | a client of the old and one of the new state struct stream together, also with `Quiet = TRUE`; one that sends while the element is in NULL waits on the nil channel forever |
| | | `PlayingServes` | PLAYING, READY, PLAYING: the server was shut down and does not serve again |
| `MCSeekWriter_limits.cfg` | `MCSeekWriter` | `NothingMissing` | writing on after EOS fetches or composes parts `Close` removed; a seek beyond the end leaves a part out |
| | | `ImplementsFile` | a seek beyond the end leaves a short or missing part in the middle (`Gaps`); an upload that failed for the client but reached the store changes a part whose checksum the writer keeps (`LateFailures`) |
| `MCTransfers_tables.cfg` with `Careful = FALSE` and without `SYMMETRY` | `MCTransfers` | `CallsSafe` | a finalizer runs during the C call that was given the pointer of its wrapper: apart from six places nothing keeps it reachable |
| `MCTransfers_tables.cfg` with `Rows <- MCStructureRows`, `Divergent = {}`, the invariant `TakenStructuresFreedOnce` and without `SYMMETRY` | `MCTransfers` | `TakenStructuresFreedOnce` | a structure whose ownership C takes is freed by its wrapper too |
| `MCTransfers_tables.cfg` with `Divergent = {}` and without `SYMMETRY` | `MCTransfers` | `AliveWhileClaimed` | rows in which Go and C disagree, such as the caps `goGstBaseSrcGetCaps` returns: C and the wrapper's finalizer release one reference |
| `Callbacks_profile.cfg` | `Callbacks` | `NeverPanics` | `goGDestroyNotifyFuncNoRun` frees the address of a probe before it takes it out of the profile; where malloc gives it to another thread in between, `AddProbe` panics |
| `Callbacks_slips.cfg` | `Callbacks` | `NeverPanics` | `CollectPads.Free` before they are stopped: the next call finds no entry |
| | | `NothingForgotten` | the function of a second `AddWatch`, of a wait that is replaced and of private data stays in gopointer's table for ever, and so does the wrapper each `CollectData.Collect` makes and saves (`gst_collect_pads.go:118`, `173-180`) |
| `FileCopy_limits.cfg` | `FileCopy` | `RestartsWhenStopped` | `Stop` of the sink does not reset `started`: it starts once in its life |
| | | `ImplementsCopy` | a read that met the end of the file moved the file's offset and not `position`; when the file grows, a seek to `position` reads further on |
| `AsyncIdentity_forced.cfg` | `AsyncIdentity` | `ForcedIsAsync` | a forced change finds no flag although `ASYNC_DONE` is to come: the goroutine has not run yet, or another one has cleared it |
| | | `AsyncIsEnded` | a forced change returns `ASYNC` after the last `ASYNC_DONE` was posted: nobody ends it |

The rows of the tables in which Go and C disagree, by what follows:

* *freed twice, or used after it was freed*: structures that events, messages,
  queries, samples and caps take over; `Caps.Normalize`, `MakeWritable`,
  `StreamCollection.AddStream`, `Element.ParentPostMessage`,
  `Bin.ParentHandleMessage`, `ProxyPad.ChainDefault` and `ChainListDefault`, where
  C takes the only reference; the caller's buffer of `Pad.PullRange`; the
  children a Go child proxy returns; `ElementFactory.GetMetadata` and
  `ElementClass.GetAllPadTemplates`, which free what belongs to C;
* the same, where C calls: the objects `provide_clock`, `fixate`, `get_caps` and
  `transform_caps` return and those `ClipRunningTime`, `EventDefault`,
  `SrcEventDefault` and the `Parent*Event` functions pass on keep their finalizer;
  the lists of the discoverer give references back twice; `ChromaSite.String` and
  `video.Format.Info` free tables of C;
* *never freed*: the messages, events, caps and buffers C gives to the virtual
  methods (`post_message`, `send_event`, `handle_message`, `event`, `fixate`,
  `submit_input_buffer`); the stream info of a discoverer, the address of
  `AddNetAddressMeta`; the strings of `Query.ParseURI`, `Message.ParseProgress` and
  `Event.ParseTOCSelect`, names that C copies (`NewNeedContextMessage`,
  `RegisterElement`), the file and function of a message, the caps and
  properties of a device, `Object.GetParent`, `Pad.GetStream`, device monitors
  and their lists, iterators that fail.

The lists `*Divergent` name all 118 of them.  Outside the tables: the parameters of
`NewAllocationParams` are Go memory that `gst_allocation_params_free` frees
(`gst_allocator.go:25`); `Memory.Unmap` leaves the map behind for a second
`Unmap` (`gst_memory.go:127`); `Query.SetFormats` appends to a list it made at
full length; `MessageFull` sends its debug text as its text
(`gst_element.go:266`).

## 7. Not modelled

* The C core itself: only the interface the code uses, marked external in
  `PROJECT.json`.
* Numbers, enumerations, texts and values that wrappers convert (`constants.go`,
  the `enums.go` files, ranges and fractions of `gst_values.go`, formats and infos
  of `gst/audio` and `gst/video`): data of C without state in Go.
* Memory maps (`gst_mapinfo.go`, `Buffer.Map`): slices over memory of C, bounds
  included, without steps of their own.
* The buffers that `create`, `alloc`, `generate_output`, `prepare_output_buffer`
  and the clip function copy over the struct C passed: what becomes of two structs
  with one content is up to C's memory.
* The registry of metas: one map without a lock that is only added to, the shape of
  `NoMapRace`.  The debug log function: one critical section per operation.
* The minio source: one request at a time under one mutex, like `Fill` of
  `FileCopy`.
* The restart of iterators, and the channel of `Structure.Values`.
* Zero-length writes and `Start`/`Stop` of the minio sink: `Start` only parses
  settings, `Stop` only forgets the writer.
* The plugin generator and the example applications: sequential programs over
  standard input and the file system, without state that outlives a call.
* Wall-clock time: a deadline is a context that may be cancelled at any moment.
