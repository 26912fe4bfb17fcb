------------------------------ MODULE FileCopy ------------------------------
(***************************************************************************)
(* The pipeline "gofilesrc ! gofilesink": the source element, the sink      *)
(* element, and the file system.                                            *)
(*                                                                         *)
(* External parts: the base classes.  GstBaseSink starts the sink when the  *)
(* pipeline leaves NULL and stops it when it comes back; GstBaseSrc starts  *)
(* the source when it leaves READY, asks it to fill buffers one after the   *)
(* other on one thread, never beyond the size the element reports, and      *)
(* stops its task before it stops the element.  A flushing seek may come at *)
(* any time.  Bytes are told apart by their place in the file.              *)
(***************************************************************************)
EXTENDS Integers, Sequences

CONSTANTS
    Files,      \* files the source may read
    MaxLength,  \* bound on the length of a file, in bytes
    BlockSize,  \* bytes GstBaseSrc asks for
    Faults,     \* what goes wrong, a part of AllFaults
    MaxStarts,  \* bound on the starts of the source
    MaxSeeks,   \* bound on the seeks
    None

AllFaults == {"shrink", "grow", "read", "write", "seek", "close"}

ASSUME FileCopyAssumption ==
    /\ None \notin Files \cup (0..MaxLength)
    /\ MaxLength \in Nat
    /\ BlockSize \in Nat \ {0}
    /\ Faults \subseteq AllFaults
    /\ MaxStarts \in Nat
    /\ MaxSeeks \in Nat

VARIABLES
    length,       \* [file -> its length on disk]
    location,     \* settings.location of the source
    started,      \* state.started of the source
    size,         \* state.fileInfo.Size()
    position,     \* state.position of the source
    offset,       \* the offset the kernel keeps for state.file, None when closed
    sinkLocated,  \* settings.location of the sink is set
    sinkStarted,  \* state.started of the sink
    sinkOpen,     \* state.file of the sink is open
    dest,         \* what is in the sink's file
    state,        \* "NULL", "READY" or "PAUSED", which stands for PLAYING too
    task,         \* the source's task: "stopped", "running", "eos" or "error"
    next,         \* where it will ask for bytes
    buffer,       \* the bytes between the source and the sink
    clean,        \* no seek, error or stop of the source since dest was made
    starts,
    seeks

srcVars == <<location, started, size, position, offset>>
sinkVars == <<sinkLocated, sinkStarted, sinkOpen, dest>>
baseVars == <<state, task, next, buffer>>
bounds == <<starts, seeks>>
vars == <<length, srcVars, sinkVars, baseVars, clean, bounds>>

\* What the pipeline promises.
Copy == INSTANCE StreamCopy WITH
    Nowhere <- None,
    reading <- IF started THEN location ELSE None,
    cursor <- IF task = "running" THEN next - Len(buffer) ELSE None,
    asked <- starts + seeks,
    copy <- dest

-----------------------------------------------------------------------------
Init ==
    /\ length \in [Files -> 0..MaxLength]
    /\ location = None
    /\ started = FALSE
    /\ size = 0
    /\ position = 0
    /\ offset = None
    /\ sinkLocated = FALSE
    /\ sinkStarted = FALSE
    /\ sinkOpen = FALSE
    /\ dest = <<>>
    /\ state = "NULL"
    /\ task = "stopped"
    /\ next = 0
    /\ buffer = <<>>
    /\ clean = TRUE
    /\ starts = 0
    /\ seeks = 0

\* setLocation of the source, by its property or SetURI, at any time.
SetSrcLocation(f) ==
    /\ ~started
    /\ location' = f
    /\ UNCHANGED <<length, started, size, position, offset, sinkVars, baseVars,
                   clean, bounds>>

\* setLocation of the sink.
SetSinkLocation ==
    /\ ~sinkStarted
    /\ sinkLocated' = TRUE
    /\ UNCHANGED <<length, srcVars, sinkStarted, sinkOpen, dest, baseVars, clean,
                   bounds>>

\* Another program appends to a file or truncates it.
ChangeFile(f) ==
    /\ \E n \in 0..MaxLength :
         /\ \/ "grow" \in Faults /\ n > length[f]
            \/ "shrink" \in Faults /\ n < length[f]
         /\ length' = [length EXCEPT ![f] = n]
    /\ UNCHANGED <<srcVars, sinkVars, baseVars, clean, bounds>>

\* NULL to READY: Start of the sink creates the file, or empties it.
StartSink ==
    /\ state = "NULL"
    /\ sinkLocated
    /\ ~sinkStarted
    /\ sinkStarted' = TRUE
    /\ sinkOpen' = TRUE
    /\ dest' = <<>>
    /\ state' = "READY"
    /\ clean' = TRUE
    /\ UNCHANGED <<length, srcVars, sinkLocated, task, next, buffer, bounds>>

\* READY to PAUSED: Start of the source.
StartSrc ==
    /\ state = "READY"
    /\ starts < MaxStarts
    /\ ~started
    /\ location # None
    /\ size' = length[location]
    /\ offset' = 0
    /\ position' = 0
    /\ started' = TRUE
    /\ state' = "PAUSED"
    /\ task' = "running"
    /\ next' = 0
    /\ starts' = starts + 1
    /\ UNCHANGED <<length, location, sinkVars, buffer, clean, seeks>>

\* PAUSED to READY: the task has ended, its buffer is dropped.  When the file
\* cannot be closed Stop returns early; the file is closed all the same.
StopSrc ==
    /\ state = "PAUSED"
    /\ started
    /\ \/ started' = FALSE /\ position' = 0
       \/ "close" \in Faults /\ UNCHANGED <<started, position>>
    /\ offset' = None
    /\ state' = "READY"
    /\ task' = "stopped"
    /\ buffer' = <<>>
    /\ clean' = FALSE
    /\ UNCHANGED <<length, location, size, sinkVars, next, bounds>>

\* READY to NULL: Stop of the sink, which stays started whether or not the file
\* could be closed.
StopSink ==
    /\ state = "READY"
    /\ sinkStarted
    /\ sinkOpen' = FALSE
    /\ state' = "NULL"
    /\ UNCHANGED <<length, srcVars, sinkLocated, sinkStarted, dest, task, next,
                   buffer, clean, bounds>>

-----------------------------------------------------------------------------
\* GstBaseSrc asks for a block, or for what is left of the size it was told.
Request == IF size - next < BlockSize THEN size - next ELSE BlockSize

\* Where the file is read: Fill moves it when the request is not where position
\* says it is.
ReadFrom == IF position # next THEN next ELSE offset

\* The task stops with an error posted.
Fail ==
    /\ task' = "error"
    /\ clean' = FALSE

\* io.CopyN of n bytes from place o of a file that ends at end: it took k of
\* those that are left.  It fails when it took less than n, at the end or because
\* a read failed.
Took(k, n, o, end) ==
    LET left == IF o < end THEN end - o ELSE 0 IN
    /\ k <= n /\ k <= left
    /\ \/ k = n \/ k = left
       \/ "read" \in Faults

\* Fault: position is left behind by the bytes read.
Fill_KeepsPosition ==
    /\ task = "running" /\ buffer = <<>> /\ next < size
    /\ \E k \in 0..Request :
         /\ Took(k, Request, ReadFrom, length[location])
         /\ offset' = ReadFrom + k
         /\ position' = next
         /\ IF k < Request THEN Fail /\ UNCHANGED <<next, buffer>>
            ELSE /\ next' = next + Request
                 /\ buffer' = Copy!Bytes(location, ReadFrom, Request)
                 /\ UNCHANGED <<task, clean>>
    /\ UNCHANGED <<length, location, started, size, sinkVars, state, bounds>>

\* Fault: a short read is not an error.
Fill_ShortIsFine ==
    /\ task = "running" /\ buffer = <<>> /\ next < size
    /\ \E k \in 0..Request :
         /\ Took(k, Request, ReadFrom, length[location])
         /\ offset' = ReadFrom + k
         /\ position' = next + k
         /\ next' = next + k
         /\ buffer' = Copy!Bytes(location, ReadFrom, k)
    /\ UNCHANGED <<length, location, started, size, sinkVars, state, task, clean,
                   bounds>>

\* Fill, of a started element, as the task is running.
Fill ==
    /\ task = "running"
    /\ buffer = <<>>
    /\ next < size
    /\ \/ /\ "seek" \in Faults
          /\ position # next
          /\ Fail
          /\ UNCHANGED <<position, offset, next, buffer>>
       \/ \E k \in 0..Request :
            /\ Took(k, Request, ReadFrom, length[location])
            /\ offset' = ReadFrom + k
            /\ \/ /\ k < Request
                  /\ position' = next
                  /\ Fail
                  /\ UNCHANGED <<next, buffer>>
               \/ /\ k = Request
                  /\ position' = next + Request
                  /\ next' = next + Request
                  /\ buffer' = Copy!Bytes(location, ReadFrom, Request)
                  /\ UNCHANGED <<task, clean>>
    /\ UNCHANGED <<length, location, started, size, sinkVars, state, bounds>>

\* GetSize: there is nothing more to ask for.
EndOfStream ==
    /\ task = "running"
    /\ buffer = <<>>
    /\ next >= size
    /\ task' = "eos"
    /\ UNCHANGED <<length, srcVars, sinkVars, state, next, buffer, clean, bounds>>

\* Fault: an error while writing is not reported.
Render_IgnoresError ==
    /\ task = "running"
    /\ buffer # <<>>
    /\ sinkStarted
    /\ \E k \in 0..Len(buffer) :
         /\ k < Len(buffer) => "write" \in Faults
         /\ dest' = dest \o SubSeq(buffer, 1, k)
    /\ buffer' = <<>>
    /\ UNCHANGED <<length, srcVars, sinkLocated, sinkStarted, sinkOpen, state, task,
                   next, clean, bounds>>

\* Render: the bytes follow those the file has; a write may fail half way.
Render ==
    /\ task = "running"
    /\ buffer # <<>>
    /\ sinkStarted
    /\ sinkOpen
    /\ \/ dest' = dest \o buffer /\ UNCHANGED <<task, clean>>
       \/ /\ "write" \in Faults
          /\ \E k \in 0..(Len(buffer) - 1) : dest' = dest \o SubSeq(buffer, 1, k)
          /\ Fail
    /\ buffer' = <<>>
    /\ UNCHANGED <<length, srcVars, sinkLocated, sinkStarted, sinkOpen, state, next,
                   bounds>>

\* A flushing seek: the buffer is dropped and the task goes on from the target,
\* also after the end of the stream or an error.
Seek(target) ==
    /\ state = "PAUSED"
    /\ seeks < MaxSeeks
    /\ next' = target
    /\ task' = "running"
    /\ buffer' = <<>>
    /\ clean' = FALSE
    /\ seeks' = seeks + 1
    /\ UNCHANGED <<length, srcVars, sinkVars, state, starts>>

-----------------------------------------------------------------------------
Next ==
    \/ \E f \in Files : SetSrcLocation(f) \/ ChangeFile(f)
    \/ SetSinkLocation
    \/ StartSink \/ StartSrc \/ StopSrc \/ StopSink
    \/ Fill \/ EndOfStream \/ Render
    \/ \E target \in 0..MaxLength : Seek(target)

Spec == Init /\ [][Next]_vars

\* The streaming thread runs.
FairSpec == Spec /\ WF_vars(Fill \/ EndOfStream \/ Render)

-----------------------------------------------------------------------------
TypeOK ==
    /\ length \in [Files -> 0..MaxLength]
    /\ location \in Files \cup {None}
    /\ started \in BOOLEAN
    /\ size \in 0..MaxLength
    /\ position \in 0..MaxLength
    /\ offset \in 0..MaxLength \cup {None}
    /\ sinkLocated \in BOOLEAN /\ sinkStarted \in BOOLEAN /\ sinkOpen \in BOOLEAN
    /\ dest \in Seq(Files \X (0..MaxLength))
    /\ state \in {"NULL", "READY", "PAUSED"}
    /\ task \in {"stopped", "running", "eos", "error"}
    /\ next \in 0..MaxLength
    /\ buffer \in Seq(Files \X (0..MaxLength))
    /\ clean \in BOOLEAN
    /\ starts \in 0..MaxStarts
    /\ seeks \in 0..MaxSeeks

\* The copy is made of consecutive bytes of the source from where it was asked
\* to be, and of nothing else: the position the source keeps is never mistaken
\* about the file's own, after seeks, restarts and errors (module StreamCopy).
ImplementsCopy == Copy!Spec

\* At the end of a stream nobody interfered with, everything the file had when
\* it was opened has been copied; a file that became shorter or a write that
\* failed ends in an error instead.
EosMeansComplete ==
    task = "eos" /\ clean => dest = Copy!Bytes(location, 0, size)

\* A task that runs comes to the end of the stream or to an error.
StreamEnds == task = "running" ~> task # "running"

\* A sink that was stopped can be started: "Set the internal state and close the
\* file" (filesink.go:227).
RestartsWhenStopped == state = "NULL" => ~sinkStarted

=============================================================================
