--------------------------- MODULE FileCopy_proof ---------------------------
(***************************************************************************)
(* gofilesrc and gofilesink copy in order, for files of any length, any    *)
(* block size and any number of seeks and starts, as long as reads fail    *)
(* only at the end of a file and a file that was cut does not grow again;  *)
(* and the end of a stream nobody interfered with means a complete copy,   *)
(* whatever goes wrong.  The last part is about asyncidentity, the third   *)
(* element written in Go.                                                  *)
(***************************************************************************)
EXTENDS FileCopy, SequenceTheorems, FiniteSetTheorems, TLAPS

\* The faults under which position can be trusted.
Steady == "read" \notin Faults /\ ~({"shrink", "grow"} \subseteq Faults)

-----------------------------------------------------------------------------
\* The base classes and the elements agree on who is started.
Started ==
    /\ started => location \in Files
    /\ state = "PAUSED" => started
    /\ task = "running" => state = "PAUSED"
    /\ ~sinkStarted => dest = <<>>

\* Lengths and places.
Places ==
    /\ length \in [Files -> 0..MaxLength]
    /\ location \in Files \cup {None}
    /\ size \in 0..MaxLength
    /\ next \in 0..MaxLength
    /\ state = "PAUSED" => offset \in Nat /\ position \in Nat
    /\ starts \in Nat /\ seeks \in Nat

\* What is under way are the bytes before next.
Carried ==
    /\ \E n \in 0..next : buffer = Copy!Bytes(location, next - n, n)
    /\ task # "running" => buffer = <<>>

\* position is the file's own offset, unless a read met the end of a file that
\* will not grow again.
Honest ==
    state = "PAUSED" =>
        /\ "shrink" \notin Faults => size <= length[location]
        /\ offset = position \/ ("grow" \notin Faults /\ offset >= length[location])

IInv == Started /\ Places /\ Carried /\ Honest

-----------------------------------------------------------------------------
\* Bytes are a sequence of the length asked for.
LEMMA BytesSeq ==
    ASSUME NEW f, NEW o \in Int, NEW n \in Nat
    PROVE  /\ Copy!Bytes(f, o, n) \in Seq({f} \X Int)
           /\ Len(Copy!Bytes(f, o, n)) = n
  <1>1. \A i \in 1..n : <<f, o + i - 1>> \in {f} \X Int
    OBVIOUS
  <1>2. Copy!Bytes(f, o, n) \in [1..n -> {f} \X Int]
    BY <1>1 DEF Copy!Bytes
  <1> QED
    BY <1>2

\* No bytes are the empty sequence, and nothing else is.
LEMMA NoBytes ==
    ASSUME NEW f, NEW o \in Int, NEW n \in Nat
    PROVE  Copy!Bytes(f, o, n) = <<>> <=> n = 0
  <1>1. Copy!Bytes(f, o, n) \in Seq({f} \X Int) /\ Len(Copy!Bytes(f, o, n)) = n
    BY BytesSeq
  <1> QED
    BY <1>1, EmptySeq, SMT

\* The first bytes of bytes are bytes.
LEMMA BytesPrefix ==
    ASSUME NEW f, NEW o \in Int, NEW n \in Nat, NEW k \in 0..n
    PROVE  SubSeq(Copy!Bytes(f, o, n), 1, k) = Copy!Bytes(f, o, k)
  <1>1. \A i \in 1..n : <<f, o + i - 1>> \in {f} \X Int
    OBVIOUS
  <1>2. Copy!Bytes(f, o, n) \in Seq({f} \X Int) /\ Len(Copy!Bytes(f, o, n)) = n
    BY BytesSeq
  <1>3. SubSeq(Copy!Bytes(f, o, n), 1, k) = [i \in 1..k |-> Copy!Bytes(f, o, n)[i]]
    BY <1>2
  <1>4. \A i \in 1..k : Copy!Bytes(f, o, n)[i] = <<f, o + i - 1>>
    BY DEF Copy!Bytes
  <1> QED
    BY <1>3, <1>4 DEF Copy!Bytes

-----------------------------------------------------------------------------
LEMMA InitIInv == Init => IInv
  <1> SUFFICES ASSUME Init PROVE IInv
    OBVIOUS
  <1> USE FileCopyAssumption DEF Init
  <1>1. Started /\ Places /\ Honest
    BY DEF Started, Places, Honest
  <1>2. Carried
    <2>1. buffer = Copy!Bytes(location, next - 0, 0) /\ 0 \in 0..next
      BY NoBytes
    <2> QED
      BY <2>1 DEF Carried
  <1> QED
    BY <1>1, <1>2 DEF IInv

\* Nothing under way is always right.
LEMMA NothingCarried ==
    ASSUME buffer = <<>>, next \in Nat
    PROVE  Carried
  <1>1. buffer = Copy!Bytes(location, next - 0, 0) /\ 0 \in 0..next
    BY NoBytes
  <1> QED
    BY <1>1 DEF Carried

\* The buffer has as many bytes as next is ahead of those that are written.
LEMMA BufferLength ==
    ASSUME IInv
    PROVE  \E n \in 0..next : /\ buffer = Copy!Bytes(location, next - n, n)
                              /\ Len(buffer) = n
  <1>1. PICK n \in 0..next : buffer = Copy!Bytes(location, next - n, n)
    BY DEF IInv, Carried
  <1>2. next \in Nat /\ n \in Nat /\ next - n \in Int
    BY FileCopyAssumption DEF IInv, Places
  <1>3. Len(buffer) = n
    BY <1>1, <1>2, BytesSeq
  <1> QED
    BY <1>1, <1>3

\* A Fill that gets all it asked for has read at next.
LEMMA FillReads ==
    ASSUME IInv, Steady, task = "running", next < size,
           Took(Request, Request, ReadFrom, length[location])
    PROVE  ReadFrom = next /\ Request \in 1..(size - next)
  <1>1. Request \in 1..(size - next)
    BY FileCopyAssumption DEF Request, IInv, Places
  <1>2. state = "PAUSED" /\ location \in Files
    BY DEF IInv, Started
  <1>3. length[location] \in Nat /\ offset \in Nat /\ position \in Nat /\ next \in Nat
    BY <1>2, FileCopyAssumption DEF IInv, Places
  <1>4. ReadFrom + Request <= length[location]
    <2>1. ReadFrom \in Nat /\ Request \in Nat /\ Request > 0
      BY <1>1, <1>3 DEF ReadFrom
    <2> HIDE DEF ReadFrom, Request
    <2> QED
      BY <1>3, <2>1 DEF Took
  <1>5. CASE position # next
    BY <1>1, <1>5 DEF ReadFrom
  <1>6. CASE position = next
    <2>1. ReadFrom = offset
      BY <1>6 DEF ReadFrom
    <2>2. offset = position
      BY <2>1, <1>1, <1>2, <1>3, <1>4 DEF IInv, Honest
    <2> QED
      BY <2>1, <2>2, <1>6, <1>1
  <1> QED
    BY <1>5, <1>6

\* A Fill that gets less leaves the file at its end, which will not move away.
LEMMA FillFallsShort ==
    ASSUME IInv, Steady, task = "running", next < size,
           NEW k \in 0..Request, k < Request,
           Took(k, Request, ReadFrom, length[location])
    PROVE  /\ ReadFrom + k \in Nat
           /\ "grow" \notin Faults /\ ReadFrom + k >= length[location]
  <1>1. Request \in 1..(size - next)
    BY FileCopyAssumption DEF Request, IInv, Places
  <1>2. state = "PAUSED" /\ location \in Files
    BY DEF IInv, Started
  <1>3. /\ length[location] \in Nat /\ offset \in Nat /\ position \in Nat
        /\ next \in Nat /\ size \in Nat
    BY <1>2, FileCopyAssumption DEF IInv, Places
  <1>4. ReadFrom \in Nat
    BY <1>3 DEF ReadFrom
  <1>5. k = (IF ReadFrom < length[location] THEN length[location] - ReadFrom ELSE 0)
    BY <1>1 DEF Took, Steady
  <1>6. ReadFrom + k \in Nat /\ ReadFrom + k >= length[location]
    BY <1>3, <1>4, <1>5
  <1>7. ASSUME "grow" \in Faults PROVE FALSE
    <2>1. size <= length[location] /\ offset = position
      BY <1>2, <1>7 DEF IInv, Honest, Steady
    <2>2. ReadFrom = next
      BY <2>1 DEF ReadFrom
    <2> QED
      BY <2>1, <2>2, <1>1, <1>3, <1>5
  <1> QED
    BY <1>6, <1>7

-----------------------------------------------------------------------------
\* A Fill keeps the invariant.
LEMMA FillKeeps ==
    ASSUME IInv, Steady, Fill
    PROVE  IInv'
  <1> USE FileCopyAssumption
  <1>1. /\ task = "running" /\ buffer = <<>> /\ next < size
        /\ UNCHANGED <<length, location, started, size, sinkStarted, dest, state, starts,
                        seeks>>
    BY DEF Fill, sinkVars, bounds
  <1>2. /\ state = "PAUSED" /\ location \in Files /\ next \in Nat /\ size \in 0..MaxLength
        /\ length[location] \in Nat
    BY <1>1 DEF IInv, Started, Places
  <1>3. CASE UNCHANGED <<position, offset, next, buffer>> /\ Fail
    <2>1. Started' /\ Places' /\ Honest'
      BY <1>1, <1>3 DEF Fail, IInv, Started, Places, Honest
    <2>2. Carried'
      BY <1>1, <1>2, <1>3, NoBytes, NothingCarried DEF Fail, Carried, IInv
    <2> QED
      BY <2>1, <2>2 DEF IInv
  <1>4. ASSUME NEW k \in 0..Request, k < Request,
               Took(k, Request, ReadFrom, length[location]),
               offset' = ReadFrom + k, position' = next, Fail,
               UNCHANGED <<next, buffer>>
        PROVE  IInv'
    <2>1. /\ ReadFrom + k \in Nat
          /\ "grow" \notin Faults /\ ReadFrom + k >= length[location]
      BY <1>1, <1>4, FillFallsShort
    <2>2. Started' /\ Places'
      BY <1>1, <1>2, <1>4, <2>1 DEF Fail, IInv, Started, Places
    <2>3. Honest'
      BY <1>1, <1>4, <2>1 DEF IInv, Honest
    <2>4. Carried'
      BY <1>1, <1>2, <1>4 DEF Fail, Carried, IInv
    <2> QED
      BY <2>2, <2>3, <2>4 DEF IInv
  <1>5. ASSUME Took(Request, Request, ReadFrom, length[location]),
               offset' = ReadFrom + Request, position' = next + Request,
               next' = next + Request,
               buffer' = Copy!Bytes(location, ReadFrom, Request), UNCHANGED task
        PROVE  IInv'
    <2>1. ReadFrom = next /\ Request \in 1..(size - next)
      BY <1>1, <1>5, FillReads
    <2>2. Started' /\ Places'
      BY <1>1, <1>2, <1>5, <2>1 DEF IInv, Started, Places
    <2>3. Honest'
      BY <1>1, <1>2, <1>5, <2>1 DEF IInv, Honest
    <2>4. /\ Request \in 0..next'
          /\ buffer' = Copy!Bytes(location', next' - Request, Request)
      BY <1>1, <1>2, <1>5, <2>1
    <2>5. Carried'
      BY <1>1, <1>5, <2>4 DEF Carried
    <2> QED
      BY <2>2, <2>3, <2>5 DEF IInv
  <1> QED
    BY <1>3, <1>4, <1>5 DEF Fill

\* So does every other step.
LEMMA StepKeeps ==
    ASSUME IInv, Steady, [Next]_vars
    PROVE  IInv'
  <1> USE FileCopyAssumption
  <1>1. ASSUME NEW f \in Files, SetSrcLocation(f) PROVE IInv'
    <2>1. buffer = <<>> /\ next \in Nat /\ UNCHANGED <<buffer, next>>
      BY <1>1 DEF SetSrcLocation, bounds, baseVars, IInv, Started, Carried, Places
    <2>2. Started' /\ Places' /\ Honest'
      BY <1>1 DEF SetSrcLocation, bounds, baseVars, sinkVars, IInv, Started, Places, Honest
    <2>3. Carried'
      BY <2>1, NoBytes DEF Carried
    <2> QED
      BY <2>2, <2>3 DEF IInv
  <1>2. ASSUME NEW f \in Files, ChangeFile(f) PROVE IInv'
    <2>1. PICK n \in 0..MaxLength :
            /\ \/ "grow" \in Faults /\ n > length[f]
               \/ "shrink" \in Faults /\ n < length[f]
            /\ length' = [length EXCEPT ![f] = n]
      BY <1>2 DEF ChangeFile
    <2>2. UNCHANGED <<srcVars, sinkVars, baseVars, bounds>>
      BY <1>2 DEF ChangeFile
    <2>3. Started' /\ Carried'
      BY <2>2 DEF srcVars, sinkVars, baseVars, IInv, Started, Carried
    <2>4. Places'
      BY <2>1, <2>2 DEF srcVars, sinkVars, baseVars, bounds, IInv, Places
    <2>5. Honest'
      <3> SUFFICES ASSUME state = "PAUSED" PROVE Honest'
        BY <2>2 DEF Honest, baseVars
      <3>1. /\ location \in Files /\ length[location] \in Nat /\ length[f] \in Nat
            /\ offset \in Nat /\ size \in Nat
        BY DEF IInv, Started, Places
      <3>2. length'[location] = IF f = location THEN n ELSE length[location]
        BY <2>1, <3>1 DEF IInv, Places
      <3>3. "shrink" \notin Faults => size <= length'[location]
        BY <2>1, <3>1, <3>2 DEF IInv, Honest
      <3>4. offset = position \/ ("grow" \notin Faults /\ offset >= length'[location])
        BY <2>1, <3>1, <3>2 DEF IInv, Honest
      <3> QED
        BY <2>2, <3>3, <3>4 DEF Honest, srcVars
    <2> QED
      BY <2>3, <2>4, <2>5 DEF IInv
  <1>3. ASSUME SetSinkLocation \/ StartSink \/ StopSink PROVE IInv'
    <2>1. UNCHANGED <<length, srcVars, task, next, buffer, bounds>>
      BY <1>3 DEF SetSinkLocation, bounds, StartSink, StopSink, baseVars
    <2>2. state' = "PAUSED" => UNCHANGED state
      BY <1>3 DEF SetSinkLocation, bounds, StartSink, StopSink, baseVars
    <2>3. Started'
      BY <1>3, <2>1, <2>2 DEF SetSinkLocation, bounds, StartSink, StopSink, srcVars,
                              baseVars, IInv, Started
    <2> QED
      BY <2>1, <2>2, <2>3 DEF srcVars, bounds, IInv, Places, Carried, Honest
  <1>4. ASSUME StartSrc PROVE IInv'
    <2>1. buffer = <<>> /\ location \in Files /\ length[location] \in 0..MaxLength
      BY <1>4 DEF StartSrc, IInv, Started, Carried, Places
    <2>2. Started' /\ Places' /\ Honest'
      BY <1>4, <2>1 DEF StartSrc, sinkVars, IInv, Started, Places, Honest
    <2>3. buffer' = Copy!Bytes(location', next' - 0, 0) /\ 0 \in 0..next'
      BY <1>4, <2>1, NoBytes DEF StartSrc
    <2>4. Carried'
      BY <1>4, <2>1, <2>3 DEF StartSrc, Carried
    <2> QED
      BY <2>2, <2>4 DEF IInv
  <1>5. ASSUME StopSrc PROVE IInv'
    <2>1. Started' /\ Places' /\ Honest'
      BY <1>5 DEF StopSrc, bounds, sinkVars, IInv, Started, Places, Honest
    <2>2. buffer' = Copy!Bytes(location', next' - 0, 0) /\ 0 \in 0..next'
      BY <1>5, NoBytes DEF StopSrc, bounds, IInv, Places
    <2>3. Carried'
      BY <1>5, <2>2 DEF StopSrc, bounds, Carried
    <2> QED
      BY <2>1, <2>3 DEF IInv
  <1>6. ASSUME EndOfStream PROVE IInv'
    BY <1>6 DEF EndOfStream, bounds, srcVars, sinkVars, IInv, Started, Places, Carried, Honest
  <1>7. ASSUME Render PROVE IInv'
    <2>1. Started' /\ Places' /\ Honest'
      BY <1>7 DEF Render, bounds, Fail, srcVars, IInv, Started, Places, Honest
    <2>2. buffer' = Copy!Bytes(location', next' - 0, 0) /\ 0 \in 0..next'
      BY <1>7, NoBytes DEF Render, bounds, IInv, Places
    <2>3. Carried'
      BY <1>7, <2>2 DEF Render, bounds, Fail, Carried
    <2> QED
      BY <2>1, <2>3 DEF IInv
  <1>8. ASSUME NEW target \in 0..MaxLength, Seek(target) PROVE IInv'
    <2>1. Started' /\ Places' /\ Honest'
      BY <1>8 DEF Seek, srcVars, sinkVars, IInv, Started, Places, Honest
    <2>2. buffer' = Copy!Bytes(location', next' - 0, 0) /\ 0 \in 0..next'
      BY <1>8, NoBytes DEF Seek
    <2>3. Carried'
      BY <1>8, <2>2 DEF Seek, Carried
    <2> QED
      BY <2>1, <2>3 DEF IInv
  <1>9. ASSUME UNCHANGED vars PROVE IInv'
    BY <1>9 DEF vars, srcVars, sinkVars, baseVars, bounds, IInv, Started, Places, Carried,
                Honest
  <1> QED
    BY <1>1, <1>2, <1>3, <1>4, <1>5, <1>6, <1>7, <1>8, <1>9, FillKeeps DEF Next

-----------------------------------------------------------------------------
\* What is behind a place is a place.
LEMMA Behind ==
    ASSUME NEW m \in Nat, NEW p \in 0..m, NEW n \in 0..p
    PROVE  p - n \in 0..m /\ p - n \in Int /\ n \in Nat
  OBVIOUS

\* The pipeline starts where the copy starts.
LEMMA CopyInit == Init => Copy!Init
  BY DEF Init, Copy!Init

\* When the source is made to go on from a place, somebody asked for it.
LEMMA Asks ==
    ASSUME IInv', UNCHANGED dest, task' = "running",
           starts' + seeks' = starts + seeks + 1
    PROVE  Copy!Ask
  <1>1. PICK n \in 0..next' : buffer' = Copy!Bytes(location', next' - n, n)
    BY DEF IInv, Carried
  <1>2. next' \in 0..MaxLength /\ started' /\ location' \in Files
    BY DEF IInv, Started, Places
  <1>3. next' - n \in 0..MaxLength /\ next' - n \in Int /\ n \in Nat
    BY <1>2, Behind, FileCopyAssumption
  <1>4. Len(buffer') = n
    BY <1>1, <1>3, BytesSeq
  <1> QED
    BY <1>2, <1>3, <1>4 DEF Copy!Ask

\* When it does not go on, the copy has come to an end.
LEMMA Ends ==
    ASSUME IInv, UNCHANGED <<dest, location, starts, seeks>>, task' # "running",
           started' => started
    PROVE  Copy!End
  BY DEF Copy!End

\* What Fill brings is not written yet.
LEMMA FillCopies ==
    ASSUME IInv, Steady, Fill
    PROVE  Copy!End \/ UNCHANGED Copy!vars
  <1> USE FileCopyAssumption
  <1>1. /\ task = "running" /\ buffer = <<>> /\ next < size /\ next \in Nat
        /\ UNCHANGED <<location, started, dest, starts, seeks>>
    BY DEF Fill, sinkVars, bounds, IInv, Places
  <1>2. CASE Fail
    BY <1>1, <1>2, Ends DEF Fail
  <1>3. CASE /\ Took(Request, Request, ReadFrom, length[location])
             /\ next' = next + Request /\ UNCHANGED task
             /\ buffer' = Copy!Bytes(location, ReadFrom, Request)
    <2>1. ReadFrom = next /\ Request \in Nat /\ next \in Int
      BY <1>1, <1>3, FillReads DEF IInv, Places
    <2>2. Len(buffer') = Request
      BY <1>3, <2>1, BytesSeq
    <2>3. next' - Len(buffer') = next - Len(buffer)
      <3>1. Len(buffer) = 0
        BY <1>1
      <3> QED
        BY <1>1, <1>3, <2>1, <2>2, <3>1
    <2> QED
      BY <1>1, <1>3, <2>3 DEF Copy!vars
  <1> QED
    BY <1>2, <1>3 DEF Fill

\* Render writes the bytes that come next.
LEMMA RenderCopies ==
    ASSUME IInv, Render
    PROVE  Copy!Next
  <1> USE FileCopyAssumption
  <1>1. PICK n \in 0..next : /\ buffer = Copy!Bytes(location, next - n, n)
                             /\ Len(buffer) = n
    BY BufferLength
  <1>2. /\ next \in 0..MaxLength /\ n \in 0..MaxLength
        /\ started /\ task = "running"
        /\ UNCHANGED <<location, started, next, starts, seeks>>
        /\ buffer' = <<>>
    BY <1>1 DEF Render, srcVars, bounds, IInv, Started, Places
  <1>3. next - n # None /\ next - n \in Int
    BY <1>1, <1>2
  <1>4. CASE dest' = dest \o buffer /\ UNCHANGED task
    <2>1. (next - n) + n = next' /\ next' - Len(buffer') = next' /\ task' = "running"
      BY <1>2, <1>4
    <2>2. (next - n) + n <= MaxLength
      BY <1>2
    <2>3. Copy!Continue(n)
      BY <1>1, <1>2, <1>3, <1>4, <2>1, <2>2 DEF Copy!Continue
    <2> QED
      BY <1>2, <2>3 DEF Copy!Next
  <1>5. ASSUME NEW k \in 0..(Len(buffer) - 1), dest' = dest \o SubSeq(buffer, 1, k),
               Fail
        PROVE  Copy!Next
    <2>1. k \in 0..n /\ k \in 0..MaxLength
      BY <1>1, <1>2
    <2>2. SubSeq(buffer, 1, k) = Copy!Bytes(location, next - n, k)
      BY <1>1, <1>3, <2>1, BytesPrefix
    <2>3. Copy!Break(k)
      BY <1>1, <1>2, <1>3, <1>5, <2>2 DEF Copy!Break, Fail
    <2> QED
      BY <2>1, <2>3 DEF Copy!Next
  <1> QED
    BY <1>4, <1>5 DEF Render

\* Every step of the pipeline is a step of the copy, or none.
LEMMA CopyNext ==
    ASSUME IInv, IInv', Steady, [Next]_vars
    PROVE  [Copy!Next]_(Copy!vars)
  <1>1. CASE Fill
    BY <1>1, FillCopies DEF Copy!Next
  <1>2. CASE Render
    BY <1>2, RenderCopies
  <1>3. CASE StartSrc \/ \E target \in 0..MaxLength : Seek(target)
    <2>1. UNCHANGED dest /\ task' = "running"
      BY <1>3 DEF StartSrc, Seek, sinkVars
    <2>2. \/ starts' = starts + 1 /\ seeks' = seeks
          \/ starts' = starts /\ seeks' = seeks + 1
      BY <1>3 DEF StartSrc, Seek
    <2>3. starts \in Nat /\ seeks \in Nat
      BY DEF IInv, Places
    <2>4. starts' + seeks' = starts + seeks + 1
      BY <2>2, <2>3
    <2> QED
      BY <2>1, <2>4, Asks DEF Copy!Next
  <1>4. CASE StopSrc \/ EndOfStream
    <2>1. /\ UNCHANGED <<dest, location, starts, seeks>> /\ task' # "running"
          /\ started' => started
      BY <1>4 DEF StopSrc, EndOfStream, srcVars, sinkVars, bounds
    <2> QED
      BY <2>1, Ends DEF Copy!Next
  <1>5. CASE \E f \in Files : SetSrcLocation(f)
    BY <1>5 DEF SetSrcLocation, sinkVars, baseVars, bounds, Copy!vars
  <1>6. CASE \/ \E f \in Files : ChangeFile(f)
             \/ SetSinkLocation \/ StartSink \/ StopSink \/ UNCHANGED vars
    <2>1. UNCHANGED <<started, location, task, next, buffer, dest, starts, seeks>>
      BY <1>6 DEF ChangeFile, SetSinkLocation, StartSink, StopSink, vars, srcVars,
                  sinkVars, baseVars, bounds, IInv, Started
    <2> QED
      BY <2>1 DEF Copy!vars
  <1> QED
    BY <1>1, <1>2, <1>3, <1>4, <1>5, <1>6 DEF Next

-----------------------------------------------------------------------------
\* gofilesrc and gofilesink copy the bytes of the source in their order, and
\* break it only where a seek, a start, a stop or an error did: the offset the
\* kernel keeps is never mistaken for the place the base class asks for.  It
\* takes steady faults: after a read that failed half way, or one that met the
\* end of a file that grows again, position is not where the file is.
THEOREM CopiesInOrder ==
    ASSUME Steady
    PROVE  Spec => ImplementsCopy
  <1>1. Init => Copy!Init /\ IInv
    BY InitIInv, CopyInit
  <1>2. IInv /\ [Next]_vars => IInv'
    BY StepKeeps
  <1>3. IInv /\ IInv' /\ [Next]_vars => [Copy!Next]_(Copy!vars)
    BY CopyNext
  <1> QED
    BY <1>1, <1>2, <1>3, PTL DEF Spec, ImplementsCopy, Copy!Spec

-----------------------------------------------------------------------------
\* Where a copy nobody interfered with stands.
Sizes ==
    /\ length \in [Files -> 0..MaxLength]
    /\ size \in 0..MaxLength /\ next \in 0..MaxLength
    /\ location \in Files \cup {None}
    /\ started => location # None
    /\ state = "PAUSED" => started
    /\ task = "running" => state = "PAUSED"

Untouched ==
    state # "PAUSED" =>
        /\ task = "stopped" /\ buffer = <<>>
        /\ clean => dest = <<>>

Complete ==
    clean /\ state = "PAUSED" =>
        /\ offset = next /\ position = next /\ next <= size
        /\ \E m \in 0..next : /\ dest = Copy!Bytes(location, 0, m)
                              /\ buffer = Copy!Bytes(location, m, next - m)
        /\ task = "eos" => next = size /\ buffer = <<>>
        /\ task # "stopped"

CInv == Sizes /\ Untouched /\ Complete

-----------------------------------------------------------------------------
\* Where the elements of a concatenation come from.
LEMMA Concat ==
    ASSUME NEW S, NEW s \in Seq(S), NEW t \in Seq(S), NEW u \in Seq(S),
           NEW m \in Nat, NEW n \in Nat, Len(s) = m, Len(t) = n, Len(u) = m + n,
           \A i \in 1..m : u[i] = s[i],
           \A i \in 1..n : u[m + i] = t[i]
    PROVE  s \o t = u
  <1>1. s \o t \in Seq(S) /\ Len(s \o t) = Len(u)
    OBVIOUS
  <1>2. ASSUME NEW i \in 1..Len(u) PROVE (s \o t)[i] = u[i]
    <2>1. CASE i <= m
      BY <2>1
    <2>2. CASE i > m
      <3>1. (s \o t)[i] = t[i - m]
        BY <2>2
      <3>2. i - m \in 1..n /\ m + (i - m) = i
        BY <2>2
      <3>3. u[m + (i - m)] = t[i - m]
        BY <3>2
      <3> QED
        BY <3>1, <3>2, <3>3
    <2> QED
      BY <2>1, <2>2
  <1> QED
    BY <1>1, <1>2, SeqEqual

\* Bytes go on where bytes end.
LEMMA BytesConcat ==
    ASSUME NEW f, NEW m \in Nat, NEW n \in Nat
    PROVE  Copy!Bytes(f, 0, m) \o Copy!Bytes(f, m, n) = Copy!Bytes(f, 0, m + n)
  <1>1. /\ Copy!Bytes(f, 0, m) \in Seq({f} \X Int)
        /\ Len(Copy!Bytes(f, 0, m)) = m
        /\ Copy!Bytes(f, m, n) \in Seq({f} \X Int)
        /\ Len(Copy!Bytes(f, m, n)) = n
        /\ Copy!Bytes(f, 0, m + n) \in Seq({f} \X Int)
        /\ Len(Copy!Bytes(f, 0, m + n)) = m + n
    BY BytesSeq
  <1>2. \A i \in 1..m : Copy!Bytes(f, 0, m + n)[i] = Copy!Bytes(f, 0, m)[i]
    BY DEF Copy!Bytes
  <1>3. \A i \in 1..n : Copy!Bytes(f, 0, m + n)[m + i] = Copy!Bytes(f, m, n)[i]
    BY DEF Copy!Bytes
  <1> QED
    BY <1>1, <1>2, <1>3, Concat

LEMMA InitCInv == Init => CInv
  BY FileCopyAssumption DEF Init, CInv, Sizes, Untouched, Complete

\* While nobody interferes position, the offset of the file and the place the
\* base class asks for are one.
LEMMA FillCInv ==
    ASSUME CInv, Fill
    PROVE  CInv'
  <1> USE FileCopyAssumption
  <1>1. /\ task = "running" /\ buffer = <<>> /\ next < size
        /\ UNCHANGED <<length, location, started, size, dest, state>>
        /\ state = "PAUSED" /\ started /\ location # None
    BY DEF Fill, sinkVars, CInv, Sizes
  <1>2. Request \in 1..(size - next) /\ next \in Nat /\ size \in 0..MaxLength
    BY <1>1 DEF Request, CInv, Sizes
  <1>3. CASE Fail /\ UNCHANGED next
    BY <1>1, <1>3 DEF Fail, CInv, Sizes, Untouched, Complete
  <1>4. CASE /\ offset' = ReadFrom + Request /\ position' = next + Request
             /\ next' = next + Request
             /\ buffer' = Copy!Bytes(location, ReadFrom, Request)
             /\ UNCHANGED <<task, clean>>
    <2>1. Sizes' /\ Untouched'
      BY <1>1, <1>2, <1>4 DEF CInv, Sizes, Untouched
    <2>2. ASSUME clean PROVE Complete'
      <3>1. offset = next /\ position = next /\ ReadFrom = next
        BY <1>1, <2>2 DEF CInv, Complete, ReadFrom
      <3>2. PICK m \in 0..next : /\ dest = Copy!Bytes(location, 0, m)
                                 /\ buffer = Copy!Bytes(location, m, next - m)
        BY <1>1, <2>2 DEF CInv, Complete
      <3>3. m = next
        <4>1. m \in Int /\ next - m \in Nat
          BY <1>2
        <4>2. next - m = 0
          BY <1>1, <3>2, <4>1, NoBytes
        <4> QED
          BY <1>2, <4>2
      <3>4. next \in 0..next' /\ next' - next = Request
        BY <1>2, <1>4
      <3>5. /\ dest' = Copy!Bytes(location', 0, next)
            /\ buffer' = Copy!Bytes(location', next, next' - next)
        BY <1>1, <1>4, <3>1, <3>2, <3>3, <3>4
      <3>6. next' <= size' /\ offset' = next' /\ position' = next'
        BY <1>1, <1>2, <1>4, <3>1
      <3> QED
        BY <1>1, <1>4, <3>4, <3>5, <3>6 DEF Complete
    <2> QED
      BY <1>4, <2>1, <2>2 DEF CInv, Complete
  <1> QED
    BY <1>3, <1>4 DEF Fill

LEMMA RenderCInv ==
    ASSUME CInv, Render
    PROVE  CInv'
  <1>1. /\ task = "running" /\ state = "PAUSED" /\ buffer' = <<>>
        /\ UNCHANGED <<length, srcVars, state, next>>
    BY DEF Render, CInv, Sizes
  <1>2. CASE Fail
    BY <1>1, <1>2 DEF Fail, srcVars, CInv, Sizes, Untouched, Complete
  <1>3. CASE dest' = dest \o buffer /\ UNCHANGED <<task, clean>>
    <2>1. Sizes' /\ Untouched'
      BY <1>1, <1>3 DEF srcVars, CInv, Sizes, Untouched
    <2>2. ASSUME clean PROVE Complete'
      <3>1. PICK m \in 0..next : /\ dest = Copy!Bytes(location, 0, m)
                                 /\ buffer = Copy!Bytes(location, m, next - m)
        BY <1>1, <2>2 DEF CInv, Complete
      <3>2. next \in Nat /\ m \in Nat /\ next - m \in Nat /\ m + (next - m) = next
        BY FileCopyAssumption DEF CInv, Sizes
      <3>3. dest' = Copy!Bytes(location', 0, next)
        BY <1>1, <1>3, <3>1, <3>2, BytesConcat DEF srcVars
      <3>4. buffer' = Copy!Bytes(location', next, 0)
        BY <1>1, <3>2, NoBytes
      <3>5. next \in 0..next' /\ next' - next = 0
        BY <1>1, <3>2
      <3> QED
        BY <1>1, <1>3, <2>2, <3>3, <3>4, <3>5 DEF srcVars, CInv, Complete
    <2> QED
      BY <1>3, <2>1, <2>2 DEF CInv, Complete
  <1> QED
    BY <1>2, <1>3 DEF Render

LEMMA NextCInv ==
    ASSUME CInv, [Next]_vars
    PROVE  CInv'
  <1> USE FileCopyAssumption
  <1>1. ASSUME NEW f \in Files, SetSrcLocation(f) \/ ChangeFile(f) PROVE CInv'
    <2>1. CASE SetSrcLocation(f)
      BY <2>1 DEF SetSrcLocation, sinkVars, baseVars, CInv, Sizes, Untouched, Complete
    <2>2. CASE ChangeFile(f)
      <3>1. UNCHANGED <<srcVars, sinkVars, baseVars, clean>>
            /\ length' \in [Files -> 0..MaxLength]
        BY <2>2 DEF ChangeFile, CInv, Sizes
      <3> QED
        BY <3>1 DEF srcVars, sinkVars, baseVars, CInv, Sizes, Untouched, Complete
    <2> QED
      BY <1>1, <2>1, <2>2
  <1>2. ASSUME SetSinkLocation \/ UNCHANGED vars PROVE CInv'
    <2>1. UNCHANGED <<length, srcVars, dest, baseVars, clean>>
      BY <1>2 DEF SetSinkLocation, vars, sinkVars
    <2> QED
      BY <2>1 DEF srcVars, baseVars, CInv, Sizes, Untouched, Complete
  <1>3. ASSUME StartSink PROVE CInv'
    BY <1>3 DEF StartSink, srcVars, CInv, Sizes, Untouched, Complete
  <1>4. ASSUME StartSrc PROVE CInv'
    <2>1. Sizes' /\ Untouched'
      BY <1>4 DEF StartSrc, sinkVars, CInv, Sizes, Untouched
    <2>2. ASSUME clean PROVE Complete'
      <3>1. /\ dest' = <<>> /\ buffer' = <<>> /\ next' = 0 /\ offset' = 0
            /\ position' = 0 /\ task' = "running" /\ size' \in 0..MaxLength
        BY <1>4, <2>2 DEF StartSrc, sinkVars, CInv, Sizes, Untouched
      <3>2. /\ dest' = Copy!Bytes(location', 0, 0) /\ 0 \in 0..next'
            /\ buffer' = Copy!Bytes(location', 0, next' - 0)
        BY <3>1, NoBytes
      <3> QED
        BY <3>1, <3>2 DEF Complete
    <2> QED
      BY <1>4, <2>1, <2>2 DEF StartSrc, CInv, Complete
  <1>5. ASSUME StopSrc \/ StopSink PROVE CInv'
    BY <1>5 DEF StopSrc, StopSink, sinkVars, srcVars, CInv, Sizes, Untouched, Complete
  <1>6. ASSUME EndOfStream PROVE CInv'
    <2>1. /\ UNCHANGED <<length, srcVars, sinkVars, state, next, buffer, clean>>
          /\ task' = "eos" /\ buffer = <<>> /\ next >= size /\ state = "PAUSED"
      BY <1>6 DEF EndOfStream, CInv, Sizes
    <2>2. Sizes' /\ Untouched'
      BY <2>1 DEF srcVars, CInv, Sizes, Untouched
    <2>3. next \in Nat /\ size \in Nat
      BY DEF CInv, Sizes
    <2>4. Complete'
      BY <2>1, <2>3 DEF srcVars, sinkVars, CInv, Complete
    <2> QED
      BY <2>2, <2>4 DEF CInv
  <1>7. ASSUME NEW target \in 0..MaxLength, Seek(target) PROVE CInv'
    BY <1>7 DEF Seek, srcVars, sinkVars, CInv, Sizes, Untouched, Complete
  <1> QED
    BY <1>1, <1>2, <1>3, <1>4, <1>5, <1>6, <1>7, FillCInv, RenderCInv DEF Next

\* At the end of a stream nobody interfered with the copy has every byte the file
\* had when it was opened, for files of any length and blocks of any size, and
\* whatever faults there are: a short read or a failed write ends in an error.
THEOREM EosComplete == Spec => []EosMeansComplete
  <1>1. CInv => EosMeansComplete
    <2> SUFFICES ASSUME CInv, task = "eos", clean
                 PROVE  dest = Copy!Bytes(location, 0, size)
      BY DEF EosMeansComplete
    <2>1. state = "PAUSED"
      BY DEF CInv, Untouched
    <2>2. PICK m \in 0..next : /\ dest = Copy!Bytes(location, 0, m)
                               /\ buffer = Copy!Bytes(location, m, next - m)
      BY <2>1 DEF CInv, Complete
    <2>3. next = size /\ buffer = <<>> /\ next \in Nat
      BY <2>1, FileCopyAssumption DEF CInv, Complete, Sizes
    <2>4. m \in Int /\ next - m \in Nat
      BY <2>3
    <2>5. next - m = 0
      BY <2>2, <2>3, <2>4, NoBytes
    <2> QED
      BY <2>2, <2>3, <2>4, <2>5
  <1>2. CInv /\ [Next]_vars => CInv'
    BY NextCInv
  <1> QED
    BY <1>1, <1>2, InitCInv, PTL DEF Spec

-----------------------------------------------------------------------------
\* Positions stay in the file, and the file is open while the source is PAUSED.
TInv == TypeOK /\ (state = "PAUSED" => offset # None)

LEMMA InitTInv == Init => TInv
  <1> SUFFICES ASSUME Init PROVE TInv
    OBVIOUS
  <1>1. /\ MaxLength \in Nat /\ MaxStarts \in Nat /\ MaxSeeks \in Nat
        /\ <<>> \in Seq(Files \X (0..MaxLength))
    BY FileCopyAssumption
  <1>2. /\ 0 \in 0..MaxLength /\ 0 \in 0..MaxStarts /\ 0 \in 0..MaxSeeks
    BY <1>1
  <1>3. state # "PAUSED"
    BY DEF Init
  <1> QED
    BY <1>1, <1>2, <1>3 DEF Init, TInv, TypeOK

\* Bytes that are in a file.
LEMMA BytesIn ==
    ASSUME NEW f \in Files, NEW o \in Nat, NEW n \in Nat, o + n <= MaxLength
    PROVE  Copy!Bytes(f, o, n) \in Seq(Files \X (0..MaxLength))
  <1>1. \A i \in 1..n : <<f, o + i - 1>> \in Files \X (0..MaxLength)
    BY FileCopyAssumption
  <1>2. Copy!Bytes(f, o, n) \in [1..n -> Files \X (0..MaxLength)]
    BY <1>1 DEF Copy!Bytes
  <1> QED
    BY <1>2

\* However a read goes, neither the file's offset nor position leaves the file.
LEMMA FillTInv ==
    ASSUME CInv, TInv, Fill
    PROVE  TInv'
  <1> USE FileCopyAssumption
  <1>1. /\ task = "running" /\ next < size /\ state' = "PAUSED"
        /\ UNCHANGED <<length, location, started, size, sinkVars, bounds>>
        /\ location \in Files
    BY DEF Fill, CInv, Sizes
  <1>2. /\ next \in 0..MaxLength /\ size \in 0..MaxLength /\ position \in 0..MaxLength
        /\ offset \in 0..MaxLength /\ length[location] \in 0..MaxLength
    BY <1>1 DEF Fill, TInv, TypeOK, CInv, Sizes
  <1>3. Request \in 1..(size - next)
    BY <1>1, <1>2 DEF Request
  <1>4. ReadFrom \in 0..MaxLength
    BY <1>2 DEF ReadFrom
  <1>5. ASSUME NEW k \in 0..Request, Took(k, Request, ReadFrom, length[location])
        PROVE  ReadFrom + k \in 0..MaxLength
               /\ (k = Request => ReadFrom + Request <= MaxLength)
    <2>1. k <= (IF ReadFrom < length[location] THEN length[location] - ReadFrom ELSE 0)
      BY <1>5 DEF Took
    <2> HIDE DEF ReadFrom, Request
    <2> QED
      BY <1>2, <1>3, <1>4, <2>1
  <1>6. /\ offset' \in 0..MaxLength /\ position' \in 0..MaxLength
        /\ next' \in 0..MaxLength
    <2>1. next + Request \in 0..MaxLength
      BY <1>2, <1>3
    <2> QED
      BY <1>2, <1>5, <2>1 DEF Fill
  <1>7. buffer' \in Seq(Files \X (0..MaxLength))
    <2>1. CASE buffer' = buffer
      BY <2>1 DEF TInv, TypeOK
    <2>2. CASE /\ Took(Request, Request, ReadFrom, length[location])
               /\ buffer' = Copy!Bytes(location, ReadFrom, Request)
      <3>1. Request \in 0..Request /\ Request \in Nat /\ ReadFrom \in Nat
        BY <1>3, <1>4
      <3>2. ReadFrom + Request <= MaxLength
        BY <2>2, <1>5, <3>1
      <3> QED
        BY <2>2, <1>1, <3>1, <3>2, BytesIn
    <2> QED
      BY <2>1, <2>2 DEF Fill
  <1>8. task' \in {"running", "error"} /\ clean' \in BOOLEAN
    BY DEF Fill, Fail, TInv, TypeOK
  <1>9. offset' # None
    BY <1>6
  <1> QED
    BY <1>1, <1>6, <1>7, <1>8, <1>9 DEF TInv, TypeOK, sinkVars, bounds

LEMMA RenderTInv ==
    ASSUME TInv, Render
    PROVE  TInv'
  <1> DEFINE S == Files \X (0..MaxLength)
  <1>1. dest \in Seq(S) /\ buffer \in Seq(S)
    BY DEF TInv, TypeOK
  <1>2. \A k \in 0..(Len(buffer) - 1) : SubSeq(buffer, 1, k) \in Seq(S)
    <2> HIDE DEF S
    <2> SUFFICES ASSUME NEW k \in 0..(Len(buffer) - 1)
                 PROVE  SubSeq(buffer, 1, k) \in Seq(S)
      OBVIOUS
    <2>1. \A i \in 1..k : buffer[i] \in S
      BY <1>1
    <2> QED
      BY <1>1, <2>1, SubSeqProperties
  <1>3. dest' \in Seq(S) /\ buffer' \in Seq(S)
    <2> HIDE DEF S
    <2>1. \E s \in Seq(S) : dest' = dest \o s
      BY <1>1, <1>2 DEF Render
    <2> QED
      BY <1>1, <2>1 DEF Render
  <1>4. task' \in {"running", "error"} /\ clean' \in BOOLEAN
    BY DEF Render, Fail, TInv, TypeOK
  <1> QED
    BY <1>3, <1>4 DEF Render, TInv, TypeOK, srcVars, bounds

LEMMA NextTInv ==
    ASSUME CInv, TInv, [Next]_vars
    PROVE  TInv'
  <1> USE FileCopyAssumption
  <1>0. <<>> \in Seq(Files \X (0..MaxLength))
    OBVIOUS
  <1>1. ASSUME NEW f \in Files, SetSrcLocation(f) \/ ChangeFile(f) PROVE TInv'
    <2>1. CASE SetSrcLocation(f)
      BY <2>1 DEF SetSrcLocation, sinkVars, baseVars, bounds, TInv, TypeOK
    <2>2. CASE ChangeFile(f)
      <3>1. UNCHANGED <<srcVars, sinkVars, baseVars, clean, bounds>>
            /\ length' \in [Files -> 0..MaxLength]
        BY <2>2 DEF ChangeFile, TInv, TypeOK
      <3> QED
        BY <3>1 DEF srcVars, sinkVars, baseVars, bounds, TInv, TypeOK
    <2> QED
      BY <1>1, <2>1, <2>2
  <1>2. ASSUME SetSinkLocation \/ StartSink PROVE TInv'
    BY <1>0, <1>2 DEF SetSinkLocation, StartSink, srcVars, sinkVars, baseVars, bounds,
                      TInv, TypeOK
  <1>3. ASSUME UNCHANGED vars PROVE TInv'
    BY <1>3 DEF vars, srcVars, sinkVars, baseVars, bounds, TInv, TypeOK
  <1>4. ASSUME StartSrc PROVE TInv'
    <2>1. /\ length[location] \in 0..MaxLength /\ starts + 1 \in 0..MaxStarts
          /\ 0 \in 0..MaxLength
      BY <1>4 DEF StartSrc, TInv, TypeOK
    <2> QED
      BY <1>4, <2>1 DEF StartSrc, sinkVars, TInv, TypeOK
  <1>5. ASSUME StopSrc \/ StopSink PROVE TInv'
    <2>1. CASE StopSrc
      <3>1. started' \in BOOLEAN /\ position' \in 0..MaxLength
        <4>1. /\ 0 \in 0..MaxLength /\ started \in BOOLEAN /\ position \in 0..MaxLength
          BY DEF TInv, TypeOK
        <4>2. \/ started' = FALSE /\ position' = 0
              \/ (started' = started) /\ position' = position
          BY <2>1 DEF StopSrc
        <4> QED
          BY <4>1, <4>2
      <3>2. /\ offset' = None /\ state' = "READY" /\ task' = "stopped"
            /\ buffer' = <<>> /\ clean' = FALSE
            /\ UNCHANGED <<length, location, size, sinkVars, next, bounds>>
        BY <2>1 DEF StopSrc
      <3> QED
        BY <1>0, <3>1, <3>2 DEF sinkVars, bounds, TInv, TypeOK
    <2>2. CASE StopSink
      BY <2>2 DEF StopSink, srcVars, bounds, TInv, TypeOK
    <2> QED
      BY <1>5, <2>1, <2>2
  <1>6. ASSUME EndOfStream PROVE TInv'
    BY <1>6 DEF EndOfStream, srcVars, sinkVars, bounds, TInv, TypeOK
  <1>7. ASSUME NEW target \in 0..MaxLength, Seek(target) PROVE TInv'
    <2>1. seeks + 1 \in 0..MaxSeeks
      BY <1>7 DEF Seek, TInv, TypeOK
    <2> QED
      BY <1>0, <1>7, <2>1 DEF Seek, srcVars, sinkVars, TInv, TypeOK
  <1> QED
    BY <1>1, <1>2, <1>3, <1>4, <1>5, <1>6, <1>7, FillTInv, RenderTInv DEF Next

\* Whatever goes wrong, the position the source keeps and the offset of its open
\* file are places in a file, and what is copied are bytes of files.
THEOREM FileTyped == Spec => []TypeOK
  <1>1. CInv /\ TInv /\ [Next]_vars => CInv' /\ TInv'
    BY NextCInv, NextTInv
  <1>2. TInv => TypeOK
    BY DEF TInv
  <1> QED
    BY <1>1, <1>2, InitCInv, InitTInv, PTL DEF Spec

-----------------------------------------------------------------------------
(***************************************************************************)
(* asyncidentity (module AsyncIdentity), for any number of goroutines and  *)
(* state changes.  It shares nothing with the file elements.               *)
(***************************************************************************)
CONSTANTS Goroutines, Patient, MaxChanges

VARIABLES elementState, change, asyncPending, pc, messages, last, changes

Identity == INSTANCE AsyncIdentity WITH state <- elementState

LEMMA SameCardinality == \A S : Identity!Cardinality(S) = Cardinality(S)
  BY DEF Identity!Cardinality, Cardinality

\* The flag is set by a goroutine that has not ended, and the goroutines that
\* are still to post are as many as the messages that are missing.
AInv ==
    /\ pc \in [Goroutines -> {"none", "spawned", "waiting", "posted"}]
    /\ messages \in [start : Nat, done : Nat]
    /\ IsFiniteSet(Identity!Owing)
    /\ asyncPending => Identity!Running # {}
    /\ messages.start = messages.done + Cardinality(Identity!Owing)

LEMMA InitAInv == Identity!Init => AInv
  <1> SUFFICES ASSUME Identity!Init PROVE AInv
    OBVIOUS
  <1>1. Identity!Owing = {}
    BY DEF Identity!Init, Identity!Owing
  <1>2. IsFiniteSet({}) /\ Cardinality({}) = 0
    BY FS_EmptySet
  <1> QED
    BY <1>1, <1>2 DEF AInv, Identity!Init

\* A step of goroutine g, or the one that creates it, when it leaves the set of
\* those that are to post, enters it or does neither.
LEMMA OwingMoves ==
    ASSUME AInv, NEW g \in Goroutines, NEW p, pc' = [pc EXCEPT ![g] = p]
    PROVE  Identity!Owing' = IF p \in {"spawned", "waiting"} THEN Identity!Owing \cup {g}
                             ELSE Identity!Owing \ {g}
  BY DEF AInv, Identity!Owing

LEMMA NextAInv == AInv /\ [Identity!Next]_Identity!vars => AInv'
  <1> SUFFICES ASSUME AInv, [Identity!Next]_Identity!vars PROVE AInv'
    OBVIOUS
  <1> USE DEF AInv
  <1>1. ASSUME UNCHANGED <<pc, messages, asyncPending>> PROVE AInv'
    BY <1>1 DEF Identity!Owing, Identity!Running
  <1>2. CASE \/ UNCHANGED Identity!vars \/ Identity!NoPreroll \/ Identity!CheckForced
             \/ \E t \in Identity!Transitions : Identity!ParentChangeState(t)
    BY <1>1, <1>2 DEF Identity!vars, Identity!NoPreroll, Identity!CheckForced,
                      Identity!ParentChangeState
  <1>3. ASSUME NEW g \in Goroutines, Identity!AsyncStateChange(g) PROVE AInv'
    <2>1. /\ pc[g] = "none" /\ pc' = [pc EXCEPT ![g] = "spawned"]
          /\ messages' = [messages EXCEPT !.start = @ + 1]
          /\ asyncPending' = asyncPending
      BY <1>3 DEF Identity!AsyncStateChange
    <2>2. Identity!Owing' = Identity!Owing \cup {g} /\ g \notin Identity!Owing
      BY <2>1, OwingMoves DEF Identity!Owing
    <2>3. /\ IsFiniteSet(Identity!Owing)'
          /\ Cardinality(Identity!Owing)' = Cardinality(Identity!Owing) + 1
      BY <2>2, FS_AddElement
    <2>4. Identity!Running # {} => Identity!Running' # {}
      BY <2>1 DEF Identity!Running
    <2>5. messages'.start = messages.start + 1 /\ messages'.done = messages.done
          /\ messages' \in [start : Nat, done : Nat]
      BY <2>1
    <2>6. Cardinality(Identity!Owing) \in Nat
      BY FS_CardinalityType
    <2>7. messages'.start = messages'.done + Cardinality(Identity!Owing)'
      BY <2>3, <2>5, <2>6
    <2> QED
      BY <2>1, <2>3, <2>4, <2>5, <2>7
  <1>4. ASSUME NEW g \in Goroutines, Identity!Begin(g) PROVE AInv'
    <2>1. /\ pc[g] = "spawned" /\ pc' = [pc EXCEPT ![g] = "waiting"]
          /\ messages' = messages
      BY <1>4 DEF Identity!Begin
    <2>2. Identity!Owing' = Identity!Owing
      BY <2>1, OwingMoves DEF Identity!Owing
    <2>3. g \in Identity!Running'
      BY <2>1 DEF Identity!Running
    <2> QED
      BY <2>1, <2>2, <2>3
  <1>5. ASSUME NEW g \in Goroutines, Identity!PostDone(g) PROVE AInv'
    <2>1. /\ pc[g] = "waiting" /\ pc' = [pc EXCEPT ![g] = "posted"]
          /\ messages' = [messages EXCEPT !.done = @ + 1]
          /\ asyncPending' = asyncPending
      BY <1>5 DEF Identity!PostDone
    <2>2. Identity!Owing' = Identity!Owing \ {g} /\ g \in Identity!Owing
      BY <2>1, OwingMoves DEF Identity!Owing
    <2>3. /\ IsFiniteSet(Identity!Owing)'
          /\ Cardinality(Identity!Owing)' = Cardinality(Identity!Owing) - 1
      BY <2>2, FS_RemoveElement
    <2>4. g \in Identity!Running'
      BY <2>1 DEF Identity!Running
    <2>5. messages'.start = messages.start /\ messages'.done = messages.done + 1
          /\ messages' \in [start : Nat, done : Nat]
      BY <2>1
    <2>6. Cardinality(Identity!Owing) \in Nat
      BY FS_CardinalityType
    <2>7. messages'.start = messages'.done + Cardinality(Identity!Owing)'
      BY <2>3, <2>5, <2>6
    <2> QED
      BY <2>1, <2>3, <2>4, <2>5, <2>7
  <1>6. ASSUME NEW g \in Goroutines, Identity!End(g) PROVE AInv'
    <2>1. /\ pc[g] = "posted" /\ pc' = [pc EXCEPT ![g] = "none"]
          /\ messages' = messages /\ asyncPending' = FALSE
      BY <1>6 DEF Identity!End
    <2>2. Identity!Owing' = Identity!Owing
      BY <2>1, OwingMoves DEF Identity!Owing
    <2> QED
      BY <2>1, <2>2
  <1> QED
    BY <1>2, <1>3, <1>4, <1>5, <1>6
       DEF Identity!Next, Identity!ChangeState, Identity!Goroutine

\* However changes overlap and whatever is forced, the flag of asyncidentity is
\* set only while a goroutine is there to clear it, and for every ASYNC_START
\* without its ASYNC_DONE there is a goroutine that will post one.
THEOREM FlagOwned == Identity!Spec => []Identity!FlagHasOwner
  <1>1. AInv => Identity!FlagHasOwner
    BY SameCardinality DEF AInv, Identity!FlagHasOwner
  <1> QED
    BY InitAInv, NextAInv, <1>1, PTL DEF Identity!Spec

\* What AInv does not say about types.
ATypes ==
    /\ elementState \in Identity!States
    /\ change \in Identity!Transitions \cup {None}
    /\ asyncPending \in BOOLEAN
    /\ last.of \in Identity!Transitions \cup {None}
    /\ last.ret \in {"SUCCESS", "ASYNC", "NO_PREROLL", "FAILURE"}
    /\ changes \in 0..MaxChanges

LEMMA StepsLead ==
    /\ \A t \in Identity!Transitions : t[2] \in Identity!States
    /\ <<"READY", "PAUSED">> \in Identity!Transitions
    /\ {<<"PAUSED", "PLAYING">>, <<"PLAYING", "PAUSED">>} \subseteq Identity!Transitions
    /\ {<<"NULL", "READY">>, <<"PAUSED", "READY">>, <<"READY", "NULL">>}
         \subseteq Identity!Transitions
  BY DEF Identity!Transitions, Identity!States

LEMMA ReturnsTypes ==
    ASSUME ATypes, change \in Identity!Transitions, asyncPending' = asyncPending,
           NEW ret \in {"SUCCESS", "ASYNC", "NO_PREROLL"}, Identity!Returns(ret)
    PROVE  ATypes'
  <1>1. /\ last' = [of |-> change, ret |-> ret]
        /\ elementState' = change[2] /\ change' = None /\ changes' = changes
    BY DEF Identity!Returns
  <1>2. last'.of = change /\ last'.ret = ret /\ change[2] \in Identity!States
    BY <1>1, StepsLead
  <1> QED
    BY <1>1, <1>2 DEF ATypes

LEMMA NextATypes ==
    ASSUME ATypes, [Identity!Next]_Identity!vars, MaxChanges \in Nat
    PROVE  ATypes'
  <1>1. CASE UNCHANGED Identity!vars
    BY <1>1 DEF Identity!vars, ATypes
  <1>2. ASSUME NEW t \in Identity!Transitions, Identity!ParentChangeState(t)
        PROVE  ATypes'
    <2>1. changes' = changes + 1 /\ changes < MaxChanges
          /\ UNCHANGED <<elementState, asyncPending>>
      BY <1>2 DEF Identity!ParentChangeState
    <2>2. changes' \in 0..MaxChanges
      BY <2>1 DEF ATypes
    <2>3. \/ change' = t /\ last' = last
          \/ last' = [of |-> t, ret |-> "FAILURE"] /\ change' = change
      BY <1>2 DEF Identity!ParentChangeState
    <2>4. /\ change' \in Identity!Transitions \cup {None}
          /\ last'.of \in Identity!Transitions \cup {None}
          /\ last'.ret \in {"SUCCESS", "ASYNC", "NO_PREROLL", "FAILURE"}
      <3>1. CASE change' = t /\ last' = last
        BY <3>1 DEF ATypes
      <3>2. CASE last' = [of |-> t, ret |-> "FAILURE"] /\ change' = change
        <4>1. last'.of = t /\ last'.ret = "FAILURE"
          BY <3>2
        <4> QED
          BY <3>2, <4>1 DEF ATypes
      <3> QED
        BY <2>3, <3>1, <3>2
    <2> QED
      BY <2>1, <2>2, <2>4 DEF ATypes
  <1>3. CASE Identity!NoPreroll
    BY <1>3, StepsLead, ReturnsTypes DEF Identity!NoPreroll
  <1>4. CASE Identity!CheckForced
    <2>1. PICK ret \in {"SUCCESS", "ASYNC"} : Identity!Returns(ret)
      BY <1>4 DEF Identity!CheckForced
    <2> QED
      BY <1>4, <2>1, StepsLead, ReturnsTypes DEF Identity!CheckForced
  <1>5. ASSUME NEW g \in Goroutines, Identity!AsyncStateChange(g) PROVE ATypes'
    BY <1>5, StepsLead, ReturnsTypes DEF Identity!AsyncStateChange
  <1>6. ASSUME NEW g \in Goroutines, Identity!Goroutine(g) PROVE ATypes'
    <2>1. /\ UNCHANGED <<elementState, change, last, changes>>
          /\ (asyncPending' = TRUE) \/ (asyncPending' = FALSE)
               \/ (asyncPending' = asyncPending)
      BY <1>6 DEF Identity!Goroutine, Identity!Begin, Identity!PostDone, Identity!End
    <2>2. asyncPending' \in BOOLEAN
      BY <2>1 DEF ATypes
    <2> QED
      BY <2>1, <2>2 DEF ATypes
  <1> QED
    BY <1>1, <1>2, <1>3, <1>4, <1>5, <1>6 DEF Identity!Next, Identity!ChangeState

\* asyncidentity goes from state to state one step at a time, with at most the
\* state changes the bound allows.
THEOREM IdentityTyped ==
    ASSUME MaxChanges \in Nat PROVE Identity!Spec => []Identity!TypeOK
  <1>1. Identity!Init => ATypes
    <2> SUFFICES ASSUME Identity!Init PROVE ATypes
      OBVIOUS
    <2>1. last.of = None /\ last.ret = "SUCCESS" /\ 0 \in 0..MaxChanges
      BY DEF Identity!Init
    <2> QED
      BY <2>1 DEF Identity!Init, Identity!States, ATypes
  <1>2. ATypes /\ [Identity!Next]_Identity!vars => ATypes'
    BY NextATypes
  <1>3. AInv /\ ATypes => Identity!TypeOK
    BY DEF AInv, ATypes, Identity!TypeOK
  <1>4. AInv /\ [Identity!Next]_Identity!vars => AInv'
    BY NextAInv
  <1> QED
    BY <1>1, <1>2, <1>3, <1>4, InitAInv, PTL DEF Identity!Spec
=============================================================================
