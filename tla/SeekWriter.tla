----------------------------- MODULE SeekWriter -----------------------------
(***************************************************************************)
(* The writer behind the minio sink: parts of an object are kept in memory *)
(* and uploaded when they are full, flushed or closed; parts that were     *)
(* uploaded are fetched again when a seek goes back to them; closing       *)
(* composes the object from its parts.  The sink calls the writer under    *)
(* one mutex, so an operation is one step; what an operation does depends  *)
(* on which requests to the object store fail and on the random order in   *)
(* which flush walks its map.                                              *)
(*                                                                         *)
(* A checksum is modelled by the content it stands for.  A write is n > 0  *)
(* bytes of one value; the zero byte is what make and gaps leave.          *)
(***************************************************************************)
EXTENDS Naturals, Sequences, FiniteSets

CONSTANTS
    PartSize,     \* size of the parts
    MaxSize,      \* bound on the positions that are written
    Values,       \* bytes that are written
    Lengths,      \* lengths of writes
    Gaps,         \* TRUE: seeks go beyond the end
    Reuse,        \* TRUE: the sink goes on after EOS
    Failures,     \* TRUE: requests to the store may fail
    LateFailures, \* TRUE: a failed upload may have reached the store
    NoObject      \* nothing was published

ASSUME SeekWriterAssumption ==
    /\ PartSize \in Nat \ {0} /\ MaxSize \in Nat
    /\ Values \subseteq Nat /\ Lengths \subseteq Nat \ {0}
    /\ {Gaps, Reuse, Failures, LateFailures} \subseteq BOOLEAN

VARIABLES
    currentPosition,
    parts,          \* [part in memory -> its bytes]
    uploadedParts,  \* [part -> checksum of its last upload]
    store,          \* [part -> bytes in the object store]
    object,         \* the composed object
    closed,         \* the object was composed
    err             \* how the last operation ended: "no" error, a request was
                    \* "refused", or a part was "missing"

vars == <<currentPosition, parts, uploadedParts, store, object, closed, err>>

Parts == 0 .. MaxSize \div PartSize
Bytes == Values \cup {0}
Contents == UNION {[1 .. n -> Bytes] : n \in 0 .. PartSize}
Tables == UNION {[S -> Contents] : S \in SUBSET Parts}

Open == ~closed \/ Reuse

Larger(m, n) == IF m > n THEN m ELSE n
Smaller(m, n) == IF m < n THEN m ELSE n

\* f, with the values of g where g is defined.
Update(f, g) ==
    [q \in DOMAIN f \cup DOMAIN g |-> IF q \in DOMAIN g THEN g[q] ELSE f[q]]

Without(f, S) == [q \in DOMAIN f \ S |-> f[q]]
Only(f, S) == [q \in S |-> f[q]]

-----------------------------------------------------------------------------
\* What buffer finds or fetches of a part before it writes to it.
Base(q) ==
    IF q \in DOMAIN parts THEN parts[q]
    ELSE IF q \in DOMAIN uploadedParts THEN store[q] ELSE <<>>

\* Fault: a write across parts leaves the last byte of a part out.
Grown_OffByOne(q, end) ==
    Larger(Len(Base(q)),
           IF end - q * PartSize > PartSize THEN PartSize - 1 ELSE end - q * PartSize)

\* Length of part q when bytes up to end are written: it grows to the data's
\* end or to a full part, and never shrinks.
Grown(q, end) == Larger(Len(Base(q)), Smaller(PartSize, end - q * PartSize))

\* Fault: a new buffer does not take the old bytes over.
Written_Cleared(q, start, end, v) ==
    [i \in 1 .. Grown(q, end) |->
       IF q * PartSize + i - 1 \in start .. end - 1 THEN v ELSE 0]

\* Part q with v at the positions from start up to end.
Written(q, start, end, v) ==
    [i \in 1 .. Grown(q, end) |->
       IF q * PartSize + i - 1 \in start .. end - 1 THEN v
       ELSE IF i <= Len(Base(q)) THEN Base(q)[i] ELSE 0]

\* The parts that hold the n bytes from start.
Touched(start, n) == start \div PartSize .. (start + n - 1) \div PartSize

MustFetch(q) == q \notin DOMAIN parts /\ q \in DOMAIN uploadedParts

\* buffer: parts in memory after writing to the parts in Q.
Buffered(Q, n, v) ==
    Update(parts, [q \in Q |-> Written(q, currentPosition, currentPosition + n, v)])

-----------------------------------------------------------------------------
\* flush: the parts uploadPart has to put, full ones or all, whose checksum
\* has changed.
ToUpload(P, all) ==
    {q \in DOMAIN P :
        /\ all \/ Len(P[q]) = PartSize
        /\ ~(q \in DOMAIN uploadedParts /\ uploadedParts[q] = P[q])}

\* Fault: a failed upload is recorded.
Uploaded_Early(P, U, f) == Update(uploadedParts, Only(P, U \cup f))

\* Checksums after the uploads U, when the upload f (one or none) failed.
Uploaded(P, U, f) == Update(uploadedParts, Only(P, U))

\* The uploads U of flush have succeeded; parts leave memory.
Flushed(P, U, f) ==
    /\ parts' = Without(P, U)
    /\ uploadedParts' = Uploaded(P, U, f)
    /\ \/ store' = Update(store, Only(P, U))
       \/ LateFailures /\ store' = Update(store, Only(P, U \cup f))

FlushOK(P, all) == Flushed(P, ToUpload(P, all), {})

\* An upload fails after any others, as the map is walked in random order.
FlushFails(P, all) ==
    /\ Failures
    /\ \E f \in ToUpload(P, all) : \E U \in SUBSET (ToUpload(P, all) \ {f}) :
         Flushed(P, U, {f})

-----------------------------------------------------------------------------
\* Write: all bytes are buffered, and full parts are flushed.
WriteOK(n, v) ==
    LET Q == Touched(currentPosition, n)
    IN  /\ \A q \in Q : MustFetch(q) => q \in DOMAIN store
        /\ currentPosition' = currentPosition + n
        /\ \/ FlushOK(Buffered(Q, n, v), FALSE) /\ err' = "no"
           \/ FlushFails(Buffered(Q, n, v), FALSE) /\ err' = "refused"

\* Write: the part f cannot be fetched; what comes before it is buffered.
WriteFails(n, v) ==
    \E f \in Touched(currentPosition, n) :
        LET Q == {q \in Touched(currentPosition, n) : q < f}
        IN  /\ MustFetch(f) /\ (Failures \/ f \notin DOMAIN store)
            /\ \A q \in Q : MustFetch(q) => q \in DOMAIN store
            /\ parts' = Buffered(Q, n, v)
            /\ currentPosition' = Larger(currentPosition, f * PartSize)
            /\ err' = IF f \in DOMAIN store THEN "refused" ELSE "missing"
            /\ UNCHANGED <<uploadedParts, store>>

\* Render of the sink.
Write(n, v) ==
    /\ Open
    /\ currentPosition + n <= MaxSize
    /\ WriteOK(n, v) \/ WriteFails(n, v)
    /\ UNCHANGED <<object, closed>>

\* Where part q ends, in memory or uploaded; 0 for a part that is neither.
End(q) ==
    LET held == IF q \in DOMAIN parts THEN Len(parts[q])
                ELSE IF q \in DOMAIN uploadedParts /\ q \in DOMAIN store
                THEN Len(store[q]) ELSE 0
    IN  IF held = 0 THEN 0 ELSE q * PartSize + held

Size == CHOOSE s \in {End(q) : q \in Parts} : \A q \in Parts : End(q) <= s

\* A segment event in bytes, when it starts somewhere else.
Seek(p) ==
    /\ Open
    /\ Gaps \/ p <= Size
    /\ p # currentPosition
    /\ currentPosition' = p
    /\ err' = "no"
    /\ UNCHANGED <<parts, uploadedParts, store, object, closed>>

\* Flush stop: everything is uploaded and the position goes back to 0.
FlushStop ==
    /\ Open
    /\ currentPosition # 0
    /\ \/ FlushOK(parts, TRUE) /\ currentPosition' = 0 /\ err' = "no"
       \/ FlushFails(parts, TRUE) /\ UNCHANGED currentPosition /\ err' = "refused"
    /\ UNCHANGED <<object, closed>>

\* Fault: one part too many is composed.
CloseFails_OneMore ==
    /\ Open
    /\ FlushOK(parts, TRUE)
    /\ DOMAIN uploadedParts' # {}
    /\ ~(0 .. Cardinality(DOMAIN uploadedParts') \subseteq DOMAIN store')
    /\ err' = "missing"
    /\ UNCHANGED <<currentPosition, object, closed>>

\* Close when flush fails, when there is nothing to compose, or when the
\* composition fails: a part is missing or the request is refused.
CloseFails ==
    /\ Open
    /\ \/ FlushFails(parts, TRUE) /\ err' = "refused"
       \/ /\ FlushOK(parts, TRUE)
          /\ \/ DOMAIN uploadedParts' = {} /\ err' = "no"
             \/ /\ DOMAIN uploadedParts' # {}
                /\ \/ Failures /\ err' = "refused"
                   \/ /\ ~(0 .. Cardinality(DOMAIN uploadedParts') - 1 \subseteq DOMAIN store')
                      /\ err' = "missing"
    /\ UNCHANGED <<currentPosition, object, closed>>

\* The parts 0 .. n - 1 one after the other.
Concat(s, n) ==
    LET upto[k \in 0 .. n] == IF k = 0 THEN <<>> ELSE upto[k - 1] \o s[k - 1]
    IN  upto[n]

\* Close: as many parts as were uploaded, from part 0 on, are composed and
\* then removed, until a removal fails.
CloseOK ==
    /\ Open
    /\ parts' = Without(parts, ToUpload(parts, TRUE))
    /\ uploadedParts' = Uploaded(parts, ToUpload(parts, TRUE), {})
    /\ LET n == Cardinality(DOMAIN uploadedParts')
           full == Update(store, Only(parts, ToUpload(parts, TRUE)))
       IN  /\ n > 0 /\ 0 .. n - 1 \subseteq DOMAIN full
           /\ object' = Concat(full, n)
           /\ \E removed \in IF Failures THEN 0 .. n ELSE {n} :
                /\ store' = Without(full, 0 .. removed - 1)
                /\ err' = IF removed < n THEN "refused" ELSE "no"
    /\ closed' = TRUE
    /\ UNCHANGED currentPosition

-----------------------------------------------------------------------------
Empty == [q \in {} |-> <<>>]

Init ==
    /\ currentPosition = 0
    /\ parts = Empty /\ uploadedParts = Empty /\ store = Empty
    /\ object = NoObject /\ closed = FALSE /\ err = "no"

Next ==
    \/ \E n \in Lengths, v \in Values : Write(n, v)
    \/ \E p \in 0 .. MaxSize : Seek(p)
    \/ FlushStop \/ CloseFails \/ CloseOK

Spec == Init /\ [][Next]_vars

-----------------------------------------------------------------------------
\* Parts are never larger than the part size and keep to what was uploaded.
TypeOK ==
    /\ currentPosition \in 0 .. MaxSize
    /\ parts \in Tables /\ uploadedParts \in Tables /\ store \in Tables
    /\ closed \in BOOLEAN /\ err \in {"no", "refused", "missing"}
    /\ object = NoObject \/ \E n \in 0 .. MaxSize : object \in [1 .. n -> Bytes]

\* The store has the parts the writer remembers as uploaded, with the checksums
\* it remembers (line 21), whichever uploads and fetches failed.
UploadsStored ==
    ~closed => \A q \in DOMAIN uploadedParts :
                  q \in DOMAIN store /\ store[q] = uploadedParts[q]

\* Buffering, flushing and closing never ask the store for a part that is not
\* there, whatever was refused before (lines 60-65, 95-97).
NothingMissing == err # "missing"

\* Only the last part is short, so parts can be composed (lines 104-114).
OnlyLastShort ==
    ~closed => \A q \in Parts : End(q) > 0 =>
                  \A r \in 0 .. q - 1 : End(r) = (r + 1) * PartSize

\* The byte at a position, from memory or from the store.
ByteAt(i) ==
    LET q == i \div PartSize
        k == (i % PartSize) + 1
    IN  IF q \in DOMAIN parts
        THEN IF k <= Len(parts[q]) THEN parts[q][k] ELSE 0
        ELSE IF q \in DOMAIN uploadedParts /\ q \in DOMAIN store /\ k <= Len(store[q])
        THEN store[q][k] ELSE 0

File == INSTANCE SeekableFile WITH
    data <- [i \in 0 .. MaxSize - 1 |-> IF closed THEN 0 ELSE ByteAt(i)],
    size <- IF closed THEN 0 ELSE Size,
    pos <- currentPosition

\* A stream written with seeks and rewrites is published as it was written,
\* whatever is in memory, in the store or both, and whatever fails
\* (miniosink.go:46, "Write stream to a MinIO object").
ImplementsFile == File!Spec
=============================================================================
