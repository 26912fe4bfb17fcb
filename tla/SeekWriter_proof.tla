-------------------------- MODULE SeekWriter_proof --------------------------
(***************************************************************************)
(* Proofs about module SeekWriter, for parts and objects of any size and   *)
(* any writes.                                                             *)
(***************************************************************************)
EXTENDS SeekWriter, Integers, FiniteSetTheorems, SequenceTheorems, TLAPS

\* The store has what the writer remembers, whatever was refused: checksums are
\* recorded after an upload, and nothing else changes the store.
LEMMA FlushStored ==
    ASSUME UploadsStored, ~closed, ~LateFailures, NEW P, NEW U \in SUBSET DOMAIN P, NEW f,
           Flushed(P, U, f)
    PROVE  \A q \in DOMAIN uploadedParts' :
              q \in DOMAIN store' /\ store'[q] = uploadedParts'[q]
  <1>1. /\ uploadedParts' = Update(uploadedParts, Only(P, U))
        /\ store' = Update(store, Only(P, U))
    BY DEF Flushed, Uploaded
  <1> QED
    BY <1>1 DEF UploadsStored, Update, Only

LEMMA ToUploadIn ==
    ASSUME NEW P, NEW all
    PROVE  ToUpload(P, all) \subseteq DOMAIN P
  BY DEF ToUpload

\* What flush does when it is done, or when an upload failed.
LEMMA FlushMoves ==
    ASSUME NEW P, NEW all, FlushOK(P, all) \/ FlushFails(P, all)
    PROVE  \E U \in SUBSET DOMAIN P : \E f : Flushed(P, U, f)
  BY ToUploadIn DEF FlushOK, FlushFails

LEMMA InitStored == Init => UploadsStored
  BY DEF Init, Empty, UploadsStored

LEMMA NextStored ==
    ASSUME UploadsStored, [Next]_vars, ~LateFailures
    PROVE  UploadsStored'
  <1> SUFFICES ASSUME ~closed' PROVE UploadsStored'
    BY DEF UploadsStored
  <1>1. CASE UNCHANGED vars
    BY <1>1 DEF vars, UploadsStored
  <1>2. CASE closed
    BY <1>2 DEF Next, vars, Write, Seek, FlushStop, CloseFails, CloseOK
  <1>3. ASSUME ~closed, NEW P, NEW all, FlushOK(P, all) \/ FlushFails(P, all)
        PROVE  UploadsStored'
    BY <1>3, FlushMoves, FlushStored DEF UploadsStored
  <1>4. ASSUME UNCHANGED <<uploadedParts, store>>, ~closed PROVE UploadsStored'
    BY <1>4 DEF UploadsStored
  <1>5. ASSUME ~closed, NEW n \in Lengths, NEW v \in Values, Write(n, v) PROVE UploadsStored'
    BY <1>3, <1>4, <1>5 DEF Write, WriteOK, WriteFails
  <1>6. ASSUME ~closed, NEW p \in 0 .. MaxSize, Seek(p) PROVE UploadsStored'
    BY <1>4, <1>6 DEF Seek
  <1>7. CASE ~closed /\ (FlushStop \/ CloseFails)
    BY <1>3, <1>7 DEF FlushStop, CloseFails
  <1>8. CASE CloseOK
    BY <1>8 DEF CloseOK
  <1> QED
    BY <1>1, <1>2, <1>5, <1>6, <1>7, <1>8 DEF Next

\* Until the object is published the store has every part the writer remembers
\* as uploaded, with the checksum it remembers.  It takes a store that refuses
\* the uploads it reports as failed.
THEOREM UploadsInStore ==
    ASSUME ~LateFailures
    PROVE  Spec => []UploadsStored
  <1>1. UploadsStored /\ [Next]_vars => UploadsStored'
    BY NextStored
  <1> QED
    BY InitStored, <1>1, PTL DEF Spec

-----------------------------------------------------------------------------
(***************************************************************************)
(* Numbers.                                                                *)
(***************************************************************************)

\* Where a part begins and ends.
LEMMA PartOf ==
    ASSUME NEW i \in Nat
    PROVE  /\ i \div PartSize \in Nat
           /\ (i \div PartSize) * PartSize <= i
           /\ i < (i \div PartSize) * PartSize + PartSize
  BY SeekWriterAssumption

LEMMA PartsFollow ==
    ASSUME NEW q \in Nat, NEW r \in Nat, q < r
    PROVE  q * PartSize + PartSize <= r * PartSize
  BY SeekWriterAssumption

LEMMA PartStart ==
    ASSUME NEW q \in Nat
    PROVE  q * PartSize \in Nat
  BY SeekWriterAssumption

\* The part a position is in.
LEMMA PartUnique ==
    ASSUME NEW i \in Nat, NEW q \in Nat, q * PartSize <= i, i < q * PartSize + PartSize
    PROVE  i \div PartSize = q /\ i % PartSize = i - q * PartSize
  <1>1. PartSize \in Nat \ {0} /\ q * PartSize \in Nat
    BY SeekWriterAssumption, PartStart
  <1>2. i \div PartSize = q
    <2>1. /\ i \div PartSize \in Nat /\ (i \div PartSize) * PartSize <= i
          /\ i < (i \div PartSize) * PartSize + PartSize
          /\ (i \div PartSize) * PartSize \in Nat
      BY PartOf, PartStart
    <2>2. ~(i \div PartSize < q)
      <3>1. ASSUME i \div PartSize < q PROVE FALSE
        <4>1. (i \div PartSize) * PartSize + PartSize <= q * PartSize
          BY <2>1, <3>1, PartsFollow
        <4> QED
          BY <1>1, <2>1, <4>1
      <3> QED
        BY <3>1
    <2>3. ~(q < i \div PartSize)
      <3>1. ASSUME q < i \div PartSize PROVE FALSE
        <4>1. q * PartSize + PartSize <= (i \div PartSize) * PartSize
          BY <2>1, <3>1, PartsFollow
        <4> QED
          BY <1>1, <2>1, <4>1
      <3> QED
        BY <3>1
    <2> QED
      BY <2>1, <2>2, <2>3
  <1>3. i % PartSize = i - PartSize * (i \div PartSize)
    BY <1>1
  <1>4. PartSize * q = q * PartSize
    BY <1>1
  <1> QED
    BY <1>2, <1>3, <1>4

LEMMA PartsAre ==
    ASSUME NEW q \in Nat
    PROVE  q \in Parts <=> q * PartSize <= MaxSize
  <1>1. MaxSize \in Nat /\ PartSize \in Nat \ {0} /\ q * PartSize \in Nat
    BY SeekWriterAssumption, PartStart
  <1>2. /\ MaxSize \div PartSize \in Nat
        /\ (MaxSize \div PartSize) * PartSize \in Nat
        /\ (MaxSize \div PartSize) * PartSize <= MaxSize
        /\ MaxSize < (MaxSize \div PartSize) * PartSize + PartSize
    BY <1>1, PartOf, PartStart
  <1>3. CASE q <= MaxSize \div PartSize
    <2>1. q * PartSize <= (MaxSize \div PartSize) * PartSize
      <3>1. CASE q < MaxSize \div PartSize
        <4>1. q * PartSize + PartSize <= (MaxSize \div PartSize) * PartSize
          BY <1>2, <3>1, PartsFollow
        <4> QED
          BY <1>1, <1>2, <4>1
      <3>2. CASE q = MaxSize \div PartSize
        BY <1>1, <3>2
      <3> QED
        BY <1>2, <1>3, <3>1, <3>2
    <2>2. q \in Parts
      BY <1>2, <1>3 DEF Parts
    <2> QED
      BY <1>1, <1>2, <2>1, <2>2
  <1>4. CASE MaxSize \div PartSize < q
    <2>1. (MaxSize \div PartSize) * PartSize + PartSize <= q * PartSize
      BY <1>2, <1>4, PartsFollow
    <2>2. ~(q * PartSize <= MaxSize)
      BY <1>1, <1>2, <2>1
    <2>3. q \notin Parts
      BY <1>2, <1>4 DEF Parts
    <2> QED
      BY <2>2, <2>3
  <1> QED
    BY <1>2, <1>3, <1>4

\* The parts n bytes from start are in.
LEMMA TouchedAre ==
    ASSUME NEW start \in Nat, NEW n \in Nat \ {0}, NEW q \in Nat
    PROVE  q \in Touched(start, n) <=>
             q * PartSize < start + n /\ start < q * PartSize + PartSize
  <1> DEFINE first == start \div PartSize
             last == (start + n - 1) \div PartSize
  <1>1. PartSize \in Nat \ {0} /\ q * PartSize \in Nat /\ start + n - 1 \in Nat
    BY SeekWriterAssumption, PartStart
  <1>2. /\ first \in Nat /\ first * PartSize \in Nat
        /\ first * PartSize <= start /\ start < first * PartSize + PartSize
    BY PartOf, PartStart
  <1>3. /\ last \in Nat /\ last * PartSize \in Nat
        /\ last * PartSize <= start + n - 1
        /\ start + n - 1 < last * PartSize + PartSize
    BY <1>1, PartOf, PartStart
  <1>4. q \in Touched(start, n) <=> first <= q /\ q <= last
    <2>1. q \in Touched(start, n) <=> q \in first .. last
      BY DEF Touched
    <2> HIDE DEF first, last
    <2> QED
      BY <1>2, <1>3, <2>1
  <1> HIDE DEF first, last
  <1>5. first <= q <=> start < q * PartSize + PartSize
    <2>1. CASE q < first
      <3>1. q * PartSize + PartSize <= first * PartSize
        BY <1>2, <2>1, PartsFollow
      <3> QED
        BY <1>1, <1>2, <2>1, <3>1
    <2>2. CASE first = q
      BY <1>2, <2>2
    <2>3. CASE first < q
      <3>1. first * PartSize + PartSize <= q * PartSize
        BY <1>2, <2>3, PartsFollow
      <3> QED
        BY <1>1, <1>2, <2>3, <3>1
    <2> QED
      BY <1>2, <2>1, <2>2, <2>3
  <1>6. q <= last <=> q * PartSize < start + n
    <2>1. CASE last < q
      <3>1. last * PartSize + PartSize <= q * PartSize
        BY <1>3, <2>1, PartsFollow
      <3> QED
        BY <1>1, <1>3, <2>1, <3>1
    <2>2. CASE last = q
      BY <1>1, <1>3, <2>2
    <2>3. CASE q < last
      <3>1. q * PartSize + PartSize <= last * PartSize
        BY <1>3, <2>3, PartsFollow
      <3> QED
        BY <1>1, <1>3, <2>3, <3>1
    <2> QED
      BY <1>3, <2>1, <2>2, <2>3
  <1> QED
    BY <1>4, <1>5, <1>6

\* Numbers with all smaller ones are the first so many.
LEMMA FirstNumbers ==
    ASSUME NEW S \in SUBSET Nat, NEW N \in Nat, S \subseteq 0 .. N,
           \A k \in S : \A j \in 0 .. k - 1 : j \in S
    PROVE  /\ IsFiniteSet(S) /\ Cardinality(S) \in Nat
           /\ S = 0 .. Cardinality(S) - 1
  <1> DEFINE c == Cardinality(S)
  <1>1. IsFiniteSet(0 .. N)
    BY FS_Interval
  <1>2. IsFiniteSet(S) /\ c \in Nat
    BY <1>1, FS_Subset, FS_CardinalityType
  <1> HIDE DEF c
  <1>3. ASSUME NEW j \in 0 .. c - 1 PROVE j \in S
    <2> SUFFICES ASSUME j \notin S PROVE FALSE
      OBVIOUS
    <2>1. S \subseteq 0 .. j - 1
      <3> SUFFICES ASSUME NEW k \in S PROVE k \in 0 .. j - 1
        OBVIOUS
      <3>1. k \in Nat /\ j \in Nat
        BY <1>2
      <3>2. ~(j <= k)
        BY <3>1
      <3> QED
        BY <3>1, <3>2
    <2>2. IsFiniteSet(0 .. j - 1) /\ Cardinality(0 .. j - 1) = j
      BY <1>2, FS_Interval
    <2>3. S \in SUBSET (0 .. j - 1)
      BY <2>1
    <2>4. Cardinality(S) <= Cardinality(0 .. j - 1)
      BY <2>2, <2>3, FS_Subset
    <2> QED
      BY <1>2, <2>2, <2>4 DEF c
  <1>4. Cardinality(0 .. c - 1) = c /\ IsFiniteSet(0 .. c - 1)
    BY <1>2, FS_Interval
  <1>5. 0 .. c - 1 = S
    BY <1>2, <1>3, <1>4, FS_Subset DEF c
  <1> QED
    BY <1>2, <1>5 DEF c

\* Induction up to n.
LEMMA UpTo ==
    ASSUME NEW n \in Nat, NEW S \in SUBSET (0 .. n), 0 \in S,
           \A k \in S : k < n => k + 1 \in S
    PROVE  S = 0 .. n
  <1> DEFINE D == {k \in 0 .. n : \A j \in 0 .. k : j \in S}
             c == Cardinality(D)
  <1>1. c \in Nat /\ D = 0 .. c - 1
    <2>1. \A k \in D : \A j \in 0 .. k - 1 : j \in D
      OBVIOUS
    <2>2. D \subseteq 0 .. n /\ D \in SUBSET Nat
      OBVIOUS
    <2> HIDE DEF D
    <2> QED
      BY <2>1, <2>2, FirstNumbers
  <1>2. 0 \in D
    OBVIOUS
  <1>3. ASSUME c <= n PROVE FALSE
    <2>1. c - 1 \in D /\ c \notin D /\ c > 0
      <3> HIDE DEF D, c
      <3> QED
        BY <1>1, <1>2
    <2>2. c \in S
      BY <1>1, <1>3, <2>1
    <2>3. \A j \in 0 .. c : j \in S
      BY <1>1, <2>1, <2>2
    <2> QED
      BY <1>1, <1>3, <2>1, <2>3
  <1>4. n \in D
    <2> HIDE DEF D, c
    <2> QED
      BY <1>1, <1>3
  <1> QED
    BY <1>4

-----------------------------------------------------------------------------
(***************************************************************************)
(* The parts follow each other, as long as seeks stay in the object.       *)
(***************************************************************************)

\* A part has a byte, and not more than a part holds.
Table(t) ==
    /\ DOMAIN t \subseteq Parts
    /\ \A q \in DOMAIN t : t[q] \in Seq(Bytes) /\ Len(t[q]) \in 1 .. PartSize

\* Part q when the parts in memory are those of P.
In(P, q) ==
    IF q \in DOMAIN P THEN P[q]
    ELSE IF q \in DOMAIN uploadedParts THEN store[q] ELSE <<>>

Known(P) == DOMAIN P \cup DOMAIN uploadedParts

\* Before a part that is known all parts are known, and full.
Chain(P) ==
    \A q \in Known(P) : \A r \in 0 .. q - 1 :
        r \in Known(P) /\ Len(In(P, r)) = PartSize

\* The position p is not beyond the end.
Reaches(P, p) == p = 0 \/ \E q \in Known(P) : p <= q * PartSize + Len(In(P, q))

Tables_OK == Table(parts) /\ Table(uploadedParts) /\ UploadsStored

\* Why a part can always be composed: parts are only ever written in the object
\* or right behind it.
IInv ==
    ~closed => /\ Tables_OK
               /\ currentPosition \in Nat /\ currentPosition <= MaxSize
               /\ Chain(parts)
               /\ Reaches(parts, currentPosition)

LEMMA BaseIsIn == ASSUME NEW q PROVE Base(q) = In(parts, q)
  BY DEF Base, In

\* What a part is like.
LEMMA KnownParts ==
    ASSUME Table(uploadedParts), UploadsStored, ~closed, NEW P, Table(P)
    PROVE  /\ Known(P) \subseteq Parts /\ Parts \subseteq Nat
           /\ \A q \in Known(P) : In(P, q) \in Seq(Bytes) /\ Len(In(P, q)) \in 1 .. PartSize
           /\ \A q : q \notin Known(P) => In(P, q) = <<>>
  BY DEF Table, Known, In, UploadsStored, Parts

-----------------------------------------------------------------------------
\* flush leaves the bytes of every part as they were.
LEMMA FlushKeeps ==
    ASSUME Table(uploadedParts), UploadsStored, ~closed, ~closed', ~LateFailures,
           NEW P, Table(P), NEW all, FlushOK(P, all) \/ FlushFails(P, all)
    PROVE  /\ Table(parts)' /\ Table(uploadedParts)' /\ UploadsStored'
           /\ Known(parts)' = Known(P)
           /\ \A q : Base(q)' = In(P, q)
  <1>0. PICK U \in SUBSET DOMAIN P : \E f : Flushed(P, U, f)
    BY FlushMoves
  <1>1. PICK f : Flushed(P, U, f)
    BY <1>0
  <1>2. UploadsStored'
    BY <1>1, FlushStored DEF UploadsStored
  <1>3. /\ parts' = Without(P, U)
        /\ uploadedParts' = Update(uploadedParts, Only(P, U))
        /\ store' = Update(store, Only(P, U))
    BY <1>1 DEF Flushed, Uploaded
  <1>4. /\ DOMAIN parts' = DOMAIN P \ U
        /\ \A q \in DOMAIN P \ U : parts'[q] = P[q]
        /\ DOMAIN uploadedParts' = DOMAIN uploadedParts \cup U
        /\ \A q \in U : uploadedParts'[q] = P[q] /\ store'[q] = P[q]
        /\ \A q \in DOMAIN uploadedParts \ U : uploadedParts'[q] = uploadedParts[q]
        /\ \A q \in DOMAIN store \ U : store'[q] = store[q]
    BY <1>3 DEF Without, Update, Only
  <1>5. Table(parts)' /\ Table(uploadedParts)'
    <2>1. Table(parts)'
      BY <1>4 DEF Table
    <2>2. Table(uploadedParts)'
      BY <1>4 DEF Table
    <2> QED
      BY <2>1, <2>2
  <1>6. Known(parts)' = Known(P)
    BY <1>4 DEF Known
  <1>7. ASSUME NEW q PROVE Base(q)' = In(P, q)
    <2>1. CASE q \in U
      BY <1>4, <2>1 DEF Base, In
    <2>2. CASE q \in DOMAIN P \ U
      BY <1>4, <2>2 DEF Base, In
    <2>3. CASE q \notin DOMAIN P
      BY <1>4, <2>3 DEF Base, In, UploadsStored
    <2> QED
      BY <2>1, <2>2, <2>3
  <1> QED
    BY <1>2, <1>5, <1>6, <1>7

\* Where n bytes from the position go, before part m.
Target(n, m) == {q \in Touched(currentPosition, n) : q < m}

LEMMA TargetAre ==
    ASSUME currentPosition \in Nat, NEW n \in Nat \ {0}, NEW m \in Nat
    PROVE  /\ Target(n, m) \subseteq Nat
           /\ \A q \in Nat : q \in Target(n, m) <=>
                /\ q * PartSize < currentPosition + n
                /\ currentPosition < q * PartSize + PartSize
                /\ q < m
  <1>1. Touched(currentPosition, n) \subseteq Nat
    <2>1. currentPosition \div PartSize \in Nat
      BY PartOf
    <2>2. currentPosition + n - 1 \in Nat
      OBVIOUS
    <2>3. (currentPosition + n - 1) \div PartSize \in Nat
      BY <2>2, PartOf
    <2> QED
      BY <2>1, <2>3 DEF Touched
  <1>2. \A q \in Nat : q \in Touched(currentPosition, n) <=>
             q * PartSize < currentPosition + n /\ currentPosition < q * PartSize + PartSize
    BY TouchedAre
  <1> QED
    BY <1>1, <1>2 DEF Target

\* The length of a part that is written to.
LEMMA GrownIs ==
    ASSUME Tables_OK, ~closed, currentPosition \in Nat, NEW n \in Nat \ {0},
           NEW m \in Nat, NEW q \in Target(n, m)
    PROVE  LET end == currentPosition + n
               g == Grown(q, end)
           IN  /\ g \in 1 .. PartSize
               /\ g >= Len(Base(q))
               /\ end >= q * PartSize + PartSize => g = PartSize
               /\ end < q * PartSize + PartSize /\ Len(Base(q)) < g
                    => g = end - q * PartSize
               /\ end < q * PartSize + PartSize => g >= end - q * PartSize
  <1> DEFINE end == currentPosition + n
             g == Grown(q, end)
             l == Len(Base(q))
             s == q * PartSize
  <1>1. PartSize \in Nat \ {0} /\ q \in Nat /\ s \in Nat /\ end \in Nat
    BY SeekWriterAssumption, TargetAre, PartStart
  <1>2. s < end
    BY <1>1, TargetAre
  <1>3. l \in 0 .. PartSize
    <2>1. Known(parts) \subseteq Parts /\ Parts \subseteq Nat
      BY KnownParts DEF Tables_OK
    <2>2. CASE q \in Known(parts)
      <3>1. l \in 1 .. PartSize
        BY <2>2, KnownParts, BaseIsIn DEF Tables_OK
      <3> QED
        BY <1>1, <3>1
    <2>3. CASE q \notin Known(parts)
      <3>1. Base(q) = <<>>
        BY <2>3, KnownParts, BaseIsIn DEF Tables_OK
      <3> QED
        BY <1>1, <3>1
    <2> QED
      BY <2>2, <2>3
  <1>4. g = IF l > (IF PartSize < end - s THEN PartSize ELSE end - s)
            THEN l ELSE IF PartSize < end - s THEN PartSize ELSE end - s
    BY DEF Grown, Larger, Smaller
  <1> HIDE DEF end, l, s
  <1>5. /\ g \in 1 .. PartSize /\ g >= l
        /\ end >= s + PartSize => g = PartSize
        /\ end < s + PartSize /\ l < g => g = end - s
        /\ end < s + PartSize => g >= end - s
    <2> HIDE DEF g
    <2> QED
      BY <1>1, <1>2, <1>3, <1>4
  <1> QED
    BY <1>5 DEF end, l, s

\* What is in memory after writing to the parts before m.
LEMMA BufferIs ==
    ASSUME Tables_OK, ~closed, currentPosition \in Nat, NEW n \in Nat \ {0},
           currentPosition + n <= MaxSize, NEW m \in Nat, NEW v \in Values
    PROVE  LET Q == Target(n, m)
               end == currentPosition + n
               P == Buffered(Q, n, v)
           IN  /\ Table(P)
               /\ Known(P) = Known(parts) \cup Q
               /\ \A q \in Q : /\ In(P, q) = Written(q, currentPosition, end, v)
                               /\ Len(In(P, q)) = Grown(q, end)
               /\ \A q \in Known(parts) \ Q : In(P, q) = Base(q)
  <1> DEFINE Q == Target(n, m)
             end == currentPosition + n
             P == Buffered(Q, n, v)
  <1>1. /\ DOMAIN P = DOMAIN parts \cup Q
        /\ \A q \in Q : P[q] = Written(q, currentPosition, end, v)
        /\ \A q \in DOMAIN parts \ Q : P[q] = parts[q]
    BY DEF Buffered, Update
  <1>2. ASSUME NEW q \in Q
        PROVE  LET w == Written(q, currentPosition, end, v)
               IN  w \in Seq(Bytes) /\ Len(w) = Grown(q, end) /\ Len(w) \in 1 .. PartSize
    <2>1. Grown(q, end) \in 1 .. PartSize /\ PartSize \in Nat
      BY GrownIs, SeekWriterAssumption
    <2>2. Base(q) \in Seq(Bytes)
      <3>1. CASE q \in Known(parts)
        BY <3>1, KnownParts, BaseIsIn DEF Tables_OK
      <3>2. CASE q \notin Known(parts)
        <4>1. Base(q) = <<>>
          BY <3>2, KnownParts, BaseIsIn DEF Tables_OK
        <4> QED
          BY <4>1
      <3> QED
        BY <3>1, <3>2
    <2>3. \A i \in 1 .. Len(Base(q)) : Base(q)[i] \in Bytes
      BY <2>2
    <2>4. Len(Base(q)) \in Nat /\ v \in Bytes /\ 0 \in Bytes
      BY <2>2 DEF Bytes
    <2>5. Written(q, currentPosition, end, v) \in [1 .. Grown(q, end) -> Bytes]
      BY <2>1, <2>3, <2>4 DEF Written
    <2>6. Grown(q, end) \in Nat
      BY <2>1
    <2> HIDE DEF end
    <2> QED
      BY <2>1, <2>5, <2>6
  <1>3. Q \subseteq Parts
    <2> SUFFICES ASSUME NEW q \in Q PROVE q \in Parts
      OBVIOUS
    <2>1. q \in Nat /\ q * PartSize < end
      BY TargetAre
    <2>2. q * PartSize \in Nat /\ end \in Nat /\ MaxSize \in Nat
      BY <2>1, PartStart, SeekWriterAssumption
    <2>3. q * PartSize <= MaxSize
      BY <2>1, <2>2
    <2> QED
      BY <2>1, <2>3, PartsAre
  <1> HIDE DEF P, Q, end
  <1>4. Table(P)
    BY <1>1, <1>2, <1>3 DEF Table, Tables_OK
  <1>5. Known(P) = Known(parts) \cup Q
    BY <1>1 DEF Known
  <1>6. \A q \in Q : In(P, q) = Written(q, currentPosition, end, v)
    BY <1>1 DEF In
  <1>7. \A q \in Known(parts) \ Q : In(P, q) = Base(q)
    BY <1>1 DEF In, Base, Known
  <1> QED
    BY <1>2, <1>4, <1>5, <1>6, <1>7 DEF P, Q, end

-----------------------------------------------------------------------------
\* What lies before the position is known and full.
LEMMA BeforePosition ==
    ASSUME Tables_OK, ~closed, Chain(parts), NEW p \in Nat, Reaches(parts, p),
           NEW r \in Nat, r * PartSize + PartSize <= p
    PROVE  r \in Known(parts) /\ Len(Base(r)) = PartSize
  <1>1. PartSize \in Nat \ {0} /\ r * PartSize \in Nat
    BY SeekWriterAssumption, PartStart
  <1>2. p # 0
    BY <1>1
  <1>3. PICK q \in Known(parts) : p <= q * PartSize + Len(Base(q))
    BY <1>2, BaseIsIn DEF Reaches
  <1>4. q \in Nat /\ Len(Base(q)) \in 1 .. PartSize
    BY KnownParts, BaseIsIn DEF Tables_OK
  <1>5. q * PartSize \in Nat
    BY <1>4, PartStart
  <1>6. ~(q < r)
    <2> SUFFICES ASSUME q < r PROVE FALSE
      OBVIOUS
    <2>1. q * PartSize + PartSize <= r * PartSize
      BY <1>4, PartsFollow
    <2> QED
      BY <1>1, <1>3, <1>4, <1>5, <2>1
  <1>7. CASE r < q
    <2>1. r \in 0 .. q - 1
      BY <1>4, <1>7
    <2> QED
      BY <2>1, BaseIsIn DEF Chain
  <1>8. CASE r = q
    BY <1>1, <1>3, <1>4, <1>8
  <1> QED
    BY <1>4, <1>6, <1>7, <1>8

\* After writing the parts follow each other still, none is shorter than before,
\* and what was written before part m is reached.
LEMMA BufferChain ==
    ASSUME Tables_OK, ~closed, Chain(parts), Reaches(parts, currentPosition),
           currentPosition \in Nat, NEW n \in Nat \ {0},
           currentPosition + n <= MaxSize, NEW m \in Nat, NEW v \in Values
    PROVE  LET P == Buffered(Target(n, m), n, v)
           IN  /\ Chain(P)
               /\ \A q \in Known(parts) : Len(In(P, q)) >= Len(Base(q))
               /\ \A q \in Target(n, m) :
                     \A p \in Nat : p <= currentPosition + n /\ p <= q * PartSize + PartSize
                                    => Reaches(P, p)
  <1> DEFINE Q == Target(n, m)
             end == currentPosition + n
             P == Buffered(Q, n, v)
  <1>1. PartSize \in Nat \ {0} /\ end \in Nat
    BY SeekWriterAssumption
  <1>2. /\ Table(P)
        /\ Known(P) = Known(parts) \cup Q
        /\ \A q \in Q : Len(In(P, q)) = Grown(q, end)
        /\ \A q \in Known(parts) \ Q : In(P, q) = Base(q)
    BY BufferIs
  <1>3. /\ Q \subseteq Nat
        /\ \A q \in Nat : q \in Q <=>
             /\ q * PartSize < end /\ currentPosition < q * PartSize + PartSize /\ q < m
    BY TargetAre
  <1>4. \A q \in Q : /\ Grown(q, end) \in 1 .. PartSize
                     /\ Grown(q, end) >= Len(Base(q))
                     /\ end >= q * PartSize + PartSize => Grown(q, end) = PartSize
                     /\ end < q * PartSize + PartSize => Grown(q, end) >= end - q * PartSize
    BY GrownIs
  <1> HIDE DEF P, Q, end
  <1>5. /\ Known(parts) \subseteq Nat
        /\ \A q \in Known(parts) : Len(Base(q)) \in 1 .. PartSize
    BY KnownParts, BaseIsIn DEF Tables_OK
  <1>6. ASSUME NEW q \in Known(parts) PROVE Len(In(P, q)) >= Len(Base(q))
    <2>1. CASE q \in Q
      BY <1>2, <1>4, <2>1
    <2>2. CASE q \notin Q
      BY <1>2, <1>5, <2>2
    <2> QED
      BY <2>1, <2>2
  <1>7. ASSUME NEW q \in Known(P), NEW r \in 0 .. q - 1
        PROVE  r \in Known(P) /\ Len(In(P, r)) = PartSize
    <2>0. q \in Nat
      BY <1>2, <1>3, <1>5
    <2>1. q \in Nat /\ r \in Nat /\ r < q
      BY <2>0
    <2>2. ASSUME r \in Known(parts), Len(Base(r)) = PartSize
          PROVE  r \in Known(P) /\ Len(In(P, r)) = PartSize
      <3>1. CASE r \in Q
        BY <1>1, <1>2, <1>4, <2>2, <3>1
      <3>2. CASE r \notin Q
        BY <1>2, <2>2, <3>2
      <3> QED
        BY <3>1, <3>2
    <2>3. CASE q \in Known(parts)
      BY <2>2, <2>3, BaseIsIn DEF Chain
    <2>4. CASE q \in Q
      <3>1. q * PartSize < end /\ q < m
        BY <1>3, <2>1, <2>4
      <3>2. r * PartSize + PartSize <= q * PartSize /\ r * PartSize \in Nat /\ q * PartSize \in Nat
        BY <2>1, PartsFollow, PartStart
      <3>3. CASE r * PartSize + PartSize <= currentPosition
        BY <2>1, <2>2, <3>3, BeforePosition
      <3>4. CASE currentPosition < r * PartSize + PartSize
        <4>1. r * PartSize < end
          BY <1>1, <3>1, <3>2
        <4>2. r \in Q
          BY <1>3, <2>1, <3>1, <3>4, <4>1
        <4>3. end >= r * PartSize + PartSize
          BY <1>1, <3>1, <3>2
        <4> QED
          BY <1>2, <1>4, <4>2, <4>3
      <3> QED
        BY <1>1, <3>2, <3>3, <3>4
    <2> QED
      BY <1>2, <2>3, <2>4
  <1>8. ASSUME NEW q \in Q, NEW p \in Nat, p <= end, p <= q * PartSize + PartSize
        PROVE  Reaches(P, p)
    <2>1. Grown(q, end) \in Nat /\ q * PartSize \in Nat
      BY <1>3, <1>4, PartStart
    <2>2. p <= q * PartSize + Grown(q, end)
      <3>1. CASE end >= q * PartSize + PartSize
        BY <1>4, <1>8, <3>1
      <3>2. CASE end < q * PartSize + PartSize
        <4>1. Grown(q, end) >= end - q * PartSize
          BY <1>4, <3>2
        <4> QED
          BY <1>1, <1>8, <2>1, <4>1
      <3> QED
        BY <1>1, <2>1, <3>1, <3>2
    <2> QED
      BY <1>2, <2>2 DEF Reaches
  <1>9. Chain(P)
    BY <1>7 DEF Chain
  <1> QED
    BY <1>6, <1>8, <1>9 DEF P, Q, end

\* A step after which the bytes are those of P.
LEMMA IInvFrom ==
    ASSUME Table(parts)', Table(uploadedParts)', UploadsStored',
           NEW P, Known(parts)' = Known(P), \A q : Base(q)' = In(P, q),
           Chain(P), Reaches(P, currentPosition'),
           currentPosition' \in Nat, currentPosition' <= MaxSize
    PROVE  IInv'
  <1>1. \A q : In(parts, q)' = In(P, q)
    BY DEF Base, In
  <1>2. Chain(parts)'
    BY <1>1 DEF Chain
  <1>3. Reaches(parts, currentPosition)'
    BY <1>1 DEF Reaches
  <1> QED
    BY <1>2, <1>3 DEF IInv, Tables_OK

\* How long the object is.
LEMMA SizeIs ==
    ASSUME Tables_OK, ~closed, Chain(parts)
    PROVE  \/ Known(parts) = {} /\ Size = 0
           \/ \E k \in Known(parts) : /\ \A q \in Known(parts) : q <= k
                                      /\ Size = k * PartSize + Len(Base(k))
  <1>1. PartSize \in Nat \ {0} /\ MaxSize \div PartSize \in Nat
    BY SeekWriterAssumption, PartOf
  <1>2. /\ Known(parts) \subseteq Parts /\ Parts \subseteq Nat
        /\ \A q \in Known(parts) : Len(Base(q)) \in 1 .. PartSize
    BY KnownParts, BaseIsIn DEF Tables_OK
  <1>3. ASSUME NEW q \in Known(parts) PROVE End(q) = q * PartSize + Len(Base(q))
    <2>1. Len(Base(q)) # 0
      BY <1>2
    <2> QED
      BY <2>1 DEF End, Base, Known, Tables_OK, UploadsStored
  <1>4. ASSUME NEW q, q \notin Known(parts) PROVE End(q) = 0
    BY <1>4 DEF End, Known
  <1>5. PICK c \in Nat : Known(parts) = 0 .. c - 1
    <2>1. Known(parts) \subseteq 0 .. MaxSize \div PartSize
      BY <1>2 DEF Parts
    <2>2. \A k \in Known(parts) : \A j \in 0 .. k - 1 : j \in Known(parts)
      BY DEF Chain
    <2>3. Known(parts) \in SUBSET Nat
      BY <1>2
    <2> QED
      BY <1>1, <2>1, <2>2, <2>3, FirstNumbers
  <1>6. 0 \in Parts
    BY <1>1 DEF Parts
  <1> DEFINE T == {End(q) : q \in Parts}
  <1>7. ASSUME NEW s \in Nat, s \in T, \A q \in Parts : End(q) <= s
        PROVE  Size = s
    <2>1. \E t \in T : \A q \in Parts : End(q) <= t
      BY <1>7
    <2>2. Size \in T /\ \A q \in Parts : End(q) <= Size
      BY <2>1 DEF Size
    <2>3. PICK q \in Parts : Size = End(q)
      BY <2>2
    <2>4. s <= Size /\ Size <= s
      BY <1>7, <2>2, <2>3
    <2>5. Size \in Nat
      <3>1. CASE q \in Known(parts)
        <4>1. q \in Nat /\ Len(Base(q)) \in Nat
          BY <1>2, <3>1
        <4>2. q * PartSize \in Nat
          BY <4>1, PartStart
        <4> QED
          BY <1>3, <2>3, <3>1, <4>1, <4>2
      <3>2. CASE q \notin Known(parts)
        BY <1>4, <2>3, <3>2
      <3> QED
        BY <3>1, <3>2
    <2> QED
      BY <2>4, <2>5
  <1>8. CASE c = 0
    <2>1. Known(parts) = {}
      BY <1>5, <1>8
    <2>2. \A q \in Parts : End(q) = 0
      BY <1>4, <2>1
    <2>3. 0 \in T /\ \A q \in Parts : End(q) <= 0
      BY <1>6, <2>2
    <2> QED
      BY <1>7, <2>1, <2>3
  <1>9. CASE c # 0
    <2> DEFINE k == c - 1
    <2>1. k \in Known(parts) /\ k \in Parts /\ k \in Nat /\ \A q \in Known(parts) : q <= k
      BY <1>2, <1>5, <1>9
    <2> HIDE DEF k
    <2>2. k * PartSize \in Nat /\ Len(Base(k)) \in 1 .. PartSize
      BY <1>2, <2>1, PartStart
    <2>3. End(k) = k * PartSize + Len(Base(k)) /\ End(k) \in Nat
      BY <1>3, <2>1, <2>2
    <2>4. ASSUME NEW q \in Parts PROVE End(q) <= End(k)
      <3>1. CASE q = k
        BY <2>3, <3>1
      <3>2. CASE q \in Known(parts) /\ q # k
        <4>1. q \in Nat /\ q < k /\ q * PartSize \in Nat
          BY <1>2, <2>1, <3>2, PartStart
        <4>2. q * PartSize + PartSize <= k * PartSize
          BY <2>1, <4>1, PartsFollow
        <4>3. End(q) = q * PartSize + Len(Base(q)) /\ Len(Base(q)) \in 1 .. PartSize
          BY <1>2, <1>3, <3>2
        <4> QED
          BY <1>1, <2>2, <2>3, <4>1, <4>2, <4>3
      <3>3. CASE q \notin Known(parts)
        BY <1>4, <2>3, <3>3
      <3> QED
        BY <3>1, <3>2, <3>3
    <2>5. End(k) \in T
      BY <2>1
    <2>6. Size = End(k)
      BY <1>7, <2>3, <2>4, <2>5
    <2> QED
      BY <2>1, <2>3, <2>6
  <1> QED
    BY <1>8, <1>9

-----------------------------------------------------------------------------
LEMMA InitIInv == Init => IInv
  <1> SUFFICES ASSUME Init PROVE IInv
    OBVIOUS
  <1>1. DOMAIN parts = {} /\ DOMAIN uploadedParts = {} /\ currentPosition = 0
    BY DEF Init, Empty
  <1>2. Tables_OK
    BY <1>1 DEF Tables_OK, Table, UploadsStored
  <1>3. Known(parts) = {}
    BY <1>1 DEF Known
  <1> QED
    BY <1>1, <1>2, <1>3, SeekWriterAssumption DEF IInv, Chain, Reaches

\* All parts are written to, up to the last.
LEMMA TargetAll ==
    ASSUME currentPosition \in Nat, NEW n \in Nat \ {0}
    PROVE  \E m \in Nat : /\ Target(n, m) = Touched(currentPosition, n)
                          /\ \E q \in Target(n, m) :
                                currentPosition + n <= q * PartSize + PartSize
  <1> DEFINE last == (currentPosition + n - 1) \div PartSize
             first == currentPosition \div PartSize
  <1>1. currentPosition + n - 1 \in Nat
    OBVIOUS
  <1>2. /\ last \in Nat /\ last * PartSize <= currentPosition + n - 1
        /\ currentPosition + n - 1 < last * PartSize + PartSize
        /\ last * PartSize \in Nat /\ PartSize \in Nat
    BY <1>1, PartOf, PartStart, SeekWriterAssumption
  <1>3. first \in Nat /\ Touched(currentPosition, n) = first .. last
    BY PartOf DEF Touched
  <1>4. last \in Touched(currentPosition, n) <=>
          last * PartSize < currentPosition + n /\ currentPosition < last * PartSize + PartSize
    BY <1>2, TouchedAre
  <1> HIDE DEF last, first
  <1>5. Target(n, last + 1) = Touched(currentPosition, n)
    BY <1>2, <1>3 DEF Target
  <1>6. last \in Touched(currentPosition, n)
    BY <1>2, <1>4
  <1>7. currentPosition + n <= last * PartSize + PartSize
    BY <1>2
  <1> QED
    BY <1>2, <1>5, <1>6, <1>7

LEMMA WriteOKIInv ==
    ASSUME IInv, ~closed, ~closed', ~LateFailures, NEW n \in Lengths, NEW v \in Values,
           currentPosition + n <= MaxSize, WriteOK(n, v)
    PROVE  IInv'
  <1>1. /\ Tables_OK /\ Chain(parts) /\ Reaches(parts, currentPosition)
        /\ currentPosition \in Nat /\ n \in Nat \ {0}
    BY SeekWriterAssumption DEF IInv
  <1>2. PICK m \in Nat : /\ Target(n, m) = Touched(currentPosition, n)
                         /\ \E q \in Target(n, m) :
                               currentPosition + n <= q * PartSize + PartSize
    BY <1>1, TargetAll
  <1> DEFINE P == Buffered(Target(n, m), n, v)
  <1>3. /\ FlushOK(P, FALSE) \/ FlushFails(P, FALSE)
        /\ currentPosition' = currentPosition + n
    BY <1>2 DEF WriteOK
  <1>4. Table(P)
    BY <1>1, BufferIs
  <1>5. Chain(P) /\ Reaches(P, currentPosition')
    BY <1>1, <1>2, <1>3, BufferChain
  <1> HIDE DEF P
  <1>6. /\ Table(parts)' /\ Table(uploadedParts)' /\ UploadsStored'
        /\ Known(parts)' = Known(P)
        /\ \A q : Base(q)' = In(P, q)
    BY <1>1, <1>3, <1>4, FlushKeeps DEF Tables_OK
  <1>7. currentPosition' \in Nat /\ currentPosition' <= MaxSize
    BY <1>1, <1>3
  <1> QED
    BY <1>5, <1>6, <1>7, IInvFrom

\* A write that stops before part f.
LEMMA WriteFailsIInv ==
    ASSUME IInv, ~closed, ~closed', NEW n \in Lengths, NEW v \in Values,
           currentPosition + n <= MaxSize, WriteFails(n, v)
    PROVE  IInv' /\ err' # "missing"
  <1>1. /\ Tables_OK /\ Chain(parts) /\ Reaches(parts, currentPosition)
        /\ currentPosition \in Nat /\ n \in Nat \ {0} /\ currentPosition <= MaxSize
    BY SeekWriterAssumption DEF IInv
  <1>2. PICK f \in Touched(currentPosition, n) :
          /\ MustFetch(f)
          /\ parts' = Buffered({q \in Touched(currentPosition, n) : q < f}, n, v)
          /\ currentPosition' = Larger(currentPosition, f * PartSize)
          /\ err' = IF f \in DOMAIN store THEN "refused" ELSE "missing"
          /\ UNCHANGED <<uploadedParts, store>>
    BY DEF WriteFails
  <1>3. err' = "refused"
    BY <1>1, <1>2 DEF MustFetch, Tables_OK, UploadsStored
  <1>4. f \in Nat /\ f * PartSize < currentPosition + n
        /\ currentPosition < f * PartSize + PartSize
    <2>1. PICK m \in Nat : Target(n, m) = Touched(currentPosition, n)
      BY <1>1, TargetAll
    <2> QED
      BY <1>1, <1>2, <2>1, TargetAre
  <1> DEFINE P == Buffered(Target(n, f), n, v)
  <1>5. parts' = P
    BY <1>2 DEF Target
  <1>6. Table(P)
    BY <1>1, <1>4, BufferIs
  <1>7. /\ Chain(P)
        /\ \A q \in Known(parts) : Len(In(P, q)) >= Len(Base(q))
        /\ \A q \in Target(n, f) :
              \A p \in Nat : p <= currentPosition + n /\ p <= q * PartSize + PartSize
                             => Reaches(P, p)
    BY <1>1, <1>4, BufferChain
  <1>8. Known(parts) \subseteq Known(P)
    BY <1>1, <1>4, BufferIs
  <1>9. PartSize \in Nat \ {0} /\ f * PartSize \in Nat
    BY <1>4, PartStart, SeekWriterAssumption
  <1> HIDE DEF P
  <1>10. Reaches(P, currentPosition')
    <2>1. CASE f * PartSize <= currentPosition
      <3>1. currentPosition' = currentPosition
        BY <1>1, <1>2, <1>9, <2>1 DEF Larger
      <3>2. CASE currentPosition = 0
        BY <3>1, <3>2 DEF Reaches
      <3>3. CASE currentPosition # 0
        <4>1. PICK q \in Known(parts) : currentPosition <= q * PartSize + Len(Base(q))
          BY <1>1, <3>3, BaseIsIn DEF Reaches
        <4>2. q \in Nat /\ Len(Base(q)) \in Nat
          BY <1>1, KnownParts, BaseIsIn DEF Tables_OK
        <4>3. Len(In(P, q)) \in Nat
          BY <1>1, <1>6, <1>8, KnownParts DEF Tables_OK
        <4>4. q * PartSize \in Nat /\ Len(In(P, q)) >= Len(Base(q))
          BY <1>7, <4>2, PartStart
        <4>5. currentPosition <= q * PartSize + Len(In(P, q))
          BY <1>1, <4>1, <4>2, <4>3, <4>4
        <4> QED
          BY <1>8, <3>1, <4>5 DEF Reaches
      <3> QED
        BY <3>2, <3>3
    <2>2. CASE currentPosition < f * PartSize
      <3>1. currentPosition' = f * PartSize
        BY <1>1, <1>2, <1>9, <2>2 DEF Larger
      <3>2. f # 0
        BY <1>1, <1>9, <2>2
      <3>3. f - 1 \in Nat /\ f - 1 < f
        BY <1>4, <3>2
      <3>4. (f - 1) * PartSize + PartSize = f * PartSize /\ (f - 1) * PartSize \in Nat
        <4>1. (f - 1) * PartSize \in Nat
          BY <3>3, PartStart
        <4> QED
          BY <1>4, <1>9, <4>1
      <3>5. f - 1 \in Target(n, f)
        <4>1. (f - 1) * PartSize < currentPosition + n
          BY <1>1, <1>4, <1>9, <3>4
        <4> QED
          BY <1>1, <1>4, <2>2, <3>3, <3>4, <4>1, TargetAre
      <3>6. f * PartSize <= currentPosition + n /\ f * PartSize <= (f - 1) * PartSize + PartSize
        BY <1>1, <1>4, <1>9, <3>4
      <3> QED
        BY <1>7, <1>9, <3>1, <3>5, <3>6
    <2> QED
      BY <1>1, <1>9, <2>1, <2>2
  <1>11. currentPosition' \in Nat /\ currentPosition' <= MaxSize
    BY <1>1, <1>2, <1>4, <1>9, SeekWriterAssumption DEF Larger
  <1>12. /\ Table(parts)' /\ Table(uploadedParts)' /\ UploadsStored'
         /\ Known(parts)' = Known(P)
         /\ \A q : Base(q)' = In(P, q)
    BY <1>1, <1>2, <1>5, <1>6 DEF Tables_OK, Table, UploadsStored, Known, Base, In
  <1> QED
    BY <1>3, <1>7, <1>10, <1>11, <1>12, IInvFrom

LEMMA SeekIInv ==
    ASSUME IInv, ~closed, ~Gaps, NEW p \in 0 .. MaxSize, Seek(p)
    PROVE  IInv'
  <1>1. /\ Tables_OK /\ Chain(parts) /\ p <= Size /\ currentPosition' = p
        /\ UNCHANGED <<parts, uploadedParts, store, closed>>
    BY DEF IInv, Seek
  <1>2. Reaches(parts, p)
    <2>1. CASE Known(parts) = {} /\ Size = 0
      BY <1>1, <2>1 DEF Reaches
    <2>2. CASE \E k \in Known(parts) : Size = k * PartSize + Len(Base(k))
      BY <1>1, <2>2, BaseIsIn DEF Reaches
    <2> QED
      BY <1>1, <2>1, <2>2, SizeIs
  <1>3. /\ Table(parts)' /\ Table(uploadedParts)' /\ UploadsStored'
        /\ Known(parts)' = Known(parts)
        /\ \A q : Base(q)' = In(parts, q)
    BY <1>1 DEF Tables_OK, Table, UploadsStored, Known, Base, In
  <1>4. currentPosition' \in Nat /\ currentPosition' <= MaxSize
    BY <1>1, SeekWriterAssumption
  <1> QED
    BY <1>1, <1>2, <1>3, <1>4, IInvFrom

\* flush of everything, by flush stop and by close.
LEMMA FlushIInv ==
    ASSUME IInv, ~closed, ~closed', ~LateFailures, NEW all,
           FlushOK(parts, all) \/ FlushFails(parts, all),
           currentPosition' \in {0, currentPosition}
    PROVE  IInv' /\ Known(parts)' = Known(parts) /\ \A q : Base(q)' = Base(q)
  <1>1. /\ Tables_OK /\ Chain(parts) /\ Reaches(parts, currentPosition)
        /\ currentPosition \in Nat /\ currentPosition <= MaxSize
    BY DEF IInv
  <1>2. /\ Table(parts)' /\ Table(uploadedParts)' /\ UploadsStored'
        /\ Known(parts)' = Known(parts)
        /\ \A q : Base(q)' = In(parts, q)
    BY <1>1, FlushKeeps DEF Tables_OK
  <1>3. Reaches(parts, currentPosition')
    <2>1. CASE currentPosition' = 0
      BY <2>1 DEF Reaches
    <2>2. CASE currentPosition' = currentPosition
      BY <1>1, <2>2
    <2> QED
      BY <2>1, <2>2
  <1>4. currentPosition' \in Nat /\ currentPosition' <= MaxSize
    BY <1>1, SeekWriterAssumption
  <1> QED
    BY <1>1, <1>2, <1>3, <1>4, BaseIsIn, IInvFrom

\* Everything is uploaded when flush is done.
LEMMA AllUploaded ==
    ASSUME Tables_OK, ~closed, ~LateFailures, FlushOK(parts, TRUE)
    PROVE  /\ DOMAIN uploadedParts' = Known(parts)
           /\ Known(parts) \subseteq DOMAIN store'
  <1> DEFINE U == ToUpload(parts, TRUE)
  <1>1. /\ uploadedParts' = Update(uploadedParts, Only(parts, U))
        /\ store' = Update(store, Only(parts, U))
    BY DEF FlushOK, Flushed, Uploaded
  <1>2. U \subseteq DOMAIN parts /\ DOMAIN parts \ U \subseteq DOMAIN uploadedParts
    BY DEF ToUpload
  <1> HIDE DEF U
  <1>3. DOMAIN uploadedParts' = DOMAIN uploadedParts \cup U
        /\ DOMAIN store' = DOMAIN store \cup U
    BY <1>1 DEF Update, Only
  <1> QED
    BY <1>2, <1>3 DEF Known, Tables_OK, UploadsStored

\* The parts that are known are the first so many.
LEMMA KnownFirst ==
    ASSUME Tables_OK, ~closed, Chain(parts)
    PROVE  /\ Cardinality(Known(parts)) \in Nat
           /\ Known(parts) = 0 .. Cardinality(Known(parts)) - 1
  <1>1. Known(parts) \subseteq 0 .. MaxSize \div PartSize
    BY KnownParts DEF Tables_OK, Parts
  <1>2. MaxSize \div PartSize \in Nat
    BY PartOf, SeekWriterAssumption
  <1>3. \A k \in Known(parts) : \A j \in 0 .. k - 1 : j \in Known(parts)
    BY DEF Chain
  <1>4. Known(parts) \in SUBSET Nat
    BY KnownParts DEF Tables_OK
  <1> QED
    BY <1>1, <1>2, <1>3, <1>4, FirstNumbers

LEMMA NextIInv ==
    ASSUME IInv, [Next]_vars, ~Gaps, ~LateFailures
    PROVE  IInv'
  <1>1. CASE UNCHANGED vars
    BY <1>1 DEF vars, IInv, Tables_OK, Table, UploadsStored, Known, Chain, Reaches, In
  <1>2. CASE closed /\ Next
    BY <1>2 DEF Next, Write, Seek, FlushStop, CloseFails, CloseOK, Open, IInv
  <1>3. ASSUME ~closed, NEW n \in Lengths, NEW v \in Values, Write(n, v) PROVE IInv'
    <2>1. currentPosition + n <= MaxSize /\ closed' = closed
      BY <1>3 DEF Write
    <2> QED
      BY <1>3, <2>1, WriteOKIInv, WriteFailsIInv DEF Write
  <1>4. ASSUME ~closed, NEW p \in 0 .. MaxSize, Seek(p) PROVE IInv'
    BY <1>4, SeekIInv
  <1>5. CASE ~closed /\ FlushStop
    BY <1>5, FlushIInv DEF FlushStop
  <1>6. CASE ~closed /\ CloseFails
    <2>1. /\ UNCHANGED <<currentPosition, closed>>
          /\ FlushOK(parts, TRUE) \/ FlushFails(parts, TRUE)
      BY <1>6 DEF CloseFails
    <2> QED
      BY <1>6, <2>1, FlushIInv
  <1>7. CASE CloseOK
    BY <1>7 DEF CloseOK, IInv
  <1> QED
    BY <1>1, <1>2, <1>3, <1>4, <1>5, <1>6, <1>7 DEF Next

\* Only the last part is short, so that the store composes the parts: a write in
\* the object, or right behind it, fills every part before its last one, also
\* when a fetch stops it half way.
THEOREM ShortOnlyLast ==
    ASSUME ~Gaps, ~LateFailures
    PROVE  Spec => []OnlyLastShort
  <1>1. ASSUME IInv PROVE OnlyLastShort
    <2> SUFFICES ASSUME ~closed, NEW q \in Parts, End(q) > 0, NEW r \in 0 .. q - 1
                 PROVE  End(r) = (r + 1) * PartSize
      BY DEF OnlyLastShort
    <2>1. Tables_OK /\ Chain(parts)
      BY <1>1 DEF IInv
    <2>2. q \in Known(parts)
      BY DEF End, Known
    <2>3. r \in Known(parts) /\ Len(Base(r)) = PartSize
      BY <2>1, <2>2, BaseIsIn DEF Chain
    <2>4. r \in Nat /\ PartSize \in Nat \ {0}
      BY <2>1, <2>3, KnownParts, SeekWriterAssumption DEF Tables_OK
    <2>5. End(r) = r * PartSize + PartSize
      BY <2>1, <2>3, <2>4 DEF End, Base, Known, Tables_OK, UploadsStored
    <2>6. (r + 1) * PartSize = r * PartSize + PartSize
      BY <2>4
    <2> QED
      BY <2>5, <2>6
  <1>2. IInv /\ [Next]_vars => IInv'
    BY NextIInv
  <1> QED
    BY <1>1, <1>2, InitIInv, PTL DEF Spec

LEMMA NextPresent ==
    ASSUME IInv, NothingMissing, ~closed, [Next]_vars, ~LateFailures
    PROVE  NothingMissing'
  <1>1. CASE UNCHANGED vars
    BY <1>1 DEF vars, NothingMissing
  <1>2. ASSUME NEW n \in Lengths, NEW v \in Values, Write(n, v)
        PROVE  NothingMissing'
    <2>1. currentPosition + n <= MaxSize /\ closed' = closed
      BY <1>2 DEF Write
    <2>2. CASE WriteOK(n, v)
      BY <2>2 DEF WriteOK, NothingMissing
    <2>3. CASE WriteFails(n, v)
      BY <2>1, <2>3, WriteFailsIInv DEF NothingMissing
    <2> QED
      BY <1>2, <2>2, <2>3 DEF Write
  <1>3. ASSUME NEW p \in 0 .. MaxSize, Seek(p) PROVE NothingMissing'
    BY <1>3 DEF Seek, NothingMissing
  <1>4. CASE FlushStop
    BY <1>4 DEF FlushStop, NothingMissing
  <1>5. CASE CloseFails
    <2>1. Tables_OK /\ Chain(parts)
      BY DEF IInv
    <2>2. ASSUME FlushOK(parts, TRUE)
          PROVE  0 .. Cardinality(DOMAIN uploadedParts') - 1 \subseteq DOMAIN store'
      BY <1>5, <2>1, <2>2, AllUploaded, KnownFirst
    <2> QED
      BY <1>5, <2>2 DEF CloseFails, NothingMissing
  <1>6. CASE CloseOK
    BY <1>6 DEF CloseOK, NothingMissing
  <1> QED
    BY <1>1, <1>2, <1>3, <1>4, <1>5, <1>6 DEF Next

LEMMA StaysClosed == closed /\ [Next]_vars => closed'
  BY DEF Next, vars, Write, Seek, FlushStop, CloseFails, CloseOK

LEMMA ClosedEnds == closed /\ ~Reuse /\ [Next]_vars => UNCHANGED vars
  BY DEF Next, Open, Write, Seek, FlushStop, CloseFails, CloseOK

\* Until the object is published no operation asks the store for a part that is
\* not there, also when the sink will be used again after that: what is fetched
\* was uploaded, and what is composed is one part after the other from part 0 on.
THEOREM FirstObjectComplete ==
    ASSUME ~Gaps, ~LateFailures
    PROVE  Spec => [](~closed => NothingMissing)
  <1>1. Init => NothingMissing
    BY DEF Init, NothingMissing
  <1>2. IInv /\ [Next]_vars => IInv'
    BY NextIInv
  <1>3. IInv /\ (~closed => NothingMissing) /\ [Next]_vars
          => (~closed' => NothingMissing')
    BY NextPresent, StaysClosed
  <1> QED
    BY <1>1, <1>2, <1>3, InitIInv, PTL DEF Spec

\* No operation asks the store for a part that is not there, when the sink is
\* not used after EOS.
THEOREM NeverMissing ==
    ASSUME ~Gaps, ~Reuse, ~LateFailures
    PROVE  Spec => []NothingMissing
  <1>1. Init => NothingMissing
    BY DEF Init, NothingMissing
  <1>2. IInv /\ [Next]_vars => IInv'
    BY NextIInv
  <1>3. IInv /\ NothingMissing /\ [Next]_vars => NothingMissing'
    BY NextPresent, ClosedEnds DEF vars, NothingMissing
  <1> QED
    BY <1>1, <1>2, <1>3, InitIInv, PTL DEF Spec

\* Of the operations only Close can meet a missing part before the object is
\* published: whatever gaps seeks leave and whatever is refused, a part that a
\* write has to fetch is in the store.
THEOREM FetchesFind ==
    ASSUME ~LateFailures
    PROVE  Spec => [][\A n \in Lengths, v \in Values :
                         ~closed /\ Write(n, v) => err' # "missing"]_vars
  <1>1. ASSUME UploadsStored, ~closed, NEW n \in Lengths, NEW v \in Values, Write(n, v)
        PROVE  err' # "missing"
    <2>1. CASE WriteOK(n, v)
      BY <2>1 DEF WriteOK
    <2>2. CASE WriteFails(n, v)
      BY <1>1, <2>2 DEF WriteFails, MustFetch, UploadsStored
    <2> QED
      BY <1>1, <2>1, <2>2 DEF Write
  <1>2. UploadsStored /\ [Next]_vars =>
          [\A n \in Lengths, v \in Values :
              ~closed /\ Write(n, v) => err' # "missing"]_vars
    BY <1>1
  <1>3. UploadsStored /\ [Next]_vars => UploadsStored'
    BY NextStored
  <1> QED
    BY InitStored, <1>2, <1>3, PTL DEF Spec

-----------------------------------------------------------------------------
(***************************************************************************)
(* The writer is a file: whatever is in memory, in the store or both, part *)
(* q has the bytes Base(q).                                                *)
(***************************************************************************)

\* The place of position i in its part.
Place(i) == i - (i \div PartSize) * PartSize

LEMMA PlaceIs ==
    ASSUME NEW i \in Nat
    PROVE  /\ Place(i) \in Nat /\ Place(i) < PartSize
           /\ Place(i) = i % PartSize
           /\ i = (i \div PartSize) * PartSize + Place(i)
  <1>1. /\ i \div PartSize \in Nat /\ (i \div PartSize) * PartSize \in Nat
        /\ (i \div PartSize) * PartSize <= i
        /\ i < (i \div PartSize) * PartSize + PartSize
        /\ PartSize \in Nat \ {0}
    BY PartOf, PartStart, SeekWriterAssumption
  <1>2. i % PartSize = i - (i \div PartSize) * PartSize
    BY <1>1, PartUnique
  <1> QED
    BY <1>1, <1>2 DEF Place

\* Any part is a sequence, the empty one when it is not known.
LEMMA BaseSeq ==
    ASSUME Tables_OK, ~closed, NEW q
    PROVE  Base(q) \in Seq(Bytes) /\ Len(Base(q)) \in Nat /\ Len(Base(q)) <= PartSize
  <1>1. CASE q \in Known(parts)
    <2>1. Base(q) \in Seq(Bytes) /\ Len(Base(q)) \in 1 .. PartSize
      BY <1>1, KnownParts, BaseIsIn DEF Tables_OK
    <2> QED
      BY <2>1, SeekWriterAssumption
  <1>2. CASE q \notin Known(parts)
    <2>1. Base(q) = <<>>
      BY <1>2, KnownParts, BaseIsIn DEF Tables_OK
    <2> QED
      BY <2>1, SeekWriterAssumption
  <1> QED
    BY <1>1, <1>2

\* A position is in the object when its part is long enough.
Holds(i) == Place(i) < Len(Base(i \div PartSize))

LEMMA ByteIs ==
    ASSUME Tables_OK, ~closed, NEW i \in Nat
    PROVE  ByteAt(i) = IF Holds(i) THEN Base(i \div PartSize)[Place(i) + 1] ELSE 0
  <1> DEFINE q == i \div PartSize
             k == Place(i) + 1
  <1>1. (i % PartSize) + 1 = k
    BY PlaceIs
  <1>2. Len(Base(q)) \in Nat /\ Place(i) \in Nat
    BY BaseSeq, PlaceIs
  <1>3. Holds(i) <=> k <= Len(Base(q))
    BY <1>2 DEF Holds
  <1>4. ByteAt(i) = IF q \in DOMAIN parts
                    THEN IF k <= Len(parts[q]) THEN parts[q][k] ELSE 0
                    ELSE IF q \in DOMAIN uploadedParts /\ q \in DOMAIN store
                              /\ k <= Len(store[q])
                    THEN store[q][k] ELSE 0
    BY <1>1 DEF ByteAt
  <1> HIDE DEF q, k
  <1>5. CASE q \in DOMAIN parts
    BY <1>3, <1>4, <1>5 DEF Base, q, k
  <1>6. CASE q \notin DOMAIN parts /\ q \in DOMAIN uploadedParts
    <2>1. q \in DOMAIN store /\ Base(q) = store[q]
      BY <1>6 DEF Base, Tables_OK, UploadsStored
    <2> QED
      BY <1>3, <1>4, <1>6, <2>1 DEF q, k
  <1>7. CASE q \notin DOMAIN parts /\ q \notin DOMAIN uploadedParts
    <2>1. Base(q) = <<>>
      BY <1>7 DEF Base
    <2>2. ~(k <= Len(Base(q)))
      BY <1>2, <2>1 DEF k, q
    <2> QED
      BY <1>3, <1>4, <1>7, <2>2 DEF q, k
  <1> QED
    BY <1>5, <1>6, <1>7

\* The object has a byte at every position before its size, and at no other.
LEMMA SizeHolds ==
    ASSUME Tables_OK, ~closed, Chain(parts)
    PROVE  Size \in Nat /\ \A i \in Nat : i < Size <=> Holds(i)
  <1>1. PartSize \in Nat \ {0}
    BY SeekWriterAssumption
  <1>2. /\ Known(parts) \subseteq Nat
        /\ \A q \in Known(parts) : Len(Base(q)) \in 1 .. PartSize
        /\ \A q : q \notin Known(parts) => Base(q) = <<>>
    BY KnownParts, BaseIsIn DEF Tables_OK
  <1>3. CASE Known(parts) = {} /\ Size = 0
    <2>1. ASSUME NEW i \in Nat PROVE ~Holds(i)
      <3>1. Len(Base(i \div PartSize)) = 0 /\ Place(i) \in Nat
        BY <1>2, <1>3, PlaceIs
      <3> QED
        BY <3>1 DEF Holds
    <2> QED
      BY <1>3, <2>1
  <1>4. ASSUME NEW k \in Known(parts), \A q \in Known(parts) : q <= k,
               Size = k * PartSize + Len(Base(k))
        PROVE  Size \in Nat /\ \A i \in Nat : i < Size <=> Holds(i)
    <2>1. k \in Nat /\ k * PartSize \in Nat /\ Len(Base(k)) \in 1 .. PartSize
      BY <1>2, <1>4, PartStart
    <2>2. Size \in Nat
      BY <1>1, <1>4, <2>1
    <2>3. ASSUME NEW i \in Nat PROVE i < Size <=> Holds(i)
      <3> DEFINE q == i \div PartSize
                 l == Len(Base(q))
                 j == Place(i)
      <3>1. q \in Nat /\ q * PartSize \in Nat /\ j \in Nat /\ j < PartSize
            /\ i = q * PartSize + j
        BY PartOf, PartStart, PlaceIs
      <3>2. Holds(i) <=> j < l
        BY DEF Holds
      <3> HIDE DEF q, j, l
      <3>3. CASE q < k
        <4>1. q \in 0 .. k - 1
          BY <2>1, <3>1, <3>3
        <4>2. l = PartSize
          BY <4>1, BaseIsIn DEF Chain, l
        <4>3. q * PartSize + PartSize <= k * PartSize
          BY <2>1, <3>1, <3>3, PartsFollow
        <4> QED
          BY <1>1, <1>4, <2>1, <3>1, <3>2, <4>2, <4>3
      <3>4. CASE q = k
        <4>1. l \in Nat /\ Size = q * PartSize + l
          BY <1>4, <2>1, <3>4 DEF l
        <4> QED
          BY <3>1, <3>2, <4>1
      <3>5. CASE k < q
        <4>1. q \notin Known(parts)
          BY <1>4, <2>1, <3>1, <3>5
        <4>2. l = 0
          BY <1>2, <4>1 DEF l
        <4>3. k * PartSize + PartSize <= q * PartSize
          BY <2>1, <3>1, <3>5, PartsFollow
        <4>4. Size <= i
          BY <1>1, <1>4, <2>1, <3>1, <4>3
        <4> QED
          BY <2>2, <3>1, <3>2, <4>2, <4>4
      <3> QED
        BY <2>1, <3>1, <3>3, <3>4, <3>5
    <2> QED
      BY <2>2, <2>3
  <1> QED
    BY <1>3, <1>4, SizeIs

\* Numbers with the same smaller ones.
LEMMA SameNumber ==
    ASSUME NEW a \in Nat, NEW b \in Nat, \A i \in Nat : i < a <=> i < b
    PROVE  a = b
  BY a < a <=> a < b, b < a <=> b < b

\* The position is not beyond the end.
LEMMA PositionHolds ==
    ASSUME Tables_OK, ~closed, Chain(parts), currentPosition \in Nat,
           Reaches(parts, currentPosition)
    PROVE  currentPosition <= Size
  <1>1. Size \in Nat /\ \A i \in Nat : i < Size <=> Holds(i)
    BY SizeHolds
  <1>2. CASE currentPosition = 0
    BY <1>1, <1>2
  <1>3. CASE currentPosition # 0
    <2>1. PICK q \in Known(parts) : currentPosition <= q * PartSize + Len(Base(q))
      BY <1>3, BaseIsIn DEF Reaches
    <2>2. q \in Nat /\ Len(Base(q)) \in 1 .. PartSize /\ PartSize \in Nat
      BY <2>1, KnownParts, BaseIsIn, SeekWriterAssumption DEF Tables_OK
    <2>3. q * PartSize \in Nat
      BY <2>2, PartStart
    <2> DEFINE i == q * PartSize + Len(Base(q)) - 1
    <2>4. i \in Nat /\ q * PartSize <= i /\ i < q * PartSize + PartSize
      BY <2>2, <2>3
    <2>5. i \div PartSize = q /\ Place(i) = Len(Base(q)) - 1
      <3>1. i \div PartSize = q
        BY <2>2, <2>4, PartUnique
      <3> QED
        BY <2>2, <2>3, <3>1 DEF Place
    <2>6. Holds(i)
      BY <2>2, <2>5 DEF Holds
    <2>7. i < Size /\ currentPosition <= i + 1
      BY <1>1, <2>1, <2>2, <2>3, <2>4, <2>6
    <2> HIDE DEF i
    <2> QED
      BY <1>1, <2>4, <2>7
  <1> QED
    BY <1>2, <1>3

\* A write to the parts before m has the positions from the current one up to e.
Covers(n, m, e) ==
    /\ e \in Nat /\ currentPosition <= e
    /\ \A i \in Nat : (currentPosition <= i /\ i < e) <=>
          (currentPosition <= i /\ i < currentPosition + n /\ i \div PartSize < m)

\* The bytes after such a write.
LEMMA WrittenBytes ==
    ASSUME Tables_OK, ~closed, Chain(parts), Reaches(parts, currentPosition),
           currentPosition \in Nat, NEW n \in Nat \ {0},
           currentPosition + n <= MaxSize, NEW m \in Nat, NEW v \in Values,
           NEW e, Covers(n, m, e), NEW i \in Nat
    PROVE  LET b == In(Buffered(Target(n, m), n, v), i \div PartSize)
               new == currentPosition <= i /\ i < e
           IN  /\ Place(i) < Len(b) <=> Holds(i) \/ new
               /\ Place(i) < Len(b) => b[Place(i) + 1] =
                    IF new THEN v
                    ELSE IF Holds(i) THEN Base(i \div PartSize)[Place(i) + 1] ELSE 0
  <1> DEFINE q == i \div PartSize
             j == Place(i)
             Q == Target(n, m)
             end == currentPosition + n
             P == Buffered(Q, n, v)
             b == In(P, q)
             new == currentPosition <= i /\ i < e
  <1>1. /\ q \in Nat /\ q * PartSize \in Nat /\ j \in Nat /\ j < PartSize
        /\ i = q * PartSize + j /\ PartSize \in Nat \ {0} /\ end \in Nat
    <2>1. PartSize \in Nat \ {0} /\ end \in Nat
      BY SeekWriterAssumption
    <2>2. q \in Nat /\ q * PartSize \in Nat
      BY PartOf, PartStart
    <2>3. j \in Nat /\ j < PartSize /\ i = q * PartSize + j
      BY PlaceIs
    <2> HIDE DEF q, j, end
    <2> QED
      BY <2>1, <2>2, <2>3
  <1>2. /\ Table(P)
        /\ Known(P) = Known(parts) \cup Q
        /\ q \in Q => b = Written(q, currentPosition, end, v) /\ Len(b) = Grown(q, end)
        /\ q \in Known(parts) \ Q => b = Base(q)
    BY BufferIs
  <1>3. q \in Q <=> /\ q * PartSize < end /\ currentPosition < q * PartSize + PartSize
                    /\ q < m
    BY <1>1, TargetAre
  <1>4. q \in Q => /\ Grown(q, end) \in 1 .. PartSize
                   /\ Grown(q, end) >= Len(Base(q))
                   /\ end >= q * PartSize + PartSize => Grown(q, end) = PartSize
                   /\ end < q * PartSize + PartSize /\ Len(Base(q)) < Grown(q, end)
                        => Grown(q, end) = end - q * PartSize
                   /\ end < q * PartSize + PartSize => Grown(q, end) >= end - q * PartSize
    BY GrownIs
  <1>5. new <=> currentPosition <= i /\ i < end /\ q < m
    BY DEF Covers
  <1>6. Len(Base(q)) \in Nat
    BY BaseSeq
  <1>7. Holds(i) <=> j < Len(Base(q))
    BY DEF Holds
  <1>8. i < currentPosition => Holds(i)
    <2>1. currentPosition <= Size /\ Size \in Nat /\ (i < Size <=> Holds(i))
      BY PositionHolds, SizeHolds
    <2> QED
      BY <2>1
  <1>9. ASSUME q \in Q
        PROVE  /\ j < Grown(q, end) <=> Holds(i) \/ new
               /\ new <=> currentPosition <= i /\ i <= end - 1
    <2> HIDE DEF q, j, end, new, Q
    <2>1. new <=> currentPosition <= i /\ i < end
      BY <1>3, <1>5, <1>9
    <2>2. Holds(i) => j < Grown(q, end)
      BY <1>1, <1>4, <1>6, <1>7, <1>9
    <2>3. new => j < Grown(q, end)
      BY <1>1, <1>4, <1>9, <2>1
    <2>4. j < Grown(q, end) /\ ~Holds(i) => i < end
      BY <1>1, <1>4, <1>6, <1>7, <1>9
    <2> QED
      BY <1>1, <1>8, <2>1, <2>2, <2>3, <2>4
  <1>10. CASE q \in Q
    <2>1. b = [k \in 1 .. Grown(q, end) |->
                 IF q * PartSize + k - 1 \in currentPosition .. end - 1 THEN v
                 ELSE IF k <= Len(Base(q)) THEN Base(q)[k] ELSE 0]
      BY <1>2, <1>10 DEF Written
    <2>2. Len(b) = Grown(q, end)
      BY <1>2, <1>10
    <2> HIDE DEF b, q, j, end, P, Q, new
    <2>3. q * PartSize + (j + 1) - 1 = i
      BY <1>1
    <2>4. j < Grown(q, end) => j + 1 \in 1 .. Grown(q, end)
      BY <1>1, <1>4, <1>10
    <2>5. i \in currentPosition .. end - 1 <=> new
      BY <1>1, <1>9, <1>10
    <2>6. j + 1 <= Len(Base(q)) <=> Holds(i)
      BY <1>1, <1>6, <1>7
    <2>7. j < Grown(q, end) =>
            b[j + 1] = IF new THEN v ELSE IF Holds(i) THEN Base(q)[j + 1] ELSE 0
      BY <2>1, <2>3, <2>4, <2>5, <2>6
    <2> QED
      BY <1>9, <1>10, <2>2, <2>7 DEF b, q, j, end, P, Q, new
  <1>11. CASE q \notin Q
    <2>1. b = Base(q)
      <3>1. CASE q \in Known(parts)
        BY <1>2, <1>11, <3>1
      <3>2. CASE q \notin Known(parts)
        <4>1. q \notin Known(P)
          BY <1>2, <1>11, <3>2
        <4> QED
          BY <3>2, <4>1 DEF In, Base, Known
      <3> QED
        BY <3>1, <3>2
    <2>2. ~new
      <3> HIDE DEF q, j, end, new, Q
      <3> QED
        BY <1>1, <1>3, <1>5, <1>11
    <2> QED
      BY <1>7, <2>1, <2>2
  <1> QED
    BY <1>10, <1>11

-----------------------------------------------------------------------------
\* The bytes and the size of the object, as its parts say.
Content ==
    IInv /\ ~closed =>
      /\ \A i \in Nat : ByteAt(i) = IF Holds(i) THEN Base(i \div PartSize)[Place(i) + 1]
                                    ELSE 0
      /\ Size \in Nat
      /\ \A i \in Nat : i < Size <=> Holds(i)

LEMMA ContentIs == Content
  <1>1. ASSUME IInv, ~closed
        PROVE  /\ \A i \in Nat : ByteAt(i) = IF Holds(i)
                                             THEN Base(i \div PartSize)[Place(i) + 1]
                                             ELSE 0
               /\ Size \in Nat
               /\ \A i \in Nat : i < Size <=> Holds(i)
    <2>1. Tables_OK /\ Chain(parts)
      BY <1>1 DEF IInv
    <2> QED
      BY <1>1, <2>1, ByteIs, SizeHolds
  <1> QED
    BY <1>1 DEF Content

LEMMA ContentAfter == Content'
  BY ContentIs, PTL

LEMMA SameContent ==
    ASSUME IInv, IInv', ~closed, ~closed', \A q : Base(q)' = Base(q)
    PROVE  Size' = Size /\ \A i \in Nat : ByteAt(i)' = ByteAt(i)
  <1>1. ASSUME NEW i \in Nat PROVE Holds(i)' <=> Holds(i)
    BY DEF Holds, Place
  <1>2. /\ Size \in Nat /\ Size' \in Nat
        /\ \A i \in Nat : i < Size <=> Holds(i)
        /\ \A i \in Nat : i < Size' <=> Holds(i)'
    BY ContentIs, ContentAfter DEF Content
  <1>3. Size' = Size
    BY <1>1, <1>2, SameNumber
  <1>4. ASSUME NEW i \in Nat PROVE ByteAt(i)' = ByteAt(i)
    <2>1. /\ ByteAt(i) = IF Holds(i) THEN Base(i \div PartSize)[Place(i) + 1] ELSE 0
          /\ ByteAt(i)' = IF Holds(i)' THEN Base(i \div PartSize)'[Place(i) + 1] ELSE 0
      BY ContentIs, ContentAfter DEF Content, Place
    <2> QED
      BY <1>1, <2>1
  <1> QED
    BY <1>3, <1>4

LEMMA WriteContent ==
    ASSUME IInv, IInv', ~closed, ~closed', NEW n \in Nat \ {0},
           currentPosition + n <= MaxSize, NEW m \in Nat, NEW v \in Values,
           NEW e, Covers(n, m, e),
           \A q : Base(q)' = In(Buffered(Target(n, m), n, v), q)
    PROVE  /\ Size' = IF e > Size THEN e ELSE Size
           /\ \A i \in Nat :
                ByteAt(i)' = IF currentPosition <= i /\ i < e THEN v ELSE ByteAt(i)
  <1>1. /\ Tables_OK /\ Chain(parts) /\ Reaches(parts, currentPosition)
        /\ currentPosition \in Nat
    BY DEF IInv
  <1>2. /\ Size \in Nat /\ Size' \in Nat /\ e \in Nat /\ currentPosition <= e
        /\ \A i \in Nat : i < Size <=> Holds(i)
        /\ \A i \in Nat : i < Size' <=> Holds(i)'
    BY ContentIs, ContentAfter DEF Content, Covers
  <1>3. ASSUME NEW i \in Nat
        PROVE  /\ Holds(i)' <=> Holds(i) \/ (currentPosition <= i /\ i < e)
               /\ ByteAt(i)' = IF currentPosition <= i /\ i < e THEN v ELSE ByteAt(i)
    <2> DEFINE b == In(Buffered(Target(n, m), n, v), i \div PartSize)
               new == currentPosition <= i /\ i < e
    <2>1. Base(i \div PartSize)' = b
      OBVIOUS
    <2>2. /\ Place(i) < Len(b) <=> Holds(i) \/ new
          /\ Place(i) < Len(b) => b[Place(i) + 1] =
               IF new THEN v
               ELSE IF Holds(i) THEN Base(i \div PartSize)[Place(i) + 1] ELSE 0
      BY <1>1, WrittenBytes
    <2>3. /\ ByteAt(i) = IF Holds(i) THEN Base(i \div PartSize)[Place(i) + 1] ELSE 0
          /\ ByteAt(i)' = IF Holds(i)' THEN Base(i \div PartSize)'[Place(i) + 1] ELSE 0
      BY ContentIs, ContentAfter DEF Content, Place
    <2> HIDE DEF b, new
    <2>4. Holds(i)' <=> Place(i) < Len(b)
      BY <2>1 DEF Holds, Place
    <2>5. ByteAt(i)' = IF new THEN v ELSE ByteAt(i)
      <3>1. CASE Place(i) < Len(b)
        BY <2>1, <2>2, <2>3, <2>4, <3>1
      <3>2. CASE ~(Place(i) < Len(b))
        BY <2>2, <2>3, <2>4, <3>2
      <3> QED
        BY <3>1, <3>2
    <2> QED
      BY <2>2, <2>4, <2>5 DEF new
  <1>4. currentPosition <= Size
    BY <1>1, PositionHolds
  <1>5. ASSUME NEW i \in Nat
        PROVE  i < Size' <=> i < (IF e > Size THEN e ELSE Size)
    <2>1. i < Size' <=> i < Size \/ (currentPosition <= i /\ i < e)
      BY <1>2, <1>3
    <2> QED
      BY <1>1, <1>2, <1>4, <2>1
  <1>6. Size' = IF e > Size THEN e ELSE Size
    BY <1>2, <1>5, SameNumber
  <1> QED
    BY <1>3, <1>6

\* What a write has written when it ends.
Moves(n, v, m) ==
    /\ Covers(n, m, currentPosition') /\ currentPosition' <= currentPosition + n
    /\ \A q : Base(q)' = In(Buffered(Target(n, m), n, v), q)

LEMMA WriteOKMoves ==
    ASSUME IInv, ~closed, ~closed', ~LateFailures, NEW n \in Lengths, NEW v \in Values,
           currentPosition + n <= MaxSize, WriteOK(n, v)
    PROVE  \E m \in Nat : Moves(n, v, m)
  <1>1. /\ Tables_OK /\ currentPosition \in Nat /\ n \in Nat \ {0}
    BY SeekWriterAssumption DEF IInv
  <1>2. PICK m \in Nat : Target(n, m) = Touched(currentPosition, n)
    BY <1>1, TargetAll
  <1> DEFINE P == Buffered(Target(n, m), n, v)
  <1>3. /\ FlushOK(P, FALSE) \/ FlushFails(P, FALSE)
        /\ currentPosition' = currentPosition + n
    BY <1>2 DEF WriteOK
  <1>4. Table(P)
    BY <1>1, BufferIs
  <1> HIDE DEF P
  <1>5. \A q : Base(q)' = In(P, q)
    BY <1>1, <1>3, <1>4, FlushKeeps DEF Tables_OK
  <1>6. ASSUME NEW i \in Nat, currentPosition <= i, i < currentPosition + n
        PROVE  i \div PartSize < m
    <2> DEFINE q == i \div PartSize
    <2>1. /\ q \in Nat /\ q * PartSize \in Nat /\ PartSize \in Nat
          /\ q * PartSize <= i /\ i < q * PartSize + PartSize
      BY PartOf, PartStart, SeekWriterAssumption
    <2> HIDE DEF q
    <2>2. q * PartSize < currentPosition + n /\ currentPosition < q * PartSize + PartSize
      BY <1>1, <1>6, <2>1
    <2>3. q \in Target(n, m)
      BY <1>1, <1>2, <2>1, <2>2, TouchedAre
    <2>4. q < m
      BY <1>1, <2>1, <2>3, TargetAre
    <2> QED
      BY <2>4 DEF q
  <1>7. Covers(n, m, currentPosition + n)
    BY <1>1, <1>6 DEF Covers
  <1> QED
    BY <1>1, <1>3, <1>5, <1>7 DEF P, Moves

LEMMA WriteFailsMoves ==
    ASSUME IInv, ~closed, NEW n \in Lengths, NEW v \in Values,
           currentPosition + n <= MaxSize, WriteFails(n, v)
    PROVE  \E m \in Nat : Moves(n, v, m)
  <1>1. Tables_OK /\ currentPosition \in Nat /\ n \in Nat \ {0}
    BY SeekWriterAssumption DEF IInv
  <1>2. PICK f \in Touched(currentPosition, n) :
          /\ parts' = Buffered({q \in Touched(currentPosition, n) : q < f}, n, v)
          /\ currentPosition' = Larger(currentPosition, f * PartSize)
          /\ UNCHANGED <<uploadedParts, store>>
    BY DEF WriteFails
  <1>3. f \in Nat /\ f * PartSize < currentPosition + n
    <2>1. PICK m \in Nat : Target(n, m) = Touched(currentPosition, n)
      BY <1>1, TargetAll
    <2> QED
      BY <1>1, <1>2, <2>1, TargetAre
  <1>4. f * PartSize \in Nat /\ PartSize \in Nat \ {0}
    BY <1>3, PartStart, SeekWriterAssumption
  <1>5. \A q : Base(q)' = In(Buffered(Target(n, f), n, v), q)
    BY <1>2 DEF Target, Base, In
  <1> DEFINE e == IF currentPosition > f * PartSize THEN currentPosition ELSE f * PartSize
  <1>6. currentPosition' = e
    BY <1>2 DEF Larger
  <1>7. e \in Nat /\ currentPosition <= e /\ e <= currentPosition + n
    BY <1>1, <1>3, <1>4
  <1>8. ASSUME NEW i \in Nat
        PROVE  i \div PartSize < f <=> i < f * PartSize
    <2> DEFINE q == i \div PartSize
    <2>1. /\ q \in Nat /\ q * PartSize \in Nat
          /\ q * PartSize <= i /\ i < q * PartSize + PartSize
      BY PartOf, PartStart
    <2> HIDE DEF q
    <2>2. CASE q < f
      <3>1. q * PartSize + PartSize <= f * PartSize
        BY <1>3, <2>1, <2>2, PartsFollow
      <3> QED
        BY <1>4, <2>1, <2>2, <3>1 DEF q
    <2>3. CASE q = f
      BY <1>4, <2>1, <2>3 DEF q
    <2>4. CASE f < q
      <3>1. f * PartSize + PartSize <= q * PartSize
        BY <1>3, <2>1, <2>4, PartsFollow
      <3>2. ~(i < f * PartSize) /\ ~(q < f)
        BY <1>3, <1>4, <2>1, <2>4, <3>1
      <3> QED
        BY <3>2 DEF q
    <2> QED
      BY <1>3, <2>1, <2>2, <2>3, <2>4
  <1>9. ASSUME NEW i \in Nat
        PROVE  (currentPosition <= i /\ i < e) <=>
                 (currentPosition <= i /\ i < currentPosition + n /\ i \div PartSize < f)
    BY <1>1, <1>3, <1>4, <1>8
  <1> HIDE DEF e
  <1>10. Covers(n, f, e)
    BY <1>7, <1>9 DEF Covers
  <1> QED
    BY <1>3, <1>5, <1>6, <1>7, <1>10 DEF Moves

-----------------------------------------------------------------------------
\* Every position of the object is one of the file's.
Within == ~closed => Size <= MaxSize

LEMMA WriteFile ==
    ASSUME IInv, Within, ~closed, ~Gaps, ~LateFailures, NEW n \in Lengths, NEW v \in Values,
           Write(n, v)
    PROVE  File!Write(n, v) /\ Within'
  <1>1. /\ currentPosition + n <= MaxSize
        /\ WriteOK(n, v) \/ WriteFails(n, v)
        /\ UNCHANGED <<object, closed>>
    BY DEF Write
  <1>2. IInv'
    BY NextIInv DEF Next
  <1>3. currentPosition \in Nat /\ n \in Nat \ {0} /\ MaxSize \in Nat /\ Size \in Nat
    BY ContentIs, SeekWriterAssumption DEF IInv, Content
  <1>4. PICK m \in Nat : Moves(n, v, m)
    BY <1>1, WriteOKMoves, WriteFailsMoves
  <1>5. PICK e : e = currentPosition'
    OBVIOUS
  <1>6. /\ Covers(n, m, e) /\ e <= currentPosition + n
        /\ \A q : Base(q)' = In(Buffered(Target(n, m), n, v), q)
    BY <1>4, <1>5 DEF Moves
  <1>7. /\ Size' = IF e > Size THEN e ELSE Size
        /\ \A i \in Nat :
             ByteAt(i)' = IF currentPosition <= i /\ i < e THEN v ELSE ByteAt(i)
    BY <1>1, <1>2, <1>3, <1>6, WriteContent
  <1>8. e \in Nat /\ currentPosition <= e
    BY <1>6 DEF Covers
  <1>9. PICK k \in 0 .. n : e = currentPosition + k
    <2>1. e - currentPosition \in 0 .. n /\ e = currentPosition + (e - currentPosition)
      BY <1>3, <1>6, <1>8
    <2> QED
      BY <2>1
  <1>10. [i \in 0 .. MaxSize - 1 |-> IF closed' THEN 0 ELSE ByteAt(i)'] =
         [i \in 0 .. MaxSize - 1 |->
            IF i \in currentPosition .. currentPosition + k - 1 THEN v
            ELSE [j \in 0 .. MaxSize - 1 |-> IF closed THEN 0 ELSE ByteAt(j)][i]]
    <2>1. ASSUME NEW i \in 0 .. MaxSize - 1
          PROVE  ByteAt(i)' = IF i \in currentPosition .. currentPosition + k - 1 THEN v
                              ELSE ByteAt(i)
      <3>1. i \in Nat
        OBVIOUS
      <3>2. i \in currentPosition .. currentPosition + k - 1 <=> currentPosition <= i /\ i < e
        BY <1>3, <1>8, <1>9, <3>1
      <3> QED
        BY <1>7, <3>1, <3>2
    <2> QED
      BY <1>1, <2>1
  <1>11. Size' = IF k > 0 /\ currentPosition + k > Size THEN currentPosition + k ELSE Size
    <2>1. currentPosition <= Size
      BY PositionHolds DEF IInv
    <2> QED
      BY <1>3, <1>7, <1>9, <2>1
  <1>12. currentPosition' = currentPosition + k /\ object' = object
    BY <1>1, <1>5, <1>9
  <1>13. Within'
    BY <1>1, <1>3, <1>6, <1>7, <1>8 DEF Within
  <1> QED
    BY <1>1, <1>10, <1>11, <1>12, <1>13 DEF File!Write, File!Positions

\* Nothing but the position changes.
LEMMA KeepsFile ==
    ASSUME IInv, IInv', ~closed, ~closed', Within, object' = object,
           \A q : Base(q)' = Base(q)
    PROVE  /\ Within'
           /\ currentPosition' = currentPosition => UNCHANGED File!vars
           /\ \A p : currentPosition' = p => File!Seek(p)
  <1>1. MaxSize \in Nat /\ Size' = Size /\ \A i \in Nat : ByteAt(i)' = ByteAt(i)
    BY SameContent, SeekWriterAssumption
  <1>2. [i \in 0 .. MaxSize - 1 |-> IF closed' THEN 0 ELSE ByteAt(i)'] =
        [i \in 0 .. MaxSize - 1 |-> IF closed THEN 0 ELSE ByteAt(i)]
    <2>1. 0 .. MaxSize - 1 \subseteq Nat
      OBVIOUS
    <2> QED
      BY <1>1, <2>1
  <1> QED
    BY <1>1, <1>2 DEF Within, File!vars, File!Seek

LEMMA InitFile == Init => File!Init /\ Within
  <1> SUFFICES ASSUME Init PROVE File!Init /\ Within
    OBVIOUS
  <1>1. IInv /\ ~closed /\ currentPosition = 0 /\ object = NoObject
    BY InitIInv DEF Init
  <1>2. Known(parts) = {}
    BY DEF Init, Empty, Known
  <1>3. Tables_OK /\ Chain(parts)
    BY <1>1 DEF IInv
  <1>4. Size = 0
    BY <1>1, <1>2, <1>3, SizeIs
  <1>5. \A i \in Nat : ByteAt(i) = 0
    BY <1>2 DEF ByteAt, Known
  <1>6. 0 .. MaxSize - 1 \subseteq Nat /\ 0 <= MaxSize
    BY SeekWriterAssumption
  <1> QED
    BY <1>1, <1>4, <1>5, <1>6 DEF File!Init, File!Positions, Within

-----------------------------------------------------------------------------
(***************************************************************************)
(* What is composed.                                                       *)
(***************************************************************************)

\* Concat, from what its pieces make together.
LEMMA ConcatIs ==
    ASSUME NEW s, NEW n \in Nat, NEW C, C[0] = <<>>,
           \A k \in 1 .. n : C[k] = C[k - 1] \o s[k - 1]
    PROVE  Concat(s, n) = C[n]
  <1> DEFINE F(g) == [k \in 0 .. n |-> IF k = 0 THEN <<>> ELSE g[k - 1] \o s[k - 1]]
             w == [k \in 0 .. n |-> C[k]]
             u == CHOOSE g : g = F(g)
             S == {k \in 0 .. n : u[k] = C[k]}
  <1>1. w = F(w)
    <2>1. ASSUME NEW k \in 0 .. n
          PROVE  C[k] = IF k = 0 THEN <<>> ELSE w[k - 1] \o s[k - 1]
      <3>1. CASE k = 0
        BY <3>1
      <3>2. CASE k # 0
        <4>1. k \in 1 .. n /\ k - 1 \in 0 .. n
          BY <3>2
        <4>2. w[k - 1] = C[k - 1]
          BY <4>1
        <4> QED
          BY <3>2, <4>1, <4>2
      <3> QED
        BY <3>1, <3>2
    <2> QED
      BY <2>1
  <1>2. u = F(u)
    <2> HIDE DEF F, w
    <2> QED
      BY <1>1
  <1>3. Concat(s, n) = u[n]
    BY DEF Concat
  <1> HIDE DEF u
  <1>4. 0 \in S
    <2>1. u[0] = <<>>
      BY <1>2
    <2> QED
      BY <2>1
  <1>5. ASSUME NEW k \in S, k < n PROVE k + 1 \in S
    <2>1. k + 1 \in 1 .. n /\ k + 1 \in 0 .. n /\ (k + 1) - 1 = k /\ k + 1 # 0
      BY <1>5
    <2>2. u[k + 1] = u[(k + 1) - 1] \o s[(k + 1) - 1]
      BY <1>2, <2>1
    <2>3. u[k + 1] = C[k] \o s[k]
      BY <1>5, <2>1, <2>2
    <2>4. C[k + 1] = C[(k + 1) - 1] \o s[(k + 1) - 1]
      BY <2>1
    <2> QED
      BY <2>1, <2>3, <2>4
  <1>6. S \in SUBSET (0 .. n)
    OBVIOUS
  <1>7. n \in S
    <2> HIDE DEF S
    <2>1. S = 0 .. n
      BY <1>4, <1>5, <1>6, UpTo
    <2> QED
      BY <2>1
  <1> QED
    BY <1>3, <1>7

\* One sequence goes on where another ends.
LEMMA Follows ==
    ASSUME NEW T, NEW s \in Seq(T), NEW t \in Seq(T), NEW u \in Seq(T),
           Len(u) = Len(s) + Len(t),
           \A i \in 1 .. Len(s) : u[i] = s[i],
           \A i \in 1 .. Len(t) : u[Len(s) + i] = t[i]
    PROVE  u = s \o t
  <1>1. s \o t \in Seq(T) /\ Len(s \o t) = Len(u)
    OBVIOUS
  <1>2. ASSUME NEW i \in 1 .. Len(u) PROVE (s \o t)[i] = u[i]
    <2>1. CASE i <= Len(s)
      BY <2>1
    <2>2. CASE i > Len(s)
      <3>1. (s \o t)[i] = t[i - Len(s)]
        BY <2>2
      <3>2. i - Len(s) \in 1 .. Len(t) /\ Len(s) + (i - Len(s)) = i
        BY <2>2
      <3>3. u[Len(s) + (i - Len(s))] = t[i - Len(s)]
        BY <3>2
      <3> QED
        BY <3>1, <3>2, <3>3
    <2> QED
      BY <2>1, <2>2
  <1> QED
    BY <1>1, <1>2, SeqEqual

\* All parts one after the other are the object.
LEMMA Composed ==
    ASSUME IInv, ~closed, NEW n \in Nat, n > 0, Known(parts) = 0 .. n - 1,
           NEW full, \A q \in 0 .. n - 1 : full[q] = Base(q)
    PROVE  Size > 0 /\ Concat(full, n) = [i \in 1 .. Size |-> ByteAt(i - 1)]
  <1> DEFINE L(k) == IF k < n THEN k * PartSize ELSE Size
             B(l) == [i \in 1 .. l |-> ByteAt(i - 1)]
             C == [k \in 0 .. n |-> B(L(k))]
  <1>1. Tables_OK /\ Chain(parts) /\ PartSize \in Nat \ {0}
    BY SeekWriterAssumption DEF IInv
  <1>2. \A q \in 0 .. n - 1 : /\ q \in Nat /\ q * PartSize \in Nat
                              /\ Base(q) \in Seq(Bytes) /\ Len(Base(q)) \in 1 .. PartSize
    BY <1>1, KnownParts, BaseIsIn, PartStart DEF Tables_OK
  <1>3. Size = (n - 1) * PartSize + Len(Base(n - 1)) /\ Size \in Nat /\ Size > 0
    <2>1. n - 1 \in Known(parts)
      OBVIOUS
    <2>2. PICK k \in Known(parts) : /\ \A q \in Known(parts) : q <= k
                                    /\ Size = k * PartSize + Len(Base(k))
      BY <1>1, <2>1, SizeIs
    <2>3. k = n - 1
      <3>1. k \in 0 .. n - 1 /\ n - 1 <= k
        BY <2>1, <2>2
      <3> QED
        BY <3>1
    <2>4. Size = (n - 1) * PartSize + Len(Base(n - 1))
      BY <2>2, <2>3
    <2>5. (n - 1) * PartSize \in Nat /\ Len(Base(n - 1)) \in 1 .. PartSize
      BY <1>2
    <2> QED
      BY <1>1, <2>4, <2>5
  <1>4. ASSUME NEW i \in Nat PROVE ByteAt(i) \in Bytes
    <2>1. /\ Base(i \div PartSize) \in Seq(Bytes)
          /\ Place(i) \in Nat
          /\ ByteAt(i) = IF Holds(i) THEN Base(i \div PartSize)[Place(i) + 1] ELSE 0
      BY <1>1, BaseSeq, PlaceIs, ByteIs
    <2>2. Holds(i) => Place(i) + 1 \in 1 .. Len(Base(i \div PartSize))
      BY <2>1 DEF Holds
    <2> QED
      BY <2>1, <2>2 DEF Bytes
  <1>5. ASSUME NEW l \in Nat PROVE B(l) \in Seq(Bytes) /\ Len(B(l)) = l
    <2>1. \A i \in 1 .. l : i - 1 \in Nat
      OBVIOUS
    <2>2. B(l) \in [1 .. l -> Bytes]
      BY <1>4, <2>1
    <2> QED
      BY <2>2
  <1>6. L(0) = 0
    <2>1. L(0) = 0 * PartSize
      OBVIOUS
    <2> QED
      BY <1>1, <2>1
  <1>7. ASSUME NEW k \in 1 .. n
        PROVE  /\ L(k - 1) \in Nat /\ L(k) \in Nat
               /\ L(k - 1) = (k - 1) * PartSize
               /\ L(k) = L(k - 1) + Len(Base(k - 1))
    <2>1. k - 1 \in 0 .. n - 1 /\ k \in Nat
      OBVIOUS
    <2>2. (k - 1) * PartSize \in Nat /\ Len(Base(k - 1)) \in 1 .. PartSize
      BY <1>2, <2>1
    <2>3. L(k - 1) = (k - 1) * PartSize
      BY <2>1
    <2>4. CASE k < n
      <3>1. k \in Known(parts) /\ k - 1 \in 0 .. k - 1
        BY <2>1, <2>4
      <3>2. Len(Base(k - 1)) = PartSize
        BY <1>1, <3>1, BaseIsIn DEF Chain
      <3>3. k * PartSize = (k - 1) * PartSize + PartSize
        BY <1>1, <2>1
      <3>4. L(k) = k * PartSize
        BY <2>4
      <3> HIDE DEF L
      <3> QED
        BY <1>1, <2>2, <2>3, <3>2, <3>3, <3>4
    <2>5. CASE k = n
      BY <1>3, <2>2, <2>3, <2>5
    <2> QED
      BY <2>1, <2>4, <2>5
  <1>8. C[0] = <<>>
    <2>1. C[0] = B(0)
      BY <1>6
    <2>2. B(0) \in Seq(Bytes) /\ Len(B(0)) = 0
      BY <1>5
    <2> HIDE DEF B, C
    <2> QED
      BY <2>1, <2>2
  <1>9. ASSUME NEW k \in 1 .. n PROVE C[k] = C[k - 1] \o full[k - 1]
    <2>1. C[k] = B(L(k)) /\ C[k - 1] = B(L(k - 1)) /\ k - 1 \in 0 .. n - 1
      OBVIOUS
    <2> DEFINE m == L(k - 1)
               l == Len(Base(k - 1))
    <2>2. /\ m \in Nat /\ l \in Nat /\ l <= PartSize /\ L(k) = m + l /\ k - 1 \in Nat
          /\ m = (k - 1) * PartSize
      BY <1>2, <1>7, <2>1
    <2> HIDE DEF L, m
    <2>3. /\ B(m) \in Seq(Bytes) /\ Len(B(m)) = m
          /\ B(m + l) \in Seq(Bytes) /\ Len(B(m + l)) = m + l
      <3>1. m + l \in Nat
        BY <2>2
      <3> QED
        BY <1>5, <2>2, <3>1
    <2>4. \A i \in 1 .. m : B(m + l)[i] = B(m)[i]
      <3>1. \A i \in 1 .. m : i \in 1 .. m + l
        BY <2>2
      <3> QED
        BY <3>1
    <2>5. ASSUME NEW i \in 1 .. l PROVE B(m + l)[m + i] = Base(k - 1)[i]
      <3> DEFINE p == m + i - 1
      <3>1. p \in Nat /\ m + i \in 1 .. m + l /\ (m + i) - 1 = p
        BY <2>2
      <3>2. p \div PartSize = k - 1 /\ Place(p) = i - 1
        <4>1. (k - 1) * PartSize <= p /\ p < (k - 1) * PartSize + PartSize
          BY <1>1, <2>2
        <4>2. p \div PartSize = k - 1
          BY <2>2, <3>1, <4>1, PartUnique
        <4>3. p - (k - 1) * PartSize = i - 1
          BY <2>2
        <4> QED
          BY <4>2, <4>3 DEF Place
      <3> HIDE DEF p
      <3>3. Holds(p)
        BY <2>2, <3>2 DEF Holds
      <3>4. ByteAt(p) = Base(k - 1)[i]
        <4>1. (i - 1) + 1 = i
          OBVIOUS
        <4> QED
          BY <1>1, <3>1, <3>2, <3>3, <4>1, ByteIs
      <3> QED
        BY <3>1, <3>4
    <2> HIDE DEF B
    <2>6. B(m + l) = B(m) \o Base(k - 1)
      <3>1. Base(k - 1) \in Seq(Bytes) /\ Len(B(m + l)) = Len(B(m)) + Len(Base(k - 1))
        BY <1>2, <2>1, <2>3
      <3>2. \A i \in 1 .. Len(B(m)) : B(m + l)[i] = B(m)[i]
        BY <2>3, <2>4
      <3>3. \A i \in 1 .. Len(Base(k - 1)) : B(m + l)[Len(B(m)) + i] = Base(k - 1)[i]
        BY <2>3, <2>5
      <3> HIDE DEF l
      <3> QED
        BY <2>3, <3>1, <3>2, <3>3, Follows
    <2> HIDE DEF C
    <2> QED
      BY <2>1, <2>2, <2>6 DEF m
  <1>10. Concat(full, n) = C[n]
    <2> HIDE DEF C
    <2> QED
      BY <1>8, <1>9, ConcatIs
  <1>11. C[n] = B(Size)
    OBVIOUS
  <1> QED
    BY <1>3, <1>10, <1>11

LEMMA CloseFile ==
    ASSUME IInv, Within, ~closed, CloseOK
    PROVE  File!Close /\ Within'
  <1> DEFINE U == ToUpload(parts, TRUE)
             full == Update(store, Only(parts, U))
             n == Cardinality(DOMAIN uploadedParts')
  <1>1. Tables_OK /\ Chain(parts) /\ MaxSize \in Nat
    BY SeekWriterAssumption DEF IInv
  <1>2. /\ uploadedParts' = Update(uploadedParts, Only(parts, U))
        /\ n > 0 /\ object' = Concat(full, n) /\ closed' = TRUE
        /\ currentPosition' = currentPosition
    BY DEF CloseOK, Uploaded
  <1>3. /\ U \subseteq DOMAIN parts
        /\ \A q \in DOMAIN parts \ U : q \in DOMAIN uploadedParts /\ uploadedParts[q] = parts[q]
    BY DEF ToUpload
  <1> HIDE DEF U
  <1>4. DOMAIN uploadedParts' = Known(parts)
    BY <1>2, <1>3 DEF Update, Only, Known
  <1>5. n \in Nat /\ Known(parts) = 0 .. n - 1
    BY <1>1, <1>4, KnownFirst
  <1>6. ASSUME NEW q \in Known(parts) PROVE full[q] = Base(q)
    <2>1. CASE q \in U
      BY <1>3, <2>1 DEF Update, Only, Base
    <2>2. CASE q \notin U /\ q \in DOMAIN parts
      <3>1. q \in DOMAIN store /\ store[q] = parts[q]
        BY <1>1, <1>3, <2>2 DEF Tables_OK, UploadsStored
      <3> QED
        BY <2>2, <3>1 DEF Update, Only, Base
    <2>3. CASE q \notin DOMAIN parts
      <3>1. q \in DOMAIN uploadedParts /\ q \in DOMAIN store /\ q \notin U
        BY <1>1, <1>3, <2>3 DEF Known, Tables_OK, UploadsStored
      <3> QED
        BY <2>3, <3>1 DEF Update, Only, Base
    <2> QED
      BY <2>1, <2>2, <2>3
  <1> HIDE DEF full, n
  <1>7. Size > 0 /\ Concat(full, n) = [i \in 1 .. Size |-> ByteAt(i - 1)]
    BY <1>2, <1>5, <1>6, Composed
  <1>8. Size \in Nat /\ Size <= MaxSize
    BY ContentIs DEF Content, Within
  <1>9. object' = [i \in 1 .. Size |->
                     [j \in 0 .. MaxSize - 1 |-> IF closed THEN 0 ELSE ByteAt(j)][i - 1]]
    <2>1. \A i \in 1 .. Size : i - 1 \in 0 .. MaxSize - 1
      BY <1>1, <1>8
    <2> QED
      BY <1>2, <1>7, <2>1
  <1> QED
    BY <1>2, <1>7, <1>9 DEF File!Close, File!Bytes, File!Positions, Within

LEMMA NextFile ==
    ASSUME IInv, Within, [Next]_vars, ~Gaps, ~Reuse, ~LateFailures
    PROVE  [File!Next]_File!vars /\ Within'
  <1>1. IInv'
    BY NextIInv
  <1>2. CASE UNCHANGED vars
    <2>1. closed' = closed /\ currentPosition' = currentPosition /\ object' = object
      BY <1>2 DEF vars
    <2>2. \A q : Base(q)' = Base(q)
      BY <1>2 DEF vars, Base
    <2>3. CASE closed
      BY <2>1, <2>3 DEF File!vars, Within
    <2>4. CASE ~closed
      BY <1>1, <2>1, <2>2, <2>4, KeepsFile
    <2> QED
      BY <2>3, <2>4
  <1>3. ASSUME Next PROVE ~closed
    BY <1>3 DEF Next, Write, Seek, FlushStop, CloseFails, CloseOK, Open
  <1>4. ASSUME ~closed, NEW n \in Lengths, NEW v \in Values, Write(n, v)
        PROVE  File!Next /\ Within'
    BY <1>4, WriteFile DEF File!Next
  <1>5. ASSUME ~closed, NEW p \in 0 .. MaxSize, Seek(p) PROVE File!Next /\ Within'
    <2>1. ~closed' /\ object' = object /\ currentPosition' = p /\ \A q : Base(q)' = Base(q)
      BY <1>5 DEF Seek, Base
    <2> QED
      BY <1>1, <1>5, <2>1, KeepsFile DEF File!Next
  <1>6. CASE ~closed /\ (FlushStop \/ CloseFails)
    <2>1. /\ FlushOK(parts, TRUE) \/ FlushFails(parts, TRUE)
          /\ ~closed' /\ object' = object
          /\ currentPosition' \in {0, currentPosition}
      <3>1. CASE FlushStop
        BY <1>6, <3>1 DEF FlushStop
      <3>2. CASE CloseFails
        BY <1>6, <3>2 DEF CloseFails
      <3> QED
        BY <1>6, <3>1, <3>2
    <2>2. \A q : Base(q)' = Base(q)
      BY <1>6, <2>1, FlushIInv
    <2>3. CASE currentPosition' = currentPosition
      BY <1>1, <1>6, <2>1, <2>2, <2>3, KeepsFile
    <2>4. CASE currentPosition' = 0
      <3>1. 0 \in 0 .. MaxSize
        BY SeekWriterAssumption
      <3>2. File!Seek(0) /\ Within'
        BY <1>1, <1>6, <2>1, <2>2, <2>4, KeepsFile
      <3> QED
        BY <3>1, <3>2 DEF File!Next
    <2> QED
      BY <2>1, <2>3, <2>4
  <1>7. CASE ~closed /\ CloseOK
    BY <1>7, CloseFile DEF File!Next
  <1> QED
    BY <1>2, <1>3, <1>4, <1>5, <1>6, <1>7 DEF Next

\* A stream written with seeks and rewrites is published as it was written,
\* whatever is in memory, in the store or both, and whatever requests fail, as
\* long as seeks stay in the object, the sink stops after EOS and a failed
\* upload leaves the store alone.
THEOREM WriterIsFile ==
    ASSUME ~Gaps, ~Reuse, ~LateFailures
    PROVE  Spec => ImplementsFile
  <1>1. IInv /\ [Next]_vars => IInv'
    BY NextIInv
  <1>2. IInv /\ Within /\ [Next]_vars => [File!Next]_File!vars /\ Within'
    BY NextFile
  <1> QED
    BY InitIInv, InitFile, <1>1, <1>2, PTL DEF Spec, ImplementsFile, File!Spec

-----------------------------------------------------------------------------
(***************************************************************************)
(* Types, whatever the sink and the store do.                              *)
(***************************************************************************)

\* The bytes of parts of an object that is not longer than MaxSize.
Fits(t) ==
    /\ t = [q \in DOMAIN t |-> t[q]]
    /\ DOMAIN t \subseteq Parts
    /\ \A q \in DOMAIN t : /\ t[q] \in Seq(Bytes)
                           /\ Len(t[q]) <= PartSize
                           /\ q * PartSize + Len(t[q]) <= MaxSize

TInv ==
    /\ currentPosition \in 0 .. MaxSize
    /\ Fits(parts) /\ Fits(uploadedParts) /\ Fits(store)
    /\ closed \in BOOLEAN /\ err \in {"no", "refused", "missing"}
    /\ object = NoObject \/ (object \in Seq(Bytes) /\ Len(object) <= MaxSize)

LEMMA FitsUpdate ==
    ASSUME NEW f, Fits(f), NEW g, Fits(g)
    PROVE  Fits(Update(f, g))
  <1>1. /\ DOMAIN Update(f, g) = DOMAIN f \cup DOMAIN g
        /\ Update(f, g) = [q \in DOMAIN Update(f, g) |-> Update(f, g)[q]]
        /\ \A q \in DOMAIN g : Update(f, g)[q] = g[q]
        /\ \A q \in DOMAIN f \ DOMAIN g : Update(f, g)[q] = f[q]
    BY DEF Update
  <1> QED
    BY <1>1 DEF Fits

LEMMA FitsPart ==
    ASSUME NEW f, Fits(f), NEW S
    PROVE  /\ Fits(Without(f, S))
           /\ S \subseteq DOMAIN f => Fits(Only(f, S))
  BY DEF Fits, Without, Only

LEMMA FitsFlushed ==
    ASSUME TInv, NEW P, Fits(P), NEW all, FlushOK(P, all) \/ FlushFails(P, all)
    PROVE  Fits(parts)' /\ Fits(uploadedParts)' /\ Fits(store)'
  <1>1. PICK U \in SUBSET DOMAIN P, f \in SUBSET DOMAIN P : Flushed(P, U, f)
    BY ToUploadIn DEF FlushOK, FlushFails
  <1>2. /\ parts' = Without(P, U)
        /\ uploadedParts' = Update(uploadedParts, Only(P, U))
        /\ \/ store' = Update(store, Only(P, U))
           \/ store' = Update(store, Only(P, U \cup f))
    BY <1>1 DEF Flushed, Uploaded
  <1>3. Fits(Without(P, U)) /\ Fits(Only(P, U)) /\ Fits(Only(P, U \cup f))
    BY FitsPart
  <1>4. /\ Fits(Update(uploadedParts, Only(P, U))) /\ Fits(Update(store, Only(P, U)))
        /\ Fits(Update(store, Only(P, U \cup f)))
    BY <1>3, FitsUpdate DEF TInv
  <1> QED
    BY <1>2, <1>3, <1>4

\* A part that is written to does not grow beyond itself or the write.
LEMMA WrittenFits ==
    ASSUME TInv, NEW n \in Nat \ {0}, currentPosition + n <= MaxSize, NEW v \in Values,
           NEW q \in Touched(currentPosition, n), MustFetch(q) => q \in DOMAIN store
    PROVE  LET w == Written(q, currentPosition, currentPosition + n, v)
           IN  /\ q \in Parts
               /\ w \in Seq(Bytes) /\ Len(w) <= PartSize
               /\ q * PartSize + Len(w) <= MaxSize
  <1> DEFINE end == currentPosition + n
             g == Grown(q, end)
             l == Len(Base(q))
             s == q * PartSize
             w == Written(q, currentPosition, end, v)
  <1>1. /\ currentPosition \in Nat /\ end \in Nat /\ end <= MaxSize /\ MaxSize \in Nat
        /\ PartSize \in Nat \ {0}
    BY SeekWriterAssumption DEF TInv
  <1>2. q \in Nat
    <2>1. currentPosition \div PartSize \in Nat /\ (end - 1) \div PartSize \in Nat
      BY <1>1, PartOf
    <2> QED
      BY <2>1 DEF Touched
  <1>3. s \in Nat /\ s < end
    BY <1>1, <1>2, TouchedAre, PartStart
  <1>4. q \in Parts
    BY <1>1, <1>2, <1>3, PartsAre
  <1>5. Base(q) \in Seq(Bytes) /\ l \in Nat /\ l <= PartSize /\ s + l <= MaxSize
    <2>1. CASE q \in DOMAIN parts
      BY <2>1 DEF Base, TInv, Fits
    <2>2. CASE MustFetch(q)
      BY <2>2 DEF Base, TInv, Fits, MustFetch
    <2>3. CASE q \notin DOMAIN parts /\ q \notin DOMAIN uploadedParts
      <3>1. Base(q) = <<>> /\ <<>> \in Seq(Bytes) /\ Len(<<>>) = 0
        BY <2>3 DEF Base
      <3> QED
        BY <1>1, <1>3, <3>1
    <2> QED
      BY <2>1, <2>2, <2>3 DEF MustFetch
  <1>6. g = IF l > (IF PartSize < end - s THEN PartSize ELSE end - s)
            THEN l ELSE IF PartSize < end - s THEN PartSize ELSE end - s
    BY DEF Grown, Larger, Smaller
  <1>7. g \in Nat /\ g <= PartSize /\ s + g <= MaxSize
    <2> HIDE DEF end, s, l, g
    <2> QED
      BY <1>1, <1>3, <1>5, <1>6
  <1>8. w \in [1 .. g -> Bytes]
    <2>1. \A i \in 1 .. g :
             (IF q * PartSize + i - 1 \in currentPosition .. end - 1 THEN v
              ELSE IF i <= Len(Base(q)) THEN Base(q)[i] ELSE 0) \in Bytes
      <3> SUFFICES ASSUME NEW i \in 1 .. g
                   PROVE  (IF q * PartSize + i - 1 \in currentPosition .. end - 1 THEN v
                           ELSE IF i <= Len(Base(q)) THEN Base(q)[i] ELSE 0) \in Bytes
        OBVIOUS
      <3>1. i \in Nat /\ i >= 1
        <4> HIDE DEF g
        <4> QED
          BY <1>7
      <3>2. i <= Len(Base(q)) => Base(q)[i] \in Bytes
        BY <1>5, <3>1
      <3> QED
        BY <3>2 DEF Bytes
    <2> QED
      BY <2>1 DEF Written
  <1>9. w \in Seq(Bytes) /\ Len(w) = g
    <2> HIDE DEF g, w
    <2> QED
      BY <1>7, <1>8
  <1> HIDE DEF w, g
  <1> QED
    BY <1>4, <1>7, <1>9 DEF w

LEMMA BufferedFits ==
    ASSUME TInv, NEW n \in Nat \ {0}, currentPosition + n <= MaxSize, NEW v \in Values,
           NEW Q \in SUBSET Touched(currentPosition, n),
           \A q \in Q : MustFetch(q) => q \in DOMAIN store
    PROVE  Fits(Buffered(Q, n, v))
  <1> DEFINE g == [q \in Q |-> Written(q, currentPosition, currentPosition + n, v)]
  <1>1. \A q \in Q : /\ q \in Parts
                     /\ g[q] \in Seq(Bytes) /\ Len(g[q]) <= PartSize
                     /\ q * PartSize + Len(g[q]) <= MaxSize
    BY WrittenFits
  <1>2. DOMAIN g = Q /\ g = [q \in Q |-> g[q]]
    OBVIOUS
  <1>3. Fits(g)
    <2> HIDE DEF g
    <2> QED
      BY <1>1, <1>2 DEF Fits
  <1>4. Fits(Update(parts, g))
    BY <1>3, FitsUpdate DEF TInv
  <1> QED
    BY <1>4 DEF Buffered

LEMMA WriteTInv ==
    ASSUME TInv, NEW n \in Lengths, NEW v \in Values, Write(n, v)
    PROVE  TInv'
  <1>1. /\ n \in Nat \ {0} /\ currentPosition + n <= MaxSize /\ MaxSize \in Nat
        /\ UNCHANGED <<object, closed>> /\ currentPosition \in Nat
    BY SeekWriterAssumption DEF Write, TInv
  <1>2. CASE WriteOK(n, v)
    <2> DEFINE P == Buffered(Touched(currentPosition, n), n, v)
    <2>1. Fits(P)
      BY <1>1, <1>2, BufferedFits DEF WriteOK
    <2>2. FlushOK(P, FALSE) \/ FlushFails(P, FALSE)
      BY <1>2 DEF WriteOK
    <2>3. Fits(parts)' /\ Fits(uploadedParts)' /\ Fits(store)'
      <3> HIDE DEF P
      <3> QED
        BY <2>1, <2>2, FitsFlushed
    <2>4. currentPosition' \in 0 .. MaxSize
      BY <1>1, <1>2 DEF WriteOK
    <2>5. err' \in {"no", "refused", "missing"}
      BY <1>2 DEF WriteOK
    <2> QED
      BY <1>1, <2>3, <2>4, <2>5 DEF TInv
  <1>3. CASE WriteFails(n, v)
    <2>1. PICK f \in Touched(currentPosition, n) :
             LET Q == {q \in Touched(currentPosition, n) : q < f}
             IN  /\ \A q \in Q : MustFetch(q) => q \in DOMAIN store
                 /\ parts' = Buffered(Q, n, v)
                 /\ currentPosition' = Larger(currentPosition, f * PartSize)
                 /\ err' \in {"refused", "missing"}
                 /\ UNCHANGED <<uploadedParts, store>>
      BY <1>3 DEF WriteFails
    <2>2. Fits(parts)'
      BY <1>1, <2>1, BufferedFits
    <2>3. f \in Nat
      <3>1. currentPosition \div PartSize \in Nat
            /\ (currentPosition + n - 1) \div PartSize \in Nat
        BY <1>1, PartOf
      <3> QED
        BY <3>1 DEF Touched
    <2>4. f * PartSize \in Nat /\ f * PartSize < currentPosition + n
      BY <1>1, <2>3, TouchedAre, PartStart
    <2>5. currentPosition' \in 0 .. MaxSize
      <3>1. currentPosition' = Larger(currentPosition, f * PartSize)
        BY <2>1
      <3>2. \A m \in Nat : m < currentPosition + n =>
               Larger(currentPosition, m) \in 0 .. MaxSize
        BY <1>1 DEF Larger
      <3> QED
        BY <2>4, <3>1, <3>2
    <2> QED
      BY <1>1, <2>1, <2>2, <2>5 DEF TInv, Fits
  <1> QED
    BY <1>2, <1>3 DEF Write

\* What Concat is defined by.
LEMMA ConcatSteps ==
    ASSUME NEW s, NEW n \in Nat
    PROVE  \E C : /\ C[0] = <<>>
                  /\ \A k \in 1 .. n : C[k] = C[k - 1] \o s[k - 1]
                  /\ Concat(s, n) = C[n]
  <1> DEFINE Upto(C, m) == /\ C[0] = <<>>
                           /\ \A k \in 1 .. m : C[k] = C[k - 1] \o s[k - 1]
             S == {m \in 0 .. n : \E C : Upto(C, m)}
  <1>1. 0 \in S
    <2>1. PICK C : C = [k \in 0 .. 0 |-> <<>>]
      OBVIOUS
    <2>2. C[0] = <<>> /\ 1 .. 0 = {}
      BY <2>1
    <2>3. Upto(C, 0)
      BY <2>2
    <2> HIDE DEF Upto
    <2> QED
      BY <2>3
  <1>2. ASSUME NEW m \in S, m < n PROVE m + 1 \in S
    <2>1. PICK C : Upto(C, m)
      OBVIOUS
    <2> DEFINE D == [k \in 0 .. m + 1 |-> IF k <= m THEN C[k] ELSE C[m] \o s[m]]
    <2>2. m \in Nat
      OBVIOUS
    <2>3. D[0] = <<>>
      BY <2>1, <2>2
    <2>4. ASSUME NEW k \in 1 .. m + 1 PROVE D[k] = D[k - 1] \o s[k - 1]
      <3>1. CASE k <= m
        <4>1. k \in 1 .. m /\ k - 1 \in 0 .. m + 1 /\ k - 1 <= m /\ k \in 0 .. m + 1
          BY <2>2, <3>1
        <4>2. D[k] = C[k] /\ D[k - 1] = C[k - 1]
          BY <3>1, <4>1
        <4> QED
          BY <2>1, <4>1, <4>2
      <3>2. CASE k = m + 1
        <4>1. k \in 0 .. m + 1 /\ ~(k <= m) /\ k - 1 = m /\ m \in 0 .. m + 1 /\ m <= m
          BY <2>2, <3>2
        <4>2. D[k] = C[m] \o s[m] /\ D[m] = C[m]
          BY <4>1
        <4> QED
          BY <4>1, <4>2
      <3>3. k <= m \/ k = m + 1
        <4> HIDE DEF D
        <4> QED
          BY <2>2
      <3> HIDE DEF D
      <3> QED
        BY <3>1, <3>2, <3>3
    <2>5. Upto(D, m + 1)
      <3> HIDE DEF D
      <3> QED
        BY <2>3, <2>4
    <2>6. m + 1 \in 0 .. n
      BY <1>2, <2>2
    <2> HIDE DEF D, Upto
    <2> QED
      BY <2>5, <2>6
  <1>3. S \in SUBSET (0 .. n)
    OBVIOUS
  <1>4. n \in S
    <2> HIDE DEF S
    <2>1. S = 0 .. n
      BY <1>1, <1>2, <1>3, UpTo
    <2> QED
      BY <2>1
  <1>5. PICK C : Upto(C, n)
    BY <1>4
  <1>6. Concat(s, n) = C[n]
    BY <1>5, ConcatIs
  <1> QED
    BY <1>5, <1>6

\* Parts that fit, one after the other, are not longer than an object.
LEMMA ConcatFits ==
    ASSUME NEW s, Fits(s), NEW n \in Nat, n > 0, 0 .. n - 1 \subseteq DOMAIN s
    PROVE  Concat(s, n) \in Seq(Bytes) /\ Len(Concat(s, n)) <= MaxSize
  <1>1. PICK C : /\ C[0] = <<>>
                 /\ \A k \in 1 .. n : C[k] = C[k - 1] \o s[k - 1]
                 /\ Concat(s, n) = C[n]
    BY ConcatSteps
  <1> DEFINE OK(k) == /\ C[k] \in Seq(Bytes)
                      /\ Len(C[k]) <= k * PartSize
                      /\ k > 0 => Len(C[k]) <= MaxSize
             S == {k \in 0 .. n : OK(k)}
  <1>2. PartSize \in Nat \ {0} /\ MaxSize \in Nat
    BY SeekWriterAssumption
  <1>3. 0 \in S
    <2>1. C[0] \in Seq(Bytes) /\ Len(C[0]) = 0 /\ 0 * PartSize = 0
      BY <1>1, <1>2
    <2> QED
      BY <2>1
  <1>4. ASSUME NEW k \in S, k < n PROVE k + 1 \in S
    <2>1. k \in Nat /\ k \in 0 .. n - 1 /\ k + 1 \in 1 .. n /\ (k + 1) - 1 = k
          /\ k + 1 \in 0 .. n
      BY <1>4
    <2>2. C[k + 1] = C[k] \o s[k]
      BY <1>1, <2>1
    <2>3. /\ s[k] \in Seq(Bytes) /\ Len(s[k]) <= PartSize
          /\ k * PartSize + Len(s[k]) <= MaxSize
      BY <2>1 DEF Fits
    <2>4. C[k] \in Seq(Bytes) /\ Len(C[k]) <= k * PartSize
      OBVIOUS
    <2>5. C[k + 1] \in Seq(Bytes) /\ Len(C[k + 1]) = Len(C[k]) + Len(s[k])
      BY <2>2, <2>3, <2>4
    <2>6. /\ k * PartSize \in Nat /\ (k + 1) * PartSize = k * PartSize + PartSize
          /\ Len(C[k]) \in Nat /\ Len(s[k]) \in Nat
      BY <1>2, <2>1, <2>3, <2>4, PartStart
    <2>7. Len(C[k + 1]) <= (k + 1) * PartSize /\ Len(C[k + 1]) <= MaxSize
      <3>1. \A a, b, l \in Nat :
               a <= b /\ l <= PartSize /\ b + l <= MaxSize =>
                 a + l <= b + PartSize /\ a + l <= MaxSize
        BY <1>2
      <3>2. /\ Len(C[k]) + Len(s[k]) <= k * PartSize + PartSize
            /\ Len(C[k]) + Len(s[k]) <= MaxSize
        BY <2>3, <2>4, <2>6, <3>1
      <3> QED
        BY <2>5, <2>6, <3>2
    <2> QED
      BY <2>1, <2>5, <2>7
  <1>5. S \in SUBSET (0 .. n)
    OBVIOUS
  <1>6. n \in S
    <2> HIDE DEF S
    <2>1. S = 0 .. n
      BY <1>3, <1>4, <1>5, UpTo
    <2> QED
      BY <2>1
  <1> QED
    BY <1>1, <1>6

LEMMA NextTInv ==
    ASSUME TInv, [Next]_vars
    PROVE  TInv'
  <1>1. CASE UNCHANGED vars
    BY <1>1 DEF vars, TInv, Fits
  <1>2. ASSUME NEW p \in 0 .. MaxSize, Seek(p) PROVE TInv'
    BY <1>2 DEF Seek, TInv, Fits
  <1>3. CASE FlushStop \/ CloseFails
    <2>1. FlushOK(parts, TRUE) \/ FlushFails(parts, TRUE)
      BY <1>3 DEF FlushStop, CloseFails
    <2>2. Fits(parts)' /\ Fits(uploadedParts)' /\ Fits(store)'
      BY <2>1, FitsFlushed DEF TInv
    <2>3. currentPosition' = 0 \/ currentPosition' = currentPosition
      BY <1>3 DEF FlushStop, CloseFails
    <2>4. currentPosition' \in 0 .. MaxSize
      BY <2>3, SeekWriterAssumption DEF TInv
    <2>5. UNCHANGED <<object, closed>> /\ err' \in {"no", "refused", "missing"}
      BY <1>3 DEF FlushStop, CloseFails
    <2> QED
      BY <2>2, <2>4, <2>5 DEF TInv
  <1>4. CASE CloseOK
    <2> DEFINE U == ToUpload(parts, TRUE)
               full == Update(store, Only(parts, U))
               n == Cardinality(DOMAIN uploadedParts')
    <2>1. /\ parts' = Without(parts, U)
          /\ uploadedParts' = Update(uploadedParts, Only(parts, U))
          /\ n > 0 /\ 0 .. n - 1 \subseteq DOMAIN full
          /\ object' = Concat(full, n)
          /\ \E r : store' = Without(full, 0 .. r - 1)
          /\ err' \in {"no", "refused"} /\ closed' = TRUE
          /\ currentPosition' = currentPosition
      BY <1>4 DEF CloseOK, Uploaded
    <2>2. Fits(Only(parts, U)) /\ Fits(parts)'
      BY <2>1, ToUploadIn, FitsPart DEF TInv
    <2>3. Fits(full) /\ Fits(uploadedParts)'
      BY <2>1, <2>2, FitsUpdate DEF TInv
    <2>4. Fits(store)'
      <3> HIDE DEF full
      <3> QED
        BY <2>1, <2>3, FitsPart
    <2>5. n \in Nat
      <3>1. DOMAIN uploadedParts' \subseteq Parts
        BY <2>3 DEF Fits
      <3>2. IsFiniteSet(Parts)
        <4>1. MaxSize \div PartSize \in Int
          BY SeekWriterAssumption, PartOf
        <4> QED
          BY <4>1, FS_Interval DEF Parts
      <3>3. IsFiniteSet(DOMAIN uploadedParts')
        BY <3>1, <3>2, FS_Subset
      <3> QED
        BY <3>3, FS_CardinalityType
    <2>6. object' \in Seq(Bytes) /\ Len(object') <= MaxSize
      <3> HIDE DEF full, n
      <3> QED
        BY <2>1, <2>3, <2>5, ConcatFits
    <2> QED
      BY <2>1, <2>2, <2>3, <2>4, <2>6 DEF TInv
  <1> QED
    BY <1>1, <1>2, <1>3, <1>4, WriteTInv DEF Next

LEMMA InitTInv == Init => TInv
  <1> SUFFICES ASSUME Init PROVE TInv
    OBVIOUS
  <1>1. Fits(Empty)
    BY DEF Fits, Empty
  <1>2. 0 \in 0 .. MaxSize
    BY SeekWriterAssumption
  <1>3. Fits(parts) /\ Fits(uploadedParts) /\ Fits(store)
    BY <1>1 DEF Init
  <1> QED
    BY <1>2, <1>3 DEF Init, TInv

\* Whatever the sink and the store do, parts in memory and in the store have at
\* most PartSize bytes and, like what is composed of them, do not go beyond the
\* end of the longest object that is written.
THEOREM WriterTyped == Spec => []TypeOK
  <1>1. ASSUME NEW t, Fits(t) PROVE t \in Tables
    <2>1. \A q \in DOMAIN t : t[q] \in Contents
      <3> SUFFICES ASSUME NEW q \in DOMAIN t PROVE t[q] \in Contents
        OBVIOUS
      <3>1. /\ Len(t[q]) \in 0 .. PartSize
            /\ t[q] \in [1 .. Len(t[q]) -> Bytes]
        BY <1>1, SeekWriterAssumption DEF Fits
      <3> QED
        BY <3>1 DEF Contents
    <2>2. t \in [DOMAIN t -> Contents] /\ DOMAIN t \in SUBSET Parts
      BY <1>1, <2>1 DEF Fits
    <2> QED
      BY <2>2 DEF Tables
  <1>2. ASSUME NEW o \in Seq(Bytes), Len(o) <= MaxSize
        PROVE  \E n \in 0 .. MaxSize : o \in [1 .. n -> Bytes]
    <2>1. Len(o) \in 0 .. MaxSize /\ o \in [1 .. Len(o) -> Bytes]
      BY <1>2, SeekWriterAssumption
    <2> QED
      BY <2>1
  <1>3. TInv => TypeOK
    BY <1>1, <1>2 DEF TInv, TypeOK
  <1>4. TInv /\ [Next]_vars => TInv'
    BY NextTInv
  <1> QED
    BY <1>3, <1>4, InitTInv, PTL DEF Spec
=============================================================================
