---------------------------- MODULE StorageProofs ----------------------------
(***************************************************************************)
(* Storage, for any memory, slab and records: what the headers, searches,  *)
(* iterations and batches of Storage promise.                              *)
(*                                                                         *)
(* The records of a body are those its lengths lead to (Laid, Staged).  A  *)
(* header or a writer tells of them by count and max_sequence (Tells), so  *)
(* a read goes from record to record and a scan finds them all (ReadIs,    *)
(* ScanIs), and the log is the slabs' records one after the other          *)
(* (StepsOf).  The invariant is that committed slabs and the open writer   *)
(* tell of their bodies, that slabs not committed count nothing whatever   *)
(* their words are, and that a reader is at its place in the log.          *)
(***************************************************************************)
EXTENDS Storage, FiniteSetTheorems, SequenceTheorems, TLAPS

\* For what it says of numbers.
Skip(p, x, element) == x
AnyOf(p, n, x) == TRUE
Numbers == INSTANCE FoldInduction WITH Op <- Skip, Kept <- AnyOf

\* Counting up from nothing reaches every number.
LEMMA Upwards ==
  ASSUME NEW S \in SUBSET Nat, 0 \in S, \A n \in S : n + 1 \in S
  PROVE  S = Nat
  BY Numbers!Induction

\* The least of numbers.
LEMMA LeastIs ==
  ASSUME NEW S \in SUBSET Nat, S # {}
  PROVE  Min(S) \in S /\ \A y \in S : Min(S) <= y
<1>1. Numbers!Min(S) = Min(S)
  BY DEF Min, Numbers!Min
<1> QED BY <1>1, Numbers!MinIs

\* The largest of numbers.
LEMMA LargestIs ==
  ASSUME NEW S \in SUBSET Nat, NEW n \in S, \A y \in S : y <= n
  PROVE  Max(S) = n
<1>1. \A y \in S : y \in Nat /\ n >= y
  OBVIOUS
<1>2. \A x \in S : (\A y \in S : x >= y) => x = n
  BY <1>1
<1> QED BY <1>1, <1>2 DEF Max

-----------------------------------------------------------------------------
(* Slabs                                                                   *)

\* The fields of a record.
LEMMA RecordShape ==
  ASSUME NEW record \in Record
  PROVE  /\ record.words \in Nat \ {0} /\ record.max_sequence \in 0 .. MaxSequence
         /\ record.max_sequence \in Nat /\ record.message_count \in Nat
         /\ 1 \in 1 .. record.words
<1>1. record \in [max_sequence: 0 .. MaxSequence, message_count: Nat, words: Nat \ {0}]
  BY RecordAssumption
<1> QED BY <1>1, MaxSequenceAssumption

\* Where the next record is, if there is one at this word.
After(body) ==
    [at \in 0 .. Room + 1 |->
        IF at \in 1 .. Room /\ RecordsAt(body, at) # {} THEN at + body[at].words + 1 ELSE 0]

Recursion(f, body, n) == f = [k \in 0 .. n |-> IF k = 0 THEN 1 ELSE After(body)[f[k - 1]]]

\* The lengths lead from word to word.
LEMMA OffsetsAre ==
  ASSUME NEW body
  PROVE  /\ Offsets(body)[0] = 1
         /\ \A n \in 1 .. Room : Offsets(body)[n] = After(body)[Offsets(body)[n - 1]]
<1> DEFINE S == {n \in Nat : \E f : Recursion(f, body, n)}
<1>1. 0 \in S
  <2>1. Recursion([k \in 0 .. 0 |-> 1], body, 0)
    BY DEF Recursion
  <2> QED BY <2>1
<1>2. ASSUME NEW n \in S PROVE n + 1 \in S
  <2>1. PICK f : Recursion(f, body, n)
    OBVIOUS
  <2> DEFINE g == [k \in 0 .. n + 1 |-> IF k \in 0 .. n THEN f[k] ELSE After(body)[f[n]]]
  <2>2. n \in Nat
    OBVIOUS
  <2>3. ASSUME NEW k \in 0 .. n + 1
        PROVE  g[k] = IF k = 0 THEN 1 ELSE After(body)[g[k - 1]]
    <3>1. CASE k \in 0 .. n
      <4>1. g[k] = f[k] /\ (k # 0 => k - 1 \in 0 .. n /\ g[k - 1] = f[k - 1])
        BY <2>2, <3>1
      <4> HIDE DEF g
      <4>2. f[k] = IF k = 0 THEN 1 ELSE After(body)[f[k - 1]]
        BY <2>1, <3>1 DEF Recursion
      <4> QED BY <4>1, <4>2
    <3>2. CASE k = n + 1
      <4>1. k # 0 /\ k - 1 = n /\ g[n] = f[n] /\ g[k] = After(body)[f[n]]
        BY <2>2, <3>2
      <4> QED BY <4>1
    <3> QED BY <2>2, <3>1, <3>2
  <2>4. g = [k \in 0 .. n + 1 |-> g[k]]
    OBVIOUS
  <2> HIDE DEF g
  <2>5. Recursion(g, body, n + 1)
    BY <2>3, <2>4 DEF Recursion
  <2> QED BY <2>2, <2>5
<1>3. S = Nat
  <2> HIDE DEF S
  <2>1. S \in SUBSET Nat
    BY DEF S
  <2> QED BY <1>1, <1>2, <2>1, Upwards
<1>4. \E f : Recursion(f, body, Room)
  BY <1>3, RoomAssumption
<1>5. Recursion(Offsets(body), body, Room)
  <2>1. Offsets(body) = CHOOSE f : Recursion(f, body, Room)
    BY DEF Offsets, Recursion, After
  <2> QED BY <1>4, <2>1
<1> QED BY <1>5, RoomAssumption DEF Recursion

\* The records lie one after the other from the start of the body.
Laid(body, records) ==
    /\ records \in Seq(Record)
    /\ \A i \in 1 .. Len(records) : IsRecordAt(body, Offsets(body)[i - 1], records[i])

\* No two records are at the same place.
LEMMA OneRecordAt ==
  ASSUME NEW body, NEW at, NEW record \in Record, IsRecordAt(body, at, record)
  PROVE  /\ RecordsAt(body, at) = {record}
         /\ body[at] = Length(record.words) /\ body[at].words = record.words /\ body[at] # Blank
         /\ body[at + 1].record = record
<1>1. /\ body[at] = Length(record.words) /\ body[at].words = record.words /\ body[at] # Blank
      /\ body[at + 1].record = record
  <2>1. body[at] = Length(record.words)
    BY DEF IsRecordAt
  <2>2. Length(record.words).words = record.words /\ Length(record.words) # Blank
    BY DEF Length, Blank
  <2>3. body[at + 1] = Part(record, 1)
    BY RecordShape DEF IsRecordAt
  <2>4. Part(record, 1).record = record
    BY DEF Part
  <2> QED BY <2>1, <2>2, <2>3, <2>4
<1>2. ASSUME NEW other \in RecordsAt(body, at) PROVE other = record
  <2>1. other \in Record /\ IsRecordAt(body, at, other)
    BY <1>2 DEF RecordsAt
  <2>2. body[at + 1] = Part(other, 1)
    BY <2>1, RecordShape DEF IsRecordAt
  <2>3. Part(other, 1).record = other
    BY DEF Part
  <2> QED BY <1>1, <2>2, <2>3
<1> QED BY <1>1, <1>2 DEF RecordsAt

\* One record after the other, each in the slab.
LEMMA LaidOffsets ==
  ASSUME NEW body, NEW records, Laid(body, records)
  PROVE  /\ Len(records) \in 0 .. Room
         /\ \A n \in 0 .. Len(records) :
               /\ Offsets(body)[n] \in 1 .. Room + 1 /\ Offsets(body)[n] > n
               /\ \A m \in 0 .. n : Offsets(body)[m] <= Offsets(body)[n]
         /\ \A n \in 1 .. Len(records) :
               Offsets(body)[n] = Offsets(body)[n - 1] + records[n].words + 1
<1> DEFINE at == Offsets(body)
           N  == Len(records)
           S  == {n \in Nat : n <= N =>
                     /\ n <= Room /\ at[n] \in 1 .. Room + 1 /\ at[n] > n
                     /\ \A m \in 0 .. n : at[m] \in Nat /\ at[m] <= at[n]
                     /\ n > 0 => at[n] = at[n - 1] + records[n].words + 1}
<1>1. N \in Nat /\ Room \in Nat
  BY RoomAssumption DEF Laid
<1>2. 0 \in S
  BY <1>1, OffsetsAre
<1>3. ASSUME NEW n \in S PROVE n + 1 \in S
  <2> SUFFICES ASSUME n + 1 <= N
               PROVE  /\ n + 1 <= Room /\ at[n + 1] \in 1 .. Room + 1 /\ at[n + 1] > n + 1
                      /\ \A m \in 0 .. n + 1 : at[m] \in Nat /\ at[m] <= at[n + 1]
                      /\ at[n + 1] = at[n] + records[n + 1].words + 1
    OBVIOUS
  <2>1. /\ n \in Nat /\ n <= Room /\ at[n] \in 1 .. Room + 1 /\ at[n] > n
        /\ \A m \in 0 .. n : at[m] \in Nat /\ at[m] <= at[n]
    BY <1>1
  <2> DEFINE record == records[n + 1]
  <2>2. n + 1 \in 1 .. N /\ record \in Record
    BY <1>1, <2>1 DEF Laid
  <2>3. IsRecordAt(body, at[n], record)
    BY <2>1, <2>2 DEF Laid
  <2>4. record.words \in Nat \ {0}
    BY <2>2, RecordShape
  <2>5. at[n] + record.words <= Room
    BY <2>3 DEF IsRecordAt
  <2>6. RecordsAt(body, at[n]) # {} /\ body[at[n]].words = record.words
    <3>1. RecordsAt(body, at[n]) = {record} /\ body[at[n]].words = record.words
      <4> HIDE DEF at, record
      <4> QED BY <2>2, <2>3, OneRecordAt
    <3> HIDE DEF at, record
    <3> QED BY <3>1
  <2>7. at[n] \in 1 .. Room /\ n + 1 \in 1 .. Room
    BY <1>1, <2>1, <2>4, <2>5
  <2>8. at[n + 1] = After(body)[at[n]]
    BY <2>1, <2>7, OffsetsAre
  <2> HIDE DEF at
  <2>9. After(body)[at[n]] = at[n] + record.words + 1
    BY <1>1, <2>6, <2>7 DEF After
  <2>10. at[n + 1] = at[n] + record.words + 1
    BY <2>8, <2>9
  <2>11. \A m \in 0 .. n + 1 : m \in 0 .. n \/ m = n + 1
    BY <2>1
  <2> HIDE DEF record
  <2>12. \A m \in 0 .. n + 1 : at[m] \in Nat /\ at[m] <= at[n + 1]
    BY <2>1, <2>4, <2>10, <2>11
  <2> QED BY <1>1, <2>1, <2>4, <2>5, <2>7, <2>10, <2>12 DEF record
<1>4. S = Nat
  <2> HIDE DEF S
  <2>1. S \in SUBSET Nat
    BY DEF S
  <2> QED BY <1>2, <1>3, <2>1, Upwards
<1>5. \A n \in 0 .. N : n \in S /\ n <= N
  BY SMTT(60), <1>1, <1>4
<1> QED BY <1>1, <1>5

-----------------------------------------------------------------------------
\* What is written behind the records leaves them.
LEMMA LaidKept ==
  ASSUME NEW body, NEW records, Laid(body, records),
         NEW other, \A i \in 1 .. Offsets(body)[Len(records)] - 1 : other[i] = body[i]
  PROVE  /\ Laid(other, records)
         /\ \A n \in 0 .. Len(records) : Offsets(other)[n] = Offsets(body)[n]
<1> DEFINE at == Offsets(body)
           N  == Len(records)
           S  == {n \in Nat : n <= N => Offsets(other)[n] = at[n]}
<1>1. N \in Nat /\ Room \in Nat /\ N <= Room
  BY RoomAssumption, LaidOffsets
<1>2. ASSUME NEW n \in 0 .. N - 1 PROVE IsRecordAt(other, at[n], records[n + 1])
  <2> DEFINE record == records[n + 1]
  <2>1. n + 1 \in 1 .. N /\ n + 1 \in 0 .. N /\ n \in 0 .. N /\ N \in 0 .. N /\ (n + 1) - 1 = n
    BY <1>1
  <2>2. IsRecordAt(body, at[n], record) /\ record \in Record
    BY <2>1 DEF Laid
  <2>3. record.words \in Nat
    BY <2>2, RecordShape
  <2>4. at[n] \in Nat \ {0} /\ at[N] \in Nat /\ at[n] + record.words + 1 <= at[N]
    BY <1>1, <2>1, LaidOffsets
  <2> HIDE DEF at, record
  <2>5. \A i \in 0 .. record.words : at[n] + i \in 1 .. at[N] - 1
    BY <2>3, <2>4
  <2>6. \A i \in 0 .. record.words : other[at[n] + i] = body[at[n] + i]
    BY <2>5 DEF at
  <2>7. other[at[n]] = body[at[n]]
    BY <2>3, <2>4, <2>6
  <2>8. \A i \in 1 .. record.words : other[at[n] + i] = body[at[n] + i]
    BY <2>3, <2>6
  <2>9. IsRecordAt(other, at[n], record)
    BY <2>2, <2>7, <2>8 DEF IsRecordAt
  <2> QED BY <2>9 DEF at, record
<1>3. 0 \in S
  BY OffsetsAre
<1>4. ASSUME NEW n \in S PROVE n + 1 \in S
  <2> SUFFICES ASSUME n + 1 <= N PROVE Offsets(other)[n + 1] = at[n + 1]
    OBVIOUS
  <2> DEFINE record == records[n + 1]
  <2>1. n \in 0 .. N - 1 /\ n + 1 \in 1 .. N /\ n + 1 \in 1 .. Room /\ (n + 1) - 1 = n /\ n \in 0 .. N
    BY <1>1
  <2>2. Offsets(other)[n] = at[n]
    BY <2>1
  <2>3. IsRecordAt(other, at[n], record) /\ record \in Record
    BY <1>2, <2>1 DEF Laid
  <2>4. RecordsAt(other, at[n]) # {} /\ other[at[n]].words = record.words /\ record.words \in Nat
    BY SMTT(60), <2>3, OneRecordAt, RecordShape
  <2>5. at[n] \in 1 .. Room
    <3>1. at[n] \in Nat \ {0} /\ at[n] + record.words <= Room
      BY <2>1, <2>3, LaidOffsets DEF IsRecordAt
    <3> QED BY <1>1, <2>4, <3>1
  <2>6. Offsets(other)[n + 1] = After(other)[at[n]]
    BY <2>1, <2>2, OffsetsAre
  <2>7. at[n + 1] = at[n] + record.words + 1
    BY <2>1, LaidOffsets
  <2> HIDE DEF at, record
  <2>8. After(other)[at[n]] = at[n] + record.words + 1
    BY <1>1, <2>4, <2>5 DEF After
  <2> QED BY <2>6, <2>7, <2>8
<1>5. S = Nat
  <2> HIDE DEF S
  <2>1. S \in SUBSET Nat
    BY DEF S
  <2> QED BY <1>3, <1>4, <2>1, Upwards
<1>6. \A n \in 0 .. N : Offsets(other)[n] = at[n]
  <2>1. \A n \in 0 .. N : n \in S /\ n <= N
    BY <1>1, <1>5
  <2> QED BY <2>1
<1>7. Laid(other, records)
  <2> SUFFICES ASSUME NEW i \in 1 .. N PROVE IsRecordAt(other, Offsets(other)[i - 1], records[i])
    BY DEF Laid
  <2>1. i - 1 \in 0 .. N - 1 /\ i - 1 \in 0 .. N /\ (i - 1) + 1 = i
    BY <1>1
  <2>2. IsRecordAt(other, at[i - 1], records[(i - 1) + 1])
    BY <1>2, <2>1
  <2> QED BY <1>6, <2>1, <2>2
<1> QED BY <1>6, <1>7

\* One record more behind the others.
LEMMA LaidMore ==
  ASSUME NEW body, NEW records, Laid(body, records),
         NEW record \in Record, IsRecordAt(body, Offsets(body)[Len(records)], record)
  PROVE  /\ Laid(body, Append(records, record))
         /\ Len(Append(records, record)) = Len(records) + 1
         /\ Offsets(body)[Len(records) + 1] = Offsets(body)[Len(records)] + record.words + 1
<1> DEFINE N    == Len(records)
           more == Append(records, record)
<1>1. /\ more \in Seq(Record) /\ Len(more) = N + 1 /\ N \in Nat
      /\ more[N + 1] = record /\ \A i \in 1 .. N : more[i] = records[i]
  BY DEF Laid
<1> HIDE DEF more
<1>2. Laid(body, more)
  <2> SUFFICES ASSUME NEW i \in 1 .. N + 1 PROVE IsRecordAt(body, Offsets(body)[i - 1], more[i])
    BY <1>1 DEF Laid
  <2>1. CASE i \in 1 .. N
    BY <1>1, <2>1 DEF Laid
  <2>2. CASE i = N + 1
    <3>1. i - 1 = N
      BY <1>1, <2>2
    <3> QED BY <1>1, <2>2, <3>1
  <2> QED BY <1>1, <2>1, <2>2
<1>3. Offsets(body)[N + 1] = Offsets(body)[(N + 1) - 1] + more[N + 1].words + 1
  <2>1. N + 1 \in 1 .. Len(more)
    BY <1>1
  <2> QED BY <1>2, <2>1, LaidOffsets
<1>4. (N + 1) - 1 = N
  BY <1>1
<1> QED BY <1>1, <1>2, <1>3, <1>4 DEF more

\* The cursor to the record after n of slab s.
CursorTo(body, s, n) == [slab |-> s, offset |-> Offsets(body)[n], read_count |-> n]

\* Slab::read gives the records one by one, then nothing.
LEMMA ReadIs ==
  ASSUME NEW slab, NEW records, Laid(slab.body, records), slab.count = Len(records), NEW s
  PROVE  /\ \A n \in 0 .. Len(records) - 1 :
               SlabRead(slab, CursorTo(slab.body, s, n)) =
                   Found(records[n + 1], CursorTo(slab.body, s, n + 1))
         /\ \A cursor : cursor.read_count = Len(records) => SlabRead(slab, cursor) = Nothing("None")
<1> DEFINE body == slab.body
           N    == Len(records)
<1>1. N \in Nat /\ Room \in Nat
  BY RoomAssumption, LaidOffsets
<1>2. ASSUME NEW n \in 0 .. N - 1
      PROVE  SlabRead(slab, CursorTo(body, s, n)) = Found(records[n + 1], CursorTo(body, s, n + 1))
  <2> DEFINE cursor == CursorTo(body, s, n)
             record == records[n + 1]
             there  == RecordsAt(body, cursor.offset)
  <2>1. n + 1 \in 1 .. N /\ (n + 1) - 1 = n /\ n \in 0 .. N /\ ~(n >= N)
    BY <1>1
  <2>2. cursor.slab = s /\ cursor.offset = Offsets(body)[n] /\ cursor.read_count = n
    BY DEF CursorTo
  <2>3. IsRecordAt(body, cursor.offset, record) /\ record \in Record
    BY <2>1, <2>2 DEF Laid
  <2>4. there = {record} /\ body[cursor.offset] # Blank
    BY <2>3, OneRecordAt
  <2>5. Offsets(body)[n + 1] = Offsets(body)[n] + record.words + 1
    BY <2>1, LaidOffsets
  <2>6. CursorTo(body, s, n + 1) = [slab |-> cursor.slab, offset |-> cursor.offset + record.words + 1,
                                    read_count |-> cursor.read_count + 1]
    BY <2>2, <2>5 DEF CursorTo
  <2> HIDE DEF cursor, record
  <2>7. (CHOOSE r \in there : TRUE) = record /\ there # {}
    BY <2>4
  <2>8. ~(cursor.read_count >= slab.count)
    BY <2>1, <2>2
  <2>9. SlabRead(slab, cursor) =
            Found(record, [slab |-> cursor.slab, offset |-> cursor.offset + record.words + 1,
                           read_count |-> cursor.read_count + 1])
    BY <2>4, <2>7, <2>8 DEF SlabRead
  <2> QED BY <2>6, <2>9 DEF cursor, record
<1>3. ASSUME NEW cursor, cursor.read_count = N PROVE SlabRead(slab, cursor) = Nothing("None")
  <2>1. cursor.read_count >= slab.count
    BY <1>1, <1>3
  <2> QED BY <2>1 DEF SlabRead
<1> QED BY <1>2, <1>3

\* A scan finds the records of the slab, each with the cursor to it.
LEMMA ScanIs ==
  ASSUME NEW slab, NEW records, Laid(slab.body, records), slab.count = Len(records), NEW s
  PROVE  /\ SlabScan(slab, s).steps =
                [i \in 1 .. Len(records) |->
                    [cursor |-> CursorTo(slab.body, s, i - 1), record |-> records[i]]]
         /\ ~SlabScan(slab, s).corrupt
<1> DEFINE N     == Len(records)
           at    == Offsets(slab.body)
           reads == {n \in 0 .. Room : n <= slab.count /\ at[n] # 0}
<1>1. N \in Nat /\ Room \in Nat /\ N \in 0 .. Room /\ \A n \in 0 .. N : at[n] # 0
  BY RoomAssumption, LaidOffsets
<1>2. Max(reads) = N
  <2>1. reads \in SUBSET Nat /\ N \in reads /\ \A y \in reads : y <= N
    BY <1>1
  <2> HIDE DEF reads, at
  <2> QED BY <2>1, LargestIs
<1>3. SlabScan(slab, s) =
        [steps   |-> [i \in 1 .. N |-> [cursor |-> CursorTo(slab.body, s, i - 1),
                                       record |-> SlabRead(slab, CursorTo(slab.body, s, i - 1)).record]],
         corrupt |-> SlabRead(slab, CursorTo(slab.body, s, N)).kind = "Corrupt"]
  BY <1>2 DEF SlabScan, CursorTo
<1>4. ASSUME NEW i \in 1 .. N PROVE SlabRead(slab, CursorTo(slab.body, s, i - 1)).record = records[i]
  <2>1. i - 1 \in 0 .. N - 1 /\ (i - 1) + 1 = i
    BY <1>1
  <2>2. SlabRead(slab, CursorTo(slab.body, s, i - 1)) = Found(records[i], CursorTo(slab.body, s, i))
    BY <2>1, ReadIs
  <2> QED BY <2>2 DEF Found
<1>5. SlabRead(slab, CursorTo(slab.body, s, N)).kind = "None"
  <2>1. CursorTo(slab.body, s, N).read_count = N
    BY DEF CursorTo
  <2>2. SlabRead(slab, CursorTo(slab.body, s, N)) = Nothing("None")
    BY <2>1, ReadIs
  <2> QED BY <2>2 DEF Nothing
<1>6. SlabScan(slab, s).steps =
        [i \in 1 .. N |-> [cursor |-> CursorTo(slab.body, s, i - 1),
                           record |-> SlabRead(slab, CursorTo(slab.body, s, i - 1)).record]]
  BY <1>3
<1>7. ~SlabScan(slab, s).corrupt
  <2>1. SlabScan(slab, s).corrupt = (SlabRead(slab, CursorTo(slab.body, s, N)).kind = "Corrupt")
    BY <1>3
  <2> QED BY <1>5, <2>1
<1> QED BY <1>4, <1>6, <1>7

-----------------------------------------------------------------------------
(* The records of several slabs                                            *)

Flattening(f, seqs, n) == f = [i \in 1 .. n |-> IF i = 1 THEN seqs[i] ELSE f[i - 1] \o seqs[i]]

\* There is a function that adds one sequence after the other.
LEMMA FlatteningExists ==
  ASSUME NEW seqs, NEW n \in Nat
  PROVE  \E f : Flattening(f, seqs, n)
<1> DEFINE S == {m \in Nat : \E f : Flattening(f, seqs, m)}
<1>1. 0 \in S
  <2>1. Flattening([i \in 1 .. 0 |-> seqs[i]], seqs, 0)
    <3>1. 1 .. 0 = {}
      OBVIOUS
    <3> QED BY <3>1 DEF Flattening
  <2> QED BY <2>1
<1>2. ASSUME NEW m \in S PROVE m + 1 \in S
  <2>1. m \in Nat
    OBVIOUS
  <2>2. PICK f : Flattening(f, seqs, m)
    OBVIOUS
  <2> DEFINE g == [i \in 1 .. m + 1 |-> IF i \in 1 .. m THEN f[i]
                                       ELSE IF i = 1 THEN seqs[i] ELSE f[m] \o seqs[i]]
  <2>3. ASSUME NEW i \in 1 .. m + 1 PROVE g[i] = IF i = 1 THEN seqs[i] ELSE g[i - 1] \o seqs[i]
    <3>1. CASE i \in 1 .. m
      <4>1. g[i] = f[i] /\ (i # 1 => i - 1 \in 1 .. m /\ g[i - 1] = f[i - 1])
        BY <2>1, <3>1
      <4> HIDE DEF g
      <4>2. f[i] = IF i = 1 THEN seqs[i] ELSE f[i - 1] \o seqs[i]
        BY <2>2, <3>1 DEF Flattening
      <4> QED BY <4>1, <4>2
    <3>2. CASE i = m + 1
      <4>1. i \notin 1 .. m /\ i - 1 = m /\ (i # 1 => m \in 1 .. m)
        BY <2>1, <3>2
      <4>2. g[i] = IF i = 1 THEN seqs[i] ELSE f[m] \o seqs[i]
        BY <4>1
      <4>3. i # 1 => g[i - 1] = f[m]
        BY <2>1, <4>1
      <4> HIDE DEF g
      <4> QED BY <4>2, <4>3
    <3> QED BY <2>1, <3>1, <3>2
  <2>4. g = [i \in 1 .. m + 1 |-> g[i]]
    OBVIOUS
  <2> HIDE DEF g
  <2>5. Flattening(g, seqs, m + 1)
    BY <2>3, <2>4 DEF Flattening
  <2> QED BY <2>1, <2>5
<1> HIDE DEF S
<1>3. S = Nat
  <2>1. S \in SUBSET Nat
    BY DEF S
  <2> QED BY <1>1, <1>2, <2>1, Upwards
<1> QED BY <1>3 DEF S

\* Of as much of the sequences, one makes the same.
LEMMA FlatteningSame ==
  ASSUME NEW seqs, NEW others, NEW n, NEW m, NEW f, NEW g
  PROVE  /\ n \in Nat /\ m = n + 1 /\ Flattening(f, seqs, m) /\ Flattening(g, others, n)
         /\ \A i \in 1 .. n : others[i] = seqs[i]
         => \A i \in 1 .. n : f[i] = g[i]
<1> SUFFICES ASSUME n \in Nat, m = n + 1, Flattening(f, seqs, m), Flattening(g, others, n),
                    \A i \in 1 .. n : others[i] = seqs[i]
             PROVE  \A i \in 1 .. n : f[i] = g[i]
  OBVIOUS
<1> DEFINE S == {i \in Nat : i + 1 \in 1 .. n => f[i + 1] = g[i + 1]}
<1>1. 0 \in S
  <2> SUFFICES ASSUME 1 \in 1 .. n PROVE f[1] = g[1]
    OBVIOUS
  <2> QED BY DEF Flattening
<1>2. ASSUME NEW i \in S PROVE i + 1 \in S
  <2> SUFFICES ASSUME i + 1 + 1 \in 1 .. n PROVE f[i + 1 + 1] = g[i + 1 + 1]
    OBVIOUS
  <2>1. i \in Nat /\ i + 1 \in 1 .. n /\ i + 1 + 1 # 1 /\ (i + 1 + 1) - 1 = i + 1 /\ i + 1 + 1 \in 1 .. m
    OBVIOUS
  <2>2. f[i + 1] = g[i + 1]
    BY <2>1
  <2>3. f[i + 1 + 1] = f[(i + 1 + 1) - 1] \o seqs[i + 1 + 1]
    BY <2>1 DEF Flattening
  <2>4. g[i + 1 + 1] = g[(i + 1 + 1) - 1] \o others[i + 1 + 1]
    BY <2>1 DEF Flattening
  <2>5. others[i + 1 + 1] = seqs[i + 1 + 1]
    OBVIOUS
  <2> QED BY <2>1, <2>2, <2>3, <2>4, <2>5
<1>3. S = Nat
  <2> HIDE DEF S
  <2>1. S \in SUBSET Nat
    BY DEF S
  <2> QED BY <1>1, <1>2, <2>1, Upwards
<1>4. \A i \in 1 .. n : i - 1 \in Nat /\ (i - 1) + 1 = i
  OBVIOUS
<1> QED BY <1>3, <1>4

\* The same of the last of them.
LEMMA FlatteningLast ==
  ASSUME NEW seqs, NEW others, NEW n \in Nat, NEW f, NEW g, n \in 1 .. n,
         /\ Flattening(f, seqs, n + 1) /\ Flattening(g, others, n)
         /\ \A i \in 1 .. n : others[i] = seqs[i]
  PROVE  f[n] = g[n]
  BY FlatteningSame

\* FlattenSeq adds one sequence after the other.
LEMMA FlattenNext ==
  ASSUME NEW T, NEW seqs, NEW n \in Nat, Len(seqs) = n + 1,
         \A i \in 1 .. n + 1 : seqs[i] \in Seq(T)
  PROVE  FlattenSeq(seqs) = FlattenSeq([i \in 1 .. n |-> seqs[i]]) \o seqs[n + 1]
<1> DEFINE first == [i \in 1 .. n |-> seqs[i]]
<1>1. Len(first) = n /\ \A i \in 1 .. n : first[i] = seqs[i]
  OBVIOUS
<1>2. PICK f : Flattening(f, seqs, n + 1) /\ FlattenSeq(seqs) = f[n + 1]
  <2>1. FlattenSeq(seqs) = (CHOOSE f : Flattening(f, seqs, n + 1))[n + 1]
    <3>1. Len(seqs) # 0
      OBVIOUS
    <3> QED BY <3>1 DEF FlattenSeq, Flattening
  <2>2. \E f : Flattening(f, seqs, n + 1)
    <3>1. n + 1 \in Nat
      OBVIOUS
    <3> QED BY <3>1, FlatteningExists
  <2> QED BY <2>1, <2>2
<1> HIDE DEF first
<1>3. n + 1 \in 1 .. n + 1 /\ (n + 1) - 1 = n
  OBVIOUS
<1>4. CASE n = 0
  <2>1. f[n + 1] = seqs[n + 1]
    BY <1>2, <1>3, <1>4 DEF Flattening
  <2>2. FlattenSeq(first) = first /\ first = <<>>
    BY <1>1, <1>4 DEF FlattenSeq, first
  <2>3. <<>> \o seqs[n + 1] = seqs[n + 1]
    BY <1>3
  <2> QED BY <1>2, <2>1, <2>2, <2>3 DEF first
<1>5. CASE n # 0
  <2>1. PICK g : Flattening(g, first, n) /\ FlattenSeq(first) = g[n]
    <3>1. FlattenSeq(first) = (CHOOSE g : Flattening(g, first, n))[n]
      BY <1>1, <1>5 DEF FlattenSeq, Flattening
    <3>2. \E g : Flattening(g, first, n)
      BY FlatteningExists
    <3> QED BY <3>1, <3>2
  <2>2. f[n] = g[n]
    <3>1. n \in 1 .. n
      BY <1>5
    <3>2. /\ Flattening(f, seqs, n + 1) /\ Flattening(g, first, n)
          /\ \A i \in 1 .. n : first[i] = seqs[i]
      BY <1>1, <1>2, <2>1
    <3> QED BY <3>1, <3>2, FlatteningLast
  <2>3. f[n + 1] = f[n] \o seqs[n + 1]
    <3>1. n + 1 # 1
      BY <1>5
    <3>2. f[n + 1] = f[(n + 1) - 1] \o seqs[n + 1]
      BY <1>2, <1>3, <3>1 DEF Flattening
    <3> QED BY <1>3, <3>2
  <2> QED BY <1>2, <2>1, <2>2, <2>3 DEF first
<1> QED BY <1>4, <1>5

Step == [cursor: Cursor, record: Record]

\* The records of the first n slabs, each with the cursor to it.
StepsOf(mem, n) == FlattenSeq([s \in 1 .. n |-> SlabScan(mem[s], s).steps])

\* One slab more adds what a scan of it finds.
LEMMA StepsOfNext ==
  ASSUME NEW mem, NEW n \in Nat, \A s \in 1 .. n + 1 : SlabScan(mem[s], s).steps \in Seq(Step)
  PROVE  StepsOf(mem, n + 1) = StepsOf(mem, n) \o SlabScan(mem[n + 1], n + 1).steps
<1> DEFINE seqs == [s \in 1 .. n + 1 |-> SlabScan(mem[s], s).steps]
<1>1. Len(seqs) = n + 1 /\ \A i \in 1 .. n + 1 : seqs[i] = SlabScan(mem[i], i).steps
  OBVIOUS
<1>2. [i \in 1 .. n |-> seqs[i]] = [s \in 1 .. n |-> SlabScan(mem[s], s).steps]
  OBVIOUS
<1>3. n + 1 \in 1 .. n + 1
  OBVIOUS
<1> HIDE DEF seqs
<1>4. FlattenSeq(seqs) = FlattenSeq([i \in 1 .. n |-> seqs[i]]) \o seqs[n + 1]
  BY <1>1, FlattenNext
<1> QED BY <1>1, <1>2, <1>3, <1>4 DEF StepsOf, seqs

\* No slabs, no records.
LEMMA StepsOfNone == ASSUME NEW mem PROVE StepsOf(mem, 0) = <<>>
<1>1. Len([s \in 1 .. 0 |-> SlabScan(mem[s], s).steps]) = 0
  OBVIOUS
<1>2. [s \in 1 .. 0 |-> SlabScan(mem[s], s).steps] = <<>>
  OBVIOUS
<1> HIDE DEF SlabScan
<1> QED BY <1>1, <1>2 DEF StepsOf, FlattenSeq

\* The steps of any number of slabs.
LEMMA StepsOfType ==
  ASSUME NEW mem, NEW N \in Nat, \A s \in 1 .. N : SlabScan(mem[s], s).steps \in Seq(Step)
  PROVE  \A n \in 0 .. N : StepsOf(mem, n) \in Seq(Step)
<1> DEFINE S == {n \in Nat : n <= N => StepsOf(mem, n) \in Seq(Step)}
<1>1. 0 \in S
  <2>1. StepsOf(mem, 0) \in Seq(Step)
    <3>1. <<>> \in Seq(Step)
      OBVIOUS
    <3> QED BY <3>1, StepsOfNone
  <2> HIDE DEF Step
  <2> QED BY <2>1
<1>2. ASSUME NEW n \in S PROVE n + 1 \in S
  <2> SUFFICES ASSUME n + 1 <= N PROVE StepsOf(mem, n + 1) \in Seq(Step)
    OBVIOUS
  <2>1. n \in Nat /\ n <= N /\ n + 1 \in 1 .. N /\ \A s \in 1 .. n + 1 : s \in 1 .. N
    OBVIOUS
  <2>2. StepsOf(mem, n) \in Seq(Step)
    BY <2>1
  <2>3. StepsOf(mem, n + 1) = StepsOf(mem, n) \o SlabScan(mem[n + 1], n + 1).steps
    BY <2>1, StepsOfNext
  <2>4. SlabScan(mem[n + 1], n + 1).steps \in Seq(Step)
    BY <2>1
  <2>5. \A a, b \in Seq(Step) : a \o b \in Seq(Step)
    OBVIOUS
  <2> QED BY <2>2, <2>3, <2>4, <2>5
<1>3. S = Nat
  <2> HIDE DEF S
  <2>1. S \in SUBSET Nat
    BY DEF S
  <2> QED BY <1>1, <1>2, <2>1, Upwards
<1> QED BY <1>3

\* The records of fewer slabs come first.
LEMMA StepsOfPrefix ==
  ASSUME NEW mem, NEW N \in Nat, \A s \in 1 .. N : SlabScan(mem[s], s).steps \in Seq(Step),
         NEW m \in 0 .. N
  PROVE  \A n \in m .. N :
            /\ Len(StepsOf(mem, m)) <= Len(StepsOf(mem, n))
            /\ \A k \in 1 .. Len(StepsOf(mem, m)) : StepsOf(mem, n)[k] = StepsOf(mem, m)[k]
<1> DEFINE L(n) == StepsOf(mem, n)
           Is(n) == /\ Len(L(m)) <= Len(L(n))
                    /\ \A k \in 1 .. Len(L(m)) : L(n)[k] = L(m)[k]
           S == {d \in Nat : m + d <= N => Is(m + d)}
<1>0. \A n \in 0 .. N : L(n) \in Seq(Step) /\ Len(L(n)) \in Nat
  <2>1. \A n \in 0 .. N : StepsOf(mem, n) \in Seq(Step)
    BY StepsOfType
  <2> QED BY <2>1
<1>1. 0 \in S
  <2>1. m + 0 = m /\ Len(L(m)) \in Nat
    BY <1>0
  <2>2. Is(m)
    BY <2>1
  <2> QED BY <2>1, <2>2
<1>2. ASSUME NEW d \in S PROVE d + 1 \in S
  <2> SUFFICES ASSUME m + (d + 1) <= N PROVE Is(m + (d + 1))
    OBVIOUS
  <2> DEFINE n == m + d
  <2>1. /\ n \in 0 .. N /\ n \in Nat /\ n <= N /\ n + 1 \in 1 .. N /\ m + (d + 1) = n + 1
        /\ \A s \in 1 .. n + 1 : s \in 1 .. N
    OBVIOUS
  <2>2. Is(n)
    BY <2>1
  <2> HIDE DEF n
  <2>3. L(n + 1) = L(n) \o SlabScan(mem[n + 1], n + 1).steps
    BY <2>1, StepsOfNext
  <2>4. /\ L(n) \in Seq(Step) /\ L(m) \in Seq(Step) /\ Len(L(m)) \in Nat
        /\ SlabScan(mem[n + 1], n + 1).steps \in Seq(Step)
    BY <1>0, <2>1
  <2> HIDE DEF L
  <2>5. Len(L(n + 1)) >= Len(L(n)) /\ \A k \in 1 .. Len(L(n)) : L(n + 1)[k] = L(n)[k]
    BY <2>3, <2>4
  <2>6. Is(n + 1)
    BY <2>2, <2>4, <2>5
  <2> HIDE DEF Is
  <2> QED BY <2>1, <2>6
<1>3. S = Nat
  <2> HIDE DEF S
  <2>1. S \in SUBSET Nat
    BY DEF S
  <2> QED BY <1>1, <1>2, <2>1, Upwards
<1>4. \A n \in m .. N : Is(n)
  <2> SUFFICES ASSUME NEW n \in m .. N PROVE Is(n)
    OBVIOUS
  <2>1. n - m \in Nat /\ m + (n - m) = n /\ n <= N
    OBVIOUS
  <2>2. n - m \in S
    BY <1>3, <2>1
  <2> HIDE DEF Is
  <2> QED BY <2>1, <2>2
<1> QED BY <1>4

\* Where the record after n of slab s is among them all, which has its place.
LEMMA StepsAt ==
  ASSUME NEW mem, NEW N \in Nat, \A s \in 1 .. N : SlabScan(mem[s], s).steps \in Seq(Step),
         NEW s \in 1 .. N
  PROVE  LET steps == SlabScan(mem[s], s).steps
             start == Len(StepsOf(mem, s - 1))
         IN  /\ start \in Nat /\ Len(StepsOf(mem, s)) = start + Len(steps)
             /\ start + Len(steps) <= Len(StepsOf(mem, N))
             /\ \A j \in 1 .. Len(steps) : StepsOf(mem, N)[start + j] = steps[j]
<1> DEFINE steps == SlabScan(mem[s], s).steps
           start == Len(StepsOf(mem, s - 1))
<1>1. s - 1 \in 0 .. N /\ s - 1 \in Nat /\ (s - 1) + 1 = s /\ s \in 0 .. N /\ N \in s .. N
  OBVIOUS
<1>2. StepsOf(mem, s) = StepsOf(mem, s - 1) \o steps
  <2>1. \A t \in 1 .. (s - 1) + 1 : t \in 1 .. N
    BY <1>1
  <2>2. StepsOf(mem, (s - 1) + 1) =
            StepsOf(mem, s - 1) \o SlabScan(mem[(s - 1) + 1], (s - 1) + 1).steps
    BY <1>1, <2>1, StepsOfNext
  <2> QED BY <1>1, <2>2
<1>3. StepsOf(mem, s - 1) \in Seq(Step) /\ steps \in Seq(Step)
  BY <1>1, StepsOfType
<1>4. /\ Len(StepsOf(mem, s)) <= Len(StepsOf(mem, N))
      /\ \A k \in 1 .. Len(StepsOf(mem, s)) : StepsOf(mem, N)[k] = StepsOf(mem, s)[k]
  BY <1>1, StepsOfPrefix
<1> HIDE DEF steps
<1>5. /\ start \in Nat /\ Len(steps) \in Nat /\ Len(StepsOf(mem, s)) = start + Len(steps)
      /\ \A j \in 1 .. Len(steps) : StepsOf(mem, s)[start + j] = steps[j]
  BY <1>2, <1>3
<1>6. \A j \in 1 .. Len(steps) : start + j \in 1 .. Len(StepsOf(mem, s))
  BY <1>5
<1> QED BY <1>4, <1>5, <1>6 DEF steps

\* And every record is in a slab.
LEMMA StepsFrom ==
  ASSUME NEW mem, NEW N \in Nat, \A s \in 1 .. N : SlabScan(mem[s], s).steps \in Seq(Step)
  PROVE  \A k \in 1 .. Len(StepsOf(mem, N)) : \E s \in 1 .. N :
            \E j \in 1 .. Len(SlabScan(mem[s], s).steps) : k = Len(StepsOf(mem, s - 1)) + j
<1> DEFINE In(n) == \A k \in 1 .. Len(StepsOf(mem, n)) : \E s \in 1 .. n :
                        \E j \in 1 .. Len(SlabScan(mem[s], s).steps) : k = Len(StepsOf(mem, s - 1)) + j
           S == {n \in Nat : n <= N => In(n)}
<1>1. 0 \in S
  <2>1. 1 .. Len(StepsOf(mem, 0)) = {}
    BY StepsOfNone
  <2> QED BY <2>1
<1>2. ASSUME NEW n \in S PROVE n + 1 \in S
  <2> SUFFICES ASSUME n + 1 <= N PROVE In(n + 1)
    OBVIOUS
  <2>1. n \in Nat /\ n <= N /\ n + 1 \in 1 .. N /\ (n + 1) - 1 = n /\ \A s \in 1 .. n : s \in 1 .. n + 1
    OBVIOUS
  <2>2. In(n)
    BY <2>1
  <2> DEFINE steps == SlabScan(mem[n + 1], n + 1).steps
             start == Len(StepsOf(mem, n))
  <2>3. start \in Nat /\ Len(steps) \in Nat /\ Len(StepsOf(mem, n + 1)) = start + Len(steps)
    <3>1. /\ Len(StepsOf(mem, (n + 1) - 1)) \in Nat
          /\ Len(StepsOf(mem, n + 1)) = Len(StepsOf(mem, (n + 1) - 1)) + Len(steps)
      BY <2>1, StepsAt
    <3>2. steps \in Seq(Step)
      BY <2>1
    <3> HIDE DEF steps
    <3>3. Len(steps) \in Nat
      BY <3>2
    <3> QED BY <2>1, <3>1, <3>3
  <2>4. ASSUME NEW k \in 1 .. Len(StepsOf(mem, n + 1))
        PROVE  \E s \in 1 .. n + 1 : \E j \in 1 .. Len(SlabScan(mem[s], s).steps) :
                  k = Len(StepsOf(mem, s - 1)) + j
    <3>1. CASE k <= start
      <4>1. k \in 1 .. start
        BY <2>3, <3>1
      <4> QED BY <2>1, <2>2, <4>1
    <3>2. CASE k > start
      <4>1. k - start \in 1 .. Len(steps) /\ k = start + (k - start)
        BY <2>3, <3>2
      <4>2. n + 1 \in 1 .. n + 1 /\ start = Len(StepsOf(mem, (n + 1) - 1))
        BY <2>1
      <4> QED BY <4>1, <4>2
    <3> QED BY <2>3, <3>1, <3>2
  <2> QED BY <2>4
<1>3. S = Nat
  <2> HIDE DEF S
  <2>1. S \in SUBSET Nat
    BY DEF S
  <2> QED BY <1>1, <1>2, <2>1, Upwards
<1>4. In(N)
  <2> HIDE DEF S
  <2>1. N \in S
    BY <1>3
  <2> USE DEF S
  <2> HIDE DEF In
  <2>2. N <= N
    OBVIOUS
  <2> QED BY <2>1, <2>2
<1> QED BY <1>4

-----------------------------------------------------------------------------
\* The records of a body that are laid out are those its lengths lead to.
LEMMA StagedIs ==
  ASSUME NEW body, NEW records, Laid(body, records)
  PROVE  Staged(body, Len(records)) = records
<1> DEFINE N == Len(records)
<1>1. N \in Nat /\ records \in Seq(Record) /\ records = [i \in 1 .. N |-> records[i]]
  BY DEF Laid
<1>2. \A i \in 1 .. N : records[i] \in Record /\ IsRecordAt(body, Offsets(body)[i - 1], records[i])
  BY <1>1 DEF Laid
<1>3. \A i \in 1 .. N : body[Offsets(body)[i - 1] + 1].record = records[i]
  BY <1>2, OneRecordAt
<1> QED BY <1>1, <1>3 DEF Staged

\* A header (or a writer) that says count and max_sequence tells of this body.
Tells(body, count, max_sequence) ==
    LET records == Staged(body, count) IN
    /\ Laid(body, records)
    /\ \A i \in 1 .. count : records[i].max_sequence <= max_sequence
    /\ count > 0 => max_sequence = records[count].max_sequence

\* As many records as are counted.
LEMMA StagedLen ==
  ASSUME NEW body, NEW count \in Nat
  PROVE  Len(Staged(body, count)) = count
  BY DEF Staged

\* Of an empty slab it tells whatever its words are.
LEMMA TellsNone ==
  ASSUME NEW body, NEW max_sequence
  PROVE  Tells(body, 0, max_sequence) /\ Staged(body, 0) = <<>> /\ Offsets(body)[0] = 1
<1>1. Staged(body, 0) = <<>>
  BY DEF Staged
<1>2. Laid(body, <<>>)
  BY DEF Laid
<1>3. 1 .. 0 = {} /\ ~(0 > 0)
  OBVIOUS
<1> QED BY <1>1, <1>2, <1>3, OffsetsAre DEF Tells

\* The same up to this word.
Same(other, body, at) == \A i \in 1 .. at - 1 : other[i] = body[i]

\* What is written behind the records does not change what it tells of.
LEMMA TellsKept ==
  ASSUME NEW body, NEW count \in Nat, NEW max_sequence, Tells(body, count, max_sequence),
         NEW other, Same(other, body, Offsets(body)[count])
  PROVE  /\ Tells(other, count, max_sequence)
         /\ Staged(other, count) = Staged(body, count)
         /\ Offsets(other)[count] = Offsets(body)[count]
<1> DEFINE records == Staged(body, count)
<1>1. Laid(body, records) /\ Len(records) = count /\ count \in 0 .. count
  BY StagedLen DEF Tells
<1> HIDE DEF records
<1>2. Laid(other, records) /\ Offsets(other)[count] = Offsets(body)[count]
  BY <1>1, LaidKept DEF Same
<1>3. Staged(other, count) = records
  BY <1>1, <1>2, StagedIs
<1> QED BY <1>2, <1>3 DEF Tells, records

\* Of one record more.
LEMMA TellsMore ==
  ASSUME NEW body, NEW count \in Nat, NEW max_sequence \in Nat, Tells(body, count, max_sequence),
         NEW record \in Record, max_sequence <= record.max_sequence,
         NEW other, Same(other, body, Offsets(body)[count]),
         IsRecordAt(other, Offsets(body)[count], record)
  PROVE  /\ Tells(other, count + 1, record.max_sequence)
         /\ Staged(other, count + 1) = Append(Staged(body, count), record)
         /\ Offsets(other)[count + 1] = Offsets(body)[count] + record.words + 1
<1> DEFINE records == Staged(body, count)
           more == Append(records, record)
<1>1. Laid(body, records) /\ Len(records) = count
  BY StagedLen DEF Tells
<1>2. \A i \in 1 .. count : records[i].max_sequence <= max_sequence
  BY DEF Tells
<1> HIDE DEF records
<1>3. /\ Laid(other, records) /\ Offsets(other)[count] = Offsets(body)[count]
  BY <1>1, LaidKept DEF Same
<1>4. /\ Laid(other, more) /\ Len(more) = count + 1
      /\ Offsets(other)[count + 1] = Offsets(other)[count] + record.words + 1
  BY <1>1, <1>3, LaidMore
<1>5. more[count + 1] = record /\ \A i \in 1 .. count : more[i] = records[i] /\ records[i] \in Record
  BY <1>1 DEF Laid
<1> HIDE DEF more
<1>6. Staged(other, count + 1) = more
  BY <1>4, StagedIs
<1>7. \A i \in 1 .. count + 1 : more[i].max_sequence <= record.max_sequence
  BY <1>2, <1>5, RecordShape
<1> QED BY <1>3, <1>4, <1>5, <1>6, <1>7 DEF Tells, more, records

\* And the batch has it at its end.
LEMMA StagedMore ==
  ASSUME NEW body, NEW count \in Nat, NEW max_sequence \in Nat, Tells(body, count, max_sequence),
         NEW record \in Record, max_sequence <= record.max_sequence,
         NEW other, Same(other, body, Offsets(body)[count]),
         IsRecordAt(other, Offsets(body)[count], record)
  PROVE  Staged(other, count + 1) = Append(Staged(body, count), record)
  BY TellsMore

-----------------------------------------------------------------------------
(* The invariant of the writer                                             *)

\* n slabs with the headers of what is in them, and the others without.
SlabsTell(mem, n) ==
    /\ mem \in [1 .. Slabs -> Slab]
    /\ n \in 0 .. Slabs
    /\ \A s \in 1 .. n : Tells(mem[s].body, mem[s].count, mem[s].max_sequence)
    /\ \A s \in n + 1 .. Slabs : mem[s].count = 0

Headers == SlabsTell(memory, slab_count) /\ panicked \in BOOLEAN

\* The open writer is in the slab after the committed ones, which may be past the
\* end of the memory, and is where its records end.
WriterSound ==
    writer # NoWriter =>
        /\ writer \in [slab: {slab_count + 1}, count: 0 .. Room,
                       max_sequence: 0 .. MaxSequence, offset: 1 .. Room + 1]
        /\ writer.slab <= Slabs =>
              /\ Tells(memory[writer.slab].body, writer.count, writer.max_sequence)
              /\ writer.offset = Offsets(memory[writer.slab].body)[writer.count]

SlabsInv == Headers /\ WriterSound

\* A step that leaves the committed slabs alone.
Appends ==
    /\ slab_count <= slab_count'
    /\ \A s \in 1 .. slab_count : memory'[s] = memory[s]

\* What the open writer has written.
Batch(mem, w) == IF w = NoWriter \/ w.slab > Slabs THEN <<>> ELSE Staged(mem[w.slab].body, w.count)

\* At first no slab counts anything.
LEMMA SlabsInit == Init => SlabsInv
<1> SUFFICES ASSUME Init PROVE SlabsInv
  OBVIOUS
<1> DEFINE blank == [i \in 1 .. Room |-> Blank]
           slab == [count |-> 0, max_sequence |-> 0, body |-> blank]
<1>1. slab \in Slab
  <2>1. blank \in [1 .. Room -> Cell]
    BY DEF Cell
  <2> HIDE DEF blank
  <2> QED BY <2>1, MaxSequenceAssumption DEF Slab
<1>2. memory = [s \in 1 .. Slabs |-> slab] /\ slab_count = 0 /\ writer = NoWriter /\ panicked = FALSE
  BY DEF Init
<1>3. slab.count = 0
  OBVIOUS
<1> HIDE DEF slab
<1>4. memory \in [1 .. Slabs -> Slab] /\ \A s \in 1 .. Slabs : memory[s].count = 0
  BY <1>1, <1>2, <1>3
<1>5. 1 .. 0 = {} /\ 0 + 1 .. Slabs = 1 .. Slabs /\ 0 \in 0 .. Slabs
  BY SlabsAssumption
<1>6. Headers
  BY <1>2, <1>4, <1>5 DEF Headers, SlabsTell
<1> QED BY <1>2, <1>6 DEF SlabsInv, WriterSound

\* How a write changes a body.
LEMMA PartsType ==
  ASSUME NEW body \in [1 .. Room -> Cell], NEW at \in 1 .. Room, NEW record \in Record,
         NEW parts \in 0 .. Room, parts <= record.words
  PROVE  /\ WithParts(body, at, record, parts) \in [1 .. Room -> Cell]
         /\ \A i \in 1 .. at - 1 : WithParts(body, at, record, parts)[i] = body[i]
<1>1. \A i \in 1 .. record.words : Part(record, i) \in Cell
  BY DEF Cell
<1>2. ASSUME NEW i \in 1 .. Room
      PROVE  (IF i \in at + 1 .. at + parts THEN Part(record, i - at) ELSE body[i]) \in Cell
  <2>1. i \in at + 1 .. at + parts => i - at \in 1 .. record.words
    BY RecordShape
  <2> QED BY <1>1, <2>1
<1>3. \A i \in 1 .. at - 1 : i \in 1 .. Room /\ i \notin at + 1 .. at + parts
  BY RoomAssumption
<1> HIDE DEF Cell
<1> QED BY <1>2, <1>3 DEF WithParts

\* A record as it is written.
Written(body, at, record) ==
    [WithParts(body, at, record, record.words) EXCEPT ![at] = Length(record.words)]

\* The record is there, and nothing before it is touched.
LEMMA WrittenIs ==
  ASSUME NEW body \in [1 .. Room -> Cell], NEW at \in 1 .. Room, NEW record \in Record,
         record.words <= Room - at
  PROVE  /\ Written(body, at, record) \in [1 .. Room -> Cell]
         /\ \A i \in 1 .. at - 1 : Written(body, at, record)[i] = body[i]
         /\ IsRecordAt(Written(body, at, record), at, record)
<1> DEFINE parts == WithParts(body, at, record, record.words)
<1>1. record.words \in Nat /\ record.words \in 0 .. Room /\ record.words <= record.words
  BY RecordShape, RoomAssumption
<1>2. parts \in [1 .. Room -> Cell] /\ \A i \in 1 .. at - 1 : parts[i] = body[i]
  BY <1>1, PartsType
<1>3. \A i \in 1 .. record.words : at + i \in 1 .. Room /\ at + i # at /\ parts[at + i] = Part(record, i)
  <2> SUFFICES ASSUME NEW i \in 1 .. record.words
               PROVE  at + i \in 1 .. Room /\ at + i # at /\ parts[at + i] = Part(record, i)
    OBVIOUS
  <2>1. at + i \in 1 .. Room /\ at + i # at /\ at + i \in at + 1 .. at + record.words /\ (at + i) - at = i
    BY <1>1, RoomAssumption
  <2> QED BY <2>1 DEF WithParts
<1>4. Length(record.words) \in Cell
  BY DEF Cell
<1> HIDE DEF parts, Cell
<1> DEFINE written == [parts EXCEPT ![at] = Length(record.words)]
<1>5. /\ written \in [1 .. Room -> Cell] /\ written[at] = Length(record.words)
      /\ \A i \in 1 .. Room : i # at => written[i] = parts[i]
  BY <1>2, <1>4
<1>6. written = Written(body, at, record)
  BY DEF Written, parts
<1> HIDE DEF written
<1>7. \A i \in 1 .. at - 1 : i \in 1 .. Room /\ i # at
  BY RoomAssumption
<1>8. \A i \in 1 .. at - 1 : written[i] = body[i]
  BY <1>2, <1>5, <1>7
<1>9. IsRecordAt(written, at, record)
  BY <1>1, <1>3, <1>5 DEF IsRecordAt
<1> QED BY <1>5, <1>6, <1>8, <1>9

\* The slab of the writer has a new body.
WithBody(mem, w, body) == [mem EXCEPT ![w].body = body]

\* No other slab changes, and no header.
LEMMA OneBody ==
  ASSUME NEW mem \in [1 .. Slabs -> Slab], NEW w \in 1 .. Slabs, NEW body \in [1 .. Room -> Cell]
  PROVE  LET new == WithBody(mem, w, body) IN
         /\ new \in [1 .. Slabs -> Slab] /\ new[w].body = body /\ new[w].count = mem[w].count
         /\ \A s \in 1 .. Slabs : s # w => new[s] = mem[s]
<1>1. mem[w] \in Slab
  OBVIOUS
<1>2. WithBody(mem, w, body) = [mem EXCEPT ![w] = [mem[w] EXCEPT !.body = body]]
  BY DEF WithBody
<1>3. /\ [mem[w] EXCEPT !.body = body] \in Slab
      /\ [mem[w] EXCEPT !.body = body].body = body
      /\ [mem[w] EXCEPT !.body = body].count = mem[w].count
  BY <1>1 DEF Slab
<1> DEFINE slab == [mem[w] EXCEPT !.body = body]
<1> HIDE DEF slab
<1> QED BY <1>2, <1>3 DEF slab

\* What is known of an open writer that is within the memory.
LEMMA Writing ==
  ASSUME SlabsInv, writer # NoWriter, writer.slab <= Slabs
  PROVE  LET body == memory[writer.slab].body IN
         /\ writer.slab = slab_count + 1 /\ writer.slab \in 1 .. Slabs /\ writer.slab \notin 1 .. slab_count
         /\ \A s \in 1 .. slab_count : s \in 1 .. Slabs /\ s # writer.slab
         /\ \A s \in slab_count + 1 .. Slabs : s \in 1 .. Slabs
         /\ memory[writer.slab].count = 0
         /\ body \in [1 .. Room -> Cell]
         /\ writer \in [slab: {slab_count + 1}, count: 0 .. Room,
                        max_sequence: 0 .. MaxSequence, offset: 1 .. Room + 1]
         /\ writer.count \in Nat /\ writer.max_sequence \in Nat
         /\ Tells(body, writer.count, writer.max_sequence)
         /\ writer.offset = Offsets(body)[writer.count]
<1>1. writer \in [slab: {slab_count + 1}, count: 0 .. Room,
                  max_sequence: 0 .. MaxSequence, offset: 1 .. Room + 1]
  BY DEF SlabsInv, WriterSound
<1>2. slab_count \in 0 .. Slabs /\ Slabs \in Nat /\ Room \in Nat /\ MaxSequence \in Nat
  BY SlabsAssumption, RoomAssumption, MaxSequenceAssumption DEF SlabsInv, Headers, SlabsTell
<1>3. writer.slab = slab_count + 1 /\ writer.count \in Nat /\ writer.max_sequence \in Nat
  BY <1>1, <1>2
<1>4. /\ writer.slab \in 1 .. Slabs /\ writer.slab \notin 1 .. slab_count
      /\ writer.slab \in slab_count + 1 .. Slabs
      /\ \A s \in 1 .. slab_count : s \in 1 .. Slabs /\ s # writer.slab
      /\ \A s \in slab_count + 1 .. Slabs : s \in 1 .. Slabs
  BY <1>2, <1>3
<1>5. memory[writer.slab] \in Slab /\ memory[writer.slab].count = 0
  BY <1>4 DEF SlabsInv, Headers, SlabsTell
<1>6. memory[writer.slab].body \in [1 .. Room -> Cell]
  BY <1>5 DEF Slab
<1>7. /\ Tells(memory[writer.slab].body, writer.count, writer.max_sequence)
      /\ writer.offset = Offsets(memory[writer.slab].body)[writer.count]
  BY DEF SlabsInv, WriterSound
<1> QED BY <1>1, <1>3, <1>4, <1>5, <1>6, <1>7

\* What a step does to the log: a batch grows by a record, is added or forgotten.
Keeps == slab_count' = slab_count /\ Batch(memory', writer') = Batch(memory, writer)

\* A record that fits is written behind the others of the open writer.
LEMMA WriteStep ==
  ASSUME SlabsInv, NEW record \in Record, Write(record)
  PROVE  /\ Headers' /\ Appends /\ slab_count' = slab_count
         /\ writer' # NoWriter => WriterSound' /\ Batch(memory', writer') = Append(Batch(memory, writer), record)
<1>0. PICK w, body, new : w = writer.slab /\ body = memory[w].body /\ new = Written(body, writer.offset, record)
  OBVIOUS
<1>1. /\ writer # NoWriter /\ w <= Slabs /\ writer.offset <= Room /\ record.words <= Room - writer.offset
      /\ writer.max_sequence <= record.max_sequence
      /\ writer' = [slab         |-> w,
                    count        |-> writer.count + 1,
                    max_sequence |-> record.max_sequence,
                    offset       |-> writer.offset + record.words + 1]
      /\ memory' = WithBody(memory, w, new)
      /\ slab_count' = slab_count /\ panicked' = panicked
  <2>1. writer # NoWriter /\ w = writer.slab /\ InOrder(record) /\ ~SliceFails /\ Fits(record)
    BY <1>0 DEF Write
  <2>2. writer.offset \in 1 .. Room + 1 /\ w \in Nat /\ Room \in Nat /\ Slabs \in Nat
    <3>1. slab_count \in Nat /\ Room \in Nat /\ Slabs \in Nat
      BY SlabsAssumption, RoomAssumption DEF SlabsInv, Headers, SlabsTell
    <3> QED BY <2>1, <3>1 DEF SlabsInv, WriterSound
  <2>3. w <= Slabs /\ writer.offset <= Room
    BY <2>1, <2>2 DEF SliceFails
  <2> QED BY <1>0, <2>1, <2>3 DEF Write, InOrder, Fits, Written, WithBody
<1>2. /\ w = slab_count + 1 /\ w \in 1 .. Slabs
      /\ \A s \in 1 .. slab_count : s \in 1 .. Slabs /\ s # w
      /\ \A s \in slab_count + 1 .. Slabs : s \in 1 .. Slabs
      /\ memory[w].count = 0 /\ body \in [1 .. Room -> Cell]
  BY <1>0, <1>1, Writing
<1>3. /\ writer \in [slab: {slab_count + 1}, count: 0 .. Room,
                     max_sequence: 0 .. MaxSequence, offset: 1 .. Room + 1]
      /\ writer.count \in Nat /\ writer.max_sequence \in Nat
      /\ Tells(body, writer.count, writer.max_sequence)
      /\ writer.offset = Offsets(body)[writer.count]
  BY <1>0, <1>1, Writing
<1>4. writer.offset \in 1 .. Room /\ writer.offset \in 1 .. Room + 1 /\ Room \in Nat
  <2>1. writer.offset \in 1 .. Room + 1
    BY <1>3
  <2> QED BY <1>1, <2>1, RoomAssumption
<1>5. /\ new \in [1 .. Room -> Cell] /\ IsRecordAt(new, writer.offset, record)
      /\ \A i \in 1 .. writer.offset - 1 : new[i] = body[i]
  BY <1>0, <1>1, <1>2, <1>4, WrittenIs
<1>6. memory \in [1 .. Slabs -> Slab] /\ slab_count \in 0 .. Slabs /\ panicked \in BOOLEAN
  BY DEF SlabsInv, Headers, SlabsTell
<1>7. /\ memory' \in [1 .. Slabs -> Slab] /\ memory'[w].body = new /\ memory'[w].count = 0
      /\ \A s \in 1 .. Slabs : s # w => memory'[s] = memory[s]
  <2>1. w \in 1 .. Slabs /\ new \in [1 .. Room -> Cell] /\ memory \in [1 .. Slabs -> Slab]
    BY <1>1, <1>2, <1>5, <1>6
  <2>2. LET after == WithBody(memory, w, new) IN
        /\ after \in [1 .. Slabs -> Slab] /\ after[w].body = new /\ after[w].count = memory[w].count
        /\ \A s \in 1 .. Slabs : s # w => after[s] = memory[s]
    BY <2>1, OneBody, Zenon
  <2> QED BY <1>1, <1>2, <2>2
<1>8. /\ Tells(new, writer.count + 1, record.max_sequence)
      /\ Staged(new, writer.count + 1) = Append(Staged(body, writer.count), record)
      /\ Offsets(new)[writer.count + 1] = writer.offset + record.words + 1
  <2>1. /\ Same(new, body, Offsets(body)[writer.count])
        /\ IsRecordAt(new, Offsets(body)[writer.count], record)
        /\ writer.count \in Nat /\ writer.max_sequence \in Nat
        /\ writer.max_sequence <= record.max_sequence
        /\ Tells(body, writer.count, writer.max_sequence)
    BY <1>1, <1>3, <1>5 DEF Same
  <2>2. /\ Tells(new, writer.count + 1, record.max_sequence)
        /\ Staged(new, writer.count + 1) = Append(Staged(body, writer.count), record)
        /\ Offsets(new)[writer.count + 1] = Offsets(body)[writer.count] + record.words + 1
    <3>1. Tells(new, writer.count + 1, record.max_sequence)
      BY <2>1, TellsMore
    <3>2. Staged(new, writer.count + 1) = Append(Staged(body, writer.count), record)
      BY <2>1, StagedMore
    <3>3. Offsets(new)[writer.count + 1] = Offsets(body)[writer.count] + record.words + 1
      BY <2>1, TellsMore
    <3> QED BY <3>1, <3>2, <3>3
  <2> QED BY <1>3, <2>2
<1>9. \A s \in 1 .. slab_count : memory'[s] = memory[s]
  BY <1>2, <1>7
<1>10. Headers'
  <2>1. \A s \in 1 .. slab_count : Tells(memory'[s].body, memory'[s].count, memory'[s].max_sequence)
    BY <1>9 DEF SlabsInv, Headers, SlabsTell
  <2>2. \A s \in slab_count + 1 .. Slabs : memory'[s].count = 0
    BY <1>2, <1>7 DEF SlabsInv, Headers, SlabsTell
  <2> QED BY <1>1, <1>6, <1>7, <2>1, <2>2 DEF Headers, SlabsTell
<1>11. slab_count <= slab_count'
  BY <1>1, <1>6
<1>12. /\ writer'.slab = w /\ writer'.count = writer.count + 1 /\ writer'.max_sequence = record.max_sequence
       /\ writer'.offset = writer.offset + record.words + 1
  BY <1>1
<1>13. writer' \in [slab: {slab_count + 1}, count: 0 .. Room,
                    max_sequence: 0 .. MaxSequence, offset: 1 .. Room + 1]
  <2>1. writer.count + 1 \in 0 .. Room
    <3>1. Len(Staged(new, writer.count + 1)) = writer.count + 1
      BY <1>3, StagedLen
    <3>2. Laid(new, Staged(new, writer.count + 1))
      BY <1>8 DEF Tells
    <3> QED BY <3>1, <3>2, LaidOffsets
  <2>2. writer.offset + record.words + 1 \in 1 .. Room + 1
    BY <1>1, <1>4, RecordShape
  <2>3. record.max_sequence \in 0 .. MaxSequence
    BY RecordShape
  <2> QED BY <1>1, <1>2, <2>1, <2>2, <2>3
<1>14. WriterSound'
  BY <1>0, <1>1, <1>7, <1>8, <1>12, <1>13 DEF WriterSound
<1>15. ASSUME writer' # NoWriter PROVE Batch(memory', writer') = Append(Batch(memory, writer), record)
  <2>1. w \in Nat /\ Slabs \in Nat /\ ~(w > Slabs)
    BY <1>1, <1>2, SlabsAssumption
  <2>2. Batch(memory', writer') = Staged(new, writer.count + 1)
    BY <1>7, <1>12, <1>15, <2>1 DEF Batch
  <2>3. Batch(memory, writer) = Staged(body, writer.count)
    BY <1>0, <1>1, <2>1 DEF Batch
  <2> QED BY <1>8, <2>2, <2>3
<1> QED BY <1>1, <1>9, <1>10, <1>11, <1>14, <1>15 DEF Appends

-----------------------------------------------------------------------------
\* What to_slice leaves of a record that does not fit is behind the others.
LEMMA WriteFullStep ==
  ASSUME SlabsInv, NEW record \in Record, NEW parts \in 0 .. Room, WriteFull(record, parts)
  PROVE  SlabsInv' /\ Appends /\ Keeps
<1>0. PICK w, body, new : w = writer.slab /\ body = memory[w].body
                          /\ new = WithParts(body, writer.offset, record, parts)
  OBVIOUS
<1>1. /\ writer # NoWriter /\ w <= Slabs /\ writer.offset <= Room /\ parts <= record.words
      /\ writer' = writer /\ memory' = WithBody(memory, w, new) /\ slab_count' = slab_count
  <2>1. writer # NoWriter /\ w = writer.slab /\ ~SliceFails /\ ~Fits(record) /\ parts <= Room - writer.offset
    BY <1>0 DEF WriteFull
  <2>2. writer.offset \in 1 .. Room + 1 /\ w \in Nat /\ Room \in Nat /\ Slabs \in Nat
    <3>1. slab_count \in Nat /\ Room \in Nat /\ Slabs \in Nat
      BY SlabsAssumption, RoomAssumption DEF SlabsInv, Headers, SlabsTell
    <3> QED BY <2>1, <3>1 DEF SlabsInv, WriterSound
  <2>3. w <= Slabs /\ writer.offset <= Room
    BY <2>1, <2>2 DEF SliceFails
  <2>4. parts <= record.words
    BY <2>1, <2>2, RecordShape DEF Fits
  <2> QED BY <1>0, <2>1, <2>3, <2>4 DEF WriteFull, WithBody
<1>2. /\ w = slab_count + 1 /\ w \in 1 .. Slabs
      /\ \A s \in 1 .. slab_count : s \in 1 .. Slabs /\ s # w
      /\ \A s \in slab_count + 1 .. Slabs : s \in 1 .. Slabs
      /\ memory[w].count = 0 /\ body \in [1 .. Room -> Cell]
  BY <1>0, <1>1, Writing
<1>3. /\ writer \in [slab: {slab_count + 1}, count: 0 .. Room,
                     max_sequence: 0 .. MaxSequence, offset: 1 .. Room + 1]
      /\ writer.count \in Nat /\ Tells(body, writer.count, writer.max_sequence)
      /\ writer.offset = Offsets(body)[writer.count]
  BY <1>0, <1>1, Writing
<1>4. writer.offset \in 1 .. Room
  <2>1. writer.offset \in 1 .. Room + 1
    BY <1>3
  <2> QED BY <1>1, <2>1, RoomAssumption
<1>5. new \in [1 .. Room -> Cell] /\ Same(new, body, Offsets(body)[writer.count])
  BY <1>0, <1>1, <1>2, <1>3, <1>4, PartsType DEF Same
<1>6. memory \in [1 .. Slabs -> Slab]
  BY DEF SlabsInv, Headers, SlabsTell
<1>7. /\ memory' \in [1 .. Slabs -> Slab] /\ memory'[w].body = new /\ memory'[w].count = 0
      /\ \A s \in 1 .. Slabs : s # w => memory'[s] = memory[s]
  <2>1. w \in 1 .. Slabs /\ new \in [1 .. Room -> Cell] /\ memory \in [1 .. Slabs -> Slab]
    BY <1>1, <1>2, <1>5, <1>6
  <2>2. LET after == WithBody(memory, w, new) IN
        /\ after \in [1 .. Slabs -> Slab] /\ after[w].body = new /\ after[w].count = memory[w].count
        /\ \A s \in 1 .. Slabs : s # w => after[s] = memory[s]
    BY <2>1, OneBody, Zenon
  <2> QED BY <1>1, <1>2, <2>2
<1>8. /\ Tells(new, writer.count, writer.max_sequence) /\ Staged(new, writer.count) = Staged(body, writer.count)
      /\ Offsets(new)[writer.count] = Offsets(body)[writer.count]
  BY <1>3, <1>5, TellsKept
<1>9. \A s \in 1 .. slab_count : memory'[s] = memory[s]
  BY <1>2, <1>7
<1>10. Headers'
  <2>1. \A s \in 1 .. slab_count : Tells(memory'[s].body, memory'[s].count, memory'[s].max_sequence)
    BY <1>9 DEF SlabsInv, Headers, SlabsTell
  <2>2. \A s \in slab_count + 1 .. Slabs : memory'[s].count = 0
    BY <1>2, <1>7 DEF SlabsInv, Headers, SlabsTell
  <2>3. panicked' = panicked /\ panicked \in BOOLEAN /\ slab_count \in 0 .. Slabs
    BY DEF SlabsInv, Headers, SlabsTell, WriteFull
  <2> QED BY <1>1, <1>7, <2>1, <2>2, <2>3 DEF Headers, SlabsTell
<1>11. slab_count <= slab_count'
  BY <1>1 DEF SlabsInv, Headers, SlabsTell
<1>12. WriterSound'
  BY <1>0, <1>1, <1>3, <1>7, <1>8 DEF WriterSound
<1>13. Batch(memory', writer') = Batch(memory, writer)
  BY <1>0, <1>1, <1>7, <1>8 DEF Batch
<1> QED BY <1>1, <1>9, <1>10, <1>11, <1>12, <1>13 DEF SlabsInv, Appends, Keeps

\* The header makes the slab of the writer the last committed one.
LEMMA CommitStep ==
  ASSUME SlabsInv, Commit
  PROVE  /\ SlabsInv' /\ Appends
         /\ slab_count' = slab_count + 1 /\ writer' = NoWriter
         /\ Staged(memory'[slab_count'].body, memory'[slab_count'].count) = Batch(memory, writer)
<1>0. PICK w, body, new : w = writer.slab /\ body = memory[w].body
            /\ new = [count |-> writer.count, max_sequence |-> writer.max_sequence, body |-> body]
  OBVIOUS
<1>1. /\ writer # NoWriter /\ w <= Slabs
      /\ writer' = NoWriter /\ memory' = [memory EXCEPT ![w] = new] /\ slab_count' = slab_count + 1
  BY <1>0 DEF Commit
<1>2. /\ w = slab_count + 1 /\ w \in 1 .. Slabs
      /\ \A s \in 1 .. slab_count : s \in 1 .. Slabs /\ s # w
      /\ body \in [1 .. Room -> Cell]
  BY <1>0, <1>1, Writing
<1>3. /\ writer.count \in Nat /\ writer.max_sequence \in 0 .. MaxSequence
      /\ Tells(body, writer.count, writer.max_sequence)
  BY <1>0, <1>1, Writing
<1>4. /\ new \in Slab /\ new.body = body /\ new.count = writer.count /\ new.max_sequence = writer.max_sequence
  <2>1. new.body = body /\ new.count = writer.count /\ new.max_sequence = writer.max_sequence
    BY <1>0
  <2> QED BY <1>0, <1>2, <1>3, <2>1 DEF Slab
<1>5. memory \in [1 .. Slabs -> Slab] /\ slab_count \in 0 .. Slabs /\ Slabs \in Nat
  BY SlabsAssumption DEF SlabsInv, Headers, SlabsTell
<1>6. /\ memory' \in [1 .. Slabs -> Slab] /\ memory'[w] = new
      /\ \A s \in 1 .. Slabs : s # w => memory'[s] = memory[s]
  BY <1>1, <1>2, <1>4, <1>5
<1>7. \A s \in 1 .. slab_count : memory'[s] = memory[s]
  BY <1>2, <1>6
<1>8. Headers'
  <2>1. \A s \in 1 .. slab_count + 1 :
            s \in 1 .. slab_count \/ s = w
    BY <1>2, <1>5
  <2>2. \A s \in 1 .. slab_count + 1 : Tells(memory'[s].body, memory'[s].count, memory'[s].max_sequence)
    BY <1>3, <1>4, <1>6, <1>7, <2>1 DEF SlabsInv, Headers, SlabsTell
  <2>3. \A s \in slab_count + 1 + 1 .. Slabs : s \in slab_count + 1 .. Slabs /\ s \in 1 .. Slabs /\ s # w
    BY <1>2, <1>5
  <2>4. \A s \in slab_count + 1 + 1 .. Slabs : memory'[s].count = 0
    BY <1>6, <2>3 DEF SlabsInv, Headers, SlabsTell
  <2>5. panicked' = panicked /\ panicked \in BOOLEAN
    BY DEF SlabsInv, Headers, SlabsTell, Commit
  <2>6. slab_count + 1 \in 0 .. Slabs
    BY <1>2, <1>5
  <2> QED BY <1>1, <1>6, <2>2, <2>4, <2>5, <2>6 DEF Headers, SlabsTell
<1>9. Batch(memory, writer) = Staged(body, writer.count)
  <2>1. ~(w > Slabs)
    BY <1>2, <1>5
  <2> QED BY <1>0, <1>1, <2>1 DEF Batch
<1>10. slab_count <= slab_count'
  BY <1>1, <1>5
<1> QED BY <1>1, <1>2, <1>4, <1>6, <1>7, <1>8, <1>9, <1>10 DEF SlabsInv, WriterSound, Appends

\* A new writer starts at the head of the slab after the committed ones.
LEMMA GetWriterStep ==
  ASSUME SlabsInv, GetWriter
  PROVE  SlabsInv' /\ Appends /\ Keeps
<1>1. /\ memory' = memory /\ slab_count' = slab_count /\ writer = NoWriter
      /\ writer' = [slab |-> slab_count + 1, count |-> 0, max_sequence |-> 0, offset |-> 1]
  BY DEF GetWriter
<1>2. panicked' = panicked
  BY DEF GetWriter
<1>3. Headers'
  BY <1>1, <1>2 DEF SlabsInv, Headers, SlabsTell
<1>4. writer'.slab = slab_count + 1 /\ writer'.count = 0 /\ writer'.max_sequence = 0 /\ writer'.offset = 1
  BY <1>1
<1>5. WriterSound'
  <2>1. 0 \in 0 .. Room /\ 0 \in 0 .. MaxSequence /\ 1 \in 1 .. Room + 1
    BY RoomAssumption, MaxSequenceAssumption
  <2>2. writer' \in [slab: {slab_count + 1}, count: 0 .. Room,
                     max_sequence: 0 .. MaxSequence, offset: 1 .. Room + 1]
    BY <1>1, <2>1
  <2>3. \A body : Tells(body, 0, 0) /\ Offsets(body)[0] = 1
    BY TellsNone
  <2> QED BY <1>1, <1>4, <2>2, <2>3 DEF WriterSound
<1>6. Batch(memory', writer') = <<>> /\ Batch(memory, writer) = <<>>
  BY <1>1, <1>4, TellsNone DEF Batch
<1>7. slab_count <= slab_count'
  BY <1>1 DEF SlabsInv, Headers, SlabsTell
<1> QED BY <1>1, <1>3, <1>5, <1>6, <1>7 DEF SlabsInv, Appends, Keeps

\* A dropped writer leaves the headers as they are.
LEMMA DropStep ==
  ASSUME SlabsInv, Drop
  PROVE  SlabsInv' /\ Appends /\ slab_count' = slab_count /\ writer' = NoWriter
<1>1. memory' = memory /\ slab_count' = slab_count /\ writer' = NoWriter
  BY DEF Drop
<1>2. panicked' = panicked
  BY DEF Drop
<1>3. Headers'
  BY <1>1, <1>2 DEF SlabsInv, Headers, SlabsTell
<1>4. slab_count <= slab_count'
  BY <1>1 DEF SlabsInv, Headers, SlabsTell
<1> QED BY <1>1, <1>3, <1>4 DEF SlabsInv, WriterSound, Appends

\* Reading and the end of the memory change no slab and no writer.
LEMMA OtherSteps ==
  ASSUME SlabsInv, \/ ReadOn \/ UNCHANGED vars
                   \/ \E record \in Record : WritePanics(record)
                   \/ \E sequence \in 0 .. MaxSequence : StartReading(sequence)
  PROVE  SlabsInv' /\ Appends /\ Keeps
<1>1. memory' = memory /\ slab_count' = slab_count /\ writer' = writer
  BY DEF ReadOn, vars, WritePanics, StartReading
<1>2. panicked' \in BOOLEAN
  <2>1. panicked \in BOOLEAN
    BY DEF SlabsInv, Headers, SlabsTell
  <2>2. panicked' = panicked \/ panicked' = TRUE
    BY DEF ReadOn, vars, WritePanics, StartReading
  <2> QED BY <2>1, <2>2
<1>3. Headers'
  BY <1>1, <1>2 DEF SlabsInv, Headers, SlabsTell
<1>4. slab_count <= slab_count'
  BY <1>1 DEF SlabsInv, Headers, SlabsTell
<1> QED BY <1>1, <1>3, <1>4 DEF SlabsInv, WriterSound, Appends, Keeps

-----------------------------------------------------------------------------
(* Readers                                                                 *)

\* A reader that asked for its sequence at the record first of the log, and has
\* seen what follows it up to its cursor.
ReaderAt(mem, n, r, first) ==
    LET steps == StepsOf(mem, n)
        slab  == r.cursor.slab
    IN  /\ first \in 1 .. Len(steps)
        /\ steps[first].record.max_sequence >= r.sequence
        /\ \A k \in 1 .. first - 1 : ~ steps[k].record.max_sequence >= r.sequence
        /\ slab \in 1 .. n
        /\ r.cursor.read_count \in 0 .. mem[slab].count
        /\ r.cursor = CursorTo(mem[slab].body, slab, r.cursor.read_count)
        /\ first - 1 + Len(r.seen) = Len(StepsOf(mem, slab - 1)) + r.cursor.read_count
        /\ \A i \in 1 .. Len(r.seen) : r.seen[i] = steps[first - 1 + i].record

ReaderIn(mem, n, r) ==
    /\ r \in [cursor: Cursor, sequence: 0 .. MaxSequence, seen: Seq(Record)]
    /\ \E first \in 1 .. Len(StepsOf(mem, n)) : ReaderAt(mem, n, r, first)

ReaderSound == reader # NoReader => ReaderIn(memory, slab_count, reader)

-----------------------------------------------------------------------------
\* What a scan of any slab finds.
LEMMA SlabIs ==
  ASSUME NEW mem, NEW n, SlabsTell(mem, n), NEW s \in 1 .. Slabs
  PROVE  LET records == Staged(mem[s].body, mem[s].count)
             steps == SlabScan(mem[s], s).steps
         IN  /\ Laid(mem[s].body, records) /\ Len(records) = mem[s].count /\ mem[s].count \in Nat
             /\ steps \in Seq(Step) /\ Len(steps) = mem[s].count
             /\ \A i \in 1 .. Len(steps) :
                   steps[i] = [cursor |-> CursorTo(mem[s].body, s, i - 1), record |-> records[i]]
             /\ ~SlabScan(mem[s], s).corrupt
<1>0. PICK body, count, records, steps :
            /\ body = mem[s].body /\ count = mem[s].count /\ records = Staged(body, count)
            /\ steps = SlabScan(mem[s], s).steps
  OBVIOUS
<1>1. count \in Nat
  <2>1. mem[s] \in Slab
    BY DEF SlabsTell
  <2> QED BY <1>0, <2>1 DEF Slab
<1>2. Laid(body, records)
  <2>1. n \in Nat /\ Slabs \in Nat
    BY SlabsAssumption DEF SlabsTell
  <2>2. CASE s \in 1 .. n
    BY <1>0, <2>2 DEF SlabsTell, Tells
  <2>3. CASE s \notin 1 .. n
    <3>1. s \in n + 1 .. Slabs
      BY <2>1, <2>3
    <3>2. count = 0
      BY <1>0, <3>1 DEF SlabsTell
    <3> QED BY <1>0, <3>2, TellsNone DEF Tells
  <2> QED BY <2>2, <2>3
<1>3. Len(records) = count
  BY <1>0, <1>1, StagedLen
<1>4. /\ steps = [i \in 1 .. count |-> [cursor |-> CursorTo(body, s, i - 1), record |-> records[i]]]
      /\ ~SlabScan(mem[s], s).corrupt
  BY <1>0, <1>2, <1>3, ScanIs
<1>5. ASSUME NEW i \in 1 .. count
      PROVE  [cursor |-> CursorTo(body, s, i - 1), record |-> records[i]] \in Step
  <2>1. i - 1 \in 0 .. count /\ i - 1 \in 0 .. Room /\ Offsets(body)[i - 1] \in 1 .. Room + 1
    <3>1. count \in 0 .. Room /\ i - 1 \in 0 .. count
      BY <1>1, <1>2, <1>3, LaidOffsets
    <3> QED BY <1>1, <1>2, <1>3, <3>1, RoomAssumption, LaidOffsets
  <2>2. CursorTo(body, s, i - 1) \in Cursor
    BY <2>1 DEF CursorTo, Cursor
  <2>3. records[i] \in Record
    BY <1>2, <1>3 DEF Laid
  <2> QED BY <2>2, <2>3 DEF Step
<1>6. steps \in Seq(Step) /\ Len(steps) = count
  BY <1>1, <1>4, <1>5
<1> QED BY <1>0, <1>1, <1>2, <1>3, <1>4, <1>6

\* The facts of it one by one.
LEMMA SlabSteps ==
  ASSUME NEW mem, NEW n, SlabsTell(mem, n)
  PROVE  /\ n \in Nat /\ n \in 0 .. Slabs
         /\ \A s \in 1 .. Slabs : SlabScan(mem[s], s).steps \in Seq(Step)
         /\ \A s \in 1 .. n : SlabScan(mem[s], s).steps \in Seq(Step)
         /\ \A s \in 1 .. Slabs : Len(SlabScan(mem[s], s).steps) = mem[s].count /\ mem[s].count \in Nat
<1>1. n \in Nat /\ n \in 0 .. Slabs /\ \A s \in 1 .. n : s \in 1 .. Slabs
  BY SlabsAssumption DEF SlabsTell
<1>2. ASSUME NEW s \in 1 .. Slabs
      PROVE  /\ SlabScan(mem[s], s).steps \in Seq(Step)
             /\ Len(SlabScan(mem[s], s).steps) = mem[s].count /\ mem[s].count \in Nat
  BY SlabIs
<1> QED BY <1>1, <1>2

\* Slabs that are committed later add to the log behind what is there.
LEMMA LogGrows ==
  ASSUME NEW mem, NEW n, SlabsTell(mem, n), NEW new, NEW m, SlabsTell(new, m), n <= m,
         \A s \in 1 .. n : new[s] = mem[s]
  PROVE  /\ \A k \in 0 .. n : StepsOf(new, k) = StepsOf(mem, k)
         /\ Len(StepsOf(mem, n)) \in Nat /\ Len(StepsOf(mem, n)) <= Len(StepsOf(new, m))
         /\ \A k \in 1 .. Len(StepsOf(mem, n)) : StepsOf(new, m)[k] = StepsOf(mem, n)[k]
<1>1. /\ n \in Nat /\ m \in Nat /\ m \in n .. m /\ n \in 0 .. m /\ n \in 0 .. n
      /\ \A s \in 1 .. m : SlabScan(new[s], s).steps \in Seq(Step)
      /\ \A s \in 1 .. n : SlabScan(mem[s], s).steps \in Seq(Step)
  BY SlabSteps
<1>2. ASSUME NEW k \in 0 .. n PROVE StepsOf(new, k) = StepsOf(mem, k)
  <2>1. \A s \in 1 .. k : new[s] = mem[s]
    BY <1>1
  <2>2. [s \in 1 .. k |-> SlabScan(new[s], s).steps] = [s \in 1 .. k |-> SlabScan(mem[s], s).steps]
    BY <2>1
  <2> QED BY <2>2 DEF StepsOf
<1>3. /\ Len(StepsOf(new, n)) <= Len(StepsOf(new, m))
      /\ \A k \in 1 .. Len(StepsOf(new, n)) : StepsOf(new, m)[k] = StepsOf(new, n)[k]
  BY <1>1, StepsOfPrefix
<1>4. StepsOf(mem, n) \in Seq(Step)
  BY <1>1, StepsOfType
<1>5. Len(StepsOf(mem, n)) \in Nat
  BY <1>4
<1> QED BY <1>1, <1>2, <1>3, <1>5

\* So a reader stays where it is in it.
LEMMA ReaderKept ==
  ASSUME NEW mem, NEW n, SlabsTell(mem, n), NEW new, NEW m, SlabsTell(new, m), n <= m,
         \A s \in 1 .. n : new[s] = mem[s], NEW r, ReaderIn(mem, n, r)
  PROVE  ReaderIn(new, m, r)
<1>1. /\ \A k \in 0 .. n : StepsOf(new, k) = StepsOf(mem, k)
      /\ Len(StepsOf(mem, n)) \in Nat /\ Len(StepsOf(mem, n)) <= Len(StepsOf(new, m))
      /\ \A k \in 1 .. Len(StepsOf(mem, n)) : StepsOf(new, m)[k] = StepsOf(mem, n)[k]
  BY LogGrows
<1>2. PICK first \in 1 .. Len(StepsOf(mem, n)) : ReaderAt(mem, n, r, first)
  BY DEF ReaderIn
<1>3. r \in [cursor: Cursor, sequence: 0 .. MaxSequence, seen: Seq(Record)]
  BY DEF ReaderIn
<1>4. n \in Nat /\ m \in Nat /\ StepsOf(new, m) \in Seq(Step) /\ \A s \in 1 .. Slabs : mem[s].count \in Nat
  <2>1. m \in Nat /\ m \in 0 .. m /\ \A s \in 1 .. m : SlabScan(new[s], s).steps \in Seq(Step)
    BY SlabSteps
  <2> QED BY <2>1, SlabSteps, StepsOfType
<1>5. Len(StepsOf(new, m)) \in Nat /\ first \in 1 .. Len(StepsOf(new, m)) /\ first \in Nat
  <2>1. Len(StepsOf(new, m)) \in Nat
    BY <1>4
  <2> QED BY <1>1, <2>1
<1>6. PICK slab, c, L : slab = r.cursor.slab /\ c = r.cursor.read_count /\ L = Len(r.seen)
  OBVIOUS
<1>7. /\ slab \in 1 .. n /\ c \in 0 .. mem[slab].count /\ r.cursor = CursorTo(mem[slab].body, slab, c)
      /\ first - 1 + L = Len(StepsOf(mem, slab - 1)) + c
      /\ \A i \in 1 .. L : r.seen[i] = StepsOf(mem, n)[first - 1 + i].record
      /\ StepsOf(mem, n)[first].record.max_sequence >= r.sequence
      /\ \A k \in 1 .. first - 1 : ~ StepsOf(mem, n)[k].record.max_sequence >= r.sequence
  BY <1>2, <1>6 DEF ReaderAt
<1>8. /\ slab \in 1 .. m /\ slab \in 1 .. n /\ slab - 1 \in 0 .. n /\ n \in 0 .. n /\ new[slab] = mem[slab]
      /\ slab \in 1 .. Slabs
  BY <1>4, <1>7, SlabsAssumption DEF SlabsTell
<1>9. first - 1 + L <= Len(StepsOf(mem, n)) /\ L \in Nat
  <2>1. /\ Len(StepsOf(mem, slab - 1)) + Len(SlabScan(mem[slab], slab).steps) <= Len(StepsOf(mem, n))
        /\ Len(StepsOf(mem, slab - 1)) \in Nat
    <3>1. \A s \in 1 .. n : SlabScan(mem[s], s).steps \in Seq(Step)
      BY SlabSteps
    <3> QED BY <1>4, <1>8, <3>1, StepsAt
  <2>2. Len(SlabScan(mem[slab], slab).steps) = mem[slab].count /\ mem[slab].count \in Nat
    BY <1>8, SlabSteps
  <2>3. L \in Nat
    <3>1. r.seen \in Seq(Record)
      BY <1>3
    <3> QED BY <1>6, <3>1
  <2> QED BY <1>1, <1>5, <1>7, <2>1, <2>2, <2>3
<1>10. /\ \A i \in 1 .. L : r.seen[i] = StepsOf(new, m)[first - 1 + i].record
       /\ StepsOf(new, m)[first].record.max_sequence >= r.sequence
       /\ \A k \in 1 .. first - 1 : ~ StepsOf(new, m)[k].record.max_sequence >= r.sequence
  <2>1. \A i \in 1 .. L : first - 1 + i \in 1 .. Len(StepsOf(mem, n))
    BY <1>1, <1>5, <1>9
  <2>2. first \in 1 .. Len(StepsOf(mem, n)) /\ \A k \in 1 .. first - 1 : k \in 1 .. Len(StepsOf(mem, n))
    BY <1>1, <1>5
  <2>3. \A i \in 1 .. L : r.seen[i] = StepsOf(new, m)[first - 1 + i].record
    BY <1>1, <1>7, <2>1
  <2>4. StepsOf(new, m)[first] = StepsOf(mem, n)[first]
    BY <1>1, <2>2
  <2>5. \A k \in 1 .. first - 1 : StepsOf(new, m)[k] = StepsOf(mem, n)[k]
    BY <1>1, <2>2
  <2> QED BY <1>7, <2>3, <2>4, <2>5
<1>11. first - 1 + L = Len(StepsOf(new, slab - 1)) + c
  BY <1>1, <1>7, <1>8
<1>12. ReaderAt(new, m, r, first)
  BY <1>5, <1>6, <1>7, <1>8, <1>10, <1>11 DEF ReaderAt
<1> QED BY <1>3, <1>5, <1>12 DEF ReaderIn

-----------------------------------------------------------------------------
(* Searching                                                               *)

\* Where the first record of the log is that has as much, slab by slab.
LEMMA FirstInLog ==
  ASSUME NEW mem, NEW n, SlabsTell(mem, n), NEW key, NEW value, NEW s \in 1 .. n,
         NEW j \in Matches(SlabScan(mem[s], s).steps, key, value),
         \A i \in Matches(SlabScan(mem[s], s).steps, key, value) : j <= i,
         \A t \in 1 .. s - 1 : Matches(SlabScan(mem[t], t).steps, key, value) = {}
  PROVE  LET all == Matches(StepsOf(mem, n), key, value)
             k == Len(StepsOf(mem, s - 1)) + j
         IN  k \in all /\ \A i \in all : k <= i
<1>0. PICK all, start, steps : /\ all = Matches(StepsOf(mem, n), key, value)
                               /\ start = Len(StepsOf(mem, s - 1)) /\ steps = SlabScan(mem[s], s).steps
  OBVIOUS
<1>1. /\ n \in Nat /\ \A t \in 1 .. n : SlabScan(mem[t], t).steps \in Seq(Step)
      /\ \A t \in 0 .. n : StepsOf(mem, t) \in Seq(Step)
  <2>1. n \in Nat /\ \A t \in 1 .. n : SlabScan(mem[t], t).steps \in Seq(Step)
    BY SlabSteps
  <2> QED BY <2>1, StepsOfType
<1>2. ASSUME NEW t \in 1 .. n, NEW i \in 1 .. Len(SlabScan(mem[t], t).steps)
      PROVE  /\ Len(StepsOf(mem, t - 1)) \in Nat
             /\ Len(StepsOf(mem, t)) = Len(StepsOf(mem, t - 1)) + Len(SlabScan(mem[t], t).steps)
             /\ Len(StepsOf(mem, t - 1)) + i \in 1 .. Len(StepsOf(mem, n))
             /\ StepsOf(mem, n)[Len(StepsOf(mem, t - 1)) + i] = SlabScan(mem[t], t).steps[i]
  <2>1. LET found == SlabScan(mem[t], t).steps
            before == Len(StepsOf(mem, t - 1))
        IN  /\ before \in Nat /\ Len(StepsOf(mem, t)) = before + Len(found)
            /\ before + Len(found) <= Len(StepsOf(mem, n))
            /\ \A k \in 1 .. Len(found) : StepsOf(mem, n)[before + k] = found[k]
    BY <1>1, StepsAt
  <2>2. Len(SlabScan(mem[t], t).steps) \in Nat /\ Len(StepsOf(mem, n)) \in Nat
    <3>1. n \in 0 .. n
      BY <1>1
    <3> QED BY <1>1, <3>1
  <2>3. PICK found, before : found = SlabScan(mem[t], t).steps /\ before = Len(StepsOf(mem, t - 1))
    OBVIOUS
  <2>4. /\ before \in Nat /\ Len(StepsOf(mem, t)) = before + Len(found)
        /\ before + Len(found) <= Len(StepsOf(mem, n))
        /\ \A k \in 1 .. Len(found) : StepsOf(mem, n)[before + k] = found[k]
    BY <2>1, <2>3
  <2>5. i \in 1 .. Len(found) /\ Len(found) \in Nat
    BY <2>2, <2>3
  <2>6. before + i \in 1 .. Len(StepsOf(mem, n))
    BY <2>2, <2>4, <2>5
  <2>7. StepsOf(mem, n)[before + i] = found[i]
    BY <2>4, <2>5
  <2> QED BY <2>3, <2>4, <2>6, <2>7
<1>3. /\ steps \in Seq(Step) /\ j \in 1 .. Len(steps) /\ Len(steps) \in Nat
      /\ steps[j].record[key] >= value
  <2>1. steps \in Seq(Step)
    BY <1>0, <1>1
  <2>2. j \in DOMAIN steps /\ steps[j].record[key] >= value
    BY <1>0 DEF Matches
  <2> QED BY <2>1, <2>2
<1>4. /\ start \in Nat /\ Len(StepsOf(mem, s)) = start + Len(steps)
      /\ start + j \in 1 .. Len(StepsOf(mem, n)) /\ StepsOf(mem, n)[start + j] = steps[j]
  BY <1>0, <1>2, <1>3
<1>5. \A i : i \in all <=> i \in 1 .. Len(StepsOf(mem, n)) /\ StepsOf(mem, n)[i].record[key] >= value
  <2>1. n \in 0 .. n
    BY <1>1
  <2>2. DOMAIN StepsOf(mem, n) = 1 .. Len(StepsOf(mem, n))
    BY <1>1, <2>1
  <2> QED BY <1>0, <2>2 DEF Matches
<1>6. start + j \in all
  BY <1>3, <1>4, <1>5
<1>7. ASSUME NEW i \in all PROVE start + j <= i
  <2>1. i \in 1 .. Len(StepsOf(mem, n)) /\ StepsOf(mem, n)[i].record[key] >= value
    BY <1>5
  <2>2. PICK t \in 1 .. n : \E h \in 1 .. Len(SlabScan(mem[t], t).steps) : i = Len(StepsOf(mem, t - 1)) + h
    BY <1>1, <2>1, StepsFrom
  <2>3. PICK h \in 1 .. Len(SlabScan(mem[t], t).steps) : i = Len(StepsOf(mem, t - 1)) + h
    BY <2>2
  <2>4. h \in Matches(SlabScan(mem[t], t).steps, key, value)
    <3>1. StepsOf(mem, n)[i] = SlabScan(mem[t], t).steps[h]
      BY <1>2, <2>3
    <3>2. h \in DOMAIN SlabScan(mem[t], t).steps
      BY <1>1
    <3> QED BY <2>1, <3>1, <3>2 DEF Matches
  <2>5. ~(t \in 1 .. s - 1)
    BY <2>4
  <2>6. CASE t = s
    <3>1. j <= h /\ i = start + h /\ j \in Nat /\ h \in Nat
      BY <1>0, <1>3, <2>3, <2>4, <2>6
    <3> QED BY <1>4, <3>1
  <2>7. CASE t # s
    <3>1. t - 1 \in s .. n /\ s \in 0 .. n /\ t - 1 \in 0 .. n
      BY <1>1, <2>5, <2>7
    <3>2. Len(StepsOf(mem, s)) <= Len(StepsOf(mem, t - 1))
      BY <1>1, <3>1, StepsOfPrefix
    <3>3. Len(StepsOf(mem, t - 1)) \in Nat /\ h \in Nat /\ j \in Nat /\ j <= Len(steps)
      <4>1. StepsOf(mem, t - 1) \in Seq(Step)
        BY <1>1, <3>1
      <4> QED BY <1>3, <4>1
    <3> QED BY <1>3, <1>4, <2>3, <3>2, <3>3
  <2> QED BY <2>6, <2>7
<1> QED BY <1>0, <1>6, <1>7

\* Neither has any, or both.
LEMMA NoneInLog ==
  ASSUME NEW mem, NEW n, SlabsTell(mem, n), NEW key, NEW value,
         \A t \in 1 .. Slabs : Matches(SlabScan(mem[t], t).steps, key, value) = {}
  PROVE  Matches(StepsOf(mem, n), key, value) = {}
<1>1. /\ n \in Nat /\ n \in 0 .. n /\ n \in 0 .. Slabs
      /\ \A t \in 1 .. n : SlabScan(mem[t], t).steps \in Seq(Step)
  BY SlabSteps
<1>2. StepsOf(mem, n) \in Seq(Step)
  BY <1>1, StepsOfType
<1> SUFFICES ASSUME NEW i \in Matches(StepsOf(mem, n), key, value) PROVE FALSE
  OBVIOUS
<1>3. i \in 1 .. Len(StepsOf(mem, n)) /\ StepsOf(mem, n)[i].record[key] >= value
  BY <1>2 DEF Matches
<1>4. PICK t \in 1 .. n : \E h \in 1 .. Len(SlabScan(mem[t], t).steps) : i = Len(StepsOf(mem, t - 1)) + h
  BY <1>1, <1>3, StepsFrom
<1>5. PICK h \in 1 .. Len(SlabScan(mem[t], t).steps) : i = Len(StepsOf(mem, t - 1)) + h
  BY <1>4
<1>6. StepsOf(mem, n)[i] = SlabScan(mem[t], t).steps[h]
  <2>1. LET found == SlabScan(mem[t], t).steps
            before == Len(StepsOf(mem, t - 1))
        IN  /\ before \in Nat /\ Len(StepsOf(mem, t)) = before + Len(found)
            /\ before + Len(found) <= Len(StepsOf(mem, n))
            /\ \A k \in 1 .. Len(found) : StepsOf(mem, n)[before + k] = found[k]
    BY <1>1, StepsAt
  <2> QED BY <1>5, <2>1
<1>7. t \in 1 .. Slabs /\ h \in DOMAIN SlabScan(mem[t], t).steps
  BY <1>1, SlabsAssumption
<1>8. h \in Matches(SlabScan(mem[t], t).steps, key, value)
  BY <1>3, <1>6, <1>7 DEF Matches
<1> QED BY <1>7, <1>8

\* The search meets no error, and what it finds is the cursor to the first record
\* of the log that has as much.
LEMMA SearchFinds ==
  ASSUME Headers, NEW key, NEW value
  PROVE  LET all == Matches(StepsOf(memory, slab_count), key, value)
             found == CursorFrom(key, value)
         IN  /\ all = {} => found = Nothing("None")
             /\ all # {} => \E s \in 1 .. slab_count : \E j \in 1 .. memory[s].count :
                   /\ Min(all) = Len(StepsOf(memory, s - 1)) + j /\ Min(all) \in all
                   /\ \A i \in all : Min(all) <= i
                   /\ found = [kind |-> "Cursor", cursor |-> CursorTo(memory[s].body, s, j - 1)]
                   /\ StepsOf(memory, slab_count)[Min(all)].cursor = CursorTo(memory[s].body, s, j - 1)
<1>0. PICK all, found : all = Matches(StepsOf(memory, slab_count), key, value) /\ found = CursorFrom(key, value)
  OBVIOUS
<1> DEFINE scans   == [s \in 1 .. Slabs |-> SlabScan(memory[s], s)]
           matches == {s \in 1 .. Slabs : Matches(scans[s].steps, key, value) # {}}
           corrupt == {s \in 1 .. Slabs : scans[s].corrupt}
<1>1. SlabsTell(memory, slab_count)
  BY DEF Headers
<1>2. /\ slab_count \in Nat /\ slab_count \in 0 .. Slabs /\ Slabs \in Nat
      /\ \A s \in 1 .. Slabs : SlabScan(memory[s], s).steps \in Seq(Step)
      /\ \A s \in 1 .. slab_count : SlabScan(memory[s], s).steps \in Seq(Step)
      /\ \A s \in 1 .. Slabs : Len(SlabScan(memory[s], s).steps) = memory[s].count /\ memory[s].count \in Nat
  BY <1>1, SlabSteps, SlabsAssumption
<1>3. corrupt = {}
  <2>1. \A s \in 1 .. Slabs : ~SlabScan(memory[s], s).corrupt
    BY <1>1, SlabIs
  <2> QED BY <2>1
<1>4. \A s \in 1 .. Slabs : scans[s].steps = SlabScan(memory[s], s).steps
  OBVIOUS
<1>5. found = IF matches # {} /\ \A s \in corrupt : Min(matches) <= s
              THEN [kind |-> "Cursor",
                    cursor |-> scans[Min(matches)].steps[Min(Matches(scans[Min(matches)].steps, key, value))].cursor]
              ELSE Nothing(IF corrupt = {} THEN "None" ELSE "Corrupt")
  BY <1>0 DEF CursorFrom
<1> HIDE DEF scans, corrupt
<1>6. CASE matches = {}
  <2>1. \A t \in 1 .. Slabs : Matches(SlabScan(memory[t], t).steps, key, value) = {}
    BY <1>4, <1>6
  <2>2. all = {}
    BY <1>0, <1>1, <2>1, NoneInLog
  <2>3. found = Nothing("None")
    BY <1>3, <1>5, <1>6
  <2> QED BY <1>0, <2>2, <2>3
<1>7. CASE matches # {}
  <2>0. PICK s : s = Min(matches)
    OBVIOUS
  <2>1. s \in matches /\ \A t \in matches : s <= t
    <3>1. matches \in SUBSET Nat
      BY <1>2
    <3> HIDE DEF matches
    <3> QED BY <1>7, <2>0, <3>1, LeastIs
  <2>2. PICK steps, mine, j : /\ steps = SlabScan(memory[s], s).steps /\ mine = Matches(steps, key, value)
                              /\ j = Min(mine)
    OBVIOUS
  <2>3. s \in 1 .. Slabs /\ mine # {} /\ steps \in Seq(Step) /\ Len(steps) = memory[s].count
    BY <1>2, <1>4, <2>1, <2>2
  <2>4. mine \in SUBSET Nat /\ \A i \in mine : i \in 1 .. Len(steps)
    BY <2>2, <2>3 DEF Matches
  <2>5. j \in mine /\ \A i \in mine : j <= i
    BY <2>2, <2>3, <2>4, LeastIs
  <2>6. j \in 1 .. memory[s].count /\ j \in 1 .. Len(steps) /\ j \in Nat
    BY <2>3, <2>4, <2>5
  <2>7. s \in 1 .. slab_count
    <3>1. CASE s \in slab_count + 1 .. Slabs
      <4>1. memory[s].count = 0
        BY <1>1, <3>1 DEF SlabsTell
      <4> QED BY <2>6, <4>1
    <3> QED BY <1>2, <2>3, <3>1
  <2>8. \A t \in 1 .. s - 1 : Matches(SlabScan(memory[t], t).steps, key, value) = {}
    <3> SUFFICES ASSUME NEW t \in 1 .. s - 1, Matches(SlabScan(memory[t], t).steps, key, value) # {}
                 PROVE  FALSE
      OBVIOUS
    <3>1. t \in 1 .. Slabs /\ ~ s <= t
      BY <1>2, <2>3
    <3>2. t \in matches
      BY <1>4, <3>1
    <3> HIDE DEF matches
    <3> QED BY <2>1, <3>1, <3>2
  <2> HIDE DEF matches
  <2>9. PICK k : k = Len(StepsOf(memory, s - 1)) + j
    OBVIOUS
  <2>10. k \in all /\ \A i \in all : k <= i
    BY <1>0, <1>1, <2>2, <2>5, <2>7, <2>8, <2>9, FirstInLog
  <2>11. Min(all) = k
    <3>1. all \in SUBSET Nat
      <4>1. slab_count \in 0 .. slab_count
        BY <1>2
      <4>2. StepsOf(memory, slab_count) \in Seq(Step)
        BY <1>2, <4>1, StepsOfType
      <4> QED BY <1>0, <4>2 DEF Matches
    <3>2. Min(all) \in all /\ \A i \in all : Min(all) <= i
      BY <2>10, <3>1, LeastIs
    <3>3. Min(all) <= k /\ k <= Min(all) /\ k \in Nat /\ Min(all) \in Nat
      BY <2>10, <3>1, <3>2
    <3> QED BY <3>3
  <2>12. steps[j].cursor = CursorTo(memory[s].body, s, j - 1)
    <3>1. LET records == Staged(memory[s].body, memory[s].count) IN
          \A i \in 1 .. Len(steps) :
             steps[i] = [cursor |-> CursorTo(memory[s].body, s, i - 1), record |-> records[i]]
      BY <1>1, <2>2, <2>3, SlabIs
    <3>2. PICK records : records = Staged(memory[s].body, memory[s].count)
      OBVIOUS
    <3>3. steps[j] = [cursor |-> CursorTo(memory[s].body, s, j - 1), record |-> records[j]]
      BY <2>6, <3>1, <3>2
    <3> QED BY <3>3
  <2>13. StepsOf(memory, slab_count)[k] = steps[j]
    <3>1. LET here == SlabScan(memory[s], s).steps
              before == Len(StepsOf(memory, s - 1))
          IN  /\ before \in Nat /\ Len(StepsOf(memory, s)) = before + Len(here)
              /\ before + Len(here) <= Len(StepsOf(memory, slab_count))
              /\ \A i \in 1 .. Len(here) : StepsOf(memory, slab_count)[before + i] = here[i]
      BY <1>2, <2>7, StepsAt
    <3> QED BY <2>2, <2>6, <2>9, <3>1
  <2>14. found = [kind |-> "Cursor", cursor |-> steps[j].cursor]
    <3>1. scans[Min(matches)].steps = steps
      BY <1>4, <2>0, <2>2, <2>3
    <3> QED BY <1>3, <1>5, <1>7, <2>2, <3>1
  <2> QED BY <1>0, <2>6, <2>7, <2>9, <2>10, <2>11, <2>12, <2>13, <2>14
<1> QED BY <1>6, <1>7

-----------------------------------------------------------------------------
(* Reading on                                                              *)

\* What a reader meets next: a record, of its slab or the head of the next one,
\* the end of the log, or an empty slab.
LEMMA ReadMeets ==
  ASSUME Headers, NEW r, NEW first, ReaderAt(memory, slab_count, r, first)
  PROVE  LET read == StorageRead(r.cursor)
             seen == first - 1 + Len(r.seen)
         IN  \/ \E t \in 1 .. slab_count : \E k \in 1 .. memory[t].count :
                   /\ seen + 1 = Len(StepsOf(memory, t - 1)) + k
                   /\ read = Found(Staged(memory[t].body, memory[t].count)[k],
                                   CursorTo(memory[t].body, t, k))
             \/ read = Nothing("None") /\ seen = Len(StepsOf(memory, slab_count))
             \/ read = Nothing("Unreachable") /\ memory[r.cursor.slab + 1].count = 0
<1>0. PICK slab, c, cursor, read, seen :
            /\ slab = r.cursor.slab /\ c = r.cursor.read_count /\ cursor = r.cursor
            /\ read = StorageRead(cursor) /\ seen = first - 1 + Len(r.seen)
  OBVIOUS
<1>1. SlabsTell(memory, slab_count)
  BY DEF Headers
<1>2. /\ slab_count \in Nat /\ Slabs \in Nat /\ slab_count <= Slabs
      /\ \A s \in 1 .. slab_count : s \in 1 .. Slabs /\ SlabScan(memory[s], s).steps \in Seq(Step)
      /\ \A s \in 1 .. Slabs : Len(SlabScan(memory[s], s).steps) = memory[s].count /\ memory[s].count \in Nat
  BY <1>1, SlabSteps, SlabsAssumption
<1>3. /\ slab \in 1 .. slab_count /\ slab \in 1 .. Slabs /\ c \in 0 .. memory[slab].count
      /\ cursor = CursorTo(memory[slab].body, slab, c) /\ cursor.slab = slab /\ cursor.read_count = c
      /\ seen = Len(StepsOf(memory, slab - 1)) + c
  BY <1>0, <1>2 DEF ReaderAt
<1>4. ASSUME NEW s \in 1 .. Slabs
      PROVE  /\ \A k \in 0 .. memory[s].count - 1 :
                   SlabRead(memory[s], CursorTo(memory[s].body, s, k)) =
                      Found(Staged(memory[s].body, memory[s].count)[k + 1],
                            CursorTo(memory[s].body, s, k + 1))
             /\ \A at : at.read_count = memory[s].count => SlabRead(memory[s], at) = Nothing("None")
  <2>1. PICK records : records = Staged(memory[s].body, memory[s].count)
    OBVIOUS
  <2>2. Laid(memory[s].body, records) /\ memory[s].count = Len(records)
    BY <1>1, <2>1, SlabIs
  <2>3. /\ \A k \in 0 .. Len(records) - 1 :
              SlabRead(memory[s], CursorTo(memory[s].body, s, k)) =
                 Found(records[k + 1], CursorTo(memory[s].body, s, k + 1))
        /\ \A at : at.read_count = Len(records) => SlabRead(memory[s], at) = Nothing("None")
    BY <2>2, ReadIs
  <2> QED BY <2>1, <2>2, <2>3
<1>5. PICK here, next : /\ here = SlabRead(memory[slab], cursor)
                        /\ next = SlabRead(memory[slab + 1], GetHead(slab + 1))
  OBVIOUS
<1>6. read = IF here.kind # "None" THEN here
             ELSE IF slab + 1 > slab_count THEN Nothing("None")
             ELSE IF next.kind = "None" THEN Nothing("Unreachable")
             ELSE next
  BY <1>0, <1>3, <1>5 DEF StorageRead
<1>7. \A record, to : Found(record, to).kind # "None"
  BY DEF Found
<1>8. Nothing("None").kind = "None"
  BY DEF Nothing
<1>9. CASE c < memory[slab].count
  <2>1. c \in 0 .. memory[slab].count - 1 /\ c + 1 \in 1 .. memory[slab].count
    BY <1>2, <1>3, <1>9
  <2>2. here = Found(Staged(memory[slab].body, memory[slab].count)[c + 1],
                     CursorTo(memory[slab].body, slab, c + 1))
    BY <1>3, <1>4, <1>5, <2>1
  <2>3. read = here
    BY <1>6, <1>7, <2>2
  <2>4. seen + 1 = Len(StepsOf(memory, slab - 1)) + (c + 1)
    <3>1. Len(StepsOf(memory, slab - 1)) \in Nat
      BY <1>2, <1>3, StepsAt
    <3> QED BY <1>2, <1>3, <3>1
  <2> QED BY <1>0, <1>3, <2>1, <2>2, <2>3, <2>4
<1>10. CASE ~ c < memory[slab].count
  <2>1. c = memory[slab].count
    BY <1>2, <1>3, <1>10
  <2>2. here = Nothing("None")
    BY <1>3, <1>4, <1>5, <2>1
  <2>3. seen = Len(StepsOf(memory, slab))
    <3>1. /\ Len(StepsOf(memory, slab)) =
                Len(StepsOf(memory, slab - 1)) + Len(SlabScan(memory[slab], slab).steps)
      BY <1>2, <1>3, StepsAt
    <3> QED BY <1>2, <1>3, <2>1, <3>1
  <2>4. CASE slab + 1 > slab_count
    <3>1. slab = slab_count
      BY <1>2, <1>3, <2>4
    <3> QED BY <1>0, <1>6, <1>8, <2>2, <2>3, <2>4, <3>1
  <2>5. CASE ~ slab + 1 > slab_count
    <3>0. PICK t : t = slab + 1
      OBVIOUS
    <3>1. t \in 1 .. slab_count /\ t \in 1 .. Slabs /\ t - 1 = slab
      BY <1>2, <1>3, <2>5, <3>0
    <3>2. GetHead(t) = CursorTo(memory[t].body, t, 0) /\ GetHead(t).read_count = 0
      BY OffsetsAre DEF GetHead, CursorTo
    <3>3. CASE memory[t].count = 0
      <4>1. next = Nothing("None")
        BY <1>4, <1>5, <3>0, <3>1, <3>2, <3>3
      <4> QED BY <1>0, <1>6, <1>8, <2>2, <2>5, <3>0, <3>3, <4>1
    <3>4. CASE memory[t].count # 0
      <4>1. 0 \in 0 .. memory[t].count - 1 /\ 1 \in 1 .. memory[t].count /\ 0 + 1 = 1
        BY <1>2, <3>1, <3>4
      <4>2. next = Found(Staged(memory[t].body, memory[t].count)[1], CursorTo(memory[t].body, t, 1))
        BY <1>4, <1>5, <3>0, <3>1, <3>2, <4>1
      <4>3. read = next
        BY <1>6, <1>7, <1>8, <2>2, <2>5, <4>2
      <4>4. seen + 1 = Len(StepsOf(memory, t - 1)) + 1
        BY <2>3, <3>1
      <4> QED BY <1>0, <3>1, <4>1, <4>2, <4>3, <4>4
    <3> QED BY <3>3, <3>4
  <2> QED BY <2>4, <2>5
<1> QED BY <1>9, <1>10

\* What is read is the next record of the log.
LEMMA ReadOnSound ==
  ASSUME Headers, NEW r, ReaderIn(memory, slab_count, r), StorageRead(r.cursor).kind = "Record"
  PROVE  ReaderIn(memory, slab_count,
                  [cursor   |-> StorageRead(r.cursor).next,
                   sequence |-> r.sequence,
                   seen     |-> Append(r.seen, StorageRead(r.cursor).record)])
<1>0. PICK first \in 1 .. Len(StepsOf(memory, slab_count)) : ReaderAt(memory, slab_count, r, first)
  BY DEF ReaderIn
<1>1. r \in [cursor: Cursor, sequence: 0 .. MaxSequence, seen: Seq(Record)]
  BY DEF ReaderIn
<1>2. PICK read, steps, L : /\ read = StorageRead(r.cursor) /\ steps = StepsOf(memory, slab_count)
                            /\ L = Len(r.seen)
  OBVIOUS
<1>3. SlabsTell(memory, slab_count)
  BY DEF Headers
<1>4. /\ slab_count \in Nat /\ Slabs \in Nat /\ slab_count <= Slabs /\ slab_count \in 0 .. slab_count
      /\ \A s \in 1 .. slab_count : s \in 1 .. Slabs /\ SlabScan(memory[s], s).steps \in Seq(Step)
  BY <1>3, SlabSteps, SlabsAssumption
<1>5. steps \in Seq(Step) /\ Len(steps) \in Nat /\ L \in Nat /\ r.seen \in Seq(Record) /\ first \in Nat
  <2>1. steps \in Seq(Step)
    BY <1>2, <1>4, StepsOfType
  <2>2. r.seen \in Seq(Record)
    BY <1>1
  <2> QED BY <1>0, <1>2, <2>1, <2>2
<1>6. PICK t \in 1 .. slab_count : \E k \in 1 .. memory[t].count :
            /\ first - 1 + L + 1 = Len(StepsOf(memory, t - 1)) + k
            /\ read = Found(Staged(memory[t].body, memory[t].count)[k], CursorTo(memory[t].body, t, k))
  <2>1. read # Nothing("None") /\ read # Nothing("Unreachable")
    BY <1>2 DEF Nothing
  <2> QED BY <1>0, <1>2, <2>1, ReadMeets
<1>7. PICK k \in 1 .. memory[t].count :
            /\ first - 1 + L + 1 = Len(StepsOf(memory, t - 1)) + k
            /\ read = Found(Staged(memory[t].body, memory[t].count)[k], CursorTo(memory[t].body, t, k))
  BY <1>6
<1>8. PICK record, cursor : /\ record = Staged(memory[t].body, memory[t].count)[k]
                            /\ cursor = CursorTo(memory[t].body, t, k)
  OBVIOUS
<1>9. read.next = cursor /\ read.record = record
  BY <1>7, <1>8 DEF Found
<1>10. /\ t \in 1 .. Slabs /\ memory[t].count \in Nat /\ Laid(memory[t].body, Staged(memory[t].body, memory[t].count))
       /\ Len(Staged(memory[t].body, memory[t].count)) = memory[t].count
       /\ SlabScan(memory[t], t).steps[k].record = record
  <2>1. t \in 1 .. Slabs
    BY <1>4
  <2>2. PICK body, count, records, here : /\ body = memory[t].body /\ count = memory[t].count
            /\ records = Staged(body, count) /\ here = SlabScan(memory[t], t).steps
    OBVIOUS
  <2>3. /\ Laid(body, records) /\ Len(records) = count /\ count \in Nat /\ Len(here) = count
        /\ \A i \in 1 .. Len(here) : here[i] = [cursor |-> CursorTo(body, t, i - 1), record |-> records[i]]
    BY <1>3, <2>1, <2>2, SlabIs
  <2>4. here[k].record = record
    <3>1. k \in 1 .. Len(here)
      BY <2>2, <2>3
    <3>2. here[k] = [cursor |-> CursorTo(body, t, k - 1), record |-> records[k]]
      BY <2>3, <3>1
    <3>3. records[k] = record
      BY <1>8, <2>2
    <3> QED BY <3>2, <3>3
  <2> QED BY <2>1, <2>2, <2>3, <2>4
<1>11. record \in Record
  BY <1>8, <1>10 DEF Laid
<1>12. cursor \in Cursor /\ cursor.slab = t /\ cursor.read_count = k
  <2>1. k \in 0 .. Room /\ Offsets(memory[t].body)[k] \in 1 .. Room + 1
    <3>1. memory[t].count \in 0 .. Room /\ k \in 0 .. memory[t].count
      BY <1>10, LaidOffsets
    <3> QED BY <1>10, <3>1, RoomAssumption, LaidOffsets
  <2> QED BY <1>8, <1>10, <2>1 DEF CursorTo, Cursor
<1>13. steps[first - 1 + L + 1].record = record
  <2>1. /\ \A j \in 1 .. Len(SlabScan(memory[t], t).steps) :
              steps[Len(StepsOf(memory, t - 1)) + j] = SlabScan(memory[t], t).steps[j]
    BY <1>2, <1>4, StepsAt
  <2>2. k \in 1 .. Len(SlabScan(memory[t], t).steps)
    <3>1. Len(SlabScan(memory[t], t).steps) = memory[t].count
      BY <1>3, <1>10, SlabSteps
    <3> QED BY <3>1
  <2> QED BY <1>7, <1>10, <2>1, <2>2
<1>14. PICK q, seen : /\ seen = Append(r.seen, record)
                      /\ q = [cursor |-> cursor, sequence |-> r.sequence, seen |-> seen]
  OBVIOUS
<1>15. /\ seen \in Seq(Record) /\ Len(seen) = L + 1 /\ seen[L + 1] = record
       /\ \A i \in 1 .. L : seen[i] = r.seen[i]
  BY <1>2, <1>5, <1>11, <1>14
<1>16. q.cursor = cursor /\ q.sequence = r.sequence /\ q.seen = seen
  BY <1>14
<1>17. q \in [cursor: Cursor, sequence: 0 .. MaxSequence, seen: Seq(Record)]
  BY <1>1, <1>12, <1>14, <1>15
<1>18. \A i \in 1 .. L + 1 : seen[i] = steps[first - 1 + i].record
  <2>1. \A i \in 1 .. L : r.seen[i] = steps[first - 1 + i].record
    BY <1>0, <1>2 DEF ReaderAt
  <2>2. \A i \in 1 .. L + 1 : i \in 1 .. L \/ i = L + 1
    BY <1>5
  <2>3. first - 1 + (L + 1) = first - 1 + L + 1
    BY <1>5
  <2> QED BY <1>13, <1>15, <2>1, <2>2, <2>3
<1>19. ReaderAt(memory, slab_count, q, first)
  <2>1. /\ steps[first].record.max_sequence >= r.sequence
        /\ \A i \in 1 .. first - 1 : ~ steps[i].record.max_sequence >= r.sequence
    BY <1>0, <1>2 DEF ReaderAt
  <2>2. first - 1 + (L + 1) = Len(StepsOf(memory, t - 1)) + k
    BY <1>5, <1>7
  <2>3. k \in 0 .. memory[t].count
    BY <1>10
  <2> QED BY ZenonT(60), <1>0, <1>2, <1>8, <1>12, <1>15, <1>16, <1>18, <2>1, <2>2, <2>3 DEF ReaderAt
<1> QED BY <1>0, <1>2, <1>9, <1>14, <1>17, <1>19 DEF ReaderIn

-----------------------------------------------------------------------------
\* A search puts a reader before the first record it asked for.
LEMMA StartSound ==
  ASSUME Headers, NEW sequence \in 0 .. MaxSequence, CursorFromSequence(sequence).kind = "Cursor"
  PROVE  ReaderIn(memory, slab_count,
                  [cursor |-> CursorFromSequence(sequence).cursor, sequence |-> sequence, seen |-> <<>>])
<1>0. PICK all, found, steps : /\ steps = StepsOf(memory, slab_count)
                               /\ all = Matches(steps, "max_sequence", sequence)
                               /\ found = CursorFromSequence(sequence)
  OBVIOUS
<1>1. SlabsTell(memory, slab_count)
  BY DEF Headers
<1>2. /\ slab_count \in Nat /\ Slabs \in Nat /\ slab_count <= Slabs /\ slab_count \in 0 .. slab_count
      /\ \A s \in 1 .. slab_count : s \in 1 .. Slabs /\ SlabScan(memory[s], s).steps \in Seq(Step)
  BY <1>1, SlabSteps, SlabsAssumption
<1>3. steps \in Seq(Step)
  BY <1>0, <1>2, StepsOfType
<1>4. PICK first : first = Min(all)
  OBVIOUS
<1>5. all # {}
  <2>1. found # Nothing("None")
    BY <1>0 DEF Nothing
  <2>2. LET every == Matches(StepsOf(memory, slab_count), "max_sequence", sequence)
            it == CursorFrom("max_sequence", sequence)
        IN  every = {} => it = Nothing("None")
    BY SearchFinds
  <2> QED BY <1>0, <2>1, <2>2 DEF CursorFromSequence
<1>6. PICK s \in 1 .. slab_count : \E j \in 1 .. memory[s].count :
            /\ first = Len(StepsOf(memory, s - 1)) + j /\ first \in all /\ \A i \in all : first <= i
            /\ found = [kind |-> "Cursor", cursor |-> CursorTo(memory[s].body, s, j - 1)]
  <2>1. \E s \in 1 .. slab_count : \E j \in 1 .. memory[s].count :
            /\ Min(all) = Len(StepsOf(memory, s - 1)) + j /\ Min(all) \in all
            /\ \A i \in all : Min(all) <= i
            /\ found = [kind |-> "Cursor", cursor |-> CursorTo(memory[s].body, s, j - 1)]
            /\ StepsOf(memory, slab_count)[Min(all)].cursor = CursorTo(memory[s].body, s, j - 1)
    BY <1>0, <1>5, SearchFinds DEF CursorFromSequence
  <2> QED BY <1>4, <2>1
<1>7. PICK j \in 1 .. memory[s].count :
            /\ first = Len(StepsOf(memory, s - 1)) + j /\ first \in all /\ \A i \in all : first <= i
            /\ found = [kind |-> "Cursor", cursor |-> CursorTo(memory[s].body, s, j - 1)]
  BY <1>6
<1>8. PICK cursor, q : /\ cursor = CursorTo(memory[s].body, s, j - 1)
                       /\ q = [cursor |-> cursor, sequence |-> sequence, seen |-> <<>>]
  OBVIOUS
<1>9. s \in 1 .. Slabs /\ memory[s].count \in Nat /\ Laid(memory[s].body, Staged(memory[s].body, memory[s].count))
      /\ Len(Staged(memory[s].body, memory[s].count)) = memory[s].count
  BY <1>1, <1>2, SlabIs
<1>10. /\ cursor \in Cursor /\ cursor.slab = s /\ cursor.read_count = j - 1
       /\ j - 1 \in 0 .. memory[s].count
  <2>1. /\ j - 1 \in 0 .. Room /\ Offsets(memory[s].body)[j - 1] \in 1 .. Room + 1
        /\ j - 1 \in 0 .. memory[s].count
    <3>1. memory[s].count \in 0 .. Room /\ j - 1 \in 0 .. memory[s].count
      BY <1>9, LaidOffsets
    <3> QED BY <1>9, <3>1, RoomAssumption, LaidOffsets
  <2> QED BY <1>8, <1>9, <2>1 DEF CursorTo, Cursor
<1>11. /\ q \in [cursor: Cursor, sequence: 0 .. MaxSequence, seen: Seq(Record)]
       /\ q.cursor = cursor /\ q.sequence = sequence /\ q.seen = <<>> /\ Len(q.seen) = 0
  BY <1>8, <1>10
<1>12. /\ first \in 1 .. Len(steps) /\ steps[first].record.max_sequence >= sequence
       /\ \A k \in 1 .. first - 1 : ~ steps[k].record.max_sequence >= sequence
  <2>1. \A i : i \in all <=> i \in 1 .. Len(steps) /\ steps[i].record.max_sequence >= sequence
    <3>1. DOMAIN steps = 1 .. Len(steps)
      BY <1>3
    <3> QED BY <1>0, <3>1 DEF Matches
  <2>2. first \in 1 .. Len(steps) /\ Len(steps) \in Nat
    BY <1>3, <1>7, <2>1
  <2>3. \A k \in 1 .. first - 1 : k \in 1 .. Len(steps) /\ ~ first <= k
    BY <2>2
  <2> QED BY <1>7, <2>1, <2>2, <2>3
<1>13. first - 1 + 0 = Len(StepsOf(memory, s - 1)) + (j - 1)
  <2>1. Len(StepsOf(memory, s - 1)) \in Nat
    BY <1>2, StepsAt
  <2> QED BY <1>7, <1>9, <2>1
<1>14. ReaderAt(memory, slab_count, q, first)
  <2>1. 1 .. 0 = {}
    OBVIOUS
  <2> QED BY <1>0, <1>8, <1>10, <1>11, <1>12, <1>13, <2>1 DEF ReaderAt
<1>15. found.cursor = cursor
  BY <1>7, <1>8
<1> QED BY <1>0, <1>8, <1>11, <1>12, <1>14, <1>15 DEF ReaderIn

-----------------------------------------------------------------------------
(* The invariant                                                           *)

StorageInv == SlabsInv /\ ReaderSound

\* Nobody reads at first.
LEMMA StorageInit == Init => StorageInv
  BY SlabsInit DEF Init, StorageInv, ReaderSound

\* A step that leaves the reader alone.
LEMMA ReaderStays ==
  ASSUME StorageInv, SlabsInv', Appends, reader' = reader
  PROVE  StorageInv'
<1>1. SlabsTell(memory, slab_count) /\ SlabsTell(memory', slab_count')
  BY DEF StorageInv, SlabsInv, Headers
<1>2. slab_count <= slab_count' /\ \A s \in 1 .. slab_count : memory'[s] = memory[s]
  BY DEF Appends
<1>3. ASSUME reader # NoReader PROVE ReaderIn(memory', slab_count', reader)
  <2>1. ReaderIn(memory, slab_count, reader)
    BY <1>3 DEF StorageInv, ReaderSound
  <2> QED BY <1>1, <1>2, <2>1, ReaderKept
<1> QED BY <1>3 DEF StorageInv, ReaderSound

\* Every step keeps the invariant and leaves the committed slabs alone.
LEMMA StorageStep == StorageInv /\ [Next]_vars => StorageInv' /\ Appends
<1> SUFFICES ASSUME StorageInv, [Next]_vars PROVE StorageInv' /\ Appends
  OBVIOUS
<1>0. SlabsInv /\ Headers
  BY DEF StorageInv, SlabsInv
<1>1. CASE GetWriter
  <2>1. SlabsInv' /\ Appends
    BY <1>0, <1>1, GetWriterStep
  <2>2. reader' = reader
    BY <1>1 DEF GetWriter
  <2> QED BY <2>1, <2>2, ReaderStays
<1>2. ASSUME NEW record \in Record, Write(record) PROVE StorageInv' /\ Appends
  <2>1. SlabsInv' /\ Appends
    BY <1>0, <1>2, WriteStep DEF SlabsInv, WriterSound
  <2>2. reader' = reader
    BY <1>2 DEF Write
  <2> QED BY <2>1, <2>2, ReaderStays
<1>3. ASSUME NEW record \in Record, NEW parts \in 0 .. Room, WriteFull(record, parts)
      PROVE  StorageInv' /\ Appends
  <2>1. SlabsInv' /\ Appends
    BY <1>0, <1>3, WriteFullStep
  <2>2. reader' = reader
    BY <1>3 DEF WriteFull
  <2> QED BY <2>1, <2>2, ReaderStays
<1>4. ASSUME NEW record \in Record, WritePanics(record) PROVE StorageInv' /\ Appends
  <2>1. SlabsInv' /\ Appends
    BY <1>0, <1>4, OtherSteps
  <2>2. reader' = reader
    BY <1>4 DEF WritePanics
  <2> QED BY <2>1, <2>2, ReaderStays
<1>5. CASE Commit
  <2>1. SlabsInv' /\ Appends
    BY <1>0, <1>5, CommitStep
  <2>2. reader' = reader
    BY <1>5 DEF Commit
  <2> QED BY <2>1, <2>2, ReaderStays
<1>6. CASE Drop
  <2>1. SlabsInv' /\ Appends
    BY <1>0, <1>6, DropStep
  <2>2. reader' = reader
    BY <1>6 DEF Drop
  <2> QED BY <2>1, <2>2, ReaderStays
<1>7. ASSUME NEW sequence \in 0 .. MaxSequence, StartReading(sequence) PROVE StorageInv' /\ Appends
  <2>1. SlabsInv' /\ Appends
    BY <1>0, <1>7, OtherSteps
  <2>2. /\ memory' = memory /\ slab_count' = slab_count
        /\ CursorFromSequence(sequence).kind = "Cursor"
        /\ reader' = [cursor |-> CursorFromSequence(sequence).cursor, sequence |-> sequence, seen |-> <<>>]
    BY <1>7 DEF StartReading
  <2>3. ReaderIn(memory, slab_count, reader')
    BY <1>0, <2>2, StartSound
  <2> QED BY <2>1, <2>2, <2>3 DEF StorageInv, ReaderSound
<1>8. CASE ReadOn
  <2>1. SlabsInv' /\ Appends
    BY <1>0, <1>8, OtherSteps
  <2>2. /\ memory' = memory /\ slab_count' = slab_count /\ reader # NoReader
        /\ StorageRead(reader.cursor).kind = "Record"
        /\ reader' = [cursor   |-> StorageRead(reader.cursor).next,
                      sequence |-> reader.sequence,
                      seen     |-> Append(reader.seen, StorageRead(reader.cursor).record)]
    BY <1>8 DEF ReadOn
  <2>3. ReaderIn(memory, slab_count, reader)
    BY <2>2 DEF StorageInv, ReaderSound
  <2>4. ReaderIn(memory, slab_count, reader')
    BY <1>0, <2>2, <2>3, ReadOnSound
  <2> QED BY <2>1, <2>2, <2>4 DEF StorageInv, ReaderSound
<1>9. CASE UNCHANGED vars
  <2>1. SlabsInv' /\ Appends
    BY <1>0, <1>9, OtherSteps
  <2>2. reader' = reader
    BY <1>9 DEF vars
  <2> QED BY <2>1, <2>2, ReaderStays
<1> QED BY <1>1, <1>2, <1>3, <1>4, <1>5, <1>6, <1>7, <1>8, <1>9 DEF Next

\* Headers, the open writer and the reader always tell what is in the slabs (the
\* lengths, counts and max_sequence that write, commit and read of slab.rs keep).
THEOREM StorageSafe == Spec => []StorageInv
<1>1. StorageInv /\ [Next]_vars => StorageInv'
  BY StorageStep
<1> QED BY <1>1, StorageInit, PTL DEF Spec

\* A committed slab is never written again, whatever is written, dropped or too
\* long afterwards.
THEOREM CommittedStays == Spec => CommittedForGood
<1>1. StorageInv /\ [Next]_vars =>
        [/\ slab_count <= slab_count'
         /\ \A s \in 1 .. slab_count : memory'[s] = memory[s]]_vars
  BY StorageStep DEF Appends
<1> QED BY <1>1, StorageSafe, PTL DEF Spec, CommittedForGood

-----------------------------------------------------------------------------
\* The invariant gives the types.
LEMMA InvTypes == ASSUME StorageInv PROVE TypeOK
<1>1. /\ memory \in [1 .. Slabs -> Slab] /\ slab_count \in 0 .. Slabs /\ slab_count \in Nat /\ Slabs \in Nat
  BY SlabsAssumption DEF StorageInv, SlabsInv, Headers, SlabsTell
<1>2. writer # NoWriter =>
         writer \in [slab: 1 .. Slabs + 1, count: 0 .. Room, max_sequence: 0 .. MaxSequence, offset: 1 .. Room + 1]
  <2>1. slab_count + 1 \in 1 .. Slabs + 1
    BY <1>1
  <2>2. writer # NoWriter =>
           writer \in [slab: {slab_count + 1}, count: 0 .. Room, max_sequence: 0 .. MaxSequence,
                       offset: 1 .. Room + 1]
    BY DEF StorageInv, SlabsInv, WriterSound
  <2> QED BY <2>1, <2>2
<1>3. reader # NoReader =>
         reader.cursor \in Cursor /\ reader.sequence \in 0 .. MaxSequence /\ reader.seen \in Seq(Record)
  <2>1. reader # NoReader => reader \in [cursor: Cursor, sequence: 0 .. MaxSequence, seen: Seq(Record)]
    BY DEF StorageInv, ReaderSound, ReaderIn
  <2> QED BY <2>1
<1>4. panicked \in BOOLEAN
  BY DEF StorageInv, SlabsInv, Headers
<1> QED BY <1>1, <1>2, <1>3, <1>4 DEF TypeOK

\* The records of a slab are those its header tells of.
LEMMA SlabRecords ==
  ASSUME NEW mem, NEW n, SlabsTell(mem, n), NEW s \in 1 .. Slabs
  PROVE  Records(SlabScan(mem[s], s).steps) = Staged(mem[s].body, mem[s].count)
<1>1. PICK body, count, records, steps :
            /\ body = mem[s].body /\ count = mem[s].count /\ records = Staged(body, count)
            /\ steps = SlabScan(mem[s], s).steps
  OBVIOUS
<1>2. /\ Laid(body, records) /\ Len(records) = count /\ count \in Nat
      /\ steps \in Seq(Step) /\ Len(steps) = count
      /\ \A i \in 1 .. Len(steps) : steps[i] = [cursor |-> CursorTo(body, s, i - 1), record |-> records[i]]
  BY <1>1, SlabIs
<1>3. DOMAIN steps = 1 .. count /\ \A i \in 1 .. count : steps[i].record = records[i]
  BY <1>2
<1>4. records = [i \in 1 .. count |-> records[i]]
  BY <1>2 DEF Laid
<1> QED BY <1>1, <1>3, <1>4 DEF Records

\* It gives what the headers tell.
LEMMA InvHeaders == ASSUME StorageInv PROVE HeadersTellBodies
<1>1. SlabsTell(memory, slab_count)
  BY DEF StorageInv, SlabsInv, Headers
<1> SUFFICES ASSUME NEW s \in 1 .. slab_count
             PROVE  LET records == Records(SlabScan(memory[s], s).steps) IN
                    /\ memory[s].count = Len(records)
                    /\ records # <<>> => memory[s].max_sequence = records[Len(records)].max_sequence
                    /\ \A i \in DOMAIN records : records[i].max_sequence <= memory[s].max_sequence
  BY DEF HeadersTellBodies
<1>2. PICK count, records : count = memory[s].count /\ records = Staged(memory[s].body, count)
  OBVIOUS
<1>3. s \in 1 .. Slabs
  BY <1>1, SlabsAssumption DEF SlabsTell
<1>4. Records(SlabScan(memory[s], s).steps) = records
  BY <1>1, <1>2, <1>3, SlabRecords
<1>5. /\ \A i \in 1 .. count : records[i].max_sequence <= memory[s].max_sequence
      /\ count > 0 => memory[s].max_sequence = records[count].max_sequence
  BY <1>1, <1>2 DEF SlabsTell, Tells
<1>6. count \in Nat /\ Len(records) = count /\ DOMAIN records = 1 .. count /\ (records # <<>> => count > 0)
  <2>1. count \in Nat
    BY <1>1, <1>2, <1>3, SlabSteps
  <2> QED BY <1>2, <2>1 DEF Staged
<1> QED BY <1>2, <1>4, <1>5, <1>6

\* It gives what both searches find.
LEMMA InvSearches == ASSUME StorageInv PROVE CursorsFindFirst
<1>1. Headers
  BY DEF StorageInv, SlabsInv
<1>2. ASSUME NEW key, NEW value PROVE IsFirst(CursorFrom(key, value), key, value)
  <2>1. PICK all, found, steps : /\ steps = StepsOf(memory, slab_count) /\ steps = CommittedSteps
                                 /\ all = Matches(steps, key, value) /\ found = CursorFrom(key, value)
    BY DEF StepsOf, CommittedSteps
  <2>2. /\ all = {} => found = Nothing("None")
        /\ all # {} => \E s \in 1 .. slab_count : \E j \in 1 .. memory[s].count :
              /\ Min(all) = Len(StepsOf(memory, s - 1)) + j /\ Min(all) \in all
              /\ \A i \in all : Min(all) <= i
              /\ found = [kind |-> "Cursor", cursor |-> CursorTo(memory[s].body, s, j - 1)]
              /\ StepsOf(memory, slab_count)[Min(all)].cursor = CursorTo(memory[s].body, s, j - 1)
    BY <1>1, <2>1, SearchFinds
  <2>3. all # {} => found = [kind |-> "Cursor", cursor |-> steps[Min(all)].cursor]
    BY <2>1, <2>2
  <2>4. all = {} => found.kind = "None"
    BY <2>2 DEF Nothing
  <2> QED BY <2>1, <2>3, <2>4 DEF IsFirst
<1> QED BY <1>2 DEF CursorsFindFirst, CursorFromSequence, CursorFromIndex

\* What the reader asked for is the log from the record first on.
LEMMA AskedIs ==
  ASSUME Headers, NEW first \in 1 .. Len(StepsOf(memory, slab_count)),
         ReaderAt(memory, slab_count, reader, first)
  PROVE  LET steps == StepsOf(memory, slab_count) IN
         /\ Asked \in Seq(Record) /\ Len(Asked) = Len(steps) - first + 1
         /\ \A i \in 1 .. Len(Asked) : Asked[i] = steps[first - 1 + i].record
<1>0. PICK steps, log, all : /\ steps = StepsOf(memory, slab_count) /\ steps = CommittedSteps
                             /\ log = Records(steps) /\ all = Matches(steps, "max_sequence", reader.sequence)
  BY DEF StepsOf, CommittedSteps
<1>1. SlabsTell(memory, slab_count)
  BY DEF Headers
<1>2. steps \in Seq(Step) /\ Len(steps) \in Nat /\ DOMAIN steps = 1 .. Len(steps)
  <2>1. steps \in Seq(Step)
    <3>1. /\ slab_count \in Nat /\ slab_count \in 0 .. slab_count
          /\ \A s \in 1 .. slab_count : SlabScan(memory[s], s).steps \in Seq(Step)
      BY <1>1, SlabSteps
    <3> QED BY <1>0, <3>1, StepsOfType
  <2> QED BY <2>1
<1>3. log \in Seq(Record) /\ Len(log) = Len(steps) /\ \A i \in 1 .. Len(steps) : log[i] = steps[i].record
  <2>1. log = [i \in 1 .. Len(steps) |-> steps[i].record]
    BY <1>0, <1>2 DEF Records
  <2>2. \A i \in 1 .. Len(steps) : steps[i].record \in Record
    <3>1. \A i \in 1 .. Len(steps) : steps[i] \in Step
      BY <1>2
    <3>2. \A step \in Step : step.record \in Record
      BY DEF Step
    <3> QED BY <3>1, <3>2
  <2> QED BY <1>2, <2>1, <2>2
<1>4. first \in all /\ \A i \in all : first <= i
  <2>1. first \in 1 .. Len(steps) /\ first \in Nat
    BY <1>0, <1>2
  <2>2. /\ steps[first].record.max_sequence >= reader.sequence
        /\ \A k \in 1 .. first - 1 : ~ steps[k].record.max_sequence >= reader.sequence
    BY <1>0 DEF ReaderAt
  <2>3. \A i : i \in all <=> i \in 1 .. Len(steps) /\ steps[i].record.max_sequence >= reader.sequence
    BY <1>0, <1>2 DEF Matches
  <2>4. ASSUME NEW i \in all PROVE first <= i
    <3>1. i \in 1 .. Len(steps) /\ ~(i \in 1 .. first - 1)
      BY <2>2, <2>3
    <3> QED BY <1>2, <2>1, <3>1
  <2> QED BY <2>1, <2>2, <2>3, <2>4
<1>5. Min(all) = first
  <2>1. all \in SUBSET Nat
    BY <1>0, <1>2 DEF Matches
  <2>2. Min(all) \in all /\ \A i \in all : Min(all) <= i
    BY <1>4, <2>1, LeastIs
  <2>3. Min(all) <= first /\ first <= Min(all) /\ first \in Nat /\ Min(all) \in Nat
    BY <1>4, <2>1, <2>2
  <2> QED BY <2>3
<1>6. Asked = SubSeq(log, first, Len(log))
  BY <1>0, <1>4, <1>5 DEF Asked, Committed
<1>7. first \in 1 .. Len(log) + 1 /\ Len(log) \in first - 1 .. Len(log) /\ first <= Len(log) /\ first \in Nat
  BY <1>0, <1>2, <1>3
<1>8. /\ SubSeq(log, first, Len(log)) \in Seq(Record)
      /\ Len(SubSeq(log, first, Len(log))) = Len(log) - first + 1
      /\ \A i \in 1 .. Len(log) - first + 1 : SubSeq(log, first, Len(log))[i] = log[first + i - 1]
  BY <1>3, <1>7, SubSeqProperties
<1>9. \A i \in 1 .. Len(log) - first + 1 : first + i - 1 = first - 1 + i /\ first - 1 + i \in 1 .. Len(steps)
  BY <1>3, <1>7
<1> QED BY SMTT(60), <1>0, <1>3, <1>6, <1>8, <1>9

\* It gives that a reader has seen the log from where it asked.
LEMMA InvOrder == ASSUME StorageInv PROVE ReadsInOrder
<1> SUFFICES ASSUME reader # NoReader PROVE IsPrefix(reader.seen, Asked)
  BY DEF ReadsInOrder
<1>1. Headers /\ ReaderIn(memory, slab_count, reader)
  BY DEF StorageInv, SlabsInv, ReaderSound
<1>2. PICK first \in 1 .. Len(StepsOf(memory, slab_count)) : ReaderAt(memory, slab_count, reader, first)
  BY <1>1 DEF ReaderIn
<1>3. PICK steps, asked, seen, L : /\ steps = StepsOf(memory, slab_count) /\ asked = Asked
                                   /\ seen = reader.seen /\ L = Len(seen)
  OBVIOUS
<1>4. /\ asked \in Seq(Record) /\ Len(asked) = Len(steps) - first + 1
      /\ \A i \in 1 .. Len(asked) : asked[i] = steps[first - 1 + i].record
  BY <1>1, <1>2, <1>3, AskedIs
<1>5. seen \in Seq(Record) /\ L \in Nat
  <2>1. reader \in [cursor: Cursor, sequence: 0 .. MaxSequence, seen: Seq(Record)]
    BY <1>1 DEF ReaderIn
  <2>2. seen \in Seq(Record)
    BY <1>3, <2>1
  <2> QED BY <1>3, <2>2
<1>6. \A i \in 1 .. L : seen[i] = steps[first - 1 + i].record
  BY <1>2, <1>3 DEF ReaderAt
<1>7. L <= Len(asked)
  <2>1. PICK slab, c : slab = reader.cursor.slab /\ c = reader.cursor.read_count
    OBVIOUS
  <2>2. /\ slab \in 1 .. slab_count /\ c \in 0 .. memory[slab].count
        /\ first - 1 + L = Len(StepsOf(memory, slab - 1)) + c
    BY <1>2, <1>3, <2>1 DEF ReaderAt
  <2>3. /\ slab_count \in Nat /\ slab \in 1 .. Slabs /\ slab_count \in 0 .. slab_count
        /\ \A s \in 1 .. slab_count : SlabScan(memory[s], s).steps \in Seq(Step)
        /\ Len(SlabScan(memory[slab], slab).steps) = memory[slab].count /\ memory[slab].count \in Nat
    <3>1. SlabsTell(memory, slab_count)
      BY <1>1 DEF Headers
    <3>2. slab \in 1 .. Slabs
      BY <2>2, <3>1, SlabsAssumption DEF SlabsTell
    <3> QED BY <3>1, <3>2, SlabSteps
  <2>4. /\ Len(StepsOf(memory, slab - 1)) \in Nat
        /\ Len(StepsOf(memory, slab - 1)) + Len(SlabScan(memory[slab], slab).steps) <= Len(steps)
    BY <1>3, <2>2, <2>3, StepsAt
  <2>5. Len(steps) \in Nat
    <3>1. steps \in Seq(Step)
      BY <1>3, <2>3, StepsOfType
    <3> QED BY <3>1
  <2> QED BY SMTT(60), <1>2, <1>3, <1>4, <1>5, <2>2, <2>3, <2>4, <2>5
<1>8. \A i \in 1 .. L : i \in 1 .. Len(asked) /\ seen[i] = asked[i]
  <2>1. Len(asked) \in Nat
    BY <1>4
  <2> QED BY <1>4, <1>5, <1>6, <1>7, <2>1
<1>9. SubSeq(seen, 1, L) = [i \in 1 .. L |-> seen[i]] /\ SubSeq(asked, 1, L) = [i \in 1 .. L |-> asked[i]]
  BY <1>5
<1>10. SubSeq(seen, 1, L) = SubSeq(asked, 1, L)
  BY <1>8, <1>9
<1> QED BY <1>3, <1>7, <1>10 DEF IsPrefix

\* And that it has seen all of it when nothing more is read.
LEMMA InvEnd == ASSUME StorageInv PROVE ReadsToEnd
<1> SUFFICES ASSUME reader # NoReader
             PROVE  LET read == StorageRead(reader.cursor) IN
                    /\ read.kind = "None" => reader.seen = Asked
                    /\ read.kind = "Unreachable" => memory[reader.cursor.slab + 1].count = 0
                    /\ read.kind # "Corrupt"
  BY DEF ReadsToEnd
<1>1. Headers /\ ReaderIn(memory, slab_count, reader)
  BY DEF StorageInv, SlabsInv, ReaderSound
<1>2. PICK first \in 1 .. Len(StepsOf(memory, slab_count)) : ReaderAt(memory, slab_count, reader, first)
  BY <1>1 DEF ReaderIn
<1>3. PICK read, steps, L : /\ read = StorageRead(reader.cursor) /\ steps = StepsOf(memory, slab_count)
                            /\ L = Len(reader.seen)
  OBVIOUS
<1>4. \/ read.kind = "Record"
      \/ read = Nothing("None") /\ first - 1 + L = Len(steps)
      \/ read = Nothing("Unreachable") /\ memory[reader.cursor.slab + 1].count = 0
  <2>1. \A record, to : Found(record, to).kind = "Record"
    BY DEF Found
  <2>2. \/ \E t \in 1 .. slab_count : \E k \in 1 .. memory[t].count :
              /\ first - 1 + L + 1 = Len(StepsOf(memory, t - 1)) + k
              /\ read = Found(Staged(memory[t].body, memory[t].count)[k],
                              CursorTo(memory[t].body, t, k))
        \/ read = Nothing("None") /\ first - 1 + L = Len(steps)
        \/ read = Nothing("Unreachable") /\ memory[reader.cursor.slab + 1].count = 0
    BY <1>1, <1>2, <1>3, ReadMeets
  <2> QED BY <2>1, <2>2
<1>5. ASSUME first - 1 + L = Len(steps) PROVE reader.seen = Asked
  <2>1. /\ Asked \in Seq(Record) /\ Len(Asked) = Len(steps) - first + 1
    BY <1>1, <1>2, <1>3, AskedIs
  <2>2. IsPrefix(reader.seen, Asked)
    BY InvOrder DEF ReadsInOrder
  <2>3. reader.seen \in Seq(Record) /\ L \in Nat
    <3>1. reader \in [cursor: Cursor, sequence: 0 .. MaxSequence, seen: Seq(Record)]
      BY <1>1 DEF ReaderIn
    <3>2. reader.seen \in Seq(Record)
      BY <3>1
    <3> QED BY <1>3, <3>2
  <2>4. Len(Asked) = L
    <3>1. Len(Asked) \in Nat /\ first \in Nat
      BY <1>2, <2>1
    <3> QED BY <1>2, <1>3, <1>5, <2>1, <2>3, <3>1
  <2>5. PICK seen, asked : seen = reader.seen /\ asked = Asked
    OBVIOUS
  <2>6. SubSeq(seen, 1, L) = SubSeq(asked, 1, L)
    BY <1>3, <2>2, <2>5 DEF IsPrefix
  <2>7. seen \in Seq(Record) /\ asked \in Seq(Record) /\ Len(seen) = L /\ Len(asked) = L
    BY <1>3, <2>1, <2>3, <2>4, <2>5
  <2>8. SubSeq(seen, 1, Len(seen)) = seen /\ SubSeq(asked, 1, Len(asked)) = asked
    BY <2>7, SubSeqFull
  <2> QED BY <2>5, <2>6, <2>7, <2>8
<1>6. \A kind : Nothing(kind).kind = kind
  BY DEF Nothing
<1> QED BY <1>3, <1>4, <1>5, <1>6

\* The state of Storage keeps its types, offsets and counts their ranges.
THEOREM TypesHold == Spec => []TypeOK
<1>1. StorageInv => TypeOK
  BY InvTypes
<1> QED BY <1>1, StorageSafe, PTL

\* The header of a committed slab has the number of its records and the largest
\* max_sequence of them, that of the last (SlabWriter::write and commit).
THEOREM HeadersTell == Spec => []HeadersTellBodies
<1>1. StorageInv => HeadersTellBodies
  BY InvHeaders
<1> QED BY <1>1, StorageSafe, PTL

\* get_cursor_from_sequence and get_cursor_from_index find the first committed
\* record that has as much, although they scan the remains of dropped writers too.
THEOREM SearchesFind == Spec => []CursorsFindFirst
<1>1. StorageInv => CursorsFindFirst
  BY InvSearches
<1> QED BY <1>1, StorageSafe, PTL

\* A caller of read sees the log from the first record it asked for on, none
\* twice and none left out, whatever is committed between two of its reads.
THEOREM ReadsOrdered == Spec => []ReadsInOrder
<1>1. StorageInv => ReadsInOrder
  BY InvOrder
<1> QED BY <1>1, StorageSafe, PTL

\* read ends at the end of the log, says Unreachable only before an empty slab and
\* meets no corrupt record.
THEOREM ReadsEnd == Spec => []ReadsToEnd
<1>1. StorageInv => ReadsToEnd
  BY InvEnd
<1> QED BY <1>1, StorageSafe, PTL

-----------------------------------------------------------------------------
(* Storage is a log                                                        *)

LogOf(mem, n) == Records(StepsOf(mem, n))

\* The same slabs make the same log.
LEMMA LogSame ==
  ASSUME NEW mem, NEW n, NEW new, \A s \in 1 .. n : new[s] = mem[s]
  PROVE  LogOf(new, n) = LogOf(mem, n)
<1>1. [s \in 1 .. n |-> SlabScan(new[s], s).steps] = [s \in 1 .. n |-> SlabScan(mem[s], s).steps]
  OBVIOUS
<1> QED BY <1>1 DEF LogOf, StepsOf

\* Two sequences one after the other, as a function.
LEMMA ConcatIs ==
  ASSUME NEW S, NEW a \in Seq(S), NEW b \in Seq(S)
  PROVE  a \o b = [i \in 1 .. Len(a) + Len(b) |-> IF i <= Len(a) THEN a[i] ELSE b[i - Len(a)]]
<1>0. PICK c, n : c = a \o b /\ n = Len(a) + Len(b)
  OBVIOUS
<1>1. /\ c \in Seq(S) /\ Len(c) = n
      /\ \A i \in 1 .. n : c[i] = IF i <= Len(a) THEN a[i] ELSE b[i - Len(a)]
  BY <1>0, ConcatProperties
<1>2. c = [i \in 1 .. n |-> c[i]]
  BY <1>1
<1> QED BY <1>0, <1>1, <1>2

\* One slab more adds its records.
LEMMA LogNext ==
  ASSUME NEW mem, NEW n \in Nat, SlabsTell(mem, n + 1)
  PROVE  LogOf(mem, n + 1) = LogOf(mem, n) \o Staged(mem[n + 1].body, mem[n + 1].count)
<1>0. PICK before, steps, records :
            /\ before = StepsOf(mem, n) /\ steps = SlabScan(mem[n + 1], n + 1).steps
            /\ records = Staged(mem[n + 1].body, mem[n + 1].count)
  OBVIOUS
<1>1. /\ n + 1 \in 1 .. Slabs /\ n \in 0 .. n + 1
      /\ \A s \in 1 .. n + 1 : SlabScan(mem[s], s).steps \in Seq(Step)
  <2>1. n + 1 \in 0 .. Slabs /\ Slabs \in Nat
    BY SlabsAssumption DEF SlabsTell
  <2>2. \A s \in 1 .. n + 1 : SlabScan(mem[s], s).steps \in Seq(Step)
    BY SlabSteps
  <2> QED BY <2>1, <2>2
<1>2. StepsOf(mem, n + 1) = before \o steps
  BY <1>0, <1>1, StepsOfNext
<1>3. before \in Seq(Step) /\ steps \in Seq(Step)
  <2>1. n + 1 \in Nat
    OBVIOUS
  <2>2. n + 1 \in 1 .. n + 1
    OBVIOUS
  <2> QED BY <1>0, <1>1, <2>1, <2>2, StepsOfType
<1>4. records = Records(steps)
  BY <1>0, <1>1, SlabRecords
<1>5. Records(before \o steps) = Records(before) \o Records(steps)
  <2>1. /\ before \o steps \in Seq(Step) /\ Len(before \o steps) = Len(before) + Len(steps)
        /\ \A i \in 1 .. Len(before) + Len(steps) :
              (before \o steps)[i] = IF i <= Len(before) THEN before[i] ELSE steps[i - Len(before)]
        /\ Len(before) \in Nat /\ Len(steps) \in Nat
    BY <1>3
  <2>2. \A s \in Seq(Step) : DOMAIN s = 1 .. Len(s) /\ Len(s) \in Nat
    OBVIOUS
  <2>3. \A s \in Seq(Step) : /\ Len(Records(s)) = Len(s) /\ Records(s) \in Seq(Record)
                             /\ \A i \in 1 .. Len(s) : Records(s)[i] = s[i].record
    <3> SUFFICES ASSUME NEW s \in Seq(Step)
                 PROVE  /\ Len(Records(s)) = Len(s) /\ Records(s) \in Seq(Record)
                        /\ \A i \in 1 .. Len(s) : Records(s)[i] = s[i].record
      OBVIOUS
    <3>1. Records(s) = [i \in 1 .. Len(s) |-> s[i].record] /\ Len(s) \in Nat /\ DOMAIN s = 1 .. Len(s)
      BY <2>2 DEF Records
    <3>2. \A i \in 1 .. Len(s) : s[i] \in Step
      OBVIOUS
    <3>3. \A step \in Step : step.record \in Record
      BY DEF Step
    <3> QED BY <3>1, <3>2, <3>3
  <2> DEFINE both == Records(before \o steps)
             apart == Records(before) \o Records(steps)
             N == Len(before) + Len(steps)
  <2>4. both = [i \in 1 .. N |-> (before \o steps)[i].record]
    BY <2>1, <2>2 DEF Records
  <2>5. apart = [i \in 1 .. N |-> IF i <= Len(before) THEN before[i].record ELSE steps[i - Len(before)].record]
    <3>1. PICK a, b : a = Records(before) /\ b = Records(steps)
      OBVIOUS
    <3>2. /\ a \in Seq(Record) /\ b \in Seq(Record)
          /\ Len(a) = Len(before) /\ Len(b) = Len(steps)
          /\ \A i \in 1 .. Len(before) : a[i] = before[i].record
          /\ \A i \in 1 .. Len(steps) : b[i] = steps[i].record
      BY <1>3, <2>3, <3>1
    <3>3. a \o b = [i \in 1 .. N |-> IF i <= Len(before) THEN a[i] ELSE b[i - Len(before)]]
      BY <2>1, <3>2, ConcatIs
    <3>4. \A i \in 1 .. N : /\ i <= Len(before) => i \in 1 .. Len(before)
                            /\ ~ i <= Len(before) => i - Len(before) \in 1 .. Len(steps)
      BY <2>1
    <3> QED BY <3>1, <3>2, <3>3, <3>4
  <2>6. \A i \in 1 .. N : (before \o steps)[i].record =
                             IF i <= Len(before) THEN before[i].record ELSE steps[i - Len(before)].record
    BY <2>1
  <2> QED BY <2>4, <2>5, <2>6
<1> QED BY <1>0, <1>2, <1>4, <1>5 DEF LogOf

\* No slabs, no log.
LEMMA LogNone == ASSUME NEW mem PROVE LogOf(mem, 0) = <<>>
<1>1. StepsOf(mem, 0) = <<>>
  BY StepsOfNone
<1> QED BY <1>1 DEF LogOf, Records

\* What Storage promises of the log and the batch.
LEMMA PromisedLog ==
  /\ Committed = LogOf(memory, slab_count) /\ Committed' = LogOf(memory', slab_count')
  BY DEF Committed, LogOf, CommittedSteps, StepsOf

\* A step is one of the log, or none.
LogStep ==
    \/ /\ LogOf(memory', slab_count') = LogOf(memory, slab_count)
       /\ \/ Batch(memory', writer') = Batch(memory, writer)
          \/ Batch(memory', writer') = <<>>
          \/ \E record \in Record : Batch(memory', writer') = Append(Batch(memory, writer), record)
    \/ /\ LogOf(memory', slab_count') = LogOf(memory, slab_count) \o Batch(memory, writer)
       /\ Batch(memory', writer') = <<>>

\* Every step of Storage is one of the log, or none.
LEMMA StepIsLogStep == StorageInv /\ [Next]_vars => LogStep
<1> SUFFICES ASSUME StorageInv, [Next]_vars PROVE LogStep
  OBVIOUS
<1>0. SlabsInv /\ Headers
  BY DEF StorageInv, SlabsInv
<1>1. ASSUME Appends, slab_count' = slab_count PROVE LogOf(memory', slab_count') = LogOf(memory, slab_count)
  <2>1. \A s \in 1 .. slab_count : memory'[s] = memory[s]
    BY <1>1 DEF Appends
  <2>2. LogOf(memory', slab_count) = LogOf(memory, slab_count)
    BY <2>1, LogSame
  <2> QED BY <1>1, <2>2
<1>2. CASE GetWriter
  BY <1>0, <1>1, <1>2, GetWriterStep DEF Keeps, LogStep
<1>3. ASSUME NEW record \in Record, Write(record) PROVE LogStep
  <2>1. writer' # NoWriter
    <3>1. /\ writer' = [slab         |-> writer.slab,
                        count        |-> writer.count + 1,
                        max_sequence |-> record.max_sequence,
                        offset       |-> writer.offset + record.words + 1]
          /\ writer # NoWriter /\ ~SliceFails
      BY <1>3 DEF Write
    <3>2. writer \in [slab: {slab_count + 1}, count: 0 .. Room,
                      max_sequence: 0 .. MaxSequence, offset: 1 .. Room + 1]
      BY <1>0, <3>1 DEF SlabsInv, WriterSound
    <3>3. slab_count \in Nat /\ Room \in Nat
      BY <1>0, SlabsAssumption, RoomAssumption DEF Headers, SlabsTell
    <3>4. /\ writer.slab \in Nat /\ writer.count + 1 \in Nat /\ record.max_sequence \in Nat
          /\ writer.offset + record.words + 1 \in Nat
      BY <3>2, <3>3, RecordShape
    <3>5. writer' \in [slab: Nat, count: Nat, max_sequence: Nat, offset: Nat]
      BY <3>1, <3>4
    <3> QED BY <3>5, NoWriterAssumption
  <2> QED BY <1>0, <1>1, <1>3, <2>1, WriteStep DEF LogStep
<1>4. ASSUME NEW record \in Record, NEW parts \in 0 .. Room, WriteFull(record, parts) PROVE LogStep
  BY <1>0, <1>1, <1>4, WriteFullStep DEF Keeps, LogStep
<1>5. CASE \/ ReadOn \/ UNCHANGED vars
           \/ \E record \in Record : WritePanics(record)
           \/ \E sequence \in 0 .. MaxSequence : StartReading(sequence)
  BY <1>0, <1>1, <1>5, OtherSteps DEF Keeps, LogStep
<1>6. CASE Drop
  <2>1. Batch(memory', writer') = <<>>
    BY <1>0, <1>6, DropStep DEF Batch
  <2> QED BY <1>0, <1>1, <1>6, <2>1, DropStep DEF LogStep
<1>7. CASE Commit
  <2>1. /\ SlabsInv' /\ Appends /\ slab_count' = slab_count + 1 /\ writer' = NoWriter
        /\ Staged(memory'[slab_count'].body, memory'[slab_count'].count) = Batch(memory, writer)
    BY <1>0, <1>7, CommitStep
  <2>2. Batch(memory', writer') = <<>>
    BY <2>1 DEF Batch
  <2>3. slab_count \in Nat /\ SlabsTell(memory', slab_count + 1)
    BY <1>0, <2>1, SlabsAssumption DEF Headers, SlabsTell, SlabsInv
  <2>4. LogOf(memory', slab_count + 1) =
            LogOf(memory', slab_count) \o Staged(memory'[slab_count + 1].body, memory'[slab_count + 1].count)
    BY <2>3, LogNext
  <2>5. LogOf(memory', slab_count) = LogOf(memory, slab_count)
    <3>1. \A s \in 1 .. slab_count : memory'[s] = memory[s]
      BY <2>1 DEF Appends
    <3> QED BY <3>1, LogSame
  <2>6. LogOf(memory', slab_count') = LogOf(memory, slab_count) \o Batch(memory, writer)
    BY <2>1, <2>4, <2>5
  <2> QED BY <2>2, <2>6 DEF LogStep
<1> QED BY <1>2, <1>3, <1>4, <1>5, <1>6, <1>7 DEF Next

\* Storage is a log: commit adds the batch of the writer whole and at the end, and
\* a writer that is dropped or meets a full slab adds nothing.
THEOREM StorageIsLog == Spec => ImplementsLog
<1>1. Init => Promised!Init
  <2> SUFFICES ASSUME Init PROVE Promised!Init
    OBVIOUS
  <2>1. Committed = <<>>
    BY PromisedLog, LogNone DEF Init
  <2> QED BY <2>1 DEF Promised!Init, Init
<1>2. StorageInv /\ [Next]_vars => [Promised!Next]_Promised!vars
  <2> SUFFICES ASSUME StorageInv, [Next]_vars PROVE [Promised!Next]_Promised!vars
    OBVIOUS
  <2>1. LogStep
    BY StepIsLogStep
  <2> QED BY <2>1, PromisedLog
          DEF LogStep, Batch, Promised!Next, Promised!vars, Promised!Write, Promised!Commit, Promised!Drop
<1> QED BY <1>1, <1>2, StorageSafe, PTL DEF Spec, ImplementsLog, Promised!Spec
=============================================================================
