------------------------------- MODULE Storage -------------------------------
(***************************************************************************)
(* Storage over a MemIO (protocol/src/storage.rs, storage/slab.rs,         *)
(* storage/mem_io.rs): slabs of memory, each a header [count, max_sequence]*)
(* and a body of [length, record] one after the other.  A SlabWriter puts  *)
(* records into the body of the slab after the last committed one and      *)
(* writes the header when it commits; it borrows the Storage, so nothing   *)
(* reads while it is open, but it may be dropped half way.  Readers follow *)
(* the lengths.                                                            *)
(*                                                                         *)
(* A body is counted in words of the size of a length: Room of them.  The  *)
(* bytes of a record are its words, told apart by record and position;     *)
(* bytes that are not those of one whole record do not parse.              *)
(***************************************************************************)
EXTENDS Naturals, SequencesExt, FiniteSetsExt

CONSTANTS
    Record,         \* the records callers write
    Slabs,          \* max_index: slabs in the memory
    Room,           \* words of a slab after its header
    MaxSequence,    \* bound of the max_sequence of a record
    NoWriter,
    NoReader

ASSUME RecordAssumption ==
    Record \subseteq [max_sequence: 0 .. MaxSequence, message_count: Nat, words: Nat \ {0}]
ASSUME SlabsAssumption == Slabs \in Nat \ {0}
ASSUME RoomAssumption == Room \in Nat \ {0}
ASSUME MaxSequenceAssumption == MaxSequence \in Nat
ASSUME NoWriterAssumption == NoWriter \notin [slab: Nat, count: Nat, max_sequence: Nat, offset: Nat]

VARIABLES
    memory,         \* MemIO.data, slab by slab
    slab_count,     \* MemIO.slab_count
    writer,         \* the SlabWriter that borrows the memory
    reader,         \* a caller that iterates: the cursor it is at, what it asked for and has read
    panicked        \* a slice was out of range

vars == <<memory, slab_count, writer, reader, panicked>>

-----------------------------------------------------------------------------
(* Memory                                                                  *)

Blank == [kind |-> "blank"]

Length(words) == [kind |-> "length", words |-> words]

Part(record, i) == [kind |-> "part", record |-> record, at |-> i]

Cell ==
    {Blank}
    \cup {Length(record.words) : record \in Record}
    \cup UNION {{Part(record, i) : i \in 1 .. record.words} : record \in Record}

Slab == [count: Nat, max_sequence: 0 .. MaxSequence, body: [1 .. Room -> Cell]]

Cursor == [slab: 1 .. Slabs, offset: 1 .. Room + 1, read_count: 0 .. Room]

\* slab_count counts slabs of the memory, a writer stays within its slab.
TypeOK ==
    /\ memory \in [1 .. Slabs -> Slab]
    /\ slab_count \in 0 .. Slabs
    /\ \/ writer = NoWriter
       \/ writer \in [slab: 1 .. Slabs + 1, count: 0 .. Room,
                      max_sequence: 0 .. MaxSequence, offset: 1 .. Room + 1]
    /\ \/ reader = NoReader
       \/ /\ reader.cursor \in Cursor
          /\ reader.sequence \in 0 .. MaxSequence
          /\ reader.seen \in Seq(Record)
    /\ panicked \in BOOLEAN

Init ==
    /\ memory = [s \in 1 .. Slabs |->
                   [count |-> 0, max_sequence |-> 0, body |-> [i \in 1 .. Room |-> Blank]]]
    /\ slab_count = 0
    /\ writer = NoWriter
    /\ reader = NoReader
    /\ panicked = FALSE

-----------------------------------------------------------------------------
(* Reading                                                                 *)

GetHead(s) == [slab |-> s, offset |-> 1, read_count |-> 0]

Found(record, next) == [kind |-> "Record", record |-> record, next |-> next]

Nothing(kind) == [kind |-> kind]

IsRecordAt(body, at, record) ==
    /\ at + record.words <= Room
    /\ body[at] = Length(record.words)
    /\ \A i \in 1 .. record.words : body[at + i] = Part(record, i)

RecordsAt(body, at) == {record \in Record : IsRecordAt(body, at, record)}

\* Slab::read.  "Corrupt" stands for OutOfBounds, CorruptDB, an error of
\* postcard, or a record nobody wrote.
SlabRead(slab, cursor) ==
    LET there  == RecordsAt(slab.body, cursor.offset)
        record == CHOOSE r \in there : TRUE
    IN  IF \/ cursor.read_count >= slab.count
           \/ cursor.offset <= Room /\ slab.body[cursor.offset] = Blank
        THEN Nothing("None")
        ELSE IF there = {} THEN Nothing("Corrupt")
        ELSE Found(record, [slab       |-> cursor.slab,
                            offset     |-> cursor.offset + record.words + 1,
                            read_count |-> cursor.read_count + 1])

\* Mutant of StorageRead: the next slab is not looked at.
StorageReadSlab(cursor) == SlabRead(memory[cursor.slab], cursor)

\* Storage::read: the next record of the slab, or the first of the next slab.
StorageRead(cursor) ==
    LET here == SlabRead(memory[cursor.slab], cursor)
        next == SlabRead(memory[cursor.slab + 1], GetHead(cursor.slab + 1))
    IN  IF here.kind # "None" THEN here
        ELSE IF cursor.slab + 1 > slab_count THEN Nothing("None")
        ELSE IF next.kind = "None" THEN Nothing("Unreachable")
        ELSE next

\* Where the lengths lead: the word after n records, or 0 if they are not there.
Offsets(body) ==
    LET after == [at \in 0 .. Room + 1 |->
                    IF at \in 1 .. Room /\ RecordsAt(body, at) # {}
                    THEN at + body[at].words + 1 ELSE 0]
        offset[n \in 0 .. Room] == IF n = 0 THEN 1 ELSE after[offset[n - 1]]
    IN  offset

\* The reads of slab s from its head until one finds nothing: the records, each
\* with the cursor before it, and whether the last read met an error.
SlabScan(slab, s) ==
    LET offset    == Offsets(slab.body)
        cursor(n) == [slab |-> s, offset |-> offset[n], read_count |-> n]
        reads     == Max({n \in 0 .. Room : n <= slab.count /\ offset[n] # 0})
    IN  [steps   |-> [i \in 1 .. reads |-> [cursor |-> cursor(i - 1),
                                           record |-> SlabRead(slab, cursor(i - 1)).record]],
         corrupt |-> SlabRead(slab, cursor(reads)).kind = "Corrupt"]

Matches(steps, key, value) == {i \in DOMAIN steps : steps[i].record[key] >= value}

\* Mutant of CursorFrom: the cursor after the record, not the one before it.
CursorFromNext(key, value) ==
    LET scans   == [s \in 1 .. Slabs |-> SlabScan(memory[s], s)]
        matches == {s \in 1 .. Slabs : Matches(scans[s].steps, key, value) # {}}
        steps   == scans[Min(matches)].steps
    IN  IF matches = {} THEN Nothing("None")
        ELSE [kind   |-> "Cursor",
              cursor |-> SlabRead(memory[Min(matches)], steps[Min(Matches(steps, key, value))].cursor).next]

\* get_cursor_from_sequence and get_cursor_from_index, which differ in the field
\* they look at: the first record with at least the value in any slab of the
\* memory, committed or not.
CursorFrom(key, value) ==
    LET scans   == [s \in 1 .. Slabs |-> SlabScan(memory[s], s)]
        matches == {s \in 1 .. Slabs : Matches(scans[s].steps, key, value) # {}}
        corrupt == {s \in 1 .. Slabs : scans[s].corrupt}
        steps   == scans[Min(matches)].steps
    IN  IF matches # {} /\ \A s \in corrupt : Min(matches) <= s
        THEN [kind |-> "Cursor", cursor |-> steps[Min(Matches(steps, key, value))].cursor]
        ELSE Nothing(IF corrupt = {} THEN "None" ELSE "Corrupt")

CursorFromSequence(sequence) == CursorFrom("max_sequence", sequence)

CursorFromIndex(index) == CursorFrom("message_count", index)

-----------------------------------------------------------------------------
(* Writing                                                                 *)

\* Mutant of GetWriter: the writer starts over in the last committed slab.
GetWriterLast ==
    /\ ~panicked /\ writer = NoWriter
    /\ writer' = [slab |-> IF slab_count = 0 THEN 1 ELSE slab_count,
                  count |-> 0, max_sequence |-> 0, offset |-> 1]
    /\ UNCHANGED <<memory, slab_count, reader, panicked>>

\* get_writer, for the slab after the committed ones even if there is none.
GetWriter ==
    /\ ~panicked /\ writer = NoWriter
    /\ writer' = [slab |-> slab_count + 1, count |-> 0, max_sequence |-> 0, offset |-> 1]
    /\ UNCHANGED <<memory, slab_count, reader, panicked>>

\* The body from `at' on, with the first `parts' words of the record.
WithParts(body, at, record, parts) ==
    [i \in 1 .. Room |-> IF i \in at + 1 .. at + parts THEN Part(record, i - at) ELSE body[i]]

\* The slice of the body after the length: out of range past the last slab,
\* and where less than a length is left.
SliceFails == writer.slab > Slabs \/ writer.offset > Room

InOrder(record) == writer.max_sequence <= record.max_sequence

\* Mutant of Fits: the length word is not counted.
FitsBody(record) == record.words <= Room - writer.offset + 1

Fits(record) == record.words <= Room - writer.offset

\* OutOfOrder leaves all as it was.
Write(record) ==
    /\ ~panicked /\ writer # NoWriter
    /\ InOrder(record)
    /\ ~SliceFails
    /\ Fits(record)
    /\ memory' = [memory EXCEPT ![writer.slab].body =
                     [WithParts(@, writer.offset, record, record.words)
                         EXCEPT ![writer.offset] = Length(record.words)]]
    /\ writer' = [slab         |-> writer.slab,
                  count        |-> writer.count + 1,
                  max_sequence |-> record.max_sequence,
                  offset       |-> writer.offset + record.words + 1]
    /\ UNCHANGED <<slab_count, reader, panicked>>

\* Mutant of WriteFull: the record is counted before it is written.
WriteFullCounted(record, parts) ==
    /\ ~panicked /\ writer # NoWriter
    /\ InOrder(record)
    /\ ~SliceFails
    /\ ~Fits(record)
    /\ parts <= Room - writer.offset
    /\ memory' = [memory EXCEPT ![writer.slab].body = WithParts(@, writer.offset, record, parts)]
    /\ writer' = [writer EXCEPT !.count = @ + 1]
    /\ UNCHANGED <<slab_count, reader, panicked>>

\* SlabFull: to_slice gives up when the slab ends, after some of the record.
WriteFull(record, parts) ==
    /\ ~panicked /\ writer # NoWriter
    /\ InOrder(record)
    /\ ~SliceFails
    /\ ~Fits(record)
    /\ parts <= Room - writer.offset
    /\ memory' = [memory EXCEPT ![writer.slab].body = WithParts(@, writer.offset, record, parts)]
    /\ UNCHANGED <<slab_count, writer, reader, panicked>>

WritePanics(record) ==
    /\ ~panicked /\ writer # NoWriter
    /\ InOrder(record)
    /\ SliceFails
    /\ panicked' = TRUE
    /\ UNCHANGED <<memory, slab_count, writer, reader>>

\* Mutant of Commit: slab_count is not counted up.
CommitInPlace ==
    /\ ~panicked /\ writer # NoWriter
    /\ writer.slab <= Slabs
    /\ memory' = [memory EXCEPT ![writer.slab] =
                     [count |-> writer.count, max_sequence |-> writer.max_sequence, body |-> @.body]]
    /\ writer' = NoWriter
    /\ UNCHANGED <<slab_count, reader, panicked>>

\* Past the last slab the header is OutOfBounds and the writer is only dropped.
Commit ==
    /\ ~panicked /\ writer # NoWriter
    /\ writer.slab <= Slabs
    /\ memory' = [memory EXCEPT ![writer.slab] =
                     [count |-> writer.count, max_sequence |-> writer.max_sequence, body |-> @.body]]
    /\ slab_count' = slab_count + 1
    /\ writer' = NoWriter
    /\ UNCHANGED <<reader, panicked>>

Drop ==
    /\ ~panicked /\ writer # NoWriter
    /\ writer' = NoWriter
    /\ UNCHANGED <<memory, slab_count, reader, panicked>>

-----------------------------------------------------------------------------
(* Iterating                                                               *)

StartReading(sequence) ==
    /\ ~panicked /\ writer = NoWriter
    /\ CursorFromSequence(sequence).kind = "Cursor"
    /\ reader' = [cursor |-> CursorFromSequence(sequence).cursor,
                  sequence |-> sequence, seen |-> <<>>]
    /\ UNCHANGED <<memory, slab_count, writer, panicked>>

\* The caller keeps the cursor when there is nothing more, and may go on later.
ReadOn ==
    /\ ~panicked /\ writer = NoWriter /\ reader # NoReader
    /\ LET read == StorageRead(reader.cursor) IN
       /\ read.kind = "Record"
       /\ reader' = [cursor   |-> read.next,
                     sequence |-> reader.sequence,
                     seen     |-> Append(reader.seen, read.record)]
    /\ UNCHANGED <<memory, slab_count, writer, panicked>>

Next ==
    \/ GetWriter
    \/ \E record \in Record : Write(record)
    \/ \E record \in Record, parts \in 0 .. Room : WriteFull(record, parts)
    \/ \E record \in Record : WritePanics(record)
    \/ Commit
    \/ Drop
    \/ \E sequence \in 0 .. MaxSequence : StartReading(sequence)
    \/ ReadOn

Spec == Init /\ [][Next]_vars

-----------------------------------------------------------------------------
(* Properties                                                              *)

\* The records in the slabs that were committed, each with the cursor to it.
CommittedSteps ==
    FlattenSeq([s \in 1 .. slab_count |-> SlabScan(memory[s], s).steps])

Records(steps) == [i \in DOMAIN steps |-> steps[i].record]

Committed == Records(CommittedSteps)

\* The records of the open writer, as they lie in its slab.
Staged(body, count) == [i \in 1 .. count |-> body[Offsets(body)[i - 1] + 1].record]

\* Storage is a log: what can be read back is every batch that was committed, in
\* order and whole, and nothing of one that was dropped or did not fit.
Promised ==
    INSTANCE Log WITH
        log   <- Committed,
        batch <- IF writer = NoWriter \/ writer.slab > Slabs THEN <<>>
                 ELSE Staged(memory[writer.slab].body, writer.count)

ImplementsLog == Promised!Spec

\* A slab that was committed is never written again, whatever writers are dropped
\* or meet a full slab after it: what a reader has seen stays there.
CommittedForGood ==
    [][/\ slab_count <= slab_count'
       /\ \A s \in 1 .. slab_count : memory'[s] = memory[s]]_vars

IsFirst(found, key, value) ==
    LET matches == Matches(CommittedSteps, key, value) IN
    IF matches = {}
    THEN found.kind = "None"
    ELSE found = [kind |-> "Cursor", cursor |-> CommittedSteps[Min(matches)].cursor]

\* Both cursor searches find the first committed record they are asked for, or
\* None, although they look at slabs that hold the remains of dropped writers.
CursorsFindFirst ==
    writer = NoWriter =>
        /\ \A sequence \in 0 .. MaxSequence :
              IsFirst(CursorFromSequence(sequence), "max_sequence", sequence)
        /\ \A index \in {record.message_count : record \in Record} :
              IsFirst(CursorFromIndex(index), "message_count", index)

\* The records an iteration is to see: the log from the first one asked for on.
Asked ==
    LET matches == Matches(CommittedSteps, "max_sequence", reader.sequence) IN
    IF matches = {} THEN <<>> ELSE SubSeq(Committed, Min(matches), Len(Committed))

\* An iteration sees the log from the first record it asked for, none twice and
\* none left out, whatever is written between two of its reads.
ReadsInOrder == reader # NoReader => IsPrefix(reader.seen, Asked)

\* An iteration ends at the end of the log; the error called Unreachable is met
\* only before an empty slab, and no other.
ReadsToEnd ==
    reader # NoReader /\ writer = NoWriter =>
        LET read == StorageRead(reader.cursor) IN
        /\ read.kind = "None" => reader.seen = Asked
        /\ read.kind = "Unreachable" => memory[reader.cursor.slab + 1].count = 0
        /\ read.kind # "Corrupt"

\* A header tells the number of the records of its slab and the sequence of the
\* last one, and no record of the slab has a larger one.
HeadersTellBodies ==
    \A s \in 1 .. slab_count :
        LET records == Records(SlabScan(memory[s], s).steps) IN
        /\ memory[s].count = Len(records)
        /\ records # <<>> => memory[s].max_sequence = records[Len(records)].max_sequence
        /\ \A i \in DOMAIN records : records[i].max_sequence <= memory[s].max_sequence
=============================================================================
