------------------------------ MODULE ClientOps ------------------------------
(***************************************************************************)
(* What a Client (protocol/src/lib.rs) does to one of its channels.  As in *)
(* the source, a Channel is the record of a ChannelState, a Storage and a  *)
(* Chat:                                                                   *)
(*   state    [nodes, newest]                    see ChannelOps            *)
(*   chat     [owner, users, message_count]      see ChatOps               *)
(*   storage  [slabs, slab_count]                                          *)
(* A device stores exactly one record in a slab, so `slabs' is a sequence  *)
(* of records: the slabs of the backing memory that hold one.  slab_count  *)
(* is MemIO.slab_count, the slabs written since that MemIO was made: after *)
(* a restart it is smaller than Len(slabs).                                *)
(*                                                                         *)
(* An envelope is the Message it seals, its sender, and its id.  Signing   *)
(* and hashing are external: nobody seals for another node, and an id      *)
(* names one envelope.                                                     *)
(***************************************************************************)
EXTENDS ChannelOps, Sequences, SequencesExt

CONSTANTS
    NoOwner,        \* Chat.owner_id: None
    Halted,         \* the state of a device that panicked
    MaxSlabs,       \* slabs that fit in the backing memory of a MemIO
    BufferRecords   \* records that fit in one SyncResponse

ASSUME NoOwnerAssumption == NoOwner \notin Node
ASSUME MaxSlabsAssumption == MaxSlabs \in Nat \ {0}
ASSUME BufferRecordsAssumption == BufferRecords \in Nat \ {0}

INSTANCE ChatOps WITH MaxUsers <- MaxNodes

Envelope ==
    [from: Node, cause: Node, sender_last: Sequence, sequence: Sequence,
     id: Nat, data: Payload(Node)]

Record == [max_sequence: Sequence, message_count: Nat, data: Envelope]

\* The kind of a Channel: its ChannelState, its Chat and its Storage.
ChannelType ==
    [state:   [nodes: UNION {[known -> NodeSequence] : known \in SUBSET Node}, newest: Node],
     chat:    [owner: Node \cup {NoOwner}, users: SUBSET Node, message_count: Nat],
     storage: [slabs: Seq(Record), slab_count: Nat]]

ChannelRecord(initial, slabs) ==
    [state   |-> [nodes |-> InitialNodes(initial), newest |-> initial],
     chat    |-> NewChat,
     storage |-> [slabs |-> slabs, slab_count |-> 0]]

-----------------------------------------------------------------------------
(* Sealing.  crypto.seal is external: it adds a sender and an id.          *)

Seal(ch, from, data, id) ==
    LET message == Address(ch.state.nodes, ch.state.newest, from) IN
    [from |-> from, cause |-> message.cause, sender_last |-> message.sender_last,
     sequence |-> message.sequence, id |-> id, data |-> data]

-----------------------------------------------------------------------------
(* The part do_send, do_receive and init_chat share.  The memory of the    *)
(* channel changes first, the record is stored last, and a failure between *)
(* the two is returned with the memory as it then is.                      *)

Acceptable(ch, e) ==
    /\ CheckReceive(ch.state.nodes, e.from, e)
    /\ Accepts(ch.chat, e.from, e.data)

\* state.receive, then state.add_node for the user an AddUser names.
ReceivedState(state, e) ==
    LET received == ReceivedNodes(state.nodes, e.from, e) IN
    [nodes  |-> IF e.data.kind = "AddUser" /\ CanAddNode(received, e.data.user)
                THEN AddedNode(received, e.data.user)
                ELSE received,
     newest |-> ReceivedNewest(state.nodes, state.newest, e.from, e)]

InMemory(ch, e) ==
    [state   |-> ReceivedState(ch.state, e),
     chat    |-> Accepted(ch.chat, e.data),
     storage |-> ch.storage]

AddNodeFails(ch, e) ==
    e.data.kind = "AddUser" /\ ~CanAddNode(ch.state.nodes, e.data.user)

\* Mutants of Written: not committed; into the last slab written; always into
\* the first slab.
WrittenUncommitted(storage, record) == [storage EXCEPT !.slabs = Append(@, record)]

WrittenLast(storage, record) ==
    [slabs |-> Append(SubSeq(storage.slabs, 1, storage.slab_count - 1), record),
     slab_count |-> IF storage.slab_count = 0 THEN 1 ELSE storage.slab_count]

WrittenFirst(storage, record) ==
    [slabs |-> <<record>>, slab_count |-> storage.slab_count + 1]

\* new_writer starts the slab at slab_count, over whatever is there.
Written(storage, record) ==
    LET at == storage.slab_count + 1 IN
    [slabs |-> IF at <= Len(storage.slabs)
               THEN [storage.slabs EXCEPT ![at] = record]
               ELSE Append(storage.slabs, record),
     slab_count |-> at]

Stored(ch, e) ==
    [InMemory(ch, e) EXCEPT !.storage =
        Written(@, [max_sequence  |-> ReceivedMax(ch.state.nodes, ch.state.newest, e),
                    message_count |-> MessageCountAfter(ch.chat, e.data),
                    data          |-> e])]

\* `fits': the record is no longer than the slab it is written to.  Past the
\* last slab the slice of MemIO::write_record is out of range, a panic.
Processed(ch, e, fits) ==
    CASE AddNodeFails(ch, e)                -> [channel |-> InMemory(ch, e), ok |-> FALSE]
      [] /\ ~AddNodeFails(ch, e)
         /\ ch.storage.slab_count >= MaxSlabs -> [channel |-> Halted, ok |-> FALSE]
      [] /\ ~AddNodeFails(ch, e)
         /\ ch.storage.slab_count < MaxSlabs
         /\ ~fits                           -> [channel |-> InMemory(ch, e), ok |-> FALSE]
      [] OTHER                              -> [channel |-> Stored(ch, e), ok |-> TRUE]

-----------------------------------------------------------------------------
(* do_receive and receive_buffer                                           *)

\* Mutant of Duplicate: AlreadyReceived is an error like any other.
DuplicateNever(ch, e) == FALSE

Duplicate(ch, e) ==
    /\ e.from \in DOMAIN ch.state.nodes
    /\ AlreadyReceived(ch.state.nodes, e.from, e)

\* The record of a receiver holds its own max_sequence, that of the sender the
\* sequence of the message: where it is larger the record may be longer, and
\* outgrow the slab that held the sender's.
MayOutgrow(ch, e) == ReceivedMax(ch.state.nodes, ch.state.newest, e) > e.sequence

\* One turn of the loop of receive_buffer: an envelope received before is
\* passed over, any other error ends the loop.  `long' are the envelopes whose
\* records do not fit here if they grow.
ReceiveNext(progress, e, long) ==
    LET ch == progress.channel IN
    CASE ~progress.ok                                -> progress
      [] progress.ok /\ Duplicate(ch, e)             -> progress
      [] progress.ok /\ ~Duplicate(ch, e) /\ Acceptable(ch, e)
                                -> Processed(ch, e, e \notin long \/ ~MayOutgrow(ch, e))
      [] OTHER                                       -> [channel |-> ch, ok |-> FALSE]

\* The same, of values: TLC computes each argument once, not at each of its uses.
ReceiveStep(progress, e, long) ==
    CHOOSE next \in {ReceiveNext(p, x, long) : p \in {progress}, x \in {e}} : TRUE

ReceiveBufferWith(ch, envelopes, long) ==
    FoldLeft(LAMBDA progress, e : ReceiveStep(progress, e, long),
             [channel |-> ch, ok |-> TRUE], envelopes)

ReceiveBuffer(ch, envelopes) == ReceiveBufferWith(ch, envelopes, {})

-----------------------------------------------------------------------------
(* Synchronisation: what the requester asks, what the responder answers.   *)

FinishSyncRequest(ch) ==
    [n \in DOMAIN ch.state.nodes |-> ch.state.nodes[n].sequence]

\* The clocks start_sync_response merges, one by one in SyncMerge.
StartSyncResponse(ch, clock) ==
    [n \in DOMAIN ch.state.nodes \cup DOMAIN clock |->
        IF n \in DOMAIN clock THEN clock[n] ELSE ch.state.nodes[n].first_sequence]

\* Mutant of GetMinSequence: the comparison is the wrong way round.
GetMaxSequence(clock) == Max({clock[n] : n \in DOMAIN clock})

GetMinSequence(clock) == Min({clock[n] : n \in DOMAIN clock})

\* get_cursor_from_sequence and get_cursor_from_index look through every slab
\* of the memory for the first that fits; NoCursor is None.
NoCursor == 0

\* Mutant of CursorFromIndex: > for >=.
CursorAfterIndex(slabs, index) ==
    SelectInSeq(slabs, LAMBDA record : record.message_count > index)

CursorFromSequence(slabs, sequence) ==
    SelectInSeq(slabs, LAMBDA record : record.max_sequence >= sequence)

CursorFromIndex(slabs, index) ==
    SelectInSeq(slabs, LAMBDA record : record.message_count >= index)

\* What Storage::read returns from a cursor on: the slab of the cursor, then
\* each next one below slab_count.
ReadFrom(storage, cursor) ==
    SubSeq(storage.slabs, cursor, IF cursor > storage.slab_count THEN cursor ELSE storage.slab_count)

\* The envelopes fill_send_buffer copies: whole records from the cursor on,
\* until the next one does not fit.
SendBuffer(storage, cursor) ==
    LET records == ReadFrom(storage, cursor) IN
    [i \in 1 .. Min({Len(records), BufferRecords}) |-> records[i].data]

\* start_sync_response has room for MAX_NODES clocks; fill_send_buffer needs a
\* record to start from.
CanRespond(ch, clock) ==
    /\ Cardinality(DOMAIN StartSyncResponse(ch, clock)) <= MaxNodes
    /\ CursorFromSequence(ch.storage.slabs,
                          GetMinSequence(StartSyncResponse(ch, clock))) # NoCursor

Response(ch, clock) ==
    SendBuffer(ch.storage,
               CursorFromSequence(ch.storage.slabs,
                                  GetMinSequence(StartSyncResponse(ch, clock))))

-----------------------------------------------------------------------------
(* open_chat: the state replayed from storage, starting from the node that *)
(* opens it.                                                               *)

ReplayNext(progress, record) ==
    LET ch == progress.channel
        e  == record.data
    IN  IF progress.ok /\ Acceptable(ch, e) /\ ~AddNodeFails(ch, e)
        THEN [channel |-> InMemory(ch, e), ok |-> TRUE]
        ELSE [channel |-> ch, ok |-> FALSE]

Replay(initial, storage) ==
    FoldLeft(ReplayNext,
             [channel |-> ChannelRecord(initial, storage.slabs), ok |-> TRUE],
             IF storage.slabs = <<>> THEN <<>> ELSE ReadFrom(storage, 1))

-----------------------------------------------------------------------------
(* get_message: the index-th text, or NoMessage for each of its errors.    *)

NoMessage == [kind |-> "NoMessage"]

GetMessage(ch, index) ==
    LET cursor == CursorFromIndex(ch.storage.slabs, index) IN
    IF /\ cursor # NoCursor
       /\ ch.storage.slabs[cursor].data.from \in DOMAIN ch.state.nodes
       /\ ch.storage.slabs[cursor].data.data.kind = "ChatMessage"
    THEN ch.storage.slabs[cursor].data
    ELSE NoMessage
=============================================================================
