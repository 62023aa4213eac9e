----------------------------- MODULE Replication -----------------------------
(***************************************************************************)
(* One channel on several devices: the Client of each of them, the sync    *)
(* exchange between them (finish_sync_request, start_sync_response,        *)
(* fill_send_buffer and receive_buffer, in the order the test runner wires *)
(* them), and a network that loses, delays, reorders and duplicates.       *)
(*                                                                         *)
(* The firmware keeps a channel in memory only.  What may go wrong on a    *)
(* device is selected by Faults, so that a run can show what each costs:   *)
(*   "oversize"  a text whose record is longer than a slab                 *)
(*   "outgrow"   a record longer than a slab at the receiver only          *)
(*   "readd"     the owner adds a node it added before                     *)
(*   "forget"    a device calls add_channel for a channel it has           *)
(*   "reopen"    a device restarts and calls open_chat on its memory       *)
(***************************************************************************)
EXTENDS ClientOps

CONSTANTS
    Owner,          \* the node that creates the channel
    Absent,         \* channels.get(channel_id) is None
    EnvelopeId,     \* the ids a hash may give
    Faults,
    Overhear,       \* TRUE: a device also processes responses meant for another
    Members,        \* the nodes Established starts with
    MaxMessages,    \* bound: envelopes sealed
    MaxNet          \* bound: requests and responses in flight

ASSUME OwnerAssumption == Owner \in Node
ASSUME MembersAssumption == Members \subseteq Node \ {Owner}
ASSUME EnvelopeIdAssumption == EnvelopeId \subseteq Nat \ {NoEnvelope}
ASSUME FaultsAssumption == Faults \subseteq {"oversize", "outgrow", "readd", "forget", "reopen"}
ASSUME OverhearAssumption == Overhear \in BOOLEAN
ASSUME AbsentAssumption == Absent # Halted /\ {Absent, Halted} \cap ChannelType = {}
ASSUME BoundsAssumption == MaxMessages \in Nat /\ MaxNet \in Nat

VARIABLES
    channel,        \* channel[c]: the Channel of device c, Absent or Halted
    sealed,         \* every envelope ever sealed
    net             \* requests and responses in flight

vars == <<channel, sealed, net>>

Has(c) == channel[c] \notin {Absent, Halted}

\* The envelopes device c stored, in order.
Log(c) ==
    IF Has(c)
    THEN [i \in 1 .. channel[c].storage.slab_count |-> channel[c].storage.slabs[i].data]
    ELSE <<>>

IsChannel(ch) ==
    /\ DOMAIN ch.state.nodes \subseteq Node
    /\ Cardinality(DOMAIN ch.state.nodes) <= MaxNodes
    /\ ch.state.nodes \in [DOMAIN ch.state.nodes -> NodeSequence]
    /\ ch.state.newest \in DOMAIN ch.state.nodes
    /\ ch.chat \in [owner: Node \cup {NoOwner}, users: SUBSET Node, message_count: Nat]
    /\ ch.storage.slabs \in Seq(Record)
    /\ ch.storage.slab_count <= Len(ch.storage.slabs)
    /\ Len(ch.storage.slabs) <= MaxSlabs

IsMessage(m) ==
    /\ m.session \in Node
    /\ \/ /\ m.type = "request"
          /\ DOMAIN m.clock \subseteq Node
          /\ m.clock \in [DOMAIN m.clock -> Sequence]
       \/ /\ m.type = "response"
          /\ m.data \in Seq(Envelope)

\* Devices hold well-formed channels within the room for nodes and slabs, and
\* every clock and envelope in flight is of a known kind.
TypeOK ==
    /\ DOMAIN channel = Node
    /\ \A c \in Node : Has(c) => IsChannel(channel[c])
    /\ sealed \subseteq Envelope
    /\ \A m \in net : IsMessage(m)

Init ==
    /\ channel = [c \in Node |-> Absent]
    /\ sealed = {}
    /\ net = {}

-----------------------------------------------------------------------------
(* Creating, joining                                                       *)

\* Envelope ids are compared between envelopes of one sequence only, so only
\* those need to differ.
FreshId(id, sequence) == \A e \in sealed : e.sequence = sequence => e.id # id

InitChat(id) ==
    LET initial == ChannelRecord(Owner, <<>>)
        e       == Seal(initial, Owner, NewChannel(Owner), id)
    IN  /\ sealed = {}
        /\ channel' = [channel EXCEPT ![Owner] = Processed(initial, e, TRUE).channel]
        /\ sealed' = {e}
        /\ UNCHANGED net

\* The new user knows the id of the channel and the key of its owner.
AddChannel(c) ==
    /\ sealed # {}
    /\ channel[c] = Absent
    /\ channel' = [channel EXCEPT ![c] = ChannelRecord(Owner, <<>>)]
    /\ UNCHANGED <<sealed, net>>

-----------------------------------------------------------------------------
(* do_send                                                                 *)

Send(c, data, id, fits) ==
    LET ch == channel[c]
        e  == Seal(ch, c, data, id)
    IN  /\ Has(c)
        /\ Cardinality(sealed) < MaxMessages
        /\ CanAddress(ch.state.nodes, ch.state.newest, c)
        /\ FreshId(id, e.sequence)
        /\ Acceptable(ch, e)
        /\ channel' = [channel EXCEPT ![c] = Processed(ch, e, fits).channel]
        /\ sealed' = sealed \cup {e}
        /\ UNCHANGED net

SendMessage(c, id, fits) ==
    /\ fits \/ "oversize" \in Faults
    /\ Send(c, ChatMessage, id, fits)

AddNode(c, n, id) ==
    /\ Has(c)
    /\ n \notin DOMAIN channel[c].state.nodes \/ "readd" \in Faults
    /\ Send(c, AddUser(n), id, TRUE)

-----------------------------------------------------------------------------
(* Synchronisation                                                         *)

SyncRequest(c) == [type |-> "request", session |-> c, clock |-> FinishSyncRequest(channel[c])]

SyncResponse(r, request) ==
    [type |-> "response", session |-> request.session,
     data |-> Response(channel[r], request.clock)]

SendRequest(c) ==
    /\ Has(c)
    /\ Cardinality(net) < MaxNet
    /\ net' = net \cup {SyncRequest(c)}
    /\ UNCHANGED <<channel, sealed>>

\* Another device may still receive the request, or it is heard no more.
Respond(r, m) ==
    /\ Has(r)
    /\ m.type = "request"
    /\ m.session # r
    /\ CanRespond(channel[r], m.clock)
    /\ \E still \in {net, net \ {m}} :
          /\ Cardinality(still) < MaxNet
          /\ net' = still \cup {SyncResponse(r, m)}
    /\ UNCHANGED <<channel, sealed>>

\* What a device becomes when it processes a response.
Received(ch, data) ==
    {ReceiveBufferWith(ch, data, long).channel :
        long \in IF "outgrow" \in Faults THEN SUBSET ToSet(data) ELSE {{}}}

\* The response stays in flight: it can be delivered again, later.
Deliver(c, m) ==
    /\ Has(c)
    /\ m.type = "response"
    /\ m.session = c \/ Overhear
    /\ \E received \in Received(channel[c], m.data) :
           channel' = [channel EXCEPT ![c] = received]
    /\ UNCHANGED <<sealed, net>>

Lose(m) ==
    /\ net' = net \ {m}
    /\ UNCHANGED <<channel, sealed>>

\* TestRunner::sync: one whole exchange with nothing in between.
Sync(c, r) ==
    /\ Has(c) /\ Has(r)
    /\ CanRespond(channel[r], FinishSyncRequest(channel[c]))
    /\ \E data \in {Response(channel[r], FinishSyncRequest(channel[c]))} :
           \E received \in Received(channel[c], data) :
               channel' = [channel EXCEPT ![c] = received]
    /\ UNCHANGED <<sealed, net>>

-----------------------------------------------------------------------------
(* Faults                                                                  *)

\* channels.insert replaces the channel that is there.
Forget(c) ==
    /\ "forget" \in Faults
    /\ Has(c)
    /\ channel' = [channel EXCEPT ![c] = ChannelRecord(Owner, <<>>)]
    /\ UNCHANGED <<sealed, net>>

\* A restart with the memory of the MemIO intact.  MemIO::new sets slab_count
\* to 0; when open_chat fails the device is left without the channel.
Reopen(c) ==
    LET opened == Replay(c, [channel[c].storage EXCEPT !.slab_count = 0]) IN
    /\ "reopen" \in Faults
    /\ Has(c)
    /\ channel' = [channel EXCEPT ![c] = IF opened.ok THEN opened.channel ELSE Absent]
    /\ UNCHANGED <<sealed, net>>

-----------------------------------------------------------------------------

DeviceNext ==
    \/ \E id \in EnvelopeId : InitChat(id)
    \/ \E c \in Node : AddChannel(c)
    \/ \E c \in Node, id \in EnvelopeId, fits \in BOOLEAN : SendMessage(c, id, fits)
    \/ \E c \in Node, n \in Node, id \in EnvelopeId : AddNode(c, n, id)
    \/ \E c \in Node : Forget(c)
    \/ \E c \in Node : Reopen(c)

NetworkNext ==
    \/ \E c \in Node : SendRequest(c)
    \/ \E r \in Node, m \in net : Respond(r, m)
    \/ \E c \in Node, m \in net : Deliver(c, m)
    \/ \E m \in net : Lose(m)

Next == DeviceNext \/ NetworkNext

Spec == Init /\ [][Next]_vars

\* A later start: the owner has created the channel and added Members, every
\* device has joined and has synchronised with it.
Created == Processed(ChannelRecord(Owner, <<>>),
                     Seal(ChannelRecord(Owner, <<>>), Owner, NewChannel(Owner), 1), TRUE).channel

WithNode(ch, n) == Processed(ch, Seal(ch, Owner, AddUser(n), 1), TRUE).channel

Established ==
    \E added \in SetToSeqs(Members) :
        LET owners == FoldLeft(WithNode, Created, added)
            log    == [i \in 1 .. owners.storage.slab_count |-> owners.storage.slabs[i].data]
        IN  /\ channel = [c \in Node |->
                   IF c = Owner THEN owners
                   ELSE ReceiveBuffer(ChannelRecord(Owner, <<>>), log).channel]
            /\ sealed = ToSet(log)
            /\ net = {}

EstablishedSpec == Established /\ [][Next]_vars

\* Devices that meet exchange as the test runner does.
MeetingNext == DeviceNext \/ \E c \in Node : \E r \in Node \ {c} : Sync(c, r)

\* Every two devices keep meeting.
Meetings == \A c \in Node : \A r \in Node \ {c} : WF_vars(Sync(c, r))

MeetingSpec == Init /\ [][MeetingNext]_vars /\ Meetings

EstablishedMeetingSpec == Established /\ [][MeetingNext]_vars

-----------------------------------------------------------------------------
(* Safety                                                                  *)

Before(log, i) == {log[j] : j \in 1 .. i - 1}

SentBy(n, envelopes) == {e \in envelopes : e.from = n}

\* Any two devices hold the messages of one sender in the same order without
\* gaps: what one holds of them is the first part of what the other holds, and
\* a message has the same ones of its sender before it wherever it is stored.
ConsistentSenderOrder ==
    \A c, d \in Node :
        LET mine   == Log(c)
            theirs == Log(d)
        IN  /\ \A n \in Node :
                  \/ SentBy(n, ToSet(mine)) \subseteq SentBy(n, ToSet(theirs))
                  \/ SentBy(n, ToSet(theirs)) \subseteq SentBy(n, ToSet(mine))
            /\ \A i \in DOMAIN mine, j \in DOMAIN theirs :
                  mine[i] = theirs[j] =>
                      SentBy(mine[i].from, Before(mine, i)) = SentBy(mine[i].from, Before(theirs, j))

\* Where a message is stored, everything its sender had stored when it sent it
\* is stored before it, although a message names one cause only.
CausalDelivery ==
    \A c \in Node : \A i \in DOMAIN Log(c) :
        LET d == Log(c)[i].from IN
        \A k \in DOMAIN Log(d) :
            Log(d)[k] = Log(c)[i] => Before(Log(d), k) \subseteq Before(Log(c), i)

\* The message a stored one names as its cause, or a later one of that node, is
\* stored before it, whoever the response it came in was for.
CauseDelivered ==
    \A c \in Node : \A i \in DOMAIN Log(c) :
        LET m == Log(c)[i] IN
        CauseTarget(m) # 0 =>
            \E e \in Before(Log(c), i) :
                e.from = m.cause /\ e.sequence >= CauseTarget(m)

\* What a device keeps in memory is what its records say: every change of
\* memory has its record, so replaying the records gives the memory back.
MemoryMatchesRecords ==
    \A c \in Node : Has(c) =>
        LET replayed == Replay(Owner, channel[c].storage) IN
        /\ replayed.ok
        /\ replayed.channel.state = channel[c].state
        /\ replayed.channel.chat = channel[c].chat

\* No envelope of a response stops receive_buffer of the device that asked, no
\* matter how late, how often and in which order responses arrive.
ResponsesAreReceivable ==
    \A m \in net : m.type = "response" /\ Has(m.session) =>
        ReceiveBuffer(channel[m.session], m.data).ok

\* One exchange with room for every record fills every gap: afterwards the
\* requester has all that the responder has, and where the responder finds
\* nothing to start from the requester has it already.
OneExchangeSyncs ==
    \A c, r \in Node : Has(c) /\ Has(r) =>
        LET clock  == FinishSyncRequest(channel[c])
            synced == ReceiveBuffer(channel[c], Response(channel[r], clock))
        IN  IF CanRespond(channel[r], clock)
            THEN /\ synced.ok
                 /\ ToSet(Log(r)) \subseteq
                        {record.data : record \in ToSet(synced.channel.storage.slabs)}
            ELSE ToSet(Log(r)) \subseteq ToSet(Log(c))

Texts(log, i) == {j \in 1 .. i : log[j].data = ChatMessage}

\* message_count texts can be read, each under an index of its own, in the order
\* in which they were stored.
MessagesReadable ==
    \A c \in Node : Has(c) =>
        LET log == Log(c) IN
        /\ channel[c].chat.message_count = Cardinality(Texts(log, Len(log)))
        /\ \A i \in DOMAIN log :
              log[i].data = ChatMessage =>
                  GetMessage(channel[c], Cardinality(Texts(log, i))) = log[i]

\* A device never loses or rewrites a message it stored.
StoredForGood ==
    [][\A c \in Node : IsPrefix(Log(c), Log(c)')]_vars

\* The users a device takes messages from are the nodes it keeps sequences of,
\* although two lists are kept and AddUser extends one before it may fail on
\* the other.
UsersAreNodes ==
    \A c \in Node : Has(c) /\ channel[c].chat.owner # NoOwner =>
        channel[c].chat.users = DOMAIN channel[c].state.nodes

ChannelOf(c) ==
    INSTANCE Channel WITH nodes <- channel[c].state.nodes, newest <- channel[c].state.newest

\* What Channel shows of one ChannelState still holds of each device's, when
\* records are stored, lost and replayed around it: the newest node holds the
\* largest sequence, and a device can go on from it with a message of its own.
ChannelsSound ==
    \A c \in Node : Has(c) =>
        ChannelOf(c)!NewestIsMax /\ ChannelOf(c)!OwnMessageAccepted

\* A device that restarts can open its channel and read every text it stored.
ReopenKeepsMessages ==
    \A c \in Node : Has(c) =>
        LET texts  == SelectSeq(Log(c), LAMBDA e : e.data = ChatMessage)
            opened == Replay(c, [channel[c].storage EXCEPT !.slab_count = 0])
        IN  texts # <<>> =>
                /\ opened.ok
                /\ \A i \in 1 .. Len(texts) : GetMessage(opened.channel, i) = texts[i]

-----------------------------------------------------------------------------
(* Refinement                                                              *)

StampOf(e) == <<e.from, e.sequence>>

StampsOf(envelopes) == {StampOf(e) : e \in envelopes}

\* What is before a message in a log: in that of its sender, what the sender had
\* stored when it sealed the message.
PastIn(log, stamp) ==
    StampsOf(Before(log, SelectInSeq(log, LAMBDA e : StampOf(e) = stamp)))

History ==
    INSTANCE CausalHistory WITH
        Stamp <- Sequence,
        known <- [c \in Node |-> StampsOf(ToSet(Log(c)))],
        past  <- [stamp \in StampsOf(sealed) |-> PastIn(Log(stamp[1]), stamp)]

\* Without faults the devices implement CausalHistory: sealing a message is a
\* Send, processing a response is a Learn, and the network is invisible.  This is
\* History!Spec, in a form that lets TLC pass over the steps of the network.
ImplementsHistory ==
    /\ History!Init
    /\ [][UNCHANGED <<channel, sealed>> \/ [History!Next]_(History!vars)]_vars

-----------------------------------------------------------------------------
(* Liveness                                                                *)

UpToDate(d) == \A c \in Node : ToSet(Log(c)) \subseteq ToSet(Log(d))

\* Devices that keep meeting in pairs come to have every message any of them
\* has, without a coordinator and whoever meets whom first.
Delivered == \A d \in Node : []<>(Has(d) => UpToDate(d))
=============================================================================
