-------------------------- MODULE ReplicationProofs --------------------------
(***************************************************************************)
(* The devices of one channel, for any number of them, any bounds and any  *)
(* messages.                                                               *)
(*                                                                         *)
(* - SafeInv holds under every fault: what a channel and a message are.    *)
(* - Replicated holds without faults: each device remembers exactly the    *)
(*   envelopes it stored, no gaps in those of one sender, and what is in   *)
(*   flight for it can be stored whenever it arrives.                      *)
(* - Causal holds if devices do not overhear either: whoever stores an     *)
(*   envelope stored before it all that its sender had.  Each step passes, *)
(*   seals or takes in (StepKind), which gives Causal and CausalHistory.   *)
(***************************************************************************)
EXTENDS Replication, FiniteSetTheorems, TLAPS

USE MaxNodesAssumption, MaxSequenceAssumption, NoOwnerAssumption, MaxSlabsAssumption,
    BufferRecordsAssumption, OwnerAssumption, EnvelopeIdAssumption, AbsentAssumption

-----------------------------------------------------------------------------
(* Whatever the faults: what every channel and every message in flight is  *)

\* Nobody but the owner seals a NewChannel, and it names the owner.
Sealable ==
    {e \in Envelope : e.data.kind = "NewChannel" => e.from = Owner /\ e.data.user = Owner}

StateSound(state) ==
    /\ IsFiniteSet(DOMAIN state.nodes)
    /\ Cardinality(DOMAIN state.nodes) <= MaxNodes
    /\ state.newest \in DOMAIN state.nodes
    /\ \A n \in DOMAIN state.nodes :
          \/ state.nodes[n].sequence < state.nodes[state.newest].sequence
          \/ /\ state.nodes[n].sequence = state.nodes[state.newest].sequence
             /\ state.nodes[n].id <= state.nodes[state.newest].id

\* The two lists of members agree from the moment the owner is known.
MembersSound(ch) ==
    \/ /\ ch.chat.owner = NoOwner
       /\ ch.chat.users = {}
       /\ Owner \in DOMAIN ch.state.nodes => DOMAIN ch.state.nodes = {Owner}
    \/ /\ ch.chat.owner = Owner
       /\ ch.chat.users = DOMAIN ch.state.nodes

StorageSound(storage) ==
    /\ storage.slab_count <= Len(storage.slabs)
    /\ Len(storage.slabs) <= MaxSlabs
    /\ \A i \in DOMAIN storage.slabs : storage.slabs[i].data \in Sealable

Sound(ch) ==
    /\ ch \in ChannelType
    /\ StateSound(ch.state)
    /\ MembersSound(ch)
    /\ StorageSound(ch.storage)

-----------------------------------------------------------------------------
(* Lemmas about the operators of ClientOps                                 *)

\* The parts of a channel.
LEMMA Parts ==
  ASSUME NEW ch \in ChannelType
  PROVE  /\ ch = [state |-> ch.state, chat |-> ch.chat, storage |-> ch.storage]
         /\ ch.state = [nodes |-> ch.state.nodes, newest |-> ch.state.newest]
         /\ DOMAIN ch.state.nodes \subseteq Node
         /\ ch.state.nodes \in [DOMAIN ch.state.nodes -> NodeSequence]
         /\ ch.state.newest \in Node
         /\ ch.chat \in [owner: Node \cup {NoOwner}, users: SUBSET Node, message_count: Nat]
         /\ ch.storage \in [slabs: Seq(Record), slab_count: Nat]
         /\ ch.storage.slabs \in Seq(Record)
         /\ ch.storage.slab_count \in Nat
<1>1. /\ ch.state \in [nodes: UNION {[known -> NodeSequence] : known \in SUBSET Node}, newest: Node]
      /\ ch.chat \in [owner: Node \cup {NoOwner}, users: SUBSET Node, message_count: Nat]
      /\ ch.storage \in [slabs: Seq(Record), slab_count: Nat]
      /\ ch = [state |-> ch.state, chat |-> ch.chat, storage |-> ch.storage]
  BY DEF ChannelType
<1>2. PICK known \in SUBSET Node : ch.state.nodes \in [known -> NodeSequence]
  BY <1>1
<1> QED BY <1>1, <1>2

\* Numbers of a record of a node.
LEMMA Numbers ==
  ASSUME NEW record \in NodeSequence
  PROVE  /\ record = [id |-> record.id, sequence |-> record.sequence,
                      first_sequence |-> record.first_sequence]
         /\ record.id \in Nat
         /\ record.sequence \in Nat /\ record.sequence <= MaxSequence
         /\ record.first_sequence \in Nat /\ record.first_sequence <= MaxSequence
  BY DEF NodeSequence, Sequence

\* The fields of an envelope.
LEMMA Fields ==
  ASSUME NEW e \in Envelope
  PROVE  /\ e.from \in Node /\ e.cause \in Node
         /\ e.sender_last \in Nat /\ e.sender_last <= MaxSequence
         /\ e.sequence \in Nat /\ e.sequence <= MaxSequence
         /\ e.id \in Nat
         /\ e.data \in Payload(Node)
  BY DEF Envelope, Sequence

\* The kinds of a payload.
LEMMA Kinds ==
  ASSUME NEW data \in Payload(Node)
  PROVE  \/ data.kind = "NewChannel" /\ data.user \in Node /\ data = NewChannel(data.user)
         \/ data.kind = "AddUser" /\ data.user \in Node /\ data = AddUser(data.user)
         \/ data.kind = "ChatMessage" /\ data = ChatMessage
  BY DEF Payload, NewChannel, AddUser, ChatMessage

\* What state.receive leaves behind, where the message passed check_receive.
LEMMA ReceivedSound ==
  ASSUME NEW ch, Sound(ch), NEW e \in Envelope, CheckReceive(ch.state.nodes, e.from, e)
  PROVE  LET nodes    == ch.state.nodes
             received == ReceivedNodes(nodes, e.from, e)
             newest   == ReceivedNewest(nodes, ch.state.newest, e.from, e)
         IN  /\ e.from \in DOMAIN nodes
             /\ nodes[e.from].sequence < e.sequence
             /\ DOMAIN received = DOMAIN nodes
             /\ received \in [DOMAIN nodes -> NodeSequence]
             /\ received[e.from].sequence = e.sequence
             /\ received[e.from].id = e.id
             /\ received[e.from].first_sequence =
                   IF nodes[e.from].first_sequence = 0 THEN e.sequence
                   ELSE nodes[e.from].first_sequence
             /\ \A n \in DOMAIN nodes : n # e.from => received[n] = nodes[n]
             /\ newest \in DOMAIN nodes
             /\ \A n \in DOMAIN nodes :
                   \/ received[n].sequence < received[newest].sequence
                   \/ /\ received[n].sequence = received[newest].sequence
                      /\ received[n].id <= received[newest].id
             /\ received[newest].sequence = ReceivedMax(nodes, ch.state.newest, e)
<1> DEFINE nodes    == ch.state.nodes
           received == ReceivedNodes(nodes, e.from, e)
           newest   == ReceivedNewest(nodes, ch.state.newest, e.from, e)
<1>1. ch \in ChannelType /\ StateSound(ch.state)
  BY DEF Sound
<1>2. /\ nodes \in [DOMAIN nodes -> NodeSequence] /\ ch.state.newest \in DOMAIN nodes
      /\ e.from \in DOMAIN nodes /\ ~AlreadyReceived(nodes, e.from, e)
  BY <1>1, Parts DEF StateSound, CheckReceive
<1>3. \A n \in DOMAIN nodes : /\ nodes[n] \in NodeSequence
                              /\ nodes[n].sequence \in Nat /\ nodes[n].id \in Nat
  BY <1>2, Numbers
<1>4. nodes[e.from].sequence < e.sequence /\ e.sequence \in Nat /\ e.id \in Nat /\ e.sequence <= MaxSequence
  BY <1>2, <1>3, Fields DEF AlreadyReceived
<1>5. /\ DOMAIN received = DOMAIN nodes
      /\ received[e.from] = [id |-> e.id, sequence |-> e.sequence,
                             first_sequence |-> IF nodes[e.from].first_sequence = 0 THEN e.sequence
                                                ELSE nodes[e.from].first_sequence]
      /\ \A n \in DOMAIN nodes : n # e.from => received[n] = nodes[n]
  BY <1>2 DEF ReceivedNodes
<1>6. received[e.from] \in NodeSequence
  BY <1>2, <1>3, <1>4, <1>5 DEF NodeSequence, Sequence
<1>7. received \in [DOMAIN nodes -> NodeSequence]
  <2>1. received = [n \in DOMAIN nodes |-> received[n]]
    BY <1>2 DEF ReceivedNodes
  <2>2. \A n \in DOMAIN nodes : received[n] \in NodeSequence
    BY <1>3, <1>5, <1>6
  <2> HIDE DEF received
  <2> QED BY <2>1, <2>2
<1>8. newest \in DOMAIN nodes
  BY <1>2 DEF ReceivedNewest
<1>9. \A n \in DOMAIN nodes :
          \/ nodes[n].sequence < nodes[ch.state.newest].sequence
          \/ /\ nodes[n].sequence = nodes[ch.state.newest].sequence
             /\ nodes[n].id <= nodes[ch.state.newest].id
  BY <1>1 DEF StateSound
<1>10. /\ \A n \in DOMAIN nodes :
             \/ received[n].sequence < received[newest].sequence
             \/ /\ received[n].sequence = received[newest].sequence
                /\ received[n].id <= received[newest].id
       /\ received[newest].sequence = ReceivedMax(nodes, ch.state.newest, e)
  <2> HIDE DEF received, nodes
  <2>1. CASE IsNewer(nodes[ch.state.newest], e)
    <3>1. newest = e.from /\ ReceivedMax(nodes, ch.state.newest, e) = e.sequence
      BY <2>1 DEF ReceivedNewest, ReceivedMax, nodes
    <3> HIDE DEF newest
    <3> QED BY <1>2, <1>3, <1>4, <1>5, <1>9, <2>1, <3>1 DEF IsNewer
  <2>2. CASE ~IsNewer(nodes[ch.state.newest], e)
    <3>1. /\ newest = ch.state.newest
          /\ ReceivedMax(nodes, ch.state.newest, e) = nodes[ch.state.newest].sequence
      BY <2>2 DEF ReceivedNewest, ReceivedMax, nodes
    <3>2. e.from # ch.state.newest
      BY <1>4, <2>2 DEF IsNewer
    <3> HIDE DEF newest
    <3> QED BY <1>2, <1>3, <1>4, <1>5, <1>9, <2>2, <3>1, <3>2 DEF IsNewer
  <2> QED BY <2>1, <2>2
<1> HIDE DEF received, newest
<1>11. /\ received[e.from].sequence = e.sequence
       /\ received[e.from].id = e.id
       /\ received[e.from].first_sequence = IF nodes[e.from].first_sequence = 0 THEN e.sequence
                                                 ELSE nodes[e.from].first_sequence
  BY <1>5
<1>12. e.from \in DOMAIN nodes /\ nodes[e.from].sequence < e.sequence
  BY <1>2, <1>4
<1>13. /\ DOMAIN received = DOMAIN nodes
       /\ \A n \in DOMAIN nodes : n # e.from => received[n] = nodes[n]
  BY <1>5
<1> QED BY ZenonT(60), <1>7, <1>8, <1>10, <1>11, <1>12, <1>13 DEF nodes, received, newest

\* What state.add_node leaves behind is sound as well.
LEMMA AddedSound ==
  ASSUME NEW nodes, NEW n \in Node, DOMAIN nodes \subseteq Node,
         nodes \in [DOMAIN nodes -> NodeSequence], IsFiniteSet(DOMAIN nodes),
         CanAddNode(nodes, n)
  PROVE  LET added == AddedNode(nodes, n) IN
         /\ DOMAIN added = DOMAIN nodes \cup {n}
         /\ added \in [DOMAIN nodes \cup {n} -> NodeSequence]
         /\ IsFiniteSet(DOMAIN nodes \cup {n})
         /\ Cardinality(DOMAIN nodes \cup {n}) <= MaxNodes
         /\ added[n] = Unheard
         /\ \A k \in DOMAIN nodes : added[k] = nodes[k]
<1>1. DOMAIN AddedNode(nodes, n) = DOMAIN nodes \cup {n}
  BY DEF AddedNode
<1>2. /\ IsFiniteSet(DOMAIN nodes \cup {n})
      /\ Cardinality(DOMAIN nodes \cup {n}) = Cardinality(DOMAIN nodes) + 1
  BY FS_AddElement DEF CanAddNode
<1>3. Cardinality(DOMAIN nodes) \in Nat /\ Cardinality(DOMAIN nodes) < MaxNodes
  BY FS_CardinalityType DEF CanAddNode
<1>4. Unheard \in NodeSequence
  BY DEF Unheard, NodeSequence, NoEnvelope, Sequence
<1>5. AddedNode(nodes, n) \in [DOMAIN nodes \cup {n} -> NodeSequence]
  BY <1>4 DEF AddedNode
<1>6. n \notin DOMAIN nodes
  BY DEF CanAddNode
<1>7. AddedNode(nodes, n)[n] = Unheard /\ \A k \in DOMAIN nodes : AddedNode(nodes, n)[k] = nodes[k]
  BY <1>6 DEF AddedNode
<1> QED BY <1>1, <1>2, <1>3, <1>5, <1>7

\* The nodes after an envelope: AddUser may have added one.
LEMMA StateAfter ==
  ASSUME NEW ch, Sound(ch), NEW e \in Envelope, CheckReceive(ch.state.nodes, e.from, e)
  PROVE  LET state == ReceivedState(ch.state, e)
             adds  == /\ e.data.kind = "AddUser"
                      /\ CanAddNode(ch.state.nodes, e.data.user)
         IN  /\ state = [nodes |-> state.nodes, newest |-> state.newest]
             /\ StateSound(state)
             /\ DOMAIN state.nodes \subseteq Node
             /\ state.nodes \in [DOMAIN state.nodes -> NodeSequence]
             /\ DOMAIN state.nodes = DOMAIN ch.state.nodes \cup (IF adds THEN {e.data.user} ELSE {})
             /\ adds => state.nodes[e.data.user] = Unheard
             /\ \A n \in DOMAIN ch.state.nodes : n # e.from => state.nodes[n] = ch.state.nodes[n]
             /\ e.from \in DOMAIN ch.state.nodes
             /\ state.nodes[e.from].sequence = e.sequence
             /\ state.nodes[e.from].id = e.id
             /\ state.nodes[e.from].first_sequence =
                   IF ch.state.nodes[e.from].first_sequence = 0 THEN e.sequence
                   ELSE ch.state.nodes[e.from].first_sequence
             /\ state.nodes[state.newest].sequence = ReceivedMax(ch.state.nodes, ch.state.newest, e)
<1> DEFINE nodes    == ch.state.nodes
           received == ReceivedNodes(nodes, e.from, e)
           newest   == ReceivedNewest(nodes, ch.state.newest, e.from, e)
           state    == ReceivedState(ch.state, e)
           adds     == e.data.kind = "AddUser" /\ CanAddNode(nodes, e.data.user)
<1>1. /\ e.from \in DOMAIN nodes
      /\ DOMAIN received = DOMAIN nodes
      /\ received \in [DOMAIN nodes -> NodeSequence]
      /\ received[e.from].sequence = e.sequence
      /\ received[e.from].id = e.id
      /\ received[e.from].first_sequence =
            IF nodes[e.from].first_sequence = 0 THEN e.sequence
            ELSE nodes[e.from].first_sequence
      /\ \A n \in DOMAIN nodes : n # e.from => received[n] = nodes[n]
      /\ newest \in DOMAIN nodes
      /\ \A n \in DOMAIN nodes :
            \/ received[n].sequence < received[newest].sequence
            \/ /\ received[n].sequence = received[newest].sequence
               /\ received[n].id <= received[newest].id
      /\ received[newest].sequence = ReceivedMax(nodes, ch.state.newest, e)
  BY ReceivedSound
<1>2. ch \in ChannelType /\ IsFiniteSet(DOMAIN nodes) /\ Cardinality(DOMAIN nodes) <= MaxNodes
  BY DEF Sound, StateSound
<1>3. DOMAIN nodes \subseteq Node
  BY <1>2, Parts
<1>4. adds = (e.data.kind = "AddUser" /\ CanAddNode(received, e.data.user))
  BY <1>1 DEF CanAddNode
<1>5. state = [nodes |-> IF adds THEN AddedNode(received, e.data.user) ELSE received,
               newest |-> newest]
  BY <1>4 DEF ReceivedState
<1>6. e.data.kind = "AddUser" => e.data.user \in Node
  BY Fields, Kinds
<1> HIDE DEF received, newest, nodes
<1>7. CASE ~adds
  <2>1. state.nodes = received /\ state.newest = newest
    BY <1>5, <1>7
  <2>2. StateSound(state)
    BY <1>1, <1>2, <2>1 DEF StateSound
  <2> QED BY <1>1, <1>3, <1>5, <1>7, <2>1, <2>2 DEF nodes
<1>8. CASE adds
  <2> DEFINE added == AddedNode(received, e.data.user)
  <2>1. state.nodes = added /\ state.newest = newest
    BY <1>5, <1>8
  <2>2. CanAddNode(received, e.data.user) /\ e.data.user \in Node
    BY <1>4, <1>6, <1>8
  <2>3. /\ DOMAIN added = DOMAIN nodes \cup {e.data.user}
        /\ added \in [DOMAIN nodes \cup {e.data.user} -> NodeSequence]
        /\ IsFiniteSet(DOMAIN nodes \cup {e.data.user})
        /\ Cardinality(DOMAIN nodes \cup {e.data.user}) <= MaxNodes
        /\ added[e.data.user] = Unheard
        /\ \A k \in DOMAIN nodes : added[k] = received[k]
    <3>1. /\ DOMAIN received \subseteq Node
          /\ received \in [DOMAIN received -> NodeSequence]
          /\ IsFiniteSet(DOMAIN received)
      BY <1>1, <1>2, <1>3
    <3>2. /\ DOMAIN added = DOMAIN received \cup {e.data.user}
          /\ added \in [DOMAIN received \cup {e.data.user} -> NodeSequence]
          /\ IsFiniteSet(DOMAIN received \cup {e.data.user})
          /\ Cardinality(DOMAIN received \cup {e.data.user}) <= MaxNodes
          /\ added[e.data.user] = Unheard
          /\ \A k \in DOMAIN received : added[k] = received[k]
      BY <2>2, <3>1, AddedSound
    <3> HIDE DEF added
    <3> QED BY <1>1, <3>2
  <2> HIDE DEF added, adds, state
  <2>4. StateSound(state)
    <3> SUFFICES ASSUME NEW n \in DOMAIN nodes \cup {e.data.user}
                 PROVE  \/ added[n].sequence < added[newest].sequence
                        \/ /\ added[n].sequence = added[newest].sequence
                           /\ added[n].id <= added[newest].id
      BY <1>1, <2>1, <2>3 DEF StateSound
    <3>1. added[newest] = received[newest] /\ received[newest] \in NodeSequence
      BY <1>1, <2>3
    <3>2. CASE n \in DOMAIN nodes
      BY <1>1, <2>3, <3>1, <3>2
    <3>3. CASE n \notin DOMAIN nodes
      <4>1. added[n].sequence = 0 /\ added[n].id = 0
        BY <2>3, <3>3 DEF Unheard, NoEnvelope
      <4> QED BY <3>1, <4>1, Numbers
    <3> QED BY <3>2, <3>3
  <2>5. state = [nodes |-> state.nodes, newest |-> state.newest]
    BY <1>5 DEF state
  <2>6. DOMAIN nodes \cup {e.data.user} \subseteq Node
    BY <1>3, <2>2
  <2>7. newest \in DOMAIN nodes /\ added[newest] = received[newest] /\ added[e.from] = received[e.from]
    BY <1>1, <2>3
  <2> QED BY <1>1, <1>8, <2>1, <2>3, <2>4, <2>5, <2>6, <2>7 DEF nodes, adds, state
<1> QED BY <1>7, <1>8

\* AddUser either adds a member to both lists or is of a member already.
LEMMA InMemorySound ==
  ASSUME NEW ch, Sound(ch), NEW e \in Sealable, Acceptable(ch, e)
  PROVE  /\ Sound(InMemory(ch, e))
         /\ InMemory(ch, e).chat.owner # NoOwner
<1> DEFINE after == InMemory(ch, e)
           nodes == ch.state.nodes
           users == ch.chat.users
<1>1. ch \in ChannelType /\ MembersSound(ch) /\ StorageSound(ch.storage)
  BY DEF Sound
<1>2. e \in Envelope /\ (e.data.kind = "NewChannel" => e.from = Owner /\ e.data.user = Owner)
  BY DEF Sealable
<1>3. CheckReceive(nodes, e.from, e) /\ Accepts(ch.chat, e.from, e.data)
  BY DEF Acceptable
<1>4. after = [state |-> ReceivedState(ch.state, e), chat |-> Accepted(ch.chat, e.data),
               storage |-> ch.storage]
  BY DEF InMemory
<1> DEFINE adds == e.data.kind = "AddUser" /\ CanAddNode(nodes, e.data.user)
<1>5. /\ after.state = [nodes |-> after.state.nodes, newest |-> after.state.newest]
      /\ StateSound(after.state)
      /\ DOMAIN after.state.nodes \subseteq Node
      /\ after.state.nodes \in [DOMAIN after.state.nodes -> NodeSequence]
      /\ DOMAIN after.state.nodes = DOMAIN nodes \cup (IF adds THEN {e.data.user} ELSE {})
      /\ e.from \in DOMAIN nodes
  BY <1>2, <1>3, <1>4, StateAfter
<1>6. after.state \in [nodes: UNION {[known -> NodeSequence] : known \in SUBSET Node}, newest: Node]
  BY <1>5 DEF StateSound
<1>7. ch.chat \in [owner: Node \cup {NoOwner}, users: SUBSET Node, message_count: Nat]
  BY <1>1, Parts
<1>8. after.chat \in [owner: Node \cup {NoOwner}, users: SUBSET Node, message_count: Nat]
  BY <1>2, <1>4, <1>7, Fields, Kinds
     DEF Accepted, OwnerAfter, UsersAfter, MessageCountAfter
<1>9. after \in ChannelType
  BY <1>1, <1>4, <1>6, <1>8, Parts DEF ChannelType
<1>10. /\ after.chat.owner = OwnerAfter(ch.chat, e.data)
       /\ after.chat.users = UsersAfter(ch.chat, e.data)
  BY <1>4 DEF Accepted
<1> HIDE DEF after
<1>11. MembersSound(after) /\ after.chat.owner # NoOwner
  <2>1. CASE e.data.kind = "NewChannel"
    <3>1. after.chat.owner = Owner /\ after.chat.users = users \cup {Owner} /\ e.from = Owner
      BY <1>2, <1>10, <2>1 DEF OwnerAfter, UsersAfter
    <3>2. DOMAIN after.state.nodes = DOMAIN nodes
      BY <1>5, <2>1
    <3>3. users \cup {Owner} = DOMAIN nodes
      BY <1>1, <1>5, <3>1 DEF MembersSound
    <3> QED BY <3>1, <3>2, <3>3 DEF MembersSound
  <2>2. CASE e.data.kind = "AddUser"
    <3>1. /\ e.from = ch.chat.owner /\ CanAddUser(users, e.data.user)
          /\ after.chat.owner = ch.chat.owner /\ after.chat.users = users \cup {e.data.user}
      BY <1>3, <1>10, <2>2 DEF Accepts, OwnerAfter, UsersAfter
    <3>2. ch.chat.owner = Owner /\ users = DOMAIN nodes
      BY <1>1, <1>2, <3>1, Fields DEF MembersSound
    <3>3. adds \/ e.data.user \in DOMAIN nodes
      BY <2>2, <3>1, <3>2 DEF CanAddUser, CanAddNode
    <3> QED BY <1>5, <3>1, <3>2, <3>3 DEF MembersSound
  <2>3. CASE e.data.kind = "ChatMessage"
    <3>1. /\ e.from \in users /\ after.chat.owner = ch.chat.owner /\ after.chat.users = users
      BY <1>3, <1>10, <2>3 DEF Accepts, OwnerAfter, UsersAfter
    <3>2. DOMAIN after.state.nodes = DOMAIN nodes
      BY <1>5, <2>3
    <3> QED BY <1>1, <3>1, <3>2 DEF MembersSound
  <2> QED BY <1>2, <2>1, <2>2, <2>3, Fields, Kinds
<1>12. after.storage = ch.storage
  BY <1>4 DEF after
<1> QED BY <1>1, <1>5, <1>9, <1>11, <1>12 DEF Sound, after

\* A record is written within the memory.
LEMMA WrittenSound ==
  ASSUME NEW storage \in [slabs: Seq(Record), slab_count: Nat], StorageSound(storage),
         NEW record \in Record, record.data \in Sealable, storage.slab_count < MaxSlabs
  PROVE  LET after == Written(storage, record) IN
         /\ after \in [slabs: Seq(Record), slab_count: Nat]
         /\ StorageSound(after)
         /\ after.slab_count = storage.slab_count + 1
         /\ after.slabs[after.slab_count] = record
         /\ \A i \in 1 .. Len(storage.slabs) :
               i # after.slab_count => i \in DOMAIN after.slabs /\ after.slabs[i] = storage.slabs[i]
         /\ storage.slab_count = Len(storage.slabs) => after.slab_count = Len(after.slabs)
<1> DEFINE slabs == storage.slabs
           count == storage.slab_count
           after == Written(storage, record)
<1>1. slabs \in Seq(Record) /\ count \in Nat /\ count <= Len(slabs) /\ Len(slabs) <= MaxSlabs
  BY DEF StorageSound
<1>2. after.slab_count = count + 1 /\ after = [slabs |-> after.slabs, slab_count |-> after.slab_count]
  BY DEF Written
<1>3. \A i \in DOMAIN slabs : slabs[i].data \in Sealable
  BY DEF StorageSound
<1>4. CASE count + 1 <= Len(slabs)
  <2>1. after.slabs = [slabs EXCEPT ![count + 1] = record]
    BY <1>4 DEF Written
  <2>2. after.slabs \in Seq(Record) /\ Len(after.slabs) = Len(slabs)
    BY <1>1, <1>4, <2>1
  <2>3. \A i \in 1 .. Len(slabs) : after.slabs[i] = IF i = count + 1 THEN record ELSE slabs[i]
    BY <1>1, <2>1
  <2> HIDE DEF after
  <2>4. StorageSound(after)
    <3>1. DOMAIN slabs = 1 .. Len(slabs) /\ DOMAIN after.slabs = 1 .. Len(slabs)
      BY <1>1, <2>2
    <3>2. \A i \in DOMAIN after.slabs : after.slabs[i].data \in Sealable
      BY <1>3, <2>3, <3>1
    <3> QED BY <1>1, <1>2, <1>4, <2>2, <3>2 DEF StorageSound
  <2>5. after.slabs[after.slab_count] = record
    BY <1>1, <1>2, <1>4, <2>3
  <2> QED BY <1>1, <1>2, <1>4, <2>2, <2>3, <2>4, <2>5 DEF after
<1>5. CASE ~(count + 1 <= Len(slabs))
  <2>1. after.slabs = Append(slabs, record) /\ count = Len(slabs)
    BY <1>1, <1>5 DEF Written
  <2>2. after.slabs \in Seq(Record) /\ Len(after.slabs) = count + 1
    BY <1>1, <2>1
  <2>3. /\ after.slabs[count + 1] = record
        /\ \A i \in 1 .. Len(slabs) : after.slabs[i] = slabs[i]
    BY <1>1, <2>1
  <2> HIDE DEF after
  <2>4. StorageSound(after)
    BY <1>1, <1>2, <1>3, <2>1, <2>2, <2>3 DEF StorageSound
  <2> QED BY SMTT(60), <1>1, <1>2, <2>1, <2>2, <2>3, <2>4 DEF after
<1> QED BY <1>4, <1>5

\* The record Stored writes.
NewRecord(ch, e) ==
    [max_sequence  |-> ReceivedMax(ch.state.nodes, ch.state.newest, e),
     message_count |-> MessageCountAfter(ch.chat, e.data),
     data          |-> e]

\* The channel with the record stored.
LEMMA StoredSound ==
  ASSUME NEW ch, Sound(ch), NEW e \in Sealable, Acceptable(ch, e),
         ch.storage.slab_count < MaxSlabs
  PROVE  /\ Sound(Stored(ch, e))
         /\ Stored(ch, e) = [state   |-> ReceivedState(ch.state, e),
                             chat    |-> Accepted(ch.chat, e.data),
                             storage |-> Written(ch.storage, NewRecord(ch, e))]
         /\ NewRecord(ch, e) \in Record
<1> DEFINE after == InMemory(ch, e)
<1>1. Sound(after)
  BY InMemorySound
<1>2. ch \in ChannelType /\ StorageSound(ch.storage)
  BY DEF Sound
<1>3. after = [state |-> ReceivedState(ch.state, e), chat |-> Accepted(ch.chat, e.data),
               storage |-> ch.storage]
  BY DEF InMemory
<1>4. e \in Envelope /\ CheckReceive(ch.state.nodes, e.from, e)
  BY DEF Sealable, Acceptable
<1>5. NewRecord(ch, e) \in Record
  <2>1. ReceivedMax(ch.state.nodes, ch.state.newest, e) \in Sequence
    <3> DEFINE state == ReceivedState(ch.state, e)
    <3>1. /\ StateSound(state)
          /\ state.nodes \in [DOMAIN state.nodes -> NodeSequence]
          /\ ReceivedMax(ch.state.nodes, ch.state.newest, e) = state.nodes[state.newest].sequence
      BY ZenonT(60), <1>4, StateAfter
    <3>2. state.nodes[state.newest] \in NodeSequence
      BY <3>1 DEF StateSound
    <3> QED BY <3>1, <3>2 DEF NodeSequence
  <2>2. MessageCountAfter(ch.chat, e.data) \in Nat
    <3>1. ch.chat \in [owner: Node \cup {NoOwner}, users: SUBSET Node, message_count: Nat]
      BY <1>2, Parts
    <3> QED BY <3>1 DEF MessageCountAfter
  <2> QED BY <1>4, <2>1, <2>2 DEF NewRecord, Record
<1>6. /\ Written(ch.storage, NewRecord(ch, e)) \in [slabs: Seq(Record), slab_count: Nat]
      /\ StorageSound(Written(ch.storage, NewRecord(ch, e)))
  <2>1. NewRecord(ch, e).data \in Sealable
    BY DEF NewRecord
  <2> QED BY <1>2, <1>5, <2>1, Parts, WrittenSound
<1>7. Stored(ch, e) = [after EXCEPT !.storage = Written(ch.storage, NewRecord(ch, e))]
  BY <1>3 DEF Stored, NewRecord
<1>8. Stored(ch, e) = [state   |-> ReceivedState(ch.state, e),
                       chat    |-> Accepted(ch.chat, e.data),
                       storage |-> Written(ch.storage, NewRecord(ch, e))]
  <2> HIDE DEF after
  <2> QED BY <1>3, <1>7
<1>9. Stored(ch, e) \in ChannelType
  BY <1>1, <1>3, <1>6, <1>8 DEF Sound, ChannelType
<1> HIDE DEF after
<1>10. /\ Stored(ch, e).state = after.state /\ Stored(ch, e).chat = after.chat
       /\ Stored(ch, e).storage = Written(ch.storage, NewRecord(ch, e))
  BY <1>3, <1>8
<1> QED BY <1>1, <1>5, <1>6, <1>8, <1>9, <1>10 DEF Sound, MembersSound

\* Processing an accepted envelope ends in a sound channel or a panic.
LEMMA ProcessedSound ==
  ASSUME NEW ch, Sound(ch), NEW e \in Sealable, Acceptable(ch, e), NEW fits \in BOOLEAN
  PROVE  /\ Processed(ch, e, fits).ok \in BOOLEAN
         /\ \/ Sound(Processed(ch, e, fits).channel)
            \/ Processed(ch, e, fits).channel = Halted /\ ~Processed(ch, e, fits).ok
<1>0. ch.storage.slab_count \in Nat
  BY Parts DEF Sound
<1>1. CASE AddNodeFails(ch, e)
  <2>1. Processed(ch, e, fits) = [channel |-> InMemory(ch, e), ok |-> FALSE]
    BY <1>1 DEF Processed
  <2> QED BY <2>1, InMemorySound
<1>2. CASE ~AddNodeFails(ch, e) /\ ch.storage.slab_count >= MaxSlabs
  <2>1. Processed(ch, e, fits) = [channel |-> Halted, ok |-> FALSE]
    BY <1>0, <1>2 DEF Processed
  <2> QED BY <2>1
<1>3. CASE ~AddNodeFails(ch, e) /\ ~(ch.storage.slab_count >= MaxSlabs)
  <2>1. ch.storage.slab_count < MaxSlabs
    BY <1>0, <1>3
  <2>2. CASE fits
    <3>1. Processed(ch, e, fits) = [channel |-> Stored(ch, e), ok |-> TRUE]
      BY <1>3, <2>1, <2>2 DEF Processed
    <3> QED BY <2>1, <3>1, StoredSound
  <2>3. CASE ~fits
    <3>1. Processed(ch, e, fits) = [channel |-> InMemory(ch, e), ok |-> FALSE]
      BY <1>3, <2>1, <2>3 DEF Processed
    <3> QED BY <3>1, InMemorySound
  <2> QED BY <2>2, <2>3
<1> QED BY <1>1, <1>2, <1>3

\* A channel that has just been made.
LEMMA InitialSound ==
  ASSUME NEW c \in Node, NEW slabs \in Seq(Record), Len(slabs) <= MaxSlabs,
         \A i \in DOMAIN slabs : slabs[i].data \in Sealable
  PROVE  Sound(ChannelRecord(c, slabs))
<1> DEFINE ch == ChannelRecord(c, slabs)
<1>1. /\ ch.state = [nodes |-> InitialNodes(c), newest |-> c]
      /\ ch.chat = NewChat
      /\ ch.storage = [slabs |-> slabs, slab_count |-> 0]
      /\ ch = [state |-> ch.state, chat |-> ch.chat, storage |-> ch.storage]
  BY DEF ChannelRecord
<1>2. DOMAIN InitialNodes(c) = {c} /\ InitialNodes(c)[c] = Unheard
  BY DEF InitialNodes
<1>3. Unheard \in NodeSequence
  BY DEF Unheard, NodeSequence, NoEnvelope, Sequence
<1>4. InitialNodes(c) \in [{c} -> NodeSequence] /\ {c} \in SUBSET Node
  BY <1>3 DEF InitialNodes
<1>5. ch.state \in [nodes: UNION {[known -> NodeSequence] : known \in SUBSET Node}, newest: Node]
  <2>1. InitialNodes(c) \in UNION {[known -> NodeSequence] : known \in SUBSET Node}
    BY <1>4
  <2> QED BY <1>1, <2>1
<1>6. ch.chat \in [owner: Node \cup {NoOwner}, users: SUBSET Node, message_count: Nat]
  BY <1>1 DEF NewChat
<1>7. ch.storage \in [slabs: Seq(Record), slab_count: Nat]
  BY <1>1
<1> HIDE DEF ch
<1>8. ch \in ChannelType
  BY <1>1, <1>5, <1>6, <1>7 DEF ChannelType
<1>9. StateSound(ch.state)
  <2>1. IsFiniteSet({c}) /\ Cardinality({c}) = 1
    BY FS_Singleton
  <2> QED BY <1>1, <1>2, <2>1 DEF StateSound, Unheard, NoEnvelope
<1>10. MembersSound(ch)
  BY <1>1, <1>2 DEF MembersSound, NewChat
<1>11. StorageSound(ch.storage)
  BY <1>1 DEF StorageSound
<1> QED BY <1>8, <1>9, <1>10, <1>11 DEF Sound, ch

\* The channel add_channel and init_chat start from.
LEMMA NewSound == Sound(ChannelRecord(Owner, <<>>))
<1>1. <<>> \in Seq(Record) /\ Len(<<>>) = 0 /\ DOMAIN <<>> = {}
  OBVIOUS
<1>2. Len(<<>>) <= MaxSlabs /\ \A i \in DOMAIN <<>> : <<>>[i].data \in Sealable
  BY <1>1
<1> QED BY <1>1, <1>2, InitialSound

\* What a sender seals is a new envelope of its own, at the end of its channel.
LEMMA SealFields ==
  ASSUME NEW ch, Sound(ch), NEW c \in DOMAIN ch.state.nodes, NEW data \in Payload(Node), NEW id \in Nat,
         LastSequence(ch.state.nodes, ch.state.newest, c) < MaxSequence
  PROVE  LET e == Seal(ch, c, data, id) IN
         /\ e \in Envelope
         /\ e.from = c /\ e.data = data /\ e.id = id
         /\ e.cause = ch.state.newest
         /\ e.sender_last = ch.state.nodes[c].sequence
         /\ e.sequence = ch.state.nodes[ch.state.newest].sequence + 1
<1> DEFINE e == Seal(ch, c, data, id)
           nodes == ch.state.nodes
<1>1. /\ nodes \in [DOMAIN nodes -> NodeSequence] /\ DOMAIN nodes \subseteq Node
      /\ ch.state.newest \in DOMAIN nodes
  BY Parts DEF Sound, StateSound
<1>2. \A n \in DOMAIN nodes : nodes[n] \in NodeSequence
  BY <1>1
<1>3. \A n \in DOMAIN nodes : nodes[n].sequence \in Nat /\ nodes[n].sequence <= MaxSequence
  BY <1>2, Numbers
<1>4. nodes[c].sequence <= nodes[ch.state.newest].sequence
  BY <1>1, <1>3 DEF Sound, StateSound
<1>5. LastSequence(nodes, ch.state.newest, c) = nodes[ch.state.newest].sequence
  BY <1>1, <1>3, <1>4 DEF LastSequence
<1>6. /\ e.from = c /\ e.data = data /\ e.id = id
      /\ e.cause = ch.state.newest
      /\ e.sender_last = nodes[c].sequence
      /\ e.sequence = nodes[ch.state.newest].sequence + 1
      /\ e = [from |-> e.from, cause |-> e.cause, sender_last |-> e.sender_last,
              sequence |-> e.sequence, id |-> e.id, data |-> e.data]
  BY <1>5 DEF Seal, Address
<1> HIDE DEF e
<1>7. e.sequence \in Sequence /\ e.sender_last \in Sequence
  BY <1>1, <1>3, <1>5, <1>6 DEF Sequence
<1>8. e \in Envelope
  BY <1>1, <1>6, <1>7 DEF Envelope
<1> QED BY <1>6, <1>8 DEF e

-----------------------------------------------------------------------------
(* Loops: receive_buffer, open_chat, and the search for a cursor           *)

\* A turn of receive_buffer, and of open_chat, as FoldInduction has them.
ReceiveTurn(p, progress, e) == ReceiveStep(progress, e, p.long)

ReplayTurn(p, progress, record) == ReplayNext(progress, record)

SoundProgress(p, turns, progress) ==
    /\ progress.ok \in BOOLEAN
    /\ \/ Sound(progress.channel)
       \/ progress.channel = Halted /\ ~progress.ok

Receiving == INSTANCE FoldInduction WITH Op <- ReceiveTurn, Kept <- SoundProgress

SoundReplay(p, turns, progress) == progress.ok \in BOOLEAN /\ Sound(progress.channel)

Replaying == INSTANCE FoldInduction WITH Op <- ReplayTurn, Kept <- SoundReplay

\* receive_buffer and ReceiveTurn handle one envelope in the same way.
LEMMA ReceiveStepIs ==
  ASSUME NEW progress, NEW e, NEW long
  PROVE  ReceiveStep(progress, e, long) = ReceiveNext(progress, e, long)
  BY DEF ReceiveStep

\* receive_buffer is a fold, with what every device panics at as its parameter.
LEMMA ReceiveIsFold ==
  ASSUME NEW ch, NEW envelopes, NEW long
  PROVE  ReceiveBufferWith(ch, envelopes, long) =
             Receiving!Fold([long |-> long], [channel |-> ch, ok |-> TRUE], envelopes)
  BY DEF ReceiveBufferWith, Receiving!Fold, ReceiveTurn, FoldLeft, Receiving!FoldLeft,
         MapThenFoldSet, Receiving!MapThenFoldSet, Max, Receiving!Max

\* The loop of open_chat is a fold that reads nothing but the records.
LEMMA ReplayIsFold ==
  ASSUME NEW p, NEW base, NEW records
  PROVE  FoldLeft(ReplayNext, base, records) = Replaying!Fold(p, base, records)
  BY DEF Replaying!Fold, ReplayTurn, FoldLeft, Replaying!FoldLeft,
         MapThenFoldSet, Replaying!MapThenFoldSet, Max, Replaying!Max

\* A turn of receive_buffer.
LEMMA ReceiveTurnSound ==
  ASSUME NEW p, NEW i, NEW progress, SoundProgress(p, i, progress), NEW e \in Sealable
  PROVE  SoundProgress(p, i, ReceiveTurn(p, progress, e))
<1> DEFINE ch == progress.channel
           next == ReceiveNext(progress, e, p.long)
<1>1. ReceiveTurn(p, progress, e) = next
  BY ReceiveStepIs DEF ReceiveTurn
<1>2. CASE ~progress.ok \/ Duplicate(ch, e)
  <2>1. next = progress
    BY <1>2 DEF ReceiveNext
  <2> HIDE DEF next
  <2> QED BY <1>1, <2>1
<1>3. CASE progress.ok /\ ~Duplicate(ch, e) /\ Acceptable(ch, e)
  <2> DEFINE fits == e \notin p.long \/ ~MayOutgrow(ch, e)
  <2>1. next = Processed(ch, e, fits)
    BY <1>3 DEF ReceiveNext
  <2>2. Sound(ch) /\ fits \in BOOLEAN
    BY <1>3 DEF SoundProgress
  <2> HIDE DEF next, fits
  <2> QED BY <1>1, <1>3, <2>1, <2>2, ProcessedSound DEF SoundProgress
<1>4. CASE progress.ok /\ ~Duplicate(ch, e) /\ ~Acceptable(ch, e)
  <2>1. next = [channel |-> ch, ok |-> FALSE]
    BY <1>4 DEF ReceiveNext
  <2> HIDE DEF next
  <2> QED BY <1>1, <1>4, <2>1 DEF SoundProgress
<1> QED BY <1>2, <1>3, <1>4, Zenon

\* A device that processes a response stays sound, or panics.
LEMMA ReceiveBufferSound ==
  ASSUME NEW ch, Sound(ch), NEW envelopes \in Seq(Sealable), NEW long
  PROVE  LET received == ReceiveBufferWith(ch, envelopes, long) IN
         Sound(received.channel) \/ received.channel = Halted
<1> DEFINE p    == [long |-> long]
           base == [channel |-> ch, ok |-> TRUE]
<1>1. Len(envelopes) \in Nat /\ DOMAIN envelopes = 1 .. Len(envelopes)
  OBVIOUS
<1>2. SoundProgress(p, 0, base)
  BY DEF SoundProgress
<1>3. \A i \in 0 .. Len(envelopes) - 1 : \A x :
          SoundProgress(p, i, x) => SoundProgress(p, i + 1, ReceiveTurn(p, x, envelopes[i + 1]))
  <2> SUFFICES ASSUME NEW i \in 0 .. Len(envelopes) - 1, NEW x, SoundProgress(p, i, x)
               PROVE  SoundProgress(p, i + 1, ReceiveTurn(p, x, envelopes[i + 1]))
    OBVIOUS
  <2>1. envelopes[i + 1] \in Sealable
    BY <1>1
  <2>2. SoundProgress(p, i, ReceiveTurn(p, x, envelopes[i + 1]))
    BY <2>1, ReceiveTurnSound
  <2> QED BY <2>2 DEF SoundProgress
<1>4. SoundProgress(p, Len(envelopes), Receiving!Fold(p, base, envelopes))
  <2> HIDE DEF p, base
  <2> QED BY <1>1, <1>2, <1>3, Receiving!FoldKeeps
<1> QED BY <1>4, ReceiveIsFold DEF SoundProgress

\* The channel that open_chat replays is sound, as far as it got.
LEMMA ReplaySound ==
  ASSUME NEW c \in Node, NEW storage \in [slabs: Seq(Record), slab_count: Nat], StorageSound(storage)
  PROVE  Sound(Replay(c, storage).channel)
<1> DEFINE base    == [channel |-> ChannelRecord(c, storage.slabs), ok |-> TRUE]
           records == IF storage.slabs = <<>> THEN <<>> ELSE ReadFrom(storage, 1)
<1>1. /\ storage.slabs \in Seq(Record) /\ Len(storage.slabs) <= MaxSlabs
      /\ \A i \in DOMAIN storage.slabs : storage.slabs[i].data \in Sealable
      /\ storage.slab_count \in Nat /\ storage.slab_count <= Len(storage.slabs)
  BY DEF StorageSound
<1>2. Sound(base.channel) /\ SoundReplay(0, 0, base)
  BY <1>1, InitialSound DEF SoundReplay
<1>3. /\ Len(records) \in Nat /\ DOMAIN records = 1 .. Len(records)
      /\ \A i \in 1 .. Len(records) : records[i].data \in Sealable
  <2>1. CASE storage.slabs = <<>>
    BY <2>1
  <2>2. CASE storage.slabs # <<>>
    <3> DEFINE last == IF 1 > storage.slab_count THEN 1 ELSE storage.slab_count
    <3>1. records = SubSeq(storage.slabs, 1, last)
      BY <2>2 DEF ReadFrom
    <3>2. last \in 1 .. Len(storage.slabs)
      BY <1>1, <2>2
    <3> HIDE DEF records, last
    <3>3. /\ Len(records) = last /\ DOMAIN records = 1 .. last
          /\ \A i \in 1 .. last : records[i] = storage.slabs[i]
      BY <1>1, <3>1, <3>2
    <3> QED BY <1>1, <3>2, <3>3
  <2> QED BY <2>1, <2>2
<1> HIDE DEF base, records
<1>4. \A i \in 0 .. Len(records) - 1 : \A x :
          SoundReplay(0, i, x) => SoundReplay(0, i + 1, ReplayTurn(0, x, records[i + 1]))
  <2> SUFFICES ASSUME NEW i \in 0 .. Len(records) - 1, NEW x, SoundReplay(0, i, x)
               PROVE  SoundReplay(0, i + 1, ReplayTurn(0, x, records[i + 1]))
    OBVIOUS
  <2> DEFINE e    == records[i + 1].data
             next == ReplayNext(x, records[i + 1])
  <2>1. e \in Sealable
    BY <1>3
  <2>2. CASE x.ok /\ Acceptable(x.channel, e) /\ ~AddNodeFails(x.channel, e)
    <3>1. next = [channel |-> InMemory(x.channel, e), ok |-> TRUE]
      BY <2>2 DEF ReplayNext
    <3>2. Sound(x.channel)
      BY <2>2 DEF SoundReplay
    <3> HIDE DEF e, next
    <3>3. Sound(next.channel) /\ next.ok
      BY <2>1, <2>2, <3>1, <3>2, InMemorySound
    <3> QED BY <3>1, <3>3 DEF SoundReplay, ReplayTurn, next
  <2>3. CASE ~(x.ok /\ Acceptable(x.channel, e) /\ ~AddNodeFails(x.channel, e))
    <3>1. next = [channel |-> x.channel, ok |-> FALSE]
      BY <2>3 DEF ReplayNext
    <3> HIDE DEF e, next
    <3>2. SoundReplay(0, i + 1, next)
      BY <3>1 DEF SoundReplay
    <3> QED BY <3>2 DEF ReplayTurn, next
  <2> QED BY <2>2, <2>3
<1> DEFINE opened == Replaying!Fold(0, base, records)
<1>5. SoundReplay(0, Len(records), opened)
  BY <1>2, <1>3, <1>4, Replaying!FoldKeeps
<1>6. Replay(c, storage) = opened
  BY ReplayIsFold DEF Replay, base, records
<1> QED BY <1>5, <1>6 DEF SoundReplay

\* The search for a cursor gives the first slab from which on there may be
\* something new, or there is none.
LEMMA CursorIs ==
  ASSUME NEW slabs \in Seq(Record), NEW sequence
  PROVE  LET cursor == CursorFromSequence(slabs, sequence) IN
         \/ /\ cursor = NoCursor
            /\ \A i \in 1 .. Len(slabs) : ~(slabs[i].max_sequence >= sequence)
         \/ /\ cursor \in 1 .. Len(slabs)
            /\ slabs[cursor].max_sequence >= sequence
            /\ \A i \in 1 .. cursor - 1 : ~(slabs[i].max_sequence >= sequence)
<1> DEFINE fits   == {i \in 1 .. Len(slabs) : slabs[i].max_sequence >= sequence}
           cursor == CursorFromSequence(slabs, sequence)
<1>1. cursor = IF fits # {} THEN Min(fits) ELSE 0
  BY DEF CursorFromSequence, SelectInSeq
<1>2. CASE fits = {}
  BY <1>1, <1>2 DEF NoCursor
<1>3. CASE fits # {}
  <2>1. Receiving!Min(fits) \in fits /\ \A i \in fits : Receiving!Min(fits) <= i
    <3>1. fits \in SUBSET Nat
      OBVIOUS
    <3> HIDE DEF fits
    <3> QED BY <1>3, <3>1, Receiving!MinIs
  <2>2. Min(fits) = Receiving!Min(fits)
    BY DEF Min, Receiving!Min
  <2>3. cursor \in fits /\ \A i \in fits : cursor <= i
    <3> HIDE DEF fits, cursor
    <3> QED BY <1>1, <1>3, <2>1, <2>2
  <2>4. cursor \in 1 .. Len(slabs) /\ slabs[cursor].max_sequence >= sequence
    BY <2>3
  <2>5. ASSUME NEW i \in 1 .. cursor - 1 PROVE ~(slabs[i].max_sequence >= sequence)
    <3>1. i \in 1 .. Len(slabs) /\ ~(cursor <= i)
      <4> HIDE DEF cursor
      <4> QED BY <2>4
    <3>2. i \notin fits
      BY <2>3, <3>1
    <3> QED BY <3>1, <3>2
  <2> QED BY <2>4, <2>5
<1> QED BY <1>2, <1>3

\* A response holds the records from the cursor on, up to the last one written
\* or as many as the buffer takes.
LEMMA ResponseIs ==
  ASSUME NEW ch, Sound(ch), NEW clock, CanRespond(ch, clock)
  PROVE  LET slabs == ch.storage.slabs
             least == GetMinSequence(StartSyncResponse(ch, clock))
         IN  \E first \in 1 .. Len(slabs), n \in Nat \ {0} :
                LET last == IF first > ch.storage.slab_count THEN first ELSE ch.storage.slab_count IN
                /\ Response(ch, clock) = [i \in 1 .. n |-> slabs[first + i - 1].data]
                /\ first + n - 1 <= last
                /\ n = BufferRecords \/ first + n - 1 = last
                /\ n <= BufferRecords
                /\ slabs[first].max_sequence >= least
                /\ \A i \in 1 .. first - 1 : ~(slabs[i].max_sequence >= least)
<1> DEFINE slabs == ch.storage.slabs
           count == ch.storage.slab_count
           least == GetMinSequence(StartSyncResponse(ch, clock))
           first == CursorFromSequence(slabs, least)
           last  == IF first > count THEN first ELSE count
           n     == Min({last - first + 1, BufferRecords})
<1>1. slabs \in Seq(Record) /\ count \in Nat /\ count <= Len(slabs)
  BY Parts DEF Sound, StorageSound
<1>2. first # NoCursor
  BY DEF CanRespond
<1>3. /\ first \in 1 .. Len(slabs)
      /\ slabs[first].max_sequence >= least
      /\ \A i \in 1 .. first - 1 : ~(slabs[i].max_sequence >= least)
  <2> HIDE DEF slabs, least
  <2> QED BY <1>1, <1>2, CursorIs
<1>4. Response(ch, clock) = SendBuffer(ch.storage, first)
  BY DEF Response
<1> HIDE DEF first
<1>5. last \in 1 .. Len(slabs) /\ first <= last
  BY <1>1, <1>3
<1>6. ReadFrom(ch.storage, first) = SubSeq(slabs, first, last)
  BY DEF ReadFrom
<1> HIDE DEF last, slabs
<1> DEFINE records == SubSeq(slabs, first, last)
<1>7. /\ Len(records) = last - first + 1
      /\ \A i \in 1 .. last - first + 1 : records[i] = slabs[first + i - 1]
  BY <1>1, <1>3, <1>5
<1>8. /\ n \in {last - first + 1, BufferRecords} /\ n <= last - first + 1 /\ n <= BufferRecords
  <2> DEFINE sizes == {last - first + 1, BufferRecords}
  <2>1. sizes \in SUBSET Nat /\ sizes # {}
    BY <1>3, <1>5
  <2>2. Min(sizes) = Receiving!Min(sizes)
    BY DEF Min, Receiving!Min
  <2>3. Receiving!Min(sizes) \in sizes /\ \A k \in sizes : Receiving!Min(sizes) <= k
    <3> HIDE DEF sizes
    <3> QED BY <2>1, Receiving!MinIs
  <2> QED BY <2>2, <2>3
<1>9. Response(ch, clock) = [i \in 1 .. n |-> slabs[first + i - 1].data]
  <2>1. Response(ch, clock) = [i \in 1 .. n |-> records[i].data]
    BY <1>4, <1>6, <1>7 DEF SendBuffer
  <2> HIDE DEF records, n
  <2> QED BY <1>3, <1>5, <1>7, <1>8, <2>1
<1> HIDE DEF n
<1>10. n \in Nat \ {0} /\ first + n - 1 <= last /\ (n = BufferRecords \/ first + n - 1 = last)
  BY <1>3, <1>5, <1>8
<1> QED BY <1>3, <1>8, <1>9, <1>10 DEF slabs, last

-----------------------------------------------------------------------------
(* The invariant, under every fault and with or without overhearing        *)

Devices ==
    /\ channel \in [Node -> {Absent, Halted} \cup ChannelType]
    /\ \A c \in Node : Has(c) => Sound(channel[c])

Messages ==
    /\ sealed \subseteq Sealable
    /\ \A m \in net : /\ IsMessage(m)
                      /\ m.type = "response" => m.data \in Seq(Sealable)

SafeInv == Devices /\ Messages

\* What can be sealed is an envelope.
LEMMA SealableIsEnvelope == Sealable \subseteq Envelope /\ Seq(Sealable) \subseteq Seq(Envelope)
<1>1. Sealable \subseteq Envelope
  BY DEF Sealable
<1>2. \A s \in Seq(Sealable) : s \in Seq(Envelope)
  BY <1>1
<1> QED BY <1>1, <1>2

\* A device changes its channel, for a sound one or for none.
LEMMA BecomesSound ==
  ASSUME Devices, NEW c \in Node, NEW ch, Sound(ch) \/ ch \in {Absent, Halted},
         channel' = [channel EXCEPT ![c] = ch]
  PROVE  Devices'
<1>1. ch \in {Absent, Halted} \cup ChannelType
  BY DEF Sound
<1>2. channel' \in [Node -> {Absent, Halted} \cup ChannelType]
  BY <1>1 DEF Devices
<1>3. channel'[c] = ch /\ \A d \in Node : d # c => channel'[d] = channel[d]
  BY DEF Devices
<1>4. ASSUME NEW d \in Node, Has(d)' PROVE Sound(channel'[d])
  <2>1. channel'[d] \notin {Absent, Halted}
    BY <1>4 DEF Has
  <2>2. CASE d = c
    BY <1>3, <2>1, <2>2
  <2>3. CASE d # c
    BY <1>3, <2>1, <2>3 DEF Devices, Has
  <2> QED BY <2>2, <2>3
<1> QED BY <1>2, <1>4 DEF Devices, Sound, Has

\* The channel init_chat makes accepts its own NewChannel.
LEMMA InitChatAcceptable ==
  ASSUME NEW id \in Nat
  PROVE  LET initial == ChannelRecord(Owner, <<>>)
             e       == Seal(initial, Owner, NewChannel(Owner), id)
         IN  /\ Sound(initial)
             /\ e = [from |-> Owner, cause |-> Owner, sender_last |-> 0, sequence |-> 1,
                     id |-> id, data |-> NewChannel(Owner)]
             /\ e \in Sealable
             /\ Acceptable(initial, e)
<1> DEFINE initial == ChannelRecord(Owner, <<>>)
           e       == Seal(initial, Owner, NewChannel(Owner), id)
           nodes   == initial.state.nodes
<1>1. Sound(initial)
  BY NewSound
<1>2. /\ nodes = InitialNodes(Owner) /\ initial.state.newest = Owner /\ initial.chat = NewChat
      /\ DOMAIN nodes = {Owner} /\ nodes[Owner] = Unheard
  BY DEF ChannelRecord, InitialNodes
<1>3. Unheard.sequence = 0
  BY DEF Unheard
<1>4. NewChannel(Owner) \in Payload(Node) /\ NewChannel(Owner).kind = "NewChannel"
      /\ NewChannel(Owner).user = Owner
  BY DEF Payload, NewChannel
<1> HIDE DEF initial
<1>5. e = [from |-> Owner, cause |-> Owner, sender_last |-> 0, sequence |-> 1,
           id |-> id, data |-> NewChannel(Owner)]
  BY <1>2, <1>3 DEF Seal, Address, LastSequence
<1>6. e \in Sealable
  BY <1>4, <1>5 DEF Sealable, Envelope, Sequence
<1>7. CheckReceive(nodes, e.from, e)
  BY <1>2, <1>3, <1>5 DEF CheckReceive, AlreadyReceived, MissingFromSender, MissingCause, CauseTarget
<1>8. Accepts(initial.chat, e.from, e.data)
  <2>1. Cardinality({}) = 0
    BY FS_EmptySet
  <2> QED BY <1>2, <1>4, <1>5, <2>1 DEF Accepts, CanAddUser, NewChat
<1> QED BY <1>1, <1>5, <1>6, <1>7, <1>8 DEF Acceptable, initial

\* A world without channels is safe.
LEMMA SafeInit == Init => SafeInv
  BY DEF Init, SafeInv, Devices, Messages, Has

\* What a device seals by itself is Sealable.
LEMMA SealSealable ==
  ASSUME NEW ch, Sound(ch), NEW c \in Node, NEW data \in Payload(Node), data.kind # "NewChannel",
         NEW id \in EnvelopeId, CanAddress(ch.state.nodes, ch.state.newest, c)
  PROVE  Seal(ch, c, data, id) \in Sealable
<1>1. /\ id \in Nat /\ c \in DOMAIN ch.state.nodes
      /\ LastSequence(ch.state.nodes, ch.state.newest, c) < MaxSequence
  BY DEF CanAddress
<1>2. Seal(ch, c, data, id) \in Envelope /\ Seal(ch, c, data, id).data = data
  BY <1>1, SealFields
<1> QED BY <1>2 DEF Sealable

\* Sealing and processing a message of its own, a device stays safe, whatever faults.
LEMMA SafeSend ==
  ASSUME SafeInv, NEW c \in Node, NEW data \in Payload(Node), data.kind # "NewChannel",
         NEW id \in EnvelopeId, NEW fits \in BOOLEAN, Send(c, data, id, fits)
  PROVE  SafeInv'
<1> DEFINE ch == channel[c]
           e  == Seal(ch, c, data, id)
           after == Processed(ch, e, fits)
<1>1. /\ Has(c) /\ CanAddress(ch.state.nodes, ch.state.newest, c) /\ Acceptable(ch, e)
      /\ channel' = [channel EXCEPT ![c] = after.channel]
      /\ sealed' = sealed \cup {e} /\ net' = net
  BY DEF Send
<1>2. Sound(ch)
  BY <1>1 DEF SafeInv, Devices
<1>3. e \in Sealable
  BY <1>1, <1>2, SealSealable
<1> HIDE DEF e
<1>4. Sound(after.channel) \/ after.channel = Halted
  BY <1>1, <1>2, <1>3, ProcessedSound
<1> HIDE DEF after
<1>5. Devices'
  BY <1>1, <1>4, BecomesSound DEF SafeInv
<1>6. Messages'
  BY <1>1, <1>3 DEF SafeInv, Messages, IsMessage
<1> QED BY <1>5, <1>6 DEF SafeInv

\* Processing a response, whole or in part, a device stays safe.
LEMMA SafeReceive ==
  ASSUME SafeInv, NEW c \in Node, Has(c), NEW data \in Seq(Sealable),
         NEW received \in Received(channel[c], data),
         channel' = [channel EXCEPT ![c] = received], UNCHANGED <<sealed, net>>
  PROVE  SafeInv'
<1>1. PICK long : received = ReceiveBufferWith(channel[c], data, long).channel
  BY DEF Received
<1>2. Sound(channel[c])
  BY DEF SafeInv, Devices
<1>3. Sound(received) \/ received = Halted
  BY <1>1, <1>2, ReceiveBufferSound
<1>4. Devices'
  BY <1>3, BecomesSound DEF SafeInv
<1> QED BY <1>4 DEF SafeInv, Messages, IsMessage

\* What is in a response was sealed, or at least could have been.
LEMMA ResponseSealable ==
  ASSUME NEW ch, Sound(ch), NEW clock, CanRespond(ch, clock)
  PROVE  Response(ch, clock) \in Seq(Sealable)
<1> DEFINE slabs == ch.storage.slabs
<1>1. PICK first \in 1 .. Len(slabs), n \in Nat \ {0} :
         LET last == IF first > ch.storage.slab_count THEN first ELSE ch.storage.slab_count IN
         /\ Response(ch, clock) = [i \in 1 .. n |-> slabs[first + i - 1].data]
         /\ first + n - 1 <= last
  BY ResponseIs
<1>2. /\ slabs \in Seq(Record) /\ ch.storage.slab_count \in Nat /\ ch.storage.slab_count <= Len(slabs)
      /\ \A i \in DOMAIN slabs : slabs[i].data \in Sealable
  BY Parts DEF Sound, StorageSound
<1>3. \A i \in 1 .. n : first + i - 1 \in 1 .. Len(slabs)
  BY <1>1, <1>2
<1>4. \A i \in 1 .. n : slabs[first + i - 1].data \in Sealable
  <2>1. DOMAIN slabs = 1 .. Len(slabs)
    BY <1>2
  <2> QED BY <1>2, <1>3, <2>1
<1> HIDE DEF slabs
<1>5. [i \in 1 .. n |-> slabs[first + i - 1].data] \in Seq(Sealable)
  BY <1>4
<1> QED BY <1>1, <1>5

\* Every handler keeps the invariant, whatever fails in it.
LEMMA SafeStep == SafeInv /\ [Next \/ MeetingNext]_vars => SafeInv'
<1> SUFFICES ASSUME SafeInv, [Next \/ MeetingNext]_vars PROVE SafeInv'
  OBVIOUS
<1>0. /\ Devices /\ Messages
      /\ \A c \in Node : Has(c) => Sound(channel[c])
  BY DEF SafeInv, Devices
<1>1. ASSUME NEW id \in EnvelopeId, InitChat(id) PROVE SafeInv'
  <2> DEFINE initial == ChannelRecord(Owner, <<>>)
             e       == Seal(initial, Owner, NewChannel(Owner), id)
             after   == Processed(initial, e, TRUE)
  <2>1. /\ channel' = [channel EXCEPT ![Owner] = after.channel]
        /\ sealed' = {e} /\ net' = net
    BY <1>1 DEF InitChat
  <2>2. Sound(initial) /\ e \in Sealable /\ Acceptable(initial, e)
    BY InitChatAcceptable
  <2> HIDE DEF initial, e
  <2>3. Sound(after.channel) \/ after.channel = Halted
    BY <2>2, ProcessedSound
  <2> HIDE DEF after
  <2>4. Devices'
    BY <1>0, <2>1, <2>3, BecomesSound
  <2> QED BY <1>0, <2>1, <2>2, <2>4 DEF SafeInv, Messages, IsMessage
<1>2. ASSUME NEW c \in Node, AddChannel(c) \/ Forget(c) PROVE SafeInv'
  <2>1. /\ channel' = [channel EXCEPT ![c] = ChannelRecord(Owner, <<>>)]
        /\ sealed' = sealed /\ net' = net
    BY <1>2 DEF AddChannel, Forget
  <2>2. Sound(ChannelRecord(Owner, <<>>))
    BY NewSound
  <2>3. Devices'
    BY <1>0, <2>1, <2>2, BecomesSound
  <2> QED BY <1>0, <2>1, <2>3 DEF SafeInv, Messages, IsMessage
<1>3. ASSUME NEW c \in Node, NEW id \in EnvelopeId, NEW fits \in BOOLEAN, SendMessage(c, id, fits)
      PROVE  SafeInv'
  <2>1. ChatMessage \in Payload(Node) /\ ChatMessage.kind # "NewChannel"
    BY DEF Payload, ChatMessage
  <2> QED BY <1>3, <2>1, SafeSend DEF SendMessage
<1>4. ASSUME NEW c \in Node, NEW n \in Node, NEW id \in EnvelopeId, AddNode(c, n, id)
      PROVE  SafeInv'
  <2>1. AddUser(n) \in Payload(Node) /\ AddUser(n).kind # "NewChannel"
    BY DEF Payload, AddUser
  <2> QED BY <1>4, <2>1, SafeSend DEF AddNode
<1>5. ASSUME NEW c \in Node, Reopen(c) PROVE SafeInv'
  <2> DEFINE storage == [channel[c].storage EXCEPT !.slab_count = 0]
             opened  == Replay(c, storage)
             ch      == IF opened.ok THEN opened.channel ELSE Absent
  <2>1. /\ channel' = [channel EXCEPT ![c] = ch]
        /\ sealed' = sealed /\ net' = net /\ Has(c)
    BY <1>5 DEF Reopen
  <2>2. /\ channel[c].storage \in [slabs: Seq(Record), slab_count: Nat]
        /\ StorageSound(channel[c].storage)
    BY <1>0, <2>1, Parts DEF Sound
  <2>3. storage = [slabs |-> channel[c].storage.slabs, slab_count |-> 0]
    BY <2>2
  <2>4. storage \in [slabs: Seq(Record), slab_count: Nat] /\ StorageSound(storage)
    BY <2>2, <2>3 DEF StorageSound
  <2> HIDE DEF storage
  <2>5. Sound(ch) \/ ch = Absent
    BY <2>4, ReplaySound
  <2> HIDE DEF ch
  <2>6. Devices'
    BY <1>0, <2>1, <2>5, BecomesSound
  <2> QED BY <1>0, <2>1, <2>6 DEF SafeInv, Messages, IsMessage
<1>6. ASSUME NEW c \in Node, SendRequest(c) PROVE SafeInv'
  <2>1. /\ channel' = channel /\ sealed' = sealed /\ Has(c)
        /\ net' = net \cup {SyncRequest(c)}
    BY <1>6 DEF SendRequest
  <2> DEFINE nodes == channel[c].state.nodes
             clock == FinishSyncRequest(channel[c])
  <2>2. nodes \in [DOMAIN nodes -> NodeSequence] /\ DOMAIN nodes \subseteq Node
    BY <1>0, <2>1, Parts DEF Sound
  <2>3. DOMAIN clock \subseteq Node /\ clock \in [DOMAIN clock -> Sequence]
    BY <2>2 DEF FinishSyncRequest, NodeSequence
  <2> HIDE DEF clock
  <2>4. /\ SyncRequest(c).type = "request" /\ SyncRequest(c).session = c
        /\ SyncRequest(c).clock = clock
    BY DEF SyncRequest, clock
  <2>5. IsMessage(SyncRequest(c))
    BY <2>3, <2>4 DEF IsMessage
  <2>6. Devices'
    BY <1>0, <2>1 DEF Devices, Has
  <2> QED BY <1>0, <2>1, <2>4, <2>5, <2>6 DEF SafeInv, Messages, IsMessage
<1>7. ASSUME NEW r \in Node, NEW m \in net, Respond(r, m) PROVE SafeInv'
  <2>1. /\ channel' = channel /\ sealed' = sealed /\ Has(r)
        /\ CanRespond(channel[r], m.clock)
        /\ net' \subseteq net \cup {SyncResponse(r, m)}
    BY <1>7 DEF Respond
  <2>2. Response(channel[r], m.clock) \in Seq(Sealable)
    BY <1>0, <2>1, ResponseSealable
  <2>3. m.session \in Node
    BY <1>0 DEF Messages, IsMessage
  <2> DEFINE response == SyncResponse(r, m)
  <2>4. /\ response.type = "response" /\ response.session = m.session
        /\ response.data = Response(channel[r], m.clock)
    BY DEF SyncResponse
  <2> HIDE DEF response
  <2>5. IsMessage(response) /\ response.data \in Seq(Sealable)
    BY <2>2, <2>3, <2>4, SealableIsEnvelope DEF IsMessage
  <2>6. Devices'
    BY <1>0, <2>1 DEF Devices, Has
  <2>7. \A k \in net' : k \in net \/ k = response
    BY <2>1 DEF response
  <2> QED BY <1>0, <2>1, <2>5, <2>6, <2>7 DEF SafeInv, Messages, IsMessage
<1>8. ASSUME NEW c \in Node, NEW m \in net, Deliver(c, m) PROVE SafeInv'
  <2>1. Has(c) /\ m.data \in Seq(Sealable)
    BY <1>0, <1>8 DEF Deliver, Messages
  <2>2. PICK received \in Received(channel[c], m.data) :
            channel' = [channel EXCEPT ![c] = received] /\ UNCHANGED <<sealed, net>>
    BY <1>8 DEF Deliver
  <2> QED BY <2>1, <2>2, SafeReceive
<1>9. ASSUME NEW m \in net, Lose(m) PROVE SafeInv'
  <2>1. channel' = channel /\ sealed' = sealed /\ net' \subseteq net
    BY <1>9 DEF Lose
  <2> QED BY <1>0, <2>1 DEF SafeInv, Devices, Has, Messages, IsMessage
<1>10. ASSUME NEW c \in Node, NEW r \in Node, Sync(c, r) PROVE SafeInv'
  <2> DEFINE data == Response(channel[r], FinishSyncRequest(channel[c]))
  <2>1. /\ Has(c) /\ Has(r) /\ CanRespond(channel[r], FinishSyncRequest(channel[c]))
        /\ \E received \in Received(channel[c], data) :
              channel' = [channel EXCEPT ![c] = received]
        /\ UNCHANGED <<sealed, net>>
    BY <1>10 DEF Sync
  <2>2. data \in Seq(Sealable)
    BY <1>0, <2>1, ResponseSealable
  <2> HIDE DEF data
  <2> QED BY <2>1, <2>2, SafeReceive
<1>11. CASE UNCHANGED vars
  BY <1>0, <1>11 DEF SafeInv, Devices, Has, Messages, IsMessage, vars
<1> QED BY <1>1, <1>2, <1>3, <1>4, <1>5, <1>6, <1>7, <1>8, <1>9, <1>10, <1>11
        DEF Next, MeetingNext, DeviceNext, NetworkNext

\* The steps of devices that meet as the test runner does, and of those that
\* send requests and responses.
THEOREM SafeInvariance == Init /\ [][Next \/ MeetingNext]_vars => []SafeInv
  BY SafeInit, SafeStep, PTL

\* SafeInv holds whichever way devices synchronise.
LEMMA SafeSpec == (Spec => []SafeInv) /\ (MeetingSpec => []SafeInv)
<1>1. [Next]_vars => [Next \/ MeetingNext]_vars
  OBVIOUS
<1>2. [MeetingNext]_vars => [Next \/ MeetingNext]_vars
  OBVIOUS
<1> QED BY <1>1, <1>2, SafeInvariance, PTL DEF Spec, MeetingSpec

\* SafeInv gives the types.
LEMMA SafeTypes == SafeInv => TypeOK
<1> SUFFICES ASSUME SafeInv PROVE TypeOK
  OBVIOUS
<1>1. ASSUME NEW c \in Node, Has(c) PROVE IsChannel(channel[c])
  <2>1. Sound(channel[c])
    BY <1>1 DEF SafeInv, Devices
  <2> QED BY <2>1, Parts DEF IsChannel, Sound, StateSound, StorageSound
<1>2. DOMAIN channel = Node /\ sealed \subseteq Envelope /\ \A m \in net : IsMessage(m)
  BY SealableIsEnvelope DEF SafeInv, Devices, Messages
<1> QED BY <1>1, <1>2 DEF TypeOK

\* Every variable has its type, under every fault, whoever overhears (lib.rs).
THEOREM TypeCorrect == (Spec => []TypeOK) /\ (MeetingSpec => []TypeOK)
  BY SafeSpec, SafeTypes, PTL

\* The users of the chat (chat.rs) are the nodes of the channel state (channel.rs), under
\* every fault: the two lists never come apart.
THEOREM UsersAreNodesAlways == (Spec => []UsersAreNodes) /\ (MeetingSpec => []UsersAreNodes)
<1>1. SafeInv => UsersAreNodes
  BY DEF SafeInv, Devices, UsersAreNodes, Sound, MembersSound
<1> QED BY <1>1, SafeSpec, PTL

\* A message a device makes for itself or for another node it knows passes the
\* check of the state it was made from.
LEMMA OwnAccepted ==
  ASSUME NEW ch, Sound(ch), NEW n \in DOMAIN ch.state.nodes
  PROVE  CheckReceive(ch.state.nodes, n, Address(ch.state.nodes, ch.state.newest, n))
<1> DEFINE nodes  == ch.state.nodes
           newest == ch.state.newest
           m == Address(nodes, newest, n)
<1>1. nodes \in [DOMAIN nodes -> NodeSequence] /\ newest \in DOMAIN nodes
  BY Parts DEF Sound, StateSound
<1>2. nodes[n] \in NodeSequence /\ nodes[newest] \in NodeSequence
  BY <1>1
<1>3. nodes[n].sequence \in Nat /\ nodes[newest].sequence \in Nat
  BY <1>2, Numbers
<1>4. nodes[n].sequence <= nodes[newest].sequence
  BY <1>1, <1>3 DEF Sound, StateSound
<1>5. /\ m.cause = newest /\ m.sender_last = nodes[n].sequence
      /\ m.sequence = nodes[newest].sequence + 1
  BY <1>3, <1>4 DEF Address, LastSequence
<1> HIDE DEF m
<1>6. CauseTarget(m) = nodes[newest].sequence
  BY <1>3, <1>5 DEF CauseTarget
<1>7. /\ ~AlreadyReceived(nodes, n, m) /\ ~MissingFromSender(nodes, n, m)
      /\ ~MissingCause(nodes, m)
  BY <1>1, <1>3, <1>4, <1>5, <1>6 DEF AlreadyReceived, MissingFromSender, MissingCause
<1> QED BY <1>7 DEF CheckReceive, m

\* Under every fault: newest names a node with the largest sequence, and what a device would
\* address next passes its own check_receive.
THEOREM ChannelsSoundAlways == (Spec => []ChannelsSound) /\ (MeetingSpec => []ChannelsSound)
<1>1. SafeInv => ChannelsSound
  <2> SUFFICES ASSUME SafeInv, NEW c \in Node, Has(c)
               PROVE  ChannelOf(c)!NewestIsMax /\ ChannelOf(c)!OwnMessageAccepted
    BY DEF ChannelsSound
  <2>1. Sound(channel[c])
    BY DEF SafeInv, Devices
  <2>2. ChannelOf(c)!NewestIsMax
    BY <2>1 DEF ChannelOf!NewestIsMax, Sound, StateSound
  <2>3. ChannelOf(c)!OwnMessageAccepted
    BY <2>1, OwnAccepted DEF ChannelOf!OwnMessageAccepted, 
       ChannelOf!CheckReceive, CheckReceive, ChannelOf!Address, Address, ChannelOf!AlreadyReceived, AlreadyReceived,
       ChannelOf!MissingFromSender, MissingFromSender, ChannelOf!MissingCause, MissingCause,
       ChannelOf!CauseTarget, CauseTarget, ChannelOf!LastSequence, LastSequence
  <2> QED BY <2>2, <2>3
<1> QED BY <1>1, SafeSpec, PTL

-----------------------------------------------------------------------------
(* Without faults: what a device remembers of the envelopes it stored      *)

\* The envelopes a channel stored, in order.
LogOf(ch) == [i \in 1 .. ch.storage.slab_count |-> ch.storage.slabs[i].data]

\* The members of a channel, by what was stored.
MembersOf(S) == {Owner} \cup {u \in Node : \E e \in S : e.data = AddUser(u)}

\* The envelopes of one sender form a chain, and no node is added twice.
Chained(S) ==
    /\ S \subseteq Sealable
    /\ \A e \in S : e.sender_last < e.sequence
    /\ \A e, f \in S : e.from = f.from =>
          e = f \/ e.sequence <= f.sender_last \/ f.sequence <= e.sender_last
    /\ \A e \in S : e.data.kind = "AddUser" => e.from = Owner /\ e.data.user # Owner
    /\ \A e, f \in S : e.data.kind = "AddUser" /\ e.data = f.data => e = f

\* A device that knows the envelopes in K has what it takes to process e.
Ready(K, e) ==
    /\ e.sender_last = 0 \/ \E g \in K : g.from = e.from /\ g.sequence = e.sender_last
    /\ CauseTarget(e) # 0 => \E g \in K : g.from = e.cause /\ g.sequence >= CauseTarget(e)
    /\ e.from # Owner => \E g \in K : g.data = AddUser(e.from)
    /\ e.data.kind # "NewChannel" => K # {}

\* The sequences kept of a node are those of the first and of the last envelope
\* stored of it.
Heard(nodes, log) ==
    /\ \A i \in DOMAIN log :
          /\ log[i].from \in DOMAIN nodes
          /\ log[i].sequence <= nodes[log[i].from].sequence
          /\ nodes[log[i].from].first_sequence <= log[i].sequence
    /\ \A n \in DOMAIN nodes :
          /\ nodes[n].first_sequence <= nodes[n].sequence
          /\ nodes[n].first_sequence = 0 => nodes[n].sequence = 0
          /\ \/ nodes[n].sequence = 0
             \/ \E i \in DOMAIN log : log[i].from = n /\ log[i].sequence = nodes[n].sequence

\* Nothing a node sealed up to its last sequence is missing.
Complete(nodes, log, S) ==
    \A f \in S : f.from \in DOMAIN nodes /\ f.sequence <= nodes[f.from].sequence => f \in ToSet(log)

Ordered(log) ==
    \A i, j \in DOMAIN log : i < j /\ log[i].from = log[j].from => log[i].sequence < log[j].sequence

ReadyInOrder(log) == \A i \in DOMAIN log : Ready(Before(log, i), log[i])

StoredOnly(ch, S) ==
    /\ ch.storage.slab_count = Len(ch.storage.slabs)
    /\ \A i \in 1 .. Len(ch.storage.slabs) :
          /\ ch.storage.slabs[i].data \in S
          /\ ch.storage.slabs[i].data.sequence <= ch.storage.slabs[i].max_sequence
    /\ ch.chat.owner = NoOwner <=> ch.storage.slab_count = 0

Remembers(ch, S) ==
    /\ Sound(ch)
    /\ StoredOnly(ch, S)
    /\ Heard(ch.state.nodes, LogOf(ch))
    /\ Complete(ch.state.nodes, LogOf(ch), S)
    /\ DOMAIN ch.state.nodes = MembersOf(ToSet(LogOf(ch)))
    /\ Ordered(LogOf(ch))
    /\ ReadyInOrder(LogOf(ch))

\* `longer' is log with e at its end.
Grown(log, e, longer) ==
    /\ Len(log) \in Nat /\ DOMAIN log = 1 .. Len(log)
    /\ Len(longer) = Len(log) + 1 /\ DOMAIN longer = 1 .. Len(log) + 1
    /\ longer[Len(log) + 1] = e
    /\ \A i \in 1 .. Len(log) : longer[i] = log[i]

\* The log of a sound channel is its records, one envelope each.
LEMMA LogIs ==
  ASSUME NEW ch, Sound(ch)
  PROVE  LET log == LogOf(ch) IN
         /\ log \in Seq(Sealable)
         /\ Len(log) = ch.storage.slab_count /\ Len(log) \in Nat
         /\ DOMAIN log = 1 .. ch.storage.slab_count
         /\ \A i \in 1 .. ch.storage.slab_count :
               /\ log[i] = ch.storage.slabs[i].data
               /\ log[i] \in Sealable /\ log[i] \in Envelope
<1> DEFINE slabs == ch.storage.slabs
           count == ch.storage.slab_count
<1>1. /\ slabs \in Seq(Record) /\ count \in Nat /\ count <= Len(slabs)
      /\ \A i \in DOMAIN slabs : slabs[i].data \in Sealable
  BY Parts DEF Sound, StorageSound
<1>2. \A i \in 1 .. count : slabs[i].data \in Sealable /\ slabs[i].data \in Envelope
  BY <1>1, SealableIsEnvelope
<1> HIDE DEF slabs, count
<1> DEFINE log == [i \in 1 .. count |-> slabs[i].data]
<1>3. log \in Seq(Sealable) /\ Len(log) = count /\ DOMAIN log = 1 .. count
  BY <1>1, <1>2
<1> QED BY <1>1, <1>2, <1>3 DEF LogOf, slabs, count

\* What is before an envelope, in a log that grows.
LEMMA GrownBefore ==
  ASSUME NEW log, NEW e, NEW longer, Grown(log, e, longer)
  PROVE  /\ \A i \in DOMAIN log : Before(longer, i) = Before(log, i)
         /\ Before(longer, Len(log) + 1) = ToSet(log)
         /\ ToSet(longer) = ToSet(log) \cup {e}
<1>1. \A i \in DOMAIN log : \A j \in 1 .. i - 1 : longer[j] = log[j]
  BY DEF Grown
<1>2. \A i \in DOMAIN log : Before(longer, i) = Before(log, i)
  BY <1>1 DEF Before
<1>3. Before(longer, Len(log) + 1) = ToSet(log)
  <2>1. 1 .. (Len(log) + 1) - 1 = DOMAIN log
    BY DEF Grown
  <2> QED BY <2>1 DEF Before, ToSet, Grown
<1>4. ToSet(longer) = ToSet(log) \cup {e}
  <2>1. DOMAIN longer = DOMAIN log \cup {Len(log) + 1}
    BY DEF Grown
  <2> QED BY <2>1 DEF ToSet, Grown
<1> QED BY <1>2, <1>3, <1>4

\* Storing an envelope adds it at the end.
LEMMA LogGrows ==
  ASSUME NEW ch, Sound(ch), NEW e \in Sealable, Acceptable(ch, e),
         ch.storage.slab_count < MaxSlabs, ch.storage.slab_count = Len(ch.storage.slabs)
  PROVE  LET after == Stored(ch, e) IN
         /\ Grown(LogOf(ch), e, LogOf(after))
         /\ after.storage.slab_count = ch.storage.slab_count + 1
         /\ after.storage.slab_count = Len(after.storage.slabs)
         /\ after.storage.slabs[after.storage.slab_count] = NewRecord(ch, e)
         /\ \A i \in 1 .. ch.storage.slab_count : after.storage.slabs[i] = ch.storage.slabs[i]
<1> DEFINE after  == Stored(ch, e)
           record == NewRecord(ch, e)
<1>1. Sound(after) /\ after.storage = Written(ch.storage, record) /\ record \in Record
      /\ record.data = e
  BY StoredSound DEF NewRecord
<1>2. /\ ch.storage \in [slabs: Seq(Record), slab_count: Nat] /\ StorageSound(ch.storage)
      /\ ch.storage.slab_count \in Nat
  BY Parts DEF Sound
<1> HIDE DEF after, record
<1>3. /\ after.storage.slab_count = ch.storage.slab_count + 1
      /\ after.storage.slabs[after.storage.slab_count] = record
      /\ \A i \in 1 .. Len(ch.storage.slabs) :
            i # after.storage.slab_count => after.storage.slabs[i] = ch.storage.slabs[i]
      /\ after.storage.slab_count = Len(after.storage.slabs)
  BY <1>1, <1>2, WrittenSound
<1>4. \A i \in 1 .. ch.storage.slab_count : after.storage.slabs[i] = ch.storage.slabs[i]
  BY <1>2, <1>3
<1>5. Grown(LogOf(ch), e, LogOf(after))
  <2> DEFINE n == ch.storage.slab_count
             log == LogOf(ch)
             longer == LogOf(after)
  <2>1. /\ Len(log) = n /\ DOMAIN log = 1 .. n
        /\ \A i \in 1 .. n : log[i] = ch.storage.slabs[i].data
    BY LogIs
  <2>2. /\ Len(longer) = n + 1 /\ DOMAIN longer = 1 .. n + 1
        /\ \A i \in 1 .. n + 1 : longer[i] = after.storage.slabs[i].data
    BY <1>1, <1>3, LogIs
  <2>3. longer[n + 1] = e /\ \A i \in 1 .. n : longer[i] = log[i]
    <3> HIDE DEF longer, log
    <3> QED BY SMTT(60), <1>1, <1>2, <1>3, <1>4, <2>1, <2>2
  <2> HIDE DEF longer, log
  <2> QED BY <1>2, <2>1, <2>2, <2>3 DEF Grown, longer, log
<1> QED BY <1>3, <1>4, <1>5 DEF after, record

\* How the nodes of a channel change when an envelope is processed.
NodesGrow(nodes, e, after) ==
    /\ e.from \in DOMAIN nodes
    /\ \A n \in DOMAIN nodes : nodes[n].sequence \in Nat /\ nodes[n].first_sequence \in Nat
    /\ e.sequence \in Nat /\ e.sender_last = nodes[e.from].sequence
    /\ nodes[e.from].sequence < e.sequence
    /\ DOMAIN after = DOMAIN nodes \cup (IF e.data.kind = "AddUser" THEN {e.data.user} ELSE {})
    /\ after[e.from].sequence = e.sequence
    /\ after[e.from].first_sequence =
          IF nodes[e.from].first_sequence = 0 THEN e.sequence ELSE nodes[e.from].first_sequence
    /\ \A n \in DOMAIN nodes : n # e.from => after[n] = nodes[n]
    /\ \A n \in DOMAIN after \ DOMAIN nodes : after[n] = Unheard

\* An envelope that names a node to add is never of a node that is there: there
\* is one AddUser of each node only, and it would have been received before.
LEMMA AddsNew ==
  ASSUME NEW S, Chained(S), NEW ch, Remembers(ch, S), NEW e \in S, Acceptable(ch, e),
         e.data.kind = "AddUser"
  PROVE  CanAddNode(ch.state.nodes, e.data.user)
<1> DEFINE nodes == ch.state.nodes
           u     == e.data.user
           log   == LogOf(ch)
<1>1. /\ Sound(ch) /\ MembersSound(ch) /\ Heard(nodes, log)
      /\ DOMAIN nodes = MembersOf(ToSet(log))
  BY DEF Remembers, Sound
<1>2. e \in Sealable /\ e \in Envelope /\ e.from = Owner /\ u # Owner
  BY SealableIsEnvelope DEF Chained
<1>3. e.from = ch.chat.owner /\ CanAddUser(ch.chat.users, u) /\ ~AlreadyReceived(nodes, e.from, e)
  BY DEF Acceptable, Accepts, CheckReceive
<1>4. ch.chat.users = DOMAIN nodes
  BY <1>1, <1>2, <1>3 DEF MembersSound
<1>5. u \notin DOMAIN nodes
  <2> SUFFICES ASSUME u \in DOMAIN nodes PROVE FALSE
    OBVIOUS
  <2>1. PICK i \in DOMAIN log : log[i].data = AddUser(u)
    BY <1>1, <1>2 DEF MembersOf, ToSet
  <2>2. AddUser(u) = e.data
    BY <1>2, Fields, Kinds
  <2>3. log[i] \in S
    BY <1>1, LogIs DEF Remembers, StoredOnly
  <2>4. log[i] = e
    BY <2>1, <2>2, <2>3 DEF Chained
  <2> HIDE DEF nodes, log
  <2>5. e.sequence <= nodes[e.from].sequence
    BY <1>1, <2>4 DEF Heard
  <2>6. nodes[e.from].sequence >= e.sequence
    <3>1. e.from \in DOMAIN nodes /\ nodes \in [DOMAIN nodes -> NodeSequence]
      BY <1>1, <2>4, Parts DEF Heard, Sound, nodes
    <3>2. nodes[e.from].sequence \in Nat
      BY <3>1, Numbers
    <3> QED BY <1>2, <2>5, <3>2, Fields
  <2> QED BY <1>3, <2>6 DEF AlreadyReceived
<1> QED BY <1>3, <1>4, <1>5 DEF CanAddUser, CanAddNode

\* An envelope that is received moves its sender forward, and add_node does not fail.
LEMMA NodesGrowing ==
  ASSUME NEW S, Chained(S), NEW ch, Remembers(ch, S), NEW e \in S, Acceptable(ch, e)
  PROVE  /\ NodesGrow(ch.state.nodes, e, ReceivedState(ch.state, e).nodes)
         /\ ~AddNodeFails(ch, e)
<1> DEFINE nodes == ch.state.nodes
           state == ReceivedState(ch.state, e)
           adds  == e.data.kind = "AddUser" /\ CanAddNode(nodes, e.data.user)
<1>1. Sound(ch) /\ e \in Envelope /\ CheckReceive(nodes, e.from, e)
  BY SealableIsEnvelope DEF Remembers, Acceptable, Chained
<1>2. adds <=> e.data.kind = "AddUser"
  BY AddsNew
<1>3. /\ DOMAIN state.nodes = DOMAIN nodes \cup (IF adds THEN {e.data.user} ELSE {})
      /\ adds => state.nodes[e.data.user] = Unheard
      /\ \A n \in DOMAIN nodes : n # e.from => state.nodes[n] = nodes[n]
      /\ e.from \in DOMAIN nodes
      /\ state.nodes[e.from].sequence = e.sequence
      /\ state.nodes[e.from].first_sequence =
            IF nodes[e.from].first_sequence = 0 THEN e.sequence ELSE nodes[e.from].first_sequence
  BY ZenonT(60), <1>1, StateAfter
<1>4. nodes \in [DOMAIN nodes -> NodeSequence]
  BY <1>1, Parts DEF Sound
<1>5. \A n \in DOMAIN nodes : nodes[n].sequence \in Nat /\ nodes[n].first_sequence \in Nat
  BY <1>4, Numbers
<1>6. e.sequence \in Nat
  BY <1>1, Fields
<1>7. e.sender_last = nodes[e.from].sequence /\ nodes[e.from].sequence < e.sequence
  BY <1>1, <1>3, <1>5, <1>6 DEF CheckReceive, AlreadyReceived, MissingFromSender
<1>8. ~AddNodeFails(ch, e)
  BY <1>2 DEF AddNodeFails
<1> HIDE DEF nodes, state
<1> QED BY <1>2, <1>3, <1>5, <1>6, <1>7, <1>8 DEF NodesGrow, nodes, state

\* Heard is kept when an envelope is stored.
LEMMA HeardGrows ==
  ASSUME NEW log, NEW e, NEW longer, Grown(log, e, longer),
         NEW nodes, NEW after, NodesGrow(nodes, e, after), Heard(nodes, log),
         \A i \in DOMAIN log : log[i].sequence \in Nat \ {0}
  PROVE  Heard(after, longer)
<1>1. DOMAIN longer = DOMAIN log \cup {Len(log) + 1} /\ \A i \in DOMAIN log : longer[i] = log[i]
  BY DEF Grown
<1>2. e.from \in DOMAIN after /\ longer[Len(log) + 1] = e /\ DOMAIN nodes \subseteq DOMAIN after
  BY DEF NodesGrow, Grown
<1>3. ASSUME NEW i \in DOMAIN longer
      PROVE  /\ longer[i].from \in DOMAIN after
             /\ longer[i].sequence <= after[longer[i].from].sequence
             /\ after[longer[i].from].first_sequence <= longer[i].sequence
  <2>1. CASE i \in DOMAIN log
    <3>1. /\ longer[i] = log[i] /\ log[i].from \in DOMAIN nodes
          /\ log[i].sequence <= nodes[log[i].from].sequence
          /\ nodes[log[i].from].first_sequence <= log[i].sequence
          /\ log[i].sequence \in Nat \ {0}
      BY <1>1, <2>1 DEF Heard
    <3>2. CASE log[i].from = e.from
      <4>1. nodes[e.from].first_sequence # 0
        BY <3>1, <3>2 DEF Heard, NodesGrow
      <4> QED BY <1>2, <3>1, <3>2, <4>1 DEF NodesGrow
    <3>3. CASE log[i].from # e.from
      BY <1>2, <3>1, <3>3 DEF NodesGrow
    <3> QED BY <3>2, <3>3
  <2>2. CASE i = Len(log) + 1
    BY <1>2, <2>2 DEF NodesGrow, Heard
  <2> QED BY <1>1, <2>1, <2>2
<1>4. ASSUME NEW n \in DOMAIN after
      PROVE  /\ after[n].first_sequence <= after[n].sequence
             /\ after[n].first_sequence = 0 => after[n].sequence = 0
             /\ \/ after[n].sequence = 0
                \/ \E i \in DOMAIN longer : longer[i].from = n /\ longer[i].sequence = after[n].sequence
  <2>1. CASE n = e.from
    BY <1>1, <1>2, <2>1 DEF NodesGrow, Heard
  <2>2. CASE n # e.from /\ n \in DOMAIN nodes
    <3>1. after[n] = nodes[n]
      BY <2>2 DEF NodesGrow
    <3> QED BY <1>1, <2>2, <3>1 DEF Heard
  <2>3. CASE n \notin DOMAIN nodes
    <3>1. after[n] = Unheard
      BY <2>3 DEF NodesGrow
    <3> QED BY <3>1 DEF Unheard
  <2> QED BY <2>1, <2>2, <2>3
<1> QED BY <1>3, <1>4 DEF Heard

\* Complete is kept when an envelope is stored.
LEMMA CompleteGrows ==
  ASSUME NEW S, Chained(S), NEW log, NEW e \in S, NEW longer, Grown(log, e, longer),
         NEW nodes, NEW after, NodesGrow(nodes, e, after), Complete(nodes, log, S)
  PROVE  Complete(after, longer, S)
<1> SUFFICES ASSUME NEW f \in S, f.from \in DOMAIN after, f.sequence <= after[f.from].sequence
             PROVE  f \in ToSet(longer)
  BY DEF Complete
<1>1. ToSet(longer) = ToSet(log) \cup {e}
  BY GrownBefore
<1>2. /\ f.sequence \in Nat /\ f.sender_last \in Nat /\ f.sender_last < f.sequence
      /\ e.sequence \in Nat /\ e.sender_last \in Nat
  BY SealableIsEnvelope, Fields DEF Chained
<1>3. CASE f.from = e.from
  <2>1. f = e \/ f.sequence <= e.sender_last \/ e.sequence <= f.sender_last
    BY <1>3 DEF Chained
  <2>2. after[f.from].sequence = e.sequence /\ e.sender_last = nodes[e.from].sequence
        /\ e.from \in DOMAIN nodes
    BY <1>3 DEF NodesGrow
  <2>3. f = e \/ f.sequence <= nodes[f.from].sequence
    BY <1>2, <1>3, <2>1, <2>2
  <2> QED BY <1>1, <1>3, <2>2, <2>3 DEF Complete
<1>4. CASE f.from # e.from /\ f.from \in DOMAIN nodes
  BY <1>1, <1>4 DEF Complete, NodesGrow
<1>5. CASE f.from \notin DOMAIN nodes
  <2>1. after[f.from] = Unheard
    BY <1>5 DEF NodesGrow
  <2> QED BY <1>2, <2>1 DEF Unheard
<1> QED BY <1>3, <1>4, <1>5

\* Ordered is kept when an envelope is stored.
LEMMA OrderedGrows ==
  ASSUME NEW log, NEW e, NEW longer, Grown(log, e, longer), NEW nodes, NEW after,
         NodesGrow(nodes, e, after), Heard(nodes, log), Ordered(log),
         \A i \in DOMAIN log : log[i].sequence \in Nat
  PROVE  Ordered(longer)
<1> SUFFICES ASSUME NEW i \in DOMAIN longer, NEW j \in DOMAIN longer, i < j,
                    longer[i].from = longer[j].from
             PROVE  longer[i].sequence < longer[j].sequence
  BY DEF Ordered
<1>1. i \in DOMAIN log /\ longer[i] = log[i]
  BY DEF Grown
<1>2. CASE j \in DOMAIN log
  BY <1>1, <1>2 DEF Ordered, Grown
<1>3. CASE j \notin DOMAIN log
  <2>1. longer[j] = e
    BY <1>3 DEF Grown
  <2> QED BY <1>1, <2>1 DEF Heard, NodesGrow
<1> QED BY <1>2, <1>3

\* What check_receive and accept_message require of an envelope is Ready.
LEMMA AcceptableIsReady ==
  ASSUME NEW S, Chained(S), NEW ch, Remembers(ch, S), NEW e \in S, Acceptable(ch, e)
  PROVE  Ready(ToSet(LogOf(ch)), e)
<1> DEFINE nodes == ch.state.nodes
           log   == LogOf(ch)
<1>1. /\ Sound(ch) /\ Heard(nodes, log) /\ DOMAIN nodes = MembersOf(ToSet(log))
      /\ (ch.chat.owner = NoOwner <=> ch.storage.slab_count = 0)
  BY DEF Remembers, StoredOnly
<1>2. e \in Envelope /\ e.sequence \in Nat /\ e.cause \in Node /\ e.from \in Node
  BY SealableIsEnvelope, Fields DEF Chained
<1>3. /\ e.from \in DOMAIN nodes /\ ~MissingFromSender(nodes, e.from, e) /\ ~MissingCause(nodes, e)
      /\ Accepts(ch.chat, e.from, e.data)
  BY DEF Acceptable, CheckReceive
<1>4. \A n \in DOMAIN nodes :
          nodes[n].sequence = 0 \/ \E g \in ToSet(log) : g.from = n /\ g.sequence = nodes[n].sequence
  BY <1>1 DEF Heard, ToSet
<1>5. nodes \in [DOMAIN nodes -> NodeSequence]
  BY <1>1, Parts DEF Sound
<1>6. \A n \in DOMAIN nodes : nodes[n].sequence \in Nat
  BY <1>5, Numbers
<1> HIDE DEF nodes
<1>7. e.sender_last = 0 \/ \E g \in ToSet(log) : g.from = e.from /\ g.sequence = e.sender_last
  BY <1>3, <1>4 DEF MissingFromSender
<1>8. CauseTarget(e) # 0 => \E g \in ToSet(log) : g.from = e.cause /\ g.sequence >= CauseTarget(e)
  <2> SUFFICES ASSUME CauseTarget(e) # 0
               PROVE  \E g \in ToSet(log) : g.from = e.cause /\ g.sequence >= CauseTarget(e)
    OBVIOUS
  <2>1. CauseTarget(e) \in Nat
    BY <1>2 DEF CauseTarget
  <2>2. e.cause \in DOMAIN nodes /\ nodes[e.cause].sequence >= CauseTarget(e)
    BY <1>3, <1>6, <2>1 DEF MissingCause
  <2>3. nodes[e.cause].sequence # 0
    BY <1>6, <2>1, <2>2
  <2> QED BY <1>4, <2>2, <2>3
<1>9. e.from # Owner => \E g \in ToSet(log) : g.data = AddUser(e.from)
  BY <1>1, <1>3 DEF MembersOf
<1>10. e.data.kind # "NewChannel" => ToSet(log) # {}
  <2> SUFFICES ASSUME e.data.kind # "NewChannel" PROVE ToSet(log) # {}
    OBVIOUS
  <2>1. ch.chat.owner # NoOwner
    <3>1. MembersSound(ch)
      BY <1>1 DEF Sound
    <3> QED BY <1>2, <1>3, <3>1 DEF Accepts, MembersSound
  <2>2. ch.storage.slab_count \in Nat \ {0}
    BY <1>1, <2>1, Parts DEF Sound
  <2>3. 1 \in DOMAIN log
    BY <1>1, <2>2, LogIs
  <2> QED BY <2>3 DEF ToSet
<1> QED BY <1>7, <1>8, <1>9, <1>10 DEF Ready

\* The members are kept when an envelope is stored.
LEMMA MembersGrow ==
  ASSUME NEW K, NEW e \in Envelope
  PROVE  MembersOf(K \cup {e}) =
             MembersOf(K) \cup (IF e.data.kind = "AddUser" THEN {e.data.user} ELSE {})
<1>1. CASE e.data.kind = "AddUser"
  <2>1. e.data.user \in Node /\ e.data = AddUser(e.data.user)
    BY <1>1, Fields, Kinds
  <2>2. \A u \in Node : e.data = AddUser(u) <=> u = e.data.user
    BY <2>1 DEF AddUser
  <2> QED BY <1>1, <2>1, <2>2 DEF MembersOf
<1>2. CASE e.data.kind # "AddUser"
  <2>1. \A u \in Node : e.data # AddUser(u)
    BY <1>2 DEF AddUser
  <2> QED BY <1>2, <2>1 DEF MembersOf
<1> QED BY <1>1, <1>2

\* A device that stores an envelope remembers it, after all it takes to.
LEMMA StoredRemembers ==
  ASSUME NEW S, Chained(S), NEW ch, Remembers(ch, S), NEW e \in S, Acceptable(ch, e),
         ch.storage.slab_count < MaxSlabs
  PROVE  /\ Remembers(Stored(ch, e), S)
         /\ Grown(LogOf(ch), e, LogOf(Stored(ch, e)))
         /\ NodesGrow(ch.state.nodes, e, Stored(ch, e).state.nodes)
         /\ ~AddNodeFails(ch, e)
<1> DEFINE after  == Stored(ch, e)
           nodes  == ch.state.nodes
           log    == LogOf(ch)
           longer == LogOf(after)
<1>1. /\ e \in Sealable /\ e \in Envelope /\ Sound(ch) /\ StoredOnly(ch, S)
      /\ ch.storage.slab_count = Len(ch.storage.slabs)
  BY SealableIsEnvelope DEF Chained, Remembers, StoredOnly
<1>2. /\ Sound(after)
      /\ after.state = ReceivedState(ch.state, e)
      /\ after.chat = Accepted(ch.chat, e.data)
  BY <1>1, StoredSound
<1>3. /\ Grown(log, e, longer)
      /\ after.storage.slab_count = ch.storage.slab_count + 1
      /\ after.storage.slab_count = Len(after.storage.slabs)
      /\ after.storage.slabs[after.storage.slab_count] = NewRecord(ch, e)
      /\ \A i \in 1 .. ch.storage.slab_count : after.storage.slabs[i] = ch.storage.slabs[i]
  BY <1>1, LogGrows
<1>4. NodesGrow(nodes, e, after.state.nodes) /\ ~AddNodeFails(ch, e)
  BY <1>2, NodesGrowing
<1>5. /\ DOMAIN log = 1 .. ch.storage.slab_count
      /\ \A i \in DOMAIN log : log[i] = ch.storage.slabs[i].data /\ log[i] \in S
  BY <1>1, LogIs DEF StoredOnly
<1>6. \A g \in S : g.sequence \in Nat \ {0}
  <2>1. \A g \in S : g \in Envelope /\ g.sender_last < g.sequence
    BY SealableIsEnvelope DEF Chained
  <2>2. \A g \in S : g.sequence \in Nat /\ g.sender_last \in Nat
    BY <2>1, Fields
  <2> QED BY <2>1, <2>2
<1>7. \A i \in DOMAIN log : log[i].sequence \in Nat \ {0}
  BY <1>5, <1>6
<1>8. /\ Heard(nodes, log) /\ Complete(nodes, log, S) /\ Ordered(log) /\ ReadyInOrder(log)
      /\ DOMAIN nodes = MembersOf(ToSet(log))
  BY DEF Remembers
<1>9. Ready(ToSet(log), e)
  BY AcceptableIsReady
<1>10. StoredOnly(after, S)
  <2>1. NewRecord(ch, e).data = e /\ e.sequence <= NewRecord(ch, e).max_sequence
    <3>1. NewRecord(ch, e).max_sequence = ReceivedMax(nodes, ch.state.newest, e)
          /\ NewRecord(ch, e).data = e
      BY DEF NewRecord
    <3>2. /\ ch.state.newest \in DOMAIN nodes /\ nodes \in [DOMAIN nodes -> NodeSequence]
          /\ e.sequence \in Nat
      BY <1>1, <1>6, Parts DEF Sound, StateSound
    <3>3. nodes[ch.state.newest].sequence \in Nat
      BY <3>2, Numbers
    <3> QED BY <3>1, <3>2, <3>3 DEF ReceivedMax, IsNewer
  <2>2. after.chat.owner # NoOwner
    <3>1. Sound(InMemory(ch, e)) /\ InMemory(ch, e).chat.owner # NoOwner
      BY <1>1, InMemorySound
    <3> QED BY <1>2, <3>1 DEF InMemory
  <2>3. ch.storage.slab_count \in Nat
    BY <1>1, Parts DEF Sound
  <2> HIDE DEF after
  <2>4. ASSUME NEW i \in 1 .. Len(after.storage.slabs)
        PROVE  /\ after.storage.slabs[i].data \in S
               /\ after.storage.slabs[i].data.sequence <= after.storage.slabs[i].max_sequence
    <3>1. CASE i = after.storage.slab_count
      BY <1>3, <2>1, <3>1
    <3>2. CASE i # after.storage.slab_count
      <4>1. i \in 1 .. ch.storage.slab_count
        BY <1>3, <2>3, <3>2
      <4> QED BY <1>1, <1>3, <4>1 DEF StoredOnly
    <3> QED BY <3>1, <3>2
  <2> QED BY <1>3, <2>2, <2>3, <2>4 DEF StoredOnly
<1> HIDE DEF after, nodes, log, longer
<1>11. Heard(after.state.nodes, longer)
  BY <1>3, <1>4, <1>7, <1>8, HeardGrows
<1>12. Complete(after.state.nodes, longer, S)
  BY <1>3, <1>4, <1>8, CompleteGrows
<1>13. DOMAIN after.state.nodes = MembersOf(ToSet(longer))
  BY <1>1, <1>3, <1>4, <1>8, GrownBefore, MembersGrow DEF NodesGrow
<1>14. Ordered(longer)
  <2>1. \A i \in DOMAIN log : log[i].sequence \in Nat
    BY <1>7
  <2> QED BY <1>3, <1>4, <1>8, <2>1, OrderedGrows
<1>15. ReadyInOrder(longer)
  <2>1. /\ \A i \in DOMAIN log : Before(longer, i) = Before(log, i)
        /\ Before(longer, Len(log) + 1) = ToSet(log)
    BY <1>3, GrownBefore
  <2>2. /\ DOMAIN longer = DOMAIN log \cup {Len(log) + 1} /\ longer[Len(log) + 1] = e
        /\ \A i \in DOMAIN log : longer[i] = log[i]
    BY <1>3 DEF Grown
  <2> QED BY <1>8, <1>9, <2>1, <2>2 DEF ReadyInOrder
<1>16. Remembers(after, S)
  BY <1>2, <1>10, <1>11, <1>12, <1>13, <1>14, <1>15 DEF Remembers, longer
<1> QED BY <1>3, <1>4, <1>16 DEF after, nodes, log, longer

\* The numbers in the envelopes of a chain.
LEMMA ChainedNumbers ==
  ASSUME NEW S, Chained(S), NEW e \in S
  PROVE  /\ e \in Envelope /\ e \in Sealable
         /\ e.sequence \in Nat \ {0} /\ e.sender_last \in Nat /\ e.sender_last < e.sequence
<1>1. e \in Envelope /\ e \in Sealable /\ e.sender_last < e.sequence
  BY SealableIsEnvelope DEF Chained
<1>2. e.sequence \in Nat /\ e.sender_last \in Nat
  BY <1>1, Fields
<1> QED BY <1>1, <1>2

\* An envelope stays ready when more is known.
LEMMA ReadyStays ==
  ASSUME NEW K, NEW L, K \subseteq L, NEW e, Ready(K, e)
  PROVE  Ready(L, e)
  BY DEF Ready

\* The sequences of a device that remembers are numbers.
LEMMA RememberedNumbers ==
  ASSUME NEW S, NEW ch, Remembers(ch, S)
  PROVE  /\ \A n \in DOMAIN ch.state.nodes :
               /\ n \in Node
               /\ ch.state.nodes[n].sequence \in Nat
               /\ ch.state.nodes[n].first_sequence \in Nat
         /\ ToSet(LogOf(ch)) \subseteq S
         /\ \A e \in ToSet(LogOf(ch)) :
               /\ e.from \in DOMAIN ch.state.nodes
               /\ e.sequence <= ch.state.nodes[e.from].sequence
<1>1. Sound(ch) /\ StoredOnly(ch, S) /\ Heard(ch.state.nodes, LogOf(ch))
  BY DEF Remembers
<1>2. DOMAIN ch.state.nodes \subseteq Node /\ ch.state.nodes \in [DOMAIN ch.state.nodes -> NodeSequence]
  BY <1>1, Parts DEF Sound
<1>3. \A n \in DOMAIN ch.state.nodes :
         n \in Node /\ ch.state.nodes[n].sequence \in Nat /\ ch.state.nodes[n].first_sequence \in Nat
  BY <1>2, Numbers
<1>4. \A i \in DOMAIN LogOf(ch) : LogOf(ch)[i] \in S
  BY <1>1, LogIs DEF StoredOnly
<1> QED BY <1>1, <1>3, <1>4 DEF Heard, ToSet

\* An envelope that is passed over as a duplicate is stored.
LEMMA DuplicateIsStored ==
  ASSUME NEW S, Chained(S), NEW ch, Remembers(ch, S), NEW e \in S, Duplicate(ch, e)
  PROVE  e \in ToSet(LogOf(ch))
<1>1. e.sequence \in Nat /\ e.from \in DOMAIN ch.state.nodes
      /\ ch.state.nodes[e.from].sequence >= e.sequence
  BY ChainedNumbers DEF Duplicate, AlreadyReceived
<1>2. ch.state.nodes[e.from].sequence \in Nat
  BY <1>1, RememberedNumbers
<1>3. e.sequence <= ch.state.nodes[e.from].sequence
  BY <1>1, <1>2
<1> QED BY <1>1, <1>3 DEF Remembers, Complete

\* An envelope that is ready is accepted: where it adds a member there is room,
\* as the members of a device are among those of all envelopes.
LEMMA ReadyIsAcceptable ==
  ASSUME NEW S, Chained(S), IsFiniteSet(MembersOf(S)), Cardinality(MembersOf(S)) <= MaxNodes,
         NEW ch, Remembers(ch, S), NEW e \in S, ~Duplicate(ch, e), Ready(ToSet(LogOf(ch)), e)
  PROVE  Acceptable(ch, e)
<1> DEFINE nodes == ch.state.nodes
           K     == ToSet(LogOf(ch))
<1>1. /\ e \in Envelope /\ e \in Sealable
      /\ e.sequence \in Nat \ {0} /\ e.sender_last \in Nat /\ e.sender_last < e.sequence
      /\ e.from \in Node /\ e.data \in Payload(Node)
  BY ChainedNumbers, Fields
<1>2. /\ Sound(ch) /\ MembersSound(ch) /\ IsFiniteSet(DOMAIN nodes)
      /\ Heard(nodes, LogOf(ch)) /\ DOMAIN nodes = MembersOf(K)
      /\ (ch.chat.owner = NoOwner <=> ch.storage.slab_count = 0)
  BY DEF Remembers, StoredOnly, Sound, StateSound
<1>3. /\ \A n \in DOMAIN nodes : nodes[n].sequence \in Nat
      /\ K \subseteq S
      /\ \A g \in K : g.from \in DOMAIN nodes /\ g.sequence <= nodes[g.from].sequence
                      /\ g.sequence \in Nat
  BY RememberedNumbers, ChainedNumbers
<1>4. e.from \in DOMAIN nodes
  BY <1>1, <1>2 DEF Ready, MembersOf
<1>5. ~AlreadyReceived(nodes, e.from, e)
  BY <1>4 DEF Duplicate
<1>6. ~MissingFromSender(nodes, e.from, e)
  <2>1. e.sender_last <= nodes[e.from].sequence
    BY <1>1, <1>3, <1>4 DEF Ready
  <2>2. CASE nodes[e.from].sequence = 0
    BY <1>1, <2>1, <2>2 DEF MissingFromSender
  <2>3. CASE nodes[e.from].sequence # 0
    <3>1. PICK h \in K : h.from = e.from /\ h.sequence = nodes[e.from].sequence
      BY <1>2, <1>4, <2>3 DEF Heard, ToSet
    <3>2. h \in S /\ h.sequence \in Nat /\ h.sender_last \in Nat /\ h.sender_last < h.sequence
      BY <1>3, <3>1, ChainedNumbers
    <3>3. h.sequence < e.sequence
      BY <1>1, <1>3, <1>4, <1>5, <3>1 DEF AlreadyReceived
    <3>4. h = e \/ h.sequence <= e.sender_last \/ e.sequence <= h.sender_last
      BY <3>1, <3>2 DEF Chained
    <3>5. h.sequence <= e.sender_last
      BY <1>1, <3>2, <3>3, <3>4
    <3> QED BY <1>1, <2>1, <3>1, <3>2, <3>5 DEF MissingFromSender
  <2> QED BY <2>2, <2>3
<1>7. ~MissingCause(nodes, e)
  <2>1. CauseTarget(e) \in Nat
    BY <1>1 DEF CauseTarget
  <2>2. CASE CauseTarget(e) = 0
    BY <1>3, <2>2 DEF MissingCause
  <2>3. CASE CauseTarget(e) # 0
    <3>1. PICK g \in K : g.from = e.cause /\ g.sequence >= CauseTarget(e)
      BY <2>3 DEF Ready
    <3> QED BY <1>3, <2>1, <3>1 DEF MissingCause
  <2> QED BY <2>2, <2>3
<1>8. CheckReceive(nodes, e.from, e)
  BY <1>4, <1>5, <1>6, <1>7 DEF CheckReceive
<1>9. Accepts(ch.chat, e.from, e.data)
  <2>1. e.data.kind # "NewChannel" => ch.chat.owner = Owner /\ ch.chat.users = DOMAIN nodes
    <3> SUFFICES ASSUME e.data.kind # "NewChannel" PROVE ch.chat.owner # NoOwner
      BY <1>2 DEF MembersSound
    <3>1. K # {}
      BY DEF Ready
    <3>2. ch.storage.slab_count # 0
      <4> SUFFICES ASSUME ch.storage.slab_count = 0 PROVE FALSE
        OBVIOUS
      <4>1. DOMAIN LogOf(ch) = 1 .. 0
        BY <1>2, LogIs
      <4> QED BY <3>1, <4>1 DEF ToSet
    <3> QED BY <1>2, <3>2
  <2>2. CASE e.data.kind = "NewChannel"
    <3>1. e.data.user = Owner
      BY <1>1, <2>2 DEF Sealable
    <3>2. CanAddUser(ch.chat.users, Owner)
      <4>1. Owner \in DOMAIN nodes
        BY <1>2 DEF MembersOf
      <4>2. ch.chat.users = {} \/ Owner \in ch.chat.users
        BY <1>2, <4>1 DEF MembersSound
      <4>3. Cardinality({}) < MaxNodes
        BY FS_EmptySet
      <4> QED BY <4>2, <4>3 DEF CanAddUser
    <3> QED BY <2>2, <3>1, <3>2 DEF Accepts
  <2>3. CASE e.data.kind = "AddUser"
    <3>1. e.data.user \in Node /\ e.data = AddUser(e.data.user) /\ e.from = Owner
      BY <1>1, <2>3, Kinds DEF Chained
    <3>2. CanAddUser(DOMAIN nodes, e.data.user)
      <4>1. CASE e.data.user \in DOMAIN nodes
        BY <4>1 DEF CanAddUser
      <4>2. CASE e.data.user \notin DOMAIN nodes
        <5>1. DOMAIN nodes \subseteq MembersOf(S)
          BY <1>2, <1>3 DEF MembersOf
        <5>2. e.data.user \in MembersOf(S)
          BY <3>1 DEF MembersOf
        <5>3. /\ Cardinality(DOMAIN nodes) <= Cardinality(MembersOf(S))
              /\ Cardinality(DOMAIN nodes) # Cardinality(MembersOf(S))
          BY <4>2, <5>1, <5>2, FS_Subset
        <5>4. Cardinality(DOMAIN nodes) \in Nat /\ Cardinality(MembersOf(S)) \in Nat
          BY <1>2, FS_CardinalityType
        <5> QED BY <5>3, <5>4 DEF CanAddUser
      <4> QED BY <4>1, <4>2
    <3> QED BY <2>1, <2>3, <3>1, <3>2 DEF Accepts
  <2>4. CASE e.data.kind = "ChatMessage"
    BY <1>4, <2>1, <2>4 DEF Accepts
  <2> QED BY <1>1, <2>2, <2>3, <2>4, Kinds
<1> QED BY <1>8, <1>9 DEF Acceptable

\* A log has no envelope twice, so it is as long as the set of its envelopes.
LEMMA LogLength ==
  ASSUME NEW S, Chained(S), IsFiniteSet(S), NEW ch, Remembers(ch, S)
  PROVE  /\ ch.storage.slab_count <= Cardinality(S)
         /\ \A e \in S : e \notin ToSet(LogOf(ch)) => ch.storage.slab_count < Cardinality(S)
<1> DEFINE log == LogOf(ch)
           n   == ch.storage.slab_count
           K   == ToSet(log)
<1>1. Sound(ch) /\ Ordered(log)
  BY DEF Remembers
<1>2. n \in Nat /\ DOMAIN log = 1 .. n /\ log \in Seq(Sealable)
  BY <1>1, LogIs
<1>3. K \subseteq S /\ \A i \in 1 .. n : log[i] \in K
  BY <1>2, RememberedNumbers DEF ToSet
<1>4. \A i \in 1 .. n : log[i].sequence \in Nat
  BY <1>3, ChainedNumbers
<1>5. \A i, j \in 1 .. n : log[i] = log[j] => i = j
  <2> SUFFICES ASSUME NEW i \in 1 .. n, NEW j \in 1 .. n, log[i] = log[j], i # j PROVE FALSE
    OBVIOUS
  <2>1. i < j \/ j < i
    OBVIOUS
  <2> HIDE DEF log, n
  <2> QED BY <1>1, <1>2, <1>4, <2>1 DEF Ordered
<1>6. log \in Injection(1 .. n, K)
  <2> HIDE DEF log, K, n
  <2>1. log \in [1 .. n -> K]
    BY <1>2, <1>3
  <2> QED BY <1>5, <2>1 DEF Injection, IsInjective
<1>7. IsFiniteSet(K) /\ Cardinality(K) <= Cardinality(S)
      /\ (Cardinality(S) = Cardinality(K) => S = K)
  BY <1>3, FS_Subset
<1>8. Cardinality(1 .. n) <= Cardinality(K) /\ Cardinality(1 .. n) = n
  BY <1>2, <1>6, <1>7, FS_Injection, FS_Interval
<1>9. Cardinality(K) \in Nat /\ Cardinality(S) \in Nat
  BY <1>7, FS_CardinalityType
<1> HIDE DEF K, n
<1>10. n <= Cardinality(S)
  BY <1>2, <1>7, <1>8, <1>9
<1>11. ASSUME NEW e \in S, e \notin K PROVE n < Cardinality(S)
  BY <1>2, <1>7, <1>8, <1>9, <1>11
<1> QED BY <1>10, <1>11 DEF n, K

-----------------------------------------------------------------------------
(* Without faults: memory and records                                      *)

\* h goes from the state open_chat starts with to that of the channel, by one
\* record after the other.
Replays(h, ch) ==
    /\ h[0].state = [nodes |-> InitialNodes(Owner), newest |-> Owner] /\ h[0].chat = NewChat
    /\ \A i \in 1 .. ch.storage.slab_count :
          LET e == ch.storage.slabs[i].data IN
          /\ Acceptable(h[i - 1], e) /\ ~AddNodeFails(h[i - 1], e)
          /\ h[i].state = ReceivedState(h[i - 1].state, e)
          /\ h[i].chat = Accepted(h[i - 1].chat, e.data)
    /\ h[ch.storage.slab_count].state = ch.state
    /\ h[ch.storage.slab_count].chat = ch.chat

Recorded(ch) == \E h : Replays(h, ch)

\* Each record holds the number of texts up to it, and memory the number of all.
Counted(ch) ==
    /\ \A i \in 1 .. ch.storage.slab_count :
          ch.storage.slabs[i].message_count = Cardinality(Texts(LogOf(ch), i))
    /\ ch.chat.message_count = Cardinality(Texts(LogOf(ch), ch.storage.slab_count))

\* Recorded is kept when an envelope is stored.
LEMMA StoredRecorded ==
  ASSUME NEW S, Chained(S), NEW ch, Remembers(ch, S), Recorded(ch), NEW e \in S, Acceptable(ch, e),
         ch.storage.slab_count < MaxSlabs
  PROVE  Recorded(Stored(ch, e))
<1> DEFINE after == Stored(ch, e)
           n     == ch.storage.slab_count
<1>1. PICK h : Replays(h, ch)
  BY DEF Recorded
<1>2. /\ e \in Sealable /\ Sound(ch) /\ n \in Nat /\ n = Len(ch.storage.slabs)
  BY ChainedNumbers, Parts DEF Remembers, StoredOnly, Sound
<1>3. after.state = ReceivedState(ch.state, e) /\ after.chat = Accepted(ch.chat, e.data)
  BY <1>2, StoredSound
<1>4. /\ after.storage.slab_count = n + 1
      /\ after.storage.slabs[n + 1] = NewRecord(ch, e)
      /\ \A i \in 1 .. n : after.storage.slabs[i] = ch.storage.slabs[i]
      /\ NewRecord(ch, e).data = e
  BY SMTT(60), <1>2, LogGrows DEF NewRecord
<1>5. ~AddNodeFails(ch, e)
  BY NodesGrowing
<1> DEFINE g == [i \in 0 .. n + 1 |-> IF i <= n THEN h[i]
                                      ELSE [state |-> after.state, chat |-> after.chat]]
<1>6. \A i \in 0 .. n : g[i] = h[i]
  BY <1>2
<1>7. g[n + 1] = [state |-> after.state, chat |-> after.chat]
  BY <1>2
<1> HIDE DEF after, g, n
<1>8. Acceptable(h[n], e) /\ ~AddNodeFails(h[n], e) /\ h[n].state = ch.state /\ h[n].chat = ch.chat
  BY <1>1, <1>5 DEF Replays, Acceptable, AddNodeFails, n
<1>9. ASSUME NEW i \in 1 .. n + 1
      PROVE  LET f == after.storage.slabs[i].data IN
             /\ Acceptable(g[i - 1], f) /\ ~AddNodeFails(g[i - 1], f)
             /\ g[i].state = ReceivedState(g[i - 1].state, f)
             /\ g[i].chat = Accepted(g[i - 1].chat, f.data)
  <2>1. CASE i = n + 1
    <3>1. g[i - 1] = h[n] /\ g[i].state = after.state /\ g[i].chat = after.chat
          /\ after.storage.slabs[i].data = e
      BY <1>2, <1>4, <1>6, <1>7, <2>1
    <3> QED BY <1>3, <1>8, <3>1
  <2>2. CASE i # n + 1
    <3>1. i \in 1 .. n /\ i - 1 \in 0 .. n /\ i \in 0 .. n
      BY <1>2, <2>2
    <3>2. g[i - 1] = h[i - 1] /\ g[i] = h[i] /\ after.storage.slabs[i] = ch.storage.slabs[i]
      BY <1>4, <1>6, <3>1
    <3> QED BY <1>1, <3>1, <3>2 DEF Replays, n
  <2> QED BY <2>1, <2>2
<1>10. g[0] = h[0]
  BY <1>2, <1>6
<1>11. g[n + 1].state = after.state /\ g[n + 1].chat = after.chat
  BY <1>7
<1>12. Replays(g, after)
  BY <1>1, <1>4, <1>9, <1>10, <1>11 DEF Replays
<1> QED BY <1>12 DEF Recorded, after

\* A text more, or none, when an envelope is stored.
LEMMA TextsGrow ==
  ASSUME NEW log, NEW e \in Envelope, NEW longer, Grown(log, e, longer)
  PROVE  /\ \A i \in 0 .. Len(log) : Texts(longer, i) = Texts(log, i)
         /\ Cardinality(Texts(longer, Len(log) + 1)) =
               IF e.data.kind = "ChatMessage" THEN Cardinality(Texts(log, Len(log))) + 1
               ELSE Cardinality(Texts(log, Len(log)))
<1> DEFINE n == Len(log)
<1>1. n \in Nat /\ longer[n + 1] = e /\ \A i \in 1 .. n : longer[i] = log[i]
  BY DEF Grown
<1>2. e.data.kind = "ChatMessage" <=> e.data = ChatMessage
  BY Fields, Kinds DEF ChatMessage
<1> HIDE DEF n
<1>3. \A i \in 0 .. n : Texts(longer, i) = Texts(log, i)
  <2> SUFFICES ASSUME NEW i \in 0 .. n PROVE Texts(longer, i) = Texts(log, i)
    OBVIOUS
  <2>1. \A j \in 1 .. i : longer[j] = log[j]
    BY <1>1
  <2> QED BY <2>1 DEF Texts
<1>4. Texts(longer, n + 1) = Texts(log, n) \cup (IF e.data = ChatMessage THEN {n + 1} ELSE {})
  <2>1. 1 .. n + 1 = (1 .. n) \cup {n + 1}
    BY <1>1
  <2> QED BY <1>1, <2>1 DEF Texts
<1>5. IsFiniteSet(Texts(log, n)) /\ n + 1 \notin Texts(log, n)
  <2>1. IsFiniteSet(1 .. n)
    BY <1>1, FS_Interval
  <2>2. Texts(log, n) \in SUBSET (1 .. n)
    BY DEF Texts
  <2> QED BY <1>1, <2>1, <2>2, FS_Subset
<1>6. Cardinality(Texts(log, n) \cup {n + 1}) = Cardinality(Texts(log, n)) + 1
  BY <1>5, FS_AddElement
<1> QED BY <1>2, <1>3, <1>4, <1>6 DEF n

\* Counted is kept when an envelope is stored.
LEMMA StoredCounted ==
  ASSUME NEW S, Chained(S), NEW ch, Remembers(ch, S), Counted(ch), NEW e \in S, Acceptable(ch, e),
         ch.storage.slab_count < MaxSlabs
  PROVE  Counted(Stored(ch, e))
<1> DEFINE after  == Stored(ch, e)
           n      == ch.storage.slab_count
           log    == LogOf(ch)
           longer == LogOf(after)
<1>1. /\ e \in Sealable /\ e \in Envelope /\ Sound(ch) /\ n \in Nat /\ n = Len(ch.storage.slabs)
  BY ChainedNumbers, Parts DEF Remembers, StoredOnly, Sound
<1>2. after.chat = Accepted(ch.chat, e.data)
  BY <1>1, StoredSound
<1>3. /\ Grown(log, e, longer)
      /\ after.storage.slab_count = n + 1
      /\ after.storage.slabs[n + 1] = NewRecord(ch, e)
      /\ \A i \in 1 .. n : after.storage.slabs[i] = ch.storage.slabs[i]
  BY <1>1, LogGrows
<1>4. Len(log) = n
  BY <1>1, LogIs
<1>5. after.chat.message_count = MessageCountAfter(ch.chat, e.data)
      /\ NewRecord(ch, e).message_count = MessageCountAfter(ch.chat, e.data)
  BY <1>2 DEF Accepted, NewRecord
<1> HIDE DEF after, n, log, longer
<1>6. /\ \A i \in 0 .. n : Texts(longer, i) = Texts(log, i)
      /\ Cardinality(Texts(longer, n + 1)) =
            IF e.data.kind = "ChatMessage" THEN Cardinality(Texts(log, n)) + 1
            ELSE Cardinality(Texts(log, n))
  BY <1>1, <1>3, <1>4, TextsGrow
<1>7. MessageCountAfter(ch.chat, e.data) = Cardinality(Texts(longer, n + 1))
  BY <1>6 DEF Counted, MessageCountAfter, n, log
<1>8. ASSUME NEW i \in 1 .. n + 1
      PROVE  after.storage.slabs[i].message_count = Cardinality(Texts(longer, i))
  <2>1. CASE i = n + 1
    BY <1>3, <1>5, <1>7, <2>1
  <2>2. CASE i # n + 1
    <3>1. i \in 1 .. n /\ i \in 0 .. n
      BY <1>1, <2>2
    <3> QED BY <1>3, <1>6, <3>1 DEF Counted, n, log
  <2> QED BY <2>1, <2>2
<1> QED BY <1>3, <1>5, <1>7, <1>8 DEF Counted, after, longer

-----------------------------------------------------------------------------
(* open_chat gives the memory back                                         *)

Replayed(p, turns, progress) ==
    /\ progress.ok = TRUE
    /\ progress.channel.state = p[turns].state
    /\ progress.channel.chat = p[turns].chat

Reopening == INSTANCE FoldInduction WITH Op <- ReplayTurn, Kept <- Replayed

\* The loop of open_chat is a fold, to follow with the states of the channel.
LEMMA ReopenIsFold ==
  ASSUME NEW p, NEW base, NEW records
  PROVE  FoldLeft(ReplayNext, base, records) = Reopening!Fold(p, base, records)
  BY DEF Reopening!Fold, ReplayTurn, FoldLeft, Reopening!FoldLeft,
         MapThenFoldSet, Reopening!MapThenFoldSet, Max, Reopening!Max

\* open_chat gives back the memory that the records were written from.
LEMMA RecordedReplays ==
  ASSUME NEW S, NEW ch, Remembers(ch, S), Recorded(ch)
  PROVE  LET replayed == Replay(Owner, ch.storage) IN
         /\ replayed.ok
         /\ replayed.channel.state = ch.state
         /\ replayed.channel.chat = ch.chat
<1> DEFINE slabs   == ch.storage.slabs
           base    == [channel |-> ChannelRecord(Owner, slabs), ok |-> TRUE]
           records == IF slabs = <<>> THEN <<>> ELSE ReadFrom(ch.storage, 1)
<1>1. PICK h : Replays(h, ch)
  BY DEF Recorded
<1>2. slabs \in Seq(Record) /\ Len(slabs) \in Nat /\ ch.storage.slab_count = Len(slabs)
  BY Parts DEF Remembers, Sound, StoredOnly
<1>3. /\ DOMAIN records = 1 .. Len(slabs) /\ \A i \in 1 .. Len(slabs) : records[i] = slabs[i]
  <2>1. CASE slabs = <<>>
    BY <2>1
  <2>2. CASE slabs # <<>>
    <3>1. Len(slabs) \in Nat \ {0}
      BY <1>2, <2>2
    <3>2. records = SubSeq(slabs, 1, Len(slabs))
      BY <1>2, <2>2, <3>1 DEF ReadFrom
    <3> HIDE DEF slabs, records
    <3> QED BY <1>2, <3>1, <3>2
  <2> QED BY <2>1, <2>2
<1>4. Replayed(h, 0, base)
  BY <1>1 DEF Replayed, Replays, ChannelRecord
<1>5. /\ \A i \in 1 .. Len(slabs) :
            /\ Acceptable(h[i - 1], slabs[i].data) /\ ~AddNodeFails(h[i - 1], slabs[i].data)
            /\ h[i].state = ReceivedState(h[i - 1].state, slabs[i].data)
            /\ h[i].chat = Accepted(h[i - 1].chat, slabs[i].data.data)
      /\ h[Len(slabs)].state = ch.state /\ h[Len(slabs)].chat = ch.chat
  BY <1>1, <1>2 DEF Replays
<1> HIDE DEF slabs, base, records
<1>6. ASSUME NEW i \in 0 .. Len(slabs) - 1, NEW x, Replayed(h, i, x)
      PROVE  Replayed(h, i + 1, ReplayTurn(h, x, records[i + 1]))
  <2> DEFINE e    == slabs[i + 1].data
             next == ReplayNext(x, records[i + 1])
  <2>1. i + 1 \in 1 .. Len(slabs) /\ (i + 1) - 1 = i
    BY <1>2
  <2>2. /\ Acceptable(h[i], e) /\ ~AddNodeFails(h[i], e)
        /\ h[i + 1].state = ReceivedState(h[i].state, e)
        /\ h[i + 1].chat = Accepted(h[i].chat, e.data)
        /\ records[i + 1].data = e
    BY <1>3, <1>5, <2>1
  <2> HIDE DEF e
  <2>3. Acceptable(x.channel, e) /\ ~AddNodeFails(x.channel, e) /\ x.ok
    BY <1>6, <2>2 DEF Replayed, Acceptable, AddNodeFails
  <2>4. next = [channel |-> InMemory(x.channel, e), ok |-> TRUE]
    BY <2>2, <2>3 DEF ReplayNext
  <2> HIDE DEF next
  <2>5. /\ next.ok = TRUE
        /\ next.channel.state = ReceivedState(x.channel.state, e)
        /\ next.channel.chat = Accepted(x.channel.chat, e.data)
    BY <2>4 DEF InMemory
  <2>6. Replayed(h, i + 1, next)
    BY <1>6, <2>2, <2>5 DEF Replayed
  <2> QED BY <2>6 DEF ReplayTurn, next
<1> DEFINE opened == Reopening!Fold(h, base, records)
<1>7. Replayed(h, Len(slabs), opened)
  BY <1>2, <1>3, <1>4, <1>6, Reopening!FoldKeeps
<1>8. Replay(Owner, ch.storage) = opened
  BY ReopenIsFold DEF Replay, base, records, slabs
<1> QED BY <1>5, <1>7, <1>8 DEF Replayed

-----------------------------------------------------------------------------
(* get_message finds every text                                            *)

\* The cursor for an index is the first record that counts as many texts.
LEMMA IndexIs ==
  ASSUME NEW slabs \in Seq(Record), NEW index, NEW at \in 1 .. Len(slabs),
         slabs[at].message_count >= index,
         \A i \in 1 .. at - 1 : ~(slabs[i].message_count >= index)
  PROVE  CursorFromIndex(slabs, index) = at
<1> DEFINE fits == {i \in 1 .. Len(slabs) : slabs[i].message_count >= index}
<1>1. CursorFromIndex(slabs, index) = IF fits # {} THEN Min(fits) ELSE 0
  BY DEF CursorFromIndex, SelectInSeq
<1>2. at \in fits /\ fits \in SUBSET Nat
  OBVIOUS
<1>3. \A i \in fits : at <= i
  OBVIOUS
<1> HIDE DEF fits
<1>4. Receiving!Min(fits) \in fits /\ \A i \in fits : Receiving!Min(fits) <= i
  BY <1>2, Receiving!MinIs
<1>5. Min(fits) = Receiving!Min(fits)
  BY DEF Min, Receiving!Min
<1>6. Receiving!Min(fits) = at
  <2>1. \A x \in fits : x <= at /\ at <= x => x = at
    BY <1>2
  <2> QED BY <1>2, <1>3, <1>4, <2>1
<1> QED BY <1>1, <1>2, <1>5, <1>6

\* get_message finds a text by the number of texts up to it.
LEMMA CountedReads ==
  ASSUME NEW S, NEW ch, Remembers(ch, S), Counted(ch),
         NEW i \in DOMAIN LogOf(ch), LogOf(ch)[i].data = ChatMessage
  PROVE  GetMessage(ch, Cardinality(Texts(LogOf(ch), i))) = LogOf(ch)[i]
<1> DEFINE slabs == ch.storage.slabs
           log   == LogOf(ch)
           index == Cardinality(Texts(log, i))
<1>1. Sound(ch) /\ slabs \in Seq(Record) /\ Len(slabs) \in Nat /\ ch.storage.slab_count = Len(slabs)
  BY Parts DEF Remembers, Sound, StoredOnly
<1>2. i \in 1 .. Len(slabs) /\ log[i] = slabs[i].data
  BY <1>1, LogIs
<1>3. log[i].from \in DOMAIN ch.state.nodes
  BY DEF Remembers, Heard
<1>4. \A k \in 1 .. Len(slabs) : slabs[k].message_count = Cardinality(Texts(log, k))
  BY <1>1 DEF Counted
<1> HIDE DEF slabs
<1>5. IsFiniteSet(Texts(log, i)) /\ index \in Nat
  <2>1. IsFiniteSet(1 .. i) /\ Texts(log, i) \in SUBSET (1 .. i)
    BY <1>2, FS_Interval DEF Texts
  <2>2. IsFiniteSet(Texts(log, i))
    BY <2>1, FS_Subset
  <2> QED BY <2>2, FS_CardinalityType
<1>6. ASSUME NEW k \in 1 .. i - 1 PROVE Cardinality(Texts(log, k)) \in Nat /\ Cardinality(Texts(log, k)) < index
  <2>1. Texts(log, k) \in SUBSET Texts(log, i) /\ i \notin Texts(log, k) /\ i \in Texts(log, i)
    BY <1>2 DEF Texts
  <2>2. /\ IsFiniteSet(Texts(log, k)) /\ Cardinality(Texts(log, k)) <= index
        /\ index # Cardinality(Texts(log, k))
    BY <1>5, <2>1, FS_Subset
  <2>3. Cardinality(Texts(log, k)) \in Nat
    BY <2>2, FS_CardinalityType
  <2> QED BY <1>5, <2>2, <2>3
<1> HIDE DEF index, log
<1>7. CursorFromIndex(slabs, index) = i
  <2>1. slabs[i].message_count >= index
    BY <1>2, <1>4, <1>5 DEF index
  <2>2. ASSUME NEW k \in 1 .. i - 1 PROVE ~(slabs[k].message_count >= index)
    <3>1. k \in 1 .. Len(slabs) /\ slabs[k].message_count = Cardinality(Texts(log, k))
      BY <1>1, <1>2, <1>4
    <3>2. slabs[k].message_count \in Nat /\ slabs[k].message_count < index
      BY <1>6, <3>1
    <3> QED BY <1>5, <3>2
  <2> QED BY <1>1, <1>2, <2>1, <2>2, IndexIs
<1>8. i # NoCursor /\ slabs[i].data.data.kind = "ChatMessage"
  BY <1>2 DEF NoCursor, ChatMessage, log
<1> QED BY <1>2, <1>3, <1>7, <1>8 DEF GetMessage, index, log, slabs

-----------------------------------------------------------------------------
(* Without faults: what processing a response does to a device             *)

Faultless(ch, S) == Remembers(ch, S) /\ Recorded(ch) /\ Counted(ch)

\* There are no more members than there is room for.
MembersFit(S) == IsFiniteSet(MembersOf(S)) /\ Cardinality(MembersOf(S)) <= MaxNodes

Extends(log, longer) ==
    /\ Len(log) <= Len(longer)
    /\ \A i \in 1 .. Len(log) : longer[i] = log[i]

Forward(nodes, after) ==
    /\ DOMAIN nodes \subseteq DOMAIN after
    /\ \A n \in DOMAIN nodes : nodes[n].sequence <= after[n].sequence

\* What is new is from the response, and what was before it there is before it here.
FromData(log, longer, data, turns) ==
    \A k \in Len(log) + 1 .. Len(longer) :
        \E j \in 1 .. turns : longer[k] = data[j] /\ \A i \in 1 .. j - 1 : data[i] \in Before(longer, k)

\* A device that knows K can process each envelope when its turn comes.
Receivable(K, data) ==
    \A i \in DOMAIN data : Ready(K \cup {data[j] : j \in 1 .. i - 1}, data[i])

\* What `turns' turns have made of the device p.start.
Filled(p, turns, progress) ==
    /\ progress.ok \in BOOLEAN
    /\ \/ progress.channel = Halted /\ ~progress.ok /\ Cardinality(p.all) > MaxSlabs
       \/ /\ Faultless(progress.channel, p.all)
          /\ Extends(LogOf(p.start), LogOf(progress.channel))
          /\ Forward(p.start.state.nodes, progress.channel.state.nodes)
          /\ FromData(LogOf(p.start), LogOf(progress.channel), p.data, turns)
          /\ progress.ok => \A j \in 1 .. turns : p.data[j] \in ToSet(LogOf(progress.channel))
          /\ Receivable(ToSet(LogOf(p.start)), p.data) => progress.ok \/ Cardinality(p.all) > MaxSlabs

Filling == INSTANCE FoldInduction WITH Op <- ReceiveTurn, Kept <- Filled

\* Without panics, receive_buffer is the fold of ReceiveTurn.
LEMMA FillingIsFold ==
  ASSUME NEW p, p.long = {}, NEW ch, NEW envelopes
  PROVE  ReceiveBuffer(ch, envelopes) = Filling!Fold(p, [channel |-> ch, ok |-> TRUE], envelopes)
  BY DEF ReceiveBuffer, ReceiveBufferWith, Filling!Fold, ReceiveTurn, FoldLeft, Filling!FoldLeft,
         MapThenFoldSet, Filling!MapThenFoldSet, Max, Filling!Max

\* Storing an envelope, a device stays without fault.
LEMMA StoredFaultless ==
  ASSUME NEW S, Chained(S), NEW ch, Faultless(ch, S), NEW e \in S, Acceptable(ch, e),
         ch.storage.slab_count < MaxSlabs
  PROVE  Faultless(Stored(ch, e), S)
  BY StoredRemembers, StoredRecorded, StoredCounted DEF Faultless

\* One more envelope at the end leaves all that was there in place.
LEMMA ExtendsOn ==
  ASSUME NEW log, Len(log) \in Nat, NEW longer, Extends(log, longer),
         NEW e, NEW longest, Grown(longer, e, longest)
  PROVE  Extends(log, longest) /\ ToSet(longer) \subseteq ToSet(longest) /\ e \in ToSet(longest)
<1>1. ToSet(longest) = ToSet(longer) \cup {e}
  BY GrownBefore
<1>2. Extends(log, longest)
  BY DEF Extends, Grown
<1> QED BY <1>1, <1>2

\* Sequences that go forward go on forward.
LEMMA ForwardOn ==
  ASSUME NEW nodes, NEW after, Forward(nodes, after), NEW e, NEW last, NodesGrow(after, e, last),
         \A n \in DOMAIN nodes : nodes[n].sequence \in Nat
  PROVE  Forward(nodes, last)
<1>1. DOMAIN nodes \subseteq DOMAIN last
  BY DEF Forward, NodesGrow
<1>2. ASSUME NEW n \in DOMAIN nodes PROVE nodes[n].sequence <= last[n].sequence
  <2>1. n \in DOMAIN after /\ nodes[n].sequence \in Nat /\ nodes[n].sequence <= after[n].sequence
    BY DEF Forward
  <2>2. CASE n = e.from
    BY <2>1, <2>2 DEF NodesGrow
  <2>3. CASE n # e.from
    BY <2>1, <2>3 DEF NodesGrow
  <2> QED BY <2>2, <2>3
<1> QED BY <1>1, <1>2 DEF Forward

\* One turn more of receive_buffer stores what is next in the response.
LEMMA FromDataOn ==
  ASSUME NEW log, Len(log) \in Nat, NEW longer, NEW data, NEW turns \in Nat,
         FromData(log, longer, data, turns), NEW longest, Grown(longer, data[turns + 1], longest),
         \A j \in 1 .. turns : data[j] \in ToSet(longer)
  PROVE  FromData(log, longest, data, turns + 1)
<1>1. /\ \A i \in DOMAIN longer : Before(longest, i) = Before(longer, i)
      /\ Before(longest, Len(longer) + 1) = ToSet(longer)
  BY GrownBefore
<1>2. /\ Len(longer) \in Nat /\ DOMAIN longer = 1 .. Len(longer) /\ Len(longest) = Len(longer) + 1
      /\ longest[Len(longer) + 1] = data[turns + 1]
      /\ \A i \in 1 .. Len(longer) : longest[i] = longer[i]
  BY DEF Grown
<1> SUFFICES ASSUME NEW k \in Len(log) + 1 .. Len(longest)
             PROVE  \E j \in 1 .. turns + 1 :
                       longest[k] = data[j] /\ \A i \in 1 .. j - 1 : data[i] \in Before(longest, k)
  BY DEF FromData
<1>3. CASE k = Len(longer) + 1
  <2>1. /\ turns + 1 \in 1 .. turns + 1 /\ longest[k] = data[turns + 1]
        /\ \A i \in 1 .. (turns + 1) - 1 : data[i] \in Before(longest, k)
    BY <1>1, <1>2, <1>3
  <2> QED BY <2>1
<1>4. CASE k # Len(longer) + 1
  <2>1. k \in Len(log) + 1 .. Len(longer) /\ k \in DOMAIN longer
    BY <1>2, <1>4
  <2>2. longest[k] = longer[k] /\ Before(longest, k) = Before(longer, k)
    BY <1>1, <1>2, <2>1
  <2>3. PICK j \in 1 .. turns :
           longer[k] = data[j] /\ \A i \in 1 .. j - 1 : data[i] \in Before(longer, k)
    BY <2>1 DEF FromData
  <2>4. j \in 1 .. turns + 1
    OBVIOUS
  <2> QED BY <2>2, <2>3, <2>4
<1> QED BY <1>3, <1>4

\* A turn of receive_buffer that stores, passes over or refuses an envelope.
LEMMA FillingTurn ==
  ASSUME NEW p, p.long = {}, Chained(p.all), IsFiniteSet(p.all), MembersFit(p.all),
         Remembers(p.start, p.all), p.data \in Seq(p.all),
         NEW i \in 0 .. Len(p.data) - 1, NEW x, Filled(p, i, x)
  PROVE  Filled(p, i + 1, ReceiveTurn(p, x, p.data[i + 1]))
<1> DEFINE S    == p.all
           ch   == x.channel
           e    == p.data[i + 1]
           next == ReceiveNext(x, e, p.long)
           log  == LogOf(ch)
           from == LogOf(p.start)
<1>1. ReceiveTurn(p, x, e) = next
  BY ReceiveStepIs DEF ReceiveTurn
<1>2. e \in S /\ i \in Nat /\ i + 1 \in 1 .. Len(p.data) /\ i + 1 \in DOMAIN p.data
  OBVIOUS
<1>3. Len(from) \in Nat /\ DOMAIN from = 1 .. Len(from)
      /\ \A n \in DOMAIN p.start.state.nodes : p.start.state.nodes[n].sequence \in Nat
  BY LogIs, RememberedNumbers DEF Remembers
<1>4. FromData(from, log, p.data, i) => FromData(from, log, p.data, i + 1)
  <2> HIDE DEF from, log
  <2> QED BY <1>2 DEF FromData
<1>5. CASE ~x.ok
  <2>1. next = x
    BY <1>5 DEF ReceiveNext
  <2> HIDE DEF next
  <2> QED BY <1>1, <1>4, <1>5, <2>1 DEF Filled
<1>6. ASSUME x.ok
      PROVE  /\ x.ok = TRUE
             /\ Faultless(ch, S) /\ Remembers(ch, S)
             /\ Extends(from, log)
             /\ Forward(p.start.state.nodes, ch.state.nodes)
             /\ FromData(from, log, p.data, i)
             /\ \A j \in 1 .. i : p.data[j] \in ToSet(log)
  BY <1>6 DEF Filled, Faultless
<1>7. CASE x.ok /\ Duplicate(ch, e)
  <2>1. next = x
    BY <1>7 DEF ReceiveNext
  <2>2. e \in ToSet(log)
    BY <1>2, <1>6, <1>7, DuplicateIsStored
  <2>3. \A j \in 1 .. i + 1 : p.data[j] \in ToSet(log)
    <3>1. \A j \in 1 .. i + 1 : j \in 1 .. i \/ j = i + 1
      BY <1>2
    <3> HIDE DEF log
    <3> QED BY <1>6, <1>7, <2>2, <3>1
  <2> HIDE DEF next
  <2> QED BY <1>1, <1>4, <1>6, <1>7, <2>1, <2>3 DEF Filled
<1>8. CASE x.ok /\ ~Duplicate(ch, e) /\ Acceptable(ch, e)
  <2>1. next = Processed(ch, e, e \notin p.long \/ ~MayOutgrow(ch, e))
    BY <1>8 DEF ReceiveNext
  <2>2. next = Processed(ch, e, TRUE)
    BY <2>1
  <2>3. ~AddNodeFails(ch, e)
    BY <1>2, <1>6, <1>8, NodesGrowing
  <2>4. CASE ch.storage.slab_count >= MaxSlabs
    <3>1. next = [channel |-> Halted, ok |-> FALSE]
      BY <2>2, <2>3, <2>4 DEF Processed
    <3>2. e \notin ToSet(log)
      <4> SUFFICES ASSUME e \in ToSet(log) PROVE FALSE
        OBVIOUS
      <4>1. /\ e.from \in DOMAIN ch.state.nodes /\ ch.state.nodes[e.from].sequence \in Nat
            /\ e.sequence <= ch.state.nodes[e.from].sequence /\ e.sequence \in Nat
        <5>1. Remembers(ch, S) /\ Chained(S) /\ e \in S /\ e \in ToSet(LogOf(ch))
          BY <1>2, <1>6, <1>8
        <5> HIDE DEF S, ch, e
        <5>2. e.sequence \in Nat
          BY <5>1, ChainedNumbers
        <5>3. e.from \in DOMAIN ch.state.nodes /\ e.sequence <= ch.state.nodes[e.from].sequence
          BY <5>1, RememberedNumbers
        <5>4. \A n \in DOMAIN ch.state.nodes : ch.state.nodes[n].sequence \in Nat
          BY <5>1, RememberedNumbers
        <5> QED BY <5>2, <5>3, <5>4
      <4> HIDE DEF e, ch
      <4> QED BY <1>8, <4>1 DEF Duplicate, AlreadyReceived
    <3>3. ch.storage.slab_count < Cardinality(S)
      BY <1>2, <1>6, <1>8, <3>2, LogLength
    <3>4. ch.storage.slab_count \in Nat /\ Cardinality(S) \in Nat
      BY <1>6, <1>8, Parts, FS_CardinalityType DEF Remembers, Sound
    <3>5. Cardinality(S) > MaxSlabs
      BY <2>4, <3>3, <3>4
    <3> HIDE DEF next
    <3> QED BY <1>1, <3>1, <3>5 DEF Filled
  <2>5. CASE ~(ch.storage.slab_count >= MaxSlabs)
    <3>1. ch.storage.slab_count < MaxSlabs
      <4>1. ch.storage.slab_count \in Nat
        BY <1>6, <1>8, Parts DEF Remembers, Sound
      <4> QED BY <2>5, <4>1
    <3> DEFINE after  == Stored(ch, e)
               longer == LogOf(after)
    <3>2. next = [channel |-> after, ok |-> TRUE]
      BY <2>2, <2>3, <2>5, <3>1 DEF Processed
    <3>3. /\ Faultless(after, S)
          /\ Grown(log, e, longer)
          /\ NodesGrow(ch.state.nodes, e, after.state.nodes)
      BY <1>2, <1>6, <1>8, <3>1, StoredFaultless, StoredRemembers
    <3> HIDE DEF after, log, longer, next
    <3>4. Extends(from, longer) /\ ToSet(log) \subseteq ToSet(longer) /\ e \in ToSet(longer)
      BY <1>3, <1>6, <1>8, <3>3, ExtendsOn
    <3>5. Forward(p.start.state.nodes, after.state.nodes)
      BY <1>3, <1>6, <1>8, <3>3, ForwardOn
    <3>6. FromData(from, longer, p.data, i + 1)
      BY <1>2, <1>3, <1>6, <1>8, <3>3, FromDataOn
    <3>7. \A j \in 1 .. i + 1 : p.data[j] \in ToSet(longer)
      <4>1. \A j \in 1 .. i + 1 : j \in 1 .. i \/ j = i + 1
        BY <1>2
      <4> QED BY <1>6, <1>8, <3>4, <4>1
    <3> QED BY <1>1, <3>2, <3>3, <3>4, <3>5, <3>6, <3>7 DEF Filled, longer
  <2> QED BY <2>4, <2>5
<1>9. CASE x.ok /\ ~Duplicate(ch, e) /\ ~Acceptable(ch, e)
  <2>1. next = [channel |-> ch, ok |-> FALSE]
    BY <1>9 DEF ReceiveNext
  <2>2. ~Receivable(ToSet(from), p.data)
    <3> SUFFICES ASSUME Receivable(ToSet(from), p.data) PROVE FALSE
      OBVIOUS
    <3>1. Ready(ToSet(from) \cup {p.data[j] : j \in 1 .. (i + 1) - 1}, e)
      BY <1>2 DEF Receivable
    <3>2. ToSet(from) \cup {p.data[j] : j \in 1 .. (i + 1) - 1} \subseteq ToSet(log)
      <4>1. ToSet(from) \subseteq ToSet(log)
        <5>1. Len(log) \in Nat /\ DOMAIN log = 1 .. Len(log)
          BY <1>6, <1>9, LogIs DEF Remembers
        <5>2. \A k \in DOMAIN from : k \in DOMAIN log /\ log[k] = from[k]
          BY <1>3, <1>6, <1>9, <5>1 DEF Extends
        <5> QED BY <5>2 DEF ToSet
      <4>2. \A j \in 1 .. (i + 1) - 1 : j \in 1 .. i
        BY <1>2
      <4> QED BY <1>6, <1>9, <4>1, <4>2
    <3>3. Ready(ToSet(log), e)
      BY <3>1, <3>2, ReadyStays
    <3> QED BY <1>2, <1>6, <1>9, <3>3, ReadyIsAcceptable DEF MembersFit
  <2> HIDE DEF next
  <2> QED BY <1>1, <1>4, <1>6, <1>9, <2>1, <2>2 DEF Filled
<1> QED BY <1>5, <1>7, <1>8, <1>9, Zenon

\* Processing a response: what the device had stays in place, what it did not have comes from
\* the response in its order, and a response that is receivable is received whole.
LEMMA ReceiveFills ==
  ASSUME NEW S, Chained(S), IsFiniteSet(S), MembersFit(S),
         NEW ch, Faultless(ch, S), NEW data \in Seq(S)
  PROVE  LET received == ReceiveBuffer(ch, data)
             after    == received.channel
         IN  /\ received.ok \in BOOLEAN
             /\ \/ after = Halted /\ ~received.ok /\ Cardinality(S) > MaxSlabs
                \/ /\ Faultless(after, S)
                   /\ Extends(LogOf(ch), LogOf(after))
                   /\ Forward(ch.state.nodes, after.state.nodes)
                   /\ FromData(LogOf(ch), LogOf(after), data, Len(data))
                   /\ received.ok => ToSet(data) \subseteq ToSet(LogOf(after))
                   /\ Receivable(ToSet(LogOf(ch)), data) => received.ok \/ Cardinality(S) > MaxSlabs
<1> DEFINE p    == [start |-> ch, data |-> data, all |-> S, long |-> {}]
           base == [channel |-> ch, ok |-> TRUE]
           n    == Len(data)
<1>1. n \in Nat /\ DOMAIN data = 1 .. n
  OBVIOUS
<1>2. p.start = ch /\ p.data = data /\ p.all = S /\ p.long = {} /\ Remembers(ch, S)
  BY DEF Faultless
<1>3. Filled(p, 0, base)
  <2>1. Len(LogOf(ch)) \in Nat /\ \A k \in DOMAIN ch.state.nodes : ch.state.nodes[k].sequence \in Nat
    BY <1>2, LogIs, RememberedNumbers DEF Remembers
  <2>2. /\ Extends(LogOf(ch), LogOf(ch)) /\ Forward(ch.state.nodes, ch.state.nodes)
        /\ FromData(LogOf(ch), LogOf(ch), data, 0)
    BY <2>1 DEF Extends, Forward, FromData
  <2> QED BY <2>2 DEF Filled
<1> HIDE DEF p, base
<1>4. \A i \in 0 .. n - 1 : \A x : Filled(p, i, x) => Filled(p, i + 1, ReceiveTurn(p, x, data[i + 1]))
  BY <1>2, FillingTurn
<1> DEFINE received == Filling!Fold(p, base, data)
<1>5. Filled(p, n, received)
  BY <1>1, <1>3, <1>4, Filling!FoldKeeps
<1>6. ReceiveBuffer(ch, data) = received
  BY <1>2, FillingIsFold DEF base
<1> HIDE DEF received
<1>7. (\A j \in 1 .. n : data[j] \in ToSet(LogOf(received.channel))) =>
          ToSet(data) \subseteq ToSet(LogOf(received.channel))
  BY <1>1 DEF ToSet
<1> QED BY <1>2, <1>5, <1>6, <1>7 DEF Filled

-----------------------------------------------------------------------------
(* Without faults: what a response holds for the device that asked         *)

\* A clock the device sent at some time: it has at least what the clock says.
Behind(clock, nodes) ==
    /\ DOMAIN clock \subseteq DOMAIN nodes
    /\ \A n \in DOMAIN clock : clock[n] \in Nat /\ clock[n] <= nodes[n].sequence

\* What the responder starts after, the device that asked has.
LEMMA OldIsHeld ==
  ASSUME NEW S, Chained(S), NEW asker, Remembers(asker, S), NEW r, Remembers(r, S),
         NEW clock, Behind(clock, asker.state.nodes),
         NEW k \in 1 .. r.storage.slab_count,
         ~(r.storage.slabs[k].max_sequence >= GetMinSequence(StartSyncResponse(r, clock)))
  PROVE  LogOf(r)[k] \in ToSet(LogOf(asker))
<1> DEFINE mine   == r.state.nodes
           theirs == asker.state.nodes
           e      == LogOf(r)[k]
           merged == StartSyncResponse(r, clock)
           values == {merged[n] : n \in DOMAIN merged}
           least  == GetMinSequence(merged)
<1>1. /\ Sound(r) /\ StoredOnly(r, S) /\ Heard(mine, LogOf(r))
      /\ DOMAIN LogOf(r) = 1 .. r.storage.slab_count
      /\ e = r.storage.slabs[k].data /\ e \in S
      /\ e.sequence <= r.storage.slabs[k].max_sequence
      /\ r.storage.slabs[k].max_sequence \in Nat
  <2>1. Sound(r) /\ StoredOnly(r, S) /\ Heard(mine, LogOf(r))
    BY DEF Remembers
  <2>2. /\ r.storage.slabs \in Seq(Record) /\ r.storage.slab_count = Len(r.storage.slabs)
    BY <2>1, Parts DEF Sound, StoredOnly
  <2>3. r.storage.slabs[k] \in Record
    BY <2>2
  <2>4. r.storage.slabs[k].max_sequence \in Nat
    BY <2>3 DEF Record, Sequence
  <2> QED BY <2>1, <2>2, <2>4, LogIs DEF StoredOnly
<1>2. e.sequence \in Nat \ {0}
  BY <1>1, ChainedNumbers
<1>3. /\ \A n \in DOMAIN mine : mine[n].sequence \in Nat /\ mine[n].first_sequence \in Nat
      /\ \A n \in DOMAIN theirs : theirs[n].sequence \in Nat
  BY RememberedNumbers
<1>4. e.from \in DOMAIN mine /\ mine[e.from].first_sequence <= e.sequence
  BY <1>1 DEF Heard
<1>5. /\ DOMAIN merged = DOMAIN mine \cup DOMAIN clock
      /\ \A n \in DOMAIN merged :
            merged[n] = IF n \in DOMAIN clock THEN clock[n] ELSE mine[n].first_sequence
  BY DEF StartSyncResponse
<1> HIDE DEF merged, mine, theirs, e
<1>6. \A n \in DOMAIN merged : merged[n] \in Nat
  BY <1>3, <1>5 DEF Behind
<1>7. least <= merged[e.from]
  <2>1. values \in SUBSET Nat /\ merged[e.from] \in values
    BY <1>4, <1>5, <1>6
  <2>2. least = Receiving!Min(values)
    BY DEF GetMinSequence, Min, Receiving!Min
  <2>3. Receiving!Min(values) \in values /\ \A v \in values : Receiving!Min(values) <= v
    <3> HIDE DEF values
    <3> QED BY <2>1, Receiving!MinIs
  <2> QED BY <2>1, <2>2, <2>3
<1>8. least \in Nat
  <2>1. values \in SUBSET Nat /\ merged[e.from] \in values
    BY <1>4, <1>5, <1>6
  <2>2. least = Receiving!Min(values)
    BY DEF GetMinSequence, Min, Receiving!Min
  <2> HIDE DEF values
  <2>3. Receiving!Min(values) \in values
    BY <2>1, Receiving!MinIs
  <2> QED BY <2>1, <2>2, <2>3
<1>9. e.sequence < least
  BY <1>1, <1>2, <1>8 DEF merged
<1> HIDE DEF least
<1>10. e.sequence < merged[e.from]
  BY <1>2, <1>4, <1>5, <1>6, <1>7, <1>8, <1>9
<1>11. e.from \in DOMAIN clock
  BY <1>2, <1>3, <1>4, <1>5, <1>10
<1>12. e.from \in DOMAIN theirs /\ e.sequence <= theirs[e.from].sequence
  BY <1>2, <1>3, <1>5, <1>10, <1>11 DEF Behind, theirs
<1> QED BY <1>1, <1>12 DEF Remembers, Complete, theirs, e

\* A response holds envelopes that were sealed.
LEMMA ResponseStored ==
  ASSUME NEW S, NEW r, Remembers(r, S), NEW clock, CanRespond(r, clock)
  PROVE  Response(r, clock) \in Seq(S)
<1> DEFINE slabs == r.storage.slabs
           count == r.storage.slab_count
<1>1. Sound(r) /\ StoredOnly(r, S) /\ count = Len(slabs) /\ count \in Nat
  BY Parts DEF Remembers, StoredOnly, Sound
<1>2. PICK first \in 1 .. Len(slabs), n \in Nat \ {0} :
         LET last == IF first > count THEN first ELSE count IN
         /\ Response(r, clock) = [i \in 1 .. n |-> slabs[first + i - 1].data]
         /\ first + n - 1 <= last
  BY <1>1, ResponseIs
<1>3. \A i \in 1 .. n : slabs[first + i - 1].data \in S
  <2>1. \A i \in 1 .. n : first + i - 1 \in 1 .. Len(slabs)
    BY <1>1, <1>2
  <2> QED BY <1>1, <2>1 DEF StoredOnly
<1> HIDE DEF slabs
<1> QED BY SMTT(60), <1>2, <1>3

\* The device that asked can process every envelope of the response, whatever it
\* stored since.
LEMMA ResponseReceivable ==
  ASSUME NEW S, Chained(S), NEW asker, Remembers(asker, S), NEW r, Remembers(r, S),
         NEW clock, Behind(clock, asker.state.nodes), CanRespond(r, clock)
  PROVE  LET data == Response(r, clock) IN
         /\ data \in Seq(S)
         /\ Receivable(ToSet(LogOf(asker)), data)
         /\ \A i \in DOMAIN data : \E k \in DOMAIN LogOf(r) :
               /\ data[i] = LogOf(r)[k]
               /\ Before(LogOf(r), k) \subseteq ToSet(LogOf(asker)) \cup {data[j] : j \in 1 .. i - 1}
         /\ r.storage.slab_count <= BufferRecords =>
               ToSet(LogOf(r)) \subseteq ToSet(LogOf(asker)) \cup ToSet(data)
<1> DEFINE slabs == r.storage.slabs
           count == r.storage.slab_count
           log   == LogOf(r)
           K     == ToSet(LogOf(asker))
           data  == Response(r, clock)
           least == GetMinSequence(StartSyncResponse(r, clock))
<1>1. Sound(r) /\ StoredOnly(r, S) /\ ReadyInOrder(log) /\ count = Len(slabs) /\ count \in Nat
  BY Parts DEF Remembers, StoredOnly, Sound
<1>2. /\ DOMAIN log = 1 .. count
      /\ \A i \in 1 .. count : log[i] = slabs[i].data /\ log[i] \in S
  BY <1>1, LogIs DEF StoredOnly
<1>3. PICK first \in 1 .. Len(slabs), n \in Nat \ {0} :
         LET last == IF first > count THEN first ELSE count IN
         /\ data = [i \in 1 .. n |-> slabs[first + i - 1].data]
         /\ first + n - 1 <= last
         /\ n = BufferRecords \/ first + n - 1 = last
         /\ \A i \in 1 .. first - 1 : ~(slabs[i].max_sequence >= least)
  BY <1>1, ResponseIs
<1>4. \A k \in 1 .. first - 1 : log[k] \in K
  <2>1. \A k \in 1 .. first - 1 : k \in 1 .. count
    BY <1>1
  <2> QED BY <1>3, <2>1, OldIsHeld
<1> HIDE DEF slabs, count, log, data, K, least
<1>5. first + n - 1 <= count /\ (n = BufferRecords \/ first + n - 1 = count)
  BY <1>1, <1>3
<1>6. /\ DOMAIN data = 1 .. n
      /\ \A i \in 1 .. n : first + i - 1 \in 1 .. count /\ data[i] = log[first + i - 1] /\ data[i] \in S
  <2>1. \A i \in 1 .. n : first + i - 1 \in 1 .. count
    BY <1>1, <1>5
  <2> QED BY <1>2, <1>3, <2>1
<1>7. data \in Seq(S)
  <2>1. data = [i \in 1 .. n |-> data[i]]
    BY <1>3
  <2> QED BY SMTT(60), <1>6, <2>1
<1>8. ASSUME NEW i \in 1 .. n
      PROVE  /\ Ready(K \cup {data[j] : j \in 1 .. i - 1}, data[i])
             /\ Before(log, first + i - 1) \subseteq K \cup {data[j] : j \in 1 .. i - 1}
  <2>1. Ready(Before(log, first + i - 1), data[i])
    BY <1>1, <1>2, <1>6 DEF ReadyInOrder
  <2>2. Before(log, first + i - 1) \subseteq K \cup {data[j] : j \in 1 .. i - 1}
    <3> SUFFICES ASSUME NEW k \in 1 .. (first + i - 1) - 1
                 PROVE  log[k] \in K \cup {data[j] : j \in 1 .. i - 1}
      BY DEF Before
    <3>1. CASE k <= first - 1
      <4>1. k \in 1 .. first - 1
        BY <3>1
      <4> QED BY <1>4, <4>1
    <3>2. CASE ~(k <= first - 1)
      <4> DEFINE j == k - first + 1
      <4>1. j \in 1 .. i - 1 /\ j \in 1 .. n /\ first + j - 1 = k
        BY <3>2
      <4> HIDE DEF j
      <4>2. data[j] = log[k]
        BY <1>6, <4>1
      <4> QED BY <4>1, <4>2
    <3> QED BY <3>1, <3>2
  <2> QED BY <2>1, <2>2, ReadyStays
<1>9. /\ Receivable(K, data)
      /\ \A i \in DOMAIN data : \E k \in DOMAIN log :
            data[i] = log[k] /\ Before(log, k) \subseteq K \cup {data[j] : j \in 1 .. i - 1}
  <2>1. Receivable(K, data)
    BY <1>6, <1>8 DEF Receivable
  <2>2. ASSUME NEW i \in DOMAIN data
        PROVE  \E k \in DOMAIN log :
                   data[i] = log[k] /\ Before(log, k) \subseteq K \cup {data[j] : j \in 1 .. i - 1}
    <3>1. first + i - 1 \in DOMAIN log /\ data[i] = log[first + i - 1]
      BY <1>2, <1>6
    <3>2. Before(log, first + i - 1) \subseteq K \cup {data[j] : j \in 1 .. i - 1}
      BY <1>6, <1>8
    <3> QED BY <3>1, <3>2
  <2> QED BY <2>1, <2>2
<1>10. ASSUME count <= BufferRecords PROVE ToSet(log) \subseteq K \cup ToSet(data)
  <2>1. first + n - 1 = count
    BY <1>1, <1>5, <1>10
  <2> SUFFICES ASSUME NEW k \in 1 .. count PROVE log[k] \in K \cup ToSet(data)
    BY <1>2 DEF ToSet
  <2>2. CASE k <= first - 1
    <3>1. k \in 1 .. first - 1
      BY <2>2
    <3> QED BY <1>4, <3>1
  <2>3. CASE ~(k <= first - 1)
    <3> DEFINE j == k - first + 1
    <3>1. j \in 1 .. n /\ first + j - 1 = k
      BY <1>1, <2>1, <2>3
    <3> HIDE DEF j
    <3>2. data[j] = log[k] /\ j \in DOMAIN data
      BY <1>6, <3>1
    <3> QED BY <3>2 DEF ToSet
  <2> QED BY <2>2, <2>3
<1> QED BY <1>7, <1>9, <1>10 DEF data, K, log, count

\* A responder that finds nothing to answer has nothing the other has not.
LEMMA NoResponse ==
  ASSUME NEW S, Chained(S), MembersFit(S), NEW asker, Remembers(asker, S), NEW r, Remembers(r, S),
         NEW clock, Behind(clock, asker.state.nodes), ~CanRespond(r, clock)
  PROVE  ToSet(LogOf(r)) \subseteq ToSet(LogOf(asker))
<1> DEFINE slabs == r.storage.slabs
           count == r.storage.slab_count
           least == GetMinSequence(StartSyncResponse(r, clock))
<1>1. /\ DOMAIN r.state.nodes = MembersOf(ToSet(LogOf(r))) /\ ToSet(LogOf(r)) \subseteq S
      /\ DOMAIN asker.state.nodes = MembersOf(ToSet(LogOf(asker))) /\ ToSet(LogOf(asker)) \subseteq S
  BY RememberedNumbers DEF Remembers
<1>2. Cardinality(DOMAIN StartSyncResponse(r, clock)) <= MaxNodes
  <2> DEFINE D == DOMAIN StartSyncResponse(r, clock)
  <2>1. D = DOMAIN r.state.nodes \cup DOMAIN clock
    BY DEF StartSyncResponse
  <2>2. D \in SUBSET MembersOf(S)
    BY <1>1, <2>1 DEF Behind, MembersOf
  <2> HIDE DEF D
  <2>3. /\ IsFiniteSet(D) /\ Cardinality(D) <= Cardinality(MembersOf(S))
        /\ Cardinality(MembersOf(S)) <= MaxNodes /\ IsFiniteSet(MembersOf(S))
    BY <2>2, FS_Subset DEF MembersFit
  <2>4. Cardinality(D) \in Nat /\ Cardinality(MembersOf(S)) \in Nat
    BY <2>3, FS_CardinalityType
  <2> QED BY <2>3, <2>4 DEF D
<1>3. CursorFromSequence(slabs, least) = NoCursor
  BY <1>2 DEF CanRespond
<1>4. Sound(r) /\ slabs \in Seq(Record) /\ count = Len(slabs) /\ count \in Nat
  BY Parts DEF Remembers, Sound, StoredOnly
<1>5. \A i \in 1 .. Len(slabs) : ~(slabs[i].max_sequence >= least)
  <2> HIDE DEF slabs, least
  <2> QED BY <1>3, <1>4, CursorIs DEF NoCursor
<1>6. \A k \in 1 .. count : LogOf(r)[k] \in ToSet(LogOf(asker))
  BY <1>4, <1>5, OldIsHeld
<1>7. DOMAIN LogOf(r) = 1 .. count
  BY <1>4, LogIs
<1> HIDE DEF count
<1> QED BY <1>6, <1>7 DEF ToSet

-----------------------------------------------------------------------------
(* Without faults: the envelope a device seals next                        *)

\* The device has every envelope it sealed itself.
HasItsOwn(ch, c, S) == \A f \in S : f.from = c => f \in ToSet(LogOf(ch))

\* The empty channel of add_channel misses nothing it claims to have.
LEMMA NewFaultless ==
  ASSUME NEW S, Chained(S)
  PROVE  Faultless(ChannelRecord(Owner, <<>>), S)
<1> DEFINE ch == ChannelRecord(Owner, <<>>)
<1>1. /\ ch.state = [nodes |-> InitialNodes(Owner), newest |-> Owner] /\ ch.chat = NewChat
      /\ ch.storage = [slabs |-> <<>>, slab_count |-> 0]
      /\ Sound(ch)
  BY NewSound DEF ChannelRecord
<1>2. /\ ch.state.nodes = InitialNodes(Owner) /\ ch.storage.slabs = <<>> /\ ch.storage.slab_count = 0
      /\ ch.chat.owner = NoOwner /\ ch.chat.message_count = 0
  BY <1>1 DEF NewChat
<1> HIDE DEF ch
<1>3. DOMAIN LogOf(ch) = {} /\ ToSet(LogOf(ch)) = {}
  <2>1. DOMAIN LogOf(ch) = 1 .. 0
    BY <1>1, <1>2, LogIs
  <2> QED BY <2>1 DEF ToSet
<1>4. /\ DOMAIN InitialNodes(Owner) = {Owner} /\ InitialNodes(Owner)[Owner] = Unheard
      /\ Unheard.sequence = 0 /\ Unheard.first_sequence = 0
  BY DEF InitialNodes, Unheard
<1>5. StoredOnly(ch, S)
  BY <1>2 DEF StoredOnly
<1>6. Heard(ch.state.nodes, LogOf(ch))
  BY <1>2, <1>3, <1>4 DEF Heard
<1>7. Complete(ch.state.nodes, LogOf(ch), S)
  BY <1>2, <1>4, ChainedNumbers DEF Complete
<1>8. DOMAIN ch.state.nodes = MembersOf(ToSet(LogOf(ch)))
  BY <1>2, <1>3, <1>4 DEF MembersOf
<1>9. Ordered(LogOf(ch)) /\ ReadyInOrder(LogOf(ch))
  BY <1>3 DEF Ordered, ReadyInOrder
<1>10. Recorded(ch)
  <2> DEFINE h == [i \in {0} |-> [state |-> ch.state, chat |-> ch.chat]]
  <2>1. h[0].state = ch.state /\ h[0].chat = ch.chat
    OBVIOUS
  <2> HIDE DEF h
  <2>2. Replays(h, ch)
    BY <1>1, <1>2, <2>1 DEF Replays
  <2> QED BY <2>2 DEF Recorded
<1>11. Counted(ch)
  <2>1. Texts(LogOf(ch), 0) = {} /\ 1 .. 0 = {}
    <3>1. 1 .. 0 = {}
      OBVIOUS
    <3> QED BY <3>1 DEF Texts
  <2>2. Cardinality({}) = 0
    BY FS_EmptySet
  <2> QED BY <1>2, <2>1, <2>2 DEF Counted
<1> QED BY <1>1, <1>5, <1>6, <1>7, <1>8, <1>9, <1>10, <1>11 DEF Faultless, Remembers, ch

\* The channel init_chat makes.
LEMMA CreatedFaultless ==
  ASSUME NEW id \in Nat
  PROVE  LET initial == ChannelRecord(Owner, <<>>)
             e       == Seal(initial, Owner, NewChannel(Owner), id)
             after   == Processed(initial, e, TRUE).channel
         IN  /\ Chained({e}) /\ MembersFit({e}) /\ e.from = Owner
             /\ Faultless(after, {e})
             /\ e \in ToSet(LogOf(after))
<1> DEFINE initial == ChannelRecord(Owner, <<>>)
           e       == Seal(initial, Owner, NewChannel(Owner), id)
           after   == Processed(initial, e, TRUE).channel
<1>1. /\ e = [from |-> Owner, cause |-> Owner, sender_last |-> 0, sequence |-> 1,
              id |-> id, data |-> NewChannel(Owner)]
      /\ e \in Sealable /\ Acceptable(initial, e)
  BY InitChatAcceptable
<1>2. initial.storage.slab_count = 0
  BY DEF ChannelRecord
<1> HIDE DEF e, initial
<1>3. /\ e.from = Owner /\ e.sender_last = 0 /\ e.sequence = 1 /\ e.data = NewChannel(Owner)
      /\ e.data.kind = "NewChannel"
  BY <1>1 DEF NewChannel
<1>4. Chained({e})
  BY <1>1, <1>3 DEF Chained
<1>5. MembersFit({e})
  <2>1. MembersOf({e}) = {Owner}
    BY <1>3 DEF MembersOf, NewChannel, AddUser
  <2>2. IsFiniteSet({Owner}) /\ Cardinality({Owner}) = 1
    BY FS_Singleton
  <2> QED BY <2>1, <2>2 DEF MembersFit
<1>6. after = Stored(initial, e)
  <2>1. ~AddNodeFails(initial, e) /\ ~(initial.storage.slab_count >= MaxSlabs)
        /\ initial.storage.slab_count < MaxSlabs
    BY <1>2, <1>3 DEF AddNodeFails
  <2>2. Processed(initial, e, TRUE) = [channel |-> Stored(initial, e), ok |-> TRUE]
    BY <2>1 DEF Processed
  <2> HIDE DEF after
  <2>3. after = [channel |-> Stored(initial, e), ok |-> TRUE].channel
    BY <2>2 DEF after
  <2> QED BY <2>3
<1>7. Faultless(initial, {e})
  BY <1>4, NewFaultless DEF initial
<1> HIDE DEF after
<1>8. Faultless(after, {e}) /\ Grown(LogOf(initial), e, LogOf(after))
  <2>1. initial.storage.slab_count < MaxSlabs /\ e \in {e}
    BY <1>2
  <2> QED BY <1>1, <1>4, <1>6, <1>7, <2>1, StoredFaultless, StoredRemembers DEF Faultless
<1>9. e \in ToSet(LogOf(after))
  BY <1>8, GrownBefore
<1> QED BY <1>3, <1>4, <1>5, <1>8, <1>9 DEF e, initial, after

\* The next envelope of a device that has all it sealed before.
LEMMA SealsNext ==
  ASSUME NEW S, Chained(S), IsFiniteSet(S), NEW ch, Remembers(ch, S), NEW c \in Node,
         HasItsOwn(ch, c, S),
         NEW data \in Payload(Node), data.kind # "NewChannel",
         data.kind = "AddUser" => data.user \notin DOMAIN ch.state.nodes,
         NEW id \in EnvelopeId, CanAddress(ch.state.nodes, ch.state.newest, c),
         Acceptable(ch, Seal(ch, c, data, id))
  PROVE  LET e == Seal(ch, c, data, id) IN
         /\ e.from = c /\ e.data = data
         /\ \A f \in S : f.from = c => f.sequence <= e.sender_last
         /\ \A f \in S : f.from = c => f.sequence < e.sequence
         /\ Chained(S \cup {e})
<1> DEFINE e     == Seal(ch, c, data, id)
           nodes == ch.state.nodes
<1>1. /\ Sound(ch) /\ StateSound(ch.state) /\ MembersSound(ch)
      /\ c \in DOMAIN nodes /\ LastSequence(nodes, ch.state.newest, c) < MaxSequence
      /\ DOMAIN nodes = MembersOf(ToSet(LogOf(ch)))
  BY DEF Remembers, Sound, CanAddress
<1>2. /\ e \in Envelope /\ e.from = c /\ e.data = data
      /\ e.sender_last = nodes[c].sequence
      /\ e.sequence = nodes[ch.state.newest].sequence + 1
  BY <1>1, SealFields
<1>3. e \in Sealable
  BY SealSealable, <1>1
<1>4. /\ \A n \in DOMAIN nodes : nodes[n].sequence \in Nat
      /\ \A g \in ToSet(LogOf(ch)) : g.from \in DOMAIN nodes /\ g.sequence <= nodes[g.from].sequence
  BY RememberedNumbers
<1>5. ch.state.newest \in DOMAIN nodes /\ nodes[c].sequence <= nodes[ch.state.newest].sequence
  BY <1>1, <1>4 DEF StateSound
<1> HIDE DEF e, nodes
<1>6. e.sender_last \in Nat /\ e.sequence \in Nat /\ e.sender_last < e.sequence
  BY <1>1, <1>2, <1>4, <1>5
<1>7. \A f \in S : f.from = c => f.sequence <= e.sender_last
  BY <1>2, <1>4 DEF HasItsOwn
<1>8. \A f \in S : f.sequence \in Nat /\ f.sender_last \in Nat
  BY ChainedNumbers
<1>9. \A f \in S : f.from = c => f.sequence < e.sequence
  BY <1>6, <1>7, <1>8
<1>10. ASSUME data.kind = "AddUser"
       PROVE  /\ c = Owner /\ data.user # Owner
              /\ \A f \in S : f.data # data
  <2>1. c = Owner
    <3>1. c = ch.chat.owner
      BY <1>2, <1>10 DEF Acceptable, Accepts, e
    <3> QED BY <1>1, <3>1 DEF MembersSound
  <2>2. data.user # Owner
    BY <1>1, <1>10, <2>1 DEF nodes
  <2>3. ASSUME NEW f \in S, f.data = data PROVE FALSE
    <3>1. f.from = Owner
      BY <1>10, <2>3 DEF Chained
    <3>2. f \in ToSet(LogOf(ch))
      BY <2>1, <3>1 DEF HasItsOwn
    <3>3. data.user \in Node /\ data = AddUser(data.user)
      BY <1>10, Kinds
    <3>4. data.user \in MembersOf(ToSet(LogOf(ch)))
      BY <2>3, <3>2, <3>3 DEF MembersOf
    <3> QED BY <1>1, <1>10, <3>4 DEF nodes
  <2> QED BY <2>1, <2>2, <2>3
<1>11. Chained(S \cup {e})
  <2>1. S \cup {e} \subseteq Sealable
    BY <1>3 DEF Chained
  <2>2. \A f \in S \cup {e} : f.sender_last < f.sequence
    BY <1>6 DEF Chained
  <2>3. \A f, g \in S \cup {e} : f.from = g.from =>
           f = g \/ f.sequence <= g.sender_last \/ g.sequence <= f.sender_last
    BY <1>2, <1>7 DEF Chained
  <2>4. \A f \in S \cup {e} : f.data.kind = "AddUser" => f.from = Owner /\ f.data.user # Owner
    BY <1>2, <1>10 DEF Chained
  <2>5. \A f, g \in S \cup {e} : f.data.kind = "AddUser" /\ f.data = g.data => f = g
    BY <1>2, <1>10 DEF Chained
  <2> QED BY <2>1, <2>2, <2>3, <2>4, <2>5 DEF Chained
<1> QED BY <1>2, <1>7, <1>9, <1>11 DEF e

\* The other devices miss nothing by it, which they could have stored.
LEMMA OthersRemember ==
  ASSUME NEW S, Chained(S), NEW e, Chained(S \cup {e}),
         \A f \in S : f.from = e.from => f.sequence < e.sequence,
         NEW other, Remembers(other, S)
  PROVE  Remembers(other, S \cup {e})
<1> DEFINE nodes == other.state.nodes
           log   == LogOf(other)
<1>1. /\ \A n \in DOMAIN nodes : nodes[n].sequence \in Nat
      /\ ToSet(log) \subseteq S
  BY RememberedNumbers
<1>2. e.sequence \in Nat \ {0}
  BY ChainedNumbers
<1>3. ASSUME e.from \in DOMAIN nodes, e.sequence <= nodes[e.from].sequence PROVE FALSE
  <2>1. nodes[e.from].sequence \in Nat \ {0}
    BY <1>1, <1>2, <1>3
  <2>2. PICK g \in ToSet(log) : g.from = e.from /\ g.sequence = nodes[e.from].sequence
    BY <1>3, <2>1 DEF Remembers, Heard, ToSet
  <2>3. g \in S /\ g.sequence < e.sequence
    BY <1>1, <2>2
  <2> HIDE DEF nodes
  <2> QED BY <1>2, <1>3, <2>1, <2>2, <2>3
<1>4. Complete(nodes, log, S \cup {e})
  BY <1>3 DEF Remembers, Complete
<1>5. StoredOnly(other, S \cup {e})
  BY DEF Remembers, StoredOnly
<1> QED BY <1>4, <1>5 DEF Remembers

\* A new member is one the owner had room for.
LEMMA SealFits ==
  ASSUME NEW S, Chained(S), MembersFit(S), NEW ch, Remembers(ch, S), NEW e, Chained(S \cup {e}),
         Remembers(ch, S \cup {e}), HasItsOwn(ch, e.from, S), Acceptable(ch, e)
  PROVE  MembersFit(S \cup {e})
<1> DEFINE nodes == ch.state.nodes
<1>1. e \in Envelope /\ e \in S \cup {e}
  BY ChainedNumbers
<1>2. MembersOf(S \cup {e}) =
          MembersOf(S) \cup (IF e.data.kind = "AddUser" THEN {e.data.user} ELSE {})
  BY <1>1, MembersGrow
<1>3. CASE e.data.kind = "AddUser"
  <2>1. CanAddNode(nodes, e.data.user)
    BY <1>1, <1>3, AddsNew
  <2>2. DOMAIN nodes = MembersOf(ToSet(LogOf(ch))) /\ ToSet(LogOf(ch)) \subseteq S
    BY RememberedNumbers DEF Remembers
  <2>3. e.from = Owner
    BY <1>1, <1>3 DEF Chained
  <2>4. \A f \in S : \A u \in Node : f.data = AddUser(u) => f \in ToSet(LogOf(ch))
    <3>1. \A f \in S : \A u \in Node : f.data = AddUser(u) => f.from = Owner
      BY DEF Chained, AddUser
    <3> QED BY <2>3, <3>1 DEF HasItsOwn
  <2>5. MembersOf(S) = DOMAIN nodes
    BY <2>2, <2>4 DEF MembersOf
  <2>6. IsFiniteSet(DOMAIN nodes) /\ Cardinality(DOMAIN nodes) \in Nat
    BY <2>5, FS_CardinalityType DEF MembersFit
  <2>7. /\ IsFiniteSet(DOMAIN nodes \cup {e.data.user})
        /\ Cardinality(DOMAIN nodes \cup {e.data.user}) = Cardinality(DOMAIN nodes) + 1
    BY <2>1, <2>6, FS_AddElement DEF CanAddNode
  <2>8. Cardinality(DOMAIN nodes) < MaxNodes
    BY <2>1 DEF CanAddNode
  <2>9. MembersOf(S \cup {e}) = DOMAIN nodes \cup {e.data.user}
    BY <1>2, <1>3, <2>5
  <2> HIDE DEF nodes
  <2>10. Cardinality(DOMAIN nodes) + 1 <= MaxNodes
    BY <2>6, <2>8
  <2> QED BY <2>7, <2>9, <2>10 DEF MembersFit
<1>4. CASE e.data.kind # "AddUser"
  BY <1>2, <1>4 DEF MembersFit
<1> QED BY <1>3, <1>4

-----------------------------------------------------------------------------
(* Without faults: the invariant                                           *)

\* What was sealed, and who has it.
Sealings ==
    /\ Chained(sealed) /\ MembersFit(sealed)
    /\ IsFiniteSet(sealed)
    /\ Cardinality(sealed) <= IF MaxMessages = 0 THEN 1 ELSE MaxMessages
    /\ sealed = {} => \A c \in Node : channel[c] = Absent

Memories ==
    \A c \in Node :
        /\ Has(c) => Faultless(channel[c], sealed)
        /\ channel[c] # Halted => \A e \in sealed : e.from = c => e \in ToSet(Log(c))

\* What is in flight for a device, it can use whenever it arrives.
InFlight ==
    \A m \in net :
        /\ channel[m.session] # Absent
        /\ m.type = "request" /\ Has(m.session) =>
              Behind(m.clock, channel[m.session].state.nodes)
        /\ m.type = "response" =>
              /\ m.data \in Seq(sealed)
              /\ Has(m.session) => Receivable(ToSet(Log(m.session)), m.data)

Replicated == SafeInv /\ Sealings /\ Memories /\ InFlight

\* A step adds to what the devices stored, unless one has no slab left.
Onward ==
    \A c \in Node : Has(c) =>
        \/ Cardinality(sealed') > MaxSlabs
        \/ Has(c)' /\ Extends(Log(c), Log(c)')

\* The log of a device is that of its channel.
LEMMA LogIsLogOf ==
  /\ \A c \in Node : Has(c) => Log(c) = LogOf(channel[c])
  /\ \A c \in Node : ~Has(c) => Log(c) = <<>> /\ ToSet(Log(c)) = {}
  BY DEF Log, LogOf, ToSet

\* What a faultless channel is at least.
LEMMA FaultlessIs ==
  ASSUME NEW S, NEW ch, Faultless(ch, S)
  PROVE  /\ ch \notin {Absent, Halted} /\ Remembers(ch, S) /\ Sound(ch)
         /\ Len(LogOf(ch)) \in Nat /\ DOMAIN LogOf(ch) = 1 .. Len(LogOf(ch))
<1>1. Remembers(ch, S) /\ Sound(ch) /\ ch \in ChannelType
  BY DEF Faultless, Remembers, Sound
<1>2. Len(LogOf(ch)) \in Nat /\ DOMAIN LogOf(ch) = 1 .. Len(LogOf(ch))
  BY <1>1, LogIs
<1> QED BY <1>1, <1>2

\* A log that goes on from another has all its envelopes.
LEMMA ExtendsSet ==
  ASSUME NEW log, NEW longer, Extends(log, longer), Len(log) \in Nat, DOMAIN log = 1 .. Len(log),
         Len(longer) \in Nat, DOMAIN longer = 1 .. Len(longer)
  PROVE  ToSet(log) \subseteq ToSet(longer)
<1>1. \A k \in DOMAIN log : k \in DOMAIN longer /\ longer[k] = log[k]
  BY DEF Extends
<1> QED BY <1>1 DEF ToSet

\* A log goes on from itself.
LEMMA ExtendsSame ==
  ASSUME Memories
  PROVE  \A c \in Node : Has(c) => Extends(Log(c), Log(c))
<1> SUFFICES ASSUME NEW c \in Node, Has(c) PROVE Extends(Log(c), Log(c))
  OBVIOUS
<1>1. Log(c) = LogOf(channel[c]) /\ Len(Log(c)) \in Nat
  BY LogIsLogOf, FaultlessIs DEF Memories
<1> QED BY <1>1 DEF Extends

\* What was behind a device stays behind it.
LEMMA BehindStays ==
  ASSUME NEW clock, NEW nodes, NEW after, Behind(clock, nodes), Forward(nodes, after),
         \A n \in DOMAIN nodes : nodes[n].sequence \in Nat,
         \A n \in DOMAIN after : after[n].sequence \in Nat
  PROVE  Behind(clock, after)
<1>1. DOMAIN clock \subseteq DOMAIN after
  BY DEF Behind, Forward
<1>2. ASSUME NEW n \in DOMAIN clock PROVE clock[n] \in Nat /\ clock[n] <= after[n].sequence
  <2>1. /\ n \in DOMAIN nodes /\ n \in DOMAIN after /\ clock[n] \in Nat
        /\ clock[n] <= nodes[n].sequence /\ nodes[n].sequence <= after[n].sequence
    BY DEF Behind, Forward
  <2> QED BY <2>1
<1> QED BY <1>1, <1>2 DEF Behind

\* What is receivable stays so when more is known.
LEMMA ReceivableStays ==
  ASSUME NEW K, NEW L, K \subseteq L, NEW data, Receivable(K, data)
  PROVE  Receivable(L, data)
<1> SUFFICES ASSUME NEW i \in DOMAIN data
             PROVE  Ready(L \cup {data[j] : j \in 1 .. i - 1}, data[i])
  BY DEF Receivable
<1>1. Ready(K \cup {data[j] : j \in 1 .. i - 1}, data[i])
  BY DEF Receivable
<1>2. K \cup {data[j] : j \in 1 .. i - 1} \subseteq L \cup {data[j] : j \in 1 .. i - 1}
  OBVIOUS
<1> QED BY <1>1, <1>2, ReadyStays

\* A device goes on, or panics, and nothing else happens but that it seals.
LEMMA DeviceMoves ==
  ASSUME Replicated, NEW c \in Node, Has(c), NEW after,
         \/ after = Halted /\ Cardinality(sealed') > MaxSlabs
         \/ /\ Faultless(after, sealed')
            /\ Extends(LogOf(channel[c]), LogOf(after))
            /\ Forward(channel[c].state.nodes, after.state.nodes),
         channel' = [channel EXCEPT ![c] = after], net' = net,
         sealed \subseteq sealed',
         \A d \in Node : d # c /\ Has(d) => Faultless(channel[d], sealed'),
         \A e \in sealed' : e \notin sealed =>
             e.from = c /\ (after # Halted => e \in ToSet(LogOf(after)))
  PROVE  Memories' /\ InFlight' /\ Onward /\ sealed' # {}
<1>0. /\ after = Halted => Cardinality(sealed') > MaxSlabs
      /\ after # Halted => Extends(LogOf(channel[c]), LogOf(after))
  BY FaultlessIs
<1>1. /\ DOMAIN channel = Node /\ Faultless(channel[c], sealed)
      /\ \A m \in net : m.session \in Node
  BY DEF Replicated, SafeInv, Devices, Messages, IsMessage, Memories
<1>2. channel'[c] = after /\ \A d \in Node : d # c => channel'[d] = channel[d]
  BY <1>1
<1>3. \A d \in Node : Has(d)' <=> channel'[d] \notin {Absent, Halted}
  BY DEF Has
<1>4. \A d \in Node : d # c => (Has(d)' <=> Has(d)) /\ Log(d)' = Log(d)
  BY <1>2 DEF Has, Log
<1>5. Has(c)' => after # Halted
  BY <1>2, <1>3
<1>6. after # Halted => Has(c)'
  BY <1>2, <1>3, FaultlessIs
<1>7. after # Halted => Log(c)' = LogOf(after)
  BY <1>2, <1>6 DEF Log, LogOf
<1>8. after # Halted => ToSet(Log(c)) \subseteq ToSet(Log(c)')
  <2> SUFFICES ASSUME after # Halted PROVE ToSet(LogOf(channel[c])) \subseteq ToSet(LogOf(after))
    BY <1>7, LogIsLogOf
  <2> QED BY <1>1, FaultlessIs, ExtendsSet
<1>9. Memories'
  <2> SUFFICES ASSUME NEW d \in Node
               PROVE  /\ Has(d)' => Faultless(channel'[d], sealed')
                      /\ channel'[d] # Halted =>
                            \A e \in sealed' : e.from = d => e \in ToSet(Log(d)')
    BY DEF Memories
  <2>1. CASE d = c
    <3>1. Has(d)' => Faultless(channel'[d], sealed')
      BY <1>2, <1>5, <2>1
    <3>2. ASSUME channel'[d] # Halted, NEW e \in sealed', e.from = d PROVE e \in ToSet(Log(d)')
      <4>1. after # Halted
        BY <1>2, <2>1, <3>2
      <4>2. CASE e \in sealed
        <5>1. e \in ToSet(Log(c))
          <6>1. channel[c] # Halted
            BY DEF Has
          <6> QED BY <2>1, <3>2, <4>2, <6>1 DEF Replicated, Memories
        <5> QED BY <1>8, <2>1, <4>1, <5>1
      <4>3. CASE e \notin sealed
        BY <1>7, <2>1, <4>1, <4>3
      <4> QED BY <4>2, <4>3
    <3> QED BY <3>1, <3>2
  <2>2. CASE d # c
    <3>1. Has(d)' => Faultless(channel'[d], sealed')
      BY <1>2, <1>4, <2>2
    <3>2. ASSUME channel'[d] # Halted, NEW e \in sealed', e.from = d PROVE e \in ToSet(Log(d)')
      <4>1. e \in sealed
        BY <2>2, <3>2
      <4> QED BY <1>2, <1>4, <2>2, <3>2, <4>1 DEF Replicated, Memories
    <3> QED BY <3>1, <3>2
  <2> QED BY <2>1, <2>2
<1>10. InFlight'
  <2> SUFFICES ASSUME NEW m \in net
               PROVE  /\ channel'[m.session] # Absent
                      /\ m.type = "request" /\ Has(m.session)' =>
                            Behind(m.clock, channel'[m.session].state.nodes)
                      /\ m.type = "response" =>
                            /\ m.data \in Seq(sealed')
                            /\ Has(m.session)' => Receivable(ToSet(Log(m.session)'), m.data)
    BY DEF InFlight
  <2>0. /\ m.session \in Node /\ channel[m.session] # Absent
        /\ m.type = "request" /\ Has(m.session) => Behind(m.clock, channel[m.session].state.nodes)
        /\ m.type = "response" => m.data \in Seq(sealed)
        /\ m.type = "response" /\ Has(m.session) => Receivable(ToSet(Log(m.session)), m.data)
    BY <1>1 DEF Replicated, InFlight
  <2>1. m.type = "response" => m.data \in Seq(sealed')
    BY <2>0
  <2>2. CASE m.session = c
    <3>1. channel'[c] # Absent
      BY <1>2, FaultlessIs
    <3>2. ASSUME m.type = "request", Has(c)' PROVE Behind(m.clock, after.state.nodes)
      <4>1. /\ Faultless(after, sealed') /\ Forward(channel[c].state.nodes, after.state.nodes)
            /\ Behind(m.clock, channel[c].state.nodes)
        BY <1>5, <2>0, <2>2, <3>2
      <4>2. /\ \A n \in DOMAIN channel[c].state.nodes : channel[c].state.nodes[n].sequence \in Nat
            /\ \A n \in DOMAIN after.state.nodes : after.state.nodes[n].sequence \in Nat
        BY <1>1, <4>1, FaultlessIs, RememberedNumbers
      <4> QED BY <4>1, <4>2, BehindStays
    <3>3. ASSUME m.type = "response", Has(c)' PROVE Receivable(ToSet(Log(c)'), m.data)
      BY <1>5, <1>8, <2>0, <2>2, <3>3, ReceivableStays
    <3> QED BY <1>2, <2>1, <2>2, <3>1, <3>2, <3>3
  <2>3. CASE m.session # c
    BY <1>2, <1>4, <2>0, <2>1, <2>3
  <2> QED BY <2>2, <2>3
<1>11. sealed' # {}
  <2>1. channel[c] # Absent
    BY DEF Has
  <2>2. sealed # {}
    BY <2>1 DEF Replicated, Sealings
  <2> QED BY <2>2
<1>12. Onward
  <2> SUFFICES ASSUME NEW d \in Node, Has(d)
               PROVE  \/ Cardinality(sealed') > MaxSlabs
                      \/ Has(d)' /\ Extends(Log(d), Log(d)')
    BY DEF Onward
  <2>1. CASE d = c
    <3>1. CASE after = Halted
      <4>1. Cardinality(sealed') > MaxSlabs
        BY <1>0, <3>1
      <4> QED BY <4>1
    <3>2. CASE after # Halted
      <4>1. Has(c)' /\ Log(c)' = LogOf(after) /\ Log(c) = LogOf(channel[c])
        BY <1>6, <1>7, <3>2, LogIsLogOf
      <4>2. Extends(Log(c), Log(c)')
        BY <1>0, <3>2, <4>1
      <4> QED BY <2>1, <4>1, <4>2
    <3> QED BY <3>1, <3>2
  <2>2. CASE d # c
    <3>1. Has(d)' /\ Log(d)' = Log(d)
      BY <1>4, <2>2
    <3>2. Extends(Log(d), Log(d))
      BY ExtendsSame DEF Replicated
    <3> QED BY <3>1, <3>2
  <2> QED BY <2>1, <2>2
<1> QED BY <1>9, <1>10, <1>11, <1>12

\* The invariant holds at the start.
LEMMA ReplicatedInit == Init => Replicated
<1> SUFFICES ASSUME Init PROVE Replicated
  OBVIOUS
<1>1. /\ channel = [c \in Node |-> Absent] /\ sealed = {} /\ net = {}
  BY DEF Init
<1>2. MembersFit({})
  <2>1. MembersOf({}) = {Owner}
    BY DEF MembersOf
  <2>2. IsFiniteSet({Owner}) /\ Cardinality({Owner}) = 1
    BY FS_Singleton
  <2> QED BY <2>1, <2>2 DEF MembersFit
<1>3. Sealings
  <2>1. IsFiniteSet({}) /\ Cardinality({}) = 0
    BY FS_EmptySet
  <2>2. Chained({})
    BY DEF Chained
  <2>3. MaxMessages \in Nat
    BY BoundsAssumption
  <2> QED BY <1>1, <1>2, <2>1, <2>2, <2>3 DEF Sealings
<1>4. Memories
  BY <1>1 DEF Memories, Has
<1>5. InFlight
  BY <1>1 DEF InFlight
<1> QED BY <1>3, <1>4, <1>5, SafeInit DEF Replicated

\* init_chat keeps the invariant.
LEMMA ReplicatedInitChat ==
  ASSUME Replicated, NEW id \in EnvelopeId, InitChat(id)
  PROVE  Sealings' /\ Memories' /\ InFlight' /\ Onward
<1> DEFINE initial == ChannelRecord(Owner, <<>>)
           e       == Seal(initial, Owner, NewChannel(Owner), id)
           after   == Processed(initial, e, TRUE).channel
<1>1. /\ sealed = {} /\ sealed' = {e} /\ net' = net
      /\ channel' = [channel EXCEPT ![Owner] = after]
  BY DEF InitChat
<1>2. /\ Chained({e}) /\ MembersFit({e}) /\ e.from = Owner
      /\ Faultless(after, {e}) /\ e \in ToSet(LogOf(after))
  <2>1. id \in Nat
    OBVIOUS
  <2> QED BY <2>1, CreatedFaultless
<1> HIDE DEF e, after
<1>3. \A c \in Node : channel[c] = Absent
  BY <1>1 DEF Replicated, Sealings
<1>4. net = {}
  <2>1. \A m \in net : m.session \in Node /\ channel[m.session] # Absent
    BY DEF Replicated, SafeInv, Messages, IsMessage, InFlight
  <2> QED BY <1>3, <2>1
<1>5. /\ channel'[Owner] = after
      /\ \A c \in Node : c # Owner => channel'[c] = Absent
  BY <1>1, <1>3 DEF Replicated, SafeInv, Devices
<1>6. after \notin {Absent, Halted}
  BY <1>2, FaultlessIs
<1>7. Sealings'
  <2>1. IsFiniteSet({e}) /\ Cardinality({e}) = 1
    BY FS_Singleton
  <2>2. 1 <= IF MaxMessages = 0 THEN 1 ELSE MaxMessages
    BY BoundsAssumption
  <2> QED BY <1>1, <1>2, <2>1, <2>2 DEF Sealings
<1>8. /\ \A c \in Node : Has(c)' => c = Owner
      /\ Has(Owner)' /\ Log(Owner)' = LogOf(after)
  BY <1>5, <1>6 DEF Has, Log, LogOf
<1>9. Memories'
  BY <1>1, <1>2, <1>5, <1>8 DEF Memories
<1>10. InFlight' /\ Onward
  BY <1>1, <1>3, <1>4 DEF InFlight, Onward, Has
<1> QED BY <1>7, <1>9, <1>10

\* add_channel keeps the invariant.
LEMMA ReplicatedAddChannel ==
  ASSUME Replicated, NEW c \in Node, AddChannel(c)
  PROVE  Sealings' /\ Memories' /\ InFlight' /\ Onward
<1> DEFINE initial == ChannelRecord(Owner, <<>>)
<1>1. /\ sealed # {} /\ channel[c] = Absent /\ sealed' = sealed /\ net' = net
      /\ channel' = [channel EXCEPT ![c] = initial]
  BY DEF AddChannel
<1>2. Faultless(initial, sealed)
  BY NewFaultless DEF Replicated, Sealings
<1> HIDE DEF initial
<1>3. /\ channel'[c] = initial
      /\ \A d \in Node : d # c => channel'[d] = channel[d]
  BY <1>1 DEF Replicated, SafeInv, Devices
<1>4. \A d \in Node : d # c => (Has(d)' <=> Has(d)) /\ Log(d)' = Log(d)
  BY <1>3 DEF Has, Log
<1>5. \A e \in sealed : e.from # c
  <2>1. ~Has(c) /\ channel[c] # Halted
    BY <1>1 DEF Has
  <2>2. ToSet(Log(c)) = {}
    BY <2>1, LogIsLogOf
  <2> QED BY <2>1, <2>2 DEF Replicated, Memories
<1>6. Memories'
  <2> SUFFICES ASSUME NEW d \in Node
               PROVE  /\ Has(d)' => Faultless(channel'[d], sealed)
                      /\ channel'[d] # Halted => \A e \in sealed : e.from = d => e \in ToSet(Log(d)')
    BY <1>1 DEF Memories
  <2>1. CASE d = c
    BY <1>2, <1>3, <1>5, <2>1
  <2>2. CASE d # c
    BY <1>3, <1>4, <2>2 DEF Replicated, Memories
  <2> QED BY <2>1, <2>2
<1>7. InFlight'
  <2>1. \A m \in net : m.session \in Node /\ m.session # c
    BY <1>1 DEF Replicated, SafeInv, Messages, IsMessage, InFlight
  <2>2. \A m \in net : /\ channel'[m.session] = channel[m.session]
                       /\ Has(m.session)' <=> Has(m.session)
                       /\ Log(m.session)' = Log(m.session)
    BY <1>3, <1>4, <2>1
  <2> QED BY <1>1, <2>2 DEF Replicated, InFlight
<1>8. Sealings'
  BY <1>1 DEF Replicated, Sealings
<1>9. Onward
  <2>1. ~Has(c)
    BY <1>1 DEF Has
  <2> QED BY <1>4, <2>1, ExtendsSame DEF Replicated, Onward
<1> QED BY <1>6, <1>7, <1>8, <1>9

\* What a device seals is the last of its own, and is stored at the end of its log.
LEMMA SendGrows ==
  ASSUME Replicated, NEW c \in Node, NEW data \in Payload(Node), data.kind # "NewChannel",
         data.kind = "AddUser" => data.user \notin DOMAIN channel[c].state.nodes,
         NEW id \in EnvelopeId, Send(c, data, id, TRUE)
  PROVE  LET ch    == channel[c]
             e     == Seal(ch, c, data, id)
             after == Processed(ch, e, TRUE).channel
             S     == sealed \cup {e}
         IN  /\ Has(c) /\ Cardinality(sealed) < MaxMessages /\ IsFiniteSet(sealed)
             /\ channel' = [channel EXCEPT ![c] = after] /\ sealed' = S /\ net' = net
             /\ e.from = c
             /\ \A f \in sealed : f.from = c => f.sequence < e.sequence
             /\ Chained(S) /\ MembersFit(S) /\ e \notin sealed
             /\ \A d \in Node : Has(d) => Faultless(channel[d], S)
             /\ \/ after = Halted /\ Cardinality(S) > MaxSlabs
                \/ /\ Faultless(after, S)
                   /\ Grown(LogOf(ch), e, LogOf(after))
                   /\ Extends(LogOf(ch), LogOf(after))
                   /\ Forward(ch.state.nodes, after.state.nodes)
                   /\ e \in ToSet(LogOf(after))
<1> DEFINE ch    == channel[c]
           e     == Seal(ch, c, data, id)
           next  == Processed(ch, e, TRUE)
           S     == sealed \cup {e}
<1>1. /\ Has(c) /\ Cardinality(sealed) < MaxMessages
      /\ CanAddress(ch.state.nodes, ch.state.newest, c) /\ Acceptable(ch, e)
      /\ channel' = [channel EXCEPT ![c] = next.channel]
      /\ sealed' = S /\ net' = net
  BY DEF Send
<1>2. /\ Chained(sealed) /\ MembersFit(sealed) /\ IsFiniteSet(sealed)
      /\ Faultless(ch, sealed) /\ Remembers(ch, sealed)
  BY <1>1, FaultlessIs DEF Replicated, Sealings, Memories
<1>3. HasItsOwn(ch, c, sealed)
  <2>1. ch # Halted /\ Log(c) = LogOf(ch)
    BY <1>1, LogIsLogOf DEF Has
  <2> QED BY <2>1 DEF Replicated, Memories, HasItsOwn
<1>4. /\ e.from = c
      /\ \A f \in sealed : f.from = c => f.sequence < e.sequence
      /\ Chained(S)
  BY <1>1, <1>2, <1>3, SealsNext
<1> HIDE DEF e
<1>5. \A d \in Node : Has(d) => Faultless(channel[d], S)
  <2> SUFFICES ASSUME NEW d \in Node, Has(d) PROVE Faultless(channel[d], S)
    OBVIOUS
  <2>1. Faultless(channel[d], sealed)
    BY DEF Replicated, Memories
  <2> QED BY <1>2, <1>4, <2>1, OthersRemember DEF Faultless
<1>6. Remembers(ch, S)
  BY <1>1, <1>5, FaultlessIs
<1>7. MembersFit(S)
  BY <1>1, <1>2, <1>3, <1>4, <1>6, SealFits
<1>8. e \notin sealed
  <2> SUFFICES ASSUME e \in sealed PROVE FALSE
    OBVIOUS
  <2>1. e.sequence < e.sequence /\ e.sequence \in Nat
    BY <1>2, <1>4, ChainedNumbers
  <2> QED BY <2>1
<1>9. \/ next.channel = Halted /\ Cardinality(S) > MaxSlabs
      \/ /\ Faultless(next.channel, S)
         /\ Grown(LogOf(ch), e, LogOf(next.channel))
         /\ Extends(LogOf(ch), LogOf(next.channel))
         /\ Forward(ch.state.nodes, next.channel.state.nodes)
         /\ e \in ToSet(LogOf(next.channel))
  <2>1. ~AddNodeFails(ch, e)
    BY <1>1, <1>4, <1>6, NodesGrowing
  <2>2. CASE ch.storage.slab_count >= MaxSlabs
    <3>1. next = [channel |-> Halted, ok |-> FALSE]
      BY <2>1, <2>2 DEF Processed
    <3>2. Cardinality(S) > MaxSlabs
      <4>1. IsFiniteSet(S)
        BY <1>2, FS_AddElement
      <4>2. e \notin ToSet(LogOf(ch))
        BY <1>2, <1>8, RememberedNumbers
      <4>3. ch.storage.slab_count < Cardinality(S)
        BY <1>4, <1>6, <4>1, <4>2, LogLength
      <4>4. ch.storage.slab_count \in Nat /\ Cardinality(S) \in Nat
        BY <1>2, <4>1, Parts, FS_CardinalityType DEF Remembers, Sound
      <4> QED BY <2>2, <4>3, <4>4
    <3> HIDE DEF next
    <3> QED BY <3>1, <3>2
  <2>3. CASE ~(ch.storage.slab_count >= MaxSlabs)
    <3>1. ch.storage.slab_count < MaxSlabs
      <4>1. ch.storage.slab_count \in Nat
        BY <1>2, Parts DEF Remembers, Sound
      <4> QED BY <2>3, <4>1
    <3> DEFINE after == Stored(ch, e)
    <3>2. next = [channel |-> after, ok |-> TRUE]
      BY <2>1, <2>3, <3>1 DEF Processed
    <3>3. e \in S
      OBVIOUS
    <3>4. /\ Faultless(after, S)
          /\ Grown(LogOf(ch), e, LogOf(after))
          /\ NodesGrow(ch.state.nodes, e, after.state.nodes)
      BY <1>1, <1>4, <1>5, <1>6, <3>1, <3>3, StoredFaultless, StoredRemembers
    <3> HIDE DEF after, next, ch, S
    <3>5. Extends(LogOf(ch), LogOf(after)) /\ e \in ToSet(LogOf(after))
      <4>1. ToSet(LogOf(after)) = ToSet(LogOf(ch)) \cup {e}
        BY <3>4, GrownBefore
      <4>2. Extends(LogOf(ch), LogOf(after))
        BY <3>4 DEF Extends, Grown
      <4> QED BY <4>1, <4>2
    <3>6. Forward(ch.state.nodes, after.state.nodes)
      <4>1. DOMAIN ch.state.nodes \subseteq DOMAIN after.state.nodes
        BY <3>4 DEF NodesGrow
      <4>2. ASSUME NEW n \in DOMAIN ch.state.nodes
            PROVE  ch.state.nodes[n].sequence <= after.state.nodes[n].sequence
        BY <3>4 DEF NodesGrow
      <4> QED BY <4>1, <4>2 DEF Forward
    <3> QED BY <3>2, <3>4, <3>5, <3>6
  <2> QED BY <2>2, <2>3
<1> QED BY <1>1, <1>2, <1>4, <1>5, <1>7, <1>8, <1>9 DEF e

\* send_message and add_user keep the invariant.
LEMMA ReplicatedSend ==
  ASSUME Replicated, NEW c \in Node, NEW data \in Payload(Node), data.kind # "NewChannel",
         data.kind = "AddUser" => data.user \notin DOMAIN channel[c].state.nodes,
         NEW id \in EnvelopeId, Send(c, data, id, TRUE)
  PROVE  Sealings' /\ Memories' /\ InFlight' /\ Onward
<1> DEFINE ch    == channel[c]
           e     == Seal(ch, c, data, id)
           after == Processed(ch, e, TRUE).channel
           S     == sealed \cup {e}
<1>1. /\ Has(c) /\ Cardinality(sealed) < MaxMessages /\ IsFiniteSet(sealed)
      /\ channel' = [channel EXCEPT ![c] = after] /\ sealed' = S /\ net' = net
      /\ e.from = c /\ Chained(S) /\ MembersFit(S)
      /\ \A d \in Node : Has(d) => Faultless(channel[d], S)
      /\ \/ after = Halted /\ Cardinality(S) > MaxSlabs
         \/ /\ Faultless(after, S)
            /\ Extends(LogOf(ch), LogOf(after))
            /\ Forward(ch.state.nodes, after.state.nodes)
            /\ e \in ToSet(LogOf(after))
  BY SendGrows
<1> HIDE DEF e, after
<1>2. Memories' /\ InFlight' /\ Onward /\ sealed' # {}
  <2>1. \A x \in sealed' : x \notin sealed =>
            x.from = c /\ (after # Halted => x \in ToSet(LogOf(after)))
    BY <1>1
  <2>2. sealed \subseteq sealed' /\ \A d \in Node : d # c /\ Has(d) => Faultless(channel[d], sealed')
    BY <1>1
  <2> QED BY <1>1, <2>1, <2>2, DeviceMoves
<1>3. IsFiniteSet(S) /\ Cardinality(S) <= MaxMessages /\ MaxMessages # 0
  <2>1. Cardinality(sealed) \in Nat
    BY <1>1, FS_CardinalityType
  <2>2. /\ IsFiniteSet(S)
        /\ Cardinality(S) = IF e \in sealed THEN Cardinality(sealed) ELSE Cardinality(sealed) + 1
    BY <1>1, FS_AddElement
  <2> HIDE DEF S
  <2> QED BY <1>1, <2>1, <2>2, BoundsAssumption
<1>4. Sealings'
  BY <1>1, <1>2, <1>3 DEF Sealings
<1> QED BY <1>2, <1>4

\* A device that processes a response to itself or, overhearing, to another.
LEMMA ReplicatedReceive ==
  ASSUME Replicated, NEW c \in Node, Has(c), NEW data \in Seq(sealed),
         channel' = [channel EXCEPT ![c] = ReceiveBuffer(channel[c], data).channel],
         UNCHANGED <<sealed, net>>
  PROVE  Sealings' /\ Memories' /\ InFlight' /\ Onward
<1> DEFINE after == ReceiveBuffer(channel[c], data).channel
<1>1. /\ Chained(sealed) /\ MembersFit(sealed) /\ IsFiniteSet(sealed)
      /\ Faultless(channel[c], sealed) /\ sealed' = sealed /\ net' = net
  BY DEF Replicated, Sealings, Memories
<1>2. \/ after = Halted /\ Cardinality(sealed) > MaxSlabs
      \/ /\ Faultless(after, sealed)
         /\ Extends(LogOf(channel[c]), LogOf(after))
         /\ Forward(channel[c].state.nodes, after.state.nodes)
  BY <1>1, ReceiveFills
<1> HIDE DEF after
<1>3. channel' = [channel EXCEPT ![c] = after]
  BY DEF after
<1>4. \A d \in Node : d # c /\ Has(d) => Faultless(channel[d], sealed')
  BY <1>1 DEF Replicated, Memories
<1>5. Memories' /\ InFlight' /\ Onward /\ sealed' # {}
  BY <1>1, <1>2, <1>3, <1>4, DeviceMoves
<1> QED BY <1>1, <1>5 DEF Replicated, Sealings

\* The clock of a device is behind the device, and will be.
LEMMA OwnClockBehind ==
  ASSUME NEW S, NEW ch, Remembers(ch, S)
  PROVE  Behind(FinishSyncRequest(ch), ch.state.nodes)
  BY RememberedNumbers DEF Behind, FinishSyncRequest

\* Without faults a response is processed in one way only.
LEMMA ReceivedWhole ==
  ASSUME Faults = {}, NEW ch, NEW data
  PROVE  Received(ch, data) = {ReceiveBuffer(ch, data).channel}
  BY DEF Received, ReceiveBuffer

\* More or less is in flight, all of it of use to the device it is for.
LEMMA ReplicatedNetwork ==
  ASSUME Replicated, UNCHANGED <<channel, sealed>>,
         \A m \in net' : m \in net \/
             /\ channel[m.session] # Absent
             /\ m.type = "request" /\ Has(m.session) =>
                   Behind(m.clock, channel[m.session].state.nodes)
             /\ m.type = "response" =>
                   /\ m.data \in Seq(sealed)
                   /\ Has(m.session) => Receivable(ToSet(Log(m.session)), m.data)
  PROVE  Sealings' /\ Memories' /\ InFlight' /\ Onward
<1>1. \A c \in Node : (Has(c)' <=> Has(c)) /\ Log(c)' = Log(c)
  BY DEF Has, Log
<1>2. Sealings' /\ Memories'
  BY <1>1 DEF Replicated, Sealings, Memories
<1>3. InFlight'
  BY DEF Replicated, InFlight, Has, Log
<1>4. Onward
  BY <1>1, ExtendsSame DEF Replicated, Onward
<1> QED BY <1>2, <1>3, <1>4

\* Every handler keeps the invariant, and no device loses or rewrites what it stored.
LEMMA ReplicatedStep ==
  ASSUME Faults = {}, Replicated, [Next \/ MeetingNext]_vars
  PROVE  Replicated' /\ Onward
<1>0. SafeInv'
  BY SafeStep DEF Replicated
<1> SUFFICES Sealings' /\ Memories' /\ InFlight' /\ Onward
  BY <1>0 DEF Replicated
<1>1. ASSUME NEW id \in EnvelopeId, InitChat(id) PROVE Sealings' /\ Memories' /\ InFlight' /\ Onward
  BY <1>1, ReplicatedInitChat
<1>2. ASSUME NEW c \in Node, AddChannel(c) PROVE Sealings' /\ Memories' /\ InFlight' /\ Onward
  BY <1>2, ReplicatedAddChannel
<1>3. ASSUME NEW c \in Node, NEW id \in EnvelopeId, NEW fits \in BOOLEAN, SendMessage(c, id, fits)
      PROVE  Sealings' /\ Memories' /\ InFlight' /\ Onward
  <2>1. fits = TRUE /\ Send(c, ChatMessage, id, TRUE)
    BY <1>3 DEF SendMessage
  <2>2. ChatMessage \in Payload(Node) /\ ChatMessage.kind = "ChatMessage"
    BY DEF Payload, ChatMessage
  <2> QED BY <2>1, <2>2, ReplicatedSend
<1>4. ASSUME NEW c \in Node, NEW n \in Node, NEW id \in EnvelopeId, AddNode(c, n, id)
      PROVE  Sealings' /\ Memories' /\ InFlight' /\ Onward
  <2>1. n \notin DOMAIN channel[c].state.nodes /\ Send(c, AddUser(n), id, TRUE)
    BY <1>4 DEF AddNode
  <2>2. AddUser(n) \in Payload(Node) /\ AddUser(n).kind = "AddUser" /\ AddUser(n).user = n
    BY DEF Payload, AddUser
  <2> QED BY <2>1, <2>2, ReplicatedSend
<1>5. ASSUME NEW c \in Node, Forget(c) \/ Reopen(c) PROVE FALSE
  BY <1>5 DEF Forget, Reopen
<1>6. ASSUME NEW c \in Node, SendRequest(c) PROVE Sealings' /\ Memories' /\ InFlight' /\ Onward
  <2>1. /\ Has(c) /\ UNCHANGED <<channel, sealed>> /\ net' = net \cup {SyncRequest(c)}
    BY <1>6 DEF SendRequest
  <2>2. SyncRequest(c).type = "request" /\ SyncRequest(c).session = c
        /\ SyncRequest(c).clock = FinishSyncRequest(channel[c])
    BY DEF SyncRequest
  <2>3. channel[c] # Absent /\ Remembers(channel[c], sealed)
    BY <2>1, FaultlessIs DEF Replicated, Memories
  <2>4. Behind(SyncRequest(c).clock, channel[c].state.nodes)
    BY <2>2, <2>3, OwnClockBehind
  <2> HIDE DEF SyncRequest
  <2> QED BY <2>1, <2>2, <2>3, <2>4, ReplicatedNetwork
<1>7. ASSUME NEW r \in Node, NEW m \in net, Respond(r, m) PROVE Sealings' /\ Memories' /\ InFlight' /\ Onward
  <2>1. /\ Has(r) /\ m.type = "request" /\ CanRespond(channel[r], m.clock)
        /\ UNCHANGED <<channel, sealed>>
        /\ net' \subseteq net \cup {SyncResponse(r, m)}
    BY <1>7 DEF Respond
  <2> DEFINE response == SyncResponse(r, m)
  <2>2. response.type = "response" /\ response.session = m.session
        /\ response.data = Response(channel[r], m.clock)
    BY DEF SyncResponse
  <2>3. /\ m.session \in Node /\ channel[m.session] # Absent
        /\ Has(m.session) => Behind(m.clock, channel[m.session].state.nodes)
    BY <2>1 DEF Replicated, SafeInv, Messages, IsMessage, InFlight
  <2>4. Chained(sealed) /\ Remembers(channel[r], sealed)
    BY <2>1, FaultlessIs DEF Replicated, Memories, Sealings
  <2>5. response.data \in Seq(sealed)
    BY <2>1, <2>2, <2>4, ResponseStored
  <2>6. Has(m.session) => Receivable(ToSet(Log(m.session)), response.data)
    <3> SUFFICES ASSUME Has(m.session)
                 PROVE  Receivable(ToSet(Log(m.session)), response.data)
      OBVIOUS
    <3>1. Remembers(channel[m.session], sealed) /\ Log(m.session) = LogOf(channel[m.session])
      BY <2>3, FaultlessIs, LogIsLogOf DEF Replicated, Memories
    <3> QED BY <2>1, <2>2, <2>3, <2>4, <3>1, ResponseReceivable
  <2> HIDE DEF response
  <2>7. \A x \in net' : x \in net \/ x = response
    BY <2>1 DEF response
  <2> QED BY <2>1, <2>2, <2>3, <2>5, <2>6, <2>7, ReplicatedNetwork
<1>8. ASSUME NEW c \in Node, NEW m \in net, Deliver(c, m) PROVE Sealings' /\ Memories' /\ InFlight' /\ Onward
  <2>1. /\ Has(c) /\ m.type = "response" /\ UNCHANGED <<sealed, net>>
        /\ channel' = [channel EXCEPT ![c] = ReceiveBuffer(channel[c], m.data).channel]
    <3>1. Received(channel[c], m.data) = {ReceiveBuffer(channel[c], m.data).channel}
      BY ReceivedWhole
    <3> QED BY <1>8, <3>1 DEF Deliver
  <2>2. m.data \in Seq(sealed)
    BY <2>1 DEF Replicated, InFlight
  <2> QED BY <2>1, <2>2, ReplicatedReceive
<1>9. ASSUME NEW m \in net, Lose(m) PROVE Sealings' /\ Memories' /\ InFlight' /\ Onward
  BY <1>9, ReplicatedNetwork DEF Lose
<1>10. ASSUME NEW c \in Node, NEW r \in Node, Sync(c, r) PROVE Sealings' /\ Memories' /\ InFlight' /\ Onward
  <2> DEFINE data == Response(channel[r], FinishSyncRequest(channel[c]))
  <2>1. /\ Has(c) /\ Has(r) /\ CanRespond(channel[r], FinishSyncRequest(channel[c]))
        /\ channel' = [channel EXCEPT ![c] = ReceiveBuffer(channel[c], data).channel]
        /\ UNCHANGED <<sealed, net>>
    <3>1. Received(channel[c], data) = {ReceiveBuffer(channel[c], data).channel}
      BY ReceivedWhole
    <3>2. /\ Has(c) /\ Has(r) /\ CanRespond(channel[r], FinishSyncRequest(channel[c]))
          /\ \E received \in Received(channel[c], data) :
                channel' = [channel EXCEPT ![c] = received]
          /\ UNCHANGED <<sealed, net>>
      BY <1>10 DEF Sync
    <3> HIDE DEF data
    <3> QED BY <3>1, <3>2
  <2>2. Chained(sealed) /\ Remembers(channel[r], sealed)
    BY <2>1, FaultlessIs DEF Replicated, Memories, Sealings
  <2>3. data \in Seq(sealed)
    BY <2>1, <2>2, ResponseStored
  <2> HIDE DEF data
  <2> QED BY <2>1, <2>3, ReplicatedReceive
<1>11. ASSUME UNCHANGED vars PROVE Sealings' /\ Memories' /\ InFlight' /\ Onward
  BY <1>11, ReplicatedNetwork DEF vars
<1> QED
  BY <1>1, <1>2, <1>3, <1>4, <1>5, <1>6, <1>7, <1>8, <1>9, <1>10, <1>11
  DEF Next, MeetingNext, DeviceNext, NetworkNext

-----------------------------------------------------------------------------
(* Without faults: the properties                                          *)

\* Replicated is an invariant, whichever way devices synchronise.
THEOREM ReplicatedInvariance ==
  ASSUME Faults = {}
  PROVE  (Spec => []Replicated) /\ (MeetingSpec => []Replicated)
<1>1. Replicated /\ [Next \/ MeetingNext]_vars => Replicated'
  BY ReplicatedStep
<1>2. [Next]_vars => [Next \/ MeetingNext]_vars
  OBVIOUS
<1>3. [MeetingNext]_vars => [Next \/ MeetingNext]_vars
  OBVIOUS
<1> QED BY <1>1, <1>2, <1>3, ReplicatedInit, PTL DEF Spec, MeetingSpec

\* What Replicated says of one device.
LEMMA DeviceRemembers ==
  ASSUME Replicated, NEW c \in Node, Has(c)
  PROVE  /\ Faultless(channel[c], sealed) /\ Remembers(channel[c], sealed)
         /\ Chained(sealed) /\ IsFiniteSet(sealed) /\ MembersFit(sealed)
         /\ Log(c) = LogOf(channel[c])
         /\ Len(Log(c)) \in Nat /\ DOMAIN Log(c) = 1 .. Len(Log(c))
         /\ ToSet(Log(c)) \subseteq sealed
         /\ \A i \in DOMAIN Log(c) : Log(c)[i] \in sealed /\ Log(c)[i] \in ToSet(Log(c))
<1>1. Faultless(channel[c], sealed) /\ Log(c) = LogOf(channel[c])
  BY LogIsLogOf DEF Replicated, Memories
<1>2. /\ Remembers(channel[c], sealed)
      /\ Len(Log(c)) \in Nat /\ DOMAIN Log(c) = 1 .. Len(Log(c))
  BY <1>1, FaultlessIs
<1>3. ToSet(Log(c)) \subseteq sealed
  BY <1>1, <1>2, RememberedNumbers
<1>4. \A i \in DOMAIN Log(c) : Log(c)[i] \in ToSet(Log(c))
  BY DEF ToSet
<1> QED BY <1>1, <1>2, <1>3, <1>4 DEF Replicated, Sealings

\* Without faults, what a stored message names as its cause is stored before it.
THEOREM CauseDeliveredAlways ==
  ASSUME Faults = {}
  PROVE  (Spec => []CauseDelivered) /\ (MeetingSpec => []CauseDelivered)
<1>1. Replicated => CauseDelivered
  <2> SUFFICES ASSUME Replicated, NEW c \in Node, NEW i \in DOMAIN Log(c),
                      CauseTarget(Log(c)[i]) # 0
               PROVE  \E e \in Before(Log(c), i) :
                          e.from = Log(c)[i].cause /\ e.sequence >= CauseTarget(Log(c)[i])
    BY DEF CauseDelivered
  <2>1. Has(c)
    BY DEF Log
  <2>2. Ready(Before(Log(c), i), Log(c)[i])
    BY <2>1, DeviceRemembers DEF Remembers, ReadyInOrder
  <2> QED BY <2>2 DEF Ready
<1> QED BY <1>1, ReplicatedInvariance, PTL

\* Without faults, replaying the records of a device gives its memory.
THEOREM MemoryMatchesRecordsAlways ==
  ASSUME Faults = {}
  PROVE  (Spec => []MemoryMatchesRecords) /\ (MeetingSpec => []MemoryMatchesRecords)
<1>1. Replicated => MemoryMatchesRecords
  <2> SUFFICES ASSUME Replicated, NEW c \in Node, Has(c)
               PROVE  LET replayed == Replay(Owner, channel[c].storage) IN
                      /\ replayed.ok
                      /\ replayed.channel.state = channel[c].state
                      /\ replayed.channel.chat = channel[c].chat
    BY DEF MemoryMatchesRecords
  <2>1. Remembers(channel[c], sealed) /\ Recorded(channel[c])
    BY DeviceRemembers DEF Faultless
  <2> QED BY <2>1, RecordedReplays
<1> QED BY <1>1, ReplicatedInvariance, PTL

\* Without faults, get_message finds every text a device stored.
THEOREM MessagesReadableAlways ==
  ASSUME Faults = {}
  PROVE  (Spec => []MessagesReadable) /\ (MeetingSpec => []MessagesReadable)
<1>1. Replicated => MessagesReadable
  <2> SUFFICES ASSUME Replicated, NEW c \in Node, Has(c)
               PROVE  /\ channel[c].chat.message_count =
                             Cardinality(Texts(Log(c), Len(Log(c))))
                      /\ \A i \in DOMAIN Log(c) :
                            Log(c)[i].data = ChatMessage =>
                                GetMessage(channel[c], Cardinality(Texts(Log(c), i))) = Log(c)[i]
    BY DEF MessagesReadable
  <2>1. /\ Remembers(channel[c], sealed) /\ Counted(channel[c])
        /\ Log(c) = LogOf(channel[c])
    BY DeviceRemembers DEF Faultless
  <2>2. Len(Log(c)) = channel[c].storage.slab_count
    BY <2>1, LogIs DEF Remembers
  <2>3. channel[c].chat.message_count = Cardinality(Texts(Log(c), Len(Log(c))))
    BY <2>1, <2>2 DEF Counted
  <2>4. \A i \in DOMAIN Log(c) :
            Log(c)[i].data = ChatMessage =>
                GetMessage(channel[c], Cardinality(Texts(Log(c), i))) = Log(c)[i]
    BY <2>1, CountedReads
  <2> QED BY <2>3, <2>4
<1> QED BY <1>1, ReplicatedInvariance, PTL

\* What one sender sealed before e, a device that stored e stored before it.
LEMMA SenderBefore ==
  ASSUME Replicated, NEW c \in Node, NEW i \in DOMAIN Log(c)
  PROVE  SentBy(Log(c)[i].from, Before(Log(c), i)) =
             {f \in sealed : f.from = Log(c)[i].from /\ f.sequence < Log(c)[i].sequence}
<1> DEFINE log == Log(c)
           e   == log[i]
<1>1. Has(c)
  BY DEF Log
<1>2. /\ Remembers(channel[c], sealed) /\ Chained(sealed) /\ log = LogOf(channel[c])
      /\ Len(log) \in Nat /\ DOMAIN log = 1 .. Len(log)
      /\ \A j \in DOMAIN log : log[j] \in sealed /\ log[j] \in ToSet(log)
  BY <1>1, DeviceRemembers
<1>3. \A f \in sealed : f.sequence \in Nat
  BY <1>2, ChainedNumbers
<1>4. Complete(channel[c].state.nodes, log, sealed) /\ Ordered(log)
  BY <1>2 DEF Remembers
<1>5. /\ e.from \in DOMAIN channel[c].state.nodes
      /\ e.sequence <= channel[c].state.nodes[e.from].sequence
      /\ channel[c].state.nodes[e.from].sequence \in Nat
  BY <1>2, RememberedNumbers
<1> HIDE DEF log
<1>6. ASSUME NEW f \in Before(log, i), f.from = e.from
      PROVE  f \in sealed /\ f.sequence < e.sequence
  <2>1. PICK j \in 1 .. i - 1 : f = log[j]
    BY DEF Before
  <2>2. j \in DOMAIN log /\ j < i /\ i \in DOMAIN log
    BY <1>2 DEF log
  <2> QED BY <1>2, <1>4, <1>6, <2>1, <2>2 DEF Ordered
<1>7. ASSUME NEW f \in sealed, f.from = e.from, f.sequence < e.sequence
      PROVE  f \in Before(log, i)
  <2>1. i \in DOMAIN log /\ e \in sealed
    BY <1>2 DEF log
  <2>2. f \in ToSet(log)
    <3>1. f.sequence <= channel[c].state.nodes[e.from].sequence
      BY <1>3, <1>5, <1>7, <2>1
    <3> QED BY <1>4, <1>5, <1>7, <3>1 DEF Complete
  <2>3. PICK j \in DOMAIN log : f = log[j]
    BY <2>2 DEF ToSet
  <2>4. j < i
    <3>1. j # i /\ ~(i < j)
      BY <1>3, <1>4, <1>7, <2>1, <2>3 DEF Ordered
    <3> QED BY <1>2, <2>1, <3>1
  <2>5. j \in 1 .. i - 1
    BY <1>2, <2>1, <2>4
  <2> QED BY <2>3, <2>5 DEF Before
<1> QED BY <1>6, <1>7 DEF SentBy, log

\* Without faults, devices hold the messages of one sender in one order.
THEOREM ConsistentSenderOrderAlways ==
  ASSUME Faults = {}
  PROVE  (Spec => []ConsistentSenderOrder) /\ (MeetingSpec => []ConsistentSenderOrder)
<1>1. Replicated => ConsistentSenderOrder
  <2> SUFFICES ASSUME Replicated, NEW c \in Node, NEW d \in Node
               PROVE  /\ \A n \in Node :
                            \/ SentBy(n, ToSet(Log(c))) \subseteq SentBy(n, ToSet(Log(d)))
                            \/ SentBy(n, ToSet(Log(d))) \subseteq SentBy(n, ToSet(Log(c)))
                      /\ \A i \in DOMAIN Log(c), j \in DOMAIN Log(d) :
                            Log(c)[i] = Log(d)[j] =>
                                SentBy(Log(c)[i].from, Before(Log(c), i)) =
                                    SentBy(Log(c)[i].from, Before(Log(d), j))
    BY DEF ConsistentSenderOrder
  <2>1. ASSUME NEW n \in Node
        PROVE  \/ SentBy(n, ToSet(Log(c))) \subseteq SentBy(n, ToSet(Log(d)))
               \/ SentBy(n, ToSet(Log(d))) \subseteq SentBy(n, ToSet(Log(c)))
    <3> SUFFICES ASSUME NEW e \in ToSet(Log(c)), e.from = n, e \notin ToSet(Log(d)),
                        NEW f \in ToSet(Log(d)), f.from = n, f \notin ToSet(Log(c))
                 PROVE  FALSE
      BY DEF SentBy
    <3>1. Has(c) /\ Has(d)
      BY LogIsLogOf
    <3>2. /\ Remembers(channel[c], sealed) /\ Remembers(channel[d], sealed) /\ Chained(sealed)
          /\ Log(c) = LogOf(channel[c]) /\ Log(d) = LogOf(channel[d])
          /\ e \in sealed /\ f \in sealed
      BY <3>1, DeviceRemembers
    <3>3. /\ Complete(channel[c].state.nodes, Log(c), sealed)
          /\ Complete(channel[d].state.nodes, Log(d), sealed)
      BY <3>2 DEF Remembers
    <3>4. /\ n \in DOMAIN channel[c].state.nodes /\ n \in DOMAIN channel[d].state.nodes
          /\ e.sequence <= channel[c].state.nodes[n].sequence
          /\ f.sequence <= channel[d].state.nodes[n].sequence
          /\ channel[c].state.nodes[n].sequence \in Nat
          /\ channel[d].state.nodes[n].sequence \in Nat
      BY <3>2, RememberedNumbers
    <3>5. e.sequence \in Nat /\ f.sequence \in Nat
      BY <3>2, ChainedNumbers
    <3>6. f.sequence > channel[c].state.nodes[n].sequence
      BY <3>2, <3>3, <3>4, <3>5 DEF Complete
    <3>7. e.sequence > channel[d].state.nodes[n].sequence
      BY <3>2, <3>3, <3>4, <3>5 DEF Complete
    <3> QED BY <3>4, <3>5, <3>6, <3>7
  <2>2. ASSUME NEW i \in DOMAIN Log(c), NEW j \in DOMAIN Log(d), Log(c)[i] = Log(d)[j]
        PROVE  SentBy(Log(c)[i].from, Before(Log(c), i)) = SentBy(Log(c)[i].from, Before(Log(d), j))
    <3>1. SentBy(Log(c)[i].from, Before(Log(c), i)) =
              {f \in sealed : f.from = Log(c)[i].from /\ f.sequence < Log(c)[i].sequence}
      BY SenderBefore
    <3>2. SentBy(Log(d)[j].from, Before(Log(d), j)) =
              {f \in sealed : f.from = Log(d)[j].from /\ f.sequence < Log(d)[j].sequence}
      BY SenderBefore
    <3> QED BY <2>2, <3>1, <3>2
  <2> QED BY <2>1, <2>2
<1> QED BY <1>1, ReplicatedInvariance, PTL

-----------------------------------------------------------------------------
(* Without faults, and with a slab for every message                       *)

\* A slab for every message there may be is one for every message sealed.
LEMMA SlabsSuffice ==
  ASSUME MaxMessages <= MaxSlabs, NEW S, IsFiniteSet(S),
         Cardinality(S) <= IF MaxMessages = 0 THEN 1 ELSE MaxMessages
  PROVE  ~(Cardinality(S) > MaxSlabs)
<1>1. Cardinality(S) \in Nat
  BY FS_CardinalityType
<1> QED BY <1>1, BoundsAssumption

\* A log that goes on from another has that one as its first part.
LEMMA PrefixIs ==
  ASSUME NEW log \in Seq(Sealable), NEW longer \in Seq(Sealable), Extends(log, longer)
  PROVE  IsPrefix(log, longer)
<1>1. /\ Len(log) \in Nat /\ Len(longer) \in Nat /\ Len(log) <= Len(longer)
      /\ \A i \in 1 .. Len(log) : longer[i] = log[i]
  BY DEF Extends
<1>2. SubSeq(log, 1, Len(log)) = SubSeq(longer, 1, Len(log))
  BY <1>1
<1> QED BY <1>1, <1>2 DEF IsPrefix

\* A response can be received whole whenever it arrives.
THEOREM ResponsesAreReceivableAlways ==
  ASSUME Faults = {}, MaxMessages <= MaxSlabs
  PROVE  Spec => []ResponsesAreReceivable
<1>1. Replicated => ResponsesAreReceivable
  <2> SUFFICES ASSUME Replicated, NEW m \in net, m.type = "response", Has(m.session)
               PROVE  ReceiveBuffer(channel[m.session], m.data).ok
    BY DEF ResponsesAreReceivable
  <2>1. m.session \in Node
    BY DEF Replicated, SafeInv, Messages, IsMessage
  <2>2. /\ Faultless(channel[m.session], sealed) /\ Log(m.session) = LogOf(channel[m.session])
        /\ Chained(sealed) /\ IsFiniteSet(sealed) /\ MembersFit(sealed)
    BY <2>1, DeviceRemembers
  <2>3. m.data \in Seq(sealed) /\ Receivable(ToSet(LogOf(channel[m.session])), m.data)
    BY <2>2 DEF Replicated, InFlight
  <2>4. ~(Cardinality(sealed) > MaxSlabs)
    BY SlabsSuffice DEF Replicated, Sealings
  <2>5. LET received == ReceiveBuffer(channel[m.session], m.data) IN
        received.ok \in BOOLEAN /\ (received.ok \/ Cardinality(sealed) > MaxSlabs)
    BY <2>2, <2>3, <2>4, ReceiveFills
  <2> QED BY <2>4, <2>5
<1> QED BY <1>1, ReplicatedInvariance, PTL

Logged == \A c \in Node : Log(c) \in Seq(Sealable)

\* Without faults every log is a sequence of envelopes.
LEMMA LogTypes == Replicated => Logged
<1> SUFFICES ASSUME Replicated, NEW c \in Node PROVE Log(c) \in Seq(Sealable)
  BY DEF Logged
<1>1. CASE Has(c)
  <2>1. Log(c) = LogOf(channel[c]) /\ Sound(channel[c])
    BY <1>1, DeviceRemembers DEF Remembers
  <2> QED BY <2>1, LogIs
<1>2. CASE ~Has(c)
  BY <1>2 DEF Log
<1> QED BY <1>1, <1>2

\* With a slab for every message, a device that goes on keeps its log.
LEMMA OnwardKeeps ==
  ASSUME MaxMessages <= MaxSlabs, Logged, Logged', Sealings', Onward
  PROVE  \A c \in Node : IsPrefix(Log(c), Log(c)')
<1> SUFFICES ASSUME NEW c \in Node PROVE IsPrefix(Log(c), Log(c)')
  OBVIOUS
<1>1. CASE Has(c)
  <2>1. ~(Cardinality(sealed') > MaxSlabs)
    BY SlabsSuffice DEF Sealings
  <2>2. Has(c)' /\ Extends(Log(c), Log(c)')
    BY <1>1, <2>1 DEF Onward
  <2> QED BY <2>2, PrefixIs DEF Logged
<1>2. CASE ~Has(c)
  <2>1. Log(c) = <<>>
    BY <1>2 DEF Log
  <2>2. Log(c) \in Seq(Sealable) /\ Log(c)' \in Seq(Sealable)
    BY DEF Logged
  <2>3. Extends(Log(c), Log(c)')
    BY <2>1, <2>2 DEF Extends
  <2> QED BY <2>2, <2>3, PrefixIs
<1> QED BY <1>1, <1>2

\* No device loses or rewrites what it stored.
THEOREM StoredForGoodAlways ==
  ASSUME Faults = {}, MaxMessages <= MaxSlabs
  PROVE  (Spec => StoredForGood) /\ (MeetingSpec => StoredForGood)
<1>1. Replicated /\ [Next \/ MeetingNext]_vars => Replicated' /\ Onward
  BY ReplicatedStep
<1>2. Replicated => Logged /\ Sealings
  BY LogTypes DEF Replicated
<1>3. Logged /\ Logged' /\ Sealings' /\ Onward => \A c \in Node : IsPrefix(Log(c), Log(c)')
  BY OnwardKeeps
<1>4. [Next]_vars => [Next \/ MeetingNext]_vars
  OBVIOUS
<1>5. [MeetingNext]_vars => [Next \/ MeetingNext]_vars
  OBVIOUS
<1> QED
  BY <1>1, <1>2, <1>3, <1>4, <1>5, ReplicatedInvariance, PTL DEF Spec, MeetingSpec, StoredForGood

-----------------------------------------------------------------------------
(* Without faults, and with room for every record in one response          *)

\* One exchange gives a device all that the other has.
THEOREM OneExchangeSyncsAlways ==
  ASSUME Faults = {}, MaxMessages <= MaxSlabs, MaxMessages <= BufferRecords
  PROVE  (Spec => []OneExchangeSyncs) /\ (MeetingSpec => []OneExchangeSyncs)
<1>1. Replicated => OneExchangeSyncs
  <2> SUFFICES ASSUME Replicated, NEW c \in Node, NEW r \in Node, Has(c), Has(r)
               PROVE  LET clock  == FinishSyncRequest(channel[c])
                          synced == ReceiveBuffer(channel[c], Response(channel[r], clock))
                      IN  IF CanRespond(channel[r], clock)
                          THEN /\ synced.ok
                               /\ ToSet(Log(r)) \subseteq
                                     {record.data : record \in ToSet(synced.channel.storage.slabs)}
                          ELSE ToSet(Log(r)) \subseteq ToSet(Log(c))
    BY DEF OneExchangeSyncs
  <2> DEFINE clock  == FinishSyncRequest(channel[c])
             data   == Response(channel[r], clock)
             synced == ReceiveBuffer(channel[c], data)
             after  == synced.channel
  <2>1. /\ Faultless(channel[c], sealed) /\ Remembers(channel[c], sealed)
        /\ Remembers(channel[r], sealed)
        /\ Chained(sealed) /\ IsFiniteSet(sealed) /\ MembersFit(sealed)
        /\ Log(c) = LogOf(channel[c]) /\ Log(r) = LogOf(channel[r])
    BY DeviceRemembers
  <2>2. Behind(clock, channel[c].state.nodes)
    BY <2>1, OwnClockBehind
  <2>3. ~(Cardinality(sealed) > MaxSlabs)
    BY SlabsSuffice DEF Replicated, Sealings
  <2>4. channel[r].storage.slab_count <= BufferRecords
    <3>1. /\ channel[r].storage.slab_count <= Cardinality(sealed)
          /\ channel[r].storage.slab_count \in Nat
      BY <2>1, LogLength, LogIs DEF Remembers
    <3>2. Cardinality(sealed) \in Nat
      BY <2>1, FS_CardinalityType
    <3>3. Cardinality(sealed) <= IF MaxMessages = 0 THEN 1 ELSE MaxMessages
      BY DEF Replicated, Sealings
    <3> QED BY <3>1, <3>2, <3>3, BoundsAssumption
  <2> HIDE DEF clock
  <2>5. CASE ~CanRespond(channel[r], clock)
    <3>1. ToSet(Log(r)) \subseteq ToSet(Log(c))
      BY <2>1, <2>2, <2>5, NoResponse
    <3> QED BY <2>5, <3>1 DEF clock
  <2>6. CASE CanRespond(channel[r], clock)
    <3>1. /\ data \in Seq(sealed)
          /\ Receivable(ToSet(Log(c)), data)
          /\ ToSet(Log(r)) \subseteq ToSet(Log(c)) \cup ToSet(data)
      BY <2>1, <2>2, <2>4, <2>6, ResponseReceivable
    <3> HIDE DEF data
    <3>2. /\ synced.ok \in BOOLEAN
          /\ \/ after = Halted /\ ~synced.ok /\ Cardinality(sealed) > MaxSlabs
             \/ /\ Faultless(after, sealed)
                /\ Extends(Log(c), LogOf(after))
                /\ synced.ok => ToSet(data) \subseteq ToSet(LogOf(after))
                /\ synced.ok \/ Cardinality(sealed) > MaxSlabs
      BY <2>1, <3>1, ReceiveFills
    <3> HIDE DEF synced
    <3>3. /\ synced.ok /\ Faultless(after, sealed) /\ Extends(Log(c), LogOf(after))
          /\ ToSet(data) \subseteq ToSet(LogOf(after))
      BY <2>3, <3>2
    <3> HIDE DEF after
    <3>4. /\ Remembers(after, sealed) /\ Sound(after)
          /\ Len(LogOf(after)) \in Nat /\ DOMAIN LogOf(after) = 1 .. Len(LogOf(after))
      BY <3>3, FaultlessIs
    <3>5. ToSet(Log(c)) \subseteq ToSet(LogOf(after))
      BY <2>1, <3>3, <3>4, FaultlessIs, ExtendsSet
    <3>6. ToSet(LogOf(after)) \subseteq {record.data : record \in ToSet(after.storage.slabs)}
      <4>1. /\ DOMAIN LogOf(after) = 1 .. after.storage.slab_count
            /\ \A i \in 1 .. after.storage.slab_count :
                  LogOf(after)[i] = after.storage.slabs[i].data
            /\ after.storage.slab_count = Len(after.storage.slabs)
        BY <3>4, LogIs DEF Remembers, StoredOnly
      <4>2. DOMAIN after.storage.slabs = 1 .. Len(after.storage.slabs)
        <5>1. after.storage.slabs \in Seq(Record)
          BY <3>4, Parts DEF Sound
        <5> QED BY <5>1
      <4>3. \A i \in DOMAIN LogOf(after) :
               /\ after.storage.slabs[i] \in ToSet(after.storage.slabs)
               /\ LogOf(after)[i] = after.storage.slabs[i].data
        BY <4>1, <4>2 DEF ToSet
      <4> QED BY <4>3 DEF ToSet
    <3>7. ToSet(Log(r)) \subseteq {record.data : record \in ToSet(after.storage.slabs)}
      BY <3>1, <3>3, <3>5, <3>6
    <3> QED BY <2>6, <3>3, <3>7 DEF clock, data, synced, after
  <2> QED BY <2>5, <2>6
<1> QED BY <1>1, ReplicatedInvariance, PTL

-----------------------------------------------------------------------------
(* Without faults or overhearing: causal delivery                          *)

\* Where log has e, what is before it there is in K.
CausedBy(log, e, K) == \A k \in DOMAIN log : log[k] = e => Before(log, k) \subseteq K

\* K has all that the sender of e had stored when it sealed e.
Caused(e, K) == \A d \in Node : d = e.from => CausedBy(Log(d), e, K)

\* A device that knows K and takes in data in order never misses a cause.
Follows(K, data) == \A i \in DOMAIN data : Caused(data[i], K \cup {data[j] : j \in 1 .. i - 1})

Causal ==
    /\ \A c \in Node : \A i \in DOMAIN Log(c) : Caused(Log(c)[i], Before(Log(c), i))
    /\ \A m \in net : m.type = "response" /\ Has(m.session) =>
          Follows(ToSet(Log(m.session)), m.data)

\* No device stores an envelope twice.
Orderly ==
    \A c \in Node :
        /\ Len(Log(c)) \in Nat /\ DOMAIN Log(c) = 1 .. Len(Log(c))
        /\ \A i \in DOMAIN Log(c) : Log(c)[i] \in sealed
        /\ \A i, j \in DOMAIN Log(c) : Log(c)[i] = Log(c)[j] => i = j

\* The invariant has no envelope twice in a log.
LEMMA StoredOnce == Replicated => Orderly
<1> SUFFICES ASSUME Replicated, NEW c \in Node
             PROVE  /\ Len(Log(c)) \in Nat /\ DOMAIN Log(c) = 1 .. Len(Log(c))
                    /\ \A i \in DOMAIN Log(c) : Log(c)[i] \in sealed
                    /\ \A i, j \in DOMAIN Log(c) : Log(c)[i] = Log(c)[j] => i = j
  BY DEF Orderly
<1>1. CASE Has(c)
  <2> DEFINE log == Log(c)
  <2>1. /\ Remembers(channel[c], sealed) /\ Chained(sealed) /\ log = LogOf(channel[c])
        /\ Len(log) \in Nat /\ DOMAIN log = 1 .. Len(log)
        /\ \A i \in DOMAIN log : log[i] \in sealed
    BY <1>1, DeviceRemembers
  <2>2. Ordered(log) /\ \A f \in sealed : f.sequence \in Nat
    BY <2>1, ChainedNumbers DEF Remembers
  <2> HIDE DEF log
  <2>3. ASSUME NEW i \in DOMAIN log, NEW j \in DOMAIN log, log[i] = log[j] PROVE i = j
    <3>1. log[i].sequence \in Nat /\ log[i].from = log[j].from /\ log[i].sequence = log[j].sequence
      BY <2>1, <2>2, <2>3
    <3>2. ~(log[i].sequence < log[j].sequence) /\ ~(log[j].sequence < log[i].sequence)
      BY <3>1
    <3>3. ~(i < j) /\ ~(j < i)
      BY <2>2, <3>1, <3>2 DEF Ordered
    <3> QED BY <2>1, <3>3
  <2> QED BY <2>1, <2>3 DEF log
<1>2. CASE ~Has(c)
  <2>1. Log(c) = <<>>
    BY <1>2 DEF Log
  <2> QED BY <2>1
<1> QED BY <1>1, <1>2

\* A device that halted stays halted; the others keep what they stored.
Steady ==
    \A d \in Node :
        /\ channel[d] = Halted => channel'[d] = Halted
        /\ \/ channel'[d] = Halted
           \/ Extends(Log(d), Log(d)')

\* A device that panicked has no log any more.
LEMMA HaltedLog ==
  \A d \in Node : /\ channel[d] = Halted => Log(d) = <<>>
                  /\ channel'[d] = Halted => Log(d)' = <<>>
  BY DEF Log, Has

\* What was caused in a log stays so in a longer one.
LEMMA CausedByStays ==
  ASSUME NEW log, Len(log) \in Nat, DOMAIN log = 1 .. Len(log),
         NEW longer, Len(longer) \in Nat, DOMAIN longer = 1 .. Len(longer),
         Extends(log, longer), \A i, j \in DOMAIN longer : longer[i] = longer[j] => i = j,
         NEW e \in ToSet(log), NEW K, NEW L, K \subseteq L, CausedBy(log, e, K)
  PROVE  CausedBy(longer, e, L)
<1> SUFFICES ASSUME NEW k \in DOMAIN longer, longer[k] = e PROVE Before(longer, k) \subseteq L
  BY DEF CausedBy
<1>1. PICK i \in DOMAIN log : log[i] = e
  BY DEF ToSet
<1>2. i \in DOMAIN longer /\ longer[i] = e
  BY <1>1 DEF Extends
<1>3. k = i
  BY <1>2
<1>4. \A j \in 1 .. i - 1 : longer[j] = log[j]
  BY <1>1 DEF Extends
<1>5. Before(longer, k) = Before(log, i)
  BY <1>3, <1>4 DEF Before
<1> QED BY <1>1, <1>5 DEF CausedBy

\* What the sender of a sealed envelope had stored before it stays what it was.
LEMMA CausedStays ==
  ASSUME Replicated, Orderly', Steady, NEW e \in sealed,
         NEW K, NEW L, K \subseteq L, Caused(e, K)
  PROVE  \A d \in Node : d = e.from => CausedBy(Log(d)', e, L)
<1> SUFFICES ASSUME NEW d \in Node, d = e.from PROVE CausedBy(Log(d)', e, L)
  OBVIOUS
<1>1. CASE channel'[d] = Halted
  <2>1. Log(d)' = <<>>
    BY <1>1, HaltedLog
  <2> QED BY <2>1 DEF CausedBy
<1>2. CASE channel'[d] # Halted
  <2>1. channel[d] # Halted /\ Extends(Log(d), Log(d)')
    BY <1>2 DEF Steady
  <2>2. e \in ToSet(Log(d))
    BY <2>1 DEF Replicated, Memories
  <2>3. Len(Log(d)) \in Nat /\ DOMAIN Log(d) = 1 .. Len(Log(d))
    BY StoredOnce DEF Orderly
  <2>4. /\ Len(Log(d)') \in Nat /\ DOMAIN Log(d)' = 1 .. Len(Log(d)')
        /\ \A i, j \in DOMAIN Log(d)' : Log(d)'[i] = Log(d)'[j] => i = j
    BY DEF Orderly
  <2>5. CausedBy(Log(d), e, K)
    BY DEF Caused
  <2> QED BY <2>1, <2>2, <2>3, <2>4, <2>5, CausedByStays
<1> QED BY <1>1, <1>2

\* What is before an envelope stays so when the log goes on.
LEMMA ExtendsBefore ==
  ASSUME NEW log, Len(log) \in Nat, NEW longer, Extends(log, longer), NEW i \in 1 .. Len(log)
  PROVE  longer[i] = log[i] /\ Before(longer, i) = Before(log, i)
<1>1. \A j \in 1 .. i - 1 : j \in 1 .. Len(log)
  OBVIOUS
<1> QED BY <1>1 DEF Extends, Before

\* A step that stores an envelope after its causes keeps what is in flight and
\* what is stored causal.
LEMMA CausalKept ==
  ASSUME Replicated, Causal, Orderly', Steady, sealed \subseteq sealed',
         \A e \in sealed' : e \notin sealed =>
             \A c \in Node : e \in ToSet(Log(c)') => e.from = c,
         \A c \in Node : \A i \in DOMAIN Log(c)' :
             i \notin DOMAIN Log(c) /\ Log(c)'[i] \in sealed =>
                 Caused(Log(c)'[i], Before(Log(c)', i)),
         \A m \in net' :
             \/ m \in net
             \/ m.type = "request"
             \/ /\ m.session \in Node /\ channel[m.session] # Absent /\ m.data \in Seq(sealed)
                /\ Has(m.session) => Follows(ToSet(Log(m.session)), m.data)
  PROVE  Causal'
<1>1. ASSUME NEW c \in Node, NEW i \in DOMAIN Log(c)'
      PROVE  \A d \in Node : d = Log(c)'[i].from =>
                 CausedBy(Log(d)', Log(c)'[i], Before(Log(c)', i))
  <2> DEFINE e == Log(c)'[i]
  <2>0. /\ e \in sealed' /\ e \in ToSet(Log(c)')
        /\ \A j, k \in DOMAIN Log(c)' : Log(c)'[j] = Log(c)'[k] => j = k
    BY <1>1 DEF Orderly, ToSet
  <2>1. CASE e \notin sealed
    <3>1. e.from = c
      BY <2>0, <2>1
    <3>2. \A k \in DOMAIN Log(c)' : Log(c)'[k] = e => k = i
      BY <1>1, <2>0
    <3> HIDE DEF e
    <3>3. CausedBy(Log(c)', e, Before(Log(c)', i))
      BY <3>2 DEF CausedBy
    <3> QED BY <3>1, <3>3 DEF e
  <2>2. CASE e \in sealed
    <3>1. Caused(e, Before(Log(c)', i))
      <4>1. CASE i \in DOMAIN Log(c)
        <5>1. channel'[c] # Halted
          <6>1. channel'[c] = Halted => DOMAIN Log(c)' = {}
            BY HaltedLog
          <6> QED BY <1>1, <6>1
        <5>2. Extends(Log(c), Log(c)') /\ Len(Log(c)) \in Nat /\ i \in 1 .. Len(Log(c))
          BY <4>1, <5>1, StoredOnce DEF Steady, Orderly
        <5>3. e = Log(c)[i] /\ Before(Log(c)', i) = Before(Log(c), i)
          BY <5>2, ExtendsBefore
        <5>4. Caused(Log(c)[i], Before(Log(c), i))
          BY <4>1 DEF Causal
        <5> QED BY <5>3, <5>4
      <4>2. CASE i \notin DOMAIN Log(c)
        BY <1>1, <2>2, <4>2
      <4> QED BY <4>1, <4>2
    <3> HIDE DEF e
    <3> QED BY <2>2, <3>1, CausedStays DEF e
  <2> QED BY <2>1, <2>2
<1>2. ASSUME NEW m \in net', m.type = "response", Has(m.session)', NEW i \in DOMAIN m.data
      PROVE  \A d \in Node : d = m.data[i].from =>
                 CausedBy(Log(d)', m.data[i],
                      ToSet(Log(m.session)') \cup {m.data[j] : j \in 1 .. i - 1})
  <2>1. m.session \in Node /\ channel[m.session] # Absent /\ m.data \in Seq(sealed)
    <3>1. m.type # "request"
      BY <1>2
    <3>2. CASE m \in net
      BY <1>2, <3>2 DEF Replicated, SafeInv, Messages, IsMessage, InFlight
    <3> QED BY <3>1, <3>2
  <2>2. channel'[m.session] # Halted
    BY <1>2 DEF Has
  <2>3. Has(m.session) /\ Extends(Log(m.session), Log(m.session)')
    BY <2>1, <2>2 DEF Steady, Has
  <2>4. Follows(ToSet(Log(m.session)), m.data)
    <3>1. CASE m \in net
      BY <1>2, <2>3, <3>1 DEF Causal
    <3>2. CASE m \notin net
      <4>1. m.type # "request"
        BY <1>2
      <4> QED BY <1>2, <2>3, <3>2, <4>1
    <3> QED BY <3>1, <3>2
  <2>5. ToSet(Log(m.session)) \subseteq ToSet(Log(m.session)')
    <3>1. /\ Len(Log(m.session)) \in Nat /\ DOMAIN Log(m.session) = 1 .. Len(Log(m.session))
          /\ Len(Log(m.session)') \in Nat /\ DOMAIN Log(m.session)' = 1 .. Len(Log(m.session)')
      BY <2>1, StoredOnce DEF Orderly
    <3> QED BY <2>3, <3>1, ExtendsSet
  <2>6. m.data[i] \in sealed
    BY <1>2, <2>1
  <2>7. Caused(m.data[i], ToSet(Log(m.session)) \cup {m.data[j] : j \in 1 .. i - 1})
    BY <1>2, <2>4 DEF Follows
  <2>8. ToSet(Log(m.session)) \cup {m.data[j] : j \in 1 .. i - 1}
           \subseteq ToSet(Log(m.session)') \cup {m.data[j] : j \in 1 .. i - 1}
    BY <2>5
  <2> QED BY <2>6, <2>7, <2>8, CausedStays
<1>3. /\ \A c \in Node : \A i \in DOMAIN Log(c)' :
             \A d \in Node : d = Log(c)'[i].from =>
                 CausedBy(Log(d)', Log(c)'[i], Before(Log(c)', i))
      /\ \A m \in net' : m.type = "response" /\ Has(m.session)' => \A i \in DOMAIN m.data :
             \A d \in Node : d = m.data[i].from =>
                 CausedBy(Log(d)', m.data[i],
                      ToSet(Log(m.session)') \cup {m.data[j] : j \in 1 .. i - 1})
  BY <1>1, <1>2
<1> QED BY <1>3 DEF Causal, Caused, Follows

-----------------------------------------------------------------------------
(* Without faults or overhearing: the three kinds of step                  *)

\* Nothing is sealed or stored.  A new response is one the device it is for can
\* take in.
Passes ==
    /\ sealed' = sealed
    /\ \A c \in Node : Log(c)' = Log(c) /\ (channel'[c] = Halted <=> channel[c] = Halted)
    /\ \A m \in net' :
          \/ m \in net
          \/ m.type = "request"
          \/ /\ m.session \in Node /\ channel[m.session] # Absent /\ m.data \in Seq(sealed)
             /\ Has(m.session) => Follows(ToSet(Log(m.session)), m.data)

Others(c) == \A d \in Node : d # c => channel'[d] = channel[d]

\* Device c seals e and stores it, or has no slab left.
Seals(c, e) ==
    /\ e \notin sealed /\ e.from = c /\ e \in Sealable
    /\ \A f \in sealed : f.from = c => f.sequence # e.sequence
    /\ sealed' = sealed \cup {e} /\ net' = net
    /\ channel[c] # Halted /\ Others(c)
    /\ \/ channel'[c] = Halted /\ Cardinality(sealed') > MaxSlabs
       \/ channel'[c] # Halted /\ Grown(Log(c), e, Log(c)')

\* Device c takes in data, as far as it can, or has no slab left.
TakesIn(c, data) ==
    /\ sealed' = sealed /\ net' = net
    /\ Has(c) /\ Others(c)
    /\ Follows(ToSet(Log(c)), data)
    /\ \/ channel'[c] = Halted /\ Cardinality(sealed') > MaxSlabs
       \/ /\ channel'[c] # Halted
          /\ Extends(Log(c), Log(c)')
          /\ FromData(Log(c), Log(c)', data, Len(data))

\* A device that does nothing keeps its log.
LEMMA OthersLog ==
  ASSUME NEW c, Others(c)
  PROVE  \A d \in Node : d # c =>
            /\ Log(d)' = Log(d) /\ (channel'[d] = Halted <=> channel[d] = Halted)
            /\ Has(d)' <=> Has(d)
  BY DEF Others, Log, Has

\* The next log of a device is that of its next channel.
LEMMA LogNext ==
  ASSUME NEW c, channel'[c] \notin {Absent, Halted}
  PROVE  Has(c)' /\ Log(c)' = LogOf(channel'[c])
  BY DEF Has, Log, LogOf

\* init_chat is a step that seals.
LEMMA InitChatSeals ==
  ASSUME Replicated, NEW id \in EnvelopeId, InitChat(id)
  PROVE  \E e : Seals(Owner, e)
<1> DEFINE initial == ChannelRecord(Owner, <<>>)
           e       == Seal(initial, Owner, NewChannel(Owner), id)
           after   == Processed(initial, e, TRUE).channel
<1>1. /\ sealed = {} /\ sealed' = {e} /\ net' = net
      /\ channel' = [channel EXCEPT ![Owner] = after]
  BY DEF InitChat
<1>2. /\ e.from = Owner /\ Chained({e}) /\ Faultless(after, {e}) /\ e \in ToSet(LogOf(after))
  <2>1. id \in Nat
    OBVIOUS
  <2> QED BY <2>1, CreatedFaultless
<1> HIDE DEF e, after
<1>3. channel'[Owner] = after /\ Others(Owner) /\ channel[Owner] = Absent
  BY <1>1 DEF Replicated, SafeInv, Devices, Others, Sealings
<1>4. after \notin {Absent, Halted} /\ Remembers(after, {e})
      /\ Len(LogOf(after)) \in Nat /\ DOMAIN LogOf(after) = 1 .. Len(LogOf(after))
  BY <1>2, FaultlessIs
<1>5. Log(Owner)' = LogOf(after) /\ Log(Owner) = <<>>
  BY <1>3, <1>4 DEF Log, LogOf, Has
<1>6. Len(LogOf(after)) = 1 /\ LogOf(after)[1] = e
  <2>1. after.storage.slab_count <= Cardinality({e}) /\ IsFiniteSet({e}) /\ Cardinality({e}) = 1
    BY <1>2, <1>4, LogLength, FS_Singleton
  <2>2. Len(LogOf(after)) = after.storage.slab_count
    BY <1>4, LogIs DEF Remembers
  <2>3. PICK i \in DOMAIN LogOf(after) : LogOf(after)[i] = e
    BY <1>2 DEF ToSet
  <2> QED BY <1>4, <2>1, <2>2, <2>3
<1>7. Grown(Log(Owner), e, Log(Owner)')
  <2>1. Grown(<<>>, e, LogOf(after))
    BY <1>4, <1>6 DEF Grown
  <2> QED BY <1>5, <2>1
<1>8. Seals(Owner, e)
  BY <1>1, <1>2, <1>3, <1>4, <1>7 DEF Seals, Chained
<1> QED BY <1>8

\* send_message and add_user are steps that seal.
LEMMA SendSeals ==
  ASSUME Replicated, NEW c \in Node, NEW data \in Payload(Node), data.kind # "NewChannel",
         data.kind = "AddUser" => data.user \notin DOMAIN channel[c].state.nodes,
         NEW id \in EnvelopeId, Send(c, data, id, TRUE)
  PROVE  \E e : Seals(c, e)
<1> DEFINE ch    == channel[c]
           e     == Seal(ch, c, data, id)
           after == Processed(ch, e, TRUE).channel
           S     == sealed \cup {e}
<1>1. /\ Has(c) /\ IsFiniteSet(sealed)
      /\ channel' = [channel EXCEPT ![c] = after] /\ sealed' = S /\ net' = net
      /\ e.from = c /\ Chained(S) /\ e \notin sealed
      /\ \A f \in sealed : f.from = c => f.sequence < e.sequence
      /\ \/ after = Halted /\ Cardinality(S) > MaxSlabs
         \/ Faultless(after, S) /\ Grown(LogOf(ch), e, LogOf(after))
  BY SendGrows
<1> HIDE DEF e, after
<1>2. /\ channel'[c] = after /\ Others(c) /\ channel[c] # Halted
      /\ Log(c) = LogOf(ch)
  BY <1>1, LogIsLogOf DEF Replicated, SafeInv, Devices, Others, Has
<1>3. e \in Sealable /\ \A f \in S : f.sequence \in Nat
  BY <1>1, ChainedNumbers
<1>4. \A f \in sealed : f.from = c => f.sequence # e.sequence
  <2>1. \A x, y \in Nat : x < y => x # y
    OBVIOUS
  <2> QED BY <1>1, <1>3, <2>1
<1>5. \/ channel'[c] = Halted /\ Cardinality(sealed') > MaxSlabs
      \/ channel'[c] # Halted /\ Grown(Log(c), e, Log(c)')
  <2>1. CASE after = Halted /\ Cardinality(S) > MaxSlabs
    <3>1. Cardinality(sealed') > MaxSlabs
      BY <1>1, <2>1
    <3> QED BY <1>2, <2>1, <3>1
  <2>2. CASE Faultless(after, S) /\ Grown(LogOf(ch), e, LogOf(after))
    <3>1. after \notin {Absent, Halted}
      BY <2>2, FaultlessIs
    <3>2. Log(c)' = LogOf(after)
      BY <1>2, <3>1, LogNext
    <3> QED BY <1>2, <2>2, <3>1, <3>2
  <2> QED BY <1>1, <2>1, <2>2
<1>6. Seals(c, e)
  BY <1>1, <1>2, <1>3, <1>4, <1>5 DEF Seals
<1> QED BY <1>6

\* Processing a response is a step that takes in.
LEMMA ReceiveTakesIn ==
  ASSUME Replicated, NEW c \in Node, Has(c), NEW data \in Seq(sealed),
         Follows(ToSet(Log(c)), data),
         channel' = [channel EXCEPT ![c] = ReceiveBuffer(channel[c], data).channel],
         UNCHANGED <<sealed, net>>
  PROVE  TakesIn(c, data)
<1> DEFINE after == ReceiveBuffer(channel[c], data).channel
<1>1. /\ Chained(sealed) /\ MembersFit(sealed) /\ IsFiniteSet(sealed)
      /\ Faultless(channel[c], sealed) /\ Log(c) = LogOf(channel[c])
  BY DeviceRemembers
<1>2. \/ after = Halted /\ Cardinality(sealed) > MaxSlabs
      \/ /\ Faultless(after, sealed)
         /\ Extends(LogOf(channel[c]), LogOf(after))
         /\ FromData(LogOf(channel[c]), LogOf(after), data, Len(data))
  BY <1>1, ReceiveFills
<1> HIDE DEF after
<1>3. channel'[c] = after /\ Others(c)
  BY DEF Replicated, SafeInv, Devices, Others, after
<1>4. CASE after = Halted /\ Cardinality(sealed) > MaxSlabs
  <2>1. Cardinality(sealed') > MaxSlabs
    BY <1>4
  <2> QED BY <1>3, <1>4, <2>1 DEF TakesIn
<1>5. CASE /\ Faultless(after, sealed)
           /\ Extends(LogOf(channel[c]), LogOf(after))
           /\ FromData(LogOf(channel[c]), LogOf(after), data, Len(data))
  <2>1. after \notin {Absent, Halted}
    BY <1>5, FaultlessIs
  <2>2. Log(c)' = LogOf(after)
    BY <1>3, <2>1, LogNext
  <2> QED BY <1>1, <1>3, <1>5, <2>1, <2>2 DEF TakesIn
<1> QED BY <1>2, <1>4, <1>5

\* What a device answers follows from what the other has.
LEMMA ResponseFollows ==
  ASSUME Replicated, Causal, NEW c \in Node, Has(c), NEW r \in Node, Has(r),
         NEW clock, Behind(clock, channel[c].state.nodes), CanRespond(channel[r], clock)
  PROVE  /\ Response(channel[r], clock) \in Seq(sealed)
         /\ Follows(ToSet(Log(c)), Response(channel[r], clock))
<1> DEFINE data == Response(channel[r], clock)
<1>1. /\ Remembers(channel[c], sealed) /\ Remembers(channel[r], sealed) /\ Chained(sealed)
      /\ Log(c) = LogOf(channel[c]) /\ Log(r) = LogOf(channel[r])
  BY DeviceRemembers
<1>2. /\ data \in Seq(sealed)
      /\ \A i \in DOMAIN data : \E k \in DOMAIN Log(r) :
            /\ data[i] = Log(r)[k]
            /\ Before(Log(r), k) \subseteq ToSet(Log(c)) \cup {data[j] : j \in 1 .. i - 1}
  BY <1>1, ResponseReceivable
<1> HIDE DEF data
<1>3. ASSUME NEW i \in DOMAIN data
      PROVE  Caused(data[i], ToSet(Log(c)) \cup {data[j] : j \in 1 .. i - 1})
  <2>1. PICK k \in DOMAIN Log(r) :
           /\ data[i] = Log(r)[k]
           /\ Before(Log(r), k) \subseteq ToSet(Log(c)) \cup {data[j] : j \in 1 .. i - 1}
    BY <1>2
  <2>2. Caused(Log(r)[k], Before(Log(r), k))
    BY DEF Causal
  <2> QED BY <2>1, <2>2 DEF Caused, CausedBy
<1> QED BY <1>2, <1>3 DEF Follows, data

\* Asking, answering, losing and duplicating are steps that pass.
LEMMA NetworkPasses ==
  ASSUME UNCHANGED <<channel, sealed>>,
         \A m \in net' :
             \/ m \in net
             \/ m.type = "request"
             \/ /\ m.session \in Node /\ channel[m.session] # Absent /\ m.data \in Seq(sealed)
                /\ Has(m.session) => Follows(ToSet(Log(m.session)), m.data)
  PROVE  Passes
<1>1. \A c \in Node : Log(c)' = Log(c) /\ (channel'[c] = Halted <=> channel[c] = Halted)
  BY DEF Log, Has
<1> QED BY <1>1 DEF Passes

StepKind ==
    \/ Passes
    \/ \E c \in Node : \E e : Seals(c, e)
    \/ \E c \in Node : \E data \in Seq(sealed) : TakesIn(c, data)

\* There is no other kind of step.
LEMMA EveryStep ==
  ASSUME Faults = {}, Overhear = FALSE, Replicated, Causal, [Next \/ MeetingNext]_vars
  PROVE  StepKind
<1>1. ASSUME NEW id \in EnvelopeId, InitChat(id) PROVE StepKind
  BY <1>1, InitChatSeals DEF StepKind
<1>2. ASSUME NEW c \in Node, AddChannel(c) PROVE StepKind
  <2>1. /\ channel[c] = Absent /\ sealed' = sealed /\ net' = net
        /\ channel' = [channel EXCEPT ![c] = ChannelRecord(Owner, <<>>)]
    BY <1>2 DEF AddChannel
  <2>2. Faultless(ChannelRecord(Owner, <<>>), sealed)
    BY NewFaultless DEF Replicated, Sealings
  <2>3. ChannelRecord(Owner, <<>>) \notin {Absent, Halted} /\ ChannelRecord(Owner, <<>>).storage.slab_count = 0
    BY <2>2, FaultlessIs DEF ChannelRecord
  <2>4. channel'[c] = ChannelRecord(Owner, <<>>) /\ Others(c)
    BY <2>1 DEF Replicated, SafeInv, Devices, Others
  <2>5. Log(c) = <<>> /\ Log(c)' = <<>>
    BY <2>1, <2>3, <2>4 DEF Log, Has
  <2>6. Passes
    BY <2>1, <2>3, <2>4, <2>5, OthersLog DEF Passes
  <2> QED BY <2>6 DEF StepKind
<1>3. ASSUME NEW c \in Node, NEW id \in EnvelopeId, NEW fits \in BOOLEAN, SendMessage(c, id, fits)
      PROVE  StepKind
  <2>1. fits = TRUE /\ Send(c, ChatMessage, id, TRUE)
    BY <1>3 DEF SendMessage
  <2>2. ChatMessage \in Payload(Node) /\ ChatMessage.kind = "ChatMessage"
    BY DEF Payload, ChatMessage
  <2>3. \E e : Seals(c, e)
    BY <2>1, <2>2, SendSeals
  <2> QED BY <2>3 DEF StepKind
<1>4. ASSUME NEW c \in Node, NEW n \in Node, NEW id \in EnvelopeId, AddNode(c, n, id)
      PROVE  StepKind
  <2>1. n \notin DOMAIN channel[c].state.nodes /\ Send(c, AddUser(n), id, TRUE)
    BY <1>4 DEF AddNode
  <2>2. AddUser(n) \in Payload(Node) /\ AddUser(n).kind = "AddUser" /\ AddUser(n).user = n
    BY DEF Payload, AddUser
  <2>3. \E e : Seals(c, e)
    BY <2>1, <2>2, SendSeals
  <2> QED BY <2>3 DEF StepKind
<1>5. ASSUME NEW c \in Node, Forget(c) \/ Reopen(c) PROVE FALSE
  BY <1>5 DEF Forget, Reopen
<1>6. ASSUME NEW c \in Node, SendRequest(c) PROVE StepKind
  <2>1. UNCHANGED <<channel, sealed>> /\ net' = net \cup {SyncRequest(c)}
    BY <1>6 DEF SendRequest
  <2>2. SyncRequest(c).type = "request"
    BY DEF SyncRequest
  <2> QED BY <2>1, <2>2, NetworkPasses DEF StepKind
<1>7. ASSUME NEW r \in Node, NEW m \in net, Respond(r, m) PROVE StepKind
  <2>1. /\ Has(r) /\ m.type = "request" /\ CanRespond(channel[r], m.clock)
        /\ UNCHANGED <<channel, sealed>>
        /\ net' \subseteq net \cup {SyncResponse(r, m)}
    BY <1>7 DEF Respond
  <2> DEFINE response == SyncResponse(r, m)
  <2>2. response.session = m.session /\ response.data = Response(channel[r], m.clock)
    BY DEF SyncResponse
  <2>3. /\ m.session \in Node /\ channel[m.session] # Absent
        /\ Has(m.session) => Behind(m.clock, channel[m.session].state.nodes)
    BY <2>1 DEF Replicated, SafeInv, Messages, IsMessage, InFlight
  <2>4. response.data \in Seq(sealed)
    BY <2>1, <2>2, ResponseStored, DeviceRemembers
  <2>5. Has(m.session) => Follows(ToSet(Log(m.session)), response.data)
    BY <2>1, <2>2, <2>3, ResponseFollows
  <2> HIDE DEF response
  <2>6. \A x \in net' : x \in net \/ x = response
    BY <2>1 DEF response
  <2>7. Passes
    BY <2>1, <2>2, <2>3, <2>4, <2>5, <2>6, NetworkPasses
  <2> QED BY <2>7 DEF StepKind
<1>8. ASSUME NEW c \in Node, NEW m \in net, Deliver(c, m) PROVE StepKind
  <2>1. /\ Has(c) /\ m.type = "response" /\ m.session = c /\ UNCHANGED <<sealed, net>>
        /\ channel' = [channel EXCEPT ![c] = ReceiveBuffer(channel[c], m.data).channel]
    <3>1. Received(channel[c], m.data) = {ReceiveBuffer(channel[c], m.data).channel}
      BY ReceivedWhole
    <3> QED BY <1>8, <3>1 DEF Deliver
  <2>2. m.data \in Seq(sealed) /\ Follows(ToSet(Log(c)), m.data)
    BY <2>1 DEF Replicated, InFlight, Causal
  <2>3. TakesIn(c, m.data)
    BY <2>1, <2>2, ReceiveTakesIn
  <2> QED BY <2>2, <2>3 DEF StepKind
<1>9. ASSUME NEW m \in net, Lose(m) PROVE StepKind
  BY <1>9, NetworkPasses DEF Lose, StepKind
<1>10. ASSUME NEW c \in Node, NEW r \in Node, Sync(c, r) PROVE StepKind
  <2> DEFINE clock == FinishSyncRequest(channel[c])
             data  == Response(channel[r], clock)
  <2>1. /\ Has(c) /\ Has(r) /\ CanRespond(channel[r], clock)
        /\ channel' = [channel EXCEPT ![c] = ReceiveBuffer(channel[c], data).channel]
        /\ UNCHANGED <<sealed, net>>
    <3>1. Received(channel[c], data) = {ReceiveBuffer(channel[c], data).channel}
      BY ReceivedWhole
    <3>2. /\ Has(c) /\ Has(r) /\ CanRespond(channel[r], clock)
          /\ \E received \in Received(channel[c], data) :
                channel' = [channel EXCEPT ![c] = received]
          /\ UNCHANGED <<sealed, net>>
      BY <1>10 DEF Sync
    <3> HIDE DEF data
    <3> QED BY <3>1, <3>2
  <2>2. Behind(clock, channel[c].state.nodes)
    BY <2>1, DeviceRemembers, OwnClockBehind
  <2>3. data \in Seq(sealed) /\ Follows(ToSet(Log(c)), data)
    BY <2>1, <2>2, ResponseFollows
  <2> HIDE DEF data
  <2>4. TakesIn(c, data)
    BY <2>1, <2>3, ReceiveTakesIn
  <2> QED BY <2>3, <2>4 DEF StepKind
<1>11. ASSUME UNCHANGED vars PROVE StepKind
  BY <1>11, NetworkPasses DEF vars, StepKind
<1> QED
  BY <1>1, <1>2, <1>3, <1>4, <1>5, <1>6, <1>7, <1>8, <1>9, <1>10, <1>11
  DEF Next, MeetingNext, DeviceNext, NetworkNext

\* Every kind of step leaves what is stored in place.
LEMMA StepSteady ==
  ASSUME Replicated, StepKind
  PROVE  Steady
<1>0. \A d \in Node : Has(d) => Extends(Log(d), Log(d))
  BY ExtendsSame DEF Replicated
<1>1. \A d \in Node : Extends(Log(d), Log(d))
  <2>1. \A d \in Node : ~Has(d) => Log(d) = <<>>
    BY DEF Log
  <2>2. Extends(<<>>, <<>>)
    BY DEF Extends
  <2> QED BY <1>0, <2>1, <2>2
<1>2. CASE Passes
  BY <1>1, <1>2 DEF Passes, Steady
<1>3. ASSUME NEW c \in Node, NEW e, Seals(c, e) PROVE Steady
  <2>1. channel'[c] = Halted \/ Extends(Log(c), Log(c)')
    BY <1>3 DEF Seals, Grown, Extends
  <2> QED BY <1>1, <1>3, <2>1, OthersLog DEF Seals, Steady
<1>4. ASSUME NEW c \in Node, NEW data \in Seq(sealed), TakesIn(c, data) PROVE Steady
  <2>1. channel[c] # Halted /\ (channel'[c] = Halted \/ Extends(Log(c), Log(c)'))
    BY <1>4 DEF TakesIn, Has
  <2> QED BY <1>1, <1>4, <2>1, OthersLog DEF TakesIn, Steady
<1> QED BY <1>2, <1>3, <1>4 DEF StepKind

\* Every kind of step keeps Causal.
LEMMA CausalStep ==
  ASSUME Replicated, Causal, Orderly', StepKind
  PROVE  Causal'
<1>0. Steady
  BY StepSteady
<1>1. CASE Passes
  <2>1. \A c \in Node : DOMAIN Log(c)' = DOMAIN Log(c)
    BY <1>1 DEF Passes
  <2>2. sealed' = sealed
    BY <1>1 DEF Passes
  <2>3. \A m \in net' :
            \/ m \in net
            \/ m.type = "request"
            \/ /\ m.session \in Node /\ channel[m.session] # Absent /\ m.data \in Seq(sealed)
               /\ Has(m.session) => Follows(ToSet(Log(m.session)), m.data)
    BY <1>1 DEF Passes
  <2> QED BY <1>0, <2>1, <2>2, <2>3, CausalKept
<1>2. ASSUME NEW c \in Node, NEW e, Seals(c, e) PROVE Causal'
  <2>1. /\ e \notin sealed /\ e.from = c /\ sealed' = sealed \cup {e} /\ net' = net
        /\ \A d \in Node : d # c => Log(d)' = Log(d)
        /\ channel'[c] = Halted \/ Grown(Log(c), e, Log(c)')
    BY <1>2, OthersLog DEF Seals
  <2>2. ASSUME NEW x \in sealed', x \notin sealed, NEW d \in Node, x \in ToSet(Log(d)')
        PROVE  x.from = d
    <3>1. x = e
      BY <2>1, <2>2
    <3>2. d # c => ToSet(Log(d)) \subseteq sealed
      BY StoredOnce DEF Orderly, ToSet
    <3> QED BY <2>1, <2>2, <3>1, <3>2
  <2>3. ASSUME NEW d \in Node, NEW i \in DOMAIN Log(d)', i \notin DOMAIN Log(d)
        PROVE  Log(d)'[i] \notin sealed
    <3>1. d = c
      BY <2>1, <2>3
    <3>2. channel'[c] # Halted
      BY <2>3, <3>1, HaltedLog
    <3>3. Grown(Log(c), e, Log(c)')
      BY <2>1, <3>2
    <3>4. i = Len(Log(c)) + 1
      BY <2>3, <3>1, <3>3 DEF Grown
    <3> QED BY <2>1, <3>1, <3>3, <3>4 DEF Grown
  <2> QED BY <1>0, <2>1, <2>2, <2>3, CausalKept
<1>3. ASSUME NEW c \in Node, NEW data \in Seq(sealed), TakesIn(c, data) PROVE Causal'
  <2>1. /\ sealed' = sealed /\ net' = net /\ Follows(ToSet(Log(c)), data)
        /\ \A d \in Node : d # c => Log(d)' = Log(d)
        /\ channel'[c] = Halted \/ /\ Extends(Log(c), Log(c)')
                                   /\ FromData(Log(c), Log(c)', data, Len(data))
    BY <1>3, OthersLog DEF TakesIn
  <2>2. ASSUME NEW d \in Node, NEW i \in DOMAIN Log(d)', i \notin DOMAIN Log(d)
        PROVE  Caused(Log(d)'[i], Before(Log(d)', i))
    <3>1. d = c
      BY <2>1, <2>2
    <3>2. channel'[c] # Halted
      BY <2>2, <3>1, HaltedLog
    <3>3. Extends(Log(c), Log(c)') /\ FromData(Log(c), Log(c)', data, Len(data))
      BY <2>1, <3>2
    <3>4. /\ Len(Log(c)) \in Nat /\ DOMAIN Log(c) = 1 .. Len(Log(c))
          /\ Len(Log(c)') \in Nat /\ DOMAIN Log(c)' = 1 .. Len(Log(c)')
      BY StoredOnce DEF Orderly
    <3>5. i \in Len(Log(c)) + 1 .. Len(Log(c)') /\ i \in DOMAIN Log(c)'
      BY <2>2, <3>1, <3>4
    <3>6. PICK j \in 1 .. Len(data) :
             Log(c)'[i] = data[j] /\ \A k \in 1 .. j - 1 : data[k] \in Before(Log(c)', i)
      BY <3>3, <3>5 DEF FromData
    <3>7. Caused(data[j], ToSet(Log(c)) \cup {data[k] : k \in 1 .. j - 1})
      BY <2>1 DEF Follows
    <3>8. ToSet(Log(c)) \subseteq Before(Log(c)', i)
      <4>1. \A k \in 1 .. Len(Log(c)) : k \in 1 .. i - 1 /\ Log(c)'[k] = Log(c)[k]
        BY <3>3, <3>4, <3>5 DEF Extends
      <4> QED BY <3>4, <4>1 DEF ToSet, Before
    <3>9. ToSet(Log(c)) \cup {data[k] : k \in 1 .. j - 1} \subseteq Before(Log(c)', i)
      BY <3>6, <3>8
    <3> QED BY <3>1, <3>6, <3>7, <3>9 DEF Caused, CausedBy
  <2> QED BY <1>0, <2>1, <2>2, CausalKept
<1> QED BY <1>1, <1>2, <1>3 DEF StepKind

\* Causal holds at the start.
LEMMA CausalInit == Init => Causal
<1> SUFFICES ASSUME Init PROVE Causal
  OBVIOUS
<1>1. net = {} /\ \A c \in Node : Log(c) = <<>>
  BY DEF Init, Log, Has
<1> QED BY <1>1 DEF Causal

\* Without faults or overhearing, Causal is an invariant whichever way devices synchronise.
THEOREM CausalInvariance ==
  ASSUME Faults = {}, Overhear = FALSE
  PROVE  (Spec => []Causal) /\ (MeetingSpec => []Causal)
<1>1. Replicated /\ Causal /\ [Next \/ MeetingNext]_vars => StepKind
  BY EveryStep
<1>2. Replicated => Orderly
  BY StoredOnce
<1>3. Replicated /\ Causal /\ Orderly' /\ StepKind => Causal'
  BY CausalStep
<1>4. [Next]_vars => [Next \/ MeetingNext]_vars
  OBVIOUS
<1>5. [MeetingNext]_vars => [Next \/ MeetingNext]_vars
  OBVIOUS
<1> QED
  BY <1>1, <1>2, <1>3, <1>4, <1>5, CausalInit, ReplicatedInvariance, PTL DEF Spec, MeetingSpec

\* Without faults or overhearing, a device that stores an envelope has before it all that the
\* sender had when it sealed it (the promise of the channel state).
THEOREM CausalDeliveryAlways ==
  ASSUME Faults = {}, Overhear = FALSE
  PROVE  (Spec => []CausalDelivery) /\ (MeetingSpec => []CausalDelivery)
<1>1. Replicated /\ Causal => CausalDelivery
  <2> SUFFICES ASSUME Replicated, Causal, NEW c \in Node, NEW i \in DOMAIN Log(c),
                      NEW k \in DOMAIN Log(Log(c)[i].from), Log(Log(c)[i].from)[k] = Log(c)[i]
               PROVE  Before(Log(Log(c)[i].from), k) \subseteq Before(Log(c), i)
    BY DEF CausalDelivery
  <2>1. Log(c)[i].from \in Node
    BY StoredOnce DEF Orderly, Replicated, Sealings, Chained, Sealable, Envelope
  <2>2. Caused(Log(c)[i], Before(Log(c), i))
    BY DEF Causal
  <2> QED BY <2>1, <2>2 DEF Caused, CausedBy
<1> QED BY <1>1, CausalInvariance, ReplicatedInvariance, PTL

-----------------------------------------------------------------------------
(* Without faults or overhearing, and with a slab for every message: the   *)
(* devices implement CausalHistory                                         *)

NoneHalted == \A c \in Node : channel[c] # Halted

\* A stamp names one envelope, and the device that sealed it has it.
Stamped ==
    /\ \A e \in sealed : e.from \in Node /\ e.sequence \in Sequence /\ e \in ToSet(Log(e.from))
    /\ \A e, f \in sealed : StampOf(e) = StampOf(f) => e = f

\* A stamp is a sender and a sequence.
LEMMA StampsAre ==
  /\ \A e : StampOf(e) = <<e.from, e.sequence>>
  /\ \A e, f : StampOf(e) = StampOf(f) <=> e.from = f.from /\ e.sequence = f.sequence
  /\ \A e : StampOf(e)[1] = e.from
  BY DEF StampOf

\* The chains of the senders give every envelope a stamp of its own.
LEMMA StampedOnce == Replicated /\ NoneHalted => Stamped
<1> SUFFICES ASSUME Replicated, NoneHalted PROVE Stamped
  OBVIOUS
<1>1. ASSUME NEW e \in sealed
      PROVE  e.from \in Node /\ e.sequence \in Sequence /\ e \in ToSet(Log(e.from))
  <2>1. e.from \in Node /\ e.sequence \in Sequence
    BY DEF Replicated, Sealings, Chained, Sealable, Envelope
  <2>2. channel[e.from] # Halted
    BY <2>1 DEF NoneHalted
  <2> QED BY <2>1, <2>2 DEF Replicated, Memories
<1>2. ASSUME NEW e \in sealed, NEW f \in sealed, StampOf(e) = StampOf(f) PROVE e = f
  <2>1. /\ e.from = f.from /\ e.sequence = f.sequence
        /\ e.sequence \in Nat /\ e.sender_last \in Nat /\ e.sender_last < e.sequence
        /\ f.sender_last \in Nat /\ f.sender_last < f.sequence
    BY <1>2, StampsAre, ChainedNumbers DEF Replicated, Sealings
  <2>2. ~(e.sequence <= f.sender_last) /\ ~(f.sequence <= e.sender_last)
    BY <2>1
  <2> QED BY <2>1, <2>2 DEF Replicated, Sealings, Chained
<1> QED BY <1>1, <1>2 DEF Stamped

\* With a slab for every message, no device panics.
LEMMA NoneHaltedStep ==
  ASSUME MaxMessages <= MaxSlabs, NoneHalted, Sealings', StepKind
  PROVE  NoneHalted'
<1>1. ~(Cardinality(sealed') > MaxSlabs)
  BY SlabsSuffice DEF Sealings
<1>2. CASE Passes
  BY <1>2 DEF Passes, NoneHalted
<1>3. ASSUME NEW c \in Node, NEW e, Seals(c, e) PROVE NoneHalted'
  BY <1>1, <1>3 DEF Seals, Others, NoneHalted
<1>4. ASSUME NEW c \in Node, NEW data \in Seq(sealed), TakesIn(c, data) PROVE NoneHalted'
  BY <1>1, <1>4 DEF TakesIn, Others, NoneHalted
<1> QED BY <1>2, <1>3, <1>4 DEF StepKind

\* The past of a stamp, where the stamp is found.
LEMMA PastAt ==
  ASSUME NEW log, Len(log) \in Nat, NEW k \in 1 .. Len(log), NEW stamp,
         StampOf(log[k]) = stamp,
         \A i \in 1 .. Len(log) : StampOf(log[i]) = stamp => i = k
  PROVE  PastIn(log, stamp) = StampsOf(Before(log, k))
<1> DEFINE found == {i \in 1 .. Len(log) : StampOf(log[i]) = stamp}
<1>1. SelectInSeq(log, LAMBDA e : StampOf(e) = stamp) = IF found # {} THEN Min(found) ELSE 0
  BY DEF SelectInSeq
<1>2. k \in found /\ found \in SUBSET Nat /\ found = {k}
  OBVIOUS
<1> HIDE DEF found
<1>3. Receiving!Min(found) \in found
  BY <1>2, Receiving!MinIs
<1>4. Min(found) = Receiving!Min(found)
  BY DEF Min, Receiving!Min
<1>5. SelectInSeq(log, LAMBDA e : StampOf(e) = stamp) = k
  BY <1>1, <1>2, <1>3, <1>4
<1> QED BY <1>5 DEF PastIn

\* With the same envelopes first, a longer log says the same of them.
LEMMA PastStays ==
  ASSUME NEW log, Len(log) \in Nat, DOMAIN log = 1 .. Len(log),
         NEW longer, Len(longer) \in Nat, DOMAIN longer = 1 .. Len(longer),
         Extends(log, longer), NEW e \in ToSet(log),
         \A i, j \in DOMAIN longer : StampOf(longer[i]) = StampOf(longer[j]) => i = j
  PROVE  PastIn(longer, StampOf(e)) = PastIn(log, StampOf(e))
<1>1. PICK k \in 1 .. Len(log) : log[k] = e
  BY DEF ToSet
<1>2. k \in 1 .. Len(longer) /\ longer[k] = e /\ Before(longer, k) = Before(log, k)
  BY <1>1, ExtendsBefore DEF Extends
<1>3. PastIn(longer, StampOf(e)) = StampsOf(Before(longer, k))
  <2>1. \A i \in 1 .. Len(longer) : StampOf(longer[i]) = StampOf(e) => i = k
    BY <1>2
  <2> QED BY <1>2, <2>1, PastAt
<1>4. PastIn(log, StampOf(e)) = StampsOf(Before(log, k))
  <2>1. \A i \in 1 .. Len(log) : i \in 1 .. Len(longer) /\ longer[i] = log[i]
    BY DEF Extends
  <2>2. \A i \in 1 .. Len(log) : StampOf(log[i]) = StampOf(e) => i = k
    BY <1>2, <2>1
  <2> QED BY <1>1, <2>2, PastAt
<1> QED BY <1>2, <1>3, <1>4

HistoryStep == [History!Next]_(History!vars)

\* Stamps of more envelopes.
LEMMA StampsGrow ==
  /\ \A S, e : StampsOf(S \cup {e}) = StampsOf(S) \cup {StampOf(e)}
  /\ \A S, T : S \subseteq T => StampsOf(S) \subseteq StampsOf(T)
  /\ \A S, e : e \in S => StampOf(e) \in StampsOf(S)
  BY DEF StampsOf

\* What was before an envelope does not change any more.
LEMMA PastKept ==
  ASSUME Replicated, NoneHalted, NoneHalted', Orderly', Stamped', sealed \subseteq sealed', Steady
  PROVE  /\ \A c \in Node : Extends(Log(c), Log(c)')
         /\ \A e \in sealed : \A d \in Node : d = e.from =>
               PastIn(Log(d)', StampOf(e)) = PastIn(Log(d), StampOf(e))
<1>1. \A c \in Node : Extends(Log(c), Log(c)')
  BY DEF Steady, NoneHalted
<1>2. ASSUME NEW e \in sealed, NEW d \in Node, d = e.from
      PROVE  PastIn(Log(d)', StampOf(e)) = PastIn(Log(d), StampOf(e))
  <2>1. e \in ToSet(Log(d)) /\ Len(Log(d)) \in Nat /\ DOMAIN Log(d) = 1 .. Len(Log(d))
    BY <1>2, StampedOnce, StoredOnce DEF Stamped, Orderly
  <2>2. /\ Len(Log(d)') \in Nat /\ DOMAIN Log(d)' = 1 .. Len(Log(d)')
        /\ \A i \in DOMAIN Log(d)' : Log(d)'[i] \in sealed'
        /\ \A i, j \in DOMAIN Log(d)' : Log(d)'[i] = Log(d)'[j] => i = j
        /\ \A x, y \in sealed' : StampOf(x) = StampOf(y) => x = y
    BY DEF Orderly, Stamped
  <2>3. \A i, j \in DOMAIN Log(d)' : StampOf(Log(d)'[i]) = StampOf(Log(d)'[j]) => i = j
    BY <2>2
  <2> QED BY <1>1, <2>1, <2>2, <2>3, PastStays
<1> QED BY <1>1, <1>2

\* A step that passes is invisible in CausalHistory.
LEMMA HistoryPasses ==
  ASSUME Replicated, Passes
  PROVE  UNCHANGED History!vars
<1>1. sealed' = sealed /\ \A c \in Node : Log(c)' = Log(c)
  BY DEF Passes
<1>2. \A stamp \in StampsOf(sealed) : stamp[1] \in Node
  BY DEF Replicated, Sealings, Chained, Sealable, Envelope, StampsOf, StampOf
<1>3. [c \in Node |-> StampsOf(ToSet(Log(c)'))] = [c \in Node |-> StampsOf(ToSet(Log(c)))]
  BY <1>1
<1>4. [stamp \in StampsOf(sealed') |-> PastIn(Log(stamp[1])', stamp)] =
          [stamp \in StampsOf(sealed) |-> PastIn(Log(stamp[1]), stamp)]
  BY <1>1, <1>2
<1> QED BY <1>3, <1>4 DEF History!vars

\* A step that seals is a Send of CausalHistory.
LEMMA HistorySeals ==
  ASSUME Replicated, NoneHalted, NoneHalted', Orderly', Stamped', Steady,
         NEW c \in Node, NEW e, Seals(c, e)
  PROVE  History!Send(c, e.sequence)
<1> DEFINE stamp == <<c, e.sequence>>
           S     == StampsOf(sealed)
<1>1. /\ e \notin sealed /\ e.from = c /\ sealed' = sealed \cup {e}
      /\ \A f \in sealed : f.from = c => f.sequence # e.sequence
      /\ Grown(Log(c), e, Log(c)')
      /\ \A d \in Node : d # c => Log(d)' = Log(d)
  BY OthersLog DEF Seals, NoneHalted
<1>2. StampOf(e) = stamp /\ StampsOf(sealed') = S \cup {stamp}
  BY <1>1, StampsGrow DEF StampOf
<1>3. stamp \notin S
  BY <1>1, <1>2, StampsAre DEF StampsOf
<1>4. StampsOf(ToSet(Log(c)')) = StampsOf(ToSet(Log(c))) \cup {stamp}
  BY <1>1, <1>2, GrownBefore, StampsGrow
<1>5. PastIn(Log(c)', stamp) = StampsOf(ToSet(Log(c)))
  <2>1. /\ Len(Log(c)') = Len(Log(c)) + 1 /\ Len(Log(c)) \in Nat
        /\ Log(c)'[Len(Log(c)) + 1] = e /\ Before(Log(c)', Len(Log(c)) + 1) = ToSet(Log(c))
        /\ DOMAIN Log(c)' = 1 .. Len(Log(c)) + 1
    BY <1>1, GrownBefore DEF Grown
  <2>2. /\ \A i \in DOMAIN Log(c)' : Log(c)'[i] \in sealed'
        /\ \A i, j \in DOMAIN Log(c)' : Log(c)'[i] = Log(c)'[j] => i = j
        /\ \A x, y \in sealed' : StampOf(x) = StampOf(y) => x = y
    BY DEF Orderly, Stamped
  <2>3. /\ Len(Log(c)') \in Nat /\ Len(Log(c)) + 1 \in 1 .. Len(Log(c)')
        /\ Len(Log(c)) + 1 \in DOMAIN Log(c)' /\ 1 .. Len(Log(c)') = DOMAIN Log(c)'
    BY <2>1
  <2>4. \A i \in 1 .. Len(Log(c)') : StampOf(Log(c)'[i]) = stamp => i = Len(Log(c)) + 1
    BY <1>2, <2>1, <2>2, <2>3
  <2>5. PastIn(Log(c)', stamp) = StampsOf(Before(Log(c)', Len(Log(c)) + 1))
    <3> HIDE DEF stamp
    <3> QED BY <1>2, <2>1, <2>3, <2>4, PastAt
  <2> QED BY <2>1, <2>5
<1>6. /\ \A x \in sealed : \A d \in Node : d = x.from =>
            PastIn(Log(d)', StampOf(x)) = PastIn(Log(d), StampOf(x))
      /\ \A x \in sealed : x.from \in Node
  BY <1>1, PastKept, StampedOnce DEF Stamped
<1>7. \A s \in S : s[1] \in Node /\ PastIn(Log(s[1])', s) = PastIn(Log(s[1]), s)
  BY <1>6, StampsAre DEF StampsOf
<1>8. stamp[1] = c
  OBVIOUS
<1> HIDE DEF stamp, S
<1>9. [d \in Node |-> StampsOf(ToSet(Log(d)'))] =
          [[d \in Node |-> StampsOf(ToSet(Log(d)))] EXCEPT ![c] = @ \cup {stamp}]
  BY <1>1, <1>4
<1>10. [s \in StampsOf(sealed') |-> PastIn(Log(s[1])', s)] =
           [s \in S \cup {stamp} |->
               IF s = stamp THEN StampsOf(ToSet(Log(c))) ELSE PastIn(Log(s[1]), s)]
  <2>1. \A s \in S \cup {stamp} :
            PastIn(Log(s[1])', s) =
                IF s = stamp THEN StampsOf(ToSet(Log(c))) ELSE PastIn(Log(s[1]), s)
    BY <1>5, <1>7, <1>8
  <2> QED BY <1>2, <2>1
<1>11. [s \in S \cup {stamp} |->
            IF s = stamp THEN [d \in Node |-> StampsOf(ToSet(Log(d)))][c]
            ELSE [s2 \in S |-> PastIn(Log(s2[1]), s2)][s]] =
           [s \in S \cup {stamp} |->
               IF s = stamp THEN StampsOf(ToSet(Log(c))) ELSE PastIn(Log(s[1]), s)]
  OBVIOUS
<1> QED BY <1>3, <1>9, <1>10, <1>11 DEF History!Send, History!Sent, stamp, S

\* A step that takes in is a Learn of CausalHistory.
LEMMA HistoryTakesIn ==
  ASSUME Replicated, NoneHalted, NoneHalted', Orderly', Stamped', Causal', Steady,
         NEW c \in Node, NEW data, TakesIn(c, data)
  PROVE  \E S \in SUBSET StampsOf(sealed) : History!Learn(c, S)
<1>0. PICK T : T = StampsOf(ToSet(Log(c)'))
  OBVIOUS
<1>1. sealed' = sealed /\ \A d \in Node : d # c => Log(d)' = Log(d)
  BY OthersLog DEF TakesIn
<1>2. /\ \A x \in sealed : \A d \in Node : d = x.from =>
            PastIn(Log(d)', StampOf(x)) = PastIn(Log(d), StampOf(x))
      /\ \A x \in sealed : x.from \in Node
      /\ Extends(Log(c), Log(c)')
  BY <1>1, PastKept, StampedOnce DEF Stamped
<1>3. \A s \in StampsOf(sealed) : s[1] \in Node /\ PastIn(Log(s[1])', s) = PastIn(Log(s[1]), s)
  BY <1>2, StampsAre DEF StampsOf
<1>4. /\ Len(Log(c)) \in Nat /\ DOMAIN Log(c) = 1 .. Len(Log(c))
      /\ Len(Log(c)') \in Nat /\ DOMAIN Log(c)' = 1 .. Len(Log(c)')
      /\ \A i \in DOMAIN Log(c)' : Log(c)'[i] \in sealed
  BY <1>1, StoredOnce DEF Orderly
<1>5. StampsOf(ToSet(Log(c))) \subseteq T
  BY <1>0, <1>2, <1>4, ExtendsSet, StampsGrow
<1>6. T \subseteq StampsOf(sealed)
  <2>1. ToSet(Log(c)') \subseteq sealed
    BY <1>4 DEF ToSet
  <2> QED BY <1>0, <2>1, StampsGrow
<1>7. ASSUME NEW s \in T PROVE PastIn(Log(s[1]), s) \subseteq T
  <2>1. PICK i \in DOMAIN Log(c)' : s = StampOf(Log(c)'[i])
    BY <1>0 DEF StampsOf, ToSet
  <2> DEFINE e == Log(c)'[i]
  <2>2. e \in sealed /\ e.from \in Node /\ s[1] = e.from
    BY <1>2, <1>4, <2>1, StampsAre
  <2> HIDE DEF e
  <2>3. PICK d \in Node : d = e.from
    BY <2>2
  <2>4. e \in ToSet(Log(d)')
    BY <1>1, <2>2, <2>3 DEF Stamped
  <2>5. PICK k \in DOMAIN Log(d)' : Log(d)'[k] = e
    BY <2>4 DEF ToSet
  <2>6. PastIn(Log(d)', s) = StampsOf(Before(Log(d)', k))
    <3>1. /\ Len(Log(d)') \in Nat /\ DOMAIN Log(d)' = 1 .. Len(Log(d)')
          /\ \A j \in DOMAIN Log(d)' : Log(d)'[j] \in sealed'
          /\ \A j, l \in DOMAIN Log(d)' : Log(d)'[j] = Log(d)'[l] => j = l
          /\ \A x, y \in sealed' : StampOf(x) = StampOf(y) => x = y
      BY DEF Orderly, Stamped
    <3>2. s = StampOf(e)
      BY <2>1 DEF e
    <3>3. \A j \in 1 .. Len(Log(d)') : StampOf(Log(d)'[j]) = s => j = k
      BY <2>5, <3>1, <3>2
    <3> QED BY <2>5, <3>1, <3>2, <3>3, PastAt
  <2>7. Before(Log(d)', k) \subseteq Before(Log(c)', i)
    <3>1. CausedBy(Log(d)', e, Before(Log(c)', i))
      BY <2>1, <2>3 DEF Causal, Caused, e
    <3> QED BY <2>5, <3>1 DEF CausedBy
  <2>8. Before(Log(c)', i) \subseteq ToSet(Log(c)')
    <3>1. \A j \in 1 .. i - 1 : j \in DOMAIN Log(c)'
      BY <1>4, <2>1
    <3> QED BY <3>1 DEF Before, ToSet
  <2>9. PastIn(Log(d)', s) \subseteq T
    BY <1>0, <2>6, <2>7, <2>8, StampsGrow
  <2>10. s \in StampsOf(sealed) /\ s[1] = d
    BY <1>6, <2>2, <2>3
  <2>11. PastIn(Log(s[1])', s) = PastIn(Log(d)', s)
    BY <2>10
  <2> QED BY <1>3, <2>9, <2>10, <2>11
<1>8. [d \in Node |-> StampsOf(ToSet(Log(d)'))] =
          [[d \in Node |-> StampsOf(ToSet(Log(d)))] EXCEPT ![c] = @ \cup T]
  <2>1. StampsOf(ToSet(Log(c)')) = StampsOf(ToSet(Log(c))) \cup T
    BY <1>0, <1>5
  <2> QED BY <1>1, <2>1
<1>9. [s \in StampsOf(sealed') |-> PastIn(Log(s[1])', s)] =
          [s \in StampsOf(sealed) |-> PastIn(Log(s[1]), s)]
  BY <1>1, <1>3
<1>10. \A s \in T : [x \in StampsOf(sealed) |-> PastIn(Log(x[1]), x)][s]
                        \subseteq [d \in Node |-> StampsOf(ToSet(Log(d)))][c] \cup T
  BY <1>6, <1>7
<1>11. History!Learn(c, T)
  BY <1>8, <1>9, <1>10 DEF History!Learn
<1> QED BY <1>6, <1>11

\* The initial states map to initial states.
LEMMA HistoryInit == Init => History!Init /\ NoneHalted
<1> SUFFICES ASSUME Init PROVE History!Init /\ NoneHalted
  OBVIOUS
<1>1. sealed = {} /\ channel = [c \in Node |-> Absent]
  BY DEF Init
<1>2. NoneHalted /\ \A c \in Node : Log(c) = <<>>
  BY <1>1 DEF NoneHalted, Log, Has
<1>3. StampsOf(ToSet(<<>>)) = {} /\ StampsOf({}) = {}
  BY DEF StampsOf, ToSet
<1>4. [c \in Node |-> StampsOf(ToSet(Log(c)))] = [c \in Node |-> {}]
  BY <1>2, <1>3
<1>5. [stamp \in StampsOf(sealed) |-> PastIn(Log(stamp[1]), stamp)] = [m \in {} |-> {}]
  BY <1>1, <1>3
<1> QED BY <1>2, <1>4, <1>5 DEF History!Init

\* Every step maps to a step or a stutter.
LEMMA HistorySteps ==
  ASSUME Replicated, NoneHalted, NoneHalted', Orderly', Stamped', Causal', StepKind
  PROVE  [History!Next]_(History!vars)
<1>0. Steady
  BY StepSteady
<1>1. CASE Passes
  BY <1>1, HistoryPasses
<1>2. ASSUME NEW c \in Node, NEW e, Seals(c, e) PROVE History!Next
  <2>1. History!Send(c, e.sequence)
    BY <1>0, <1>2, HistorySeals
  <2>2. e.sequence \in Sequence
    BY <1>2 DEF Seals, Sealable, Envelope
  <2> QED BY <2>1, <2>2 DEF History!Next
<1>3. ASSUME NEW c \in Node, NEW data \in Seq(sealed), TakesIn(c, data) PROVE History!Next
  <2>1. PICK S \in SUBSET StampsOf(sealed) : History!Learn(c, S)
    BY <1>0, <1>3, HistoryTakesIn
  <2>2. S \in SUBSET History!Sent
    BY DEF History!Sent
  <2> QED BY <2>1, <2>2 DEF History!Next
<1> QED BY <1>1, <1>2, <1>3 DEF StepKind

\* Whichever way they synchronise, the devices implement CausalHistory: sealing
\* is a Send, taking in a response is a Learn, and all else is invisible.
THEOREM Refinement ==
  ASSUME Faults = {}, Overhear = FALSE, MaxMessages <= MaxSlabs
  PROVE  /\ Spec => History!Spec /\ ImplementsHistory
         /\ MeetingSpec => History!Spec /\ ImplementsHistory
<1>1. Replicated /\ Causal /\ [Next \/ MeetingNext]_vars => StepKind
  BY EveryStep
<1>2. Replicated => Orderly /\ Sealings
  BY StoredOnce DEF Replicated
<1>3. NoneHalted /\ Sealings' /\ StepKind => NoneHalted'
  BY NoneHaltedStep
<1>4. Replicated /\ NoneHalted => Stamped
  BY StampedOnce
<1>5. Replicated /\ NoneHalted /\ NoneHalted' /\ Orderly' /\ Stamped' /\ Causal' /\ StepKind
         => [History!Next]_(History!vars)
  BY HistorySteps
<1>6. [Next]_vars => [Next \/ MeetingNext]_vars
  OBVIOUS
<1>7. [MeetingNext]_vars => [Next \/ MeetingNext]_vars
  OBVIOUS
<1>8. Init => History!Init /\ NoneHalted
  BY HistoryInit
<1>9. [History!Next]_(History!vars)
         => [UNCHANGED <<channel, sealed>> \/ [History!Next]_(History!vars)]_vars
  OBVIOUS
<1> QED
  BY <1>1, <1>2, <1>3, <1>4, <1>5, <1>6, <1>7, <1>8, <1>9, CausalInvariance, ReplicatedInvariance, PTL
  DEF Spec, MeetingSpec, History!Spec, ImplementsHistory

=============================================================================
