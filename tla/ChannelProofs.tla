---------------------------- MODULE ChannelProofs ----------------------------
(***************************************************************************)
(* The invariants and action properties of Channel, for every set of       *)
(* nodes and envelope ids and every bound on nodes and sequences.          *)
(***************************************************************************)
EXTENDS Channel, FiniteSetTheorems, TLAPS

USE EnvelopeIdAssumption, MaxNodesAssumption, MaxSequenceAssumption

-----------------------------------------------------------------------------
(* Lemmas about the operators                                              *)

\* The set of nodes stays within the capacity of the vector.
LEMMA AddedNodeType ==
  ASSUME TypeOK, NEW n \in Node, CanAddNode(nodes, n)
  PROVE  /\ DOMAIN AddedNode(nodes, n) = DOMAIN nodes \cup {n}
         /\ IsFiniteSet(DOMAIN AddedNode(nodes, n))
         /\ Cardinality(DOMAIN AddedNode(nodes, n)) <= MaxNodes
         /\ AddedNode(nodes, n) \in [DOMAIN AddedNode(nodes, n) -> NodeSequence]
<1>1. DOMAIN AddedNode(nodes, n) = DOMAIN nodes \cup {n}
  BY DEF AddedNode
<1>2. /\ IsFiniteSet(DOMAIN nodes \cup {n})
      /\ Cardinality(DOMAIN nodes \cup {n}) = Cardinality(DOMAIN nodes) + 1
  BY FS_AddElement DEF TypeOK, CanAddNode
<1>3. Cardinality(DOMAIN nodes) \in Nat /\ Cardinality(DOMAIN nodes) < MaxNodes
  BY FS_CardinalityType DEF TypeOK, CanAddNode
<1>4. Unheard \in NodeSequence
  BY DEF Unheard, NodeSequence, NoEnvelope, Sequence
<1>5. AddedNode(nodes, n) \in [DOMAIN nodes \cup {n} -> NodeSequence]
  BY <1>4 DEF AddedNode, TypeOK
<1> QED BY <1>1, <1>2, <1>3, <1>5

\* What TypeOK says of one record and of one message, as numbers.
LEMMA RecordType ==
  ASSUME TypeOK, NEW n \in DOMAIN nodes
  PROVE  /\ nodes[n].sequence \in Nat /\ nodes[n].sequence <= MaxSequence
         /\ nodes[n].first_sequence \in Nat
         /\ nodes[n].id \in Nat
  BY DEF TypeOK, NodeSequence, Sequence

\* What the type of a message says of its fields, as numbers.
LEMMA MessageType ==
  ASSUME NEW m \in Message
  PROVE  /\ m.sequence \in Nat /\ m.sequence <= MaxSequence
         /\ m.id \in Nat
<1>1. m.sequence \in Sequence /\ m.id \in EnvelopeId
  BY DEF Message
<1>2. m.sequence \in Nat /\ m.sequence <= MaxSequence
  BY <1>1 DEF Sequence
<1>3. m.id \in Nat
  BY <1>1
<1> QED BY <1>2, <1>3

\* receive changes the record of the sender only.
LEMMA ReceivedNodesValue ==
  ASSUME TypeOK, NEW from \in DOMAIN nodes, NEW m \in Message
  PROVE  LET received == ReceivedNodes(nodes, from, m) IN
         /\ DOMAIN received = DOMAIN nodes
         /\ received \in [DOMAIN nodes -> NodeSequence]
         /\ received[from].sequence = m.sequence
         /\ received[from].id = m.id
         /\ received[from].first_sequence =
               IF nodes[from].first_sequence = 0 THEN m.sequence
               ELSE nodes[from].first_sequence
         /\ \A n \in DOMAIN nodes : n # from => received[n] = nodes[n]
  BY MessageType DEF ReceivedNodes, TypeOK, Message, NodeSequence, Sequence

\* A message that passes check_receive is newer than what was received from its
\* sender, and at most one past the largest sequence of the channel.
LEMMA CheckedSequence ==
  ASSUME TypeOK, NewestIsMax, NEW from \in Node, NEW m \in Message,
         CheckReceive(nodes, from, m)
  PROVE  /\ from \in DOMAIN nodes
         /\ nodes[from].sequence < m.sequence
         /\ m.sequence <= nodes[newest].sequence + 1
<1>1. from \in DOMAIN nodes /\ newest \in DOMAIN nodes
  BY DEF CheckReceive, TypeOK
<1>2. nodes[from].sequence < m.sequence
  BY <1>1, RecordType, MessageType DEF CheckReceive, AlreadyReceived
<1>3. CauseTarget(m) = m.sequence - 1
  BY <1>1, <1>2, RecordType, MessageType DEF CauseTarget
<1>4. nodes[newest].sequence \in Nat
  BY <1>1, RecordType
<1>5. CASE m.cause \in DOMAIN nodes
  <2>1. nodes[m.cause].sequence >= m.sequence - 1
    BY <1>3, <1>5, RecordType, MessageType DEF CheckReceive, MissingCause
  <2>2. nodes[m.cause].sequence <= nodes[newest].sequence
    BY <1>1, <1>5, RecordType DEF NewestIsMax
  <2> QED BY <1>1, <1>2, <1>4, <1>5, <2>1, <2>2, RecordType, MessageType
<1>6. CASE m.cause \notin DOMAIN nodes
  <2>1. m.sequence - 1 = 0
    BY <1>3, <1>6 DEF CheckReceive, MissingCause
  <2> QED BY <1>1, <1>2, <1>4, <2>1, MessageType
<1> QED BY <1>5, <1>6

-----------------------------------------------------------------------------
(* The inductive invariant                                                 *)

Inv == TypeOK /\ NewestIsMax /\ FirstSequenceSound

\* The invariant holds of a channel with its initial node only.
LEMMA InitInv == Init => Inv
<1> SUFFICES ASSUME NEW initial \in Node,
                    nodes = InitialNodes(initial), newest = initial
             PROVE  Inv
  BY DEF Init
<1>1. DOMAIN nodes = {initial} /\ nodes[initial] = Unheard
  BY DEF InitialNodes
<1>2. IsFiniteSet({initial}) /\ Cardinality({initial}) = 1
  BY FS_Singleton
<1>3. Unheard \in NodeSequence
  BY DEF Unheard, NodeSequence, NoEnvelope, Sequence
<1>4. TypeOK
  BY <1>1, <1>2, <1>3 DEF TypeOK, InitialNodes
<1>5. NewestIsMax /\ FirstSequenceSound
  BY <1>1 DEF NewestIsMax, FirstSequenceSound, Unheard, NoEnvelope
<1> QED BY <1>4, <1>5 DEF Inv

\* add_node keeps the invariant: a node nothing was received from is not newest.
LEMMA AddNodeInv ==
  ASSUME Inv, NEW n \in Node, AddNode(n)
  PROVE  Inv'
<1>1. nodes' = AddedNode(nodes, n) /\ newest' = newest /\ n \notin DOMAIN nodes
  BY DEF AddNode, CanAddNode
<1>2. TypeOK'
  <2>1. TypeOK /\ CanAddNode(nodes, n)
    BY DEF Inv, AddNode
  <2>2. /\ DOMAIN nodes' = DOMAIN nodes \cup {n}
        /\ IsFiniteSet(DOMAIN nodes')
        /\ Cardinality(DOMAIN nodes') <= MaxNodes
        /\ nodes' \in [DOMAIN nodes' -> NodeSequence]
    BY <1>1, <2>1, AddedNodeType
  <2> QED BY <1>1, <2>1, <2>2 DEF TypeOK
<1>3. /\ DOMAIN nodes' = DOMAIN nodes \cup {n}
      /\ nodes'[n] = Unheard
      /\ \A k \in DOMAIN nodes : nodes'[k] = nodes[k]
  BY <1>1 DEF AddedNode
<1>4. newest \in DOMAIN nodes
  BY DEF Inv, TypeOK
<1>5. NewestIsMax'
  <2> SUFFICES ASSUME NEW k \in DOMAIN nodes'
               PROVE  \/ nodes'[k].sequence < nodes[newest].sequence
                      \/ /\ nodes'[k].sequence = nodes[newest].sequence
                         /\ nodes'[k].id <= nodes[newest].id
    BY <1>1, <1>3, <1>4 DEF NewestIsMax
  <2>1. CASE k = n
    BY <2>1, <1>3, <1>4, RecordType DEF Unheard, NoEnvelope, Inv
  <2>2. CASE k # n
    BY <2>2, <1>3 DEF Inv, NewestIsMax
  <2> QED BY <2>1, <2>2
<1>6. FirstSequenceSound'
  BY <1>3 DEF Inv, FirstSequenceSound, Unheard
<1> QED BY <1>2, <1>5, <1>6 DEF Inv

\* receive keeps the invariant: newest moves exactly when the message is larger.
LEMMA ReceiveInv ==
  ASSUME Inv, NEW from \in Node, NEW m \in Message, Receive(from, m)
  PROVE  Inv'
<1>1. /\ from \in DOMAIN nodes /\ newest \in DOMAIN nodes
      /\ nodes[from].sequence < m.sequence
  BY CheckedSequence DEF Inv, Receive, TypeOK
<1>2. /\ DOMAIN nodes' = DOMAIN nodes
      /\ nodes' \in [DOMAIN nodes -> NodeSequence]
      /\ nodes'[from].sequence = m.sequence
      /\ nodes'[from].id = m.id
      /\ nodes'[from].first_sequence =
            IF nodes[from].first_sequence = 0 THEN m.sequence
            ELSE nodes[from].first_sequence
      /\ \A n \in DOMAIN nodes : n # from => nodes'[n] = nodes[n]
  BY <1>1, ReceivedNodesValue DEF Inv, Receive
<1>3. newest' = IF IsNewer(nodes[newest], m) THEN from ELSE newest
  BY DEF Receive, ReceivedNewest
<1>4. TypeOK'
  BY <1>1, <1>2, <1>3 DEF Inv, TypeOK
<1>5. NewestIsMax'
  <2> SUFFICES ASSUME NEW k \in DOMAIN nodes
               PROVE  \/ nodes'[k].sequence < nodes'[newest'].sequence
                      \/ /\ nodes'[k].sequence = nodes'[newest'].sequence
                         /\ nodes'[k].id <= nodes'[newest'].id
    BY <1>2 DEF NewestIsMax
  <2> DEFINE old == nodes[newest]
  <2>1. /\ old.sequence \in Nat /\ old.id \in Nat
        /\ nodes[k].sequence \in Nat /\ nodes[k].id \in Nat
        /\ m.sequence \in Nat /\ m.id \in Nat
    BY <1>1, RecordType, MessageType DEF Inv
  <2>2. \/ nodes[k].sequence < old.sequence
        \/ nodes[k].sequence = old.sequence /\ nodes[k].id <= old.id
    BY DEF Inv, NewestIsMax
  <2>3. CASE IsNewer(old, m)
    <3>1. newest' = from
      BY <2>3, <1>3
    <3>2. CASE k = from
      BY <3>1, <3>2, <1>2, <2>1
    <3>3. CASE k # from
      BY <3>1, <3>3, <1>2, <2>1, <2>2, <2>3 DEF IsNewer
    <3> QED BY <3>2, <3>3
  <2>4. CASE ~IsNewer(old, m)
    <3>1. newest' = newest /\ from # newest
      BY <2>1, <2>4, <1>1, <1>3 DEF IsNewer
    <3>2. nodes'[newest] = old
      BY <3>1, <1>1, <1>2
    <3>3. CASE k = from
      BY <3>1, <3>2, <3>3, <1>2, <2>1, <2>4 DEF IsNewer
    <3>4. CASE k # from
      BY <3>1, <3>2, <3>4, <1>2, <2>2
    <3> QED BY <3>3, <3>4
  <2> QED BY <2>3, <2>4
<1>6. FirstSequenceSound'
  <2> SUFFICES ASSUME NEW k \in DOMAIN nodes
               PROVE  /\ nodes'[k].first_sequence <= nodes'[k].sequence
                      /\ (nodes'[k].first_sequence = 0) <=> (nodes'[k].sequence = 0)
    BY <1>2 DEF FirstSequenceSound
  <2>1. CASE k = from
    BY <2>1, <1>1, <1>2, RecordType, MessageType DEF Inv, FirstSequenceSound
  <2>2. CASE k # from
    BY <2>2, <1>2 DEF Inv, FirstSequenceSound
  <2> QED BY <2>1, <2>2
<1> QED BY <1>4, <1>5, <1>6 DEF Inv

\* The invariant is inductive.
LEMMA NextInv == Inv /\ [Next]_vars => Inv'
<1> SUFFICES ASSUME Inv, [Next]_vars PROVE Inv'
  OBVIOUS
<1>1. CASE \E n \in Node : AddNode(n)
  BY <1>1, AddNodeInv
<1>2. CASE \E from \in Node, m \in Message : Receive(from, m)
  BY <1>2, ReceiveInv
<1>3. CASE UNCHANGED vars
  BY <1>3 DEF vars, Inv, TypeOK, NewestIsMax, FirstSequenceSound
<1> QED BY <1>1, <1>2, <1>3 DEF Next

\* What every behaviour of Channel keeps.
THEOREM Invariance == Spec => []Inv
  BY InitInv, NextInv, PTL DEF Spec

\* The records of the nodes keep their types and fit the vector.
THEOREM TypeCorrect == Spec => []TypeOK
  BY Invariance, PTL DEF Inv

\* The newest node holds the largest envelope, whatever order messages arrive in.
THEOREM NewestIsLargest == Spec => []NewestIsMax
  BY Invariance, PTL DEF Inv

\* first_sequence is set by the first message of a node and by no other.
THEOREM FirstSequence == Spec => []FirstSequenceSound
  BY Invariance, PTL DEF Inv

-----------------------------------------------------------------------------

\* do_send never stops at check_receive: what address returns for a node of the
\* channel is accepted from it.
THEOREM OwnMessage == Spec => []OwnMessageAccepted
<1>1. Inv => OwnMessageAccepted
  <2> SUFFICES ASSUME Inv, NEW n \in DOMAIN nodes, CanAddress(nodes, newest, n)
               PROVE  CheckReceive(nodes, n, Address(nodes, newest, n))
    BY DEF OwnMessageAccepted
  <2> DEFINE m == Address(nodes, newest, n)
             last == LastSequence(nodes, newest, n)
  <2>1. newest \in DOMAIN nodes
    BY DEF Inv, TypeOK
  <2>2. nodes[n].sequence \in Nat /\ nodes[newest].sequence \in Nat
    BY <2>1, RecordType DEF Inv
  <2>3. nodes[n].sequence <= nodes[newest].sequence
    BY <2>2 DEF Inv, NewestIsMax
  <2>4. last = nodes[newest].sequence
    BY <2>2, <2>3 DEF LastSequence
  <2>5. /\ m.sequence = nodes[newest].sequence + 1
        /\ m.sender_last = nodes[n].sequence
        /\ m.cause = newest
    BY <2>4 DEF Address
  <2>6. ~AlreadyReceived(nodes, n, m) /\ ~MissingFromSender(nodes, n, m)
    BY <2>2, <2>3, <2>5 DEF AlreadyReceived, MissingFromSender
  <2>7. CauseTarget(m) = nodes[newest].sequence
    BY <2>2, <2>5 DEF CauseTarget
  <2>8. ~MissingCause(nodes, m)
    BY <2>1, <2>2, <2>5, <2>7 DEF MissingCause
  <2> QED BY <2>6, <2>8 DEF CheckReceive
<1> QED BY <1>1, Invariance, PTL

\* A sender cannot exhaust the sequence counter: no step of the channel raises
\* its largest sequence by more than one.
THEOREM BoundedGrowth == Spec => SequenceGrowsByOne
<1> DEFINE A == \A n \in DOMAIN nodes' : nodes'[n].sequence <= nodes[newest].sequence + 1
<1>1. Inv /\ [Next]_vars => [A]_vars
  <2> SUFFICES ASSUME Inv, Next, NEW n \in DOMAIN nodes'
               PROVE  nodes'[n].sequence <= nodes[newest].sequence + 1
    OBVIOUS
  <2>1. newest \in DOMAIN nodes /\ nodes[newest].sequence \in Nat
    BY RecordType DEF Inv, TypeOK
  <2>2. \A k \in DOMAIN nodes : nodes[k].sequence <= nodes[newest].sequence + 1
    BY <2>1, RecordType DEF Inv, NewestIsMax
  <2>3. ASSUME NEW k \in Node, AddNode(k)
        PROVE  nodes'[n].sequence <= nodes[newest].sequence + 1
    BY <2>1, <2>2, <2>3 DEF AddNode, AddedNode, Unheard
  <2>4. ASSUME NEW from \in Node, NEW m \in Message, Receive(from, m)
        PROVE  nodes'[n].sequence <= nodes[newest].sequence + 1
    <3>1. from \in DOMAIN nodes /\ m.sequence <= nodes[newest].sequence + 1
      BY <2>4, CheckedSequence DEF Inv, Receive
    <3>2. /\ DOMAIN nodes' = DOMAIN nodes
          /\ nodes'[from].sequence = m.sequence
          /\ \A k \in DOMAIN nodes : k # from => nodes'[k] = nodes[k]
      BY <2>4, <3>1, ReceivedNodesValue DEF Inv, Receive
    <3> QED BY <2>2, <3>1, <3>2
  <2> QED BY <2>3, <2>4 DEF Next
<1> QED BY <1>1, Invariance, PTL DEF Spec, SequenceGrowsByOne

\* A duplicated or delayed envelope stays refused, whatever was received since.
THEOREM AtMostOnce == Spec => ReceivedOnce
<1> DEFINE A == \A n \in DOMAIN nodes :
                    /\ n \in DOMAIN nodes'
                    /\ \A m \in Message :
                          AlreadyReceived(nodes, n, m) => AlreadyReceived(nodes', n, m)
<1>1. Inv /\ [Next]_vars => [A]_vars
  <2> SUFFICES ASSUME Inv, Next, NEW n \in DOMAIN nodes
               PROVE  /\ n \in DOMAIN nodes'
                      /\ \A m \in Message :
                            AlreadyReceived(nodes, n, m) => AlreadyReceived(nodes', n, m)
    OBVIOUS
  <2>1. ASSUME NEW k \in Node, AddNode(k)
        PROVE  n \in DOMAIN nodes' /\ nodes'[n] = nodes[n]
    BY <2>1 DEF AddNode, AddedNode, CanAddNode
  <2>2. ASSUME NEW from \in Node, NEW m \in Message, Receive(from, m)
        PROVE  n \in DOMAIN nodes' /\ nodes'[n].sequence >= nodes[n].sequence
    <3>1. from \in DOMAIN nodes /\ nodes[from].sequence < m.sequence
      BY <2>2, CheckedSequence DEF Inv, Receive
    <3>2. /\ DOMAIN nodes' = DOMAIN nodes
          /\ nodes'[from].sequence = m.sequence
          /\ \A k \in DOMAIN nodes : k # from => nodes'[k] = nodes[k]
      BY <2>2, <3>1, ReceivedNodesValue DEF Inv, Receive
    <3> QED BY <3>1, <3>2, RecordType, MessageType DEF Inv
  <2>3. n \in DOMAIN nodes' /\ nodes'[n].sequence >= nodes[n].sequence
    BY <2>1, <2>2, RecordType DEF Inv, Next
  <2>4. nodes'[n].sequence \in Nat
    BY <2>3, NextInv DEF Inv, TypeOK, NodeSequence, Sequence
  <2> QED BY <2>3, <2>4, RecordType, MessageType DEF AlreadyReceived, Inv
<1> QED BY <1>1, Invariance, PTL DEF Spec, ReceivedOnce
=============================================================================
