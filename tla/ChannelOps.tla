----------------------------- MODULE ChannelOps -----------------------------
(***************************************************************************)
(* The operations of ChannelState (protocol/src/channel.rs) as operators.  *)
(*                                                                         *)
(* A ChannelState is the vector of NodeSequence records the device keeps   *)
(* for one channel, sorted by node and searched by binary search, and the  *)
(* node whose last envelope is the newest.  The sorted vector is a         *)
(* function `nodes' on the set of known nodes.  Public keys stand for the  *)
(* node they hash to.                                                      *)
(***************************************************************************)
EXTENDS Integers, FiniteSets

CONSTANTS
    Node,          \* NodeId
    MaxNodes,      \* MAX_NODES, the capacity of the vector
    MaxSequence    \* u64::MAX, the largest sequence number

ASSUME MaxNodesAssumption == MaxNodes \in Nat \ {0}
ASSUME MaxSequenceAssumption == MaxSequence \in Nat \ {0}

Sequence == 0 .. MaxSequence

\* EnvelopeId(0), the id of the virtual envelope before a node's first one.
NoEnvelope == 0

NodeSequence == [id: Nat, sequence: Sequence, first_sequence: Sequence]

\* The record of a node from which nothing was received yet.
Unheard == [id |-> NoEnvelope, sequence |-> 0, first_sequence |-> 0]

InitialNodes(initial) == [n \in {initial} |-> Unheard]

-----------------------------------------------------------------------------
(* add_node *)

\* Mutants of CanAddNode: room is checked for too late; the node is not looked up.
CanAddNodeLate(nodes, n) ==
    n \notin DOMAIN nodes /\ Cardinality(DOMAIN nodes) <= MaxNodes

CanAddNodeAgain(nodes, n) == Cardinality(DOMAIN nodes \cup {n}) <= MaxNodes

CanAddNode(nodes, n) ==
    /\ n \notin DOMAIN nodes
    /\ Cardinality(DOMAIN nodes) < MaxNodes

AddedNode(nodes, n) ==
    [k \in DOMAIN nodes \cup {n} |-> IF k = n THEN Unheard ELSE nodes[k]]

-----------------------------------------------------------------------------
(* check_receive_worker: the reasons to refuse message m of node `from'.   *)

AlreadyReceived(nodes, from, m) == nodes[from].sequence >= m.sequence

MissingFromSender(nodes, from, m) == nodes[from].sequence # m.sender_last

\* message.sequence.saturating_sub(1)
CauseTarget(m) == IF m.sequence = 0 THEN 0 ELSE m.sequence - 1

MissingCause(nodes, m) ==
    IF m.cause \in DOMAIN nodes
    THEN nodes[m.cause].sequence < CauseTarget(m)
    ELSE CauseTarget(m) # 0

\* Mutants of CheckReceive: without the gap check, without the cause check.
CheckReceiveGap(nodes, from, m) ==
    from \in DOMAIN nodes /\ ~AlreadyReceived(nodes, from, m) /\ ~MissingCause(nodes, m)

CheckReceiveAnyCause(nodes, from, m) ==
    /\ from \in DOMAIN nodes
    /\ ~AlreadyReceived(nodes, from, m)
    /\ ~MissingFromSender(nodes, from, m)

CheckReceive(nodes, from, m) ==
    /\ from \in DOMAIN nodes
    /\ ~AlreadyReceived(nodes, from, m)
    /\ ~MissingFromSender(nodes, from, m)
    /\ ~MissingCause(nodes, m)

-----------------------------------------------------------------------------
(* receive, for a message that passed check_receive.                       *)

\* Mutant of IsNewer: no tie break.
IsNewerSequence(current, m) == current.sequence < m.sequence

IsNewer(current, m) ==
    \/ current.sequence < m.sequence
    \/ current.sequence = m.sequence /\ current.id < m.id

\* Mutant of ReceivedNodes: first_sequence is set from the old sequence.
ReceivedNodesOld(nodes, from, m) ==
    [nodes EXCEPT ![from] =
        [id |-> m.id, sequence |-> m.sequence,
         first_sequence |-> IF @.first_sequence = 0 THEN @.sequence ELSE @.first_sequence]]

ReceivedNodes(nodes, from, m) ==
    [nodes EXCEPT ![from] =
        [id |-> m.id,
         sequence |-> m.sequence,
         first_sequence |->
            IF @.first_sequence = 0 THEN m.sequence ELSE @.first_sequence]]

ReceivedNewest(nodes, newest, from, m) ==
    IF IsNewer(nodes[newest], m) THEN from ELSE newest

\* The value receive returns, stored with the record.
ReceivedMax(nodes, newest, m) ==
    IF IsNewer(nodes[newest], m) THEN m.sequence ELSE nodes[newest].sequence

-----------------------------------------------------------------------------
(* address: the ordering fields of a new message of node `from'.           *)

LastSequence(nodes, newest, from) ==
    IF nodes[from].sequence > nodes[newest].sequence
    THEN nodes[from].sequence
    ELSE nodes[newest].sequence

CanAddress(nodes, newest, from) ==
    /\ from \in DOMAIN nodes
    /\ LastSequence(nodes, newest, from) < MaxSequence

\* Mutant of Address: sender_last is the last sequence of the channel.
AddressLast(nodes, newest, from) ==
    [cause |-> newest,
     sender_last |-> LastSequence(nodes, newest, from),
     sequence |-> LastSequence(nodes, newest, from) + 1]

Address(nodes, newest, from) ==
    [cause |-> newest,
     sender_last |-> nodes[from].sequence,
     sequence |-> LastSequence(nodes, newest, from) + 1]
=============================================================================
