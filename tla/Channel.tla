------------------------------- MODULE Channel -------------------------------
(***************************************************************************)
(* One ChannelState under every sequence of calls its owner can make:      *)
(* add_node for any node, and receive for any message that carries a valid *)
(* signature of a node, whether or not a correct device would have         *)
(* produced it.  `address' leaves the state alone; what it returns is the  *)
(* subject of the invariant OwnMessageAccepted.                            *)
(***************************************************************************)
EXTENDS ChannelOps

CONSTANT
    EnvelopeId     \* ids of the envelopes received; 0 is the virtual envelope

ASSUME EnvelopeIdAssumption == EnvelopeId \subseteq Nat \ {NoEnvelope}

VARIABLES
    nodes,         \* ChannelState.nodes
    newest         \* ChannelState.newest

vars == <<nodes, newest>>

Message ==
    [cause: Node, sender_last: Sequence, sequence: Sequence, id: EnvelopeId]

\* The known nodes fit the vector, each has a well-formed record, and the newest
\* is one of them.
TypeOK ==
    /\ DOMAIN nodes \subseteq Node
    /\ IsFiniteSet(DOMAIN nodes)
    /\ Cardinality(DOMAIN nodes) <= MaxNodes
    /\ nodes \in [DOMAIN nodes -> NodeSequence]
    /\ newest \in DOMAIN nodes

-----------------------------------------------------------------------------

Init ==
    \E initial \in Node :
        /\ nodes = InitialNodes(initial)
        /\ newest = initial

AddNode(n) ==
    /\ CanAddNode(nodes, n)
    /\ nodes' = AddedNode(nodes, n)
    /\ UNCHANGED newest

\* A message that check_receive_worker refuses changes nothing.
Receive(from, m) ==
    /\ CheckReceive(nodes, from, m)
    /\ nodes' = ReceivedNodes(nodes, from, m)
    /\ newest' = ReceivedNewest(nodes, newest, from, m)

Next ==
    \/ \E n \in Node : AddNode(n)
    \/ \E from \in Node, m \in Message : Receive(from, m)

Spec == Init /\ [][Next]_vars

-----------------------------------------------------------------------------
(* Safety *)

\* The envelope of the newest node is the largest one known, in the order of
\* sequence and then of envelope id.  address builds on it, and so does the
\* max_sequence that receive returns and storage is searched by.
NewestIsMax ==
    \A n \in DOMAIN nodes :
        \/ nodes[n].sequence < nodes[newest].sequence
        \/ /\ nodes[n].sequence = nodes[newest].sequence
           /\ nodes[n].id <= nodes[newest].id

\* first_sequence, which start_sync_response sends back for a node the
\* requester does not know, is unset exactly while nothing was received from
\* the node and never exceeds the last sequence received.
FirstSequenceSound ==
    \A n \in DOMAIN nodes :
        /\ nodes[n].first_sequence <= nodes[n].sequence
        /\ (nodes[n].first_sequence = 0) <=> (nodes[n].sequence = 0)

\* Whatever was received before, a message that address makes for a known node
\* passes check_receive on the same state: do_send never stops there.
OwnMessageAccepted ==
    \A n \in DOMAIN nodes :
        CanAddress(nodes, newest, n) =>
            CheckReceive(nodes, n, Address(nodes, newest, n))

-----------------------------------------------------------------------------
(* What a step may never do *)

\* No message raises the largest sequence of the channel by more than one: a
\* sender cannot exhaust the counter with a very large sequence, the purpose
\* the comment on Message gives for the cause field.
SequenceGrowsByOne ==
    [][\A n \in DOMAIN nodes' :
           nodes'[n].sequence <= nodes[newest].sequence + 1]_vars

\* What was received stays received: once a node's message is refused as
\* AlreadyReceived, no later step makes it acceptable again, so a duplicated
\* or delayed envelope is absorbed at most once.
ReceivedOnce ==
    [][\A n \in DOMAIN nodes :
           /\ n \in DOMAIN nodes'
           /\ \A m \in Message :
                  AlreadyReceived(nodes, n, m) => AlreadyReceived(nodes', n, m)]_vars
=============================================================================
