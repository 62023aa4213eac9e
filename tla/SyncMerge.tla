------------------------------ MODULE SyncMerge ------------------------------
(***************************************************************************)
(* Client::start_sync_response (protocol/src/lib.rs), one turn of its      *)
(* loops at a time: the responder merges the clocks of a request with its  *)
(* own nodes into the vector_clock it will answer from.  Both lists are    *)
(* sorted by node, as ChannelState::add_node keeps them, and the merge     *)
(* relies on it.  ClientOps!StartSyncResponse is what this computes.       *)
(***************************************************************************)
EXTENDS Naturals, Sequences, FiniteSets

CONSTANTS
    NodeId,         \* node ids, compared as numbers
    MaxNodes,       \* MAX_NODES, the room of vector_clock
    MaxSequence     \* bound of the sequences in the clocks

ASSUME NodeIdAssumption == NodeId \subseteq Nat /\ IsFiniteSet(NodeId)
ASSUME MaxNodesAssumption == MaxNodes \in Nat \ {0}
ASSUME MaxSequenceAssumption == MaxSequence \in Nat

VARIABLES
    mine,           \* channel.state.list_nodes()
    request,        \* request.vector_clock
    my_index,       \* the turn of the outer loop
    request_index,
    vector_clock,   \* state.vector_clock
    result          \* "running", or what start_sync_response returns

vars == <<mine, request, my_index, request_index, vector_clock, result>>

Clock == [node: NodeId, sequence: 0 .. MaxSequence]

MyNode == [node: NodeId, sequence: 0 .. MaxSequence, first_sequence: 0 .. MaxSequence]

Lists(S) == UNION {[1 .. n -> S] : n \in 0 .. MaxNodes}

Sorted(list) == \A i, j \in DOMAIN list : i < j => list[i].node < list[j].node

NodesOf(list) == {list[i].node : i \in DOMAIN list}

\* The clocks fit in vector_clock and the indices stay within one past each list.
TypeOK ==
    /\ mine \in Lists(MyNode)
    /\ request \in Lists(Clock)
    /\ my_index \in 1 .. Len(mine) + 1
    /\ request_index \in 1 .. Len(request) + 1
    /\ vector_clock \in Lists(Clock)
    /\ result \in {"running", "Ok", "Unreachable"}

\* A node joins with first_sequence 0 and none is ahead of its last message; a
\* channel has at least the node it started with.
Init ==
    /\ mine \in {list \in Lists(MyNode) :
                   /\ list # <<>>
                   /\ Sorted(list)
                   /\ \A i \in DOMAIN list : list[i].first_sequence <= list[i].sequence}
    /\ request \in {list \in Lists(Clock) : Sorted(list)}
    /\ my_index = 1
    /\ request_index = 1
    /\ vector_clock = <<>>
    /\ result = "running"

-----------------------------------------------------------------------------

MineLeft == my_index <= Len(mine)

RequestLeft == request_index <= Len(request)

\* Mutant of Push: a push that fails is taken for one that succeeds.
PushAlways(node, sequence) ==
    /\ result = "running"
    /\ vector_clock' = Append(vector_clock, [node |-> node, sequence |-> sequence])

\* A turn of the loops pushes one clock, as long as there is room for it.
Push(node, sequence) ==
    /\ result = "running"
    /\ Len(vector_clock) < MaxNodes
    /\ vector_clock' = Append(vector_clock, [node |-> node, sequence |-> sequence])

\* Mutant of BothHave: the outer loop is not advanced.
BothHaveAgain ==
    /\ MineLeft /\ RequestLeft
    /\ request[request_index].node = mine[my_index].node
    /\ Push(request[request_index].node, request[request_index].sequence)
    /\ request_index' = request_index + 1
    /\ UNCHANGED <<mine, request, my_index, result>>

BothHave ==
    /\ MineLeft /\ RequestLeft
    /\ request[request_index].node = mine[my_index].node
    /\ Push(request[request_index].node, request[request_index].sequence)
    /\ request_index' = request_index + 1
    /\ my_index' = my_index + 1
    /\ UNCHANGED <<mine, request, result>>

OnlyRequestHas ==
    /\ MineLeft /\ RequestLeft
    /\ request[request_index].node < mine[my_index].node
    /\ Push(request[request_index].node, request[request_index].sequence)
    /\ request_index' = request_index + 1
    /\ UNCHANGED <<mine, request, my_index, result>>

OnlyIHave ==
    /\ MineLeft
    /\ RequestLeft => request[request_index].node > mine[my_index].node
    /\ Push(mine[my_index].node, mine[my_index].first_sequence)
    /\ my_index' = my_index + 1
    /\ UNCHANGED <<mine, request, request_index, result>>

\* The clocks of the request that are left, after the last node of mine.
RestOfRequest ==
    /\ ~MineLeft /\ RequestLeft
    /\ Push(request[request_index].node, request[request_index].sequence)
    /\ request_index' = request_index + 1
    /\ UNCHANGED <<mine, request, my_index, result>>

\* vector_clock.push fails when all MAX_NODES places are taken.
Full ==
    /\ result = "running"
    /\ MineLeft \/ RequestLeft
    /\ Len(vector_clock) = MaxNodes
    /\ result' = "Unreachable"
    /\ UNCHANGED <<mine, request, my_index, request_index, vector_clock>>

\* Mutant of Return: the clocks left of the request are dropped.
ReturnEarly ==
    /\ result = "running" /\ ~MineLeft
    /\ result' = "Ok"
    /\ UNCHANGED <<mine, request, my_index, request_index, vector_clock>>

Return ==
    /\ result = "running" /\ ~MineLeft /\ ~RequestLeft
    /\ result' = "Ok"
    /\ UNCHANGED <<mine, request, my_index, request_index, vector_clock>>

Next == BothHave \/ OnlyRequestHas \/ OnlyIHave \/ RestOfRequest \/ Full \/ Return

Spec == Init /\ [][Next]_vars

-----------------------------------------------------------------------------

AllNodes == NodesOf(mine) \cup NodesOf(request)

\* The merge holds every node of either side once, in order, with the sequence
\* the requester gave for it or, where it gave none, the first of the node.
MergesClocks ==
    result = "Ok" =>
        /\ Sorted(vector_clock)
        /\ NodesOf(vector_clock) = AllNodes
        /\ \A k \in DOMAIN vector_clock :
              \/ vector_clock[k] \in {request[i] : i \in DOMAIN request}
              \/ /\ vector_clock[k].node \notin NodesOf(request)
                 /\ \E i \in DOMAIN mine :
                       /\ mine[i].node = vector_clock[k].node
                       /\ mine[i].first_sequence = vector_clock[k].sequence

\* Unreachable is returned only for more nodes than MAX_NODES, and a merge that
\* would need them never returns Ok.
FullOnlyWhenTooMany ==
    /\ result = "Unreachable" => Cardinality(AllNodes) > MaxNodes
    /\ result = "Ok" => Cardinality(AllNodes) <= MaxNodes
=============================================================================
