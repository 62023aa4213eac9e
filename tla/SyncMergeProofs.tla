--------------------------- MODULE SyncMergeProofs ---------------------------
(***************************************************************************)
(* The merge of start_sync_response is right for lists of any length, any  *)
(* node ids and any room for clocks.                                       *)
(***************************************************************************)
EXTENDS SyncMerge, FiniteSetTheorems, FunctionTheorems, TLAPS

Shapes ==
    /\ mine \in Seq(MyNode) /\ Len(mine) <= MaxNodes /\ Sorted(mine)
    /\ request \in Seq(Clock) /\ Len(request) <= MaxNodes /\ Sorted(request)
    /\ my_index \in 1 .. Len(mine) + 1
    /\ request_index \in 1 .. Len(request) + 1
    /\ vector_clock \in Seq(Clock) /\ Len(vector_clock) <= MaxNodes
    /\ result \in {"running", "Ok", "Unreachable"}

\* What is merged comes before what is left of either list.
Ahead ==
    \A k \in DOMAIN vector_clock :
        /\ \A i \in my_index .. Len(mine) : vector_clock[k].node < mine[i].node
        /\ \A i \in request_index .. Len(request) : vector_clock[k].node < request[i].node

MergedNodes ==
    NodesOf(vector_clock) =
        {mine[i].node : i \in 1 .. my_index - 1}
        \cup {request[i].node : i \in 1 .. request_index - 1}

\* A clock of the request, or of a node that the request lacks.
Answers(clock) ==
    \/ clock \in {request[i] : i \in DOMAIN request}
    \/ /\ clock.node \notin NodesOf(request)
       /\ \E i \in DOMAIN mine :
             /\ mine[i].node = clock.node
             /\ mine[i].first_sequence = clock.sequence

MergedClocks == \A k \in DOMAIN vector_clock : Answers(vector_clock[k])

\* The loops end with everything merged, or for want of a place.
Ended ==
    /\ result = "Ok" => ~MineLeft /\ ~RequestLeft
    /\ result = "Unreachable" =>
          Len(vector_clock) = MaxNodes /\ (MineLeft \/ RequestLeft)

IInv ==
    /\ Shapes
    /\ Sorted(vector_clock)
    /\ Ahead
    /\ MergedNodes
    /\ MergedClocks
    /\ Ended

-----------------------------------------------------------------------------

\* Lists are sequences with room for one clock of each node.
LEMMA ListsAreSequences ==
  ASSUME NEW S, NEW list
  PROVE  list \in Lists(S) <=> list \in Seq(S) /\ Len(list) <= MaxNodes
<1>1. ASSUME NEW n \in 0 .. MaxNodes, list \in [1 .. n -> S]
      PROVE  list \in Seq(S) /\ Len(list) <= MaxNodes
  BY <1>1, MaxNodesAssumption
<1>2. ASSUME list \in Seq(S), Len(list) <= MaxNodes
      PROVE  list \in Lists(S)
  <2>1. Len(list) \in 0 .. MaxNodes /\ list \in [1 .. Len(list) -> S]
    BY <1>2, MaxNodesAssumption
  <2> QED BY <2>1 DEF Lists
<1> QED BY <1>1, <1>2 DEF Lists

\* A sorted list stays sorted when a clock of a larger node is put at its end.
LEMMA SortedAppend ==
  ASSUME NEW list \in Seq(Clock), Sorted(list), NEW clock \in Clock,
         \A k \in DOMAIN list : list[k].node < clock.node
  PROVE  /\ Sorted(Append(list, clock))
         /\ NodesOf(Append(list, clock)) = NodesOf(list) \cup {clock.node}
<1> DEFINE new == Append(list, clock)
<1>1. /\ Len(list) \in Nat
      /\ DOMAIN list = 1 .. Len(list) /\ DOMAIN new = 1 .. Len(list) + 1
      /\ \A k \in DOMAIN list : new[k] = list[k]
      /\ new[Len(list) + 1] = clock
  OBVIOUS
<1> HIDE DEF new
<1>2. \A k \in DOMAIN new : k \in DOMAIN list \/ k = Len(list) + 1
  BY <1>1
<1>3. Sorted(new)
  <2> SUFFICES ASSUME NEW i \in DOMAIN new, NEW j \in DOMAIN new, i < j
               PROVE  new[i].node < new[j].node
    BY DEF Sorted
  <2>1. i \in DOMAIN list
    BY <1>1
  <2>2. CASE j \in DOMAIN list
    BY <2>1, <2>2, <1>1 DEF Sorted
  <2>3. CASE j = Len(list) + 1
    BY <2>1, <2>3, <1>1
  <2> QED BY <2>2, <2>3, <1>2
<1>4. NodesOf(new) = NodesOf(list) \cup {clock.node}
  <2>1. \A k \in DOMAIN list : k \in DOMAIN new
    BY <1>1
  <2>2. Len(list) + 1 \in DOMAIN new
    BY <1>1
  <2> QED BY <1>1, <1>2, <2>1, <2>2 DEF NodesOf
<1> QED BY <1>3, <1>4 DEF new

\* The merge starts with sorted lists and nothing merged.
LEMMA InitIInv == Init => IInv
<1> SUFFICES ASSUME Init PROVE IInv
  OBVIOUS
<1>1. Shapes
  <2>1. mine \in Seq(MyNode) /\ Len(mine) <= MaxNodes /\ Sorted(mine)
    BY ListsAreSequences DEF Init
  <2>2. request \in Seq(Clock) /\ Len(request) <= MaxNodes /\ Sorted(request)
    BY ListsAreSequences DEF Init
  <2> QED BY <2>1, <2>2, MaxNodesAssumption DEF Init, Shapes
<1>2. vector_clock = <<>> /\ my_index = 1 /\ request_index = 1 /\ result = "running"
  BY DEF Init
<1>3. Sorted(vector_clock) /\ Ahead /\ MergedClocks /\ Ended
  BY <1>2 DEF Sorted, Ahead, MergedClocks, Ended
<1>4. MergedNodes
  BY <1>2 DEF MergedNodes, NodesOf
<1> QED BY <1>1, <1>3, <1>4 DEF IInv

\* One push of a node that is smaller than all that are left afterwards and
\* larger than all that were merged.
LEMMA PushIInv ==
  ASSUME IInv, NEW node \in NodeId, NEW sequence \in 0 .. MaxSequence,
         Push(node, sequence),
         UNCHANGED <<mine, request, result>>,
         my_index' \in {my_index, my_index + 1},
         request_index' \in {request_index, request_index + 1},
         my_index' \in 1 .. Len(mine) + 1,
         request_index' \in 1 .. Len(request) + 1,
         \A k \in DOMAIN vector_clock : vector_clock[k].node < node,
         \A i \in my_index' .. Len(mine) : node < mine[i].node,
         \A i \in request_index' .. Len(request) : node < request[i].node,
         my_index' # my_index => mine[my_index].node = node,
         request_index' # request_index => request[request_index].node = node,
         my_index' # my_index \/ request_index' # request_index,
         Answers([node |-> node, sequence |-> sequence])
  PROVE  IInv'
<1> DEFINE clock == [node |-> node, sequence |-> sequence]
           new   == Append(vector_clock, clock)
<1>1. clock \in Clock /\ clock.node = node
  BY DEF Clock
<1>2. /\ vector_clock \in Seq(Clock) /\ Len(vector_clock) \in Nat
      /\ vector_clock' = new /\ result = "running"
      /\ Len(vector_clock) < MaxNodes
  BY DEF Push, IInv, Shapes
<1>3. /\ new \in Seq(Clock) /\ Len(new) = Len(vector_clock) + 1
      /\ DOMAIN new = 1 .. Len(vector_clock) + 1
      /\ \A k \in DOMAIN vector_clock : new[k] = vector_clock[k]
      /\ new[Len(vector_clock) + 1] = clock
      /\ \A k \in DOMAIN new : k \in DOMAIN vector_clock \/ k = Len(vector_clock) + 1
  <2> HIDE DEF clock
  <2> QED BY <1>1, <1>2
<1>4. Sorted(new) /\ NodesOf(new) = NodesOf(vector_clock) \cup {node}
  BY <1>1, <1>2, SortedAppend DEF IInv
<1> HIDE DEF new, clock
<1>5. Shapes'
  BY <1>2, <1>3, MaxNodesAssumption DEF IInv, Shapes, Sorted
<1>6. Ahead'
  <2> SUFFICES ASSUME NEW k \in DOMAIN new
               PROVE  /\ \A i \in my_index' .. Len(mine) : new[k].node < mine[i].node
                      /\ \A i \in request_index' .. Len(request) : new[k].node < request[i].node
    BY <1>2 DEF Ahead
  <2>1. CASE k \in DOMAIN vector_clock
    <3>1. /\ \A i \in my_index' .. Len(mine) : i \in my_index .. Len(mine)
          /\ \A i \in request_index' .. Len(request) : i \in request_index .. Len(request)
      BY DEF IInv, Shapes
    <3> QED BY <2>1, <3>1, <1>3 DEF IInv, Ahead
  <2>2. CASE k = Len(vector_clock) + 1
    BY <2>2, <1>1, <1>3
  <2> QED BY <2>1, <2>2, <1>3
<1>7. MergedNodes'
  <2> DEFINE M(n) == {mine[i].node : i \in 1 .. n - 1}
             R(n) == {request[i].node : i \in 1 .. n - 1}
  <2>1. M(my_index') = IF my_index' = my_index THEN M(my_index) ELSE M(my_index) \cup {node}
    <3>1. 1 .. (my_index + 1) - 1 = (1 .. my_index - 1) \cup {my_index}
      BY DEF IInv, Shapes
    <3> QED BY <3>1
  <2>2. R(request_index') =
           IF request_index' = request_index THEN R(request_index) ELSE R(request_index) \cup {node}
    <3>1. 1 .. (request_index + 1) - 1 = (1 .. request_index - 1) \cup {request_index}
      BY DEF IInv, Shapes
    <3> QED BY <3>1
  <2>3. NodesOf(vector_clock) = M(my_index) \cup R(request_index)
    BY DEF IInv, MergedNodes
  <2> HIDE DEF M, R
  <2>4. NodesOf(new) = M(my_index') \cup R(request_index')
    BY <2>1, <2>2, <2>3, <1>4
  <2>5. NodesOf(vector_clock)' = NodesOf(new)
    BY <1>2 DEF NodesOf
  <2> QED BY <2>4, <2>5 DEF MergedNodes, M, R
<1>8. MergedClocks'
  <2> SUFFICES ASSUME NEW k \in DOMAIN new PROVE Answers(new[k])
    BY <1>2 DEF MergedClocks, Answers, NodesOf
  <2>1. CASE k \in DOMAIN vector_clock
    BY <2>1, <1>3 DEF IInv, MergedClocks
  <2>2. CASE k = Len(vector_clock) + 1
    BY <2>2, <1>3 DEF clock
  <2> QED BY <2>1, <2>2, <1>3
<1>9. Ended'
  BY <1>2 DEF Ended
<1>10. Sorted(vector_clock)'
  BY <1>2, <1>4 DEF Sorted
<1> QED BY <1>5, <1>6, <1>7, <1>8, <1>9, <1>10 DEF IInv

\* What the sorted lists and Ahead say of the two clocks the loops compare: each
\* is larger than all that were merged and smaller than what follows it.
Heads ==
    /\ \A k \in DOMAIN vector_clock :
          /\ MineLeft => vector_clock[k].node < mine[my_index].node
          /\ RequestLeft => vector_clock[k].node < request[request_index].node
    /\ MineLeft =>
          /\ mine[my_index] \in MyNode
          /\ my_index + 1 \in 1 .. Len(mine) + 1
          /\ \A i \in my_index + 1 .. Len(mine) : mine[my_index].node < mine[i].node
    /\ RequestLeft =>
          /\ request[request_index] \in Clock
          /\ request_index + 1 \in 1 .. Len(request) + 1
          /\ request_index \in DOMAIN request
          /\ \A i \in request_index + 1 .. Len(request) : request[request_index].node < request[i].node

LEMMA HeadsInOrder == IInv => Heads
<1> SUFFICES ASSUME IInv PROVE Heads
  OBVIOUS
<1>1. /\ Shapes /\ Ahead
      /\ Len(mine) \in Nat /\ DOMAIN mine = 1 .. Len(mine)
      /\ Len(request) \in Nat /\ DOMAIN request = 1 .. Len(request)
      /\ my_index \in Nat \ {0} /\ request_index \in Nat \ {0}
  BY DEF IInv, Shapes
<1>2. \A k \in DOMAIN vector_clock :
          /\ MineLeft => vector_clock[k].node < mine[my_index].node
          /\ RequestLeft => vector_clock[k].node < request[request_index].node
  BY <1>1 DEF Ahead, MineLeft, RequestLeft
<1>3. ASSUME MineLeft
      PROVE  /\ mine[my_index] \in MyNode
             /\ my_index + 1 \in 1 .. Len(mine) + 1
             /\ \A i \in my_index + 1 .. Len(mine) : mine[my_index].node < mine[i].node
  BY <1>1, <1>3 DEF MineLeft, Shapes, Sorted
<1>4. ASSUME RequestLeft
      PROVE  /\ request[request_index] \in Clock
             /\ request_index + 1 \in 1 .. Len(request) + 1
             /\ request_index \in DOMAIN request
             /\ \A i \in request_index + 1 .. Len(request) : request[request_index].node < request[i].node
  BY SMTT(60), <1>1, <1>4 DEF RequestLeft, Shapes, Sorted
<1> QED BY <1>2, <1>3, <1>4 DEF Heads

\* A node that is larger than all that were merged and smaller than what is left
\* of the request is not in the request.
LEMMA NotInRequest ==
  ASSUME IInv, NEW node \in NodeId,
         \A k \in DOMAIN vector_clock : vector_clock[k].node < node,
         \A i \in request_index .. Len(request) : node < request[i].node
  PROVE  node \notin NodesOf(request)
<1> SUFFICES ASSUME NEW i \in DOMAIN request, request[i].node = node
             PROVE  FALSE
  BY DEF NodesOf
<1>1. /\ i \in 1 .. Len(request) /\ Len(request) \in Nat /\ request_index \in Nat \ {0}
      /\ node \in Nat
  BY NodeIdAssumption DEF IInv, Shapes
<1>2. CASE i \in request_index .. Len(request)
  BY <1>1, <1>2
<1>3. CASE i \in 1 .. request_index - 1
  <2>1. node \in NodesOf(vector_clock)
    BY <1>3 DEF IInv, MergedNodes
  <2>2. PICK k \in DOMAIN vector_clock : vector_clock[k].node = node
    BY <2>1 DEF NodesOf
  <2> QED BY <2>2, <1>1
<1> QED BY <1>1, <1>2, <1>3

\* Each turn of the loops is one push of the smaller head, or of both when they
\* are of the same node.
LEMMA BothHaveIInv == IInv /\ BothHave => IInv'
<1> SUFFICES ASSUME IInv, BothHave PROVE IInv'
  OBVIOUS
<1> DEFINE node == request[request_index].node
           sequence == request[request_index].sequence
<1>1. Heads
  BY HeadsInOrder
<1>2. /\ MineLeft /\ RequestLeft /\ mine[my_index].node = node
      /\ Push(node, sequence)
      /\ request_index' = request_index + 1 /\ my_index' = my_index + 1
      /\ UNCHANGED <<mine, request, result>>
  BY DEF BothHave
<1>3. node \in NodeId /\ sequence \in 0 .. MaxSequence
  BY <1>1, <1>2 DEF Heads, Clock
<1>4. Answers([node |-> node, sequence |-> sequence])
  <2>1. request[request_index] = [node |-> node, sequence |-> sequence]
    BY <1>1, <1>2 DEF Heads, Clock
  <2> QED BY <2>1, <1>1, <1>2 DEF Heads, Answers
<1>5. /\ \A k \in DOMAIN vector_clock : vector_clock[k].node < node
      /\ \A i \in my_index' .. Len(mine) : node < mine[i].node
      /\ \A i \in request_index' .. Len(request) : node < request[i].node
      /\ my_index' \in 1 .. Len(mine) + 1
      /\ request_index' \in 1 .. Len(request) + 1
  BY <1>1, <1>2 DEF Heads
<1>6. my_index' # my_index
  BY <1>2 DEF IInv, Shapes
<1> HIDE DEF node, sequence
<1> QED BY <1>2, <1>3, <1>4, <1>5, <1>6, PushIInv DEF node

LEMMA OnlyRequestHasIInv == IInv /\ OnlyRequestHas => IInv'
<1> SUFFICES ASSUME IInv, OnlyRequestHas PROVE IInv'
  OBVIOUS
<1> DEFINE node == request[request_index].node
           sequence == request[request_index].sequence
<1>1. Heads
  BY HeadsInOrder
<1>2. /\ MineLeft /\ RequestLeft /\ node < mine[my_index].node
      /\ Push(node, sequence)
      /\ request_index' = request_index + 1 /\ my_index' = my_index
      /\ UNCHANGED <<mine, request, result>>
  BY DEF OnlyRequestHas
<1>3. node \in NodeId /\ sequence \in 0 .. MaxSequence
  BY <1>1, <1>2 DEF Heads, Clock
<1>4. Answers([node |-> node, sequence |-> sequence])
  <2>1. request[request_index] = [node |-> node, sequence |-> sequence]
    BY <1>1, <1>2 DEF Heads, Clock
  <2> QED BY <2>1, <1>1, <1>2 DEF Heads, Answers
<1>5. /\ \A k \in DOMAIN vector_clock : vector_clock[k].node < node
      /\ \A i \in request_index' .. Len(request) : node < request[i].node
      /\ request_index' \in 1 .. Len(request) + 1
  BY <1>1, <1>2 DEF Heads
<1>6. \A i \in my_index' .. Len(mine) : node < mine[i].node
  <2> SUFFICES ASSUME NEW i \in my_index .. Len(mine) PROVE node < mine[i].node
    BY <1>2
  <2>1. /\ i = my_index \/ i \in my_index + 1 .. Len(mine)
        /\ mine[i] \in MyNode /\ mine[my_index] \in MyNode
    BY <1>1, <1>2 DEF Heads, IInv, Shapes
  <2>2. mine[i].node \in Nat /\ mine[my_index].node \in Nat /\ node \in Nat
    BY <2>1, <1>3, NodeIdAssumption DEF MyNode
  <2> HIDE DEF node
  <2> QED BY <2>1, <2>2, <1>1, <1>2 DEF Heads
<1>7. request_index' # request_index /\ my_index' \in 1 .. Len(mine) + 1
  BY <1>2 DEF IInv, Shapes
<1> HIDE DEF sequence
<1> QED BY <1>2, <1>3, <1>4, <1>5, <1>6, <1>7, PushIInv

LEMMA OnlyIHaveIInv == IInv /\ OnlyIHave => IInv'
<1> SUFFICES ASSUME IInv, OnlyIHave PROVE IInv'
  OBVIOUS
<1> DEFINE node == mine[my_index].node
           sequence == mine[my_index].first_sequence
<1>1. Heads
  BY HeadsInOrder
<1>2. /\ MineLeft /\ (RequestLeft => request[request_index].node > node)
      /\ Push(node, sequence)
      /\ request_index' = request_index /\ my_index' = my_index + 1
      /\ UNCHANGED <<mine, request, result>>
  BY DEF OnlyIHave
<1>3. node \in NodeId /\ sequence \in 0 .. MaxSequence
  BY <1>1, <1>2 DEF Heads, MyNode
<1>4. /\ \A k \in DOMAIN vector_clock : vector_clock[k].node < node
      /\ \A i \in my_index' .. Len(mine) : node < mine[i].node
      /\ my_index' \in 1 .. Len(mine) + 1
  BY <1>1, <1>2 DEF Heads
<1>5. \A i \in request_index .. Len(request) : node < request[i].node
  <2> SUFFICES ASSUME NEW i \in request_index .. Len(request) PROVE node < request[i].node
    OBVIOUS
  <2>1. /\ RequestLeft
        /\ i = request_index \/ i \in request_index + 1 .. Len(request)
        /\ request[i] \in Clock /\ request[request_index] \in Clock
    BY DEF IInv, Shapes, RequestLeft
  <2>2. /\ request[i].node \in Nat /\ request[request_index].node \in Nat /\ node \in Nat
    BY <2>1, <1>3, NodeIdAssumption DEF Clock
  <2> HIDE DEF node
  <2> QED BY <2>1, <2>2, <1>1, <1>2 DEF Heads
<1>6. node \notin NodesOf(request)
  <2> HIDE DEF node
  <2> QED BY <1>3, <1>4, <1>5, NotInRequest
<1>7. Answers([node |-> node, sequence |-> sequence])
  <2>1. my_index \in DOMAIN mine
    BY <1>2 DEF IInv, Shapes, MineLeft
  <2> QED BY <2>1, <1>6 DEF Answers
<1>8. my_index' # my_index /\ request_index' \in 1 .. Len(request) + 1
  BY <1>2 DEF IInv, Shapes
<1> HIDE DEF sequence
<1> QED BY <1>2, <1>3, <1>4, <1>5, <1>7, <1>8, PushIInv

LEMMA RestOfRequestIInv == IInv /\ RestOfRequest => IInv'
<1> SUFFICES ASSUME IInv, RestOfRequest PROVE IInv'
  OBVIOUS
<1> DEFINE node == request[request_index].node
           sequence == request[request_index].sequence
<1>1. Heads
  BY HeadsInOrder
<1>2. /\ ~MineLeft /\ RequestLeft
      /\ Push(node, sequence)
      /\ request_index' = request_index + 1 /\ my_index' = my_index
      /\ UNCHANGED <<mine, request, result>>
  BY DEF RestOfRequest
<1>3. node \in NodeId /\ sequence \in 0 .. MaxSequence
  BY <1>1, <1>2 DEF Heads, Clock
<1>4. Answers([node |-> node, sequence |-> sequence])
  <2>1. request[request_index] = [node |-> node, sequence |-> sequence]
    BY <1>1, <1>2 DEF Heads, Clock
  <2> QED BY <2>1, <1>1, <1>2 DEF Heads, Answers
<1>5. /\ \A k \in DOMAIN vector_clock : vector_clock[k].node < node
      /\ \A i \in request_index' .. Len(request) : node < request[i].node
      /\ request_index' \in 1 .. Len(request) + 1
  BY <1>1, <1>2 DEF Heads
<1>6. my_index' .. Len(mine) = {} /\ my_index' \in 1 .. Len(mine) + 1
  BY <1>2 DEF IInv, Shapes, MineLeft
<1>7. request_index' # request_index
  BY <1>2 DEF IInv, Shapes
<1> HIDE DEF sequence
<1> QED BY <1>2, <1>3, <1>4, <1>5, <1>6, <1>7, PushIInv

\* The end of the loops and a full vector_clock change nothing but the result.
LEMMA EndIInv == IInv /\ (Full \/ Return \/ UNCHANGED vars) => IInv'
<1> SUFFICES ASSUME IInv, Full \/ Return \/ UNCHANGED vars PROVE IInv'
  OBVIOUS
<1>1. UNCHANGED <<mine, request, my_index, request_index, vector_clock>>
  BY DEF Full, Return, vars
<1>2. /\ result' \in {"running", "Ok", "Unreachable"}
      /\ Ended'
  BY <1>1 DEF Full, Return, vars, IInv, Shapes, Ended, MineLeft, RequestLeft
<1>3. Shapes'
  BY <1>1, <1>2 DEF IInv, Shapes, Sorted
<1>4. Sorted(vector_clock)' /\ Ahead'
  BY <1>1 DEF IInv, Sorted, Ahead
<1>5. MergedNodes'
  BY ZenonT(60), <1>1 DEF IInv, MergedNodes, NodesOf
<1>6. MergedClocks'
  BY <1>1 DEF IInv, MergedClocks, Answers, NodesOf
<1> QED BY <1>2, <1>3, <1>4, <1>5, <1>6 DEF IInv

-----------------------------------------------------------------------------

\* What is merged is always sorted, comes before all that is left of both lists,
\* and answers each node that was passed with the clock of the request where
\* there is one (the loops of start_sync_response).
THEOREM Invariance == Spec => []IInv
<1>1. Init => IInv
  BY InitIInv
<1>2. IInv /\ [Next]_vars => IInv'
  BY BothHaveIInv, OnlyRequestHasIInv, OnlyIHaveIInv, RestOfRequestIInv, EndIInv DEF Next
<1> QED BY <1>1, <1>2, PTL DEF Spec

\* The clocks never outgrow the MAX_NODES places of vector_clock, and neither
\* index of the loops passes the end of its list by more than one.
THEOREM TypeCorrect == Spec => []TypeOK
<1>1. IInv => TypeOK
  BY ListsAreSequences DEF IInv, Shapes, TypeOK
<1> QED BY <1>1, Invariance, PTL

\* When both lists are through, all their nodes are merged.
LEMMA EndMergesAll == IInv /\ result = "Ok" => NodesOf(vector_clock) = AllNodes
<1> SUFFICES ASSUME IInv, result = "Ok" PROVE NodesOf(vector_clock) = AllNodes
  OBVIOUS
<1>1. /\ my_index - 1 = Len(mine) /\ DOMAIN mine = 1 .. Len(mine)
      /\ request_index - 1 = Len(request) /\ DOMAIN request = 1 .. Len(request)
  BY DEF IInv, Shapes, Ended, MineLeft, RequestLeft
<1> QED BY <1>1 DEF IInv, MergedNodes, AllNodes, NodesOf

\* A sorted list holds as many nodes as clocks.
LEMMA SortedCardinality ==
  ASSUME NEW list \in Seq(Clock), Sorted(list)
  PROVE  IsFiniteSet(NodesOf(list)) /\ Cardinality(NodesOf(list)) = Len(list)
<1> DEFINE f == [i \in 1 .. Len(list) |-> list[i].node]
<1>1. /\ Len(list) \in Nat /\ DOMAIN list = 1 .. Len(list)
      /\ \A i \in DOMAIN list : list[i] \in Clock
  OBVIOUS
<1>2. \A i \in DOMAIN list : list[i].node \in Nat
  BY <1>1, NodeIdAssumption DEF Clock
<1>3. f \in Bijection(1 .. Len(list), NodesOf(list))
  <2>1. f \in [1 .. Len(list) -> NodesOf(list)]
    BY <1>1 DEF NodesOf
  <2>2. \A i, j \in 1 .. Len(list) : i # j => f[i] # f[j]
    <3> SUFFICES ASSUME NEW i \in 1 .. Len(list), NEW j \in 1 .. Len(list), i < j
                 PROVE  f[i] # f[j]
      BY <1>1
    <3> QED BY <1>1, <1>2 DEF Sorted
  <2>3. \A node \in NodesOf(list) : \E i \in 1 .. Len(list) : f[i] = node
    BY <1>1 DEF NodesOf
  <2> QED BY <2>1, <2>2, <2>3 DEF Bijection, Injection, Surjection, IsInjective
<1>4. ExistsBijection(1 .. Len(list), NodesOf(list))
  BY <1>3 DEF ExistsBijection
<1> QED BY <1>1, <1>4, FS_CountingElements, FS_NatBijection

\* A merge that returns Ok holds every node of either side once, in order, with
\* the sequence the requester gave or, where it gave none, the node's first.
THEOREM Merged == Spec => []MergesClocks
<1>1. IInv => MergesClocks
  BY EndMergesAll DEF IInv, MergedClocks, Answers, MergesClocks
<1> QED BY <1>1, Invariance, PTL

\* start_sync_response refuses a request exactly when its nodes and the device's
\* own are more than MAX_NODES.
THEOREM RefusesOnlyTooMany == Spec => []FullOnlyWhenTooMany
<1>1. IInv => FullOnlyWhenTooMany
  <2> SUFFICES ASSUME IInv PROVE FullOnlyWhenTooMany
    OBVIOUS
  <2>1. /\ IsFiniteSet(NodesOf(vector_clock))
        /\ Cardinality(NodesOf(vector_clock)) = Len(vector_clock)
        /\ IsFiniteSet(AllNodes)
    <3>1. IsFiniteSet(NodesOf(vector_clock)) /\ Cardinality(NodesOf(vector_clock)) = Len(vector_clock)
      BY SortedCardinality DEF IInv, Shapes
    <3>2. AllNodes \in SUBSET NodeId
      <4>1. /\ \A i \in DOMAIN mine : mine[i] \in MyNode
            /\ \A i \in DOMAIN request : request[i] \in Clock
        BY DEF IInv, Shapes
      <4>2. /\ \A i \in DOMAIN mine : mine[i].node \in NodeId
            /\ \A i \in DOMAIN request : request[i].node \in NodeId
        BY <4>1 DEF MyNode, Clock
      <4> QED BY <4>2 DEF AllNodes, NodesOf
    <3>3. IsFiniteSet(AllNodes)
      BY ONLY <3>2, NodeIdAssumption, FS_Subset
    <3> QED BY <3>1, <3>3
  <2>2. ASSUME result = "Unreachable"
        PROVE  Cardinality(AllNodes) > MaxNodes
    <3>1. PICK node \in AllNodes : node \notin NodesOf(vector_clock)
      <4>1. /\ MineLeft => mine[my_index].node \in AllNodes
            /\ RequestLeft => request[request_index].node \in AllNodes
        <5>1. /\ MineLeft => my_index \in DOMAIN mine
              /\ RequestLeft => request_index \in DOMAIN request
          BY DEF IInv, Shapes, MineLeft, RequestLeft
        <5> QED BY <5>1 DEF AllNodes, NodesOf
      <4>2. /\ \A k \in DOMAIN vector_clock : vector_clock[k].node \in Nat
            /\ MineLeft => mine[my_index].node \in Nat
            /\ RequestLeft => request[request_index].node \in Nat
        <5>1. \A k \in DOMAIN vector_clock : vector_clock[k] \in Clock
          BY DEF IInv, Shapes
        <5> QED BY <5>1, HeadsInOrder, NodeIdAssumption DEF Heads, Clock, MyNode
      <4>3. /\ MineLeft => mine[my_index].node \notin NodesOf(vector_clock)
            /\ RequestLeft => request[request_index].node \notin NodesOf(vector_clock)
        <5>1. \A k \in DOMAIN vector_clock :
                 /\ MineLeft => vector_clock[k].node # mine[my_index].node
                 /\ RequestLeft => vector_clock[k].node # request[request_index].node
          BY <4>2, HeadsInOrder DEF Heads
        <5> QED BY <5>1 DEF NodesOf
      <4> QED BY <2>2, <4>1, <4>3 DEF IInv, Ended
    <3>2. NodesOf(vector_clock) \cup {node} \subseteq AllNodes
      <4>1. NodesOf(vector_clock) \subseteq AllNodes
        <5>1. 1 .. my_index - 1 \subseteq DOMAIN mine /\ 1 .. request_index - 1 \subseteq DOMAIN request
          BY DEF IInv, Shapes
        <5>2. /\ {mine[i].node : i \in 1 .. my_index - 1} \subseteq NodesOf(mine)
              /\ {request[i].node : i \in 1 .. request_index - 1} \subseteq NodesOf(request)
          BY <5>1 DEF NodesOf
        <5> QED BY <5>2 DEF IInv, MergedNodes, AllNodes
      <4> QED BY <3>1, <4>1
    <3>3. Cardinality(NodesOf(vector_clock) \cup {node}) = MaxNodes + 1
      BY <2>1, <2>2, <3>1, FS_AddElement DEF IInv, Ended
    <3>4. /\ Cardinality(NodesOf(vector_clock) \cup {node}) <= Cardinality(AllNodes)
          /\ Cardinality(AllNodes) \in Nat
      BY <2>1, <3>2, FS_Subset, FS_CardinalityType
    <3> QED BY <3>3, <3>4, MaxNodesAssumption
  <2>3. ASSUME result = "Ok"
        PROVE  Cardinality(AllNodes) <= MaxNodes
    <3>1. NodesOf(vector_clock) = AllNodes
      BY <2>3, EndMergesAll
    <3> QED BY <2>1, <3>1 DEF IInv, Shapes
  <2> QED BY <2>2, <2>3 DEF FullOnlyWhenTooMany
<1> QED BY <1>1, Invariance, PTL
=============================================================================
