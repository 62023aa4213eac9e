--------------------------- MODULE DiscoveryProofs ---------------------------
(***************************************************************************)
(* What devices send each other when they find out about each other, for   *)
(* any number of devices and channels, any queue of the radio and any      *)
(* announcements: a request is sent before the next message is heard, and  *)
(* hellos and requests never breed.                                        *)
(***************************************************************************)
EXTENDS Discovery, FiniteSetTheorems, TLAPS

USE ChannelsAssumption, HelloAssumption, InboxAssumption, NoneAssumption

-----------------------------------------------------------------------------
(* process_message                                                         *)

\* A turn of the loop over channel_info, as FoldInduction has it.
AskTurn(p, progress, c) == AskFor(p.device, progress, c)

\* A message that could not be processed leaves nothing to send.
AskKept(p, turns, progress) ==
    /\ progress = [to_send |-> progress.to_send, ok |-> progress.ok]
    /\ progress.to_send \in Channel \cup {None}
    /\ progress.ok \in BOOLEAN
    /\ ~progress.ok => progress.to_send = None

Asking == INSTANCE FoldInduction WITH Op <- AskTurn, Kept <- AskKept

\* The requests of a poll (wire.rs) are a fold over its channels.
LEMMA AskIsFold ==
  ASSUME NEW d, NEW base, NEW channels
  PROVE  FoldLeft(LAMBDA progress, c : AskFor(d, progress, c), base, channels) =
             Asking!Fold([device |-> d], base, channels)
  BY DEF Asking!Fold, AskTurn, FoldLeft, Asking!FoldLeft,
         MapThenFoldSet, Asking!MapThenFoldSet, Max, Asking!Max

\* One more request of a poll.
LEMMA AskTurnKeeps ==
  ASSUME NEW p, NEW i, NEW j, NEW progress, AskKept(p, i, progress), NEW c \in Channel
  PROVE  AskKept(p, j, AskTurn(p, progress, c))
<1> DEFINE next == AskFor(p.device, progress, c)
<1>1. CASE ~progress.ok \/ progress.to_send # None
  <2>1. next = progress
    BY <1>1 DEF AskFor
  <2> QED BY <2>1 DEF AskKept, AskTurn
<1>2. CASE progress.ok /\ progress.to_send = None /\ c \in Knows[p.device]
  <2>1. next = [progress EXCEPT !.to_send = c]
    BY <1>2 DEF AskFor
  <2>2. next = [to_send |-> c, ok |-> progress.ok]
    BY <2>1 DEF AskKept
  <2> QED BY <1>2, <2>2 DEF AskKept, AskTurn
<1>3. CASE progress.ok /\ progress.to_send = None /\ c \notin Knows[p.device]
  <2>1. next = [progress EXCEPT !.ok = FALSE]
    BY <1>3 DEF AskFor
  <2>2. next = [to_send |-> progress.to_send, ok |-> FALSE]
    BY <2>1 DEF AskKept
  <2> QED BY <1>3, <2>2 DEF AskKept, AskTurn
<1> QED BY <1>1, <1>2, <1>3

\* What a message leaves a device that had nothing to send.
LEMMA ProcessedKept ==
  ASSUME NEW d \in Node, NEW message \in Message, to_send[d] = None
  PROVE  /\ Processed(d, message).to_send \in Channel \cup {None}
         /\ Processed(d, message).ok \in BOOLEAN
         /\ ~Processed(d, message).ok => Processed(d, message).to_send = None
         /\ message.type # "Hello" => Processed(d, message).to_send = None
<1> DEFINE before == [to_send |-> to_send[d], ok |-> TRUE]
           p      == [device |-> d]
<1>1. AskKept(p, 0, before)
  BY DEF AskKept
<1>2. CASE message.type = "Hello"
  <2> DEFINE channels == message.channel_info
  <2>1. channels \in Seq(Channel)
    BY <1>2 DEF Message
  <2> HIDE DEF channels
  <2>2. Len(channels) \in Nat /\ DOMAIN channels = 1 .. Len(channels)
    BY <2>1
  <2>3. \A i \in 0 .. Len(channels) - 1 : \A x :
            AskKept(p, i, x) => AskKept(p, i + 1, AskTurn(p, x, channels[i + 1]))
    <3>1. \A i \in 0 .. Len(channels) - 1 : channels[i + 1] \in Channel
      BY <2>1, <2>2
    <3> QED BY <3>1, AskTurnKeeps
  <2>4. AskKept(p, Len(channels), Asking!Fold(p, before, channels))
    <3> HIDE DEF before, p
    <3> QED BY <1>1, <2>2, <2>3, Asking!FoldKeeps
  <2>5. Processed(d, message) = Asking!Fold(p, before, channels)
    BY <1>2, AskIsFold DEF Processed, channels
  <2> QED BY <1>2, <2>4, <2>5 DEF AskKept
<1>3. CASE message.type # "Hello"
  BY <1>3 DEF Processed
<1> QED BY <1>2, <1>3

-----------------------------------------------------------------------------
(* Types, and that nothing waits                                           *)

Inv == TypeOK /\ NothingWaits

\* The invariant holds at the start.
LEMMA InitInv == Init => Inv
  BY DEF Init, Inv, TypeOK, NothingWaits

\* What is broadcast fills queues no further than they go.
LEMMA BroadcastTypes ==
  ASSUME inbox \in [Node -> Seq(Message)], \A d \in Node : Len(inbox[d]) <= MaxInbox,
         NEW message \in Message, NEW hearers, Broadcast(message, hearers)
  PROVE  inbox' \in [Node -> Seq(Message)] /\ \A d \in Node : Len(inbox'[d]) <= MaxInbox
<1>1. \A e \in Node : /\ inbox[e] \in Seq(Message) /\ Len(inbox[e]) <= MaxInbox
                      /\ Len(inbox[e]) \in Nat
  OBVIOUS
<1>2. \A e \in Node : Append(inbox[e], message) \in Seq(Message)
                      /\ Len(Append(inbox[e], message)) = Len(inbox[e]) + 1
  BY <1>1
<1> QED BY <1>1, <1>2 DEF Broadcast

\* Every step keeps the invariant.
LEMMA StepInv == Inv /\ [Next]_vars => Inv'
<1> SUFFICES ASSUME Inv, [Next]_vars PROVE Inv'
  OBVIOUS
<1>0. TypeOK /\ NothingWaits
  BY DEF Inv
<1>1. ASSUME NEW d \in Node, Receive(d) PROVE Inv'
  <2> DEFINE message == Head(inbox[d])
             processed == Processed(d, message)
  <2>1. /\ loop[d] = "receive" /\ inbox[d] # <<>>
        /\ to_send' = [to_send EXCEPT ![d] = processed.to_send]
        /\ loop' = [loop EXCEPT ![d] = IF processed.ok THEN "poll" ELSE "receive"]
        /\ inbox' = [inbox EXCEPT ![d] = Tail(@)]
        /\ UNCHANGED <<hello_in, hellos, requests>>
    BY <1>1 DEF Receive
  <2>2. to_send[d] = None
    BY <1>0, <2>1 DEF NothingWaits
  <2>3. inbox[d] \in Seq(Message) /\ message \in Message /\ Tail(inbox[d]) \in Seq(Message)
        /\ Len(Tail(inbox[d])) <= MaxInbox
    BY <1>0, <2>1 DEF TypeOK
  <2>4. /\ processed.to_send \in Channel \cup {None}
        /\ processed.ok \in BOOLEAN
        /\ ~processed.ok => processed.to_send = None
    BY <2>2, <2>3, ProcessedKept
  <2> HIDE DEF processed
  <2>5. NothingWaits'
    BY <1>0, <2>1, <2>4 DEF TypeOK, NothingWaits
  <2>6. TypeOK'
    BY <1>0, <2>1, <2>3, <2>4 DEF TypeOK
  <2> QED BY <2>5, <2>6 DEF Inv
<1>2. ASSUME NEW d \in Node, ReceiveNothing(d) PROVE Inv'
  BY <1>0, <1>2 DEF ReceiveNothing, Inv, TypeOK, NothingWaits
<1>3. ASSUME NEW d \in Node, NEW hearers, SendRequest(d, hearers) PROVE Inv'
  <2> DEFINE message == [type |-> "SyncRequest", channel |-> to_send[d]]
  <2>1. message \in Message
    BY <1>0, <1>3 DEF SendRequest, TypeOK, Message
  <2>2. inbox' \in [Node -> Seq(Message)] /\ \A e \in Node : Len(inbox'[e]) <= MaxInbox
    BY <1>0, <1>3, <2>1, BroadcastTypes DEF SendRequest, TypeOK
  <2>3. /\ loop' = [loop EXCEPT ![d] = "receive"]
        /\ to_send' = [to_send EXCEPT ![d] = None]
        /\ requests' = requests + 1 /\ hello_in' = hello_in /\ hellos' = hellos
    BY <1>3 DEF SendRequest, Polls
  <2>4. TypeOK'
    BY <1>0, <2>2, <2>3 DEF TypeOK
  <2>5. NothingWaits'
    BY <1>0, <2>3 DEF TypeOK, NothingWaits
  <2> QED BY <2>4, <2>5 DEF Inv
<1>4. ASSUME NEW d \in Node, NEW hearers, SendHello(d, hearers) PROVE Inv'
  <2> DEFINE message == [type |-> "Hello", channel_info |-> Announces[d]]
  <2>1. message \in Message
    <3>1. Knows[d] \subseteq Channel /\ Announces[d] \in Seq(Knows[d])
      OBVIOUS
    <3>2. Announces[d] \in Seq(Channel)
      BY <3>1
    <3> QED BY <3>2 DEF Message
  <2>2. inbox' \in [Node -> Seq(Message)] /\ \A e \in Node : Len(inbox'[e]) <= MaxInbox
    BY <1>0, <1>4, <2>1, BroadcastTypes DEF SendHello, TypeOK
  <2>3. /\ loop' = [loop EXCEPT ![d] = "receive"]
        /\ hello_in' = [hello_in EXCEPT ![d] = HelloDuration]
        /\ hellos' = hellos + 1 /\ to_send' = to_send /\ requests' = requests
        /\ to_send[d] = None
    BY <1>4 DEF SendHello, Polls
  <2>4. TypeOK'
    BY <1>0, <2>2, <2>3 DEF TypeOK
  <2>5. NothingWaits'
    BY <1>0, <2>3 DEF TypeOK, NothingWaits
  <2> QED BY <2>4, <2>5 DEF Inv
<1>5. ASSUME NEW d \in Node, SendNothing(d) PROVE Inv'
  BY <1>0, <1>5 DEF SendNothing, Polls, Inv, TypeOK, NothingWaits
<1>6. CASE Tick
  <2>1. \A d \in Node : hello_in[d] - 1 \in 0 .. HelloDuration
    BY <1>0, <1>6 DEF Tick, TypeOK
  <2>2. hello_in' \in [Node -> 0 .. HelloDuration]
    BY <1>6, <2>1 DEF Tick
  <2> QED BY <1>0, <1>6, <2>2 DEF Tick, Inv, TypeOK, NothingWaits
<1>7. CASE UNCHANGED vars
  BY <1>0, <1>7 DEF vars, Inv, TypeOK, NothingWaits
<1> QED BY <1>1, <1>2, <1>3, <1>4, <1>5, <1>6, <1>7 DEF Next, Loop

\* Inv is an invariant.
LEMMA Invariance == Init /\ [][Next]_vars => []Inv
  BY InitInv, StepInv, PTL

\* No queue of the radio holds more than it can, whatever is heard.
THEOREM TypeCorrect == Spec => []TypeOK
  BY Invariance, PTL DEF Spec, Inv

\* The firmware sends what process_message asks for before it receives again,
\* also where processing the hello failed.
THEOREM NothingWaitsAlways == Spec => []NothingWaits
  BY Invariance, PTL DEF Spec, Inv

-----------------------------------------------------------------------------
(* No storm: every request goes back to a hello that one device heard.     *)

\* What may still become a request: a channel that is waiting to be asked for,
\* and every hello in a queue.
Tokens ==
    {t \in Node \X Nat :
        \/ t[2] = 0 /\ to_send[t[1]] # None
        \/ t[2] \in 1 .. Len(inbox[t[1]]) /\ inbox[t[1]][t[2]].type = "Hello"}

\* Requests that were sent and requests that may follow: at most one of each
\* other device for each hello.
Accounted ==
    /\ IsFiniteSet(Tokens)
    /\ requests + Cardinality(Tokens) <= hellos * (Cardinality(Node) - 1)

\* At the start all is accounted for.
LEMMA InitAccounted == Init => Accounted
<1> SUFFICES ASSUME Init PROVE Accounted
  OBVIOUS
<1>1. Tokens = {}
  <2> SUFFICES ASSUME NEW t \in Tokens PROVE FALSE
    OBVIOUS
  <2>1. t[1] \in Node /\ ((t[2] = 0 /\ to_send[t[1]] # None) \/ t[2] \in 1 .. Len(inbox[t[1]]))
    BY DEF Tokens
  <2>2. to_send[t[1]] = None /\ inbox[t[1]] = <<>>
    BY <2>1 DEF Init
  <2> QED BY <2>1, <2>2
<1>2. Cardinality(Node) \in Nat
  BY NodeAssumption, FS_CardinalityType
<1> QED BY <1>1, <1>2, FS_EmptySet DEF Init, Accounted

\* What a device broadcasts is the last message of each queue it gets into.
LEMMA BroadcastTokens ==
  ASSUME TypeOK, NEW message, NEW hearers, Broadcast(message, hearers),
         NEW t \in Node \X Nat, t[2] \in 1 .. Len(inbox'[t[1]]), inbox'[t[1]][t[2]].type = "Hello"
  PROVE  \/ t[2] \in 1 .. Len(inbox[t[1]]) /\ inbox[t[1]][t[2]].type = "Hello"
         \/ t[1] \in hearers /\ t[2] = Len(inbox[t[1]]) + 1 /\ message.type = "Hello"
<1> DEFINE e == t[1]
           before == inbox[e]
<1>1. e \in Node /\ before \in Seq(Message) /\ Len(before) \in Nat
  BY DEF TypeOK
<1>2. CASE inbox'[e] = before
  BY <1>2
<1>3. CASE e \in hearers /\ inbox'[e] = Append(before, message)
  <2>1. /\ Len(inbox'[e]) = Len(before) + 1 /\ inbox'[e][Len(before) + 1] = message
        /\ \A i \in 1 .. Len(before) : inbox'[e][i] = before[i]
    BY <1>1, <1>3
  <2> HIDE DEF before
  <2>2. CASE t[2] = Len(before) + 1
    BY <1>3, <2>1, <2>2 DEF before
  <2>3. CASE t[2] # Len(before) + 1
    <3>1. t[2] \in 1 .. Len(before)
      BY <1>1, <2>1, <2>3
    <3> QED BY <2>1, <3>1 DEF before
  <2> QED BY <2>2, <2>3
<1> QED BY <1>1, <1>2, <1>3 DEF Broadcast

\* Hearing a message turns a hello into at most one channel to ask for.
LEMMA ReceiveAccounted ==
  ASSUME Inv, Accounted, NEW d \in Node, Receive(d)
  PROVE  Accounted'
<1> DEFINE message   == Head(inbox[d])
           processed == Processed(d, message)
           at(t)     == IF t[1] = d THEN <<d, t[2] - 1>> ELSE t
           moved     == {at(t) : t \in Tokens}
<1>0. TypeOK /\ NothingWaits
  BY DEF Inv
<1>1. /\ loop[d] = "receive" /\ inbox[d] # <<>>
      /\ to_send' = [to_send EXCEPT ![d] = processed.to_send]
      /\ inbox' = [inbox EXCEPT ![d] = Tail(@)]
      /\ hellos' = hellos /\ requests' = requests
  BY DEF Receive
<1>2. to_send[d] = None
  BY <1>0, <1>1 DEF NothingWaits
<1>3. inbox[d] \in Seq(Message) /\ message \in Message
  BY <1>0, <1>1 DEF TypeOK
<1>4. message.type # "Hello" => processed.to_send = None
  BY <1>2, <1>3, ProcessedKept
<1>5. message = inbox[d][1] /\ Len(inbox[d]) \in Nat \ {0}
  BY <1>1, <1>3
<1> HIDE DEF message, processed
<1>6. Tokens' \subseteq moved
  <2> SUFFICES ASSUME NEW t \in Tokens' PROVE \E u \in Tokens : t = at(u)
    OBVIOUS
  <2>1. /\ t \in Node \X Nat
        /\ \/ t[2] = 0 /\ to_send'[t[1]] # None
           \/ t[2] \in 1 .. Len(inbox'[t[1]]) /\ inbox'[t[1]][t[2]].type = "Hello"
    BY DEF Tokens
  <2>2. CASE t[1] # d
    <3>1. to_send'[t[1]] = to_send[t[1]] /\ inbox'[t[1]] = inbox[t[1]]
      BY <1>0, <1>1, <2>1, <2>2 DEF TypeOK
    <3>2. t \in Tokens
      BY <2>1, <3>1 DEF Tokens
    <3> QED BY <2>2, <3>2
  <2>3. CASE t[1] = d
    <3> DEFINE u == <<d, t[2] + 1>>
    <3>1. to_send'[d] = processed.to_send /\ inbox'[d] = Tail(inbox[d])
      BY <1>0, <1>1 DEF TypeOK
    <3>2. u \in Node \X Nat /\ u[1] = d /\ u[2] = t[2] + 1 /\ t = <<d, t[2]>> /\ t[2] \in Nat
      BY <2>1, <2>3
    <3>3. u[2] \in 1 .. Len(inbox[d]) /\ inbox[d][u[2]].type = "Hello"
      <4>1. CASE t[2] = 0 /\ to_send'[t[1]] # None
        BY <1>4, <1>5, <2>3, <3>1, <3>2, <4>1
      <4>2. CASE t[2] \in 1 .. Len(inbox'[t[1]]) /\ inbox'[t[1]][t[2]].type = "Hello"
        <5>1. Len(Tail(inbox[d])) = Len(inbox[d]) - 1
              /\ \A i \in 1 .. Len(inbox[d]) - 1 : Tail(inbox[d])[i] = inbox[d][i + 1]
          BY <1>3, <1>5
        <5> QED BY <1>5, <2>3, <3>1, <3>2, <4>2, <5>1
      <4> QED BY <2>1, <4>1, <4>2
    <3>4. u \in Tokens
      BY <3>2, <3>3 DEF Tokens
    <3>5. at(u) = t
      BY <3>2
    <3> QED BY <3>4, <3>5
  <2> QED BY <2>2, <2>3
<1>7. IsFiniteSet(moved) /\ Cardinality(moved) <= Cardinality(Tokens)
  <2> DEFINE f == [t \in Tokens |-> at(t)]
  <2>1. f \in Surjection(Tokens, moved)
    BY DEF Surjection
  <2> HIDE DEF f, moved
  <2> QED BY <2>1, FS_Surjection DEF Accounted
<1> HIDE DEF moved
<1>8. /\ IsFiniteSet(Tokens') /\ Cardinality(Tokens') <= Cardinality(moved)
      /\ Cardinality(Tokens') \in Nat /\ Cardinality(moved) \in Nat /\ Cardinality(Tokens) \in Nat
  BY <1>6, <1>7, FS_Subset, FS_CardinalityType DEF Accounted
<1>9. hellos \in Nat /\ requests \in Nat /\ Cardinality(Node) \in Nat
  BY <1>0, NodeAssumption, FS_CardinalityType DEF TypeOK
<1> DEFINE most == hellos * (Cardinality(Node) - 1)
<1>10. most \in Int /\ requests + Cardinality(Tokens) <= most
  BY <1>9 DEF Accounted
<1> HIDE DEF most
<1>11. requests + Cardinality(Tokens') <= most
  BY <1>7, <1>8, <1>9, <1>10
<1>12. hellos' * (Cardinality(Node) - 1) = most
  BY <1>1 DEF most
<1> QED BY <1>1, <1>8, <1>11, <1>12 DEF Accounted

\* A request takes the place of the channel that was waiting.
LEMMA RequestAccounted ==
  ASSUME Inv, Accounted, NEW d \in Node, NEW hearers, SendRequest(d, hearers)
  PROVE  Accounted'
<1> DEFINE waiting == <<d, 0>>
           message == [type |-> "SyncRequest", channel |-> to_send[d]]
<1>0. TypeOK
  BY DEF Inv
<1>1. /\ to_send[d] # None /\ to_send' = [to_send EXCEPT ![d] = None]
      /\ Broadcast(message, hearers)
      /\ requests' = requests + 1 /\ hellos' = hellos
  BY DEF SendRequest
<1>2. waiting \in Tokens
  BY <1>1 DEF Tokens
<1>3. Tokens' \subseteq Tokens \ {waiting}
  <2> SUFFICES ASSUME NEW t \in Tokens' PROVE t \in Tokens /\ t # waiting
    OBVIOUS
  <2>1. /\ t \in Node \X Nat
        /\ \/ t[2] = 0 /\ to_send'[t[1]] # None
           \/ t[2] \in 1 .. Len(inbox'[t[1]]) /\ inbox'[t[1]][t[2]].type = "Hello"
    BY DEF Tokens
  <2>2. CASE t[2] = 0 /\ to_send'[t[1]] # None
    <3>1. t[1] # d /\ to_send[t[1]] # None
      BY <1>0, <1>1, <2>1, <2>2 DEF TypeOK
    <3> QED BY <2>1, <2>2, <3>1 DEF Tokens
  <2>3. CASE t[2] \in 1 .. Len(inbox'[t[1]]) /\ inbox'[t[1]][t[2]].type = "Hello"
    <3>1. t[2] \in 1 .. Len(inbox[t[1]]) /\ inbox[t[1]][t[2]].type = "Hello"
      BY <1>0, <1>1, <2>1, <2>3, BroadcastTokens
    <3>2. t[2] # 0
      BY <2>3
    <3> QED BY <2>1, <3>1, <3>2 DEF Tokens
  <2> QED BY <2>1, <2>2, <2>3
<1>4. /\ IsFiniteSet(Tokens \ {waiting})
      /\ Cardinality(Tokens \ {waiting}) = Cardinality(Tokens) - 1
  BY <1>2, FS_RemoveElement DEF Accounted
<1>5. /\ IsFiniteSet(Tokens') /\ Cardinality(Tokens') <= Cardinality(Tokens) - 1
      /\ Cardinality(Tokens') \in Nat /\ Cardinality(Tokens) \in Nat
  BY <1>3, <1>4, FS_Subset, FS_CardinalityType DEF Accounted
<1>6. hellos \in Nat /\ requests \in Nat /\ Cardinality(Node) \in Nat
  BY <1>0, NodeAssumption, FS_CardinalityType DEF TypeOK
<1> DEFINE most == hellos * (Cardinality(Node) - 1)
<1>7. most \in Int /\ requests + Cardinality(Tokens) <= most
  BY <1>6 DEF Accounted
<1> HIDE DEF most
<1>8. requests + 1 + Cardinality(Tokens') <= most
  BY <1>5, <1>6, <1>7
<1>9. hellos' * (Cardinality(Node) - 1) = most
  BY <1>1 DEF most
<1> QED BY <1>1, <1>5, <1>8, <1>9 DEF Accounted

\* A hello is heard once by each other device at most.
LEMMA HelloAccounted ==
  ASSUME Inv, Accounted, NEW d \in Node, NEW hearers \in SUBSET (Node \ {d}), SendHello(d, hearers)
  PROVE  Accounted'
<1> DEFINE others == Node \ {d}
           heard  == {<<e, Len(inbox[e]) + 1>> : e \in others}
           message == [type |-> "Hello", channel_info |-> Announces[d]]
<1>0. TypeOK
  BY DEF Inv
<1>1. /\ to_send' = to_send /\ Broadcast(message, hearers)
      /\ requests' = requests /\ hellos' = hellos + 1
  BY DEF SendHello
<1>2. IsFiniteSet(others) /\ Cardinality(others) = Cardinality(Node) - 1
  BY NodeAssumption, FS_RemoveElement
<1>3. Tokens' \subseteq Tokens \cup heard
  <2> SUFFICES ASSUME NEW t \in Tokens' PROVE t \in Tokens \/ t \in heard
    OBVIOUS
  <2>1. /\ t \in Node \X Nat
        /\ \/ t[2] = 0 /\ to_send'[t[1]] # None
           \/ t[2] \in 1 .. Len(inbox'[t[1]]) /\ inbox'[t[1]][t[2]].type = "Hello"
    BY DEF Tokens
  <2>2. CASE t[2] = 0 /\ to_send'[t[1]] # None
    BY <1>1, <2>1, <2>2 DEF Tokens
  <2>3. CASE t[2] \in 1 .. Len(inbox'[t[1]]) /\ inbox'[t[1]][t[2]].type = "Hello"
    <3>1. \/ t[2] \in 1 .. Len(inbox[t[1]]) /\ inbox[t[1]][t[2]].type = "Hello"
          \/ t[1] \in hearers /\ t[2] = Len(inbox[t[1]]) + 1
      BY <1>0, <1>1, <2>1, <2>3, BroadcastTokens
    <3> QED BY <2>1, <3>1 DEF Tokens
  <2> QED BY <2>1, <2>2, <2>3
<1>4. IsFiniteSet(heard) /\ Cardinality(heard) <= Cardinality(others)
  <2> DEFINE f == [e \in others |-> <<e, Len(inbox[e]) + 1>>]
  <2>1. f \in Surjection(others, heard)
    BY DEF Surjection
  <2> HIDE DEF f, heard, others
  <2> QED BY <1>2, <2>1, FS_Surjection
<1> HIDE DEF heard
<1>5. /\ IsFiniteSet(Tokens \cup heard)
      /\ Cardinality(Tokens \cup heard) = Cardinality(Tokens) + Cardinality(heard)
                                          - Cardinality(Tokens \cap heard)
  BY <1>4, FS_Union DEF Accounted
<1>6. Cardinality(Tokens \cap heard) \in Nat
  <2>1. Tokens \cap heard \in SUBSET heard
    OBVIOUS
  <2>2. IsFiniteSet(Tokens \cap heard)
    BY <1>4, <2>1, FS_Subset
  <2> QED BY <2>2, FS_CardinalityType
<1>7. /\ IsFiniteSet(Tokens') /\ Cardinality(Tokens') <= Cardinality(Tokens \cup heard)
      /\ Cardinality(Tokens') \in Nat /\ Cardinality(Tokens) \in Nat /\ Cardinality(heard) \in Nat
  BY <1>3, <1>4, <1>5, FS_Subset, FS_CardinalityType DEF Accounted
<1>8. hellos \in Nat /\ requests \in Nat /\ Cardinality(Node) \in Nat
  BY <1>0, NodeAssumption, FS_CardinalityType DEF TypeOK
<1> DEFINE most == hellos * (Cardinality(Node) - 1)
<1>9. most \in Int /\ requests + Cardinality(Tokens) <= most
  BY <1>8 DEF Accounted
<1>10. (hellos + 1) * (Cardinality(Node) - 1) = most + (Cardinality(Node) - 1)
  <2>1. \A h \in Nat, n \in Int : (h + 1) * n = h * n + n
    OBVIOUS
  <2> QED BY <1>8, <2>1
<1> HIDE DEF most
<1>11. requests + Cardinality(Tokens') <= most + (Cardinality(Node) - 1)
  BY <1>2, <1>4, <1>5, <1>6, <1>7, <1>8, <1>9
<1> QED BY <1>1, <1>7, <1>10, <1>11 DEF Accounted

\* Every step accounts for what it sends.
LEMMA AccountedStep == Inv /\ Accounted /\ [Next]_vars => Accounted'
<1> SUFFICES ASSUME Inv, Accounted, [Next]_vars PROVE Accounted'
  OBVIOUS
<1>1. CASE \E d \in Node : Receive(d)
  BY <1>1, ReceiveAccounted
<1>2. CASE \E d \in Node : ReceiveNothing(d) \/ SendNothing(d)
  BY <1>2 DEF ReceiveNothing, SendNothing, Accounted, Tokens
<1>3. CASE \E d \in Node : \E hearers \in SUBSET (Node \ {d}) : SendRequest(d, hearers)
  BY <1>3, RequestAccounted
<1>4. CASE \E d \in Node : \E hearers \in SUBSET (Node \ {d}) : SendHello(d, hearers)
  BY <1>4, HelloAccounted
<1>5. CASE Tick
  <2>1. \A d \in Node : inbox'[d] = <<>> /\ to_send'[d] = None
    BY <1>5 DEF Tick
  <2>2. Tokens' = {}
    <3> SUFFICES ASSUME NEW t \in Tokens' PROVE FALSE
      OBVIOUS
    <3>1. /\ t[1] \in Node
          /\ (t[2] = 0 /\ to_send'[t[1]] # None) \/ t[2] \in 1 .. Len(inbox'[t[1]])
      BY DEF Tokens
    <3> QED BY <2>1, <3>1
  <2>3. hellos' = 0 /\ requests' = 0 /\ Cardinality(Node) \in Nat
    BY <1>5, NodeAssumption, FS_CardinalityType DEF Tick
  <2> QED BY <2>2, <2>3, FS_EmptySet DEF Accounted
<1>6. CASE UNCHANGED vars
  BY <1>6 DEF vars, Accounted, Tokens
<1> QED BY <1>1, <1>2, <1>3, <1>4, <1>5, <1>6 DEF Next, Loop

\* However many devices hear each other, the requests between two ticks of time
\* stay below what the hellos of that time account for.
THEOREM NoStormAlways == Spec => []NoStorm
<1>1. Init => Inv /\ Accounted
  BY InitInv, InitAccounted
<1>2. (Inv /\ Accounted) /\ [Next]_vars => (Inv /\ Accounted)'
  BY StepInv, AccountedStep
<1>3. Inv /\ Accounted => NoStorm
  <2> SUFFICES ASSUME Inv, Accounted PROVE NoStorm
    OBVIOUS
  <2>1. hellos \in Nat /\ requests \in Nat /\ Cardinality(Node) \in Nat /\ Cardinality(Tokens) \in Nat
    BY NodeAssumption, FS_CardinalityType DEF Inv, TypeOK, Accounted
  <2> DEFINE most == hellos * (Cardinality(Node) - 1)
  <2>2. most \in Int /\ requests + Cardinality(Tokens) <= most
    BY <2>1 DEF Accounted
  <2> HIDE DEF most
  <2>3. requests <= most
    BY <2>1, <2>2
  <2> QED BY <2>3 DEF NoStorm, most
<1> QED BY <1>1, <1>2, <1>3, PTL DEF Spec
=============================================================================
