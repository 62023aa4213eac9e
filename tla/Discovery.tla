------------------------------ MODULE Discovery ------------------------------
(***************************************************************************)
(* How devices find out about each other: the hellos and requests of       *)
(* WireState (poll and process_message in protocol/src/wire.rs), driven by *)
(* the network_loop of the firmware.                                       *)
(*                                                                         *)
(* Messages are whole here: Wire shows that a device hears a part of what  *)
(* each neighbour sends, in order.  A message that is lost, or that comes  *)
(* when the queue of the radio is full, is not heard.  The loop never      *)
(* waits, and five seconds are long to it: time passes when all devices    *)
(* have done what there is to do.                                          *)
(***************************************************************************)
EXTENDS Integers, FiniteSets, SequencesExt

CONSTANTS
    Node,
    Channel,
    Knows,          \* Knows[d]: the channels the client of d has
    Announces,      \* Announces[d]: the channel_ids d gives to poll, in order
    HelloDuration,  \* hello_duration, in ticks
    MaxInbox,       \* what the queue of the radio holds
    None

ASSUME NodeAssumption == IsFiniteSet(Node)
ASSUME ChannelsAssumption ==
    /\ Knows \in [Node -> SUBSET Channel]
    /\ \A d \in Node : Announces[d] \in Seq(Knows[d])
ASSUME HelloAssumption == HelloDuration \in Nat \ {0}
ASSUME InboxAssumption == MaxInbox \in Nat
ASSUME NoneAssumption == None \notin Channel

VARIABLES
    loop,           \* loop[d]: what network_loop does next
    inbox,          \* inbox[d]: what the radio of d has heard
    to_send,        \* to_send[d]: the channel of the SyncRequest to send, or None
    hello_in,       \* hello_in[d]: ticks until next_hello is due
    hellos,         \* hellos, and
    requests        \* requests sent since time passed last

vars == <<loop, inbox, to_send, hello_in, hellos, requests>>

Message == [type: {"Hello"}, channel_info: Seq(Channel)]
           \cup [type: {"SyncRequest"}, channel: Channel]

\* The state is of its kind, and no queue holds more than it can.
TypeOK ==
    /\ loop \in [Node -> {"receive", "poll"}]
    /\ inbox \in [Node -> Seq(Message)]
    /\ \A d \in Node : Len(inbox[d]) <= MaxInbox
    /\ to_send \in [Node -> Channel \cup {None}]
    /\ hello_in \in [Node -> 0 .. HelloDuration]
    /\ hellos \in Nat /\ requests \in Nat

\* The devices were switched on at different times.
Init ==
    /\ loop = [d \in Node |-> "receive"]
    /\ inbox = [d \in Node |-> <<>>]
    /\ to_send = [d \in Node |-> None]
    /\ hello_in \in [Node -> 0 .. HelloDuration]
    /\ hellos = 0 /\ requests = 0

-----------------------------------------------------------------------------
(* process_message                                                         *)

\* Mutant of AskFor: to_send is set before the request is made.
AskForEarly(d, progress, channel) ==
    IF ~progress.ok \/ progress.to_send # None
    THEN progress
    ELSE [to_send |-> channel, ok |-> channel \in Knows[d]]

\* One turn of the loop over channel_info: the first channel is asked for, and
\* the request for a channel the client lacks cannot be made, which ends it.
AskFor(d, progress, channel) ==
    CASE ~progress.ok \/ progress.to_send # None -> progress
      [] progress.ok /\ progress.to_send = None /\ channel \in Knows[d]
                                                 -> [progress EXCEPT !.to_send = channel]
      [] OTHER                                   -> [progress EXCEPT !.ok = FALSE]

\* Mutant of Processed: a request is answered with a request.
ProcessedAnswering(d, message) ==
    LET before == [to_send |-> to_send[d], ok |-> TRUE] IN
    IF message.type = "Hello"
    THEN FoldLeft(LAMBDA progress, channel : AskFor(d, progress, channel),
                  before, message.channel_info)
    ELSE AskFor(d, before, message.channel)

Processed(d, message) ==
    LET before == [to_send |-> to_send[d], ok |-> TRUE] IN
    IF message.type = "Hello"
    THEN FoldLeft(LAMBDA progress, channel : AskFor(d, progress, channel),
                  before, message.channel_info)
    ELSE before

\* receive_packet of the packet that completes a message.  network_loop goes
\* on to poll unless it failed.
Receive(d) ==
    /\ loop[d] = "receive"
    /\ inbox[d] # <<>>
    /\ LET processed == Processed(d, Head(inbox[d])) IN
       /\ to_send' = [to_send EXCEPT ![d] = processed.to_send]
       /\ loop' = [loop EXCEPT ![d] = IF processed.ok THEN "poll" ELSE "receive"]
    /\ inbox' = [inbox EXCEPT ![d] = Tail(@)]
    /\ UNCHANGED <<hello_in, hellos, requests>>

ReceiveNothing(d) ==
    /\ loop[d] = "receive"
    /\ inbox[d] = <<>>
    /\ loop' = [loop EXCEPT ![d] = "poll"]
    /\ UNCHANGED <<inbox, to_send, hello_in, hellos, requests>>

-----------------------------------------------------------------------------
(* poll, and what network_loop does with its result                        *)

\* Mutant of Broadcast: the queue of the radio takes any number of messages.
BroadcastUnbounded(message, hearers) ==
    inbox' = [e \in Node |-> IF e \in hearers THEN Append(inbox[e], message) ELSE inbox[e]]

Broadcast(message, hearers) ==
    inbox' = [e \in Node |->
                 IF e \in hearers /\ Len(inbox[e]) < MaxInbox
                 THEN Append(inbox[e], message) ELSE inbox[e]]

Polls(d) ==
    /\ loop[d] = "poll"
    /\ loop' = [loop EXCEPT ![d] = "receive"]

\* Mutant of SendRequest: the next hello is put off.
SendRequestPostponing(d, hearers) ==
    /\ Polls(d)
    /\ to_send[d] # None
    /\ to_send' = [to_send EXCEPT ![d] = None]
    /\ Broadcast([type |-> "SyncRequest", channel |-> to_send[d]], hearers)
    /\ requests' = requests + 1
    /\ hello_in' = [hello_in EXCEPT ![d] = HelloDuration]
    /\ UNCHANGED hellos

SendRequest(d, hearers) ==
    /\ Polls(d)
    /\ to_send[d] # None
    /\ to_send' = [to_send EXCEPT ![d] = None]
    /\ Broadcast([type |-> "SyncRequest", channel |-> to_send[d]], hearers)
    /\ requests' = requests + 1
    /\ UNCHANGED <<hello_in, hellos>>

\* Mutant of SendHello: a hello that is due goes before what is to be sent, which
\* has been taken by then.
SendHelloInstead(d, hearers) ==
    /\ Polls(d)
    /\ hello_in[d] = 0
    /\ hello_in' = [hello_in EXCEPT ![d] = HelloDuration]
    /\ Broadcast([type |-> "Hello", channel_info |-> Announces[d]], hearers)
    /\ hellos' = hellos + 1
    /\ to_send' = [to_send EXCEPT ![d] = None]
    /\ UNCHANGED requests

SendHello(d, hearers) ==
    /\ Polls(d)
    /\ to_send[d] = None
    /\ hello_in[d] = 0
    /\ hello_in' = [hello_in EXCEPT ![d] = HelloDuration]
    /\ Broadcast([type |-> "Hello", channel_info |-> Announces[d]], hearers)
    /\ hellos' = hellos + 1
    /\ UNCHANGED <<to_send, requests>>

SendNothing(d) ==
    /\ Polls(d)
    /\ to_send[d] = None
    /\ hello_in[d] > 0
    /\ UNCHANGED <<inbox, to_send, hello_in, hellos, requests>>

Tick ==
    /\ \A d \in Node : inbox[d] = <<>> /\ to_send[d] = None /\ hello_in[d] > 0
    /\ hello_in' = [d \in Node |-> hello_in[d] - 1]
    /\ hellos' = 0 /\ requests' = 0
    /\ UNCHANGED <<loop, inbox, to_send>>

Loop(d) ==
    \/ Receive(d)
    \/ ReceiveNothing(d)
    \/ \E hearers \in SUBSET (Node \ {d}) : SendRequest(d, hearers) \/ SendHello(d, hearers)
    \/ SendNothing(d)

Next == Tick \/ \E d \in Node : Loop(d)

HelloHeard(d, e) ==
    \E hearers \in SUBSET (Node \ {d}) :
        e \in hearers /\ Len(inbox[e]) < MaxInbox /\ SendHello(d, hearers)

\* Every loop goes on, time passes, and the radio does not lose every hello of
\* one device to another.
Fairness ==
    /\ \A d \in Node : WF_vars(Loop(d))
    /\ WF_vars(Tick)
    /\ \A d, e \in Node : d # e => SF_vars(HelloHeard(d, e))

Spec == Init /\ [][Next]_vars /\ Fairness

-----------------------------------------------------------------------------

\* A request that is to be sent is sent before anything more is received, so no
\* hello is passed over because of an older one.
NothingWaits == \A d \in Node : loop[d] = "receive" => to_send[d] = None

\* Messages never breed: what is sent between two ticks of time is at most one
\* request of each other device for each hello.
NoStorm == requests <= hellos * (Cardinality(Node) - 1)

\* Every device keeps announcing itself, whatever it hears: hellos of channels
\* it lacks, or requests it has to send first, hold its own up but for a time.
HellosGoOn ==
    \A d \in Node : []<><<\E hearers \in SUBSET Node : SendHello(d, hearers)>>_vars

Requests(d, c) ==
    to_send[d] = c /\ \E hearers \in SUBSET Node : SendRequest(d, hearers)

\* A device keeps sending requests of every channel it shares with a neighbour
\* that announces that channel first, whatever it hears from others: a channel
\* it lacks, or another one it has, never keeps it from that one for good.
EveryChannelAsked ==
    \A d \in Node : \A c \in Knows[d] :
        (\E e \in Node \ {d} : Announces[e] # <<>> /\ Head(Announces[e]) = c)
            => []<><<Requests(d, c)>>_vars
=============================================================================
