-------------------------------- MODULE Wire --------------------------------
(***************************************************************************)
(* The packets of several senders as one device receives them              *)
(* (protocol/src/wire.rs and wire/packets.rs).  A WireWriter cuts a        *)
(* message into packets, the radio loses some, and receive_packet puts     *)
(* the message together again with one WireReader for each sender.         *)
(*                                                                         *)
(* A message is named by its place in sent[a].  The RaptorQ code is        *)
(* external: a decoder needs as many different symbols as the message has  *)
(* source symbols, is certain to finish when it has all source symbols,    *)
(* and gives garbage when the symbols are not of one message.  The radio   *)
(* keeps the order of one sender, so a packet is received when it is sent  *)
(* or never.                                                               *)
(***************************************************************************)
EXTENDS Integers, FiniteSets, Sequences, Functions

CONSTANTS
    Address,        \* the senders in reach
    MaxNodes,       \* the capacity of receivers
    Length,         \* the lengths of messages, in bytes
    SymbolSize,     \* bytes of a message in one packet
    RepairCount,    \* packets sent beyond the source symbols
    NumberSpace,    \* message numbers wrap here: 2^16
    None,
    Garbage,        \* the result of a decoder that was given two messages
    MaxMessages,    \* bound: messages sent
    MaxRestarts     \* bound: restarts of senders

ASSUME SizesAssumption ==
    /\ MaxNodes \in Nat \ {0} /\ SymbolSize \in Nat \ {0} /\ NumberSpace \in Nat \ {0}
    /\ RepairCount \in Nat
    /\ Length \subseteq Nat \ {0}
ASSUME NoneAssumption == None \notin Nat /\ Garbage \notin Nat \cup {None}
ASSUME BoundsAssumption == MaxMessages \in Nat /\ MaxRestarts \in Nat

VARIABLES
    sent,           \* sent[a]: number and length of every message a sent
    next_number,    \* next_message_number of each sender
    writer,         \* writer[a]: packets of the last message sent so far, or None
    restarts,
    receivers,      \* the Receiver of each sender heard
    heard,          \* heard[a]: the symbols of the last message that were received
    delivered,      \* delivered[a]: the messages given to process_message
    panicked        \* the device could not parse a message

vars == <<sent, next_number, writer, restarts, receivers, heard, delivered, panicked>>

SourceCount(length) == (length + SymbolSize - 1) \div SymbolSize

PacketCount(length) == SourceCount(length) + RepairCount

Source(length) == 0 .. SourceCount(length) - 1

Symbol(length) == 0 .. PacketCount(length) - 1

\* The map f with x at y (the insert of a map).
With(f, x, y) == [k \in DOMAIN f \cup {x} |-> IF k = x THEN y ELSE f[k]]

Header == [number: 0 .. NumberSpace - 1, length: Length]

\* None is told from every reader.
ASSUME ReaderAssumption ==
    \A length \in Length : \A symbols \in SUBSET Symbol(length) :
        None \notin [number: 0 .. NumberSpace - 1, length: Length, symbols: [symbols -> Nat]]

\* The decoder keeps the first symbol of each index: symbols[k] is the message
\* it is from.
IsReader(reader) ==
    /\ [number |-> reader.number, length |-> reader.length] \in Header
    /\ DOMAIN reader.symbols \subseteq Symbol(reader.length)
    /\ \A k \in DOMAIN reader.symbols : reader.symbols[k] \in Nat

\* The table of receivers is within its capacity, and a reader holds symbols a
\* message of its length has.
TypeOK ==
    /\ sent \in [Address -> Seq(Header)]
    /\ next_number \in [Address -> 0 .. NumberSpace - 1]
    /\ \A a \in Address : writer[a] # None => writer[a] \in Nat
    /\ restarts \in Nat
    /\ DOMAIN receivers \subseteq Address
    /\ Cardinality(DOMAIN receivers) <= MaxNodes
    /\ \A a \in DOMAIN receivers :
          /\ receivers[a].last_completed \in (0 .. NumberSpace - 1) \cup {None}
          /\ receivers[a].reader # None => IsReader(receivers[a].reader)
    /\ \A a \in Address : heard[a] \subseteq Nat
    /\ delivered \in [Address -> Seq(Nat)]
    /\ panicked \in BOOLEAN

Init ==
    /\ sent = [a \in Address |-> <<>>]
    /\ next_number = [a \in Address |-> 0]
    /\ writer = [a \in Address |-> None]
    /\ restarts = 0
    /\ receivers = [a \in {} |-> None]
    /\ heard = [a \in Address |-> {}]
    /\ delivered = [a \in Address |-> <<>>]
    /\ panicked = FALSE

-----------------------------------------------------------------------------
(* WireReader                                                              *)

NewReader(packet) ==
    [number |-> packet.number, length |-> packet.length, symbols |-> [k \in {} |-> 0]]

\* Mutant of WrongBlock: the length is not compared.
WrongNumber(reader, packet) == packet.number # reader.number

\* A packet of another message than the reader was made for.
WrongBlock(reader, packet) ==
    packet.number # reader.number \/ packet.length # reader.length

Decoded(reader, packet) ==
    IF packet.symbol \in DOMAIN reader.symbols
    THEN reader
    ELSE [reader EXCEPT !.symbols = With(@, packet.symbol, packet.message)]

\* Mutant of ReaderAfter: the new reader does not get the packet it was made for.
ReaderAfterForgets(reader, packet) ==
    IF reader # None /\ WrongBlock(reader, packet)
    THEN NewReader(packet)
    ELSE Decoded(IF reader = None THEN NewReader(packet) ELSE reader, packet)

\* The reader after a packet: a new one for a message that is not the one at
\* hand, whatever that one lacked.
ReaderAfter(reader, packet) ==
    IF reader = None \/ WrongBlock(reader, packet)
    THEN Decoded(NewReader(packet), packet)
    ELSE Decoded(reader, packet)

\* What the decoder may return: a message, or None while it needs more symbols.
Outcome(reader) ==
    LET messages == Range(reader.symbols)
        result   == IF Cardinality(messages) = 1 THEN messages ELSE {Garbage}
    IN  IF Cardinality(DOMAIN reader.symbols) < SourceCount(reader.length) THEN {None}
        ELSE IF Source(reader.length) \subseteq DOMAIN reader.symbols THEN result
        ELSE result \cup {None}

-----------------------------------------------------------------------------
(* receive_packet                                                          *)

NewReceiver == [last_completed |-> None, reader |-> None]

ReceiverOf(a) == IF a \in DOMAIN receivers THEN receivers[a] ELSE NewReceiver

\* Mutant of HasReceiver: the table takes any number of senders.
HasReceiverAlways(a) == a \in Address

\* A sender that is not in the table when it is full is not heard.
HasReceiver(a) ==
    a \in DOMAIN receivers \/ Cardinality(DOMAIN receivers) < MaxNodes

Ignored(packet) ==
    \/ ~HasReceiver(packet.from)
    \/ ReceiverOf(packet.from).last_completed = packet.number

\* Mutant of Completed: last_completed is not set.
CompletedUnmarked(receiver, packet) == receiver

Completed(receiver, packet) == [receiver EXCEPT !.last_completed = packet.number]

Accept(packet) ==
    LET a        == packet.from
        receiver == [ReceiverOf(a) EXCEPT !.reader = ReaderAfter(@, packet)]
    IN  \E outcome \in Outcome(receiver.reader) :
            /\ receivers' = With(receivers, a, IF outcome = None
                                               THEN receiver
                                               ELSE Completed(receiver, packet))
            /\ delivered' = IF outcome \in {None, Garbage}
                            THEN delivered
                            ELSE [delivered EXCEPT ![a] = Append(@, outcome)]
            /\ panicked' = (outcome = Garbage)

ReceivePacket(packet) ==
    \/ Ignored(packet) /\ UNCHANGED <<receivers, delivered, panicked>>
    \/ ~Ignored(packet) /\ Accept(packet)

-----------------------------------------------------------------------------
(* The senders: poll makes a WireWriter, network_loop sends what it has.   *)

LastSent(a) == sent[a][Len(sent[a])]

MakeWriter(a, length) ==
    /\ ~panicked
    /\ writer[a] = None
    /\ FoldFunction(LAMBDA s, total : Len(s) + total, 0, sent) < MaxMessages
    /\ sent' = [sent EXCEPT ![a] = Append(@, [number |-> next_number[a], length |-> length])]
    /\ next_number' = [next_number EXCEPT ![a] = (@ + 1) % NumberSpace]
    /\ writer' = [writer EXCEPT ![a] = 0]
    /\ heard' = [heard EXCEPT ![a] = {}]
    /\ UNCHANGED <<restarts, receivers, delivered, panicked>>

\* WireWriter::next: last_sent counts up first, so symbol 0 comes last.
PacketOf(a, last_sent) ==
    [from |-> a, number |-> LastSent(a).number, length |-> LastSent(a).length,
     symbol |-> last_sent % PacketCount(LastSent(a).length), message |-> Len(sent[a])]

Transmit(a, received) ==
    LET packet == PacketOf(a, writer[a] + 1) IN
    /\ ~panicked
    /\ writer[a] # None
    /\ writer' = [writer EXCEPT
                     ![a] = IF @ + 1 = PacketCount(packet.length) THEN None ELSE @ + 1]
    /\ IF received
       THEN /\ ReceivePacket(packet)
            /\ heard' = [heard EXCEPT ![a] = @ \cup {packet.symbol}]
       ELSE UNCHANGED <<receivers, delivered, panicked, heard>>
    /\ UNCHANGED <<sent, next_number, restarts>>

\* WireState::new: a sender starts again, in the middle of a message or not.
Restart(a) ==
    /\ ~panicked
    /\ restarts < MaxRestarts
    /\ sent[a] # <<>>
    /\ restarts' = restarts + 1
    /\ next_number' = [next_number EXCEPT ![a] = 0]
    /\ writer' = [writer EXCEPT ![a] = None]
    /\ UNCHANGED <<sent, receivers, heard, delivered, panicked>>

Next ==
    \E a \in Address :
        \/ \E length \in Length : MakeWriter(a, length)
        \/ \E received \in BOOLEAN : Transmit(a, received)
        \/ Restart(a)

Spec == Init /\ [][Next]_vars

-----------------------------------------------------------------------------

Link == INSTANCE Link WITH count <- [a \in Address |-> Len(sent[a])]

\* Packets that are lost, numbers that wrap and senders that restart make
\* messages go missing, but none arrives twice or after a later one.
ImplementsLink == Link!Spec

\* A message of which all source symbols were received has been delivered, or
\* it has the number of the last message that was: what a packet lost before,
\* of this message or of another, left in the reader never gets in its way.
HeardIsDelivered ==
    \A a \in DOMAIN receivers :
        LET i == Len(sent[a]) IN
        Source(LastSent(a).length) \subseteq heard[a] =>
            \/ panicked
            \/ \E k \in DOMAIN delivered[a] : delivered[a][k] = i
            \/ /\ delivered[a] # <<>>
               /\ sent[a][Link!Last(delivered[a])].number = LastSent(a).number

\* Symbols of two messages meet in a decoder, and the device panics over the
\* result, only where a sender has used a number again for a message of the
\* same length.
OnlyTwinsMix ==
    /\ \A a \in DOMAIN receivers : receivers[a].reader # None =>
           \A m \in Range(receivers[a].reader.symbols) :
               sent[a][m] = [number |-> receivers[a].reader.number,
                             length |-> receivers[a].reader.length]
    /\ panicked =>
           \E a \in Address : \E i, j \in DOMAIN sent[a] : i < j /\ sent[a][i] = sent[a][j]
=============================================================================
