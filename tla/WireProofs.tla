----------------------------- MODULE WireProofs -----------------------------
(***************************************************************************)
(* Wire implements Link for every set of senders, all lengths, any space   *)
(* of message numbers and any number of restarts: packets that are lost,   *)
(* numbers that are used again and decoders that mix messages can only     *)
(* make messages go missing.  So messages come in order, as Link promises. *)
(* And of the readers: a message all of whose source symbols were heard    *)
(* arrives or has the number that is ignored, and a decoder mixes only     *)
(* messages of the same number and length, the only ones to make it panic. *)
(***************************************************************************)
EXTENDS Wire, FiniteSetTheorems, TLAPS

Number == 0 .. NumberSpace - 1

\* The fields of a reader, and of a receiver.
ReaderShape(reader) ==
    /\ reader = [number |-> reader.number, length |-> reader.length,
                 symbols |-> reader.symbols]
    /\ reader.symbols = [k \in DOMAIN reader.symbols |-> reader.symbols[k]]

ReceiverShape(receiver) ==
    /\ receiver = [last_completed |-> receiver.last_completed, reader |-> receiver.reader]
    /\ receiver.reader # None => ReaderShape(receiver.reader)

Shapes ==
    /\ sent \in [Address -> Seq(Header)]
    /\ next_number \in [Address -> Number]
    /\ DOMAIN writer = Address
    /\ DOMAIN receivers \subseteq Address
    /\ receivers = [a \in DOMAIN receivers |-> receivers[a]]
    /\ \A a \in DOMAIN receivers : ReceiverShape(receivers[a])
    /\ delivered \in [Address -> Seq(Nat)]

\* While a message is being sent there is one, and if it was delivered the
\* receiver takes no more packets of its number.
DeliveredIsMarked ==
    \A a \in Address : writer[a] # None =>
        /\ sent[a] # <<>>
        /\ Link!Last(delivered[a]) = Len(sent[a]) =>
              /\ a \in DOMAIN receivers
              /\ receivers[a].last_completed = LastSent(a).number

\* A symbol is of a message that was sent, and unless the reader has done its
\* work of one that is newer than all that were delivered.
SymbolsAreNew ==
    \A a \in DOMAIN receivers :
        LET reader == receivers[a].reader IN
        reader # None =>
            \A k \in DOMAIN reader.symbols :
                /\ reader.symbols[k] \in 1 .. Len(sent[a])
                /\ \/ receivers[a].last_completed = reader.number
                   \/ Link!Last(delivered[a]) < reader.symbols[k]

DeliveredWasSent == \A a \in Address : Link!Last(delivered[a]) \in 0 .. Len(sent[a])

IInv == Shapes /\ DeliveredIsMarked /\ SymbolsAreNew /\ DeliveredWasSent

-----------------------------------------------------------------------------

\* A reader for the message number of a packet, with symbols of its message
\* besides those the old reader had for the same number.
ReadsOn(reader, packet, after) ==
    /\ ReaderShape(after)
    /\ after.number = packet.number
    /\ \A k \in DOMAIN after.symbols :
          \/ after.symbols[k] = packet.message
          \/ /\ reader # None
             /\ reader.number = packet.number
             /\ k \in DOMAIN reader.symbols
             /\ after.symbols[k] = reader.symbols[k]

\* Such a reader is what a packet leaves behind.
LEMMA ReaderAfterPacket ==
  ASSUME NEW reader, reader # None => ReaderShape(reader), NEW packet
  PROVE  ReadsOn(reader, packet, ReaderAfter(reader, packet))
<1> DEFINE after == ReaderAfter(reader, packet)
<1> SUFFICES ReadsOn(reader, packet, after)
  OBVIOUS
<1>1. CASE reader = None \/ WrongBlock(reader, packet)
  <2>1. after = Decoded(NewReader(packet), packet)
    BY <1>1 DEF ReaderAfter
  <2>2. after = [number |-> packet.number, length |-> packet.length,
                 symbols |-> With([k \in {} |-> 0], packet.symbol, packet.message)]
    BY <2>1 DEF Decoded, NewReader
  <2>3. /\ DOMAIN after.symbols = {packet.symbol}
        /\ after.symbols[packet.symbol] = packet.message
        /\ after.symbols = [k \in DOMAIN after.symbols |-> after.symbols[k]]
    BY <2>2 DEF With
  <2> HIDE DEF after
  <2> QED BY <2>2, <2>3 DEF ReadsOn, ReaderShape
<1>2. CASE reader # None /\ ~WrongBlock(reader, packet)
  <2>1. after = Decoded(reader, packet) /\ reader.number = packet.number /\ ReaderShape(reader)
    BY <1>2 DEF ReaderAfter, WrongBlock
  <2>2. CASE packet.symbol \in DOMAIN reader.symbols
    BY <2>1, <2>2, <1>2 DEF Decoded, ReadsOn
  <2>3. CASE packet.symbol \notin DOMAIN reader.symbols
    <3>1. after = [number |-> reader.number, length |-> reader.length,
                   symbols |-> With(reader.symbols, packet.symbol, packet.message)]
      BY <2>1, <2>3 DEF Decoded, ReaderShape
    <3>2. /\ DOMAIN after.symbols = DOMAIN reader.symbols \cup {packet.symbol}
          /\ after.symbols[packet.symbol] = packet.message
          /\ \A k \in DOMAIN reader.symbols : after.symbols[k] = reader.symbols[k]
          /\ after.symbols = [k \in DOMAIN after.symbols |-> after.symbols[k]]
      BY <3>1, <2>3 DEF With
    <3> HIDE DEF after
    <3> QED BY <3>1, <3>2, <2>1, <1>2 DEF ReadsOn, ReaderShape
  <2> QED BY <2>2, <2>3
<1> QED BY <1>1, <1>2

\* A decoder returns nothing, garbage, or the message of a symbol it has.
LEMMA OutcomeOfSymbols ==
  ASSUME NEW reader, NEW outcome \in Outcome(reader), outcome \notin {None, Garbage}
  PROVE  \E k \in DOMAIN reader.symbols : outcome = reader.symbols[k]
<1>1. outcome \in Range(reader.symbols)
  BY DEF Outcome
<1> QED BY <1>1 DEF Range

\* Nothing is received at first.
LEMMA InitIInv == Init => IInv
  BY SizesAssumption DEF Init, IInv, Shapes, DeliveredIsMarked, SymbolsAreNew, DeliveredWasSent, Header,
         Number, Link!Last

\* A new message is newer than everything that was delivered.
LEMMA MakeWriterIInv ==
  ASSUME NEW a \in Address, NEW length \in Length, IInv, MakeWriter(a, length)
  PROVE  /\ IInv'
         /\ Link!Send(a)
<1> DEFINE message == [number |-> next_number[a], length |-> length]
<1>1. /\ sent[a] \in Seq(Header) /\ message \in Header
      /\ sent'[a] = Append(sent[a], message)
      /\ \A b \in Address : b # a => sent'[b] = sent[b]
      /\ sent' \in [Address -> Seq(Header)]
  <2>1. sent \in [Address -> Seq(Header)]
    BY DEF IInv, Shapes
  <2>2. message \in Header
    BY DEF IInv, Shapes, Header, Number
  <2>3. sent' = [sent EXCEPT ![a] = Append(@, message)]
    BY DEF MakeWriter
  <2> HIDE DEF message
  <2> QED BY <2>1, <2>2, <2>3
<1>2. /\ Len(sent'[a]) = Len(sent[a]) + 1
      /\ \A b \in Address : Len(sent[b]) \in Nat /\ Len(sent'[b]) \in Nat
      /\ \A b \in Address : Len(sent[b]) <= Len(sent'[b])
  <2> HIDE DEF message
  <2>1. Len(sent[a]) \in Nat /\ Len(sent'[a]) = Len(sent[a]) + 1
    BY <1>1
  <2>2. \A b \in Address : sent[b] \in Seq(Header) /\ sent'[b] \in Seq(Header)
    BY <1>1 DEF IInv, Shapes
  <2>3. \A b \in Address : Len(sent[b]) \in Nat /\ Len(sent'[b]) \in Nat
    BY <2>2
  <2> QED BY <1>1, <2>1, <2>3
<1>3. /\ receivers' = receivers /\ delivered' = delivered /\ DOMAIN writer' = Address
      /\ \A b \in Address : b # a => writer'[b] = writer[b]
  BY DEF MakeWriter, IInv, Shapes
<1>4. next_number' \in [Address -> Number]
  <2>1. (next_number[a] + 1) % NumberSpace \in Number
    BY SizesAssumption DEF IInv, Shapes, Number
  <2> QED BY <2>1 DEF MakeWriter, IInv, Shapes
<1>5. Shapes'
  BY <1>1, <1>3, <1>4 DEF IInv, Shapes, ReceiverShape, ReaderShape
<1>6. DeliveredWasSent'
  BY <1>2, <1>3 DEF IInv, DeliveredWasSent
<1>7. DeliveredIsMarked'
  <2> SUFFICES ASSUME NEW b \in Address, writer'[b] # None
               PROVE  /\ sent'[b] # <<>>
                      /\ Link!Last(delivered[b]) = Len(sent'[b]) =>
                            /\ b \in DOMAIN receivers
                            /\ receivers[b].last_completed = sent'[b][Len(sent'[b])].number
    BY <1>3 DEF DeliveredIsMarked, LastSent, Link!Last
  <2>1. CASE b = a
    BY <2>1, <1>1, <1>2 DEF IInv, DeliveredWasSent
  <2>2. CASE b # a
    BY <2>2, <1>1, <1>3 DEF IInv, DeliveredIsMarked, LastSent
  <2> QED BY <2>1, <2>2
<1>8. SymbolsAreNew'
  BY <1>2, <1>3 DEF IInv, Shapes, SymbolsAreNew, Link!Last
<1>9. Link!Send(a)
  <2> DEFINE count == [b \in Address |-> Len(sent[b])]
  <2>1. [b \in Address |-> Len(sent'[b])] = [count EXCEPT ![a] = count[a] + 1]
    BY <1>1, <1>2
  <2> QED BY <2>1, <1>3 DEF Link!Send
<1> QED BY <1>5, <1>6, <1>7, <1>8, <1>9 DEF IInv

\* A restart forgets what is being sent and nothing of what was received.
LEMMA RestartIInv ==
  ASSUME NEW a \in Address, IInv, Restart(a)
  PROVE  IInv' /\ UNCHANGED <<sent, delivered>>
<1>1. /\ sent' = sent /\ receivers' = receivers /\ delivered' = delivered
      /\ writer'[a] = None /\ DOMAIN writer' = Address
      /\ \A b \in Address : b # a => writer'[b] = writer[b]
      /\ next_number' = [next_number EXCEPT ![a] = 0]
  BY DEF Restart, IInv, Shapes
<1>2. next_number' \in [Address -> Number]
  BY <1>1, SizesAssumption DEF IInv, Shapes, Number
<1>3. Shapes'
  BY <1>1, <1>2 DEF IInv, Shapes, ReceiverShape, ReaderShape
<1>4. DeliveredIsMarked' /\ SymbolsAreNew' /\ DeliveredWasSent'
  BY <1>1 DEF IInv, DeliveredIsMarked, SymbolsAreNew, DeliveredWasSent, LastSent, Link!Last
<1> QED BY <1>1, <1>3, <1>4 DEF IInv

\* A packet that is ignored, or lost, changes the sender only.
LEMMA LostIInv ==
  ASSUME NEW a \in Address, IInv, writer[a] # None,
         writer' = [writer EXCEPT ![a] = writer'[a]],
         UNCHANGED <<sent, next_number, receivers, delivered>>
  PROVE  IInv'
<1>1. /\ DOMAIN writer' = Address
      /\ \A b \in Address : writer'[b] # None => writer[b] # None
  BY DEF IInv, Shapes
<1>2. Shapes'
  BY <1>1 DEF IInv, Shapes, ReceiverShape, ReaderShape
<1>3. DeliveredIsMarked' /\ SymbolsAreNew' /\ DeliveredWasSent'
  BY <1>1 DEF IInv, DeliveredIsMarked, SymbolsAreNew, DeliveredWasSent, LastSent, Link!Last
<1> QED BY <1>2, <1>3 DEF IInv

\* A packet that is taken completes no message but one newer than all that were
\* delivered.
LEMMA AcceptIInv ==
  ASSUME NEW a \in Address, IInv, writer[a] # None,
         NEW packet, packet = PacketOf(a, writer[a] + 1),
         ~Ignored(packet), Accept(packet),
         writer' = [writer EXCEPT ![a] = writer'[a]],
         UNCHANGED <<sent, next_number>>
  PROVE  /\ IInv'
         /\ UNCHANGED delivered \/ \E i \in 1 .. Len(sent[a]) : Link!Deliver(a, i)
<1> DEFINE count == Len(sent[a])
           old   == ReceiverOf(a)
           after == ReaderAfter(old.reader, packet)
           last  == Link!Last(delivered[a])
<1>1. /\ packet.from = a /\ packet.message = count
      /\ packet.number = LastSent(a).number
  BY DEF PacketOf
<1>2. /\ ReceiverShape(old) /\ old.last_completed # packet.number
      /\ old.reader # None => a \in DOMAIN receivers
      /\ a \in DOMAIN receivers => old = receivers[a]
  BY <1>1 DEF Ignored, ReceiverOf, NewReceiver, ReceiverShape, IInv, Shapes
<1>3. /\ ReaderShape(after) /\ after.number = packet.number
      /\ \A k \in DOMAIN after.symbols :
            \/ after.symbols[k] = count
            \/ /\ old.reader # None
               /\ old.reader.number = packet.number
               /\ k \in DOMAIN old.reader.symbols
               /\ after.symbols[k] = old.reader.symbols[k]
  <2>1. old.reader # None => ReaderShape(old.reader)
    BY <1>2 DEF ReceiverShape
  <2>2. ReadsOn(old.reader, packet, after)
    BY <2>1, ReaderAfterPacket
  <2> HIDE DEF after
  <2> QED BY <1>1, <2>2 DEF ReadsOn
<1>4. PICK outcome \in Outcome([old EXCEPT !.reader = after].reader) :
        /\ receivers' = With(receivers, a,
                             IF outcome = None
                             THEN [old EXCEPT !.reader = after]
                             ELSE Completed([old EXCEPT !.reader = after], packet))
        /\ delivered' = IF outcome \in {None, Garbage}
                        THEN delivered
                        ELSE [delivered EXCEPT ![a] = Append(@, outcome)]
  BY <1>1 DEF Accept
<1>5. /\ sent[a] \in Seq(Header) /\ count \in Nat \ {0}
      /\ delivered[a] \in Seq(Nat) /\ last \in 0 .. count /\ last # count
  BY <1>1, <1>2 DEF IInv, Shapes, DeliveredIsMarked, DeliveredWasSent
<1>6. \A k \in DOMAIN after.symbols : after.symbols[k] \in 1 .. count /\ last < after.symbols[k]
  BY SMTT(60), <1>2, <1>3, <1>5 DEF IInv, SymbolsAreNew
<1> DEFINE new     == receivers'[a]
           deliver == outcome \notin {None, Garbage}
           newest  == Link!Last(delivered'[a])
<1>7. /\ DOMAIN receivers' = DOMAIN receivers \cup {a}
      /\ receivers' = [b \in DOMAIN receivers' |-> receivers'[b]]
      /\ \A b \in DOMAIN receivers : b # a => receivers'[b] = receivers[b]
  BY <1>4 DEF With
<1>8. /\ ReceiverShape(new) /\ new.reader = after
      /\ new.last_completed = IF outcome = None THEN old.last_completed ELSE packet.number
  <2>1. new = IF outcome = None
              THEN [old EXCEPT !.reader = after]
              ELSE Completed([old EXCEPT !.reader = after], packet)
    BY <1>4 DEF With
  <2>2. [old EXCEPT !.reader = after] = [last_completed |-> old.last_completed, reader |-> after]
    BY <1>2 DEF ReceiverShape
  <2>3. new = [last_completed |->
                  IF outcome = None THEN old.last_completed ELSE packet.number,
               reader |-> after]
    BY <2>1, <2>2 DEF Completed
  <2> HIDE DEF after
  <2> QED BY <2>3, <1>3 DEF ReceiverShape
<1>9. deliver => outcome \in 1 .. count /\ last < outcome
  <2>1. [old EXCEPT !.reader = after].reader = after
    BY <1>2 DEF ReceiverShape
  <2>2. outcome \in Outcome(after)
    BY <2>1
  <2> HIDE DEF after
  <2>3. deliver => \E k \in DOMAIN after.symbols : outcome = after.symbols[k]
    BY <2>2, OutcomeOfSymbols
  <2> QED BY <2>3, <1>6
<1>10. /\ delivered' \in [Address -> Seq(Nat)]
       /\ \A b \in Address : b # a => delivered'[b] = delivered[b]
       /\ deliver => newest = outcome
       /\ ~deliver => newest = last /\ delivered' = delivered
  <2>1. delivered \in [Address -> Seq(Nat)]
    BY DEF IInv, Shapes
  <2>2. CASE ~deliver
    BY <2>1, <2>2, <1>4
  <2>3. CASE deliver
    <3>1. delivered' = [delivered EXCEPT ![a] = Append(@, outcome)] /\ outcome \in Nat
      BY <2>3, <1>4, <1>5, <1>9
    <3>2. /\ delivered'[a] = Append(delivered[a], outcome)
          /\ delivered'[a] # <<>>
          /\ delivered'[a][Len(delivered'[a])] = outcome
      BY <2>1, <3>1
    <3> QED BY <2>1, <2>3, <3>1, <3>2 DEF Link!Last
  <2> QED BY <2>2, <2>3
<1> HIDE DEF old, after, new, deliver, newest, last
<1>11. Shapes'
  <2>1. DOMAIN writer' = Address
    BY DEF IInv, Shapes
  <2>2. \A b \in DOMAIN receivers' : ReceiverShape(receivers'[b])
    BY <1>7, <1>8 DEF new, IInv, Shapes
  <2> QED BY <2>1, <2>2, <1>7, <1>10 DEF IInv, Shapes, ReceiverShape, ReaderShape
<1>12. newest \in 0 .. count
  BY <1>5, <1>9, <1>10
<1>13. \A b \in Address : b # a => Link!Last(delivered'[b]) = Link!Last(delivered[b])
  BY <1>10
<1>14. DeliveredWasSent'
  <2> SUFFICES ASSUME NEW b \in Address
               PROVE  Link!Last(delivered'[b]) \in 0 .. Len(sent[b])
    BY DEF DeliveredWasSent, Link!Last
  <2>1. CASE b = a
    BY <2>1, <1>12 DEF newest
  <2>2. CASE b # a
    BY <2>2, <1>13 DEF IInv, DeliveredWasSent
  <2> QED BY <2>1, <2>2
<1>15. DeliveredIsMarked'
  <2> SUFFICES ASSUME NEW b \in Address, writer'[b] # None
               PROVE  /\ sent[b] # <<>>
                      /\ Link!Last(delivered'[b]) = Len(sent[b]) =>
                            /\ b \in DOMAIN receivers'
                            /\ receivers'[b].last_completed = LastSent(b).number
    BY DEF DeliveredIsMarked, LastSent, Link!Last
  <2>1. CASE b = a
    <3>1. sent[a] # <<>>
      BY DEF IInv, DeliveredIsMarked
    <3>2. CASE deliver
      BY <2>1, <3>1, <3>2, <1>1, <1>7, <1>8 DEF deliver, new
    <3>3. CASE ~deliver
      BY <2>1, <3>1, <3>3, <1>5, <1>10 DEF newest
    <3> QED BY <3>2, <3>3
  <2>2. CASE b # a
    <3>1. writer[b] # None
      BY <2>2 DEF IInv, Shapes
    <3> QED BY <2>2, <3>1, <1>7, <1>13 DEF IInv, DeliveredIsMarked
  <2> QED BY <2>1, <2>2
<1>16. SymbolsAreNew'
  <2> SUFFICES ASSUME NEW b \in DOMAIN receivers', receivers'[b].reader # None,
                      NEW k \in DOMAIN receivers'[b].reader.symbols
               PROVE  /\ receivers'[b].reader.symbols[k] \in 1 .. Len(sent[b])
                      /\ \/ receivers'[b].last_completed = receivers'[b].reader.number
                         \/ Link!Last(delivered'[b]) < receivers'[b].reader.symbols[k]
    BY DEF SymbolsAreNew, Link!Last
  <2>1. CASE b = a
    <3>1. after.symbols[k] \in 1 .. count /\ last < after.symbols[k]
      BY <2>1, <1>6, <1>8 DEF new
    <3>2. new.last_completed = after.number \/ newest = last
      BY <1>3, <1>8, <1>10 DEF deliver
    <3> QED BY <2>1, <3>1, <3>2, <1>8 DEF new, newest
  <2>2. CASE b # a
    <3>1. b \in DOMAIN receivers /\ b \in Address /\ receivers'[b] = receivers[b]
      BY <2>2, <1>7 DEF IInv, Shapes
    <3> QED BY <2>2, <3>1, <1>13 DEF IInv, SymbolsAreNew
  <2> QED BY <2>1, <2>2
<1>17. UNCHANGED delivered \/ \E i \in 1 .. count : Link!Deliver(a, i)
  <2>1. CASE deliver
    <3>1. delivered' = [delivered EXCEPT ![a] = Append(@, outcome)]
      BY <2>1, <1>4 DEF deliver
    <3>2. [b \in Address |-> Len(sent'[b])] = [b \in Address |-> Len(sent[b])]
      OBVIOUS
    <3> QED BY <2>1, <3>1, <3>2, <1>9 DEF last, Link!Deliver
  <2>2. CASE ~deliver
    BY <2>2, <1>10
  <2> QED BY <2>1, <2>2
<1> QED BY <1>11, <1>14, <1>15, <1>16, <1>17 DEF IInv

\* A packet that is sent makes at most one message arrive.
LEMMA TransmitIInv ==
  ASSUME NEW a \in Address, NEW received \in BOOLEAN, IInv, Transmit(a, received)
  PROVE  /\ IInv'
         /\ UNCHANGED sent
         /\ UNCHANGED delivered \/ \E i \in 1 .. Len(sent[a]) : Link!Deliver(a, i)
<1> DEFINE packet == PacketOf(a, writer[a] + 1)
<1>1. writer[a] # None /\ UNCHANGED <<sent, next_number>>
  BY DEF Transmit
<1>2. writer' = [writer EXCEPT ![a] = writer'[a]]
  BY DEF Transmit, IInv, Shapes
<1>3. \/ UNCHANGED <<receivers, delivered>>
      \/ ~Ignored(packet) /\ Accept(packet)
  BY DEF Transmit, ReceivePacket
<1> HIDE DEF packet
<1>4. CASE UNCHANGED <<receivers, delivered>>
  BY <1>1, <1>2, <1>4, LostIInv
<1>5. CASE ~Ignored(packet) /\ Accept(packet)
  BY <1>1, <1>2, <1>5, AcceptIInv DEF packet
<1> QED BY <1>3, <1>4, <1>5

\* Every step of the packets is a step of the link, or one it does not see.
LEMMA StepIInv ==
  ASSUME IInv, [Next]_vars
  PROVE  IInv' /\ [Link!Next]_(Link!vars)
<1> DEFINE count == [a \in Address |-> Len(sent[a])]
<1>1. UNCHANGED <<sent, delivered>> => UNCHANGED (Link!vars)
  BY DEF Link!vars
<1>2. ASSUME NEW a \in Address, NEW length \in Length, MakeWriter(a, length)
      PROVE  IInv' /\ Link!Next
  BY <1>2, MakeWriterIInv DEF Link!Next
<1>3. ASSUME NEW a \in Address, NEW received \in BOOLEAN, Transmit(a, received)
      PROVE  IInv' /\ (UNCHANGED <<sent, delivered>> \/ Link!Next)
  BY <1>3, TransmitIInv DEF Link!Next
<1>4. ASSUME NEW a \in Address, Restart(a)
      PROVE  IInv' /\ UNCHANGED <<sent, delivered>>
  BY <1>4, RestartIInv
<1>5. CASE UNCHANGED vars
  BY <1>5 DEF vars, IInv, Shapes, DeliveredIsMarked, SymbolsAreNew, DeliveredWasSent,
              LastSent, Link!Last, Link!vars, ReceiverShape, ReaderShape
<1> QED BY <1>1, <1>2, <1>3, <1>4, <1>5 DEF Next

\* What a reader holds is newer than what was delivered, or of a number that is
\* ignored: the reason why no message arrives twice.
THEOREM Invariance == Spec => []IInv
  BY InitIInv, StepIInv, PTL DEF Spec

\* Of what a sender sends each message is heard at most once and in order,
\* whatever is lost, however its numbers wrap and however often it restarts.
THEOREM WireImplementsLink == Spec => ImplementsLink
<1>1. Init => Link!Init
  BY DEF Init, Link!Init
<1>2. IInv /\ [Next]_vars => [Link!Next]_(Link!vars)
  BY StepIInv
<1> QED BY <1>1, <1>2, Invariance, PTL DEF Spec, Link!Spec, ImplementsLink

-----------------------------------------------------------------------------
(* A Link delivers in order                                                *)

\* What is delivered is newer than all that was delivered before.
LEMMA DeliverInOrder ==
  ASSUME Shapes, Shapes', Link!InOrder,
         NEW a \in Address, NEW i \in 1 .. Len(sent[a]), Link!Deliver(a, i)
  PROVE  Link!InOrder'
<1> DEFINE before == delivered[a]
<1>1. before \in Seq(Nat) /\ Len(sent[a]) \in Nat /\ i \in Nat
  BY DEF Shapes
<1>2. /\ delivered'[a] = Append(before, i)
      /\ \A b \in Address : b # a => delivered'[b] = delivered[b]
      /\ \A b \in Address : Len(sent'[b]) = Len(sent[b])
      /\ Link!Last(before) < i
  <2>1. \A b \in Address : [x \in Address |-> Len(sent[x])]'[b] = [x \in Address |-> Len(sent[x])][b]
    BY DEF Link!Deliver
  <2> QED BY <2>1 DEF Link!Deliver, Shapes
<1>3. \A k \in DOMAIN before : before[k] < i
  <2> SUFFICES ASSUME NEW k \in DOMAIN before PROVE before[k] < i
    OBVIOUS
  <2>1. before # <<>> /\ k \in 1 .. Len(before) /\ Len(before) \in DOMAIN before
    BY <1>1
  <2>2. before[Len(before)] < i
    BY <1>2, <2>1 DEF Link!Last
  <2>3. k = Len(before) \/ before[k] < before[Len(before)]
    BY <2>1 DEF Link!InOrder
  <2> QED BY <1>1, <2>1, <2>2, <2>3
<1>4. /\ DOMAIN delivered'[a] = 1 .. Len(before) + 1 /\ DOMAIN before = 1 .. Len(before)
      /\ \A k \in DOMAIN before : delivered'[a][k] = before[k]
      /\ delivered'[a][Len(before) + 1] = i
      /\ Len(before) \in Nat
  BY <1>1, <1>2
<1>5. \A k \in DOMAIN delivered'[a] : k \in DOMAIN before \/ k = Len(before) + 1
  BY <1>4
<1>6. /\ \A k \in DOMAIN before : before[k] \in 1 .. Len(sent[a])
      /\ \A j, k \in DOMAIN before : j < k => before[j] < before[k]
  BY DEF Link!InOrder
<1>7. \A k \in DOMAIN delivered'[a] : delivered'[a][k] \in 1 .. Len(sent[a])
  BY <1>4, <1>5, <1>6
<1>8. ASSUME NEW j \in DOMAIN delivered'[a], NEW k \in DOMAIN delivered'[a], j < k
      PROVE  delivered'[a][j] < delivered'[a][k]
  <2>1. j \in DOMAIN before
    BY <1>4, <1>8
  <2>2. CASE k \in DOMAIN before
    BY <1>4, <1>6, <1>8, <2>1, <2>2
  <2>3. CASE k = Len(before) + 1
    BY <1>3, <1>4, <2>1, <2>3
  <2> QED BY <1>5, <2>2, <2>3
<1> HIDE DEF before
<1>9. ASSUME NEW b \in Address
      PROVE  /\ \A k \in DOMAIN delivered'[b] : delivered'[b][k] \in 1 .. Len(sent'[b])
             /\ \A j, k \in DOMAIN delivered'[b] :
                   j < k => delivered'[b][j] < delivered'[b][k]
  <2>1. CASE b = a
    BY <1>2, <1>7, <1>8, <2>1
  <2>2. CASE b # a
    BY <1>2, <2>2 DEF Link!InOrder
  <2> QED BY <2>1, <2>2
<1> QED BY <1>9 DEF Link!InOrder

\* A message that is sent leaves what was delivered as it is.
LEMMA SendInOrder ==
  ASSUME Shapes, Shapes', Link!InOrder, NEW a \in Address, Link!Send(a)
  PROVE  Link!InOrder'
<1>1. delivered' = delivered
  BY DEF Link!Send
<1>2. \A b \in Address : Len(sent[b]) \in Nat /\ Len(sent'[b]) \in Nat /\ Len(sent[b]) <= Len(sent'[b])
  <2>1. \A b \in Address : Len(sent[b]) \in Nat /\ Len(sent'[b]) \in Nat
    BY DEF Shapes
  <2>2. [x \in Address |-> Len(sent[x])]' =
            [[x \in Address |-> Len(sent[x])] EXCEPT ![a] = @ + 1]
    BY DEF Link!Send
  <2>3. ASSUME NEW b \in Address PROVE Len(sent'[b]) = Len(sent[b]) \/ Len(sent'[b]) = Len(sent[b]) + 1
    <3>1. [x \in Address |-> Len(sent[x])]'[b] = Len(sent'[b])
      OBVIOUS
    <3>2. [[x \in Address |-> Len(sent[x])] EXCEPT ![a] = @ + 1][b] =
              IF b = a THEN Len(sent[b]) + 1 ELSE Len(sent[b])
      OBVIOUS
    <3> QED BY <2>2, <3>1, <3>2
  <2> QED BY <2>1, <2>3
<1>3. \A b \in Address : \A i \in 1 .. Len(sent[b]) : i \in 1 .. Len(sent'[b])
  BY <1>2
<1> QED BY <1>1, <1>3 DEF Link!InOrder

\* Whatever is lost, the messages of a sender are received in the order in which
\* they were sent, each at most once: what Discovery relies on.
THEOREM InOrderAlways == Spec => []Link!InOrder
<1>1. Init => Link!InOrder
  BY DEF Init, Link!InOrder
<1>2. IInv => Shapes
  BY DEF IInv
<1>3. Shapes /\ Shapes' /\ Link!InOrder /\ [Link!Next]_(Link!vars) => Link!InOrder'
  <2> SUFFICES ASSUME Shapes, Shapes', Link!InOrder, [Link!Next]_(Link!vars)
               PROVE  Link!InOrder'
    OBVIOUS
  <2>1. CASE \E a \in Address : Link!Send(a)
    BY <2>1, SendInOrder
  <2>2. CASE \E a \in Address : \E i \in 1 .. Len(sent[a]) : Link!Deliver(a, i)
    BY <2>2, DeliverInOrder
  <2>3. CASE UNCHANGED Link!vars
    <3>1. delivered' = delivered /\ \A b \in Address : Len(sent'[b]) = Len(sent[b])
      <4>1. delivered' = delivered
        BY <2>3 DEF Link!vars
      <4>2. [x \in Address |-> Len(sent[x])]' = [x \in Address |-> Len(sent[x])]
        BY <2>3 DEF Link!vars
      <4>3. \A b \in Address : [x \in Address |-> Len(sent[x])]'[b] = Len(sent'[b])
        OBVIOUS
      <4> QED BY <4>1, <4>2, <4>3
    <3> QED BY <3>1 DEF Link!InOrder
  <2>4. CASE Link!Next
    BY <2>1, <2>2, <2>4 DEF Link!Next
  <2> QED BY <2>3, <2>4
<1>4. IInv /\ [Next]_vars => [Link!Next]_(Link!vars)
  BY StepIInv
<1> QED BY <1>1, <1>2, <1>3, <1>4, Invariance, PTL DEF Spec


Types ==
    /\ \A a \in Address : writer[a] # None => writer[a] \in Nat
    /\ restarts \in Nat
    /\ IsFiniteSet(DOMAIN receivers) /\ Cardinality(DOMAIN receivers) <= MaxNodes
    /\ \A a \in DOMAIN receivers :
          /\ receivers[a].last_completed \in Number \cup {None}
          /\ receivers[a].reader # None => IsReader(receivers[a].reader)
          /\ sent[a] # <<>>
    /\ heard \in [Address -> SUBSET Nat]
    /\ panicked \in BOOLEAN

HeaderOf(reader) == [number |-> reader.number, length |-> reader.length]

\* The symbols of a reader are of messages with its number and its length.
OneHeader ==
    \A a \in DOMAIN receivers :
        LET reader == receivers[a].reader IN
        reader # None =>
            \A k \in DOMAIN reader.symbols : sent[a][reader.symbols[k]] = HeaderOf(reader)

Twins == \E a \in Address : \E i, j \in DOMAIN sent[a] : i < j /\ sent[a][i] = sent[a][j]

\* The number that is ignored is that of the last message delivered.
CompletedIsDelivered ==
    \A a \in DOMAIN receivers :
        receivers[a].last_completed # None =>
            \/ panicked
            \/ /\ delivered[a] # <<>>
               /\ Link!Last(delivered[a]) \in DOMAIN sent[a]
               /\ sent[a][Link!Last(delivered[a])].number = receivers[a].last_completed

\* A reader that has the symbols heard of a message, and needs more.
Gathering(reader, message, symbols) ==
    /\ reader # None
    /\ reader.number = message.number
    /\ reader.length = message.length
    /\ symbols \subseteq DOMAIN reader.symbols
    /\ ~(Source(message.length) \subseteq DOMAIN reader.symbols)

\* What was heard of a message is in the reader, unless its sender is not in the
\* table or its number is ignored.
Kept(a) ==
    /\ sent[a] # <<>>
    /\ \/ ~HasReceiver(a)
       \/ /\ a \in DOMAIN receivers
          /\ \/ receivers[a].last_completed = LastSent(a).number
             \/ Gathering(receivers[a].reader, LastSent(a), heard[a])

HeardIsKept == \A a \in Address : heard[a] # {} => panicked \/ Kept(a)

SInv ==
    /\ IInv
    /\ Types
    /\ OneHeader
    /\ panicked => Twins
    /\ CompletedIsDelivered
    /\ HeardIsKept

-----------------------------------------------------------------------------

\* Every message has a source symbol.
LEMMA Counts ==
  ASSUME NEW length \in Length
  PROVE  /\ SourceCount(length) \in Nat \ {0}
         /\ PacketCount(length) \in Nat \ {0}
         /\ 0 \in Source(length)
<1>1. length \in Nat \ {0} /\ SymbolSize \in Nat \ {0} /\ RepairCount \in Nat
  BY SizesAssumption
<1>2. SourceCount(length) \in Nat \ {0}
  BY <1>1 DEF SourceCount
<1> QED BY <1>1, <1>2 DEF PacketCount, Source

\* What a packet leaves behind is a reader for its header with its symbol added
\* to those the old reader had for the same header.
Adds(reader, packet, after) ==
    LET kept == IF reader = None \/ WrongBlock(reader, packet) THEN {} ELSE DOMAIN reader.symbols
    IN  /\ ReaderShape(after)
        /\ HeaderOf(after) = HeaderOf(packet)
        /\ DOMAIN after.symbols = kept \cup {packet.symbol}
        /\ \A k \in DOMAIN after.symbols :
              \/ after.symbols[k] = packet.message
              \/ k \in kept /\ after.symbols[k] = reader.symbols[k]

\* The reader after bytes that are added to its buffer.
LEMMA ReaderAfterAdds ==
  ASSUME NEW reader, reader # None => ReaderShape(reader), NEW packet
  PROVE  Adds(reader, packet, ReaderAfter(reader, packet))
<1> DEFINE after == ReaderAfter(reader, packet)
<1>1. CASE reader = None \/ WrongBlock(reader, packet)
  <2>1. after = [number |-> packet.number, length |-> packet.length,
                 symbols |-> With([k \in {} |-> 0], packet.symbol, packet.message)]
    BY <1>1 DEF ReaderAfter, Decoded, NewReader
  <2>2. /\ DOMAIN after.symbols = {packet.symbol}
        /\ after.symbols[packet.symbol] = packet.message
        /\ after.symbols = [k \in DOMAIN after.symbols |-> after.symbols[k]]
    BY <2>1 DEF With
  <2> HIDE DEF after
  <2>3. Adds(reader, packet, after)
    BY <1>1, <2>1, <2>2 DEF Adds, ReaderShape, HeaderOf
  <2> QED BY <2>3 DEF after
<1>2. CASE ~(reader = None \/ WrongBlock(reader, packet))
  <2>1. /\ after = Decoded(reader, packet) /\ ReaderShape(reader)
        /\ reader.number = packet.number /\ reader.length = packet.length
    BY <1>2 DEF ReaderAfter, WrongBlock
  <2>2. CASE packet.symbol \in DOMAIN reader.symbols
    BY <2>1, <2>2, <1>2 DEF Decoded, Adds, HeaderOf
  <2>3. CASE packet.symbol \notin DOMAIN reader.symbols
    <3>1. after = [number |-> reader.number, length |-> reader.length,
                   symbols |-> With(reader.symbols, packet.symbol, packet.message)]
      BY <2>1, <2>3 DEF Decoded, ReaderShape
    <3>2. /\ DOMAIN after.symbols = DOMAIN reader.symbols \cup {packet.symbol}
          /\ after.symbols[packet.symbol] = packet.message
          /\ \A k \in DOMAIN reader.symbols : after.symbols[k] = reader.symbols[k]
          /\ after.symbols = [k \in DOMAIN after.symbols |-> after.symbols[k]]
      BY <3>1, <2>3 DEF With
    <3> HIDE DEF after
    <3>3. Adds(reader, packet, after)
      BY <3>1, <3>2, <2>1, <1>2 DEF Adds, ReaderShape, HeaderOf
    <3> QED BY <3>3 DEF after
  <2> QED BY <2>2, <2>3
<1> QED BY <1>1, <1>2

\* A decoder that is given no result lacks a source symbol.
LEMMA NoneLacksSource ==
  ASSUME NEW reader, IsReader(reader), None \in Outcome(reader)
  PROVE  ~(Source(reader.length) \subseteq DOMAIN reader.symbols)
<1> SUFFICES ASSUME Source(reader.length) \subseteq DOMAIN reader.symbols PROVE FALSE
  OBVIOUS
<1>1. reader.length \in Length
  BY DEF IsReader, Header
<1>2. /\ SourceCount(reader.length) \in Nat \ {0} /\ PacketCount(reader.length) \in Nat
  BY <1>1, Counts
<1>3. /\ IsFiniteSet(Symbol(reader.length))
      /\ Cardinality(Source(reader.length)) = SourceCount(reader.length)
  <2>1. \A n \in Nat : IsFiniteSet(0 .. n - 1) /\ Cardinality(0 .. n - 1) = n
    <3> SUFFICES ASSUME NEW n \in Nat PROVE IsFiniteSet(0 .. n - 1) /\ Cardinality(0 .. n - 1) = n
      OBVIOUS
    <3>1. 0 \in Int /\ n - 1 \in Int
      OBVIOUS
    <3>2. /\ IsFiniteSet(0 .. n - 1)
          /\ Cardinality(0 .. n - 1) = IF 0 > n - 1 THEN 0 ELSE n - 1 - 0 + 1
      BY <3>1, FS_Interval
    <3> QED BY <3>2
  <2> QED BY <1>2, <2>1 DEF Symbol, Source
<1>4. IsFiniteSet(DOMAIN reader.symbols)
  BY <1>3, FS_Subset DEF IsReader
<1>5. /\ Cardinality(Source(reader.length)) <= Cardinality(DOMAIN reader.symbols)
      /\ Cardinality(DOMAIN reader.symbols) \in Nat
  BY <1>4, FS_Subset, FS_CardinalityType
<1>6. ~(Cardinality(DOMAIN reader.symbols) < SourceCount(reader.length))
  BY <1>2, <1>3, <1>5
<1>7. None \in Range(reader.symbols) \cup {Garbage}
  BY <1>6 DEF Outcome
<1> QED BY <1>7, NoneAssumption DEF IsReader, Range

\* Garbage is made of two messages.
LEMMA GarbageIsMixed ==
  ASSUME NEW reader, IsReader(reader), DOMAIN reader.symbols # {}, Garbage \in Outcome(reader)
  PROVE  \E k, l \in DOMAIN reader.symbols : reader.symbols[k] < reader.symbols[l]
<1>1. Garbage \notin Range(reader.symbols) /\ Garbage # None
  BY NoneAssumption DEF IsReader, Range
<1>2. Cardinality(Range(reader.symbols)) # 1
  BY <1>1 DEF Outcome
<1>3. PICK k \in DOMAIN reader.symbols : TRUE
  OBVIOUS
<1>4. Range(reader.symbols) # {reader.symbols[k]}
  BY <1>2, FS_Singleton
<1>5. PICK l \in DOMAIN reader.symbols : reader.symbols[l] # reader.symbols[k]
  BY <1>3, <1>4 DEF Range
<1>6. reader.symbols[k] \in Nat /\ reader.symbols[l] \in Nat
  BY DEF IsReader
<1> QED BY <1>5, <1>6

\* Nothing is kept at first.
LEMMA InitSInv == Init => SInv
<1> SUFFICES ASSUME Init PROVE SInv
  OBVIOUS
<1>1. IsFiniteSet(DOMAIN receivers) /\ Cardinality(DOMAIN receivers) <= MaxNodes
  BY FS_EmptySet, SizesAssumption DEF Init
<1>2. Types
  BY <1>1 DEF Init, Types
<1>3. OneHeader /\ (panicked => Twins) /\ CompletedIsDelivered /\ HeardIsKept
  BY DEF Init, OneHeader, CompletedIsDelivered, HeardIsKept
<1> QED BY InitIInv, <1>2, <1>3 DEF SInv

\* A packet of the message that is being sent.
LEMMA PacketOfLastSent ==
  ASSUME NEW a \in Address, IInv, Types, writer[a] # None,
         NEW packet, packet = PacketOf(a, writer[a] + 1)
  PROVE  /\ packet.from = a
         /\ packet.message = Len(sent[a]) /\ packet.message \in DOMAIN sent[a]
         /\ sent[a] # <<>> /\ LastSent(a) \in Header
         /\ HeaderOf(packet) = LastSent(a)
         /\ packet.number = LastSent(a).number /\ packet.length = LastSent(a).length
         /\ packet.symbol \in Symbol(packet.length)
<1>1. sent[a] \in Seq(Header) /\ sent[a] # <<>>
  BY DEF IInv, Shapes, DeliveredIsMarked
<1>2. LastSent(a) \in Header /\ Len(sent[a]) \in DOMAIN sent[a]
  BY <1>1 DEF LastSent
<1>3. writer[a] + 1 \in Nat
  BY DEF Types
<1>4. /\ packet.from = a /\ packet.message = Len(sent[a])
      /\ packet.number = LastSent(a).number /\ packet.length = LastSent(a).length
      /\ packet.symbol = (writer[a] + 1) % PacketCount(LastSent(a).length)
  BY DEF PacketOf
<1>5. PacketCount(LastSent(a).length) \in Nat \ {0}
  BY <1>2, Counts DEF Header
<1>6. packet.symbol \in Symbol(packet.length)
  BY <1>3, <1>4, <1>5 DEF Symbol
<1>7. HeaderOf(packet) = LastSent(a)
  BY <1>2, <1>4 DEF HeaderOf, Header
<1> QED BY <1>1, <1>2, <1>4, <1>6, <1>7

\* The table never loses a sender, so one that found no room never finds any.
LEMMA TableGrows ==
  ASSUME Types, NEW a \in Address, HasReceiver(a),
         DOMAIN receivers' = DOMAIN receivers \cup {a}
  PROVE  /\ IsFiniteSet(DOMAIN receivers') /\ Cardinality(DOMAIN receivers') <= MaxNodes
         /\ \A b \in Address : b # a => (HasReceiver(b)' => HasReceiver(b))
<1>1. /\ IsFiniteSet(DOMAIN receivers) /\ Cardinality(DOMAIN receivers) \in Nat
      /\ IsFiniteSet(DOMAIN receivers')
      /\ Cardinality(DOMAIN receivers') =
            IF a \in DOMAIN receivers THEN Cardinality(DOMAIN receivers)
                                      ELSE Cardinality(DOMAIN receivers) + 1
  BY FS_AddElement, FS_CardinalityType DEF Types
<1>2. Cardinality(DOMAIN receivers') <= MaxNodes
  BY <1>1, SizesAssumption DEF Types, HasReceiver
<1>3. ASSUME NEW b \in Address, b # a, HasReceiver(b)'
      PROVE  HasReceiver(b)
  BY <1>1, <1>3, SizesAssumption DEF HasReceiver
<1> QED BY <1>1, <1>2, <1>3

\* What is appended is last.
LEMMA LastAppended ==
  ASSUME NEW messages \in Seq(Nat), NEW message \in Nat
  PROVE  /\ Append(messages, message) # <<>>
         /\ Link!Last(Append(messages, message)) = message
  BY DEF Link!Last

\* A reader is never taken for none.
LEMMA ReaderIsNotNone ==
  ASSUME NEW reader, ReaderShape(reader), IsReader(reader)
  PROVE  reader # None
<1> DEFINE indices == DOMAIN reader.symbols
<1>1. /\ reader.length \in Length /\ reader.number \in 0 .. NumberSpace - 1
      /\ indices \in SUBSET Symbol(reader.length)
      /\ reader.symbols \in [indices -> Nat]
  BY DEF IsReader, ReaderShape, Header
<1>2. reader \in [number: 0 .. NumberSpace - 1, length: Length, symbols: [indices -> Nat]]
  BY <1>1 DEF ReaderShape
<1> QED BY <1>1, <1>2, ReaderAssumption

\* A packet that is taken: its symbol joins those of its message, or the message
\* is complete.
LEMMA AcceptSInv ==
  ASSUME NEW a \in Address, SInv, IInv', writer[a] # None, ~panicked,
         NEW packet, packet = PacketOf(a, writer[a] + 1),
         ~Ignored(packet), Accept(packet),
         heard' = [heard EXCEPT ![a] = @ \cup {packet.symbol}],
         UNCHANGED <<sent, restarts>>,
         writer'[a] # None => writer'[a] \in Nat,
         \A b \in Address : b # a => writer'[b] = writer[b]
  PROVE  SInv'
<1> DEFINE old   == ReceiverOf(a)
           after == ReaderAfter(old.reader, packet)
<1>1. /\ packet.from = a
      /\ packet.message = Len(sent[a]) /\ packet.message \in DOMAIN sent[a]
      /\ sent[a] # <<>> /\ LastSent(a) \in Header
      /\ HeaderOf(packet) = LastSent(a)
      /\ packet.number = LastSent(a).number /\ packet.length = LastSent(a).length
      /\ packet.symbol \in Symbol(packet.length)
  BY PacketOfLastSent DEF SInv
<1>2. /\ HasReceiver(a) /\ ReceiverShape(old) /\ old.last_completed # packet.number
      /\ old.last_completed \in Number \cup {None}
      /\ old.reader # None => IsReader(old.reader)
      /\ old.reader # None => a \in DOMAIN receivers
      /\ old.last_completed # None => a \in DOMAIN receivers
      /\ a \in DOMAIN receivers => old = receivers[a]
  BY <1>1 DEF Ignored, ReceiverOf, NewReceiver, ReceiverShape, SInv, IInv, Shapes, Types
<1> DEFINE kept == IF old.reader = None \/ WrongBlock(old.reader, packet)
                   THEN {} ELSE DOMAIN old.reader.symbols
<1>3. /\ ReaderShape(after) /\ HeaderOf(after) = LastSent(a)
      /\ DOMAIN after.symbols = kept \cup {packet.symbol}
      /\ \A k \in DOMAIN after.symbols :
            \/ after.symbols[k] = packet.message
            \/ k \in kept /\ after.symbols[k] = old.reader.symbols[k]
  <2>1. Adds(old.reader, packet, after)
    BY <1>2, ReaderAfterAdds DEF ReceiverShape
  <2> HIDE DEF after
  <2> QED BY <1>1, <2>1 DEF Adds
<1>4. PICK outcome \in Outcome([old EXCEPT !.reader = after].reader) :
        /\ receivers' = With(receivers, a,
                             IF outcome = None
                             THEN [old EXCEPT !.reader = after]
                             ELSE Completed([old EXCEPT !.reader = after], packet))
        /\ delivered' = IF outcome \in {None, Garbage}
                        THEN delivered
                        ELSE [delivered EXCEPT ![a] = Append(@, outcome)]
        /\ panicked' = (outcome = Garbage)
  BY <1>1 DEF Accept
<1> DEFINE new == receivers'[a]
<1>5. /\ outcome \in Outcome(after) /\ new.reader = after
      /\ new.last_completed = IF outcome = None THEN old.last_completed ELSE packet.number
  <2>1. [old EXCEPT !.reader = after] = [last_completed |-> old.last_completed, reader |-> after]
    BY <1>2 DEF ReceiverShape
  <2>2. new = IF outcome = None
              THEN [old EXCEPT !.reader = after]
              ELSE Completed([old EXCEPT !.reader = after], packet)
    BY <1>4 DEF With
  <2>3. new = [last_completed |->
                  IF outcome = None THEN old.last_completed ELSE packet.number,
               reader |-> after]
    BY <2>1, <2>2 DEF Completed
  <2> HIDE DEF after
  <2> QED BY <2>1, <2>3
<1>6. /\ DOMAIN receivers' = DOMAIN receivers \cup {a}
      /\ \A b \in DOMAIN receivers : b # a => receivers'[b] = receivers[b]
  BY <1>4 DEF With
<1> HIDE DEF old, after, new
<1>7. after.number = LastSent(a).number /\ after.length = LastSent(a).length
  BY <1>3 DEF HeaderOf
<1>8. ~(old.reader = None \/ WrongBlock(old.reader, packet)) =>
        /\ old.reader # None
        /\ HeaderOf(old.reader) = LastSent(a)
  BY <1>1 DEF WrongBlock, HeaderOf
<1>9. IsReader(after)
  <2>1. kept \subseteq Symbol(after.length)
    BY <1>2, <1>7, <1>8 DEF IsReader, HeaderOf
  <2>2. \A k \in kept : old.reader.symbols[k] \in Nat
    BY <1>2, <1>8 DEF IsReader
  <2>3. packet.message \in Nat
    BY <1>1 DEF SInv, IInv, Shapes
  <2>4. HeaderOf(after) \in Header
    BY <1>1, <1>3
  <2>5. DOMAIN after.symbols \subseteq Symbol(after.length)
    BY <1>1, <1>3, <1>7, <2>1
  <2>6. \A k \in DOMAIN after.symbols : after.symbols[k] \in Nat
    BY <1>3, <2>2, <2>3
  <2> QED BY <2>4, <2>5, <2>6 DEF IsReader, HeaderOf
<1>10. \A k \in DOMAIN after.symbols : sent[a][after.symbols[k]] = HeaderOf(after)
  <2> SUFFICES ASSUME NEW k \in DOMAIN after.symbols
               PROVE  sent[a][after.symbols[k]] = LastSent(a)
    BY <1>3
  <2>1. CASE after.symbols[k] = packet.message
    BY <2>1, <1>1 DEF LastSent
  <2>2. CASE k \in kept /\ after.symbols[k] = old.reader.symbols[k]
    <3>1. sent[a][old.reader.symbols[k]] = HeaderOf(old.reader)
      BY <2>2, <1>2 DEF SInv, OneHeader
    <3> QED BY <2>2, <3>1, <1>8
  <2> QED BY <2>1, <2>2, <1>3
<1>11. \A k \in DOMAIN after.symbols : after.symbols[k] \in 1 .. Len(sent[a])
  <2>1. a \in DOMAIN receivers' /\ receivers'[a].reader = after
    BY <1>5, <1>6 DEF new
  <2>2. after # None => \A k \in DOMAIN after.symbols : after.symbols[k] \in 1 .. Len(sent'[a])
    BY <2>1 DEF IInv, SymbolsAreNew
  <2>3. \A k \in kept : old.reader.symbols[k] \in 1 .. Len(sent[a])
    BY <1>2, <1>8 DEF SInv, IInv, SymbolsAreNew
  <2>4. packet.message \in 1 .. Len(sent[a])
    BY <1>1 DEF SInv, IInv, Shapes
  <2> QED BY <1>3, <2>3, <2>4
<1>12. Types'
  <2>1. /\ IsFiniteSet(DOMAIN receivers') /\ Cardinality(DOMAIN receivers') <= MaxNodes
    BY <1>2, <1>6, TableGrows DEF SInv
  <2>2. \A b \in DOMAIN receivers' :
           /\ receivers'[b].last_completed \in Number \cup {None}
           /\ receivers'[b].reader # None => IsReader(receivers'[b].reader)
           /\ sent[b] # <<>>
    <3> SUFFICES ASSUME NEW b \in DOMAIN receivers'
                 PROVE  /\ receivers'[b].last_completed \in Number \cup {None}
                        /\ receivers'[b].reader # None => IsReader(receivers'[b].reader)
                        /\ sent[b] # <<>>
      OBVIOUS
    <3>1. CASE b = a
      <4>1. packet.number \in Number
        BY <1>1 DEF Header, Number
      <4> QED BY <3>1, <4>1, <1>1, <1>2, <1>5, <1>9 DEF new
    <3>2. CASE b # a
      BY <3>2, <1>6 DEF SInv, Types
    <3> QED BY <3>1, <3>2
  <2>3. heard' \in [Address -> SUBSET Nat]
    <3>1. packet.symbol \in Nat
      BY <1>1, Counts DEF Symbol, Header
    <3> QED BY <3>1 DEF SInv, Types
  <2>4. panicked' \in BOOLEAN
    BY <1>4
  <2>5. restarts' \in Nat /\ \A b \in Address : writer'[b] # None => writer'[b] \in Nat
    BY DEF SInv, Types
  <2> QED BY <2>1, <2>2, <2>3, <2>4, <2>5 DEF Types, IsReader
<1>13. OneHeader'
  <2> SUFFICES ASSUME NEW b \in DOMAIN receivers', receivers'[b].reader # None,
                      NEW k \in DOMAIN receivers'[b].reader.symbols
               PROVE  sent[b][receivers'[b].reader.symbols[k]] = HeaderOf(receivers'[b].reader)
    BY DEF OneHeader, HeaderOf
  <2>1. CASE b = a
    BY <2>1, <1>5, <1>10 DEF new
  <2>2. CASE b # a
    BY <2>2, <1>6 DEF SInv, OneHeader
  <2> QED BY <2>1, <2>2
<1>14. panicked' => Twins'
  <2> SUFFICES ASSUME outcome = Garbage PROVE Twins
    BY ZenonT(60), <1>4 DEF Twins
  <2>1. DOMAIN after.symbols # {}
    BY <1>3
  <2>2. PICK k \in DOMAIN after.symbols, l \in DOMAIN after.symbols :
            after.symbols[k] < after.symbols[l]
    BY <2>1, <1>5, <1>9, GarbageIsMixed
  <2>3. after.symbols[k] \in DOMAIN sent[a] /\ after.symbols[l] \in DOMAIN sent[a]
    BY <1>11 DEF SInv, IInv, Shapes
  <2> QED BY <2>2, <2>3, <1>10 DEF Twins
<1>15. CompletedIsDelivered'
  <2> SUFFICES ASSUME NEW b \in DOMAIN receivers', receivers'[b].last_completed # None,
                      outcome # Garbage
               PROVE  /\ delivered'[b] # <<>>
                      /\ Link!Last(delivered'[b]) \in DOMAIN sent[b]
                      /\ sent[b][Link!Last(delivered'[b])].number = receivers'[b].last_completed
    BY <1>4 DEF CompletedIsDelivered, Link!Last
  <2>1. \A c \in DOMAIN receivers : receivers[c].last_completed # None =>
            /\ delivered[c] # <<>>
            /\ Link!Last(delivered[c]) \in DOMAIN sent[c]
            /\ sent[c][Link!Last(delivered[c])].number = receivers[c].last_completed
    BY DEF SInv, CompletedIsDelivered
  <2>2. delivered \in [Address -> Seq(Nat)] /\ DOMAIN receivers \subseteq Address
    BY DEF SInv, IInv, Shapes
  <2>3. CASE b = a /\ outcome = None
    BY <2>1, <2>3, <1>2, <1>4, <1>5 DEF new
  <2>4. CASE b = a /\ outcome # None
    <3>1. PICK k \in DOMAIN after.symbols : outcome = after.symbols[k]
      BY <2>4, <1>5, OutcomeOfSymbols
    <3>2. outcome \in Nat /\ delivered'[a] = Append(delivered[a], outcome)
      BY <2>2, <2>4, <3>1, <1>4, <1>9 DEF IsReader
    <3>3. delivered'[a] # <<>> /\ Link!Last(delivered'[a]) = outcome
      BY <2>2, <3>2, LastAppended
    <3>4. outcome \in DOMAIN sent[a]
      BY <3>1, <1>11 DEF SInv, IInv, Shapes
    <3> QED BY <2>4, <3>1, <3>3, <3>4, <1>1, <1>5, <1>7, <1>10 DEF new, HeaderOf
  <2>5. CASE b # a
    <3>1. b \in DOMAIN receivers /\ receivers'[b] = receivers[b] /\ b \in Address
      BY <2>2, <2>5, <1>6
    <3>2. delivered'[b] = delivered[b]
      BY <2>2, <2>5, <3>1, <1>4
    <3> QED BY <2>1, <3>1, <3>2
  <2> QED BY <2>3, <2>4, <2>5
<1>16. HeardIsKept'
  <2> SUFFICES ASSUME NEW b \in Address, heard'[b] # {}, outcome # Garbage
               PROVE  Kept(b)'
    BY <1>4 DEF HeardIsKept
  <2>1. CASE b = a /\ outcome # None
    BY <2>1, <1>1, <1>5, <1>6 DEF new, Kept, LastSent
  <2>2. CASE b = a /\ outcome = None
    <3>1. ~(Source(after.length) \subseteq DOMAIN after.symbols)
      BY <2>2, <1>5, <1>9, NoneLacksSource
    <3>2. heard[a] \subseteq kept
      <4>1. CASE heard[a] = {}
        BY <4>1
      <4>2. CASE heard[a] # {}
        <5>1. Kept(a)
          BY <4>2 DEF SInv, HeardIsKept
        <5>2. Gathering(old.reader, LastSent(a), heard[a])
          BY <5>1, <1>1, <1>2 DEF Kept
        <5> QED BY <5>2, <1>1 DEF Gathering, WrongBlock
      <4> QED BY <4>1, <4>2
    <3>3. heard'[a] \subseteq DOMAIN after.symbols
      BY <3>2, <1>3 DEF SInv, Types
    <3>4. after # None
      BY <1>3, <1>9, ReaderIsNotNone
    <3> QED BY <2>2, <3>1, <3>3, <3>4, <1>1, <1>5, <1>6, <1>7 DEF new, Kept, Gathering, LastSent
  <2>3. CASE b # a
    <3>1. heard'[b] = heard[b]
      BY <2>3 DEF SInv, Types
    <3>2. Kept(b)
      BY <3>1 DEF SInv, HeardIsKept
    <3>3. HasReceiver(b)' => HasReceiver(b)
      BY <2>3, <1>2, <1>6, TableGrows DEF SInv
    <3> QED BY <2>3, <3>1, <3>2, <3>3, <1>6 DEF Kept, LastSent
  <2> QED BY <2>1, <2>2, <2>3
<1> QED BY <1>12, <1>13, <1>14, <1>15, <1>16 DEF SInv

\* A packet that is sent, and heard or not.
LEMMA TransmitSInv ==
  ASSUME NEW a \in Address, NEW received \in BOOLEAN, SInv, IInv', Transmit(a, received)
  PROVE  SInv'
<1> DEFINE packet == PacketOf(a, writer[a] + 1)
<1>1. /\ writer[a] # None /\ ~panicked /\ UNCHANGED <<sent, next_number, restarts>>
      /\ writer'[a] # None => writer'[a] \in Nat
      /\ \A b \in Address : b # a => writer'[b] = writer[b]
  BY DEF Transmit, SInv, IInv, Shapes, Types
<1>2. \/ UNCHANGED <<receivers, delivered, panicked, heard>>
      \/ /\ Ignored(packet)
         /\ UNCHANGED <<receivers, delivered, panicked>>
         /\ heard' = [heard EXCEPT ![a] = @ \cup {packet.symbol}]
      \/ /\ ~Ignored(packet) /\ Accept(packet)
         /\ heard' = [heard EXCEPT ![a] = @ \cup {packet.symbol}]
  BY DEF Transmit, ReceivePacket
<1>3. /\ packet.from = a /\ packet.number = LastSent(a).number /\ packet.length \in Length
      /\ sent[a] # <<>> /\ packet.symbol \in Symbol(packet.length)
  <2>1. /\ packet.from = a /\ packet.number = LastSent(a).number
        /\ packet.length = LastSent(a).length
        /\ LastSent(a) \in Header /\ sent[a] # <<>> /\ packet.symbol \in Symbol(packet.length)
    BY <1>1, PacketOfLastSent DEF SInv
  <2> HIDE DEF packet
  <2> QED BY <2>1 DEF Header
<1> HIDE DEF packet
<1>4. CASE UNCHANGED <<receivers, delivered, panicked, heard>>
  <2>1. Types'
    BY <1>1, <1>4 DEF SInv, Types, IsReader
  <2>2. OneHeader' /\ (panicked' => Twins') /\ CompletedIsDelivered'
    BY <1>1, <1>4 DEF SInv, OneHeader, HeaderOf, Twins, CompletedIsDelivered, Link!Last
  <2>3. HeardIsKept'
    BY <1>1, <1>4 DEF SInv, HeardIsKept, Kept, HasReceiver, LastSent, Gathering
  <2> QED BY <2>1, <2>2, <2>3 DEF SInv
<1>5. CASE /\ Ignored(packet)
           /\ UNCHANGED <<receivers, delivered, panicked>>
           /\ heard' = [heard EXCEPT ![a] = @ \cup {packet.symbol}]
  <2>1. packet.symbol \in Nat
    BY <1>3, Counts DEF Symbol
  <2>2. /\ heard' \in [Address -> SUBSET Nat]
        /\ \A b \in Address : b # a => heard'[b] = heard[b]
    BY <2>1, <1>5 DEF SInv, Types
  <2>3. Types'
    BY <2>2, <1>1, <1>5 DEF SInv, Types, IsReader
  <2>4. OneHeader' /\ (panicked' => Twins') /\ CompletedIsDelivered'
    BY <1>1, <1>5 DEF SInv, OneHeader, HeaderOf, Twins, CompletedIsDelivered, Link!Last
  <2>5. ASSUME NEW b \in Address, heard'[b] # {}
        PROVE  panicked' \/ Kept(b)'
    <3>1. CASE b = a
      <4>1. ~HasReceiver(a) \/ (a \in DOMAIN receivers /\ receivers[a].last_completed = packet.number)
        <5>1. packet.number # None
          BY <1>1, <1>3, NoneAssumption, PacketOfLastSent DEF SInv, packet, Header
        <5> QED BY <5>1, <1>3, <1>5 DEF Ignored, ReceiverOf, NewReceiver
      <4> QED BY <3>1, <4>1, <1>1, <1>3, <1>5 DEF Kept, HasReceiver, LastSent
    <3>2. CASE b # a
      <4>1. heard'[b] = heard[b] /\ (panicked \/ Kept(b))
        BY <2>2, <2>5, <3>2 DEF SInv, HeardIsKept
      <4> QED BY <4>1, <1>1, <1>5 DEF Kept, HasReceiver, LastSent, Gathering
    <3> QED BY <3>1, <3>2
  <2> QED BY <2>3, <2>4, <2>5 DEF SInv, HeardIsKept
<1>6. CASE /\ ~Ignored(packet) /\ Accept(packet)
           /\ heard' = [heard EXCEPT ![a] = @ \cup {packet.symbol}]
  BY <1>1, <1>6, AcceptSInv DEF packet
<1> QED BY <1>2, <1>4, <1>5, <1>6

\* A new message: nothing of it is heard yet.
LEMMA MakeWriterSInv ==
  ASSUME NEW a \in Address, NEW length \in Length, SInv, IInv', MakeWriter(a, length)
  PROVE  SInv'
<1> DEFINE message == [number |-> next_number[a], length |-> length]
<1>1. /\ UNCHANGED <<restarts, receivers, delivered, panicked>>
      /\ sent' = [sent EXCEPT ![a] = Append(@, message)]
      /\ writer' = [writer EXCEPT ![a] = 0]
      /\ heard' = [heard EXCEPT ![a] = {}]
  BY DEF MakeWriter
<1>2. message \in Header
  BY DEF SInv, IInv, Shapes, Header, Number
<1> HIDE DEF message
<1>3. /\ sent \in [Address -> Seq(Header)] /\ sent' \in [Address -> Seq(Header)]
      /\ sent'[a] = Append(sent[a], message)
      /\ \A b \in Address : b # a => sent'[b] = sent[b]
  BY <1>1, <1>2 DEF SInv, IInv, Shapes
<1>4. \A b \in Address : /\ DOMAIN sent[b] \subseteq DOMAIN sent'[b]
                         /\ \A i \in DOMAIN sent[b] : sent'[b][i] = sent[b][i]
  <2>1. sent[a] \in Seq(Header)
    BY <1>3
  <2>2. /\ DOMAIN sent[a] \subseteq DOMAIN sent'[a]
        /\ \A i \in DOMAIN sent[a] : sent'[a][i] = sent[a][i]
    BY <1>2, <1>3, <2>1
  <2> QED BY <1>3, <2>2
<1>5. Types'
  <2>1. \A b \in Address : writer'[b] # None => writer'[b] \in Nat
    BY <1>1 DEF SInv, IInv, Shapes, Types
  <2>2. heard' \in [Address -> SUBSET Nat]
    BY <1>1 DEF SInv, Types
  <2>3. \A b \in DOMAIN receivers : sent'[b] # <<>>
    <3>1. \A b \in DOMAIN receivers : b \in Address /\ sent[b] # <<>>
      BY DEF SInv, IInv, Shapes, Types
    <3>2. sent'[a] # <<>>
      BY <1>2, <1>3
    <3> QED BY <1>3, <3>1, <3>2
  <2> QED BY <1>1, <2>1, <2>2, <2>3 DEF SInv, Types, IsReader
<1>6. OneHeader'
  <2> SUFFICES ASSUME NEW b \in DOMAIN receivers, receivers[b].reader # None,
                      NEW k \in DOMAIN receivers[b].reader.symbols
               PROVE  sent'[b][receivers[b].reader.symbols[k]] = HeaderOf(receivers[b].reader)
    BY <1>1 DEF OneHeader, HeaderOf
  <2>1. b \in Address /\ receivers[b].reader.symbols[k] \in 1 .. Len(sent[b])
    BY DEF SInv, IInv, Shapes, SymbolsAreNew
  <2>2. receivers[b].reader.symbols[k] \in DOMAIN sent[b]
    BY <1>3, <2>1
  <2> QED BY <2>1, <2>2, <1>4 DEF SInv, OneHeader
<1>7. panicked' => Twins'
  <2> SUFFICES ASSUME Twins PROVE Twins'
    BY <1>1 DEF SInv
  <2>1. PICK b \in Address : \E i, j \in DOMAIN sent[b] : i < j /\ sent[b][i] = sent[b][j]
    BY DEF Twins
  <2>2. \E i, j \in DOMAIN sent'[b] : i < j /\ sent'[b][i] = sent'[b][j]
    BY <2>1, <1>4
  <2> QED BY <2>2 DEF Twins
<1>8. CompletedIsDelivered'
  <2> SUFFICES ASSUME NEW b \in DOMAIN receivers, receivers[b].last_completed # None, ~panicked
               PROVE  /\ delivered[b] # <<>>
                      /\ Link!Last(delivered[b]) \in DOMAIN sent'[b]
                      /\ sent'[b][Link!Last(delivered[b])].number = receivers[b].last_completed
    BY <1>1 DEF CompletedIsDelivered, Link!Last
  <2>1. /\ delivered[b] # <<>>
        /\ Link!Last(delivered[b]) \in DOMAIN sent[b]
        /\ sent[b][Link!Last(delivered[b])].number = receivers[b].last_completed
    BY DEF SInv, CompletedIsDelivered
  <2>2. b \in Address
    BY DEF SInv, IInv, Shapes
  <2> QED BY <2>1, <2>2, <1>4
<1>9. HeardIsKept'
  <2> SUFFICES ASSUME NEW b \in Address, heard'[b] # {}
               PROVE  panicked' \/ Kept(b)'
    BY DEF HeardIsKept
  <2>1. b # a /\ heard'[b] = heard[b]
    BY <1>1 DEF SInv, Types
  <2>2. panicked \/ Kept(b)
    BY <2>1 DEF SInv, HeardIsKept
  <2> QED BY <2>1, <2>2, <1>1, <1>3 DEF Kept, HasReceiver, LastSent, Gathering
<1> QED BY <1>5, <1>6, <1>7, <1>8, <1>9 DEF SInv

\* A restart touches nothing that was received.
LEMMA RestartSInv ==
  ASSUME NEW a \in Address, SInv, IInv', Restart(a)
  PROVE  SInv'
<1>1. /\ UNCHANGED <<sent, receivers, heard, delivered, panicked>>
      /\ restarts' = restarts + 1
      /\ \A b \in Address : writer'[b] # None => writer[b] # None /\ writer'[b] = writer[b]
  BY DEF Restart, SInv, IInv, Shapes
<1>2. Types'
  BY <1>1 DEF SInv, Types, IsReader
<1>3. OneHeader' /\ (panicked' => Twins') /\ CompletedIsDelivered'
  BY <1>1 DEF SInv, OneHeader, HeaderOf, Twins, CompletedIsDelivered, Link!Last
<1>4. HeardIsKept'
  BY <1>1 DEF SInv, HeardIsKept, Kept, HasReceiver, LastSent, Gathering
<1> QED BY <1>2, <1>3, <1>4 DEF SInv

\* The invariant is kept when nothing happens.
LEMMA StutterSInv ==
  ASSUME SInv, IInv', UNCHANGED vars
  PROVE  SInv'
<1>1. UNCHANGED <<sent, writer, restarts, receivers, heard, delivered, panicked>>
  BY DEF vars
<1>2. Types'
  BY <1>1 DEF SInv, Types, IsReader
<1>3. OneHeader' /\ (panicked' => Twins') /\ CompletedIsDelivered'
  BY <1>1 DEF SInv, OneHeader, HeaderOf, Twins, CompletedIsDelivered, Link!Last
<1>4. HeardIsKept'
  BY <1>1 DEF SInv, HeardIsKept, Kept, HasReceiver, LastSent, Gathering
<1> QED BY <1>2, <1>3, <1>4 DEF SInv

-----------------------------------------------------------------------------

\* What was heard of a message stays in the reader until it is complete, with
\* symbols of messages of its header alone, and the number that is ignored is
\* that of the last message delivered (receive_packet and WireReader).
THEOREM SafeInvariance == Spec => []SInv
<1>1. Init => SInv
  BY InitSInv
<1>2. SInv /\ [Next]_vars => SInv'
  <2> SUFFICES ASSUME SInv, [Next]_vars PROVE SInv'
    OBVIOUS
  <2>1. IInv'
    BY StepIInv DEF SInv
  <2>2. ASSUME NEW a \in Address, NEW length \in Length, MakeWriter(a, length)
        PROVE  SInv'
    BY <2>1, <2>2, MakeWriterSInv
  <2>3. ASSUME NEW a \in Address, NEW received \in BOOLEAN, Transmit(a, received)
        PROVE  SInv'
    BY <2>1, <2>3, TransmitSInv
  <2>4. ASSUME NEW a \in Address, Restart(a)
        PROVE  SInv'
    BY <2>1, <2>4, RestartSInv
  <2>5. CASE UNCHANGED vars
    BY <2>1, <2>5, StutterSInv
  <2> QED BY <2>2, <2>3, <2>4, <2>5 DEF Next
<1> QED BY <1>1, <1>2, PTL DEF Spec

\* The table of receivers stays within MAX_NODES and a reader within the symbols
\* of its message.
THEOREM TypeCorrect == Spec => []TypeOK
<1>1. SInv => TypeOK
  <2> SUFFICES ASSUME SInv PROVE TypeOK
    OBVIOUS
  <2>1. /\ sent \in [Address -> Seq(Header)]
        /\ next_number \in [Address -> 0 .. NumberSpace - 1]
        /\ DOMAIN receivers \subseteq Address
        /\ delivered \in [Address -> Seq(Nat)]
    BY DEF SInv, IInv, Shapes, Number
  <2>2. /\ \A a \in Address : writer[a] # None => writer[a] \in Nat
        /\ restarts \in Nat
        /\ Cardinality(DOMAIN receivers) <= MaxNodes
        /\ \A a \in DOMAIN receivers :
              /\ receivers[a].last_completed \in (0 .. NumberSpace - 1) \cup {None}
              /\ receivers[a].reader # None => IsReader(receivers[a].reader)
        /\ \A a \in Address : heard[a] \subseteq Nat
        /\ panicked \in BOOLEAN
    BY DEF SInv, Types, Number
  <2> QED BY <2>1, <2>2 DEF TypeOK
<1> QED BY <1>1, SafeInvariance, PTL

\* A message all of whose source symbols were received arrives, or has the
\* number of the last that did, whatever was lost before it.
THEOREM HeardArrives == Spec => []HeardIsDelivered
<1>1. SInv => HeardIsDelivered
  <2> SUFFICES ASSUME SInv, NEW a \in DOMAIN receivers, ~panicked,
                      Source(LastSent(a).length) \subseteq heard[a]
               PROVE  \/ \E k \in DOMAIN delivered[a] : delivered[a][k] = Len(sent[a])
                      \/ /\ delivered[a] # <<>>
                         /\ sent[a][Link!Last(delivered[a])].number = LastSent(a).number
    BY DEF HeardIsDelivered
  <2>1. a \in Address /\ HasReceiver(a)
    BY DEF SInv, IInv, Shapes, HasReceiver
  <2>2. CASE heard[a] = {}
    <3>1. LastSent(a) \in Header
      BY <2>1 DEF SInv, IInv, Shapes, Types, LastSent
    <3>2. 0 \in Source(LastSent(a).length)
      BY <3>1, Counts DEF Header
    <3> QED BY <2>2, <3>2
  <2>3. CASE heard[a] # {}
    <3>1. Kept(a)
      BY <2>1, <2>3 DEF SInv, HeardIsKept
    <3>2. ~Gathering(receivers[a].reader, LastSent(a), heard[a])
      BY DEF Gathering
    <3>3. receivers[a].last_completed = LastSent(a).number
      BY <2>1, <3>1, <3>2 DEF Kept
    <3>4. LastSent(a) \in Header
      BY <2>1, <3>1 DEF SInv, IInv, Shapes, Kept, LastSent
    <3>5. receivers[a].last_completed # None
      BY <3>3, <3>4, NoneAssumption DEF Header
    <3> QED BY <3>3, <3>5 DEF SInv, CompletedIsDelivered
  <2> QED BY <2>2, <2>3
<1> QED BY <1>1, SafeInvariance, PTL

\* Symbols of two messages meet only if the messages have the same number and
\* length, and so a device panics over what it decoded only after such twins.
THEOREM MixedAreTwins == Spec => []OnlyTwinsMix
<1>1. SInv => OnlyTwinsMix
  <2> SUFFICES ASSUME SInv PROVE OnlyTwinsMix
    OBVIOUS
  <2>1. \A a \in DOMAIN receivers : receivers[a].reader # None =>
            \A m \in Range(receivers[a].reader.symbols) :
                sent[a][m] = HeaderOf(receivers[a].reader)
    BY DEF SInv, OneHeader, Range
  <2> QED BY <2>1 DEF SInv, Twins, HeaderOf, OnlyTwinsMix
<1> QED BY <1>1, SafeInvariance, PTL
=============================================================================
