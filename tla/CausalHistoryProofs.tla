------------------------- MODULE CausalHistoryProofs -------------------------
(***************************************************************************)
(* The promises of CausalHistory hold for every set of members and stamps. *)
(***************************************************************************)
EXTENDS CausalHistory, TLAPS

\* A sender knows its own messages, which is why each of them is sent on top of
\* the ones before.
OwnKnown == \A m \in Sent : m \in known[m[1]]

Inv == TypeOK /\ CausallyClosed /\ OwnKnown /\ SenderOrdered

\* Nothing is known and nothing is sent at first.
LEMMA InitInv == Init => Inv
  BY DEF Init, Inv, TypeOK, CausallyClosed, OwnKnown, SenderOrdered, Sent, Message

\* A new message is sent on top of what its sender knows, which is closed.
LEMMA SendInv ==
  ASSUME NEW c \in Node, NEW s \in Stamp, Inv, Send(c, s)
  PROVE  Inv'
<1> DEFINE m == <<c, s>>
<1>1. m \in Message /\ m[1] = c /\ m \notin Sent
  BY DEF Send, Message
<1>2. Sent' = Sent \cup {m}
  BY DEF Send, Sent
<1>3. past'[m] = known[c] /\ \A k \in Sent : past'[k] = past[k]
  BY <1>1 DEF Send, Sent
<1>4. /\ known'[c] = known[c] \cup {m}
      /\ \A d \in Node : d # c => known'[d] = known[d]
      /\ DOMAIN known' = Node
  BY DEF Send, Inv, TypeOK
<1>5. known \in [Node -> SUBSET Sent]
  BY DEF Inv, TypeOK
<1>6. TypeOK'
  <2>1. Sent' \subseteq Message
    BY <1>1, <1>2 DEF Inv, TypeOK
  <2>2. known' \in [Node -> SUBSET Sent]'
    BY <1>2, <1>5 DEF Send
  <2>3. past' \in [Sent -> SUBSET Sent]'
    BY <1>2, <1>5 DEF Send, Sent, Inv, TypeOK
  <2> QED BY <2>1, <2>2, <2>3 DEF TypeOK
<1>7. CausallyClosed'
  <2> SUFFICES ASSUME NEW d \in Node, NEW k \in known'[d]
               PROVE  past'[k] \subseteq known'[d]
    BY DEF CausallyClosed
  <2>1. CASE k = m
    BY <2>1, <1>1, <1>3, <1>4, <1>5
  <2>2. CASE k # m
    <3>1. k \in known[d] /\ k \in Sent
      BY <2>2, <1>4, <1>5
    <3>2. past[k] \subseteq known[d] /\ known[d] \subseteq known'[d]
      BY <3>1, <1>4 DEF Inv, CausallyClosed
    <3> QED BY <3>1, <3>2, <1>3
  <2> QED BY <2>1, <2>2
<1>8. OwnKnown'
  <2> SUFFICES ASSUME NEW k \in Sent' PROVE k \in known'[k[1]]
    BY DEF OwnKnown
  <2>1. CASE k = m
    BY <2>1, <1>1, <1>4
  <2>2. CASE k # m
    <3>1. k \in Sent /\ k \in known[k[1]] /\ k[1] \in Node
      BY <2>2, <1>2 DEF Inv, OwnKnown, TypeOK, Message
    <3> QED BY <3>1, <1>4
  <2> QED BY <2>1, <2>2
<1>9. SenderOrdered'
  <2> SUFFICES ASSUME NEW k \in Sent', NEW l \in Sent', k[1] = l[1], k # l
               PROVE  k \in past'[l] \/ l \in past'[k]
    BY DEF SenderOrdered
  <2>1. CASE k # m /\ l # m
    BY <2>1, <1>2, <1>3 DEF Inv, SenderOrdered
  <2>2. CASE k = m
    BY <2>2, <1>1, <1>2, <1>3 DEF Inv, OwnKnown
  <2>3. CASE l = m
    BY <2>3, <1>1, <1>2, <1>3 DEF Inv, OwnKnown
  <2> QED BY <2>1, <2>2, <2>3
<1> QED BY <1>6, <1>7, <1>8, <1>9 DEF Inv

\* What is learned leaves no hole in what a member knows.
LEMMA LearnInv ==
  ASSUME NEW c \in Node, NEW S \in SUBSET Sent, Inv, Learn(c, S)
  PROVE  Inv'
<1>1. past' = past /\ Sent' = Sent
  BY DEF Learn, Sent
<1>2. /\ known'[c] = known[c] \cup S
      /\ \A d \in Node : d # c => known'[d] = known[d]
      /\ \A d \in Node : known[d] \subseteq known'[d]
  BY DEF Learn, Inv, TypeOK
<1>3. TypeOK'
  BY <1>1 DEF Learn, Inv, TypeOK
<1>4. CausallyClosed'
  <2> SUFFICES ASSUME NEW d \in Node, NEW k \in known'[d]
               PROVE  past[k] \subseteq known'[d]
    BY <1>1 DEF CausallyClosed
  <2>1. CASE k \in known[d]
    BY <2>1, <1>2 DEF Inv, CausallyClosed
  <2>2. CASE k \notin known[d]
    <3>1. d = c /\ k \in S
      BY <2>2, <1>2
    <3> QED BY <3>1, <1>2 DEF Learn
  <2> QED BY <2>1, <2>2
<1>5. OwnKnown'
  BY <1>1, <1>2 DEF Inv, OwnKnown, TypeOK, Message
<1>6. SenderOrdered'
  BY <1>1 DEF Inv, SenderOrdered
<1> QED BY <1>3, <1>4, <1>5, <1>6 DEF Inv

\* What every behaviour of CausalHistory keeps.
THEOREM Invariance == Spec => []Inv
<1>1. Init => Inv
  BY InitInv
<1>2. Inv /\ [Next]_vars => Inv'
  <2> SUFFICES ASSUME Inv, [Next]_vars PROVE Inv'
    OBVIOUS
  <2>1. CASE \E c \in Node, s \in Stamp : Send(c, s)
    BY <2>1, SendInv
  <2>2. CASE \E c \in Node, S \in SUBSET Sent : Learn(c, S)
    BY <2>2, LearnInv
  <2>3. CASE UNCHANGED vars
    BY <2>3 DEF vars, Inv, TypeOK, CausallyClosed, OwnKnown, SenderOrdered, Sent
  <2> QED BY <2>1, <2>2, <2>3 DEF Next
<1> QED BY <1>1, <1>2, PTL DEF Spec

\* Members and messages have their types, and nobody knows an unsent message.
THEOREM TypeCorrect == Spec => []TypeOK
  BY Invariance, PTL DEF Inv

\* Receiving a buffer never leaves a member with a response to something it
\* lacks.
THEOREM CausalClosure == Spec => []CausallyClosed
  BY Invariance, PTL DEF Inv

\* The messages of one sender reach every member in the order of sending: of two
\* members, one has a first part of what the other has of them.
THEOREM ConsistentSenders == Spec => []SenderPrefixes
<1>1. Inv => SenderPrefixes
  <2> SUFFICES ASSUME Inv, NEW c \in Node, NEW d \in Node, NEW n \in Node,
                      NEW m \in SentBy(n, known[c]), m \notin SentBy(n, known[d]),
                      NEW k \in SentBy(n, known[d]), k \notin SentBy(n, known[c])
               PROVE  FALSE
    BY DEF SenderPrefixes
  <2>1. /\ m \in known[c] /\ m \notin known[d] /\ k \in known[d] /\ k \notin known[c]
        /\ m[1] = n /\ k[1] = n
    BY DEF SentBy
  <2>2. m \in Sent /\ k \in Sent /\ m # k
    BY <2>1 DEF Inv, TypeOK
  <2>3. m \in past[k] \/ k \in past[m]
    BY <2>1, <2>2 DEF Inv, SenderOrdered
  <2> QED BY <2>1, <2>3 DEF Inv, CausallyClosed
<1> QED BY <1>1, Invariance, PTL
=============================================================================
