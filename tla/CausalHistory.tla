---------------------------- MODULE CausalHistory ----------------------------
(***************************************************************************)
(* What a channel promises its members, without vector clocks, envelopes   *)
(* or storage: the consistency section of protocol/design.md as a          *)
(* specification.  Each member knows a set of messages.  A message is sent *)
(* on top of all its sender knows, and a member learns any number of       *)
(* messages at once, provided that it then knows all they were sent on     *)
(* top of.  Replication is shown to implement this.                        *)
(***************************************************************************)
EXTENDS Integers, FiniteSets

CONSTANTS
    Node,
    Stamp          \* what a sender tells its own messages apart by

\* A message is named by its sender and its stamp.
Message == Node \X Stamp

VARIABLES
    known,         \* known[c]: the messages member c has
    past           \* past[m]: what the sender of m knew when it sent m

vars == <<known, past>>

Sent == DOMAIN past

\* Members know, and messages were sent on top of, messages that were sent.
TypeOK ==
    /\ Sent \subseteq Message
    /\ known \in [Node -> SUBSET Sent]
    /\ past \in [Sent -> SUBSET Sent]

-----------------------------------------------------------------------------

Init ==
    /\ known = [c \in Node |-> {}]
    /\ past = [m \in {} |-> {}]

\* Member c sends a message on top of all it knows (do_send).
Send(c, s) ==
    /\ <<c, s>> \notin Sent
    /\ known' = [known EXCEPT ![c] = @ \cup {<<c, s>>}]
    /\ past' = [m \in Sent \cup {<<c, s>>} |-> IF m = <<c, s>> THEN known[c] ELSE past[m]]

\* Member c takes in a set of sent messages that leaves no hole (receive_buffer).
Learn(c, S) ==
    /\ known' = [known EXCEPT ![c] = @ \cup S]
    /\ \A m \in S : past[m] \subseteq known[c] \cup S
    /\ UNCHANGED past

Next ==
    \/ \E c \in Node, s \in Stamp : Send(c, s)
    \/ \E c \in Node, S \in SUBSET Sent : Learn(c, S)

Spec == Init /\ [][Next]_vars

-----------------------------------------------------------------------------

\* A member that has a message has everything its sender had before it: a
\* response is never known without what it responds to.
CausallyClosed ==
    \A c \in Node : \A m \in known[c] : past[m] \subseteq known[c]

SentBy(n, messages) == {m \in messages : m[1] = n}

\* Of the messages of one sender, two members have the same or one of them has
\* some first part of what the other has.
SenderPrefixes ==
    \A c, d, n \in Node :
        \/ SentBy(n, known[c]) \subseteq SentBy(n, known[d])
        \/ SentBy(n, known[d]) \subseteq SentBy(n, known[c])

\* The messages of one sender are totally ordered by what it knew when it sent
\* them.
SenderOrdered ==
    \A m, k \in Sent : m[1] = k[1] /\ m # k => m \in past[k] \/ k \in past[m]
=============================================================================
