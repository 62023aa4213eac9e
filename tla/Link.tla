-------------------------------- MODULE Link --------------------------------
(***************************************************************************)
(* What a device hears of its neighbours, message by message: of the       *)
(* messages each of them sends some are lost, none comes twice, and none   *)
(* comes after a later one.  Wire implements it, Discovery relies on it.   *)
(***************************************************************************)
EXTENDS Integers, Sequences

CONSTANT Address

VARIABLES
    count,          \* count[a]: how many messages a has sent
    delivered       \* delivered[a]: which of them were received, in order

vars == <<count, delivered>>

Last(messages) == IF messages = <<>> THEN 0 ELSE messages[Len(messages)]

Init ==
    /\ count = [a \in Address |-> 0]
    /\ delivered = [a \in Address |-> <<>>]

Send(a) ==
    /\ count' = [count EXCEPT ![a] = @ + 1]
    /\ UNCHANGED delivered

Deliver(a, i) ==
    /\ Last(delivered[a]) < i
    /\ delivered' = [delivered EXCEPT ![a] = Append(@, i)]
    /\ UNCHANGED count

Next == \E a \in Address : Send(a) \/ \E i \in 1 .. count[a] : Deliver(a, i)

Spec == Init /\ [][Next]_vars

-----------------------------------------------------------------------------

TypeOK ==
    /\ count \in [Address -> Nat]
    /\ delivered \in [Address -> Seq(Nat)]

\* No message is received that was not sent, none twice, and none after a later
\* one of its sender.
InOrder ==
    \A a \in Address :
        /\ \A k \in DOMAIN delivered[a] : delivered[a][k] \in 1 .. count[a]
        /\ \A j, k \in DOMAIN delivered[a] : j < k => delivered[a][j] < delivered[a][k]
=============================================================================
