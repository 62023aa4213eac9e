----------------------------- MODULE MCDiscovery -----------------------------
(* Three devices: d2 has both channels and announces both, the others have  *)
(* one each.  All of them hear of a channel that they lack or do not ask    *)
(* for.                                                                     *)
EXTENDS Discovery

CONSTANTS d1, d2, d3, c1, c2

MCKnows == [d \in Node |-> CASE d = d1 -> {c1} [] d = d2 -> {c1, c2} [] d = d3 -> {c2}]

MCAnnounces == [d \in Node |-> CASE d = d1 -> <<c1>> [] d = d2 -> <<c1, c2>> [] d = d3 -> <<c2>>]
=============================================================================
