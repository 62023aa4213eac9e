---------------------------- MODULE MCReplication ----------------------------
(* The runs of Replication differ in their constants only: see the cfgs. *)
EXTENDS Replication

\* All nodes but the owner are alike.
Symmetry == Permutations(Node \ {Owner})
=============================================================================
