------------------------------ MODULE MCChannel ------------------------------
(* Four nodes of which three fit, sequences to 4, three envelope ids. *)
EXTENDS Channel, TLC

Symmetry == Permutations(Node)
=============================================================================
