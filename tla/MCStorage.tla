------------------------------ MODULE MCStorage ------------------------------
(* Three records: two that share a slab, one too long to be the second. *)
EXTENDS Storage

MCRecord ==
    {[max_sequence |-> 0, message_count |-> 1, words |-> 1],
     [max_sequence |-> 1, message_count |-> 1, words |-> 2],
     [max_sequence |-> 1, message_count |-> 2, words |-> 1]}
=============================================================================
