--------------------------------- MODULE Log ---------------------------------
(***************************************************************************)
(* What Storage promises: a log of records.  A writer adds a batch of them *)
(* at the end, all of them when it commits and none when it is dropped,    *)
(* and nothing that is in the log changes any more.                        *)
(***************************************************************************)
EXTENDS Sequences

CONSTANT Record

VARIABLES
    log,            \* the records that can be read
    batch           \* the records of the open writer

vars == <<log, batch>>

Init == log = <<>> /\ batch = <<>>

Write(record) ==
    /\ batch' = Append(batch, record)
    /\ UNCHANGED log

Commit ==
    /\ log' = log \o batch
    /\ batch' = <<>>

Drop ==
    /\ batch' = <<>>
    /\ UNCHANGED log

Next == (\E record \in Record : Write(record)) \/ Commit \/ Drop

Spec == Init /\ [][Next]_vars
=============================================================================
