----------------------------- MODULE MCJournal -----------------------------
(* Small instances of OperationJournal for TLC. *)
EXTENDS OperationJournal, TLC
=============================================================================
