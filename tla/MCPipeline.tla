----------------------------- MODULE MCPipeline -----------------------------
(***************************************************************************)
(* Small pipelines for TLC.  Every message is for the one job a template   *)
(* knows; there is one for each ingest and each call that may be retried.  *)
(* Messages, receipts and hosts are interchangeable.                       *)
(***************************************************************************)
EXTENDS Pipeline, TLC

OneJob == [m \in Message |-> CHOOSE j \in Job : TRUE]

ASSUME EnoughMessages == Cardinality(Message) = MaxIngests + MaxFaults

Symmetry ==
  Permutations(Message) \cup Permutations(Receipt) \cup Permutations(Host)
=============================================================================
