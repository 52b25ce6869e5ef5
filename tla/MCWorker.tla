------------------------------ MODULE MCWorker ------------------------------
(***************************************************************************)
(* Small worker clusters for TLC: values for the constants that a .cfg     *)
(* cannot write.  Receipts are interchangeable.                            *)
(***************************************************************************)
EXTENDS Worker, TLC

\* Every message carries the one task of the instance (duplicates).
SameTask == [m \in Message |-> CHOOSE t \in Task : TRUE]

Receipts == Permutations(Receipt)
=============================================================================
