------------------------------ MODULE MCChyme ------------------------------
(***************************************************************************)
(* A small bucket in front of a small pipeline for TLC: below Root objects *)
(* f and g and a prefix sub with an object deep; one message for each job. *)
(***************************************************************************)
EXTENDS Chyme, TLC

CONSTANTS sub,            \* a prefix
          f, g, deep      \* objects

Tree ==
  [p \in Prefix |-> (IF p = Root THEN {f, g, sub} ELSE {deep})
                     \cap (Prefix \cup Object)]

Level == [p \in Prefix |-> IF p = Root THEN 1 ELSE 2]

\* Messages and jobs correspond.
JobFor ==
  CHOOSE t \in [Message -> Job] : \A j \in Job : \E m \in Message : t[m] = j

Symmetry == Permutations(Receipt) \cup Permutations(Host)
=============================================================================
