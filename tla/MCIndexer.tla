------------------------------ MODULE MCIndexer ------------------------------
(***************************************************************************)
(* A small bucket for TLC: below Root a prefix a, with a prefix big whose  *)
(* listing does not fit on a page, and an empty one beside it; the filter  *)
(* rejects object g.                                                       *)
(***************************************************************************)
EXTENDS Indexer

CONSTANTS a, big, deep, side,  \* prefixes
          f, g, h, i, j, k     \* objects

Tree ==
  [p \in Prefix |->
     CASE p = Root -> {a, side, f, g} [] p = a -> {big, h}
       [] p = big -> {deep, j, k} [] p = deep -> {i} [] p = side -> {}]

FirstPage == [p \in Prefix |-> IF p = big THEN {deep, j} ELSE Tree[p]]

Level ==
  [p \in Prefix |->
     CASE p = Root -> 1 [] p \in {a, side} -> 2 [] p = big -> 3
       [] p = deep -> 4]
=============================================================================
