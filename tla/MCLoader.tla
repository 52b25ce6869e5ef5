------------------------------ MODULE MCLoader ------------------------------
(***************************************************************************)
(* A small bucket for TLC: one prefix beside the root, two names, and an   *)
(* object of each place that was there before.                             *)
(***************************************************************************)
EXTENDS Loader

CONSTANTS p, f, g

SomePresent == {<<Root, f>>, <<p, f>>}
=============================================================================
