----------------------------- MODULE MCSearch -----------------------------
(***************************************************************************)
(* Instances of the full-text search for TLC.                               *)
(***************************************************************************)
EXTENDS SearchSystem

CONSTANTS a, b

MCText == {{a}, {b}, {a, b}}

Symmetry == Permutations(Doc) \cup Permutations({a, b}) \cup Permutations(Worker)
===========================================================================
