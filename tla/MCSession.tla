----------------------------- MODULE MCSession -----------------------------
(***************************************************************************)
(* Instances of the session for TLC.                                        *)
(***************************************************************************)
EXTENDS SyncSession, TLC

Symmetry == Permutations(Socket) \cup Permutations(Request)
=============================================================================
