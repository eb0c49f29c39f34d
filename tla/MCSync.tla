------------------------------- MODULE MCSync -------------------------------
(***************************************************************************)
(* Instances of the sync subsystem for TLC.                                 *)
(***************************************************************************)
EXTENDS SyncInvariant, TLC

Symmetry == Permutations(Local) \cup Permutations(Field)

\* A schema of this client that accepts nothing other clients wrote.
RefusedRemote == {r \in Record : \E f \in DOMAIN r : r[f] \in Remote}
=============================================================================
