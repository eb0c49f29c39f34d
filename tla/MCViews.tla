------------------------------ MODULE MCViews ------------------------------
(***************************************************************************)
(* Instances of the views for TLC.                                          *)
(***************************************************************************)
EXTENDS ViewSystem

\* An insertion of two rows at once, an update of one of them, a transaction
\* that writes both and a deletion of both.
MCKind == [o \in Op |->
    CASE o = "batch" -> "createMany" [] o = "edit" -> "update"
      [] o = "tx" -> "transaction" [] o = "clear" -> "deleteMany"]
MCTouches == [o \in Op |-> IF o = "edit" THEN {1} ELSE {1, 2}]
=============================================================================
