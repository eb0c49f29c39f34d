---------------------------- MODULE MCConnection ----------------------------
(***************************************************************************)
(* Instances of the connection for TLC.                                     *)
(***************************************************************************)
EXTENDS ConnectionSystem

\* The second version makes one index unique and adds another.
MCDeclared ==
    << [f \in Field |-> IF f = "email" THEN "plain" ELSE "none"],
       [f \in Field |-> IF f = "email" THEN "unique" ELSE "plain"] >>
=============================================================================
