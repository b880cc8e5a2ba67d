------------------------------- MODULE MCConsole -------------------------------
(***************************************************************************)
(* A small instance of Console: one policy at first and two ids more, a    *)
(* seeded administrator and a developer who registers.                     *)
(***************************************************************************)
EXTENDS Console

FirstPolicies == {1}

Names == {"admin", "sam"}

RoleOf == [a \in Names |-> IF a = "admin" THEN "admin" ELSE "developer"]

SearchTexts == {Names, {"sam"}}
=============================================================================
