------------------------------ MODULE MCAccess ------------------------------
(* Access for TLC: invites are interchangeable, and so are the users but one. *)
EXTENDS Access, TLC

AccessSymmetry == Permutations(Users \ {Owner}) \cup Permutations(Tokens)
=============================================================================
