------------------------------ MODULE MCAccess ------------------------------
(***************************************************************************)
(* A bootstrap admin and one invited user for TLC.                         *)
(***************************************************************************)
EXTENDS Access, TLC

Symmetric == Permutations(Workers) \union Permutations(Passkeys) \union Permutations(Invites)
=============================================================================
