----------------------------- MODULE MCContext -----------------------------
(***************************************************************************)
(* The notes and attachments of one record for TLC.                        *)
(***************************************************************************)
EXTENDS Context

Symmetric == Permutations(Workers) \union Permutations(Notes) \union Permutations(Attachments)
=============================================================================
