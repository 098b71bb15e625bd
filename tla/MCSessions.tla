----------------------------- MODULE MCSessions -----------------------------
(***************************************************************************)
(* A few logins for TLC.                                                   *)
(***************************************************************************)
EXTENDS Sessions, TLC

Symmetric == Permutations(Workers) \union Permutations(Codes) \union Permutations(Sessions)
=============================================================================
