--------------------------- MODULE GaplessNumbers ---------------------------
(***************************************************************************)
(* What a business promises about the numbers it claims for its own        *)
(* documents: they appear one at a time, in order, each once, and none is  *)
(* skipped, however many requests fail half way.                           *)
(***************************************************************************)
EXTENDS Naturals, FiniteSets

CONSTANTS
  Documents,
  First        \* the number of the first document

VARIABLE number   \* the numbers of the documents that exist

Init == number = <<>>

Issue ==
  \E d \in Documents \ DOMAIN number :
    number' = [e \in DOMAIN number \union {d} |->
                 IF e = d THEN First + Cardinality(DOMAIN number) ELSE number[e]]

Spec == Init /\ [][Issue]_number
=============================================================================
