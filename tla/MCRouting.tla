----------------------------- MODULE MCRouting -----------------------------
(***************************************************************************)
(* Routing on four rooms. Paths are searched in every graph; tours in one  *)
(* connected like the museum's: a ring with one chord.                     *)
(***************************************************************************)
EXTENDS Routing

CONSTANTS n1, n2, n3, n4

MCPassage == {{n1, n2}, {n2, n3}, {n3, n4}, {n4, n1}, {n2, n4}}
=============================================================================
