--------------------------- MODULE MCAskQuestion ---------------------------
(* AskQuestion for TLC. *)
EXTENDS AskQuestion, TLC

MCSymmetry == Permutations(Run)
=============================================================================
