--------------------------- MODULE MCHelpRequest ---------------------------
(* HelpRequest for TLC. *)
EXTENDS HelpRequest, TLC

MCSymmetry == Permutations(Run) \cup Permutations(Teacher) \cup Permutations(Conversation)
=============================================================================
