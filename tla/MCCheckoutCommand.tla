------------------------- MODULE MCCheckoutCommand -------------------------
(* CheckoutCommand for TLC. *)
EXTENDS CheckoutCommand, TLC

MCSymmetry == Permutations(Run) \cup Permutations(Key)
=============================================================================
