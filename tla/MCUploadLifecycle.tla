------------------------- MODULE MCUploadLifecycle -------------------------
(* UploadLifecycle for TLC. *)
EXTENDS UploadLifecycle, TLC

MCSymmetry == Permutations(Run)
=============================================================================
