-------------------------- MODULE MCTokenAllowance --------------------------
(***************************************************************************)
(* TLC instances of TokenLedger: two concurrent calls in a week whose plan *)
(* is changed once, over two effects that compete for the budget, or over  *)
(* one effect whose calls repeat and disagree.                             *)
(***************************************************************************)
EXTENDS TokenLedger, TLC

\* Two effects of one token: room for one under the first grant, for both
\* under the second.
ContendedWeek == {[version |-> 1, budget |-> 1], [version |-> 2, budget |-> 2]}

\* One effect asked for with one token or two.
ReplayedWeek == {[version |-> 1, budget |-> 2], [version |-> 2, budget |-> 3]}

MCSymmetry == Permutations(Proc) \cup Permutations(Effect)
=============================================================================
