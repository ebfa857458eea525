---------------------------- MODULE TokenLedger ----------------------------
(***************************************************************************)
(* The token ledger as a whole: what the counter row of TokenAllowance     *)
(* says of all the effects of the week, and the abstract ledger its rows   *)
(* implement.                                                              *)
(***************************************************************************)
EXTENDS TokenAllowance, FiniteSets, Functions

\* A beneficiary sends finitely many messages in a week.
ASSUME EffectAssumption == IsFiniteSet(Effect)

\* What each effect holds back of the week, has spent of it and cost the provider.
Held == [e \in Effect |->
           IF effect[e].state \in {"reserved", "observed"} THEN effect[e].tokens ELSE 0]
Spent == [e \in Effect |->
            IF effect[e].state = "finalized" THEN evidence[e].tokens ELSE 0]
Cost == [e \in Effect |-> evidence[e].tokens]

\* The counter is exactly the sum over the effects and the evidence, whatever
\* was retried, lost or refused: nothing is set aside, charged or costed twice
\* (reserve_allowance, _record_usage, _complete_allowance).
CounterAccounts ==
    /\ counter.reserved = SumFunction(Held)
    /\ counter.finalized = SumFunction(Spent)
    /\ counter.cost = SumFunction(Cost)

\* The abstract ledger, read off the rows.
LedgerRows == [e \in Effect |-> [state |-> effect[e].state,
                                tokens |-> effect[e].tokens,
                                cost |-> evidence[e].tokens]]

Ledger == INSTANCE AllowanceLedger WITH ledger <- LedgerRows, grant <- counter.plan

\* The rows implement the ledger: every transaction is one step of it, and the
\* test against the counter admits only what the sum over the effects leaves
\* room for.
ImplementsLedger == Ledger!Spec
=============================================================================
