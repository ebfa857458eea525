--------------------------- MODULE TokenAllowance ---------------------------
(***************************************************************************)
(* The weekly AI-token ledger of one beneficiary in one Zurich week:       *)
(* db/repositories/allowance_repo.py over db/repositories/weekly_counter.  *)
(*                                                                         *)
(* The ledger is three kinds of DynamoDB rows: one counter row, one effect *)
(* row per answered question and one immutable evidence row per effect.    *)
(* Every operation is an optimistic loop: it reads the effect, reads the   *)
(* counter, and then writes both in one transaction that is conditional on *)
(* the versions it read and on the account's deletion fence.  A step below *)
(* is one read or one transaction, so that the calls of concurrent Lambdas *)
(* interleave as they do against the table.                                *)
(*                                                                         *)
(* The two token dimensions (input, output) obey the same tests and sums   *)
(* independently; one of them is modelled.                                 *)
(***************************************************************************)
EXTENDS Integers

CONSTANTS
    Proc,       \* calls that may be in progress at once (Lambda invocations)
    Effect,     \* effect ids: one per message command
    Plan,       \* the grants in force over the week: [version, budget] records
    Tokens,     \* token counts a reservation or a reply may have
    Attempts    \* weekly_counter.DEFAULT_ATTEMPTS

ASSUME PlanAssumption ==
    Plan \subseteq [version : Nat \ {0}, budget : Nat]
ASSUME TokensAssumption == Tokens \subseteq Nat \ {0}
ASSUME AttemptsAssumption == Attempts \in Nat \ {0}

VARIABLES
    counter,    \* the beneficiary's counter row; version 0: there is none
    effect,     \* the effect rows
    evidence,   \* the provider-usage evidence rows
    active,     \* the account's retention fence is still active
    call        \* what each concurrent caller is doing

vars == <<counter, effect, evidence, active, call>>
-----------------------------------------------------------------------------
NoPlan == [version |-> 0, budget |-> 0]
Settlement == {"delivered", "unusable", "unknown_cost"}
Operation == {"reserve", "record", "settle"}

\* weekly_counter.TOKENS: the counts of a row, with the plan it was last
\* reserved under.
CounterRow == [version : Nat, plan : Plan \cup {NoPlan},
               reserved : Nat, finalized : Nat, cost : Nat]

NoCounter == [version |-> 0, plan |-> NoPlan,
              reserved |-> 0, finalized |-> 0, cost |-> 0]

EffectRow == [state : {"absent", "reserved", "observed", "finalized", "restored"},
              version : Nat, plan : Plan \cup {NoPlan}, tokens : Nat,
              settlement : Settlement \cup {"none"}]

NoEffect == [state |-> "absent", version |-> 0, plan |-> NoPlan, tokens |-> 0,
             settlement |-> "none"]

\* tokens = 0: there is no evidence row yet.
EvidenceRow == [tokens : Nat, basis : {"none", "reported", "unknown_cost"}]
NoEvidence == [tokens |-> 0, basis |-> "none"]

Disposition ==
    {"none", "admitted", "recorded", "settled", "replayed", "conflict",
     "limit_exceeded", "invalid_state", "retryable",
     "released", "already_settled", "nothing_reserved"}

Call == [pc : {"idle", "release", "effect", "counter", "write", "reread"},
         op : Operation, e : Effect,
         plan : Plan \cup {NoPlan}, tokens : Nat, basis : {"reported", "unknown_cost"},
         settlement : Settlement,
         row : EffectRow, seen : CounterRow, tries : Nat,
         release : BOOLEAN, out : Disposition]

TypeOK ==
    /\ counter \in CounterRow
    /\ effect \in [Effect -> EffectRow]
    /\ evidence \in [Effect -> EvidenceRow]
    /\ active \in BOOLEAN
    /\ call \in [Proc -> Call]
-----------------------------------------------------------------------------
\* The payload digests: what makes a repeated call a replay of the first one.
SameReservation(row, c) == row.plan = c.plan /\ row.tokens = c.tokens
SameEvidence(row, c) == row.tokens = c.tokens /\ row.basis = c.basis
SameSettlement(row, c) == row.settlement = c.settlement

\* Mutated: a stored row answers every repeat, also one that asks for something else.
ClassifyBlind(same) == "replayed"

Classify(same) == IF same THEN "replayed" ELSE "conflict"

Ended(row) == row.state \in {"finalized", "restored"}

\* An attempt that is over forgets the rows it read.
Forget(c) == [c EXCEPT !.row = NoEffect, !.seen = NoCounter]

IdleCall(e) ==
    [pc |-> "idle", op |-> "reserve", e |-> e, plan |-> NoPlan, tokens |-> 0,
     basis |-> "reported", settlement |-> "delivered", row |-> NoEffect,
     seen |-> NoCounter, tries |-> 0, release |-> FALSE, out |-> "none"]

\* What the caller hears; a release that hears of its record goes on to restore.
Outcome(c, d) ==
    LET end(x) == [IdleCall(c.e) EXCEPT !.out = x] IN
    CASE c.release /\ c.op = "record" /\ d \in {"recorded", "replayed"} ->
             [Forget(c) EXCEPT !.op = "settle", !.settlement = "unknown_cost",
                               !.pc = "effect", !.tries = 0]
      [] c.release /\ c.op = "record" /\ d # "invalid_state" -> end("retryable")
      [] c.release /\ c.op = "settle" /\ d \in {"settled", "replayed"} -> end("released")
      [] c.release /\ c.op = "settle" /\ d # "retryable" -> end("invalid_state")
      [] OTHER -> end(d)

Return(p, d) == call' = [call EXCEPT ![p] = Outcome(@, d)]
Goto(p, l) == call' = [call EXCEPT ![p].pc = l]

\* Mutated: the loop never gives up.
RetryForever(p) ==
    call' = [call EXCEPT ![p] = [Forget(@) EXCEPT !.pc = "effect"]]

Again(c) == [Forget(c) EXCEPT !.pc = "effect", !.tries = c.tries + 1]

\* weekly_counter.retry: a lost race is run again, at most Attempts times.
Retry(p) ==
    IF call[p].tries + 1 < Attempts
    THEN call' = [call EXCEPT ![p] = Again(call[p])]
    ELSE Return(p, "retryable")
-----------------------------------------------------------------------------
Init ==
    /\ counter = NoCounter
    /\ effect = [e \in Effect |-> NoEffect]
    /\ evidence = [e \in Effect |-> NoEvidence]
    /\ active = TRUE
    /\ call \in [Proc -> {IdleCall(e) : e \in Effect}]

\* reserve_allowance is called; a request above the plan's whole budget is
\* refused before anything is read.
CallReserve(p) ==
    /\ call[p].pc = "idle"
    /\ \E e \in Effect, pl \in Plan, n \in Tokens :
          LET c == [IdleCall(e) EXCEPT !.plan = pl, !.tokens = n, !.pc = "effect"]
          IN  call' = [call EXCEPT ![p] = IF n > pl.budget
                                          THEN Outcome(c, "limit_exceeded") ELSE c]
    /\ UNCHANGED <<counter, effect, evidence, active>>

\* record_provider_usage is called with what a reply really cost.
CallRecord(p) ==
    /\ call[p].pc = "idle"
    /\ \E e \in Effect, n \in Tokens :
          call' = [call EXCEPT ![p] =
                     [IdleCall(e) EXCEPT !.op = "record", !.tokens = n, !.pc = "effect"]]
    /\ UNCHANGED <<counter, effect, evidence, active>>

\* finalize_allowance or restore_allowance is called.
CallSettle(p) ==
    /\ call[p].pc = "idle"
    /\ \E e \in Effect, s \in {"delivered", "unusable"} :
          call' = [call EXCEPT ![p] =
                     [IdleCall(e) EXCEPT !.op = "settle", !.settlement = s,
                                         !.pc = "effect"]]
    /\ UNCHANGED <<counter, effect, evidence, active>>

\* release_unknown_cost is called, by the sweep of questions.
CallRelease(p) ==
    /\ call[p].pc = "idle"
    /\ \E e \in Effect :
          call' = [call EXCEPT ![p] =
                     [IdleCall(e) EXCEPT !.release = TRUE, !.pc = "release"]]
    /\ UNCHANGED <<counter, effect, evidence, active>>

\* The release reads the effect: what it finds decides whether the cost is
\* recorded at the ceiling first.
ReadForRelease(p) ==
    LET row == effect[call[p].e] IN
    /\ call[p].pc = "release"
    /\ call' = [call EXCEPT ![p] =
         CASE row.state = "absent" -> Outcome(@, "nothing_reserved")
           [] Ended(row) -> Outcome(@, "already_settled")
           [] row.state = "reserved" ->
                [@ EXCEPT !.pc = "effect", !.op = "record",
                          !.tokens = row.tokens, !.basis = "unknown_cost"]
           [] row.state = "observed" ->
                [@ EXCEPT !.pc = "effect", !.op = "settle",
                          !.settlement = "unknown_cost"]]
    /\ UNCHANGED <<counter, effect, evidence, active>>

\* An attempt starts by reading the effect, strongly: a reservation, a reply or
\* a settlement already stored answers the call.  (The read the code also makes
\* before its first attempt finds nothing this one would not.)
ReadEffect(p) ==
    LET c == call[p]
        row == effect[c.e]
        keep == call' = [call EXCEPT ![p].row = row, ![p].pc = "counter"]
    IN
    /\ c.pc = "effect"
    /\ CASE c.op = "reserve" ->
                IF row.state = "absent" THEN keep
                ELSE Return(p, Classify(SameReservation(row, c)))
         [] c.op = "record" ->
                CASE row.state = "absent" -> Return(p, "invalid_state")
                  [] row.state = "reserved" -> keep
                  [] OTHER -> Return(p, Classify(SameEvidence(evidence[c.e], c)))
         [] c.op = "settle" ->
                CASE Ended(row) -> Return(p, Classify(SameSettlement(row, c)))
                  [] row.state = "observed" -> keep
                  [] OTHER -> Return(p, "invalid_state")
    /\ UNCHANGED <<counter, effect, evidence, active>>
-----------------------------------------------------------------------------
\* Mutated: only what is set aside is tested, not what is already charged.
RefusalWithoutFinalized(c, row) ==
    CASE c.plan.version < row.plan.version -> "retryable"
      [] c.plan.version = row.plan.version /\ c.plan # row.plan -> "retryable"
      [] row.reserved + c.tokens > c.plan.budget -> "limit_exceeded"
      [] OTHER -> "none"

\* Mutated: the versions of the grants are not compared.
RefusalWithoutVersion(c, row) ==
    IF row.finalized + row.reserved + c.tokens > c.plan.budget
    THEN "limit_exceeded" ELSE "none"

\* What reserve_allowance refuses over the counter it read.
ReserveRefusal(c, row) ==
    CASE c.plan.version < row.plan.version -> "retryable"
      [] c.plan.version = row.plan.version /\ c.plan # row.plan -> "retryable"
      [] row.finalized + row.reserved + c.tokens > c.plan.budget -> "limit_exceeded"
      [] OTHER -> "none"

\* Mutated: a reply dearer than its reservation is charged all the same.
SettleRefusalWithoutCeiling(c, row) ==
    IF row.reserved < c.row.tokens THEN "invalid_state" ELSE "none"

\* What _complete_allowance refuses: a reply dearer than its reservation is
\* never finalized, and a counter never gives back more than it holds.
SettleRefusal(c, row) ==
    IF \/ c.settlement = "delivered" /\ evidence[c.e].tokens > c.row.tokens
       \/ row.reserved < c.row.tokens
    THEN "invalid_state" ELSE "none"

Refusal(c, row) ==
    CASE c.op = "reserve" -> ReserveRefusal(c, row)
      [] c.op = "record" -> IF row.version = 0 THEN "retryable" ELSE "none"
      [] c.op = "settle" -> SettleRefusal(c, row)

ReadCounter(p) ==
    LET c == call[p] IN
    /\ c.pc = "counter"
    /\ IF Refusal(c, counter) # "none"
       THEN Return(p, Refusal(c, counter))
       ELSE call' = [call EXCEPT ![p].seen = counter, ![p].pc = "write"]
    /\ UNCHANGED <<counter, effect, evidence, active>>

\* The next effect row, evidence row and counter row of each operation,
\* computed from what the attempt read.
NextEffect(c) ==
    CASE c.op = "reserve" ->
             [state |-> "reserved", version |-> 1, plan |-> c.plan,
              tokens |-> c.tokens, settlement |-> "none"]
      [] c.op = "record" ->
             [c.row EXCEPT !.state = "observed", !.version = @ + 1]
      [] c.op = "settle" ->
             [c.row EXCEPT !.state = IF c.settlement = "delivered"
                                     THEN "finalized" ELSE "restored",
                           !.version = @ + 1, !.settlement = c.settlement]

\* Mutated: what is given back is what the reply cost, not what was set aside.
NextCountsByCost(c) ==
    CASE c.op = "reserve" ->
             [c.seen EXCEPT !.reserved = @ + c.tokens, !.plan = c.plan]
      [] c.op = "record" ->
             [c.seen EXCEPT !.cost = @ + c.tokens]
      [] c.op = "settle" ->
             [c.seen EXCEPT !.reserved = @ - evidence[c.e].tokens,
                            !.finalized = @ + IF c.settlement = "delivered"
                                              THEN evidence[c.e].tokens ELSE 0]

\* Mutated: what was set aside is not given back when the reply is charged.
NextCountsKept(c) ==
    CASE c.op = "reserve" ->
             [c.seen EXCEPT !.reserved = @ + c.tokens, !.plan = c.plan]
      [] c.op = "record" ->
             [c.seen EXCEPT !.cost = @ + c.tokens]
      [] c.op = "settle" ->
             [c.seen EXCEPT !.finalized = @ + IF c.settlement = "delivered"
                                              THEN evidence[c.e].tokens ELSE 0]

NextCounts(c) ==
    CASE c.op = "reserve" ->
             [c.seen EXCEPT !.reserved = @ + c.tokens, !.plan = c.plan]
      [] c.op = "record" ->
             [c.seen EXCEPT !.cost = @ + c.tokens]
      [] c.op = "settle" ->
             [c.seen EXCEPT !.reserved = @ - c.row.tokens,
                            !.finalized = @ + IF c.settlement = "delivered"
                                              THEN evidence[c.e].tokens ELSE 0]

\* weekly_counter.write: the next version of the counter row.
NextCounter(c) == [NextCounts(c) EXCEPT !.version = c.seen.version + 1]

\* Mutated: the counter is replaced whatever its version is by now.
UnchangedButCounter(c) ==
    /\ active
    /\ effect[c.e].state = c.row.state
    /\ effect[c.e].version = c.row.version

\* The conditions of the transaction: the fence, the effect as it was read
\* (_put_create, _put_replace), no evidence yet, the counter's version.
Unchanged(c) ==
    /\ active
    /\ effect[c.e].state = c.row.state
    /\ effect[c.e].version = c.row.version
    /\ c.op = "record" => evidence[c.e].tokens = 0
    /\ counter.version = c.seen.version

Apply(c) ==
    /\ effect' = [effect EXCEPT ![c.e] = NextEffect(c)]
    /\ evidence' = IF c.op = "record"
                   THEN [evidence EXCEPT ![c.e] = [tokens |-> c.tokens, basis |-> c.basis]]
                   ELSE evidence
    /\ counter' = NextCounter(c)

Written(c) ==
    CASE c.op = "reserve" -> "admitted"
      [] c.op = "record" -> "recorded"
      [] c.op = "settle" -> "settled"

AwaitReread(p) == call' = [call EXCEPT ![p] = [Forget(@) EXCEPT !.pc = "reread"]]

\* The transaction is applied and the caller told so.
Write(p) ==
    /\ call[p].pc = "write"
    /\ Unchanged(call[p])
    /\ Apply(call[p])
    /\ Return(p, Written(call[p]))
    /\ UNCHANGED active

\* The transaction is applied but its answer is lost (a timed-out call).
WriteAnswerLost(p) ==
    /\ call[p].pc = "write"
    /\ Unchanged(call[p])
    /\ Apply(call[p])
    /\ AwaitReread(p)
    /\ UNCHANGED active

\* The transaction fails: a condition does not hold, or the table refused it.
WriteRefused(p) ==
    /\ call[p].pc = "write"
    /\ AwaitReread(p)
    /\ UNCHANGED <<counter, effect, evidence, active>>

\* After a failed write the row that would exist had the call been made is
\* read again: it answers the call, or the attempt is repeated.
Reread(p) ==
    LET c == call[p]
        row == effect[c.e]
    IN
    /\ c.pc = "reread"
    /\ CASE c.op = "reserve" /\ row.state # "absent" ->
                Return(p, Classify(SameReservation(row, c)))
         [] c.op = "record" /\ evidence[c.e].tokens # 0 ->
                Return(p, Classify(SameEvidence(evidence[c.e], c)))
         [] c.op = "settle" /\ Ended(row) ->
                Return(p, Classify(SameSettlement(row, c)))
         [] OTHER -> Retry(p)
    /\ UNCHANGED <<counter, effect, evidence, active>>

\* A read the table did not answer, in any of the reading steps.
ReadUnavailable(p) ==
    /\ call[p].pc \in {"release", "effect", "counter", "reread"}
    /\ Return(p, "retryable")
    /\ UNCHANGED <<counter, effect, evidence, active>>

\* The invocation dies: what it was doing is forgotten.
Crash(p) ==
    /\ call[p].pc # "idle"
    /\ call' = [call EXCEPT ![p] = IdleCall(call[p].e)]
    /\ UNCHANGED <<counter, effect, evidence, active>>

\* Account deletion takes the fence; no ledger transaction succeeds after it.
FenceAccount ==
    /\ active
    /\ active' = FALSE
    /\ UNCHANGED <<counter, effect, evidence, call>>

CallStep(p) ==
    \/ CallReserve(p) \/ CallRecord(p) \/ CallSettle(p) \/ CallRelease(p)
    \/ ReadForRelease(p) \/ ReadEffect(p) \/ ReadCounter(p)
    \/ Write(p) \/ WriteAnswerLost(p) \/ WriteRefused(p) \/ Reread(p)
    \/ ReadUnavailable(p) \/ Crash(p)

Next == FenceAccount \/ \E p \in Proc : CallStep(p)

Spec == Init /\ [][Next]_vars
-----------------------------------------------------------------------------
(* Safety.                                                                 *)

\* An admission never leaves the week above the budget it was admitted under,
\* however stale the counter the caller tested (reserve_allowance).
AdmittedWithinBudget ==
    [][counter'.reserved > counter.reserved =>
          counter'.finalized + counter'.reserved <= counter'.plan.budget]_vars

\* No interleaving of reservations, settlements and plan changes takes the
\* week's use above the largest grant of the week (reserve_allowance, line 564).
WithinLargestGrant ==
    \/ counter.finalized + counter.reserved = 0
    \/ \E pl \in Plan : counter.finalized + counter.reserved <= pl.budget

\* What a caller is told is so, also when the answer of its own write was lost
\* and it learns the outcome from a later read.
AnswersHold ==
    [][\A p \in Proc :
          LET c == call[p]
              told == call'[p].out
              yes == told \in {"admitted", "recorded", "settled", "replayed"}
          IN  c.pc # "idle" /\ call'[p].pc = "idle" =>
                /\ yes /\ c.op = "reserve" => SameReservation(effect'[c.e], c)
                /\ yes /\ c.op = "record" => SameEvidence(evidence'[c.e], c)
                /\ yes /\ c.op = "settle" => SameSettlement(effect'[c.e], c)
                /\ told = "released" => effect'[c.e].settlement = "unknown_cost"
                /\ told = "already_settled" => Ended(effect'[c.e])]_vars

\* The plan a week is counted under never goes back to an older grant, even
\* when a reservation under the older one is still on its way.
GrantNeverOlder == [][counter'.plan.version >= counter.plan.version]_vars
-----------------------------------------------------------------------------
(* Liveness: a call ends by itself, whatever the others do to its writes.  *)

Progress(p) ==
    \/ ReadForRelease(p) \/ ReadEffect(p) \/ ReadCounter(p)
    \/ Write(p) \/ WriteAnswerLost(p) \/ WriteRefused(p) \/ Reread(p)
    \/ ReadUnavailable(p)

FairSpec == Spec /\ \A p \in Proc : WF_vars(Progress(p))

\* The optimistic loop gives up after Attempts lost races: no call spins for
\* ever (weekly_counter.retry).
CallReturns == \A p \in Proc : call[p].pc # "idle" ~> call[p].pc = "idle"
=============================================================================
