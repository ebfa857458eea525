--------------------------- MODULE MessageCommand ---------------------------
(***************************************************************************)
(* One message command: the row that carries a student's question from its *)
(* commit to its answer, and the conditional writes that may be made to it *)
(* (services/ask_question/_store.py).  The operators are the conditions    *)
(* and the updates of those writes; AskQuestion says who makes them.       *)
(*                                                                         *)
(* Only differences between times matter to the code, so a time is kept as *)
(* its age in ticks.  A row carries the age of the time stamp its status   *)
(* is judged by ("since"): message_committed_at, claimedAt, failed_at or   *)
(* terminal_at.  A clock that was read some ticks ago is named by its lag. *)
(***************************************************************************)
EXTENDS Integers

CONSTANTS
    Run,                  \* invocations that may be generating at once
    NoRun,
    MaxAttempts,          \* MESSAGE_AI_MAX_ATTEMPTS
    LeaseTime,            \* _AI_LEASE_SECONDS
    RunTime,              \* how long Lambda lets one invocation live
    UnclaimedAfter,       \* _UNCLAIMED_AFTER
    SweepMaxAge,          \* _SWEEP_MAX_AGE
    KeptAnswerMaxAge,     \* _KEPT_ANSWER_MAX_AGE
    SettleTerminalAfter,  \* _SETTLE_TERMINAL_AFTER
    SettleLostAfter,      \* _SETTLE_AFTER["needs_reconciliation"]
    SettleDeadlineAfter   \* _SETTLE_AFTER["deadline_exceeded"]

ASSUME RunAssumption == NoRun \notin Run
ASSUME LimitAssumption ==
    /\ {MaxAttempts, LeaseTime, RunTime, SweepMaxAge, KeptAnswerMaxAge} \subseteq Nat \ {0}
    /\ {UnclaimedAfter, SettleTerminalAfter, SettleLostAfter, SettleDeadlineAfter}
          \subseteq Nat

\* The constants relate as the code's do.  The thresholds of the sweep rest on an
\* invocation being gone before what it left is settled: "two sweep runs", ten
\* minutes, against a lease of 5, waits of 10 and 20 and a window of 20.
ASSUME WindowAssumption ==
    /\ RunTime < LeaseTime + SettleTerminalAfter
    /\ RunTime < LeaseTime + SettleLostAfter
    /\ RunTime < SettleDeadlineAfter
    /\ RunTime + LeaseTime <= SweepMaxAge
    /\ 2 * RunTime <= SweepMaxAge + LeaseTime
    /\ SweepMaxAge <= KeptAnswerMaxAge

\* Ages above these are all alike.
OldAge == SweepMaxAge + 1
OldQuestion == KeptAnswerMaxAge + 1
Older(age, cap) == IF age < cap THEN age + 1 ELSE cap
-----------------------------------------------------------------------------
Status == {"message_committed", "ai_running", "failed", "completed", "terminal_failed"}

\* Failure categories, as far as anything tells them apart: "unpaid" stands for
\* every failure recorded as retryable, "final" for every other one.
Failure == {"needs_reconciliation", "deadline_exceeded", "unpaid", "final"}
Retryable(f) == f \in {"deadline_exceeded", "unpaid"}

Row == [status : Status, since : 0..OldAge, asked : 0..OldQuestion,
        leaseOwner : Run \cup {NoRun}, attempt : 0..MaxAttempts,
        invoked : 0..MaxAttempts,     \* provider_invoked_attempt; 0: no mark
        result : 0..MaxAttempts,      \* provider_result_attempt; 0: nothing kept
        failure : Failure \cup {"none"}, retryable : BOOLEAN,
        settled : BOOLEAN]            \* allowance_settled_at

CommittedRow ==
    [status |-> "message_committed", since |-> 0, asked |-> 0, leaseOwner |-> NoRun,
     attempt |-> 0, invoked |-> 0, result |-> 0, failure |-> "none",
     retryable |-> FALSE, settled |-> FALSE]

\* A time is older by a tick.
Aged(r) == [r EXCEPT !.since = Older(@, OldAge), !.asked = Older(@, OldQuestion)]
-----------------------------------------------------------------------------
\* failed_command_can_retry.
CanRetry(r) == r.retryable /\ r.attempt < MaxAttempts

\* expiresAt <= now, by a clock that was read lag ticks ago.
Expired(r, lag) == r.since >= LeaseTime + lag

\* The states classify_message_command tells apart for a committed command.
Resumable(r, lag) ==
    \/ r.status = "message_committed"
    \/ r.status = "ai_running" /\ Expired(r, lag)
    \/ r.status = "failed" /\ CanRetry(r)

Terminal(r) ==
    \/ r.status = "terminal_failed"
    \/ r.status = "failed" /\ ~CanRetry(r)

\* kept_answer_attempt; 0: the row holds no answer of the attempt that called.
KeptAnswer(r) == IF r.result = r.invoked THEN r.result ELSE 0

\* The last attempt died holding its answer: it may be claimed to store it.
Finishing(r) == r.attempt = MaxAttempts /\ KeptAnswer(r) = MaxAttempts

NextAttempt(r) == IF Finishing(r) THEN r.attempt ELSE r.attempt + 1

\* What claim_message_ai_lease asks of the row it read...
MayClaim(r, lag) == Resumable(r, lag) /\ NextAttempt(r) <= MaxAttempts

\* Mutated: the claim does not ask whether the mark changed since its read.
ClaimConditionBlind(r, lag, mark) ==
    \/ r.status = "message_committed"
    \/ /\ r.status = "ai_running"
       /\ Expired(r, lag)
       /\ r.attempt < MaxAttempts \/ (r.attempt = MaxAttempts /\ r.result = MaxAttempts)
    \/ r.status = "failed" /\ CanRetry(r)

\* ...and of the row it writes.  mark is the invocation mark it read.
ClaimCondition(r, lag, mark) ==
    /\ \/ r.status = "message_committed"
       \/ /\ r.status = "ai_running"
          /\ Expired(r, lag)
          /\ r.attempt < MaxAttempts \/ (r.attempt = MaxAttempts /\ r.result = MaxAttempts)
       \/ r.status = "failed" /\ CanRetry(r)
    /\ r.invoked = mark

\* Mutated: a claim starts its attempt with a clean row.
ClaimedUnmarked(r, w, n, lag) ==
    [r EXCEPT !.status = "ai_running", !.leaseOwner = w, !.since = lag, !.attempt = n,
              !.invoked = 0, !.result = 0, !.failure = "none", !.retryable = FALSE]

Claimed(r, w, n, lag) ==
    [r EXCEPT !.status = "ai_running", !.leaseOwner = w, !.since = lag, !.attempt = n,
              !.failure = "none", !.retryable = FALSE]

\* What generate_for_command does about an earlier call it found marked on the
\* row it claimed: call again, store what was kept, or never call again.
Recovery(r) ==
    CASE r.status # "ai_running" \/ r.invoked = 0 -> "generate"
      [] r.status = "ai_running" /\ r.invoked # 0 /\ r.result = r.invoked -> "finish"
      [] OTHER -> "reconcile"
-----------------------------------------------------------------------------
\* Mutated: any running attempt may write, whoever holds the lease.
HoldsAny(r, w, n) == r.status = "ai_running" /\ r.attempt = n

Holds(r, w, n) == r.status = "ai_running" /\ r.leaseOwner = w /\ r.attempt = n

\* The condition of _leased_command_update and of complete_message_command.
HoldsLive(r, w, n, lag) == Holds(r, w, n) /\ ~Expired(r, lag)

Marked(r, n) == [r EXCEPT !.invoked = n]
WithResult(r, n) == [r EXCEPT !.result = n]

\* renew_message_ai_lease does not ask for the attempt.
Renewable(r, w, lag) ==
    r.status = "ai_running" /\ r.leaseOwner = w /\ ~Expired(r, lag)
Renewed(r, lag) == [r EXCEPT !.since = lag]

\* MESSAGE_ATTEMPT_TRACE_FIELDS and the lease, which an outcome removes.
Cleared(r) == [r EXCEPT !.leaseOwner = NoRun, !.invoked = 0, !.result = 0]

Completed(r) == [Cleared(r) EXCEPT !.status = "completed", !.since = 0]

\* Mutated: a recorded failure forgets to say that it was paid for.
FailedRetryable(r, f) ==
    [Cleared(r) EXCEPT !.status = "failed", !.since = 0, !.failure = f, !.retryable = TRUE]

\* fail_message_command.
Failed(r, f) ==
    [Cleared(r) EXCEPT !.status = "failed", !.since = 0, !.failure = f,
                       !.retryable = Retryable(f)]

\* reopen_failed_message_command, for a request that read attempt n.
Reopenable(r, n) ==
    r.status = "failed" /\ r.retryable /\ r.attempt = n /\ r.attempt < MaxAttempts
Reopened(r) ==
    [r EXCEPT !.status = "message_committed", !.since = 0, !.failure = "none",
              !.retryable = FALSE]

\* Mutated: whatever became of the command in between is ended.
MayEndAnything(r) == r.attempt >= MaxAttempts /\ r.result = 0

\* mark_message_command_terminal: it does not ask whether the lease ran out.
MayEnd(r) == r.status = "ai_running" /\ r.attempt >= MaxAttempts /\ r.result = 0

\* close_stale_lease and mark_message_command_terminal leave the attempt's traces.
Ended(r) == [r EXCEPT !.status = "terminal_failed", !.leaseOwner = NoRun, !.since = 0]
-----------------------------------------------------------------------------
\* _finishable: the sweep still tries to store an answer that was kept.
Finishable(r) == KeptAnswer(r) # 0 /\ r.asked <= KeptAnswerMaxAge

\* Mutated: a lease is stale as soon as it ran out.
StaleAtOnce(r) == r.status = "ai_running" /\ Expired(r, 0) /\ ~Finishable(r)

\* _stale_lease: nobody took up the lease in the sweep's window.
StaleLease(r) ==
    r.status = "ai_running" /\ Expired(r, 0) /\ r.since > SweepMaxAge /\ ~Finishable(r)

\* What the sweep hands to answer: unclaimed, or a lease that ran out.
Candidate(r) ==
    /\ \/ r.status = "message_committed" /\ r.since >= UnclaimedAfter
       \/ r.status = "ai_running" /\ Expired(r, 0)
    /\ r.since <= SweepMaxAge \/ Finishable(r)

\* Mutated: a terminal command is settled as soon as it is seen.
SettlementDueAtOnce(r) ==
    /\ ~r.settled
    /\ \/ StaleLease(r)
       \/ r.status = "terminal_failed"
       \/ r.failure = "needs_reconciliation" /\ r.since >= SettleLostAfter
       \/ r.failure = "deadline_exceeded" /\ r.since >= SettleDeadlineAfter

\* Mutated: only recorded failures are settled.
SettlementDueFailuresOnly(r) ==
    /\ ~r.settled
    /\ \/ r.failure = "needs_reconciliation" /\ r.since >= SettleLostAfter
       \/ r.failure = "deadline_exceeded" /\ r.since >= SettleDeadlineAfter

\* _settlement_due, with the filter of scan_generation_sweep_commands.
SettlementDue(r) ==
    /\ ~r.settled
    /\ \/ StaleLease(r)
       \/ r.status = "terminal_failed" /\ r.since >= SettleTerminalAfter
       \/ r.failure = "needs_reconciliation" /\ r.since >= SettleLostAfter
       \/ r.failure = "deadline_exceeded" /\ r.since >= SettleDeadlineAfter

\* _unsettled_end_update: the end is still the one the sweep read.
SameEnd(r, read) == r.status = read.status /\ r.since = read.since /\ ~r.settled
=============================================================================
