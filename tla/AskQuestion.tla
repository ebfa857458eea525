---------------------------- MODULE AskQuestion ----------------------------
(***************************************************************************)
(* Answering one committed question: services/ask_question.                *)
(*                                                                         *)
(* Lambda delivers the command to a worker, which claims its lease,        *)
(* reserves tokens, marks that it calls the model, calls it, keeps the     *)
(* answer, charges it and stores it.  The worker may die at any point and  *)
(* the command be delivered again, late or twice.  A sweep takes up what a *)
(* dead worker left and, after a while, settles the reservations nobody    *)
(* else will.  The student may send a failed question again.               *)
(*                                                                         *)
(* A step is one read or one conditional write of the table, or one        *)
(* operation of the ledger (TokenAllowance: each is atomic).  Workers are  *)
(* dispatched as in production, LambdaWorker, not in the request.          *)
(***************************************************************************)
EXTENDS MessageCommand

CONSTANT Settler      \* sweep runs that may settle reservations at once

VARIABLES
    cmd,        \* the message command row
    effect,     \* its effect in the ledger: state and kind of evidence
    run,        \* what each worker invocation is doing
    settler,    \* what each sweep run is settling
    retry       \* the attempt a student's retry read as failed; 0: none

\* History that no step reads and the properties speak of.
VARIABLES
    paid,       \* how many model calls reported their usage, refused to, or were
                \* never heard of again: the code takes each of them for paid
    unreported, \* how many failed after the model may have begun, with no usage
                \* reported: they may be on the bill, the code takes none for paid
    answers     \* how many answers were stored

vars == <<cmd, effect, run, settler, retry, paid, unreported, answers>>
-----------------------------------------------------------------------------
IdleRun == [pc |-> "idle", age |-> 0, lag |-> 0, n |-> 0, mark |-> 0,
            plan |-> "generate", failure |-> "none"]

RunState ==
    [pc : {"idle", "claim", "take", "prepare", "reserve", "mark", "invoke", "keep",
           "observe", "renew", "complete", "finalize", "restore", "fail",
           "current", "terminal"},
     age : 0..RunTime, lag : 0..RunTime, n : 0..MaxAttempts, mark : 0..MaxAttempts,
     plan : {"generate", "finish", "reconcile"}, failure : Failure \cup {"none"}]

\* What a sweep remembers of the row it scanned.
Seen(r) == [status |-> r.status, since |-> r.since, leaseOwner |-> r.leaseOwner]

IdleSettler == [pc |-> "idle", age |-> 0, read |-> Seen(CommittedRow)]

SettlerState ==
    [pc : {"idle", "close", "release", "restore", "mark"}, age : 0..RunTime,
     read : [status : Status, since : 0..OldAge, leaseOwner : Run \cup {NoRun}]]

Effect == [state : {"none", "reserved", "observed", "finalized", "restored"},
           evidence : {"none", "reported", "unknown_cost"}]

TypeOK ==
    /\ cmd \in Row
    /\ effect \in Effect
    /\ run \in [Run -> RunState]
    /\ settler \in [Settler -> SettlerState]
    /\ retry \in 0..MaxAttempts
    /\ paid \in 0..2
    /\ unreported \in Nat
    /\ answers \in 0..2

Capped(n, cap) == IF n < cap THEN n + 1 ELSE n

\* The question was just committed, and nothing was done about it.
Init ==
    /\ cmd = CommittedRow
    /\ effect = [state |-> "none", evidence |-> "none"]
    /\ run = [w \in Run |-> IdleRun]
    /\ settler = [s \in Settler |-> IdleSettler]
    /\ retry = 0 /\ paid = 0 /\ unreported = 0 /\ answers = 0
-----------------------------------------------------------------------------
\* The run goes on at l, with a clock it reads now.
Goto(w, l) == run' = [run EXCEPT ![w].pc = l, ![w].lag = 0]

\* The run is over: it returned, or raised.
Stop(w) == run' = [run EXCEPT ![w] = IdleRun]

\* An attempt that failed goes on to record it as f.
FailAs(w, f) == run' = [run EXCEPT ![w].pc = "fail", ![w].failure = f, ![w].lag = 0]

Active(w) == run[w].pc # "idle"

\* Time passes; Lambda ends an invocation that has run for RunTime.
Tick ==
    /\ \A w \in Run : Active(w) => run[w].age < RunTime
    /\ \A s \in Settler : settler[s].pc # "idle" => settler[s].age < RunTime
    /\ cmd' = Aged(cmd)
    /\ run' = [w \in Run |->
                 IF Active(w) THEN [run[w] EXCEPT !.age = @ + 1, !.lag = @ + 1] ELSE run[w]]
    /\ settler' = [s \in Settler |->
                 IF settler[s].pc = "idle" THEN settler[s]
                 ELSE [settler[s] EXCEPT !.age = @ + 1, !.read.since = Older(@, OldAge)]]
    /\ UNCHANGED <<effect, retry, paid, unreported, answers>>

\* answer(): an event or a sweep hands the command over.  A failure is the
\* student's to retry; a lease held, an end or a stored answer needs nothing.
Deliver(w) ==
    /\ ~Active(w)
    /\ Resumable(cmd, 0)
    /\ cmd.status # "failed"
    /\ run' = [run EXCEPT ![w] = [IdleRun EXCEPT !.pc = "claim"]]
    /\ UNCHANGED <<cmd, effect, settler, retry, paid, unreported, answers>>

\* claim_message_ai_lease reads the row.  What cannot be claimed is over, unless
\* its attempts are used up and it is to be ended.
ReadForClaim(w) ==
    LET c == run[w] IN
    /\ c.pc = "claim"
    /\ IF MayClaim(cmd, c.lag)
       THEN run' = [run EXCEPT ![w].pc = "take", ![w].n = NextAttempt(cmd),
                               ![w].mark = cmd.invoked, ![w].plan = Recovery(cmd)]
       ELSE IF cmd.status # "completed" /\ cmd.attempt >= MaxAttempts
            THEN run' = [run EXCEPT ![w].pc = "current"]
            ELSE Stop(w)
    /\ UNCHANGED <<cmd, effect, settler, retry, paid, unreported, answers>>

AfterClaim == [generate |-> "prepare", finish |-> "observe", reconcile |-> "fail"]

\* The conditional write of the claim.  A claim that another one overtook looks
\* at the row again, as a claim that was refused does.
Take(w) ==
    LET c == run[w] IN
    /\ c.pc = "take"
    /\ IF ClaimCondition(cmd, c.lag, c.mark)
       THEN /\ cmd' = Claimed(cmd, w, c.n, c.lag)
            /\ run' = [run EXCEPT ![w].pc = AfterClaim[c.plan], ![w].lag = 0,
                         ![w].failure = IF c.plan = "reconcile"
                                        THEN "needs_reconciliation" ELSE "none"]
       ELSE /\ IF cmd.status # "completed" /\ cmd.attempt >= MaxAttempts
               THEN run' = [run EXCEPT ![w].pc = "current"]
               ELSE Stop(w)
            /\ UNCHANGED cmd
    /\ UNCHANGED <<effect, settler, retry, paid, unreported, answers>>

\* Attempts used up: the row is read once more before it is ended...
ReadCurrent(w) ==
    /\ run[w].pc = "current"
    /\ IF Terminal(cmd) \/ Resumable(cmd, run[w].lag)
       THEN run' = [run EXCEPT ![w].pc = "terminal"]
       ELSE Stop(w)
    /\ UNCHANGED <<cmd, effect, settler, retry, paid, unreported, answers>>

\* ...and ended, if its last attempt died without keeping an answer.
MarkTerminal(w) ==
    /\ run[w].pc = "terminal"
    /\ cmd' = IF MayEnd(cmd) THEN Ended(cmd) ELSE cmd
    /\ Stop(w)
    /\ UNCHANGED <<effect, settler, retry, paid, unreported, answers>>
-----------------------------------------------------------------------------
\* Attachments are read, the prompt is made and its tokens counted.
Prepare(w) ==
    /\ run[w].pc = "prepare"
    /\ \/ Goto(w, "reserve")
       \/ \E f \in {"unpaid", "final"} : FailAs(w, f)
    /\ UNCHANGED <<cmd, effect, settler, retry, paid, unreported, answers>>

\* Reserve before the call.  A reservation already there is replayed, whatever
\* has become of it; the ledger may refuse, and the time may be used up.
Reserve(w) ==
    /\ run[w].pc = "reserve"
    /\ \/ /\ effect' = IF effect.state = "none" THEN [effect EXCEPT !.state = "reserved"]
                                                ELSE effect
          /\ Goto(w, "mark") \/ FailAs(w, "deadline_exceeded") \/ FailAs(w, "unpaid")
       \/ FailAs(w, "unpaid") /\ UNCHANGED effect
    /\ UNCHANGED <<cmd, settler, retry, paid, unreported, answers>>

\* MeteredModel.mark_invocation: a call that was not recorded is not made.
MarkInvocation(w) ==
    LET c == run[w]
        holds == HoldsLive(cmd, w, c.n, c.lag)
    IN
    /\ c.pc = "mark"
    /\ cmd' = IF holds THEN Marked(cmd, c.n) ELSE cmd
    /\ IF holds THEN Goto(w, "invoke") \/ FailAs(w, "unpaid") ELSE FailAs(w, "unpaid")
    /\ UNCHANGED <<effect, settler, retry, paid, unreported, answers>>

\* The call's outcome is known, or the worker died over it: it counts as paid for.
Paid == paid' = Capped(paid, 2) /\ UNCHANGED unreported

\* The model is called.  It answers; or its reply is cut off or garbled, with its
\* usage; or the usage is refused; or the worker dies meanwhile.  Or it fails and
\* nothing was paid; or after it began, without usage: the stream is read past its
\* deadline, breaks, or brings what cannot be read.
Invoke(w) ==
    /\ run[w].pc = "invoke"
    /\ \/ Goto(w, "keep") /\ Paid
       \/ /\ run' = [run EXCEPT ![w].pc = "observe", ![w].failure = "final", ![w].lag = 0]
          /\ Paid
       \/ FailAs(w, "final") /\ Paid
       \/ Stop(w) /\ Paid
       \/ FailAs(w, "unpaid") /\ UNCHANGED <<paid, unreported>>
       \/ /\ FailAs(w, "unpaid") \/ FailAs(w, "deadline_exceeded")
          /\ unreported' = unreported + 1
          /\ UNCHANGED paid
    /\ UNCHANGED <<cmd, effect, settler, retry, answers>>

\* record_provider_result, best effort: the answer goes on whether or not it was kept.
KeepResult(w) ==
    LET c == run[w] IN
    /\ c.pc = "keep"
    /\ cmd' = IF HoldsLive(cmd, w, c.n, c.lag) THEN WithResult(cmd, c.n) ELSE cmd
    /\ Goto(w, "observe")
    /\ UNCHANGED <<effect, settler, retry, paid, unreported, answers>>

\* record_provider_usage, for an answer or for a reply that cannot be used.
Observe(w) ==
    LET observed == \/ effect.state = "reserved"
                    \/ effect.state # "none" /\ effect.evidence = "reported"
    IN
    /\ run[w].pc = "observe"
    /\ IF observed
       THEN /\ effect' = IF effect.state = "reserved"
                         THEN [state |-> "observed", evidence |-> "reported"]
                         ELSE effect
            /\ Goto(w, IF run[w].failure = "final" THEN "restore" ELSE "renew")
       ELSE Stop(w) /\ UNCHANGED effect
    /\ UNCHANGED <<cmd, settler, retry, paid, unreported, answers>>

\* restore_user_allowance: a reply that cannot be used is given back.
RestorePaid(w) ==
    /\ run[w].pc = "restore"
    /\ CASE effect.state = "observed" ->
                effect' = [effect EXCEPT !.state = "restored"] /\ FailAs(w, "final")
         [] effect.state = "restored" -> FailAs(w, "final") /\ UNCHANGED effect
         [] OTHER -> Stop(w) /\ UNCHANGED effect
    /\ UNCHANGED <<cmd, settler, retry, paid, unreported, answers>>

\* renew_message_ai_lease, with the clock the completion goes by too.
Renew(w) ==
    LET c == run[w] IN
    /\ c.pc = "renew"
    /\ IF Renewable(cmd, w, c.lag)
       THEN cmd' = Renewed(cmd, c.lag) /\ run' = [run EXCEPT ![w].pc = "complete"]
       ELSE Stop(w) /\ UNCHANGED cmd
    /\ UNCHANGED <<effect, settler, retry, paid, unreported, answers>>

\* complete_message_command: the answer and the command's end in one transaction.
\* An answer already stored is charged like one's own.
Complete(w) ==
    LET c == run[w] IN
    /\ c.pc = "complete"
    /\ IF HoldsLive(cmd, w, c.n, c.lag)
       THEN cmd' = Completed(cmd) /\ answers' = Capped(answers, 2) /\ Goto(w, "finalize")
       ELSE /\ IF cmd.status = "completed" THEN Goto(w, "finalize") ELSE Stop(w)
            /\ UNCHANGED <<cmd, answers>>
    /\ UNCHANGED <<effect, settler, retry, paid, unreported>>

Charged == IF effect.state = "observed" THEN [effect EXCEPT !.state = "finalized"] ELSE effect

\* finalize_token_allowance; it may refuse a reply dearer than its reservation.
Finalize(w) ==
    /\ run[w].pc = "finalize"
    /\ effect' \in {effect, Charged}
    /\ Stop(w)
    /\ UNCHANGED <<cmd, settler, retry, paid, unreported, answers>>

\* fail_message_command, best effort; a newer holder's command is left alone.
RecordFailure(w) ==
    LET c == run[w] IN
    /\ c.pc = "fail"
    /\ cmd' = IF Holds(cmd, w, c.n) THEN Failed(cmd, c.failure) ELSE cmd
    /\ Stop(w)
    /\ UNCHANGED <<effect, settler, retry, paid, unreported, answers>>

\* The invocation dies, a read or a write finds the table unavailable, or the
\* ledger or the account's fence refuses: the run raises and leaves the rest.
Crash(w) ==
    /\ Active(w)
    /\ Stop(w)
    /\ UNCHANGED <<cmd, effect, settler, retry, paid, unreported, answers>>
-----------------------------------------------------------------------------
\* The student sends a failed question again: the request reads the failure...
ReadFailed ==
    /\ cmd.status = "failed" /\ CanRetry(cmd)
    /\ retry' = cmd.attempt
    /\ UNCHANGED <<cmd, effect, run, settler, paid, unreported, answers>>

\* ...and puts the command back to waiting, if it is still that failure.
Reopen ==
    /\ retry # 0
    /\ cmd' = IF Reopenable(cmd, retry) THEN Reopened(cmd) ELSE cmd
    /\ retry' = 0
    /\ UNCHANGED <<effect, run, settler, paid, unreported, answers>>

\* Whoever reads a completed command charges what was observed (_result_response).
Replay ==
    /\ cmd.status = "completed"
    /\ effect' = Charged
    /\ UNCHANGED <<cmd, run, settler, retry, paid, unreported, answers>>
-----------------------------------------------------------------------------
\* The sweep scans the table and finds a settlement due.
Scan(s) ==
    /\ settler[s].pc = "idle"
    /\ SettlementDue(cmd)
    /\ settler' = [settler EXCEPT ![s] = [pc |-> "close", age |-> 0, read |-> Seen(cmd)]]
    /\ UNCHANGED <<cmd, effect, run, retry, paid, unreported, answers>>

DoneSettling(s) == settler' = [settler EXCEPT ![s] = IdleSettler]

\* settle_reservation closes the command to retries first: a stale lease is
\* ended, a failure made final; a command ended already is.
Close(s) ==
    LET read == settler[s].read IN
    /\ settler[s].pc = "close"
    /\ CASE read.status = "ai_running" ->
                IF /\ cmd.status = "ai_running"
                   /\ cmd.leaseOwner = read.leaseOwner
                   /\ cmd.since = read.since
                THEN /\ cmd' = Ended(cmd)
                     /\ settler' = [settler EXCEPT ![s].pc = "release", ![s].read = Seen(cmd')]
                ELSE DoneSettling(s) /\ UNCHANGED cmd
         [] read.status = "failed" ->
                IF SameEnd(cmd, read)
                THEN /\ cmd' = [cmd EXCEPT !.retryable = FALSE]
                     /\ settler' = [settler EXCEPT ![s].pc = "release"]
                ELSE DoneSettling(s) /\ UNCHANGED cmd
         [] read.status = "terminal_failed" ->
                settler' = [settler EXCEPT ![s].pc = "release"] /\ UNCHANGED cmd
    /\ UNCHANGED <<effect, run, retry, paid, unreported, answers>>

\* release_unknown_cost: a cost nobody knows is recorded at the ceiling...
Release(s) ==
    /\ settler[s].pc = "release"
    /\ effect' = IF effect.state = "reserved"
                 THEN [state |-> "observed", evidence |-> "unknown_cost"] ELSE effect
    /\ settler' = [settler EXCEPT ![s].pc = "restore"]
    /\ UNCHANGED <<cmd, run, retry, paid, unreported, answers>>

\* ...and what was reserved is given back.
RestoreReleased(s) ==
    /\ settler[s].pc = "restore"
    /\ effect' = IF effect.state = "observed" THEN [effect EXCEPT !.state = "restored"]
                                              ELSE effect
    /\ settler' = [settler EXCEPT ![s].pc = "mark"]
    /\ UNCHANGED <<cmd, run, retry, paid, unreported, answers>>

\* mark_allowance_settled, last, so that a run that stops before is repeated.
MarkSettled(s) ==
    /\ settler[s].pc = "mark"
    /\ cmd' = IF SameEnd(cmd, settler[s].read) THEN [cmd EXCEPT !.settled = TRUE] ELSE cmd
    /\ DoneSettling(s)
    /\ UNCHANGED <<effect, run, retry, paid, unreported, answers>>

\* The sweep dies, or the ledger cannot settle now.
StopSettling(s) ==
    /\ settler[s].pc # "idle"
    /\ DoneSettling(s)
    /\ UNCHANGED <<cmd, effect, run, retry, paid, unreported, answers>>
-----------------------------------------------------------------------------
\* A run goes on.
Work(w) ==
    \/ ReadForClaim(w) \/ Take(w) \/ ReadCurrent(w) \/ MarkTerminal(w)
    \/ Prepare(w) \/ Reserve(w) \/ MarkInvocation(w) \/ Invoke(w) \/ KeepResult(w)
    \/ Observe(w) \/ RestorePaid(w) \/ Renew(w) \/ Complete(w) \/ Finalize(w)
    \/ RecordFailure(w)

Settle(s) == Close(s) \/ Release(s) \/ RestoreReleased(s) \/ MarkSettled(s)

Next ==
    \/ Tick
    \/ \E w \in Run : Deliver(w) \/ Work(w) \/ Crash(w)
    \/ ReadFailed \/ Reopen \/ Replay
    \/ \E s \in Settler : Scan(s) \/ Settle(s) \/ StopSettling(s)

Spec == Init /\ [][Next]_vars
-----------------------------------------------------------------------------
(* Safety.                                                                 *)

\* However often the command is delivered, retried and recovered, a model call that
\* reported its usage, or that a worker died over, is the only one of its kind and
\* the last one made (record_provider_invocation, claim_message_ai_lease).  A call
\* that failed without usage may be followed by another, and both be billed.
PaidOnce == paid <= 1 /\ (paid > 0 => \A w \in Run : run[w].pc # "invoke")

\* The model is called, and the call lasts, only while its tokens are set aside:
\* no sweep gives them back meanwhile, no retry reuses what was given back.
CalledUnderReservation ==
    \A w \in Run : run[w].pc = "invoke" => effect.state = "reserved"

\* A call that counts as paid for stays marked for the next attempt to find, until
\* its outcome is settled (MESSAGE_ATTEMPT_TRACE_FIELDS).
PaidCallMarked ==
    paid > 0 /\ cmd.status \in {"message_committed", "ai_running"} => cmd.invoked # 0

\* Whatever calls went before a failure the student may retry, none reported its
\* usage or was lost with its worker (fail_message_command, generate_for_command).
RetryOnlyUnreported == cmd.status = "failed" /\ CanRetry(cmd) => paid = 0

\* An answer is stored once, with its cost known, and only then charged; what it
\* cost is never given back under it.
StoredAnswerCharged ==
    /\ answers <= 1
    /\ cmd.status = "completed" =>
         answers = 1 /\ effect.state \in {"observed", "finalized"}
                     /\ effect.evidence = "reported"
    /\ effect.state = "finalized" => cmd.status = "completed"

\* Once the sweep says that a command is settled nothing is set aside for it, and
\* nothing will be (mark_allowance_settled).
SettledHoldsNothing == cmd.settled => effect.state \in {"none", "restored"}

Fate(r) ==
    CASE r.status \in {"message_committed", "ai_running"} -> "open"
      [] r.status = "failed" /\ CanRetry(r) -> "retryable"
      [] r.status = "completed" -> "answered"
      [] OTHER -> "ended"

Account == INSTANCE QuestionAccount
              WITH fate <- Fate(cmd), paid <- paid > 0, settled <- cmd.settled

\* Whatever workers, sweeps and retries overlap, the student and the books see one
\* account of the question: every write of the row, the ledger or the model's bill
\* is one step of it (generate_for_command, fail_message_command, settle_reservation).
ImplementsAccount == Account!Spec

-----------------------------------------------------------------------------
(* What the repository says of the code and the code does not do.          *)

\* "`retryable` says whether the same command may be generated again: only when no
\* provider result was paid for" (fail_message_command): a question is retried only
\* when no call for it can have been billed.
RetryOnlyUnpaid == cmd.status = "failed" /\ CanRetry(cmd) => paid + unreported = 0

\* "Whether it may be tried again is the student's to act on ...; a late or
\* repeated delivery must not spend their attempts" (answer): only the student's
\* own retry takes a command out of failed.
FailedIsTheStudents ==
    [][cmd.status = "failed" => cmd'.status \in {"failed", "message_committed"}]_vars

\* "Failures that may leave an allowance reservation nothing else settles: a model
\* call whose answer was lost, and a reservation kept at admission when no time was
\* left to call" (UNSETTLED_RESERVATION_FAILURES): when no call was paid for, any
\* other failure nobody may retry has nothing set aside.
OnlyListedFailuresHold ==
    /\ cmd.status = "failed" /\ ~CanRetry(cmd) /\ \A w \in Run : ~Active(w)
    /\ paid = 0 /\ effect.state = "reserved"
    => cmd.failure \in {"needs_reconciliation", "deadline_exceeded"}

\* "answer kept, finish storing it; called with nothing kept, never call again"
\* (generate_for_command): an answer that was kept is only let go by storing it.
KeptAnswerStored ==
    [][KeptAnswer(cmd) # 0 /\ KeptAnswer(cmd') = 0 => cmd'.status = "completed"]_vars
-----------------------------------------------------------------------------
(* Liveness.  The clock goes on, a worker that lives goes on, and the      *)
(* sweep comes round every five minutes.  Any worker may die any number of *)
(* times; a settlement is not refused every time it is tried.              *)

SweepDelivers == Candidate(cmd) /\ \E w \in Run : Deliver(w)

FairSpec ==
    /\ Spec
    /\ WF_vars(Tick) /\ WF_vars(SweepDelivers)
    /\ \A w \in Run : WF_vars(Work(w))
    /\ \A s \in Settler :
         /\ WF_vars(Scan(s)) /\ SF_vars(Close(s)) /\ SF_vars(Release(s))
         /\ SF_vars(RestoreReleased(s)) /\ SF_vars(MarkSettled(s))

\* A lease does not stay for ever, even if every worker that takes it dies: the
\* attempts run out or the sweep ends it, unless an answer was kept (sweep).
LeaseEnds ==
    cmd.status = "ai_running" ~> cmd.status # "ai_running" \/ KeptAnswer(cmd) # 0

\* What an end left set aside is settled in the end, or its failure was retried
\* (settle_reservation).
EndIsSettled ==
    cmd.status = "terminal_failed"
        \/ cmd.failure \in {"needs_reconciliation", "deadline_exceeded"}
    ~> cmd.settled \/ cmd.status \in {"message_committed", "ai_running"}

\* "Finishing retries every run while it keeps failing; a day bounds that, after
\* which the lease is stale and its reservation is settled": a kept answer that
\* cannot be stored is given up in the end.
KeptAnswerGivenUp == cmd.status = "ai_running" ~> cmd.status # "ai_running"
=============================================================================
