# A formal model of stoa-backend

`stoa-backend` is the FastAPI service of a learning platform. It runs as AWS Lambda functions
over one DynamoDB table, S3, Bedrock, Stripe and Cognito. There is no lock and no long-lived
process: whatever several Lambdas must agree on is a row with a version, a status or a lease,
and every change of it is a *conditional* write or transaction. What makes the program hard is
the time between a read and the write that depends on it, and that a Lambda can end at any
point, be invoked twice, or not learn whether its write was applied.

This directory models the components where a mistake costs a student an answer or the business
money: the weekly ledger of AI tokens, the life of a question from its commit to its answer,
a student's requests for a human teacher with the weekly cases they spend, the life of an upload
from its issue to its bytes being spent or deleted, and a parent's paid checkouts with Stripe. All
paths below are relative to `src/src/stoa/` unless they start with `src/`.

## 1. Inventory

| Component | State it keeps | Operations | Hard behaviour | What makes it correct |
|---|---|---|---|---|
| **Token allowance ledger** `db/repositories/allowance_repo.py`, `weekly_counter.py`, `services/allowance_service.py` | per student and Zurich week: one counter row; per question: an effect row and an evidence row | reserve, record, finalize, restore, release of an unknown cost | optimistic loops over three rows; lost answers of transactions; a plan that changes in mid-week | the counter is the sum over the effects; the budget holds; each effect happens once |
| **Asking a question** `services/ask_question/` | one command row: status, lease, attempt, the mark of a model call, the kept answer | submit, answer (claim, generate, recover), fail, reopen, sweep, settle | late and repeated delivery, deaths between any two writes, lease take-over, a sweep that settles what others may still use | the model is not called again after a call that reported its usage or that a worker died over, its calls are covered by a reservation, ends are final, nothing is left set aside |
| **Daily chat quota** `services/ask_question/_store.py:544-650, 1448-1559` | one counter per student and day, one receipt per command | claim, compensate | several commands over one counter; compensation by exact value | at most the limit of committed questions, refused ones are given back |
| **Help requests** `services/help_requests.py`, `teacher_dispatch_service.py`, `jobs/dispatch_reconciler.py` | the request on a conversation row: status, whom it was offered, who holds it | ask, offer, take, reply, finish, withdraw, expire, sweep, remove a teacher | teacher, student, sweep and account deletion change one row; offers time out | one holder; ended exactly when its case is returned; no teacher is asked twice |
| **Teacher support allowance** `services/teacher_support_allowance_service.py` | weekly case counter, a receipt per request | admit, refund, set the limit | optimistic loop, a limit that changes | counter = admitted - refunded, never above the limit when admitted |
| **Uploads and attachments** `services/uploads/`, `upload_code_service.py`, `db/repositories/attachment_repo.py`, `jobs/upload_cleanup.py` | upload intents with status, version, operation fence and lease; objects in S3 | create, sign, complete (assemble, validate, promote), consume, clean up | take-over of a half-done copy; cleanup against consumption | a consumed upload's bytes exist and are its own; unspent bytes go |
| **Checkout commands** `db/repositories/checkout_command_repo.py` | command, its provider lease, a one-open guard per parent | register, claim, attach, mark unknown, recheck, expire, supersede | a provider call whose answer is lost; a change of plan that races a payment | one payable session per parent; a paid one is known to its command |
| **Billing** `billing_fact_repo.py`, `billing_reconciliation_service.py`, `paid_entitlement_service.py`, `subscription_service.py` | facts from Stripe, activation receipts, projections, entitlements | bind, record a fact, commit an activation, project | events repeated and out of order; a step of a delivery that fails | what is paid is activated, once |
| **Account deletion** `account_deletion_repo.py`, `account_deletion_service.py`, `jobs/account_deletion.py` | a fence per account, a command with the results of its branches, a lease | begin, claim, run a branch, finalize | everything else may still write | no private row is written after the fence is taken |
| **Notifications, reports, websocket** `notification_repo.py`, `report_repo.py`, `websocket_repo.py` and services | events, delivery intents, report rows | register, claim, begin, complete | a provider effect nobody heard of | at most one delivery; unknown outcomes are not repeated |
| **Rate limits** `services/rate_limit.py` | counter and receipt per operation | admit | optimistic loop | never above the cap, one operation counted once |
| **Accounts and identity**, **relationships and authorization**, **moderation**, **teacher applications**, **usage ledger** | single rows | single conditional writes | little beyond one write | decisions over rows |
| **Practice, reviews, curriculum, adaptive learning** | a student's progress, content rows | mostly sequential | real-valued scheduling | |
| **Adapters, routers, mobile client, scripts** | none the server relies on | I/O | | |

Interactions. `ask_question` calls the ledger (`_admission.Meter`) for every state of a command;
the sweep (`_sweep.py`) calls `answer` for what nobody answered and the ledger for what nobody
settled; account deletion takes a fence that every transaction of the ledger checks; help
requests call the support allowance and the notifications; uploads are spent in the transaction
that commits the question or reply carrying them; a webhook's activation writes the checkout
command and the grant, and the grant decides the plan the ledger reserves under.

## 2. The modules

| Module | Models | State |
|---|---|---|
| `TokenAllowance` | the ledger of one student and week, one step per read and per transaction | `counter`, `effect`, `evidence` (the rows), `active` (the deletion fence), `call` (what each concurrent caller read and is about to do) |
| `AllowanceLedger` | what the ledger promises: each operation happens at once, against the sum over all effects | `ledger`, `grant` |
| `TokenLedger` | the two composed: what the counter row says of all effects, and the refinement mapping from the rows to `AllowanceLedger` | (operators only) |
| `TokenAllowance_proofs`, `TokenLedger_proofs` | theorems about `TokenAllowance` and `TokenLedger` | |
| `Totals_proofs` | lemmas about sums over a finite set, for the ledger's sums | |
| `HelpRequest_proofs` | theorems about `HelpRequest` | |
| `MessageCommand` | the command row, the conditions and updates of its conditional writes, the sweep's tests | (operators only) |
| `AskQuestion` | who makes those writes: workers, the student's retry, the sweep | `cmd`, `effect` (its ledger entry), `run` (workers), `settler` (sweep runs), `retry`, and three history variables `paid`, `unreported`, `answers` |
| `QuestionAccount` | what a question promises its student and the books: one fate, one bill, one entry in the ledger | `fate`, `paid`, `unreported`, `effect`, `settled` |
| `AskQuestion_proofs` | theorems about `AskQuestion` | |
| `HelpRecord` | the record of one request for a teacher: the conditions and updates of its writes, how it ages | (operators only) |
| `HelpRequest` | who makes those writes: student, teachers, administrator, sweep, a teacher's account deletion; and the weekly cases | `record`, `receipt`, `counter`, `limit` (the rows), `deleting` (fenced teachers), `week`, `run` (what each call or sweep read and is about to do), and a history variable `offers` |
| `HelpPromise` | what asking for a teacher promises, without runs, clocks or versions: where a request stands, who was shown it, and its case | `ticket`, `leaving` |
| `UploadLifecycle` | one upload: its row, what S3 holds for it, the owner's calls, the hourly sweep and the purge of a closing account | `row`, `parts`, `object` (S3), `attachment`, `closing`, `clock`, `run` (what each call or job read and is about to do), `faults` |
| `UploadPhases` | what an upload promises those outside `services/uploads` | `phase`, `bytes`, `attachment` |
| `UploadLifecycle_proofs`, `UploadStaging_proofs` | theorems about `UploadLifecycle` | |
| `CheckoutCommand` | one parent's checkouts: commands, guard, Stripe's sessions, facts and activations, and the requests and webhooks that move them | `command`, `guard`, `fact`, `receipt` (the rows), `session`, `asked`, `owed` (Stripe), `shown` (URLs the parent has), `run` |
| `ParentCheckout` | what a parent's checkouts promise, without requests, claims, versions or lost answers: one after the other, and only what was paid is activated | `fate`, `holder`, `activated` |
| `CheckoutCommand_proofs` | theorems about `CheckoutCommand` | |
| `MCTokenAllowance`, `MCAskQuestion`, `MCHelpRequest`, `MCUploadLifecycle`, `MCCheckoutCommand` | the instances TLC checks | |

`AskQuestion` and `TokenAllowance` are composed by abstraction: `AskQuestion` uses the ledger as
`AllowanceLedger` describes it for one effect (each operation atomic), and the rows
implement that ledger: `ledger_replay` checks it, and `RowsImplementLedger` proves it.

### 2.1 TokenAllowance

`weekly_counter.retry` runs an attempt; an attempt reads the effect (`ReadEffect`), reads the
counter and tests it (`ReadCounter`, `Refusal`), and writes both in one transaction conditional
on what it read (`Write`, conditions in `Unchanged`, rows in `NextEffect` and `NextCounter`).
The transaction may be refused (`WriteRefused`) or applied without the caller learning it
(`WriteAnswerLost`); either way the row that answers the call is read again (`Reread`), and a
lost race is tried again up to `Attempts` times. `release_unknown_cost` is a read
(`ReadForRelease`) followed by a record at the ceiling and a restore: the field `release` of a
caller says that it goes on. A caller may be told that the table is unavailable at each read, may
die at any point (`Crash`), and the account may be closed at any time (`FenceAccount`).

Abstractions: input and output tokens are tested and summed independently by the same code, one
of them is modelled; digests become equality of what they digest; the plan is whatever
grant of `Plan` the caller resolved, so a stale one is always possible; the read made before the
loop is left out, as the loop's own read subsumes it.

### 2.2 MessageCommand and AskQuestion

Times appear in the code only as differences, so a row carries the *age* of the time its
status is judged by, in ticks, and a clock that was read earlier is named by its `lag`. A worker
(`run[w]`) is one Lambda invocation; its `pc` names the next write or call of
`generate_for_command`:

| Action | Code |
|---|---|
| `Deliver` | `answer` reads the command and decides whether to go on |
| `ReadForClaim`, `Take` | `claim_message_ai_lease`: the read, and the conditional write |
| `ReadCurrent`, `MarkTerminal` | attempts used up: read again, `mark_message_command_terminal` |
| `Prepare`, `Reserve`, `MarkInvocation`, `Invoke` | attachments and prompt; `MeteredModel` reserves, records the invocation, calls the model |
| `KeepResult`, `Observe`, `RestorePaid` | the answer is kept, its usage recorded, an unusable reply given back |
| `Renew`, `Complete`, `Finalize` | the lease renewed, the answer stored with the command's end, the tokens charged |
| `RecordFailure` | `fail_message_command` |
| `ReadFailed`, `Reopen` | the student sends the question again |
| `Replay` | whoever reads a completed command charges what was observed |
| `Scan`, `Close`, `Release`, `RestoreReleased`, `MarkSettled` | the sweep settles a reservation |
| `Crash`, `StopSettling`, `Tick` | an invocation ends; time passes |

Abstractions: the answer, the prompt and attachments have no content. The failure categories are
the two the sweep looks for, "unpaid" for every other one recorded as retryable and "final" for
the rest. Attachment and prompt work is one step that succeeds or fails. The sweep's delivery of
a candidate and Lambda's are the same action, `Deliver`. The dispatch modelled is production's
(`LambdaWorker`).

A model call ends in one of three ways, and the history variables count the two that may cost money.
It *counts as paid for* (`paid`) when it reports its usage, when the usage is refused, and when its
worker dies over it: the code takes each of these for a result that was paid for. It is *unreported*
(`unreported`) when it fails after the model may have begun, with no usage known: a stream that is read
past the deadline, breaks, or brings what cannot be read (`ai_service.py:390-410`). It may be on the
bill; but without evidence `generate_for_command` records it as retryable (`_answering.py:1284-1289`),
its mark goes (`_store.py:1074`), and a retry replays the reservation and calls again. Or it fails
before the model began, and neither counts. The code cannot tell the last two apart.

### 2.3 HelpRecord and HelpRequest

A conversation has at most one request; the student's requests share the weekly counter of cases,
so the state is one record and one receipt per conversation, one counter row per week and the
student's figure. A run (`run[p]`) is one API call, one request of a sweep or one row of a deletion
pass; what it read it keeps (`row`, `limit`, `cases`, `receipt`), and every transaction is
conditional on it.

| Action | Code |
|---|---|
| `CallAsk`, `ReadScope`, `ReadReceipt`, `ReadCount`, `Admit`, `AdmitRefused` | `ask` with `admit_teacher_support_case`, as the loop `weekly_counter.retry` runs |
| `Plan`, `Offer` | `dispatch`: `plan_dispatch`, then the offer, or `_record_no_candidate` |
| `StartSweep`, `Scan` | `sweep`: expire what is due, leave a live offer alone, offer the rest |
| `CallWithdraw`, `GetToEnd`, `GetCase`, `GetCounter`, `Refund`, `RefundRefused`, `EndUnavailable` | `withdraw` and `expire`: `_end` with `refund_teacher_support_case`; `NotEnded` is where the sweep goes on to dispatch |
| `CallTeacher`, `Move` | `update_help_request` and `add_note`: `take_or_finish`, `reply`, both through `_advance` |
| `FenceTeacher`, `StartScrub`, `Scrub` | deletion of a teacher's account: the fence, then `scrub_teacher` for what names them |
| `SetFigure` | `set_assigned_weekly_cases` |
| `ReadFails`, `WriteRefused`, `Crash`, `Tick`, `NextWeek` | failures, time |

`Admit` and `Refund` have a second outcome each: applied, but the caller is not told. For the other
writes that is the same as the caller dying after them.

Abstractions: times are ages and lags, as above. Which teachers are available, teach the subject and have
room is left open: any teacher whose account is active and who let no offer lapse may be
planned, or nobody. A teacher's profile version is not kept: a write refused because of it is a
`WriteRefused`. The figure is the assigned one; a parent's paid plan is read and
bound in the same transaction, in the same way. The student's account stays open.
Notifications are left out: nothing reads them.

`HelpPromise` has one ticket per conversation: its stage, the teacher who holds it, the one it is
shown to, those it was ever shown to, and its case. `Turns` relates a ticket to the next one: asked,
shown, withheld, taken or finished, ended, or freed of a teacher who is leaving. `HelpRequest`
implements it (`KeepsPromise`): `Seen` reads the ticket off the record, the receipt and the history
of offers. Everything a run reads, every retry and every refused write is a stutter, so one write
of a run is one turn of one ticket, and the case moves in the step that ends the request.

### 2.4 UploadLifecycle and UploadPhases

Every write to the row of an upload is conditional on the version its writer read; `Write` is that
transaction with its outcomes: applied, refused, applied without an answer, never made. Versions are
kept as what they are used for: a run's copy is `current` until somebody else writes. `Provider` is
a call to S3 whose answer may be lost, applied or not. A run (`run[p]`) is one API call or one
upload's turn in a job.

| Action | Code |
|---|---|
| `Start`, `ReadFence`, `Create`, `Record`, `Abort`, `IssuanceFailed` | `start`: issuance claimed, the account's fence read again, multipart upload created, recorded, or aborted and given to the cleanup |
| `CallSign`, `Pin` | `sign_part` and the browser's upload |
| `CallComplete`, `ClaimAssembly`, `Assemble`, `StoreStaging` | `complete`: the multipart upload becomes a staging version |
| `Takeover`, `Match` | an operation whose lease ran out: taken over once its object is found and read back |
| `Validate`, `Refuse`, `DropStaging` | the bytes are read and judged |
| `Promote`, `Put`, `Finish`, `Owe`, `Clear` | the copy to the immutable key; the debt of deleting the staging copy |
| `CallSend`, `Bind` | a message or reply spends the upload in its own transaction |
| `StartSweep`, `StartPurge`, `CloseUpload`, `ClaimCleanup`, `ScanReferences` | the sweep and the purge claim a cleanup, or find the bytes still referred to |
| `AbortMultipart` ... `MarkParts`, `Complete`, `DeleteTombstone` | the four targets: find again, delete, prove gone, mark; then the row is finished and, by the purge, removed |
| `DropAttachment` | the attachment's own deletion |
| `Retire`, `CloseAccount`, `Crash`, `Tick` | the table's TTL, the account's fence, deaths, time |

Abstractions: one part; S3's listings have one page; a version id is `there`. An operation's
fence is drawn anew by the write that claims it, so it never asks for more than the version does.
Validation and moderation are one step that accepts, refuses or gives no answer. The phone's upload
codes only authorize the same calls. `settle_staging_debts` is left out; section 5 says why.

### 2.5 CheckoutCommand

| Action | Code |
|---|---|
| `Register`, `Claim`, `Await`, `Create`, `Attach`, `MarkUnknown` | `create_or_resume_checkout_command`: `register_checkout_command`, `claim_provider_create`, Stripe, `attach_provider_session`, `mark_provider_outcome_unknown` |
| `Recheck`, `Find` | a recheck of a command without a session: Stripe's list is searched for it |
| `Change`, `ClaimExpiration`, `Expire`, `Poll`, `Record`, `Supersede` | `confirm_checkout_plan_change`: the old session is expired and read again, its outcome recorded, the new command registered under the guard |
| `Deliver`, `Bind`, `InvoiceFact`, `SubscriptionFact`, `Activate`, `Close` | `process_signed_billing_event` |
| `SessionCreated`, `SessionExpires`, `Pay`, `LeaseEnds`, `Die` | Stripe, the parent, time, deaths |

Abstractions: a session is named by the idempotency key it was created with, which Stripe keeps to
one session; the code derives it from the command alone (`_provider_key_digest`), so every claim asks for
the same. A lease has run out or not. An event carries its time; what it says is retrieved anew.
Owners and generations of claims are drawn anew by each claim and never ask for more than the
version. All of it runs only behind the switch `BILLING_AND_SUBSCRIPTION_ENABLED`
(`routers/billing.py:61`).

`ParentCheckout` has one fate per checkout (begun, payable, paid, lapsed, closed), the one checkout
the parent may go on with, and those whose payment was activated. `CheckoutCommand` implements it
(`OneCheckout`): `Fate` reads a checkout off its command's state and what Stripe says of its
session, the guard is the holder, and the receipts say what was activated. Claims, leases, lost
answers, readings and the binding of a delivery are stutters. A checkout that lapsed at Stripe is closed
only by the write that records it, and nothing but that write lets another take its place.
Three things are invisible to it: a second receipt for a checkout already activated (section 5),
who was shown a URL, and what Stripe is owed an answer for.

## 3. What TLC checks

| Run | Question | Bounds |
|---|---|---|
| `ledger_contention` | is the counter the sum over the effects; is every admission within its budget and the week within its largest grant; does a grant never go back? | two callers, two effects of one token, a grant of one and then of two, one attempt |
| `ledger_replay` | is what a caller is told true; do the rows implement `AllowanceLedger`, also when a reply costs more than was set aside; does every call end? | two callers, one effect, one or two tokens, two grants, two attempts |
| `ask` | is a model call that counts as paid for the only one, and the last; are calls made only under a reservation; is one that counts never forgotten nor retried; is an answer stored once and its cost kept; is a settled command without reservation; do all steps implement `QuestionAccount`? | two overlapping workers, one settling sweep, three attempts |
| `ask_ends` | does a lease end though every worker may die; is what an end left set aside settled? | one worker at a time, any number of them, two attempts |
| `help` | is nobody offered a request twice; has a request one holder; are its ends final; is its case given back exactly when it ended untaken; is a deleting teacher put on nothing; do all steps implement `HelpPromise`, where holders stay? | one conversation, two teachers, two overlapping runs |
| `help_cases` | is each week's counter the number of its cases still spent; is no case spent against a replaced figure? | two conversations, no teachers, two overlapping runs, two weeks, two changes of the figure, two attempts |
| `help_ends` | does every waiting request find a teacher or an end; is a deleted teacher forgotten? | one conversation, one teacher, one run at a time, two attempts |
| `help_answered_ends` | *refuted*: only a request nobody took ends untaken | as `help` |
| `upload` | are bytes that are wanted never deleted; does a finished cleanup leave nothing in staging; does the window hold; does the upload implement `UploadPhases`? | two overlapping calls or jobs, a window of three ticks, one takeover, one fault |
| `upload_ends` | is what nobody spends cleaned; does every row of a closing account go? | one run at a time, two takeovers, two faults |
| `checkout` | has a parent one session to pay; is what is recorded as unpaid unpaid; is a paid session known to its command; do all steps implement `ParentCheckout`? | two keys, two overlapping requests or deliveries, two events, two claims of a command |
| `checkout_paid_activated` | *refuted*: what is paid is activated | one key, one run at a time, two events |

Why the bounds are enough. In the ledger every race is between two callers: a third only
overtakes again. A repeated attempt starts like a new call of the same operation, so one attempt
is enough where only the rows matter (`ledger_contention`), and two where the answer to the
caller and the end of the loop do (`ledger_replay`). Two effects are the fewest that compete, and
one token each the least that can; replies that cost more or less than was set aside
need one effect and two tokens. In `ask`, two workers are one that was
overtaken and the one that overtook; three attempts is the code's own limit. The clock has ticks
of five minutes: a lease of 1 (five minutes), an invocation of at most 2 (ten minutes,
the "two sweep runs" that `_sweep.py:63` trusts to outlast every attempt), a sweep window of 4 (20
minutes), settlements after 2 and 4 (10 and 20), and a kept answer given up after 6 instead of
288, which keeps the order of the limits. `WindowAssumption` is what the sweep's limits rest on
(section 4); how long Lambda lets an invocation live is not in the repository.

In `help`, an offer lives one tick, a request two, a run at most one more tick, which has every
order of lapse, expiry and a late write; two teachers are one who lets an offer lapse and one who
gets the next. `MaxVersion` ends the calls of teachers on a record that was written four times: enough
for an offer, a lapse with a second offer and its acceptance, or a scrub and what comes after. One attempt, because an
attempt starts afresh from the reads. In `help_cases` the requests find no teacher, so that all of
a case's ways are spending and giving back; no time passes during a run, as the counter does not
look at it; a figure of 0 (refused), 1 and 2 with two changes may be raised and lowered between
any read and its transaction. `help_ends` lets the one teacher come, leave and be forgotten.

In `upload`, two runs are the one that is overtaken and the one that overtakes: an operation and
its takeover, a call and the sweep, a job and the purge. A lease of one tick and a window of three
put the end of a lease before, at and after every step of the operation, and a run may outlive the
window by its `RunTime`. The clock stops at `Horizon`, when every window is over. One fault (a
death or a lost answer) is enough with two runs, since what it leaves meets every interleaving; the
second fault, the death of a recovery, is in `upload_ends`. There all runs come one after the other, because two
jobs that claim the same cleanup again and again would overtake each other for ever under weak
fairness, which their schedules an hour apart rule out.

In `checkout`, two keys are a checkout and the one that replaces it, or two started at once; two
claims of a command are one whose lease ran out and its successor; two events are the invoice's and
the subscription's, in either order.

Fairness. Safety runs assume none. `ledger_replay` lets each caller go on (weak fairness of its
own steps; a Lambda that is not killed runs). `ask_ends` assumes that time passes, that a worker
that lives goes on (weak fairness), that the sweep comes round every five minutes (weak
fairness of its scan and of handing over a candidate), and that a settlement that is tried again and again
is not refused every time (strong fairness of its four writes: the sweep itself is run again
by its schedule, and each write only needs the table). Nothing is assumed of the student,
of the model, or of workers staying alive: `Crash` may happen every time. `help_ends` assumes that time passes,
that a run goes on or dies, that the sweep and the deletion pass come round to a request that is
there for them again and again (strong fairness of their starts: both are scheduled jobs), and that
their steps are not refused every time. Nothing is assumed of the student, of an
offer being made or of a teacher answering one. `upload_ends` assumes that time passes, that what has begun goes on until
it ends, that the jobs come round (strong fairness of their starts), that the table removes a row
whose TTL is set, and that an attachment of a closing account is deleted; no user has to call.
`checkout_paid_activated` assumes that requests end, that Stripe repeats an event until it is told
200, and that each step of a delivery gets through sometimes.

Deadlock is checked in all runs but the two of uploads, where an upload that is spent or cleaned is at rest.

## 4. What is proved

`TokenAllowance_proofs` and `TokenLedger_proofs` prove every safety property of the runs `ledger_contention` and
`ledger_replay`, for every set of callers, effects, grants and token counts and
every number of attempts, given `PlanAssumption`, `TokensAssumption` and `AttemptsAssumption`, and for the last two
`EffectAssumption` (a student sends finitely many questions in a week):

* `TypeCorrect`: the types, among them that the counter's fields are never negative;
* `BudgetHolds`: `WithinLargestGrant`, what a week spent and set aside is within a grant;
* `AdmissionWithinBudget`, `GrantOrder`: the two action properties of the reservation;
* `CallersToldTheTruth`: `AnswersHold`, what a caller is told is what the rows hold;
* `CounterIsTheSum`: `CounterAccounts`, the counter row is the sum over the effects and the evidence;
* `RowsImplementLedger`: `ImplementsLedger`, every transaction is one step of `AllowanceLedger`.

Neither `TypeOK` nor `WithinLargestGrant` is inductive: that a transaction keeps them depends on
what its caller tested some steps earlier. `IInv` adds what a caller that is about to write knows
(`CallInv`): the counter it read has at most the stored version and, at the same version, *is*
the stored one (`Fresh`); its test passed on what it read; the effect it read is in the
state its operation starts from (`RowRead`); and a reservation or reply in a row is at least one
token (`RowInv`). A write that passes its conditions then writes what was tested on the
stored counter; a write overtaken by a version can no longer pass them. The proof has one lemma
per group of actions: `CallsStep`, `ReleaseStep`, `EffectStep`, `CounterStep`, `ApplyStep` (which
rests on `ApplyRows`, what a transaction writes by operation, `Overtaken`, what the other callers
still know, and `WriterAfter`), `OtherSteps` and `FenceStep`; `NextInv` collects them and
`Invariant` is the temporal conclusion.

The last three rest on a second invariant, `JInv`, proved relative to the first. `Fresh` says
nothing of a caller that was overtaken, but such a caller reads its effect again and then answers; so
`KeptRow` says of *every* row a caller holds, however old, that what it set aside and under which
plan is still what is stored, since no operation changes either. `EntryInv` has evidence only for
effects that were observed, and `ReleaseKnown` has `release_unknown_cost` settle as an unknown cost
and nothing else. `Applied` reduces a transaction to what it does to one effect (`AppliesReserve`,
`AppliesRecord`, `AppliesSettle`), under the conditions it was written with.

The sums need induction over a set. `SubsetInduction` (`Totals_proofs`) states it of a *set* of good
subsets, not of a predicate, from the library's theorem that strict inclusion is well-founded on
finite sets; `SumIsTally` then identifies the fold of `SumFunction` with the recursion on
one element less, and `SumChange` says what a sum does when one element changes. With it each of
`AppliesReserve`, `AppliesRecord` and `AppliesSettle` moves the counter's three figures as it moves
their sums (`AccountsStep`). `UseIsCounted` then makes the test against the counter the abstract
ledger's test against the sum over all effects, which is what the refinement
(`AppliedIsLedgerStep`, `NextIsLedgerNext`) turns on.

`HelpRequest_proofs` proves every property that the runs `help` and `help_cases` check, for
any finite set of conversations, any sets of teachers, runs and figures and any times, given
`TeacherAssumption`, `TimeAssumption`, `ConversationAssumption` and `BoundAssumption`: `TypeCorrect`,
`NobodyOfferedTwice`, `HolderMatchesStatus`, `CaseMatchesRequest`, `WeekAccounts`, and the action
properties `AdmissionWithinFigure`, `EndKept` and `ForgottenStays`, and the refinement `PromiseKept`.
`HolderKept` states one consequence of the refinement on the records themselves: a request changes
hands only when its teacher leaves.

Its `IInv` has a part for the rows and a part for the runs.

* Of each record: `RecordInv` (holder, status and offer agree; no version without a record),
  `CaseInv` (its receipt) and `OfferInv`: a teacher who was offered a request that is not over
  is still offered it, holds it, is among those who let it lapse, or is leaving. The
  last is why `OfferedOnce` survives a deletion that makes a request forget its teacher: the fence then
  keeps that teacher from being offered it again.
* Of each run (`RunInv`): the record it read has at most the stored version and, at the same version,
  *is* the stored record; a run about to offer read no live offer, and chose nobody who let
  one lapse; a run about to spend a case read a counter below the figure it read; a run about to
  give one back knows the week of the receipt. A write that passes its condition was then decided on
  the record it changes.

Time is in the invariant too: whether an offer has lapsed is judged by the clock a run read, so
a tick must age the run's clock and the row it read alike (`AgedLapses`). The proof has a lemma for
what each write does to a record (`OfferedIs` to `ScrubbedIs`), one for each action that writes
(`OfferStep`, `MoveStep`, `ScrubStep`, `AdmitStep`, `RefundStep`), which rest on `WriteInv`, and one
for the steps that only read (`ReadsInv`). `AdmittedCounts` and `RefundedCounts` are the arithmetic
of `CasesAccount`: one case more or less in one week. The action properties come from
`Proper` and `WithinFigure`, which `NextStep` shows of every step.

`PromiseKept` needs no further invariant. A write that passes its condition was decided on the
stored record (`CurrentIs`), so each of the five writes is one turn of one ticket (`AskSeen`,
`OfferSeen`, `MoveSeen`, `EndSeen`, `ScrubSeen`, over `OneTurn`), and the rest changes no ticket
(`AroundSeen`, `StepSeen`). That a request is shown to nobody twice is again `OfferInv`: the teacher
an offer goes to has not been tried, although a deletion may have made the record forget.

`CheckoutCommand_proofs` proves the five properties of the run `checkout` for any sets of keys,
runs and events and any number of claims, given `CheckoutAssumption`: `TypeCorrect`,
`OnlyOnePayable`, `NothingUnpaidIsPaid`, `EveryPaidIsOwned` and the refinement `CheckoutsFollow`.
`EveryOpenHoldsGuard` says of the rows alone what the refinement rests on. Its `IInv` has
four parts: the types; that a session exists only under a command's own key (`SessionInv`); what fits
a stored command (`Fits`: one that could have a payable session keeps the guard, one ended as
unpaid has a session that expired); and what a run knows (`RunInv`: what it read of a session that
is over is still so). `Grows` says that commands and sessions only go forward, and is why a run that waits is not
disturbed; `QuietStep` and `WriteStep` reduce an action to what it does to its own command, with one
lemma per action above them.

`CheckoutsFollow` uses the same `IInv`. `FatesAre` says what the fate of a checkout is, by its state and
the one session it can have (`StatusesAre`, from `SessionInv`). `NoTurn`, `OneTurn` and `BeginTold`
are the three kinds of step: none, one of the checkout that holds the guard, a beginning. `Quietly`
and `SessionTurns` reduce most actions to them. That a session comes to be, lapses or is paid only
under the guard is `Fits` (`LiveIs`); that a checkout is closed only after its session expired
is what `RunInv` knows of a run about to record; and that what is activated was paid is what it knows of
one about to commit.

`AskQuestion_proofs` proves the types, the six invariants and the refinement of the run `ask`, for any sets of workers and sweep
runs, any number of attempts and any limits, given `RunAssumption`, `LimitAssumption` and
`WindowAssumption`: `TypeCorrect`, `PaidOnlyOnce`, `CallUnderReservation`, `CallStaysMarked`,
`RetryAfterUnreported`, `AnswerCharged`, `SettledIsSettled` and `OneAccount`. Two different arguments meet in its `IInv`.

* Who may write the row. `Called` says that a call counts as paid for or is being made; one that
  failed without usage leaves it false again, and the row as one that was never called, which is why
  nothing in `IInv` depends on how many those were. `RowFits` relates the row to its effect and to
  `Called`; `RunFits` says what a worker knows, most of it only while it still owns the lease
  (`Owns`): not called yet before it marks the call, marked as its own after. A claim is conditional
  on the mark it read, so a worker that was overtaken finds the row called or owned by another
  (`ClaimHolds`). `OneCall` has at most one worker calling, and `OneFate` says that a paid reply is
  either an answer somebody may still store or of no use, never both: without it a late
  restore could give back what an answer is charged to.
* Who may write the ledger, which asks for no lease. A worker that may still reserve or call
  (`Early`) is kept apart from the sweep by time alone. `Timely` bounds how old the row can be
  while such a worker lives, by that worker's own age; `TooYoung` concludes that no stale lease,
  failure or end is old enough to be settled, and `NoEarly` then stays true until the settlement is marked. This is
  where the lines of `WindowAssumption` about `RunTime` are used; the last of them,
  `2 * RunTime <= SweepMaxAge + LeaseTime`, is needed because a claim writes a time its worker
  read up to an invocation earlier.

`StepInv` is the frame of a worker's step, `OutsideStep` and `SweepStep` of the others';
`QuietStep`, `OwnerStep` and `EffectStep` reduce an action to what it does to its run, the row or the
effect, and there is one lemma per action above them.

`OneAccount` is the refinement of `QuestionAccount`, where there are no workers, leases, attempts or clocks: the
model is called while tokens are set aside, and never again once a call counts as paid for, which none does while the student may retry; calls that report no usage may come before (`GoUnreported`); an unknown cost is
written off only after the end; an answer is stored while its cost stands in the ledger; once the books are closed
nothing happens any more. The steps of `AskQuestion` change the row, the entry or the bill, one at
a time, so the proof sorts them by that (`RowTold`, `EffectTold`, `CallTold`); that each is then an
allowed step of the account is what `RunFits` and `SettlerFits` know of the run that makes it.

`UploadLifecycle_proofs` proves, for any set of runs, any window, lease and bounds, given
`TimeAssumption`: `TypeCorrect`, `BytesKept`, `NotInterrupted` and `KeepsItsPromise`, which is the
refinement: each step of `UploadLifecycle` is one of `UploadPhases` or a stutter. Its `IInv` has
these parts.

* `RowFits`: an upload that is validated or shown by an attachment has its bytes; one
  being promoted has a key for them; a row that is consumed is attached.
* `RunFits`: a run that holds a row as current holds the stored one; a run that claimed a cleanup
  knows that the row has left the phases in which bytes are wanted (`Past`), and no write leads
  back from there; a run about to finish a promotion has the bytes before it.
* Of the deletion itself: a cleanup whose row names an immutable version not marked yet finds
  that version deleted or its row still to be cleaned (`ToDelete`, `Deleting`).
* `OnePut`: no two runs copy bytes at once, and the one that does finds none.

So a deletion of immutable bytes by a run whose row is long out of date is harmless, and that is the point of
the proof: the code does delete them without holding the row. Each step is then classified by what it does to
the row, the bytes and the attachment (`Effect`), with one lemma per action; `NotInterrupted`
and `KeepsItsPromise` follow from the classification alone.

`UploadStaging_proofs` proves `StagingIsCleaned`. `StagingInv` says, while the account is open, that whatever S3
may hold in staging is still due from the row (`MultipartDue`, `StagingDue`): a mark is set only after the
bytes of its kind are gone, and nothing creates them again. The last part needs the clock. An
issuance creates its multipart upload after its row is written, and a cleanup that marked it gone in between
would leave it; as a run is shorter than a window (`RunTime < UsableTime`), no sweep claims an
upload while its issuance is running (`NoIssuance`). The purge of a closing account asks for no
window, so the property, and the invariant, are stated for an open one.

Only model-checked: all liveness (`CallReturns`, `LeaseEnds`, `EndIsSettled`, `WaitingEnds`, `TeacherForgotten`,
`UnspentIsCleaned`, `ClosedUploadGoes`). Termination under fairness and `ENABLED` are outside what the proof
system does here.

## 5. Where code and text part

Two runs refute a sentence of the repository.

* **`help_answered_ends`**: a request "nobody took" ends withdrawn or expired. A request whose teacher
  took it, answered it and then deleted their account goes back to waiting, is then
  withdrawn or, being old by then, expired by the next sweep instead of offered to somebody
  else, and its case is given back (`help_requests.py:1427`).
* **`checkout_paid_activated`**: `process_signed_billing_event` answers 200 whatever
  `commit_paid_activation` returns (`subscription_service.py:2569`). After a transaction that failed,
  or a conflict with another write of the command, nothing is activated, Stripe does not send the
  event again, and no other code commits an activation. The phase's research
  (`src/.planning/phases/476-billing-idempotency-and-paid-access-recovery/476-RESEARCH.md:745`) has
  the "retried processor" complete it.

More sentences are stated in the modules, and TLC refutes them when they are asked; no run does.

* `RetryOnlyUnpaid` (`_answering.py:1284`). "`retryable` says whether the same command may be generated
  again: only when no provider result was paid for" (`_store.py:1063-1064`), and "A reply that was cut off or
  garbled was still paid for; its usage rides on the failure" (`_answering.py:1272-1273`). Of a streamed call the usage
  does not ride on the failure when the stream is cut at the deadline or brings a chunk that cannot
  be read (`ai_service.py:401-410`), or no text (`:432`). TLC needs nine states: a worker claims, reserves,
  marks, calls, is cut off, and records `deadline_exceeded` as retryable. The student's retry then
  replays the reservation and calls the model again, so that one question, charged once, may be billed
  several times; nor do the attempts bound the calls, since a claim that read the row earlier takes
  the failed command over under the attempt number it read (`FailedIsTheStudents` below).
* `FailedIsTheStudents` (`_store.py:777`). A delivery reads the committed command; another worker claims it
  and fails with a retryable category; the first one now reads the failure and claims it, which
  spends an attempt that `answer` says is the student's to spend.
* `KeptAnswerStored` (`_store.py:713`). A claim reads an expired lease with a call marked and nothing
  kept, so it is to reconcile; the slow worker, whose clock is older, then keeps its answer; the
  claim's condition looks at the mark only, so it holds, and the command fails with
  `needs_reconciliation`, which removes the answer.
* `OnlyListedFailuresHold` (`_store.py:1206`). The last attempt reserves, cannot record its call and fails
  as "unpaid": nobody may retry it, and the sweep looks for two other categories only. Its tokens
  stay set aside for the week.
* `KeptAnswerGivenUp` (`_sweep.py:275`). The day after which a kept answer should be given up is never
  reached, as each try renews the time its lease is judged by.
* `NeverUnaddressable` (`uploads/_lifecycle.py:1309`). A promotion is claimed in the window; the window ends; the sweep,
  which asks for the window and not for the operation's 120 seconds of lease, cleans up, finds no
  immutable version and finishes; the copy lands then, and no row leads to it. The phase's plan
  (`src/.planning/phases/473-student-content-privacy-and-practice-integrity/473-12-PLAN.md:74`) says that a restart "never creates an unaddressable orphan".
* `ActivatedOnce` (`subscription_service.py:2519`). A change of plan reads the session as complete;
  an event activates the command; the change records what it read and sets the command back to
  `reconciling`; the second event, with a newer version, activates it again.

And observations that need no run.

* Attempts that only tried to store a kept answer are counted; after the last one the answer is out
  of reach, although the sweep delivers it for a day (`_store.py:700`).
* The settlement of a reservation asks how old the row is, not whether a worker is left. It is right
  as long as an invocation ends within 12.5 minutes (`WindowAssumption`). With a longer one, and
  Lambda allows 15, TLC finds a worker whose clock was read long ago claim a reopened command and
  die; the sweep takes that lease for stale and settles the command, with nothing reserved; an older
  worker, still before its reservation, then reserves for good (`_sweep.py:63`: "two sweep runs is enough to
  be sure no attempt still holds it").
* When the transaction that expires a request is applied but its answer is lost, the next attempt
  finds the request expired, `expire` returns None, and the student is not told (`help_requests.py:826`).
* `settle_staging_debts` (`uploads/__init__.py:237-243`) calls `_reconcile_staging_cleanup_debt`
  without its required keyword `repository`: it raises a TypeError on the first debt.
* `claim_account_upload_cleanup` refuses a row whose cleanup is complete: when a purge pass dies between the cleanup and
  `DeleteTombstone`, the row waits for the table's TTL (why `ClosedUploadGoes` needs `Retire`).
* `release_open_guard_for_terminal_command` is called by nobody: the guard of a command that was
  activated, or that ended, is moved by a change of plan only
  (`src/.planning/phases/476-billing-idempotency-and-paid-access-recovery/476-05-SUMMARY.md:31`, `476-RESEARCH.md:268`).

## 6. What is left

Done, in the order of importance: the ledger, asking a question, help requests with their cases,
uploads, checkouts with their activation.

Not modelled, and why.

* The daily chat quota: it needs several commands over one counter, which `AskQuestion` does not have. Its
  compensation by exact value (`_store.py:1518`) is listed as a hazard without a property.
* Account deletion: a command that walks some thirty branches over the rows of every component. Its fence is an
  action of `TokenAllowance`, `HelpRequest` (teachers) and `UploadLifecycle`; the walk is not modelled.
* Delivery intents of notifications and report mails, rate limits: loops of the shape
  `TokenAllowance` has, with less at stake.
* The rest of billing: projected status, refunds, cancellations, free trials.
* Adapters (pure I/O, their outcomes are choices of the models), routers (validation), practice
  scheduling (real numbers), curriculum tooling and scripts (operator tools run by hand), the
  mobile client (nothing on the server relies on it).

## 7. Running

    tlc -workers 2 -config MCAskQuestion.cfg MCAskQuestion
    tlapm Totals_proofs.tla
    tlapm TokenAllowance_proofs.tla
    tlapm TokenLedger_proofs.tla
    tlapm HelpRequest_proofs.tla
    tlapm AskQuestion_proofs.tla
    tlapm CheckoutCommand_proofs.tla
    tlapm UploadLifecycle_proofs.tla
    tlapm UploadStaging_proofs.tla

The largest runs, `ledger_contention`, `ask`, `help`, `help_cases`, `upload` and `checkout`, have one
to five million states and take one to three minutes each.
