-------------------------- MODULE CheckoutCommand --------------------------
(***************************************************************************)
(* One parent's paid checkouts: the commands of checkout_command_repo, the *)
(* guard that lets one of them be open, Stripe's sessions, and the         *)
(* activation of what was paid.                                            *)
(*                                                                         *)
(* The parent's requests (start a checkout, change its plan, recheck it)   *)
(* and Stripe's webhooks overlap.  A step of a run is one read and write   *)
(* of the table or one call to Stripe; any run may die between two steps,  *)
(* which is also what a write that fails amounts to.                       *)
(*                                                                         *)
(* A command's version is kept as what a conditional write asks of it:     *)
(* `current`, the version a run holds is the stored one.  A claim's owner  *)
(* and generation are drawn anew by the write that makes it, so they ask   *)
(* nothing more.                                                           *)
(***************************************************************************)
EXTENDS Naturals

CONSTANTS
    Key,        \* the parent's idempotency keys: each names one command
    NoKey,
    Run,        \* requests and webhook deliveries that may overlap
    Event,      \* Stripe's events about one subscription, by their time
    MaxClaims   \* bound: claims of one command's session creation

ASSUME CheckoutAssumption ==
    /\ NoKey \notin Key
    /\ Event \subseteq Nat \ {0}
    /\ MaxClaims \in Nat

VARIABLES
    command,    \* CHECKOUT_COMMAND#{id}
    guard,      \* CHECKOUT_OPEN#{parent}: the command it names
    session,    \* Stripe's sessions
    asked,      \* creations that reached Stripe and may still take effect
    shown,      \* sessions whose URL the parent was given
    owed,       \* events Stripe has not been told are received
    fact,       \* the facts recorded of the paid invoice and the active subscription
    receipt,    \* activation receipts, by activation_version
    run         \* what each run is doing

vars == <<command, guard, session, asked, shown, owed, fact, receipt, run>>
stripe == <<session, asked, owed>>
billing == <<fact, receipt>>
-----------------------------------------------------------------------------
State == {"none", "intent_recorded", "provider_create_pending", "provider_session_open",
          "operator_attention_required", "reconciling", "terminal_without_payment",
          "activation_recorded"}
Terminal == {"terminal_without_payment", "activation_recorded"}
Effect == {"not_started", "create_claimed", "provider_outcome_unknown", "session_attached"}
Expiry == {"not_started", "expire_claimed", "nonpayable_proven",
           "payment_reconciliation_required", "expiration_outcome_unknown"}

\* Stripe keeps one session per idempotency key; a key is made for a command.
Session == Key \X (0..MaxClaims)
NoSession == <<NoKey, 0>>
Status == {"none", "open", "complete", "expired"}

\* leased: lease_expires_at is still to come; bound: the provider's digests are set;
\* successor: superseded_by_command_id.
Command == [state : State, effect : Effect, leased : BOOLEAN, generation : 0..MaxClaims,
            session : Session \cup {NoSession}, expiry : Expiry, bound : BOOLEAN,
            successor : Key \cup {NoKey}]

NoCommand == [state |-> "none", effect |-> "not_started", leased |-> FALSE, generation |-> 0,
              session |-> NoSession, expiry |-> "not_started", bound |-> FALSE,
              successor |-> NoKey]
NewCommand == [NoCommand EXCEPT !.state = "intent_recorded"]

IdleRun == [pc |-> "idle", op |-> "none", key |-> NoKey, next |-> NoKey, seen |-> "none",
            session |-> NoSession, current |-> FALSE, bound |-> FALSE, event |-> 0, version |-> 0]

Step == {"idle", "register", "claim", "await", "create", "find", "attach", "unknown",
         "claimExpiration", "expire", "poll", "record", "supersede",
         "bind", "invoice", "subscription", "commit"}

RunRecord == [pc : Step, op : {"none", "checkout", "change", "recheck", "webhook"},
              key : Key \cup {NoKey}, next : Key \cup {NoKey},
              seen : Status \cup {"unknown"}, session : Session \cup {NoSession},
              current : BOOLEAN, bound : BOOLEAN,
              event : Event \cup {0}, version : Event \cup {0}]

TypeOK ==
    /\ command \in [Key -> Command]
    /\ guard \in Key \cup {NoKey}
    /\ session \in [Session -> Status]
    /\ asked \subseteq Session /\ shown \subseteq Session
    /\ owed \in [Session -> SUBSET Event]
    /\ fact \in [Key -> [invoice : Event \cup {0}, subscription : Event \cup {0}]]
    /\ receipt \in [Key -> SUBSET (Event \cup {0})]
    /\ run \in [Run -> RunRecord]

Init ==
    /\ command = [k \in Key |-> NoCommand]
    /\ guard = NoKey
    /\ session = [s \in Session |-> "none"]
    /\ asked = {} /\ shown = {}
    /\ owed = [s \in Session |-> {}]
    /\ fact = [k \in Key |-> [invoice |-> 0, subscription |-> 0]]
    /\ receipt = [k \in Key |-> {}]
    /\ run = [p \in Run |-> IdleRun]
-----------------------------------------------------------------------------
(* What steps are made of.                                                 *)

Absent(k) == command[k].state = "none"
Mine(p) == command[run[p].key]

\* The run goes on: to another step, with what it learnt.
Goes(p, r) == run' = [run EXCEPT ![p] = r]
Ends(p) == Goes(p, IdleRun)

\* The run's command is written: every other run of it holds an old version now.
Writes(p, c, r) ==
    /\ command' = [command EXCEPT ![run[p].key] = c]
    /\ run' = [q \in Run |-> IF q = p THEN r
                             ELSE [run[q] EXCEPT !.current = @ /\ run[q].key # run[p].key]]

\* _attached_checkout_response: the URL is given while the stored state is open.
Answerable(c) == c.effect = "session_attached" /\ c.state = "provider_session_open"
Shows(c) == shown' = IF Answerable(c) THEN shown \cup {c.session} ELSE shown

\* _provider_key_digest: the same for every claim of a command.
FreshProviderKey(k, c) == <<k, c.generation>>
ProviderKey(k, c) == <<k, 0>>

Added(m, n) == m + n
Larger(m, n) == IF m > n THEN m ELSE n
-----------------------------------------------------------------------------
(* The world around the runs.                                              *)

\* A creation takes effect once, however late and however often it was asked.
SessionCreated(s) ==
    /\ s \in asked /\ session[s] = "none"
    /\ session' = [session EXCEPT ![s] = "open"]
    /\ UNCHANGED <<command, guard, asked, shown, owed, billing, run>>

\* Its day is over, or an expiration that was asked for and not waited for.
SessionExpires(s) ==
    /\ session[s] = "open"
    /\ session' = [session EXCEPT ![s] = "expired"]
    /\ UNCHANGED <<command, guard, asked, shown, owed, billing, run>>

\* The parent pays at the URL; Stripe owes the events of it.
Pay(s) ==
    /\ s \in shown /\ session[s] = "open"
    /\ session' = [session EXCEPT ![s] = "complete"]
    /\ owed' = [owed EXCEPT ![s] = Event]
    /\ UNCHANGED <<command, guard, asked, shown, billing, run>>

LeaseEnds(k) ==
    /\ command[k].leased
    /\ command' = [command EXCEPT ![k].leased = FALSE]
    /\ UNCHANGED <<guard, stripe, shown, billing, run>>

Die(p) ==
    /\ run[p].pc # "idle"
    /\ Ends(p)
    /\ UNCHANGED <<command, guard, stripe, shown, billing>>
-----------------------------------------------------------------------------
(* Starting a checkout: register, claim, create, attach, answer.           *)

\* A stored command is answered for while it and the guard fit together.
Replayable(k) ==
    IF command[k].state \in Terminal THEN guard \in {NoKey, k} ELSE guard = k

\* The one-open guard is free: nothing but a supersession moves it.
FreeOfUncertain ==
    \/ guard = NoKey
    \/ \E k \in Key : guard = k /\ command[k].state = "operator_attention_required"
GuardFree == guard = NoKey

\* A new key registers a command if none is open (create_or_resume_checkout_command).
Register(p, k) ==
    /\ \/ run[p].pc = "idle"
       \/ run[p].pc = "register" /\ run[p].key = k
    /\ \/ /\ Absent(k) /\ GuardFree
          /\ command' = [command EXCEPT ![k] = NewCommand]
          /\ guard' = k
          /\ UNCHANGED shown
          /\ Goes(p, [IdleRun EXCEPT !.pc = "claim", !.op = "checkout", !.key = k])
       \/ /\ ~Absent(k) /\ Replayable(k)
          /\ Shows(command[k])
          /\ UNCHANGED <<command, guard>>
          /\ IF Answerable(command[k]) THEN Ends(p)
             ELSE Goes(p, [IdleRun EXCEPT !.pc = "claim", !.op = "checkout", !.key = k])
    /\ UNCHANGED <<stripe, billing>>

\* An operator or the parent rechecks a command nothing is attached to.
Recheck(p, k) ==
    /\ run[p].pc = "idle"
    /\ command[k].state \notin Terminal \cup {"none"}
    /\ command[k].effect # "session_attached"
    /\ Goes(p, [IdleRun EXCEPT !.pc = "claim", !.op = "recheck", !.key = k])
    /\ UNCHANGED <<command, guard, stripe, shown, billing>>

Claimed(c) ==
    [c EXCEPT !.state = "provider_create_pending", !.effect = "create_claimed",
              !.leased = TRUE, !.generation = @ + 1]

Claim(p) ==
    /\ run[p].pc = "claim"
    /\ \/ /\ Mine(p).effect = "session_attached"
          /\ IF run[p].op = "checkout" THEN Shows(Mine(p)) ELSE UNCHANGED shown
          /\ UNCHANGED command
          /\ Ends(p)
       \/ /\ Mine(p).effect # "session_attached" /\ Mine(p).leased
          /\ UNCHANGED <<command, shown>>
          /\ IF run[p].op = "checkout" THEN Goes(p, [run[p] EXCEPT !.pc = "await"]) ELSE Ends(p)
       \/ /\ Mine(p).effect # "session_attached" /\ ~Mine(p).leased
          /\ Mine(p).generation < MaxClaims
          /\ Writes(p, Claimed(Mine(p)),
                    [run[p] EXCEPT !.pc = IF run[p].op = "checkout" THEN "create" ELSE "find",
                                   !.current = TRUE])
          /\ UNCHANGED shown
    /\ UNCHANGED <<guard, stripe, billing>>

\* Another run holds the lease: _poll_attached_checkout waits for its session.
Await(p) ==
    /\ run[p].pc = "await" /\ Answerable(Mine(p))
    /\ Shows(Mine(p))
    /\ Ends(p)
    /\ UNCHANGED <<command, guard, stripe, billing>>

\* The session is created or found again by its key, or Stripe's answer is lost twice.
Create(p) ==
    /\ run[p].pc = "create"
    /\ LET s == ProviderKey(run[p].key, Mine(p)) IN
       /\ asked' = asked \cup {s}
       /\ \/ /\ session' = [session EXCEPT ![s] = IF @ = "none" THEN "open" ELSE @]
             /\ Goes(p, [run[p] EXCEPT !.pc = "attach", !.session = s])
          \/ /\ UNCHANGED session
             /\ Goes(p, [run[p] EXCEPT !.pc = "unknown"])
    /\ UNCHANGED <<command, guard, shown, owed, billing>>

\* A recheck lists Stripe's recent sessions for one that names the command.
Find(p) ==
    /\ run[p].pc = "find"
    /\ \/ \E s \in Session :
             /\ s[1] = run[p].key /\ session[s] # "none"
             /\ Goes(p, [run[p] EXCEPT !.pc = "attach", !.session = s])
       \/ Goes(p, [run[p] EXCEPT !.pc = "unknown"])
    /\ UNCHANGED <<command, guard, stripe, shown, billing>>

Attached(p) ==
    [Mine(p) EXCEPT !.effect = "session_attached", !.state = "provider_session_open",
                    !.session = run[p].session]

\* A stale claim's session is not answered with, though Stripe gave its URL.
AnsweredAnyway(p) == Ends(p) /\ shown' = shown \cup {run[p].session}
Refused(p) == Ends(p) /\ UNCHANGED shown

\* attach_provider_session: only the latest claim attaches.
Attach(p) ==
    /\ run[p].pc = "attach"
    /\ \/ /\ Mine(p).effect = "session_attached"
          /\ IF run[p].op = "checkout" /\ Mine(p).session = run[p].session
             THEN Shows(Mine(p)) ELSE UNCHANGED shown
          /\ UNCHANGED command
          /\ Ends(p)
       \/ /\ Mine(p).effect = "create_claimed" /\ run[p].current
          /\ Writes(p, Attached(p), IdleRun)
          /\ IF run[p].op = "checkout" THEN Shows(Attached(p)) ELSE UNCHANGED shown
       \/ /\ Mine(p).effect # "session_attached"
          /\ ~(Mine(p).effect = "create_claimed" /\ run[p].current)
          /\ Refused(p) /\ UNCHANGED command
    /\ UNCHANGED <<guard, stripe, billing>>

\* mark_provider_outcome_unknown: the lease and the guard stay.
MarkUnknown(p) ==
    /\ run[p].pc = "unknown"
    /\ Mine(p).effect = "create_claimed" /\ run[p].current
    /\ Writes(p, [Mine(p) EXCEPT !.effect = "provider_outcome_unknown",
                                 !.state = "operator_attention_required"], IdleRun)
    /\ UNCHANGED <<guard, stripe, shown, billing>>
-----------------------------------------------------------------------------
(* Changing the plan of an open checkout: the old session first.           *)

\* What a retrieval tells of a session: its status, or nothing that is certain.
Retrieved(s) == {session[s], "unknown"}

Change(p, k, next) ==
    /\ run[p].pc = "idle" /\ k # next
    /\ command[k].effect = "session_attached"
    /\ \E seen \in Retrieved(command[k].session) :
          Goes(p, [IdleRun EXCEPT !.pc = IF seen = "open" THEN "claimExpiration" ELSE "record",
                                  !.op = "change", !.key = k, !.next = next, !.seen = seen])
    /\ UNCHANGED <<command, guard, stripe, shown, billing>>

ClaimExpiration(p) ==
    /\ run[p].pc = "claimExpiration"
    /\ \/ /\ Mine(p).expiry = "not_started"
          /\ Writes(p, [Mine(p) EXCEPT !.expiry = "expire_claimed"],
                    [run[p] EXCEPT !.pc = "expire"])
       \/ /\ Mine(p).expiry = "nonpayable_proven"
          /\ Goes(p, [run[p] EXCEPT !.pc = "record", !.seen = "expired"])
          /\ UNCHANGED command
       \/ /\ Mine(p).expiry = "expire_claimed"
          /\ Goes(p, [run[p] EXCEPT !.pc = "poll"])
          /\ UNCHANGED command
       \/ /\ Mine(p).expiry \in {"payment_reconciliation_required", "expiration_outcome_unknown"}
          /\ Ends(p)
          /\ UNCHANGED command
    /\ UNCHANGED <<guard, stripe, shown, billing>>

\* Stripe's refusal and a lost answer are passed over.
Expire(p) ==
    /\ run[p].pc = "expire"
    /\ LET s == Mine(p).session IN
       session' \in {session, [session EXCEPT ![s] = IF @ = "open" THEN "expired" ELSE @]}
    /\ Goes(p, [run[p] EXCEPT !.pc = "poll"])
    /\ UNCHANGED <<command, guard, asked, shown, owed, billing>>

\* A session still open after the last look counts as unknown.
Poll(p) ==
    /\ run[p].pc = "poll"
    /\ \E seen \in Retrieved(Mine(p).session) \ {"open"} :
          Goes(p, [run[p] EXCEPT !.pc = "record", !.seen = seen])
    /\ UNCHANGED <<command, guard, stripe, shown, billing>>

SilenceIsExpiry(c, seen) ==
    IF seen = "complete"
    THEN [c EXCEPT !.expiry = "payment_reconciliation_required", !.state = "reconciling"]
    ELSE [c EXCEPT !.expiry = "nonpayable_proven", !.state = "terminal_without_payment"]
Recorded(c, seen) ==
    CASE seen = "expired" ->
            [c EXCEPT !.expiry = "nonpayable_proven", !.state = "terminal_without_payment"]
      [] seen = "complete" ->
            [c EXCEPT !.expiry = "payment_reconciliation_required", !.state = "reconciling"]
      [] OTHER ->
            [c EXCEPT !.expiry = "expiration_outcome_unknown",
                      !.state = "operator_attention_required"]

\* record_session_expiration: the first outcome stays, whatever the command has become.
\* Who did not see the session ended leaves the matter to support even then.
Record(p) ==
    /\ run[p].pc = "record"
    /\ LET undecided == Mine(p).expiry \in {"not_started", "expire_claimed"}
           c == IF undecided THEN Recorded(Mine(p), run[p].seen) ELSE Mine(p)
           r == IF run[p].seen \in {"expired", "complete"} /\ c.expiry = "nonpayable_proven"
                THEN [run[p] EXCEPT !.pc = "supersede"] ELSE IdleRun
       IN IF undecided THEN Writes(p, c, r) ELSE Goes(p, r) /\ UNCHANGED command
    /\ UNCHANGED <<guard, stripe, shown, billing>>

Superseded(p) ==
    [command EXCEPT ![run[p].key].successor = run[p].next, ![run[p].next] = NewCommand]

\* One transaction ends the old command, moves the guard and registers the new one.
Supersede(p) ==
    /\ run[p].pc = "supersede"
    /\ LET k == run[p].key next == run[p].next
           on == [IdleRun EXCEPT !.pc = "register", !.op = "checkout", !.key = next]
       IN \/ /\ command[k].successor = NoKey
             /\ command[k].expiry = "nonpayable_proven"
             /\ command[k].state = "terminal_without_payment"
             /\ guard = k /\ Absent(next)
             /\ command' = Superseded(p)
             /\ guard' = next
             /\ run' = [q \in Run |-> IF q = p THEN on
                                      ELSE [run[q] EXCEPT !.current = @ /\ run[q].key # k]]
          \/ /\ command[k].successor = next /\ guard = next
             /\ Goes(p, on)
             /\ UNCHANGED <<command, guard>>
    /\ UNCHANGED <<stripe, shown, billing>>
-----------------------------------------------------------------------------
(* Stripe's webhooks (process_signed_billing_event).                       *)

\* An event comes, again perhaps; what it says is retrieved anew and must be paid for the
\* session the command names.  An event that comes before that is refused with a 503.
Deliver(p, k, e) ==
    /\ run[p].pc = "idle"
    /\ command[k].effect = "session_attached"
    /\ session[command[k].session] = "complete"
    /\ Goes(p, [IdleRun EXCEPT !.pc = "bind", !.op = "webhook", !.key = k, !.event = e,
                               !.bound = command[k].bound, !.current = TRUE])
    /\ UNCHANGED <<command, guard, stripe, shown, billing>>

\* bind_webhook_provider_identity: once bound, the version held is the one last read.
Bind(p) ==
    /\ run[p].pc = "bind"
    /\ LET on == [run[p] EXCEPT !.pc = "invoice"] IN
       \/ /\ run[p].bound
          /\ Goes(p, on)
          /\ UNCHANGED command
       \/ /\ ~run[p].bound /\ run[p].current
          /\ Writes(p, [Mine(p) EXCEPT !.bound = TRUE, !.state = "reconciling"], on)
       \/ /\ ~run[p].bound /\ ~run[p].current /\ Mine(p).bound
          /\ Goes(p, [on EXCEPT !.current = TRUE])
          /\ UNCHANGED command
    /\ UNCHANGED <<guard, stripe, shown, billing>>

InvoiceFact(p) ==
    /\ run[p].pc = "invoice"
    /\ fact' = [fact EXCEPT ![run[p].key].invoice = Larger(@, run[p].event)]
    /\ Goes(p, [run[p] EXCEPT !.pc = "subscription"])
    /\ UNCHANGED <<command, guard, stripe, shown, receipt>>

\* The activation is versioned by the newest fact there is.
SubscriptionFact(p) ==
    /\ run[p].pc = "subscription"
    /\ LET f == fact[run[p].key] newest == Larger(f.subscription, run[p].event) IN
       /\ fact' = [fact EXCEPT ![run[p].key].subscription = newest]
       /\ Goes(p, [run[p] EXCEPT !.pc = "commit", !.version = Larger(f.invoice, newest)])
    /\ UNCHANGED <<command, guard, stripe, shown, receipt>>

\* The answer is 200: Stripe does not send the event again.
Acknowledged(p) ==
    owed' = [owed EXCEPT ![Mine(p).session] = @ \ {run[p].event}]

\* commit_paid_activation: the command, the projections and the receipt, or nothing.
Activate(p) ==
    /\ run[p].pc = "commit"
    /\ run[p].version \notin receipt[run[p].key]
    /\ run[p].current /\ Mine(p).state # "activation_recorded"
    /\ Writes(p, [Mine(p) EXCEPT !.state = "activation_recorded"], IdleRun)
    /\ receipt' = [receipt EXCEPT ![run[p].key] = @ \cup {run[p].version}]
    /\ Acknowledged(p)
    /\ UNCHANGED <<guard, session, asked, shown, fact>>

\* Already done, in conflict with a newer version, or the transaction failed: 200 as well.
Close(p) ==
    /\ run[p].pc = "commit"
    /\ Acknowledged(p)
    /\ Ends(p)
    /\ UNCHANGED <<command, guard, session, asked, shown, billing>>
-----------------------------------------------------------------------------
Requests(p) ==
    \E k \in Key :
        \/ Register(p, k) \/ Recheck(p, k)
        \/ \E next \in Key : Change(p, k, next)
        \/ \E e \in Event : Deliver(p, k, e)

Steps(p) ==
    \/ Claim(p) \/ Await(p) \/ Create(p) \/ Find(p) \/ Attach(p) \/ MarkUnknown(p)
    \/ ClaimExpiration(p) \/ Expire(p) \/ Poll(p) \/ Record(p) \/ Supersede(p)
    \/ Bind(p) \/ InvoiceFact(p) \/ SubscriptionFact(p) \/ Activate(p) \/ Close(p)

World ==
    \/ \E s \in Session : SessionCreated(s) \/ SessionExpires(s) \/ Pay(s)
    \/ \E k \in Key : LeaseEnds(k)

Next == World \/ \E p \in Run : Requests(p) \/ Steps(p) \/ Die(p)

Spec == Init /\ [][Next]_vars

Delivers(p, k, e) == run[p].key = k /\ run[p].event = e
Owed(k, e) == \E s \in Session : s = command[k].session /\ e \in owed[s]

\* Requests end.  Stripe repeats an event until it is told 200, and each step of a delivery
\* sometimes gets through.
Fairness ==
    /\ \A p \in Run : WF_vars(Steps(p) \/ Die(p))
    /\ \A k \in Key, e \in Event :
          /\ SF_vars(Owed(k, e) /\ \E p \in Run : Deliver(p, k, e))
          /\ SF_vars(\E p \in Run : Delivers(p, k, e) /\ Bind(p))
          /\ SF_vars(\E p \in Run : Delivers(p, k, e) /\ InvoiceFact(p))
          /\ SF_vars(\E p \in Run : Delivers(p, k, e) /\ SubscriptionFact(p))
          /\ SF_vars(\E p \in Run : Delivers(p, k, e) /\ (Activate(p) \/ Close(p)))
FairSpec == Spec /\ Fairness
-----------------------------------------------------------------------------
(* What the code is to keep.                                               *)

\* A parent never has two sessions to pay, nor one to pay beside one that was paid: neither a
\* lost answer, a claim taken over, nor a change of plan racing a payment makes a second one.
OnePayable ==
    \A s, t \in Session :
        {session[s], session[t]} \subseteq {"open", "complete"} => s = t

\* What is recorded as ended without payment was not and will not be paid: a session's end is
\* taken from Stripe alone (record_session_expiration), never from an answer that did not come.
UnpaidIsFinal ==
    \A s \in Session :
        session[s] \in {"open", "complete"} => command[s[1]].state # "terminal_without_payment"

\* A command that may still be paid holds the guard: registration answers anything else as
\* malformed, for ever (_classify_registration_replay).
OpenHoldsGuard ==
    \A k \in Key : command[k].state \notin Terminal \cup {"none"} => guard = k

\* A paid session is the one its command names, and may be told so: a webhook that finds no
\* session in the command is refused each time it comes (process_signed_billing_event).
PaidIsOwned ==
    \A s \in Session : session[s] = "complete" =>
        /\ command[s[1]].effect = "session_attached" /\ command[s[1]].session = s

\* A payment is activated in the end, for a delivery that did not get through is repeated.
PaidIsActivated ==
    \A s \in Session : session[s] = "complete" ~> command[s[1]].state = "activation_recorded"

\* One payment is activated once, whatever comes twice, late or in another order.
ActivatedOnce == \A k \in Key, v, w \in Event : {v, w} \subseteq receipt[k] => v = w
-----------------------------------------------------------------------------
(* What the requests and webhooks amount to: ParentCheckout.               *)

\* What Stripe says of all sessions made for the command.
Statuses(k, sessions) == {sessions[s] : s \in {k} \X (0..MaxClaims)}

Fate(c, statuses) ==
    CASE c.state = "none" -> "none"
      [] c.state = "terminal_without_payment" -> "closed"
      [] OTHER -> IF "complete" \in statuses THEN "paid"
                  ELSE IF "open" \in statuses THEN "payable"
                  ELSE IF "expired" \in statuses THEN "lapsed" ELSE "begun"

Checkout == INSTANCE ParentCheckout WITH
    fate <- [k \in Key |-> Fate(command[k], Statuses(k, session))],
    holder <- guard,
    activated <- {k \in Key : receipt[k] # {}}

\* Whatever is lost, late, repeated or taken over, the parent has one checkout after the other,
\* a replacement only after a lapse, and nothing activated that was not paid (the guard,
\* record_session_expiration, supersede_checkout_command, commit_paid_activation).
OneCheckout == Checkout!Spec
=============================================================================
