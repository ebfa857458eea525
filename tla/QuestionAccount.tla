--------------------------- MODULE QuestionAccount ---------------------------
(***************************************************************************)
(* What one committed question promises its student and the books: it is   *)
(* answered once or ends; the model is called only while tokens are set    *)
(* aside, and again only after a call that failed without reporting usage; *)
(* what it cost is charged exactly if it was answered; and once it is      *)
(* settled nothing more happens to it.  There are no workers, leases,      *)
(* attempts or clocks here.  AskQuestion implements this module.           *)
(***************************************************************************)
EXTENDS Naturals

VARIABLES
    fate,       \* "open", "retryable" (the student's turn), "answered" or "ended"
    paid,       \* whether a call reported its usage, or was never heard of again
    unreported, \* how many calls failed and may be on the bill without usage
    effect,     \* the entry in the ledger: its state and what is known of the cost
    settled     \* the sweep has closed the books

vars == <<fate, paid, unreported, effect, settled>>

Entry(state, evidence) == [state |-> state, evidence |-> evidence]

Init ==
    /\ fate = "open" /\ paid = FALSE /\ unreported = 0 /\ settled = FALSE
    /\ effect = Entry("none", "none")
-----------------------------------------------------------------------------
(* The ledger.                                                             *)

\* Tokens are set aside once, if need be by a worker that does not know the end.
Reserve ==
    /\ effect.state = "none" /\ fate # "answered" /\ ~settled
    /\ effect' = Entry("reserved", "none")
    /\ UNCHANGED <<fate, paid, unreported, settled>>

\* The one call that counts as paid for, and never while the student may retry.
Pay ==
    /\ effect.state = "reserved" /\ ~paid /\ fate \in {"open", "ended"}
    /\ paid' = TRUE
    /\ UNCHANGED <<fate, unreported, effect, settled>>

\* A call that fails without usage.  It is not known to be paid for, so another may
\* follow: only after a call that counts as paid for is there none.
GoUnreported ==
    /\ effect.state = "reserved" /\ ~paid /\ fate \in {"open", "ended"}
    /\ unreported' = unreported + 1
    /\ UNCHANGED <<fate, paid, effect, settled>>

\* The cost is known of a reply, and given up only after the end.
Observe ==
    /\ effect.state = "reserved"
    /\ \/ paid /\ effect' = Entry("observed", "reported")
       \/ fate = "ended" /\ effect' = Entry("observed", "unknown_cost")
    /\ UNCHANGED <<fate, paid, unreported, settled>>

GiveBack ==
    /\ effect.state = "observed" /\ fate \in {"open", "ended"}
    /\ effect' = Entry("restored", effect.evidence)
    /\ UNCHANGED <<fate, paid, unreported, settled>>

Charge ==
    /\ effect.state = "observed" /\ fate = "answered"
    /\ effect' = Entry("finalized", effect.evidence)
    /\ UNCHANGED <<fate, paid, unreported, settled>>
-----------------------------------------------------------------------------
(* The question.                                                           *)

\* An answer is stored while its cost stands in the ledger.
Answer ==
    /\ fate = "open" /\ paid /\ effect = Entry("observed", "reported")
    /\ fate' = "answered"
    /\ UNCHANGED <<paid, unreported, effect, settled>>

Fail ==
    /\ fate = "open" /\ ~paid
    /\ fate' = "retryable"
    /\ UNCHANGED <<paid, unreported, effect, settled>>

Retry ==
    /\ fate = "retryable"
    /\ fate' = "open"
    /\ UNCHANGED <<paid, unreported, effect, settled>>

End ==
    /\ fate \in {"open", "retryable"}
    /\ fate' = "ended"
    /\ UNCHANGED <<paid, unreported, effect, settled>>

Settle ==
    /\ fate = "ended" /\ effect.state \in {"none", "restored"} /\ ~settled
    /\ settled' = TRUE
    /\ UNCHANGED <<fate, paid, unreported, effect>>

Next ==
    \/ Reserve \/ Pay \/ GoUnreported \/ Observe \/ GiveBack \/ Charge
    \/ Answer \/ Fail \/ Retry \/ End \/ Settle

Spec == Init /\ [][Next]_vars
=============================================================================
