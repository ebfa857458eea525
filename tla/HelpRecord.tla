----------------------------- MODULE HelpRecord -----------------------------
(***************************************************************************)
(* The record of one request for a human teacher, and the writes that may  *)
(* be made to it (services/help_requests.py).  A conversation has at most  *)
(* one.  The operators are the conditions and the updates of those writes; *)
(* HelpRequest says who makes them.                                        *)
(*                                                                         *)
(* Every write is bound to the version that was read, so the offer's id,   *)
(* which changes with every offer, is left out.  Only differences between  *)
(* times matter: a record carries the age of the request and of its offer  *)
(* in ticks, and a clock read some ticks ago is named by its lag.          *)
(***************************************************************************)
EXTENDS Integers

CONSTANTS
    Teacher,
    NoTeacher,
    OfferTime,    \* DISPATCH_ACCEPT_TIMEOUT_SECONDS
    ExpiryTime,   \* teacher_help_expiry_seconds
    RunTime       \* how long Lambda lets one run live

ASSUME TeacherAssumption == NoTeacher \notin Teacher
ASSUME TimeAssumption ==
    /\ {OfferTime, ExpiryTime} \subseteq Nat \ {0} /\ RunTime \in Nat
    /\ OfferTime <= ExpiryTime

Older(age, cap) == IF age < cap THEN age + 1 ELSE cap
OldOffer == OfferTime + RunTime      \* older offers, and older
OldRequest == ExpiryTime + RunTime   \* requests, are all alike
-----------------------------------------------------------------------------
Ended == {"withdrawn", "expired"}
Open == {"pending", "in_progress"}
Status == {"none", "resolved"} \cup Open \cup Ended

Dispatch == {"none", "dispatched", "no_candidate", "accepted", "unassigned", "revoked"}
                \cup Ended

\* status "none": the conversation has no record.  "previous" is the set of
\* teachers who let an offer lapse; its order tells nothing.  "replied" says
\* whether first_teacher_action_at is set.
Record == [status : Status, dispatch : Dispatch, offered : Teacher \cup {NoTeacher},
           previous : SUBSET Teacher, holder : Teacher \cup {NoTeacher},
           replied : BOOLEAN, asked : 0..OldRequest, offer : 0..OldOffer, version : Nat]

NoRecord == [status |-> "none", dispatch |-> "none", offered |-> NoTeacher,
             previous |-> {}, holder |-> NoTeacher, replied |-> FALSE,
             asked |-> 0, offer |-> 0, version |-> 0]

\* The record ask() writes, with a clock read lag ticks ago.
Asked(lag) == [NoRecord EXCEPT !.status = "pending", !.asked = lag, !.version = 1]

Aged(r) == [r EXCEPT !.asked = IF r.status \in Open THEN Older(@, OldRequest) ELSE @,
                     !.offer = IF r.dispatch = "dispatched" THEN Older(@, OldOffer) ELSE @]

Lapsed(r, lag) == r.offer >= OfferTime + lag
Due(r, lag) == r.asked >= ExpiryTime + lag

LiveOffer(r, lag) ==
    r.dispatch = "dispatched" /\ r.offered # NoTeacher /\ ~Lapsed(r, lag)

UntakenBlind(r) == r.status # "none"

\* Nobody took it: the condition of every write to a request that waits.
Untaken(r) == r.status = "pending" /\ r.holder = NoTeacher

PreviousForgotten(r, lag) == r.previous

\* Teachers it must not be offered to again: the ones recorded, and the one whose
\* offer has lapsed and is now replaced.
Previous(r, lag) ==
    r.previous \cup {t \in {r.offered} \ {NoTeacher} :
                        r.dispatch = "dispatched" /\ Lapsed(r, lag)}

Written(r) == [r EXCEPT !.version = @ + 1]

\* _OFFER_FIELDS removed.
NoOffer(r) == [r EXCEPT !.offered = NoTeacher, !.offer = 0]

\* dispatch and _record_no_candidate.
Offered(r, t, lag) ==
    Written([r EXCEPT !.dispatch = "dispatched", !.offered = t, !.offer = lag,
                      !.previous = Previous(r, lag)])
NobodyFree(r, lag) ==
    Written([NoOffer(r) EXCEPT !.dispatch = "no_candidate", !.previous = Previous(r, lag)])

\* _end.
EndedAs(r, outcome) == Written([NoOffer(r) EXCEPT !.status = outcome, !.dispatch = outcome])

\* _advance: the teacher who holds it moves it on, the one it is offered to takes
\* it.  The deadline is part of the condition; later nobody reads it.
MayAdvance(r, t, lag) ==
    \/ r.holder = t /\ r.status \in Open
    \/ /\ Untaken(r) /\ LiveOffer(r, lag)
       /\ r.offered = t /\ t \notin r.previous
Advanced(r, t, target, replies) ==
    Written([r EXCEPT !.status = target, !.holder = t, !.replied = @ \/ replies,
                      !.dispatch = IF r.holder = t THEN @ ELSE "accepted",
                      !.offer = 0])
\* reply by the holder, of a resolved request too.
Replied(r) == Written([r EXCEPT !.replied = TRUE])

\* teacher_may RESPOND or RESOLVE, which a record that has ended refuses.
TeacherMay(r, t, lag) ==
    \/ r.holder = t /\ r.status \in {"in_progress", "resolved"} /\ r.dispatch # "revoked"
    \/ Untaken(r) /\ LiveOffer(r, lag) /\ r.offered = t /\ t \notin r.previous

ReferencesHolding(r, t) == t \in {r.holder, r.offered}

\* references_teacher.
References(r, t) == t \in {r.holder, r.offered} \cup r.previous

Free(r) == [NoOffer(r) EXCEPT !.holder = NoTeacher]

ScrubbedHolder(r, t) ==
    LET forgot == [r EXCEPT !.previous = @ \ {t}]
    IN Written(IF t \in {r.holder, r.offered}
               THEN [Free(forgot) EXCEPT !.dispatch = "unassigned"] ELSE forgot)

\* scrub_teacher: an open request waits again, another one is closed to the teacher,
\* one that only remembers the teacher forgets them.
Scrubbed(r, t) ==
    LET forgot == [r EXCEPT !.previous = @ \ {t}]
    IN Written(IF t \notin {r.holder, r.offered} THEN forgot
               ELSE IF r.status \in Open
                    THEN [Free(forgot) EXCEPT !.status = "pending",
                                              !.dispatch = "unassigned"]
                    ELSE [Free(forgot) EXCEPT !.dispatch = "revoked"])
=============================================================================
