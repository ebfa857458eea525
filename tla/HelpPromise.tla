----------------------------- MODULE HelpPromise -----------------------------
(***************************************************************************)
(* What asking for a human teacher promises, seen without the runs that    *)
(* race for it: a request waits, is taken, and is resolved or ends; it is  *)
(* shown to no teacher twice and to nobody who is leaving; only the        *)
(* teacher it is shown to takes it; the case it costs is spent with it and *)
(* goes back in the same step as it ends.  HelpRequest implements this     *)
(* module.                                                                 *)
(***************************************************************************)

CONSTANTS Conversation, Teacher, NoTeacher

VARIABLES
    ticket,     \* of each conversation: its stage, teachers and case
    leaving     \* teachers whose account is being deleted

vars == <<ticket, leaving>>

\* stage is "none", "waiting", "taken", "resolved" or "ended"; tried are the teachers it
\* was ever shown to.
Ticket(stage, holder, offered, tried, case) ==
    [stage |-> stage, holder |-> holder, offered |-> offered, tried |-> tried,
     case |-> case]

NoTicket == Ticket("none", NoTeacher, NoTeacher, {}, "none")

Init == ticket = [c \in Conversation |-> NoTicket] /\ leaving = {}
-----------------------------------------------------------------------------
\* Only the ticket of c changes.
Only(c) == ticket' = [ticket EXCEPT ![c] = ticket'[c]] /\ UNCHANGED leaving

Ask(old, new) ==
    /\ old.stage = "none"
    /\ new = Ticket("waiting", old.holder, old.offered, old.tried, "admitted")

Show(old, new) ==
    /\ old.stage = "waiting"
    /\ \E t \in Teacher \ (old.tried \cup leaving) :
          new = Ticket("waiting", NoTeacher, t, old.tried \cup {t}, old.case)

Withhold(old, new) ==
    /\ old.stage = "waiting"
    /\ new = Ticket("waiting", NoTeacher, NoTeacher, old.tried, old.case)

\* The teacher takes it, finishes it, or does both at once.
Take(old, new) ==
    \E t \in Teacher \ leaving, stage \in {"taken", "resolved"} :
        /\ old.offered = t
        /\ \/ old.stage = "waiting"
           \/ old.stage = "taken" /\ stage = "resolved" /\ old.holder = t
        /\ new = Ticket(stage, t, t, old.tried, old.case)

\* Nobody took it: the case goes back.
End(old, new) ==
    /\ old.stage = "waiting"
    /\ new = Ticket("ended", NoTeacher, NoTeacher, old.tried, "refunded")

\* A teacher who is leaving is taken off; what is not resolved waits again.
Forget(old, new) ==
    /\ old.offered \in leaving
    /\ \E stage \in {"waiting", "resolved"} :
         /\ stage = "resolved" <=> old.stage = "resolved"
         /\ new = Ticket(stage, NoTeacher, NoTeacher, old.tried, old.case)

Turns(old, new) ==
    \/ Ask(old, new) \/ Show(old, new) \/ Withhold(old, new) \/ Take(old, new)
    \/ End(old, new) \/ Forget(old, new)

\* The account of t is to be deleted.
Leave(t) == leaving' = leaving \cup {t} /\ UNCHANGED ticket

Next ==
    \/ \E c \in Conversation : Turns(ticket[c], ticket'[c]) /\ Only(c)
    \/ \E t \in Teacher : Leave(t)

Spec == Init /\ [][Next]_vars
=============================================================================
