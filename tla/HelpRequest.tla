---------------------------- MODULE HelpRequest ----------------------------
(***************************************************************************)
(* A student's requests for a human teacher: services/help_requests.py     *)
(* with the weekly cases they spend, teacher_support_allowance_service.py. *)
(*                                                                         *)
(* Asking spends a case of the week and writes the record in one           *)
(* transaction; ending a request nobody took gives the case back in one.   *)
(* In between it is offered to one teacher at a time.  The student, the    *)
(* teachers, an administrator, the sweep and the deletion of a teacher's   *)
(* account act on the same rows, each reading first and writing later.     *)
(*                                                                         *)
(* A step is one read or one transaction.  Any run may die after any step. *)
(* The requests are those of one student, whose account stays open.        *)
(***************************************************************************)
EXTENDS HelpRecord, FiniteSets

CONSTANTS
    Conversation,
    NoConversation,
    Run,           \* calls and sweep runs that may overlap
    Weeks,         \* the weeks the clock passes through
    Figure,        \* weekly cases an administrator may set
    FirstFigure,   \* ASSIGNED_WEEKLY_TEACHER_SUPPORT_CASES
    MaxTries,      \* weekly_counter.DEFAULT_ATTEMPTS
    MaxFigures,    \* bound: how often the figure is set
    MaxVersion     \* bound: a record this old gets no more teacher's calls

ASSUME ConversationAssumption ==
    IsFiniteSet(Conversation) /\ NoConversation \notin Conversation
ASSUME BoundAssumption ==
    /\ {Weeks, MaxTries, MaxVersion} \subseteq Nat \ {0} /\ MaxFigures \in Nat
    /\ Figure \subseteq Nat /\ FirstFigure \in Nat

VARIABLES
    record,    \* the help request of each conversation
    receipt,   \* the admission receipt of each case, with its week
    counter,   \* the week's counter of admitted cases
    limit,     \* the student's weekly figure; version 0: nobody set it
    deleting,  \* teachers who are deleting their account
    week,      \* the week it is
    run,       \* what each run is doing
    offers     \* history: how often a conversation was offered to a teacher

vars == <<record, receipt, counter, limit, deleting, week, run, offers>>
-----------------------------------------------------------------------------
Week == 1..Weeks
CounterRow == [version : Nat, cases : Nat]
LimitRow == [version : 0..MaxFigures, cases : Figure \cup {FirstFigure}]
NoCounter == [version |-> 0, cases |-> 0]
NoReceipt == [state |-> "none", week |-> 1]

StudentOp == {"ask", "withdraw"}
TeacherOp == {"take", "finish", "reply"}

\* row, limit, receipt and cases are what the run read; row is the one it goes on
\* to dispatch, version the one of the read it ends a request by.
IdleRun == [pc |-> "idle", op |-> "none", conv |-> NoConversation, teacher |-> NoTeacher,
            age |-> 0, week |-> 1, tries |-> 0, row |-> NoRecord, version |-> 0,
            limit |-> [version |-> 0, cases |-> FirstFigure], receipt |-> "none",
            cases |-> NoCounter]

RunState ==
    [pc : {"idle", "scope", "receipt", "count", "admit", "plan", "offer",
           "scan", "end", "case", "counter", "refund", "move", "clean"},
     op : {"none", "sweep", "scrub"} \cup StudentOp \cup TeacherOp,
     conv : Conversation \cup {NoConversation}, teacher : Teacher \cup {NoTeacher},
     age : 0..RunTime, week : Week, tries : 0..MaxTries, row : Record, version : Nat,
     limit : LimitRow, receipt : {"none", "admitted", "refunded"}, cases : CounterRow]

TypeOK ==
    /\ record \in [Conversation -> Record]
    /\ receipt \in [Conversation ->
                      [state : {"none", "admitted", "refunded"}, week : Week]]
    /\ counter \in [Week -> CounterRow]
    /\ limit \in LimitRow
    /\ deleting \subseteq Teacher
    /\ week \in Week
    /\ run \in [Run -> RunState]
    /\ offers \in [Conversation -> [Teacher -> 0..2]]

Init ==
    /\ record = [c \in Conversation |-> NoRecord]
    /\ receipt = [c \in Conversation |-> NoReceipt]
    /\ counter = [w \in Week |-> NoCounter]
    /\ limit = [version |-> 0, cases |-> FirstFigure]
    /\ deleting = {}
    /\ week = 1
    /\ run = [p \in Run |-> IdleRun]
    /\ offers = [c \in Conversation |-> [t \in Teacher |-> 0]]
-----------------------------------------------------------------------------
(* The world around the runs.                                              *)

Tick ==
    /\ \A p \in Run : run[p].pc # "idle" => run[p].age < RunTime
    /\ record' = [c \in Conversation |-> Aged(record[c])]
    /\ run' = [p \in Run |-> IF run[p].pc = "idle" THEN run[p]
                             ELSE [run[p] EXCEPT !.age = @ + 1, !.row = Aged(@)]]
    /\ UNCHANGED <<receipt, counter, limit, deleting, week, offers>>

NextWeek ==
    /\ week < Weeks
    /\ week' = week + 1
    /\ UNCHANGED <<record, receipt, counter, limit, deleting, run, offers>>

\* set_assigned_weekly_cases: a write under the version it read, or none.
SetFigure(n) ==
    /\ limit.version < MaxFigures
    /\ limit' = [version |-> limit.version + 1, cases |-> n]
    /\ UNCHANGED <<record, receipt, counter, deleting, week, run, offers>>

\* A teacher's account is fenced for its deletion.
FenceTeacher(t) ==
    /\ t \notin deleting
    /\ deleting' = deleting \cup {t}
    /\ UNCHANGED <<record, receipt, counter, limit, week, run, offers>>

Crash(p) ==
    /\ run[p].pc # "idle"
    /\ run' = [run EXCEPT ![p] = IdleRun]
    /\ UNCHANGED <<record, receipt, counter, limit, deleting, week, offers>>
-----------------------------------------------------------------------------
Rows == <<record, receipt, counter, limit, deleting, week, offers>>

Call(p, op, c, t, pc, row) ==
    /\ run[p].pc = "idle"
    /\ run' = [run EXCEPT ![p] = [IdleRun EXCEPT !.pc = pc, !.op = op, !.conv = c,
                                     !.teacher = t, !.row = row,
                                     !.week = IF op = "ask" THEN week ELSE 1]]
    /\ UNCHANGED Rows

\* ask: a conversation that already has a request answers with it.
CallAsk(p, c) ==
    record[c].status = "none" /\ Call(p, "ask", c, NoTeacher, "scope", NoRecord)

CallWithdraw(p, c) == Call(p, "withdraw", c, NoTeacher, "end", NoRecord)

StartSweep(p, c) ==
    record[c].status = "pending" /\ Call(p, "sweep", c, NoTeacher, "scan", NoRecord)

\* A teacher's call is authorized on the record it then goes on with.
CallTeacher(p, op, c, t) ==
    /\ record[c].version \in 1..(MaxVersion - 1)
    /\ t \notin deleting /\ TeacherMay(record[c], t, 0)
    /\ Call(p, op, c, t, "move", record[c])

\* A pass of the deletion of a teacher's account finds a request that names them.
StartScrub(p, c, t) ==
    /\ t \in deleting /\ References(record[c], t)
    /\ Call(p, "scrub", c, t, "clean", record[c])

Goto(p, l) == run' = [run EXCEPT ![p].pc = l]
Return(p) == run' = [run EXCEPT ![p] = IdleRun]

\* weekly_counter.retry: what moved is read again, a few times.
Retried(c, l) ==
    [c EXCEPT !.pc = l, !.tries = @ + 1, !.version = 0, !.limit = IdleRun.limit,
              !.receipt = "none", !.week = IF c.op = "ask" THEN @ ELSE 1,
              !.cases = NoCounter]

Again(p, l, exhausted) ==
    IF run[p].tries + 1 < MaxTries
    THEN run' = [run EXCEPT ![p] = Retried(run[p], l)]
    ELSE exhausted

\* A read that fails ends a call; the caller may call again.
ReadFails(p) ==
    /\ run[p].pc \in {"scope", "receipt", "count", "plan", "scan"}
    /\ Return(p)
    /\ UNCHANGED Rows
-----------------------------------------------------------------------------
(* Asking: ask and admit_teacher_support_case.                             *)

\* The figure in force; without cases the student has no teacher support.  It is the
\* assigned one; a parent's paid plan is read and bound in the same way.
ReadScope(p) ==
    /\ run[p].pc = "scope"
    /\ IF limit.cases > 0
       THEN run' = [run EXCEPT ![p].pc = "receipt", ![p].limit = limit]
       ELSE Return(p)
    /\ UNCHANGED Rows

\* A receipt is an earlier try of this request that did commit.
ReadReceipt(p) ==
    LET c == run[p] IN
    /\ c.pc = "receipt"
    /\ IF receipt[c.conv].state = "none" THEN Goto(p, "count") ELSE Return(p)
    /\ UNCHANGED Rows

ReadCount(p) ==
    LET c == run[p]
        read == counter[c.week]
    IN
    /\ c.pc = "count"
    /\ IF read.cases < c.limit.cases
       THEN run' = [run EXCEPT ![p].pc = "admit", ![p].cases = read]
       ELSE Return(p)
    /\ UNCHANGED Rows

GivenBackTwice(row) == [version |-> row.version + 1, cases |-> row.cases - 2]

\* The counter row with one case more, and with one less.
Spent(row) == [version |-> row.version + 1, cases |-> row.cases + 1]
GivenBack(row) == [version |-> row.version + 1, cases |-> row.cases - 1]

AdmitConditionUncounted(c) ==
    /\ record[c.conv].status = "none" /\ receipt[c.conv].state = "none"
    /\ limit = c.limit
AdmitConditionUnfenced(c) ==
    /\ record[c.conv].status = "none" /\ receipt[c.conv].state = "none"
    /\ counter[c.week] = c.cases

\* What the transaction is conditional on: no request, no receipt, and the figure
\* and the counter as they were read.
AdmitCondition(c) ==
    /\ record[c.conv].status = "none" /\ receipt[c.conv].state = "none"
    /\ limit = c.limit /\ counter[c.week] = c.cases

\* The transaction: the case, its receipt and its place in the week.  Its answer
\* may be lost, and the call then finds the receipt when it tries again.
Admit(p) ==
    LET c == run[p] IN
    /\ c.pc = "admit" /\ AdmitCondition(c)
    /\ record' = [record EXCEPT ![c.conv] = Asked(c.age)]
    /\ receipt' = [receipt EXCEPT ![c.conv] = [state |-> "admitted", week |-> c.week]]
    /\ counter' = [counter EXCEPT ![c.week] = Spent(c.cases)]
    /\ \/ run' = [run EXCEPT ![p] = [IdleRun EXCEPT !.pc = "plan", !.op = "ask",
                                      !.conv = c.conv, !.age = c.age, !.row = Asked(c.age)]]
       \/ Again(p, "scope", Return(p))
    /\ UNCHANGED <<limit, deleting, week, offers>>

\* Something it rests on has moved, or the table refused it for its own reasons.
AdmitRefused(p) ==
    /\ run[p].pc = "admit"
    /\ Again(p, "scope", Return(p))
    /\ UNCHANGED Rows
-----------------------------------------------------------------------------
(* Offering: dispatch, for the record as the run has it.                   *)

\* plan_dispatch ranks the teachers whose account is active and who are available,
\* teach the subject and have room; which of them there are is left open.
Candidates(row, lag) == Teacher \ (deleting \cup Previous(row, lag))

\* That nobody is free is recorded once, not by every sweep (why nobody is, which
\* would be recorded again when it changes, is left out).
Plan(p) ==
    LET c == run[p] IN
    /\ c.pc = "plan"
    /\ \/ \E t \in Candidates(c.row, c.age) :
              run' = [run EXCEPT ![p].pc = "offer", ![p].teacher = t]
       \/ IF c.row.dispatch = "no_candidate" /\ Previous(c.row, c.age) = c.row.previous
          THEN Return(p)
          ELSE Goto(p, "offer")
    /\ UNCHANGED Rows

AccountUnbound(t) == TRUE

\* active_fence_condition on a teacher's account.
AccountBound(t) == t \notin deleting

CurrentUnread(c) == record[c.conv].status # "none"

\* The record is still the one that was read.
Current(c) == record[c.conv].version = c.row.version

\* The offer binds the teacher's account and profile as planned, and the record.
Offer(p) ==
    LET c == run[p] IN
    /\ c.pc = "offer" /\ Current(c) /\ Untaken(record[c.conv])
    /\ IF c.teacher = NoTeacher
       THEN /\ record' = [record EXCEPT ![c.conv] = NobodyFree(c.row, c.age)]
            /\ UNCHANGED offers
       ELSE /\ AccountBound(c.teacher)
            /\ record' = [record EXCEPT ![c.conv] = Offered(c.row, c.teacher, c.age)]
            /\ offers' = [offers EXCEPT ![c.conv][c.teacher] = IF @ < 2 THEN @ + 1 ELSE @]
    /\ Return(p)
    /\ UNCHANGED <<receipt, counter, limit, deleting, week>>
-----------------------------------------------------------------------------
(* Ending a request nobody took: _end and refund_teacher_support_case.     *)

Outcome(c) == IF c.op = "withdraw" THEN "withdrawn" ELSE "expired"

\* What was not ended by a sweep it goes on to dispatch, as it scanned it.
NotEnded(p) ==
    LET c == run[p] IN
    IF c.op = "sweep" /\ ~LiveOffer(c.row, c.age)
    THEN run' = [run EXCEPT ![p] = [IdleRun EXCEPT !.pc = "plan", !.op = "sweep",
                                      !.conv = c.conv, !.age = c.age, !.row = c.row]]
    ELSE Return(p)

\* The sweep's scan, which leaves a live offer alone.  A scan that returns a row older
\* than the stored one comes to the same: every write that follows is refused.
Scan(p) ==
    LET c == run[p]
        read == record[c.conv]
    IN
    /\ c.op = "sweep" /\ c.pc = "scan"
    /\ IF ~Untaken(read) THEN Return(p)
       ELSE IF Due(read, c.age) THEN run' = [run EXCEPT ![p].pc = "end", ![p].row = read]
       ELSE IF LiveOffer(read, c.age) THEN Return(p)
       ELSE run' = [run EXCEPT ![p].pc = "plan", ![p].row = read]
    /\ UNCHANGED Rows

\* Each attempt reads afresh.
GetToEnd(p) ==
    LET c == run[p]
        read == record[c.conv]
    IN
    /\ c.pc = "end"
    /\ IF Untaken(read) /\ (c.op = "sweep" => Due(read, c.age))
       THEN run' = [run EXCEPT ![p].pc = "case", ![p].version = read.version]
       ELSE NotEnded(p)
    /\ UNCHANGED Rows

\* The receipt, which every request has, and for a case that was not given back the
\* counter of its week.
GetCase(p) ==
    LET c == run[p]
        read == receipt[c.conv]
    IN
    /\ c.pc = "case" /\ read.state # "none"
    /\ run' = [run EXCEPT ![p].pc = IF read.state = "admitted" THEN "counter" ELSE "refund",
                          ![p].receipt = read.state, ![p].week = read.week]
    /\ UNCHANGED Rows

GetCounter(p) ==
    /\ run[p].pc = "counter"
    /\ run' = [run EXCEPT ![p].pc = "refund", ![p].cases = counter[run[p].week]]
    /\ UNCHANGED Rows

RefundConditionBlind(c) ==
    /\ record[c.conv].status \in Open
    /\ receipt[c.conv].state = c.receipt
    /\ c.receipt = "admitted" => counter[c.week] = c.cases

\* The record, the receipt and the counter as they were read.
RefundCondition(c) ==
    /\ record[c.conv].version = c.version /\ Untaken(record[c.conv])
    /\ receipt[c.conv].state = c.receipt
    /\ c.receipt = "admitted" => counter[c.week] = c.cases

\* The transaction.  When its answer is lost the next read finds the request ended.
Refund(p) ==
    LET c == run[p] IN
    /\ c.pc = "refund" /\ RefundCondition(c)
    /\ record' = [record EXCEPT ![c.conv] = EndedAs(@, Outcome(c))]
    /\ receipt' = [receipt EXCEPT ![c.conv].state = "refunded"]
    /\ counter' = IF c.receipt = "admitted"
                  THEN [counter EXCEPT ![c.week] = GivenBack(c.cases)] ELSE counter
    /\ Return(p) \/ Again(p, "end", NotEnded(p))
    /\ UNCHANGED <<limit, deleting, week, offers>>

\* A read of the ending that failed, or a transaction that was refused.
RefundRefused(p) ==
    /\ run[p].pc \in {"case", "counter", "refund"}
    /\ Again(p, "end", NotEnded(p))
    /\ UNCHANGED Rows

\* The first read failed: nothing more is tried.
EndUnavailable(p) ==
    /\ run[p].pc = "end"
    /\ NotEnded(p)
    /\ UNCHANGED Rows
-----------------------------------------------------------------------------
(* A teacher's call, and taking a deleting teacher off a request.          *)

MoveTo(c) == [take |-> "in_progress", finish |-> "resolved", reply |-> "in_progress"][c.op]

\* take_or_finish and reply; its clock was read after the record.  Only a move
\* binds the teacher's own account, the holder's reply does not.
Move(p) ==
    LET c == run[p]
        holds == c.op = "reply" /\ c.row.holder = c.teacher
    IN
    /\ c.pc = "move" /\ Current(c)
    /\ IF holds
       THEN record' = [record EXCEPT ![c.conv] = Replied(c.row)]
       ELSE /\ AccountBound(c.teacher)
            /\ \E lag \in 0..c.age : MayAdvance(c.row, c.teacher, lag)
            /\ record' = [record EXCEPT ![c.conv] =
                            Advanced(c.row, c.teacher, MoveTo(c), c.op = "reply")]
    /\ Return(p)
    /\ UNCHANGED <<receipt, counter, limit, deleting, week, offers>>

\* scrub_teacher, under the version that the pass read.
Scrub(p) ==
    LET c == run[p] IN
    /\ c.pc = "clean" /\ Current(c)
    /\ record' = [record EXCEPT ![c.conv] = Scrubbed(c.row, c.teacher)]
    /\ Return(p)
    /\ UNCHANGED <<receipt, counter, limit, deleting, week, offers>>

\* A write that was refused: an offer waits for the sweep, a teacher's call answers
\* with a conflict, a deletion pass is repeated.
WriteRefused(p) ==
    /\ run[p].pc \in {"offer", "move", "clean"}
    /\ Return(p)
    /\ UNCHANGED Rows
-----------------------------------------------------------------------------
Start(p) ==
    \E c \in Conversation :
        \/ CallAsk(p, c) \/ CallWithdraw(p, c) \/ StartSweep(p, c)
        \/ \E t \in Teacher : \/ StartScrub(p, c, t)
                              \/ \E op \in TeacherOp : CallTeacher(p, op, c, t)

Work(p) ==
    \/ ReadScope(p) \/ ReadReceipt(p) \/ ReadCount(p) \/ Admit(p)
    \/ Plan(p) \/ Offer(p)
    \/ Scan(p) \/ GetToEnd(p) \/ GetCase(p) \/ GetCounter(p) \/ Refund(p)
    \/ Move(p) \/ Scrub(p)

Fail(p) ==
    \/ ReadFails(p) \/ AdmitRefused(p) \/ RefundRefused(p) \/ EndUnavailable(p)
    \/ WriteRefused(p) \/ Crash(p)

Next ==
    \/ Tick \/ NextWeek
    \/ \E n \in Figure : SetFigure(n)
    \/ \E t \in Teacher : FenceTeacher(t)
    \/ \E p \in Run : Start(p) \/ Work(p) \/ Fail(p)

Spec == Init /\ [][Next]_vars
-----------------------------------------------------------------------------
(* Safety.                                                                 *)

\* A teacher who let an offer lapse is not offered the request again, whoever
\* notices the lapse (_previous): nobody is offered it twice.
OfferedOnce == \A c \in Conversation, t \in Teacher : offers[c][t] <= 1

\* Some teacher holds a request exactly while one is said to have taken it; only a
\* finished one may have lost its teacher since.  What ended untaken is offered to
\* nobody (_end, scrub_teacher).
HolderAndStatusAgree ==
    \A c \in Conversation :
        LET r == record[c] IN
        /\ r.holder # NoTeacher =>
             /\ r.status \in {"in_progress", "resolved"} /\ r.offered = r.holder
        /\ r.status = "in_progress" => r.holder # NoTeacher
        /\ r.status = "resolved" => r.holder # NoTeacher \/ r.dispatch = "revoked"
        /\ r.status \in Ended => r.offered = NoTeacher

\* A case is spent by exactly the requests that were asked, and given back for
\* exactly those that ended without a teacher (admit and refund).
CaseFollowsRequest ==
    \A c \in Conversation :
        /\ receipt[c].state = "none" <=> record[c].status = "none"
        /\ receipt[c].state = "refunded" <=> record[c].status \in Ended

\* The week's counter is the number of its cases that were not given back,
\* whichever calls raced for it and whatever week it is when one goes back.
CasesAccount ==
    \A w \in Week :
        counter[w].cases = Cardinality({c \in Conversation :
                               receipt[c] = [state |-> "admitted", week |-> w]})

\* A case is never spent against a figure replaced between reading and spending
\* (set_assigned_weekly_cases).
AdmittedWithinFigure ==
    [][\A w \in Week : counter'[w].cases > counter[w].cases
                          => counter'[w].cases <= limit.cases]_vars

\* A request changes hands only when its teacher's account goes, and goes to the
\* teacher it was offered to (_advance, reply).
HolderStays ==
    [][\A c \in Conversation :
          LET old == record[c].holder
              new == record'[c].holder
          IN old # new => /\ old # NoTeacher => new = NoTeacher /\ old \in deleting
                          /\ new # NoTeacher => record[c].offered = new]_vars

\* How a request ended stands: a late withdrawal, sweep, teacher or deletion does
\* not reopen it or end it another way.
EndsStay ==
    [][\A c \in Conversation : record[c].status \in Ended \cup {"resolved"}
                                 => record'[c].status = record[c].status]_vars

\* r names t in any of its fields.
Names(r, t) == t \in {r.holder, r.offered} \cup r.previous

\* A teacher whose account is being deleted is not put on a request any more, so
\* that what the deletion has cleaned stays clean (active_fence_condition).
NoNewReference ==
    [][\A c \in Conversation, t \in Teacher :
          t \in deleting /\ ~Names(record[c], t) => ~Names(record'[c], t)]_vars
-----------------------------------------------------------------------------
(* What the runs' reads and writes amount to: HelpPromise.                 *)

Stage(r) ==
    CASE r.status = "pending" -> "waiting"
      [] r.status = "in_progress" -> "taken"
      [] r.status \in Ended -> "ended"
      [] r.status \in {"none", "resolved"} -> r.status

\* A request with its case and its history of offers, as the promise sees them.
Seen(r, case, times) ==
    [stage |-> Stage(r), holder |-> r.holder, offered |-> r.offered,
     tried |-> {t \in Teacher : times[t] > 0}, case |-> case.state]

Promise == INSTANCE HelpPromise WITH
    ticket <- [c \in Conversation |-> Seen(record[c], receipt[c], offers[c])],
    leaving <- deleting

\* Whichever runs overlap, fail or die, each request goes through the few steps of
\* HelpPromise, its case with it (ask, dispatch, _advance, _end, scrub_teacher).
KeepsPromise == Promise!Spec
-----------------------------------------------------------------------------
(* What the repository says of the code and the code does not do.          *)

\* "a request nobody took ends withdrawn (the student) or expired (24 hours, the
\* sweep)" (the module's own account of the lifecycle): no request that a teacher
\* took and answered ends like that, its case given back.
EndedIsUntaken ==
    \A c \in Conversation : record[c].status \in Ended => ~record[c].replied
-----------------------------------------------------------------------------
(* Liveness.  The sweep runs on a schedule and a deletion is repeated until *)
(* it is done; either may fail or die at any step, but not every time.      *)

FairSpec ==
    /\ Spec
    /\ WF_vars(Tick)
    /\ \A c \in Conversation : SF_vars(\E p \in Run : StartSweep(p, c))
    /\ \A c \in Conversation, t \in Teacher : SF_vars(\E p \in Run : StartScrub(p, c, t))
    /\ \A p \in Run :
         /\ WF_vars(Work(p) \/ Fail(p))
         /\ SF_vars(Scan(p)) /\ SF_vars(run[p].op = "sweep" /\ GetToEnd(p))
         /\ SF_vars(run[p].op = "sweep" /\ GetCase(p))
         /\ SF_vars(run[p].op = "sweep" /\ GetCounter(p))
         /\ SF_vars(run[p].op = "sweep" /\ Refund(p))
         /\ SF_vars(Scrub(p))

\* Nobody waits for ever: a request without a teacher gets one or ends (sweep).
WaitingEnds ==
    \A c \in Conversation :
        record[c].status \in Open /\ record[c].holder = NoTeacher
        ~> record[c].status \notin Open \/ record[c].holder # NoTeacher

\* An account that is deleted is named by no request in the end, and stays so.
TeacherForgotten ==
    \A c \in Conversation, t \in Teacher :
        t \in deleting ~> [](~Names(record[c], t))
=============================================================================
