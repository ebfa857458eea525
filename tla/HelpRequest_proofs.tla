------------------------- MODULE HelpRequest_proofs -------------------------
(***************************************************************************)
(* The safety properties of HelpRequest, for every number of conversations,*)
(* teachers and overlapping runs, every timing and every figure.           *)
(*                                                                         *)
(* None of them is inductive: a write is decided from what its run read    *)
(* some steps earlier.  IInv adds what a run still knows when it writes    *)
(* (RunInv): the record it read has at most the stored version and, at the *)
(* same version, is the stored record.  A write that passes its condition  *)
(* was then decided on the record that it changes.                         *)
(***************************************************************************)
EXTENDS HelpRequest, FiniteSetTheorems, TLAPS

\* What holds of every record by itself (HolderAndStatusAgree is one part).
RecordInv(r) ==
    /\ r.version = 0 <=> r.status = "none"
    /\ r.status = "none" => r = NoRecord
    /\ r.holder # NoTeacher =>
         r.status \in {"in_progress", "resolved"} /\ r.offered = r.holder
    /\ r.status = "in_progress" => r.holder # NoTeacher
    /\ r.status = "resolved" => r.holder # NoTeacher \/ r.dispatch = "revoked"
    /\ r.status \in Ended => r.offered = NoTeacher

\* The case of a request: spent when it was asked, given back when it ended.
CaseInv(r, case) ==
    /\ case.state = "none" <=> r.status = "none"
    /\ case.state = "refunded" <=> r.status \in Ended

\* A teacher who was offered a request that is not over is remembered by it, or is
\* leaving.
OfferInv(r, times) ==
    \A t \in Teacher :
        /\ times[t] <= 1
        /\ times[t] = 1 => \/ t \in deleting \/ t \in r.previous \/ t = r.holder
                           \/ t = r.offered /\ r.dispatch = "dispatched"
                           \/ r.status \in Ended \cup {"resolved"}

Waiting == {"plan", "offer"}
Acting == {"move", "clean"}

\* What a run knows of the rows it read.
RunInv(c) ==
    c.pc # "idle" =>
        /\ c.conv \in Conversation
        /\ c.row.version <= record[c.conv].version
        /\ c.row.version = record[c.conv].version => c.row = record[c.conv]
        /\ c.pc \in Waiting => ~LiveOffer(c.row, c.age)
        /\ c.pc = "offer" => c.teacher \notin Previous(c.row, c.age)
        /\ c.pc \in Acting => c.teacher \in Teacher
        /\ c.pc \notin {"offer"} \cup Acting => c.teacher = NoTeacher
        /\ c.pc = "move" => c.op \in TeacherOp
        /\ c.pc = "clean" => c.teacher \in deleting /\ c.row.status # "none"
        /\ c.pc = "admit" => c.cases.cases < c.limit.cases
        /\ c.pc = "counter" => c.receipt = "admitted"
        /\ c.pc \in {"counter", "refund"} =>
             receipt[c.conv].state # "none" /\ c.week = receipt[c.conv].week

IInv ==
    /\ TypeOK
    /\ \A c \in Conversation : /\ RecordInv(record[c])
                               /\ CaseInv(record[c], receipt[c])
                               /\ OfferInv(record[c], offers[c])
    /\ CasesAccount
    /\ \A p \in Run : RunInv(run[p])
-----------------------------------------------------------------------------
(* What the writes to a record do to it.                                   *)

\* The bounds on ages are numbers.
LEMMA TimeFacts ==
    /\ OfferTime \in Nat /\ OfferTime > 0 /\ ExpiryTime \in Nat /\ RunTime \in Nat
    /\ OldOffer = OfferTime + RunTime /\ OldOffer \in Nat
    /\ OldRequest = ExpiryTime + RunTime /\ OldRequest \in Nat
    /\ NoTeacher \notin Teacher
  BY TimeAssumption, TeacherAssumption DEF OldOffer, OldRequest

\* Only teachers are remembered.
LEMMA PreviousType ==
    ASSUME NEW r \in Record, NEW lag \in 0..RunTime
    PROVE  Previous(r, lag) \in SUBSET Teacher
  BY TimeFacts DEF Record, Previous

\* The words of a record, for the provers.
LEMMA Words ==
    /\ {"none", "pending", "in_progress", "resolved", "withdrawn", "expired"} = Status
    /\ {"none", "dispatched", "no_candidate", "accepted", "unassigned", "revoked",
        "withdrawn", "expired"} = Dispatch
  BY DEF Status, Dispatch, Open, Ended

\* An age stays under its cap.
LEMMA OlderType ==
    ASSUME NEW cap \in Nat, NEW age \in 0..cap
    PROVE  Older(age, cap) \in 0..cap
  BY DEF Older

\* A write leaves a record a record,
LEMMA WrittenType ==
    ASSUME NEW r \in Record
    PROVE  Written(r) \in Record
  BY DEF Written, Record

\* as does taking the offer off it.
LEMMA NoOfferType ==
    ASSUME NEW r \in Record
    PROVE  NoOffer(r) \in Record
  <1>1. 0 \in 0..OldOffer /\ NoTeacher \in Teacher \cup {NoTeacher}
    BY TimeFacts
  <1> QED BY <1>1 DEF NoOffer, Record

\* A conversation without a record has a well-formed row.
LEMMA NoRecordType == NoRecord \in Record
  <1>1. 0 \in 0..OldRequest /\ 0 \in 0..OldOffer /\ "none" \in Status /\ "none" \in Dispatch
    BY TimeFacts, Words
  <1> QED BY <1>1 DEF NoRecord, Record

\* ask: the record that is written waits, offered to nobody.
LEMMA AskedIs ==
    ASSUME NEW lag \in 0..RunTime
    PROVE  /\ Asked(lag) \in Record /\ RecordInv(Asked(lag))
           /\ Asked(lag).status = "pending" /\ Asked(lag).version = 1
           /\ Asked(lag).previous = {} /\ Asked(lag).holder = NoTeacher
           /\ Asked(lag).dispatch = "none"
           /\ Asked(lag).offered = NoTeacher
  <1> DEFINE new == Asked(lag)
  <1>1. lag \in 0..OldRequest /\ "pending" \in Status
    BY TimeFacts, Words
  <1>2. new \in Record
    BY <1>1, NoRecordType DEF Asked, Record
  <1>3. new.status = "pending" /\ new.version = 1
    BY NoRecordType DEF Asked, Record
  <1>4. /\ new.previous = NoRecord.previous /\ new.holder = NoRecord.holder
        /\ new.dispatch = NoRecord.dispatch /\ new.offered = NoRecord.offered
    BY NoRecordType DEF Asked, Record
  <1>5. /\ new.previous = {} /\ new.holder = NoTeacher
        /\ new.dispatch = "none" /\ new.offered = NoTeacher
    BY <1>4 DEF NoRecord
  <1> HIDE DEF new
  <1>6. RecordInv(new)
    BY <1>3, <1>5 DEF RecordInv, Ended
  <1> QED BY <1>2, <1>3, <1>5, <1>6 DEF new

\* Growing older changes only the ages.
LEMMA AgedIs ==
    ASSUME NEW r \in Record
    PROVE  /\ Aged(r) \in Record
           /\ Aged(r).status = r.status /\ Aged(r).dispatch = r.dispatch
           /\ Aged(r).offered = r.offered /\ Aged(r).previous = r.previous
           /\ Aged(r).holder = r.holder /\ Aged(r).replied = r.replied
           /\ Aged(r).version = r.version
           /\ Aged(NoRecord) = NoRecord
  <1>1. Aged(r) \in Record
    <2> DEFINE asked == IF r.status \in Open THEN Older(r.asked, OldRequest) ELSE r.asked
               offer == IF r.dispatch = "dispatched" THEN Older(r.offer, OldOffer)
                                                     ELSE r.offer
    <2>1. asked \in 0..OldRequest /\ offer \in 0..OldOffer
      BY TimeFacts, OlderType DEF Record
    <2>2. Aged(r) = [r EXCEPT !.asked = asked, !.offer = offer]
      BY DEF Aged
    <2> HIDE DEF asked, offer
    <2> QED BY <2>1, <2>2 DEF Record
  <1>2. Aged(NoRecord) = NoRecord
    BY DEF Aged, NoRecord, Open
  <1>3. Aged(r).status = r.status /\ Aged(r).dispatch = r.dispatch
    BY DEF Aged, Record
  <1>4. Aged(r).offered = r.offered /\ Aged(r).previous = r.previous
    BY DEF Aged, Record
  <1>5. Aged(r).holder = r.holder /\ Aged(r).replied = r.replied /\ Aged(r).version = r.version
    BY DEF Aged, Record
  <1> QED BY <1>1, <1>2, <1>3, <1>4, <1>5

\* Whether an offer has lapsed does not change as long as the clock read with the
\* record grows old with it.
LEMMA AgedLapses ==
    ASSUME NEW r \in Record, NEW lag \in 0..RunTime, lag < RunTime
    PROVE  /\ LiveOffer(Aged(r), lag + 1) <=> LiveOffer(r, lag)
           /\ Previous(Aged(r), lag + 1) = Previous(r, lag)
  <1>1. r.dispatch = "dispatched" => (Lapsed(Aged(r), lag + 1) <=> Lapsed(r, lag))
    BY TimeFacts DEF Aged, Older, Lapsed, Record
  <1> QED BY <1>1, AgedIs DEF LiveOffer, Previous

\* Growing older keeps what holds of a record.
LEMMA AgedKeeps ==
    ASSUME NEW r \in Record, RecordInv(r)
    PROVE  RecordInv(Aged(r))
  <1>1. r.status = "none" => Aged(r) = NoRecord
    BY AgedIs DEF RecordInv
  <1> QED BY <1>1, AgedIs DEF RecordInv

\* dispatch.
LEMMA OfferedIs ==
    ASSUME NEW r \in Record, NEW t \in Teacher, NEW lag \in 0..RunTime,
           Untaken(r), RecordInv(r)
    PROVE  LET new == Offered(r, t, lag) IN
           /\ new \in Record /\ RecordInv(new)
           /\ new.version = r.version + 1 /\ new.status = r.status
           /\ new.dispatch = "dispatched" /\ new.offered = t
           /\ new.previous = Previous(r, lag) /\ new.holder = NoTeacher
  <1> DEFINE new == Offered(r, t, lag)
  <1>1. /\ new.version = r.version + 1 /\ new.status = r.status
        /\ new.dispatch = "dispatched" /\ new.offered = t
        /\ new.previous = Previous(r, lag) /\ new.holder = r.holder
    BY DEF Offered, Written, Record
  <1>2. new \in Record
    <2>1. lag \in 0..OldOffer /\ "dispatched" \in Dispatch
      BY TimeFacts, Words
    <2>2. [r EXCEPT !.dispatch = "dispatched", !.offered = t, !.offer = lag,
                    !.previous = Previous(r, lag)] \in Record
      BY <2>1, PreviousType DEF Record
    <2> QED BY <2>2, WrittenType DEF Offered
  <1>3. r.holder = NoTeacher /\ r.status = "pending"
    BY DEF Untaken
  <1>4. r.version \in Nat
    BY DEF Record
  <1> QED BY <1>1, <1>2, <1>3, <1>4, TimeFacts DEF RecordInv, Ended

\* _record_no_candidate.
LEMMA NobodyFreeIs ==
    ASSUME NEW r \in Record, NEW lag \in 0..RunTime, Untaken(r), RecordInv(r)
    PROVE  LET new == NobodyFree(r, lag) IN
           /\ new \in Record /\ RecordInv(new)
           /\ new.version = r.version + 1 /\ new.status = r.status
           /\ new.dispatch = "no_candidate" /\ new.offered = NoTeacher
           /\ new.previous = Previous(r, lag) /\ new.holder = NoTeacher
  <1> DEFINE new == NobodyFree(r, lag)
  <1>1. /\ new.version = r.version + 1 /\ new.status = r.status
        /\ new.dispatch = "no_candidate" /\ new.offered = NoTeacher
        /\ new.previous = Previous(r, lag) /\ new.holder = r.holder
    BY DEF NobodyFree, NoOffer, Written, Record
  <1>2. new \in Record
    <2>1. NoOffer(r) \in Record
      BY NoOfferType
    <2>2. [NoOffer(r) EXCEPT !.dispatch = "no_candidate", !.previous = Previous(r, lag)]
            \in Record
      BY <2>1, PreviousType, Words DEF Record
    <2> QED BY <2>2, WrittenType DEF NobodyFree
  <1>3. r.holder = NoTeacher /\ r.status = "pending"
    BY DEF Untaken
  <1>4. r.version \in Nat
    BY DEF Record
  <1> QED BY <1>1, <1>2, <1>3, <1>4, TimeFacts DEF RecordInv, Ended

\* _end.
LEMMA EndedAsIs ==
    ASSUME NEW r \in Record, NEW outcome \in Ended, Untaken(r), RecordInv(r)
    PROVE  LET new == EndedAs(r, outcome) IN
           /\ new \in Record /\ RecordInv(new)
           /\ new.version = r.version + 1 /\ new.status = outcome
           /\ new.offered = NoTeacher /\ new.holder = NoTeacher
           /\ new.previous = r.previous
  <1> DEFINE new == EndedAs(r, outcome)
  <1>1. /\ new.version = r.version + 1 /\ new.status = outcome
        /\ new.offered = NoTeacher /\ new.previous = r.previous
        /\ new.holder = r.holder
    BY DEF EndedAs, NoOffer, Written, Record
  <1>2. new \in Record
    <2>1. NoOffer(r) \in Record
      BY NoOfferType
    <2>2. outcome \in Status /\ outcome \in Dispatch
      BY Words DEF Ended
    <2>3. [NoOffer(r) EXCEPT !.status = outcome, !.dispatch = outcome] \in Record
      BY <2>1, <2>2 DEF Record
    <2> QED BY <2>3, WrittenType DEF EndedAs
  <1>3. r.holder = NoTeacher /\ r.status = "pending"
    BY DEF Untaken
  <1>4. r.version \in Nat
    BY DEF Record
  <1> QED BY <1>1, <1>2, <1>3, <1>4, TimeFacts DEF RecordInv, Ended

\* _advance: the teacher it goes to holds it already or is the one it was offered to.
LEMMA AdvancedIs ==
    ASSUME NEW r \in Record, NEW t \in Teacher, NEW lag, NEW replies \in BOOLEAN,
           NEW target \in {"in_progress", "resolved"},
           MayAdvance(r, t, lag), RecordInv(r)
    PROVE  LET new == Advanced(r, t, target, replies) IN
           /\ new \in Record /\ RecordInv(new)
           /\ new.version = r.version + 1 /\ new.status = target
           /\ new.offered = r.offered /\ new.previous = r.previous
           /\ r.offered = t /\ new.holder = t
           /\ r.holder \in {t, NoTeacher} /\ r.status \in Open
  <1> DEFINE new == Advanced(r, t, target, replies)
  <1>1. r.offered = t /\ r.holder \in {t, NoTeacher} /\ r.status \in Open
    BY TimeFacts DEF MayAdvance, Untaken, RecordInv, Open
  <1>2. /\ new.version = r.version + 1 /\ new.status = target
        /\ new.offered = r.offered /\ new.previous = r.previous /\ new.holder = t
    BY DEF Advanced, Written, Record
  <1>3. new \in Record
    <2> DEFINE dispatch == IF r.holder = t THEN r.dispatch ELSE "accepted"
               replied == r.replied \/ replies
    <2>1. dispatch \in Dispatch /\ replied \in BOOLEAN /\ 0 \in 0..OldOffer
      BY TimeFacts, Words DEF Record
    <2>2. target \in Status
      BY Words
    <2>3. Advanced(r, t, target, replies)
            = Written([r EXCEPT !.status = target, !.holder = t, !.replied = replied,
                                !.dispatch = dispatch, !.offer = 0])
      BY DEF Advanced
    <2> HIDE DEF dispatch, replied
    <2>4. [r EXCEPT !.status = target, !.holder = t, !.replied = replied,
                    !.dispatch = dispatch, !.offer = 0] \in Record
      BY <2>1, <2>2 DEF Record
    <2> QED BY <2>3, <2>4, WrittenType
  <1>4. r.version \in Nat
    BY DEF Record
  <1> HIDE DEF new
  <1>5. RecordInv(new)
    BY <1>1, <1>2, <1>4, TimeFacts DEF RecordInv, Ended
  <1> QED BY <1>1, <1>2, <1>3, <1>5 DEF new

\* reply by the holder.
LEMMA RepliedIs ==
    ASSUME NEW r \in Record, r.status # "none", RecordInv(r)
    PROVE  LET new == Replied(r) IN
           /\ new \in Record /\ RecordInv(new)
           /\ new.version = r.version + 1 /\ new.status = r.status
           /\ new.dispatch = r.dispatch /\ new.offered = r.offered
           /\ new.previous = r.previous /\ new.holder = r.holder
  <1> DEFINE new == Replied(r)
  <1>1. [r EXCEPT !.replied = TRUE] \in Record
    BY DEF Record
  <1>2. new \in Record
    BY <1>1, WrittenType DEF Replied
  <1>3. /\ new.version = r.version + 1 /\ new.status = r.status
        /\ new.dispatch = r.dispatch /\ new.offered = r.offered
        /\ new.previous = r.previous /\ new.holder = r.holder
    BY DEF Replied, Written, Record
  <1>4. r.version \in Nat
    BY DEF Record
  <1> HIDE DEF new
  <1>5. RecordInv(new)
    BY <1>3, <1>4 DEF RecordInv
  <1> QED BY <1>2, <1>3, <1>5 DEF new

\* Taking the teacher off a record leaves the rest.
LEMMA FreeIs ==
    ASSUME NEW r \in Record
    PROVE  /\ Free(r) \in Record
           /\ Free(r).status = r.status /\ Free(r).dispatch = r.dispatch
           /\ Free(r).offered = NoTeacher /\ Free(r).holder = NoTeacher
           /\ Free(r).previous = r.previous /\ Free(r).version = r.version
  <1>1. NoOffer(r) \in Record /\ NoTeacher \in Teacher \cup {NoTeacher}
    BY NoOfferType
  <1>2. Free(r) \in Record
    BY <1>1 DEF Free, Record
  <1>3. Free(r).status = r.status /\ Free(r).dispatch = r.dispatch
    BY <1>1 DEF Free, NoOffer, Record
  <1>4. Free(r).offered = NoTeacher /\ Free(r).holder = NoTeacher
    BY <1>1 DEF Free, NoOffer, Record
  <1>5. Free(r).previous = r.previous /\ Free(r).version = r.version
    BY <1>1 DEF Free, NoOffer, Record
  <1> QED BY <1>2, <1>3, <1>4, <1>5

\* scrub_teacher, for a record that some teacher is or was on.
LEMMA ScrubbedIs ==
    ASSUME NEW r \in Record, NEW t \in Teacher, r.status # "none", RecordInv(r)
    PROVE  LET new == Scrubbed(r, t) IN
           /\ new \in Record /\ RecordInv(new)
           /\ new.version = r.version + 1
           /\ new.previous = r.previous \ {t}
           /\ \/ new.status = r.status
              \/ r.status \in Open /\ new.status = "pending"
           /\ \/ /\ new.holder = r.holder /\ new.offered = r.offered
                 /\ new.dispatch = r.dispatch /\ t \notin {r.holder, r.offered}
              \/ /\ new.holder = NoTeacher /\ new.offered = NoTeacher
                 /\ r.holder \in {t, NoTeacher} /\ r.offered = t
  <1> DEFINE forgot == [r EXCEPT !.previous = @ \ {t}]
             new == Scrubbed(r, t)
  <1>1. forgot \in Record
    BY DEF Record
  <1>2. /\ forgot.previous = r.previous \ {t} /\ forgot.status = r.status
        /\ forgot.holder = r.holder /\ forgot.offered = r.offered
        /\ forgot.dispatch = r.dispatch /\ forgot.version = r.version
    BY DEF Record
  <1>3. r.version \in Nat
    BY DEF Record
  <1>4. CASE t \notin {r.holder, r.offered}
    <2>1. new = Written(forgot)
      BY <1>4 DEF Scrubbed
    <2> HIDE DEF forgot, new
    <2>2. new \in Record
      BY <2>1, <1>1, WrittenType
    <2>3. /\ new.previous = r.previous \ {t} /\ new.status = r.status
          /\ new.holder = r.holder /\ new.offered = r.offered
          /\ new.dispatch = r.dispatch /\ new.version = r.version + 1
      BY <2>1, <1>1, <1>2 DEF Written, Record
    <2>4. RecordInv(new)
      BY <2>3, <1>3 DEF RecordInv
    <2> QED BY <2>2, <2>3, <2>4, <1>4 DEF new
  <1>5. CASE t \in {r.holder, r.offered}
    <2> DEFINE free == Free(forgot)
    <2>1. /\ free \in Record
          /\ free.status = r.status /\ free.dispatch = r.dispatch
          /\ free.offered = NoTeacher /\ free.holder = NoTeacher
          /\ free.previous = r.previous \ {t} /\ free.version = r.version
      BY <1>1, <1>2, FreeIs
    <2>2. r.holder \in {t, NoTeacher} /\ r.offered = t
      BY <1>5, TimeFacts DEF RecordInv
    <2>3. CASE r.status \in Open
      <3>1. new = Written([free EXCEPT !.status = "pending", !.dispatch = "unassigned"])
        BY <1>5, <2>3 DEF Scrubbed
      <3> HIDE DEF forgot, free, new
      <3>2. [free EXCEPT !.status = "pending", !.dispatch = "unassigned"] \in Record
        BY <2>1, Words DEF Record
      <3>3. new \in Record
        BY <3>1, <3>2, WrittenType
      <3>4. /\ new.previous = r.previous \ {t} /\ new.status = "pending"
            /\ new.holder = NoTeacher /\ new.offered = NoTeacher
            /\ new.version = r.version + 1
        BY <3>1, <2>1 DEF Written, Record
      <3>5. RecordInv(new)
        BY <3>4, <1>3 DEF RecordInv, Ended
      <3> QED BY <3>3, <3>4, <3>5, <2>2, <2>3 DEF new
    <2>4. CASE r.status \notin Open
      <3>1. new = Written([free EXCEPT !.dispatch = "revoked"])
        BY <1>5, <2>4 DEF Scrubbed
      <3> HIDE DEF forgot, free, new
      <3>2. [free EXCEPT !.dispatch = "revoked"] \in Record
        BY <2>1, Words DEF Record
      <3>3. new \in Record
        BY <3>1, <3>2, WrittenType
      <3>4. /\ new.previous = r.previous \ {t} /\ new.status = r.status
            /\ new.holder = NoTeacher /\ new.offered = NoTeacher
            /\ new.dispatch = "revoked" /\ new.version = r.version + 1
        BY <3>1, <2>1 DEF Written, Record
      <3>5. RecordInv(new)
        BY <3>4, <1>3, <2>4 DEF RecordInv, Ended, Open
      <3> QED BY <3>3, <3>4, <3>5, <2>2 DEF new
    <2> QED BY <2>3, <2>4
  <1> QED BY <1>4, <1>5
-----------------------------------------------------------------------------
(* Runs.                                                                   *)

\* Run p goes on with what was so before the step,
Goes(p) == \E new \in RunState : run' = [run EXCEPT ![p] = new] /\ RunInv(new)

\* as it does in a step that only reads,
Reads(p) == UNCHANGED Rows /\ Goes(p)

\* or with what is so after it.
Steps(p) == \E new \in RunState : run' = [run EXCEPT ![p] = new] /\ RunInv(new)'

\* What a run knows outlasts every step like this.
Grows ==
    /\ \A c \in Conversation :
         \/ record'[c] = record[c]
         \/ record'[c].version > record[c].version
    /\ \A c \in Conversation :
         receipt[c].state # "none" =>
            receipt'[c].state # "none" /\ receipt'[c].week = receipt[c].week
    /\ deleting \subseteq deleting'

\* The constants are numbers, and the first rows have their types.
LEMMA BoundFacts ==
    /\ Weeks \in Nat /\ 1 \in Week
    /\ MaxTries \in Nat /\ MaxTries > 0 /\ MaxFigures \in Nat
    /\ Figure \subseteq Nat /\ FirstFigure \in Nat
    /\ NoCounter \in CounterRow
    /\ [version |-> 0, cases |-> FirstFigure] \in LimitRow
    /\ NoConversation \notin Conversation
  BY BoundAssumption, ConversationAssumption DEF Week, NoCounter, CounterRow, LimitRow

\* A run that does nothing knows nothing.
LEMMA IdleIs == IdleRun \in RunState /\ RunInv(IdleRun)
  <1>1. /\ 1 \in Week /\ NoCounter \in CounterRow
        /\ [version |-> 0, cases |-> FirstFigure] \in LimitRow
        /\ NoRecord \in Record
        /\ 0 \in 0..RunTime /\ 0 \in 0..MaxTries
    BY BoundFacts, TimeFacts, NoRecordType
  <1>2. NoTeacher \in Teacher \cup {NoTeacher}
        /\ NoConversation \in Conversation \cup {NoConversation}
    OBVIOUS
  <1>3. IdleRun \in RunState
    BY <1>1, <1>2 DEF IdleRun, RunState
  <1> QED BY <1>3 DEF RunInv, IdleRun

\* What a run knows outlasts the steps of the others.
LEMMA Keeps ==
    ASSUME TypeOK, TypeOK', Grows, NEW c \in RunState, RunInv(c)
    PROVE  RunInv(c)'
  <1> SUFFICES ASSUME c.pc # "idle" PROVE RunInv(c)'
    BY DEF RunInv
  <1>1. c.conv \in Conversation
    BY DEF RunInv
  <1>2. record[c.conv].version \in Nat /\ record'[c.conv].version \in Nat
    BY <1>1 DEF TypeOK, Record
  <1>3. c.row.version \in Nat
    BY DEF RunState, Record
  <1>4. /\ c.row.version <= record'[c.conv].version
        /\ c.row.version = record'[c.conv].version => c.row = record'[c.conv]
    BY <1>1, <1>2, <1>3 DEF Grows, RunInv
  <1> QED BY <1>1, <1>4 DEF Grows, RunInv

\* After a step of one run every run knows what it should.
LEMMA RunsStep ==
    ASSUME IInv, NEW p \in Run, Steps(p), Grows, TypeOK'
    PROVE  \A q \in Run : RunInv(run[q])'
  <1>1. PICK new \in RunState : run' = [run EXCEPT ![p] = new] /\ RunInv(new)'
    BY DEF Steps
  <1> TAKE q \in Run
  <1>2. CASE q = p
    <2>1. run'[q] = new
      BY <1>1, <1>2 DEF IInv, TypeOK
    <2> QED BY <1>1, <2>1 DEF RunInv
  <1>3. CASE q # p
    <2>1. run'[q] = run[q] /\ run[q] \in RunState
      BY <1>1, <1>3 DEF IInv, TypeOK
    <2> DEFINE c == run[q]
    <2>2. RunInv(c)
      BY DEF IInv
    <2> SUFFICES ASSUME NEW d \in RunState, run[q] = d PROVE RunInv(d)'
      BY <2>1 DEF RunInv
    <2> QED BY <2>2, Keeps DEF IInv
  <1> QED BY <1>2, <1>3

\* A step that only reads keeps everything.
LEMMA ReadsInv ==
    ASSUME IInv, NEW p \in Run, Reads(p)
    PROVE  IInv'
  <1>1. PICK new \in RunState : run' = [run EXCEPT ![p] = new] /\ RunInv(new)
    BY DEF Reads, Goes
  <1>2. UNCHANGED Rows
    BY DEF Reads, Goes
  <1>3. TypeOK'
    BY <1>1, <1>2 DEF IInv, TypeOK, Rows
  <1>4. Grows
    BY <1>2 DEF Grows, Rows
  <1>5. Steps(p)
    BY <1>1, <1>2 DEF Steps, RunInv, Rows
  <1>6. \A q \in Run : RunInv(run[q])'
    BY <1>3, <1>4, <1>5, RunsStep
  <1>7. (\A c \in Conversation : /\ RecordInv(record[c])
                                 /\ CaseInv(record[c], receipt[c])
                                 /\ OfferInv(record[c], offers[c]))'
    BY <1>2 DEF IInv, Rows, OfferInv
  <1>8. CasesAccount'
    BY <1>2 DEF IInv, Rows, CasesAccount
  <1> QED BY <1>3, <1>6, <1>7, <1>8 DEF IInv
-----------------------------------------------------------------------------
(* The steps that only read.                                               *)

\* A run that returns goes on.
LEMMA ReturnIs ==
    ASSUME NEW p \in Run, Return(p)
    PROVE  Goes(p)
  BY IdleIs DEF Return, Goes

\* A call starts with no record or with the stored one.
LEMMA CallIs ==
    ASSUME IInv, NEW p \in Run, NEW op, NEW c \in Conversation, NEW pc, NEW row,
           NEW t \in Teacher \cup {NoTeacher},
           op \in {"sweep", "scrub"} \cup StudentOp \cup TeacherOp,
           pc \in {"scope", "end", "scan", "move", "clean"},
           row = NoRecord \/ row = record[c],
           IF pc \in Acting THEN t \in Teacher ELSE t = NoTeacher,
           pc = "move" => op \in TeacherOp,
           pc = "clean" => t \in deleting /\ row.status # "none",
           Call(p, op, c, t, pc, row)
    PROVE  Reads(p)
  <1> DEFINE w == IF op = "ask" THEN week ELSE 1
             new == [IdleRun EXCEPT !.pc = pc, !.op = op, !.conv = c, !.teacher = t,
                                    !.row = row, !.week = w]
  <1>1. w \in Week /\ row \in Record /\ record[c] \in Record
    BY BoundFacts, NoRecordType DEF IInv, TypeOK
  <1>2. run' = [run EXCEPT ![p] = new]
    BY DEF Call
  <1> HIDE DEF w
  <1>3. new \in RunState
    BY <1>1, IdleIs DEF RunState
  <1>4. new.pc = pc /\ new.op = op /\ new.conv = c /\ new.teacher = t /\ new.row = row
    BY IdleIs DEF RunState
  <1>5. /\ row.version <= record[c].version
        /\ row.version = record[c].version => row = record[c]
    <2>1. RecordInv(record[c]) /\ record[c].version \in Nat
      BY <1>1 DEF IInv, Record
    <2>2. NoRecord.version = 0
      BY DEF NoRecord
    <2> QED BY <2>1, <2>2 DEF RecordInv
  <1> HIDE DEF new
  <1>6. RunInv(new)
    BY <1>4, <1>5 DEF RunInv, Waiting, Acting
  <1> QED BY <1>2, <1>3, <1>6 DEF Reads, Goes, Call

\* Starting a call or a sweep writes nothing.
LEMMA StartIs ==
    ASSUME IInv, NEW p \in Run, Start(p)
    PROVE  Reads(p)
  <1> PICK c \in Conversation :
        \/ CallAsk(p, c) \/ CallWithdraw(p, c) \/ StartSweep(p, c)
        \/ \E t \in Teacher : \/ StartScrub(p, c, t)
                              \/ \E op \in TeacherOp : CallTeacher(p, op, c, t)
    BY DEF Start
  <1>1. CASE CallAsk(p, c)
    BY <1>1, CallIs DEF CallAsk, StudentOp, Acting
  <1>2. CASE CallWithdraw(p, c)
    BY <1>2, CallIs DEF CallWithdraw, StudentOp, Acting
  <1>3. CASE StartSweep(p, c)
    BY <1>3, CallIs DEF StartSweep, Acting
  <1>4. ASSUME NEW t \in Teacher, StartScrub(p, c, t) PROVE Reads(p)
    <2>1. t \in deleting /\ Call(p, "scrub", c, t, "clean", record[c])
      BY <1>4 DEF StartScrub
    <2>2. /\ "scrub" \in {"sweep", "scrub"} \cup StudentOp \cup TeacherOp
          /\ "clean" \in {"scope", "end", "scan", "move", "clean"}
          /\ t \in Teacher \cup {NoTeacher} /\ "clean" \in Acting
      BY DEF Acting
    <2>3. record[c].status # "none"
      BY <1>4, TimeFacts DEF StartScrub, References, IInv, RecordInv, NoRecord
    <2> QED BY <2>1, <2>2, <2>3, CallIs
  <1>5. ASSUME NEW t \in Teacher, NEW op \in TeacherOp, CallTeacher(p, op, c, t)
        PROVE  Reads(p)
    BY <1>5, CallIs DEF CallTeacher, Acting
  <1> QED BY <1>1, <1>2, <1>3, <1>4, <1>5

\* A run that knows something may go on to a label of which no more is asked.
Plain == {"scope", "receipt", "count", "scan", "end", "case"}

\* Such a label asks no more than that the rest was kept.
LEMMA PlainIs ==
    ASSUME NEW c \in RunState, RunInv(c), c.pc # "idle", NEW d \in RunState,
           c.pc \notin {"offer"} \cup Acting,
           d.pc \in Plain, d.conv = c.conv, d.row = c.row, d.teacher = c.teacher
    PROVE  RunInv(d)
  BY DEF RunInv, Plain, Waiting, Acting

\* weekly_counter.retry forgets what was read,
LEMMA RetriedIs ==
    ASSUME NEW c \in RunState, RunInv(c), c.pc # "idle", c.tries + 1 < MaxTries,
           c.pc \notin {"offer"} \cup Acting, NEW l \in {"scope", "end"}
    PROVE  Retried(c, l) \in RunState /\ RunInv(Retried(c, l))
  <1> DEFINE w == IF c.op = "ask" THEN c.week ELSE 1
             new == [c EXCEPT !.pc = l, !.tries = @ + 1, !.version = 0,
                              !.limit = IdleRun.limit, !.receipt = "none", !.week = w,
                              !.cases = NoCounter]
  <1>1. w \in Week /\ c.tries + 1 \in 0..MaxTries
    BY BoundFacts DEF RunState
  <1>2. IdleRun.limit \in LimitRow /\ NoCounter \in CounterRow
    BY BoundFacts DEF IdleRun
  <1>3. Retried(c, l) = new
    BY DEF Retried
  <1> HIDE DEF w
  <1>4. new \in RunState
    BY <1>1, <1>2 DEF RunState
  <1>5. new.pc = l /\ new.conv = c.conv /\ new.row = c.row /\ new.teacher = c.teacher
    BY DEF RunState
  <1> QED BY <1>3, <1>4, <1>5, PlainIs DEF Plain

\* so that the run may read again.
LEMMA AgainIs ==
    ASSUME IInv, NEW p \in Run, run[p].pc # "idle",
           run[p].pc \notin {"offer"} \cup Acting, NEW l \in {"scope", "end"},
           run[p].tries + 1 < MaxTries, run' = [run EXCEPT ![p] = Retried(run[p], l)]
    PROVE  Goes(p)
  <1>1. run[p] \in RunState /\ RunInv(run[p])
    BY DEF IInv, TypeOK
  <1>2. Retried(run[p], l) \in RunState /\ RunInv(Retried(run[p], l))
    BY <1>1, RetriedIs
  <1> QED BY <1>2 DEF Goes

\* The run that goes on to dispatch, from a record without a live offer.
Dispatching(op, c, row) ==
    [IdleRun EXCEPT !.pc = "plan", !.op = op, !.conv = c.conv, !.age = c.age, !.row = row]

\* Such a run is about to plan.
LEMMA DispatchingIs ==
    ASSUME NEW c \in RunState, c.conv \in Conversation, NEW row \in Record,
           NEW op \in {"ask", "sweep"}, ~LiveOffer(row, c.age)
    PROVE  LET d == Dispatching(op, c, row) IN
           /\ d \in RunState /\ d.pc = "plan" /\ d.conv = c.conv
           /\ d.row = row /\ d.age = c.age /\ d.teacher = NoTeacher
  <1>1. op \in {"none", "sweep", "scrub"} \cup StudentOp \cup TeacherOp
    BY DEF StudentOp
  <1>2. c.age \in 0..RunTime
    BY DEF RunState
  <1>3. Dispatching(op, c, row) \in RunState
    BY <1>1, <1>2, IdleIs DEF Dispatching, RunState
  <1>4. IdleRun.teacher = NoTeacher
    BY DEF IdleRun
  <1> QED BY <1>3, <1>4, IdleIs DEF Dispatching, RunState

\* What was not ended is dispatched as it was scanned, when no offer of it lives.
LEMMA NotEndedIs ==
    ASSUME IInv, NEW p \in Run, run[p].pc # "idle", NotEnded(p)
    PROVE  Goes(p)
  <1> DEFINE c == run[p]
             d == Dispatching("sweep", c, c.row)
  <1>1. c \in RunState /\ RunInv(c) /\ c.row \in Record /\ c.conv \in Conversation
    BY DEF IInv, TypeOK, RunInv, RunState
  <1>2. CASE c.op = "sweep" /\ ~LiveOffer(c.row, c.age)
    <2>1. run' = [run EXCEPT ![p] = d]
      BY <1>2 DEF NotEnded, Dispatching
    <2>2. d \in RunState /\ d.pc = "plan" /\ d.conv = c.conv /\ d.row = c.row /\ d.age = c.age
          /\ d.teacher = NoTeacher
      BY <1>1, <1>2, DispatchingIs
    <2> HIDE DEF d
    <2>3. RunInv(d)
      BY <1>1, <1>2, <2>2 DEF RunInv, Waiting, Acting
    <2> QED BY <2>1, <2>2, <2>3 DEF Goes
  <1>3. CASE ~(c.op = "sweep" /\ ~LiveOffer(c.row, c.age))
    BY <1>3, ReturnIs DEF NotEnded
  <1> QED BY <1>2, <1>3

\* The reads of admit_teacher_support_case.
LEMMA AskReads ==
    ASSUME IInv, NEW p \in Run, ReadScope(p) \/ ReadReceipt(p) \/ ReadCount(p)
    PROVE  Reads(p)
  <1> DEFINE c == run[p]
  <1>1. /\ c \in RunState /\ RunInv(c) /\ limit \in LimitRow
        /\ run \in [Run -> RunState]
    BY DEF IInv, TypeOK
  <1>2. UNCHANGED Rows
    BY DEF ReadScope, ReadReceipt, ReadCount
  <1>3. CASE ReadScope(p)
    <2>1. CASE limit.cases > 0
      <3> DEFINE d == [c EXCEPT !.pc = "receipt", !.limit = limit]
      <3>1. run' = [run EXCEPT ![p] = d]
        BY <1>1, <1>3, <2>1 DEF ReadScope
      <3>2. d \in RunState
        BY <1>1 DEF RunState
      <3>3. /\ d.pc = "receipt" /\ d.conv = c.conv /\ d.row = c.row
            /\ d.teacher = c.teacher /\ c.pc \notin {"idle", "offer"} \cup Acting
        BY <1>1, <1>3 DEF RunState, ReadScope, Acting
      <3> HIDE DEF d
      <3>4. RunInv(d)
        BY <1>1, <3>2, <3>3, PlainIs DEF Plain
      <3> QED BY <1>2, <3>1, <3>2, <3>4 DEF Reads, Goes
    <2>2. CASE ~(limit.cases > 0)
      BY <1>2, <1>3, <2>2, ReturnIs DEF Reads, ReadScope
    <2> QED BY <2>1, <2>2
  <1>4. CASE ReadReceipt(p)
    <2>1. CASE receipt[c.conv].state = "none"
      <3> DEFINE d == [c EXCEPT !.pc = "count"]
      <3>1. run' = [run EXCEPT ![p] = d]
        BY <1>1, <1>4, <2>1 DEF ReadReceipt, Goto
      <3>2. d \in RunState
        BY <1>1 DEF RunState
      <3>3. /\ d.pc = "count" /\ d.conv = c.conv /\ d.row = c.row
            /\ d.teacher = c.teacher /\ c.pc \notin {"idle", "offer"} \cup Acting
        BY <1>1, <1>4 DEF RunState, ReadReceipt, Acting
      <3> HIDE DEF d
      <3>4. RunInv(d)
        BY <1>1, <3>2, <3>3, PlainIs DEF Plain
      <3> QED BY <1>2, <3>1, <3>2, <3>4 DEF Reads, Goes
    <2>2. CASE receipt[c.conv].state # "none"
      BY <1>2, <1>4, <2>2, ReturnIs DEF Reads, ReadReceipt
    <2> QED BY <2>1, <2>2
  <1>5. CASE ReadCount(p)
    <2> DEFINE read == counter[c.week]
    <2>1. read \in CounterRow
      BY <1>1 DEF IInv, TypeOK, RunState
    <2>2. CASE read.cases < c.limit.cases
      <3> DEFINE d == [c EXCEPT !.pc = "admit", !.cases = read]
      <3>1. run' = [run EXCEPT ![p] = d]
        BY <1>1, <1>5, <2>2 DEF ReadCount
      <3>2. d \in RunState
        BY <1>1, <2>1 DEF RunState
      <3>3. /\ d.pc = "admit" /\ d.conv = c.conv /\ d.row = c.row /\ c.pc # "idle"
            /\ d.cases = read /\ d.limit = c.limit
            /\ d.teacher = c.teacher /\ c.pc \notin {"idle", "offer"} \cup Acting
        BY <1>1, <1>5 DEF RunState, ReadCount, Acting
      <3> HIDE DEF d
      <3>4. RunInv(d)
        BY <1>1, <2>2, <3>3 DEF RunInv, Waiting, Acting
      <3> QED BY <1>2, <3>1, <3>2, <3>4 DEF Reads, Goes
    <2>3. CASE ~(read.cases < c.limit.cases)
      BY <1>2, <1>5, <2>3, ReturnIs DEF Reads, ReadCount
    <2> QED BY <2>2, <2>3
  <1> QED BY <1>3, <1>4, <1>5

\* plan_dispatch chooses a teacher who has not let an offer lapse.
LEMMA PlanIs ==
    ASSUME IInv, NEW p \in Run, Plan(p)
    PROVE  Reads(p)
  <1> DEFINE c == run[p]
  <1>1. /\ c \in RunState /\ RunInv(c) /\ run \in [Run -> RunState] /\ c.row \in Record
        /\ c.age \in 0..RunTime
    BY DEF IInv, TypeOK, RunState
  <1>2. UNCHANGED Rows /\ c.pc = "plan"
    BY DEF Plan
  <1>3. ASSUME NEW t \in Teacher \cup {NoTeacher}, t \notin Previous(c.row, c.age),
               NEW d, d = [c EXCEPT !.pc = "offer", !.teacher = t],
               run' = [run EXCEPT ![p] = d]
        PROVE  Reads(p)
    <2>1. d \in RunState
      BY <1>1, <1>3 DEF RunState
    <2>2. /\ d.pc = "offer" /\ d.conv = c.conv /\ d.row = c.row /\ d.age = c.age
          /\ d.teacher = t
      BY <1>1, <1>3 DEF RunState
    <2>3. RunInv(d)
      BY <1>1, <1>2, <1>3, <2>2 DEF RunInv, Waiting, Acting
    <2> QED BY <1>2, <1>3, <2>1, <2>3 DEF Reads, Goes
  <1>4. CASE \E t \in Candidates(c.row, c.age) :
                run' = [run EXCEPT ![p].pc = "offer", ![p].teacher = t]
    <2>1. PICK t \in Candidates(c.row, c.age) :
                run' = [run EXCEPT ![p].pc = "offer", ![p].teacher = t]
      BY <1>4
    <2>2. t \in Teacher /\ t \notin Previous(c.row, c.age)
      BY DEF Candidates
    <2>3. run' = [run EXCEPT ![p] = [c EXCEPT !.pc = "offer", !.teacher = t]]
      BY <1>1, <2>1
    <2> QED BY <1>3, <2>2, <2>3
  <1>5. CASE Return(p)
    BY <1>2, <1>5, ReturnIs DEF Reads
  <1>6. CASE Goto(p, "offer")
    <2> DEFINE d == [c EXCEPT !.pc = "offer"]
    <2>1. run' = [run EXCEPT ![p] = d]
      BY <1>1, <1>6 DEF Goto
    <2>2. d \in RunState
      BY <1>1 DEF RunState
    <2>3. /\ d.pc = "offer" /\ d.conv = c.conv /\ d.row = c.row /\ d.age = c.age
          /\ d.teacher = c.teacher
      BY <1>1 DEF RunState
    <2> HIDE DEF c, d
    <2>4. c.teacher \notin Previous(c.row, c.age)
      <3>1. c.teacher = NoTeacher
        BY <1>1, <1>2 DEF RunInv, Acting
      <3>2. Previous(c.row, c.age) \in SUBSET Teacher
        BY <1>1, PreviousType
      <3> QED BY <3>1, <3>2, TimeFacts
    <2>5. RunInv(d)
      BY <1>1, <1>2, <2>3, <2>4 DEF RunInv, Waiting, Acting
    <2> QED BY <1>2, <2>1, <2>2, <2>5 DEF Reads, Goes
  <1> QED BY <1>4, <1>5, <1>6 DEF Plan

\* The reads of the sweep and of _end.
LEMMA EndReads ==
    ASSUME IInv, NEW p \in Run, Scan(p) \/ GetToEnd(p) \/ GetCase(p) \/ GetCounter(p)
    PROVE  Reads(p)
  <1> DEFINE c == run[p]
             read == record[c.conv]
  <1>1. /\ c \in RunState /\ RunInv(c) /\ run \in [Run -> RunState] /\ c.pc # "idle"
        /\ c.conv \in Conversation /\ c.teacher = NoTeacher
        /\ c.pc \notin {"offer"} \cup Acting
    BY DEF IInv, TypeOK, RunInv, Scan, GetToEnd, GetCase, GetCounter, Acting
  <1>2. read \in Record /\ receipt[c.conv].week \in Week
        /\ receipt[c.conv].state \in {"none", "admitted", "refunded"}
    BY <1>1 DEF IInv, TypeOK
  <1>3. UNCHANGED Rows
    BY DEF Scan, GetToEnd, GetCase, GetCounter
  <1>4. ASSUME Scan(p) PROVE Reads(p)
    <2>1. ASSUME NEW l \in {"end", "plan"}, l = "plan" => ~LiveOffer(read, c.age),
                 run' = [run EXCEPT ![p].pc = l, ![p].row = read]
          PROVE  Reads(p)
      <3> DEFINE d == [c EXCEPT !.pc = l, !.row = read]
      <3>1. run' = [run EXCEPT ![p] = d]
        BY <1>1, <2>1
      <3>2. d \in RunState
        BY <1>1, <1>2 DEF RunState
      <3>3. d.pc = l /\ d.conv = c.conv /\ d.row = read /\ d.age = c.age
            /\ d.teacher = c.teacher
        BY <1>1 DEF RunState
      <3>4. read.version \in Nat
        BY <1>2 DEF Record
      <3> HIDE DEF d
      <3>5. RunInv(d)
        BY <1>1, <2>1, <3>3, <3>4 DEF RunInv, Waiting, Acting
      <3> QED BY <1>3, <3>1, <3>2, <3>5 DEF Reads, Goes
    <2>2. CASE Return(p)
      BY <1>3, <2>2, ReturnIs DEF Reads
    <2>3. CASE run' = [run EXCEPT ![p].pc = "end", ![p].row = read]
      BY <2>1, <2>3
    <2>4. CASE /\ ~LiveOffer(read, c.age)
               /\ run' = [run EXCEPT ![p].pc = "plan", ![p].row = read]
      BY <2>1, <2>4
    <2> QED BY <1>4, <2>2, <2>3, <2>4 DEF Scan
  <1>5. ASSUME GetToEnd(p) PROVE Reads(p)
    <2>1. CASE NotEnded(p)
      BY <1>1, <1>3, <2>1, NotEndedIs DEF Reads
    <2>2. CASE run' = [run EXCEPT ![p].pc = "case", ![p].version = read.version]
      <3> DEFINE d == [c EXCEPT !.pc = "case", !.version = read.version]
      <3>1. run' = [run EXCEPT ![p] = d]
        BY <1>1, <2>2
      <3>2. read.version \in Nat
        BY <1>2 DEF Record
      <3>3. d \in RunState
        BY <1>1, <3>2 DEF RunState
      <3>4. d.pc = "case" /\ d.conv = c.conv /\ d.row = c.row /\ d.teacher = c.teacher
        BY <1>1 DEF RunState
      <3> HIDE DEF d
      <3>5. RunInv(d)
        BY <1>1, <3>3, <3>4, PlainIs DEF Plain
      <3> QED BY <1>3, <3>1, <3>3, <3>5 DEF Reads, Goes
    <2> QED BY <1>5, <2>1, <2>2 DEF GetToEnd
  <1>6. ASSUME GetCase(p) PROVE Reads(p)
    <2> DEFINE got == receipt[c.conv]
               l == IF got.state = "admitted" THEN "counter" ELSE "refund"
               d == [c EXCEPT !.pc = l, !.receipt = got.state, !.week = got.week]
    <2>1. run' = [run EXCEPT ![p] = d] /\ got.state # "none"
      BY <1>1, <1>6 DEF GetCase
    <2>2. l \in {"counter", "refund"} /\ (l = "counter" => got.state = "admitted")
      OBVIOUS
    <2> HIDE DEF c, l
    <2>3. d \in RunState
      BY <1>1, <1>2, <2>2 DEF RunState
    <2>4. /\ d.pc = l /\ d.conv = c.conv /\ d.row = c.row
          /\ d.receipt = got.state /\ d.week = got.week /\ d.teacher = c.teacher
      BY <1>1 DEF RunState
    <2> HIDE DEF d
    <2>5. RunInv(d)
      BY <1>1, <2>1, <2>2, <2>4 DEF RunInv, Waiting, Acting
    <2> QED BY <1>3, <2>1, <2>3, <2>5 DEF Reads, Goes
  <1>7. ASSUME GetCounter(p) PROVE Reads(p)
    <2> DEFINE d == [c EXCEPT !.pc = "refund", !.cases = counter[c.week]]
    <2>1. run' = [run EXCEPT ![p] = d] /\ c.pc = "counter"
      BY <1>1, <1>7 DEF GetCounter
    <2>2. counter[c.week] \in CounterRow
      BY <1>1 DEF IInv, TypeOK, RunState
    <2>3. d \in RunState
      BY <1>1, <2>2 DEF RunState
    <2>4. d.pc = "refund" /\ d.conv = c.conv /\ d.row = c.row /\ d.week = c.week
          /\ d.teacher = c.teacher
      BY <1>1 DEF RunState
    <2> HIDE DEF d
    <2>5. RunInv(d)
      BY <1>1, <2>1, <2>4 DEF RunInv, Waiting, Acting
    <2> QED BY <1>3, <2>1, <2>3, <2>5 DEF Reads, Goes
  <1> QED BY <1>4, <1>5, <1>6, <1>7

\* A read or a write that fails, and a run that dies, write nothing.
LEMMA Failures ==
    ASSUME IInv, NEW p \in Run, Fail(p)
    PROVE  Reads(p)
  <1>1. CASE ReadFails(p)
    BY <1>1, ReturnIs DEF Reads, ReadFails
  <1>2. CASE AdmitRefused(p)
    BY <1>2, ReturnIs, AgainIs DEF Reads, AdmitRefused, Again, Acting
  <1>3. CASE RefundRefused(p)
    BY <1>3, NotEndedIs, AgainIs DEF Reads, RefundRefused, Again, Acting
  <1>4. CASE EndUnavailable(p)
    BY <1>4, NotEndedIs DEF Reads, EndUnavailable
  <1>5. CASE WriteRefused(p)
    BY <1>5, ReturnIs DEF Reads, WriteRefused
  <1>6. CASE Crash(p)
    BY <1>6, ReturnIs DEF Reads, Crash, Return, Rows
  <1> QED BY <1>1, <1>2, <1>3, <1>4, <1>5, <1>6 DEF Fail
-----------------------------------------------------------------------------
(* The writes.  WriteInv collects what is left to show of one.             *)

\* What no write may do to a record: take it from its teacher, reopen or end it
\* another way, name a teacher who is leaving.
RecordStep(r, s) ==
    /\ r.holder # s.holder =>
         /\ r.holder # NoTeacher => s.holder = NoTeacher /\ r.holder \in deleting
         /\ s.holder # NoTeacher => r.offered = s.holder
    /\ r.status \in Ended \cup {"resolved"} => s.status = r.status
    /\ \A t \in Teacher : t \in deleting /\ ~Names(r, t) => ~Names(s, t)

Proper == \A c \in Conversation : RecordStep(record[c], record'[c])

\* A write of one record, its case and its offers under what its run knows.
LEMMA WriteInv ==
    ASSUME IInv, NEW p \in Run, NEW c \in Conversation, NEW r \in Record,
           RecordInv(r), r.version = record[c].version + 1,
           record' = [record EXCEPT ![c] = r], RecordStep(record[c], r),
           limit' = limit, week' = week, deleting' = deleting,
           NEW case \in [state : {"none", "admitted", "refunded"}, week : Week],
           receipt' = [receipt EXCEPT ![c] = case], CaseInv(r, case),
           receipt[c].state # "none" => case.state # "none" /\ case.week = receipt[c].week,
           counter' \in [Week -> CounterRow], CasesAccount',
           NEW times \in [Teacher -> 0..2],
           offers' = [offers EXCEPT ![c] = times], OfferInv(r, times),
           Goes(p) \/ Steps(p)
    PROVE  IInv' /\ Proper
  <1>1. /\ record \in [Conversation -> Record]
        /\ receipt \in [Conversation ->
                          [state : {"none", "admitted", "refunded"}, week : Week]]
        /\ offers \in [Conversation -> [Teacher -> 0..2]]
        /\ run \in [Run -> RunState]
    BY DEF IInv, TypeOK
  <1>2. /\ record'[c] = r /\ receipt'[c] = case /\ offers'[c] = times
        /\ \A d \in Conversation \ {c} :
              record'[d] = record[d] /\ receipt'[d] = receipt[d] /\ offers'[d] = offers[d]
    BY <1>1
  <1>3. run' \in [Run -> RunState]
    BY <1>1 DEF Goes, Steps
  <1>4. TypeOK'
    <2>1. record' \in [Conversation -> Record]
      BY <1>1
    <2>2. receipt' \in [Conversation ->
                          [state : {"none", "admitted", "refunded"}, week : Week]]
      BY <1>1
    <2>3. offers' \in [Conversation -> [Teacher -> 0..2]]
      BY <1>1
    <2> QED BY <1>3, <2>1, <2>2, <2>3 DEF IInv, TypeOK
  <1>5. Grows
    <2>1. record[c].version \in Nat
      BY <1>1 DEF Record
    <2>2. \A d \in Conversation :
             record'[d] = record[d] \/ record'[d].version > record[d].version
      BY <1>2, <2>1
    <2>3. \A d \in Conversation :
             receipt[d].state # "none" =>
                receipt'[d].state # "none" /\ receipt'[d].week = receipt[d].week
      BY <1>2
    <2> QED BY <2>2, <2>3 DEF Grows
  <1>6. Steps(p)
    <2> SUFFICES ASSUME Goes(p) PROVE Steps(p)
      OBVIOUS
    <2>1. PICK new \in RunState : run' = [run EXCEPT ![p] = new] /\ RunInv(new)
      BY DEF Goes
    <2>2. RunInv(new)'
      BY <1>4, <1>5, <2>1, Keeps DEF IInv
    <2> QED BY <2>1, <2>2 DEF Steps
  <1>7. (\A d \in Conversation : /\ RecordInv(record[d])
                                 /\ CaseInv(record[d], receipt[d])
                                 /\ OfferInv(record[d], offers[d]))'
    <2> TAKE d \in Conversation
    <2>1. CASE d = c
      BY <1>2, <2>1 DEF OfferInv
    <2>2. CASE d # c
      BY <1>2, <2>2 DEF IInv, OfferInv
    <2> QED BY <2>1, <2>2
  <1>8. \A q \in Run : RunInv(run[q])'
    BY <1>4, <1>5, <1>6, RunsStep
  <1>9. Proper
    BY <1>2 DEF Proper, RecordStep
  <1> QED BY <1>4, <1>7, <1>8, <1>9 DEF IInv

\* A write that leaves the case alone.
LEMMA RecordWriteInv ==
    ASSUME IInv, NEW p \in Run, NEW c \in Conversation, NEW r \in Record,
           RecordInv(r), r.version = record[c].version + 1,
           record' = [record EXCEPT ![c] = r], RecordStep(record[c], r),
           UNCHANGED <<receipt, counter, limit, week, deleting>>,
           record[c].status # "none", r.status # "none",
           r.status \in Ended <=> record[c].status \in Ended,
           NEW times \in [Teacher -> 0..2],
           offers' = [offers EXCEPT ![c] = times], OfferInv(r, times),
           Return(p)
    PROVE  IInv' /\ Proper
  <1> DEFINE case == receipt[c]
  <1>1. /\ receipt \in [Conversation ->
                          [state : {"none", "admitted", "refunded"}, week : Week]]
        /\ counter \in [Week -> CounterRow]
    BY DEF IInv, TypeOK
  <1>2. /\ case \in [state : {"none", "admitted", "refunded"}, week : Week]
        /\ receipt' = [receipt EXCEPT ![c] = case]
    BY <1>1
  <1>3. CaseInv(r, case)
    BY DEF IInv, CaseInv
  <1>4. CasesAccount'
    BY DEF IInv, CasesAccount
  <1>5. Goes(p)
    BY ReturnIs
  <1> HIDE DEF case
  <1>6. /\ receipt[c].state # "none" => case.state # "none" /\ case.week = receipt[c].week
        /\ counter' \in [Week -> CounterRow]
    BY <1>1 DEF case
  <1> QED BY <1>2, <1>3, <1>4, <1>5, <1>6, WriteInv

\* A write that passes its condition was decided on the record it changes.
LEMMA CurrentIs ==
    ASSUME IInv, NEW p \in Run, run[p].pc # "idle", Current(run[p])
    PROVE  /\ run[p] \in RunState /\ run[p].conv \in Conversation
           /\ run[p].row = record[run[p].conv] /\ run[p].row \in Record
           /\ RecordInv(run[p].row) /\ run[p].age \in 0..RunTime
           /\ offers[run[p].conv] \in [Teacher -> 0..2]
           /\ OfferInv(run[p].row, offers[run[p].conv])
  <1>1. run[p] \in RunState /\ RunInv(run[p])
    BY DEF IInv, TypeOK
  <1>2. run[p].conv \in Conversation /\ run[p].row = record[run[p].conv]
    BY <1>1 DEF RunInv, Current
  <1> QED BY <1>1, <1>2 DEF IInv, TypeOK, RunState

\* dispatch: an offer, or the note that nobody is free.
LEMMA OfferStep ==
    ASSUME IInv, NEW p \in Run, Offer(p)
    PROVE  IInv' /\ Proper
  <1> DEFINE c == run[p]
             conv == c.conv
             row == c.row
             times == offers[conv]
  <1>1. /\ c \in RunState /\ RunInv(c) /\ c.pc = "offer" /\ Return(p)
        /\ UNCHANGED <<receipt, counter, limit, deleting, week>>
    BY DEF IInv, TypeOK, Offer
  <1>2. /\ conv \in Conversation /\ row = record[conv] /\ row \in Record
        /\ RecordInv(row) /\ c.age \in 0..RunTime
        /\ times \in [Teacher -> 0..2] /\ OfferInv(row, times) /\ Untaken(row)
    BY <1>1, CurrentIs DEF Offer
  <1>3. /\ ~LiveOffer(row, c.age) /\ c.teacher \notin Previous(row, c.age)
        /\ c.teacher \in Teacher \cup {NoTeacher}
    BY <1>1 DEF RunInv, Waiting, RunState
  <1>4. row.status = "pending" /\ row.holder = NoTeacher
    BY <1>2 DEF Untaken
  \* Whoever was offered it has let it lapse, or is leaving.
  <1>5. \A t \in Teacher : times[t] = 1 => t \in deleting \/ t \in Previous(row, c.age)
    <2> SUFFICES ASSUME NEW t \in Teacher, times[t] = 1, t \notin deleting
                 PROVE  t \in Previous(row, c.age)
      OBVIOUS
    <2>1. t \in row.previous \/ (t = row.offered /\ row.dispatch = "dispatched")
      BY <1>2, <1>4, TimeFacts DEF OfferInv, Ended
    <2>2. CASE t = row.offered /\ row.dispatch = "dispatched"
      BY <1>3, <2>2, TimeFacts DEF LiveOffer, Previous
    <2> QED BY <2>1, <2>2 DEF Previous
  <1>6. CASE c.teacher = NoTeacher
    <2> DEFINE new == NobodyFree(row, c.age)
    <2>1. /\ new \in Record /\ RecordInv(new)
          /\ new.version = row.version + 1 /\ new.status = row.status
          /\ new.previous = Previous(row, c.age)
          /\ new.offered = NoTeacher /\ new.holder = NoTeacher
      BY <1>2, NobodyFreeIs
    <2>2. record' = [record EXCEPT ![conv] = new] /\ offers' = offers
      BY <1>6 DEF Offer
    <2>3. offers' = [offers EXCEPT ![conv] = times]
      BY <2>2 DEF IInv, TypeOK
    <2> HIDE DEF new
    <2>4. OfferInv(new, times)
      BY <1>2, <1>5, <2>1 DEF OfferInv
    <2>5. RecordStep(row, new)
      BY <1>2, <1>4, <2>1, TimeFacts DEF RecordStep, Names, Previous, Ended
    <2> HIDE DEF times
    <2> QED BY <1>1, <1>2, <1>4, <2>1, <2>2, <2>3, <2>4, <2>5, RecordWriteInv
  <1>7. CASE c.teacher # NoTeacher
    <2> DEFINE t == c.teacher
               new == Offered(row, t, c.age)
               more == [times EXCEPT ![t] = IF times[t] < 2 THEN times[t] + 1 ELSE times[t]]
    <2>1. t \in Teacher /\ t \notin deleting
      BY <1>3, <1>7 DEF Offer, AccountBound
    <2>2. /\ new \in Record /\ RecordInv(new)
          /\ new.version = row.version + 1 /\ new.status = row.status
          /\ new.previous = Previous(row, c.age)
          /\ new.dispatch = "dispatched" /\ new.offered = t
          /\ new.holder = NoTeacher
      BY <1>2, <2>1, OfferedIs
    <2>3. /\ record' = [record EXCEPT ![conv] = new]
          /\ offers' = [offers EXCEPT ![conv] = more]
      BY <1>7 DEF Offer
    <2> HIDE DEF new
    <2>4. times[t] = 0
      BY <1>2, <1>3, <1>5, <2>1 DEF OfferInv
    <2>5. more \in [Teacher -> 0..2] /\ more[t] = 1
          /\ \A u \in Teacher \ {t} : more[u] = times[u]
      BY <1>2, <2>1, <2>4
    <2> HIDE DEF more
    <2>6. OfferInv(new, more)
      <3> SUFFICES ASSUME NEW u \in Teacher
                   PROVE  /\ more[u] <= 1
                          /\ more[u] = 1 => \/ u \in deleting \/ u \in new.previous
                                            \/ u = new.offered /\ new.dispatch = "dispatched"
        BY DEF OfferInv
      <3>1. times[u] <= 1 /\ (times[u] = 1 => u \in deleting \/ u \in new.previous)
        BY <1>2, <1>5, <2>2 DEF OfferInv
      <3> QED BY <2>2, <2>5, <3>1
    <2>7. RecordStep(row, new)
      BY <1>2, <1>4, <2>1, <2>2, TimeFacts DEF RecordStep, Names, Previous, Ended
    <2> QED BY <1>1, <1>2, <1>4, <2>2, <2>3, <2>5, <2>6, <2>7, RecordWriteInv
  <1> QED BY <1>6, <1>7

\* take_or_finish and reply.
LEMMA MoveStep ==
    ASSUME IInv, NEW p \in Run, Move(p)
    PROVE  IInv' /\ Proper
  <1> DEFINE c == run[p]
             conv == c.conv
             row == c.row
             times == offers[conv]
             t == c.teacher
  <1>1. /\ c \in RunState /\ RunInv(c) /\ c.pc = "move" /\ Return(p)
        /\ UNCHANGED <<receipt, counter, limit, deleting, week, offers>>
    BY DEF IInv, TypeOK, Move
  <1>2. /\ conv \in Conversation /\ row = record[conv] /\ row \in Record
        /\ RecordInv(row) /\ times \in [Teacher -> 0..2] /\ OfferInv(row, times)
    BY <1>1, CurrentIs DEF Move
  <1>3. t \in Teacher /\ c.op \in TeacherOp
    BY <1>1 DEF RunInv, Acting
  <1>4. offers' = [offers EXCEPT ![conv] = times]
    BY <1>1 DEF IInv, TypeOK
  <1>5. CASE c.op = "reply" /\ row.holder = t
    <2> DEFINE new == Replied(row)
    <2>1. row.status # "none"
      BY <1>2, <1>3, <1>5, TimeFacts DEF RecordInv
    <2>2. /\ new \in Record /\ RecordInv(new)
          /\ new.version = row.version + 1 /\ new.status = row.status
          /\ new.dispatch = row.dispatch /\ new.offered = row.offered
          /\ new.previous = row.previous /\ new.holder = row.holder
      BY <1>2, <2>1, RepliedIs
    <2>3. record' = [record EXCEPT ![conv] = new]
      BY <1>5 DEF Move
    <2> HIDE DEF new
    <2>4. OfferInv(new, times)
      BY <1>2, <2>2 DEF OfferInv
    <2>5. RecordStep(row, new)
      BY <2>2 DEF RecordStep, Names
    <2> HIDE DEF times
    <2> QED BY <1>1, <1>2, <1>4, <2>1, <2>2, <2>3, <2>4, <2>5, RecordWriteInv
  <1>6. CASE ~(c.op = "reply" /\ row.holder = t)
    <2> DEFINE replies == c.op = "reply"
               target == MoveTo(c)
               new == Advanced(row, t, target, replies)
    <2>1. target \in {"in_progress", "resolved"} /\ replies \in BOOLEAN
      BY <1>3 DEF MoveTo, TeacherOp
    <2>2. PICK lag \in 0..c.age : MayAdvance(row, t, lag)
      BY <1>6 DEF Move
    <2>3. record' = [record EXCEPT ![conv] = new]
      BY <1>6 DEF Move
    <2> HIDE DEF target, replies
    <2>4. /\ new \in Record /\ RecordInv(new)
          /\ new.version = row.version + 1 /\ new.status = target
          /\ new.offered = row.offered /\ new.previous = row.previous
          /\ row.offered = t /\ new.holder = t
          /\ row.holder \in {t, NoTeacher} /\ row.status \in Open
      BY <1>2, <1>3, <2>1, <2>2, AdvancedIs
    <2> HIDE DEF new
    <2>5. OfferInv(new, times)
      <3> SUFFICES ASSUME NEW u \in Teacher
                   PROVE  /\ times[u] <= 1
                          /\ times[u] = 1 => \/ u \in deleting \/ u \in new.previous
                                             \/ u = new.holder
        BY DEF OfferInv
      <3>1. row.status \notin Ended \cup {"resolved"}
        BY <2>4 DEF Open, Ended
      <3> QED BY <1>2, <1>3, <2>4, <3>1, TimeFacts DEF OfferInv
    <2>6. /\ row.status \notin Ended \cup {"none"} /\ new.status \notin Ended \cup {"none"}
      BY <2>1, <2>4 DEF Open, Ended
    <2>7. RecordStep(row, new)
      BY <1>3, <2>4, <2>6, TimeFacts DEF RecordStep, Names, Open, Ended
    <2> HIDE DEF times
    <2> QED BY <1>1, <1>2, <1>4, <2>3, <2>4, <2>5, <2>6, <2>7, RecordWriteInv
  <1> QED BY <1>5, <1>6

\* scrub_teacher.
LEMMA ScrubStep ==
    ASSUME IInv, NEW p \in Run, Scrub(p)
    PROVE  IInv' /\ Proper
  <1> DEFINE c == run[p]
             conv == c.conv
             row == c.row
             times == offers[conv]
             t == c.teacher
             new == Scrubbed(row, t)
  <1>1. /\ c \in RunState /\ RunInv(c) /\ c.pc = "clean" /\ Return(p)
        /\ record' = [record EXCEPT ![conv] = new]
        /\ UNCHANGED <<receipt, counter, limit, deleting, week, offers>>
    BY DEF IInv, TypeOK, Scrub
  <1>2. /\ conv \in Conversation /\ row = record[conv] /\ row \in Record
        /\ RecordInv(row) /\ times \in [Teacher -> 0..2] /\ OfferInv(row, times)
    BY <1>1, CurrentIs DEF Scrub
  <1>3. t \in Teacher /\ t \in deleting /\ row.status # "none"
    BY <1>1, <1>2 DEF RunInv, Acting
  <1>4. offers' = [offers EXCEPT ![conv] = times]
    BY <1>1 DEF IInv, TypeOK
  <1>5. /\ new \in Record /\ RecordInv(new)
        /\ new.version = row.version + 1
        /\ new.previous = row.previous \ {t}
        /\ \/ new.status = row.status
           \/ row.status \in Open /\ new.status = "pending"
        /\ \/ /\ new.holder = row.holder /\ new.offered = row.offered
              /\ new.dispatch = row.dispatch /\ t \notin {row.holder, row.offered}
           \/ /\ new.holder = NoTeacher /\ new.offered = NoTeacher
              /\ row.holder \in {t, NoTeacher} /\ row.offered = t
    BY <1>2, <1>3, ScrubbedIs
  <1> HIDE DEF new
  <1>6. OfferInv(new, times)
    BY <1>2, <1>3, <1>5, TimeFacts DEF OfferInv, Open, Ended
  <1>7. /\ row.status # "none" /\ new.status # "none"
        /\ new.status \in Ended <=> row.status \in Ended
    BY <1>3, <1>5 DEF Open, Ended
  <1>8. RecordStep(row, new)
    BY <1>3, <1>5, TimeFacts DEF RecordStep, Names, Open, Ended
  <1> HIDE DEF times
  <1> QED BY <1>1, <1>2, <1>4, <1>5, <1>6, <1>7, <1>8, RecordWriteInv
-----------------------------------------------------------------------------
(* The weekly cases.                                                       *)

\* The cases of week w that were not given back.
Standing(w) == {c \in Conversation : receipt[c] = [state |-> "admitted", week |-> w]}

\* The cases of a week are finitely many, and counted.
LEMMA StandingFacts ==
    ASSUME IInv, NEW w \in Week
    PROVE  /\ IsFiniteSet(Standing(w)) /\ Cardinality(Standing(w)) \in Nat
           /\ counter[w].cases = Cardinality(Standing(w))
           /\ counter[w] \in CounterRow
  <1>1. IsFiniteSet(Standing(w))
    BY ConversationAssumption, FS_Subset DEF Standing
  <1> QED BY <1>1, FS_CardinalityType DEF IInv, CasesAccount, Standing, TypeOK

\* A case that is admitted is counted in its week.
LEMMA AdmittedCounts ==
    ASSUME IInv, NEW c \in Conversation, receipt[c].state = "none", NEW w \in Week,
           receipt' = [receipt EXCEPT ![c] = [state |-> "admitted", week |-> w]],
           counter' = [counter EXCEPT ![w] = Spent(counter[w])]
    PROVE  /\ counter' \in [Week -> CounterRow] /\ CasesAccount'
           /\ counter'[w].cases = counter[w].cases + 1
           /\ \A v \in Week \ {w} : counter'[v] = counter[v]
  <1>1. /\ counter \in [Week -> CounterRow] /\ counter[w] \in CounterRow
        /\ receipt \in [Conversation ->
                          [state : {"none", "admitted", "refunded"}, week : Week]]
    BY DEF IInv, TypeOK
  <1>2. /\ Spent(counter[w]) \in CounterRow
        /\ Spent(counter[w]).cases = counter[w].cases + 1
    BY <1>1 DEF Spent, CounterRow
  <1>3. /\ counter' \in [Week -> CounterRow] /\ counter'[w].cases = counter[w].cases + 1
        /\ \A v \in Week \ {w} : counter'[v] = counter[v]
    BY <1>1, <1>2
  <1>4. /\ receipt'[c] = [state |-> "admitted", week |-> w]
        /\ \A d \in Conversation \ {c} : receipt'[d] = receipt[d]
    BY <1>1
  <1>5. ASSUME NEW v \in Week PROVE counter'[v].cases = Cardinality(Standing(v)')
    <2>1. \A u \in Week : receipt[c] # [state |-> "admitted", week |-> u]
      BY <1>1
    <2>2. CASE v = w
      <3>1. Standing(v)' = Standing(v) \cup {c} /\ c \notin Standing(v)
        BY <1>4, <2>1, <2>2 DEF Standing
      <3>2. Cardinality(Standing(v) \cup {c}) = Cardinality(Standing(v)) + 1
        BY <3>1, StandingFacts, FS_AddElement
      <3> QED BY <1>3, <2>2, <3>1, <3>2, StandingFacts
    <2>3. CASE v # w
      <3>1. [state |-> "admitted", week |-> w] # [state |-> "admitted", week |-> v]
        BY <2>3
      <3>2. Standing(v)' = Standing(v)
        BY <1>4, <2>1, <3>1 DEF Standing
      <3> QED BY <1>3, <2>3, <3>2, StandingFacts
    <2> QED BY <2>2, <2>3
  <1> QED BY <1>3, <1>5 DEF CasesAccount, Standing

\* A case that is given back is no longer counted there, once.
LEMMA RefundedCounts ==
    ASSUME IInv, NEW c \in Conversation, NEW w \in Week,
           receipt[c].state = "admitted", receipt[c].week = w,
           receipt' = [receipt EXCEPT ![c] = [state |-> "refunded", week |-> w]],
           counter' = [counter EXCEPT ![w] = GivenBack(counter[w])]
    PROVE  /\ counter' \in [Week -> CounterRow] /\ CasesAccount'
           /\ counter'[w].cases = counter[w].cases - 1
           /\ \A v \in Week \ {w} : counter'[v] = counter[v]
  <1>1. /\ counter \in [Week -> CounterRow] /\ counter[w] \in CounterRow
        /\ receipt \in [Conversation ->
                          [state : {"none", "admitted", "refunded"}, week : Week]]
    BY DEF IInv, TypeOK
  <1>2. receipt[c] = [state |-> "admitted", week |-> w]
    BY <1>1
  <1>3. c \in Standing(w)
    BY <1>2 DEF Standing
  <1>4. /\ Cardinality(Standing(w) \ {c}) = Cardinality(Standing(w)) - 1
        /\ Cardinality(Standing(w) \ {c}) \in Nat
    <2>1. IsFiniteSet(Standing(w) \ {c})
      BY StandingFacts, FS_Subset
    <2> QED BY <2>1, <1>3, StandingFacts, FS_RemoveElement, FS_CardinalityType
  <1>5. /\ GivenBack(counter[w]) \in CounterRow
        /\ GivenBack(counter[w]).cases = counter[w].cases - 1
    BY <1>1, <1>4, StandingFacts DEF GivenBack, CounterRow
  <1>6. /\ counter' \in [Week -> CounterRow] /\ counter'[w].cases = counter[w].cases - 1
        /\ \A v \in Week \ {w} : counter'[v] = counter[v]
    BY <1>1, <1>5
  <1>7. /\ receipt'[c] = [state |-> "refunded", week |-> w]
        /\ \A d \in Conversation \ {c} : receipt'[d] = receipt[d]
    BY <1>1
  <1>8. ASSUME NEW v \in Week PROVE counter'[v].cases = Cardinality(Standing(v)')
    <2>1. [state |-> "refunded", week |-> w] # [state |-> "admitted", week |-> v]
      OBVIOUS
    <2>2. CASE v = w
      <3>1. Standing(v)' = Standing(v) \ {c}
        BY <1>7, <2>1 DEF Standing
      <3> QED BY <1>4, <1>6, <2>2, <3>1, StandingFacts
    <2>3. CASE v # w
      <3>1. receipt[c] # [state |-> "admitted", week |-> v]
        BY <1>2, <2>3
      <3>2. Standing(v)' = Standing(v)
        BY <1>7, <2>1, <3>1 DEF Standing
      <3> QED BY <1>6, <2>3, <3>2, StandingFacts
    <2> QED BY <2>2, <2>3
  <1> QED BY <1>6, <1>8 DEF CasesAccount, Standing

\* admit_teacher_support_case, within the figure it read.
LEMMA AdmitStep ==
    ASSUME IInv, NEW p \in Run, Admit(p)
    PROVE  /\ IInv' /\ Proper
           /\ \A w \in Week : counter'[w].cases > counter[w].cases
                                 => counter'[w].cases <= limit.cases
  <1> DEFINE c == run[p]
             conv == c.conv
             w == c.week
             case == [state |-> "admitted", week |-> w]
             new == Asked(c.age)
             times == offers[conv]
  <1>1. /\ c \in RunState /\ RunInv(c) /\ c.pc = "admit" /\ conv \in Conversation
        /\ w \in Week /\ c.age \in 0..RunTime /\ run \in [Run -> RunState]
        /\ c.cases.cases < c.limit.cases
    BY DEF IInv, TypeOK, Admit, RunInv, RunState
  <1>2. /\ record[conv].status = "none" /\ receipt[conv].state = "none"
        /\ limit = c.limit /\ counter[w] = c.cases
    BY DEF Admit, AdmitCondition
  <1>3. /\ record' = [record EXCEPT ![conv] = new] /\ receipt' = [receipt EXCEPT ![conv] = case]
        /\ counter' = [counter EXCEPT ![w] = Spent(counter[w])]
        /\ limit' = limit /\ week' = week /\ deleting' = deleting
        /\ offers' = [offers EXCEPT ![conv] = times]
    BY <1>2 DEF Admit, IInv, TypeOK
  <1>4. /\ new \in Record /\ RecordInv(new)
        /\ new.status = "pending" /\ new.version = 1
        /\ new.previous = {} /\ new.holder = NoTeacher
        /\ new.dispatch = "none" /\ new.offered = NoTeacher
    BY <1>1, AskedIs
  <1>5. /\ RecordInv(record[conv]) /\ OfferInv(record[conv], times)
        /\ times \in [Teacher -> 0..2]
    BY <1>1 DEF IInv, TypeOK
  <1>6. record[conv] = NoRecord /\ record[conv].version = 0
    BY <1>2, <1>5 DEF RecordInv
  <1>7. /\ counter' \in [Week -> CounterRow] /\ CasesAccount'
        /\ counter'[w].cases = counter[w].cases + 1
        /\ \A v \in Week \ {w} : counter'[v] = counter[v]
    BY <1>1, <1>2, <1>3, AdmittedCounts
  <1> HIDE DEF c, case, new, times
  <1>8. Goes(p) \/ Steps(p)
    <2>1. CASE run' = [run EXCEPT ![p] = Dispatching("ask", c, new)]
      <3>1. ~LiveOffer(new, c.age)
        BY <1>4 DEF LiveOffer
      <3>2. Dispatching("ask", c, new) \in RunState
        BY <1>1, <1>4, <3>1, DispatchingIs
      <3>3. PICK d \in RunState : d = Dispatching("ask", c, new)
        BY <3>2
      <3>4. /\ d.pc = "plan" /\ d.conv = conv
            /\ d.row = new /\ d.age = c.age /\ d.teacher = NoTeacher
        BY <1>1, <1>4, <3>1, <3>3, DispatchingIs
      <3>5. record'[d.conv] = d.row /\ d.row.version \in Nat /\ ~LiveOffer(d.row, d.age)
        BY <1>1, <1>3, <1>4, <3>1, <3>4 DEF IInv, TypeOK
      <3>6. RunInv(d)'
        BY <1>1, <3>4, <3>5 DEF RunInv, Waiting, Acting
      <3> QED BY <2>1, <3>3, <3>6 DEF Steps
    <2>2. CASE Again(p, "scope", Return(p))
      BY <1>1, <2>2, ReturnIs, AgainIs DEF Again, Acting, c
    <2> QED BY <2>1, <2>2 DEF Admit, Dispatching, c, new
  <1>9. case \in [state : {"none", "admitted", "refunded"}, week : Week]
        /\ case.state = "admitted"
    BY <1>1 DEF case
  <1>10. CaseInv(new, case)
    BY <1>4, <1>9 DEF CaseInv, Ended
  <1>11. OfferInv(new, times)
    <2> SUFFICES ASSUME NEW t \in Teacher
                 PROVE  times[t] <= 1 /\ (times[t] = 1 => t \in deleting)
      BY DEF OfferInv
    <2>1. /\ NoRecord.previous = {} /\ NoRecord.holder = NoTeacher
          /\ NoRecord.offered = NoTeacher /\ NoRecord.status = "none"
      BY DEF NoRecord
    <2> QED BY <1>5, <1>6, <2>1, TimeFacts DEF OfferInv, Ended
  <1>12. IInv' /\ Proper
    <2>1. new.version = record[conv].version + 1
      BY <1>4, <1>6
    <2>2. receipt[conv].state # "none" => case.state # "none" /\ case.week = receipt[conv].week
      BY <1>2
    <2>3. RecordStep(record[conv], new)
      BY <1>2, <1>4, <1>6, TimeFacts DEF RecordStep, Names, NoRecord, Ended
    <2> HIDE DEF conv
    <2> QED BY <1>1, <1>3, <1>4, <1>5, <1>7, <1>8, <1>9, <1>10, <1>11, <2>1, <2>2, <2>3,
               WriteInv
  <1>13. /\ c.cases.cases \in Nat /\ c.limit.cases \in Nat
         /\ \A v \in Week : counter[v].cases \in Nat
    BY <1>1, BoundFacts DEF IInv, TypeOK, RunState, CounterRow, LimitRow
  <1> QED BY <1>1, <1>2, <1>7, <1>12, <1>13

\* refund_teacher_support_case: a request nobody took has a case to give back.
LEMMA RefundStep ==
    ASSUME IInv, NEW p \in Run, Refund(p)
    PROVE  /\ IInv' /\ Proper
           /\ \A w \in Week : counter'[w].cases <= counter[w].cases
  <1> DEFINE c == run[p]
             conv == c.conv
             row == record[conv]
             w == receipt[conv].week
             case == [state |-> "refunded", week |-> w]
             new == EndedAs(row, Outcome(c))
             times == offers[conv]
  <1>1. /\ c \in RunState /\ RunInv(c) /\ c.pc = "refund" /\ conv \in Conversation
        /\ c.week = w /\ w \in Week
        /\ receipt \in [Conversation ->
                          [state : {"none", "admitted", "refunded"}, week : Week]]
    BY DEF IInv, TypeOK, Refund, RunInv
  <1>2. /\ row \in Record /\ RecordInv(row) /\ CaseInv(row, receipt[conv])
        /\ OfferInv(row, times) /\ times \in [Teacher -> 0..2]
    BY <1>1 DEF IInv, TypeOK
  <1>3. Untaken(row) /\ receipt[conv].state = c.receipt
        /\ (c.receipt = "admitted" => counter[w] = c.cases)
    BY <1>1 DEF Refund, RefundCondition
  <1>4. row.status = "pending" /\ c.receipt = "admitted"
    BY <1>1, <1>2, <1>3 DEF Untaken, CaseInv, Ended
  <1>5. Outcome(c) \in Ended
    BY DEF Outcome, Ended
  <1>6. /\ new \in Record /\ RecordInv(new)
        /\ new.version = row.version + 1 /\ new.status \in Ended
        /\ new.offered = NoTeacher /\ new.holder = NoTeacher
        /\ new.previous = row.previous
    BY <1>2, <1>3, <1>5, EndedAsIs
  <1>7. /\ record' = [record EXCEPT ![conv] = new]
        /\ receipt' = [receipt EXCEPT ![conv] = case]
        /\ counter' = [counter EXCEPT ![w] = GivenBack(counter[w])]
        /\ limit' = limit /\ week' = week /\ deleting' = deleting
        /\ offers' = [offers EXCEPT ![conv] = times]
    <2>1. record' = [record EXCEPT ![conv] = new]
      BY DEF Refund
    <2>2. receipt' = [receipt EXCEPT ![conv] = case]
      <3>1. receipt' = [receipt EXCEPT ![conv] = [receipt[conv] EXCEPT !.state = "refunded"]]
        BY DEF Refund
      <3>2. [receipt[conv] EXCEPT !.state = "refunded"] = case
        BY <1>1
      <3> QED BY <3>1, <3>2
    <2>3. counter' = [counter EXCEPT ![w] = GivenBack(counter[w])]
      BY <1>1, <1>3, <1>4 DEF Refund
    <2>4. limit' = limit /\ week' = week /\ deleting' = deleting /\ offers' = offers
      BY DEF Refund
    <2> QED BY <2>1, <2>2, <2>3, <2>4 DEF IInv, TypeOK
  <1>8. /\ counter' \in [Week -> CounterRow] /\ CasesAccount'
        /\ counter'[w].cases = counter[w].cases - 1
        /\ \A v \in Week \ {w} : counter'[v] = counter[v]
    BY <1>1, <1>3, <1>4, <1>7, RefundedCounts
  <1>9. Goes(p)
    <2>1. CASE Return(p)
      BY <2>1, ReturnIs
    <2>2. CASE Again(p, "end", NotEnded(p))
      BY <1>1, <2>2, NotEndedIs, AgainIs DEF Again, Acting
    <2> QED BY <2>1, <2>2 DEF Refund
  <1>10. /\ case \in [state : {"none", "admitted", "refunded"}, week : Week]
         /\ case.state = "refunded" /\ case.week = w
    BY <1>1
  <1> HIDE DEF new, case, times
  <1>11. CaseInv(new, case)
    BY <1>6, <1>10 DEF CaseInv, Ended
  <1>12. OfferInv(new, times)
    BY <1>2, <1>6 DEF OfferInv
  <1>13. IInv' /\ Proper
    <2>1. RecordStep(row, new)
      BY <1>3, <1>4, <1>6, TimeFacts DEF RecordStep, Names, Untaken, Ended
    <2> QED BY <1>1, <1>2, <1>6, <1>7, <1>8, <1>9, <1>10, <1>11, <1>12, <2>1, WriteInv
  <1>14. \A v \in Week : counter[v].cases \in Nat
    BY DEF IInv, TypeOK, CounterRow
  <1> QED BY <1>1, <1>8, <1>13, <1>14
-----------------------------------------------------------------------------
(* The world around the runs.                                              *)

\* Time passes for the records and for what the runs read alike.
LEMMA TickStep ==
    ASSUME IInv, Tick
    PROVE  IInv' /\ Proper
  <1>1. /\ record \in [Conversation -> Record] /\ run \in [Run -> RunState]
        /\ UNCHANGED <<receipt, counter, limit, deleting, week, offers>>
    BY DEF IInv, TypeOK, Tick
  <1>2. \A c \in Conversation : record'[c] = Aged(record[c])
    BY DEF Tick
  <1>3. record' \in [Conversation -> Record]
    BY <1>1, AgedIs DEF Tick
  \* A run that grew older with the rows it read knows what it knew.
  <1>4. ASSUME NEW q \in Run, run[q].pc # "idle"
        PROVE  run'[q] \in RunState /\ RunInv(run[q])'
    <2> PICK c \in RunState : c = run[q]
      BY <1>1
    <2>1. RunInv(c) /\ c.pc # "idle" /\ c.age < RunTime /\ c.age \in 0..RunTime
          /\ c.row \in Record
      BY <1>4 DEF IInv, Tick, RunState
    <2> DEFINE d == [c EXCEPT !.age = c.age + 1, !.row = Aged(c.row)]
    <2>2. run'[q] = d
      BY <1>4 DEF Tick
    <2>3. Aged(c.row) \in Record /\ c.age + 1 \in 0..RunTime
      BY <2>1, AgedIs, TimeFacts
    <2>4. d \in RunState
      BY <2>3 DEF RunState
    <2>5. /\ d.pc = c.pc /\ d.op = c.op /\ d.conv = c.conv /\ d.teacher = c.teacher
          /\ d.age = c.age + 1 /\ d.row = Aged(c.row) /\ d.limit = c.limit
          /\ d.cases = c.cases /\ d.receipt = c.receipt /\ d.week = c.week
      BY DEF RunState
    <2> HIDE DEF d
    <2>6. /\ d.row.version = c.row.version /\ d.row.status = c.row.status
          /\ LiveOffer(d.row, d.age) <=> LiveOffer(c.row, c.age)
          /\ Previous(d.row, d.age) = Previous(c.row, c.age)
      BY <2>1, <2>5, AgedIs, AgedLapses
    <2>7. c.conv \in Conversation
      BY <2>1 DEF RunInv
    <2>8. record'[c.conv].version = record[c.conv].version
      BY <1>1, <1>2, <2>7, AgedIs
    <2>9. /\ d.row.version <= record'[d.conv].version
          /\ d.row.version = record'[d.conv].version => d.row = record'[d.conv]
      BY <1>2, <2>1, <2>5, <2>6, <2>7, <2>8 DEF RunInv
    <2> PICK e \in RunState : e = d
      BY <2>4
    <2>10. RunInv(e)'
      BY <1>1, <2>1, <2>5, <2>6, <2>9 DEF RunInv
    <2> QED BY <2>2, <2>10 DEF RunInv
  <1>5. ASSUME NEW q \in Run, run[q].pc = "idle"
        PROVE  run'[q] \in RunState /\ RunInv(run[q])'
    BY <1>1, <1>5 DEF Tick, RunInv
  <1>6. run' \in [Run -> RunState]
    <2>1. \A q \in Run : run'[q] \in RunState
      BY <1>4, <1>5
    <2> QED BY <2>1 DEF Tick
  <1>7. TypeOK'
    BY <1>1, <1>3, <1>6 DEF IInv, TypeOK
  <1>8. (\A c \in Conversation : /\ RecordInv(record[c])
                                 /\ CaseInv(record[c], receipt[c])
                                 /\ OfferInv(record[c], offers[c]))'
    <2> TAKE c \in Conversation
    <2>1. RecordInv(record[c]) /\ CaseInv(record[c], receipt[c]) /\ OfferInv(record[c], offers[c])
      BY DEF IInv
    <2>2. RecordInv(record[c])'
      BY <1>1, <1>2, <2>1, AgedKeeps
    <2>3. /\ record'[c].status = record[c].status /\ record'[c].dispatch = record[c].dispatch
          /\ record'[c].offered = record[c].offered
          /\ record'[c].previous = record[c].previous /\ record'[c].holder = record[c].holder
      BY <1>1, <1>2, AgedIs
    <2>4. CaseInv(record[c], receipt[c])' /\ OfferInv(record[c], offers[c])'
      BY <1>1, <2>1, <2>3 DEF CaseInv, OfferInv
    <2> QED BY <2>2, <2>4
  <1>9. CasesAccount'
    BY <1>1 DEF IInv, CasesAccount
  <1>10. Proper
    BY <1>1, <1>2, AgedIs DEF Proper, RecordStep, Names
  <1> QED BY <1>4, <1>5, <1>7, <1>8, <1>9, <1>10 DEF IInv

\* The other steps outside the runs.
LEMMA AroundStep ==
    ASSUME IInv,
           \/ NextWeek \/ (\E n \in Figure : SetFigure(n)) \/ (\E t \in Teacher : FenceTeacher(t))
    PROVE  IInv'
  <1>1. /\ UNCHANGED <<record, receipt, counter, run, offers>>
        /\ deleting \subseteq deleting' /\ deleting' \subseteq Teacher
    BY DEF IInv, TypeOK, NextWeek, SetFigure, FenceTeacher
  <1>2. week' \in Week
    BY BoundFacts DEF IInv, TypeOK, NextWeek, SetFigure, FenceTeacher, Week
  <1>3. limit' \in LimitRow
    BY BoundFacts DEF IInv, TypeOK, NextWeek, SetFigure, FenceTeacher, LimitRow
  <1>4. TypeOK'
    BY <1>1, <1>2, <1>3 DEF IInv, TypeOK
  <1>5. Grows
    BY <1>1 DEF Grows
  <1>6. ASSUME NEW q \in Run PROVE RunInv(run[q])'
    <2> PICK c \in RunState : c = run[q]
      BY DEF IInv, TypeOK
    <2>1. RunInv(c)'
      BY <1>4, <1>5, Keeps DEF IInv
    <2> QED BY <1>1, <2>1 DEF RunInv
  <1>7. (\A c \in Conversation : /\ RecordInv(record[c])
                                 /\ CaseInv(record[c], receipt[c])
                                 /\ OfferInv(record[c], offers[c]))'
    BY <1>1 DEF IInv, OfferInv
  <1>8. CasesAccount'
    BY <1>1 DEF IInv, CasesAccount
  <1> QED BY <1>4, <1>6, <1>7, <1>8 DEF IInv
-----------------------------------------------------------------------------
\* It holds before any request.
LEMMA InitIInv ==
    ASSUME Init
    PROVE  IInv
  <1>1. /\ \A c \in Conversation : record[c] = NoRecord /\ receipt[c] = NoReceipt
        /\ \A c \in Conversation, t \in Teacher : offers[c][t] = 0
        /\ \A w \in Week : counter[w] = NoCounter
        /\ \A p \in Run : run[p] = IdleRun
    BY DEF Init
  <1>2. TypeOK
    <2>1. NoReceipt \in [state : {"none", "admitted", "refunded"}, week : Week]
      BY BoundFacts DEF NoReceipt
    <2> QED BY <2>1, BoundFacts, IdleIs, NoRecordType DEF Init, TypeOK
  <1>3. ASSUME NEW c \in Conversation
        PROVE  /\ RecordInv(record[c]) /\ CaseInv(record[c], receipt[c])
               /\ OfferInv(record[c], offers[c])
    <2>1. RecordInv(NoRecord)
      BY DEF RecordInv, NoRecord, Ended
    <2>2. CaseInv(NoRecord, NoReceipt)
      BY DEF CaseInv, NoRecord, NoReceipt, Ended
    <2>3. OfferInv(record[c], offers[c])
      BY <1>1 DEF OfferInv
    <2> QED BY <1>1, <2>1, <2>2, <2>3
  <1>4. CasesAccount
    <2> SUFFICES ASSUME NEW w \in Week
                 PROVE  counter[w].cases
                          = Cardinality({c \in Conversation :
                                           receipt[c] = [state |-> "admitted", week |-> w]})
      BY DEF CasesAccount
    <2>1. {c \in Conversation : receipt[c] = [state |-> "admitted", week |-> w]} = {}
      BY <1>1 DEF NoReceipt
    <2>2. counter[w].cases = 0
      BY <1>1 DEF NoCounter
    <2> QED BY <2>1, <2>2, FS_EmptySet
  <1>5. \A p \in Run : RunInv(run[p])
    BY <1>1, IdleIs
  <1> QED BY <1>2, <1>3, <1>4, <1>5 DEF IInv
-----------------------------------------------------------------------------
(* Every step.                                                             *)

WithinFigure ==
    \A w \in Week : counter'[w].cases > counter[w].cases => counter'[w].cases <= limit.cases

\* A step that writes neither a record nor a counter does no harm.
LEMMA StillIs ==
    ASSUME IInv, record' = record, counter' = counter
    PROVE  Proper /\ WithinFigure
  <1>1. \A w \in Week : counter[w].cases \in Nat
    BY DEF IInv, TypeOK, CounterRow
  <1> QED BY <1>1 DEF Proper, RecordStep, WithinFigure

\* Every step keeps the invariant and does what a write may do.
LEMMA NextStep ==
    ASSUME IInv, [Next]_vars
    PROVE  IInv' /\ Proper /\ WithinFigure
  <1>1. CASE Tick
    <2>1. counter' = counter /\ \A w \in Week : counter[w].cases \in Nat
      BY <1>1 DEF Tick, IInv, TypeOK, CounterRow
    <2> QED BY <1>1, <2>1, TickStep DEF WithinFigure
  <1>2. CASE NextWeek \/ (\E n \in Figure : SetFigure(n)) \/ (\E t \in Teacher : FenceTeacher(t))
    <2>1. record' = record /\ counter' = counter
      BY <1>2 DEF NextWeek, SetFigure, FenceTeacher
    <2> QED BY <1>2, <2>1, AroundStep, StillIs
  <1>3. ASSUME NEW p \in Run, Reads(p) PROVE IInv' /\ Proper /\ WithinFigure
    <2>1. record' = record /\ counter' = counter
      BY <1>3 DEF Reads, Rows
    <2> QED BY <1>3, <2>1, ReadsInv, StillIs
  <1>4. ASSUME NEW p \in Run, Start(p) PROVE IInv' /\ Proper /\ WithinFigure
    BY <1>3, <1>4, StartIs
  <1>5. ASSUME NEW p \in Run, Fail(p) PROVE IInv' /\ Proper /\ WithinFigure
    BY <1>3, <1>5, Failures
  <1>6. ASSUME NEW p \in Run, Work(p) PROVE IInv' /\ Proper /\ WithinFigure
    <2>1. CASE ReadScope(p) \/ ReadReceipt(p) \/ ReadCount(p)
      BY <1>3, <2>1, AskReads
    <2>2. CASE Plan(p)
      BY <1>3, <2>2, PlanIs
    <2>3. CASE Scan(p) \/ GetToEnd(p) \/ GetCase(p) \/ GetCounter(p)
      BY <1>3, <2>3, EndReads
    <2>4. CASE Admit(p)
      BY <2>4, AdmitStep DEF WithinFigure
    <2>5. CASE Refund(p)
      <3>1. \A w \in Week : counter[w].cases \in Nat /\ counter'[w].cases \in Nat
        BY <2>5, RefundStep DEF IInv, TypeOK, CounterRow
      <3> QED BY <2>5, <3>1, RefundStep DEF WithinFigure
    <2>6. CASE Offer(p) \/ Move(p) \/ Scrub(p)
      <3>1. IInv' /\ Proper
        BY <2>6, OfferStep, MoveStep, ScrubStep
      <3>2. counter' = counter /\ \A w \in Week : counter[w].cases \in Nat
        BY <2>6 DEF Offer, Move, Scrub, IInv, TypeOK, CounterRow
      <3> QED BY <3>1, <3>2 DEF WithinFigure
    <2> QED BY <1>6, <2>1, <2>2, <2>3, <2>4, <2>5, <2>6 DEF Work
  <1>7. CASE UNCHANGED vars
    <2>1. UNCHANGED <<record, receipt, counter, limit, deleting, week, run, offers>>
      BY <1>7 DEF vars
    <2>2. IInv'
      BY <2>1 DEF IInv, TypeOK, OfferInv, CasesAccount, RunInv
    <2> QED BY <2>1, <2>2, StillIs
  <1> QED BY <1>1, <1>2, <1>4, <1>5, <1>6, <1>7 DEF Next

\* The inductive invariant: whatever the runs read, and however they overlap, fail
\* or die.
THEOREM Invariant == Spec => []IInv
  <1>1. Init => IInv
    BY InitIInv
  <1>2. IInv /\ [Next]_vars => IInv'
    BY NextStep
  <1> QED BY <1>1, <1>2, PTL DEF Spec
-----------------------------------------------------------------------------
(* The properties.                                                         *)

\* Every row, and everything a run read, keeps to its type.
THEOREM TypeCorrect == Spec => []TypeOK
  <1>1. IInv => TypeOK
    BY DEF IInv
  <1> QED BY <1>1, Invariant, PTL

\* A request is offered to no teacher twice, whoever notices that an offer lapsed.
THEOREM NobodyOfferedTwice == Spec => []OfferedOnce
  <1>1. IInv => OfferedOnce
    BY DEF IInv, OfferInv, OfferedOnce
  <1> QED BY <1>1, Invariant, PTL

\* A request is taken exactly while some teacher holds it, the one it was offered to;
\* what ended untaken is offered to nobody.
THEOREM HolderMatchesStatus == Spec => []HolderAndStatusAgree
  <1>1. IInv => HolderAndStatusAgree
    BY DEF IInv, RecordInv, HolderAndStatusAgree
  <1> QED BY <1>1, Invariant, PTL

\* A case is spent by exactly the requests asked, and given back for exactly those
\* that ended without a teacher.
THEOREM CaseMatchesRequest == Spec => []CaseFollowsRequest
  <1>1. IInv => CaseFollowsRequest
    BY DEF IInv, CaseInv, CaseFollowsRequest
  <1> QED BY <1>1, Invariant, PTL

\* The counter of a week is the number of its cases that were not given back, for any
\* number of calls that race for it.
THEOREM WeekAccounts == Spec => []CasesAccount
  <1>1. IInv => CasesAccount
    BY DEF IInv
  <1> QED BY <1>1, Invariant, PTL

\* No case is spent against a figure that was replaced after it was read.
THEOREM AdmissionWithinFigure == Spec => AdmittedWithinFigure
  <1>1. IInv /\ [Next]_vars
          => [\A w \in Week : counter'[w].cases > counter[w].cases
                                => counter'[w].cases <= limit.cases]_vars
    BY NextStep DEF WithinFigure
  <1> QED BY <1>1, Invariant, PTL DEF Spec, AdmittedWithinFigure

\* A request keeps its teacher until the teacher's account goes, and is taken only by
\* the teacher it was offered to.
THEOREM HolderKept == Spec => HolderStays
  <1>1. IInv /\ [Next]_vars
          => [\A c \in Conversation :
                LET old == record[c].holder
                    new == record'[c].holder
                IN old # new => /\ old # NoTeacher => new = NoTeacher /\ old \in deleting
                                /\ new # NoTeacher => record[c].offered = new]_vars
    BY NextStep DEF Proper, RecordStep
  <1> QED BY <1>1, Invariant, PTL DEF Spec, HolderStays

\* A request that ended, or that a teacher finished, is not reopened and does not end
\* another way.
THEOREM EndKept == Spec => EndsStay
  <1>1. IInv /\ [Next]_vars
          => [\A c \in Conversation : record[c].status \in Ended \cup {"resolved"}
                                        => record'[c].status = record[c].status]_vars
    BY NextStep DEF Proper, RecordStep
  <1> QED BY <1>1, Invariant, PTL DEF Spec, EndsStay

\* Once a teacher's account is being deleted no request names the teacher anew.
THEOREM ForgottenStays == Spec => NoNewReference
  <1>1. IInv /\ [Next]_vars
          => [\A c \in Conversation, t \in Teacher :
                t \in deleting /\ ~Names(record[c], t) => ~Names(record'[c], t)]_vars
    BY NextStep DEF Proper, RecordStep
  <1> QED BY <1>1, Invariant, PTL DEF Spec, NoNewReference
-----------------------------------------------------------------------------
(* HelpRequest implements HelpPromise: a write of one record, its case and *)
(* its offers is one turn of that request, and everything else is none.    *)

\* The stage of a record is the word for its status.
LEMMA StageIs ==
    ASSUME NEW r \in Record
    PROVE  /\ r.status = "none" => Stage(r) = "none"
           /\ r.status = "pending" => Stage(r) = "waiting"
           /\ r.status = "in_progress" => Stage(r) = "taken"
           /\ r.status = "resolved" => Stage(r) = "resolved"
           /\ r.status \in Ended => Stage(r) = "ended"
           /\ r.status \in {"none", "pending", "in_progress", "resolved"} \cup Ended
  <1>1. r.status \in {"none", "pending", "in_progress", "resolved"} \cup Ended
    BY Words DEF Record, Ended
  <1> QED BY <1>1 DEF Stage, Ended

\* Records with the same status are at the same stage.
LEMMA SameStage ==
    ASSUME NEW r \in Record, NEW s \in Record, s.status = r.status
    PROVE  Stage(s) = Stage(r)
  BY StageIs

\* The teachers that a history of offers names.
Tried(times) == {t \in Teacher : times[t] > 0}

\* What the promise sees of a request.
LEMMA SeenIs ==
    ASSUME NEW r, NEW case, NEW times
    PROVE  Seen(r, case, times)
             = [stage |-> Stage(r), holder |-> r.holder, offered |-> r.offered,
                tried |-> Tried(times), case |-> case.state]
  BY DEF Seen, Tried

\* The request of one conversation takes a turn, or seems to do nothing.
LEMMA OneTurn ==
    ASSUME IInv, NEW c \in Conversation, NEW r, NEW case, NEW times,
           record' = [record EXCEPT ![c] = r], receipt' = [receipt EXCEPT ![c] = case],
           offers' = [offers EXCEPT ![c] = times], deleting' = deleting,
           \/ Promise!Turns(Seen(record[c], receipt[c], offers[c]), Seen(r, case, times))
           \/ Seen(r, case, times) = Seen(record[c], receipt[c], offers[c])
    PROVE  [Promise!Next]_(Promise!vars)
  <1> DEFINE old == [d \in Conversation |-> Seen(record[d], receipt[d], offers[d])]
             new == [d \in Conversation |-> Seen(record'[d], receipt'[d], offers'[d])]
  <1>1. /\ DOMAIN record = Conversation /\ DOMAIN receipt = Conversation
        /\ DOMAIN offers = Conversation
    BY DEF IInv, TypeOK
  <1>2. record'[c] = r /\ receipt'[c] = case /\ offers'[c] = times
    BY <1>1
  <1>3. \A d \in Conversation \ {c} :
            record'[d] = record[d] /\ receipt'[d] = receipt[d] /\ offers'[d] = offers[d]
    BY <1>1
  <1>4. new[c] = Seen(r, case, times) /\ old[c] = Seen(record[c], receipt[c], offers[c])
    BY <1>2
  <1>5. \A d \in Conversation \ {c} : new[d] = old[d]
    BY <1>3
  <1>6. new = [old EXCEPT ![c] = new[c]]
    <2>1. old = [d \in Conversation |-> old[d]] /\ new = [d \in Conversation |-> new[d]]
      OBVIOUS
    <2> HIDE DEF old, new
    <2> QED BY <1>5, <2>1
  <1>7. CASE Seen(r, case, times) = Seen(record[c], receipt[c], offers[c])
    <2>1. new = old
      BY <1>4, <1>5, <1>7
    <2> QED BY <2>1 DEF Promise!vars
  <1>8. CASE Promise!Turns(Seen(record[c], receipt[c], offers[c]), Seen(r, case, times))
    <2>1. Promise!Turns(old[c], new[c])
      BY <1>4, <1>8
    <2>2. Promise!Only(c)
      BY <1>6 DEF Promise!Only
    <2> QED BY <2>1, <2>2 DEF Promise!Next
  <1> QED BY <1>7, <1>8

\* ask: the request is there and its case is spent.
LEMMA AskSeen ==
    ASSUME IInv, NEW p \in Run, Admit(p)
    PROVE  [Promise!Next]_(Promise!vars)
  <1> DEFINE c == run[p]
             conv == c.conv
             case == [state |-> "admitted", week |-> c.week]
             new == Asked(c.age)
             times == offers[conv]
  <1>1. /\ c \in RunState /\ RunInv(c) /\ c.pc = "admit" /\ conv \in Conversation
        /\ c.age \in 0..RunTime
    BY DEF IInv, TypeOK, Admit, RunInv, RunState
  <1>2. record[conv].status = "none" /\ receipt[conv].state = "none"
    BY DEF Admit, AdmitCondition
  <1>3. /\ record' = [record EXCEPT ![conv] = new] /\ receipt' = [receipt EXCEPT ![conv] = case]
        /\ deleting' = deleting /\ offers' = [offers EXCEPT ![conv] = times]
    BY DEF Admit, IInv, TypeOK
  <1>4. /\ new \in Record /\ new.status = "pending" /\ new.holder = NoTeacher
        /\ new.offered = NoTeacher
    BY <1>1, AskedIs
  <1>5. record[conv] \in Record /\ record[conv] = NoRecord
    BY <1>1, <1>2 DEF IInv, TypeOK, RecordInv
  <1>6. record[conv].holder = NoTeacher /\ record[conv].offered = NoTeacher
    BY <1>5 DEF NoRecord
  <1>7. Stage(record[conv]) = "none" /\ Stage(new) = "waiting" /\ case.state = "admitted"
    BY <1>2, <1>4, <1>5, StageIs
  <1> HIDE DEF c, conv, case, new, times
  <1>8. Promise!Ask(Seen(record[conv], receipt[conv], times), Seen(new, case, times))
    <2>1. /\ Seen(record[conv], receipt[conv], times)
               = [stage |-> "none", holder |-> NoTeacher, offered |-> NoTeacher,
                  tried |-> Tried(times), case |-> receipt[conv].state]
          /\ Seen(new, case, times)
               = [stage |-> "waiting", holder |-> NoTeacher, offered |-> NoTeacher,
                  tried |-> Tried(times), case |-> "admitted"]
      BY <1>4, <1>6, <1>7, SeenIs
    <2> QED BY <2>1 DEF Promise!Ask, Promise!Ticket
  <1> QED BY <1>1, <1>3, <1>8, OneTurn DEF Promise!Turns, times

\* _end: the request is over and its case goes back.
LEMMA EndSeen ==
    ASSUME IInv, NEW p \in Run, Refund(p)
    PROVE  [Promise!Next]_(Promise!vars)
  <1> DEFINE c == run[p]
             conv == c.conv
             row == record[conv]
             case == [state |-> "refunded", week |-> receipt[conv].week]
             new == EndedAs(row, Outcome(c))
             times == offers[conv]
  <1>1. /\ c \in RunState /\ RunInv(c) /\ c.pc = "refund" /\ conv \in Conversation
        /\ row \in Record /\ RecordInv(row) /\ Untaken(row)
    BY DEF IInv, TypeOK, Refund, RefundCondition, RunInv
  <1>2. receipt' = [receipt EXCEPT ![conv] = [receipt[conv] EXCEPT !.state = "refunded"]]
    BY DEF Refund
  <1>3. [receipt[conv] EXCEPT !.state = "refunded"] = case
    BY <1>1 DEF IInv, TypeOK
  <1>4. receipt' = [receipt EXCEPT ![conv] = case]
    BY <1>2, <1>3
  <1>5. /\ record' = [record EXCEPT ![conv] = new] /\ deleting' = deleting
        /\ offers' = [offers EXCEPT ![conv] = times]
    BY DEF Refund, IInv, TypeOK
  <1>6. Outcome(c) \in Ended /\ row.status = "pending" /\ row.holder = NoTeacher
    BY <1>1 DEF Outcome, Ended, Untaken
  <1>7. /\ new \in Record /\ new.status \in Ended /\ new.holder = NoTeacher
        /\ new.offered = NoTeacher
    BY <1>1, <1>6, EndedAsIs
  <1>8. Stage(row) = "waiting" /\ Stage(new) = "ended" /\ case.state = "refunded"
    BY <1>1, <1>6, <1>7, StageIs
  <1> HIDE DEF c, conv, row, case, new, times
  <1>9. Promise!End(Seen(row, receipt[conv], times), Seen(new, case, times))
    <2>1. /\ Seen(row, receipt[conv], times)
               = [stage |-> "waiting", holder |-> NoTeacher, offered |-> row.offered,
                  tried |-> Tried(times), case |-> receipt[conv].state]
          /\ Seen(new, case, times)
               = [stage |-> "ended", holder |-> NoTeacher, offered |-> NoTeacher,
                  tried |-> Tried(times), case |-> "refunded"]
      BY <1>6, <1>7, <1>8, SeenIs
    <2> QED BY <2>1 DEF Promise!End, Promise!Ticket
  <1> QED BY <1>1, <1>4, <1>5, <1>9, OneTurn DEF Promise!Turns, times, row

\* A write that a run decided on the current record, its case left alone.
LEMMA RecordTurn ==
    ASSUME IInv, NEW c \in Conversation, NEW r \in Record, NEW times,
           record' = [record EXCEPT ![c] = r], offers' = [offers EXCEPT ![c] = times],
           UNCHANGED <<receipt, deleting>>,
           \/ Promise!Turns(Seen(record[c], receipt[c], offers[c]),
                            Seen(r, receipt[c], times))
           \/ /\ Stage(r) = Stage(record[c]) /\ r.holder = record[c].holder
              /\ r.offered = record[c].offered /\ times = offers[c]
    PROVE  [Promise!Next]_(Promise!vars)
  <1>1. receipt' = [receipt EXCEPT ![c] = receipt[c]]
    BY DEF IInv, TypeOK
  <1>2. \/ Promise!Turns(Seen(record[c], receipt[c], offers[c]), Seen(r, receipt[c], times))
        \/ Seen(r, receipt[c], times) = Seen(record[c], receipt[c], offers[c])
    BY SeenIs
  <1> QED BY <1>1, <1>2, OneTurn

\* dispatch: it is shown to a teacher it was not shown to, or to nobody.
LEMMA OfferSeen ==
    ASSUME IInv, NEW p \in Run, Offer(p)
    PROVE  [Promise!Next]_(Promise!vars)
  <1> DEFINE c == run[p]
             conv == c.conv
             row == c.row
             times == offers[conv]
             t == c.teacher
             case == receipt[conv]
  <1>1. /\ c \in RunState /\ RunInv(c) /\ c.pc = "offer"
        /\ UNCHANGED <<receipt, deleting>>
    BY DEF IInv, TypeOK, Offer
  <1>2. /\ conv \in Conversation /\ row = record[conv] /\ row \in Record
        /\ RecordInv(row) /\ c.age \in 0..RunTime
        /\ times \in [Teacher -> 0..2] /\ OfferInv(row, times) /\ Untaken(row)
    BY <1>1, CurrentIs DEF Offer
  <1>3. ~LiveOffer(row, c.age) /\ t \notin Previous(row, c.age) /\ t \in Teacher \cup {NoTeacher}
    BY <1>1 DEF RunInv, Waiting, RunState
  <1>4. row.status = "pending" /\ row.holder = NoTeacher /\ Stage(row) = "waiting"
    BY <1>2, StageIs DEF Untaken
  <1>5. Seen(row, case, times)
          = [stage |-> "waiting", holder |-> NoTeacher, offered |-> row.offered,
             tried |-> Tried(times), case |-> case.state]
    BY <1>4, SeenIs
  <1>6. CASE t = NoTeacher
    <2> DEFINE new == NobodyFree(row, c.age)
    <2>1. /\ new \in Record /\ new.status = row.status
          /\ new.offered = NoTeacher /\ new.holder = NoTeacher
      BY <1>2, NobodyFreeIs
    <2>2. record' = [record EXCEPT ![conv] = new] /\ offers' = [offers EXCEPT ![conv] = times]
      BY <1>6 DEF Offer, IInv, TypeOK
    <2> HIDE DEF new
    <2>3. Stage(new) = "waiting"
      BY <1>2, <1>4, <2>1, SameStage
    <2>4. Seen(new, case, times)
            = [stage |-> "waiting", holder |-> NoTeacher, offered |-> NoTeacher,
               tried |-> Tried(times), case |-> case.state]
      BY <2>1, <2>3, SeenIs
    <2> HIDE DEF c, conv, row, case, times
    <2>5. Promise!Withhold(Seen(row, case, times), Seen(new, case, times))
      BY <1>5, <2>4 DEF Promise!Withhold, Promise!Ticket
    <2> QED BY <1>1, <1>2, <2>1, <2>2, <2>5, RecordTurn DEF Promise!Turns, case, times
  <1>7. CASE t # NoTeacher
    <2> DEFINE new == Offered(row, t, c.age)
               more == [times EXCEPT ![t] = IF times[t] < 2 THEN times[t] + 1 ELSE times[t]]
    <2>1. t \in Teacher /\ t \notin deleting
      BY <1>3, <1>7 DEF Offer, AccountBound
    <2>2. /\ new \in Record /\ new.status = row.status
          /\ new.offered = t /\ new.holder = NoTeacher
      BY <1>2, <2>1, OfferedIs
    <2>3. /\ record' = [record EXCEPT ![conv] = new]
          /\ offers' = [offers EXCEPT ![conv] = more]
      BY <1>7 DEF Offer
    <2> HIDE DEF new
    \* A teacher who was offered it has let it lapse, or is leaving.
    <2>4. times[t] = 0
      <3> SUFFICES ASSUME times[t] = 1 PROVE FALSE
        BY <1>2, <2>1 DEF OfferInv
      <3>1. t \in row.previous \/ (t = row.offered /\ row.dispatch = "dispatched")
        BY <1>2, <1>4, <2>1, TimeFacts DEF OfferInv, Ended
      <3> QED BY <1>3, <2>1, <3>1, TimeFacts DEF LiveOffer, Previous
    <2>5. t \notin Tried(times) /\ Tried(more) = Tried(times) \cup {t}
      BY <1>2, <2>1, <2>4 DEF Tried
    <2>6. Stage(new) = "waiting"
      BY <1>2, <1>4, <2>2, SameStage
    <2>7. Seen(new, case, more)
            = [stage |-> "waiting", holder |-> NoTeacher, offered |-> t,
               tried |-> Tried(times) \cup {t}, case |-> case.state]
      BY <2>2, <2>5, <2>6, SeenIs
    <2> HIDE DEF c, conv, row, case, times, t, more
    <2>8. Promise!Show(Seen(row, case, times), Seen(new, case, more))
      <3>1. Seen(row, case, times).stage = "waiting" /\ Seen(row, case, times).case = case.state
            /\ Seen(row, case, times).tried = Tried(times)
        BY <1>5
      <3>2. t \in Teacher \ (Tried(times) \cup deleting)
        BY <2>1, <2>5
      <3> QED BY <2>7, <3>1, <3>2 DEF Promise!Show, Promise!Ticket
    <2> QED BY <1>1, <1>2, <2>2, <2>3, <2>8, RecordTurn DEF Promise!Turns, case, times
  <1> QED BY <1>6, <1>7

\* take_or_finish and reply: the teacher it is shown to takes it, or goes on with it.
LEMMA MoveSeen ==
    ASSUME IInv, NEW p \in Run, Move(p)
    PROVE  [Promise!Next]_(Promise!vars)
  <1> DEFINE c == run[p]
             conv == c.conv
             row == c.row
             times == offers[conv]
             t == c.teacher
             case == receipt[conv]
  <1>1. /\ c \in RunState /\ RunInv(c) /\ c.pc = "move"
        /\ UNCHANGED <<receipt, deleting>> /\ offers' = [offers EXCEPT ![conv] = times]
    BY DEF IInv, TypeOK, Move
  <1>2. /\ conv \in Conversation /\ row = record[conv] /\ row \in Record /\ RecordInv(row)
    BY <1>1, CurrentIs DEF Move
  <1>3. t \in Teacher /\ c.op \in TeacherOp
    BY <1>1 DEF RunInv, Acting
  <1>4. CASE c.op = "reply" /\ row.holder = t
    <2> DEFINE new == Replied(row)
    <2>1. row.status # "none"
      BY <1>2, <1>3, <1>4, TimeFacts DEF RecordInv
    <2>2. /\ new \in Record /\ new.status = row.status
          /\ new.offered = row.offered /\ new.holder = row.holder
      BY <1>2, <2>1, RepliedIs
    <2>3. record' = [record EXCEPT ![conv] = new]
      BY <1>4 DEF Move
    <2> HIDE DEF new
    <2>4. Stage(new) = Stage(row)
      BY <1>2, <2>2, SameStage
    <2> QED BY <1>1, <1>2, <2>2, <2>3, <2>4, RecordTurn
  <1>5. CASE ~(c.op = "reply" /\ row.holder = t)
    <2> DEFINE replies == c.op = "reply"
               target == MoveTo(c)
               new == Advanced(row, t, target, replies)
    <2>1. target \in {"in_progress", "resolved"} /\ replies \in BOOLEAN
      BY <1>3 DEF MoveTo, TeacherOp
    <2>2. PICK lag \in 0..c.age : MayAdvance(row, t, lag)
      BY <1>5 DEF Move
    <2>3. record' = [record EXCEPT ![conv] = new] /\ t \notin deleting
      BY <1>5 DEF Move, AccountBound
    <2> HIDE DEF target, replies
    <2>4. /\ new \in Record /\ new.status = target
          /\ new.offered = row.offered /\ row.offered = t /\ new.holder = t
          /\ row.holder \in {t, NoTeacher} /\ row.status \in Open
      BY <1>2, <1>3, <2>1, <2>2, AdvancedIs
    <2> HIDE DEF new
    <2> DEFINE stage == Stage(new)
    <2>5. /\ stage \in {"taken", "resolved"}
          /\ stage = "taken" <=> new.status = "in_progress"
      BY <2>1, <2>4, StageIs
    <2>6. \/ row.status = "pending" /\ Stage(row) = "waiting"
          \/ row.status = "in_progress" /\ Stage(row) = "taken" /\ row.holder = t
      BY <1>2, <2>4, StageIs DEF Open, RecordInv
    <2>7. /\ Seen(row, case, times)
               = [stage |-> Stage(row), holder |-> row.holder, offered |-> t,
                  tried |-> Tried(times), case |-> case.state]
          /\ Seen(new, case, times)
               = [stage |-> stage, holder |-> t, offered |-> t,
                  tried |-> Tried(times), case |-> case.state]
      BY <2>4, SeenIs
    <2> HIDE DEF stage
    <2>8. CASE Stage(row) = "taken" /\ stage = "taken"
      BY <1>1, <1>2, <2>3, <2>4, <2>6, <2>8, RecordTurn DEF stage
    <2>9. CASE Stage(row) = "waiting" \/ stage = "resolved"
      <3> HIDE DEF c, conv, row, case, times, t
      <3>1. Promise!Take(Seen(row, case, times), Seen(new, case, times))
        BY <1>3, <2>3, <2>5, <2>6, <2>7, <2>9 DEF Promise!Take, Promise!Ticket
      <3> QED BY <1>1, <1>2, <2>3, <2>4, <3>1, RecordTurn DEF Promise!Turns, case, times
    <2> QED BY <2>5, <2>6, <2>8, <2>9
  <1> QED BY <1>4, <1>5

\* scrub_teacher: a teacher who is leaving is taken off, or was only remembered.
LEMMA ScrubSeen ==
    ASSUME IInv, NEW p \in Run, Scrub(p)
    PROVE  [Promise!Next]_(Promise!vars)
  <1> DEFINE c == run[p]
             conv == c.conv
             row == c.row
             times == offers[conv]
             t == c.teacher
             case == receipt[conv]
             new == Scrubbed(row, t)
  <1>1. /\ c \in RunState /\ RunInv(c) /\ c.pc = "clean"
        /\ record' = [record EXCEPT ![conv] = new]
        /\ UNCHANGED <<receipt, deleting>> /\ offers' = [offers EXCEPT ![conv] = times]
    BY DEF IInv, TypeOK, Scrub
  <1>2. /\ conv \in Conversation /\ row = record[conv] /\ row \in Record /\ RecordInv(row)
    BY <1>1, CurrentIs DEF Scrub
  <1>3. t \in Teacher /\ t \in deleting /\ row.status # "none"
    BY <1>1, <1>2 DEF RunInv, Acting
  <1>4. /\ new \in Record /\ RecordInv(new)
        /\ \/ new.status = row.status
           \/ row.status \in Open /\ new.status = "pending"
        /\ \/ /\ new.holder = row.holder /\ new.offered = row.offered
              /\ t \notin {row.holder, row.offered}
           \/ /\ new.holder = NoTeacher /\ new.offered = NoTeacher /\ row.offered = t
    BY <1>2, <1>3, ScrubbedIs
  <1> HIDE DEF new
  <1>5. CASE new.holder = row.holder /\ new.offered = row.offered
             /\ t \notin {row.holder, row.offered}
    <2>1. new.status = row.status
      BY <1>2, <1>4, <1>5 DEF RecordInv, Open
    <2> QED BY <1>1, <1>2, <1>4, <1>5, <2>1, SameStage, RecordTurn
  <1>6. CASE new.holder = NoTeacher /\ new.offered = NoTeacher /\ row.offered = t
    <2>1. row.status \in {"pending", "in_progress", "resolved"} /\ new.status # "in_progress"
      <3>1. row.offered # NoTeacher
        BY <1>3, <1>6, TimeFacts
      <3> QED BY <1>2, <1>3, <1>4, <1>6, <3>1, StageIs DEF RecordInv
    <2>2. /\ Stage(new) \in {"waiting", "resolved"}
          /\ Stage(new) = "resolved" <=> Stage(row) = "resolved"
      <3>1. \/ new.status = "pending" /\ row.status \in {"pending", "in_progress"}
            \/ new.status = "resolved" /\ row.status = "resolved"
        BY <1>4, <2>1 DEF Open
      <3> HIDE DEF row
      <3> QED BY <1>2, <1>4, <3>1, StageIs
    <2>3. /\ Seen(row, case, times)
               = [stage |-> Stage(row), holder |-> row.holder, offered |-> t,
                  tried |-> Tried(times), case |-> case.state]
          /\ Seen(new, case, times)
               = [stage |-> Stage(new), holder |-> NoTeacher, offered |-> NoTeacher,
                  tried |-> Tried(times), case |-> case.state]
      BY <1>6, SeenIs
    <2> HIDE DEF c, conv, row, case, times, t
    <2>4. Promise!Forget(Seen(row, case, times), Seen(new, case, times))
      BY <1>3, <2>2, <2>3 DEF Promise!Forget, Promise!Ticket
    <2> QED BY <1>1, <1>2, <1>4, <2>4, RecordTurn DEF Promise!Turns, case, times
  <1> QED BY <1>4, <1>5, <1>6

\* Growing older, the weeks and the figures are not part of the promise; a teacher who
\* starts to leave is.
LEMMA AroundSeen ==
    ASSUME IInv,
           \/ Tick \/ NextWeek \/ (\E n \in Figure : SetFigure(n))
           \/ (\E t \in Teacher : FenceTeacher(t))
    PROVE  [Promise!Next]_(Promise!vars)
  <1> DEFINE Tickets == [c \in Conversation |-> Seen(record[c], receipt[c], offers[c])]
  <1>1. Tickets' = Tickets
    <2>1. ASSUME NEW c \in Conversation
          PROVE  Seen(record'[c], receipt'[c], offers'[c])
                   = Seen(record[c], receipt[c], offers[c])
      <3>1. CASE Tick
        <4>1. record[c] \in Record /\ record'[c] = Aged(record[c])
              /\ UNCHANGED <<receipt, offers>>
          BY <3>1 DEF Tick, IInv, TypeOK
        <4>2. record'[c] \in Record /\ record'[c].status = record[c].status
              /\ record'[c].holder = record[c].holder
              /\ record'[c].offered = record[c].offered
          BY <4>1, AgedIs
        <4>3. Stage(record'[c]) = Stage(record[c])
          BY <4>1, <4>2, SameStage
        <4> QED BY <4>1, <4>2, <4>3, SeenIs
      <3>2. CASE UNCHANGED <<record, receipt, offers>>
        BY <3>2
      <3> QED BY <3>1, <3>2 DEF NextWeek, SetFigure, FenceTeacher
    <2> QED BY <2>1
  <1> HIDE DEF Tickets
  <1>2. CASE \E t \in Teacher : FenceTeacher(t)
    <2>1. PICK t \in Teacher : deleting' = deleting \cup {t}
      BY <1>2 DEF FenceTeacher
    <2>2. Promise!Leave(t)
      BY <1>1, <2>1 DEF Promise!Leave, Tickets
    <2> QED BY <2>2 DEF Promise!Next
  <1>3. CASE UNCHANGED deleting
    BY <1>1, <1>3 DEF Promise!vars, Tickets
  <1> QED BY <1>2, <1>3 DEF Tick, NextWeek, SetFigure

\* Every step is one turn of one request, or seems to do nothing.
LEMMA StepSeen == ASSUME IInv, [Next]_vars PROVE [Promise!Next]_(Promise!vars)
  <1>1. CASE UNCHANGED Rows
    BY <1>1 DEF Rows, Promise!vars
  <1>2. CASE \/ Tick \/ NextWeek \/ (\E n \in Figure : SetFigure(n))
             \/ (\E t \in Teacher : FenceTeacher(t))
    BY <1>2, AroundSeen
  <1>3. ASSUME NEW p \in Run, Start(p) \/ Fail(p) PROVE [Promise!Next]_(Promise!vars)
    BY <1>1, <1>3, StartIs, Failures DEF Reads
  <1>4. ASSUME NEW p \in Run, Work(p) PROVE [Promise!Next]_(Promise!vars)
    <2>1. CASE \/ ReadScope(p) \/ ReadReceipt(p) \/ ReadCount(p) \/ Plan(p)
               \/ Scan(p) \/ GetToEnd(p) \/ GetCase(p) \/ GetCounter(p)
      BY <1>1, <2>1, AskReads, PlanIs, EndReads DEF Reads
    <2>2. CASE Admit(p) \/ Refund(p) \/ Offer(p) \/ Move(p) \/ Scrub(p)
      BY <2>2, AskSeen, EndSeen, OfferSeen, MoveSeen, ScrubSeen
    <2> QED BY <1>4, <2>1, <2>2 DEF Work
  <1>5. CASE UNCHANGED vars
    BY <1>1, <1>5 DEF vars, Rows
  <1> QED BY <1>2, <1>3, <1>4, <1>5 DEF Next

\* Whichever runs overlap, fail or die, every request waits, is taken, is resolved or
\* ends, its case with it, and is shown to no teacher twice (dispatch, _advance, _end).
THEOREM PromiseKept == Spec => KeepsPromise
  <1>1. Init => Promise!Init
    <2> SUFFICES ASSUME Init PROVE Promise!Init
      OBVIOUS
    <2>1. ASSUME NEW c \in Conversation
          PROVE  Seen(record[c], receipt[c], offers[c]) = Promise!NoTicket
      <3>1. /\ record[c] = NoRecord /\ receipt[c].state = "none"
            /\ \A t \in Teacher : offers[c][t] = 0
        BY DEF Init, NoReceipt
      <3>2. NoRecord.status = "none" /\ NoRecord.holder = NoTeacher
            /\ NoRecord.offered = NoTeacher
        BY DEF NoRecord
      <3>3. Stage(NoRecord) = "none" /\ Tried(offers[c]) = {}
        BY <3>1, <3>2, StageIs, NoRecordType DEF Tried
      <3> QED BY <3>1, <3>2, <3>3, SeenIs DEF Promise!NoTicket, Promise!Ticket
    <2>2. deleting = {}
      BY DEF Init
    <2> QED BY <2>1, <2>2 DEF Promise!Init
  <1>2. IInv /\ [Next]_vars => [Promise!Next]_(Promise!vars)
    BY StepSeen
  <1> QED BY <1>1, <1>2, Invariant, PTL DEF Spec, KeepsPromise, Promise!Spec
=============================================================================
