-------------------------- MODULE UploadLifecycle --------------------------
(***************************************************************************)
(* One upload of services/uploads: its row, what S3 holds for it, and the  *)
(* attachment it may become.                                               *)
(*                                                                         *)
(* The owner's calls, the hourly sweep and the purge of a closing account  *)
(* overlap.  Each reads the row, and then alternates calls to S3 with      *)
(* writes that hold only while the row has not moved since (`version`).    *)
(* A step is one read, one write or one call to S3.                        *)
(*                                                                         *)
(* A version is kept as what a conditional write asks of it: `current`, a  *)
(* run's row is the stored one.  An operation's fence is drawn anew by the *)
(* write that claims the operation, so it asks nothing more.               *)
(***************************************************************************)
EXTENDS Naturals

CONSTANTS
    Run,           \* calls and jobs that may overlap
    UsableTime,    \* UPLOAD_INTENT_TTL_SECONDS
    LeaseTime,     \* UPLOAD_OPERATION_LEASE_SECONDS
    RunTime,       \* the longest a run lasts
    MaxTakeovers,  \* takeovers of one operation
    Horizon,       \* bound: the clock stops here, every window being over
    MaxFaults      \* bound: crashes and answers lost

ASSUME TimeAssumption ==
    /\ {UsableTime, LeaseTime, Horizon} \subseteq Nat \ {0}
    /\ {RunTime, MaxTakeovers, MaxFaults} \subseteq Nat
    /\ RunTime < UsableTime /\ UsableTime + RunTime <= Horizon

VARIABLES
    row,         \* UPLOAD#{id} / META
    parts,       \* the upload has PART rows, and S3 their bytes
    object,      \* what S3 holds: the multipart upload and two object versions
    attachment,  \* the attachment the upload became
    closing,     \* the owner's account is being deleted
    clock,
    run,         \* what each run is doing
    faults

vars == <<row, parts, object, attachment, closing, clock, run, faults>>
-----------------------------------------------------------------------------
Unspent == {"issuing", "pending_upload", "assembling", "validating", "promoting", "validated"}
Ended == {"consumed", "cleanup_blocked", "cleanup_complete"}
Status == Unspent \cup Ended \cup {"none", "invalid", "cleanup_pending", "gone"}
Kind == {"none", "staging_issuance", "staging_assembly", "immutable_promotion"}
Mark == {"multipart", "staging", "immutable", "parts"}
Held == {"none", "there", "gone"}

\* key, multipart, staging, target and immutable: the row names the staging key, the
\* multipart upload, the staging version, the immutable key and its version.
Row == [status : Status, kind : Kind, lease : Nat, takeovers : 0..MaxTakeovers, until : Nat,
        key : BOOLEAN, multipart : BOOLEAN, staging : BOOLEAN,
        target : BOOLEAN, immutable : BOOLEAN,
        debt : BOOLEAN,        \* staging_cleanup_status is pending
        attached : BOOLEAN,    \* durable_attachment_id
        retires : BOOLEAN,     \* expires_at, the table's TTL, is set
        marks : SUBSET Mark]

NoRow == [status |-> "none", kind |-> "none", lease |-> 0, takeovers |-> 0, until |-> 0,
          key |-> FALSE, multipart |-> FALSE, staging |-> FALSE, target |-> FALSE,
          immutable |-> FALSE, debt |-> FALSE, attached |-> FALSE, retires |-> FALSE,
          marks |-> {}]
Gone == [NoRow EXCEPT !.status = "gone"]

IdleRun == [pc |-> "idle", op |-> "none", now |-> 0, row |-> NoRow, current |-> FALSE]
Step == {"idle", "fence", "create", "record", "abort", "fail", "pin", "claim", "assemble",
         "takeover", "match", "store", "validate", "refuse", "drop", "promote", "put", "finish",
         "owe", "clear", "bind", "close", "clean", "scan", "multipart", "noMultipart", "adopt",
         "staging", "noStaging", "recover", "immutable", "noImmutable", "scrub", "noParts",
         "complete", "tombstone"}

TypeOK ==
    /\ row \in Row
    /\ parts \in BOOLEAN /\ closing \in BOOLEAN
    /\ object \in [multipart : Held, staging : Held, immutable : Held]
    /\ attachment \in {"none", "live", "pending", "gone"}
    /\ clock \in 0..Horizon
    /\ run \in [Run -> [pc : Step, op : {"none", "start", "sign", "complete", "send", "sweep", "purge"},
                        now : 0..Horizon, row : Row, current : BOOLEAN]]
    /\ faults \in 0..MaxFaults

Init ==
    /\ row = NoRow /\ parts = FALSE /\ attachment = "none" /\ closing = FALSE
    /\ object = [multipart |-> "none", staging |-> "none", immutable |-> "none"]
    /\ clock = 0 /\ faults = 0
    /\ run = [p \in Run |-> IdleRun]
-----------------------------------------------------------------------------
(* The world around the runs.                                              *)

Tick ==
    /\ row.status # "none" /\ clock < Horizon
    /\ \A p \in Run : run[p].pc # "idle" => clock - run[p].now < RunTime
    /\ clock' = clock + 1
    /\ UNCHANGED <<row, parts, object, attachment, closing, run, faults>>

\* The table removes a row some days after it ended.
Retire ==
    /\ row.retires /\ \A p \in Run : run[p].pc = "idle"
    /\ row' = Gone
    /\ UNCHANGED <<parts, object, attachment, closing, clock, run, faults>>

CloseAccount ==
    /\ ~closing /\ row.status # "none"
    /\ closing' = TRUE
    /\ UNCHANGED <<row, parts, object, attachment, clock, run, faults>>

\* The attachment is deleted: marked, its bytes deleted and proven absent, its row removed.
DropAttachment ==
    /\ \/ attachment = "live" /\ attachment' = "pending" /\ UNCHANGED object
       \/ /\ attachment = "pending" /\ object.immutable = "there"
          /\ object' = [object EXCEPT !.immutable = "gone"] /\ UNCHANGED attachment
       \/ /\ attachment = "pending" /\ object.immutable = "gone"
          /\ attachment' = "gone" /\ UNCHANGED object
    /\ UNCHANGED <<row, parts, closing, clock, run, faults>>

\* An exception no handler catches, or the end of the invocation.
Crash(p) ==
    /\ run[p].pc # "idle" /\ faults < MaxFaults
    /\ run' = [run EXCEPT ![p] = IdleRun]
    /\ faults' = faults + 1
    /\ UNCHANGED <<row, parts, object, attachment, closing, clock>>
-----------------------------------------------------------------------------
(* How a run goes on.                                                      *)

At(r, pc, seen) == IF pc = "idle" THEN IdleRun ELSE [r EXCEPT !.pc = pc, !.row = seen]
Goto(p, pc) == run' = [run EXCEPT ![p] = At(run[p], pc, run[p].row)]
Begin(p, op, pc) ==
    /\ run[p].pc = "idle"
    /\ run' = [run EXCEPT ![p] = [pc |-> pc, op |-> op, now |-> clock, row |-> row, current |-> TRUE]]
    /\ UNCHANGED <<row, parts, object, attachment, closing, clock, faults>>

Fault == faults < MaxFaults /\ faults' = faults + 1

\* p's write takes effect: every other run's row is now an old one.
Written(p, new, pc) ==
    /\ row' = new
    /\ run' = [q \in Run |-> IF q = p THEN At(run[p], pc, new)
                             ELSE [run[q] EXCEPT !.current = FALSE]]

\* A write on the version p has: applied, refused, applied with its answer lost, or never made.
Write(p, can, new, pc, failed) ==
    LET holds == run[p].current /\ can IN
    /\ \/ holds /\ Written(p, new, pc) /\ UNCHANGED faults
       \/ ~holds /\ Goto(p, failed) /\ UNCHANGED <<row, faults>>
       \/ Fault /\ \/ holds /\ Written(p, new, failed)
                   \/ Goto(p, failed) /\ UNCHANGED row
    /\ UNCHANGED <<object, closing, clock>>

\* A call to S3 that leaves it with `new`; with a fault the answer is lost, applied or not.
Provider(p, new, pc, failed) ==
    /\ \/ object' = new /\ Goto(p, pc) /\ UNCHANGED faults
       \/ Fault /\ object' \in {new, object} /\ Goto(p, failed)
    /\ UNCHANGED <<row, parts, attachment, closing, clock>>

\* A step without effect outside the run.
Local(p, pc) == Goto(p, pc) /\ UNCHANGED <<row, parts, object, attachment, closing, clock, faults>>

Claimed(r, kind, status, now) ==
    [r EXCEPT !.status = status, !.kind = kind, !.lease = now + LeaseTime, !.takeovers = 0]
Released(r, status) ==
    [r EXCEPT !.status = status, !.kind = "none", !.lease = 0, !.takeovers = 0]
Deleted(held) == IF held = "there" THEN "gone" ELSE held
-----------------------------------------------------------------------------
(* start: the upload is issued.                                            *)

Start(p) ==
    /\ run[p].pc = "idle" /\ row.status = "none" /\ ~closing
    /\ LET new == [Claimed(NoRow, "staging_issuance", "issuing", clock)
                     EXCEPT !.key = TRUE, !.until = clock + UsableTime] IN
       /\ row' = new
       /\ run' = [run EXCEPT ![p] = [pc |-> "fence", op |-> "start", now |-> clock,
                                     row |-> new, current |-> TRUE]]
    /\ UNCHANGED <<parts, object, attachment, closing, clock, faults>>

\* The account's fence is read again; it may close before the call to S3.
ReadFence(p) ==
    /\ run[p].pc = "fence"
    /\ Local(p, IF closing THEN "fail" ELSE "create")

\* Without an answer there is no id to abort.
Create(p) ==
    /\ run[p].pc = "create"
    /\ Provider(p, [object EXCEPT !.multipart = "there"], "record", "fail")

Record(p) ==
    /\ run[p].pc = "record"
    /\ Write(p, row.status = "issuing",
             [Released(row, "pending_upload") EXCEPT !.multipart = TRUE], "idle", "abort")
    /\ UNCHANGED <<parts, attachment>>

Abort(p) ==
    /\ run[p].pc = "abort"
    /\ Provider(p, [object EXCEPT !.multipart = Deleted(@)], "fail", "fail")

IssuanceFailed(p) ==
    /\ run[p].pc = "fail"
    /\ Write(p, row.status = "issuing", [row EXCEPT !.status = "cleanup_pending"], "idle", "idle")
    /\ UNCHANGED <<parts, attachment>>

\* sign_part, and the browser's upload on the URL: a part row is written by what was read.
CallSign(p) ==
    /\ row.status = "pending_upload" /\ row.until > clock /\ ~parts
    /\ Begin(p, "sign", "pin")

Pin(p) ==
    /\ run[p].pc = "pin"
    /\ parts' = (parts \/ row.status # "gone") /\ Goto(p, "idle")
    /\ UNCHANGED <<row, object, attachment, closing, clock, faults>>
-----------------------------------------------------------------------------
(* complete: assembly, validation and promotion, from wherever the row is. *)

CompleteFrom(r) ==
    CASE r.status = "pending_upload" /\ parts -> "claim"
      [] r.status \in {"assembling", "promoting"} /\ r.lease <= clock -> "takeover"
      [] r.status = "validating" -> "validate"
      [] r.status = "validated" /\ r.debt -> "owe"
      [] OTHER -> "idle"

CallComplete(p) ==
    /\ row.until > clock /\ CompleteFrom(row) # "idle"
    /\ Begin(p, "complete", CompleteFrom(row))

ClaimAssembly(p) ==
    /\ run[p].pc = "claim"
    /\ Write(p, row.status = "pending_upload" /\ row.until > run[p].now,
             Claimed(row, "staging_assembly", "assembling", run[p].now), "assemble", "idle")
    /\ UNCHANGED <<parts, attachment>>

\* S3 completes a multipart upload once.
Assemble(p) ==
    /\ run[p].pc = "assemble"
    /\ IF object.multipart = "there"
       THEN Provider(p, [object EXCEPT !.multipart = "gone", !.staging = "there"], "store", "idle")
       ELSE Local(p, "idle")

TakeoverUnbounded(p) ==
    /\ run[p].pc = "takeover"
    /\ Write(p, row.lease <= run[p].now,
             [row EXCEPT !.lease = run[p].now + LeaseTime, !.takeovers = @ + 1], "match", "idle")
    /\ UNCHANGED <<parts, attachment>>

Takeover(p) ==
    /\ run[p].pc = "takeover"
    /\ Write(p, row.lease <= run[p].now /\ row.takeovers < MaxTakeovers,
             [row EXCEPT !.lease = run[p].now + LeaseTime, !.takeovers = @ + 1], "match", "idle")
    /\ UNCHANGED <<parts, attachment>>

MatchUnproven(p) ==
    /\ run[p].pc = "match"
    /\ Local(p, IF run[p].row.kind = "staging_assembly" THEN "store" ELSE "finish")

\* Who takes over goes on only with a version found on the operation's key and read back.
Match(p) ==
    /\ run[p].pc = "match"
    /\ LET kind == run[p].row.kind IN
       Local(p, IF kind = "staging_assembly" /\ object.staging = "there" THEN "store"
                ELSE IF kind = "immutable_promotion" /\ object.immutable = "there" THEN "finish"
                ELSE "idle")

StoreStaging(p) ==
    /\ run[p].pc = "store"
    /\ Write(p, row.status = "assembling",
             [Released(row, "validating") EXCEPT !.staging = TRUE], "validate", "idle")
    /\ UNCHANGED <<parts, attachment>>

\* The bytes are accepted or refused; when S3 or moderation gives no answer, neither.
Validate(p) ==
    /\ run[p].pc = "validate"
    /\ IF object.staging = "there" THEN \E pc \in {"promote", "refuse", "idle"} : Local(p, pc)
       ELSE Local(p, "idle")

\* mark_invalid; whether or not it held, the staging copy is deleted.
Refuse(p) ==
    /\ run[p].pc = "refuse"
    /\ \/ /\ run[p].current /\ row.status = "validating"
          /\ Written(p, [row EXCEPT !.status = "invalid"], "drop")
       \/ /\ ~(run[p].current /\ row.status = "validating")
          /\ Goto(p, "drop") /\ UNCHANGED row
    /\ UNCHANGED <<parts, object, attachment, closing, clock, faults>>

DropStaging(p) ==
    /\ run[p].pc = "drop"
    /\ Provider(p, [object EXCEPT !.staging = Deleted(@)], "idle", "idle")

Promote(p) ==
    /\ run[p].pc = "promote"
    /\ Write(p, row.status = "validating" /\ row.until > run[p].now,
             [Claimed(row, "immutable_promotion", "promoting", run[p].now) EXCEPT !.target = TRUE],
             "put", "idle")
    /\ UNCHANGED <<parts, attachment>>

Put(p) ==
    /\ run[p].pc = "put"
    /\ Provider(p, [object EXCEPT !.immutable = "there"], "finish", "idle")

\* The promotion is recorded; one that was taken over leaves the staging copy.
Finish(p) ==
    /\ run[p].pc = "finish"
    /\ Write(p, row.status = "promoting",
             [Released(row, "validated") EXCEPT !.immutable = TRUE, !.debt = TRUE],
             IF run[p].row.takeovers = 0 THEN "owe" ELSE "idle", "idle")
    /\ UNCHANGED <<parts, attachment>>

\* The promoted upload's staging copy: deleted, then forgotten once a listing shows it gone.
Owe(p) ==
    /\ run[p].pc = "owe"
    /\ Provider(p, [object EXCEPT !.staging = Deleted(@)], "clear", "idle")

Clear(p) ==
    /\ run[p].pc = "clear"
    /\ Write(p, row.status = "validated",
             [row EXCEPT !.key = FALSE, !.staging = FALSE, !.multipart = FALSE, !.debt = FALSE],
             "idle", "idle")
    /\ UNCHANGED <<parts, attachment>>
-----------------------------------------------------------------------------
(* A message or a reply spends the upload, in the transaction that writes  *)
(* it and the attachment.                                                  *)

CallSend(p) ==
    /\ row.status = "validated" /\ row.until > clock
    /\ Begin(p, "send", "bind")

Bind(p) ==
    /\ run[p].pc = "bind"
    /\ Write(p, row.status = "validated" /\ row.until > run[p].now /\ ~closing,
             [row EXCEPT !.status = "consumed", !.attached = TRUE, !.retires = TRUE],
             "idle", "idle")
    /\ attachment' = IF row' = row THEN attachment ELSE "live"
    /\ UNCHANGED parts
-----------------------------------------------------------------------------
(* cleanup: an upload refused or never spent goes, target after target.    *)

CleanupDueByLease(r, now) ==
    r.status \in {"invalid", "cleanup_pending"} \/ (r.status \in Unspent /\ r.lease <= now)

CleanupDueButPromoting(r, now) ==
    \/ r.status \in {"invalid", "cleanup_pending"}
    \/ r.status \in Unspent \ {"promoting"} /\ r.until <= now

CleanupDue(r, now) ==
    r.status \in {"invalid", "cleanup_pending"} \/ (r.status \in Unspent /\ r.until <= now)

StartSweep(p) == CleanupDue(row, clock) /\ Begin(p, "sweep", "clean")

StartPurgeUnasked(p) ==
    /\ closing /\ row.status \notin {"none", "gone"}
    /\ Begin(p, "purge", IF row.status = "cleanup_pending" THEN "clean" ELSE "close")

\* A pass of the purge leaves an upload whose attachment is still there.
StartPurge(p) ==
    /\ closing /\ row.status \notin {"none", "gone"}
    /\ row.attached => attachment \notin {"live", "pending"}
    /\ Begin(p, "purge", IF row.status = "cleanup_pending" THEN "clean" ELSE "close")

CloseUpload(p) ==
    /\ run[p].pc = "close"
    /\ Write(p, row.status # "cleanup_complete",
             [row EXCEPT !.status = "cleanup_pending", !.attached = FALSE], "clean", "idle")
    /\ UNCHANGED <<parts, attachment>>

ClaimCleanup(p) ==
    /\ run[p].pc = "clean"
    /\ Write(p, CleanupDue(row, run[p].now), [row EXCEPT !.status = "cleanup_pending"], "scan", "idle")
    /\ UNCHANGED <<parts, attachment>>

\* A write of a cleanup that goes on with its own version.
Clean(p, new, pc) ==
    /\ Write(p, row.status = "cleanup_pending", new, pc, "idle")
    /\ UNCHANGED <<parts, attachment>>

\* An attachment that refers to the bytes protects them, whatever claimed the cleanup.  (None
\* ever does here: whoever spends an upload moves its version.)
ScanReferences(p) ==
    /\ run[p].pc = "scan"
    /\ IF run[p].row.attached \/ attachment \in {"live", "pending"}
       THEN Clean(p, [row EXCEPT !.status = "cleanup_blocked", !.retires = TRUE], "idle")
       ELSE Local(p, IF "multipart" \in run[p].row.marks THEN "adopt" ELSE "multipart")

\* Aborts what the row names, or, of an issuance without an answer, all there is on its
\* key; a listing must then show it gone.
AbortMultipart(p) ==
    /\ run[p].pc = "multipart"
    /\ LET r == run[p].row IN
       IF r.key /\ ((r.multipart /\ ~r.staging) \/ r.kind = "staging_issuance")
       THEN Provider(p, [object EXCEPT !.multipart = Deleted(@)], "noMultipart", "idle")
       ELSE Local(p, "noMultipart")

MarkMultipart(p) ==
    /\ run[p].pc = "noMultipart"
    /\ Clean(p, [row EXCEPT !.marks = @ \cup {"multipart"}], "adopt")

AdoptNothing(p) ==
    /\ run[p].pc = "adopt"
    /\ Local(p, IF "staging" \in run[p].row.marks THEN "recover" ELSE "staging")

\* A completion whose answer was lost: the version found on the key is recorded first.
AdoptStaging(p) ==
    /\ run[p].pc = "adopt"
    /\ LET r == run[p].row
           next == IF "staging" \in r.marks THEN "recover" ELSE "staging" IN
       IF r.key /\ ~r.staging /\ r.kind = "staging_assembly" /\ object.staging = "there"
       THEN Clean(p, [row EXCEPT !.staging = TRUE], next)
       ELSE Local(p, next)

DeleteStaging(p) ==
    /\ run[p].pc = "staging"
    /\ IF run[p].row.key /\ run[p].row.staging
       THEN Provider(p, [object EXCEPT !.staging = Deleted(@)], "noStaging", "idle")
       ELSE Local(p, "noStaging")

MarkStaging(p) ==
    /\ run[p].pc = "noStaging"
    /\ Clean(p, [row EXCEPT !.marks = @ \cup {"staging"}], "recover")

AdoptImmutable(p) ==
    /\ run[p].pc = "recover"
    /\ LET r == run[p].row
           next == IF "immutable" \in r.marks THEN "scrub" ELSE "immutable" IN
       IF r.target /\ ~r.immutable /\ r.kind = "immutable_promotion" /\ object.immutable = "there"
       THEN Clean(p, [row EXCEPT !.immutable = TRUE], next)
       ELSE Local(p, next)

DeleteImmutable(p) ==
    /\ run[p].pc = "immutable"
    /\ IF run[p].row.target /\ run[p].row.immutable
       THEN Provider(p, [object EXCEPT !.immutable = Deleted(@)], "noImmutable", "idle")
       ELSE Local(p, "noImmutable")

MarkImmutable(p) ==
    /\ run[p].pc = "noImmutable"
    /\ Clean(p, [row EXCEPT !.marks = @ \cup {"immutable"}], "scrub")

\* A page of part rows goes only while the cleanup is current; a page deleted ends the pass.
ScrubParts(p) ==
    /\ run[p].pc = "scrub"
    /\ IF "parts" \in run[p].row.marks THEN Local(p, "complete")
       ELSE IF ~parts THEN Local(p, "noParts")
       ELSE /\ parts' = (parts /\ ~(run[p].current /\ row.status = "cleanup_pending"))
            /\ Goto(p, "idle")
            /\ UNCHANGED <<row, object, attachment, closing, clock, faults>>

MarkParts(p) ==
    /\ run[p].pc = "noParts"
    /\ Clean(p, [row EXCEPT !.marks = @ \cup {"parts"}], "complete")

CompleteForGood(p) ==
    /\ run[p].pc = "complete"
    /\ Write(p, row.status = "cleanup_pending" /\ row.marks = Mark,
             [NoRow EXCEPT !.status = "cleanup_complete", !.until = row.until, !.debt = row.debt,
                           !.attached = row.attached],
             IF run[p].op = "purge" THEN "tombstone" ELSE "idle", "idle")
    /\ UNCHANGED <<parts, attachment>>

\* The finished row forgets every coordinate, but not the staging debt.
Complete(p) ==
    /\ run[p].pc = "complete"
    /\ Write(p, row.status = "cleanup_pending" /\ row.marks = Mark,
             [NoRow EXCEPT !.status = "cleanup_complete", !.until = row.until, !.debt = row.debt,
                           !.attached = row.attached, !.retires = TRUE],
             IF run[p].op = "purge" THEN "tombstone" ELSE "idle", "idle")
    /\ UNCHANGED <<parts, attachment>>

DeleteTombstone(p) ==
    /\ run[p].pc = "tombstone"
    /\ Write(p, row.status = "cleanup_complete", Gone, "idle", "idle")
    /\ UNCHANGED <<parts, attachment>>
-----------------------------------------------------------------------------
OwnersStep(p) ==
    \/ ReadFence(p) \/ Create(p) \/ Record(p) \/ Abort(p) \/ IssuanceFailed(p) \/ Pin(p)
    \/ ClaimAssembly(p) \/ Assemble(p) \/ Takeover(p) \/ Match(p) \/ StoreStaging(p)
    \/ Validate(p) \/ Refuse(p) \/ DropStaging(p) \/ Promote(p) \/ Put(p) \/ Finish(p)
    \/ Owe(p) \/ Clear(p) \/ Bind(p)

CleanupStep(p) ==
    \/ CloseUpload(p) \/ ClaimCleanup(p) \/ ScanReferences(p)
    \/ AbortMultipart(p) \/ MarkMultipart(p) \/ AdoptStaging(p) \/ DeleteStaging(p)
    \/ MarkStaging(p) \/ AdoptImmutable(p) \/ DeleteImmutable(p) \/ MarkImmutable(p)
    \/ ScrubParts(p) \/ MarkParts(p) \/ Complete(p) \/ DeleteTombstone(p)

Called(p) == Start(p) \/ CallSign(p) \/ CallComplete(p) \/ CallSend(p)

Next ==
    \/ Tick \/ Retire \/ CloseAccount \/ DropAttachment
    \/ \E p \in Run : Crash(p) \/ Called(p) \/ StartSweep(p) \/ StartPurge(p)
                      \/ OwnersStep(p) \/ CleanupStep(p)

Spec == Init /\ [][Next]_vars

\* Time passes, the table removes what it was told to, the jobs are run by their schedules,
\* and what has begun goes on until it ends.  No user has to call.
FairSpec ==
    /\ Spec /\ WF_vars(Tick) /\ SF_vars(Retire)
    /\ \A p \in Run : /\ WF_vars(OwnersStep(p) \/ CleanupStep(p))
                      /\ SF_vars(StartSweep(p)) /\ SF_vars(StartPurge(p))
    /\ WF_vars(closing /\ DropAttachment)
-----------------------------------------------------------------------------
(* Properties.                                                             *)

\* An upload that may still be spent, and an attachment a message shows, have their bytes:
\* no sweep, purge or recovery deletes an immutable version that is still wanted.
WantedBytesKept ==
    row.status = "validated" \/ attachment = "live" => object.immutable = "there"

\* A row that says its cleanup is complete leaves nothing in staging: no multipart upload,
\* no staging version, although either may have been created without an answer.  (Of a
\* closing account, an issuance may still be in flight.)
StagingCleaned ==
    row.status = "cleanup_complete" /\ ~closing =>
        "there" \notin {object.multipart, object.staging}

Phase ==
    CASE row.status \in Unspent \ {"validated"} -> "in_progress"
      [] row.status = "validated" -> "ready"
      [] row.status = "consumed" -> "spent"
      [] row.status \in {"none", "gone"} -> row.status
      [] OTHER -> "failed"
Promise == INSTANCE UploadPhases WITH phase <- Phase, bytes <- object.immutable

\* Seen from outside, an upload is ready only with its bytes, is spent once on one attachment,
\* and loses its bytes only when it failed or with its attachment.
ImplementsPhases == Promise!Spec

\* An upload whose owner's call has read the window as open is not taken from under it by
\* the sweep before the window ends.
OpenUntilItsTime ==
    [][row.status \in Unspent \ {"issuing"} /\ clock < row.until /\ ~closing
         => row'.status # "cleanup_pending"]_vars

\* Whatever died in the middle of it, an upload that is not spent is in the end cleaned.
UnspentIsCleaned ==
    row.status \in Unspent \cup {"invalid", "cleanup_pending"} ~>
        row.status \in Ended \cup {"gone"}

\* Of an account that is being deleted, every upload's row goes in the end: by the purge, or,
\* when a pass was interrupted after the cleanup, by the table.
ClosedUploadGoes == closing ~> row.status = "gone"

\* The promoted bytes are never left where nothing leads to them: neither the upload's row
\* nor an attachment.  (Staging is emptied by the bucket's own lifecycle rule.)
NeverUnaddressable ==
    object.immutable = "there" => row.target \/ attachment \in {"live", "pending"}
=============================================================================
