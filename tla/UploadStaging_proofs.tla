------------------------ MODULE UploadStaging_proofs ------------------------
(***************************************************************************)
(* A cleanup that says it is complete left nothing in staging, for any     *)
(* number of calls and jobs, any lease, and any faults.                    *)
(*                                                                         *)
(* Whatever S3 may hold in staging, the row still tells the cleanup how to *)
(* find it (Due), although its creation may not have been answered.  Of an *)
(* account that is not closing this needs the clock: a window is longer    *)
(* than a run, so no sweep claims an upload while its issuance is going on. *)
(***************************************************************************)
EXTENDS UploadLifecycle_proofs

\* What the row w leads a cleanup to, and it has not marked as gone.
Aborts(w) == w.key /\ ((w.multipart /\ ~w.staging) \/ w.kind = "staging_issuance")
MultipartDue(w) == Aborts(w) /\ "multipart" \notin w.marks
StagingDue(w) == w.key /\ (w.staging \/ w.kind = "staging_assembly") /\ "staging" \notin w.marks

\* What a row w knows of the multipart upload m and the staging version s.
StagingRow(w, m, s) ==
    /\ s # "none" => m = "gone"
    /\ m = "there" /\ w.status \notin {"consumed", "gone"} => MultipartDue(w)
    /\ s = "there" /\ w.status \notin {"consumed", "gone"} => StagingDue(w)
    /\ w.status = "none" => m = "none" /\ s = "none"
    /\ w.status = "cleanup_complete" => ~w.key
    /\ w.kind = "staging_issuance" => w.status \in {"issuing", "cleanup_pending"}
    /\ w.status \in {"pending_upload", "assembling"} => w.key /\ w.multipart /\ ~w.staging
    /\ w.status = "issuing" => w.key /\ ~w.staging /\ w.kind = "staging_issuance"
    /\ w.status \in {"validating", "promoting", "invalid"} => w.key /\ w.staging
    /\ w.status = "validated" => w.staging \/ ~w.key
    /\ w.status = "assembling" => w.kind = "staging_assembly"
    /\ "staging" \in w.marks => "multipart" \in w.marks
    /\ w.marks # {} => w.status \in Past

\* The steps of an issuance, of a completion on its way to a staging version, and of a cleanup
\* that is done with the multipart upload.
Starting == {"fence", "create", "record", "abort", "fail"}
Staging == {"takeover", "match", "assemble", "store"}
Adopting == {"adopt", "staging", "noStaging", "recover", "immutable", "noImmutable", "scrub",
             "noParts", "complete"}

\* What a run knows of them when the row is w.
StagingRun(r, w, m, s, t) ==
    /\ r.pc # "idle" => t <= r.now + RunTime
    /\ r.pc \in {"fence", "create", "record"} =>
          r.current /\ w.status = "issuing" /\ w.until = r.now + UsableTime /\ s = "none"
    /\ r.pc \in {"fence", "create"} => m = "none"
    /\ r.pc \in Staging => w.status \notin {"none", "issuing"}
    /\ r.pc = "assemble" /\ m = "there" /\ w.status \notin {"consumed", "gone"} =>
          w.kind = "staging_assembly"
    /\ r.pc = "store" /\ r.current => m = "gone"
    /\ r.pc = "clear" /\ r.current /\ w.status = "validated" => s # "there"
    /\ r.pc = "noMultipart" /\ r.current => m # "there"
    /\ r.pc \in Adopting => "multipart" \in r.row.marks
    /\ r.pc = "staging" /\ r.current /\ s = "there" => w.staging
    /\ r.pc = "noStaging" /\ r.current => s # "there"

OneStart == \A p, q \in Run : run[p].pc \in Starting /\ run[q].pc \in Starting => p = q

Staged ==
    /\ StagingRow(row, object.multipart, object.staging)
    /\ \A p \in Run : StagingRun(run[p], row, object.multipart, object.staging, clock)
    /\ OneStart

StagingInv == ~closing => Staged

\* What is known of a step that leaves the account open, and of one run.
LEMMA StagedAtHand ==
    ASSUME IInv, Staged, NEW p \in Run
    PROVE  /\ StagingRow(row, object.multipart, object.staging)
           /\ StagingRun(run[p], row, object.multipart, object.staging, clock)
           /\ object.multipart \in Held /\ object.staging \in Held
           /\ RunTime \in Nat /\ RunTime < UsableTime
  BY TimeAssumption DEF Staged, IInv, TypeOK
-----------------------------------------------------------------------------
(* What steps leave to the runs.                                           *)

\* Steps at which a run relies on nothing in staging.
Loose == Step \ (Starting \cup Staging \cup Adopting \cup {"clear", "noMultipart"})

\* A run that goes on to rely on no more.
LEMMA StagingOnward ==
    ASSUME NEW r \in RunRecord, NEW w, NEW m, NEW s, NEW t, StagingRun(r, w, m, s, t),
           r.pc # "idle", NEW pc \in Step,
           \/ pc \in Loose
           \/ pc \in {"abort", "fail"}
           \/ r.pc \in Adopting /\ pc \in Adopting \ {"staging", "noStaging"}
    PROVE  StagingRun([r EXCEPT !.pc = pc], w, m, s, t)
  <1> DEFINE x == [r EXCEPT !.pc = pc]
  <1>1. x.pc = pc /\ x.row = r.row /\ x.now = r.now /\ x.current = r.current
    BY DEF RunRecord
  <1> HIDE DEF x
  <1>2. StagingRun(x, w, m, s, t)
    BY <1>1 DEF StagingRun, Loose, Starting, Staging, Adopting
  <1> QED BY <1>2 DEF x

\* The run that does nothing.
LEMMA StagingIdle == \A w, m, s, t : StagingRun(IdleRun, w, m, s, t)
  BY IdleFacts DEF StagingRun, Staging, Adopting

\* A step of p that leaves the row and the clock.
LEMMA StagingGoto ==
    ASSUME IInv, Staged, NEW p \in Run, run[p].pc # "idle", NEW pc \in Step, Goto(p, pc),
           UNCHANGED <<row, clock>>,
           StagingRow(row, object'.multipart, object'.staging),
           \A q \in Run \ {p} :
              StagingRun(run[q], row, object'.multipart, object'.staging, clock),
           pc # "idle" => StagingRun([run[p] EXCEPT !.pc = pc], row, object'.multipart,
                                     object'.staging, clock),
           pc \in Starting => run[p].pc \in Starting
    PROVE  Staged'
  <1>1. run \in [Run -> RunRecord] /\ run[p] \in RunRecord
    BY DEF IInv, TypeOK, RunRecord
  <1>2. (\A q \in Run \ {p} : run'[q] = run[q]) /\ run'[p] = At(run[p], pc, run[p].row)
    BY <1>1 DEF Goto
  <1>3. run'[p].pc = pc /\ (pc = "idle" => run'[p] = IdleRun)
    BY <1>1, <1>2, IdleFacts DEF At, RunRecord
  <1>4. pc # "idle" => run'[p] = [run[p] EXCEPT !.pc = pc]
    BY <1>1, <1>2 DEF At, RunRecord
  <1>5. StagingRun(run'[p], row, object'.multipart, object'.staging, clock)
    BY <1>3, <1>4, StagingIdle
  <1>6. \A q \in Run : StagingRun(run'[q], row, object'.multipart, object'.staging, clock)
    BY <1>2, <1>5
  <1>7. OneStart'
    <2> SUFFICES ASSUME NEW x \in Run, NEW y \in Run,
                        run'[x].pc \in Starting, run'[y].pc \in Starting
                 PROVE  x = y
      BY DEF OneStart
    <2>1. run[x].pc \in Starting /\ run[y].pc \in Starting
      BY <1>2, <1>3
    <2> QED BY <2>1 DEF Staged, OneStart
  <1> QED BY <1>6, <1>7 DEF Staged

\* Such a step that leaves S3, too, or deletes in staging.
LEMMA StagingShrinks ==
    ASSUME IInv, Staged, NEW p \in Run, run[p].pc # "idle", NEW pc \in Step, Goto(p, pc),
           UNCHANGED <<row, clock>>,
           object'.multipart \in {object.multipart, Deleted(object.multipart)},
           object'.staging \in {object.staging, Deleted(object.staging)},
           \/ pc \in Loose
           \/ pc \in {"abort", "fail"} /\ run[p].pc \in Starting
           \/ run[p].pc \in Adopting /\ pc \in Adopting \ {"staging", "noStaging"}
           \/ pc \notin Starting /\ StagingRun([run[p] EXCEPT !.pc = pc], row, object'.multipart,
                                               object'.staging, clock)
    PROVE  Staged'
  <1>1. StagingRow(row, object'.multipart, object'.staging)
    BY StagedAtHand DEF StagingRow, Deleted, Held
  <1>2. ASSUME NEW q \in Run
        PROVE  StagingRun(run[q], row, object'.multipart, object'.staging, clock)
    BY StagedAtHand DEF StagingRun, Deleted, Held
  <1>3. run[p] \in RunRecord
    BY DEF IInv, TypeOK, RunRecord
  <1>4. StagingRun([run[p] EXCEPT !.pc = pc], row, object'.multipart, object'.staging, clock)
    BY <1>2, <1>3, StagingOnward
  <1>5. pc \in Starting => run[p].pc \in Starting
    BY DEF Loose, Starting, Adopting
  <1> QED BY <1>1, <1>2, <1>4, <1>5, StagingGoto

\* What a row written by p has to fit.
StagingFits(p, new, pc) ==
    /\ StagingRow(new, object.multipart, object.staging) /\ new.status \notin {"none", "issuing"}
    /\ \A q \in Run \ {p} : run[q].pc \notin {"fence", "create", "record"}
    /\ \A q \in Run : run[q].pc = "assemble" /\ object.multipart = "there"
                      /\ new.status \notin {"consumed", "gone"} => new.kind = "staging_assembly"
    /\ pc \notin {"fence", "create", "record", "clear", "noMultipart", "noStaging", "store"}
    /\ pc = "assemble" => new.kind = "staging_assembly"
    /\ pc \in Adopting => "multipart" \in new.marks
    /\ pc = "staging" /\ object.staging = "there" => new.staging
    /\ pc \in Starting => run[p].pc \in Starting

\* A write of p.
LEMMA StagingWritten ==
    ASSUME IInv, Staged, NEW p \in Run, run[p].pc # "idle", run[p].current, NEW new,
           NEW pc \in Step, Written(p, new, pc), UNCHANGED <<object, clock>>,
           StagingFits(p, new, pc)
    PROVE  Staged'
  <1>1. run \in [Run -> RunRecord] /\ run[p] \in RunRecord
    BY DEF IInv, TypeOK, RunRecord
  <1>2. row' = new /\ run'[p] = At(run[p], pc, new)
        /\ \A q \in Run \ {p} : run'[q] = [run[q] EXCEPT !.current = FALSE]
    BY DEF Written
  <1>3. ASSUME NEW q \in Run \ {p}
        PROVE  /\ run'[q].pc = run[q].pc
               /\ StagingRun(run'[q], new, object.multipart, object.staging, clock)
    <2> DEFINE x == run'[q]
    <2>1. x.pc = run[q].pc /\ x.row = run[q].row /\ x.now = run[q].now /\ ~x.current
      BY <1>1, <1>2 DEF RunRecord
    <2> HIDE DEF x
    <2>2. StagingRun(x, new, object.multipart, object.staging, clock)
      BY <2>1, StagedAtHand DEF StagingRun, StagingFits
    <2> QED BY <2>1, <2>2 DEF x
  <1>4. run'[p].pc = pc /\ StagingRun(run'[p], new, object.multipart, object.staging, clock)
    <2>1. CASE pc = "idle"
      BY <1>2, <2>1, StagingIdle, IdleFacts DEF At
    <2>2. CASE pc # "idle"
      <3> DEFINE x == run'[p]
      <3>1. x.pc = pc /\ x.row = new /\ x.now = run[p].now /\ x.current
        BY <1>1, <1>2, <2>2 DEF At, RunRecord
      <3> HIDE DEF x
      <3>2. StagingRun(x, new, object.multipart, object.staging, clock)
        BY <3>1, StagedAtHand DEF StagingRun, StagingFits
      <3> QED BY <3>1, <3>2 DEF x
    <2> QED BY <2>1, <2>2
  <1>5. OneStart'
    <2> SUFFICES ASSUME NEW x \in Run, NEW y \in Run,
                        run'[x].pc \in Starting, run'[y].pc \in Starting
                 PROVE  x = y
      BY DEF OneStart
    <2>1. run[x].pc \in Starting /\ run[y].pc \in Starting
      BY <1>3, <1>4 DEF StagingFits
    <2> QED BY <2>1 DEF Staged, OneStart
  <1>6. StagingRow(new, object.multipart, object.staging)
    BY DEF StagingFits
  <1>7. \A q \in Run : StagingRun(run'[q], new, object.multipart, object.staging, clock)
    BY <1>3, <1>4
  <1> QED BY <1>2, <1>5, <1>6, <1>7 DEF Staged

\* A write on the version p has, whatever becomes of it.
LEMMA StagingWrites ==
    ASSUME IInv, Staged, NEW p \in Run, run[p].pc # "idle", NEW can \in BOOLEAN, NEW new,
           NEW pc \in Step, NEW failed \in {"idle", "abort"},
           failed = "abort" => run[p].pc \in Starting,
           Write(p, can, new, pc, failed),
           run[p].current /\ can => StagingFits(p, new, pc)
    PROVE  Staged'
  <1>1. UNCHANGED <<object, clock>>
    BY DEF Write
  <1>2. ASSUME row' = row, Goto(p, failed) PROVE Staged'
    <2>1. failed \in Loose \cup {"abort"} /\ failed \in Step
      BY DEF Loose, Step, Starting, Staging, Adopting
    <2> QED BY <1>1, <1>2, <2>1, StagingShrinks
  <1>3. ASSUME run[p].current, can, NEW to \in {pc, failed}, Written(p, new, to) PROVE Staged'
    <2>1. StagingFits(p, new, to)
      BY <1>3 DEF StagingFits, Starting, Adopting
    <2>2. to \in Step
      BY DEF Step
    <2> QED BY <1>1, <1>3, <2>1, <2>2, StagingWritten
  <1> QED BY <1>2, <1>3 DEF Write
-----------------------------------------------------------------------------
(* The owner's writes.                                                     *)

\* An operation claimed or released keeps what the row knows of staging.
Named(w, r, status, kind) ==
    /\ w \in Row /\ w.status = status /\ w.kind = kind /\ w.key = r.key /\ w.multipart = r.multipart
    /\ w.staging = r.staging /\ w.marks = r.marks

\* Which it does.
LEMMA NamedFacts ==
    ASSUME NEW r \in Row, NEW status \in Status, NEW now \in Nat
    PROVE  /\ Named(Released(r, status), r, status, "none")
           /\ \A kind \in Kind : Named(Claimed(r, kind, status, now), r, status, kind)
  <1>1. now + LeaseTime \in Nat /\ 0 \in 0..MaxTakeovers /\ 0 \in Nat /\ "none" \in Kind
    BY TimeAssumption DEF Kind
  <1>2. Named(Released(r, status), r, status, "none")
    BY <1>1 DEF Released, Row, Named
  <1>3. ASSUME NEW kind \in Kind PROVE Named(Claimed(r, kind, status, now), r, status, kind)
    BY <1>1 DEF Claimed, Row, Named
  <1> QED BY <1>2, <1>3

\* No issuance is going on when the row is not being issued, nor another when one is.
LEMMA NoIssuance ==
    ASSUME IInv, Staged, NEW p \in Run, row.status # "issuing" \/ run[p].pc \in Starting
    PROVE  \A q \in Run \ {p} : run[q].pc \notin {"fence", "create", "record"}
  BY StagedAtHand DEF StagingRun, Staged, OneStart, Starting

\* The issuance is recorded.
LEMMA RecordStaged == ASSUME IInv, Staged, NEW p \in Run, Record(p) PROVE Staged'
  <1> DEFINE v == Released(row, "pending_upload")
             w == [v EXCEPT !.multipart = TRUE]
  <1>1. run[p].pc = "record" /\ Write(p, row.status = "issuing", w, "idle", "abort")
    BY DEF Record
  <1>2. Named(v, row, "pending_upload", "none")
    BY AtHand, NamedFacts DEF Status, Unspent
  <1> HIDE DEF v
  <1>3. /\ w.status = "pending_upload" /\ w.kind = "none" /\ w.key = row.key /\ w.multipart
        /\ w.staging = row.staging /\ w.marks = row.marks
    BY <1>2 DEF Named, Row
  <1> HIDE DEF w
  <1>4. ASSUME row.status = "issuing" PROVE StagingFits(p, w, "idle")
    <2>1. object.staging = "none"
      BY <1>1, StagedAtHand DEF StagingRun
    <2>2. StagingRow(w, object.multipart, object.staging)
      BY <1>3, <1>4, <2>1, StagedAtHand DEF StagingRow, Past, MultipartDue, Aborts
    <2>3. \A q \in Run \ {p} : run[q].pc \notin {"fence", "create", "record"}
      BY <1>1, NoIssuance DEF Starting
    <2>4. \A q \in Run : run[q].pc # "assemble"
      BY <1>4, StagedAtHand DEF StagingRun, Staging
    <2> QED BY <1>3, <2>2, <2>3, <2>4 DEF StagingFits, Starting, Adopting
  <1> QED BY <1>1, <1>4, StagingWrites DEF Step, Starting

\* A failed issuance stays due.
LEMMA IssuanceFailedStaged == ASSUME IInv, Staged, NEW p \in Run, IssuanceFailed(p) PROVE Staged'
  <1> DEFINE w == [row EXCEPT !.status = "cleanup_pending"]
  <1>1. run[p].pc = "fail" /\ Write(p, row.status = "issuing", w, "idle", "idle")
    BY DEF IssuanceFailed
  <1>2. Named(w, row, "cleanup_pending", row.kind)
    BY AtHand DEF Named, Row, Status
  <1> HIDE DEF w
  <1>3. ASSUME row.status = "issuing" PROVE StagingFits(p, w, "idle")
    <2>1. StagingRow(w, object.multipart, object.staging)
      BY <1>2, <1>3, StagedAtHand
         DEF StagingRow, Named, Past, MultipartDue, StagingDue, Aborts
    <2>2. \A q \in Run \ {p} : run[q].pc \notin {"fence", "create", "record"}
      BY <1>1, NoIssuance DEF Starting
    <2>3. \A q \in Run : run[q].pc # "assemble"
      BY <1>3, StagedAtHand DEF StagingRun, Staging
    <2> QED BY <1>2, <2>1, <2>2, <2>3 DEF StagingFits, Named, Starting, Adopting
  <1> QED BY <1>1, <1>3, StagingWrites DEF Step

\* An assembly claimed makes a staging version due.
LEMMA ClaimAssemblyStaged == ASSUME IInv, Staged, NEW p \in Run, ClaimAssembly(p) PROVE Staged'
  <1> DEFINE w == Claimed(row, "staging_assembly", "assembling", run[p].now)
             can == row.status = "pending_upload" /\ row.until > run[p].now
  <1>1. run[p].pc = "claim" /\ Write(p, can, w, "assemble", "idle") /\ can \in BOOLEAN
    BY DEF ClaimAssembly
  <1>2. Named(w, row, "assembling", "staging_assembly")
    BY AtHand, NamedFacts DEF Status, Unspent, Kind
  <1> HIDE DEF w
  <1>3. can => StagingFits(p, w, "assemble")
    <2> SUFFICES ASSUME row.status = "pending_upload" PROVE StagingFits(p, w, "assemble")
      OBVIOUS
    <2>1. StagingRow(w, object.multipart, object.staging)
      BY <1>2, StagedAtHand
         DEF StagingRow, Named, Past, MultipartDue, StagingDue, Aborts
    <2>2. \A q \in Run \ {p} : run[q].pc \notin {"fence", "create", "record"}
      BY NoIssuance
    <2> QED BY <1>2, <2>1, <2>2 DEF StagingFits, Named, Starting, Adopting
  <1> HIDE DEF can
  <1> QED BY <1>1, <1>3, StagingWrites DEF Step

\* Who takes over changes nothing in staging.
LEMMA TakeoverStaged == ASSUME IInv, Staged, NEW p \in Run, Takeover(p) PROVE Staged'
  <1> DEFINE w == [row EXCEPT !.lease = run[p].now + LeaseTime, !.takeovers = @ + 1]
             can == row.lease <= run[p].now /\ row.takeovers < MaxTakeovers
  <1>1. run[p].pc = "takeover" /\ Write(p, can, w, "match", "idle") /\ can \in BOOLEAN
    BY DEF Takeover
  <1>2. /\ w.status = row.status /\ w.kind = row.kind /\ w.key = row.key
        /\ w.multipart = row.multipart /\ w.staging = row.staging /\ w.marks = row.marks
    BY AtHand DEF Row
  <1>3. run[p].current => row.status \in {"assembling", "promoting"}
    BY <1>1, AtHand DEF RunFits
  <1> HIDE DEF w, can
  <1>4. ASSUME run[p].current PROVE StagingFits(p, w, "match")
    <2>1. StagingRow(w, object.multipart, object.staging)
      BY <1>2, StagedAtHand DEF StagingRow, MultipartDue, StagingDue, Aborts
    <2>2. \A q \in Run \ {p} : run[q].pc \notin {"fence", "create", "record"}
      BY <1>3, <1>4, NoIssuance
    <2>3. \A q \in Run : run[q].pc = "assemble" /\ object.multipart = "there"
                         /\ w.status \notin {"consumed", "gone"} => w.kind = "staging_assembly"
      BY <1>2, StagedAtHand DEF StagingRun
    <2> QED BY <1>2, <1>3, <1>4, <2>1, <2>2, <2>3 DEF StagingFits, Starting, Adopting
  <1> QED BY <1>1, <1>4, StagingWrites DEF Step

\* The staging version is recorded; the multipart upload is gone by then.
LEMMA StoreStagingStaged == ASSUME IInv, Staged, NEW p \in Run, StoreStaging(p) PROVE Staged'
  <1> DEFINE v == Released(row, "validating")
             w == [v EXCEPT !.staging = TRUE]
  <1>1. run[p].pc = "store" /\ Write(p, row.status = "assembling", w, "validate", "idle")
    BY DEF StoreStaging
  <1>2. Named(v, row, "validating", "none")
    BY AtHand, NamedFacts DEF Status, Unspent
  <1> HIDE DEF v
  <1>3. /\ w.status = "validating" /\ w.kind = "none" /\ w.key = row.key /\ w.staging
        /\ w.marks = row.marks
    BY <1>2 DEF Named, Row
  <1> HIDE DEF w
  <1>4. ASSUME run[p].current, row.status = "assembling" PROVE StagingFits(p, w, "validate")
    <2>1. object.multipart = "gone"
      BY <1>1, <1>4, StagedAtHand DEF StagingRun
    <2>2. StagingRow(w, object.multipart, object.staging)
      BY <1>3, <1>4, <2>1, StagedAtHand DEF StagingRow, Past, StagingDue
    <2>3. \A q \in Run \ {p} : run[q].pc \notin {"fence", "create", "record"}
      BY <1>4, NoIssuance
    <2> QED BY <1>3, <2>1, <2>2, <2>3 DEF StagingFits, Starting, Adopting
  <1> QED BY <1>1, <1>4, StagingWrites DEF Step

\* While an upload is validated or promoted its multipart upload is no more.
LEMMA Assembled ==
    ASSUME IInv, Staged, row.status \in {"validating", "promoting", "validated"}
    PROVE  object.multipart # "there"
  BY StagedAtHand, AtHand DEF Staged, StagingRow, MultipartDue, Aborts

\* A refused upload's staging version stays due.
LEMMA RefuseStaged == ASSUME IInv, Staged, NEW p \in Run, Refuse(p) PROVE Staged'
  <1> DEFINE w == [row EXCEPT !.status = "invalid"]
  <1>1. run[p].pc = "refuse" /\ UNCHANGED <<object, clock>>
    BY DEF Refuse
  <1>2. Named(w, row, "invalid", row.kind)
    BY AtHand DEF Named, Row, Status
  <1>3. \/ run[p].current /\ row.status = "validating" /\ Written(p, w, "drop")
        \/ Goto(p, "drop") /\ row' = row
    BY DEF Refuse
  <1> HIDE DEF w
  <1>4. CASE run[p].current /\ row.status = "validating" /\ Written(p, w, "drop")
    <2>1. object.multipart # "there"
      BY <1>4, Assembled
    <2>2. StagingRow(w, object.multipart, object.staging)
      BY <1>2, <1>4, <2>1, StagedAtHand DEF StagingRow, Named, Past, StagingDue
    <2>3. \A q \in Run \ {p} : run[q].pc \notin {"fence", "create", "record"}
      BY <1>4, NoIssuance
    <2>4. StagingFits(p, w, "drop")
      BY <1>2, <2>1, <2>2, <2>3 DEF StagingFits, Named, Starting, Adopting
    <2> QED BY <1>1, <1>4, <2>4, StagingWritten DEF Step
  <1>5. CASE Goto(p, "drop") /\ row' = row
    <2>1. "drop" \in Loose /\ "drop" \in Step
      BY DEF Loose, Step, Starting, Staging, Adopting
    <2> QED BY <1>1, <1>5, <2>1, StagingShrinks
  <1> QED BY <1>3, <1>4, <1>5

\* So does a promoted one's ...
LEMMA PromoteStaged == ASSUME IInv, Staged, NEW p \in Run, Promote(p) PROVE Staged'
  <1> DEFINE v == Claimed(row, "immutable_promotion", "promoting", run[p].now)
             w == [v EXCEPT !.target = TRUE]
             can == row.status = "validating" /\ row.until > run[p].now
  <1>1. run[p].pc = "promote" /\ Write(p, can, w, "put", "idle") /\ can \in BOOLEAN
    BY DEF Promote
  <1>2. Named(v, row, "promoting", "immutable_promotion")
    BY AtHand, NamedFacts DEF Status, Unspent, Kind
  <1> HIDE DEF v
  <1>3. /\ w.status = "promoting" /\ w.kind = "immutable_promotion" /\ w.key = row.key
        /\ w.staging = row.staging /\ w.marks = row.marks
    BY <1>2 DEF Named, Row
  <1> HIDE DEF w
  <1>4. can => StagingFits(p, w, "put")
    <2> SUFFICES ASSUME row.status = "validating" PROVE StagingFits(p, w, "put")
      OBVIOUS
    <2>1. object.multipart # "there"
      BY Assembled
    <2>2. StagingRow(w, object.multipart, object.staging)
      BY <1>3, <2>1, StagedAtHand DEF StagingRow, Past, StagingDue
    <2>3. \A q \in Run \ {p} : run[q].pc \notin {"fence", "create", "record"}
      BY NoIssuance
    <2> QED BY <1>3, <2>1, <2>2, <2>3 DEF StagingFits, Starting, Adopting
  <1> HIDE DEF can
  <1> QED BY <1>1, <1>4, StagingWrites DEF Step

\* ... until the debt is paid.
LEMMA FinishStaged == ASSUME IInv, Staged, NEW p \in Run, Finish(p) PROVE Staged'
  <1> DEFINE v == Released(row, "validated")
             w == [v EXCEPT !.immutable = TRUE, !.debt = TRUE]
             pc == IF run[p].row.takeovers = 0 THEN "owe" ELSE "idle"
  <1>1. run[p].pc = "finish" /\ Write(p, row.status = "promoting", w, pc, "idle")
    BY DEF Finish
  <1>2. Named(v, row, "validated", "none")
    BY AtHand, NamedFacts DEF Status, Unspent
  <1> HIDE DEF v
  <1>3. /\ w.status = "validated" /\ w.kind = "none" /\ w.key = row.key
        /\ w.staging = row.staging /\ w.marks = row.marks
    BY <1>2 DEF Named, Row
  <1>4. pc \in {"owe", "idle"} /\ pc \in Step
    BY DEF Step
  <1> HIDE DEF w, pc
  <1>5. ASSUME row.status = "promoting" PROVE StagingFits(p, w, pc)
    <2>1. object.multipart # "there"
      BY <1>5, Assembled
    <2>2. StagingRow(w, object.multipart, object.staging)
      BY <1>3, <1>5, <2>1, StagedAtHand DEF StagingRow, Past, StagingDue
    <2>3. \A q \in Run \ {p} : run[q].pc \notin {"fence", "create", "record"}
      BY <1>5, NoIssuance
    <2> QED BY <1>3, <1>4, <2>1, <2>2, <2>3 DEF StagingFits, Starting, Adopting
  <1>6. (row.status = "promoting") \in BOOLEAN /\ run[p].pc # "idle"
    BY <1>1
  <1> QED BY <1>1, <1>4, <1>5, <1>6, StagingWrites

\* The debt is forgotten when the staging version is gone.
LEMMA ClearStaged == ASSUME IInv, Staged, NEW p \in Run, Clear(p) PROVE Staged'
  <1> DEFINE w == [row EXCEPT !.key = FALSE, !.staging = FALSE, !.multipart = FALSE,
                              !.debt = FALSE]
  <1>1. run[p].pc = "clear" /\ Write(p, row.status = "validated", w, "idle", "idle")
    BY DEF Clear
  <1>2. w.status = row.status /\ w.kind = row.kind /\ ~w.key /\ w.marks = row.marks
    BY AtHand DEF Row
  <1> HIDE DEF w
  <1>3. ASSUME run[p].current, row.status = "validated" PROVE StagingFits(p, w, "idle")
    <2>1. object.multipart # "there" /\ object.staging # "there"
      BY <1>1, <1>3, Assembled, StagedAtHand DEF StagingRun
    <2>2. StagingRow(w, object.multipart, object.staging)
      BY <1>2, <1>3, <2>1, StagedAtHand DEF StagingRow
    <2>3. \A q \in Run \ {p} : run[q].pc \notin {"fence", "create", "record"}
      BY <1>3, NoIssuance
    <2> QED BY <1>2, <1>3, <2>1, <2>2, <2>3 DEF StagingFits, Starting, Adopting
  <1> QED BY <1>1, <1>3, StagingWrites DEF Step

\* Who spends an upload leaves its staging to the bucket's own rule.
LEMMA BindStaged == ASSUME IInv, Staged, NEW p \in Run, Bind(p) PROVE Staged'
  <1> DEFINE w == [row EXCEPT !.status = "consumed", !.attached = TRUE, !.retires = TRUE]
             can == row.status = "validated" /\ row.until > run[p].now /\ ~closing
  <1>1. run[p].pc = "bind" /\ Write(p, can, w, "idle", "idle") /\ can \in BOOLEAN
    BY DEF Bind
  <1>2. w.status = "consumed" /\ w.kind = row.kind /\ w.marks = row.marks
    BY AtHand DEF Row
  <1> HIDE DEF w
  <1>3. can => StagingFits(p, w, "idle")
    <2> SUFFICES ASSUME row.status = "validated" PROVE StagingFits(p, w, "idle")
      OBVIOUS
    <2>1. StagingRow(w, object.multipart, object.staging)
      BY <1>2, StagedAtHand DEF StagingRow, Past
    <2>2. \A q \in Run \ {p} : run[q].pc \notin {"fence", "create", "record"}
      BY NoIssuance
    <2> QED BY <1>2, <2>1, <2>2 DEF StagingFits, Starting, Adopting
  <1> HIDE DEF can
  <1> QED BY <1>1, <1>3, StagingWrites DEF Step
-----------------------------------------------------------------------------
(* The writes of a cleanup.                                                *)

\* The sweep claims no upload whose issuance is going on: its window is longer than a run.
LEMMA ClaimCleanupStaged == ASSUME IInv, Staged, NEW p \in Run, ClaimCleanup(p) PROVE Staged'
  <1> DEFINE w == [row EXCEPT !.status = "cleanup_pending"]
             can == CleanupDue(row, run[p].now)
  <1>1. run[p].pc = "clean" /\ Write(p, can, w, "scan", "idle") /\ can \in BOOLEAN
    BY DEF ClaimCleanup, CleanupDue
  <1>2. Named(w, row, "cleanup_pending", row.kind)
    BY AtHand DEF Named, Row, Status
  <1>3. can => \/ row.status \in {"invalid", "cleanup_pending"}
               \/ row.status \in Unspent /\ row.until <= run[p].now
    BY DEF CleanupDue
  <1> HIDE DEF w, can
  <1>4. ASSUME can PROVE StagingFits(p, w, "scan")
    <2>1. StagingRow(w, object.multipart, object.staging)
      BY <1>2, <1>3, <1>4, StagedAtHand
         DEF StagingRow, Named, Past, MultipartDue, StagingDue, Aborts, Unspent
    <2>2. ASSUME NEW q \in Run, run[q].pc \in {"fence", "create", "record"} PROVE FALSE
      <3>1. /\ row.status = "issuing" /\ row.until = run[q].now + UsableTime
            /\ clock <= run[q].now + RunTime
        BY <2>2, StagedAtHand DEF StagingRun
      <3>2. row.until <= run[p].now /\ run[p].now <= clock
        BY <1>1, <1>3, <1>4, <3>1, AtHand
      <3>3. run[q].now \in Nat /\ run[p].now \in Nat /\ clock \in Nat /\ RunTime \in Nat
            /\ UsableTime \in Nat /\ RunTime < UsableTime
        BY <2>2, AtHand, StagedAtHand
      <3> QED BY <3>1, <3>2, <3>3
    <2>3. \A q \in Run : run[q].pc = "assemble" /\ object.multipart = "there"
                         /\ w.status \notin {"consumed", "gone"} => w.kind = "staging_assembly"
      BY <1>2, <1>3, <1>4, StagedAtHand DEF StagingRun, Named, Unspent
    <2> QED BY <1>2, <2>1, <2>2, <2>3 DEF StagingFits, Named, Starting, Adopting
  <1> QED BY <1>1, <1>4, StagingWrites DEF Step

\* A write of a cleanup that goes on.
LEMMA StagingClean ==
    ASSUME IInv, Staged, NEW p \in Run, run[p].pc \in Cleaning, NEW w,
           NEW pc \in {"idle"} \cup Adopting,
           Clean(p, w, pc), pc # "noStaging",
           run[p].current /\ row.status = "cleanup_pending" =>
              /\ StagingRow(w, object.multipart, object.staging)
              /\ w.status = "cleanup_pending" /\ w.kind = row.kind
              /\ pc \in Adopting => "multipart" \in w.marks
              /\ pc = "staging" /\ object.staging = "there" => w.staging
    PROVE  Staged'
  <1>1. run[p].pc # "idle" /\ Write(p, row.status = "cleanup_pending", w, pc, "idle")
    BY DEF Clean, Cleaning
  <1>2. ASSUME run[p].current, row.status = "cleanup_pending" PROVE StagingFits(p, w, pc)
    <2>1. \A q \in Run \ {p} : run[q].pc \notin {"fence", "create", "record"}
      BY <1>2, NoIssuance
    <2>2. \A q \in Run : run[q].pc = "assemble" /\ object.multipart = "there"
                         => w.kind = "staging_assembly"
      BY <1>2, StagedAtHand DEF StagingRun
    <2> QED BY <1>2, <2>1, <2>2 DEF StagingFits, Starting, Adopting
  <1>3. pc \in Step
    BY DEF Step, Adopting
  <1> QED BY <1>1, <1>2, <1>3, StagingWrites

\* A local step.
LEMMA StagingLocal ==
    ASSUME IInv, Staged, NEW p \in Run, run[p].pc # "idle", NEW pc \in Step, Local(p, pc),
           \/ pc \in Loose
           \/ pc \in {"abort", "fail"} /\ run[p].pc \in Starting
           \/ run[p].pc \in Adopting /\ pc \in Adopting \ {"staging", "noStaging"}
           \/ pc \notin Starting /\ StagingRun([run[p] EXCEPT !.pc = pc], row, object.multipart,
                                               object.staging, clock)
    PROVE  Staged'
  <1>1. Goto(p, pc) /\ UNCHANGED <<row, object, clock>>
    BY DEF Local
  <1> QED BY <1>1, StagingShrinks

\* A run in a cleanup that is done with the multipart upload goes on to one of its next steps.
LEMMA StagingAdopts ==
    ASSUME IInv, Staged, NEW p \in Run, run[p].pc # "idle", NEW pc \in Adopting, Local(p, pc),
           "multipart" \in run[p].row.marks,
           pc = "staging" /\ run[p].current /\ object.staging = "there" => row.staging,
           pc = "noStaging" /\ run[p].current => object.staging # "there"
    PROVE  Staged'
  <1> DEFINE x == [run[p] EXCEPT !.pc = pc]
  <1>1. x.pc = pc /\ x.row = run[p].row /\ x.now = run[p].now /\ x.current = run[p].current
    BY AtHand DEF RunRecord
  <1> HIDE DEF x
  <1>2. StagingRun(x, row, object.multipart, object.staging, clock)
    BY <1>1, StagedAtHand DEF StagingRun, Staging, Adopting
  <1>3. pc \in Step /\ pc \notin Starting
    BY DEF Step, Adopting, Starting
  <1> QED BY <1>2, <1>3, StagingLocal DEF x

\* What a row that a cleanup goes on with still leads to.
LEMMA StillDue ==
    ASSUME IInv, Staged, row.status = "cleanup_pending"
    PROVE  /\ object.multipart = "there" => MultipartDue(row)
           /\ object.staging = "there" => StagingDue(row)
           /\ object.staging # "none" => object.multipart = "gone"
           /\ "staging" \in row.marks => "multipart" \in row.marks
  BY DEF Staged, StagingRow

\* A row of a cleanup that goes on as it was, or knows of a staging version found.
LEMMA CleanedRow ==
    ASSUME IInv, Staged, row.status = "cleanup_pending", NEW w,
           w.status = "cleanup_pending", w.kind = row.kind, w.key = row.key,
           w.multipart = row.multipart,
           w.staging = row.staging \/ (w.staging /\ object.staging = "there"),
           row.marks \subseteq w.marks,
           "multipart" \in w.marks \ row.marks => object.multipart # "there",
           "staging" \in w.marks \ row.marks =>
              object.staging # "there" /\ "multipart" \in row.marks
    PROVE  StagingRow(w, object.multipart, object.staging)
  BY StillDue DEF Staged, StagingRow, Past, MultipartDue, StagingDue, Aborts

\* No reference is found.
LEMMA ScanReferencesStaged == ASSUME IInv, Staged, NEW p \in Run, ScanReferences(p) PROVE Staged'
  <1> DEFINE w == [row EXCEPT !.status = "cleanup_blocked", !.retires = TRUE]
  <1>1. run[p].pc = "scan" /\ run[p].pc \in Cleaning /\ attachment \notin {"live", "pending"}
    BY AtHand DEF ScanReferences, RunFits, Cleaning
  <1>2. run[p].current /\ run[p].row.attached => row.status # "cleanup_pending"
    BY AtHand DEF RowFits, RunFits
  <1>3. CASE run[p].row.attached
    <2>1. Clean(p, w, "idle")
      BY <1>3 DEF ScanReferences
    <2> HIDE DEF w
    <2> QED BY <1>1, <1>2, <1>3, <2>1, StagingClean
  <1>4. CASE Local(p, "adopt") /\ "multipart" \in run[p].row.marks
    BY <1>1, <1>4, StagingAdopts DEF Adopting
  <1>5. CASE Local(p, "multipart")
    <2>1. "multipart" \in Loose /\ "multipart" \in Step
      BY DEF Loose, Step, Starting, Staging, Adopting
    <2> QED BY <1>1, <1>5, <2>1, StagingLocal
  <1> QED BY <1>1, <1>3, <1>4, <1>5 DEF ScanReferences

\* The multipart upload is marked when a listing showed it gone.
LEMMA MarkMultipartStaged == ASSUME IInv, Staged, NEW p \in Run, MarkMultipart(p) PROVE Staged'
  <1> DEFINE w == [row EXCEPT !.marks = @ \cup {"multipart"}]
  <1>1. run[p].pc = "noMultipart" /\ Clean(p, w, "adopt")
    BY DEF MarkMultipart
  <1>2. /\ w.status = row.status /\ w.kind = row.kind /\ w.key = row.key
        /\ w.multipart = row.multipart /\ w.staging = row.staging
        /\ w.marks = row.marks \cup {"multipart"}
    BY AtHand DEF Row
  <1> HIDE DEF w
  <1>3. run[p].current => object.multipart # "there"
    BY <1>1, StagedAtHand DEF StagingRun
  <1>4. run[p].current /\ row.status = "cleanup_pending" =>
           StagingRow(w, object.multipart, object.staging)
    BY <1>2, <1>3, CleanedRow
  <1> QED BY <1>1, <1>2, <1>4, StagingClean DEF Cleaning, Adopting

\* So is the staging version.
LEMMA MarkStagingStaged == ASSUME IInv, Staged, NEW p \in Run, MarkStaging(p) PROVE Staged'
  <1> DEFINE w == [row EXCEPT !.marks = @ \cup {"staging"}]
  <1>1. run[p].pc = "noStaging" /\ Clean(p, w, "recover")
    BY DEF MarkStaging
  <1>2. /\ w.status = row.status /\ w.kind = row.kind /\ w.key = row.key
        /\ w.multipart = row.multipart /\ w.staging = row.staging
        /\ w.marks = row.marks \cup {"staging"}
    BY AtHand DEF Row
  <1> HIDE DEF w
  <1>3. run[p].current => object.staging # "there" /\ "multipart" \in row.marks
    BY <1>1, StagedAtHand, AtHand DEF StagingRun, Adopting, RunFits
  <1>4. run[p].current /\ row.status = "cleanup_pending" =>
           StagingRow(w, object.multipart, object.staging)
    BY <1>2, <1>3, CleanedRow
  <1> QED BY <1>1, <1>2, <1>3, <1>4, StagingClean DEF Cleaning, Adopting

\* The other two marks say nothing of staging.
LEMMA MarkOthersStaged ==
    ASSUME IInv, Staged, NEW p \in Run, MarkImmutable(p) \/ MarkParts(p)
    PROVE  Staged'
  <1>1. PICK m \in {"immutable", "parts"}, pc \in {"scrub", "complete"} :
           Clean(p, [row EXCEPT !.marks = @ \cup {m}], pc)
    BY DEF MarkImmutable, MarkParts
  <1> DEFINE w == [row EXCEPT !.marks = @ \cup {m}]
  <1>2. /\ w.status = row.status /\ w.kind = row.kind /\ w.key = row.key
        /\ w.multipart = row.multipart /\ w.staging = row.staging
        /\ w.marks = row.marks \cup {m}
    BY AtHand DEF Row
  <1>3. run[p].pc \in {"noImmutable", "noParts"} /\ Clean(p, w, pc)
    BY <1>1 DEF MarkImmutable, MarkParts
  <1> HIDE DEF w
  <1>4. run[p].current => "multipart" \in row.marks
    BY <1>3, StagedAtHand, AtHand DEF StagingRun, Adopting, RunFits
  <1>5. row.status = "cleanup_pending" => StagingRow(w, object.multipart, object.staging)
    BY <1>2, CleanedRow
  <1>6. run[p].pc \in Cleaning /\ pc \in Adopting /\ pc \notin {"staging", "noStaging"}
    BY <1>3 DEF Cleaning, Adopting
  <1> QED BY <1>2, <1>3, <1>4, <1>5, <1>6, StagingClean

\* A staging version found on the key is recorded, so that it is deleted next.
LEMMA AdoptStagingStaged == ASSUME IInv, Staged, NEW p \in Run, AdoptStaging(p) PROVE Staged'
  <1> DEFINE w == [row EXCEPT !.staging = TRUE]
             r == run[p].row
             pc == IF "staging" \in r.marks THEN "recover" ELSE "staging"
  <1>1. run[p].pc = "adopt" /\ run[p].pc \in Cleaning /\ "multipart" \in r.marks
    BY StagedAtHand DEF AdoptStaging, Cleaning, StagingRun, Adopting
  <1>2. /\ w.status = row.status /\ w.kind = row.kind /\ w.key = row.key
        /\ w.multipart = row.multipart /\ w.staging /\ w.marks = row.marks
    BY AtHand DEF Row
  <1>3. run[p].current => r = row /\ row.status \in Past \ {"gone"}
    BY <1>1, AtHand DEF RunFits
  <1>4. pc \in Adopting /\ pc # "noStaging" /\ pc # "idle"
    BY DEF Adopting
  <1>5. CASE object.staging = "there" /\ Clean(p, w, pc)
    <2> HIDE DEF w, pc
    <2>1. row.status = "cleanup_pending" => StagingRow(w, object.multipart, object.staging)
      BY <1>2, <1>5, CleanedRow
    <2> QED BY <1>1, <1>2, <1>3, <1>4, <1>5, <2>1, StagingClean
  <1>6. CASE /\ ~(r.key /\ ~r.staging /\ r.kind = "staging_assembly" /\ object.staging = "there")
             /\ Local(p, pc)
    <2>1. pc = "staging" /\ run[p].current /\ object.staging = "there" => row.staging
      <3> SUFFICES ASSUME run[p].current, object.staging = "there" PROVE row.staging
        OBVIOUS
      <3>1. StagingDue(row)
        BY <1>3, StagedAtHand DEF StagingRow, Past
      <3> QED BY <1>3, <1>6, <3>1 DEF StagingDue
    <2> HIDE DEF pc
    <2> QED BY <1>1, <1>4, <1>6, <2>1, StagingAdopts
  <1>7. \/ object.staging = "there" /\ Clean(p, w, pc)
        \/ /\ ~(r.key /\ ~r.staging /\ r.kind = "staging_assembly" /\ object.staging = "there")
           /\ Local(p, pc)
    BY DEF AdoptStaging
  <1> QED BY <1>5, <1>6, <1>7

\* The immutable version is no concern of staging.
LEMMA AdoptImmutableStaged == ASSUME IInv, Staged, NEW p \in Run, AdoptImmutable(p) PROVE Staged'
  <1> DEFINE w == [row EXCEPT !.immutable = TRUE]
  <1>1. run[p].pc = "recover" /\ run[p].pc \in Cleaning /\ "multipart" \in run[p].row.marks
    BY StagedAtHand DEF AdoptImmutable, Cleaning, StagingRun, Adopting
  <1>2. /\ w.status = row.status /\ w.kind = row.kind /\ w.key = row.key
        /\ w.multipart = row.multipart /\ w.staging = row.staging /\ w.marks = row.marks
    BY AtHand DEF Row
  <1>3. run[p].current => run[p].row = row
    BY AtHand DEF RunFits
  <1>4. PICK pc \in {"scrub", "immutable"} : Clean(p, w, pc) \/ Local(p, pc)
    BY DEF AdoptImmutable
  <1> HIDE DEF w
  <1>5. pc \in Adopting \ {"staging", "noStaging"}
    BY DEF Adopting
  <1>6. row.status = "cleanup_pending" => StagingRow(w, object.multipart, object.staging)
    BY <1>2, CleanedRow
  <1>7. CASE Clean(p, w, pc)
    BY <1>1, <1>2, <1>3, <1>5, <1>6, <1>7, StagingClean
  <1>8. CASE Local(p, pc)
    BY <1>1, <1>5, <1>8, StagingAdopts
  <1> QED BY <1>4, <1>7, <1>8

\* With every mark set nothing is there any more.
LEMMA CompleteStaged == ASSUME IInv, Staged, NEW p \in Run, Complete(p) PROVE Staged'
  <1> DEFINE w == [NoRow EXCEPT !.status = "cleanup_complete", !.until = row.until,
                                !.debt = row.debt, !.attached = row.attached, !.retires = TRUE]
             can == row.status = "cleanup_pending" /\ row.marks = Mark
             pc == IF run[p].op = "purge" THEN "tombstone" ELSE "idle"
  <1>1. run[p].pc = "complete" /\ Write(p, can, w, pc, "idle") /\ can \in BOOLEAN
    BY DEF Complete
  <1>2. w.status = "cleanup_complete" /\ w.kind = "none" /\ ~w.key /\ w.marks = {}
    BY DEF NoRow
  <1>3. pc \in {"tombstone", "idle"} /\ pc \in Step
    BY DEF Step
  <1> HIDE DEF w, pc
  <1>4. can => StagingFits(p, w, pc)
    <2> SUFFICES ASSUME row.status = "cleanup_pending", row.marks = Mark
                 PROVE  StagingFits(p, w, pc)
      OBVIOUS
    <2>1. object.multipart # "there" /\ object.staging # "there"
      BY StillDue DEF MultipartDue, StagingDue, Mark
    <2>2. StagingRow(w, object.multipart, object.staging)
      BY <1>2, <2>1, StillDue DEF StagingRow
    <2>3. \A q \in Run \ {p} : run[q].pc \notin {"fence", "create", "record"}
      BY NoIssuance
    <2> QED BY <1>2, <1>3, <2>1, <2>2, <2>3 DEF StagingFits, Starting, Adopting
  <1>5. run[p].pc # "idle"
    BY <1>1
  <1> HIDE DEF can
  <1> QED BY <1>1, <1>3, <1>4, <1>5, StagingWrites

\* The row of a finished cleanup goes.
LEMMA DeleteTombstoneStaged == ASSUME IInv, Staged, NEW p \in Run, DeleteTombstone(p) PROVE Staged'
  <1>1. run[p].pc = "tombstone" /\ Write(p, row.status = "cleanup_complete", Gone, "idle", "idle")
    BY DEF DeleteTombstone
  <1>2. Gone.status = "gone" /\ Gone.kind = "none" /\ Gone.marks = {}
    BY DEF Gone, NoRow
  <1>3. ASSUME row.status = "cleanup_complete" PROVE StagingFits(p, Gone, "idle")
    <2>1. StagingRow(Gone, object.multipart, object.staging)
      BY <1>2, StagedAtHand DEF StagingRow
    <2>2. \A q \in Run \ {p} : run[q].pc \notin {"fence", "create", "record"}
      BY <1>3, NoIssuance
    <2> QED BY <1>2, <2>1, <2>2 DEF StagingFits, Starting, Adopting
  <1> QED BY <1>1, <1>3, StagingWrites DEF Step
-----------------------------------------------------------------------------
(* The calls to S3.                                                        *)

\* A call that leaves staging alone or deletes from it.
LEMMA StagingProvider ==
    ASSUME IInv, Staged, NEW p \in Run, run[p].pc # "idle", NEW new, NEW pc \in Step,
           NEW failed \in Step, Provider(p, new, pc, failed),
           new.multipart \in {object.multipart, Deleted(object.multipart)},
           new.staging \in {object.staging, Deleted(object.staging)},
           failed \in Loose \/ (failed = "fail" /\ run[p].pc \in Starting),
           \/ pc \in Loose
           \/ pc = "fail" /\ run[p].pc \in Starting
           \/ run[p].pc \in Adopting /\ pc \in Adopting \ {"staging", "noStaging"}
           \/ pc \notin Starting /\ StagingRun([run[p] EXCEPT !.pc = pc], row, new.multipart,
                                               new.staging, clock)
    PROVE  Staged'
  <1>1. UNCHANGED <<row, clock>>
    BY DEF Provider
  <1>2. CASE object' = new /\ Goto(p, pc)
    BY <1>1, <1>2, StagingShrinks
  <1>3. CASE object' \in {new, object} /\ Goto(p, failed)
    BY <1>1, <1>3, StagingShrinks
  <1> QED BY <1>2, <1>3 DEF Provider

\* What the two kinds of deletion leave.
LEMMA DeletionFacts ==
    ASSUME IInv
    PROVE  /\ [object EXCEPT !.multipart = Deleted(@)].multipart = Deleted(object.multipart)
           /\ [object EXCEPT !.multipart = Deleted(@)].staging = object.staging
           /\ [object EXCEPT !.staging = Deleted(@)].staging = Deleted(object.staging)
           /\ [object EXCEPT !.staging = Deleted(@)].multipart = object.multipart
           /\ Deleted(object.multipart) # "there" /\ Deleted(object.staging) # "there"
  BY DEF IInv, TypeOK, Held, Deleted

\* The account's fence is read; S3 holds nothing of the issuance yet.
LEMMA ReadFenceStaged == ASSUME IInv, Staged, NEW p \in Run, ReadFence(p) PROVE Staged'
  <1>1. /\ run[p].pc = "fence" /\ run[p].pc \in Starting /\ {"fail", "create"} \subseteq Step
        /\ Local(p, "fail") \/ Local(p, "create")
    BY DEF ReadFence, Starting, Step
  <1>2. CASE Local(p, "fail")
    BY <1>1, <1>2, StagingLocal
  <1>3. CASE Local(p, "create")
    <2>1. StagingRun([run[p] EXCEPT !.pc = "create"], row, object.multipart, object.staging, clock)
      <3> DEFINE x == [run[p] EXCEPT !.pc = "create"]
      <3>1. x.pc = "create" /\ x.row = run[p].row /\ x.now = run[p].now
            /\ x.current = run[p].current
        BY AtHand DEF RunRecord
      <3> HIDE DEF x
      <3>2. StagingRun(x, row, object.multipart, object.staging, clock)
        BY <1>1, <3>1, StagedAtHand DEF StagingRun, Staging, Adopting
      <3> QED BY <3>2 DEF x
    <2>2. /\ Goto(p, "create") /\ UNCHANGED <<row, object, clock>> /\ "create" \in Step
          /\ run[p].pc # "idle"
      BY <1>1, <1>3 DEF Local
    <2>3. /\ StagingRow(row, object.multipart, object.staging)
          /\ \A q \in Run \ {p} :
                StagingRun(run[q], row, object.multipart, object.staging, clock)
      BY StagedAtHand
    <2> QED BY <1>1, <2>1, <2>2, <2>3, StagingGoto
  <1> QED BY <1>1, <1>2, <1>3

\* The multipart upload of an issuance is due before it is known.
LEMMA CreateStaged == ASSUME IInv, Staged, NEW p \in Run, Create(p) PROVE Staged'
  <1> DEFINE new == [object EXCEPT !.multipart = "there"]
  <1>1. run[p].pc = "create" /\ run[p].pc \in Starting
        /\ Provider(p, new, "record", "fail")
    BY DEF Create, Starting
  <1>2. new.multipart = "there" /\ new.staging = object.staging
    BY DEF IInv, TypeOK
  <1> HIDE DEF new
  <1>3. {"fail", "record"} \subseteq Step
    BY DEF Step
  <1>4. CASE Provider(p, new, "record", "fail")
    <2>1. UNCHANGED <<row, clock>> /\ (object' = object \/ object' = new)
          /\ (object' = object => Goto(p, "fail"))
          /\ (Goto(p, "fail") \/ Goto(p, "record"))
      <3>1. CASE object' = new /\ object # new
        BY <1>4, <3>1 DEF Provider
      <3>2. CASE object' = object /\ object # new
        BY <1>4, <3>2 DEF Provider
      <3>3. object # new
        BY <1>1, <1>2, StagedAtHand DEF StagingRun
      <3> QED BY <1>4, <3>1, <3>2, <3>3 DEF Provider
    <2>2. CASE object' = object
      BY <1>1, <1>3, <2>1, <2>2, StagingShrinks
    <2>3. CASE object' = new
      <3>1. /\ row.status = "issuing" /\ object.staging = "none" /\ object.multipart = "none"
            /\ run[p].current /\ row.until = run[p].now + UsableTime
        BY <1>1, StagedAtHand DEF StagingRun
      <3>2. StagingRow(row, "there", object.staging)
        BY <3>1, StagedAtHand DEF StagingRow, MultipartDue, Aborts, Past
      <3>3. ASSUME NEW q \in Run \ {p}
            PROVE  StagingRun(run[q], row, "there", object.staging, clock)
        <4>1. run[q].pc \notin {"fence", "create"}
          BY <1>1 DEF Staged, OneStart, Starting
        <4>2. run[q].pc \notin Cleaning /\ run[q].pc \notin Staging
          BY <3>1, AtHand, StagedAtHand DEF RunFits, StagingRun, Past
        <4> QED BY <4>1, <4>2, StagedAtHand DEF StagingRun, Staging, Cleaning
      <3>4. PICK pc \in {"fail", "record"} : Goto(p, pc)
        BY <2>1
      <3>5. StagingRun([run[p] EXCEPT !.pc = pc], row, "there", object.staging, clock)
        <4> DEFINE x == [run[p] EXCEPT !.pc = pc]
        <4>1. x.pc = pc /\ x.row = run[p].row /\ x.now = run[p].now
              /\ x.current = run[p].current
          BY AtHand DEF RunRecord
        <4> HIDE DEF x
        <4>2. StagingRun(x, row, "there", object.staging, clock)
          BY <1>1, <3>1, <3>4, <4>1, StagedAtHand DEF StagingRun, Staging, Adopting
        <4> QED BY <4>2 DEF x
      <3>6. pc \in Step /\ run[p].pc # "idle" /\ object'.multipart = "there"
            /\ object'.staging = object.staging
        BY <1>1, <1>2, <1>3, <2>3
      <3> QED BY <1>1, <2>1, <3>2, <3>3, <3>4, <3>5, <3>6, StagingGoto
    <2> QED BY <2>1, <2>2, <2>3
  <1> QED BY <1>1, <1>4

\* The multipart upload of an issuance that failed is aborted.
LEMMA AbortStaged == ASSUME IInv, Staged, NEW p \in Run, Abort(p) PROVE Staged'
  <1> DEFINE new == [object EXCEPT !.multipart = Deleted(@)]
  <1>1. run[p].pc = "abort" /\ run[p].pc \in Starting /\ Provider(p, new, "fail", "fail")
    BY DEF Abort, Starting
  <1>2. /\ new.multipart \in {object.multipart, Deleted(object.multipart)}
        /\ new.staging \in {object.staging, Deleted(object.staging)}
    BY DeletionFacts
  <1>3. "fail" \in Step
    BY DEF Step
  <1> HIDE DEF new
  <1> QED BY <1>1, <1>2, <1>3, StagingProvider

\* A completion turns what is due from the multipart upload into a staging version.
LEMMA AssembleStaged == ASSUME IInv, Staged, NEW p \in Run, Assemble(p) PROVE Staged'
  <1> DEFINE new == [object EXCEPT !.multipart = "gone", !.staging = "there"]
  <1>1. run[p].pc = "assemble" /\ {"idle", "store"} \subseteq Step /\ "idle" \in Loose
    BY DEF Assemble, Step, Loose, Starting, Staging, Adopting
  <1>2. \/ Local(p, "idle")
        \/ object.multipart = "there" /\ Provider(p, new, "store", "idle")
    BY DEF Assemble
  <1>3. new.multipart = "gone" /\ new.staging = "there"
    BY DEF IInv, TypeOK
  <1> HIDE DEF new
  <1>4. CASE Local(p, "idle")
    BY <1>1, <1>4, StagingLocal
  <1>5. CASE object.multipart = "there" /\ Provider(p, new, "store", "idle")
    <2>1. PICK pc \in {"idle", "store"} : /\ Goto(p, pc) /\ object' \in {object, new}
                                          /\ pc = "store" => object' = new
      BY <1>5 DEF Provider
    <2>2. UNCHANGED <<row, clock>>
      BY <1>5 DEF Provider
    <2>3. CASE object' = object /\ pc = "idle"
      BY <1>1, <2>1, <2>2, <2>3, StagingShrinks
    <2>4. CASE object' = new
      <3>1. /\ row.status \notin {"none", "issuing"}
            /\ row.status \notin {"consumed", "gone"} =>
                  row.kind = "staging_assembly" /\ MultipartDue(row)
        BY <1>1, <1>5, StagedAtHand DEF StagingRun, StagingRow, Staging
      <3>2. row.status \notin {"validating", "promoting", "validated"}
        BY <1>5, Assembled
      <3>3. StagingRow(row, "gone", "there")
        BY <3>1, <3>2, StagedAtHand DEF StagingRow, MultipartDue, StagingDue, Aborts
      <3>4. ASSUME NEW q \in Run PROVE StagingRun(run[q], row, "gone", "there", clock)
        <4>1. run[q].pc \notin {"fence", "create", "record"}
          BY <3>1, StagedAtHand DEF StagingRun
        <4>2. run[q].pc \in {"staging", "noStaging"} => ~run[q].current
          <5> SUFFICES ASSUME run[q].pc \in {"staging", "noStaging"}, run[q].current PROVE FALSE
            OBVIOUS
          <5>1. "multipart" \in row.marks /\ row.status \in Past \ {"gone"}
            BY AtHand, StagedAtHand DEF RunFits, StagingRun, Adopting, Cleaning
          <5> QED BY <3>1, <5>1 DEF MultipartDue, Past
        <4> QED BY <3>2, <4>1, <4>2, StagedAtHand DEF StagingRun
      <3>5. StagingRun([run[p] EXCEPT !.pc = pc], row, "gone", "there", clock)
        <4> DEFINE x == [run[p] EXCEPT !.pc = pc]
        <4>1. x.pc = pc /\ x.row = run[p].row /\ x.now = run[p].now
              /\ x.current = run[p].current
          BY AtHand DEF RunRecord
        <4> HIDE DEF x
        <4>2. StagingRun(x, row, "gone", "there", clock)
          BY <1>1, <2>1, <3>1, <3>4, <4>1 DEF StagingRun, Staging, Adopting
        <4> QED BY <4>2 DEF x
      <3>6. pc \in Step /\ run[p].pc # "idle" /\ object'.multipart = "gone"
            /\ object'.staging = "there" /\ pc \notin Starting
        BY <1>1, <1>3, <2>1, <2>4 DEF Starting
      <3> QED BY <2>1, <2>2, <3>3, <3>4, <3>5, <3>6, StagingGoto
    <2> QED BY <2>1, <2>3, <2>4
  <1> QED BY <1>2, <1>4, <1>5

\* Who takes over records a staging version only if there is one.
LEMMA MatchStaged == ASSUME IInv, Staged, NEW p \in Run, Match(p) PROVE Staged'
  <1>1. run[p].pc = "match" /\ {"idle", "finish"} \subseteq Loose
        /\ {"idle", "finish", "store"} \subseteq Step
    BY DEF Match, Step, Loose, Starting, Staging, Adopting
  <1>2. PICK pc \in {"idle", "finish", "store"} :
           Local(p, pc) /\ (pc = "store" => object.staging = "there")
    BY DEF Match
  <1>3. CASE pc \in {"idle", "finish"}
    BY <1>1, <1>2, <1>3, StagingLocal
  <1>4. CASE pc = "store"
    <2> DEFINE x == [run[p] EXCEPT !.pc = pc]
    <2>1. x.pc = pc /\ x.row = run[p].row /\ x.now = run[p].now /\ x.current = run[p].current
      BY AtHand DEF RunRecord
    <2>2. object.multipart = "gone"
      BY <1>2, <1>4, StagedAtHand DEF StagingRow
    <2> HIDE DEF x
    <2>3. StagingRun(x, row, object.multipart, object.staging, clock)
      BY <1>1, <1>4, <2>1, <2>2, StagedAtHand DEF StagingRun, Staging, Adopting
    <2>4. pc \notin Starting /\ pc \in Step
      BY <1>1, <1>4 DEF Starting
    <2> QED BY <1>1, <1>2, <2>3, <2>4, StagingLocal DEF x
  <1> QED BY <1>2, <1>3, <1>4

\* The other steps of a call rely on nothing in staging.
LEMMA LooseStaged ==
    ASSUME IInv, Staged, NEW p \in Run,
           Crash(p) \/ Pin(p) \/ Validate(p) \/ DropStaging(p) \/ Put(p)
    PROVE  Staged'
  <1>1. run[p].pc # "idle" /\ {"idle", "promote", "refuse", "finish"} \subseteq Loose
        /\ {"idle", "promote", "refuse", "finish"} \subseteq Step
    BY DEF Crash, Pin, Validate, DropStaging, Put, Step, Loose, Starting, Staging, Adopting
  <1>2. CASE Crash(p)
    <2>1. Goto(p, "idle") /\ UNCHANGED <<row, object, clock>>
      BY <1>2 DEF Crash, Goto, At
    <2> QED BY <1>1, <2>1, StagingShrinks
  <1>3. CASE Pin(p)
    <2>1. Goto(p, "idle") /\ UNCHANGED <<row, object, clock>>
      BY <1>3 DEF Pin
    <2> QED BY <1>1, <2>1, StagingShrinks
  <1>4. CASE Validate(p)
    <2>1. PICK pc \in {"idle", "promote", "refuse"} : Local(p, pc)
      BY <1>4 DEF Validate
    <2> QED BY <1>1, <2>1, StagingLocal
  <1>5. CASE DropStaging(p)
    <2> DEFINE new == [object EXCEPT !.staging = Deleted(@)]
    <2>1. /\ new.multipart \in {object.multipart, Deleted(object.multipart)}
          /\ new.staging \in {object.staging, Deleted(object.staging)}
          /\ Provider(p, new, "idle", "idle")
      BY <1>5, DeletionFacts DEF DropStaging
    <2> HIDE DEF new
    <2> QED BY <1>1, <2>1, StagingProvider
  <1>6. CASE Put(p)
    <2> DEFINE new == [object EXCEPT !.immutable = "there"]
    <2>1. /\ new.multipart \in {object.multipart, Deleted(object.multipart)}
          /\ new.staging \in {object.staging, Deleted(object.staging)}
      BY DEF IInv, TypeOK
    <2>2. Provider(p, new, "finish", "idle")
      BY <1>6 DEF Put
    <2> HIDE DEF new
    <2> QED BY <1>1, <2>1, <2>2, StagingProvider
  <1> QED BY <1>2, <1>3, <1>4, <1>5, <1>6

\* The debt is forgotten only when the staging version is gone.
LEMMA OweStaged == ASSUME IInv, Staged, NEW p \in Run, Owe(p) PROVE Staged'
  <1> DEFINE new == [object EXCEPT !.staging = Deleted(@)]
             x == [run[p] EXCEPT !.pc = "clear"]
  <1>1. run[p].pc = "owe" /\ Provider(p, new, "clear", "idle")
    BY DEF Owe
  <1>2. /\ new.multipart = object.multipart /\ new.staging = Deleted(object.staging)
        /\ new.staging # "there"
    BY DeletionFacts
  <1>3. x.pc = "clear" /\ x.row = run[p].row /\ x.now = run[p].now /\ x.current = run[p].current
    BY AtHand DEF RunRecord
  <1> HIDE DEF new, x
  <1>4. StagingRun(x, row, new.multipart, new.staging, clock)
    BY <1>1, <1>2, <1>3, StagedAtHand DEF StagingRun, Staging, Adopting
  <1>5. "clear" \in Step /\ "idle" \in Step /\ "idle" \in Loose /\ "clear" \notin Starting
    BY DEF Step, Loose, Starting, Staging, Adopting
  <1> QED BY <1>1, <1>2, <1>4, <1>5, StagingProvider DEF x

\* A cleanup that holds its row goes on only with no multipart upload there.
LEMMA AbortMultipartStaged == ASSUME IInv, Staged, NEW p \in Run, AbortMultipart(p) PROVE Staged'
  <1> DEFINE new == [object EXCEPT !.multipart = Deleted(@)]
             x == [run[p] EXCEPT !.pc = "noMultipart"]
             r == run[p].row
  <1>1. run[p].pc = "multipart"
    BY DEF AbortMultipart
  <1>2. /\ new.multipart = Deleted(object.multipart) /\ new.staging = object.staging
        /\ new.multipart # "there"
    BY DeletionFacts
  <1>3. x.pc = "noMultipart" /\ x.row = r /\ x.now = run[p].now /\ x.current = run[p].current
    BY AtHand DEF RunRecord
  <1>4. "noMultipart" \in Step /\ "idle" \in Step /\ "idle" \in Loose
        /\ "noMultipart" \notin Starting
    BY DEF Step, Loose, Starting, Staging, Adopting
  <1>5. \/ Provider(p, new, "noMultipart", "idle")
        \/ ~Aborts(r) /\ Local(p, "noMultipart")
    BY DEF AbortMultipart, Aborts
  <1> HIDE DEF new, x
  <1>6. CASE Provider(p, new, "noMultipart", "idle")
    <2>1. StagingRun(x, row, new.multipart, new.staging, clock)
      BY <1>1, <1>2, <1>3, StagedAtHand DEF StagingRun, Staging, Adopting
    <2> QED BY <1>1, <1>2, <1>4, <1>6, <2>1, StagingProvider DEF x
  <1>7. CASE ~Aborts(r) /\ Local(p, "noMultipart")
    <2>1. run[p].current => object.multipart # "there"
      <3>1. run[p].current => r = row /\ row.status \in Past \ {"gone"}
        BY <1>1, AtHand DEF RunFits, Cleaning
      <3> QED BY <1>7, <3>1, StagedAtHand DEF StagingRow, MultipartDue, Past
    <2>2. StagingRun(x, row, object.multipart, object.staging, clock)
      BY <1>1, <1>3, <2>1, StagedAtHand DEF StagingRun, Staging, Adopting
    <2> QED BY <1>1, <1>4, <1>7, <2>2, StagingLocal DEF x
  <1> QED BY <1>5, <1>6, <1>7

\* ... and then only with no staging version there.
LEMMA DeleteStagingStaged == ASSUME IInv, Staged, NEW p \in Run, DeleteStaging(p) PROVE Staged'
  <1> DEFINE new == [object EXCEPT !.staging = Deleted(@)]
             x == [run[p] EXCEPT !.pc = "noStaging"]
             r == run[p].row
  <1>1. run[p].pc = "staging" /\ "multipart" \in r.marks
    BY StagedAtHand DEF DeleteStaging, StagingRun, Adopting
  <1>2. /\ new.multipart = object.multipart /\ new.staging = Deleted(object.staging)
        /\ new.staging # "there"
    BY DeletionFacts
  <1>3. x.pc = "noStaging" /\ x.row = r /\ x.now = run[p].now /\ x.current = run[p].current
    BY AtHand DEF RunRecord
  <1>4. "noStaging" \in Step /\ "idle" \in Step /\ "idle" \in Loose /\ "noStaging" \notin Starting
    BY DEF Step, Loose, Starting, Staging, Adopting
  <1>5. \/ Provider(p, new, "noStaging", "idle")
        \/ ~(r.key /\ r.staging) /\ Local(p, "noStaging")
    BY DEF DeleteStaging
  <1> HIDE DEF new, x
  <1>6. CASE Provider(p, new, "noStaging", "idle")
    <2>1. StagingRun(x, row, new.multipart, new.staging, clock)
      BY <1>1, <1>2, <1>3, StagedAtHand DEF StagingRun, Staging, Adopting
    <2> QED BY <1>1, <1>2, <1>4, <1>6, <2>1, StagingProvider DEF x
  <1>7. CASE ~(r.key /\ r.staging) /\ Local(p, "noStaging")
    <2>1. run[p].current => object.staging # "there"
      <3>1. run[p].current => r = row /\ row.status \in Past \ {"gone"}
        BY <1>1, AtHand DEF RunFits, Cleaning
      <3>2. run[p].current /\ object.staging = "there" => row.staging /\ row.key
        BY <1>1, <3>1, StagedAtHand DEF StagingRun, StagingRow, StagingDue, Past
      <3> QED BY <1>7, <3>1, <3>2
    <2>2. StagingRun(x, row, object.multipart, object.staging, clock)
      BY <1>1, <1>3, <2>1, StagedAtHand DEF StagingRun, Staging, Adopting
    <2> QED BY <1>1, <1>4, <1>7, <2>2, StagingLocal DEF x
  <1> QED BY <1>5, <1>6, <1>7

\* The rest of a cleanup is no concern of staging.
LEMMA RestStaged ==
    ASSUME IInv, Staged, NEW p \in Run, DeleteImmutable(p) \/ ScrubParts(p)
    PROVE  Staged'
  <1>1. /\ run[p].pc \in {"immutable", "scrub"} /\ run[p].pc \in Adopting
        /\ "multipart" \in run[p].row.marks
        /\ {"noImmutable", "complete", "noParts"} \subseteq Adopting \ {"staging", "noStaging"}
        /\ {"noImmutable", "idle", "complete", "noParts"} \subseteq Step /\ "idle" \in Loose
    BY StagedAtHand
       DEF DeleteImmutable, ScrubParts, StagingRun, Adopting, Step, Loose, Starting, Staging
  <1>2. CASE \E pc \in {"noImmutable", "complete", "noParts"} : Local(p, pc)
    BY <1>1, <1>2, StagingAdopts
  <1>3. CASE Goto(p, "idle") /\ UNCHANGED <<row, object, clock>>
    BY <1>1, <1>3, StagingShrinks
  <1>4. CASE DeleteImmutable(p) /\ run[p].row.target /\ run[p].row.immutable
    <2> DEFINE new == [object EXCEPT !.immutable = Deleted(@)]
    <2>1. /\ new.multipart \in {object.multipart, Deleted(object.multipart)}
          /\ new.staging \in {object.staging, Deleted(object.staging)}
      BY DEF IInv, TypeOK
    <2>2. Provider(p, new, "noImmutable", "idle")
      BY <1>4 DEF DeleteImmutable
    <2> HIDE DEF new
    <2> QED BY <1>1, <2>1, <2>2, StagingProvider
  <1> QED BY <1>2, <1>3, <1>4 DEF DeleteImmutable, ScrubParts
-----------------------------------------------------------------------------
(* The calls that begin, and the world.                                    *)

\* A run that begins has all of its time before it, and an issuance is the only run.
LEMMA BeginStaged ==
    ASSUME IInv, Staged, NEW p \in Run, NEW op,
           NEW pc \in {"pin", "claim", "takeover", "validate", "owe", "bind", "clean", "close"},
           Begin(p, op, pc), pc = "takeover" => row.status \in {"assembling", "promoting"}
    PROVE  Staged'
  <1> DEFINE x == [pc |-> pc, op |-> op, now |-> clock, row |-> row, current |-> TRUE]
  <1>1. UNCHANGED <<row, object, clock>> /\ run' = [run EXCEPT ![p] = x]
    BY DEF Begin
  <1>2. run \in [Run -> RunRecord]
    BY DEF IInv, TypeOK, RunRecord
  <1>3. x.pc = pc /\ x.now = clock
    OBVIOUS
  <1> HIDE DEF x
  <1>4. StagingRun(x, row, object.multipart, object.staging, clock)
    BY <1>3, AtHand, StagedAtHand DEF StagingRun, Staging, Adopting
  <1>5. run'[p] = x /\ \A q \in Run \ {p} : run'[q] = run[q]
    BY <1>1, <1>2
  <1>6. \A q \in Run : StagingRun(run'[q], row, object.multipart, object.staging, clock)
    BY <1>4, <1>5, StagedAtHand
  <1>7. OneStart'
    BY <1>3, <1>5 DEF Staged, OneStart, Starting
  <1>8. StagingRow(row, object.multipart, object.staging)
    BY StagedAtHand
  <1> QED BY <1>1, <1>6, <1>7, <1>8 DEF Staged

\* Sign, complete, send and the jobs.
LEMMA CallsStaged ==
    ASSUME IInv, Staged, NEW p \in Run,
           CallSign(p) \/ CallComplete(p) \/ CallSend(p) \/ StartSweep(p) \/ StartPurge(p)
    PROVE  Staged'
  <1>1. CASE CallComplete(p)
    <2> DEFINE pc == CompleteFrom(row)
    <2>1. /\ pc \in {"claim", "takeover", "validate", "owe"}
          /\ pc = "takeover" => row.status \in {"assembling", "promoting"}
      BY <1>1 DEF CallComplete, CompleteFrom
    <2>2. Begin(p, "complete", pc)
      BY <1>1 DEF CallComplete
    <2> HIDE DEF pc
    <2> QED BY <2>1, <2>2, BeginStaged
  <1>2. CASE CallSign(p) \/ CallSend(p) \/ StartSweep(p)
    <2>1. \/ Begin(p, "sign", "pin") \/ Begin(p, "send", "bind") \/ Begin(p, "sweep", "clean")
      BY <1>2 DEF CallSign, CallSend, StartSweep
    <2> QED BY <2>1, BeginStaged
  <1>3. CASE StartPurge(p)
    <2>1. PICK pc \in {"clean", "close"} : Begin(p, "purge", pc)
      BY <1>3 DEF StartPurge
    <2> QED BY <2>1, BeginStaged
  <1> QED BY <1>1, <1>2, <1>3

\* The upload is issued; S3 holds nothing of it yet.
LEMMA StartStaged == ASSUME IInv, Staged, NEW p \in Run, Start(p) PROVE Staged'
  <1> DEFINE v == Claimed(NoRow, "staging_issuance", "issuing", clock)
             w == [v EXCEPT !.key = TRUE, !.until = clock + UsableTime]
             x == [pc |-> "fence", op |-> "start", now |-> clock, row |-> w, current |-> TRUE]
  <1>1. /\ row.status = "none" /\ row' = w /\ run' = [run EXCEPT ![p] = x]
        /\ UNCHANGED <<object, clock>>
    BY DEF Start
  <1>2. Named(v, NoRow, "issuing", "staging_issuance")
    BY AtHand, IdleFacts, NamedFacts DEF Status, Unspent, Kind
  <1>3. x.pc = "fence" /\ x.now = clock /\ x.row = w /\ x.current
    OBVIOUS
  <1>4. NoRow.marks = {} /\ ~NoRow.staging
    BY DEF NoRow
  <1> HIDE DEF v
  <1>5. /\ w.status = "issuing" /\ w.kind = "staging_issuance" /\ w.key /\ ~w.staging
        /\ w.marks = {} /\ w.until = clock + UsableTime
    BY <1>2, <1>4 DEF Named, Row
  <1> HIDE DEF w, x
  <1>6. object.multipart = "none" /\ object.staging = "none"
    BY <1>1, StagedAtHand DEF StagingRow
  <1>7. StagingRow(w, object.multipart, object.staging)
    BY <1>5, <1>6 DEF StagingRow
  <1>8. StagingRun(x, w, object.multipart, object.staging, clock)
    BY <1>3, <1>5, <1>6, AtHand, StagedAtHand DEF StagingRun, Staging, Adopting
  <1>9. \A q \in Run : run[q].pc = "idle"
    BY <1>1, AtHand DEF RunFits
  <1>10. run'[p] = x /\ \A q \in Run \ {p} : run'[q] = run[q] /\ run'[q].pc = "idle"
    <2>1. run \in [Run -> RunRecord]
      BY DEF IInv, TypeOK, RunRecord
    <2> QED BY <1>1, <1>9, <2>1
  <1>11. \A q \in Run : StagingRun(run'[q], w, object.multipart, object.staging, clock)
    BY <1>8, <1>10 DEF StagingRun, Staging, Adopting
  <1>12. OneStart'
    BY <1>10 DEF OneStart, Starting
  <1> QED BY <1>1, <1>7, <1>11, <1>12 DEF Staged

\* Time passes while every run is within its own, rows retire and attachments go.
LEMMA WorldStaged ==
    ASSUME IInv, Staged, Tick \/ Retire \/ DropAttachment
    PROVE  Staged'
  <1>1. run' = run /\ object'.multipart = object.multipart /\ object'.staging = object.staging
    BY DEF Tick, Retire, DropAttachment, IInv, TypeOK
  <1>2. OneStart'
    BY <1>1 DEF Staged, OneStart
  <1>3. CASE Tick
    <2>1. row' = row /\ clock' = clock + 1
      BY <1>3 DEF Tick
    <2>2. ASSUME NEW q \in Run
          PROVE  StagingRun(run[q], row, object.multipart, object.staging, clock + 1)
      <3>1. run[q].pc # "idle" => clock + 1 <= run[q].now + RunTime
        <4>1. run[q].now \in Nat /\ clock \in Nat /\ RunTime \in Nat
          BY AtHand, StagedAtHand
        <4> QED BY <1>3, <4>1 DEF Tick
      <3> QED BY <3>1, StagedAtHand DEF StagingRun
    <2> QED BY <1>1, <1>2, <2>1, <2>2 DEF Staged
  <1>4. CASE Retire
    <2>1. row' = Gone /\ clock' = clock /\ \A q \in Run : run[q].pc = "idle"
      BY <1>4 DEF Retire
    <2>2. Gone.status = "gone" /\ Gone.kind = "none" /\ Gone.marks = {}
      BY DEF Gone, NoRow
    <2>3. StagingRow(Gone, object.multipart, object.staging)
      BY <2>2 DEF Staged, StagingRow
    <2>4. \A q \in Run : StagingRun(run[q], Gone, object.multipart, object.staging, clock)
      BY <2>1 DEF StagingRun, Staging, Adopting
    <2> QED BY <1>1, <1>2, <2>1, <2>3, <2>4 DEF Staged
  <1>5. CASE DropAttachment
    <2>1. row' = row /\ clock' = clock
      BY <1>5 DEF DropAttachment
    <2> QED BY <1>1, <1>2, <2>1 DEF Staged
  <1> QED BY <1>3, <1>4, <1>5
-----------------------------------------------------------------------------
(* The invariant.                                                          *)

\* At first S3 holds nothing.
LEMMA InitStaged == Init => StagingInv
  <1> SUFFICES ASSUME Init PROVE Staged
    BY DEF StagingInv
  <1>1. \A p \in Run : run[p] = IdleRun
    BY DEF Init
  <1>2. StagingRow(NoRow, "none", "none")
    BY DEF StagingRow, NoRow
  <1>3. OneStart
    BY <1>1, IdleFacts DEF OneStart, Starting
  <1> QED BY <1>1, <1>2, <1>3, StagingIdle DEF Init, Staged

\* Only the account's deletion closes it, and it stays closed.
LEMMA ClosingStays ==
    ASSUME Next, ~closing'
    PROVE  ~closing /\ ~CloseAccount
  <1>1. ~CloseAccount
    BY DEF CloseAccount
  <1>2. ASSUME NEW p \in Run,
               Crash(p) \/ Called(p) \/ StartSweep(p) \/ StartPurge(p) \/ OwnersStep(p)
                 \/ CleanupStep(p)
        PROVE  closing' = closing
    <2>1. CASE Crash(p) \/ StartSweep(p) \/ StartPurge(p)
      BY <2>1 DEF Crash, StartSweep, StartPurge, Begin
    <2>2. CASE Called(p)
      BY <2>2 DEF Called, Start, CallSign, CallComplete, CallSend, Begin
    <2>3. CASE ReadFence(p) \/ Create(p) \/ Record(p) \/ Abort(p) \/ IssuanceFailed(p) \/ Pin(p)
      BY <2>3 DEF ReadFence, Create, Record, Abort, IssuanceFailed, Pin, Write, Provider, Local
    <2>4. CASE ClaimAssembly(p) \/ Assemble(p) \/ Takeover(p) \/ Match(p) \/ StoreStaging(p)
      BY <2>4 DEF ClaimAssembly, Assemble, Takeover, Match, StoreStaging, Write, Provider, Local
    <2>5. CASE Validate(p) \/ Refuse(p) \/ DropStaging(p) \/ Promote(p) \/ Put(p)
      BY <2>5 DEF Validate, Refuse, DropStaging, Promote, Put, Write, Provider, Local
    <2>6. CASE Finish(p) \/ Owe(p) \/ Clear(p) \/ Bind(p)
      BY <2>6 DEF Finish, Owe, Clear, Bind, Write, Provider, Local
    <2>7. CASE CloseUpload(p) \/ ClaimCleanup(p) \/ ScanReferences(p) \/ AbortMultipart(p)
                 \/ MarkMultipart(p)
      BY <2>7 DEF CloseUpload, ClaimCleanup, ScanReferences, AbortMultipart, MarkMultipart, Clean,
                  Write, Provider, Local
    <2>8. CASE AdoptStaging(p) \/ DeleteStaging(p) \/ MarkStaging(p) \/ AdoptImmutable(p)
                 \/ DeleteImmutable(p)
      BY <2>8 DEF AdoptStaging, DeleteStaging, MarkStaging, AdoptImmutable, DeleteImmutable, Clean,
                  Write, Provider, Local
    <2>9. CASE MarkImmutable(p) \/ ScrubParts(p) \/ MarkParts(p) \/ Complete(p)
                 \/ DeleteTombstone(p)
      BY <2>9 DEF MarkImmutable, ScrubParts, MarkParts, Complete, DeleteTombstone, Clean, Write,
                  Local
    <2> QED BY <1>2, <2>1, <2>2, <2>3, <2>4, <2>5, <2>6, <2>7, <2>8, <2>9
               DEF OwnersStep, CleanupStep
  <1>3. closing' = closing
    <2>1. CASE Tick \/ Retire \/ DropAttachment
      BY <2>1 DEF Tick, Retire, DropAttachment
    <2> QED BY <1>1, <1>2, <2>1 DEF Next
  <1> QED BY <1>1, <1>3

\* While the account is open, what is in staging stays due.
LEMMA NextStaged == IInv /\ StagingInv /\ [Next]_vars => StagingInv'
  <1> SUFFICES ASSUME IInv, StagingInv, [Next]_vars, ~closing' PROVE Staged'
    BY DEF StagingInv
  <1>1. CASE UNCHANGED vars
    <2>1. Staged /\ UNCHANGED <<row, object, clock, run>>
      BY <1>1 DEF vars, StagingInv
    <2> QED BY <2>1 DEF Staged, OneStart
  <1>2. CASE Next
    <2>1. ~closing /\ ~CloseAccount /\ Staged
      BY <1>2, ClosingStays DEF StagingInv
    <2>2. CASE Tick \/ Retire \/ DropAttachment
      BY <2>1, <2>2, WorldStaged
    <2>3. CASE \E p \in Run : Called(p) \/ StartSweep(p) \/ StartPurge(p)
      BY <2>1, <2>3, StartStaged, CallsStaged DEF Called
    <2>4. CASE \E p \in Run : Crash(p)
      BY <2>1, <2>4, LooseStaged
    <2>5. CASE \E p \in Run : OwnersStep(p)
      <3>1. PICK p \in Run : OwnersStep(p)
        BY <2>5
      <3>2. CASE ReadFence(p) \/ Create(p) \/ Record(p) \/ Abort(p) \/ IssuanceFailed(p)
        BY <2>1, <3>2, ReadFenceStaged, CreateStaged, RecordStaged, AbortStaged,
           IssuanceFailedStaged
      <3>3. CASE ClaimAssembly(p) \/ Assemble(p) \/ Takeover(p) \/ Match(p) \/ StoreStaging(p)
        BY <2>1, <3>3, ClaimAssemblyStaged, AssembleStaged, TakeoverStaged, MatchStaged,
           StoreStagingStaged
      <3>4. CASE Pin(p) \/ Validate(p) \/ DropStaging(p) \/ Put(p)
        BY <2>1, <3>4, LooseStaged
      <3>5. CASE Refuse(p) \/ Promote(p) \/ Finish(p)
        BY <2>1, <3>5, RefuseStaged, PromoteStaged, FinishStaged
      <3>6. CASE Owe(p) \/ Clear(p) \/ Bind(p)
        BY <2>1, <3>6, OweStaged, ClearStaged, BindStaged
      <3> QED BY <3>1, <3>2, <3>3, <3>4, <3>5, <3>6 DEF OwnersStep
    <2>6. CASE \E p \in Run : CleanupStep(p)
      <3>1. PICK p \in Run : CleanupStep(p)
        BY <2>6
      <3>2. CASE CloseUpload(p)
        <4>1. closing
          BY <3>2, AtHand DEF CloseUpload, RunFits
        <4> QED BY <2>1, <4>1
      <3>3. CASE ClaimCleanup(p) \/ ScanReferences(p) \/ AbortMultipart(p) \/ MarkMultipart(p)
        BY <2>1, <3>3, ClaimCleanupStaged, ScanReferencesStaged, AbortMultipartStaged,
           MarkMultipartStaged
      <3>4. CASE AdoptStaging(p) \/ DeleteStaging(p) \/ MarkStaging(p)
        BY <2>1, <3>4, AdoptStagingStaged, DeleteStagingStaged, MarkStagingStaged
      <3>5. CASE AdoptImmutable(p) \/ MarkImmutable(p) \/ MarkParts(p)
        BY <2>1, <3>5, AdoptImmutableStaged, MarkOthersStaged
      <3>6. CASE DeleteImmutable(p) \/ ScrubParts(p)
        BY <2>1, <3>6, RestStaged
      <3>7. CASE Complete(p) \/ DeleteTombstone(p)
        BY <2>1, <3>7, CompleteStaged, DeleteTombstoneStaged
      <3> QED BY <3>1, <3>2, <3>3, <3>4, <3>5, <3>6, <3>7 DEF CleanupStep
    <2> QED BY <1>2, <2>1, <2>2, <2>3, <2>4, <2>5, <2>6 DEF Next
  <1> QED BY <1>1, <1>2
-----------------------------------------------------------------------------
(* What it shows.                                                          *)

\* An upload's row whose cleanup is complete leaves nothing in staging, whatever was lost on
\* the way: the multipart upload and the assembled version of an unanswered call to S3 were
\* found by the row that names no more than their key (_lifecycle.py, cleanup_upload_intent).
THEOREM StagingIsCleaned == Spec => []StagingCleaned
  <1>1. StagingInv => StagingCleaned
    <2> SUFFICES ASSUME StagingInv, row.status = "cleanup_complete", ~closing
                 PROVE  "there" \notin {object.multipart, object.staging}
      BY DEF StagingCleaned
    <2>1. StagingRow(row, object.multipart, object.staging)
      BY DEF StagingInv, Staged
    <2> QED BY <2>1 DEF StagingRow, MultipartDue, StagingDue, Aborts
  <1> QED BY <1>1, Invariance, InitStaged, NextStaged, PTL DEF Spec
=============================================================================
