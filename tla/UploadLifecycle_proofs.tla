----------------------- MODULE UploadLifecycle_proofs -----------------------
(***************************************************************************)
(* What holds of an upload for any number of calls and jobs, any lease,    *)
(* any window longer than a run, and any number of takeovers and faults.   *)
(*                                                                         *)
(* The bytes are safe because of what each run knows of a row it may no    *)
(* longer hold (RunFits): a run that claimed a cleanup knows that the row  *)
(* has left the phases in which the bytes are wanted, and never enters     *)
(* them again; a run that promotes knows that nobody has put the object.   *)
(***************************************************************************)
EXTENDS UploadLifecycle, TLAPS

RunRecord == [pc : Step, op : {"none", "start", "sign", "complete", "send", "sweep", "purge"},
              now : 0..Horizon, row : Row, current : BOOLEAN]

\* Where an upload's row is before its promotion is claimed, and once a cleanup is claimed.
Before == {"none", "issuing", "pending_upload", "assembling", "validating"}
Past == {"cleanup_pending", "cleanup_blocked", "cleanup_complete", "gone"}

\* The steps of a run that claimed a cleanup.
Cleaning == {"scan", "multipart", "noMultipart", "adopt", "staging", "noStaging", "recover",
             "immutable", "noImmutable", "scrub", "noParts", "complete", "tombstone"}

\* The row w of a cleanup whose immutable version is known and still to be deleted.
ToDelete(w) == w.immutable /\ "immutable" \notin w.marks
Deleting(w) == w.status \in {"cleanup_pending", "cleanup_blocked"} /\ ToDelete(w)

\* What fits a row w beside bytes b and attachment a.
RowFits(w, b, a) ==
    /\ w.status \in Unspent \cup {"none", "invalid"} => a = "none"
    /\ a \in {"live", "pending"} => w.status \in {"consumed", "gone"}
    /\ w.status = "consumed" => w.attached /\ a # "none"
    /\ w.attached => w.status = "consumed"
    /\ w.status = "validated" \/ a = "live" => b = "there"
    /\ w.status \in Before => b = "none"
    /\ w.retires =>
          w.status \in {"consumed", "cleanup_pending", "cleanup_blocked", "cleanup_complete"}
    /\ w.status = "promoting" => w.target
    /\ w.immutable => w.target /\ b # "none"

\* What a run knows when the row is w, of a version it may no longer hold.
RunFits(r, w, b, a, cl, t) ==
    /\ r.pc = "idle" => ~r.current
    /\ r.pc # "idle" => w.status # "none" /\ r.now <= t
    /\ r.current => r.row = w /\ w.status \notin {"none", "gone"}
    /\ r.pc \in Cleaning => w.status \in Past /\ a \notin {"live", "pending"}
    /\ r.pc = "close" => cl
    /\ r.pc = "close" /\ r.current /\ w.attached => a = "gone"
    /\ r.pc \in {"takeover", "match", "put", "finish"} /\ r.current =>
          w.status \in {"assembling", "promoting"}
    /\ r.pc = "put" => w.status \notin Before /\ b = "none"
    /\ r.pc = "finish" /\ r.current => b = "there"
    /\ r.pc = "immutable" => "immutable" \notin r.row.marks
    /\ r.pc = "noImmutable" /\ r.current /\ w.immutable => b = "gone"
    /\ r.pc \in Cleaning /\ ToDelete(r.row) => b = "gone" \/ Deleting(w)

RowInv == RowFits(row, object.immutable, attachment)
RunInv(r) == RunFits(r, row, object.immutable, attachment, closing, clock)
OnePut == \A p, q \in Run : run[p].pc = "put" /\ run[q].pc = "put" => p = q

IInv ==
    /\ TypeOK
    /\ RowInv
    /\ \A p \in Run : RunInv(run[p])
    /\ OnePut
-----------------------------------------------------------------------------
(* What a step of one run leaves to the others.                            *)

\* The row only goes forward from w to x; a version to delete is deleted first.
Later(w, x, b) ==
    /\ w.status # "none" => x.status # "none"
    /\ w.status \in Past => x.status \in Past
    /\ w.status \notin Before => x.status \notin Before
    /\ Deleting(w) => b = "gone" \/ Deleting(x)

\* So do the bytes and the attachment.
Forward ==
    /\ attachment' \in {"live", "pending"} /\ attachment \notin {"live", "pending"} =>
          row.status = "validated" /\ row' # row
    /\ attachment = "gone" => attachment' = "gone"
    /\ closing => closing'
    /\ clock' \in Nat /\ clock <= clock'
    /\ object.immutable = "gone" => object'.immutable = "gone"
    /\ object.immutable = "there" /\ object'.immutable # "there" =>
          object'.immutable = "gone" /\ row.status \notin Unspent

\* A run that waits: its row is the same, or no longer current.
Waits(q) ==
    \/ row' = row /\ run'[q] = run[q]
    \/ run'[q] = [run[q] EXCEPT !.current = FALSE]

\* The run that does nothing.
LEMMA IdleFacts ==
    /\ IdleRun \in RunRecord /\ IdleRun.pc = "idle" /\ ~IdleRun.current
    /\ NoRow \in Row
  <1>1. NoRow \in Row
    BY TimeAssumption DEF NoRow, Row, Status, Kind
  <1>2. 0 \in 0..Horizon
    BY TimeAssumption
  <1> QED BY <1>1, <1>2 DEF IdleRun, RunRecord, Step

\* Where a run goes on.
LEMMA AtFacts ==
    ASSUME NEW r \in RunRecord, NEW pc \in Step, NEW seen \in Row
    PROVE  /\ At(r, pc, seen) \in RunRecord
           /\ At(r, pc, seen).pc = pc
           /\ pc = "idle" => At(r, pc, seen) = IdleRun
           /\ pc # "idle" => /\ At(r, pc, seen).row = seen /\ At(r, pc, seen).now = r.now
                             /\ At(r, pc, seen).current = r.current
  <1>1. [r EXCEPT !.pc = pc, !.row = seen] \in RunRecord
    BY DEF RunRecord
  <1> QED BY <1>1, IdleFacts DEF At, RunRecord

\* What a waiting run knows stays true.
LEMMA Waiting ==
    ASSUME IInv, Later(row, row', object'.immutable), Forward, NEW q \in Run, Waits(q),
           run[q].pc = "put" => object'.immutable = object.immutable
    PROVE  RunInv(run[q])' /\ run'[q] \in RunRecord /\ run'[q].pc = run[q].pc
  <1> DEFINE r == run[q]
             s == run'[q]
  <1>1. r \in RunRecord /\ RunInv(r) /\ RowInv /\ row \in Row
        /\ object.immutable \in Held
    BY DEF IInv, TypeOK, RunRecord
  <1>2. s.pc = r.pc /\ s.row = r.row /\ s.now = r.now /\ s \in RunRecord
        /\ s.current \in BOOLEAN /\ (s.current => r.current /\ row' = row)
    BY <1>1 DEF Waits, RunRecord
  <1>3. s.pc # "idle" => row'.status # "none" /\ s.now <= clock'
    <2>1. r.now \in Nat /\ clock \in Nat /\ clock' \in Nat /\ clock <= clock'
      BY <1>1, TimeAssumption DEF IInv, TypeOK, RunRecord, Forward
    <2>2. r.pc # "idle" => row.status # "none" /\ r.now <= clock
      BY <1>1 DEF RunInv, RunFits
    <2> QED BY <1>2, <2>1, <2>2 DEF Later
  <1>4. s.pc \in Cleaning => row'.status \in Past /\ attachment' \notin {"live", "pending"}
    BY <1>1, <1>2 DEF RunInv, RunFits, Later, Forward, Past
  <1>5. s.pc \in Cleaning /\ ToDelete(s.row) => object'.immutable = "gone" \/ Deleting(row')
    BY <1>1, <1>2 DEF RunInv, RunFits, Later, Forward, ToDelete
  <1>6. s.pc = "put" => row'.status \notin Before /\ object'.immutable = "none"
    BY <1>1, <1>2 DEF RunInv, RunFits, Later
  <1>7. s.current => s.row = row' /\ row'.status \notin {"none", "gone"}
    BY <1>1, <1>2 DEF RunInv, RunFits
  <1>8. s.pc = "close" => closing'
    BY <1>1, <1>2 DEF RunInv, RunFits, Forward
  <1>9. s.pc = "close" /\ s.current /\ row'.attached => attachment' = "gone"
    BY <1>1, <1>2 DEF RunInv, RunFits, Forward
  <1>10. s.pc \in {"takeover", "match", "put", "finish"} /\ s.current =>
            row'.status \in {"assembling", "promoting"}
    BY <1>1, <1>2 DEF RunInv, RunFits
  <1>11. s.pc = "finish" /\ s.current => object'.immutable = "there"
    BY <1>1, <1>2 DEF RunInv, RunFits, Forward, Unspent
  <1>12. s.pc = "immutable" => "immutable" \notin s.row.marks
    BY <1>1, <1>2 DEF RunInv, RunFits
  <1>13. s.pc = "noImmutable" /\ s.current /\ row'.immutable => object'.immutable = "gone"
    BY <1>1, <1>2 DEF RunInv, RunFits, Forward
  <1>14. s.pc = "idle" => ~s.current
    BY <1>1, <1>2 DEF RunInv, RunFits
  <1> HIDE DEF s
  <1>15. RunFits(s, row', object'.immutable, attachment', closing', clock')
    BY <1>3, <1>4, <1>5, <1>6, <1>7, <1>8, <1>9, <1>10, <1>11, <1>12, <1>13, <1>14 DEF RunFits
  <1> QED BY <1>2, <1>15 DEF RunInv, s
-----------------------------------------------------------------------------
(* The kinds of step of a run.                                             *)

\* A step of p, in general.
LEMMA RunStep ==
    ASSUME IInv, NEW p \in Run, TypeOK', RowInv',
           Later(row, row', object'.immutable), Forward, RunInv(run[p])',
           \A q \in Run \ {p} :
              /\ Waits(q)
              /\ run[q].pc = "put" =>
                    object'.immutable = object.immutable /\ run'[p].pc # "put"
    PROVE  IInv'
  <1>1. ASSUME NEW q \in Run \ {p} PROVE RunInv(run[q])' /\ run'[q].pc = run[q].pc
    BY <1>1, Waiting
  <1>2. OnePut'
    <2> SUFFICES ASSUME NEW q \in Run, NEW s \in Run, run'[q].pc = "put", run'[s].pc = "put"
                 PROVE  q = s
      BY DEF OnePut
    <2> QED BY <1>1 DEF IInv, OnePut
  <1> QED BY <1>1, <1>2 DEF IInv

\* The bookkeeping of a step that leaves the row alone.
LEMMA GotoFacts ==
    ASSUME TypeOK, NEW p \in Run, NEW pc \in Step, Goto(p, pc)
    PROVE  /\ run' \in [Run -> RunRecord]
           /\ run'[p] = At(run[p], pc, run[p].row)
           /\ row' = row => \A q \in Run \ {p} : Waits(q)
  <1>1. run \in [Run -> RunRecord] /\ run[p] \in RunRecord /\ run[p].row \in Row
    BY DEF TypeOK, RunRecord
  <1>2. At(run[p], pc, run[p].row) \in RunRecord
    BY <1>1, AtFacts
  <1> QED BY <1>1, <1>2 DEF Goto, Waits

\* The bookkeeping of a write.
LEMMA WrittenFacts ==
    ASSUME TypeOK, NEW p \in Run, NEW new \in Row, NEW pc \in Step, Written(p, new, pc)
    PROVE  /\ run' \in [Run -> RunRecord]
           /\ run'[p] = At(run[p], pc, new)
           /\ \A q \in Run \ {p} : Waits(q)
           /\ row' = new
  <1>1. run \in [Run -> RunRecord] /\ run[p] \in RunRecord
    BY DEF TypeOK, RunRecord
  <1>2. At(run[p], pc, new) \in RunRecord
    BY <1>1, AtFacts
  <1>3. ASSUME NEW q \in Run PROVE [run[q] EXCEPT !.current = FALSE] \in RunRecord
    BY <1>1 DEF RunRecord
  <1> QED BY <1>1, <1>2, <1>3 DEF Written, Waits

\* What the step of an active run does outside it, if it leaves the row and the bytes alone.
Aside ==
    /\ UNCHANGED <<row, attachment, closing, clock>>
    /\ object'.immutable = object.immutable
    /\ object' \in [multipart : Held, staging : Held, immutable : Held]
    /\ parts' \in BOOLEAN /\ faults' \in 0..MaxFaults

\* A run goes on to another step, and the row stays.
LEMMA GotoStep ==
    ASSUME IInv, NEW p \in Run, NEW pc \in Step, run[p].pc # "idle", pc # "put", Goto(p, pc), Aside,
           pc # "idle" => RunInv([run[p] EXCEPT !.pc = pc])
    PROVE  IInv'
  <1>1. /\ run' \in [Run -> RunRecord] /\ run'[p] = At(run[p], pc, run[p].row)
        /\ \A q \in Run \ {p} : Waits(q)
    BY GotoFacts DEF IInv, Aside
  <1>2. TypeOK'
    BY <1>1 DEF IInv, TypeOK, RunRecord, Aside
  <1>3. RowInv'
    BY DEF IInv, RowInv, Aside
  <1>4. Later(row, row', object'.immutable) /\ Forward
    BY TimeAssumption DEF Later, Forward, Aside, IInv, TypeOK
  <1>5. run[p] \in RunRecord /\ run[p].row \in Row
    BY DEF IInv, TypeOK, RunRecord
  <1>6. RunInv(run[p])'
    <2>1. CASE pc = "idle"
      BY <1>1, <1>5, <2>1, AtFacts, IdleFacts DEF RunInv, RunFits, Cleaning
    <2>2. CASE pc # "idle"
      <3>1. run'[p] = [run[p] EXCEPT !.pc = pc]
        BY <1>1, <1>5, <2>2 DEF At, RunRecord
      <3> QED BY <2>2, <3>1 DEF RunInv, Aside
    <2> QED BY <2>1, <2>2
  <1>7. run'[p].pc # "put"
    BY <1>1, <1>5, AtFacts
  <1> QED BY <1>1, <1>2, <1>3, <1>4, <1>6, <1>7, RunStep DEF Aside

\* A run writes a row that fits, and goes on with it.
LEMMA WriteStep ==
    ASSUME IInv, NEW p \in Run, run[p].pc # "idle", run[p].current,
           NEW new \in Row, NEW pc \in Step, Written(p, new, pc),
           UNCHANGED <<object, closing, clock>>, parts' \in BOOLEAN, faults' \in 0..MaxFaults,
           attachment' \in {"none", "live", "pending", "gone"},
           RowFits(new, object.immutable, attachment'),
           Later(row, new, object.immutable), Forward,
           pc = "put" => \A q \in Run : run[q].pc # "put",
           pc # "idle" => RunFits([run[p] EXCEPT !.pc = pc, !.row = new], new, object.immutable,
                                  attachment', closing, clock)
    PROVE  IInv'
  <1>1. /\ run' \in [Run -> RunRecord] /\ run'[p] = At(run[p], pc, new) /\ row' = new
        /\ \A q \in Run \ {p} : Waits(q)
    BY WrittenFacts DEF IInv
  <1>2. TypeOK'
    BY <1>1 DEF IInv, TypeOK, RunRecord
  <1>3. RowInv'
    BY <1>1 DEF RowInv
  <1>4. Later(row, row', object'.immutable)
    BY <1>1
  <1>5. run[p] \in RunRecord
    BY DEF IInv, TypeOK, RunRecord
  <1>6. RunInv(run[p])'
    <2>1. CASE pc = "idle"
      BY <1>1, <1>5, <2>1, AtFacts, IdleFacts DEF RunInv, RunFits, Cleaning
    <2>2. CASE pc # "idle"
      BY <1>1, <2>2 DEF RunInv, At
    <2> QED BY <2>1, <2>2
  <1>7. \A q \in Run \ {p} : run[q].pc = "put" => run'[p].pc # "put"
    BY <1>1, <1>5, AtFacts
  <1> QED BY <1>1, <1>2, <1>3, <1>4, <1>6, <1>7, RunStep
-----------------------------------------------------------------------------
(* The steps of a run, by what they do.                                    *)

\* Steps at which a run relies on nothing.
Plain == Step \ (Cleaning \cup {"close", "takeover", "match", "put", "finish"})

\* A run that does nothing knows nothing.
LEMMA IdleFits ==
    ASSUME NEW r, r.pc = "idle", ~r.current, NEW w, NEW b, NEW a, NEW cl, NEW t
    PROVE  RunFits(r, w, b, a, cl, t)
  BY DEF RunFits, Cleaning

\* A run goes on to a step that relies on no more.
LEMMA Onward ==
    ASSUME IInv, NEW p \in Run, run[p].pc # "idle", NEW pc \in Step, Goto(p, pc), Aside,
           \/ pc \in Plain
           \/ run[p].pc \in Cleaning /\ pc \in Cleaning \ {"immutable", "noImmutable"}
    PROVE  IInv'
  <1> DEFINE r == run[p]
             s == [r EXCEPT !.pc = pc]
  <1>1. r \in RunRecord /\ RunInv(r)
    BY DEF IInv, TypeOK, RunRecord
  <1>2. s.pc = pc /\ s.row = r.row /\ s.now = r.now /\ s.current = r.current
    BY <1>1 DEF RunRecord
  <1> HIDE DEF s
  <1>3. pc # "idle" => RunInv(s)
    <2>1. CASE pc \in Plain
      BY <1>1, <1>2, <2>1 DEF RunInv, RunFits, Plain, Cleaning
    <2>2. CASE r.pc \in Cleaning /\ pc \in Cleaning \ {"immutable", "noImmutable"}
      BY <1>1, <1>2, <2>2 DEF RunInv, RunFits, Cleaning
    <2> QED BY <2>1, <2>2
  <1>4. pc # "put"
    BY DEF Plain, Cleaning
  <1> QED BY <1>3, <1>4, GotoStep DEF s

\* What a write leaves has to fit, with the step pc that its run goes on with.
Fits(new, pc) ==
    /\ new \in Row /\ new.status # "none"
    /\ RowFits(new, object.immutable, attachment)
    /\ Later(row, new, object.immutable)
    /\ pc # "idle" => new.status # "gone"
    /\ pc \notin {"close", "finish", "noImmutable"}
    /\ pc \in Cleaning => new.status \in Past /\ (ToDelete(new) => Deleting(new))
    /\ pc \in {"takeover", "match", "put"} => new.status \in {"assembling", "promoting"}
    /\ pc = "put" =>
          object.immutable = "none" /\ new.status \notin Before /\ \A q \in Run : run[q].pc # "put"
    /\ pc = "immutable" => "immutable" \notin new.marks

\* A write on the version a run has, whatever becomes of it.
LEMMA Writes ==
    ASSUME IInv, NEW p \in Run, run[p].pc # "idle", NEW can \in BOOLEAN, NEW new,
           NEW pc \in Step, NEW failed \in {"idle", "abort"}, Write(p, can, new, pc, failed),
           parts' \in BOOLEAN, attachment' = attachment,
           run[p].current /\ can => Fits(new, pc) /\ (failed = "abort" => new.status # "gone")
    PROVE  IInv'
  <1> DEFINE r == run[p]
  <1>1. r \in RunRecord /\ RunInv(r) /\ faults' \in 0..MaxFaults
    BY TimeAssumption DEF IInv, TypeOK, RunRecord, Write, Fault
  <1>2. UNCHANGED <<object, closing, clock>>
    BY DEF Write
  <1>3. ASSUME row' = row, Goto(p, failed) PROVE IInv'
    <2>1. Aside
      BY <1>1, <1>2, <1>3 DEF Aside, IInv, TypeOK
    <2>2. failed \in Plain /\ failed \in Step
      BY DEF Plain, Cleaning, Step
    <2> QED BY <1>3, <2>1, <2>2, Onward
  <1>4. ASSUME r.current, can, NEW to \in {pc, failed}, Written(p, new, to) PROVE IInv'
    <2> DEFINE s == [r EXCEPT !.pc = to, !.row = new]
    <2>1. Fits(new, pc) /\ Fits(new, to) /\ to \in Step
      <3>1. Fits(new, pc)
        BY <1>4
      <3>2. to = pc \/ to = "idle" \/ to = "abort"
        BY <1>4
      <3>3. ASSUME to = "idle" \/ to = "abort", to # pc PROVE Fits(new, to)
        <4>1. to = "abort" => new.status # "gone"
          BY <1>4, <3>3
        <4> QED BY <3>1, <3>3, <4>1 DEF Fits, Cleaning
      <3> QED BY <3>1, <3>2, <3>3 DEF Step
    <2>2. s.pc = to /\ s.row = new /\ s.now = r.now /\ s.current = r.current
      BY <1>1 DEF RunRecord
    <2>3. r.now <= clock
      BY <1>1 DEF RunInv, RunFits
    <2> HIDE DEF s
    <2>4. to # "idle" => RunFits(s, new, object.immutable, attachment, closing, clock)
      <3> SUFFICES ASSUME to # "idle"
                   PROVE  RunFits(s, new, object.immutable, attachment, closing, clock)
        OBVIOUS
      <3>1. to \in Cleaning => attachment \notin {"live", "pending"}
        BY <2>1 DEF Fits, RowFits, Past
      <3> QED BY <1>4, <2>1, <2>2, <2>3, <3>1 DEF RunFits, Fits
    <2>5. Forward
      BY <1>2, TimeAssumption DEF Forward, IInv, TypeOK
    <2>6. /\ new \in Row /\ RowFits(new, object.immutable, attachment')
          /\ Later(row, new, object.immutable)
          /\ to = "put" => \A q \in Run : run[q].pc # "put"
          /\ attachment' \in {"none", "live", "pending", "gone"}
      BY <2>1 DEF Fits, IInv, TypeOK
    <2>7. to # "idle" => RunFits([run[p] EXCEPT !.pc = to, !.row = new], new, object.immutable,
                                 attachment', closing, clock)
      BY <2>4 DEF s
    <2> HIDE DEF r
    <2> QED BY <1>1, <1>2, <1>4, <2>1, <2>5, <2>6, <2>7, WriteStep DEF r
  <1> QED BY <1>3, <1>4 DEF Write
-----------------------------------------------------------------------------
(* The writes of the owner's calls.                                        *)

\* What is at hand of a run and of the row.
LEMMA AtHand ==
    ASSUME IInv, NEW p \in Run
    PROVE  /\ run[p] \in RunRecord /\ run[p].row \in Row /\ run[p].now \in Nat
           /\ run[p].current \in BOOLEAN /\ (run[p].now <= clock \/ run[p].pc = "idle")
           /\ RunFits(run[p], row, object.immutable, attachment, closing, clock)
           /\ row \in Row /\ row.marks \subseteq Mark /\ row.takeovers \in Nat
           /\ RowFits(row, object.immutable, attachment)
           /\ object.immutable \in Held /\ attachment \in {"none", "live", "pending", "gone"}
           /\ clock \in Nat /\ LeaseTime \in Nat /\ UsableTime \in Nat /\ MaxTakeovers \in Nat
  <1>1. run[p] \in RunRecord /\ row \in Row /\ clock \in 0..Horizon
    BY DEF IInv, TypeOK, RunRecord
  <1>2. run[p].now \in Nat /\ clock \in Nat /\ run[p].row \in Row /\ run[p].current \in BOOLEAN
    BY <1>1, TimeAssumption DEF RunRecord
  <1>3. row.marks \subseteq Mark /\ row.takeovers \in Nat
    BY <1>1, TimeAssumption DEF Row
  <1>4. RunInv(run[p]) /\ RowInv /\ object.immutable \in Held
        /\ attachment \in {"none", "live", "pending", "gone"}
    BY DEF IInv, TypeOK
  <1>5. run[p].now <= clock \/ run[p].pc = "idle"
    BY <1>4 DEF RunInv, RunFits
  <1> QED BY <1>1, <1>2, <1>3, <1>4, <1>5, TimeAssumption DEF RunInv, RowInv

\* What an operation claimed or released leaves.
Operated(w, r, status) ==
    /\ w \in Row /\ w.status = status
    /\ w.attached = r.attached /\ w.retires = r.retires /\ w.marks = r.marks
    /\ w.immutable = r.immutable /\ w.target = r.target

\* Both keep what leads to the bytes.
LEMMA OperationFacts ==
    ASSUME NEW r \in Row, NEW status \in Status, NEW now \in Nat
    PROVE  /\ Operated(Released(r, status), r, status)
           /\ \A kind \in Kind : Operated(Claimed(r, kind, status, now), r, status)
  <1>1. now + LeaseTime \in Nat /\ 0 \in 0..MaxTakeovers /\ 0 \in Nat /\ "none" \in Kind
    BY TimeAssumption DEF Kind
  <1>2. Operated(Released(r, status), r, status)
    BY <1>1 DEF Released, Row, Operated
  <1>3. ASSUME NEW kind \in Kind PROVE Operated(Claimed(r, kind, status, now), r, status)
    BY <1>1 DEF Claimed, Row, Operated
  <1> QED BY <1>2, <1>3

\* A row w that differs from the row in its operation, or in what it knows of staging.
Same(w) ==
    /\ w \in Row
    /\ w.attached = row.attached /\ w.retires = row.retires /\ w.marks = row.marks
    /\ w.immutable = row.immutable /\ (row.target => w.target)

\* Such a row, of an upload on its way to its promotion.
LEMMA SameFits ==
    ASSUME IInv, NEW w, Same(w), NEW pc \in Plain,
           \/ row.status \in Before \ {"none"} /\ w.status \in Before \ {"none"}
           \/ /\ w.status = row.status
              /\ w.status \in {"promoting", "validated"}
           \/ /\ row.status \in {"issuing", "validating"}
              /\ w.status \in {"cleanup_pending", "invalid"}
    PROVE  Fits(w, pc)
  <1>1. RowFits(row, object.immutable, attachment)
    BY DEF IInv, RowInv
  <1>2. RowFits(w, object.immutable, attachment)
    BY <1>1 DEF RowFits, Same, Before, Unspent
  <1>3. Later(row, w, object.immutable)
    BY <1>1 DEF Later, Before, Past, Deleting, ToDelete, Same, RowFits
  <1>4. w.status \notin {"none", "gone"}
    BY DEF Before
  <1> QED BY <1>2, <1>3, <1>4 DEF Fits, Same, Plain, Cleaning

\* _record_issuance: the upload id is written beside the staging key.
LEMMA RecordStep == ASSUME IInv, NEW p \in Run, Record(p) PROVE IInv'
  <1> DEFINE w == [Released(row, "pending_upload") EXCEPT !.multipart = TRUE]
  <1>1. run[p].pc # "idle" /\ parts' \in BOOLEAN /\ attachment' = attachment
    BY DEF Record, IInv, TypeOK
  <1>2. Same(w) /\ w.status = "pending_upload"
    <2> DEFINE v == Released(row, "pending_upload")
    <2>1. Operated(v, row, "pending_upload")
      BY AtHand, OperationFacts DEF Status, Unspent
    <2> HIDE DEF v
    <2>2. w = [v EXCEPT !.multipart = TRUE]
      BY DEF v
    <2> HIDE DEF w
    <2> QED BY <2>1, <2>2 DEF Operated, Same, Row
  <1> HIDE DEF w
  <1>3. row.status = "issuing" => Fits(w, "idle") /\ w.status # "gone"
    BY <1>2, SameFits DEF Before, Plain, Step, Cleaning
  <1>4. Write(p, row.status = "issuing", w, "idle", "abort")
    BY DEF Record, w
  <1> QED BY <1>1, <1>3, <1>4, Writes DEF Step

\* An issuance that failed leaves its row to the sweep.
LEMMA IssuanceFailedStep == ASSUME IInv, NEW p \in Run, IssuanceFailed(p) PROVE IInv'
  <1> DEFINE w == [row EXCEPT !.status = "cleanup_pending"]
  <1>1. run[p].pc # "idle" /\ parts' \in BOOLEAN /\ attachment' = attachment
    BY DEF IssuanceFailed, IInv, TypeOK
  <1>2. Same(w) /\ w.status = "cleanup_pending"
    BY AtHand DEF Same, Row, Status
  <1> HIDE DEF w
  <1>3. row.status = "issuing" => Fits(w, "idle")
    BY <1>2, SameFits DEF Plain, Step, Cleaning
  <1>4. Write(p, row.status = "issuing", w, "idle", "idle")
    BY DEF IssuanceFailed, w
  <1> QED BY <1>1, <1>3, <1>4, Writes DEF Step

\* The assembly is claimed for a lease.
LEMMA ClaimAssemblyStep == ASSUME IInv, NEW p \in Run, ClaimAssembly(p) PROVE IInv'
  <1> DEFINE w == Claimed(row, "staging_assembly", "assembling", run[p].now)
             can == row.status = "pending_upload" /\ row.until > run[p].now
  <1>1. run[p].pc # "idle" /\ parts' \in BOOLEAN /\ attachment' = attachment
    BY DEF ClaimAssembly, IInv, TypeOK
  <1>2. Same(w) /\ w.status = "assembling"
    <2>1. Operated(w, row, "assembling")
      BY AtHand, OperationFacts DEF Status, Unspent, Kind
    <2> QED BY <2>1 DEF Operated, Same
  <1>3. Write(p, can, w, "assemble", "idle") /\ can \in BOOLEAN
    BY DEF ClaimAssembly
  <1> HIDE DEF w
  <1>4. can => Fits(w, "assemble")
    BY <1>2, SameFits DEF Before, Plain, Step, Cleaning
  <1> HIDE DEF can
  <1> QED BY <1>1, <1>3, <1>4, Writes DEF Step

\* A lapsed lease is taken over: the operation stays.
LEMMA TakeoverStep == ASSUME IInv, NEW p \in Run, Takeover(p) PROVE IInv'
  <1> DEFINE w == [row EXCEPT !.lease = run[p].now + LeaseTime, !.takeovers = @ + 1]
             can == row.lease <= run[p].now /\ row.takeovers < MaxTakeovers
  <1>1. run[p].pc = "takeover" /\ parts' \in BOOLEAN /\ attachment' = attachment
    BY DEF Takeover, IInv, TypeOK
  <1>2. can => Same(w) /\ w.status = row.status
    <2>1. run[p].now + LeaseTime \in Nat
      BY AtHand
    <2>2. can => row.takeovers + 1 \in 0..MaxTakeovers
      BY AtHand
    <2> QED BY <2>1, <2>2, AtHand DEF Same, Row
  <1>3. Write(p, can, w, "match", "idle") /\ can \in BOOLEAN
    BY DEF Takeover
  <1>4. run[p].current => row.status \in {"assembling", "promoting"}
    BY <1>1, AtHand DEF RunFits
  <1> HIDE DEF w, can
  <1>5. run[p].current /\ can => Fits(w, "idle")
    BY <1>2, <1>4, SameFits DEF Before, Plain, Step, Cleaning
  <1>6. run[p].current /\ can => Fits(w, "match")
    BY <1>2, <1>4, <1>5 DEF Fits, Cleaning
  <1> QED BY <1>1, <1>3, <1>6, Writes DEF Step

\* The assembled version is recorded.
LEMMA StoreStagingStep == ASSUME IInv, NEW p \in Run, StoreStaging(p) PROVE IInv'
  <1> DEFINE w == [Released(row, "validating") EXCEPT !.staging = TRUE]
  <1>1. run[p].pc # "idle" /\ parts' \in BOOLEAN /\ attachment' = attachment
    BY DEF StoreStaging, IInv, TypeOK
  <1>2. Same(w) /\ w.status = "validating"
    <2> DEFINE v == Released(row, "validating")
    <2>1. Operated(v, row, "validating")
      BY AtHand, OperationFacts DEF Status, Unspent
    <2> HIDE DEF v
    <2>2. w = [v EXCEPT !.staging = TRUE]
      BY DEF v
    <2> HIDE DEF w
    <2> QED BY <2>1, <2>2 DEF Operated, Same, Row
  <1> HIDE DEF w
  <1>3. row.status = "assembling" => Fits(w, "validate")
    BY <1>2, SameFits DEF Before, Plain, Step, Cleaning
  <1>4. Write(p, row.status = "assembling", w, "validate", "idle")
    BY DEF StoreStaging, w
  <1> QED BY <1>1, <1>3, <1>4, Writes DEF Step

\* The staging debt is paid: the row of a validated upload forgets its staging copy only.
LEMMA ClearStep == ASSUME IInv, NEW p \in Run, Clear(p) PROVE IInv'
  <1> DEFINE w == [row EXCEPT !.key = FALSE, !.staging = FALSE, !.multipart = FALSE,
                              !.debt = FALSE]
  <1>1. run[p].pc # "idle" /\ parts' \in BOOLEAN /\ attachment' = attachment
    BY DEF Clear, IInv, TypeOK
  <1>2. Same(w) /\ w.status = row.status
    BY AtHand DEF Same, Row
  <1> HIDE DEF w
  <1>3. row.status = "validated" => Fits(w, "idle")
    BY <1>2, SameFits DEF Plain, Step, Cleaning
  <1>4. Write(p, row.status = "validated", w, "idle", "idle")
    BY DEF Clear, w
  <1> QED BY <1>1, <1>3, <1>4, Writes DEF Step

\* A promotion is claimed before anything is put: nobody else is about to put, because the row
\* was validating.
LEMMA PromoteStep == ASSUME IInv, NEW p \in Run, Promote(p) PROVE IInv'
  <1> DEFINE w == [Claimed(row, "immutable_promotion", "promoting", run[p].now)
                     EXCEPT !.target = TRUE]
             can == row.status = "validating" /\ row.until > run[p].now
  <1>1. run[p].pc # "idle" /\ parts' \in BOOLEAN /\ attachment' = attachment
    BY DEF Promote, IInv, TypeOK
  <1>2. Same(w) /\ w.status = "promoting" /\ w.target
    <2> DEFINE v == Claimed(row, "immutable_promotion", "promoting", run[p].now)
    <2>1. Operated(v, row, "promoting")
      BY AtHand, OperationFacts DEF Status, Unspent, Kind
    <2> HIDE DEF v
    <2>2. w = [v EXCEPT !.target = TRUE]
      BY DEF v
    <2> HIDE DEF w
    <2> QED BY <2>1, <2>2 DEF Operated, Same, Row
  <1>3. Write(p, can, w, "put", "idle") /\ can \in BOOLEAN
    BY DEF Promote
  <1> HIDE DEF w
  <1>4. can => Fits(w, "put")
    <2> SUFFICES ASSUME row.status = "validating" PROVE Fits(w, "put")
      OBVIOUS
    <2>1. object.immutable = "none" /\ attachment = "none" /\ ~row.attached /\ ~row.retires
      BY AtHand DEF RowFits, Before, Unspent
    <2>2. RowFits(w, object.immutable, attachment)
      BY <1>2, <2>1, AtHand DEF RowFits, Same, Before
    <2>3. Later(row, w, object.immutable)
      BY <1>2 DEF Later, Before, Past, Deleting
    <2>4. \A q \in Run : run[q].pc # "put"
      BY AtHand DEF RunFits, Before
    <2> QED BY <1>2, <2>1, <2>2, <2>3, <2>4 DEF Fits, Same, Before, Cleaning
  <1> HIDE DEF can
  <1> QED BY <1>1, <1>3, <1>4, Writes DEF Step

\* A promotion is recorded by one who put the version or found it.
LEMMA FinishStep == ASSUME IInv, NEW p \in Run, Finish(p) PROVE IInv'
  <1> DEFINE w == [Released(row, "validated") EXCEPT !.immutable = TRUE, !.debt = TRUE]
             pc == IF run[p].row.takeovers = 0 THEN "owe" ELSE "idle"
  <1>1. run[p].pc = "finish" /\ parts' \in BOOLEAN /\ attachment' = attachment
    BY DEF Finish, IInv, TypeOK
  <1>2. /\ w \in Row /\ w.status = "validated" /\ w.immutable
        /\ w.attached = row.attached /\ w.retires = row.retires /\ w.target = row.target
    <2> DEFINE v == Released(row, "validated")
    <2>1. Operated(v, row, "validated")
      BY AtHand, OperationFacts DEF Status, Unspent
    <2> HIDE DEF v
    <2>2. w = [v EXCEPT !.immutable = TRUE, !.debt = TRUE]
      BY DEF v
    <2> HIDE DEF w
    <2> QED BY <2>1, <2>2 DEF Operated, Row
  <1>3. Write(p, row.status = "promoting", w, pc, "idle") /\ pc \in {"owe", "idle"}
    BY DEF Finish
  <1> HIDE DEF w, pc
  <1>4. run[p].current /\ row.status = "promoting" => Fits(w, pc)
    <2> SUFFICES ASSUME run[p].current, row.status = "promoting" PROVE Fits(w, pc)
      OBVIOUS
    <2>1. object.immutable = "there" /\ attachment = "none" /\ ~row.attached /\ ~row.retires
          /\ row.target
      BY <1>1, AtHand DEF RowFits, RunFits, Unspent
    <2>2. RowFits(w, object.immutable, attachment)
      BY <1>2, <2>1 DEF RowFits, Before
    <2>3. Later(row, w, object.immutable)
      BY <1>2 DEF Later, Before, Past, Deleting
    <2>4. w \in Row /\ w.status = "validated" /\ pc \in {"owe", "idle"}
      BY <1>2, <1>3
    <2> QED BY <2>2, <2>3, <2>4 DEF Fits, Cleaning
  <1>5. pc \in Step /\ (row.status = "promoting") \in BOOLEAN /\ run[p].pc # "idle"
    BY <1>1, <1>3 DEF Step
  <1> QED BY <1>1, <1>3, <1>4, <1>5, Writes

\* A refused upload goes the way of cleanup.
LEMMA RefuseStep == ASSUME IInv, NEW p \in Run, Refuse(p) PROVE IInv'
  <1> DEFINE w == [row EXCEPT !.status = "invalid"]
  <1>1. /\ run[p].pc = "refuse" /\ UNCHANGED <<parts, object, attachment, closing, clock, faults>>
        /\ parts \in BOOLEAN /\ faults \in 0..MaxFaults
    BY DEF Refuse, IInv, TypeOK
  <1>2. Same(w) /\ w.status = "invalid"
    BY AtHand DEF Same, Row, Status
  <1>3. \/ run[p].current /\ row.status = "validating" /\ Written(p, w, "drop")
        \/ Goto(p, "drop") /\ row' = row
    BY DEF Refuse
  <1> HIDE DEF w
  <1>4. "drop" \in Plain /\ "drop" \in Step
    BY DEF Plain, Cleaning, Step
  <1>5. CASE Goto(p, "drop") /\ row' = row
    <2>1. Aside
      BY <1>1, <1>5 DEF Aside, IInv, TypeOK
    <2> QED BY <1>1, <1>4, <1>5, <2>1, Onward
  <1>6. CASE run[p].current /\ row.status = "validating" /\ Written(p, w, "drop")
    <2>1. Fits(w, "drop")
      BY <1>2, <1>4, <1>6, SameFits
    <2>2. Write(p, TRUE, w, "drop", "idle")
      BY <1>1, <1>6 DEF Write
    <2> QED BY <1>1, <1>4, <2>1, <2>2, Writes DEF Step
  <1> QED BY <1>3, <1>5, <1>6

\* The only step that makes an attachment, of a row no cleanup has claimed.
LEMMA BindStep == ASSUME IInv, NEW p \in Run, Bind(p) PROVE IInv'
  <1> DEFINE w == [row EXCEPT !.status = "consumed", !.attached = TRUE, !.retires = TRUE]
             can == row.status = "validated" /\ row.until > run[p].now /\ ~closing
  <1>1. /\ run[p].pc = "bind" /\ parts' = parts /\ parts \in BOOLEAN
        /\ attachment' = IF row' = row THEN attachment ELSE "live"
        /\ Write(p, can, w, "idle", "idle")
    BY DEF Bind, IInv, TypeOK
  <1>2. /\ w \in Row /\ w.status = "consumed" /\ w.attached /\ w.retires
        /\ w.immutable = row.immutable /\ w.target = row.target
    BY AtHand DEF Row, Status, Ended
  <1> HIDE DEF w
  <1>3. faults' \in 0..MaxFaults /\ UNCHANGED <<object, closing, clock>>
    BY <1>1, TimeAssumption DEF Write, Fault, IInv, TypeOK
  <1>4. \/ Goto(p, "idle") /\ row' = row
        \/ run[p].current /\ can /\ Written(p, w, "idle")
    BY <1>1 DEF Write
  <1>5. "idle" \in Plain /\ "idle" \in Step
    BY DEF Plain, Cleaning, Step
  <1>6. CASE Goto(p, "idle") /\ row' = row
    <2>1. Aside
      BY <1>1, <1>3, <1>6 DEF Aside, IInv, TypeOK
    <2> QED BY <1>1, <1>5, <1>6, <2>1, Onward
  <1>7. CASE run[p].current /\ can /\ Written(p, w, "idle")
    <2>1. row' = w /\ row.status = "validated" /\ row' # row
      BY <1>2, <1>7 DEF Written
    <2>2. attachment' = "live" /\ object.immutable = "there" /\ attachment = "none"
      BY <1>1, <2>1, AtHand DEF RowFits, Unspent
    <2>3. RowFits(w, object.immutable, attachment')
      BY <1>2, <2>1, <2>2, AtHand DEF RowFits, Before, Unspent
    <2>4. Later(row, w, object.immutable) /\ w.status \notin Past
      BY <1>2, <2>1 DEF Later, Before, Past, Deleting
    <2>5. Forward
      BY <1>3, <2>1, <2>2, AtHand DEF Forward
    <2> QED BY <1>1, <1>2, <1>3, <1>5, <1>7, <2>2, <2>3, <2>4, <2>5, WriteStep
  <1> QED BY <1>4, <1>6, <1>7
-----------------------------------------------------------------------------
(* The writes of a cleanup.                                                *)

\* A row that a claimed cleanup leaves: nothing of its coordinates but the version found.
Cleaned(w) ==
    /\ w \in Row /\ w.status = "cleanup_pending" /\ ~w.attached
    /\ w.retires = row.retires /\ w.target = row.target
    /\ \/ w.immutable = row.immutable
       \/ row.target /\ ~row.immutable /\ object.immutable = "there"
    /\ row.marks \subseteq w.marks

\* A row under cleanup fits, the immutable version being deleted before it is marked.
LEMMA CleanedFits ==
    ASSUME IInv, NEW w, Cleaned(w), NEW pc \in {"idle"} \cup Cleaning, pc # "noImmutable",
           row.status \notin {"none", "gone", "cleanup_complete"},
           "immutable" \in w.marks \ row.marks /\ row.immutable => object.immutable = "gone",
           attachment \notin {"live", "pending"},
           pc = "immutable" => "immutable" \notin w.marks
    PROVE  Fits(w, pc)
  <1>1. RowFits(row, object.immutable, attachment)
    BY DEF IInv, RowInv
  <1>2. RowFits(w, object.immutable, attachment)
    BY <1>1 DEF RowFits, Cleaned, Before, Unspent
  <1>3. Later(row, w, object.immutable)
    BY DEF Later, Before, Past, Deleting, ToDelete, Cleaned
  <1> QED BY <1>2, <1>3 DEF Fits, Cleaned, Cleaning, Past, Deleting

\* The purge claims a spent upload only when its attachment is gone.
LEMMA CloseUploadStep == ASSUME IInv, NEW p \in Run, CloseUpload(p) PROVE IInv'
  <1> DEFINE w == [row EXCEPT !.status = "cleanup_pending", !.attached = FALSE]
  <1>1. run[p].pc = "close" /\ parts' \in BOOLEAN /\ attachment' = attachment
    BY DEF CloseUpload, IInv, TypeOK
  <1>2. w \in Row /\ w.status = "cleanup_pending" /\ ~w.attached /\ w.marks = row.marks
        /\ w.retires = row.retires /\ w.target = row.target /\ w.immutable = row.immutable
    BY AtHand DEF Row, Status
  <1>3. Write(p, row.status # "cleanup_complete", w, "clean", "idle")
    BY DEF CloseUpload
  <1> HIDE DEF w
  <1>4. run[p].current /\ row.status # "cleanup_complete" => Fits(w, "clean")
    <2> SUFFICES ASSUME run[p].current, row.status # "cleanup_complete" PROVE Fits(w, "clean")
      OBVIOUS
    <2>1. row.status \notin {"none", "gone"} /\ attachment \notin {"live", "pending"}
      BY <1>1, AtHand DEF RowFits, RunFits
    <2>2. Fits(w, "idle")
      BY <1>2, <2>1, CleanedFits DEF Cleaned
    <2> QED BY <1>2, <2>2 DEF Fits, Cleaning
  <1> QED BY <1>1, <1>3, <1>4, Writes DEF Step

\* The sweep claims an upload that nobody has spent.
LEMMA ClaimCleanupStep == ASSUME IInv, NEW p \in Run, ClaimCleanup(p) PROVE IInv'
  <1> DEFINE w == [row EXCEPT !.status = "cleanup_pending"]
             can == CleanupDue(row, run[p].now)
  <1>1. run[p].pc # "idle" /\ parts' \in BOOLEAN /\ attachment' = attachment
    BY DEF ClaimCleanup, IInv, TypeOK
  <1>2. w \in Row /\ w.status = "cleanup_pending" /\ w.attached = row.attached
        /\ w.marks = row.marks /\ w.retires = row.retires /\ w.target = row.target
        /\ w.immutable = row.immutable
    BY AtHand DEF Row, Status
  <1>3. Write(p, can, w, "scan", "idle") /\ can \in BOOLEAN
    BY DEF ClaimCleanup, CleanupDue
  <1>4. can => row.status \in Unspent \cup {"invalid", "cleanup_pending"}
    BY DEF CleanupDue
  <1> HIDE DEF w, can
  <1>5. can => Fits(w, "scan")
    <2> SUFFICES ASSUME row.status \in Unspent \cup {"invalid", "cleanup_pending"}
                 PROVE  Fits(w, "scan")
      BY <1>4
    <2>1. ~row.attached /\ attachment \notin {"live", "pending"}
      BY AtHand DEF RowFits, Unspent
    <2> QED BY <1>2, <2>1, CleanedFits DEF Cleaned, Cleaning, Unspent
  <1> QED BY <1>1, <1>3, <1>5, Writes DEF Step

\* A write of a cleanup that goes on.
LEMMA CleanStep ==
    ASSUME IInv, NEW p \in Run, run[p].pc \in Cleaning, NEW w, NEW pc \in {"idle"} \cup Cleaning,
           Clean(p, w, pc), pc # "noImmutable",
           run[p].current /\ row.status = "cleanup_pending" =>
              /\ Cleaned(w)
              /\ "immutable" \in w.marks \ row.marks /\ row.immutable => object.immutable = "gone"
              /\ pc = "immutable" => "immutable" \notin w.marks
    PROVE  IInv'
  <1>1. /\ run[p].pc # "idle" /\ parts' \in BOOLEAN /\ attachment' = attachment
        /\ Write(p, row.status = "cleanup_pending", w, pc, "idle")
    BY DEF Clean, Cleaning, IInv, TypeOK
  <1>2. attachment \notin {"live", "pending"}
    BY AtHand DEF RunFits
  <1>3. run[p].current /\ row.status = "cleanup_pending" => Fits(w, pc)
    BY <1>2, CleanedFits
  <1>4. pc \in Step
    BY DEF Cleaning, Step
  <1> QED BY <1>1, <1>3, <1>4, Writes

\* A local step of a cleanup.
LEMMA CleaningLocal ==
    ASSUME IInv, NEW p \in Run, run[p].pc \in Cleaning,
           NEW pc \in Cleaning \ {"immutable", "noImmutable"}, Local(p, pc)
    PROVE  IInv'
  <1>1. Aside
    BY DEF Local, Aside, IInv, TypeOK
  <1>2. Goto(p, pc) /\ pc \in Step /\ run[p].pc # "idle"
    BY DEF Local, Cleaning, Step
  <1> QED BY <1>1, <1>2, Onward

\* No reference is ever found: whoever spends an upload moves its version.
LEMMA ScanReferencesStep == ASSUME IInv, NEW p \in Run, ScanReferences(p) PROVE IInv'
  <1> DEFINE w == [row EXCEPT !.status = "cleanup_blocked", !.retires = TRUE]
  <1>1. run[p].pc = "scan" /\ run[p].pc \in Cleaning /\ attachment \notin {"live", "pending"}
    BY AtHand DEF ScanReferences, RunFits, Cleaning
  <1>2. run[p].current /\ run[p].row.attached => row.status # "cleanup_pending"
    BY AtHand DEF RowFits, RunFits
  <1>3. CASE run[p].row.attached
    <2>1. Clean(p, w, "idle")
      BY <1>3 DEF ScanReferences
    <2> HIDE DEF w
    <2> QED BY <1>1, <1>2, <1>3, <2>1, CleanStep
  <1>4. CASE ~run[p].row.attached
    <2>1. PICK pc \in {"adopt", "multipart"} : Local(p, pc)
      BY <1>1, <1>4 DEF ScanReferences
    <2>2. pc \in Cleaning \ {"immutable", "noImmutable"}
      BY DEF Cleaning
    <2> QED BY <1>1, <2>1, <2>2, CleaningLocal
  <1> QED BY <1>3, <1>4

\* The multipart upload is marked as gone.
LEMMA MarkMultipartStep == ASSUME IInv, NEW p \in Run, MarkMultipart(p) PROVE IInv'
  <1> DEFINE w == [row EXCEPT !.marks = @ \cup {"multipart"}]
  <1>1. run[p].pc = "noMultipart" /\ Clean(p, w, "adopt")
    BY DEF MarkMultipart
  <1>2. w \in Row /\ w.status = row.status /\ w.attached = row.attached
        /\ w.marks = row.marks \cup {"multipart"} /\ w.retires = row.retires
        /\ w.target = row.target /\ w.immutable = row.immutable
    BY AtHand DEF Row, Mark
  <1> HIDE DEF w
  <1>3. row.status = "cleanup_pending" => Cleaned(w)
    BY <1>2, AtHand DEF RowFits, Cleaned
  <1>4. "immutable" \notin w.marks \ row.marks
    BY <1>1, <1>2
  <1> QED BY <1>1, <1>3, <1>4, CleanStep DEF Cleaning

\* The staging version is marked as gone.
LEMMA MarkStagingStep == ASSUME IInv, NEW p \in Run, MarkStaging(p) PROVE IInv'
  <1> DEFINE w == [row EXCEPT !.marks = @ \cup {"staging"}]
  <1>1. run[p].pc = "noStaging" /\ Clean(p, w, "recover")
    BY DEF MarkStaging
  <1>2. w \in Row /\ w.status = row.status /\ w.attached = row.attached
        /\ w.marks = row.marks \cup {"staging"} /\ w.retires = row.retires
        /\ w.target = row.target /\ w.immutable = row.immutable
    BY AtHand DEF Row, Mark
  <1> HIDE DEF w
  <1>3. row.status = "cleanup_pending" => Cleaned(w)
    BY <1>2, AtHand DEF RowFits, Cleaned
  <1>4. "immutable" \notin w.marks \ row.marks
    BY <1>1, <1>2
  <1> QED BY <1>1, <1>3, <1>4, CleanStep DEF Cleaning

\* The parts are marked as gone.
LEMMA MarkPartsStep == ASSUME IInv, NEW p \in Run, MarkParts(p) PROVE IInv'
  <1> DEFINE w == [row EXCEPT !.marks = @ \cup {"parts"}]
  <1>1. run[p].pc = "noParts" /\ Clean(p, w, "complete")
    BY DEF MarkParts
  <1>2. w \in Row /\ w.status = row.status /\ w.attached = row.attached
        /\ w.marks = row.marks \cup {"parts"} /\ w.retires = row.retires
        /\ w.target = row.target /\ w.immutable = row.immutable
    BY AtHand DEF Row, Mark
  <1> HIDE DEF w
  <1>3. row.status = "cleanup_pending" => Cleaned(w)
    BY <1>2, AtHand DEF RowFits, Cleaned
  <1>4. "immutable" \notin w.marks \ row.marks
    BY <1>1, <1>2
  <1> QED BY <1>1, <1>3, <1>4, CleanStep DEF Cleaning

\* The immutable version is marked as gone only when it is.
LEMMA MarkImmutableStep == ASSUME IInv, NEW p \in Run, MarkImmutable(p) PROVE IInv'
  <1> DEFINE w == [row EXCEPT !.marks = @ \cup {"immutable"}]
  <1>1. run[p].pc = "noImmutable" /\ Clean(p, w, "scrub")
    BY DEF MarkImmutable
  <1>2. w \in Row /\ w.status = row.status /\ w.attached = row.attached
        /\ w.marks = row.marks \cup {"immutable"} /\ w.retires = row.retires
        /\ w.target = row.target /\ w.immutable = row.immutable
    BY AtHand DEF Row, Mark
  <1> HIDE DEF w
  <1>3. row.status = "cleanup_pending" => Cleaned(w)
    BY <1>2, AtHand DEF RowFits, Cleaned
  <1>4. run[p].current /\ row.immutable => object.immutable = "gone"
    BY <1>1, <1>2, AtHand DEF RunFits
  <1> QED BY <1>1, <1>3, <1>4, CleanStep DEF Cleaning

\* A staging version found is recorded.
LEMMA AdoptStagingStep == ASSUME IInv, NEW p \in Run, AdoptStaging(p) PROVE IInv'
  <1> DEFINE w == [row EXCEPT !.staging = TRUE]
  <1>1. run[p].pc = "adopt" /\ run[p].pc \in Cleaning
    BY DEF AdoptStaging, Cleaning
  <1>2. w \in Row /\ w.status = row.status /\ w.attached = row.attached
        /\ w.marks = row.marks /\ w.retires = row.retires
        /\ w.target = row.target /\ w.immutable = row.immutable
    BY AtHand DEF Row
  <1>3. PICK pc \in {"recover", "staging"} : Clean(p, w, pc) \/ Local(p, pc)
    BY DEF AdoptStaging
  <1> HIDE DEF w
  <1>4. row.status = "cleanup_pending" => Cleaned(w)
    BY <1>2, AtHand DEF RowFits, Cleaned
  <1>5. pc \in Cleaning \ {"immutable", "noImmutable"}
    BY DEF Cleaning
  <1>6. CASE Clean(p, w, pc)
    BY <1>1, <1>2, <1>4, <1>5, <1>6, CleanStep
  <1>7. CASE Local(p, pc)
    BY <1>1, <1>5, <1>7, CleaningLocal
  <1> QED BY <1>3, <1>6, <1>7

\* An immutable version found is recorded before it is deleted.
LEMMA AdoptImmutableStep == ASSUME IInv, NEW p \in Run, AdoptImmutable(p) PROVE IInv'
  <1> DEFINE w == [row EXCEPT !.immutable = TRUE]
             r == run[p].row
             pc == IF "immutable" \in r.marks THEN "scrub" ELSE "immutable"
  <1>1. run[p].pc = "recover" /\ run[p].pc \in Cleaning
    BY DEF AdoptImmutable, Cleaning
  <1>2. w \in Row /\ w.status = row.status /\ w.attached = row.attached
        /\ w.marks = row.marks /\ w.retires = row.retires
        /\ w.target = row.target /\ w.immutable
    BY AtHand DEF Row
  <1>3. run[p].current => r = row
    BY AtHand DEF RunFits
  <1>4. pc \in Cleaning /\ pc \in Step /\ pc # "noImmutable"
        /\ (pc = "immutable" => "immutable" \notin r.marks)
    BY DEF Cleaning, Step
  <1>5. CASE r.target /\ ~r.immutable /\ object.immutable = "there" /\ Clean(p, w, pc)
    <2> HIDE DEF w, pc
    <2>1. run[p].current /\ row.status = "cleanup_pending" => Cleaned(w)
      BY <1>2, <1>3, <1>5, AtHand DEF RowFits, Cleaned
    <2> QED BY <1>1, <1>2, <1>3, <1>4, <1>5, <2>1, CleanStep
  <1>6. CASE Local(p, pc) /\ pc # "immutable"
    <2> HIDE DEF pc
    <2> QED BY <1>1, <1>4, <1>6, CleaningLocal
  <1>7. CASE Local(p, pc) /\ pc = "immutable"
    <2> DEFINE s == [run[p] EXCEPT !.pc = pc]
    <2>1. s.pc = pc /\ s.row = r /\ s.now = run[p].now /\ s.current = run[p].current
      BY AtHand DEF RunRecord
    <2>2. "immutable" \notin r.marks
      BY <1>4, <1>7
    <2> HIDE DEF s
    <2>3. RunInv(s)
      BY <1>1, <1>7, <2>1, <2>2, AtHand DEF RunInv, RunFits, Cleaning
    <2>4. Aside
      BY <1>7 DEF Local, Aside, IInv, TypeOK
    <2>5. Goto(p, pc) /\ pc # "put" /\ run[p].pc # "idle"
      BY <1>1, <1>7 DEF Local
    <2> HIDE DEF pc
    <2> QED BY <1>4, <2>3, <2>4, <2>5, GotoStep DEF s
  <1>8. \/ r.target /\ ~r.immutable /\ object.immutable = "there" /\ Clean(p, w, pc)
        \/ Local(p, pc)
    BY DEF AdoptImmutable
  <1> QED BY <1>5, <1>6, <1>7, <1>8

\* A cleanup is complete when every mark is set: no version is left to delete.
LEMMA CompleteStep == ASSUME IInv, NEW p \in Run, Complete(p) PROVE IInv'
  <1> DEFINE w == [NoRow EXCEPT !.status = "cleanup_complete", !.until = row.until,
                                !.debt = row.debt, !.attached = row.attached, !.retires = TRUE]
             can == row.status = "cleanup_pending" /\ row.marks = Mark
             pc == IF run[p].op = "purge" THEN "tombstone" ELSE "idle"
  <1>1. run[p].pc = "complete" /\ parts' \in BOOLEAN /\ attachment' = attachment
    BY DEF Complete, IInv, TypeOK
  <1>2. w \in Row /\ w.status = "cleanup_complete" /\ w.attached = row.attached /\ ~w.immutable
    <2>1. NoRow \in Row /\ ~NoRow.immutable
      BY IdleFacts DEF NoRow
    <2>2. row.until \in Nat /\ row.debt \in BOOLEAN /\ row.attached \in BOOLEAN
      BY AtHand DEF Row
    <2>3. "cleanup_complete" \in Status
      BY DEF Status, Ended
    <2> HIDE DEF can, pc
    <2> QED BY <2>1, <2>2, <2>3 DEF Row
  <1>3. Write(p, can, w, pc, "idle") /\ can \in BOOLEAN /\ pc \in {"tombstone", "idle"}
    BY DEF Complete
  <1>4. can => ~ToDelete(row)
    BY DEF ToDelete, Mark
  <1> HIDE DEF w, pc
  <1>5. can => Fits(w, pc)
    <2> SUFFICES ASSUME can PROVE Fits(w, pc)
      OBVIOUS
    <2>1. attachment \notin {"live", "pending"} /\ ~row.attached
      BY AtHand DEF RowFits
    <2>2. RowFits(w, object.immutable, attachment)
      BY <1>2, <2>1 DEF RowFits, Before, Unspent
    <2>3. Later(row, w, object.immutable)
      BY <1>2, <1>4 DEF Later, Before, Past, Deleting
    <2> QED BY <1>2, <1>3, <2>2, <2>3 DEF Fits, Past, ToDelete
  <1> HIDE DEF can
  <1> QED BY <1>1, <1>3, <1>5, Writes DEF Step

\* The row of a finished cleanup goes.
LEMMA DeleteTombstoneStep == ASSUME IInv, NEW p \in Run, DeleteTombstone(p) PROVE IInv'
  <1>1. run[p].pc = "tombstone" /\ parts' \in BOOLEAN /\ attachment' = attachment
        /\ Write(p, row.status = "cleanup_complete", Gone, "idle", "idle")
    BY DEF DeleteTombstone, IInv, TypeOK
  <1>2. Gone \in Row /\ Gone.status = "gone" /\ ~Gone.attached /\ ~Gone.immutable /\ ~Gone.retires
    BY IdleFacts DEF Gone, NoRow, Row, Status
  <1>3. row.status = "cleanup_complete" => Fits(Gone, "idle")
    <2> SUFFICES ASSUME row.status = "cleanup_complete" PROVE Fits(Gone, "idle")
      OBVIOUS
    <2>1. RowFits(Gone, object.immutable, attachment)
      BY <1>2, AtHand DEF RowFits, Before, Unspent
    <2>2. Later(row, Gone, object.immutable)
      BY <1>2 DEF Later, Before, Past, Deleting
    <2> QED BY <1>2, <2>1, <2>2 DEF Fits, Cleaning
  <1> QED BY <1>1, <1>3, Writes DEF Step
-----------------------------------------------------------------------------
(* The calls to S3, and the steps that only read.                          *)

Objects == [multipart : Held, staging : Held, immutable : Held]

\* A call that leaves the immutable version alone.
LEMMA ProviderStep ==
    ASSUME IInv, NEW p \in Run, run[p].pc # "idle", NEW new \in Objects,
           new.immutable = object.immutable, NEW pc, NEW failed \in Plain,
           Provider(p, new, pc, failed),
           \/ pc \in Plain
           \/ run[p].pc \in Cleaning /\ pc \in Cleaning \ {"immutable", "noImmutable"}
    PROVE  IInv'
  <1>1. object \in Objects /\ object' \in {new, object} /\ faults' \in 0..MaxFaults
    BY TimeAssumption DEF IInv, TypeOK, Objects, Provider, Fault
  <1>2. Aside
    BY <1>1 DEF Provider, Aside, IInv, TypeOK, Objects
  <1>3. PICK to \in {pc, failed} : Goto(p, to)
    BY DEF Provider
  <1>4. pc \in Step /\ failed \in Step
    BY DEF Plain, Cleaning, Step
  <1> QED BY <1>2, <1>3, <1>4, Onward

\* A step that only reads, to a step that relies on nothing.
LEMMA LocalStep ==
    ASSUME IInv, NEW p \in Run, run[p].pc # "idle", NEW pc \in Plain, Local(p, pc)
    PROVE  IInv'
  <1>1. Aside
    BY DEF Local, Aside, IInv, TypeOK
  <1> QED BY <1>1, Onward DEF Local, Plain

\* What S3 holds after a version is deleted.
LEMMA ObjectFacts ==
    ASSUME TypeOK
    PROVE  /\ object \in Objects
           /\ \A h \in Held : Deleted(h) \in Held /\ Deleted(h) # "there"
           /\ \A h \in Held : /\ [object EXCEPT !.multipart = h] \in Objects
                              /\ [object EXCEPT !.multipart = h].immutable = object.immutable
                              /\ [object EXCEPT !.staging = h] \in Objects
                              /\ [object EXCEPT !.staging = h].immutable = object.immutable
                              /\ [object EXCEPT !.immutable = h] \in Objects
                              /\ [object EXCEPT !.immutable = h].immutable = h
           /\ object.multipart \in Held /\ object.staging \in Held /\ object.immutable \in Held
  BY DEF TypeOK, Objects, Held, Deleted

\* The account's fence is read.
LEMMA ReadFenceStep == ASSUME IInv, NEW p \in Run, ReadFence(p) PROVE IInv'
  <1>1. run[p].pc = "fence" /\ {"fail", "create"} \subseteq Plain
    BY DEF ReadFence, Plain, Cleaning, Step
  <1>2. Local(p, "fail") \/ Local(p, "create")
    BY DEF ReadFence
  <1> QED BY <1>1, <1>2, LocalStep

\* The multipart upload is created, or may have been.
LEMMA CreateStep == ASSUME IInv, NEW p \in Run, Create(p) PROVE IInv'
  <1>1. run[p].pc = "create" /\ {"fail", "record"} \subseteq Plain
    BY DEF Create, Plain, Cleaning, Step
  <1> DEFINE new == [object EXCEPT !.multipart = "there"]
  <1>2. new \in Objects /\ new.immutable = object.immutable
    BY ObjectFacts DEF Held, IInv
  <1>3. Provider(p, new, "record", "fail")
    BY DEF Create
  <1> HIDE DEF new
  <1> QED BY <1>1, <1>2, <1>3, ProviderStep

\* The multipart upload nobody recorded is aborted.
LEMMA AbortStep == ASSUME IInv, NEW p \in Run, Abort(p) PROVE IInv'
  <1>1. run[p].pc = "abort" /\ "fail" \in Plain
    BY DEF Abort, Plain, Cleaning, Step
  <1> DEFINE new == [object EXCEPT !.multipart = Deleted(@)]
  <1>2. new \in Objects /\ new.immutable = object.immutable
    BY ObjectFacts DEF IInv
  <1>3. Provider(p, new, "fail", "fail")
    BY DEF Abort
  <1> HIDE DEF new
  <1> QED BY <1>1, <1>2, <1>3, ProviderStep

\* A part row is written, unless the upload's row is gone.
LEMMA PinStep == ASSUME IInv, NEW p \in Run, Pin(p) PROVE IInv'
  <1>1. run[p].pc = "pin" /\ Goto(p, "idle") /\ "idle" \in Plain /\ "idle" \in Step
    BY DEF Pin, Plain, Cleaning, Step
  <1>2. Aside
    BY DEF Pin, Aside, IInv, TypeOK
  <1> QED BY <1>1, <1>2, Onward

\* S3 turns the multipart upload into a staging version.
LEMMA AssembleStep == ASSUME IInv, NEW p \in Run, Assemble(p) PROVE IInv'
  <1>1. run[p].pc = "assemble" /\ {"idle", "store"} \subseteq Plain
    BY DEF Assemble, Plain, Cleaning, Step
  <1> DEFINE new == [object EXCEPT !.multipart = "gone", !.staging = "there"]
  <1>2. new \in Objects /\ new.immutable = object.immutable
    <2>1. object \in Objects
      BY ObjectFacts DEF IInv
    <2> QED BY <2>1 DEF Objects, Held
  <1>3. Local(p, "idle") \/ Provider(p, new, "store", "idle")
    BY DEF Assemble
  <1> HIDE DEF new
  <1> QED BY <1>1, <1>2, <1>3, LocalStep, ProviderStep

\* Who took over goes on only with a version S3 has.
LEMMA MatchStep == ASSUME IInv, NEW p \in Run, Match(p) PROVE IInv'
  <1>1. run[p].pc = "match" /\ {"idle", "store"} \subseteq Plain
    BY DEF Match, Plain, Cleaning, Step
  <1>2. PICK pc : /\ Local(p, pc)
                  /\ pc \in {"idle", "store"} \/ (pc = "finish" /\ object.immutable = "there")
    BY DEF Match
  <1>3. CASE pc \in {"idle", "store"}
    BY <1>1, <1>2, <1>3, LocalStep
  <1>4. CASE pc = "finish"
    <2> DEFINE s == [run[p] EXCEPT !.pc = pc]
    <2>1. s.pc = pc /\ s.row = run[p].row /\ s.now = run[p].now /\ s.current = run[p].current
      BY AtHand DEF RunRecord
    <2> HIDE DEF s
    <2>2. RunInv(s)
      BY <1>1, <1>2, <1>4, <2>1, AtHand DEF RunInv, RunFits, Cleaning
    <2>3. Aside
      BY <1>2 DEF Local, Aside, IInv, TypeOK
    <2>4. Goto(p, pc) /\ pc # "put" /\ run[p].pc # "idle" /\ pc \in Step
      BY <1>1, <1>2, <1>4 DEF Local, Step
    <2> QED BY <2>2, <2>3, <2>4, GotoStep DEF s
  <1> QED BY <1>2, <1>3, <1>4

\* The bytes are read and judged.
LEMMA ValidateStep == ASSUME IInv, NEW p \in Run, Validate(p) PROVE IInv'
  <1>1. run[p].pc = "validate" /\ {"idle", "promote", "refuse"} \subseteq Plain
    BY DEF Validate, Plain, Cleaning, Step
  <1>2. PICK pc \in {"idle", "promote", "refuse"} : Local(p, pc)
    BY DEF Validate
  <1> QED BY <1>1, <1>2, LocalStep

\* A refused staging version is deleted.
LEMMA DropStagingStep == ASSUME IInv, NEW p \in Run, DropStaging(p) PROVE IInv'
  <1>1. run[p].pc = "drop" /\ "idle" \in Plain
    BY DEF DropStaging, Plain, Cleaning, Step
  <1> DEFINE new == [object EXCEPT !.staging = Deleted(@)]
  <1>2. new \in Objects /\ new.immutable = object.immutable
    BY ObjectFacts DEF IInv
  <1>3. Provider(p, new, "idle", "idle")
    BY DEF DropStaging
  <1> HIDE DEF new
  <1> QED BY <1>1, <1>2, <1>3, ProviderStep

\* A promoted staging version is deleted.
LEMMA OweStep == ASSUME IInv, NEW p \in Run, Owe(p) PROVE IInv'
  <1>1. run[p].pc = "owe" /\ {"idle", "clear"} \subseteq Plain
    BY DEF Owe, Plain, Cleaning, Step
  <1> DEFINE new == [object EXCEPT !.staging = Deleted(@)]
  <1>2. new \in Objects /\ new.immutable = object.immutable
    BY ObjectFacts DEF IInv
  <1>3. Provider(p, new, "clear", "idle")
    BY DEF Owe
  <1> HIDE DEF new
  <1> QED BY <1>1, <1>2, <1>3, ProviderStep

\* A cleanup aborts the multipart upload.
LEMMA AbortMultipartStep == ASSUME IInv, NEW p \in Run, AbortMultipart(p) PROVE IInv'
  <1>1. /\ run[p].pc = "multipart" /\ run[p].pc \in Cleaning /\ "idle" \in Plain
        /\ "noMultipart" \in Cleaning \ {"immutable", "noImmutable"}
    BY DEF AbortMultipart, Plain, Cleaning, Step
  <1> DEFINE new == [object EXCEPT !.multipart = Deleted(@)]
  <1>2. new \in Objects /\ new.immutable = object.immutable
    BY ObjectFacts DEF IInv
  <1>3. Local(p, "noMultipart") \/ Provider(p, new, "noMultipart", "idle")
    BY DEF AbortMultipart
  <1> HIDE DEF new
  <1> QED BY <1>1, <1>2, <1>3, CleaningLocal, ProviderStep

\* A cleanup deletes the staging version.
LEMMA DeleteStagingStep == ASSUME IInv, NEW p \in Run, DeleteStaging(p) PROVE IInv'
  <1>1. /\ run[p].pc = "staging" /\ run[p].pc \in Cleaning /\ "idle" \in Plain
        /\ "noStaging" \in Cleaning \ {"immutable", "noImmutable"}
    BY DEF DeleteStaging, Plain, Cleaning, Step
  <1> DEFINE new == [object EXCEPT !.staging = Deleted(@)]
  <1>2. new \in Objects /\ new.immutable = object.immutable
    BY ObjectFacts DEF IInv
  <1>3. Local(p, "noStaging") \/ Provider(p, new, "noStaging", "idle")
    BY DEF DeleteStaging
  <1> HIDE DEF new
  <1> QED BY <1>1, <1>2, <1>3, CleaningLocal, ProviderStep

\* A cleanup deletes a page of parts.
LEMMA ScrubPartsStep == ASSUME IInv, NEW p \in Run, ScrubParts(p) PROVE IInv'
  <1>1. /\ run[p].pc = "scrub" /\ run[p].pc \in Cleaning /\ "idle" \in Plain /\ "idle" \in Step
        /\ {"complete", "noParts"} \subseteq Cleaning \ {"immutable", "noImmutable"}
    BY DEF ScrubParts, Plain, Cleaning, Step
  <1>2. CASE Local(p, "complete") \/ Local(p, "noParts")
    BY <1>1, <1>2, CleaningLocal
  <1>3. CASE /\ parts' = (parts /\ ~(run[p].current /\ row.status = "cleanup_pending"))
             /\ Goto(p, "idle")
             /\ UNCHANGED <<row, object, attachment, closing, clock, faults>>
    <2>1. Aside
      BY <1>3 DEF Aside, IInv, TypeOK
    <2> QED BY <1>1, <1>3, <2>1, Onward
  <1> QED BY <1>2, <1>3 DEF ScrubParts
-----------------------------------------------------------------------------
(* The two calls that change the immutable version.                        *)

\* The object is put by the one run that claimed the promotion, once.
LEMMA PutStep == ASSUME IInv, NEW p \in Run, Put(p) PROVE IInv'
  <1>0. {"idle", "finish"} \subseteq Step /\ "put" \notin {"idle", "finish"}
    BY DEF Step
  <1>1. /\ run[p].pc = "put" /\ UNCHANGED <<row, parts, attachment, closing, clock>>
        /\ object.immutable = "none" /\ row.status \notin Before
    BY AtHand DEF Put, Provider, RunFits
  <1>2. PICK pc \in {"finish", "idle"} :
           /\ Goto(p, pc) /\ object' \in {object, [object EXCEPT !.immutable = "there"]}
           /\ pc = "finish" => object' = [object EXCEPT !.immutable = "there"]
           /\ faults' \in 0..MaxFaults
    BY TimeAssumption DEF Put, Provider, Fault, IInv, TypeOK
  <1>3. /\ object' \in Objects /\ object'.immutable \in {"none", "there"}
        /\ pc = "finish" => object'.immutable = "there"
    BY <1>1, <1>2, ObjectFacts DEF Held, IInv
  <1>4. /\ run' \in [Run -> RunRecord] /\ run'[p] = At(run[p], pc, run[p].row)
        /\ \A q \in Run \ {p} : Waits(q)
    BY <1>1, <1>2, GotoFacts DEF IInv, Step
  <1>5. TypeOK'
    BY <1>1, <1>2, <1>3, <1>4 DEF IInv, TypeOK, RunRecord, Objects
  <1>6. RowInv'
    <2>1. RowFits(row, object'.immutable, attachment)
      BY <1>1, <1>3, AtHand DEF RowFits
    <2> QED BY <1>1, <2>1 DEF RowInv
  <1>7. Later(row, row', object'.immutable) /\ Forward
    BY <1>1, AtHand DEF Later, Forward
  <1>8. RunInv(run[p])'
    <2> DEFINE s == run'[p]
    <2>1. CASE pc = "idle"
      <3>1. s.pc = "idle" /\ ~s.current
        BY <1>4, <2>1, <1>0, AtHand, AtFacts, IdleFacts
      <3> QED BY <3>1, IdleFits DEF RunInv
    <2>2. CASE pc = "finish"
      <3>1. s.pc = "finish" /\ s.row = run[p].row /\ s.now = run[p].now
            /\ s.current = run[p].current
        BY <1>4, <2>2, <1>0, AtHand, AtFacts
      <3> HIDE DEF s
      <3>2. RunFits(s, row, object'.immutable, attachment, closing, clock)
        BY <1>1, <1>3, <2>2, <3>1, AtHand DEF RunFits, Cleaning
      <3> QED BY <1>1, <3>2 DEF RunInv, s
    <2> QED BY <1>2, <2>1, <2>2
  <1>9. \A q \in Run \ {p} : run[q].pc # "put"
    BY <1>1 DEF IInv, OnePut
  <1> QED BY <1>4, <1>5, <1>6, <1>7, <1>8, <1>9, RunStep

\* A run that has lost its row still deletes only a version nobody wants.
LEMMA DeleteImmutableStep == ASSUME IInv, NEW p \in Run, DeleteImmutable(p) PROVE IInv'
  <1>0. {"idle", "noImmutable"} \subseteq Step /\ "put" \notin {"idle", "noImmutable"}
    BY DEF Step
  <1> DEFINE r == run[p].row
  <1>1. /\ run[p].pc = "immutable" /\ UNCHANGED <<row, parts, attachment, closing, clock>>
        /\ row.status \in Past /\ attachment \notin {"live", "pending"}
        /\ (ToDelete(r) => object.immutable = "gone" \/ Deleting(row))
    BY AtHand DEF DeleteImmutable, Provider, Local, RunFits, Cleaning
  <1>2. PICK pc \in {"noImmutable", "idle"} :
           /\ Goto(p, pc)
           /\ object' \in {object, [object EXCEPT !.immutable = Deleted(@)]}
           /\ \/ object' = object /\ (pc = "idle" \/ ~(r.target /\ r.immutable))
              \/ ToDelete(r) /\ object' = [object EXCEPT !.immutable = Deleted(@)]
              \/ ToDelete(r) /\ pc = "idle"
           /\ faults' \in 0..MaxFaults
    <2>1. "immutable" \notin r.marks
      BY <1>1, AtHand DEF RunFits
    <2>2. CASE r.target /\ r.immutable
      <3>1. Provider(p, [object EXCEPT !.immutable = Deleted(@)], "noImmutable", "idle")
        BY <2>2 DEF DeleteImmutable
      <3>2. faults' \in 0..MaxFaults
        BY <3>1, TimeAssumption DEF Provider, Fault, IInv, TypeOK
      <3> QED BY <2>1, <2>2, <3>1, <3>2 DEF Provider, ToDelete
    <2>3. CASE ~(r.target /\ r.immutable)
      BY <2>3 DEF DeleteImmutable, Local, IInv, TypeOK
    <2> QED BY <2>2, <2>3
  <1>3. /\ object' \in Objects /\ object'.immutable \in {object.immutable, Deleted(object.immutable)}
        /\ ~ToDelete(r) => object'.immutable = object.immutable
    BY <1>2, ObjectFacts DEF IInv
  <1>4. /\ run' \in [Run -> RunRecord] /\ run'[p] = At(run[p], pc, r)
        /\ \A q \in Run \ {p} : Waits(q)
    BY <1>1, <1>2, GotoFacts DEF IInv, Step
  <1>5. TypeOK'
    BY <1>1, <1>2, <1>3, <1>4 DEF IInv, TypeOK, RunRecord, Objects
  <1>6. row.status \notin Unspent /\ row.status # "none" /\ row.status \notin Before
    BY <1>1 DEF Past, Unspent, Before
  <1>7. RowInv'
    <2>1. RowFits(row, object'.immutable, attachment)
      BY <1>1, <1>3, <1>6, AtHand DEF RowFits, Deleted, Unspent
    <2> QED BY <1>1, <2>1 DEF RowInv
  <1>8. Later(row, row', object'.immutable) /\ Forward
    BY <1>1, <1>3, <1>6, AtHand DEF Later, Forward, Deleted, Held
  <1>9. RunInv(run[p])'
    <2> DEFINE s == run'[p]
    <2>1. CASE pc = "idle"
      <3>1. s.pc = "idle" /\ ~s.current
        BY <1>4, <2>1, <1>0, AtHand, AtFacts, IdleFacts
      <3> QED BY <3>1, IdleFits DEF RunInv
    <2>2. CASE pc = "noImmutable"
      <3>1. s.pc = "noImmutable" /\ s.row = r /\ s.now = run[p].now
            /\ s.current = run[p].current
        BY <1>4, <2>2, <1>0, AtHand, AtFacts
      <3> HIDE DEF s
      <3>2. s.current /\ row.immutable => object'.immutable = "gone"
        <4> SUFFICES ASSUME s.current, row.immutable PROVE object'.immutable = "gone"
          OBVIOUS
        <4>1. r = row /\ row.target /\ object.immutable \in {"there", "gone"}
          BY <3>1, AtHand DEF RunFits, RowFits, Held
        <4>2. object' = [object EXCEPT !.immutable = Deleted(@)]
          BY <1>2, <2>2, <4>1
        <4> QED BY <4>1, <4>2, ObjectFacts DEF Deleted, IInv
      <3>3. ToDelete(r) => object'.immutable = "gone" \/ Deleting(row)
        BY <1>1, <1>3 DEF Deleted
      <3>4. RunFits(s, row, object'.immutable, attachment, closing, clock)
        BY <1>1, <3>1, <3>2, <3>3, AtHand DEF RunFits, Cleaning
      <3> QED BY <1>1, <3>4 DEF RunInv, s
    <2> QED BY <1>2, <2>1, <2>2
  <1>10. \A q \in Run \ {p} :
            run[q].pc = "put" => object'.immutable = object.immutable /\ run'[p].pc # "put"
    <2>1. run'[p].pc # "put"
      BY <1>2, <1>4, <1>0, AtHand, AtFacts
    <2>2. ASSUME NEW q \in Run, run[q].pc = "put" PROVE object'.immutable = object.immutable
      BY <1>3, <2>2, AtHand DEF RunFits, Deleted
    <2> QED BY <2>1, <2>2
  <1> QED BY <1>4, <1>5, <1>7, <1>8, <1>9, <1>10, RunStep
-----------------------------------------------------------------------------
(* The calls and jobs that begin.                                          *)

\* A run that begins has just read the row.
LEMMA BeginStep ==
    ASSUME IInv, NEW p \in Run, NEW op \in {"sign", "complete", "send", "sweep", "purge"},
           NEW pc \in {"pin", "claim", "takeover", "validate", "owe", "bind", "clean", "close"},
           Begin(p, op, pc), row.status \notin {"none", "gone"},
           pc = "takeover" => row.status \in {"assembling", "promoting"},
           pc = "close" => closing /\ (row.attached => attachment = "gone")
    PROVE  IInv'
  <1> DEFINE s == [pc |-> pc, op |-> op, now |-> clock, row |-> row, current |-> TRUE]
  <1>1. run[p].pc = "idle" /\ UNCHANGED <<row, parts, object, attachment, closing, clock, faults>>
        /\ run' = [run EXCEPT ![p] = s]
    BY DEF Begin
  <1>2. s \in RunRecord /\ clock \in 0..Horizon /\ run \in [Run -> RunRecord]
    <2>1. clock \in 0..Horizon /\ row \in Row /\ pc \in Step
      BY DEF IInv, TypeOK, Step
    <2> QED BY <2>1 DEF RunRecord, IInv, TypeOK
  <1>3. s.pc = pc /\ s.now = clock /\ s.row = row /\ s.current
    OBVIOUS
  <1> HIDE DEF s
  <1>4. run' \in [Run -> RunRecord] /\ run'[p] = s /\ (\A q \in Run \ {p} : Waits(q))
    BY <1>1, <1>2 DEF Waits
  <1>5. TypeOK'
    BY <1>1, <1>4 DEF IInv, TypeOK, RunRecord
  <1>6. RowInv' /\ Later(row, row', object'.immutable) /\ Forward
    <2>1. Later(row, row', object'.immutable)
      BY <1>1 DEF Later
    <2>2. Forward
      BY <1>1, AtHand DEF Forward
    <2> QED BY <1>1, <2>1, <2>2 DEF IInv, RowInv
  <1>7. RunFits(s, row, object.immutable, attachment, closing, clock)
    BY <1>3, AtHand DEF RunFits, Cleaning
  <1>8. RunInv(run[p])'
    BY <1>1, <1>4, <1>7 DEF RunInv
  <1>9. \A q \in Run \ {p} :
           run[q].pc = "put" => object'.immutable = object.immutable /\ run'[p].pc # "put"
    BY <1>1, <1>3, <1>4
  <1> QED BY <1>4, <1>5, <1>6, <1>8, <1>9, RunStep

\* sign_part begins.
LEMMA CallSignStep == ASSUME IInv, NEW p \in Run, CallSign(p) PROVE IInv'
  <1>1. row.status \notin {"none", "gone"} /\ Begin(p, "sign", "pin")
    BY DEF CallSign
  <1> QED BY <1>1, BeginStep

\* complete begins where the row is.
LEMMA CallCompleteStep == ASSUME IInv, NEW p \in Run, CallComplete(p) PROVE IInv'
  <1> DEFINE pc == CompleteFrom(row)
  <1>1. /\ pc \in {"claim", "takeover", "validate", "owe"} /\ row.status \notin {"none", "gone"}
        /\ pc = "takeover" => row.status \in {"assembling", "promoting"}
    BY DEF CallComplete, CompleteFrom
  <1>2. Begin(p, "complete", pc)
    BY DEF CallComplete
  <1> HIDE DEF pc
  <1> QED BY <1>1, <1>2, BeginStep

\* A message with the upload begins.
LEMMA CallSendStep == ASSUME IInv, NEW p \in Run, CallSend(p) PROVE IInv'
  <1>1. row.status \notin {"none", "gone"} /\ Begin(p, "send", "bind")
    BY DEF CallSend
  <1> QED BY <1>1, BeginStep

\* The sweep begins.
LEMMA StartSweepStep == ASSUME IInv, NEW p \in Run, StartSweep(p) PROVE IInv'
  <1>1. row.status \notin {"none", "gone"} /\ Begin(p, "sweep", "clean")
    BY DEF StartSweep, CleanupDue, Unspent
  <1> QED BY <1>1, BeginStep

\* The purge begins; a spent upload's attachment is gone by then.
LEMMA StartPurgeStep == ASSUME IInv, NEW p \in Run, StartPurge(p) PROVE IInv'
  <1>1. /\ row.status \notin {"none", "gone"} /\ closing
        /\ (row.attached => attachment \notin {"live", "pending"})
    BY DEF StartPurge
  <1>2. PICK pc \in {"clean", "close"} : Begin(p, "purge", pc)
    BY DEF StartPurge
  <1>3. row.attached => attachment = "gone"
    BY <1>1, AtHand DEF RowFits
  <1> QED BY <1>1, <1>2, <1>3, BeginStep

\* start begins with a row of its own; no other run was under way.
LEMMA StartStep == ASSUME IInv, NEW p \in Run, Start(p) PROVE IInv'
  <1> DEFINE w == [Claimed(NoRow, "staging_issuance", "issuing", clock)
                     EXCEPT !.key = TRUE, !.until = clock + UsableTime]
             s == [pc |-> "fence", op |-> "start", now |-> clock, row |-> w, current |-> TRUE]
  <1>1. /\ run[p].pc = "idle" /\ row.status = "none" /\ row' = w /\ run' = [run EXCEPT ![p] = s]
        /\ UNCHANGED <<parts, object, attachment, closing, clock, faults>>
    BY DEF Start
  <1>2. w \in Row /\ w.status = "issuing" /\ ~w.attached /\ ~w.retires /\ ~w.immutable
    <2> DEFINE v == Claimed(NoRow, "staging_issuance", "issuing", clock)
    <2>1. Operated(v, NoRow, "issuing")
      BY AtHand, IdleFacts, OperationFacts DEF Status, Unspent, Kind
    <2>2. ~v.attached /\ ~v.retires /\ ~v.immutable /\ v \in Row /\ v.status = "issuing"
      BY <2>1 DEF Operated, NoRow
    <2> HIDE DEF v
    <2>3. w = [v EXCEPT !.key = TRUE, !.until = clock + UsableTime]
      BY DEF v
    <2>4. clock + UsableTime \in Nat
      BY AtHand
    <2> HIDE DEF w
    <2> QED BY <2>2, <2>3, <2>4 DEF Row
  <1>3. s \in RunRecord /\ run \in [Run -> RunRecord]
    <2>1. clock \in 0..Horizon
      BY DEF IInv, TypeOK
    <2> HIDE DEF w
    <2> QED BY <1>2, <2>1 DEF RunRecord, IInv, TypeOK, Step
  <1>4. s.pc = "fence" /\ s.now = clock /\ s.row = w /\ s.current
    OBVIOUS
  <1> HIDE DEF w, s
  <1>5. ASSUME NEW q \in Run PROVE run[q].pc = "idle" /\ ~run[q].current
    BY <1>1, AtHand DEF RunFits
  <1>6. run' \in [Run -> RunRecord] /\ run'[p] = s /\ (\A q \in Run \ {p} : Waits(q))
    <2>1. ASSUME NEW q \in Run \ {p} PROVE Waits(q)
      <3>1. run[q] = [run[q] EXCEPT !.current = FALSE]
        BY <1>3, <1>5 DEF RunRecord
      <3>2. run'[q] = run[q]
        BY <1>1, <1>3
      <3> QED BY <3>1, <3>2 DEF Waits
    <2> QED BY <1>1, <1>3, <2>1
  <1>7. TypeOK'
    BY <1>1, <1>2, <1>6 DEF IInv, TypeOK, RunRecord
  <1>8. RowInv' /\ Later(row, row', object'.immutable) /\ Forward
    <2>1. RowFits(w, object.immutable, attachment)
      BY <1>1, <1>2, AtHand DEF RowFits, Before, Unspent
    <2>2. Later(row, w, object.immutable)
      BY <1>1, <1>2 DEF Later, Past, Before, Deleting
    <2>3. Forward
      BY <1>1, AtHand DEF Forward
    <2> QED BY <1>1, <2>1, <2>2, <2>3 DEF RowInv
  <1>9. RunFits(s, w, object.immutable, attachment, closing, clock)
    BY <1>2, <1>4, AtHand DEF RunFits, Cleaning
  <1>10. RunInv(run[p])'
    BY <1>1, <1>6, <1>9 DEF RunInv
  <1> QED BY <1>5, <1>6, <1>7, <1>8, <1>10, RunStep
-----------------------------------------------------------------------------
(* The world around the runs.                                              *)

\* A step that no run takes.
LEMMA WorldStep ==
    ASSUME IInv, UNCHANGED run, TypeOK', RowInv', Later(row, row', object'.immutable), Forward,
           \A q \in Run : Waits(q) /\ (run[q].pc = "put" => object'.immutable = object.immutable)
    PROVE  IInv'
  <1>1. ASSUME NEW q \in Run PROVE RunInv(run[q])'
    BY <1>1, Waiting
  <1>2. OnePut'
    BY DEF IInv, OnePut
  <1> QED BY <1>1, <1>2 DEF IInv

\* Time passes.
LEMMA TickStep == ASSUME IInv, Tick PROVE IInv'
  <1>1. clock' \in 0..Horizon /\ clock <= clock' /\ clock' \in Nat
        /\ UNCHANGED <<row, parts, object, attachment, closing, run, faults>>
    BY TimeAssumption DEF Tick, IInv, TypeOK
  <1>2. TypeOK' /\ RowInv'
    BY <1>1 DEF IInv, TypeOK, RowInv
  <1>3. Later(row, row', object'.immutable) /\ Forward
    BY <1>1 DEF Later, Forward
  <1>4. \A q \in Run : Waits(q)
    BY <1>1 DEF Waits
  <1> QED BY <1>1, <1>2, <1>3, <1>4, WorldStep

\* The account begins to be deleted.
LEMMA CloseAccountStep == ASSUME IInv, CloseAccount PROVE IInv'
  <1>1. closing' /\ UNCHANGED <<row, parts, object, attachment, clock, run, faults>>
    BY DEF CloseAccount
  <1>2. TypeOK' /\ RowInv'
    BY <1>1 DEF IInv, TypeOK, RowInv, CloseAccount
  <1>3. Later(row, row', object'.immutable) /\ Forward
    BY <1>1, TimeAssumption DEF Later, Forward, IInv, TypeOK
  <1>4. \A q \in Run : Waits(q)
    BY <1>1 DEF Waits
  <1> QED BY <1>1, <1>2, <1>3, <1>4, WorldStep

\* The table removes a finished row.
LEMMA RetireStep == ASSUME IInv, Retire PROVE IInv'
  <1>1. /\ row.retires /\ row' = Gone /\ (\A p \in Run : run[p].pc = "idle")
        /\ UNCHANGED <<parts, object, attachment, closing, clock, run, faults>>
    BY DEF Retire
  <1>2. Gone \in Row /\ Gone.status = "gone" /\ ~Gone.attached /\ ~Gone.immutable /\ ~Gone.retires
    BY IdleFacts DEF Gone, NoRow, Row, Status
  <1>3. TypeOK'
    BY <1>1, <1>2 DEF IInv, TypeOK
  <1>4. RowInv'
    <2>1. RowFits(Gone, object.immutable, attachment)
      BY <1>1, <1>2 DEF IInv, RowInv, RowFits, Before, Unspent
    <2> QED BY <1>1, <2>1 DEF RowInv
  <1>5. ASSUME NEW q \in Run PROVE RunInv(run[q])'
    <2>1. run'[q].pc = "idle" /\ ~run'[q].current
      BY <1>1, <1>5 DEF IInv, RunInv, RunFits
    <2> QED BY <2>1, IdleFits DEF RunInv
  <1>6. OnePut'
    BY <1>1 DEF IInv, OnePut
  <1> QED BY <1>3, <1>4, <1>5, <1>6 DEF IInv

\* An attachment and its bytes go.
LEMMA DropAttachmentStep == ASSUME IInv, DropAttachment PROVE IInv'
  <1>1. /\ attachment \in {"live", "pending"} /\ attachment' \in {"live", "pending", "gone"}
        /\ UNCHANGED <<row, parts, closing, clock, run, faults>>
        /\ \/ attachment' = "pending"
           \/ attachment' = "gone"
        /\ \/ object' = object
           \/ object' = [object EXCEPT !.immutable = "gone"]
    BY DEF DropAttachment
  <1>2. row.status \in {"consumed", "gone"} /\ RowFits(row, object.immutable, attachment)
    BY <1>1 DEF IInv, RowInv, RowFits
  <1>3. object' \in Objects /\ object'.immutable \in {object.immutable, "gone"}
    BY <1>1, ObjectFacts DEF IInv, Held
  <1>4. TypeOK'
    BY <1>1, <1>3 DEF IInv, TypeOK, Objects
  <1>5. RowInv'
    <2>1. RowFits(row, object'.immutable, attachment')
      BY <1>1, <1>2, <1>3 DEF RowFits, Before, Unspent
    <2> QED BY <1>1, <2>1 DEF RowInv
  <1>6. Later(row, row', object'.immutable)
    BY <1>1 DEF Later
  <1>7. Forward
    BY <1>1, <1>2, <1>3, TimeAssumption DEF Forward, IInv, TypeOK, Unspent
  <1>8. ASSUME NEW q \in Run
        PROVE  Waits(q) /\ (run[q].pc = "put" => object'.immutable = object.immutable)
    <2>1. object.immutable = "none" => object'.immutable = "none"
      BY DEF DropAttachment
    <2> QED BY <1>1, <2>1, AtHand DEF Waits, RunFits
  <1> QED BY <1>1, <1>4, <1>5, <1>6, <1>7, <1>8, WorldStep

\* A run that ends by a fault leaves everything else as it is.
LEMMA CrashStep == ASSUME IInv, NEW p \in Run, Crash(p) PROVE IInv'
  <1>1. /\ Goto(p, "idle") /\ run[p].pc # "idle" /\ faults' \in 0..MaxFaults
        /\ UNCHANGED <<row, parts, object, attachment, closing, clock>>
    BY TimeAssumption DEF Crash, Goto, At, IInv, TypeOK
  <1>2. Aside
    BY <1>1 DEF Aside, IInv, TypeOK
  <1>3. "idle" \in Plain /\ "idle" \in Step
    BY DEF Plain, Cleaning, Step
  <1> QED BY <1>1, <1>2, <1>3, Onward
-----------------------------------------------------------------------------
(* The invariant.                                                          *)

\* At first there is no upload.
LEMMA InitStep == Init => IInv
  <1> SUFFICES ASSUME Init PROVE IInv
    OBVIOUS
  <1>1. TypeOK
    <2>1. 0 \in 0..Horizon /\ 0 \in 0..MaxFaults
      BY TimeAssumption
    <2>2. \A p \in Run : run[p] \in RunRecord
      BY IdleFacts DEF Init
    <2> QED BY <2>1, <2>2, IdleFacts DEF Init, TypeOK, Held, RunRecord
  <1>2. RowInv
    BY DEF Init, RowInv, RowFits, NoRow, Unspent, Before
  <1>3. \A p \in Run : RunInv(run[p])
    BY IdleFacts, IdleFits DEF Init, RunInv
  <1>4. OnePut
    BY IdleFacts DEF Init, OnePut
  <1> QED BY <1>1, <1>2, <1>3, <1>4 DEF IInv

\* No step of the owner's calls breaks the invariant ...
LEMMA OwnersSteps == ASSUME IInv, NEW p \in Run, OwnersStep(p) PROVE IInv'
  BY ReadFenceStep, CreateStep, RecordStep, AbortStep, IssuanceFailedStep, PinStep,
     ClaimAssemblyStep, AssembleStep, TakeoverStep, MatchStep, StoreStagingStep, ValidateStep,
     RefuseStep, DropStagingStep, PromoteStep, PutStep, FinishStep, OweStep, ClearStep, BindStep
     DEF OwnersStep

\* ... nor one of a cleanup ...
LEMMA CleanupSteps == ASSUME IInv, NEW p \in Run, CleanupStep(p) PROVE IInv'
  BY CloseUploadStep, ClaimCleanupStep, ScanReferencesStep, AbortMultipartStep,
     MarkMultipartStep, AdoptStagingStep, DeleteStagingStep, MarkStagingStep,
     AdoptImmutableStep, DeleteImmutableStep, MarkImmutableStep, ScrubPartsStep,
     MarkPartsStep, CompleteStep, DeleteTombstoneStep
     DEF CleanupStep

\* ... nor any other.
LEMMA NextStep == IInv /\ [Next]_vars => IInv'
  <1> SUFFICES ASSUME IInv, [Next]_vars PROVE IInv'
    OBVIOUS
  <1>1. CASE UNCHANGED vars
    BY <1>1 DEF vars, IInv, TypeOK, RowInv, RunInv, OnePut
  <1>2. CASE Tick \/ Retire \/ CloseAccount \/ DropAttachment
    BY <1>2, TickStep, RetireStep, CloseAccountStep, DropAttachmentStep
  <1>3. ASSUME NEW p \in Run,
               Crash(p) \/ Called(p) \/ StartSweep(p) \/ StartPurge(p)
        PROVE  IInv'
    BY <1>3, CrashStep, StartStep, CallSignStep, CallCompleteStep, CallSendStep,
       StartSweepStep, StartPurgeStep DEF Called
  <1>4. ASSUME NEW p \in Run, OwnersStep(p) \/ CleanupStep(p) PROVE IInv'
    BY <1>4, OwnersSteps, CleanupSteps
  <1> QED BY <1>1, <1>2, <1>3, <1>4 DEF Next

\* The invariant that all of the theorems rest on.
THEOREM Invariance == Spec => []IInv
  BY InitStep, NextStep, PTL DEF Spec

\* Every variable keeps to its values, a run's row to what a row may be.
THEOREM TypeCorrect == Spec => []TypeOK
  <1>1. IInv => TypeOK
    BY DEF IInv
  <1> QED BY <1>1, Invariance, PTL

\* The bytes of an upload that may still be spent, and of an attachment that messages show,
\* are kept, whatever sweeps, purges and recoveries overlap, and whoever died.
THEOREM BytesKept == Spec => []WantedBytesKept
  <1>1. IInv => WantedBytesKept
    BY DEF IInv, RowInv, RowFits, WantedBytesKept
  <1> QED BY <1>1, Invariance, PTL
-----------------------------------------------------------------------------
(* How the row moves.                                                      *)

\* The moves of an upload's status by the owner's calls ...
OwnersMoves ==
    {<<"issuing", "pending_upload">>, <<"issuing", "cleanup_pending">>,
     <<"pending_upload", "assembling">>, <<"assembling", "assembling">>,
     <<"assembling", "validating">>, <<"validating", "invalid">>, <<"validating", "promoting">>,
     <<"promoting", "promoting">>, <<"promoting", "validated">>, <<"validated", "validated">>,
     <<"validated", "consumed">>}

\* ... and of a cleanup that has been claimed.
CleaningMoves ==
    {<<"cleanup_pending", "cleanup_pending">>, <<"cleanup_pending", "cleanup_complete">>,
     <<"cleanup_complete", "gone">>}

Moved(moves) == row' = row \/ <<row.status, row'.status>> \in moves

\* A write that is not made leaves the row.
LEMMA WriteMoves ==
    ASSUME NEW p \in Run, NEW can \in BOOLEAN, NEW new, NEW pc, NEW failed,
           Write(p, can, new, pc, failed)
    PROVE  /\ UNCHANGED <<object, closing, clock>>
           /\ row' = row \/ (run[p].current /\ can /\ row' = new)
  BY DEF Write, Written

\* The owner's writes: each moves the row along one line of the table.
LEMMA OwnersWrites ==
    ASSUME IInv, NEW p \in Run,
           \/ Record(p) \/ IssuanceFailed(p) \/ ClaimAssembly(p) \/ Takeover(p)
           \/ StoreStaging(p) \/ Refuse(p) \/ Promote(p) \/ Finish(p) \/ Clear(p)
    PROVE  Moved(OwnersMoves) /\ UNCHANGED <<object, attachment>>
  <1>1. row \in Row
    BY AtHand
  <1>2. CASE Record(p)
    <2> DEFINE w == [Released(row, "pending_upload") EXCEPT !.multipart = TRUE]
    <2>1. w.status = "pending_upload"
      BY <1>1 DEF Released, Row
    <2>2. Write(p, row.status = "issuing", w, "idle", "abort") /\ UNCHANGED attachment
      BY <1>2 DEF Record
    <2> HIDE DEF w
    <2> QED BY <2>1, <2>2, WriteMoves DEF Moved, OwnersMoves
  <1>3. CASE IssuanceFailed(p)
    <2> DEFINE w == [row EXCEPT !.status = "cleanup_pending"]
    <2>1. w.status = "cleanup_pending"
      BY <1>1 DEF Row
    <2>2. Write(p, row.status = "issuing", w, "idle", "idle") /\ UNCHANGED attachment
      BY <1>3 DEF IssuanceFailed
    <2> HIDE DEF w
    <2> QED BY <2>1, <2>2, WriteMoves DEF Moved, OwnersMoves
  <1>4. CASE ClaimAssembly(p)
    <2> DEFINE w == Claimed(row, "staging_assembly", "assembling", run[p].now)
               can == row.status = "pending_upload" /\ row.until > run[p].now
    <2>1. w.status = "assembling"
      BY <1>1 DEF Claimed, Row
    <2>2. Write(p, can, w, "assemble", "idle") /\ can \in BOOLEAN /\ UNCHANGED attachment
      BY <1>4 DEF ClaimAssembly
    <2>3. can => row.status = "pending_upload"
      OBVIOUS
    <2> HIDE DEF w, can
    <2> QED BY <2>1, <2>2, <2>3, WriteMoves DEF Moved, OwnersMoves
  <1>5. CASE Takeover(p)
    <2> DEFINE w == [row EXCEPT !.lease = run[p].now + LeaseTime, !.takeovers = @ + 1]
               can == row.lease <= run[p].now /\ row.takeovers < MaxTakeovers
    <2>1. w.status = row.status
      BY <1>1 DEF Row
    <2>2. Write(p, can, w, "match", "idle") /\ can \in BOOLEAN /\ UNCHANGED attachment
      BY <1>5 DEF Takeover
    <2>3. run[p].current => row.status \in {"assembling", "promoting"}
      BY <1>5, AtHand DEF Takeover, RunFits
    <2> HIDE DEF w, can
    <2> QED BY <2>1, <2>2, <2>3, WriteMoves DEF Moved, OwnersMoves
  <1>6. CASE StoreStaging(p)
    <2> DEFINE w == [Released(row, "validating") EXCEPT !.staging = TRUE]
    <2>1. w.status = "validating"
      BY <1>1 DEF Released, Row
    <2>2. Write(p, row.status = "assembling", w, "validate", "idle") /\ UNCHANGED attachment
      BY <1>6 DEF StoreStaging
    <2> HIDE DEF w
    <2> QED BY <2>1, <2>2, WriteMoves DEF Moved, OwnersMoves
  <1>7. CASE Refuse(p)
    <2> DEFINE w == [row EXCEPT !.status = "invalid"]
    <2>1. w.status = "invalid"
      BY <1>1 DEF Row
    <2>2. /\ UNCHANGED <<object, attachment>>
          /\ row' = row \/ (row.status = "validating" /\ row' = w)
      BY <1>7 DEF Refuse, Written
    <2> HIDE DEF w
    <2> QED BY <2>1, <2>2 DEF Moved, OwnersMoves
  <1>8. CASE Promote(p)
    <2> DEFINE w == [Claimed(row, "immutable_promotion", "promoting", run[p].now)
                       EXCEPT !.target = TRUE]
               can == row.status = "validating" /\ row.until > run[p].now
    <2>1. w.status = "promoting"
      BY <1>1 DEF Claimed, Row
    <2>2. Write(p, can, w, "put", "idle") /\ can \in BOOLEAN /\ UNCHANGED attachment
      BY <1>8 DEF Promote
    <2>3. can => row.status = "validating"
      OBVIOUS
    <2> HIDE DEF w, can
    <2> QED BY <2>1, <2>2, <2>3, WriteMoves DEF Moved, OwnersMoves
  <1>9. CASE Finish(p)
    <2> DEFINE w == [Released(row, "validated") EXCEPT !.immutable = TRUE, !.debt = TRUE]
               pc == IF run[p].row.takeovers = 0 THEN "owe" ELSE "idle"
    <2>1. w.status = "validated"
      BY <1>1 DEF Released, Row
    <2>2. Write(p, row.status = "promoting", w, pc, "idle") /\ UNCHANGED attachment
      BY <1>9 DEF Finish
    <2> HIDE DEF w, pc
    <2> QED BY <2>1, <2>2, WriteMoves DEF Moved, OwnersMoves
  <1>10. CASE Clear(p)
    <2> DEFINE w == [row EXCEPT !.key = FALSE, !.staging = FALSE, !.multipart = FALSE,
                                !.debt = FALSE]
    <2>1. w.status = row.status
      BY <1>1 DEF Row
    <2>2. Write(p, row.status = "validated", w, "idle", "idle") /\ UNCHANGED attachment
      BY <1>10 DEF Clear
    <2> HIDE DEF w
    <2> QED BY <2>1, <2>2, WriteMoves DEF Moved, OwnersMoves
  <1> QED BY <1>2, <1>3, <1>4, <1>5, <1>6, <1>7, <1>8, <1>9, <1>10

\* A message spends a validated upload, and nothing else.
LEMMA BindMoves ==
    ASSUME IInv, NEW p \in Run, Bind(p)
    PROVE  /\ UNCHANGED object
           /\ \/ row' = row /\ UNCHANGED attachment
              \/ row.status = "validated" /\ row'.status = "consumed" /\ attachment' = "live"
  <1> DEFINE w == [row EXCEPT !.status = "consumed", !.attached = TRUE, !.retires = TRUE]
             can == row.status = "validated" /\ row.until > run[p].now /\ ~closing
  <1>1. w.status = "consumed"
    BY AtHand DEF Row
  <1>2. Write(p, can, w, "idle", "idle") /\ can \in BOOLEAN
        /\ attachment' = IF row' = row THEN attachment ELSE "live"
    BY DEF Bind
  <1>3. can => row.status = "validated"
    OBVIOUS
  <1> HIDE DEF w, can
  <1> QED BY <1>1, <1>2, <1>3, WriteMoves

\* A cleanup is claimed of a row refused, or whose window is over.
LEMMA ClaimCleanupMoves ==
    ASSUME IInv, NEW p \in Run, ClaimCleanup(p)
    PROVE  /\ UNCHANGED <<object, attachment, clock>>
           /\ \/ row' = row
              \/ /\ row'.status = "cleanup_pending"
                 /\ \/ row.status \in {"invalid", "cleanup_pending"}
                    \/ row.status \in Unspent /\ row.until <= clock
  <1> DEFINE w == [row EXCEPT !.status = "cleanup_pending"]
             can == CleanupDue(row, run[p].now)
  <1>1. w.status = "cleanup_pending"
    BY AtHand DEF Row
  <1>2. Write(p, can, w, "scan", "idle") /\ can \in BOOLEAN /\ UNCHANGED attachment
    BY DEF ClaimCleanup, CleanupDue
  <1>3. can => row.status \in {"invalid", "cleanup_pending"}
               \/ (row.status \in Unspent /\ row.until <= clock)
    <2>1. row.until \in Nat /\ run[p].now \in Nat /\ clock \in Nat /\ run[p].now <= clock
      BY AtHand DEF Row, ClaimCleanup
    <2> QED BY <2>1 DEF CleanupDue
  <1> HIDE DEF w, can
  <1> QED BY <1>1, <1>2, <1>3, WriteMoves

\* The purge of a closing account claims any row, one that was spent when its attachment is gone.
LEMMA CloseUploadMoves ==
    ASSUME IInv, NEW p \in Run, CloseUpload(p)
    PROVE  /\ UNCHANGED <<object, attachment>>
           /\ \/ row' = row
              \/ /\ row'.status = "cleanup_pending" /\ closing
                 /\ row.status \notin {"none", "gone"}
                 /\ row.status = "consumed" => attachment = "gone"
  <1> DEFINE w == [row EXCEPT !.status = "cleanup_pending", !.attached = FALSE]
  <1>1. w.status = "cleanup_pending"
    BY AtHand DEF Row
  <1>2. Write(p, row.status # "cleanup_complete", w, "clean", "idle") /\ UNCHANGED attachment
    BY DEF CloseUpload
  <1>3. run[p].current => /\ closing /\ row.status \notin {"none", "gone"}
                          /\ row.status = "consumed" => attachment = "gone"
    BY AtHand DEF CloseUpload, RunFits, RowFits
  <1> HIDE DEF w
  <1> QED BY <1>1, <1>2, <1>3, WriteMoves

\* A claimed cleanup stays one until it is complete, and its row goes after that.
LEMMA CleaningWrites ==
    ASSUME IInv, NEW p \in Run,
           \/ ScanReferences(p) \/ MarkMultipart(p) \/ AdoptStaging(p) \/ MarkStaging(p)
           \/ AdoptImmutable(p) \/ MarkImmutable(p) \/ MarkParts(p) \/ Complete(p)
           \/ DeleteTombstone(p)
    PROVE  Moved(CleaningMoves) /\ UNCHANGED <<object, attachment>>
  <1>1. row \in Row
    BY AtHand
  <1>2. ASSUME NEW w, NEW pc, Clean(p, w, pc) \/ Local(p, pc),
               Local(p, pc) \/ w.status = row.status
        PROVE  Moved(CleaningMoves) /\ UNCHANGED <<object, attachment>>
    <2>1. CASE Local(p, pc)
      BY <2>1 DEF Local, Moved
    <2>2. CASE Clean(p, w, pc) /\ w.status = row.status
      BY <2>2, WriteMoves DEF Clean, Moved, CleaningMoves
    <2> QED BY <1>2, <2>1, <2>2
  <1>3. CASE ScanReferences(p)
    <2>1. run[p].current /\ run[p].row.attached => row.status # "cleanup_pending"
      BY AtHand DEF RowFits, RunFits
    <2>2. attachment \notin {"live", "pending"}
      BY <1>3, AtHand DEF ScanReferences, RunFits, Cleaning
    <2> DEFINE w == [row EXCEPT !.status = "cleanup_blocked", !.retires = TRUE]
    <2>3. CASE run[p].row.attached /\ Clean(p, w, "idle")
      <3> HIDE DEF w
      <3> QED BY <2>1, <2>3, WriteMoves DEF Clean, Moved
    <2>4. CASE \E pc \in Step : Local(p, pc)
      BY <2>4 DEF Local, Moved
    <2> QED BY <1>3, <2>2, <2>3, <2>4 DEF ScanReferences, Step
  <1>4. CASE MarkMultipart(p) \/ MarkStaging(p) \/ MarkImmutable(p) \/ MarkParts(p)
    <2>1. PICK m, pc : Clean(p, [row EXCEPT !.marks = @ \cup {m}], pc)
      BY <1>4 DEF MarkMultipart, MarkStaging, MarkImmutable, MarkParts
    <2> DEFINE w == [row EXCEPT !.marks = @ \cup {m}]
    <2>2. w.status = row.status /\ Clean(p, w, pc)
      BY <1>1, <2>1 DEF Row
    <2> HIDE DEF w
    <2> QED BY <1>2, <2>2
  <1>5. CASE AdoptStaging(p)
    <2> DEFINE w == [row EXCEPT !.staging = TRUE]
    <2>1. PICK pc : Clean(p, w, pc) \/ Local(p, pc)
      BY <1>5 DEF AdoptStaging
    <2>2. w.status = row.status
      BY <1>1 DEF Row
    <2> HIDE DEF w
    <2> QED BY <1>2, <2>1, <2>2
  <1>6. CASE AdoptImmutable(p)
    <2> DEFINE w == [row EXCEPT !.immutable = TRUE]
    <2>1. PICK pc : Clean(p, w, pc) \/ Local(p, pc)
      BY <1>6 DEF AdoptImmutable
    <2>2. w.status = row.status
      BY <1>1 DEF Row
    <2> HIDE DEF w
    <2> QED BY <1>2, <2>1, <2>2
  <1>7. CASE Complete(p)
    <2> DEFINE w == [NoRow EXCEPT !.status = "cleanup_complete", !.until = row.until,
                                  !.debt = row.debt, !.attached = row.attached, !.retires = TRUE]
               can == row.status = "cleanup_pending" /\ row.marks = Mark
               pc == IF run[p].op = "purge" THEN "tombstone" ELSE "idle"
    <2>1. w.status = "cleanup_complete" /\ (can => row.status = "cleanup_pending")
      BY DEF NoRow
    <2>2. Write(p, can, w, pc, "idle") /\ can \in BOOLEAN /\ UNCHANGED attachment
      BY <1>7 DEF Complete
    <2> HIDE DEF w, can, pc
    <2> QED BY <2>1, <2>2, WriteMoves DEF Moved, CleaningMoves
  <1>8. CASE DeleteTombstone(p)
    <2>1. Gone.status = "gone"
      BY DEF Gone, NoRow
    <2>2. Write(p, row.status = "cleanup_complete", Gone, "idle", "idle") /\ UNCHANGED attachment
      BY <1>8 DEF DeleteTombstone
    <2> QED BY <2>1, <2>2, WriteMoves DEF Moved, CleaningMoves
  <1> QED BY <1>3, <1>4, <1>5, <1>6, <1>7, <1>8
-----------------------------------------------------------------------------
(* Every step, by what it does to the row, the bytes and the attachment.   *)

Kept == UNCHANGED <<object.immutable, attachment>>

Effect ==
    \/ row' = row /\ Kept
    \/ row' = row /\ (DropAttachment \/ \E p \in Run : Put(p) \/ DeleteImmutable(p))
    \/ /\ object' = object /\ attachment' = "live"
       /\ row.status = "validated" /\ row'.status = "consumed"
    \/ Kept /\ <<row.status, row'.status>> \in OwnersMoves \cup CleaningMoves
    \/ /\ Kept /\ row'.status = "cleanup_pending"
       /\ \/ row.status \in {"invalid", "cleanup_pending"}
          \/ row.status \in Unspent /\ row.until <= clock
          \/ closing /\ row.status \notin {"none", "gone"}
             /\ (row.status = "consumed" => attachment = "gone")
    \/ Kept /\ row.status = "none" /\ row'.status = "issuing"
    \/ /\ Kept /\ row'.status = "gone"
       /\ row.status \in {"consumed", "cleanup_pending", "cleanup_blocked", "cleanup_complete"}

\* The world around the runs.
LEMMA WorldEffect ==
    ASSUME IInv, Tick \/ Retire \/ CloseAccount \/ DropAttachment
    PROVE  Effect
  <1>1. CASE Retire
    <2>1. row' = Gone /\ row.retires /\ UNCHANGED <<object, attachment>>
      BY <1>1 DEF Retire
    <2> QED BY <2>1 DEF Gone, NoRow, IInv, RowInv, RowFits, Effect, Kept
  <1>2. CASE Tick \/ CloseAccount
    BY <1>2 DEF Tick, CloseAccount, Effect, Kept
  <1>3. CASE DropAttachment
    BY <1>3 DEF DropAttachment, Effect
  <1> QED BY <1>1, <1>2, <1>3

\* The beginnings of runs, and their ends by a fault.
LEMMA CallEffect ==
    ASSUME IInv, NEW p \in Run,
           Crash(p) \/ Called(p) \/ StartSweep(p) \/ StartPurge(p)
    PROVE  Effect
  <1>1. CASE Start(p)
    <2>1. row'.status = "issuing"
      BY <1>1 DEF Start, Claimed, NoRow
    <2> QED BY <1>1, <2>1 DEF Start, Effect, Kept
  <1>2. CASE Crash(p) \/ CallSign(p) \/ CallComplete(p) \/ CallSend(p) \/ StartSweep(p)
                \/ StartPurge(p)
    <2>1. UNCHANGED <<row, object, attachment>>
      BY <1>2 DEF Crash, CallSign, CallComplete, CallSend, StartSweep, StartPurge, Begin
    <2> QED BY <2>1 DEF Effect, Kept
  <1> QED BY <1>1, <1>2 DEF Called

\* The calls to S3 about staging, and the steps that only read.
LEMMA StagingEffect ==
    ASSUME IInv, NEW p \in Run,
           \/ ReadFence(p) \/ Create(p) \/ Abort(p) \/ Pin(p) \/ Assemble(p) \/ Match(p)
           \/ Validate(p) \/ DropStaging(p) \/ Owe(p) \/ AbortMultipart(p) \/ DeleteStaging(p)
           \/ ScrubParts(p)
    PROVE  row' = row /\ Kept
  <1>1. ASSUME NEW pc, Local(p, pc) PROVE row' = row /\ Kept
    BY <1>1 DEF Local, Kept
  <1>2. ASSUME NEW new, NEW pc, NEW failed, Provider(p, new, pc, failed),
               new.immutable = object.immutable
        PROVE  row' = row /\ Kept
    BY <1>2 DEF Provider, Kept
  <1>3. /\ \A h : [object EXCEPT !.multipart = h].immutable = object.immutable
        /\ \A h : [object EXCEPT !.staging = h].immutable = object.immutable
        /\ \A h, i : [object EXCEPT !.multipart = h, !.staging = i].immutable = object.immutable
    BY ObjectFacts DEF Objects, IInv
  <1>4. CASE Create(p) \/ Assemble(p)
    <2> DEFINE a == [object EXCEPT !.multipart = "there"]
               b == [object EXCEPT !.multipart = "gone", !.staging = "there"]
    <2>1. a.immutable = object.immutable /\ b.immutable = object.immutable
      BY <1>3
    <2>2. \/ Provider(p, a, "record", "fail")
          \/ Provider(p, b, "store", "idle") \/ Local(p, "idle")
      BY <1>4 DEF Create, Assemble
    <2> HIDE DEF a, b
    <2> QED BY <1>1, <1>2, <2>1, <2>2
  <1>5. CASE Abort(p) \/ AbortMultipart(p)
    <2> DEFINE new == [object EXCEPT !.multipart = Deleted(@)]
    <2>1. PICK pc, failed : Provider(p, new, pc, failed) \/ Local(p, pc)
      BY <1>5 DEF Abort, AbortMultipart
    <2>2. new.immutable = object.immutable
      BY <1>3
    <2> HIDE DEF new
    <2> QED BY <1>1, <1>2, <2>1, <2>2
  <1>6. CASE DropStaging(p) \/ Owe(p) \/ DeleteStaging(p)
    <2> DEFINE new == [object EXCEPT !.staging = Deleted(@)]
    <2>1. PICK pc, failed : Provider(p, new, pc, failed) \/ Local(p, pc)
      BY <1>6 DEF DropStaging, Owe, DeleteStaging
    <2>2. new.immutable = object.immutable
      BY <1>3
    <2> HIDE DEF new
    <2> QED BY <1>1, <1>2, <2>1, <2>2
  <1>7. CASE ReadFence(p) \/ Pin(p) \/ Match(p) \/ Validate(p) \/ ScrubParts(p)
    BY <1>7 DEF ReadFence, Pin, Match, Validate, ScrubParts, Local, Kept
  <1> QED BY <1>4, <1>5, <1>6, <1>7

\* The owner's calls.
LEMMA OwnersEffect == ASSUME IInv, NEW p \in Run, OwnersStep(p) PROVE Effect
  <1>1. CASE \/ Record(p) \/ IssuanceFailed(p) \/ ClaimAssembly(p) \/ Takeover(p)
             \/ StoreStaging(p) \/ Refuse(p) \/ Promote(p) \/ Finish(p) \/ Clear(p)
    BY <1>1, OwnersWrites DEF Moved, Effect, Kept
  <1>2. CASE \/ ReadFence(p) \/ Create(p) \/ Abort(p) \/ Pin(p) \/ Assemble(p) \/ Match(p)
             \/ Validate(p) \/ DropStaging(p) \/ Owe(p)
    BY <1>2, StagingEffect DEF Effect
  <1>3. CASE Put(p)
    BY <1>3 DEF Put, Provider, Effect
  <1>4. CASE Bind(p)
    BY <1>4, BindMoves DEF Effect, Kept
  <1> QED BY <1>1, <1>2, <1>3, <1>4 DEF OwnersStep

\* The cleanups.
LEMMA CleanupEffect == ASSUME IInv, NEW p \in Run, CleanupStep(p) PROVE Effect
  <1>1. CASE \/ ScanReferences(p) \/ MarkMultipart(p) \/ AdoptStaging(p) \/ MarkStaging(p)
             \/ AdoptImmutable(p) \/ MarkImmutable(p) \/ MarkParts(p) \/ Complete(p)
             \/ DeleteTombstone(p)
    BY <1>1, CleaningWrites DEF Moved, Effect, Kept
  <1>2. CASE AbortMultipart(p) \/ DeleteStaging(p) \/ ScrubParts(p)
    BY <1>2, StagingEffect DEF Effect
  <1>3. CASE DeleteImmutable(p)
    BY <1>3 DEF DeleteImmutable, Provider, Local, Effect
  <1>4. CASE ClaimCleanup(p)
    BY <1>4, ClaimCleanupMoves DEF Effect, Kept
  <1>5. CASE CloseUpload(p)
    BY <1>5, CloseUploadMoves DEF Effect, Kept
  <1> QED BY <1>1, <1>2, <1>3, <1>4, <1>5 DEF CleanupStep

\* Every step has one of these effects.
LEMMA StepEffect == IInv /\ [Next]_vars => Effect
  <1> SUFFICES ASSUME IInv, [Next]_vars PROVE Effect
    OBVIOUS
  <1>1. CASE UNCHANGED vars
    BY <1>1 DEF vars, Effect, Kept
  <1>2. CASE Next
    BY <1>2, WorldEffect, CallEffect, OwnersEffect, CleanupEffect DEF Next
  <1> QED BY <1>1, <1>2
-----------------------------------------------------------------------------
(* Nobody is interrupted, and what is promised outside.                    *)

\* Until the window of an upload is over, no sweep takes it from a call that found it open,
\* however late the sweep acts on what it read.
THEOREM NotInterrupted == Spec => OpenUntilItsTime
  <1> DEFINE A == row.status \in Unspent \ {"issuing"} /\ clock < row.until /\ ~closing
                    => row'.status # "cleanup_pending"
  <1>1. IInv /\ [Next]_vars => [A]_vars
    <2> SUFFICES ASSUME IInv, [Next]_vars, row.status \in Unspent \ {"issuing"},
                        clock < row.until, ~closing
                 PROVE  row'.status # "cleanup_pending"
      OBVIOUS
    <2>1. row.status # "cleanup_pending" /\ row.status \notin {"invalid", "none"}
      BY DEF Unspent
    <2>2. ~(row.until <= clock)
      <3>1. row.until \in Nat /\ clock \in Nat
        BY TimeAssumption DEF IInv, TypeOK, Row
      <3> QED BY <3>1
    <2>3. Effect
      BY StepEffect
    <2>4. <<row.status, row'.status>> \in OwnersMoves \cup CleaningMoves =>
             row'.status # "cleanup_pending"
      BY <2>1 DEF OwnersMoves, CleaningMoves, Unspent
    <2> QED BY <2>1, <2>2, <2>3, <2>4 DEF Effect
  <1> QED BY <1>1, Invariance, PTL DEF Spec, OpenUntilItsTime

\* The phase of a status.
PhaseIn(s) ==
    CASE s \in Unspent \ {"validated"} -> "in_progress"
      [] s = "validated" -> "ready"
      [] s = "consumed" -> "spent"
      [] s \in {"none", "gone"} -> s
      [] OTHER -> "failed"

\* The phase follows the status alone.
LEMMA PhaseFacts ==
    /\ Phase = PhaseIn(row.status) /\ Phase' = PhaseIn(row'.status)
    /\ \A s \in Status :
          /\ PhaseIn(s) = "in_progress" <=>
                s \in {"issuing", "pending_upload", "assembling", "validating", "promoting"}
          /\ PhaseIn(s) = "ready" <=> s = "validated"
          /\ PhaseIn(s) = "spent" <=> s = "consumed"
          /\ PhaseIn(s) = "none" <=> s = "none"
          /\ PhaseIn(s) = "gone" <=> s = "gone"
          /\ PhaseIn(s) = "failed" <=> s \in {"invalid", "cleanup_pending", "cleanup_blocked",
                                              "cleanup_complete"}
  <1>1. Phase = PhaseIn(row.status) /\ Phase' = PhaseIn(row'.status)
    BY DEF Phase, PhaseIn
  <1>2. ASSUME NEW s \in Status
        PROVE  /\ PhaseIn(s) = "in_progress" <=>
                     s \in {"issuing", "pending_upload", "assembling", "validating", "promoting"}
               /\ PhaseIn(s) = "ready" <=> s = "validated"
               /\ PhaseIn(s) = "spent" <=> s = "consumed"
               /\ PhaseIn(s) = "none" <=> s = "none"
               /\ PhaseIn(s) = "gone" <=> s = "gone"
               /\ PhaseIn(s) = "failed" <=> s \in {"invalid", "cleanup_pending",
                                                   "cleanup_blocked", "cleanup_complete"}
    BY <1>2 DEF PhaseIn, Status, Unspent, Ended
  <1> QED BY <1>1, <1>2

\* A move of the row with the bytes and the attachment kept.
LEMMA MovePromise ==
    ASSUME IInv, IInv', Kept,
           \/ row'.status = row.status
           \/ <<row.status, row'.status>> \in OwnersMoves \cup CleaningMoves
           \/ /\ row'.status = "cleanup_pending" /\ row.status \notin {"none", "gone"}
              /\ row.status = "consumed" => attachment = "gone"
           \/ row.status = "none" /\ row'.status = "issuing"
           \/ /\ row'.status = "gone"
              /\ row.status \in {"consumed", "cleanup_pending", "cleanup_blocked",
                                 "cleanup_complete"}
    PROVE  [Promise!Next]_(Promise!vars)
  <1>1. row.status \in Status /\ row'.status \in Status
    BY DEF IInv, TypeOK, Row
  <1>2. UNCHANGED <<object.immutable, attachment>>
    BY DEF Kept
  <1>3. CASE Phase' = Phase
    BY <1>2, <1>3 DEF Promise!vars
  <1>4. CASE Phase = "in_progress" /\ Phase' = "ready"
    <2>1. object.immutable = "there"
      <3>1. row'.status = "validated"
        BY <1>1, <1>4, PhaseFacts
      <3> QED BY <1>2, <3>1 DEF IInv, RowInv, RowFits
    <2> QED BY <1>2, <1>4, <2>1 DEF Promise!Next, Promise!Finish
  <1>5. CASE /\ Phase \in {"in_progress", "ready", "spent"} /\ Phase' = "failed"
             /\ Phase = "spent" => attachment = "gone"
    BY <1>2, <1>5 DEF Promise!Next, Promise!Fail
  <1>6. CASE Phase = "none" /\ Phase' = "in_progress"
    BY <1>2, <1>6 DEF Promise!Next, Promise!Start
  <1>7. CASE Phase \in {"spent", "failed"} /\ Phase' = "gone"
    BY <1>2, <1>7 DEF Promise!Next, Promise!Forget
  <1>8. CASE <<row.status, row'.status>> \in OwnersMoves \cup CleaningMoves
    <2>1. \/ Phase' = Phase
          \/ Phase = "in_progress" /\ Phase' = "ready"
          \/ Phase = "in_progress" /\ Phase' = "failed"
          \/ row.status = "validated" /\ row'.status = "consumed"
          \/ Phase = "failed" /\ Phase' = "gone"
      BY <1>1, <1>8, PhaseFacts DEF OwnersMoves, CleaningMoves
    <2>2. ~(row.status = "validated" /\ row'.status = "consumed")
      BY <1>2 DEF IInv, RowInv, RowFits, Unspent
    <2> QED BY <1>3, <1>4, <1>5, <1>7, <2>1, <2>2
  <1>9. CASE /\ row'.status = "cleanup_pending" /\ row.status \notin {"none", "gone"}
             /\ row.status = "consumed" => attachment = "gone"
    <2>1. /\ Phase' = "failed" /\ Phase \in {"in_progress", "ready", "spent", "failed"}
          /\ Phase = "spent" => attachment = "gone"
      BY <1>1, <1>9, PhaseFacts DEF Status, Unspent, Ended
    <2> QED BY <1>3, <1>5, <2>1
  <1>10. CASE row'.status = row.status
    BY <1>3, <1>10, PhaseFacts
  <1>11. CASE row.status = "none" /\ row'.status = "issuing"
    BY <1>1, <1>6, <1>11, PhaseFacts
  <1>12. CASE /\ row'.status = "gone"
              /\ row.status \in {"consumed", "cleanup_pending", "cleanup_blocked",
                                 "cleanup_complete"}
    BY <1>1, <1>7, <1>12, PhaseFacts
  <1> QED BY <1>8, <1>9, <1>10, <1>11, <1>12

\* The three steps that change the bytes, or the attachment alone.
LEMMA BytesPromise ==
    ASSUME IInv, IInv', row' = row,
           DropAttachment \/ \E p \in Run : Put(p) \/ DeleteImmutable(p)
    PROVE  [Promise!Next]_(Promise!vars)
  <1>1. Phase' = Phase /\ row.status \in Status /\ object \in Objects
    BY PhaseFacts, ObjectFacts DEF IInv, TypeOK, Row
  <1>2. ASSUME UNCHANGED <<object.immutable, attachment>>
        PROVE  [Promise!Next]_(Promise!vars)
    BY <1>1, <1>2 DEF Promise!vars
  <1>3. ASSUME object.immutable = "there", object'.immutable = "gone", attachment' = attachment,
               \/ attachment = "pending"
               \/ Phase = "failed" /\ attachment \in {"none", "gone"}
        PROVE  [Promise!Next]_(Promise!vars)
    BY <1>1, <1>3 DEF Promise!Next, Promise!DeleteBytes
  <1>4. CASE DropAttachment
    <2>1. CASE attachment = "pending" /\ object.immutable = "there"
               /\ object' = [object EXCEPT !.immutable = "gone"] /\ UNCHANGED attachment
      BY <1>1, <1>3, <2>1 DEF Objects
    <2>2. CASE attachment = "live" /\ attachment' = "pending" /\ UNCHANGED object
      BY <1>1, <2>2 DEF Promise!Next, Promise!DropAttachment
    <2>3. CASE attachment = "pending" /\ object.immutable = "gone"
               /\ attachment' = "gone" /\ UNCHANGED object
      BY <1>1, <2>3 DEF Promise!Next, Promise!DropAttachment
    <2> QED BY <1>4, <2>1, <2>2, <2>3 DEF DropAttachment
  <1>5. ASSUME NEW p \in Run, Put(p) PROVE [Promise!Next]_(Promise!vars)
    <2>1. /\ object.immutable = "none" /\ row.status # "none" /\ attachment' = attachment
          /\ object' \in {object, [object EXCEPT !.immutable = "there"]}
      BY <1>5, AtHand DEF Put, Provider, RunFits
    <2>2. object'.immutable \in {"none", "there"}
      BY <1>1, <2>1 DEF Objects
    <2>3. Phase # "none"
      BY <1>1, <2>1, PhaseFacts
    <2>4. CASE object'.immutable = "there"
      BY <1>1, <2>1, <2>3, <2>4 DEF Promise!Next, Promise!Store
    <2> QED BY <1>2, <2>1, <2>2, <2>4
  <1>6. ASSUME NEW p \in Run, DeleteImmutable(p) PROVE [Promise!Next]_(Promise!vars)
    <2> DEFINE r == run[p].row
    <2>1. /\ attachment' = attachment /\ attachment \in {"none", "gone"}
          /\ ToDelete(r) => object.immutable = "gone" \/ Deleting(row)
          /\ "immutable" \notin r.marks
      BY <1>6, AtHand DEF DeleteImmutable, Provider, Local, RunFits, Cleaning
    <2>2. CASE object' = object
      BY <1>2, <2>1, <2>2
    <2>3. CASE r.target /\ r.immutable /\ object' = [object EXCEPT !.immutable = Deleted(@)]
      <3>1. object'.immutable = Deleted(object.immutable)
        BY <1>1, <2>3 DEF Objects
      <3>2. CASE object.immutable # "there"
        BY <1>2, <2>1, <3>1, <3>2 DEF Deleted
      <3>3. CASE object.immutable = "there"
        <4>1. row.status \in {"cleanup_pending", "cleanup_blocked"}
          BY <2>1, <2>3, <3>3 DEF ToDelete, Deleting
        <4>2. Phase = "failed"
          BY <1>1, <4>1, PhaseFacts
        <4> QED BY <1>3, <2>1, <3>1, <3>3, <4>2 DEF Deleted
      <3> QED BY <3>2, <3>3
    <2> QED BY <1>6, <2>2, <2>3 DEF DeleteImmutable, Provider, Local
  <1> QED BY <1>4, <1>5, <1>6

\* Every step keeps the promise.
LEMMA PromiseStep == IInv /\ IInv' /\ [Next]_vars => [Promise!Next]_(Promise!vars)
  <1> SUFFICES ASSUME IInv, IInv', [Next]_vars PROVE [Promise!Next]_(Promise!vars)
    OBVIOUS
  <1>1. Effect
    BY StepEffect
  <1>2. CASE row' = row /\ (DropAttachment \/ \E p \in Run : Put(p) \/ DeleteImmutable(p))
    BY <1>2, BytesPromise
  <1>3. CASE /\ object' = object /\ attachment' = "live"
             /\ row.status = "validated" /\ row'.status = "consumed"
    <2>1. object.immutable = "there" /\ attachment = "none"
      BY <1>3 DEF IInv, RowInv, RowFits, Unspent
    <2>2. Phase = "ready" /\ Phase' = "spent"
      BY <1>3, PhaseFacts DEF Status, Unspent, Ended
    <2> QED BY <1>3, <2>1, <2>2 DEF Promise!Next, Promise!Spend
  <1>4. CASE \/ row' = row /\ Kept
             \/ Kept /\ <<row.status, row'.status>> \in OwnersMoves \cup CleaningMoves
             \/ Kept /\ row.status = "none" /\ row'.status = "issuing"
             \/ /\ Kept /\ row'.status = "gone"
                /\ row.status \in {"consumed", "cleanup_pending", "cleanup_blocked",
                                   "cleanup_complete"}
    BY <1>4, MovePromise
  <1>5. CASE /\ Kept /\ row'.status = "cleanup_pending"
             /\ \/ row.status \in {"invalid", "cleanup_pending"}
                \/ row.status \in Unspent /\ row.until <= clock
                \/ closing /\ row.status \notin {"none", "gone"}
                   /\ (row.status = "consumed" => attachment = "gone")
    <2>1. row.status \notin {"none", "gone"} /\ (row.status = "consumed" => attachment = "gone")
      BY <1>5 DEF Unspent
    <2> QED BY <1>5, <2>1, MovePromise
  <1> QED BY <1>1, <1>2, <1>3, <1>4, <1>5 DEF Effect

\* The whole of services/uploads, with its sweeps, purges, takeovers and crashes, is to those
\* outside an upload that is ready only with its bytes, is spent once, and loses its bytes
\* only when it failed or with its attachment.
THEOREM KeepsItsPromise == Spec => ImplementsPhases
  <1>1. Init => Promise!Init
    BY DEF Init, Promise!Init, Phase, NoRow, Unspent
  <1> QED BY <1>1, Invariance, PromiseStep, PTL DEF Spec, ImplementsPhases, Promise!Spec
=============================================================================
