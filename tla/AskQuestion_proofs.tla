------------------------- MODULE AskQuestion_proofs -------------------------
(***************************************************************************)
(* One model call that counts, accounted, for any number of workers and    *)
(* sweeps, any number of attempts and any limits that relate as the code's *)
(* do.                                                                     *)
(*                                                                         *)
(* Most of it is who may still write: a worker that lost its lease finds   *)
(* its writes refused, and a command that was called marked.  What is set  *)
(* aside rests on the clock instead: a worker that may still reserve or    *)
(* call (Early) lost its lease so lately that no settlement is due yet.    *)
(***************************************************************************)
EXTENDS AskQuestion, TLAPS

\* The steps at which a worker may still reserve, or call the model.
Early == {"prepare", "reserve", "mark", "invoke"}

\* w holds the lease of the row c; the row is out of every claim's reach.
Owns(w, c) == c.status = "ai_running" /\ c.leaseOwner = w
Over(c) == c.status = "terminal_failed" \/ (c.status = "failed" /\ ~CanRetry(c))

\* A call counts as paid for, or may any moment.
Called == paid > 0 \/ \E w \in Run : run[w].pc = "invoke"

\* A run with an answer, in its hands or on the row it read; one with a paid reply of no use.
Good(r) ==
    \/ r.pc \in {"keep", "renew", "complete"}
    \/ r.pc = "take" /\ r.plan = "finish"
    \/ r.pc = "observe" /\ r.failure # "final"
Bad(r) == r.pc = "restore" \/ (r.pc = "observe" /\ r.failure = "final")

\* What fits a row c beside its effect e.
RowFits(c, e, called, pd, ans) ==
    /\ c.status \in {"message_committed", "failed", "completed"} => c.invoked = 0 /\ c.result = 0
    /\ c.result # 0 => c.result = c.invoked /\ pd > 0
    /\ c.invoked <= c.attempt
    /\ c.status = "message_committed" => c.attempt < MaxAttempts
    /\ c.status # "failed" => c.failure = "none" /\ ~c.retryable
    /\ c.settled => Over(c) /\ e.state \in {"none", "restored"}
    /\ c.status = "completed" => /\ ans = 1 /\ pd > 0 /\ e.state \in {"observed", "finalized"}
                                 /\ e.evidence = "reported"
    /\ c.status # "completed" => ans = 0 /\ e.state # "finalized"
    /\ e.state \in {"none", "reserved"} <=> e.evidence = "none"
    /\ ~called /\ ~Over(c) => e.state \in {"none", "reserved"}
    /\ called => /\ c.status # "message_committed"
                 /\ c.status = "ai_running" => c.invoked # 0
                 /\ c.status = "failed" => ~c.retryable

\* When an early run r of w lost its lease, if it did, by its own clock.
Timely(r, w, c) ==
    /\ Owns(w, c) => c.since <= r.age
    /\ ~Owns(w, c) => LeaseTime <= r.age
    /\ c.status = "ai_running" /\ ~Owns(w, c) => c.since + LeaseTime <= r.age + RunTime
    /\ c.status \in {"failed", "terminal_failed"} => c.since + LeaseTime <= r.age

\* What the run r of w knows.
RunFits(r, w, c, e, called, pd) ==
    /\ r.lag <= r.age
    /\ r.pc \notin {"idle", "claim", "current", "terminal"} => r.n >= 1
    /\ r.pc = "take" => (r.plan = "generate" <=> r.mark = 0) /\ r.mark <= r.n
    /\ r.pc \in {"current", "terminal"} => c.attempt = MaxAttempts
    /\ r.pc \in Early \cup {"keep"} => r.failure = "none"
    /\ Owns(w, c) /\ r.pc \in {"prepare", "reserve", "mark"} => c.invoked = 0
    /\ Owns(w, c) /\ r.pc \in {"keep", "invoke"} => c.invoked = r.n
    /\ Owns(w, c) /\ r.pc = "mark" => e.state = "reserved"
    /\ Owns(w, c) /\ r.pc = "fail" /\ Retryable(r.failure) => ~called
    /\ r.pc = "invoke" => pd = 0 /\ e.state = "reserved"
    /\ Good(r) \/ Bad(r) => pd > 0
    /\ Owns(w, c) /\ r.pc \in {"renew", "complete"} =>
          e.state = "observed" /\ e.evidence = "reported"
    /\ r.pc = "finalize" => c.status = "completed"
    /\ r.pc \in Early => Timely(r, w, c)

\* No run may still reserve or call.
NoEarly == \A w \in Run : run[w].pc \notin Early

\* What a sweep x that settles knows.
SettlerFits(x, c, e) ==
    /\ x.pc = "close" => x.read.status \in {"ai_running", "failed", "terminal_failed"}
    /\ x.pc = "close" /\ x.read.status = "ai_running" => x.read.since > SweepMaxAge
    /\ x.pc = "close" /\ x.read.status = "failed" => x.read.since + LeaseTime > RunTime
    /\ x.pc = "close" /\ x.read.status = "terminal_failed" =>
          c.status = "terminal_failed" /\ NoEarly
    /\ x.pc \in {"release", "restore", "mark"} => Over(c) /\ NoEarly
    /\ x.pc = "restore" => e.state # "reserved"
    /\ x.pc = "mark" => e.state \in {"none", "restored"}

\* The paid reply is an answer somebody may store, or of no use; never both.
Usable ==
    \/ cmd.status = "completed"
    \/ cmd.status = "ai_running" /\ cmd.result # 0
    \/ \E w \in Run : Good(run[w])
Unusable ==
    \/ \E w \in Run : Bad(run[w])
    \/ effect.state = "restored" /\ effect.evidence = "reported" /\ ~Over(cmd)

RowInv == RowFits(cmd, effect, Called, paid, answers)
RunInv(w) == RunFits(run[w], w, cmd, effect, Called, paid)
SettlerInv(s) == SettlerFits(settler[s], cmd, effect)
OneFate == ~(Usable /\ Unusable)
OneCall == \A v, w \in Run : run[v].pc = "invoke" /\ run[w].pc = "invoke" => v = w
EndsLate ==
    \A v, w \in Run : run[v].pc = "terminal" /\ run[w].pc \in Early => LeaseTime <= run[w].age

IInv ==
    /\ TypeOK /\ paid <= 1
    /\ RowInv
    /\ \A w \in Run : RunInv(w)
    /\ \A s \in Settler : SettlerInv(s)
    /\ OneFate
    /\ OneCall
    /\ EndsLate
    /\ cmd.settled => NoEarly
-----------------------------------------------------------------------------
(* What is at hand.                                                        *)

\* The limits, as numbers.
LEMMA Limits ==
    /\ MaxAttempts \in Nat /\ MaxAttempts >= 1 /\ LeaseTime \in Nat /\ LeaseTime >= 1
    /\ RunTime \in Nat /\ RunTime >= 1 /\ SweepMaxAge \in Nat /\ OldAge = SweepMaxAge + 1
    /\ KeptAnswerMaxAge \in Nat /\ OldQuestion = KeptAnswerMaxAge + 1
    /\ SettleTerminalAfter \in Nat /\ SettleLostAfter \in Nat /\ SettleDeadlineAfter \in Nat
    /\ RunTime < LeaseTime + SettleTerminalAfter /\ RunTime < LeaseTime + SettleLostAfter
    /\ RunTime < SettleDeadlineAfter /\ RunTime + LeaseTime <= SweepMaxAge
    /\ 2 * RunTime <= SweepMaxAge + LeaseTime
    /\ NoRun \notin Run
  BY LimitAssumption, WindowAssumption, RunAssumption DEF OldAge, OldQuestion

\* The row and the effect.
LEMMA RowAtHand ==
    ASSUME IInv
    PROVE  /\ cmd \in Row /\ effect \in Effect /\ paid \in {0, 1} /\ RowInv
           /\ unreported \in Nat
           /\ cmd.attempt \in 0..MaxAttempts /\ cmd.since \in Nat /\ cmd.since <= OldAge
           /\ cmd.invoked \in 0..MaxAttempts /\ cmd.result \in 0..MaxAttempts
           /\ cmd.status \in Status /\ cmd.leaseOwner \in Run \cup {NoRun}
           /\ cmd.retryable \in BOOLEAN /\ cmd.settled \in BOOLEAN
  BY Limits DEF IInv, TypeOK, Row

\* A run.
LEMMA RunAtHand ==
    ASSUME IInv, NEW w \in Run
    PROVE  /\ run[w] \in RunState /\ RunInv(w)
           /\ run[w].age \in Nat /\ run[w].age <= RunTime /\ run[w].lag \in Nat
           /\ run[w].n \in 0..MaxAttempts /\ run[w].mark \in 0..MaxAttempts
  BY Limits DEF IInv, TypeOK, RunState

\* A sweep.
LEMMA SettlerAtHand ==
    ASSUME IInv, NEW s \in Settler
    PROVE  /\ settler[s] \in SettlerState /\ SettlerInv(s)
           /\ settler[s].read.since \in Nat /\ settler[s].read.since <= OldAge
           /\ settler[s].read.status \in Status
  BY Limits DEF IInv, TypeOK, SettlerState

\* The run that does nothing.
LEMMA IdleFits ==
    /\ IdleRun \in RunState
    /\ \A w, c, e, called, pd : RunFits(IdleRun, w, c, e, called, pd)
    /\ IdleRun.pc = "idle" /\ ~Good(IdleRun) /\ ~Bad(IdleRun)
  BY Limits DEF IdleRun, RunState, RunFits, Early, Good, Bad
-----------------------------------------------------------------------------
(* What a step of one run leaves to the others.                            *)

\* The run of w is x after the step, and the others' are the same.
Becomes(w, x) ==
    /\ run' \in [Run -> RunState] /\ x \in RunState /\ run'[w] = x
    /\ \A q \in Run \ {w} : run'[q] = run[q]

\* A step of w that fits the row, its own run and the other runs.
LEMMA StepInv ==
    ASSUME IInv, NEW w \in Run, NEW x, Becomes(w, x), settler' = settler,
           cmd' \in Row, effect' \in Effect, retry' = retry, paid' \in {0, 1}, answers' \in 0..2,
           unreported' \in Nat,
           RowInv', RunFits(x, w, cmd', effect', Called', paid'),
           \A q \in Run \ {w} : RunFits(run[q], q, cmd', effect', Called', paid'),
           OneFate',
           Over(cmd) => Over(cmd') /\ cmd'.status = cmd.status,
           cmd'.settled => cmd.settled,
           Over(cmd) /\ NoEarly =>
              /\ effect.state # "reserved" => effect'.state # "reserved"
              /\ effect.state \in {"none", "restored"} => effect'.state \in {"none", "restored"},
           x.pc \in Early => IF run[w].pc \in Early THEN x.age = run[w].age
                             ELSE ~Over(cmd) /\ \A q \in Run \ {w} : run[q].pc # "terminal",
           x.pc = "invoke" => run[w].pc = "invoke" \/ ~Called,
           x.pc = "terminal" => run[w].pc = "terminal" \/
              \A q \in Run \ {w} : run[q].pc \in Early => LeaseTime <= run[q].age
    PROVE  IInv'
  <1>1. /\ run'[w] = x /\ (\A q \in Run \ {w} : run'[q] = run[q])
        /\ run' \in [Run -> RunState]
    BY DEF Becomes
  <1>2. TypeOK' /\ (paid <= 1)'
    BY <1>1 DEF IInv, TypeOK
  <1>3. \A q \in Run : RunInv(q)'
    BY <1>1 DEF RunInv
  <1>4. NoEarly /\ Over(cmd) => NoEarly'
    BY <1>1 DEF NoEarly
  <1>5. ASSUME NEW s \in Settler PROVE SettlerInv(s)'
    <2>1. SettlerFits(settler[s], cmd, effect)
      BY SettlerAtHand DEF SettlerInv
    <2>2. CASE settler[s].pc = "close"
      BY <1>4, <2>1, <2>2 DEF SettlerInv, SettlerFits, Over
    <2>3. CASE settler[s].pc # "close"
      BY <1>4, <2>1, <2>3 DEF SettlerInv, SettlerFits
    <2> QED BY <2>2, <2>3
  <1>6. OneCall'
    BY <1>1 DEF IInv, OneCall, Called
  <1>7. EndsLate'
    <2> SUFFICES ASSUME NEW v \in Run, NEW q \in Run, run'[v].pc = "terminal",
                        run'[q].pc \in Early
                 PROVE  LeaseTime <= run'[q].age
      BY DEF EndsLate
    <2>1. v # q
      BY DEF Early
    <2> QED BY <1>1, <2>1 DEF IInv, EndsLate
  <1>8. cmd'.settled => NoEarly'
    <2>1. cmd.settled => NoEarly /\ Over(cmd)
      BY DEF IInv, RowInv, RowFits
    <2> QED BY <1>4, <2>1
  <1> QED BY <1>2, <1>3, <1>5, <1>6, <1>7, <1>8 DEF IInv

\* Whether the model was called changes with a payment or the run that may call.
LEMMA CalledAfter ==
    ASSUME IInv, NEW w \in Run, NEW x, Becomes(w, x), paid' = paid
    PROVE  /\ Called' => Called \/ x.pc = "invoke"
           /\ Called /\ ~Called' => run[w].pc = "invoke"
           /\ x.pc = "invoke" => Called'
  BY DEF Becomes, Called

\* The reply's fate is the same when the run and the row are on no new side.
LEMMA FateAfter ==
    ASSUME IInv, NEW w \in Run, NEW x, Becomes(w, x),
           cmd'.status = "completed" \/ (cmd'.status = "ai_running" /\ cmd'.result # 0) \/ Good(x)
              => Usable,
           Bad(x) => Unusable,
           effect'.state = "restored" /\ effect'.evidence = "reported" /\ ~Over(cmd') => Unusable
    PROVE  OneFate'
  <1>1. Usable' => Usable
    BY DEF Becomes, Usable
  <1>2. Unusable' => Unusable
    BY DEF Becomes, Unusable
  <1> QED BY <1>1, <1>2 DEF IInv, OneFate

\* A step of w that leaves everything but its own run.
LEMMA QuietStep ==
    ASSUME IInv, NEW w \in Run, NEW x, Becomes(w, x),
           UNCHANGED <<cmd, effect, settler, retry, paid, unreported, answers>>,
           RunFits(x, w, cmd, effect, Called', paid),
           Good(x) => Usable, Bad(x) => Unusable,
           x.pc \in Early => run[w].pc \in Early /\ x.age = run[w].age,
           x.pc # "invoke",
           x.pc = "terminal" => run[w].pc = "terminal" \/
              \A q \in Run \ {w} : run[q].pc \in Early => LeaseTime <= run[q].age
    PROVE  IInv'
  <1>1. (Called' => Called) /\ (Called /\ ~Called' => effect.state = "reserved")
    BY CalledAfter, RunAtHand DEF RunInv, RunFits
  <1>2. RowInv'
    BY <1>1, RowAtHand DEF RowInv, RowFits
  <1>3. \A q \in Run \ {w} : RunFits(run[q], q, cmd, effect, Called', paid)
    BY <1>1, RunAtHand DEF RunInv, RunFits
  <1>4. OneFate'
    BY FateAfter DEF Usable, Unusable
  <1>5. retry \in 0..MaxAttempts /\ answers \in 0..2
    BY DEF IInv, TypeOK
  <1> QED BY <1>2, <1>3, <1>4, <1>5, RowAtHand, StepInv

\* The run r goes on to pc with failure f.
Moved(r, x, pc, f) ==
    /\ x \in RunState /\ x.pc = pc /\ x.failure = f /\ x.lag <= x.age
    /\ x.age = r.age /\ x.n = r.n /\ x.mark = r.mark /\ x.plan = r.plan

\* A run that goes on at pc, by a clock it reads now.
LEMMA GotoIs ==
    ASSUME IInv, NEW w \in Run, NEW pc, Goto(w, pc),
           pc \in {"reserve", "invoke", "mark", "keep", "observe", "renew", "restore", "finalize"}
    PROVE  \E x : Becomes(w, x) /\ Moved(run[w], x, pc, run[w].failure)
  <1> DEFINE x == [run[w] EXCEPT !.pc = pc, !.lag = 0]
  <1>1. run \in [Run -> RunState] /\ run[w] \in RunState /\ 0 \in 0..RunTime
    BY Limits DEF IInv, TypeOK
  <1>2. run' = [run EXCEPT ![w] = x]
    BY <1>1 DEF Goto, RunState
  <1>3. x \in RunState
    BY <1>1 DEF RunState
  <1>4. /\ x.pc = pc /\ x.failure = run[w].failure /\ x.lag = 0
        /\ x.age = run[w].age /\ x.n = run[w].n /\ x.mark = run[w].mark /\ x.plan = run[w].plan
    BY <1>1 DEF RunState
  <1> HIDE DEF x
  <1>5. Becomes(w, x)
    BY <1>1, <1>2, <1>3 DEF Becomes
  <1> QED BY <1>3, <1>4, <1>5, RunAtHand DEF Moved

\* A run that goes on to record a failure.
LEMMA FailAsIs ==
    ASSUME IInv, NEW w \in Run, NEW f \in Failure, FailAs(w, f)
    PROVE  \E x : Becomes(w, x) /\ Moved(run[w], x, "fail", f)
  <1> DEFINE x == [run[w] EXCEPT !.pc = "fail", !.failure = f, !.lag = 0]
  <1>1. run \in [Run -> RunState] /\ run[w] \in RunState /\ 0 \in 0..RunTime
    BY Limits DEF IInv, TypeOK
  <1>2. run' = [run EXCEPT ![w] = x]
    BY <1>1 DEF FailAs, RunState
  <1>3. x \in RunState
    BY <1>1 DEF RunState
  <1>4. /\ x.pc = "fail" /\ x.failure = f /\ x.lag = 0
        /\ x.age = run[w].age /\ x.n = run[w].n /\ x.mark = run[w].mark /\ x.plan = run[w].plan
    BY <1>1 DEF RunState
  <1> HIDE DEF x
  <1>5. Becomes(w, x)
    BY <1>1, <1>2, <1>3 DEF Becomes
  <1> QED BY <1>3, <1>4, <1>5, RunAtHand DEF Moved

\* A run that is over.
LEMMA StopIs ==
    ASSUME IInv, NEW w \in Run, Stop(w)
    PROVE  Becomes(w, IdleRun)
  BY IdleFits DEF Stop, Becomes, IInv, TypeOK

\* Other ways to go on, that leave the clock it read.
LEMMA StaysAt ==
    ASSUME IInv, NEW w \in Run, NEW pc \in {"current", "terminal", "complete"},
           run' = [run EXCEPT ![w].pc = pc]
    PROVE  \E x : Becomes(w, x) /\ Moved(run[w], x, pc, run[w].failure) /\ x.lag = run[w].lag
  <1> DEFINE x == [run[w] EXCEPT !.pc = pc]
  <1>1. run \in [Run -> RunState] /\ run[w] \in RunState
    BY DEF IInv, TypeOK
  <1>2. run' = [run EXCEPT ![w] = x]
    BY <1>1 DEF RunState
  <1>3. x \in RunState /\ Moved(run[w], x, pc, run[w].failure) /\ x.lag = run[w].lag
    BY <1>1, RunAtHand DEF RunState, Moved, RunInv, RunFits
  <1> HIDE DEF x
  <1>4. Becomes(w, x)
    BY <1>1, <1>2, <1>3 DEF Becomes
  <1> QED BY <1>3, <1>4
-----------------------------------------------------------------------------
(* Steps that leave the rows.                                              *)

\* A run that stops.
LEMMA StopStep ==
    ASSUME IInv, NEW w \in Run, Stop(w),
           UNCHANGED <<cmd, effect, settler, retry, paid, unreported, answers>>
    PROVE  IInv'
  <1>1. RunFits(IdleRun, w, cmd, effect, Called', paid)
    BY IdleFits
  <1> QED BY <1>1, StopIs, IdleFits, QuietStep DEF Early

\* A command is handed over.
LEMMA DeliverStep == ASSUME IInv, NEW w \in Run, Deliver(w) PROVE IInv'
  <1> DEFINE x == [IdleRun EXCEPT !.pc = "claim"]
  <1>1. x \in RunState /\ x.pc = "claim" /\ x.lag <= x.age
    BY IdleFits, Limits DEF RunState, IdleRun
  <1>2. run' = [run EXCEPT ![w] = x]
    BY DEF Deliver
  <1> HIDE DEF x
  <1>3. Becomes(w, x)
    BY <1>1, <1>2 DEF Becomes, IInv, TypeOK
  <1>4. RunFits(x, w, cmd, effect, Called', paid) /\ ~Good(x) /\ ~Bad(x) /\ x.pc \notin Early
    BY <1>1 DEF RunFits, Good, Bad, Early
  <1> QED BY <1>1, <1>3, <1>4, QuietStep DEF Deliver

\* A worker that goes on to record a failure it may record.
LEMMA FailStep ==
    ASSUME IInv, NEW w \in Run, NEW f \in Failure, FailAs(w, f), run[w].n >= 1,
           UNCHANGED <<cmd, effect, settler, retry, paid, unreported, answers>>,
           Owns(w, cmd) /\ Retryable(f) => ~Called \/ (run[w].pc = "invoke" /\ ~Called')
    PROVE  IInv'
  <1>1. PICK x : Becomes(w, x) /\ Moved(run[w], x, "fail", f)
    BY FailAsIs
  <1>2. x.pc = "fail" /\ x.failure = f /\ x.lag <= x.age /\ x.n >= 1
    BY <1>1 DEF Moved
  <1>3. Owns(w, cmd) /\ Retryable(f) => ~Called'
    BY <1>1, <1>2, CalledAfter
  <1>4. RunFits(x, w, cmd, effect, Called', paid) /\ ~Good(x) /\ ~Bad(x) /\ x.pc \notin Early
    BY <1>2, <1>3 DEF RunFits, Good, Bad, Early
  <1> QED BY <1>1, <1>2, <1>4, QuietStep

\* What a claim reads of a row it may claim.
LEMMA ClaimFacts ==
    ASSUME IInv, NEW lag, MayClaim(cmd, lag)
    PROVE  /\ NextAttempt(cmd) \in 1..MaxAttempts /\ cmd.invoked <= NextAttempt(cmd)
           /\ Recovery(cmd) \in {"generate", "finish", "reconcile"}
           /\ Recovery(cmd) = "generate" <=> cmd.invoked = 0
           /\ Recovery(cmd) = "finish" => cmd.status = "ai_running" /\ cmd.result # 0
  <1>1. NextAttempt(cmd) \in 1..MaxAttempts /\ cmd.invoked <= NextAttempt(cmd)
    BY RowAtHand, Limits DEF MayClaim, NextAttempt, Finishing, RowInv, RowFits
  <1>2. cmd.status # "ai_running" => cmd.invoked = 0
    BY RowAtHand DEF MayClaim, Resumable, RowInv, RowFits
  <1> QED BY <1>1, <1>2, RowAtHand DEF Recovery

\* A claim reads the row; what it found decides what it may do.
LEMMA ReadForClaimStep == ASSUME IInv, NEW w \in Run, ReadForClaim(w) PROVE IInv'
  <1>1. run[w].pc = "claim" /\ UNCHANGED <<cmd, effect, settler, retry, paid, unreported, answers>>
    BY DEF ReadForClaim
  <1>2. CASE Stop(w)
    BY <1>1, <1>2, StopStep
  <1>3. CASE /\ cmd.attempt >= MaxAttempts
             /\ run' = [run EXCEPT ![w].pc = "current"]
    <2>1. PICK x : Becomes(w, x) /\ Moved(run[w], x, "current", run[w].failure)
      BY <1>3, StaysAt
    <2>2. cmd.attempt = MaxAttempts
      BY <1>3, RowAtHand, Limits
    <2>3. RunFits(x, w, cmd, effect, Called', paid) /\ ~Good(x) /\ ~Bad(x) /\ x.pc = "current"
      BY <2>1, <2>2 DEF Moved, RunFits, Good, Bad, Early
    <2> QED BY <1>1, <2>1, <2>3, QuietStep DEF Early
  <1>4. CASE /\ MayClaim(cmd, run[w].lag)
             /\ run' = [run EXCEPT ![w].pc = "take", ![w].n = NextAttempt(cmd),
                                   ![w].mark = cmd.invoked, ![w].plan = Recovery(cmd)]
    <2> DEFINE x == [run[w] EXCEPT !.pc = "take", !.n = NextAttempt(cmd), !.mark = cmd.invoked,
                                   !.plan = Recovery(cmd)]
    <2>1. run \in [Run -> RunState] /\ run[w] \in RunState
      BY DEF IInv, TypeOK
    <2>2. run' = [run EXCEPT ![w] = x]
      BY <1>4, <2>1 DEF RunState
    <2>3. /\ x.pc = "take" /\ x.n = NextAttempt(cmd) /\ x.mark = cmd.invoked
          /\ x.plan = Recovery(cmd) /\ x.lag = run[w].lag /\ x.age = run[w].age
      BY <2>1 DEF RunState
    <2>4. NextAttempt(cmd) \in 0..MaxAttempts /\ NextAttempt(cmd) >= 1
      BY <1>4, ClaimFacts, Limits
    <2>5. x \in RunState
      BY <1>4, <2>1, <2>4, ClaimFacts, RowAtHand DEF RunState
    <2> HIDE DEF x
    <2>6. Becomes(w, x)
      BY <2>1, <2>2, <2>5 DEF Becomes
    <2>7. Good(x) => cmd.status = "ai_running" /\ cmd.result # 0
      BY <1>4, <2>3, ClaimFacts DEF Good
    <2>8. Good(x) => Usable /\ paid > 0
      BY <2>7, RowAtHand DEF Usable, RowInv, RowFits
    <2>9. ~Bad(x) /\ x.pc \notin Early
      BY <2>3 DEF Bad, Early
    <2>10. RunFits(x, w, cmd, effect, Called', paid)
      BY <1>4, <2>3, <2>4, <2>8, <2>9, ClaimFacts, RunAtHand DEF RunFits, RunInv, Early
    <2> QED BY <1>1, <2>3, <2>6, <2>8, <2>9, <2>10, QuietStep
  <1> QED BY <1>2, <1>3, <1>4 DEF ReadForClaim

\* Attempts used up: whoever holds the lease has held it for its time.
LEMMA ReadCurrentStep == ASSUME IInv, NEW w \in Run, ReadCurrent(w) PROVE IInv'
  <1>1. /\ run[w].pc = "current"
        /\ UNCHANGED <<cmd, effect, settler, retry, paid, unreported, answers>>
    BY DEF ReadCurrent
  <1>2. CASE Stop(w)
    BY <1>1, <1>2, StopStep
  <1>3. CASE /\ Terminal(cmd) \/ Resumable(cmd, run[w].lag)
             /\ run' = [run EXCEPT ![w].pc = "terminal"]
    <2>1. PICK x : Becomes(w, x) /\ Moved(run[w], x, "terminal", run[w].failure)
      BY <1>3, StaysAt
    <2>2. cmd.attempt = MaxAttempts
      BY <1>1, RunAtHand DEF RunInv, RunFits
    <2>3. RunFits(x, w, cmd, effect, Called', paid) /\ ~Good(x) /\ ~Bad(x) /\ x.pc = "terminal"
      BY <2>1, <2>2 DEF Moved, RunFits, Good, Bad, Early
    <2>4. ASSUME NEW q \in Run \ {w}, run[q].pc \in Early PROVE LeaseTime <= run[q].age
      <3>1. Timely(run[q], q, cmd)
        BY <2>4, RunAtHand DEF RunInv, RunFits
      <3>2. Owns(q, cmd) => cmd.since >= LeaseTime + run[w].lag
        BY <1>3 DEF Owns, Terminal, Resumable, Expired
      <3> QED BY <3>1, <3>2, RunAtHand, RowAtHand, Limits DEF Timely
    <2> QED BY <1>1, <2>1, <2>3, <2>4, QuietStep DEF Early
  <1> QED BY <1>2, <1>3 DEF ReadCurrent

\* A worker that has not called yet: the command was not called for, while it owns it.
LEMMA NotCalledYet ==
    ASSUME IInv, NEW w \in Run, run[w].pc \in {"prepare", "reserve", "mark"}, Owns(w, cmd)
    PROVE  ~Called /\ cmd.invoked = 0 /\ ~Over(cmd) /\ effect.state \in {"none", "reserved"}
  <1>1. cmd.invoked = 0
    BY RunAtHand DEF RunInv, RunFits
  <1> QED BY <1>1, RowAtHand DEF RowInv, RowFits, Owns, Over

\* The prompt is made, or cannot be.
LEMMA PrepareStep == ASSUME IInv, NEW w \in Run, Prepare(w) PROVE IInv'
  <1>1. /\ run[w].pc = "prepare" /\ run[w].n >= 1
        /\ UNCHANGED <<cmd, effect, settler, retry, paid, unreported, answers>>
    BY RunAtHand DEF Prepare, RunInv, RunFits
  <1>2. ASSUME NEW f \in {"unpaid", "final"}, FailAs(w, f) PROVE IInv'
    BY <1>1, <1>2, FailStep, NotCalledYet DEF Failure
  <1>3. CASE Goto(w, "reserve")
    <2>1. PICK x : Becomes(w, x) /\ Moved(run[w], x, "reserve", run[w].failure)
      BY <1>3, GotoIs
    <2>2. /\ x.pc = "reserve" /\ x.failure = run[w].failure /\ x.lag <= x.age
          /\ x.age = run[w].age /\ x.n = run[w].n
      BY <2>1 DEF Moved
    <2>3. ~Good(x) /\ ~Bad(x)
      BY <2>2 DEF Good, Bad
    <2>4. RunFits(x, w, cmd, effect, Called', paid)
      BY <1>1, <2>2, <2>3, RunAtHand DEF RunInv, RunFits, Timely, Early
    <2> QED BY <1>1, <2>1, <2>2, <2>3, <2>4, QuietStep DEF Early
  <1> QED BY <1>2, <1>3 DEF Prepare
-----------------------------------------------------------------------------
(* Writes to the row.                                                      *)

\* A run that does not hold the lease after the write only knows its time.
LEMMA LosesRow ==
    ASSUME IInv, NEW q \in Run, NEW c, NEW called, ~Owns(q, c),
           cmd.attempt = MaxAttempts => c.attempt = MaxAttempts,
           cmd.status = "completed" => c.status = "completed",
           run[q].pc \in Early => Timely(run[q], q, c)
    PROVE  RunFits(run[q], q, c, effect, called, paid)
  BY RunAtHand DEF RunInv, RunFits

\* The time of a run that lost the lease before, after a write that resets the row's.
LEMMA TimelyReset ==
    ASSUME IInv, NEW q \in Run, run[q].pc \in Early, ~Owns(q, cmd) \/ LeaseTime <= run[q].age,
           NEW c, ~Owns(q, c), c.since \in Nat,
           c.status = "ai_running" => c.since <= RunTime,
           c.status \in {"failed", "terminal_failed"} => c.since = 0
    PROVE  Timely(run[q], q, c)
  <1>1. LeaseTime <= run[q].age
    BY RunAtHand DEF RunInv, RunFits, Timely
  <1> QED BY <1>1, RunAtHand, Limits DEF Timely

\* What a claim that holds finds.
LEMMA ClaimHolds ==
    ASSUME IInv, NEW w \in Run, run[w].pc = "take",
           ClaimCondition(cmd, run[w].lag, run[w].mark)
    PROVE  /\ cmd.invoked = run[w].mark /\ ~Over(cmd) /\ cmd.status # "completed"
           /\ cmd.settled = FALSE
           /\ cmd.status = "ai_running" => cmd.since >= LeaseTime + run[w].lag
           /\ cmd.status # "ai_running" => ~Called /\ cmd.invoked = 0 /\ cmd.result = 0
           /\ cmd.attempt = MaxAttempts => run[w].n = MaxAttempts /\ run[w].plan # "generate"
  <1>1. cmd.invoked = run[w].mark /\ ~Over(cmd) /\ cmd.status # "completed"
    BY DEF ClaimCondition, Over
  <1>2. cmd.settled = FALSE
    BY <1>1, RowAtHand DEF RowInv, RowFits
  <1>3. cmd.status = "ai_running" => cmd.since >= LeaseTime + run[w].lag
    BY DEF ClaimCondition, Expired
  <1>4. cmd.status # "ai_running" => ~Called /\ cmd.invoked = 0 /\ cmd.result = 0
    BY RowAtHand DEF ClaimCondition, CanRetry, RowInv, RowFits
  <1>5. cmd.attempt = MaxAttempts => run[w].n = MaxAttempts /\ run[w].plan # "generate"
    <2> SUFFICES ASSUME cmd.attempt = MaxAttempts
                 PROVE  run[w].n = MaxAttempts /\ run[w].plan # "generate"
      OBVIOUS
    <2>1. cmd.result = MaxAttempts
      BY RowAtHand, Limits DEF ClaimCondition, CanRetry, RowInv, RowFits
    <2>2. run[w].mark = MaxAttempts
      BY <1>1, <2>1, RowAtHand, Limits DEF RowInv, RowFits
    <2> QED BY <2>2, RunAtHand, Limits DEF RunInv, RunFits
  <1> QED BY <1>1, <1>2, <1>3, <1>4, <1>5

\* The claim is written, or another one overtook it.
LEMMA TakeStep == ASSUME IInv, NEW w \in Run, Take(w) PROVE IInv'
  <1> DEFINE r == run[w]
             pc == AfterClaim[r.plan]
             f == IF r.plan = "reconcile" THEN "needs_reconciliation" ELSE "none"
             x == [r EXCEPT !.pc = pc, !.lag = 0, !.failure = f]
             c == Claimed(cmd, w, r.n, r.lag)
  <1>1. r.pc = "take" /\ UNCHANGED <<effect, settler, retry, paid, unreported, answers>>
    BY DEF Take
  <1>2. CASE UNCHANGED cmd /\ Stop(w)
    BY <1>1, <1>2, StopStep
  <1>3. CASE /\ UNCHANGED cmd /\ cmd.attempt >= MaxAttempts
             /\ run' = [run EXCEPT ![w].pc = "current"]
    <2>1. PICK y : Becomes(w, y) /\ Moved(run[w], y, "current", run[w].failure)
      BY <1>3, StaysAt
    <2>2. cmd.attempt = MaxAttempts
      BY <1>3, RowAtHand, Limits
    <2>3. RunFits(y, w, cmd, effect, Called', paid) /\ ~Good(y) /\ ~Bad(y) /\ y.pc = "current"
      BY <2>1, <2>2 DEF Moved, RunFits, Good, Bad, Early
    <2> QED BY <1>1, <1>3, <2>1, <2>3, QuietStep DEF Early
  <1>4. CASE /\ ClaimCondition(cmd, r.lag, r.mark) /\ cmd' = c
             /\ run' = [run EXCEPT ![w].pc = pc, ![w].lag = 0, ![w].failure = f]
    <2>1. run \in [Run -> RunState] /\ r \in RunState /\ 0 \in 0..RunTime
      BY Limits DEF IInv, TypeOK
    <2>2. /\ r.plan \in {"generate", "finish", "reconcile"}
          /\ r.plan = "generate" => pc = "prepare" /\ f = "none"
          /\ r.plan = "finish" => pc = "observe" /\ f = "none"
          /\ r.plan = "reconcile" => pc = "fail" /\ f = "needs_reconciliation"
      BY <2>1 DEF RunState, AfterClaim
    <2> HIDE DEF pc, f
    <2>3. run' = [run EXCEPT ![w] = x]
      BY <1>4, <2>1 DEF RunState
    <2>4. x \in RunState
      BY <2>1, <2>2 DEF RunState, Failure
    <2>5. x.pc = pc /\ x.lag = 0 /\ x.failure = f /\ x.age = r.age /\ x.n = r.n
      BY <2>1 DEF RunState
    <2> HIDE DEF x
    <2>6. Becomes(w, x)
      BY <2>1, <2>3, <2>4 DEF Becomes
    <2>7. /\ c.status = "ai_running" /\ c.leaseOwner = w /\ c.since = r.lag /\ c.attempt = r.n
          /\ c.invoked = cmd.invoked /\ c.result = cmd.result /\ c.failure = "none"
          /\ c.retryable = FALSE /\ c.settled = cmd.settled
      BY RowAtHand DEF Claimed, Row
    <2>8. c \in Row
      <3>1. r.lag \in 0..OldAge /\ r.n \in 0..MaxAttempts
        BY RunAtHand, Limits DEF RunInv, RunFits
      <3> QED BY <3>1, RowAtHand DEF Claimed, Row, Status
    <2> HIDE DEF c
    <2>9. /\ cmd.invoked = r.mark /\ ~Over(cmd) /\ cmd.status # "completed"
          /\ cmd.settled = FALSE
          /\ cmd.status = "ai_running" => cmd.since >= LeaseTime + r.lag
          /\ cmd.status # "ai_running" => ~Called /\ cmd.invoked = 0 /\ cmd.result = 0
          /\ cmd.attempt = MaxAttempts => r.n = MaxAttempts /\ r.plan # "generate"
      BY <1>1, <1>4, ClaimHolds
    <2>10. /\ r.n >= 1 /\ (r.plan = "generate" <=> r.mark = 0) /\ r.mark <= r.n
           /\ r.lag <= r.age /\ r.lag \in Nat /\ r.age \in Nat /\ r.lag <= RunTime
           /\ (r.plan = "finish" => Good(r) /\ paid > 0)
      BY <1>1, RunAtHand, Limits DEF RunInv, RunFits, Good
    <2>11. Called' <=> Called
      BY <1>1, <2>2, <2>5, <2>6, CalledAfter
    <2>12. RowFits(c, effect, Called', paid, answers)
      BY <2>7, <2>9, <2>10, <2>11, RowAtHand DEF RowInv, RowFits, Over
    <2>13. ~Bad(x) /\ (Good(x) => r.plan = "finish")
      BY <2>2, <2>5 DEF Good, Bad
    <2>14. RunFits(x, w, c, effect, Called', paid)
      <3>1. Timely(x, w, c)
        BY <2>5, <2>7, <2>10 DEF Timely, Owns
      <3> QED BY <2>2, <2>5, <2>7, <2>9, <2>10, <2>13, <3>1, Limits
              DEF RunFits, Owns, Retryable, Early
    <2>15. ASSUME NEW q \in Run \ {w} PROVE RunFits(run[q], q, c, effect, Called', paid)
      <3>1. ~Owns(q, c)
        BY <2>7 DEF Owns
      <3>2. ASSUME run[q].pc \in Early PROVE Timely(run[q], q, c)
        <4>1. ~Owns(q, cmd) \/ LeaseTime <= run[q].age
          <5>1. Timely(run[q], q, cmd)
            BY <3>2, RunAtHand DEF RunInv, RunFits
          <5> QED BY <2>9, <2>10, <5>1, RunAtHand, RowAtHand, Limits DEF Timely, Owns
        <4> QED BY <2>7, <2>10, <3>1, <3>2, <4>1, TimelyReset
      <3> QED BY <2>7, <2>9, <3>1, <3>2, LosesRow
    <2>16. OneFate'
      <3>1. Good(x) => Usable
        BY <2>10, <2>13 DEF Usable
      <3>2. cmd.result # 0 => Usable
        BY <2>9 DEF Usable
      <3> QED BY <1>1, <1>4, <2>6, <2>7, <2>9, <2>13, <3>1, <3>2, FateAfter DEF Unusable
    <2>17. x.pc \in Early => ~Over(cmd) /\ \A q \in Run \ {w} : run[q].pc # "terminal"
      <3>1. x.pc \in Early => cmd.attempt # MaxAttempts
        BY <2>2, <2>5, <2>9 DEF Early
      <3> QED BY <2>9, <3>1, RunAtHand DEF RunInv, RunFits
    <2>18. retry \in 0..MaxAttempts /\ answers \in 0..2 /\ x.pc \notin {"invoke", "terminal"}
      BY <2>2, <2>5 DEF IInv, TypeOK
    <2>19. r.pc \notin Early
      BY <1>1 DEF Early
    <2> QED BY <1>1, <1>4, <2>6, <2>7, <2>8, <2>9, <2>12, <2>14, <2>15, <2>16, <2>17, <2>18, <2>19,
               RowAtHand, StepInv DEF RowInv
  <1> QED BY <1>2, <1>3, <1>4 DEF Take

\* What a row's owner may write leaves the other runs what they know.
LEMMA OwnerStep ==
    ASSUME IInv, NEW w \in Run, Owns(w, cmd), NEW x, Becomes(w, x),
           UNCHANGED <<effect, settler, retry, paid, unreported>>, answers' \in 0..2,
           cmd' \in Row, cmd'.leaseOwner \in {w, NoRun}, cmd'.attempt = cmd.attempt,
           cmd'.settled = cmd.settled, cmd'.since <= RunTime \/ cmd'.since = cmd.since,
           cmd'.status = cmd.status \/ cmd'.since = 0,
           RowInv', RunFits(x, w, cmd', effect, Called', paid), OneFate',
           x.pc \in Early => run[w].pc \in Early /\ x.age = run[w].age,
           x.pc = "invoke" => ~Called,
           x.pc # "terminal"
    PROVE  IInv'
  <1>1. /\ cmd.status = "ai_running" /\ cmd.leaseOwner = w /\ ~Over(cmd)
        /\ cmd.status # "completed"
    BY DEF Owns, Over
  <1>2. cmd'.since \in Nat /\ cmd.since \in Nat
    BY RowAtHand DEF Row
  <1>3. ASSUME NEW q \in Run \ {w} PROVE RunFits(run[q], q, cmd', effect, Called', paid)
    <2>1. ~Owns(q, cmd') /\ ~Owns(q, cmd)
      BY <1>1, Limits DEF Owns
    <2>2. ASSUME run[q].pc \in Early PROVE Timely(run[q], q, cmd')
      <3>1. Timely(run[q], q, cmd)
        BY <2>2, RunAtHand DEF RunInv, RunFits
      <3>2. CASE cmd'.status = cmd.status /\ cmd'.since = cmd.since
        BY <1>1, <2>1, <3>1, <3>2 DEF Timely
      <3>3. CASE /\ cmd'.status = cmd.status \/ cmd'.since = 0
                 /\ ~(cmd'.status = cmd.status /\ cmd'.since = cmd.since)
        <4>1. cmd'.status = "ai_running" => cmd'.since <= RunTime
          BY <1>1, <3>3, Limits
        <4>2. cmd'.status \in {"failed", "terminal_failed"} => cmd'.since = 0
          BY <1>1, <3>3
        <4> QED BY <1>2, <2>1, <2>2, <4>1, <4>2, TimelyReset
      <3> QED BY <3>2, <3>3
    <2> QED BY <1>1, <2>1, <2>2, LosesRow
  <1>4. retry \in 0..MaxAttempts
    BY DEF IInv, TypeOK
  <1> QED BY <1>1, <1>3, <1>4, RowAtHand, StepInv

\* The command's last attempt died: it is ended, if nothing else happened.
LEMMA MarkTerminalStep == ASSUME IInv, NEW w \in Run, MarkTerminal(w) PROVE IInv'
  <1>1. /\ run[w].pc = "terminal" /\ Stop(w)
        /\ UNCHANGED <<effect, settler, retry, paid, unreported, answers>>
    BY DEF MarkTerminal
  <1>2. CASE UNCHANGED cmd
    BY <1>1, <1>2, StopStep
  <1>3. CASE MayEnd(cmd) /\ cmd' = Ended(cmd)
    <2> DEFINE c == Ended(cmd)
    <2>1. /\ c.status = "terminal_failed" /\ c.leaseOwner = NoRun /\ c.since = 0
          /\ c.attempt = cmd.attempt /\ c.invoked = cmd.invoked /\ c.result = cmd.result
          /\ c.failure = cmd.failure /\ c.retryable = cmd.retryable /\ c.settled = cmd.settled
      BY RowAtHand DEF Ended, Row
    <2>2. c \in Row
      <3>1. 0 \in 0..OldAge /\ NoRun \in Run \cup {NoRun}
        BY Limits
      <3> QED BY <3>1, RowAtHand DEF Ended, Row, Status
    <2>3. cmd.status = "ai_running" /\ ~Over(cmd) /\ Becomes(w, IdleRun) /\ cmd' = c
      BY <1>1, <1>3, StopIs DEF MayEnd, Over
    <2> HIDE DEF c
    <2>4. Called' <=> Called
      BY <1>1, <2>3, CalledAfter, IdleFits
    <2>5. RowInv'
      BY <1>1, <2>1, <2>3, <2>4, RowAtHand DEF RowInv, RowFits, Over
    <2>6. OneFate'
      BY <1>1, <2>1, <2>3, FateAfter, IdleFits DEF Unusable
    <2>7. ASSUME NEW q \in Run \ {w} PROVE RunFits(run[q], q, c, effect, Called', paid)
      <3>1. ~Owns(q, c)
        BY <2>1 DEF Owns
      <3>2. ASSUME run[q].pc \in Early PROVE Timely(run[q], q, c)
        <4>1. LeaseTime <= run[q].age
          BY <1>1, <3>2 DEF IInv, EndsLate
        <4> QED BY <2>1, <3>1, <3>2, <4>1, TimelyReset
      <3> QED BY <2>1, <2>3, <3>1, <3>2, LosesRow
    <2>8. retry \in 0..MaxAttempts /\ answers \in 0..2
      BY DEF IInv, TypeOK
    <2> QED BY <1>1, <2>1, <2>2, <2>3, <2>5, <2>6, <2>7, <2>8, IdleFits, RowAtHand, StepInv
            DEF Early
  <1> QED BY <1>2, <1>3 DEF MarkTerminal

\* The call is marked, and only then made.
LEMMA MarkInvocationStep == ASSUME IInv, NEW w \in Run, MarkInvocation(w) PROVE IInv'
  <1> DEFINE n == run[w].n
             c == Marked(cmd, n)
  <1>1. /\ run[w].pc = "mark" /\ n >= 1 /\ n \in 0..MaxAttempts /\ run[w].pc \in Early
        /\ run[w].failure = "none"
        /\ UNCHANGED <<effect, settler, retry, paid, unreported, answers>>
    BY RunAtHand DEF MarkInvocation, RunInv, RunFits, Early
  <1>2. CASE UNCHANGED cmd /\ FailAs(w, "unpaid")
    BY <1>1, <1>2, FailStep, NotCalledYet DEF Failure
  <1>3. CASE /\ HoldsLive(cmd, w, n, run[w].lag) /\ cmd' = c
             /\ Goto(w, "invoke") \/ FailAs(w, "unpaid")
    <2>1. Owns(w, cmd) /\ cmd.attempt = n
      BY <1>3 DEF HoldsLive, Holds, Owns
    <2>2. /\ c.status = "ai_running" /\ c.leaseOwner = w /\ c.since = cmd.since
          /\ c.attempt = cmd.attempt /\ c.invoked = n /\ c.result = cmd.result
          /\ c.failure = cmd.failure /\ c.retryable = cmd.retryable /\ c.settled = cmd.settled
      BY <2>1, RowAtHand DEF Marked, Row, Owns
    <2>3. c \in Row
      BY <1>1, RowAtHand DEF Marked, Row
    <2>4. ~Called /\ paid = 0 /\ ~Over(cmd) /\ effect.state \in {"none", "reserved"}
      BY <1>1, <2>1, NotCalledYet, RowAtHand DEF Called
    <2>5. effect.state = "reserved" /\ Timely(run[w], w, cmd)
      BY <1>1, <2>1, RunAtHand DEF RunInv, RunFits, Early
    <2>6. cmd.result = 0
      BY <2>4, RowAtHand DEF RowInv, RowFits
    <2> HIDE DEF c
    <2>7. PICK x : /\ Becomes(w, x) /\ x.lag <= x.age /\ x.age = run[w].age /\ x.n = n
                   /\ \/ x.pc = "invoke" /\ x.failure = "none"
                      \/ x.pc = "fail"
      <3>1. CASE Goto(w, "invoke")
        BY <1>1, <3>1, GotoIs DEF Moved
      <3>2. CASE FailAs(w, "unpaid")
        BY <1>1, <3>2, FailAsIs DEF Moved, Failure
      <3> QED BY <1>3, <3>1, <3>2
    <2>8. ~Good(x) /\ ~Bad(x) /\ (x.pc \in Early => x.pc = "invoke") /\ x.pc # "terminal"
      BY <2>7 DEF Good, Bad, Early
    <2>9. Called' => x.pc = "invoke"
      BY <1>1, <2>4, <2>7, CalledAfter
    <2>10. RowInv'
      <3>1. ~Over(c) /\ cmd.settled = FALSE /\ cmd.status = "ai_running"
        BY <2>1, <2>2, <2>4, RowAtHand DEF Over, Owns, RowInv, RowFits
      <3>2. RowFits(c, effect, Called', paid, answers)
        BY <1>1, <2>1, <2>2, <2>4, <2>6, <3>1, RowAtHand DEF RowInv, RowFits
      <3> QED BY <1>1, <1>3, <3>2 DEF RowInv
    <2>11. Timely(x, w, c)
      BY <2>1, <2>2, <2>5, <2>7 DEF Timely, Owns
    <2>12. RunFits(x, w, c, effect, Called', paid)
      BY <1>1, <2>2, <2>4, <2>5, <2>7, <2>8, <2>9, <2>11 DEF RunFits, Owns
    <2>13. OneFate'
      BY <1>1, <1>3, <2>2, <2>4, <2>6, <2>7, <2>8, FateAfter
    <2>14. answers \in 0..2
      BY DEF IInv, TypeOK
    <2> QED BY <1>1, <1>3, <2>1, <2>2, <2>3, <2>4, <2>7, <2>8, <2>10, <2>12, <2>13, <2>14, OwnerStep
            DEF Owns
  <1> QED BY <1>2, <1>3 DEF MarkInvocation

\* The answer is kept on the row, if it is still the run's.
LEMMA KeepResultStep == ASSUME IInv, NEW w \in Run, KeepResult(w) PROVE IInv'
  <1> DEFINE n == run[w].n
             c == WithResult(cmd, n)
  <1>1. /\ run[w].pc = "keep" /\ n >= 1 /\ n \in 0..MaxAttempts /\ Good(run[w]) /\ paid > 0
        /\ run[w].failure = "none"
        /\ UNCHANGED <<effect, settler, retry, paid, unreported, answers>>
    BY RunAtHand DEF KeepResult, RunInv, RunFits, Good
  <1>2. PICK x : Becomes(w, x) /\ Moved(run[w], x, "observe", run[w].failure)
    BY GotoIs DEF KeepResult
  <1>3. x.pc = "observe" /\ x.failure = "none" /\ x.lag <= x.age /\ x.n = n /\ Good(x) /\ ~Bad(x)
    BY <1>1, <1>2 DEF Moved, Good, Bad
  <1>4. Usable /\ Called /\ Called' /\ x.pc \notin Early
    BY <1>1, <1>3 DEF Usable, Called, Early
  <1>5. ASSUME NEW r PROVE RunFits(x, w, r, effect, Called', paid)
    BY <1>1, <1>3, <1>4 DEF RunFits
  <1>6. CASE UNCHANGED cmd
    BY <1>1, <1>2, <1>3, <1>4, <1>5, <1>6, QuietStep
  <1>7. CASE HoldsLive(cmd, w, n, run[w].lag) /\ cmd' = c
    <2>1. Owns(w, cmd) /\ cmd.attempt = n /\ cmd.invoked = n
      BY <1>1, <1>7, RunAtHand DEF HoldsLive, Holds, Owns, RunInv, RunFits
    <2>2. /\ c.status = "ai_running" /\ c.leaseOwner = w /\ c.since = cmd.since
          /\ c.attempt = cmd.attempt /\ c.invoked = n /\ c.result = n
          /\ c.failure = cmd.failure /\ c.retryable = cmd.retryable /\ c.settled = cmd.settled
      BY <2>1, RowAtHand DEF WithResult, Row, Owns
    <2>3. c \in Row
      BY <1>1, RowAtHand DEF WithResult, Row
    <2> HIDE DEF c
    <2>4. RowInv'
      BY <1>1, <1>4, <1>7, <2>1, <2>2, RowAtHand DEF RowInv, RowFits, Over, Owns
    <2>5. ~Over(cmd) /\ ~Over(c)
      BY <2>1, <2>2 DEF Over, Owns
    <2>6. OneFate'
      BY <1>1, <1>2, <1>3, <1>4, <1>7, <2>5, FateAfter DEF Unusable
    <2>7. answers \in 0..2
      BY DEF IInv, TypeOK
    <2> QED BY <1>1, <1>2, <1>3, <1>4, <1>5, <1>7, <2>1, <2>2, <2>3, <2>4, <2>6, <2>7, OwnerStep
            DEF Owns
  <1> QED BY <1>6, <1>7 DEF KeepResult

\* The lease is renewed before the answer is stored.
LEMMA RenewStep == ASSUME IInv, NEW w \in Run, Renew(w) PROVE IInv'
  <1> DEFINE lag == run[w].lag
             c == Renewed(cmd, lag)
  <1>1. /\ run[w].pc = "renew" /\ run[w].n >= 1 /\ Good(run[w]) /\ paid > 0
        /\ lag \in Nat /\ lag <= RunTime
        /\ UNCHANGED <<effect, settler, retry, paid, unreported, answers>>
    BY RunAtHand, Limits DEF Renew, RunInv, RunFits, Good
  <1>2. CASE UNCHANGED cmd /\ Stop(w)
    BY <1>1, <1>2, StopStep
  <1>3. CASE /\ Renewable(cmd, w, lag) /\ cmd' = c
             /\ run' = [run EXCEPT ![w].pc = "complete"]
    <2>1. Owns(w, cmd)
      BY <1>3 DEF Renewable, Owns
    <2>2. /\ c.status = "ai_running" /\ c.leaseOwner = w /\ c.since = lag
          /\ c.attempt = cmd.attempt /\ c.invoked = cmd.invoked /\ c.result = cmd.result
          /\ c.failure = cmd.failure /\ c.retryable = cmd.retryable /\ c.settled = cmd.settled
      BY <2>1, RowAtHand DEF Renewed, Row, Owns
    <2>3. c \in Row
      <3>1. lag \in 0..OldAge
        BY <1>1, Limits
      <3> QED BY <3>1, RowAtHand DEF Renewed, Row
    <2> HIDE DEF c
    <2>4. PICK x : Becomes(w, x) /\ Moved(run[w], x, "complete", run[w].failure)
      BY <1>3, StaysAt
    <2>5. x.pc = "complete" /\ x.lag <= x.age /\ x.n >= 1 /\ Good(x) /\ ~Bad(x)
      BY <1>1, <2>4 DEF Moved, Good, Bad
    <2>6. Usable /\ Called /\ Called' /\ x.pc \notin Early
      BY <1>1, <2>5 DEF Usable, Called, Early
    <2>7. RunFits(x, w, c, effect, Called', paid)
      BY <1>1, <2>1, <2>5, <2>6, RunAtHand DEF RunInv, RunFits
    <2>8. ~Over(cmd) /\ ~Over(c)
      BY <2>1, <2>2 DEF Over, Owns
    <2>9. RowInv'
      BY <1>1, <1>3, <2>1, <2>2, <2>6, <2>8, RowAtHand DEF RowInv, RowFits, Owns
    <2>10. OneFate'
      BY <1>1, <1>3, <2>4, <2>5, <2>6, <2>8, FateAfter DEF Unusable
    <2>11. answers \in 0..2
      BY DEF IInv, TypeOK
    <2> QED BY <1>1, <1>3, <2>1, <2>2, <2>3, <2>4, <2>5, <2>6, <2>7, <2>9, <2>10, <2>11, OwnerStep
            DEF Owns
  <1> QED BY <1>2, <1>3 DEF Renew

\* The answer is stored and the command ended, or found stored by another.
LEMMA CompleteStep == ASSUME IInv, NEW w \in Run, Complete(w) PROVE IInv'
  <1> DEFINE c == Completed(cmd)
  <1>1. /\ run[w].pc = "complete" /\ run[w].n >= 1 /\ Good(run[w]) /\ paid > 0
        /\ UNCHANGED <<effect, settler, retry, paid, unreported>>
    BY RunAtHand DEF Complete, RunInv, RunFits, Good
  <1>2. CASE UNCHANGED <<cmd, answers>> /\ Stop(w)
    BY <1>1, <1>2, StopStep
  <1>3. CASE Goto(w, "finalize")
    <2>1. PICK x : Becomes(w, x) /\ Moved(run[w], x, "finalize", run[w].failure)
      BY <1>3, GotoIs
    <2>2. /\ x.pc = "finalize" /\ x.lag <= x.age /\ x.n >= 1 /\ ~Good(x) /\ ~Bad(x)
          /\ x.pc \notin Early
      BY <1>1, <2>1 DEF Moved, Good, Bad, Early
    <2>3. Usable /\ Called /\ Called'
      BY <1>1 DEF Usable, Called
    <2>4. \A r : r.status = "completed" => RunFits(x, w, r, effect, Called', paid)
      BY <1>1, <2>2, <2>3 DEF RunFits
    <2>5. CASE UNCHANGED <<cmd, answers>> /\ cmd.status = "completed"
      BY <1>1, <2>1, <2>2, <2>4, <2>5, QuietStep
    <2>6. CASE HoldsLive(cmd, w, run[w].n, run[w].lag) /\ cmd' = c /\ answers' = Capped(answers, 2)
      <3>1. Owns(w, cmd) /\ effect.state = "observed" /\ effect.evidence = "reported"
        BY <1>1, <2>6, RunAtHand DEF HoldsLive, Holds, Owns, RunInv, RunFits
      <3>2. /\ c.status = "completed" /\ c.leaseOwner = NoRun /\ c.since = 0
            /\ c.attempt = cmd.attempt /\ c.invoked = 0 /\ c.result = 0
            /\ c.failure = cmd.failure /\ c.retryable = cmd.retryable /\ c.settled = cmd.settled
        BY RowAtHand DEF Completed, Cleared, Row
      <3>3. c \in Row
        <4>1. 0 \in 0..OldAge /\ NoRun \in Run \cup {NoRun} /\ 0 \in 0..MaxAttempts
          BY Limits
        <4> QED BY <4>1, RowAtHand DEF Completed, Cleared, Row, Status
      <3> HIDE DEF c
      <3>4. /\ ~Over(cmd) /\ ~Over(c) /\ cmd.settled = FALSE /\ answers = 0 /\ cmd.failure = "none"
            /\ ~cmd.retryable
        BY <3>1, <3>2, RowAtHand DEF Over, Owns, RowInv, RowFits
      <3>5. answers' = 1
        BY <2>6, <3>4 DEF Capped
      <3>6. RowFits(c, effect, Called', paid, answers')
        BY <1>1, <2>3, <3>1, <3>2, <3>4, <3>5, RowAtHand DEF RowInv, RowFits
      <3>7. RowInv'
        BY <1>1, <2>6, <3>6 DEF RowInv
      <3>8. OneFate'
        BY <1>1, <2>1, <2>2, <2>3, <2>6, <3>4, FateAfter DEF Unusable
      <3> QED BY <1>1, <2>1, <2>2, <2>4, <2>6, <3>1, <3>2, <3>3, <3>4, <3>5, <3>7, <3>8, Limits,
               OwnerStep DEF Owns
    <2> QED BY <1>2, <1>3, <2>5, <2>6 DEF Complete
  <1> QED BY <1>1, <1>2, <1>3 DEF Complete

\* A failure is recorded by the run that still has the lease.
LEMMA RecordFailureStep == ASSUME IInv, NEW w \in Run, RecordFailure(w) PROVE IInv'
  <1> DEFINE f == run[w].failure
             c == Failed(cmd, f)
  <1>1. /\ run[w].pc = "fail" /\ f \in Failure \cup {"none"} /\ Stop(w) /\ Becomes(w, IdleRun)
        /\ UNCHANGED <<effect, settler, retry, paid, unreported, answers>>
    BY RunAtHand, StopIs DEF RecordFailure, RunState
  <1>2. CASE UNCHANGED cmd
    BY <1>1, <1>2, StopStep
  <1>3. CASE Holds(cmd, w, run[w].n) /\ cmd' = c
    <2>1. Owns(w, cmd) /\ (Retryable(f) => ~Called)
      BY <1>1, <1>3, RunAtHand DEF Holds, Owns, RunInv, RunFits
    <2>2. /\ c.status = "failed" /\ c.leaseOwner = NoRun /\ c.since = 0
          /\ c.attempt = cmd.attempt /\ c.invoked = 0 /\ c.result = 0
          /\ c.failure = f /\ c.retryable = Retryable(f) /\ c.settled = cmd.settled
      BY RowAtHand DEF Failed, Cleared, Row
    <2>3. c \in Row
      <3>1. /\ 0 \in 0..OldAge /\ NoRun \in Run \cup {NoRun} /\ 0 \in 0..MaxAttempts
            /\ Retryable(f) \in BOOLEAN
        BY Limits DEF Retryable
      <3> QED BY <1>1, <3>1, RowAtHand DEF Failed, Cleared, Row, Status
    <2> HIDE DEF c, f
    <2>4. Called' <=> Called
      BY <1>1, CalledAfter, IdleFits
    <2>5. ~Over(cmd) /\ cmd.settled = FALSE /\ cmd.status = "ai_running"
      BY <2>1, RowAtHand DEF Over, Owns, RowInv, RowFits
    <2>6. RowFits(c, effect, Called', paid, answers)
      BY <1>1, <2>1, <2>2, <2>4, <2>5, RowAtHand DEF RowInv, RowFits
    <2>7. RowInv'
      BY <1>1, <1>3, <2>6 DEF RowInv
    <2>8. OneFate'
      BY <1>1, <1>3, <2>2, <2>5, FateAfter, IdleFits DEF Unusable
    <2>9. RunFits(IdleRun, w, c, effect, Called', paid) /\ answers \in 0..2
      BY IdleFits DEF IInv, TypeOK
    <2> QED BY <1>1, <1>3, <2>1, <2>2, <2>3, <2>5, <2>7, <2>8, <2>9, IdleFits, Limits,
               OwnerStep DEF Early
  <1> QED BY <1>2, <1>3 DEF RecordFailure
-----------------------------------------------------------------------------
(* Writes to the effect, and the call.                                     *)

\* What a step on the effect alone has to leave to the other runs.
LEMMA EffectStep ==
    ASSUME IInv, NEW w \in Run, NEW x, Becomes(w, x),
           UNCHANGED <<cmd, settler, retry, paid, unreported, answers>>, effect' \in Effect,
           RowFits(cmd, effect', Called', paid, answers),
           RunFits(x, w, cmd, effect', Called', paid),
           Called' => Called,
           effect' = effect \/ \A q \in Run \ {w} :
              /\ run[q].pc # "invoke"
              /\ Owns(q, cmd) => run[q].pc \notin {"mark", "renew", "complete"},
           OneFate',
           Over(cmd) /\ NoEarly =>
              /\ effect.state # "reserved" => effect'.state # "reserved"
              /\ effect.state \in {"none", "restored"} => effect'.state \in {"none", "restored"},
           x.pc \in Early => run[w].pc \in Early /\ x.age = run[w].age,
           x.pc \notin {"invoke", "terminal"}
    PROVE  IInv'
  <1>1. ASSUME NEW q \in Run \ {w} PROVE RunFits(run[q], q, cmd, effect', Called', paid)
    <2>1. RunFits(run[q], q, cmd, effect, Called, paid)
      BY RunAtHand DEF RunInv
    <2> QED BY <2>1 DEF RunFits
  <1>2. retry \in 0..MaxAttempts /\ answers \in 0..2 /\ cmd' = cmd
    BY DEF IInv, TypeOK
  <1>3. RowInv'
    BY DEF RowInv
  <1> QED BY <1>1, <1>2, <1>3, RowAtHand, StepInv

\* Tokens are reserved before the call, or found reserved.
LEMMA ReserveStep == ASSUME IInv, NEW w \in Run, Reserve(w) PROVE IInv'
  <1>1. /\ run[w].pc = "reserve" /\ run[w].n >= 1 /\ run[w].pc \in Early
        /\ run[w].failure = "none" /\ UNCHANGED <<cmd, settler, retry, paid, unreported, answers>>
    BY RunAtHand DEF Reserve, RunInv, RunFits, Early
  <1>2. CASE UNCHANGED effect /\ FailAs(w, "unpaid")
    BY <1>1, <1>2, FailStep, NotCalledYet DEF Failure
  <1>3. CASE /\ effect' = IF effect.state = "none" THEN [effect EXCEPT !.state = "reserved"]
                                                 ELSE effect
             /\ Goto(w, "mark") \/ FailAs(w, "deadline_exceeded") \/ FailAs(w, "unpaid")
    <2>1. /\ effect' \in Effect /\ effect'.evidence = effect.evidence
          /\ effect.state = "none" => effect'.state = "reserved"
          /\ effect.state # "none" => effect' = effect
      BY <1>3, RowAtHand DEF Effect
    <2>2. PICK x : /\ Becomes(w, x) /\ x.lag <= x.age /\ x.age = run[w].age /\ x.n = run[w].n
                   /\ \/ x.pc = "mark" /\ x.failure = "none"
                      \/ x.pc = "fail"
      <3>1. CASE Goto(w, "mark")
        BY <1>1, <3>1, GotoIs DEF Moved
      <3>2. ASSUME NEW g \in {"deadline_exceeded", "unpaid"}, FailAs(w, g)
            PROVE  \E x : Becomes(w, x) /\ Moved(run[w], x, "fail", g)
        BY <1>1, <3>2, FailAsIs DEF Failure
      <3> QED BY <1>1, <1>3, <3>1, <3>2 DEF Moved
    <2>3. ~Good(x) /\ ~Bad(x) /\ (x.pc \in Early => x.pc = "mark")
          /\ x.pc \notin {"invoke", "terminal"}
      BY <2>2 DEF Good, Bad, Early
    <2>4. Called' <=> Called
      BY <1>1, <2>3, <2>2, CalledAfter
    <2>5. ~cmd.settled
      BY <1>1 DEF IInv, NoEarly
    <2>6. RowFits(cmd, effect', Called', paid, answers)
      BY <2>1, <2>4, <2>5, RowAtHand DEF RowInv, RowFits
    <2>7. Owns(w, cmd) => ~Called /\ cmd.invoked = 0 /\ effect'.state = "reserved"
      BY <1>1, <2>1, NotCalledYet
    <2>8. RunFits(x, w, cmd, effect', Called', paid)
      <3>1. Timely(x, w, cmd)
        BY <1>1, <2>2, RunAtHand DEF RunInv, RunFits, Timely
      <3> QED BY <1>1, <2>2, <2>3, <2>4, <2>7, <3>1 DEF RunFits
    <2>9. ASSUME NEW q \in Run \ {w}, effect' # effect
           PROVE  /\ run[q].pc # "invoke"
                  /\ Owns(q, cmd) => run[q].pc \notin {"mark", "renew", "complete"}
      BY <2>1, <2>9, RunAtHand DEF RunInv, RunFits
    <2>10. OneFate'
      BY <1>1, <2>1, <2>2, <2>3, FateAfter DEF Usable, Unusable
    <2>11. ~NoEarly
      BY <1>1 DEF NoEarly
    <2> QED BY <1>1, <2>1, <2>2, <2>3, <2>4, <2>6, <2>8, <2>9, <2>10, <2>11, EffectStep
  <1> QED BY <1>2, <1>3 DEF Reserve

\* What is paid for: nobody calls, and no owner of the row is yet to call.
LEMMA PaidFor ==
    ASSUME IInv, paid > 0
    PROVE  /\ Called
           /\ \A q \in Run : /\ run[q].pc # "invoke"
                             /\ Owns(q, cmd) => run[q].pc \notin {"prepare", "reserve", "mark"}
  BY RunAtHand, NotCalledYet DEF Called, RunInv, RunFits

\* The usage of a reply is recorded, whatever became of the reservation since.
LEMMA ObserveStep == ASSUME IInv, NEW w \in Run, Observe(w) PROVE IInv'
  <1> DEFINE to == IF run[w].failure = "final" THEN "restore" ELSE "renew"
  <1>1. /\ run[w].pc = "observe" /\ run[w].n >= 1
        /\ UNCHANGED <<cmd, settler, retry, paid, unreported, answers>>
        /\ (Good(run[w]) \/ Bad(run[w])) /\ paid > 0
    BY RunAtHand DEF Observe, RunInv, RunFits, Good, Bad
  <1>2. CASE UNCHANGED effect /\ Stop(w)
    BY <1>1, <1>2, StopStep
  <1>3. CASE /\ \/ effect.state = "reserved"
                \/ effect.state # "none" /\ effect.evidence = "reported"
             /\ effect' = IF effect.state = "reserved"
                          THEN [state |-> "observed", evidence |-> "reported"] ELSE effect
             /\ Goto(w, to)
    <2>1. PICK x : Becomes(w, x) /\ Moved(run[w], x, to, run[w].failure)
      BY <1>3, GotoIs
    <2>2. /\ x.pc = to /\ x.lag <= x.age /\ x.n >= 1 /\ x.pc \in {"restore", "renew"}
          /\ Good(x) => Good(run[w])
          /\ Bad(x) => Bad(run[w])
          /\ x.pc \notin Early
      BY <1>1, <2>1 DEF Moved, Good, Bad, Early
    <2>3. (Good(x) => Usable) /\ (Bad(x) => Unusable)
      BY <2>2 DEF Usable, Unusable
    <2>4. Called /\ Called'
      BY <1>1 DEF Called
    <2>5. /\ effect' \in Effect
          /\ effect.state = "reserved" =>
                effect'.state = "observed" /\ effect'.evidence = "reported"
          /\ effect.state # "reserved" => effect' = effect /\ effect.evidence = "reported"
                                          /\ effect.state # "none"
      BY <1>3, RowAtHand DEF Effect
    <2>6. RowFits(cmd, effect', Called', paid, answers)
      BY <1>1, <2>4, <2>5, RowAtHand DEF RowInv, RowFits
    <2>7. RunFits(x, w, cmd, effect', Called', paid)
      <3>1. ASSUME Owns(w, cmd), x.pc = "renew"
            PROVE  effect'.state = "observed" /\ effect'.evidence = "reported"
        <4>1. ~Over(cmd) /\ cmd.status # "completed"
          BY <3>1 DEF Owns, Over
        <4>2. Usable
          BY <2>3, <3>1 DEF Good
        <4>3. effect.state # "reserved" => effect.state # "restored"
          BY <2>5, <4>1, <4>2 DEF IInv, OneFate, Unusable
        <4>4. effect.state # "finalized"
          BY <4>1, RowAtHand DEF RowInv, RowFits
        <4>5. effect.state \in {"none", "reserved", "observed", "finalized", "restored"}
          BY RowAtHand DEF Effect
        <4> QED BY <2>5, <4>3, <4>4, <4>5
      <3> QED BY <1>1, <2>2, <2>4, <3>1 DEF RunFits, Early
    <2>8. ASSUME NEW q \in Run \ {w}, effect' # effect
          PROVE  /\ run[q].pc # "invoke"
                 /\ Owns(q, cmd) => run[q].pc \notin {"mark", "renew", "complete"}
      BY <1>1, <2>5, <2>8, PaidFor, RunAtHand DEF RunInv, RunFits
    <2>9. OneFate'
      <3>1. effect'.state = "restored" => effect' = effect
        BY <2>5
      <3> QED BY <1>1, <2>1, <2>3, <3>1, FateAfter DEF Usable, Unusable
    <2> QED BY <1>1, <2>1, <2>2, <2>4, <2>5, <2>6, <2>7, <2>8, <2>9, EffectStep
  <1> QED BY <1>1, <1>2, <1>3 DEF Observe

\* What a reply of no use cost is given back.
LEMMA RestorePaidStep == ASSUME IInv, NEW w \in Run, RestorePaid(w) PROVE IInv'
  <1>1. /\ run[w].pc = "restore" /\ run[w].n >= 1
        /\ UNCHANGED <<cmd, settler, retry, paid, unreported, answers>>
        /\ Bad(run[w]) /\ paid > 0
    BY RunAtHand DEF RestorePaid, RunInv, RunFits, Bad
  <1>2. Unusable /\ ~Usable /\ Called
    BY <1>1 DEF IInv, OneFate, Unusable, Called
  <1>3. CASE UNCHANGED effect /\ Stop(w)
    BY <1>1, <1>3, StopStep
  <1>4. CASE UNCHANGED effect /\ FailAs(w, "final")
    BY <1>1, <1>4, FailStep DEF Failure, Retryable
  <1>5. CASE /\ effect.state = "observed" /\ effect' = [effect EXCEPT !.state = "restored"]
             /\ FailAs(w, "final")
    <2>1. PICK x : Becomes(w, x) /\ Moved(run[w], x, "fail", "final")
      BY <1>5, FailAsIs DEF Failure
    <2>2. /\ x.pc = "fail" /\ x.failure = "final" /\ x.lag <= x.age /\ x.n >= 1
          /\ ~Good(x) /\ ~Bad(x) /\ x.pc \notin Early
      BY <1>1, <2>1 DEF Moved, Good, Bad, Early
    <2>3. Called'
      BY <1>1 DEF Called
    <2>4. effect' \in Effect /\ effect'.state = "restored" /\ effect'.evidence = effect.evidence
      BY <1>5, RowAtHand DEF Effect
    <2>5. RowFits(cmd, effect', Called', paid, answers)
      BY <1>2, <1>5, <2>3, <2>4, RowAtHand DEF RowInv, RowFits, Usable
    <2>6. RunFits(x, w, cmd, effect', Called', paid)
      BY <2>2 DEF RunFits, Retryable, Early
    <2>7. ASSUME NEW q \in Run \ {w}
          PROVE  /\ run[q].pc # "invoke"
                 /\ Owns(q, cmd) => run[q].pc \notin {"mark", "renew", "complete"}
      BY <1>1, <1>2, <2>7, PaidFor DEF Usable, Good
    <2>8. OneFate'
      BY <1>1, <1>2, <2>1, <2>2, FateAfter DEF Usable
    <2> QED BY <1>1, <1>2, <1>5, <2>1, <2>2, <2>4, <2>5, <2>6, <2>7, <2>8, EffectStep
  <1> QED BY <1>1, <1>3, <1>4, <1>5 DEF RestorePaid

\* Charging what was observed keeps it observed or makes it final.
LEMMA ChargedIs ==
    ASSUME IInv, cmd.status = "completed", effect' \in {effect, Charged}
    PROVE  /\ effect' \in Effect /\ effect'.state \in {"observed", "finalized"}
           /\ effect'.evidence = "reported" /\ paid > 0 /\ Called /\ ~Over(cmd)
           /\ \A c \in BOOLEAN : c => RowFits(cmd, effect', c, paid, answers)
           /\ \A q \in Run : ~Owns(q, cmd) /\ run[q].pc # "invoke"
  <1>1. /\ effect.state \in {"observed", "finalized"} /\ effect.evidence = "reported"
        /\ paid > 0 /\ ~Over(cmd)
    BY RowAtHand DEF RowInv, RowFits, Over
  <1>2. /\ effect' \in Effect /\ effect'.state \in {"observed", "finalized"}
        /\ effect'.evidence = "reported"
    BY <1>1, RowAtHand DEF Charged, Effect
  <1>3. ASSUME NEW c \in BOOLEAN, c PROVE RowFits(cmd, effect', c, paid, answers)
    BY <1>1, <1>2, <1>3, RowAtHand DEF RowInv, RowFits, Called
  <1> QED BY <1>1, <1>2, <1>3, PaidFor DEF Owns

\* What a stored answer cost is charged.
LEMMA FinalizeStep == ASSUME IInv, NEW w \in Run, Finalize(w) PROVE IInv'
  <1>1. /\ run[w].pc = "finalize" /\ UNCHANGED <<cmd, settler, retry, paid, unreported, answers>>
        /\ Becomes(w, IdleRun) /\ cmd.status = "completed" /\ effect' \in {effect, Charged}
    BY RunAtHand, StopIs DEF Finalize, RunInv, RunFits
  <1>2. /\ effect' \in Effect /\ effect'.state \in {"observed", "finalized"} /\ paid > 0 /\ Called
        /\ ~Over(cmd) /\ \A q \in Run : ~Owns(q, cmd) /\ run[q].pc # "invoke"
    BY <1>1, ChargedIs
  <1>3. Called' /\ Called' \in BOOLEAN
    BY <1>1, <1>2 DEF Called
  <1>4. RowFits(cmd, effect', Called', paid, answers)
    BY <1>1, <1>3, ChargedIs
  <1>5. OneFate'
    BY <1>1, <1>2, IdleFits, FateAfter DEF Usable
  <1>6. RunFits(IdleRun, w, cmd, effect', Called', paid)
    BY IdleFits
  <1> QED BY <1>1, <1>2, <1>4, <1>5, <1>6, IdleFits, EffectStep DEF Early

\* The model is called: nobody else calls it, and nobody did.
LEMMA InvokeStep == ASSUME IInv, NEW w \in Run, Invoke(w) PROVE IInv'
  <1>1. /\ run[w].pc = "invoke" /\ run[w].n >= 1 /\ run[w].pc \in Early /\ run[w].failure = "none"
        /\ paid = 0 /\ effect.state = "reserved"
        /\ UNCHANGED <<cmd, effect, settler, retry, answers>> /\ unreported' \in Nat
        /\ Owns(w, cmd) => cmd.invoked = run[w].n
    BY RunAtHand, RowAtHand DEF Invoke, Paid, RunInv, RunFits, Early
  <1>2. Called /\ \A q \in Run \ {w} : run[q].pc # "invoke"
    BY <1>1 DEF IInv, OneCall, Called
  <1>3. ~Usable /\ ~Unusable /\ cmd.status # "completed" /\ cmd.result = 0
    BY <1>1, RowAtHand, RunAtHand DEF Usable, Unusable, RowInv, RowFits, RunInv, RunFits
  <1>4. PICK x :
           /\ Becomes(w, x) /\ x.lag <= x.age
           /\ x.pc \notin {"invoke", "terminal"} /\ x.pc \notin Early
           /\ \/ x = IdleRun /\ paid' = 1
              \/ x.pc = "keep" /\ x.failure = "none" /\ x.n = run[w].n /\ paid' = 1
              \/ x.pc = "observe" /\ x.failure = "final" /\ x.n = run[w].n /\ paid' = 1
              \/ x.pc = "fail" /\ x.failure = "final" /\ x.n = run[w].n /\ paid' = 1
              \/ /\ x.pc = "fail" /\ x.failure \in {"unpaid", "deadline_exceeded"}
                 /\ x.n = run[w].n /\ paid' = 0
    <2>1. Capped(paid, 2) = 1
      BY <1>1 DEF Capped
    <2>2. CASE Goto(w, "keep") /\ paid' = Capped(paid, 2)
      BY <1>1, <2>1, <2>2, GotoIs DEF Moved, Early
    <2>3. CASE /\ run' = [run EXCEPT ![w].pc = "observe", ![w].failure = "final", ![w].lag = 0]
               /\ paid' = Capped(paid, 2)
      <3> DEFINE y == [run[w] EXCEPT !.pc = "observe", !.failure = "final", !.lag = 0]
      <3>1. run \in [Run -> RunState] /\ run[w] \in RunState /\ 0 \in 0..RunTime
        BY Limits DEF IInv, TypeOK
      <3>2. run' = [run EXCEPT ![w] = y]
        BY <2>3, <3>1 DEF RunState
      <3>3. y \in RunState
        BY <3>1 DEF RunState, Failure
      <3>4. /\ y.pc = "observe" /\ y.failure = "final" /\ y.lag = 0
            /\ y.age = run[w].age /\ y.n = run[w].n
        BY <3>1 DEF RunState
      <3> HIDE DEF y
      <3>5. Becomes(w, y)
        BY <3>1, <3>2, <3>3 DEF Becomes
      <3> QED BY <2>1, <2>3, <3>4, <3>5, RunAtHand DEF Early
    <2>4. CASE FailAs(w, "final") /\ paid' = Capped(paid, 2)
      BY <1>1, <2>1, <2>4, FailAsIs DEF Moved, Early, Failure
    <2>5. ASSUME NEW f \in {"unpaid", "deadline_exceeded"}, FailAs(w, f), UNCHANGED paid
          PROVE  \E x : /\ Becomes(w, x) /\ x.lag <= x.age
                        /\ x.pc \notin {"invoke", "terminal"} /\ x.pc \notin Early
                        /\ x.pc = "fail" /\ x.failure = f /\ x.n = run[w].n /\ paid' = 0
      BY <1>1, <2>5, FailAsIs DEF Moved, Early, Failure
    <2>6. CASE Stop(w) /\ paid' = Capped(paid, 2)
      <3>1. IdleRun.lag <= IdleRun.age
        BY DEF IdleRun
      <3> QED BY <2>1, <2>6, <3>1, StopIs, IdleFits DEF Early
    <2> QED BY <2>2, <2>3, <2>4, <2>5, <2>6 DEF Invoke, Paid
  <1>5. paid' \in {0, 1} /\ (Called' <=> paid' = 1) /\ ~(Good(x) /\ Bad(x))
    <2>1. Called' <=> paid' > 0
      BY <1>2, <1>4 DEF Called, Becomes
    <2> QED BY <1>4, <2>1 DEF Good, Bad
  <1>6. OneFate'
    <2>1. Usable' => Good(x)
      BY <1>1, <1>3, <1>4 DEF Usable, Becomes
    <2>2. Unusable' => Bad(x)
      BY <1>1, <1>3, <1>4 DEF Unusable, Becomes
    <2> QED BY <1>5, <2>1, <2>2 DEF OneFate
  <1>7. RowInv'
    <2>1. RowFits(cmd, effect, Called', paid', answers)
      BY <1>1, <1>2, <1>3, <1>5, RowAtHand DEF RowInv, RowFits
    <2> QED BY <1>1, <2>1 DEF RowInv
  <1>8. RunFits(x, w, cmd, effect, Called', paid')
    <2>1. CASE x = IdleRun
      BY <2>1, IdleFits
    <2>2. CASE x # IdleRun
      BY <1>1, <1>4, <1>5, <2>2 DEF RunFits, Good, Bad, Retryable
    <2> QED BY <2>1, <2>2
  <1>9. ASSUME NEW q \in Run \ {w} PROVE RunFits(run[q], q, cmd, effect, Called', paid')
    BY <1>1, <1>2, <1>5, RunAtHand DEF RunInv, RunFits
  <1>10. retry \in 0..MaxAttempts /\ answers \in 0..2
    BY DEF IInv, TypeOK
  <1> QED BY <1>1, <1>4, <1>5, <1>6, <1>7, <1>8, <1>9, <1>10, RowAtHand, StepInv
-----------------------------------------------------------------------------
(* The student, a reader and the sweep.                                    *)

\* A step that no run takes.
LEMMA OutsideStep ==
    ASSUME IInv, UNCHANGED <<run, paid, unreported, answers>>, cmd' \in Row, effect' \in Effect,
           settler' \in [Settler -> SettlerState], retry' \in 0..MaxAttempts,
           RowFits(cmd', effect', Called, paid, answers),
           \A q \in Run : RunFits(run[q], q, cmd', effect', Called, paid),
           \A z \in Settler : SettlerFits(settler'[z], cmd', effect'),
           Usable' => Usable, Unusable' => Unusable,
           cmd'.settled => NoEarly
    PROVE  IInv'
  <1>1. run' = run /\ paid' = paid /\ answers' = answers /\ (Called' <=> Called)
        /\ (NoEarly' <=> NoEarly)
    BY DEF Called, NoEarly
  <1>2. TypeOK' /\ (paid <= 1)'
    BY <1>1 DEF IInv, TypeOK
  <1>3. RowInv' /\ \A q \in Run : RunInv(q)'
    BY <1>1 DEF RowInv, RowFits, RunInv, RunFits
  <1>4. \A z \in Settler : SettlerInv(z)'
    BY <1>1 DEF SettlerInv, SettlerFits
  <1>5. OneFate' /\ OneCall' /\ EndsLate'
    BY <1>1 DEF IInv, OneFate, OneCall, EndsLate
  <1> QED BY <1>1, <1>2, <1>3, <1>4, <1>5 DEF IInv

\* The student's request reads a failure.
LEMMA ReadFailedStep == ASSUME IInv, ReadFailed PROVE IInv'
  <1>1. /\ UNCHANGED <<cmd, effect, run, settler, paid, unreported, answers>>
        /\ retry' \in 0..MaxAttempts
    BY RowAtHand DEF ReadFailed
  <1>2. settler' \in [Settler -> SettlerState]
    BY <1>1 DEF IInv, TypeOK
  <1>3. RowFits(cmd, effect, Called, paid, answers)
    BY RowAtHand DEF RowInv
  <1>4. \A q \in Run : RunFits(run[q], q, cmd, effect, Called, paid)
    BY RunAtHand DEF RunInv
  <1>5. \A z \in Settler : SettlerFits(settler'[z], cmd, effect)
    BY <1>1, SettlerAtHand DEF SettlerInv
  <1>6. (Usable' => Usable) /\ (Unusable' => Unusable) /\ (cmd.settled => NoEarly)
    BY <1>1 DEF Usable, Unusable, IInv
  <1> QED BY <1>1, <1>2, <1>3, <1>4, <1>5, <1>6, RowAtHand, OutsideStep

\* A command that is not over has no sweep past closing it.
LEMMA NotOverNotSettling ==
    ASSUME IInv, ~Over(cmd), NEW z \in Settler, NEW c, NEW e
    PROVE  SettlerFits(settler[z], c, e)
  BY SettlerAtHand DEF SettlerInv, SettlerFits, Over

\* Only a failure that was not paid for goes back to waiting.
LEMMA ReopenStep == ASSUME IInv, Reopen PROVE IInv'
  <1>1. /\ UNCHANGED <<effect, run, settler, paid, unreported, answers>>
        /\ retry' \in 0..MaxAttempts
        /\ settler' \in [Settler -> SettlerState]
    BY Limits DEF Reopen, IInv, TypeOK
  <1>2. RowFits(cmd, effect, Called, paid, answers)
    BY RowAtHand DEF RowInv
  <1>3. CASE UNCHANGED cmd
    <2>1. \A q \in Run : RunFits(run[q], q, cmd, effect, Called, paid)
      BY RunAtHand DEF RunInv
    <2>2. \A z \in Settler : SettlerFits(settler'[z], cmd, effect)
      BY <1>1, SettlerAtHand DEF SettlerInv
    <2>3. (Usable' => Usable) /\ (Unusable' => Unusable) /\ (cmd.settled => NoEarly)
      BY <1>1, <1>3 DEF Usable, Unusable, IInv
    <2> QED BY <1>1, <1>2, <1>3, <2>1, <2>2, <2>3, RowAtHand, OutsideStep
  <1>4. CASE Reopenable(cmd, retry) /\ cmd' = Reopened(cmd)
    <2> DEFINE c == Reopened(cmd)
    <2>1. /\ cmd.status = "failed" /\ ~Over(cmd) /\ cmd.attempt < MaxAttempts
          /\ cmd.settled = FALSE /\ ~Called
      BY <1>2, <1>4, RowAtHand DEF Reopenable, Over, CanRetry, RowFits
    <2>2. /\ c.status = "message_committed" /\ c.since = 0 /\ c.leaseOwner = cmd.leaseOwner
          /\ c.attempt = cmd.attempt /\ c.invoked = cmd.invoked /\ c.result = cmd.result
          /\ c.failure = "none" /\ c.retryable = FALSE /\ c.settled = cmd.settled
      BY RowAtHand DEF Reopened, Row
    <2>3. c \in Row
      <3>1. 0 \in 0..OldAge
        BY Limits
      <3> QED BY <3>1, RowAtHand DEF Reopened, Row, Status
    <2>4. cmd' = c
      BY <1>4
    <2> HIDE DEF c
    <2>5. RowFits(c, effect, Called, paid, answers)
      BY <1>2, <2>1, <2>2, RowAtHand DEF RowFits
    <2>6. ASSUME NEW q \in Run PROVE RunFits(run[q], q, c, effect, Called, paid)
      <3>1. ~Owns(q, c) /\ ~Owns(q, cmd)
        BY <2>1, <2>2 DEF Owns
      <3>2. run[q].pc \in Early => Timely(run[q], q, c)
        BY <2>2, <3>1, TimelyReset, Limits
      <3> QED BY <2>1, <2>2, <3>1, <3>2, LosesRow, RowAtHand
    <2>7. \A z \in Settler : SettlerFits(settler'[z], c, effect)
      BY <1>1, <2>1, NotOverNotSettling
    <2>8. (Usable' => Usable) /\ (Unusable' => Unusable)
      BY <1>1, <2>1, <2>2, <2>4 DEF Usable, Unusable
    <2> QED BY <1>1, <2>1, <2>2, <2>3, <2>4, <2>5, <2>6, <2>7, <2>8, RowAtHand,
               OutsideStep
  <1> QED BY <1>3, <1>4 DEF Reopen

\* Whoever reads a stored answer charges it.
LEMMA ReplayStep == ASSUME IInv, Replay PROVE IInv'
  <1>1. /\ UNCHANGED <<cmd, run, settler, retry, paid, unreported, answers>>
        /\ retry' \in 0..MaxAttempts
        /\ settler' \in [Settler -> SettlerState] /\ cmd.status = "completed"
        /\ effect' \in {effect, Charged}
    BY DEF Replay, IInv, TypeOK
  <1>2. /\ effect' \in Effect /\ effect'.state \in {"observed", "finalized"} /\ Called /\ ~Over(cmd)
        /\ \A q \in Run : ~Owns(q, cmd) /\ run[q].pc # "invoke"
    BY <1>1, ChargedIs
  <1>3. RowFits(cmd, effect', Called, paid, answers)
    BY <1>1, <1>2, ChargedIs DEF Called
  <1>4. ASSUME NEW q \in Run PROVE RunFits(run[q], q, cmd, effect', Called, paid)
    <2>1. RunFits(run[q], q, cmd, effect, Called, paid)
      BY RunAtHand DEF RunInv
    <2> QED BY <1>2, <2>1 DEF RunFits
  <1>5. \A z \in Settler : SettlerFits(settler'[z], cmd, effect')
    BY <1>1, <1>2, NotOverNotSettling
  <1>6. (Usable' => Usable) /\ (Unusable' => Unusable) /\ (cmd.settled => NoEarly)
    BY <1>1, <1>2 DEF Usable, Unusable, IInv
  <1> QED BY <1>1, <1>2, <1>3, <1>4, <1>5, <1>6, RowAtHand, OutsideStep
-----------------------------------------------------------------------------
(* Settling.                                                               *)

\* A row nobody owns, and nobody may come back to reserve or call for.
LEMMA OutOfReach ==
    ASSUME IInv, NEW q \in Run, NEW c, NEW e, ~Owns(q, c), NoEarly,
           cmd.attempt = MaxAttempts => c.attempt = MaxAttempts,
           cmd.status = "completed" => c.status = "completed"
    PROVE  RunFits(run[q], q, c, e, Called, paid)
  BY RunAtHand DEF RunInv, RunFits, NoEarly, Early

\* A sweep's step: what it leaves to the other sweeps.
LEMMA SweepStep ==
    ASSUME IInv, NEW s \in Settler, NEW y \in SettlerState, settler' = [settler EXCEPT ![s] = y],
           UNCHANGED <<run, retry, paid, unreported, answers>>, cmd' \in Row, effect' \in Effect,
           RowFits(cmd', effect', Called, paid, answers),
           \A q \in Run : RunFits(run[q], q, cmd', effect', Called, paid),
           SettlerFits(y, cmd', effect'),
           Usable' => Usable, Unusable' => Unusable,
           cmd'.settled => NoEarly,
           Over(cmd) => /\ Over(cmd') /\ cmd'.status = cmd.status
                        /\ effect.state # "reserved" => effect'.state # "reserved"
                        /\ effect.state \in {"none", "restored"} =>
                              effect'.state \in {"none", "restored"}
    PROVE  IInv'
  <1>1. settler' \in [Settler -> SettlerState] /\ retry' \in 0..MaxAttempts
    BY DEF IInv, TypeOK
  <1>2. ASSUME NEW z \in Settler PROVE SettlerFits(settler'[z], cmd', effect')
    <2>1. CASE z = s
      BY <2>1 DEF IInv, TypeOK
    <2>2. CASE z # s
      <3>1. settler'[z] = settler[z] /\ SettlerFits(settler[z], cmd, effect)
        BY <2>2, SettlerAtHand DEF IInv, TypeOK, SettlerInv
      <3>2. CASE Over(cmd)
        BY <3>1, <3>2 DEF SettlerFits
      <3>3. CASE ~Over(cmd)
        BY <3>1, <3>3, NotOverNotSettling
      <3> QED BY <3>2, <3>3
    <2> QED BY <2>1, <2>2
  <1> QED BY <1>1, <1>2, OutsideStep

\* A sweep that only moves on.
LEMMA SweepMoves ==
    ASSUME IInv, NEW s \in Settler, NEW y \in SettlerState, settler' = [settler EXCEPT ![s] = y],
           UNCHANGED <<cmd, effect, run, retry, paid, unreported, answers>>,
           SettlerFits(y, cmd, effect)
    PROVE  IInv'
  <1>1. RowFits(cmd, effect, Called, paid, answers)
    BY RowAtHand DEF RowInv
  <1>2. \A q \in Run : RunFits(run[q], q, cmd, effect, Called, paid)
    BY RunAtHand DEF RunInv
  <1>3. (Usable' => Usable) /\ (Unusable' => Unusable) /\ (cmd.settled => NoEarly)
    BY DEF Usable, Unusable, IInv
  <1> QED BY <1>1, <1>2, <1>3, RowAtHand, SweepStep

\* A sweep that is done knows nothing.
LEMMA IdleSettlerFits ==
    /\ IdleSettler \in SettlerState
    /\ \A c, e : SettlerFits(IdleSettler, c, e)
  <1>1. Seen(CommittedRow) \in [status : Status, since : 0..OldAge, leaseOwner : Run \cup {NoRun}]
    BY Limits DEF Seen, CommittedRow, Status
  <1>2. 0 \in 0..RunTime
    BY Limits
  <1> QED BY <1>1, <1>2 DEF IdleSettler, SettlerState, SettlerFits

\* A sweep that stops.
LEMMA DoneStep ==
    ASSUME IInv, NEW s \in Settler, DoneSettling(s),
           UNCHANGED <<cmd, effect, run, retry, paid, unreported, answers>>
    PROVE  IInv'
  BY IdleSettlerFits, SweepMoves DEF DoneSettling

\* The lease of an early run went so lately that the row is not old yet.
LEMMA TooYoung ==
    ASSUME IInv, ~NoEarly
    PROVE  /\ cmd.status = "ai_running" => cmd.since <= SweepMaxAge
           /\ cmd.status \in {"failed", "terminal_failed"} => cmd.since + LeaseTime <= RunTime
  <1>1. PICK w \in Run : run[w].pc \in Early
    BY DEF NoEarly
  <1>2. Timely(run[w], w, cmd)
    BY <1>1, RunAtHand DEF RunInv, RunFits
  <1> QED BY <1>2, RunAtHand, RowAtHand, Limits DEF Timely

\* A settlement that is due finds no early run.
LEMMA ScanStep == ASSUME IInv, NEW s \in Settler, Scan(s) PROVE IInv'
  <1> DEFINE y == [pc |-> "close", age |-> 0, read |-> Seen(cmd)]
  <1>1. /\ settler' = [settler EXCEPT ![s] = y] /\ SettlementDue(cmd)
        /\ UNCHANGED <<cmd, effect, run, retry, paid, unreported, answers>>
    BY DEF Scan
  <1>2. Seen(cmd) \in [status : Status, since : 0..OldAge, leaseOwner : Run \cup {NoRun}]
    BY RowAtHand DEF Seen, Row
  <1>3. y \in SettlerState /\ y.pc = "close" /\ y.read.status = cmd.status
        /\ y.read.since = cmd.since
    BY <1>2, Limits DEF SettlerState, Seen
  <1> HIDE DEF y
  <1>4. cmd.status # "failed" => cmd.failure = "none"
    BY RowAtHand DEF RowInv, RowFits
  <1>5. /\ cmd.status \in {"ai_running", "failed", "terminal_failed"}
        /\ cmd.status = "ai_running" => cmd.since > SweepMaxAge
        /\ cmd.status = "failed" => cmd.since + LeaseTime > RunTime
        /\ cmd.status = "terminal_failed" => cmd.since + LeaseTime > RunTime
    BY <1>1, <1>4, RowAtHand, Limits DEF SettlementDue, StaleLease
  <1>6. cmd.status = "terminal_failed" => NoEarly
    BY <1>5, TooYoung, RowAtHand, Limits
  <1>7. SettlerFits(y, cmd, effect)
    BY <1>3, <1>5, <1>6 DEF SettlerFits
  <1> QED BY <1>1, <1>3, <1>7, SweepMoves

\* What a sweep remembers when it goes on.
LEMMA NextSettler ==
    ASSUME IInv, NEW s \in Settler, NEW pc \in {"release", "restore", "mark"},
           settler' = [settler EXCEPT ![s].pc = pc]
    PROVE  \E y \in SettlerState : /\ settler' = [settler EXCEPT ![s] = y]
                                   /\ y.pc = pc /\ y.read = settler[s].read
  <1> DEFINE y == [settler[s] EXCEPT !.pc = pc]
  <1>1. settler \in [Settler -> SettlerState] /\ settler[s] \in SettlerState
    BY DEF IInv, TypeOK
  <1>2. settler' = [settler EXCEPT ![s] = y] /\ y \in SettlerState
    BY <1>1 DEF SettlerState
  <1>3. y.pc = pc /\ y.read = settler[s].read
    BY <1>1 DEF SettlerState
  <1> HIDE DEF y
  <1> QED BY <1>2, <1>3

\* A command is closed to retries once nobody can act on it any more.
LEMMA CloseStep == ASSUME IInv, NEW s \in Settler, Close(s) PROVE IInv'
  <1> DEFINE read == settler[s].read
  <1>1. /\ settler[s].pc = "close" /\ UNCHANGED <<effect, run, retry, paid, unreported, answers>>
        /\ SettlerFits(settler[s], cmd, effect)
    BY SettlerAtHand DEF Close, SettlerInv
  <1>2. CASE DoneSettling(s) /\ UNCHANGED cmd
    BY <1>1, <1>2, DoneStep
  <1>3. CASE /\ cmd.status = "ai_running" /\ read.status = "ai_running" /\ cmd.since = read.since
             /\ cmd' = Ended(cmd)
             /\ settler' = [settler EXCEPT ![s].pc = "release", ![s].read = Seen(cmd')]
    <2> DEFINE c == Ended(cmd)
               y == [settler[s] EXCEPT !.pc = "release", !.read = Seen(cmd')]
    <2>1. /\ c.status = "terminal_failed" /\ c.leaseOwner = NoRun /\ c.since = 0
          /\ c.attempt = cmd.attempt /\ c.invoked = cmd.invoked /\ c.result = cmd.result
          /\ c.failure = cmd.failure /\ c.retryable = cmd.retryable /\ c.settled = cmd.settled
      BY RowAtHand DEF Ended, Row
    <2>2. c \in Row
      <3>1. 0 \in 0..OldAge /\ NoRun \in Run \cup {NoRun}
        BY Limits
      <3> QED BY <3>1, RowAtHand DEF Ended, Row, Status
    <2>3. cmd' = c
      BY <1>3
    <2> HIDE DEF c
    <2>4. Seen(cmd') \in [status : Status, since : 0..OldAge, leaseOwner : Run \cup {NoRun}]
      BY <2>2, <2>3 DEF Seen, Row
    <2>5. settler \in [Settler -> SettlerState] /\ settler[s] \in SettlerState
      BY DEF IInv, TypeOK
    <2>6. settler' = [settler EXCEPT ![s] = y] /\ y \in SettlerState /\ y.pc = "release"
      BY <1>3, <2>4, <2>5 DEF SettlerState
    <2> HIDE DEF y
    <2>7. NoEarly /\ ~Over(cmd) /\ Over(c)
      BY <1>1, <1>3, <2>1, TooYoung, RowAtHand, Limits DEF SettlerFits, Over
    <2>8. RowFits(c, effect, Called, paid, answers)
      BY <1>3, <2>1, <2>7, RowAtHand DEF RowInv, RowFits
    <2>9. \A q \in Run : RunFits(run[q], q, c, effect, Called, paid)
      BY <1>3, <2>1, <2>7, OutOfReach DEF Owns
    <2>10. SettlerFits(y, c, effect)
      BY <2>6, <2>7 DEF SettlerFits
    <2>11. (Usable' => Usable) /\ (Unusable' => Unusable)
      BY <1>1, <2>1, <2>3, <2>7 DEF Usable, Unusable
    <2> QED BY <1>1, <2>2, <2>3, <2>6, <2>7, <2>8, <2>9, <2>10, <2>11, RowAtHand, SweepStep
  <1>4. CASE /\ SameEnd(cmd, read) /\ read.status = "failed"
             /\ cmd' = [cmd EXCEPT !.retryable = FALSE]
             /\ settler' = [settler EXCEPT ![s].pc = "release"]
    <2>1. PICK y \in SettlerState : settler' = [settler EXCEPT ![s] = y] /\ y.pc = "release"
      BY <1>4, NextSettler
    <2> DEFINE c == [cmd EXCEPT !.retryable = FALSE]
    <2>2. /\ c.status = cmd.status /\ c.leaseOwner = cmd.leaseOwner /\ c.since = cmd.since
          /\ c.attempt = cmd.attempt /\ c.invoked = cmd.invoked /\ c.result = cmd.result
          /\ c.failure = cmd.failure /\ c.retryable = FALSE /\ c.settled = cmd.settled
      BY RowAtHand DEF Row
    <2>3. c \in Row /\ cmd' = c
      BY <1>4, RowAtHand DEF Row
    <2> HIDE DEF c
    <2>4. cmd.status = "failed" /\ NoEarly /\ Over(c)
      BY <1>1, <1>4, <2>2, TooYoung, RowAtHand, SettlerAtHand, Limits
      DEF SettlerFits, Over, SameEnd, CanRetry
    <2>5. RowFits(c, effect, Called, paid, answers)
      BY <2>2, <2>4, RowAtHand DEF RowInv, RowFits, Over
    <2>6. \A q \in Run : RunFits(run[q], q, c, effect, Called, paid)
      BY <2>2, <2>4, OutOfReach DEF Owns
    <2>7. SettlerFits(y, c, effect)
      BY <2>1, <2>4 DEF SettlerFits
    <2>8. (Usable' => Usable) /\ (Unusable' => Unusable)
      BY <1>1, <2>2, <2>3, <2>4 DEF Usable, Unusable
    <2> QED BY <1>1, <2>1, <2>2, <2>3, <2>4, <2>5, <2>6, <2>7, <2>8, RowAtHand, SweepStep
  <1>5. CASE read.status = "terminal_failed" /\ UNCHANGED cmd
             /\ settler' = [settler EXCEPT ![s].pc = "release"]
    <2>1. PICK y \in SettlerState : settler' = [settler EXCEPT ![s] = y] /\ y.pc = "release"
      BY <1>5, NextSettler
    <2>2. SettlerFits(y, cmd, effect)
      BY <1>1, <1>5, <2>1 DEF SettlerFits, Over
    <2> QED BY <1>1, <1>5, <2>1, <2>2, SweepMoves
  <1>6. read.status \in {"ai_running", "failed", "terminal_failed"}
    BY <1>1 DEF SettlerFits
  <1> QED BY <1>2, <1>3, <1>4, <1>5, <1>6 DEF Close

\* A sweep past closing: nobody owns the row or may come back.
LEMMA PastClosing ==
    ASSUME IInv, NEW s \in Settler, settler[s].pc \in {"release", "restore", "mark"}
    PROVE  /\ Over(cmd) /\ NoEarly /\ cmd.status # "completed" /\ effect.state # "finalized"
           /\ SettlerFits(settler[s], cmd, effect)
           /\ \A c, e : c.status = cmd.status /\ c.attempt = cmd.attempt =>
                 \A q \in Run : RunFits(run[q], q, c, e, Called, paid)
  <1>1. SettlerFits(settler[s], cmd, effect)
    BY SettlerAtHand DEF SettlerInv
  <1>2. Over(cmd) /\ NoEarly
    BY <1>1 DEF SettlerFits
  <1>3. cmd.status # "completed" /\ cmd.status # "ai_running" /\ effect.state # "finalized"
    BY <1>2, RowAtHand DEF Over, RowInv, RowFits
  <1> QED BY <1>1, <1>2, <1>3, OutOfReach DEF Owns

\* A cost nobody knows is recorded at the ceiling.
LEMMA ReleaseStep == ASSUME IInv, NEW s \in Settler, Release(s) PROVE IInv'
  <1>1. /\ settler[s].pc = "release" /\ UNCHANGED <<cmd, run, retry, paid, unreported, answers>>
        /\ Over(cmd) /\ NoEarly /\ cmd.status # "completed" /\ effect.state # "finalized"
    BY PastClosing DEF Release
  <1>2. PICK y \in SettlerState : settler' = [settler EXCEPT ![s] = y] /\ y.pc = "restore"
    BY NextSettler DEF Release
  <1>3. /\ effect' \in Effect /\ effect'.state # "reserved"
        /\ effect.state = "reserved" =>
              effect'.state = "observed" /\ effect'.evidence = "unknown_cost"
        /\ effect.state # "reserved" => effect' = effect
    BY RowAtHand DEF Release, Effect
  <1>4. RowFits(cmd, effect', Called, paid, answers)
    BY <1>1, <1>3, RowAtHand DEF RowInv, RowFits
  <1>5. \A q \in Run : RunFits(run[q], q, cmd, effect', Called, paid)
    BY <1>1, PastClosing
  <1>6. SettlerFits(y, cmd, effect')
    BY <1>1, <1>2, <1>3 DEF SettlerFits
  <1>7. (Usable' => Usable) /\ (Unusable' => Unusable)
    BY <1>1 DEF Usable, Unusable
  <1> QED BY <1>1, <1>2, <1>3, <1>4, <1>5, <1>6, <1>7, RowAtHand, SweepStep

\* What was reserved is given back.
LEMMA RestoreReleasedStep == ASSUME IInv, NEW s \in Settler, RestoreReleased(s) PROVE IInv'
  <1>1. /\ settler[s].pc = "restore" /\ UNCHANGED <<cmd, run, retry, paid, unreported, answers>>
        /\ Over(cmd) /\ NoEarly /\ cmd.status # "completed" /\ effect.state # "finalized"
        /\ effect.state # "reserved"
    BY PastClosing DEF RestoreReleased, SettlerFits
  <1>2. PICK y \in SettlerState : settler' = [settler EXCEPT ![s] = y] /\ y.pc = "mark"
    BY NextSettler DEF RestoreReleased
  <1>3. /\ effect' \in Effect /\ effect'.evidence = effect.evidence
        /\ effect.state = "observed" => effect'.state = "restored"
        /\ effect.state # "observed" => effect' = effect
        /\ effect'.state \in {"none", "restored"}
    BY <1>1, RowAtHand DEF RestoreReleased, Effect
  <1>4. RowFits(cmd, effect', Called, paid, answers)
    BY <1>1, <1>3, RowAtHand DEF RowInv, RowFits
  <1>5. \A q \in Run : RunFits(run[q], q, cmd, effect', Called, paid)
    BY <1>1, PastClosing
  <1>6. SettlerFits(y, cmd, effect')
    BY <1>1, <1>2, <1>3 DEF SettlerFits
  <1>7. (Usable' => Usable) /\ (Unusable' => Unusable)
    BY <1>1 DEF Usable, Unusable
  <1> QED BY <1>1, <1>2, <1>3, <1>4, <1>5, <1>6, <1>7, RowAtHand, SweepStep

\* The settlement is marked, with nothing left to give back.
LEMMA MarkSettledStep == ASSUME IInv, NEW s \in Settler, MarkSettled(s) PROVE IInv'
  <1>1. /\ settler[s].pc = "mark" /\ UNCHANGED <<effect, run, retry, paid, unreported, answers>>
        /\ Over(cmd) /\ NoEarly /\ effect.state \in {"none", "restored"} /\ DoneSettling(s)
        /\ cmd.status # "completed"
    BY PastClosing DEF MarkSettled, SettlerFits
  <1>2. CASE UNCHANGED cmd
    BY <1>1, <1>2, DoneStep
  <1>3. CASE cmd' = [cmd EXCEPT !.settled = TRUE]
    <2> DEFINE c == [cmd EXCEPT !.settled = TRUE]
    <2>1. /\ c.status = cmd.status /\ c.leaseOwner = cmd.leaseOwner /\ c.since = cmd.since
          /\ c.attempt = cmd.attempt /\ c.invoked = cmd.invoked /\ c.result = cmd.result
          /\ c.failure = cmd.failure /\ c.retryable = cmd.retryable /\ c.settled = TRUE
      BY RowAtHand DEF Row
    <2>2. c \in Row /\ cmd' = c
      BY <1>3, RowAtHand DEF Row
    <2> HIDE DEF c
    <2>3. Over(c)
      BY <1>1, <2>1 DEF Over, CanRetry
    <2>4. RowFits(c, effect, Called, paid, answers)
      BY <1>1, <2>1, <2>3, RowAtHand DEF RowInv, RowFits
    <2>5. \A q \in Run : RunFits(run[q], q, c, effect, Called, paid)
      BY <1>1, <2>1, PastClosing
    <2>6. (Usable' => Usable) /\ (Unusable' => Unusable)
      BY <1>1, <2>1, <2>2, <2>3 DEF Usable, Unusable
    <2>7. IdleSettler \in SettlerState /\ SettlerFits(IdleSettler, c, effect)
          /\ settler' = [settler EXCEPT ![s] = IdleSettler]
      BY <1>1, IdleSettlerFits DEF DoneSettling
    <2> QED BY <1>1, <2>1, <2>2, <2>3, <2>4, <2>5, <2>6, <2>7, RowAtHand, SweepStep
  <1> QED BY <1>2, <1>3 DEF MarkSettled
-----------------------------------------------------------------------------
(* Time.                                                                   *)

\* An age that passes.
LEMMA OlderIs ==
    ASSUME NEW cap \in Nat, NEW age \in 0..cap
    PROVE  Older(age, cap) \in 0..cap /\ age <= Older(age, cap) /\ Older(age, cap) <= age + 1
  BY DEF Older

\* The row and the runs as time passes.
LEMMA TickIs ==
    ASSUME IInv, Tick
    PROVE  /\ cmd' \in Row /\ cmd'.since \in Nat
           /\ cmd.since <= cmd'.since /\ cmd'.since <= cmd.since + 1
           /\ cmd'.status = cmd.status /\ cmd'.leaseOwner = cmd.leaseOwner
           /\ cmd'.attempt = cmd.attempt /\ cmd'.invoked = cmd.invoked
           /\ cmd'.result = cmd.result /\ cmd'.failure = cmd.failure
           /\ cmd'.retryable = cmd.retryable /\ cmd'.settled = cmd.settled
           /\ run' \in [Run -> RunState]
           /\ \A w \in Run :
                 /\ run'[w].pc = run[w].pc /\ run'[w].n = run[w].n /\ run'[w].mark = run[w].mark
                 /\ run'[w].plan = run[w].plan /\ run'[w].failure = run[w].failure
                 /\ run'[w].lag \in Nat /\ run'[w].age \in Nat /\ run'[w].lag <= run'[w].age
                 /\ run[w].pc # "idle" => run'[w].age = run[w].age + 1
  <1>1. /\ Older(cmd.since, OldAge) \in 0..OldAge /\ cmd.since <= Older(cmd.since, OldAge)
        /\ Older(cmd.since, OldAge) <= cmd.since + 1
        /\ Older(cmd.asked, OldQuestion) \in 0..OldQuestion
    <2>1. OldAge \in Nat /\ OldQuestion \in Nat /\ cmd.since \in 0..OldAge
          /\ cmd.asked \in 0..OldQuestion
      BY RowAtHand, Limits DEF Row
    <2> QED BY <2>1, OlderIs
  <1> DEFINE c == [cmd EXCEPT !.since = Older(cmd.since, OldAge),
                              !.asked = Older(cmd.asked, OldQuestion)]
  <1>2. cmd' = c
    BY RowAtHand DEF Tick, Aged, Row
  <1>3. /\ c \in Row /\ c.since = Older(cmd.since, OldAge)
        /\ c.status = cmd.status /\ c.leaseOwner = cmd.leaseOwner
        /\ c.attempt = cmd.attempt /\ c.invoked = cmd.invoked
        /\ c.result = cmd.result /\ c.failure = cmd.failure
        /\ c.retryable = cmd.retryable /\ c.settled = cmd.settled
    BY <1>1, RowAtHand DEF Row
  <1> HIDE DEF c
  <1>4. ASSUME NEW w \in Run
        PROVE  /\ run'[w] \in RunState
               /\ run'[w].pc = run[w].pc /\ run'[w].n = run[w].n /\ run'[w].mark = run[w].mark
               /\ run'[w].plan = run[w].plan /\ run'[w].failure = run[w].failure
               /\ run'[w].lag \in Nat /\ run'[w].age \in Nat /\ run'[w].lag <= run'[w].age
               /\ run[w].pc # "idle" => run'[w].age = run[w].age + 1
    <2>1. /\ run[w] \in RunState /\ run[w].lag <= run[w].age
          /\ run[w].age \in Nat /\ run[w].lag \in Nat
      BY RunAtHand DEF RunInv, RunFits
    <2>2. CASE run[w].pc = "idle"
      <3>1. run'[w] = run[w]
        BY <2>2 DEF Tick, Active
      <3> QED BY <2>1, <2>2, <3>1
    <2>3. CASE run[w].pc # "idle"
      <3> DEFINE x == [run[w] EXCEPT !.age = run[w].age + 1, !.lag = run[w].lag + 1]
      <3>1. run'[w] = x
        BY <2>1, <2>3 DEF Tick, Active, RunState
      <3>2. run[w].age < RunTime
        BY <2>3 DEF Tick, Active
      <3>3. run[w].age + 1 \in 0..RunTime /\ run[w].lag + 1 \in 0..RunTime
        BY <2>1, <3>2, Limits
      <3>4. /\ x \in RunState /\ x.pc = run[w].pc /\ x.n = run[w].n /\ x.mark = run[w].mark
            /\ x.plan = run[w].plan /\ x.failure = run[w].failure
            /\ x.lag = run[w].lag + 1 /\ x.age = run[w].age + 1
        BY <2>1, <3>3 DEF RunState
      <3> HIDE DEF x
      <3> QED BY <2>1, <3>1, <3>4
    <2> QED BY <2>2, <2>3
  <1>5. run' \in [Run -> RunState]
    BY <1>4 DEF Tick
  <1> QED BY <1>1, <1>2, <1>3, <1>4, <1>5

\* A sweep as time passes.
LEMMA TickSettler ==
    ASSUME IInv, Tick, NEW s \in Settler
    PROVE  /\ settler'[s] \in SettlerState /\ settler'[s].pc = settler[s].pc
           /\ settler'[s].read.status = settler[s].read.status
           /\ settler'[s].read.since \in Nat
           /\ settler[s].read.since <= settler'[s].read.since
  <1>1. settler[s] \in SettlerState /\ settler[s].read.since \in Nat
    BY SettlerAtHand
  <1>2. CASE settler[s].pc = "idle"
    <2>1. settler'[s] = settler[s]
      BY <1>2 DEF Tick
    <2> QED BY <1>1, <2>1
  <1>3. CASE settler[s].pc # "idle"
    <2> DEFINE y == [settler[s] EXCEPT !.age = settler[s].age + 1,
                                       !.read.since = Older(settler[s].read.since, OldAge)]
    <2>1. settler'[s] = y
      BY <1>1, <1>3 DEF Tick, SettlerState
    <2>2. settler[s].age + 1 \in 0..RunTime
      <3>1. settler[s].age \in 0..RunTime /\ settler[s].age < RunTime
        BY <1>1, <1>3 DEF Tick, SettlerState
      <3> QED BY <3>1, Limits
    <2>3. /\ Older(settler[s].read.since, OldAge) \in 0..OldAge
          /\ settler[s].read.since <= Older(settler[s].read.since, OldAge)
      <3>1. OldAge \in Nat /\ settler[s].read.since \in 0..OldAge
        BY <1>1, Limits DEF SettlerState
      <3> QED BY <3>1, OlderIs
    <2>4. /\ y \in SettlerState /\ y.pc = settler[s].pc /\ y.read.status = settler[s].read.status
          /\ y.read.since = Older(settler[s].read.since, OldAge)
      BY <1>1, <2>2, <2>3 DEF SettlerState
    <2> HIDE DEF y
    <2> QED BY <1>1, <2>1, <2>3, <2>4, Limits
  <1> QED BY <1>2, <1>3

\* Time passes, and takes nobody's knowledge.
LEMMA TickStep == ASSUME IInv, Tick PROVE IInv'
  <1>1. UNCHANGED <<effect, retry, paid, unreported, answers>>
    BY DEF Tick
  <1>2. (Called' <=> Called) /\ (NoEarly' <=> NoEarly) /\ (Over(cmd') <=> Over(cmd))
        /\ \A w \in Run : Owns(w, cmd') <=> Owns(w, cmd)
    BY <1>1, TickIs DEF Called, NoEarly, Over, CanRetry, Owns
  <1>3. TypeOK' /\ (paid <= 1)'
    <2>1. settler' \in [Settler -> SettlerState]
      BY TickSettler DEF Tick
    <2> QED BY <1>1, <2>1, TickIs DEF IInv, TypeOK
  <1>4. RowInv'
    <2>1. RowFits(cmd', effect, Called, paid, answers)
      BY <1>2, TickIs, RowAtHand DEF RowInv, RowFits
    <2> QED BY <1>1, <1>2, <2>1 DEF RowInv, RowFits
  <1>5. ASSUME NEW w \in Run PROVE RunInv(w)'
    <2>1. RunFits(run[w], w, cmd, effect, Called, paid)
      BY RunAtHand DEF RunInv
    <2>2. (Good(run'[w]) => Good(run[w])) /\ (Bad(run'[w]) => Bad(run[w]))
      BY TickIs DEF Good, Bad
    <2>3. ASSUME run'[w].pc \in Early PROVE Timely(run'[w], w, cmd')
      <3>1. Timely(run[w], w, cmd) /\ run'[w].age = run[w].age + 1
        BY <2>1, <2>3, TickIs DEF RunFits, Early
      <3> QED BY <1>2, <3>1, TickIs, RunAtHand, RowAtHand, Limits DEF Timely
    <2>4. RunFits(run'[w], w, cmd', effect, Called, paid)
      BY <1>2, <2>1, <2>2, <2>3, TickIs DEF RunFits
    <2> QED BY <1>1, <1>2, <2>4 DEF RunInv, RunFits
  <1>6. ASSUME NEW s \in Settler PROVE SettlerInv(s)'
    <2>1. SettlerFits(settler[s], cmd, effect)
      BY SettlerAtHand DEF SettlerInv
    <2>2. SettlerFits(settler'[s], cmd', effect)
      BY <1>2, <2>1, TickIs, TickSettler, SettlerAtHand, Limits DEF SettlerFits
    <2> QED BY <1>1, <1>2, <2>2 DEF SettlerInv, SettlerFits
  <1>7. OneFate'
    <2>1. \A w \in Run : (Good(run'[w]) => Good(run[w])) /\ (Bad(run'[w]) => Bad(run[w]))
      BY TickIs DEF Good, Bad
    <2>2. (Usable' => Usable) /\ (Unusable' => Unusable)
      BY <1>1, <1>2, <2>1, TickIs DEF Usable, Unusable
    <2> QED BY <2>2 DEF IInv, OneFate
  <1>8. OneCall'
    BY TickIs DEF IInv, OneCall
  <1>9. EndsLate'
    <2> SUFFICES ASSUME NEW v \in Run, NEW w \in Run, run'[v].pc = "terminal", run'[w].pc \in Early
                 PROVE  LeaseTime <= run'[w].age
      BY DEF EndsLate
    <2>1. LeaseTime <= run[w].age /\ run'[w].age = run[w].age + 1
      BY TickIs DEF IInv, EndsLate, Early
    <2> QED BY <2>1, RunAtHand, Limits
  <1>10. cmd'.settled => NoEarly'
    BY <1>2, TickIs DEF IInv
  <1> QED BY <1>3, <1>4, <1>5, <1>6, <1>7, <1>8, <1>9, <1>10 DEF IInv
-----------------------------------------------------------------------------
(* The invariant.                                                          *)

\* It holds of a question that was just committed.
LEMMA InitStep == ASSUME Init PROVE IInv
  <1>1. /\ cmd = CommittedRow /\ effect = [state |-> "none", evidence |-> "none"]
        /\ run = [w \in Run |-> IdleRun] /\ settler = [s \in Settler |-> IdleSettler]
        /\ retry = 0 /\ paid = 0 /\ unreported = 0 /\ answers = 0
    BY DEF Init
  <1>2. CommittedRow \in Row
    BY Limits DEF CommittedRow, Row, Status
  <1>3. /\ effect \in Effect /\ retry \in 0..MaxAttempts /\ paid \in 0..2
        /\ unreported \in Nat /\ answers \in 0..2
    BY <1>1, Limits DEF Effect
  <1>4. TypeOK /\ paid <= 1
    BY <1>1, <1>2, <1>3, IdleFits, IdleSettlerFits DEF TypeOK
  <1>5. \A w \in Run : run[w] = IdleRun
    BY <1>1
  <1>6. ~Called /\ NoEarly
    BY <1>1, <1>5, IdleFits DEF Called, NoEarly, Early
  <1>7. RowInv
    BY <1>1, <1>6, Limits DEF RowInv, RowFits, CommittedRow, Over
  <1>8. (\A w \in Run : RunInv(w)) /\ (\A s \in Settler : SettlerInv(s))
    BY <1>1, <1>5, IdleFits, IdleSettlerFits DEF RunInv, SettlerInv
  <1>9. ~Usable
    BY <1>1, <1>5, IdleFits DEF Usable, CommittedRow
  <1>10. OneCall /\ EndsLate
    BY <1>5, IdleFits DEF OneCall, EndsLate
  <1> QED BY <1>4, <1>6, <1>7, <1>8, <1>9, <1>10 DEF IInv, OneFate

\* Every step keeps it.
LEMMA NextStep == ASSUME IInv, [Next]_vars PROVE IInv'
  <1>1. CASE Tick
    BY <1>1, TickStep
  <1>2. ASSUME NEW w \in Run, Deliver(w) PROVE IInv'
    BY <1>2, DeliverStep
  <1>3. ASSUME NEW w \in Run, Crash(w) PROVE IInv'
    BY <1>3, StopStep DEF Crash
  <1>4. ASSUME NEW w \in Run, Work(w) PROVE IInv'
    <2>1. CASE ReadForClaim(w) \/ Take(w) \/ ReadCurrent(w) \/ MarkTerminal(w)
      BY <2>1, ReadForClaimStep, TakeStep, ReadCurrentStep, MarkTerminalStep
    <2>2. CASE Prepare(w) \/ Reserve(w) \/ MarkInvocation(w) \/ Invoke(w) \/ KeepResult(w)
      BY <2>2, PrepareStep, ReserveStep, MarkInvocationStep, InvokeStep, KeepResultStep
    <2>3. CASE Observe(w) \/ RestorePaid(w) \/ Renew(w) \/ Complete(w) \/ Finalize(w)
      BY <2>3, ObserveStep, RestorePaidStep, RenewStep, CompleteStep, FinalizeStep
    <2>4. CASE RecordFailure(w)
      BY <2>4, RecordFailureStep
    <2> QED BY <1>4, <2>1, <2>2, <2>3, <2>4 DEF Work
  <1>5. CASE ReadFailed \/ Reopen \/ Replay
    BY <1>5, ReadFailedStep, ReopenStep, ReplayStep
  <1>6. ASSUME NEW s \in Settler, Scan(s) \/ Settle(s) \/ StopSettling(s) PROVE IInv'
    BY <1>6, ScanStep, CloseStep, ReleaseStep, RestoreReleasedStep, MarkSettledStep, DoneStep
    DEF Settle, StopSettling
  <1>7. CASE UNCHANGED vars
    BY <1>7 DEF vars, IInv, TypeOK, RowInv, RunInv, SettlerInv, SettlerFits, OneFate, OneCall,
                EndsLate, NoEarly, Usable, Unusable, Called
  <1> QED BY <1>1, <1>2, <1>3, <1>4, <1>5, <1>6, <1>7 DEF Next

\* However workers, sweeps and retries interleave, the invariant holds.
THEOREM Invariant == Spec => []IInv
  BY InitStep, NextStep, PTL DEF Spec
-----------------------------------------------------------------------------
(* What follows from it.                                                   *)

\* Every variable has its type.
THEOREM TypeCorrect == Spec => []TypeOK
  <1>1. IInv => TypeOK
    BY DEF IInv
  <1> QED BY <1>1, Invariant, PTL

\* A call that reported its usage, or that a worker died over, is the only such call
\* and the last call (record_provider_invocation, claim_message_ai_lease).
THEOREM PaidOnlyOnce == Spec => []PaidOnce
  <1>1. IInv => PaidOnce
    BY RunAtHand DEF IInv, PaidOnce, RunInv, RunFits
  <1> QED BY <1>1, Invariant, PTL

\* A call is made, and lasts, only while its tokens are set aside.
THEOREM CallUnderReservation == Spec => []CalledUnderReservation
  <1>1. IInv => CalledUnderReservation
    BY RunAtHand DEF CalledUnderReservation, RunInv, RunFits
  <1> QED BY <1>1, Invariant, PTL

\* A call that counts as paid for stays marked until its outcome is settled
\* (MESSAGE_ATTEMPT_TRACE_FIELDS).
THEOREM CallStaysMarked == Spec => []PaidCallMarked
  <1>1. IInv => PaidCallMarked
    BY RowAtHand DEF PaidCallMarked, RowInv, RowFits, Called
  <1> QED BY <1>1, Invariant, PTL

\* Before a failure the student may retry, no call reported its usage or was lost
\* with its worker (fail_message_command, generate_for_command).
THEOREM RetryAfterUnreported == Spec => []RetryOnlyUnreported
  <1>1. IInv => RetryOnlyUnreported
    BY RowAtHand DEF RetryOnlyUnreported, RowInv, RowFits, Called, CanRetry
  <1> QED BY <1>1, Invariant, PTL

\* An answer is stored once, with its cost known, and what it cost is not given
\* back under it.
THEOREM AnswerCharged == Spec => []StoredAnswerCharged
  <1>1. IInv => StoredAnswerCharged
    BY RowAtHand DEF StoredAnswerCharged, RowInv, RowFits
  <1> QED BY <1>1, Invariant, PTL

\* A command that is settled has nothing set aside, and no worker that could set
\* something aside is left (mark_allowance_settled).
THEOREM SettledIsSettled == Spec => []SettledHoldsNothing
  <1>1. IInv => SettledHoldsNothing
    BY RowAtHand DEF SettledHoldsNothing, RowInv, RowFits
  <1> QED BY <1>1, Invariant, PTL
-----------------------------------------------------------------------------
(* The refinement: one account of the question.                            *)

\* What the row says of the question's fate.
LEMMA FateIs ==
    ASSUME NEW r, r.status \in Status
    PROVE  /\ Fate(r) = "open" <=> r.status \in {"message_committed", "ai_running"}
           /\ Fate(r) = "retryable" <=> r.status = "failed" /\ CanRetry(r)
           /\ Fate(r) = "answered" <=> r.status = "completed"
           /\ Fate(r) = "ended" <=> Over(r)
           /\ Fate(r) \in {"open", "retryable", "answered", "ended"}
  BY DEF Fate, Status, Over

\* The row's fate, its ledger entry and the bill, as the invariant has them.
LEMMA AccountAtHand ==
    ASSUME IInv
    PROVE  /\ cmd.status \in Status /\ paid \in {0, 1}
           /\ effect = [state |-> effect.state, evidence |-> effect.evidence]
           /\ effect.state \in {"none", "reserved"} => effect.evidence = "none"
           /\ Fate(cmd) = "answered" => effect.evidence = "reported" /\ effect.state # "none"
           /\ cmd.settled => Fate(cmd) = "ended" /\ effect.state \in {"none", "restored"} /\ NoEarly
           /\ Called => Fate(cmd) # "retryable"
           /\ paid > 0 => Called
  <1>1. effect = [state |-> effect.state, evidence |-> effect.evidence]
    BY RowAtHand DEF Effect
  <1>2. cmd.settled => NoEarly
    BY DEF IInv
  <1> QED BY <1>1, <1>2, RowAtHand, FateIs DEF RowInv, RowFits, Called, CanRetry

\* Nothing that is told changes.
LEMMA NothingTold ==
    ASSUME Fate(cmd') = Fate(cmd), cmd'.settled = cmd.settled,
           UNCHANGED <<effect, paid, unreported>>
    PROVE  UNCHANGED Account!vars
  BY DEF Account!vars

\* A write of the row alone.
LEMMA RowTold ==
    ASSUME IInv, IInv', UNCHANGED <<effect, paid, unreported>>, cmd'.settled = cmd.settled,
           \/ Fate(cmd') = Fate(cmd)
           \/ Fate(cmd) = "open" /\ Fate(cmd') = "retryable" /\ ~Called
           \/ Fate(cmd) = "retryable" /\ Fate(cmd') = "open"
           \/ Fate(cmd) \in {"open", "retryable"} /\ Fate(cmd') = "ended"
           \/ /\ Fate(cmd) = "open" /\ Fate(cmd') = "answered" /\ paid > 0
              /\ effect.state = "observed" /\ effect.evidence = "reported"
    PROVE  [Account!Next]_(Account!vars)
  <1>1. CASE Fate(cmd') = Fate(cmd)
    BY <1>1, NothingTold
  <1>2. CASE Fate(cmd) = "open" /\ Fate(cmd') = "retryable" /\ ~Called
    BY <1>2 DEF Called, Account!Fail, Account!Next
  <1>3. CASE Fate(cmd) = "retryable" /\ Fate(cmd') = "open"
    BY <1>3 DEF Account!Retry, Account!Next
  <1>4. CASE Fate(cmd) \in {"open", "retryable"} /\ Fate(cmd') = "ended"
    BY <1>4 DEF Account!End, Account!Next
  <1>5. CASE /\ Fate(cmd) = "open" /\ Fate(cmd') = "answered" /\ paid > 0
             /\ effect.state = "observed" /\ effect.evidence = "reported"
    BY <1>5, AccountAtHand DEF Account!Answer, Account!Entry, Account!Next
  <1> QED BY <1>1, <1>2, <1>3, <1>4, <1>5

\* A write of the ledger entry alone.
LEMMA EffectTold ==
    ASSUME IInv, IInv', UNCHANGED <<cmd, paid, unreported>>,
           \/ effect' = effect
           \/ /\ effect.state = "none" /\ effect'.state = "reserved"
              /\ effect'.evidence = effect.evidence /\ ~NoEarly
           \/ /\ effect.state = "reserved" /\ effect'.state = "observed"
              /\ \/ effect'.evidence = "reported" /\ paid > 0
                 \/ effect'.evidence = "unknown_cost" /\ Fate(cmd) = "ended"
           \/ /\ effect.state = "observed" /\ effect'.state = "restored"
              /\ effect'.evidence = effect.evidence /\ Fate(cmd) \in {"open", "ended"}
           \/ /\ effect.state = "observed" /\ effect'.state = "finalized"
              /\ effect'.evidence = effect.evidence /\ Fate(cmd) = "answered"
    PROVE  [Account!Next]_(Account!vars)
  <1>1. effect' = [state |-> effect'.state, evidence |-> effect'.evidence]
    BY RowAtHand DEF IInv, TypeOK, Effect
  <1>2. CASE effect' = effect
    BY <1>2, NothingTold
  <1>3. CASE /\ effect.state = "none" /\ effect'.state = "reserved"
             /\ effect'.evidence = effect.evidence /\ ~NoEarly
    <2>1. Account!Reserve
      BY <1>1, <1>3, AccountAtHand DEF Account!Reserve, Account!Entry
    <2> QED BY <2>1 DEF Account!Next
  <1>4. CASE /\ effect.state = "reserved" /\ effect'.state = "observed"
             /\ \/ effect'.evidence = "reported" /\ paid > 0
                \/ effect'.evidence = "unknown_cost" /\ Fate(cmd) = "ended"
    <2>1. Account!Observe
      BY <1>1, <1>4 DEF Account!Observe, Account!Entry
    <2> QED BY <2>1 DEF Account!Next
  <1>5. CASE /\ effect.state = "observed" /\ effect'.state = "restored"
             /\ effect'.evidence = effect.evidence /\ Fate(cmd) \in {"open", "ended"}
    <2>1. Account!GiveBack
      BY <1>1, <1>5 DEF Account!GiveBack, Account!Entry
    <2> QED BY <2>1 DEF Account!Next
  <1>6. CASE /\ effect.state = "observed" /\ effect'.state = "finalized"
             /\ effect'.evidence = effect.evidence /\ Fate(cmd) = "answered"
    <2>1. Account!Charge
      BY <1>1, <1>6 DEF Account!Charge, Account!Entry
    <2> QED BY <2>1 DEF Account!Next
  <1> QED BY <1>2, <1>3, <1>4, <1>5, <1>6

\* A worker's step that claims, ends, fails or keeps the row, or moves its lease.
LEMMA RowTurns ==
    ASSUME IInv, IInv', NEW w \in Run,
           Take(w) \/ MarkTerminal(w) \/ MarkInvocation(w) \/ KeepResult(w) \/ Renew(w)
              \/ RecordFailure(w)
    PROVE  [Account!Next]_(Account!vars)
  <1>1. UNCHANGED <<effect, paid, unreported>>
    BY DEF Take, MarkTerminal, MarkInvocation, KeepResult, Renew, RecordFailure
  <1>2. cmd \in Row /\ cmd.status \in Status /\ cmd'.status \in Status
    BY RowAtHand DEF IInv, TypeOK, Row
  <1>3. CASE cmd' = cmd
    BY <1>1, <1>3, RowTold
  <1>4. CASE Take(w) /\ cmd' # cmd
    <2>1. /\ cmd' = Claimed(cmd, w, run[w].n, run[w].lag)
          /\ \/ cmd.status \in {"message_committed", "ai_running"}
             \/ cmd.status = "failed" /\ CanRetry(cmd)
      BY <1>4 DEF Take, ClaimCondition
    <2>2. cmd'.status = "ai_running" /\ cmd'.settled = cmd.settled
      BY <1>2, <2>1 DEF Claimed, Row
    <2> QED BY <1>1, <1>2, <2>1, <2>2, FateIs, RowTold
  <1>5. CASE MarkTerminal(w) /\ cmd' # cmd
    <2>1. cmd' = Ended(cmd) /\ cmd.status = "ai_running"
      BY <1>5 DEF MarkTerminal, MayEnd
    <2>2. cmd'.status = "terminal_failed" /\ cmd'.settled = cmd.settled
      BY <1>2, <2>1 DEF Ended, Row
    <2> QED BY <1>1, <1>2, <2>1, <2>2, FateIs, RowTold DEF Over
  <1>6. CASE (MarkInvocation(w) \/ KeepResult(w) \/ Renew(w)) /\ cmd' # cmd
    <2>1. /\ cmd.status = "ai_running"
          /\ \/ cmd' = Marked(cmd, run[w].n)
             \/ cmd' = WithResult(cmd, run[w].n)
             \/ cmd' = Renewed(cmd, run[w].lag)
      BY <1>6 DEF MarkInvocation, KeepResult, Renew, HoldsLive, Holds, Renewable
    <2>2. cmd'.status = "ai_running" /\ cmd'.settled = cmd.settled
      BY <1>2, <2>1 DEF Marked, WithResult, Renewed, Row
    <2> QED BY <1>1, <1>2, <2>1, <2>2, FateIs, RowTold
  <1>7. CASE RecordFailure(w) /\ cmd' # cmd
    <2> DEFINE f == run[w].failure
    <2>1. /\ run[w].pc = "fail" /\ Owns(w, cmd) /\ cmd' = Failed(cmd, f)
          /\ Retryable(f) => ~Called
      BY <1>7, RunAtHand DEF RecordFailure, Holds, Owns, RunInv, RunFits
    <2> HIDE DEF f
    <2>2. cmd'.status = "failed" /\ cmd'.settled = cmd.settled /\ cmd'.retryable = Retryable(f)
      BY <1>2, <2>1 DEF Failed, Cleared, Row
    <2>3. Fate(cmd) = "open"
      BY <1>2, <2>1, FateIs DEF Owns
    <2>4. (Fate(cmd') = "retryable" /\ ~Called) \/ Fate(cmd') = "ended"
      BY <1>2, <2>1, <2>2, FateIs DEF CanRetry, Over
    <2> QED BY <1>1, <2>2, <2>3, <2>4, RowTold
  <1> QED BY <1>3, <1>4, <1>5, <1>6, <1>7

\* The answer is stored.
LEMMA AnswerTold ==
    ASSUME IInv, IInv', NEW w \in Run, Complete(w)
    PROVE  [Account!Next]_(Account!vars)
  <1>1. run[w].pc = "complete" /\ Good(run[w]) /\ paid > 0 /\ UNCHANGED <<effect, paid, unreported>>
    BY RunAtHand DEF Complete, RunInv, RunFits, Good
  <1>2. CASE cmd' = cmd
    BY <1>1, <1>2, RowTold
  <1>3. CASE cmd' # cmd
    <2>1. cmd' = Completed(cmd) /\ Owns(w, cmd)
      BY <1>3 DEF Complete, HoldsLive, Holds, Owns
    <2>2. effect.state = "observed" /\ effect.evidence = "reported"
      BY <1>1, <2>1, RunAtHand DEF RunInv, RunFits
    <2>3. cmd'.status = "completed" /\ cmd'.settled = cmd.settled
      BY <2>1, RowAtHand DEF Completed, Cleared, Row
    <2>4. Fate(cmd) = "open" /\ Fate(cmd') = "answered"
      BY <2>1, <2>3, RowAtHand, FateIs DEF Owns, Status
    <2> QED BY <1>1, <2>2, <2>3, <2>4, RowTold
  <1> QED BY <1>2, <1>3

\* A worker's step on the ledger entry.
LEMMA EffectTurns ==
    ASSUME IInv, IInv', NEW w \in Run,
           Reserve(w) \/ Observe(w) \/ RestorePaid(w) \/ Finalize(w)
    PROVE  [Account!Next]_(Account!vars)
  <1>1. UNCHANGED <<cmd, paid, unreported>> /\ effect \in Effect /\ cmd.status \in Status
    BY RowAtHand DEF Reserve, Observe, RestorePaid, Finalize
  <1>2. CASE effect' = effect
    BY <1>1, <1>2, EffectTold
  <1>3. CASE Reserve(w) /\ effect' # effect
    <2>1. /\ run[w].pc = "reserve" /\ effect.state = "none"
          /\ effect' = [effect EXCEPT !.state = "reserved"]
      BY <1>3 DEF Reserve
    <2>2. ~NoEarly
      BY <2>1 DEF NoEarly, Early
    <2>3. effect'.state = "reserved" /\ effect'.evidence = effect.evidence
      BY <1>1, <2>1 DEF Effect
    <2> QED BY <1>1, <2>1, <2>2, <2>3, EffectTold
  <1>4. CASE Observe(w) /\ effect' # effect
    <2>1. /\ run[w].pc = "observe" /\ effect.state = "reserved"
          /\ effect' = [state |-> "observed", evidence |-> "reported"]
      BY <1>4 DEF Observe
    <2>2. paid > 0
      BY <2>1, RunAtHand DEF RunInv, RunFits, Good, Bad
    <2>3. effect'.state = "observed" /\ effect'.evidence = "reported"
      BY <2>1
    <2> QED BY <1>1, <2>1, <2>2, <2>3, EffectTold
  <1>5. CASE RestorePaid(w) /\ effect' # effect
    <2>1. /\ run[w].pc = "restore" /\ effect.state = "observed"
          /\ effect' = [effect EXCEPT !.state = "restored"]
      BY <1>5 DEF RestorePaid
    <2>2. Unusable /\ ~Usable /\ paid > 0
      BY <2>1, RunAtHand DEF IInv, OneFate, Unusable, Bad, RunInv, RunFits
    <2>3. Fate(cmd) \in {"open", "ended"}
      BY <1>1, <2>2, FateIs, AccountAtHand DEF Usable
    <2>4. effect'.state = "restored" /\ effect'.evidence = effect.evidence
      BY <1>1, <2>1 DEF Effect
    <2> QED BY <1>1, <2>1, <2>3, <2>4, EffectTold
  <1>6. CASE Finalize(w) /\ effect' # effect
    <2>1. /\ run[w].pc = "finalize" /\ effect.state = "observed"
          /\ effect' = [effect EXCEPT !.state = "finalized"]
      BY <1>6 DEF Finalize, Charged
    <2>2. Fate(cmd) = "answered"
      BY <1>1, <2>1, FateIs, RunAtHand DEF RunInv, RunFits
    <2>3. effect'.state = "finalized" /\ effect'.evidence = effect.evidence
      BY <1>1, <2>1 DEF Effect
    <2> QED BY <1>1, <2>1, <2>2, <2>3, EffectTold
  <1> QED BY <1>2, <1>3, <1>4, <1>5, <1>6

\* The call: it counts as paid for under a reservation, once, or reports no usage.
LEMMA CallTold ==
    ASSUME IInv, IInv', NEW w \in Run, Invoke(w)
    PROVE  [Account!Next]_(Account!vars)
  <1>1. /\ run[w].pc = "invoke" /\ paid = 0 /\ effect.state = "reserved" /\ Called
        /\ UNCHANGED <<cmd, effect>>
    BY RunAtHand, RowAtHand DEF Invoke, RunInv, RunFits, Called
  <1>2. CASE UNCHANGED <<paid, unreported>>
    BY <1>1, <1>2, NothingTold
  <1>3. Fate(cmd) \in {"open", "ended"}
    BY <1>1, AccountAtHand, FateIs
  <1>4. CASE Paid
    <2>1. paid' = 1 /\ UNCHANGED unreported
      BY <1>1, <1>4 DEF Capped, Paid
    <2>2. Account!Pay
      BY <1>1, <1>3, <2>1 DEF Account!Pay
    <2> QED BY <2>2 DEF Account!Next
  <1>5. CASE unreported' = unreported + 1 /\ UNCHANGED paid
    <2>1. Account!GoUnreported
      BY <1>1, <1>3, <1>5 DEF Account!GoUnreported
    <2> QED BY <2>1 DEF Account!Next
  <1> QED BY <1>2, <1>4, <1>5 DEF Invoke

\* What the student's retry and a reader of the answer do.
LEMMA StudentTold ==
    ASSUME IInv, IInv', Reopen \/ Replay
    PROVE  [Account!Next]_(Account!vars)
  <1>1. cmd.status \in Status /\ cmd'.status \in Status /\ effect \in Effect /\ cmd \in Row
    BY RowAtHand DEF IInv, TypeOK, Row
  <1>2. CASE UNCHANGED <<cmd, effect, paid, unreported>>
    BY <1>2, NothingTold
  <1>3. CASE Reopen /\ cmd' # cmd
    <2>1. /\ cmd.status = "failed" /\ CanRetry(cmd) /\ cmd' = Reopened(cmd)
          /\ UNCHANGED <<effect, paid, unreported>>
      BY <1>3 DEF Reopen, Reopenable, CanRetry
    <2>2. cmd'.status = "message_committed" /\ cmd'.settled = cmd.settled
      BY <1>1, <2>1 DEF Reopened, Row
    <2> QED BY <1>1, <2>1, <2>2, FateIs, RowTold
  <1>4. CASE Replay /\ effect' # effect
    <2>1. /\ cmd.status = "completed" /\ effect.state = "observed"
          /\ UNCHANGED <<cmd, paid, unreported>>
          /\ effect' = [effect EXCEPT !.state = "finalized"]
      BY <1>4 DEF Replay, Charged
    <2>2. effect'.state = "finalized" /\ effect'.evidence = effect.evidence
      BY <1>1, <2>1 DEF Effect
    <2> QED BY <1>1, <2>1, <2>2, FateIs, EffectTold
  <1> QED BY <1>2, <1>3, <1>4 DEF Reopen, Replay

\* The sweep ends the command, gives back what is set aside and closes the books.
LEMMA SweepTold ==
    ASSUME IInv, IInv', NEW s \in Settler, Settle(s)
    PROVE  [Account!Next]_(Account!vars)
  <1>1. /\ cmd.status \in Status /\ cmd'.status \in Status /\ effect \in Effect /\ cmd \in Row
        /\ SettlerFits(settler[s], cmd, effect)
    BY RowAtHand, SettlerAtHand DEF IInv, TypeOK, Row, SettlerInv
  <1>2. UNCHANGED <<paid, unreported>> /\ (cmd' = cmd \/ effect' = effect)
    BY DEF Settle, Close, Release, RestoreReleased, MarkSettled
  <1>3. CASE UNCHANGED <<cmd, effect>>
    BY <1>2, <1>3, NothingTold
  <1>4. CASE Close(s) /\ cmd' # cmd
    <2>1. CASE cmd.status = "ai_running" /\ cmd' = Ended(cmd)
      <3>1. cmd'.status = "terminal_failed" /\ cmd'.settled = cmd.settled
        BY <1>1, <2>1 DEF Ended, Row
      <3> QED BY <1>1, <1>2, <1>4, <2>1, <3>1, FateIs, RowTold DEF Over
    <2>2. CASE cmd.status = "failed" /\ cmd' = [cmd EXCEPT !.retryable = FALSE]
      <3>1. cmd'.status = "failed" /\ cmd'.settled = cmd.settled /\ cmd'.retryable = FALSE
        BY <1>1, <2>2 DEF Row
      <3>2. Fate(cmd') = "ended" /\ Fate(cmd) \in {"retryable", "ended"}
        BY <1>1, <2>2, <3>1, FateIs DEF Over, CanRetry
      <3> QED BY <1>1, <1>2, <1>4, <2>2, <3>1, <3>2, RowTold
    <2>3. settler[s].read.status \in {"ai_running", "failed", "terminal_failed"}
      BY <1>1, <1>4 DEF Close, SettlerFits
    <2> QED BY <1>4, <2>1, <2>2, <2>3 DEF Close, SameEnd
  <1>5. CASE Release(s) /\ effect' # effect
    <2>1. /\ settler[s].pc = "release" /\ effect.state = "reserved" /\ cmd' = cmd
          /\ effect' = [state |-> "observed", evidence |-> "unknown_cost"]
      BY <1>5 DEF Release
    <2>2. Fate(cmd) = "ended"
      BY <1>1, <2>1, FateIs DEF SettlerFits
    <2> QED BY <1>2, <2>1, <2>2, EffectTold
  <1>6. CASE RestoreReleased(s) /\ effect' # effect
    <2>1. /\ settler[s].pc = "restore" /\ effect.state = "observed" /\ cmd' = cmd
          /\ effect' = [effect EXCEPT !.state = "restored"]
      BY <1>6 DEF RestoreReleased
    <2>2. Fate(cmd) = "ended"
      BY <1>1, <2>1, FateIs DEF SettlerFits
    <2>3. effect'.state = "restored" /\ effect'.evidence = effect.evidence
      BY <1>1, <2>1 DEF Effect
    <2> QED BY <1>2, <2>1, <2>2, <2>3, EffectTold
  <1>7. CASE MarkSettled(s) /\ cmd' # cmd
    <2>1. /\ settler[s].pc = "mark" /\ ~cmd.settled /\ cmd' = [cmd EXCEPT !.settled = TRUE]
          /\ effect' = effect
      BY <1>7 DEF MarkSettled, SameEnd
    <2>2. effect.state \in {"none", "restored"} /\ Fate(cmd) = "ended"
      BY <1>1, <2>1, FateIs DEF SettlerFits
    <2>3. /\ cmd'.settled = TRUE /\ cmd'.status = cmd.status
          /\ cmd'.retryable = cmd.retryable /\ cmd'.attempt = cmd.attempt
      BY <1>1, <2>1 DEF Row
    <2>4. Fate(cmd') = Fate(cmd)
      BY <1>1, <2>2, <2>3, FateIs DEF Over, CanRetry
    <2>5. Account!Settle
      BY <1>2, <2>1, <2>2, <2>3, <2>4 DEF Account!Settle
    <2> QED BY <2>5 DEF Account!Next
  <1> QED BY <1>2, <1>3, <1>4, <1>5, <1>6, <1>7
           DEF Settle, Close, Release, RestoreReleased, MarkSettled

\* Time changes nothing that is told.
LEMMA TimeTold ==
    ASSUME IInv, IInv', Tick
    PROVE  [Account!Next]_(Account!vars)
  <1>1. cmd \in Row /\ cmd' = Aged(cmd) /\ UNCHANGED <<effect, paid, unreported>>
    BY RowAtHand DEF Tick
  <1>2. /\ cmd'.status = cmd.status /\ cmd'.settled = cmd.settled
        /\ cmd'.retryable = cmd.retryable /\ cmd'.attempt = cmd.attempt
    BY <1>1 DEF Aged, Row
  <1>3. Fate(cmd') = Fate(cmd)
    BY <1>2 DEF Fate, CanRetry
  <1> QED BY <1>1, <1>2, <1>3, NothingTold

\* Every step is one step of the account, or none.
LEMMA StepTold == ASSUME IInv, IInv', [Next]_vars PROVE [Account!Next]_(Account!vars)
  <1>1. CASE UNCHANGED <<cmd, effect, paid, unreported>>
    BY <1>1, NothingTold
  <1>2. CASE Tick
    BY <1>2, TimeTold
  <1>3. ASSUME NEW w \in Run, Deliver(w) \/ Work(w) \/ Crash(w)
        PROVE  [Account!Next]_(Account!vars)
    <2>1. CASE Deliver(w) \/ Crash(w) \/ ReadForClaim(w) \/ ReadCurrent(w) \/ Prepare(w)
      BY <1>1, <2>1 DEF Deliver, Crash, ReadForClaim, ReadCurrent, Prepare
    <2>2. CASE Take(w) \/ MarkTerminal(w) \/ MarkInvocation(w) \/ KeepResult(w) \/ Renew(w)
                 \/ RecordFailure(w)
      BY <2>2, RowTurns
    <2>3. CASE Reserve(w) \/ Observe(w) \/ RestorePaid(w) \/ Finalize(w)
      BY <2>3, EffectTurns
    <2>4. CASE Invoke(w) \/ Complete(w)
      BY <2>4, CallTold, AnswerTold
    <2> QED BY <1>3, <2>1, <2>2, <2>3, <2>4 DEF Work
  <1>4. CASE ReadFailed \/ Reopen \/ Replay
    BY <1>1, <1>4, StudentTold DEF ReadFailed
  <1>5. ASSUME NEW s \in Settler, Scan(s) \/ Settle(s) \/ StopSettling(s)
        PROVE  [Account!Next]_(Account!vars)
    BY <1>1, <1>5, SweepTold DEF Scan, StopSettling
  <1>6. CASE UNCHANGED vars
    BY <1>1, <1>6 DEF vars
  <1> QED BY <1>2, <1>3, <1>4, <1>5, <1>6 DEF Next

\* Whatever workers, sweeps and retries overlap, the student and the books see one
\* account of the question (generate_for_command, settle_reservation).
THEOREM OneAccount == Spec => ImplementsAccount
  <1>1. Init => Account!Init
    BY DEF Init, CommittedRow, Fate, Account!Init, Account!Entry
  <1>2. IInv /\ IInv' /\ [Next]_vars => [Account!Next]_(Account!vars)
    BY StepTold
  <1> QED BY <1>1, <1>2, Invariant, PTL DEF Spec, ImplementsAccount, Account!Spec
=============================================================================
