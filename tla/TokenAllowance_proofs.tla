------------------------ MODULE TokenAllowance_proofs ------------------------
(***************************************************************************)
(* Proofs about TokenAllowance, for every number of callers, effects,      *)
(* plans and attempts.  The inductive invariant says what a caller that is *)
(* about to write knows: the counter it read is still the stored one or    *)
(* has been overtaken by a higher version, and the test it passed still    *)
(* holds of what it read.                                                  *)
(***************************************************************************)
EXTENDS TokenAllowance, TLAPS

\* The row an attempt keeps is in the state its operation starts from.
RowRead(c) ==
    /\ c.op = "reserve" => c.row.state = "absent"
    /\ c.op = "record" => c.row.state = "reserved" /\ c.row.tokens >= 1
    /\ c.op = "settle" => /\ c.row.state = "observed" /\ c.row.tokens >= 1
                          /\ evidence[c.e].tokens >= 1

\* What a caller knows when it is about to write.
Fresh(c) ==
    /\ c.seen.version <= counter.version
    /\ c.seen.version = counter.version => c.seen = counter
    /\ Refusal(c, c.seen) = "none"

CallInv(c) ==
    /\ c.op = "reserve" /\ c.pc \notin {"idle", "release"}
          => c.plan \in Plan /\ c.tokens >= 1
    /\ c.op = "record" => c.tokens >= 1
    /\ c.pc \in {"counter", "write"} => RowRead(c)
    /\ c.pc = "write" => Fresh(c)

RowInv(e) ==
    /\ effect[e].state # "absent" => effect[e].tokens >= 1
    /\ effect[e].state \in {"observed", "finalized", "restored"}
          => evidence[e].tokens >= 1

IInv ==
    /\ TypeOK
    /\ \A e \in Effect : RowInv(e)
    /\ \A p \in Proc : CallInv(call[p])
    /\ WithinLargestGrant
-----------------------------------------------------------------------------
\* An idle caller has the type of a caller (IdleCall).
LEMMA IdleCallType ==
    ASSUME NEW e \in Effect
    PROVE  /\ IdleCall(e) \in Call
           /\ CallInv(IdleCall(e))
  BY DEF IdleCall, Call, NoEffect, NoCounter, NoPlan, EffectRow, CounterRow,
         Operation, Settlement, Disposition, CallInv, RowRead, Fresh

\* Whatever the caller is told, it is idle then, or a release goes on to settle.
LEMMA OutcomeType ==
    ASSUME NEW c \in Call, NEW d \in Disposition
    PROVE  /\ Outcome(c, d) \in Call
           /\ Outcome(c, d).pc \in {"idle", "effect"}
           /\ Outcome(c, d).pc = "effect" => Outcome(c, d).op = "settle"
           /\ Outcome(c, d).op # "record"
  <1> DEFINE cont == [Forget(c) EXCEPT !.op = "settle",
                        !.settlement = "unknown_cost", !.pc = "effect", !.tries = 0]
             end(x) == [IdleCall(c.e) EXCEPT !.out = x]
  <1>1. cont \in Call /\ cont.pc = "effect" /\ cont.op = "settle"
    BY DEF Forget, Call, NoEffect, NoCounter, NoPlan, EffectRow, CounterRow,
           Operation, Settlement
  <1>2. \A x \in Disposition :
           end(x) \in Call /\ end(x).pc = "idle" /\ end(x).op = "reserve"
    BY DEF IdleCall, Call, NoEffect, NoCounter, NoPlan, EffectRow, CounterRow,
           Operation, Settlement
  <1>3. \/ Outcome(c, d) = cont
        \/ \E x \in Disposition : Outcome(c, d) = end(x)
    BY DEF Outcome, Disposition
  <1> QED BY <1>1, <1>2, <1>3

\* Forgetting the rows that were read keeps the type (an attempt that is over).
LEMMA ForgetType ==
    ASSUME NEW c \in Call
    PROVE  /\ Forget(c) \in Call
           /\ Forget(c).op = c.op /\ Forget(c).e = c.e
           /\ Forget(c).plan = c.plan /\ Forget(c).tokens = c.tokens
  BY DEF Forget, Call, NoEffect, NoCounter, NoPlan, EffectRow, CounterRow, Settlement

\* A release that goes on to restore keeps the type (release_unknown_cost).
LEMMA RetryFieldsType ==
    ASSUME NEW f \in Call, NEW n \in Nat, NEW g,
           g = [f EXCEPT !.pc = "effect", !.tries = n]
    PROVE  /\ g \in Call
           /\ g.pc = "effect" /\ g.op = f.op
           /\ g.plan = f.plan /\ g.tokens = f.tokens
  <1>1. g \in Call
    BY DEF Call
  <1> QED BY <1>1 DEF Call

\* A repeated attempt keeps the type (weekly_counter.retry).
LEMMA AgainType ==
    ASSUME NEW c \in Call
    PROVE  /\ Again(c) \in Call
           /\ Again(c).pc = "effect" /\ Again(c).op = c.op
           /\ Again(c).plan = c.plan /\ Again(c).tokens = c.tokens
  <1> DEFINE f == Forget(c)
             n == c.tries + 1
             g == Again(c)
  <1>1. n \in Nat
    BY DEF Call
  <1>2. f \in Call
    BY ForgetType
  <1>3. g = [f EXCEPT !.pc = "effect", !.tries = n]
    BY DEF Again
  <1> HIDE DEF f, n, g
  <1>4. /\ g \in Call
        /\ g.pc = "effect" /\ g.op = f.op
        /\ g.plan = f.plan /\ g.tokens = f.tokens
    BY <1>1, <1>2, <1>3, RetryFieldsType
  <1> QED BY <1>4, ForgetType DEF f, g

\* A caller that was told an outcome satisfies what the invariant says of callers.
LEMMA OutcomeInv ==
    ASSUME NEW c \in Call, NEW d \in Disposition
    PROVE  CallInv(Outcome(c, d))
  BY OutcomeType DEF CallInv
-----------------------------------------------------------------------------
\* A step of one caller that leaves the rows alone keeps the invariant, if it
\* keeps what that caller knows.
LEMMA CallerStep ==
    ASSUME IInv, NEW p \in Proc, NEW c \in Call,
           CallInv(c), call' = [call EXCEPT ![p] = c],
           UNCHANGED <<counter, effect, evidence, active>>
    PROVE  IInv'
  <1>1. TypeOK'
    BY DEF IInv, TypeOK
  <1>2. \A e \in Effect : RowInv(e)'
    BY DEF IInv, RowInv
  <1>3. ASSUME NEW q \in Proc PROVE CallInv(call[q])'
    <2>1. CallInv(call'[q])
      BY DEF IInv, TypeOK
    <2> QED BY <2>1 DEF CallInv, RowRead, Fresh, Refusal, SettleRefusal, ReserveRefusal
  <1>4. WithinLargestGrant'
    BY DEF IInv, WithinLargestGrant
  <1> QED BY <1>1, <1>2, <1>3, <1>4 DEF IInv

\* Telling a caller its outcome keeps the invariant.
LEMMA ReturnStep ==
    ASSUME IInv, NEW p \in Proc, NEW d \in Disposition, Return(p, d),
           UNCHANGED <<counter, effect, evidence, active>>
    PROVE  IInv'
  <1>1. call[p] \in Call
    BY DEF IInv, TypeOK
  <1>2. Outcome(call[p], d) \in Call /\ CallInv(Outcome(call[p], d))
    BY <1>1, OutcomeType, OutcomeInv
  <1>3. call' = [call EXCEPT ![p] = Outcome(call[p], d)]
    BY DEF Return
  <1> QED BY <1>2, <1>3, CallerStep

\* Repeating an attempt, or giving up, keeps the invariant (weekly_counter.retry).
LEMMA RetryStep ==
    ASSUME IInv, NEW p \in Proc, call[p].pc = "reread", Retry(p),
           UNCHANGED <<counter, effect, evidence, active>>
    PROVE  IInv'
  <1>1. CASE call[p].tries + 1 < Attempts
    <2>1. call[p] \in Call /\ CallInv(call[p])
      BY DEF IInv, TypeOK
    <2>2. CallInv(Again(call[p]))
      BY <2>1, AgainType DEF CallInv
    <2> QED BY <1>1, <2>1, <2>2, AgainType, CallerStep DEF Retry
  <1>2. CASE ~(call[p].tries + 1 < Attempts)
    BY <1>2, ReturnStep DEF Retry, Disposition
  <1> QED BY <1>1, <1>2
-----------------------------------------------------------------------------
\* The calls: each puts its caller at the start of its operation.
LEMMA CallsStep ==
    ASSUME IInv, NEW p \in Proc,
           CallReserve(p) \/ CallRecord(p) \/ CallSettle(p) \/ CallRelease(p)
    PROVE  IInv'
  <1>1. CASE CallReserve(p)
    <2>1. PICK e \in Effect, pl \in Plan, n \in Tokens :
             LET c == [IdleCall(e) EXCEPT !.plan = pl, !.tokens = n, !.pc = "effect"]
             IN  call' = [call EXCEPT ![p] = IF n > pl.budget
                                             THEN Outcome(c, "limit_exceeded") ELSE c]
      BY <1>1 DEF CallReserve
    <2> DEFINE c == [IdleCall(e) EXCEPT !.plan = pl, !.tokens = n, !.pc = "effect"]
    <2>2. n \in Nat /\ n >= 1
      BY TokensAssumption
    <2>3. c \in Call /\ CallInv(c)
      BY <2>2 DEF IdleCall, Call, NoEffect, NoCounter, NoPlan, EffectRow, CounterRow,
                  Operation, Settlement, Disposition, CallInv
    <2>4. Outcome(c, "limit_exceeded") \in Call /\ CallInv(Outcome(c, "limit_exceeded"))
      BY <2>3, OutcomeType, OutcomeInv DEF Disposition
    <2>5. \/ call' = [call EXCEPT ![p] = c]
          \/ call' = [call EXCEPT ![p] = Outcome(c, "limit_exceeded")]
      BY <2>1
    <2>6. UNCHANGED <<counter, effect, evidence, active>>
      BY <1>1 DEF CallReserve
    <2> HIDE DEF c
    <2> QED BY <2>3, <2>4, <2>5, <2>6, CallerStep
  <1>2. CASE CallRecord(p)
    <2>1. PICK e \in Effect, n \in Tokens :
             call' = [call EXCEPT ![p] =
               [IdleCall(e) EXCEPT !.op = "record", !.tokens = n, !.pc = "effect"]]
      BY <1>2 DEF CallRecord
    <2> DEFINE c == [IdleCall(e) EXCEPT !.op = "record", !.tokens = n, !.pc = "effect"]
    <2>2. n \in Nat /\ n >= 1
      BY TokensAssumption
    <2>3. c \in Call /\ CallInv(c)
      BY <2>2 DEF IdleCall, Call, NoEffect, NoCounter, NoPlan, EffectRow, CounterRow,
                  Operation, Settlement, Disposition, CallInv
    <2>4. call' = [call EXCEPT ![p] = c] /\ UNCHANGED <<counter, effect, evidence, active>>
      BY <1>2, <2>1 DEF CallRecord
    <2> HIDE DEF c
    <2> QED BY <2>3, <2>4, CallerStep
  <1>3. CASE CallSettle(p)
    <2>1. PICK e \in Effect, s \in {"delivered", "unusable"} :
             call' = [call EXCEPT ![p] =
               [IdleCall(e) EXCEPT !.op = "settle", !.settlement = s, !.pc = "effect"]]
      BY <1>3 DEF CallSettle
    <2> DEFINE c == [IdleCall(e) EXCEPT !.op = "settle", !.settlement = s, !.pc = "effect"]
    <2>3. c \in Call /\ CallInv(c)
      BY DEF IdleCall, Call, NoEffect, NoCounter, NoPlan, EffectRow, CounterRow,
             Operation, Settlement, Disposition, CallInv
    <2>4. call' = [call EXCEPT ![p] = c] /\ UNCHANGED <<counter, effect, evidence, active>>
      BY <1>3, <2>1 DEF CallSettle
    <2> HIDE DEF c
    <2> QED BY <2>3, <2>4, CallerStep
  <1>4. CASE CallRelease(p)
    <2>1. PICK e \in Effect :
             call' = [call EXCEPT ![p] =
               [IdleCall(e) EXCEPT !.release = TRUE, !.pc = "release"]]
      BY <1>4 DEF CallRelease
    <2> DEFINE c == [IdleCall(e) EXCEPT !.release = TRUE, !.pc = "release"]
    <2>3. c \in Call /\ CallInv(c)
      BY DEF IdleCall, Call, NoEffect, NoCounter, NoPlan, EffectRow, CounterRow,
             Operation, Settlement, Disposition, CallInv
    <2>4. call' = [call EXCEPT ![p] = c] /\ UNCHANGED <<counter, effect, evidence, active>>
      BY <1>4, <2>1 DEF CallRelease
    <2> HIDE DEF c
    <2> QED BY <2>3, <2>4, CallerStep
  <1> QED BY <1>1, <1>2, <1>3, <1>4

\* A repeated call is a replay or a conflict (_reservation_from_effect).
LEMMA ClassifyType == \A b \in BOOLEAN : Classify(b) \in Disposition
  BY DEF Classify, Disposition

\* A release decides from the effect it reads what it has to do.
LEMMA ReleaseStep ==
    ASSUME IInv, NEW p \in Proc, ReadForRelease(p)
    PROVE  IInv'
  <1> DEFINE c == call[p]
             row == effect[c.e]
  <1>1. c \in Call /\ CallInv(c) /\ row \in EffectRow /\ RowInv(c.e)
    BY DEF IInv, TypeOK, Call
  <1>2. row.state \in {"absent", "reserved", "observed", "finalized", "restored"}
        /\ row.tokens \in Nat
    BY <1>1 DEF EffectRow
  <1>3. CASE row.state = "absent" \/ Ended(row)
    <2>1. Return(p, "nothing_reserved") \/ Return(p, "already_settled")
      BY <1>3, <1>2 DEF ReadForRelease, Return, Ended
    <2> QED BY <2>1, ReturnStep DEF Disposition, ReadForRelease
  <1>4. CASE row.state = "reserved"
    <2> DEFINE d == [c EXCEPT !.pc = "effect", !.op = "record",
                              !.tokens = row.tokens, !.basis = "unknown_cost"]
    <2>1. call' = [call EXCEPT ![p] = d] /\ UNCHANGED <<counter, effect, evidence, active>>
      BY <1>4 DEF ReadForRelease, Ended
    <2>2. d \in Call
      BY <1>1, <1>2 DEF Call, Operation
    <2>3. d.pc = "effect" /\ d.op = "record" /\ d.tokens = row.tokens
      BY <1>1 DEF Call
    <2>4. row.tokens >= 1
      BY <1>1, <1>4 DEF RowInv
    <2> HIDE DEF d, c, row
    <2>5. CallInv(d)
      BY <2>3, <2>4 DEF CallInv
    <2> QED BY <2>1, <2>2, <2>5, CallerStep
  <1>5. CASE row.state = "observed"
    <2> DEFINE d == [c EXCEPT !.pc = "effect", !.op = "settle",
                              !.settlement = "unknown_cost"]
    <2>1. call' = [call EXCEPT ![p] = d] /\ UNCHANGED <<counter, effect, evidence, active>>
      BY <1>5 DEF ReadForRelease, Ended
    <2>2. d \in Call
      BY <1>1, <1>2 DEF Call, Operation, Settlement
    <2>3. d.pc = "effect" /\ d.op = "settle"
      BY <1>1 DEF Call
    <2> HIDE DEF d, c, row
    <2>5. CallInv(d)
      BY <2>3 DEF CallInv
    <2> QED BY <2>1, <2>2, <2>5, CallerStep
  <1> QED BY <1>2, <1>3, <1>4, <1>5 DEF Ended

\* An attempt keeps the effect it read only in the state its operation needs.
LEMMA EffectStep ==
    ASSUME IInv, NEW p \in Proc, ReadEffect(p)
    PROVE  IInv'
  <1> DEFINE c == call[p]
             row == effect[c.e]
             d == [c EXCEPT !.row = row, !.pc = "counter"]
  <1>1. c \in Call /\ CallInv(c) /\ row \in EffectRow /\ RowInv(c.e) /\ c.pc = "effect"
    BY DEF IInv, TypeOK, Call, ReadEffect
  <1>2. UNCHANGED <<counter, effect, evidence, active>>
    BY DEF ReadEffect
  <1>3. \/ \E x \in Disposition : Return(p, x)
        \/ /\ call' = [call EXCEPT ![p] = d]
           /\ c.op = "reserve" => row.state = "absent"
           /\ c.op = "record" => row.state = "reserved"
           /\ c.op = "settle" => row.state = "observed"
    <2>1. c.op \in {"reserve", "record", "settle"}
      BY <1>1 DEF Call, Operation
    <2>2. SameReservation(row, c) \in BOOLEAN /\ SameEvidence(evidence[c.e], c) \in BOOLEAN
          /\ SameSettlement(row, c) \in BOOLEAN
      BY DEF SameReservation, SameEvidence, SameSettlement
    <2>3. CASE c.op = "reserve"
      BY <2>2, <2>3, ClassifyType DEF ReadEffect
    <2>4. CASE c.op = "record"
      BY <2>2, <2>4, ClassifyType DEF ReadEffect, Disposition
    <2>5. CASE c.op = "settle"
      BY <2>2, <2>5, ClassifyType DEF ReadEffect, Disposition
    <2> QED BY <2>1, <2>3, <2>4, <2>5
  <1>4. d \in Call /\ d.pc = "counter" /\ d.row = row /\ d.op = c.op /\ d.e = c.e
        /\ d.plan = c.plan /\ d.tokens = c.tokens
    BY <1>1 DEF Call
  <1>5. ASSUME /\ c.op = "reserve" => row.state = "absent"
               /\ c.op = "record" => row.state = "reserved"
               /\ c.op = "settle" => row.state = "observed"
        PROVE  CallInv(d)
    <2> HIDE DEF d
    <2>1. RowRead(d)
      BY <1>1, <1>4, <1>5 DEF RowRead, RowInv
    <2> HIDE DEF c, row
    <2> QED BY <1>1, <1>4, <2>1 DEF CallInv
  <1> HIDE DEF c, row, d
  <1> QED BY <1>2, <1>3, <1>4, <1>5, CallerStep, ReturnStep

\* Every refusal is an outcome a caller can hear.
LEMMA RefusalType ==
    ASSUME NEW c \in Call, NEW row
    PROVE  Refusal(c, row) \in Disposition
  <1>1. c.op \in {"reserve", "record", "settle"}
    BY DEF Call, Operation
  <1>2. ReserveRefusal(c, row) \in Disposition
    BY DEF ReserveRefusal, Disposition
  <1>3. SettleRefusal(c, row) \in Disposition
    BY DEF SettleRefusal, Disposition
  <1> QED BY <1>1, <1>2, <1>3 DEF Refusal, Disposition

\* The counter an attempt keeps is the stored one, and passes its test.
LEMMA CounterStep ==
    ASSUME IInv, NEW p \in Proc, ReadCounter(p)
    PROVE  IInv'
  <1> DEFINE c == call[p]
             d == [c EXCEPT !.seen = counter, !.pc = "write"]
  <1>1. c \in Call /\ CallInv(c) /\ counter \in CounterRow /\ c.pc = "counter"
    BY DEF IInv, TypeOK, ReadCounter
  <1>2. UNCHANGED <<counter, effect, evidence, active>>
    BY DEF ReadCounter
  <1>3. CASE Refusal(c, counter) # "none"
    BY <1>1, <1>2, <1>3, RefusalType, ReturnStep DEF ReadCounter
  <1>4. CASE Refusal(c, counter) = "none"
    <2>1. call' = [call EXCEPT ![p] = d]
      BY <1>4 DEF ReadCounter
    <2>2. /\ d \in Call /\ d.pc = "write" /\ d.seen = counter
          /\ d.row = c.row /\ d.op = c.op /\ d.e = c.e
          /\ d.plan = c.plan /\ d.tokens = c.tokens /\ d.settlement = c.settlement
      BY <1>1 DEF Call
    <2> HIDE DEF d, c
    <2>3. RowRead(d)
      BY <1>1, <2>2 DEF CallInv, RowRead
    <2>4. Refusal(d, counter) = Refusal(c, counter)
      BY <2>2 DEF Refusal, ReserveRefusal, SettleRefusal
    <2>5. Fresh(d)
      BY <1>1, <1>4, <2>2, <2>4 DEF Fresh, CounterRow
    <2>6. CallInv(d)
      BY <1>1, <2>2, <2>3, <2>5 DEF CallInv
    <2> QED BY <1>2, <2>1, <2>2, <2>6, CallerStep
  <1> QED BY <1>3, <1>4

\* The steps that only end or repeat an attempt.
LEMMA OtherSteps ==
    ASSUME IInv, NEW p \in Proc,
           WriteRefused(p) \/ Reread(p) \/ ReadUnavailable(p) \/ Crash(p)
    PROVE  IInv'
  <1> DEFINE c == call[p]
             d == [Forget(c) EXCEPT !.pc = "reread"]
  <1>1. c \in Call /\ CallInv(c)
    BY DEF IInv, TypeOK
  <1>2. UNCHANGED <<counter, effect, evidence, active>>
    BY DEF WriteRefused, Reread, ReadUnavailable, Crash
  <1>3. CASE WriteRefused(p)
    <2>1. call' = [call EXCEPT ![p] = d] /\ c.pc = "write"
      BY <1>3 DEF WriteRefused, AwaitReread
    <2>2. /\ d \in Call /\ d.pc = "reread" /\ d.op = Forget(c).op
          /\ d.plan = Forget(c).plan /\ d.tokens = Forget(c).tokens
      BY <1>1, ForgetType DEF Call
    <2>3. d.op = c.op /\ d.plan = c.plan /\ d.tokens = c.tokens
      BY <1>1, <2>2, ForgetType
    <2> HIDE DEF c, d
    <2>4. CallInv(d)
      BY <1>1, <2>1, <2>2, <2>3 DEF CallInv
    <2> QED BY <1>2, <2>1, <2>2, <2>4, CallerStep
  <1>4. CASE Reread(p)
    <2>1. Retry(p) \/ \E b \in BOOLEAN : Return(p, Classify(b))
      <3>1. c.op \in {"reserve", "record", "settle"}
        BY <1>1 DEF Call, Operation
      <3>2. SameReservation(effect[c.e], c) \in BOOLEAN
            /\ SameEvidence(evidence[c.e], c) \in BOOLEAN
            /\ SameSettlement(effect[c.e], c) \in BOOLEAN
        BY DEF SameReservation, SameEvidence, SameSettlement
      <3> QED BY <1>4, <3>1, <3>2 DEF Reread
    <2>2. c.pc = "reread"
      BY <1>4 DEF Reread
    <2> QED BY <1>2, <2>1, <2>2, ClassifyType, ReturnStep, RetryStep
  <1>5. CASE ReadUnavailable(p)
    BY <1>2, <1>5, ReturnStep DEF ReadUnavailable, Disposition
  <1>6. CASE Crash(p)
    <2>1. c.e \in Effect
      BY <1>1 DEF Call
    <2> QED BY <1>2, <1>6, <2>1, IdleCallType, CallerStep DEF Crash
  <1> QED BY <1>3, <1>4, <1>5, <1>6
-----------------------------------------------------------------------------
\* What a transaction that is applied writes, by operation.
LEMMA ApplyRows ==
    ASSUME IInv, NEW p \in Proc, call[p].pc = "write",
           Unchanged(call[p]), Apply(call[p])
    PROVE  /\ counter' \in CounterRow
           /\ effect' \in [Effect -> EffectRow]
           /\ evidence' \in [Effect -> EvidenceRow]
           /\ counter'.version = counter.version + 1
           /\ \A e \in Effect : RowInv(e)'
           /\ \A e \in Effect : evidence[e].tokens >= 1 => evidence'[e] = evidence[e]
           /\ WithinLargestGrant'
           /\ counter'.reserved > counter.reserved
                 => counter'.finalized + counter'.reserved <= counter'.plan.budget
           /\ counter'.plan.version >= counter.plan.version
  <1> DEFINE c == call[p]
             e == c.e
             next == NextEffect(c)
  <1>1. /\ c \in Call /\ CallInv(c) /\ e \in Effect
        /\ counter \in CounterRow
        /\ effect \in [Effect -> EffectRow] /\ evidence \in [Effect -> EvidenceRow]
        /\ \A x \in Effect : RowInv(x)
        /\ WithinLargestGrant
    BY DEF IInv, TypeOK, Call
  <1>2. /\ c.op \in {"reserve", "record", "settle"} /\ c.row \in EffectRow
        /\ c.seen \in CounterRow /\ c.tokens \in Nat /\ c.settlement \in Settlement
        /\ c.basis \in {"reported", "unknown_cost"} /\ c.plan \in Plan \cup {NoPlan}
    BY <1>1 DEF Call, Operation
  <1>3. c.seen = counter /\ Refusal(c, counter) = "none" /\ RowRead(c)
    BY <1>1 DEF CallInv, Fresh, Unchanged
  <1>4. /\ counter' = [NextCounts(c) EXCEPT !.version = c.seen.version + 1]
        /\ effect' = [effect EXCEPT ![e] = next]
        /\ evidence' = IF c.op = "record"
                       THEN [evidence EXCEPT ![e] = [tokens |-> c.tokens, basis |-> c.basis]]
                       ELSE evidence
    BY DEF Apply, NextCounter
  <1>5. /\ counter.version \in Nat /\ counter.reserved \in Nat
        /\ counter.finalized \in Nat /\ counter.cost \in Nat
        /\ counter.plan \in Plan \cup {NoPlan}
        /\ counter.plan.version \in Nat /\ c.row.tokens \in Nat
        /\ evidence[e].tokens \in Nat
    BY <1>1, <1>2, PlanAssumption DEF CounterRow, EffectRow, EvidenceRow, NoPlan
  <1>6. CASE c.op = "reserve"
    <2>1. c.plan \in Plan /\ c.tokens >= 1 /\ c.plan.version \in Nat /\ c.plan.budget \in Nat
      BY <1>1, <1>6, PlanAssumption DEF CallInv
    <2>2. /\ counter.finalized + counter.reserved + c.tokens <= c.plan.budget
          /\ c.plan.version >= counter.plan.version
      BY <1>3, <1>5, <1>6, <2>1, <1>2 DEF Refusal, ReserveRefusal
    <2>3. counter' = [version |-> counter.version + 1, plan |-> c.plan,
                      reserved |-> counter.reserved + c.tokens,
                      finalized |-> counter.finalized, cost |-> counter.cost]
      BY <1>1, <1>3, <1>4, <1>6 DEF NextCounts, CounterRow
    <2>4. next = [state |-> "reserved", version |-> 1, plan |-> c.plan,
                  tokens |-> c.tokens, settlement |-> "none"]
      BY <1>6 DEF NextEffect
    <2>5. next \in EffectRow
      BY <1>2, <2>4 DEF EffectRow
    <2>6. evidence' = evidence
      BY <1>4, <1>6
    <2>7. \A x \in Effect : RowInv(x)'
      BY <1>1, <1>4, <2>1, <2>4, <2>6 DEF RowInv
    <2>8. counter' \in CounterRow
      BY <1>2, <1>5, <2>3 DEF CounterRow
    <2>9. effect' \in [Effect -> EffectRow]
      BY <1>1, <1>4, <2>5
    <2> HIDE DEF c, e, next
    <2>10. WithinLargestGrant'
      BY <1>5, <1>2, <2>1, <2>2, <2>3 DEF WithinLargestGrant
    <2> QED BY <1>1, <1>2, <1>5, <2>1, <2>2, <2>3, <2>6, <2>7, <2>8, <2>9, <2>10
  <1>7. CASE c.op = "record"
    <2>1. c.tokens >= 1 /\ evidence[e].tokens = 0 /\ c.row.state = "reserved"
          /\ c.row.tokens >= 1
      BY <1>1, <1>3, <1>7 DEF CallInv, Unchanged, RowRead
    <2>3. counter' = [version |-> counter.version + 1, plan |-> counter.plan,
                      reserved |-> counter.reserved, finalized |-> counter.finalized,
                      cost |-> counter.cost + c.tokens]
      BY <1>1, <1>3, <1>4, <1>7 DEF NextCounts, CounterRow
    <2>4. next = [c.row EXCEPT !.state = "observed", !.version = c.row.version + 1]
      BY <1>7 DEF NextEffect
    <2>5. next \in EffectRow /\ next.tokens = c.row.tokens /\ next.state = "observed"
      <3>1. PICK w \in EffectRow : w = c.row
        BY <1>2
      <3>2. next = [w EXCEPT !.state = "observed", !.version = w.version + 1]
        BY <2>4, <3>1
      <3> HIDE DEF c, next
      <3>3. PICK n \in Nat : n = w.version + 1
        BY DEF EffectRow
      <3>4. next \in EffectRow
        BY <3>2, <3>3 DEF EffectRow
      <3>5. next.tokens = w.tokens /\ next.state = "observed"
        BY <3>2 DEF EffectRow
      <3> QED BY <3>1, <3>4, <3>5
    <2>6. evidence' = [evidence EXCEPT ![e] = [tokens |-> c.tokens, basis |-> c.basis]]
      BY <1>4, <1>7
    <2>6a. evidence' \in [Effect -> EvidenceRow]
      BY <1>1, <1>2, <2>6 DEF EvidenceRow
    <2>7. ASSUME NEW x \in Effect PROVE RowInv(x)'
      <3>1. CASE x = e
        <4>1. effect'[x] = next /\ evidence'[x].tokens = c.tokens
          BY <1>1, <1>4, <2>6, <3>1
        <4> HIDE DEF c, e, next
        <4> QED BY <2>1, <2>5, <4>1 DEF RowInv
      <3>2. CASE x # e
        <4>1. effect'[x] = effect[x] /\ evidence'[x] = evidence[x]
          BY <1>1, <1>4, <2>6, <3>2
        <4> QED BY <1>1, <4>1 DEF RowInv
      <3> QED BY <3>1, <3>2
    <2>8. counter' \in CounterRow
      BY <1>2, <1>5, <2>3 DEF CounterRow
    <2>9. effect' \in [Effect -> EffectRow]
      BY <1>1, <1>4, <2>5
    <2>10. \A x \in Effect : evidence[x].tokens >= 1 => evidence'[x] = evidence[x]
      BY <1>1, <2>1, <2>6
    <2> HIDE DEF c, e, next
    <2>11. WithinLargestGrant'
      BY <1>1, <2>3 DEF WithinLargestGrant
    <2> QED BY <1>5, <2>3, <2>6a, <2>7, <2>8, <2>9, <2>10, <2>11
  <1>8. CASE c.op = "settle"
    <2>1. /\ evidence[e].tokens >= 1 /\ c.row.state = "observed" /\ c.row.tokens >= 1
          /\ counter.reserved >= c.row.tokens
          /\ c.settlement = "delivered" => evidence[e].tokens <= c.row.tokens
      BY <1>3, <1>5, <1>8 DEF RowRead, Refusal, SettleRefusal
    <2>2. PICK n \in Nat : /\ n = IF c.settlement = "delivered"
                                   THEN evidence[e].tokens ELSE 0
                           /\ n <= c.row.tokens
      BY <1>5, <2>1
    <2>3. counter' = [version |-> counter.version + 1, plan |-> counter.plan,
                      reserved |-> counter.reserved - c.row.tokens,
                      finalized |-> counter.finalized + n, cost |-> counter.cost]
      BY <1>1, <1>3, <1>4, <1>8, <2>2 DEF NextCounts, CounterRow
    <2>4. next = [c.row EXCEPT !.state = IF c.settlement = "delivered"
                                         THEN "finalized" ELSE "restored",
                               !.version = c.row.version + 1, !.settlement = c.settlement]
      BY <1>8 DEF NextEffect
    <2>5. next \in EffectRow /\ next.tokens = c.row.tokens
      <3>1. PICK w \in EffectRow, t \in Settlement, x \in {"finalized", "restored"} :
               /\ w = c.row /\ t = c.settlement
               /\ x = IF c.settlement = "delivered" THEN "finalized" ELSE "restored"
        BY <1>2
      <3>2. next = [w EXCEPT !.state = x, !.version = w.version + 1, !.settlement = t]
        BY <2>4, <3>1
      <3> HIDE DEF c, next
      <3>3. PICK v \in Nat : v = w.version + 1
        BY DEF EffectRow
      <3>4. next \in EffectRow
        BY <3>2, <3>3 DEF EffectRow
      <3>5. next.tokens = w.tokens
        BY <3>2 DEF EffectRow
      <3> QED BY <3>1, <3>4, <3>5
    <2>6. evidence' = evidence
      BY <1>4, <1>8
    <2>7. ASSUME NEW x \in Effect PROVE RowInv(x)'
      <3>1. CASE x = e
        <4>1. effect'[x] = next /\ evidence'[x] = evidence[e]
          BY <1>1, <1>4, <2>6, <3>1
        <4> HIDE DEF c, e, next
        <4> QED BY <2>1, <2>5, <4>1 DEF RowInv
      <3>2. CASE x # e
        <4>1. effect'[x] = effect[x] /\ evidence'[x] = evidence[x]
          BY <1>1, <1>4, <2>6, <3>2
        <4> QED BY <1>1, <4>1 DEF RowInv
      <3> QED BY <3>1, <3>2
    <2>8. counter' \in CounterRow
      BY <1>2, <1>5, <2>1, <2>3 DEF CounterRow
    <2>9. effect' \in [Effect -> EffectRow]
      BY <1>1, <1>4, <2>5
    <2> HIDE DEF c, e, next
    <2>10. WithinLargestGrant'
      <3>1. counter'.finalized + counter'.reserved <= counter.finalized + counter.reserved
            /\ counter'.finalized + counter'.reserved \in Nat
        BY <1>5, <2>1, <2>2, <2>3
      <3>2. \A pl \in Plan : pl.budget \in Nat
        BY PlanAssumption
      <3> QED BY <1>1, <1>5, <3>1, <3>2 DEF WithinLargestGrant
    <2> QED BY <1>1, <1>5, <2>1, <2>3, <2>6, <2>7, <2>8, <2>9, <2>10
  <1> QED BY <1>2, <1>6, <1>7, <1>8

\* What another caller knows survives a write: the version it read is overtaken,
\* and the evidence its test looked at does not change any more.
LEMMA Overtaken ==
    ASSUME NEW c \in Call, CallInv(c), counter \in CounterRow,
           evidence \in [Effect -> EvidenceRow],
           counter'.version = counter.version + 1,
           \A e \in Effect : evidence[e].tokens >= 1 => evidence'[e] = evidence[e]
    PROVE  /\ c.op = "reserve" /\ c.pc \notin {"idle", "release"}
                 => c.plan \in Plan /\ c.tokens >= 1
           /\ c.op = "record" => c.tokens >= 1
           /\ c.pc \in {"counter", "write"} =>
                 /\ c.op = "reserve" => c.row.state = "absent"
                 /\ c.op = "record" => c.row.state = "reserved" /\ c.row.tokens >= 1
                 /\ c.op = "settle" => /\ c.row.state = "observed" /\ c.row.tokens >= 1
                                       /\ evidence'[c.e].tokens >= 1
           /\ c.pc = "write" =>
                 /\ c.seen.version <= counter'.version
                 /\ c.seen.version # counter'.version
                 /\ Refusal(c, c.seen)' = "none"
  <1>1. c.e \in Effect /\ c.op \in {"reserve", "record", "settle"}
        /\ c.seen.version \in Nat /\ counter.version \in Nat
    BY DEF Call, Operation, CounterRow
  <1>2. ASSUME c.pc \in {"counter", "write"} PROVE RowRead(c)
    BY <1>2 DEF CallInv
  <1>3. ASSUME c.pc = "write" PROVE Fresh(c)
    BY <1>3 DEF CallInv
  <1>4. ASSUME c.pc = "write" PROVE Refusal(c, c.seen)' = "none"
    <2>1. c.op = "settle" => evidence'[c.e] = evidence[c.e]
      BY <1>1, <1>2, <1>4 DEF RowRead
    <2> QED BY <1>1, <1>3, <1>4, <2>1
            DEF Fresh, Refusal, ReserveRefusal, SettleRefusal
  <1>5. ASSUME c.pc = "write"
        PROVE  c.seen.version <= counter'.version /\ c.seen.version # counter'.version
    BY <1>1, <1>3, <1>5 DEF Fresh
  <1>6. ASSUME c.pc \in {"counter", "write"}, c.op = "settle"
        PROVE  evidence'[c.e].tokens >= 1
    BY <1>1, <1>2, <1>6 DEF RowRead
  <1> QED BY <1>2, <1>4, <1>5, <1>6 DEF CallInv, RowRead

\* The writer is idle afterwards, or waits to read, or settles what it released.
LEMMA WriterAfter ==
    ASSUME NEW c \in Call, c.pc = "write", CallInv(c),
           NEW d, \/ d = Outcome(c, Written(c))
                  \/ d = [Forget(c) EXCEPT !.pc = "reread"]
    PROVE  /\ d \in Call
           /\ d.pc \in {"idle", "effect", "reread"}
           /\ d.op = "reserve" /\ d.pc # "idle" => d.plan \in Plan /\ d.tokens >= 1
           /\ d.op = "record" => d.tokens >= 1
  <1>1. CASE d = Outcome(c, Written(c))
    <2>1. Written(c) \in Disposition
      BY DEF Call, Operation, Written, Disposition
    <2> QED BY <1>1, <2>1, OutcomeType
  <1>2. CASE d = [Forget(c) EXCEPT !.pc = "reread"]
    <2>1. PICK f \in Call : f = Forget(c)
      BY ForgetType
    <2>2. d = [f EXCEPT !.pc = "reread"]
      BY <1>2, <2>1
    <2>3. /\ d \in Call /\ d.pc = "reread" /\ d.op = f.op
          /\ d.plan = f.plan /\ d.tokens = f.tokens
      BY <2>2 DEF Call
    <2>4. d.op = c.op /\ d.plan = c.plan /\ d.tokens = c.tokens
      BY <2>1, <2>3, ForgetType
    <2> QED BY <2>3, <2>4 DEF CallInv
  <1> QED BY <1>1, <1>2

\* A transaction that is applied keeps the invariant, whether or not the caller
\* hears of it.
LEMMA ApplyStep ==
    ASSUME IInv, NEW p \in Proc, Write(p) \/ WriteAnswerLost(p)
    PROVE  IInv'
  <1>1. /\ call[p].pc = "write" /\ Unchanged(call[p]) /\ Apply(call[p])
        /\ active' = active
    BY DEF Write, WriteAnswerLost
  <1>2. /\ counter' \in CounterRow
        /\ effect' \in [Effect -> EffectRow]
        /\ evidence' \in [Effect -> EvidenceRow]
        /\ counter'.version = counter.version + 1
        /\ \A e \in Effect : RowInv(e)'
        /\ \A e \in Effect : evidence[e].tokens >= 1 => evidence'[e] = evidence[e]
        /\ WithinLargestGrant'
    BY <1>1, ApplyRows
  <1>3. PICK d : /\ call' = [call EXCEPT ![p] = d]
                 /\ \/ d = Outcome(call[p], Written(call[p]))
                    \/ d = [Forget(call[p]) EXCEPT !.pc = "reread"]
    BY DEF Write, WriteAnswerLost, Return, AwaitReread
  <1>4. call[p] \in Call /\ CallInv(call[p])
    BY DEF IInv, TypeOK
  <1>5. /\ d \in Call
        /\ d.pc \in {"idle", "effect", "reread"}
        /\ d.op = "reserve" /\ d.pc # "idle" => d.plan \in Plan /\ d.tokens >= 1
        /\ d.op = "record" => d.tokens >= 1
    BY <1>1, <1>3, <1>4, WriterAfter
  <1>6. TypeOK'
    BY <1>1, <1>2, <1>3, <1>5 DEF IInv, TypeOK
  <1>7. ASSUME NEW q \in Proc PROVE CallInv(call[q])'
    <2>1. CASE q = p
      <3>1. call'[q] = d
        BY <1>3, <2>1 DEF IInv, TypeOK
      <3> QED BY <1>5, <3>1 DEF CallInv
    <2>2. CASE q # p
      <3>1. PICK c \in Call : c = call[q] /\ c = call'[q]
        BY <1>3, <2>2 DEF IInv, TypeOK
      <3>2. CallInv(c) /\ counter \in CounterRow /\ evidence \in [Effect -> EvidenceRow]
        BY <3>1 DEF IInv, TypeOK
      <3>3. /\ c.op = "reserve" /\ c.pc \notin {"idle", "release"}
                 => c.plan \in Plan /\ c.tokens >= 1
            /\ c.op = "record" => c.tokens >= 1
            /\ c.pc \in {"counter", "write"} =>
                 /\ c.op = "reserve" => c.row.state = "absent"
                 /\ c.op = "record" => c.row.state = "reserved" /\ c.row.tokens >= 1
                 /\ c.op = "settle" => /\ c.row.state = "observed" /\ c.row.tokens >= 1
                                       /\ evidence'[c.e].tokens >= 1
            /\ c.pc = "write" =>
                 /\ c.seen.version <= counter'.version
                 /\ c.seen.version # counter'.version
                 /\ Refusal(c, c.seen)' = "none"
        BY <1>2, <3>2, Overtaken
      <3>4. CallInv(c)'
        BY <3>3 DEF CallInv, RowRead, Fresh
      <3> QED BY <3>1, <3>4
    <2> QED BY <2>1, <2>2
  <1> QED BY <1>2, <1>6, <1>7 DEF IInv

\* Taking the account's fence keeps the invariant.
LEMMA FenceStep ==
    ASSUME IInv, FenceAccount PROVE IInv'
  BY DEF FenceAccount, IInv, TypeOK, RowInv, CallInv, RowRead, Fresh, Refusal,
         ReserveRefusal, SettleRefusal, WithinLargestGrant

\* A step that changes nothing keeps the invariant.
LEMMA StutterStep ==
    ASSUME IInv, UNCHANGED vars PROVE IInv'
  BY DEF vars, IInv, TypeOK, RowInv, CallInv, RowRead, Fresh, Refusal,
         ReserveRefusal, SettleRefusal, WithinLargestGrant

\* The empty week satisfies the invariant.
LEMMA InitInv == Init => IInv
  <1> SUFFICES ASSUME Init PROVE IInv
    OBVIOUS
  <1>1. TypeOK
    BY IdleCallType DEF Init, TypeOK, NoCounter, CounterRow, NoEffect, EffectRow,
       NoEvidence, EvidenceRow, NoPlan
  <1>2. \A e \in Effect : RowInv(e)
    BY DEF Init, RowInv, NoEffect
  <1>3. \A p \in Proc : CallInv(call[p])
    BY IdleCallType DEF Init
  <1>4. WithinLargestGrant
    BY DEF Init, WithinLargestGrant, NoCounter
  <1> QED BY <1>1, <1>2, <1>3, <1>4 DEF IInv

\* Every step keeps the invariant.
LEMMA NextInv == IInv /\ [Next]_vars => IInv'
  <1> SUFFICES ASSUME IInv, [Next]_vars PROVE IInv'
    OBVIOUS
  <1>1. CASE FenceAccount
    BY <1>1, FenceStep
  <1>2. ASSUME NEW p \in Proc, CallStep(p) PROVE IInv'
    BY <1>2, CallsStep, ReleaseStep, EffectStep, CounterStep, ApplyStep, OtherSteps
       DEF CallStep
  <1>3. CASE UNCHANGED vars
    BY <1>3, StutterStep
  <1> QED BY <1>1, <1>2, <1>3 DEF Next
-----------------------------------------------------------------------------
\* The invariant the other theorems rest on: the rows have their types, and every
\* caller about to write holds a counter that passed its test and is either the
\* stored one or older (the optimistic loops of allowance_repo).
THEOREM Invariant == Spec => []IInv
  BY InitInv, NextInv, PTL DEF Spec

\* The rows and the calls keep their types; a counter never goes below zero, since
\* no settlement gives back more than the week holds (_complete_allowance).
THEOREM TypeCorrect == Spec => []TypeOK
  <1>1. IInv => TypeOK
    BY DEF IInv
  <1> QED BY <1>1, Invariant, PTL

\* Whatever the callers, the grants and their order, the week's use stays within
\* the largest grant of the week (reserve_allowance, _complete_allowance).
THEOREM BudgetHolds == Spec => []WithinLargestGrant
  <1>1. IInv => WithinLargestGrant
    BY DEF IInv
  <1> QED BY <1>1, Invariant, PTL

\* Only a transaction changes the counter.
LEMMA CounterChange ==
    ASSUME Next
    PROVE  \/ counter' = counter
           \/ \E p \in Proc : /\ call[p].pc = "write" /\ Unchanged(call[p])
                               /\ Apply(call[p])
  BY DEF Next, FenceAccount, CallStep, CallReserve, CallRecord, CallSettle, CallRelease,
         ReadForRelease, ReadEffect, ReadCounter, Write, WriteAnswerLost, WriteRefused,
         Reread, ReadUnavailable, Crash

\* No admission leaves the week above the budget it was admitted under, however
\* stale the counter it was tested on (reserve_allowance).
THEOREM AdmissionWithinBudget == Spec => AdmittedWithinBudget
  <1>1. ASSUME IInv, [Next]_vars
        PROVE  [counter'.reserved > counter.reserved =>
                  counter'.finalized + counter'.reserved <= counter'.plan.budget]_vars
    <2>1. CASE counter' = counter
      BY <1>1, <2>1 DEF IInv, TypeOK, CounterRow
    <2>2. CASE counter' # counter
      BY <1>1, <2>2, CounterChange, ApplyRows DEF vars
    <2> QED BY <2>1, <2>2
  <1> QED BY <1>1, Invariant, PTL DEF Spec, AdmittedWithinBudget

\* The week is never counted under an older grant than before, even by a
\* reservation that read the older one (reserve_allowance).
THEOREM GrantOrder == Spec => GrantNeverOlder
  <1>1. ASSUME IInv, [Next]_vars
        PROVE  [counter'.plan.version >= counter.plan.version]_vars
    <2>1. CASE counter' = counter
      <3>1. counter.plan.version \in Nat
        BY <1>1, PlanAssumption DEF IInv, TypeOK, CounterRow, NoPlan
      <3> QED BY <2>1, <3>1
    <2>2. CASE counter' # counter
      BY <1>1, <2>2, CounterChange, ApplyRows DEF vars
    <2> QED BY <2>1, <2>2
  <1> QED BY <1>1, Invariant, PTL DEF Spec, GrantNeverOlder
-----------------------------------------------------------------------------
(* What the rows a caller holds and the request it carries say of the      *)
(* stored rows, and so what an answer says.                                *)

\* The row an attempt read may be behind the stored one, but what was set aside
\* and under which plan does not change any more.
KeptRow(c) ==
    c.pc \in {"counter", "write"} /\ c.row.state # "absent"
       => /\ effect[c.e].state # "absent"
          /\ effect[c.e].tokens = c.row.tokens
          /\ effect[c.e].plan = c.row.plan

\* A reservation and a record carry a count that can be asked for; a release
\* records the count that was reserved.
AskedTokens(c) ==
    c.op \in {"reserve", "record"} /\ c.pc \notin {"idle", "release"} => c.tokens \in Tokens

\* A release settles at the unknown cost and nothing else.
ReleaseKnown(c) == c.release /\ c.op = "settle" => c.settlement = "unknown_cost"

CallFacts(c) == KeptRow(c) /\ AskedTokens(c) /\ ReleaseKnown(c)

EntryInv(e) ==
    /\ effect[e].state # "absent" => effect[e].tokens \in Tokens
    /\ effect[e].state \in {"absent", "reserved"} => evidence[e].tokens = 0

JInv ==
    /\ IInv
    /\ \A e \in Effect : EntryInv(e)
    /\ \A p \in Proc : CallFacts(call[p])

\* A caller that was told an outcome holds no row, and a release that goes on
\* settles at the unknown cost (release_unknown_cost).
LEMMA OutcomeFacts ==
    ASSUME NEW c \in Call, NEW d \in Disposition
    PROVE  CallFacts(Outcome(c, d))
  <1>1. \/ Outcome(c, d).pc = "idle" /\ ~Outcome(c, d).release
        \/ /\ Outcome(c, d).pc = "effect" /\ Outcome(c, d).op = "settle"
           /\ Outcome(c, d).settlement = "unknown_cost"
    <2> DEFINE cont == [Forget(c) EXCEPT !.op = "settle",
                          !.settlement = "unknown_cost", !.pc = "effect", !.tries = 0]
               end(x) == [IdleCall(c.e) EXCEPT !.out = x]
    <2>1. cont.pc = "effect" /\ cont.op = "settle" /\ cont.settlement = "unknown_cost"
      BY DEF Forget, Call
    <2>2. \A x : end(x).pc = "idle" /\ end(x).release = FALSE
      BY DEF IdleCall
    <2>3. \/ Outcome(c, d) = cont
          \/ \E x \in Disposition : Outcome(c, d) = end(x)
      BY DEF Outcome, Disposition
    <2> HIDE DEF cont, end
    <2> QED BY <2>1, <2>2, <2>3
  <1> QED BY <1>1 DEF CallFacts, KeptRow, AskedTokens, ReleaseKnown

\* An idle caller carries nothing.
LEMMA IdleFacts ==
    ASSUME NEW e PROVE CallFacts(IdleCall(e))
  BY DEF IdleCall, CallFacts, KeptRow, AskedTokens, ReleaseKnown

\* An attempt that is run again or waits to reread carries the same request.
LEMMA CarriedFacts ==
    ASSUME NEW c \in Call, CallFacts(c), NEW l \in {"effect", "reread"},
           c.pc \notin {"idle", "release"}, NEW n \in Nat,
           NEW d, d = [Forget(c) EXCEPT !.pc = l, !.tries = n]
    PROVE  CallFacts(d)
  <1>1. /\ d.pc = l /\ d.op = c.op /\ d.tokens = c.tokens /\ d.release = c.release
        /\ d.settlement = c.settlement
    BY DEF Forget, Call
  <1> QED BY <1>1 DEF CallFacts, KeptRow, AskedTokens, ReleaseKnown

\* What a caller carries after each of the calls.
LEMMA CallsFacts ==
    ASSUME JInv, NEW p \in Proc,
           CallReserve(p) \/ CallRecord(p) \/ CallSettle(p) \/ CallRelease(p)
    PROVE  \E d : call' = [call EXCEPT ![p] = d] /\ CallFacts(d)
  <1>1. CASE CallReserve(p)
    <2>1. PICK e \in Effect, pl \in Plan, n \in Tokens :
             LET c == [IdleCall(e) EXCEPT !.plan = pl, !.tokens = n, !.pc = "effect"]
             IN  call' = [call EXCEPT ![p] = IF n > pl.budget
                                             THEN Outcome(c, "limit_exceeded") ELSE c]
      BY <1>1 DEF CallReserve
    <2> DEFINE c == [IdleCall(e) EXCEPT !.plan = pl, !.tokens = n, !.pc = "effect"]
    <2>2. n \in Nat
      BY TokensAssumption
    <2>3. c \in Call
      BY <2>2 DEF IdleCall, Call, NoEffect, NoCounter, NoPlan, EffectRow, CounterRow,
                  Operation, Settlement, Disposition
    <2>4. CallFacts(Outcome(c, "limit_exceeded"))
      BY <2>3, OutcomeFacts DEF Disposition
    <2>5. CallFacts(c)
      BY DEF IdleCall, CallFacts, KeptRow, AskedTokens, ReleaseKnown
    <2> HIDE DEF c
    <2> QED BY <2>1, <2>4, <2>5 DEF c
  <1>2. CASE CallRecord(p)
    <2>1. PICK e \in Effect, n \in Tokens :
             call' = [call EXCEPT ![p] =
               [IdleCall(e) EXCEPT !.op = "record", !.tokens = n, !.pc = "effect"]]
      BY <1>2 DEF CallRecord
    <2> DEFINE c == [IdleCall(e) EXCEPT !.op = "record", !.tokens = n, !.pc = "effect"]
    <2>2. CallFacts(c)
      BY DEF IdleCall, CallFacts, KeptRow, AskedTokens, ReleaseKnown
    <2> HIDE DEF c
    <2> QED BY <2>1, <2>2 DEF c
  <1>3. CASE CallSettle(p)
    <2>1. PICK e \in Effect, s \in {"delivered", "unusable"} :
             call' = [call EXCEPT ![p] =
               [IdleCall(e) EXCEPT !.op = "settle", !.settlement = s, !.pc = "effect"]]
      BY <1>3 DEF CallSettle
    <2> DEFINE c == [IdleCall(e) EXCEPT !.op = "settle", !.settlement = s, !.pc = "effect"]
    <2>2. CallFacts(c)
      BY DEF IdleCall, CallFacts, KeptRow, AskedTokens, ReleaseKnown
    <2> HIDE DEF c
    <2> QED BY <2>1, <2>2 DEF c
  <1>4. CASE CallRelease(p)
    <2>1. PICK e \in Effect :
             call' = [call EXCEPT ![p] =
               [IdleCall(e) EXCEPT !.release = TRUE, !.pc = "release"]]
      BY <1>4 DEF CallRelease
    <2> DEFINE c == [IdleCall(e) EXCEPT !.release = TRUE, !.pc = "release"]
    <2>2. CallFacts(c)
      BY DEF IdleCall, CallFacts, KeptRow, AskedTokens, ReleaseKnown
    <2> HIDE DEF c
    <2> QED BY <2>1, <2>2 DEF c
  <1> QED BY <1>1, <1>2, <1>3, <1>4

\* What a caller carries after one of its reads.
LEMMA ReadFacts ==
    ASSUME JInv, NEW p \in Proc,
           ReadForRelease(p) \/ ReadEffect(p) \/ ReadCounter(p)
    PROVE  \E d : call' = [call EXCEPT ![p] = d] /\ CallFacts(d)
  <1> DEFINE c == call[p]
             row == effect[c.e]
  <1>1. /\ c \in Call /\ CallFacts(c) /\ row \in EffectRow /\ EntryInv(c.e)
        /\ counter \in CounterRow
    BY DEF JInv, IInv, TypeOK, Call
  <1>2. c.op \in {"reserve", "record", "settle"}
        /\ row.state \in {"absent", "reserved", "observed", "finalized", "restored"}
    BY <1>1 DEF Call, Operation, EffectRow
  <1>3. ASSUME NEW x \in Disposition, Return(p, x)
        PROVE  \E d : call' = [call EXCEPT ![p] = d] /\ CallFacts(d)
    BY <1>1, <1>3, OutcomeFacts DEF Return
  <1>4. CASE ReadForRelease(p)
    <2>1. CASE row.state = "absent" \/ Ended(row)
      <3>1. Return(p, "nothing_reserved") \/ Return(p, "already_settled")
        BY <1>2, <1>4, <2>1 DEF ReadForRelease, Return, Ended
      <3> HIDE DEF c, row
      <3> QED BY <1>3, <3>1 DEF Disposition
    <2>2. CASE row.state = "reserved"
      <3> DEFINE d == [c EXCEPT !.pc = "effect", !.op = "record",
                                !.tokens = row.tokens, !.basis = "unknown_cost"]
      <3>1. call' = [call EXCEPT ![p] = d]
        BY <1>4, <2>2 DEF ReadForRelease, Ended
      <3>2. d.pc = "effect" /\ d.op = "record" /\ d.tokens = row.tokens
        BY <1>1 DEF Call
      <3>3. row.tokens \in Tokens
        BY <1>1, <2>2 DEF EntryInv
      <3> HIDE DEF c, row, d
      <3> QED BY <3>1, <3>2, <3>3 DEF CallFacts, KeptRow, AskedTokens, ReleaseKnown
    <2>3. CASE row.state = "observed"
      <3> DEFINE d == [c EXCEPT !.pc = "effect", !.op = "settle",
                                !.settlement = "unknown_cost"]
      <3>1. call' = [call EXCEPT ![p] = d]
        BY <1>4, <2>3 DEF ReadForRelease, Ended
      <3>2. d.pc = "effect" /\ d.op = "settle" /\ d.settlement = "unknown_cost"
        BY <1>1 DEF Call
      <3> HIDE DEF c, row, d
      <3> QED BY <3>1, <3>2 DEF CallFacts, KeptRow, AskedTokens, ReleaseKnown
    <2> QED BY <1>2, <2>1, <2>2, <2>3 DEF Ended
  <1>5. CASE ReadEffect(p)
    <2> DEFINE d == [c EXCEPT !.row = row, !.pc = "counter"]
    <2>1. (\E x \in Disposition : Return(p, x)) \/ call' = [call EXCEPT ![p] = d]
      <3>1. SameReservation(row, c) \in BOOLEAN /\ SameEvidence(evidence[c.e], c) \in BOOLEAN
            /\ SameSettlement(row, c) \in BOOLEAN
        BY DEF SameReservation, SameEvidence, SameSettlement
      <3>2. CASE c.op = "reserve"
        BY <1>5, <3>1, <3>2, ClassifyType DEF ReadEffect
      <3>3. CASE c.op = "record"
        BY <1>5, <3>1, <3>3, ClassifyType DEF ReadEffect, Disposition
      <3>4. CASE c.op = "settle"
        BY <1>5, <3>1, <3>4, ClassifyType DEF ReadEffect, Disposition
      <3> QED BY <1>2, <3>2, <3>3, <3>4
    <2>2. /\ d.pc = "counter" /\ d.row = row /\ d.op = c.op /\ d.e = c.e
          /\ d.tokens = c.tokens /\ d.release = c.release /\ d.settlement = c.settlement
          /\ c.pc = "effect"
      BY <1>1, <1>5 DEF Call, ReadEffect
    <2> HIDE DEF d
    <2>3. KeptRow(d)
      BY <2>2 DEF KeptRow
    <2>4. AskedTokens(d) /\ ReleaseKnown(d)
      <3> HIDE DEF c, row
      <3> QED BY <1>1, <2>2 DEF CallFacts, AskedTokens, ReleaseKnown
    <2> QED BY <1>3, <2>1, <2>3, <2>4 DEF CallFacts
  <1>6. CASE ReadCounter(p)
    <2> DEFINE d == [c EXCEPT !.seen = counter, !.pc = "write"]
    <2>1. Return(p, Refusal(c, counter)) \/ call' = [call EXCEPT ![p] = d]
      BY <1>6 DEF ReadCounter
    <2>2. /\ d.pc = "write" /\ d.row = c.row /\ d.op = c.op /\ d.e = c.e
          /\ d.tokens = c.tokens /\ d.release = c.release /\ d.settlement = c.settlement
          /\ c.pc = "counter"
      BY <1>1, <1>6 DEF Call, ReadCounter
    <2>3. Refusal(c, counter) \in Disposition
      BY <1>1, RefusalType
    <2> HIDE DEF c, row, d
    <2>4. CallFacts(d)
      BY <1>1, <2>2 DEF CallFacts, KeptRow, AskedTokens, ReleaseKnown
    <2> QED BY <1>3, <2>1, <2>3, <2>4
  <1> QED BY <1>4, <1>5, <1>6

\* What a caller carries after a write, applied or not, and after the steps that
\* end or repeat an attempt: no row, and the request it had.
LEMMA WrittenFacts ==
    ASSUME JInv, NEW p \in Proc,
           \/ Write(p) \/ WriteAnswerLost(p) \/ WriteRefused(p) \/ Reread(p)
           \/ ReadUnavailable(p) \/ Crash(p)
    PROVE  \E d : /\ call' = [call EXCEPT ![p] = d]
                  /\ CallFacts(d) /\ d.pc \notin {"counter", "write"}
  <1> DEFINE c == call[p]
  <1>1. c \in Call /\ CallFacts(c)
    BY DEF JInv, IInv, TypeOK
  <1>2. c.op \in {"reserve", "record", "settle"} /\ c.tries \in Nat
    BY <1>1 DEF Call, Operation
  <1>3. ASSUME NEW x \in Disposition, Return(p, x)
        PROVE  \E d : /\ call' = [call EXCEPT ![p] = d]
                      /\ CallFacts(d) /\ d.pc \notin {"counter", "write"}
    <2>1. Outcome(c, x).pc \in {"idle", "effect"}
      BY <1>1, OutcomeType
    <2> QED BY <1>1, <1>3, <2>1, OutcomeFacts DEF Return
  <1>4. ASSUME c.pc = "write", AwaitReread(p)
        PROVE  \E d : /\ call' = [call EXCEPT ![p] = d]
                      /\ CallFacts(d) /\ d.pc \notin {"counter", "write"}
    <2> DEFINE d == [Forget(c) EXCEPT !.pc = "reread"]
    <2>1. call' = [call EXCEPT ![p] = d]
      BY <1>4 DEF AwaitReread
    <2>2. d = [Forget(c) EXCEPT !.pc = "reread", !.tries = c.tries]
      BY <1>1 DEF Forget, Call
    <2>3. d.pc = "reread"
      BY <1>1 DEF Forget, Call
    <2> HIDE DEF c, d
    <2>4. CallFacts(d)
      BY <1>1, <1>2, <1>4, <2>2, CarriedFacts
    <2> QED BY <2>1, <2>3, <2>4
  <1>5. CASE Write(p)
    <2>1. Written(c) \in Disposition /\ Return(p, Written(c))
      BY <1>2, <1>5 DEF Write, Written, Disposition
    <2> HIDE DEF c
    <2> QED BY <1>3, <2>1
  <1>6. CASE WriteAnswerLost(p) \/ WriteRefused(p)
    BY <1>4, <1>6 DEF WriteAnswerLost, WriteRefused
  <1>7. CASE Reread(p)
    <2>1. Retry(p) \/ \E b \in BOOLEAN : Return(p, Classify(b))
      <3>1. SameReservation(effect[c.e], c) \in BOOLEAN
            /\ SameEvidence(evidence[c.e], c) \in BOOLEAN
            /\ SameSettlement(effect[c.e], c) \in BOOLEAN
        BY DEF SameReservation, SameEvidence, SameSettlement
      <3> QED BY <1>2, <1>7, <3>1 DEF Reread
    <2>2. CASE Retry(p)
      <3>1. \/ call' = [call EXCEPT ![p] = Again(c)]
            \/ Return(p, "retryable")
        BY <2>2 DEF Retry
      <3>2. c.pc = "reread" /\ c.tries + 1 \in Nat
        BY <1>2, <1>7 DEF Reread
      <3>3. Again(c).pc = "effect"
        BY <1>1, AgainType
      <3> HIDE DEF c
      <3>4. CallFacts(Again(c))
        BY <1>1, <3>2, CarriedFacts DEF Again
      <3> QED BY <1>3, <3>1, <3>3, <3>4 DEF Disposition
    <2> QED BY <1>3, <2>1, <2>2, ClassifyType
  <1>8. CASE ReadUnavailable(p)
    BY <1>3, <1>8 DEF ReadUnavailable, Disposition
  <1>9. CASE Crash(p)
    <2>1. IdleCall(c.e).pc = "idle"
      BY DEF IdleCall
    <2> QED BY <1>9, <2>1, IdleFacts DEF Crash
  <1> QED BY <1>5, <1>6, <1>7, <1>8, <1>9

\* What an applied transaction does to the effect, its evidence and the counts of
\* the week, by operation.
AppliesReserve(c) ==
    /\ c.op = "reserve"
    /\ c.plan \in Plan /\ c.tokens \in Tokens
    /\ c.plan.version >= counter.plan.version
    /\ counter.finalized + counter.reserved + c.tokens <= c.plan.budget
    /\ effect[c.e].state = "absent" /\ effect'[c.e].state = "reserved"
    /\ effect'[c.e].tokens = c.tokens /\ effect'[c.e].plan = c.plan
    /\ evidence'[c.e] = evidence[c.e]
    /\ counter'.plan = c.plan /\ counter'.reserved = counter.reserved + c.tokens
    /\ counter'.finalized = counter.finalized /\ counter'.cost = counter.cost

AppliesRecord(c) ==
    /\ c.op = "record"
    /\ c.tokens \in Tokens
    /\ effect[c.e].state = "reserved" /\ effect'[c.e].state = "observed"
    /\ effect'[c.e].tokens = effect[c.e].tokens /\ effect'[c.e].plan = effect[c.e].plan
    /\ evidence[c.e].tokens = 0
    /\ evidence'[c.e] = [tokens |-> c.tokens, basis |-> c.basis]
    /\ counter'.plan = counter.plan /\ counter'.reserved = counter.reserved
    /\ counter'.finalized = counter.finalized
    /\ counter'.cost = counter.cost + c.tokens

AppliesSettle(c) ==
    /\ c.op = "settle"
    /\ effect[c.e].state = "observed"
    /\ effect'[c.e].state = IF c.settlement = "delivered" THEN "finalized" ELSE "restored"
    /\ effect'[c.e].settlement = c.settlement
    /\ effect'[c.e].tokens = effect[c.e].tokens /\ effect'[c.e].plan = effect[c.e].plan
    /\ c.settlement = "delivered" => evidence[c.e].tokens <= effect[c.e].tokens
    /\ evidence'[c.e] = evidence[c.e]
    /\ counter'.plan = counter.plan
    /\ counter'.reserved = counter.reserved - effect[c.e].tokens
    /\ counter'.finalized = counter.finalized + IF c.settlement = "delivered"
                                                THEN evidence[c.e].tokens ELSE 0
    /\ counter'.cost = counter.cost

\* An applied transaction does one of the three to its own effect, and leaves the
\* rows of every other effect alone (_complete_allowance, _record_usage).
LEMMA Applied ==
    ASSUME JInv, NEW p \in Proc, call[p].pc = "write",
           Unchanged(call[p]), Apply(call[p])
    PROVE  /\ AppliesReserve(call[p]) \/ AppliesRecord(call[p]) \/ AppliesSettle(call[p])
           /\ \A x \in Effect : x # call[p].e =>
                 effect'[x] = effect[x] /\ evidence'[x] = evidence[x]
  <1> DEFINE c == call[p]
             e == c.e
             next == NextEffect(c)
  <1>1. /\ c \in Call /\ CallInv(c) /\ CallFacts(c) /\ e \in Effect
        /\ counter \in CounterRow
        /\ effect \in [Effect -> EffectRow] /\ evidence \in [Effect -> EvidenceRow]
    BY DEF JInv, IInv, TypeOK, Call
  <1>2. /\ c.op \in {"reserve", "record", "settle"} /\ c.row \in EffectRow
        /\ c.plan \in Plan \cup {NoPlan} /\ c.settlement \in Settlement
    BY <1>1 DEF Call, Operation
  <1>3. c.seen = counter /\ Refusal(c, counter) = "none" /\ RowRead(c)
    BY <1>1 DEF CallInv, Fresh, Unchanged
  <1>4. /\ counter' = [NextCounts(c) EXCEPT !.version = c.seen.version + 1]
        /\ effect' = [effect EXCEPT ![e] = next]
        /\ evidence' = IF c.op = "record"
                       THEN [evidence EXCEPT ![e] = [tokens |-> c.tokens, basis |-> c.basis]]
                       ELSE evidence
    BY DEF Apply, NextCounter
  <1>5. effect'[e] = next /\ effect[e].state = c.row.state
    BY <1>1, <1>4 DEF Unchanged
  <1>6. /\ counter.version \in Nat /\ counter.reserved \in Nat
        /\ counter.finalized \in Nat /\ counter.cost \in Nat
        /\ counter.plan \in Plan \cup {NoPlan}
        /\ counter.plan.version \in Nat /\ c.row.tokens \in Nat
        /\ evidence[e].tokens \in Nat
    BY <1>1, <1>2, PlanAssumption DEF CounterRow, EffectRow, EvidenceRow, NoPlan
  <1>7. c.row.state # "absent"
          => effect[e].tokens = c.row.tokens /\ effect[e].plan = c.row.plan
    BY <1>1 DEF CallFacts, KeptRow
  <1>8. CASE c.op = "reserve"
    <2>1. c.plan \in Plan /\ c.plan.version \in Nat /\ c.plan.budget \in Nat
      BY <1>1, <1>8, PlanAssumption DEF CallInv
    <2>2. c.tokens \in Tokens /\ c.tokens \in Nat
      BY <1>1, <1>8, TokensAssumption DEF CallFacts, AskedTokens
    <2>3. /\ counter.finalized + counter.reserved + c.tokens <= c.plan.budget
          /\ c.plan.version >= counter.plan.version
      BY <1>3, <1>6, <1>8, <2>1, <2>2 DEF Refusal, ReserveRefusal
    <2>4. counter' = [version |-> counter.version + 1, plan |-> c.plan,
                      reserved |-> counter.reserved + c.tokens,
                      finalized |-> counter.finalized, cost |-> counter.cost]
      BY <1>1, <1>3, <1>4, <1>8 DEF NextCounts, CounterRow
    <2>5. next = [state |-> "reserved", version |-> 1, plan |-> c.plan,
                  tokens |-> c.tokens, settlement |-> "none"]
      BY <1>8 DEF NextEffect
    <2>6. evidence' = evidence /\ c.row.state = "absent"
      BY <1>3, <1>4, <1>8 DEF RowRead
    <2>7. AppliesReserve(c)
      <3> HIDE DEF next, c
      <3> QED BY <1>5, <1>8, <2>1, <2>2, <2>3, <2>4, <2>5, <2>6 DEF AppliesReserve
    <2>8. \A x \in Effect : x # e => effect'[x] = effect[x] /\ evidence'[x] = evidence[x]
      <3> HIDE DEF next, c
      <3> QED BY <1>1, <1>4, <2>6
    <2> QED BY <2>7, <2>8
  <1>9. CASE c.op = "record"
    <2>1. c.tokens \in Tokens /\ evidence[e].tokens = 0 /\ c.row.state = "reserved"
      BY <1>1, <1>3, <1>9 DEF CallFacts, AskedTokens, Unchanged, RowRead
    <2>2. counter' = [version |-> counter.version + 1, plan |-> counter.plan,
                      reserved |-> counter.reserved, finalized |-> counter.finalized,
                      cost |-> counter.cost + c.tokens]
      BY <1>1, <1>3, <1>4, <1>9 DEF NextCounts, CounterRow
    <2>3. next = [c.row EXCEPT !.state = "observed", !.version = c.row.version + 1]
      BY <1>9 DEF NextEffect
    <2>4. next.state = "observed" /\ next.tokens = c.row.tokens /\ next.plan = c.row.plan
      BY <1>2, <2>3 DEF EffectRow
    <2>5. evidence' = [evidence EXCEPT ![e] = [tokens |-> c.tokens, basis |-> c.basis]]
      BY <1>4, <1>9
    <2>6. AppliesRecord(c)
      <3>1. evidence'[e] = [tokens |-> c.tokens, basis |-> c.basis]
        BY <1>1, <2>5
      <3> HIDE DEF next, c
      <3> QED BY <1>5, <1>7, <1>9, <2>1, <2>2, <2>4, <3>1 DEF AppliesRecord
    <2>7. \A x \in Effect : x # e => effect'[x] = effect[x] /\ evidence'[x] = evidence[x]
      <3> HIDE DEF next, c
      <3> QED BY <1>1, <1>4, <2>5
    <2> QED BY <2>6, <2>7
  <1>10. CASE c.op = "settle"
    <2>1. /\ c.row.state = "observed"
          /\ c.settlement = "delivered" => evidence[e].tokens <= c.row.tokens
      BY <1>3, <1>6, <1>10 DEF RowRead, Refusal, SettleRefusal
    <2>2. PICK n \in Nat : n = IF c.settlement = "delivered" THEN evidence[e].tokens ELSE 0
      BY <1>6
    <2>3. counter' = [version |-> counter.version + 1, plan |-> counter.plan,
                      reserved |-> counter.reserved - c.row.tokens,
                      finalized |-> counter.finalized + n, cost |-> counter.cost]
      BY <1>1, <1>3, <1>4, <1>10, <2>2 DEF NextCounts, CounterRow
    <2>4. next = [c.row EXCEPT !.state = IF c.settlement = "delivered"
                                         THEN "finalized" ELSE "restored",
                               !.version = c.row.version + 1, !.settlement = c.settlement]
      BY <1>10 DEF NextEffect
    <2>5. /\ next.state = IF c.settlement = "delivered" THEN "finalized" ELSE "restored"
          /\ next.tokens = c.row.tokens /\ next.plan = c.row.plan
          /\ next.settlement = c.settlement
      BY <1>2, <2>4 DEF EffectRow
    <2>6. evidence' = evidence
      BY <1>4, <1>10
    <2>7. AppliesSettle(c)
      <3> HIDE DEF next, c
      <3> QED BY <1>5, <1>7, <1>10, <2>1, <2>2, <2>3, <2>5, <2>6 DEF AppliesSettle
    <2>8. \A x \in Effect : x # e => effect'[x] = effect[x] /\ evidence'[x] = evidence[x]
      <3> HIDE DEF next, c
      <3> QED BY <1>1, <1>4, <2>6
    <2> QED BY <2>7, <2>8
  <1> QED BY <1>2, <1>8, <1>9, <1>10

\* A step of one caller that leaves the rows alone keeps what the calls carry.
LEMMA CarryStep ==
    ASSUME JInv, IInv', NEW p \in Proc, NEW d, CallFacts(d),
           call' = [call EXCEPT ![p] = d], UNCHANGED <<effect, evidence>>
    PROVE  JInv'
  <1>1. \A e \in Effect : EntryInv(e)'
    BY DEF JInv, EntryInv
  <1>2. ASSUME NEW q \in Proc PROVE CallFacts(call[q])'
    <2>1. CallFacts(call'[q])
      BY DEF JInv, IInv, TypeOK
    <2> QED BY <2>1 DEF CallFacts, KeptRow, AskedTokens, ReleaseKnown
  <1> QED BY <1>1, <1>2 DEF JInv

\* A transaction that is applied keeps what the calls carry: the row a caller holds
\* is of an effect that is no longer absent, and keeps what it set aside.
LEMMA CarryWrite ==
    ASSUME JInv, IInv', NEW p \in Proc, Write(p) \/ WriteAnswerLost(p)
    PROVE  JInv'
  <1>1. PICK d : /\ call' = [call EXCEPT ![p] = d]
                 /\ CallFacts(d) /\ d.pc \notin {"counter", "write"}
    BY WrittenFacts
  <1>2. PICK w \in Call : w = call[p]
    BY DEF JInv, IInv, TypeOK
  <1>3. /\ AppliesReserve(w) \/ AppliesRecord(w) \/ AppliesSettle(w)
        /\ \A x \in Effect : x # w.e =>
              effect'[x] = effect[x] /\ evidence'[x] = evidence[x]
    BY <1>2, Applied DEF Write, WriteAnswerLost
  <1>4. w.e \in Effect
    BY DEF Call
  <1>5. \A x \in Effect : effect[x].state # "absent" =>
           /\ effect'[x].state # "absent"
           /\ effect'[x].tokens = effect[x].tokens
           /\ effect'[x].plan = effect[x].plan
    BY <1>3, <1>4 DEF AppliesReserve, AppliesRecord, AppliesSettle
  <1>6. ASSUME NEW x \in Effect PROVE EntryInv(x)'
    <2>1. EntryInv(x)
      BY DEF JInv
    <2>2. CASE x = w.e
      BY <1>3, <2>1, <2>2
         DEF EntryInv, AppliesReserve, AppliesRecord, AppliesSettle
    <2>3. CASE x # w.e
      BY <1>3, <2>1, <2>3 DEF EntryInv
    <2> QED BY <2>2, <2>3
  <1>7. ASSUME NEW q \in Proc PROVE CallFacts(call[q])'
    <2>1. CASE q = p
      <3>1. call'[q] = d
        BY <1>1, <2>1 DEF JInv, IInv, TypeOK
      <3> QED BY <1>1, <3>1 DEF CallFacts, KeptRow, AskedTokens, ReleaseKnown
    <2>2. CASE q # p
      <3>1. PICK c \in Call : c = call[q] /\ c = call'[q]
        BY <1>1, <2>2 DEF JInv, IInv, TypeOK
      <3>2. CallFacts(c) /\ c.e \in Effect
        BY <3>1 DEF JInv, Call
      <3>3. KeptRow(c)'
        BY <1>5, <3>2 DEF CallFacts, KeptRow
      <3> QED BY <3>1, <3>2, <3>3 DEF CallFacts, AskedTokens, ReleaseKnown
    <2> QED BY <2>1, <2>2
  <1> QED BY <1>6, <1>7 DEF JInv

\* Every step keeps what the calls carry.
LEMMA NextCarries == JInv /\ [Next]_vars => JInv'
  <1> SUFFICES ASSUME JInv, [Next]_vars PROVE JInv'
    OBVIOUS
  <1>1. IInv'
    BY NextInv DEF JInv
  <1>2. CASE FenceAccount \/ UNCHANGED vars
    <2>1. UNCHANGED <<effect, evidence, call>>
      BY <1>2 DEF FenceAccount, vars
    <2> QED BY <1>1, <2>1
            DEF JInv, EntryInv, CallFacts, KeptRow, AskedTokens, ReleaseKnown
  <1>3. ASSUME NEW p \in Proc, CallStep(p) PROVE JInv'
    <2>1. CASE Write(p) \/ WriteAnswerLost(p)
      BY <1>1, <2>1, CarryWrite
    <2>2. CASE CallReserve(p) \/ CallRecord(p) \/ CallSettle(p) \/ CallRelease(p)
      <3>1. UNCHANGED <<effect, evidence>>
        BY <2>2 DEF CallReserve, CallRecord, CallSettle, CallRelease
      <3> QED BY <1>1, <2>2, <3>1, CallsFacts, CarryStep
    <2>3. CASE ReadForRelease(p) \/ ReadEffect(p) \/ ReadCounter(p)
      <3>1. UNCHANGED <<effect, evidence>>
        BY <2>3 DEF ReadForRelease, ReadEffect, ReadCounter
      <3> QED BY <1>1, <2>3, <3>1, ReadFacts, CarryStep
    <2>4. CASE WriteRefused(p) \/ Reread(p) \/ ReadUnavailable(p) \/ Crash(p)
      <3>1. UNCHANGED <<effect, evidence>>
        BY <2>4 DEF WriteRefused, Reread, ReadUnavailable, Crash
      <3> QED BY <1>1, <2>4, <3>1, WrittenFacts, CarryStep
    <2> QED BY <1>3, <2>1, <2>2, <2>3, <2>4 DEF CallStep
  <1> QED BY <1>2, <1>3 DEF Next

\* The empty week satisfies it.
LEMMA InitCarries == Init => JInv
  <1> SUFFICES ASSUME Init PROVE JInv
    OBVIOUS
  <1>1. IInv
    BY InitInv
  <1>2. \A e \in Effect : EntryInv(e)
    BY DEF Init, EntryInv, NoEffect, NoEvidence
  <1>3. \A p \in Proc : CallFacts(call[p])
    BY IdleFacts DEF Init
  <1> QED BY <1>1, <1>2, <1>3 DEF JInv

\* The row a caller holds may be old, but what it sets aside is what is stored, and
\* a release settles at the unknown cost and nothing else: what the answers and the
\* sums of the week rest on (the optimistic loops of allowance_repo).
THEOREM CallsCarry == Spec => []JInv
  BY InitCarries, NextCarries, PTL DEF Spec
-----------------------------------------------------------------------------
\* What AnswersHold asks of one answer, told to the caller that asked c.
Truthful(c, told) ==
    LET yes == told \in {"admitted", "recorded", "settled", "replayed"} IN
    /\ yes /\ c.op = "reserve" => SameReservation(effect'[c.e], c)
    /\ yes /\ c.op = "record" => SameEvidence(evidence'[c.e], c)
    /\ yes /\ c.op = "settle" => SameSettlement(effect'[c.e], c)
    /\ told = "released" => effect'[c.e].settlement = "unknown_cost"
    /\ told = "already_settled" => Ended(effect'[c.e])

\* A caller hears the outcome itself, or, of a release, what stands for it.
LEMMA OutcomeTold ==
    ASSUME NEW c \in Call, NEW d \in Disposition, Outcome(c, d).pc = "idle"
    PROVE  \/ Outcome(c, d).out = d
           \/ Outcome(c, d).out \in {"retryable", "invalid_state"}
           \/ /\ Outcome(c, d).out = "released"
              /\ c.release /\ c.op = "settle" /\ d \in {"settled", "replayed"}
  <1> DEFINE cont == [Forget(c) EXCEPT !.op = "settle",
                        !.settlement = "unknown_cost", !.pc = "effect", !.tries = 0]
             end(x) == [IdleCall(c.e) EXCEPT !.out = x]
  <1>1. cont.pc = "effect"
    BY DEF Forget, Call
  <1>2. \A x \in Disposition : end(x).out = x
    BY DEF IdleCall
  <1>3. \/ Outcome(c, d) = cont
        \/ Outcome(c, d) = end(d)
        \/ Outcome(c, d) = end("retryable")
        \/ Outcome(c, d) = end("invalid_state")
        \/ /\ Outcome(c, d) = end("released")
           /\ c.release /\ c.op = "settle" /\ d \in {"settled", "replayed"}
    BY DEF Outcome
  <1>4. {"retryable", "invalid_state", "released"} \subseteq Disposition
    BY DEF Disposition
  <1> HIDE DEF cont, end
  <1> QED BY <1>1, <1>2, <1>3, <1>4

\* If the outcome of an attempt is so, then so is what its caller hears.
LEMMA ReturnTold ==
    ASSUME JInv, NEW p \in Proc, NEW d \in Disposition, d # "released",
           Return(p, d), Truthful(call[p], d), call'[p].pc = "idle"
    PROVE  Truthful(call[p], call'[p].out)
  <1>1. PICK c \in Call : c = call[p] /\ ReleaseKnown(c)
    BY DEF JInv, IInv, TypeOK, CallFacts
  <1>2. call'[p] = Outcome(c, d)
    BY <1>1 DEF Return, JInv, IInv, TypeOK
  <1>3. CASE call'[p].out = d
    BY <1>3
  <1>4. CASE call'[p].out \in {"retryable", "invalid_state"}
    BY <1>4 DEF Truthful
  <1>5. CASE call'[p].out = "released" /\ c.release /\ c.op = "settle"
             /\ d \in {"settled", "replayed"}
    BY <1>1, <1>5 DEF Truthful, SameSettlement, ReleaseKnown
  <1> QED BY <1>1, <1>2, <1>3, <1>4, <1>5, OutcomeTold

\* A stored row answers a call only if it is what the call asks for.
LEMMA ClassifyTruth ==
    ASSUME NEW b \in BOOLEAN
    PROVE  /\ Classify(b) \in {"replayed", "conflict"}
           /\ Classify(b) = "replayed" => b
  BY DEF Classify

\* Each step of a caller that ends its call ends it with a true answer.
LEMMA StepTold ==
    ASSUME JInv, NEW p \in Proc, CallStep(p),
           call[p].pc # "idle", call'[p].pc = "idle"
    PROVE  Truthful(call[p], call'[p].out)
  <1>1. PICK c \in Call : c = call[p]
    BY DEF JInv, IInv, TypeOK
  <1>2. /\ c.op \in {"reserve", "record", "settle"} /\ c.e \in Effect
        /\ effect[c.e] \in EffectRow
    BY DEF Call, Operation, JInv, IInv, TypeOK
  <1>3. effect[c.e].state \in {"absent", "reserved", "observed", "finalized", "restored"}
    BY <1>2 DEF EffectRow
  <1>4. /\ SameReservation(effect[c.e], c) \in BOOLEAN
        /\ SameEvidence(evidence[c.e], c) \in BOOLEAN
        /\ SameSettlement(effect[c.e], c) \in BOOLEAN
    BY DEF SameReservation, SameEvidence, SameSettlement
  <1>5. ASSUME NEW d \in Disposition, d # "released", Return(p, d), Truthful(c, d)
        PROVE  Truthful(call[p], call'[p].out)
    BY <1>1, <1>5, ReturnTold
  <1>6. \A d \in {"none", "conflict", "limit_exceeded", "invalid_state", "retryable",
                  "nothing_reserved"} : Truthful(c, d) /\ d \in Disposition
    BY DEF Truthful, Disposition
  <1>7. ~ (CallReserve(p) \/ CallRecord(p) \/ CallSettle(p) \/ CallRelease(p))
    BY DEF CallReserve, CallRecord, CallSettle, CallRelease
  <1>8. CASE ReadForRelease(p)
    <2>1. effect' = effect
      BY <1>8 DEF ReadForRelease
    <2>2. CASE effect[c.e].state = "absent"
      <3>1. Return(p, "nothing_reserved")
        BY <1>1, <1>8, <2>2 DEF ReadForRelease, Return, Ended
      <3> QED BY <1>5, <1>6, <3>1
    <2>3. CASE Ended(effect[c.e])
      <3>1. Return(p, "already_settled")
        BY <1>1, <1>8, <2>3 DEF ReadForRelease, Return, Ended
      <3>2. Truthful(c, "already_settled")
        BY <2>1, <2>3 DEF Truthful
      <3> QED BY <1>5, <3>1, <3>2 DEF Disposition
    <2>4. CASE effect[c.e].state \in {"reserved", "observed"}
      <3>1. \/ call' = [call EXCEPT ![p] =
                   [c EXCEPT !.pc = "effect", !.op = "record",
                             !.tokens = effect[c.e].tokens, !.basis = "unknown_cost"]]
            \/ call' = [call EXCEPT ![p] =
                   [c EXCEPT !.pc = "effect", !.op = "settle",
                             !.settlement = "unknown_cost"]]
        <4>1. CASE effect[c.e].state = "reserved"
          BY <1>1, <1>8, <4>1 DEF ReadForRelease, Ended
        <4>2. CASE effect[c.e].state = "observed"
          BY <1>1, <1>8, <4>2 DEF ReadForRelease, Ended
        <4> QED BY <2>4, <4>1, <4>2
      <3>2. call'[p].pc = "effect"
        BY <3>1 DEF JInv, IInv, TypeOK, Call
      <3> QED BY <3>2
    <2> QED BY <1>3, <2>2, <2>3, <2>4 DEF Ended
  <1>9. CASE ReadEffect(p)
    <2>1. UNCHANGED <<effect, evidence>>
      BY <1>9 DEF ReadEffect
    <2>2. CASE call' = [call EXCEPT ![p].row = effect[c.e], ![p].pc = "counter"]
      BY <2>2 DEF JInv, IInv, TypeOK, Call
    <2>3. CASE Return(p, "invalid_state")
      BY <1>5, <1>6, <2>3
    <2>4. ASSUME NEW b \in BOOLEAN, Return(p, Classify(b)),
                 \/ c.op = "reserve" /\ (b => SameReservation(effect[c.e], c))
                 \/ c.op = "record" /\ (b => SameEvidence(evidence[c.e], c))
                 \/ c.op = "settle" /\ (b => SameSettlement(effect[c.e], c))
          PROVE  Truthful(call[p], call'[p].out)
      <3>1. CASE Classify(b) = "conflict"
        BY <1>5, <1>6, <2>4, <3>1
      <3>2. CASE Classify(b) = "replayed"
        <4>1. Truthful(c, "replayed")
          BY <2>1, <2>4, <3>2, ClassifyTruth DEF Truthful
        <4> QED BY <1>5, <2>4, <3>2, <4>1 DEF Disposition
      <3> QED BY <3>1, <3>2, ClassifyTruth
    <2>5. CASE c.op = "reserve"
      BY <1>1, <1>4, <1>9, <2>2, <2>4, <2>5 DEF ReadEffect
    <2>6. CASE c.op = "record"
      BY <1>1, <1>4, <1>9, <2>2, <2>3, <2>4, <2>6 DEF ReadEffect
    <2>7. CASE c.op = "settle"
      BY <1>1, <1>4, <1>9, <2>2, <2>3, <2>4, <2>7 DEF ReadEffect
    <2> QED BY <1>2, <2>5, <2>6, <2>7
  <1>10. CASE ReadCounter(p)
    <2>1. CASE call' = [call EXCEPT ![p].seen = counter, ![p].pc = "write"]
      BY <2>1 DEF JInv, IInv, TypeOK, Call
    <2>2. CASE Return(p, Refusal(c, counter)) /\ Refusal(c, counter) # "none"
      <3>1. Refusal(c, counter) \in {"limit_exceeded", "invalid_state", "retryable"}
        BY <1>2, <2>2 DEF Refusal, ReserveRefusal, SettleRefusal
      <3> QED BY <1>5, <1>6, <2>2, <3>1
    <2> QED BY <1>1, <1>10, <2>1, <2>2 DEF ReadCounter
  <1>11. CASE Write(p)
    <2>1. AppliesReserve(c) \/ AppliesRecord(c) \/ AppliesSettle(c)
      BY <1>1, <1>11, Applied DEF Write
    <2>2. Truthful(c, Written(c))
      BY <2>1 DEF Truthful, Written, AppliesReserve, AppliesRecord, AppliesSettle,
                  SameReservation, SameEvidence, SameSettlement
    <2>3. Return(p, Written(c)) /\ Written(c) \in Disposition /\ Written(c) # "released"
      BY <1>1, <1>2, <1>11 DEF Write, Written, Disposition
    <2> QED BY <1>5, <2>2, <2>3
  <1>12. CASE WriteAnswerLost(p) \/ WriteRefused(p)
    <2>1. call'[p] = [Forget(c) EXCEPT !.pc = "reread"]
      BY <1>1, <1>12 DEF WriteAnswerLost, WriteRefused, AwaitReread, JInv, IInv, TypeOK
    <2>2. [Forget(c) EXCEPT !.pc = "reread"].pc = "reread"
      BY DEF Forget, Call
    <2> QED BY <2>1, <2>2
  <1>13. CASE Reread(p)
    <2>1. UNCHANGED <<effect, evidence>>
      BY <1>13 DEF Reread
    <2>2. CASE Retry(p)
      <3>1. CASE call' = [call EXCEPT ![p] = Again(c)]
        BY <3>1, AgainType DEF JInv, IInv, TypeOK
      <3>2. CASE Return(p, "retryable")
        BY <1>5, <1>6, <3>2
      <3> QED BY <1>1, <2>2, <3>1, <3>2 DEF Retry
    <2>3. ASSUME NEW b \in BOOLEAN, Return(p, Classify(b)),
                 \/ c.op = "reserve" /\ (b => SameReservation(effect[c.e], c))
                 \/ c.op = "record" /\ (b => SameEvidence(evidence[c.e], c))
                 \/ c.op = "settle" /\ (b => SameSettlement(effect[c.e], c))
          PROVE  Truthful(call[p], call'[p].out)
      <3>1. CASE Classify(b) = "conflict"
        BY <1>5, <1>6, <2>3, <3>1
      <3>2. CASE Classify(b) = "replayed"
        <4>1. Truthful(c, "replayed")
          BY <2>1, <2>3, <3>2, ClassifyTruth DEF Truthful
        <4> QED BY <1>5, <2>3, <3>2, <4>1 DEF Disposition
      <3> QED BY <3>1, <3>2, ClassifyTruth
    <2> QED BY <1>1, <1>2, <1>4, <1>13, <2>2, <2>3 DEF Reread
  <1>14. CASE ReadUnavailable(p)
    BY <1>5, <1>6, <1>14 DEF ReadUnavailable
  <1>15. CASE Crash(p)
    <2>1. call'[p] = IdleCall(c.e)
      BY <1>1, <1>15 DEF Crash, JInv, IInv, TypeOK
    <2>2. call'[p].out = "none"
      BY <2>1 DEF IdleCall
    <2> QED BY <1>1, <1>6, <2>2
  <1> QED BY <1>7, <1>8, <1>9, <1>10, <1>11, <1>12, <1>13, <1>14, <1>15 DEF CallStep

\* What a caller is told is so, whatever the others did meanwhile and whether it
\* heard the answer of its own write or learned it from a later read
\* (_reservation_from_effect, _finalization_from_effect, release_unknown_cost).
THEOREM CallersToldTheTruth == Spec => AnswersHold
  <1>1. ASSUME JInv, [Next]_vars, UNCHANGED vars \/ FenceAccount, NEW p \in Proc
        PROVE  call'[p] = call[p]
    BY <1>1 DEF vars, FenceAccount
  <1>2. ASSUME JInv, NEW q \in Proc, CallStep(q), NEW p \in Proc, p # q
        PROVE  call'[p] = call[p]
    <2>1. \E d : call' = [call EXCEPT ![q] = d]
      BY <1>2, CallsFacts, ReadFacts, WrittenFacts DEF CallStep
    <2> QED BY <1>2, <2>1 DEF JInv, IInv, TypeOK
  <1>3. ASSUME JInv, [Next]_vars, NEW p \in Proc,
               call[p].pc # "idle", call'[p].pc = "idle"
        PROVE  Truthful(call[p], call'[p].out)
    <2>1. PICK q \in Proc : CallStep(q)
      BY <1>1, <1>3 DEF Next
    <2>2. p = q
      BY <1>2, <1>3, <2>1
    <2> QED BY <1>3, <2>1, <2>2, StepTold
  <1>4. JInv /\ [Next]_vars
          => \A p \in Proc : call[p].pc # "idle" /\ call'[p].pc = "idle"
                                => Truthful(call[p], call'[p].out)
    BY <1>3
  <1>5. JInv /\ [Next]_vars =>
          [\A p \in Proc :
             LET c == call[p]
                 told == call'[p].out
                 yes == told \in {"admitted", "recorded", "settled", "replayed"}
             IN  c.pc # "idle" /\ call'[p].pc = "idle" =>
                   /\ yes /\ c.op = "reserve" => SameReservation(effect'[c.e], c)
                   /\ yes /\ c.op = "record" => SameEvidence(evidence'[c.e], c)
                   /\ yes /\ c.op = "settle" => SameSettlement(effect'[c.e], c)
                   /\ told = "released" => effect'[c.e].settlement = "unknown_cost"
                   /\ told = "already_settled" => Ended(effect'[c.e])]_vars
    BY <1>4 DEF Truthful
  <1> QED BY <1>5, CallsCarry, PTL DEF Spec, AnswersHold
=============================================================================
