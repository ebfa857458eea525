-------------------------- MODULE TokenLedger_proofs --------------------------
(***************************************************************************)
(* Proofs about TokenLedger, for every finite set of effects: the counter  *)
(* row is the sum over the effects, and the rows implement the abstract    *)
(* ledger.  The first rests on what an applied transaction does to one     *)
(* effect (Applied) and on what one change does to a sum (SumChange); the  *)
(* second on the first.                                                    *)
(***************************************************************************)
EXTENDS TokenLedger, TokenAllowance_proofs, Totals_proofs

\* The three columns of the week are numbers, effect by effect.
LEMMA ColumnsType ==
    ASSUME TypeOK
    PROVE  Held \in [Effect -> Nat] /\ Spent \in [Effect -> Nat] /\ Cost \in [Effect -> Nat]
  <1>1. ASSUME NEW e \in Effect PROVE effect[e].tokens \in Nat /\ evidence[e].tokens \in Nat
    BY DEF TypeOK, EffectRow, EvidenceRow
  <1> QED BY <1>1 DEF Held, Spent, Cost

\* A transaction changes the columns of its own effect only, and by what it adds to
\* the counts of the week.
LEMMA ColumnsMove ==
    ASSUME JInv, TypeOK', NEW c \in Call,
           AppliesReserve(c) \/ AppliesRecord(c) \/ AppliesSettle(c),
           \A x \in Effect : x # c.e => effect'[x] = effect[x] /\ evidence'[x] = evidence[x]
    PROVE  /\ \A x \in Effect : x # c.e => /\ Held'[x] = Held[x]
                                           /\ Spent'[x] = Spent[x]
                                           /\ Cost'[x] = Cost[x]
           /\ counter'.reserved = counter.reserved + Held'[c.e] - Held[c.e]
           /\ counter'.finalized = counter.finalized + Spent'[c.e] - Spent[c.e]
           /\ counter'.cost = counter.cost + Cost'[c.e] - Cost[c.e]
  <1>1. c.e \in Effect /\ EntryInv(c.e)
    BY DEF JInv, Call
  <1>2. \A x \in Effect : x # c.e => /\ Held'[x] = Held[x]
                                     /\ Spent'[x] = Spent[x]
                                     /\ Cost'[x] = Cost[x]
    BY DEF Held, Spent, Cost
  <1>3. /\ counter.reserved \in Nat /\ counter.finalized \in Nat /\ counter.cost \in Nat
        /\ effect[c.e].tokens \in Nat /\ evidence[c.e].tokens \in Nat
        /\ c.tokens \in Nat
    BY <1>1 DEF JInv, IInv, TypeOK, CounterRow, EffectRow, EvidenceRow, Call
  <1>4. /\ Held[c.e] = IF effect[c.e].state \in {"reserved", "observed"}
                       THEN effect[c.e].tokens ELSE 0
        /\ Spent[c.e] = IF effect[c.e].state = "finalized" THEN evidence[c.e].tokens ELSE 0
        /\ Cost[c.e] = evidence[c.e].tokens
    BY <1>1 DEF Held, Spent, Cost
  <1>5. /\ Held'[c.e] = IF effect'[c.e].state \in {"reserved", "observed"}
                        THEN effect'[c.e].tokens ELSE 0
        /\ Spent'[c.e] = IF effect'[c.e].state = "finalized"
                         THEN evidence'[c.e].tokens ELSE 0
        /\ Cost'[c.e] = evidence'[c.e].tokens
    BY <1>1 DEF Held, Spent, Cost
  <1>6. CASE AppliesReserve(c)
    <2>1. /\ effect[c.e].state = "absent" /\ effect'[c.e].state = "reserved"
          /\ effect'[c.e].tokens = c.tokens /\ evidence'[c.e] = evidence[c.e]
          /\ counter'.reserved = counter.reserved + c.tokens
          /\ counter'.finalized = counter.finalized /\ counter'.cost = counter.cost
      BY <1>6 DEF AppliesReserve
    <2>2. /\ Held[c.e] = 0 /\ Held'[c.e] = c.tokens /\ Spent[c.e] = 0 /\ Spent'[c.e] = 0
          /\ Cost'[c.e] = Cost[c.e] /\ Cost[c.e] \in Nat
      BY <1>3, <1>4, <1>5, <2>1
    <2> QED BY <1>2, <1>3, <2>1, <2>2
  <1>7. CASE AppliesRecord(c)
    <2>1. /\ effect[c.e].state = "reserved" /\ effect'[c.e].state = "observed"
          /\ effect'[c.e].tokens = effect[c.e].tokens /\ evidence[c.e].tokens = 0
          /\ evidence'[c.e].tokens = c.tokens
          /\ counter'.reserved = counter.reserved
          /\ counter'.finalized = counter.finalized
          /\ counter'.cost = counter.cost + c.tokens
      BY <1>7 DEF AppliesRecord
    <2>2. /\ Held'[c.e] = Held[c.e] /\ Held[c.e] \in Nat /\ Spent[c.e] = 0 /\ Spent'[c.e] = 0
          /\ Cost'[c.e] = c.tokens /\ Cost[c.e] = 0
      BY <1>3, <1>4, <1>5, <2>1
    <2> QED BY <1>2, <1>3, <2>1, <2>2
  <1>8. CASE AppliesSettle(c)
    <2>1. PICK n \in Nat :
             /\ n = IF c.settlement = "delivered" THEN evidence[c.e].tokens ELSE 0
      BY <1>3
    <2>2. /\ effect[c.e].state = "observed"
          /\ effect'[c.e].state = IF c.settlement = "delivered"
                                  THEN "finalized" ELSE "restored"
          /\ evidence'[c.e] = evidence[c.e]
          /\ counter'.reserved = counter.reserved - effect[c.e].tokens
          /\ counter'.finalized = counter.finalized + n
          /\ counter'.cost = counter.cost
      BY <1>8, <2>1 DEF AppliesSettle
    <2>3. /\ Held'[c.e] = 0 /\ Held[c.e] = effect[c.e].tokens
          /\ Spent[c.e] = 0 /\ Spent'[c.e] = n
          /\ Cost'[c.e] = Cost[c.e] /\ Cost[c.e] \in Nat
      BY <1>3, <1>4, <1>5, <2>1, <2>2
    <2> QED BY <1>2, <1>3, <2>1, <2>2, <2>3
  <1> QED BY <1>6, <1>7, <1>8

\* A transaction keeps the counter the sum over the effects.
LEMMA AccountsStep ==
    ASSUME JInv, TypeOK', CounterAccounts, NEW c \in Call,
           AppliesReserve(c) \/ AppliesRecord(c) \/ AppliesSettle(c),
           \A x \in Effect : x # c.e => effect'[x] = effect[x] /\ evidence'[x] = evidence[x]
    PROVE  CounterAccounts'
  <1>1. c.e \in Effect
    BY DEF Call
  <1>2. /\ Held \in [Effect -> Int] /\ Spent \in [Effect -> Int] /\ Cost \in [Effect -> Int]
    BY ColumnsType DEF JInv, IInv
  <1>3. /\ Held' \in [Effect -> Int] /\ Spent' \in [Effect -> Int] /\ Cost' \in [Effect -> Int]
    <2>1. ASSUME NEW e \in Effect
          PROVE  effect'[e].tokens \in Nat /\ evidence'[e].tokens \in Nat
      BY DEF TypeOK, EffectRow, EvidenceRow
    <2> QED BY <2>1 DEF Held, Spent, Cost
  <1>4. /\ \A x \in Effect : x # c.e => /\ Held'[x] = Held[x]
                                        /\ Spent'[x] = Spent[x]
                                        /\ Cost'[x] = Cost[x]
        /\ counter'.reserved = counter.reserved + Held'[c.e] - Held[c.e]
        /\ counter'.finalized = counter.finalized + Spent'[c.e] - Spent[c.e]
        /\ counter'.cost = counter.cost + Cost'[c.e] - Cost[c.e]
    BY ColumnsMove
  <1>5. SumFunction(Held') = SumFunction(Held) + Held'[c.e] - Held[c.e]
    BY <1>1, <1>2, <1>3, <1>4, SumChange, EffectAssumption
  <1>6. SumFunction(Spent') = SumFunction(Spent) + Spent'[c.e] - Spent[c.e]
    BY <1>1, <1>2, <1>3, <1>4, SumChange, EffectAssumption
  <1>7. SumFunction(Cost') = SumFunction(Cost) + Cost'[c.e] - Cost[c.e]
    BY <1>1, <1>2, <1>3, <1>4, SumChange, EffectAssumption
  <1> QED BY <1>4, <1>5, <1>6, <1>7 DEF CounterAccounts

\* A step that leaves the counter alone leaves the rows alone.
LEMMA RowsChange ==
    ASSUME JInv, [Next]_vars
    PROVE  \/ UNCHANGED <<counter, effect, evidence>>
           \/ \E p \in Proc :
                 /\ AppliesReserve(call[p]) \/ AppliesRecord(call[p])
                                            \/ AppliesSettle(call[p])
                 /\ \A x \in Effect : x # call[p].e =>
                       effect'[x] = effect[x] /\ evidence'[x] = evidence[x]
  <1>1. ASSUME NEW p \in Proc, Write(p) \/ WriteAnswerLost(p)
        PROVE  /\ AppliesReserve(call[p]) \/ AppliesRecord(call[p])
                                          \/ AppliesSettle(call[p])
               /\ \A x \in Effect : x # call[p].e =>
                     effect'[x] = effect[x] /\ evidence'[x] = evidence[x]
    BY <1>1, Applied DEF Write, WriteAnswerLost
  <1> QED BY <1>1 DEF Next, vars, FenceAccount, CallStep, CallReserve, CallRecord,
          CallSettle, CallRelease, ReadForRelease, ReadEffect, ReadCounter, WriteRefused,
          Reread, ReadUnavailable, Crash

\* The counter is the sum over the effects from the empty week on.
LEMMA InitAccounts == Init => CounterAccounts
  <1> SUFFICES ASSUME Init PROVE CounterAccounts
    OBVIOUS
  <1>1. Held \in [Effect -> {0}] /\ Spent \in [Effect -> {0}] /\ Cost \in [Effect -> {0}]
    BY DEF Init, Held, Spent, Cost, NoEffect, NoEvidence
  <1>2. SumFunction(Held) = 0
    BY <1>1, SumZero, EffectAssumption
  <1>3. SumFunction(Spent) = 0
    BY <1>1, SumZero, EffectAssumption
  <1>4. SumFunction(Cost) = 0
    BY <1>1, SumZero, EffectAssumption
  <1> QED BY <1>2, <1>3, <1>4 DEF Init, NoCounter, CounterAccounts

\* Every step keeps it so.
LEMMA NextAccounts == JInv /\ JInv' /\ CounterAccounts /\ [Next]_vars => CounterAccounts'
  <1> SUFFICES ASSUME JInv, JInv', CounterAccounts, [Next]_vars PROVE CounterAccounts'
    OBVIOUS
  <1>1. TypeOK'
    BY DEF JInv, IInv
  <1>2. CASE UNCHANGED <<counter, effect, evidence>>
    BY <1>2 DEF CounterAccounts, Held, Spent, Cost
  <1>3. ASSUME NEW p \in Proc,
               AppliesReserve(call[p]) \/ AppliesRecord(call[p]) \/ AppliesSettle(call[p]),
               \A x \in Effect : x # call[p].e =>
                  effect'[x] = effect[x] /\ evidence'[x] = evidence[x]
        PROVE  CounterAccounts'
    <2>1. call[p] \in Call
      BY DEF JInv, IInv, TypeOK
    <2> QED BY <1>1, <1>3, <2>1, AccountsStep
  <1> QED BY <1>2, <1>3, RowsChange

\* Whatever was retried, lost or refused, the counter row is the sum over the effect
\* and evidence rows of the week: nothing is set aside, charged or costed twice
\* (reserve_allowance, _record_usage, _complete_allowance).
THEOREM CounterIsTheSum == Spec => []CounterAccounts
  <1>1. JInv /\ CounterAccounts /\ [Next]_vars => JInv' /\ CounterAccounts'
    BY NextCarries, NextAccounts
  <1> QED BY <1>1, InitCarries, InitAccounts, PTL DEF Spec
-----------------------------------------------------------------------------
\* What the abstract ledger calls the week's use is what the counter row says of it.
LEMMA UseIsCounted ==
    ASSUME JInv, CounterAccounts
    PROVE  Ledger!WeekUse = counter.finalized + counter.reserved
  <1> DEFINE use == [e \in Effect |-> Ledger!Use(LedgerRows[e])]
  <1>1. Held \in [Effect -> Nat] /\ Spent \in [Effect -> Nat]
    BY ColumnsType DEF JInv, IInv
  <1>2. ASSUME NEW e \in Effect PROVE use[e] = Held[e] + Spent[e] /\ use[e] \in Int
    <2>1. /\ effect[e].state \in {"absent", "reserved", "observed", "finalized", "restored"}
          /\ effect[e].tokens \in Nat /\ evidence[e].tokens \in Nat
      BY DEF JInv, IInv, TypeOK, EffectRow, EvidenceRow
    <2>2. /\ LedgerRows[e].state = effect[e].state
          /\ LedgerRows[e].tokens = effect[e].tokens
          /\ LedgerRows[e].cost = evidence[e].tokens
      BY DEF LedgerRows
    <2>3. use[e] = Ledger!Use(LedgerRows[e])
      OBVIOUS
    <2> HIDE DEF use
    <2>4. use[e] = CASE effect[e].state \in {"reserved", "observed"} -> effect[e].tokens
                     [] effect[e].state = "finalized" -> evidence[e].tokens
                     [] OTHER -> 0
      BY <2>2, <2>3 DEF Ledger!Use
    <2>5. /\ Held[e] = IF effect[e].state \in {"reserved", "observed"}
                       THEN effect[e].tokens ELSE 0
          /\ Spent[e] = IF effect[e].state = "finalized" THEN evidence[e].tokens ELSE 0
      BY DEF Held, Spent
    <2>6. CASE effect[e].state \in {"reserved", "observed"}
      BY <2>1, <2>4, <2>5, <2>6
    <2>7. CASE effect[e].state = "finalized"
      BY <2>1, <2>4, <2>5, <2>7
    <2>8. CASE effect[e].state \in {"absent", "restored"}
      BY <2>1, <2>4, <2>5, <2>8
    <2> QED BY <2>1, <2>6, <2>7, <2>8
  <1>3. Ledger!WeekUse = SumFunction(use)
    BY DEF Ledger!WeekUse, Ledger!SumFunction, Ledger!SumFunctionOnSet,
           Ledger!FoldFunctionOnSet, Ledger!MapThenFoldSet,
           SumFunction, SumFunctionOnSet, FoldFunctionOnSet, MapThenFoldSet
  <1>4. use \in [Effect -> Int]
    BY <1>2
  <1> HIDE DEF use
  <1>5. SumFunction(use) = SumFunction(Held) + SumFunction(Spent)
    BY <1>1, <1>2, <1>4, SumOfSums, EffectAssumption
  <1>6. counter.reserved \in Nat /\ counter.finalized \in Nat
    BY DEF JInv, IInv, TypeOK, CounterRow
  <1> QED BY <1>3, <1>5, <1>6 DEF CounterAccounts

\* The abstract ledger after a step that changes one effect.
LEMMA LedgerRowsAfter ==
    ASSUME NEW e \in Effect, NEW entry,
           entry = [state |-> effect'[e].state, tokens |-> effect'[e].tokens,
                    cost |-> evidence'[e].tokens],
           \A x \in Effect : x # e => effect'[x] = effect[x] /\ evidence'[x] = evidence[x]
    PROVE  LedgerRows' = [LedgerRows EXCEPT ![e] = entry]
  BY DEF LedgerRows

\* An applied transaction is one step of the abstract ledger.
LEMMA AppliedIsLedgerStep ==
    ASSUME JInv, CounterAccounts, NEW c \in Call,
           AppliesReserve(c) \/ AppliesRecord(c) \/ AppliesSettle(c),
           \A x \in Effect : x # c.e => effect'[x] = effect[x] /\ evidence'[x] = evidence[x]
    PROVE  Ledger!Next
  <1>1. c.e \in Effect /\ EntryInv(c.e)
    BY DEF JInv, Call
  <1>2. /\ LedgerRows[c.e] = [state |-> effect[c.e].state, tokens |-> effect[c.e].tokens,
                              cost |-> evidence[c.e].tokens]
        /\ LedgerRows = [x \in Effect |-> LedgerRows[x]]
    BY <1>1 DEF LedgerRows
  <1>3. LedgerRows' = [LedgerRows EXCEPT ![c.e] =
                         [state |-> effect'[c.e].state, tokens |-> effect'[c.e].tokens,
                          cost |-> evidence'[c.e].tokens]]
    BY <1>1, LedgerRowsAfter
  <1>4. CASE AppliesReserve(c)
    <2>1. /\ c.plan \in Plan /\ c.tokens \in Tokens
          /\ c.plan.version >= counter.plan.version
          /\ Ledger!WeekUse + c.tokens <= c.plan.budget
          /\ LedgerRows[c.e].state = "absent"
          /\ counter'.plan = c.plan
      BY <1>2, <1>4, UseIsCounted DEF AppliesReserve
    <2>2. LedgerRows' = [LedgerRows EXCEPT ![c.e] =
                           [state |-> "reserved", tokens |-> c.tokens, cost |-> 0]]
      BY <1>1, <1>3, <1>4 DEF AppliesReserve, EntryInv
    <2>3. Ledger!Reserve(c.e)
      BY <2>1, <2>2 DEF Ledger!Reserve, Ledger!Entry
    <2> QED BY <1>1, <2>3 DEF Ledger!Next
  <1>5. CASE AppliesRecord(c)
    <2>1. /\ c.tokens \in Tokens /\ LedgerRows[c.e].state = "reserved"
          /\ counter'.plan = counter.plan
      BY <1>2, <1>5 DEF AppliesRecord
    <2>2. LedgerRows' = [LedgerRows EXCEPT ![c.e] =
                           [state |-> "observed", tokens |-> effect[c.e].tokens,
                            cost |-> c.tokens]]
      BY <1>3, <1>5 DEF AppliesRecord
    <2>3. Ledger!Record(c.e)
      BY <1>2, <2>1, <2>2 DEF Ledger!Record, Ledger!Entry
    <2> QED BY <1>1, <2>3 DEF Ledger!Next
  <1>6. CASE AppliesSettle(c)
    <2>1. /\ LedgerRows[c.e].state = "observed" /\ counter'.plan = counter.plan
          /\ c.settlement = "delivered" => LedgerRows[c.e].cost <= LedgerRows[c.e].tokens
      BY <1>2, <1>6 DEF AppliesSettle
    <2>2. LedgerRows' = [LedgerRows EXCEPT ![c.e] =
                           [state |-> effect'[c.e].state, tokens |-> effect[c.e].tokens,
                            cost |-> evidence[c.e].tokens]]
      BY <1>3, <1>6 DEF AppliesSettle
    <2>3. CASE c.settlement = "delivered"
      <3>1. effect'[c.e].state = "finalized"
        BY <1>6, <2>3 DEF AppliesSettle
      <3>2. Ledger!Finalize(c.e)
        BY <1>2, <2>1, <2>2, <2>3, <3>1 DEF Ledger!Finalize, Ledger!Entry
      <3> QED BY <1>1, <3>2 DEF Ledger!Next
    <2>4. CASE c.settlement # "delivered"
      <3>1. effect'[c.e].state = "restored"
        BY <1>6, <2>4 DEF AppliesSettle
      <3>2. Ledger!Restore(c.e)
        BY <1>2, <2>1, <2>2, <3>1 DEF Ledger!Restore, Ledger!Entry
      <3> QED BY <1>1, <3>2 DEF Ledger!Next
    <2> QED BY <2>3, <2>4
  <1> QED BY <1>4, <1>5, <1>6

\* The empty week is the empty ledger.
LEMMA InitIsLedgerInit == Init => Ledger!Init
  BY DEF Init, Ledger!Init, Ledger!Absent, Ledger!Entry, LedgerRows, NoEffect, NoEvidence,
         NoCounter, NoPlan

\* Every step is a step of the ledger or leaves it alone.
LEMMA NextIsLedgerNext ==
    JInv /\ CounterAccounts /\ [Next]_vars => [Ledger!Next]_(Ledger!vars)
  <1> SUFFICES ASSUME JInv, CounterAccounts, [Next]_vars
               PROVE  [Ledger!Next]_(Ledger!vars)
    OBVIOUS
  <1>1. CASE UNCHANGED <<counter, effect, evidence>>
    BY <1>1 DEF Ledger!vars, LedgerRows
  <1>2. ASSUME NEW p \in Proc,
               AppliesReserve(call[p]) \/ AppliesRecord(call[p]) \/ AppliesSettle(call[p]),
               \A x \in Effect : x # call[p].e =>
                  effect'[x] = effect[x] /\ evidence'[x] = evidence[x]
        PROVE  Ledger!Next
    <2>1. call[p] \in Call
      BY DEF JInv, IInv, TypeOK
    <2> QED BY <1>2, <2>1, AppliedIsLedgerStep
  <1> QED BY <1>1, <1>2, RowsChange

\* The rows implement the ledger the callers are promised: every operation happens at
\* one instant and at most once, and a reservation is admitted only if the sum over
\* all effects leaves room for it (allowance_repo, allowance_service).
THEOREM RowsImplementLedger == Spec => ImplementsLedger
  BY InitIsLedgerInit, NextIsLedgerNext, CallsCarry, CounterIsTheSum, PTL
     DEF Spec, ImplementsLedger, Ledger!Spec
=============================================================================
