--------------------------- MODULE AllowanceLedger ---------------------------
(***************************************************************************)
(* What the token ledger promises its callers: each operation on an effect *)
(* happens at one instant and at most once, and a reservation is admitted  *)
(* only if everything the week has spent or set aside, over all effects,   *)
(* leaves room for it under a grant no older than the last one admitted.   *)
(* There is no counter row here: the week's use is the sum over the        *)
(* effects.  TokenAllowance implements this module.                        *)
(***************************************************************************)
EXTENDS Integers, Functions

CONSTANTS Effect, Plan, Tokens

VARIABLES
    ledger,     \* per effect: its state, what it set aside, what it cost
    grant       \* the grant of the last admission

vars == <<ledger, grant>>

Entry(state, tokens, cost) == [state |-> state, tokens |-> tokens, cost |-> cost]
Absent == Entry("absent", 0, 0)

\* What an effect takes out of the week.
Use(entry) ==
    CASE entry.state \in {"reserved", "observed"} -> entry.tokens
      [] entry.state = "finalized" -> entry.cost
      [] OTHER -> 0

WeekUse == SumFunction([e \in Effect |-> Use(ledger[e])])

Init ==
    /\ ledger = [e \in Effect |-> Absent]
    /\ grant = [version |-> 0, budget |-> 0]

Reserve(e) ==
    /\ ledger[e].state = "absent"
    /\ \E pl \in Plan, n \in Tokens :
          /\ pl.version >= grant.version
          /\ WeekUse + n <= pl.budget
          /\ grant' = pl
          /\ ledger' = [ledger EXCEPT ![e] = Entry("reserved", n, 0)]

Record(e) ==
    /\ ledger[e].state = "reserved"
    /\ \E n \in Tokens :
          ledger' = [ledger EXCEPT ![e] = Entry("observed", ledger[e].tokens, n)]
    /\ UNCHANGED grant

Finalize(e) ==
    /\ ledger[e].state = "observed"
    /\ ledger[e].cost <= ledger[e].tokens
    /\ ledger' = [ledger EXCEPT ![e] = Entry("finalized", ledger[e].tokens, ledger[e].cost)]
    /\ UNCHANGED grant

Restore(e) ==
    /\ ledger[e].state = "observed"
    /\ ledger' = [ledger EXCEPT ![e] = Entry("restored", ledger[e].tokens, ledger[e].cost)]
    /\ UNCHANGED grant

Next == \E e \in Effect : Reserve(e) \/ Record(e) \/ Finalize(e) \/ Restore(e)

Spec == Init /\ [][Next]_vars
=============================================================================
