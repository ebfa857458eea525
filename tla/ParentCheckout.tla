---------------------------- MODULE ParentCheckout ----------------------------
(***************************************************************************)
(* What a parent's checkouts promise, without requests, claims, versions   *)
(* or lost answers: one checkout at a time can be paid; the next one       *)
(* begins only after Stripe has let the last one lapse unpaid and that was *)
(* recorded; and only what was paid is activated.  CheckoutCommand         *)
(* implements this module.                                                 *)
(***************************************************************************)

CONSTANTS Key, NoKey

VARIABLES
    fate,       \* of each checkout: "none", "begun", "payable", "paid", "lapsed", "closed"
    holder,     \* the checkout the parent may go on with
    activated   \* the checkouts whose payment was activated

vars == <<fate, holder, activated>>

Init ==
    /\ fate = [k \in Key |-> "none"]
    /\ holder = NoKey
    /\ activated = {}
-----------------------------------------------------------------------------
Begin(k) ==
    /\ holder = NoKey /\ holder' = k
    /\ fate[k] = "none" /\ fate' = [fate EXCEPT ![k] = "begun"]
    /\ UNCHANGED activated

\* What Stripe and the parent do to a checkout, and what is recorded of it.
Offered == <<"begun", "payable">>
Paid == <<"payable", "paid">>
Lapsed == <<"payable", "lapsed">>
Closed == <<"lapsed", "closed">>

Turn(k) ==
    /\ holder = k
    /\ <<fate[k], fate'[k]>> \in {Offered, Paid, Lapsed, Closed}
    /\ fate' = [fate EXCEPT ![k] = fate'[k]]
    /\ UNCHANGED <<holder, activated>>

\* Another plan: a new checkout takes the place of one that is closed.
Replace(k, next) ==
    /\ holder = k /\ holder' = next
    /\ fate[k] = "closed" /\ fate[next] = "none"
    /\ fate' = [fate EXCEPT ![next] = "begun"]
    /\ UNCHANGED activated

Activate(k) ==
    /\ holder = k /\ k \notin activated /\ fate[k] = "paid"
    /\ activated' = activated \cup {k}
    /\ UNCHANGED <<fate, holder>>

Next ==
    \E k \in Key :
        \/ Begin(k) \/ Turn(k) \/ Activate(k)
        \/ \E next \in Key : Replace(k, next)

Spec == Init /\ [][Next]_vars
=============================================================================
