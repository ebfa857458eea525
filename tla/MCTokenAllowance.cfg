SPECIFICATION Spec
CONSTANTS
    Proc = {p1, p2}
    Effect = {e1, e2}
    Tokens = {1}
    Attempts = 1
    Plan <- ContendedWeek
SYMMETRY MCSymmetry
INVARIANTS CounterAccounts WithinLargestGrant
PROPERTIES AdmittedWithinBudget GrantNeverOlder
