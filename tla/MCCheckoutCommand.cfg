SPECIFICATION Spec
CONSTANTS
    Key = {k1, k2}
    NoKey = NoKey
    Run = {p1, p2}
    Event = {1, 2}
    MaxClaims = 2
SYMMETRY MCSymmetry
INVARIANTS TypeOK OnePayable UnpaidIsFinal PaidIsOwned
PROPERTY OneCheckout
