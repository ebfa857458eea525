SPECIFICATION Spec
CONSTANTS
    Run = {w1, w2}
    NoRun = NoRun
    Settler = {s1}
    MaxAttempts = 3
    LeaseTime = 1
    RunTime = 2
    UnclaimedAfter = 1
    SweepMaxAge = 4
    KeptAnswerMaxAge = 6
    SettleTerminalAfter = 2
    SettleLostAfter = 2
    SettleDeadlineAfter = 4
SYMMETRY MCSymmetry
INVARIANTS PaidOnce CalledUnderReservation PaidCallMarked RetryOnlyUnreported
           StoredAnswerCharged SettledHoldsNothing
PROPERTY ImplementsAccount
