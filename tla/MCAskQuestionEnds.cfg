SPECIFICATION FairSpec
CONSTANTS
    Run = {w1}
    NoRun = NoRun
    Settler = {s1}
    MaxAttempts = 2
    LeaseTime = 1
    RunTime = 2
    UnclaimedAfter = 1
    SweepMaxAge = 4
    KeptAnswerMaxAge = 6
    SettleTerminalAfter = 2
    SettleLostAfter = 2
    SettleDeadlineAfter = 4
PROPERTIES LeaseEnds EndIsSettled
