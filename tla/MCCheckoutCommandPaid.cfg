SPECIFICATION FairSpec
CONSTANTS
    Key = {k1}
    NoKey = NoKey
    Run = {p1}
    Event = {1, 2}
    MaxClaims = 1
PROPERTY PaidIsActivated
