SPECIFICATION Spec
CONSTANTS
    Teacher = {t1, t2}
    NoTeacher = NoTeacher
    Conversation = {c1}
    NoConversation = NoConversation
    Run = {p1, p2}
    OfferTime = 1
    ExpiryTime = 2
    RunTime = 1
    Weeks = 1
    Figure = {1}
    FirstFigure = 1
    MaxTries = 1
    MaxFigures = 0
    MaxVersion = 4
SYMMETRY MCSymmetry
INVARIANTS OfferedOnce HolderAndStatusAgree CaseFollowsRequest
PROPERTIES EndsStay NoNewReference KeepsPromise
