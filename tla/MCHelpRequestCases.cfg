SPECIFICATION Spec
CONSTANTS
    Teacher = {}
    NoTeacher = NoTeacher
    Conversation = {c1, c2}
    NoConversation = NoConversation
    Run = {p1, p2}
    OfferTime = 1
    ExpiryTime = 1
    RunTime = 0
    Weeks = 2
    Figure = {0, 2}
    FirstFigure = 1
    MaxTries = 2
    MaxFigures = 2
    MaxVersion = 4
SYMMETRY MCSymmetry
INVARIANTS TypeOK CasesAccount
PROPERTIES AdmittedWithinFigure
