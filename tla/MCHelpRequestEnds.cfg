SPECIFICATION FairSpec
CONSTANTS
    Teacher = {t1}
    NoTeacher = NoTeacher
    Conversation = {c1}
    NoConversation = NoConversation
    Run = {p1}
    OfferTime = 1
    ExpiryTime = 2
    RunTime = 1
    Weeks = 1
    Figure = {1}
    FirstFigure = 1
    MaxTries = 2
    MaxFigures = 0
    MaxVersion = 4
PROPERTIES WaitingEnds TeacherForgotten
