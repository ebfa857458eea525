SPECIFICATION FairSpec
CONSTANTS
    Proc = {p1, p2}
    Effect = {e1}
    Tokens = {1, 2}
    Attempts = 2
    Plan <- ReplayedWeek
INVARIANT TypeOK
PROPERTIES AnswersHold ImplementsLedger CallReturns
