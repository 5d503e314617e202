\* One task through two turns, two questions and two crashes at any point.
SPECIFICATION FairSpec
CONSTANTS
    t1 = t1
    t2 = t2
    k1 = k1
    k2 = k2
    NoKey = NoKey
    Tasks <- OneTask
    Keys <- OneKey
    Recoverable <- NoTasks
    MaxTurns = 2
    MaxPending = 1
    MaxQuestions = 2
    MaxInFlight = 1
    MaxCrashes = 2
    MaxExpiries = 0
INVARIANTS
    FullInv
    QuietTaskHasNoOpenTurn
    WorkIsAccounted
    BoundaryObserved
    QuestionsAreBounded
PROPERTIES
    EndedIsFinal
    JudgementStands
    LedgerSpec
    ClosedTurnIsEvaluated
    StartingResolves
CHECK_DEADLOCK FALSE
