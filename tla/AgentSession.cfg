\* A follow-up, a question, a cancel at any point, a helper that may die.
SPECIFICATION FairSessionSpec
CONSTANTS
    MaxFollowups = 1
    MaxQuestions = 1
    MaxDeaths = 1
INVARIANTS
    SessionIsSound
PROPERTIES
    ReportedInOrder
    TurnIsSettled
CHECK_DEADLOCK FALSE
