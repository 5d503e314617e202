\* Two follow-ups racing for the lock, each sent again, even after a day; or two
\* tasks that share the lock, the second of which a restart parks.
SPECIFICATION Spec
CONSTANTS
    t1 = t1
    t2 = t2
    k1 = k1
    k2 = k2
    NoKey = NoKey
    Tasks <- TwoTasks
    Keys <- TwoKeys
    Recoverable <- SecondTask
    MaxTurns = 3
    MaxPending = 1
    MaxQuestions = 0
    MaxInFlight = 2
    MaxCrashes = 1
    MaxExpiries = 1
SYMMETRY Symmetry
CONSTRAINT TwoMessagesOrTwoTasks
INVARIANTS
    MessagesAreTurns
    InterruptedNeverCompletes
PROPERTIES
    CriteriaStayFrozen
CHECK_DEADLOCK FALSE
