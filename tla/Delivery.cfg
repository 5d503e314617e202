\* Two dispatchers and two publishers of one approved request, one crash.
SPECIFICATION FairSpec
CONSTANTS
    q1 = q1
    d1 = d1
    d2 = d2
    p1 = p1
    p2 = p2
    None = None
    Requests <- OneRequest
    Dispatchers <- TwoDispatchers
    Publishers <- TwoPublishers
    MaxTasks = 1
    MaxCrashes = 1
    MaxTouches = 1
INVARIANTS
    NothingUnfinishedShows
    ReconciliationIsTrue
PROPERTIES
    ParkedIsSettled
CHECK_DEADLOCK FALSE
