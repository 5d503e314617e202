\* Two requests of any kind, three launches, one of them killed.
SPECIFICATION FairSpec
CONSTANTS
    c1 = c1
    c2 = c2
    None = None
    Calls <- TwoCalls
    MaxLaunches = 3
    MaxKills = 1
INVARIANTS
    LinksAreTrue
PROPERTIES
    CallIsAnswered
CHECK_DEADLOCK FALSE
