\* Two requests of any kind in two threads, two attempts, two tokens beyond the
\* first, and one access token that ends early or write that fails.
SPECIFICATION FairSpec
CONSTANTS
    c1 = c1
    c2 = c2
    None = None
    Calls <- TwoCalls
    MaxRequests = 2
    MaxTokens = 3
    MaxAttempts = 2
    MaxFaults = 1
INVARIANTS
    AuthorizationIsSound
PROPERTIES
    AttemptEnds
CHECK_DEADLOCK FALSE
