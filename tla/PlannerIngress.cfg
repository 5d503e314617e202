\* Two threads submit, two people decide, the workspace changes, the host dies.
SPECIFICATION FairSpec
CONSTANTS
    pa = pa
    pb = pb
    k1 = k1
    k2 = k2
    d1 = d1
    d2 = d2
    c1 = c1
    c2 = c2
    h1 = h1
    h2 = h2
    None = None
    Projects <- TwoProjects
    Keys <- OneKey
    Digests <- OneDigest
    Calls <- TwoCalls
    Deciders <- TwoDeciders
    MaxRequests = 2
    MaxSwitches = 1
    MaxCrashes = 1
INVARIANTS
    ClaimsAreSound
PROPERTIES
    DecisionsStand
    ClaimEnds
CHECK_DEADLOCK FALSE
