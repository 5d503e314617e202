\* Two calls that race for two request ids, with the same content or another.
SPECIFICATION ClaimsSpec
CONSTANTS
    i1 = i1
    i2 = i2
    d1 = d1
    d2 = d2
    c1 = c1
    c2 = c2
    Nothing = Nothing
    Ids <- TwoIds
    Digests <- TwoDigests
    Calls <- TwoCalls
    MaxConcurrent = 2
    MaxTicks = 2
SYMMETRY Symmetries
INVARIANTS
    ReplayIsTrue
PROPERTIES
    SettledStands
CHECK_DEADLOCK FALSE
