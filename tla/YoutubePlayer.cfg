\* Two actions on an empty or a full list, two pages, one interference.
SPECIFICATION FairPlayerSpec
CONSTANTS
    v1 = v1
    v2 = v2
    Nothing = Nothing
    Videos <- OneVideo
    Limit = 3
    MaxPages = 2
    MaxActions = 2
    MaxTouches = 1
INVARIANTS
    ChannelIsSound
PROPERTIES
    UpcomingIsKept
    SupersededStops
CHECK_DEADLOCK FALSE
