\* Two threads, documents and roles that change underneath, a crash at any point.
SPECIFICATION FairSpec
CONSTANTS
    d1 = d1
    d2 = d2
    x1 = x1
    x2 = x2
    x3 = x3
    w1 = w1
    w2 = w2
    p1 = p1
    p2 = p2
    c1 = c1
    c2 = c2
    Global = Global
    None = None
    Docs <- TwoDocs
    Contents <- TwoContents
    Workspaces <- OneWorkspace
    Proposals <- OneProposal
    Calls <- TwoCalls
    MaxEdits = 1
    MaxChanges = 1
    MaxCrashes = 1
INVARIANTS
    RowsAreTrue
PROPERTIES
    OnlyTheClaimantWrites
    DecidedIsFinal
    BookSpec
    ClaimIsSettled
CHECK_DEADLOCK FALSE
