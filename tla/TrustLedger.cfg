\* Two approvers and two consumers, room for three lines, every fault once.
SPECIFICATION Spec
CONSTANTS
    a1 = a1
    a2 = a2
    c1 = c1
    c2 = c2
    x = x
    y = y
    None = None
    Approvers <- TwoApprovers
    Consumers <- TwoConsumers
    Contents <- TwoContents
    Lifetime = 1
    MaxEntries = 3
    MaxTime = 2
    MaxRollbacks = 1
    MaxLosses = 1
    MaxEdits = 1
SYMMETRY Symmetric
CONSTRAINT TwoFaults
INVARIANTS
    SingleUse
    LedgerIsTrue
CHECK_DEADLOCK FALSE
