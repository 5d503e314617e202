\* Every turn of four steps on two paths, reports with room for one.
SPECIFICATION Spec
CONSTANTS
    a = a
    b = b
    v0 = v0
    v1 = v1
    Absent = Absent
    None = None
    Paths <- TwoPaths
    Contents <- TwoContents
    Room = 1
    RangeRoom = 1
    MaxSteps = 4
SYMMETRY Symmetric
INVARIANTS
    VerdictsAreTrue
    ReportsAreSound
CHECK_DEADLOCK FALSE
