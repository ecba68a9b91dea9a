SPECIFICATION Spec
CONSTANTS
    None = None
    TimePrecision = 3
    LookBack = 2
    Length = 5
    Skew = 1
    MinBatchSize = 2
    ClockError = 1
    Horizon = 15
    Client = {i1, i2, i3}
SYMMETRY Symmetry
INVARIANTS
    TypeOK
    RecentReportsCollected
