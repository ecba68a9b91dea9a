SPECIFICATION Spec
CONSTANTS
    FracBits = 4
    Grain = 8
    Error = Error
    Pending = Pending
INVARIANTS
    RoundsToNeighbour
    FailsExactlyOutside
