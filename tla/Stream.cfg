\* Sounds of every format, loops, changes of pitch and of pan.
SPECIFICATION Spec
CONSTANTS
    One = 2
    PageSize = 4
    Block = 6
    Sounds <- MCSounds
    Chunks = {0, 3, 7}
    Modes <- MCModes
    Pitches = {1, 2}
    Speeds = {1}
    Pans <- MCPans
    OtherPositions = {0}
INVARIANTS GoesOn PlaysInside PlaysThrough StaysInPage
