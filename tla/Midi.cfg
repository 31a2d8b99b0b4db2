\* Songs with tempo and meter changes, song loops and track loops.
SPECIFICATION FairSpec
CONSTANTS
    Songs <- MCSongs
    Card = 1
    AllCards = 127
    Division = 1
    Ticks = {3}
    Times = {9}
    Positions <- MCPositions
    Contexts = {1}
    MaxPosition = 12
INVARIANTS ActiveTracksCounted TracksInStep ClockRight
PROPERTIES SongEnds
