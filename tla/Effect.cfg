\* Sounds of two priorities and up to three values, on both devices.
SPECIFICATION FairSpec
CONSTANTS
    Devices = {"pc", "adlib"}
    MinHandle = 1
    MaxHandle = 3
    Priorities = {1, 2}
    Lengths = {1, 3}
INVARIANTS EndedIsFree CalledBackWhenEnded
PROPERTY EverySoundEnds
