\* Three voices of two priorities, sounds that end and loops, recording.
SPECIFICATION Spec
CONSTANTS
    v1 = v1
    v2 = v2
    v3 = v3
    Voice = {v1, v2, v3}
    VoiceList = VoiceList
    VoicePool = VoicePool
    Null = Null
    MinHandle = 1
    MaxHandle = 4
    Priorities = {1, 2}
    Kinds = {"once", "loop"}
    MaxPages = 1
    Recorders = {TRUE}
    CardFails = {TRUE}
    Untroubled = TRUE
    Before <- OlderErrors
SYMMETRY VoiceSymmetry
VIEW LiveView
INVARIANTS
    VoicesPartitioned
    HandlesAreUnique
    ReplacesOldestLowest
    CalledBackWhenStopped
    SaysWhy
