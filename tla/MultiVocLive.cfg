\* A small instance for liveness.
SPECIFICATION FairSpec
CONSTANTS
    v1 = v1
    v2 = v2
    Voice = {v1, v2}
    VoiceList = VoiceList
    VoicePool = VoicePool
    Null = Null
    MinHandle = 1
    MaxHandle = 3
    Priorities = {1}
    Kinds = {"once", "loop", "feed"}
    MaxPages = 2
    Recorders = {}
    CardFails = {}
    Untroubled = TRUE
    Before <- OlderErrors
PROPERTIES EverySoundEnds
