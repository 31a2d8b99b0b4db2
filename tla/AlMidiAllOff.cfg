\* One voice is enough for AL_AllNotesOff to go round for ever.
SPECIFICATION AlFairSpec
CONSTANTS
    NumVoices = 1
    Pieces <- MCOneNote
    Drums = 9
    DefaultBank <- MCDefault
    GlideRate <- MCGlide
    Waves <- MCWaves
    MaxAge = 1
    MaxHeld = 1
    MaxGliding = 1
    MaxAstray = 0
PROPERTY AllNotesOffReturns
