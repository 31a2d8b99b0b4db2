\* Twelve songs, on the two voices of an OPL2 or the four of an OPL3.
SPECIFICATION AlSpec
CONSTANTS
    NumVoices = 2
    Pieces <- MCSongs
    Drums = 9
    DefaultBank <- MCDefault
    GlideRate <- MCGlide
    Waves <- MCWaves
    MaxAge = 2
    MaxHeld = 2
    MaxGliding = 3
    MaxAstray = 0
VIEW LiveView
INVARIANTS VoicesPartitioned NoNoteHangs ChipSoundsWhatPlays ChipSetAsAsked
PROPERTY StaysInTune
