\* One fade at a time, two channels, one of them told to a function of the program.
SPECIFICATION FairSpec
CONSTANTS
    Cards <- MCCards
    Channel = {1, 2}
    Rerouted = {2}
    Kept = {}
    MaxVolume = 2
    Full = 2
    Precision = 8
    DefaultVolume = 2
    Grain = 2
    Volumes = {0, 2}
    UserVolumes = {1}
    SongVolumes = {1}
    Lengths = {2}
    Task = {f1}
    Null = Null
VIEW LiveView
INVARIANTS FadeIsKnown VolumesAgree
PROPERTIES FadesEvenly FadeEnds
