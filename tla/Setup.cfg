SPECIFICATION Spec
CONSTANTS
    MixBufferSize = 256
    NumberOfBuffers = 16
    TotalBufferSize = 4096
    Machines <- MCMachines
    Requests <- MCRequests
    NoBlasterEnv <- MCNoConfig
    Rates = {11025, 44100}
    Volumes = {100, 255}
    Faults = {"none", "lists", "memory", "lock", "stack", "task"}
INVARIANTS InterruptsSafe CardAgrees GivesBack VolumeKept
