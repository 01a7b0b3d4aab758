CONSTANTS
    RbFrames <- MCRbFrames
    FifoFrames <- MCFifoFrames
    HighWaterFrames <- MCHighWaterFrames
    LowWaterFrames <- MCLowWaterFrames
    UnderflowCooldown <- MCUnderflowCooldown
    StartTime <- MCStartTime
SPECIFICATION FairSpec
CONSTRAINT TimeBound
INVARIANTS
    NoStaleAudio
    NeverWriteBehindDma
PROPERTIES
    ProcessTerminates
    ShutdownIsFinal
