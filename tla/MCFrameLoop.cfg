SPECIFICATION FairSpec
CONSTANTS
    FramesInFlight = 3
    MaxFrames = 7
INVARIANTS
    TypeOK
    ParametersKept
    FencesOutliveJobs
PROPERTIES
    PacesFrames
    BeginFrameReturns
