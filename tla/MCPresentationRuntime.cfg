SPECIFICATION FairSpec
CONSTANTS
    image1 = image1
    image2 = image2
    image3 = image3
    Images <- ThreeImages
    FramesInFlight = 2
    MaxFrames = 5
INVARIANTS
    TypeOK
    CommandBufferNotInUse
    ImageHasOneWriter
    AcquireSemaphoreUnused
    RenderFinishedAwaited
    PriorMetricsOfSlot
PROPERTIES
    PacesFrames
    BeginFrameReturns
    DestroyReturns
