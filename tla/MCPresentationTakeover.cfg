SPECIFICATION FairSpec
CONSTANT MaxGenerations = 3
INVARIANTS
    TypeOK
    SwapchainExclusive
    OwnsWhatLives
    RuntimeMayBegin
    FrameFlagsAgree
    HostHasSwapchain
PROPERTIES
    OwnsInTurn
    FailureFallsBack
