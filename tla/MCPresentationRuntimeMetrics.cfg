SPECIFICATION Spec
CONSTANTS
    image1 = image1
    image2 = image2
    image3 = image3
    Images <- TwoImages
    FramesInFlight = 2
    MaxFrames = 3
INVARIANT PriorMetricsOfCompletedFrame
