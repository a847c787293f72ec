SPECIFICATION Spec
CONSTANTS
    NoTable = NoTable
    Modulus32 = 8
    Modulus64 = 64
    MaxCommands = 5
    Stream = "mixed"
    Commands <- MCCommands
    Inputs <- MCInputs
INVARIANTS
    TypeOK
    ScopesAlternate
    DrawsAreComplete
    BindsMatchScope
    PushesReachBoundPipeline
    RangesInside
