SPECIFICATION Spec
CONSTANTS
    NoTable = NoTable
    Modulus32 = 8
    Modulus64 = 64
    MaxCommands = 2
    Stream = "mixed"
    Commands <- MCCommands
    Inputs <- MCInputs
INVARIANT UploadsHaveUsage
