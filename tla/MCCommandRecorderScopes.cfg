SPECIFICATION Spec
CONSTANTS
    NoTable = NoTable
    Modulus32 = 8
    Modulus64 = 64
    MaxCommands = 7
    Stream = "graphics"
    Commands <- MCCommands
    Inputs <- MCInputs
INVARIANT DrawsMatchScope
