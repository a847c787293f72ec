SPECIFICATION ModuleSpec
CONSTANTS
    Writers <- MCWriters
    Recordings <- MCRecordings
    Commands <- MCCommands
    MaxAppends = 2
    ModuleGraphHash = "graph"
    TableTypes <- MCTableTypes
    TableByteSize <- MCTableByteSize
    SectionIndices <- MCSectionIndices
    TargetSlack <- MCTargetSlack
    StrayEntry <- MCStrayEntry
    Modulus = 1024
    MaxChanges = 1
INVARIANTS
    AcceptedStreamsReplayAppends
    UndisturbedStreamsAreAccepted
    WrittenModulesAreAccepted
    AcceptedModulesAreConsistent
CHECK_DEADLOCK FALSE
