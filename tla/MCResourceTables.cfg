SPECIFICATION Spec
CONSTANTS
    Plans <- MCPlans
    MaxEntries = 2
    FieldValues <- MCFieldValues
    PartValues <- MCPartValues
    Stray <- MCStray
    Modulus <- MCModulus
INVARIANTS
    WrittenTablesAreAccepted
    AcceptedTablesCouldBeWritten
    NothingLeaks
    ViewsOfLiveImages
CHECK_DEADLOCK FALSE
