SPECIFICATION Spec
CONSTANTS
    c1 = c1
    c2 = c2
    d1 = d1
    d2 = d2
    d3 = d3
    r1 = r1
    r2 = r2
    Callers <- MCCallers
    Devices <- MCDevices
    Runtimes <- MCRuntimes
    Scenarios <- MCScenarios
    Holder = c1
    Addresses = {1, 2}
    NoAddress = 0
    NoDevice = NoDevice
    HeapAddresses = {11, 12}
    NoRuntime = NoRuntime
    Leftovers = {"absent", "partial", "complete"}
INVARIANTS
    CapabilityIsTheNewestDevices
    ReturnedIsComplete
    EverythingHasOneOwner
    ReportedByThisCall
CHECK_DEADLOCK FALSE
