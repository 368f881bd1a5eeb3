SPECIFICATION Spec
CONSTANTS
    Concurrency = 3
    MaxSize = 5
    MaxLimit = 2
    FaultyCalls = {"create", "part", "complete", "abort"}
    MaxFaults = 2
INVARIANTS TypeOK CompleteListIsWhole ObjectIsFile
PROPERTIES NoOrphan Terminates
