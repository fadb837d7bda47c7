SPECIFICATION Spec
CONSTANTS
    MAX_WORKER = 2
    MaxCalls = 3
    MaxTests = 2
    Crashes <- SomeCrashes
    Faults = {"early"}
INVARIANTS Connects
CHECK_DEADLOCK FALSE
