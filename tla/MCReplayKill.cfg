SPECIFICATION Spec
CONSTANTS
    MAX_WORKER = 2
    MaxCalls = 3
    MaxTests = 2
    Crashes <- SomeCrashes
    Faults = {"early"}
PROPERTIES AllWorkersKilled
CHECK_DEADLOCK FALSE
