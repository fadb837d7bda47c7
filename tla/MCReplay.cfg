SPECIFICATION Spec
CONSTANTS
    MAX_WORKER = 3
    MaxCalls = 4
    MaxTests = 2
    Crashes <- SomeCrashes
    Faults = {"early", "socket", "compile"}
PROPERTIES KeepsPromise TestAnswered ConnectedWorkersEnd
CHECK_DEADLOCK FALSE
