SPECIFICATION Spec
CONSTANTS
    MAX_WORKER = 3
    MaxCalls = 4
    MaxTests = 2
    Crashes <- SomeCrashes
    Faults = {"early", "socket", "compile", "fork"}
INVARIANTS TypeOK ReferencePublished MessageBoundaries LibraryKept NoOrphans
CHECK_DEADLOCK FALSE
