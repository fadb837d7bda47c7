SPECIFICATION Spec
CONSTANTS
    PageSize = 4
    Locals = 3
    Linkage = 1
    StackTop = 26
    HeapSize = 1
    FramePointers = {16, 17, 19}
    ReturnTypes = {"i64", "i32", "i8", "void"}
    Targets <- SomeTargets
    Rewrites <- SomeRewrites
    Junk = {0, 15}
CHECK_DEADLOCK FALSE
INVARIANTS
    ResponseExact
    RuntimeFrameKept
