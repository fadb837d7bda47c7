SPECIFICATION SearchSpec
CONSTANTS
    empty = empty
    wrong = wrong
    crash = crash
    right = right
    long = long
    Rewrite <- MCRewrite
    Latency <- MCLatency
    Outcomes <- MCOutcomes
    Signal_penalty = 1000000
    UINT = 2000000000
    MaxItrs = 3
    Empty = empty
    Nothing = Nothing
INVARIANTS BestCorrectIsCorrect
CHECK_DEADLOCK FALSE
