\* A branch and its join against the order of the ids, with a retry, an
\* approval and one restart.
SPECIFICATION CooperativeSpec
CONSTANTS
    a = a
    b = b
    c = c
    d = d
    NoNode = NoNode
    Node = {a, b, c, d}
    Rank <- MCBackwards
    Deps <- MCDiamond
    When <- MCBranch
    Fits = {d}
    MaxAttempts <- MCRetry
    Continues = {a}
    Timed = {}
    GatePoints <- MCInnerGates
    Concurrency = 2
    Resumable = TRUE
    LateWrites = FALSE
    MaxCrashes = 1
    MaxFaults = 0
INVARIANTS
    OneAttemptAtATime
    RetryBudget
    FinishedRowsSettled
PROPERTIES
    KeepsContract
    CheckpointsFinal
    SuccessIsComplete
    RunEnds
