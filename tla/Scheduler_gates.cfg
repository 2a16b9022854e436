\* Two concurrent nodes with approvals and questions over one restart.
SPECIFICATION Spec
CONSTANTS
    a = a
    b = b
    c = c
    d = d
    NoNode = NoNode
    Node = {a, b}
    Rank <- MCRank
    Deps <- MCFree
    When <- MCUnconditional
    Fits = {}
    MaxAttempts <- MCTwo
    Continues = {}
    Timed = {}
    GatePoints <- MCGates
    Concurrency = 2
    Resumable = TRUE
    LateWrites = FALSE
    MaxCrashes = 1
    MaxFaults = 0
INVARIANTS
    TypeOK
    GatesCounted
    DenialReported
PROPERTIES
    FailsForCause
