\* A task stalls past the grace period before its status write.
SPECIFICATION Spec
CONSTANTS
    a = a
    b = b
    c = c
    d = d
    NoNode = NoNode
    Node = {a}
    Rank <- MCRank
    Deps <- MCFree
    When <- MCUnconditional
    Fits = {}
    MaxAttempts <- MCTwo
    Continues = {}
    Timed = {}
    GatePoints <- MCInnerGates
    Concurrency = 2
    Resumable = TRUE
    LateWrites = TRUE
    MaxCrashes = 1
    MaxFaults = 0
INVARIANTS
    OneEnd
