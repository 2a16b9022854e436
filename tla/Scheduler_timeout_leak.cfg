\* A step timeout drops an open gate.
SPECIFICATION Spec
CONSTANTS
    a = a
    b = b
    c = c
    d = d
    NoNode = NoNode
    Node = {a}
    Rank <- MCRank
    Deps <- MCFree
    When <- MCUnconditional
    Fits = {}
    MaxAttempts <- MCTwo
    Continues = {}
    Timed = {a}
    GatePoints <- MCInnerGates
    Concurrency = 2
    Resumable = TRUE
    LateWrites = FALSE
    MaxCrashes = 0
    MaxFaults = 0
PROPERTIES
    FailsForCause
