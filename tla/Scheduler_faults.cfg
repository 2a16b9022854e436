\* Commits that fail, over one restart.
SPECIFICATION FairSpec
CONSTANTS
    a = a
    b = b
    c = c
    d = d
    NoNode = NoNode
    Node = {a, b}
    Rank <- MCRank
    Deps <- MCChain
    When <- MCUnconditional
    Fits = {}
    MaxAttempts <- MCTwo
    Continues = {}
    Timed = {a}
    GatePoints <- MCInnerGates
    Concurrency = 2
    Resumable = FALSE
    LateWrites = FALSE
    MaxCrashes = 1
    MaxFaults = 2
INVARIANTS
    EndMatchesStatus
PROPERTIES
    CancelEnds
