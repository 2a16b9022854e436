\* A crash while a question is open after a decided approval.
SPECIFICATION Spec
CONSTANTS
    a = a
    b = b
    c = c
    d = d
    NoNode = NoNode
    Node = {a}
    Rank <- MCRank
    Deps <- MCFree
    When <- MCUnconditional
    Fits = {}
    MaxAttempts <- MCTwo
    Continues = {}
    Timed = {}
    GatePoints <- MCAskThenAsk
    Concurrency = 2
    Resumable = TRUE
    LateWrites = FALSE
    MaxCrashes = 1
    MaxFaults = 0
PROPERTIES
    QuestionNotDenied
