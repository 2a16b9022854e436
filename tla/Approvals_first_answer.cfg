\* Two clients answer at the same time.
SPECIFICATION Spec
CONSTANTS
    x = x
    y = y
    Client = {x, y}
    MayCancel = FALSE
    MayRevoke = FALSE
INVARIANTS
    OneAnswerAccepted
