\* The cap on transfers across a restart; commands that settle a row by a stale
\* reading, which break it too, are kept out by the constraint.
SPECIFICATION Spec
CONSTANTS
    d1 = d1
    d2 = d2
    r1 = r1
    r2 = r2
    u = u
    Download = {d1, d2}
    Item = {d1, d2}
    ItemOf <- MCItemOf
    Run = {r1, r2}
    Call = {u}
    Concurrency = 1
    NoDownload = NoDownload
    NoRun = NoRun
SYMMETRY MCSymmetry
INVARIANTS
    TransfersCapped
CONSTRAINT MCNoSettling
