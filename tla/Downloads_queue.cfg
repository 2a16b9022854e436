\* Two downloads, one slot, one command in flight, two launches; the host may
\* stop or die and come back at any time.
SPECIFICATION Spec
CONSTANTS
    d1 = d1
    d2 = d2
    r1 = r1
    r2 = r2
    u = u
    Download = {d1, d2}
    Item = {d1, d2}
    ItemOf <- MCItemOf
    Run = {r1, r2}
    Call = {u}
    Concurrency = 1
    NoDownload = NoDownload
    NoRun = NoRun
SYMMETRY MCSymmetry
INVARIANTS
    CapRespected
    NoneStranded
