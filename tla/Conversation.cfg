\* Loads of two messages, two processes, a goal and a restart over two threads;
\* or two runs with two batches over two files, one change by somebody else, two
\* failing writes and one death.
SPECIFICATION TurnsSpec
CONSTANTS
    t1 = t1
    t2 = t2
    s1 = s1
    s2 = s2
    Threads = {t1, t2}
    Messages = {1, 2}
    Shells = {s1, s2}
    QueueMax = 2
    StreakMax = 1
    Loads <- MCLoads
    file1 = file1
    file2 = file2
    w1 = w1
    w2 = w2
    Worker = {w1, w2}
    File = {file1, file2}
    Existing = {file1}
    NoFile = NoFile
    Batch <- MCBatch
    LedgerRuns = 1
    MaxBatches = 2
    MaxEdits = 1
    MaxIoErrors = 2
    MaxDeaths = 1
SYMMETRY MCSymmetry
INVARIANTS
    TypesOK
    QueueServed
    GoalServed
    WakeServed
    OriginalsKept
    LedgerCurrent
PROPERTIES
    KeepsMailbox
    AllOrNothing
CHECK_DEADLOCK FALSE
