\* The small services of the host, one per behaviour.
SPECIFICATION ServicesSpec
CONSTANTS
    user1 = user1
    user2 = user2
    Client = {user1, user2}
    MayCancel = TRUE
    MayRevoke = TRUE
    words = words
    thoughts = thoughts
    TokenKind = {words, thoughts}
    MaxEvents = 5
    MaxCrashes = 2
    MaxFaults = 2
    t1 = t1
    t2 = t2
    t3 = t3
    Nobody = Nobody
    Thread = {t1, t2, t3}
    parent1 = parent1
    child1 = child1
    run1 = run1
    Run = {parent1, child1, run1}
    Child = {child1}
    Parent <- MCParent
    Resumable = {run1}
    MaxReboots = 1
    MaxUnlaunched = 1
    Caller = {user1, user2}
    NoCaller = Nobody
    User = {user1, user2}
    MaxRestarts = 1
    MaxCommands = 2
    MaxLaunches = 3
INVARIANTS
    TypesOK
    AdmissionNeedsApproval
    
    RecordIsStream
    OnePass
    NoLostRequest
    
    DisposeDrains
    WaitersServed
    ServersAccounted
PROPERTIES
    DisabledNeverAdmitted
    RequestEnds
    CrashLosesTokensOnly
    
    KeepsPromise
    ChildrenFollow
    CancelledJobsEnd
