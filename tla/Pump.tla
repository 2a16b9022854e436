-------------------------------- MODULE Pump --------------------------------
(***************************************************************************)
(* DownloadService::pump (crates/zvs-host/src/downloads/service.rs).  Any    *)
(* thread may call it at any time; a try_lock decides who does the work, and *)
(* an atomic flag hands the requests of the others over to it.               *)
(***************************************************************************)
CONSTANTS Thread, Nobody

ASSUME NobodyAssumption == Nobody \notin Thread

VARIABLES
    pc,          \* where each thread is in `pump`
    requested,   \* pump_requested
    holder,      \* the thread that owns `pumping`, or Nobody
    closed

pumpVars == <<pc, requested, holder, closed>>

Inside == {"swap", "pass", "unlock"}
Place == {"away", "enter", "store", "try", "recheck"} \cup Inside

PumpTypeOK ==
    /\ pc \in [Thread -> Place]
    /\ requested \in BOOLEAN
    /\ holder \in Thread \cup {Nobody}
    /\ closed \in BOOLEAN

PumpInit ==
    /\ pc = [t \in Thread |-> "away"]
    /\ requested = FALSE /\ holder = Nobody /\ closed = FALSE

Goes(t, from, to) == pc[t] = from /\ pc' = [pc EXCEPT ![t] = to]

Call(t) == Goes(t, "away", "enter") /\ UNCHANGED <<requested, holder, closed>>

Enter(t) ==
    /\ Goes(t, "enter", IF closed THEN "away" ELSE "store")
    /\ UNCHANGED <<requested, holder, closed>>

Store(t) ==
    /\ Goes(t, "store", "try") /\ requested' = TRUE
    /\ UNCHANGED <<holder, closed>>

\* Mutant: a lock that keeps nobody out.
FreeAlways == TRUE
Free == holder = Nobody

\* try_lock: whoever finds the lock taken leaves the request to its owner.
TryLock(t) ==
    /\ IF Free THEN Goes(t, "try", "swap") /\ holder' = t
               ELSE Goes(t, "try", "away") /\ UNCHANGED holder
    /\ UNCHANGED <<requested, closed>>

\* pump_requested.swap(false), the condition of the inner loop.
Swap(t) ==
    /\ Goes(t, "swap", IF requested THEN "pass" ELSE "unlock")
    /\ requested' = FALSE
    /\ UNCHANGED <<holder, closed>>

\* pump_once returns.
Pass(t) == Goes(t, "pass", "swap") /\ UNCHANGED <<requested, holder, closed>>

Unlock(t) ==
    /\ Goes(t, "unlock", "recheck") /\ holder' = Nobody
    /\ UNCHANGED <<requested, closed>>

\* Mutant: the flag is not read again after the lock is released.
LeaveAnyway == "away"

\* The flag is read again once the lock is free.
AfterUnlock == IF requested THEN "enter" ELSE "away"

Recheck(t) ==
    /\ Goes(t, "recheck", AfterUnlock)
    /\ UNCHANGED <<requested, holder, closed>>

\* dispose.
Close == closed' = TRUE /\ UNCHANGED <<pc, requested, holder>>

Work(t) == \/ Enter(t) \/ Store(t) \/ TryLock(t) \/ Swap(t) \/ Pass(t)
           \/ Unlock(t) \/ Recheck(t)

PumpNext == Close \/ \E t \in Thread : Call(t) \/ Work(t)

PumpSpec == PumpInit /\ [][PumpNext]_pumpVars

\* A thread inside `pump`, which is synchronous code, goes on.
PumpFairSpec == PumpSpec /\ \A t \in Thread : WF_pumpVars(Work(t))

-----------------------------------------------------------------------------
\* Two passes never count the free slots at the same time (pump_once).
OnePass == \A s, t \in Thread : pc[s] = "pass" /\ pc[t] = "pass" => s = t

\* No request is left behind: while one is pending some thread is on its way
\* to the flag, so a `WouldBlock` never loses a wake-up.
NoLostRequest == requested /\ ~closed => \E t \in Thread : pc[t] # "away"

Promise == INSTANCE PumpPromise WITH
    wanted <- requested,
    passing <- \E t \in Thread : pc[t] = "pass"

\* The hand-over by flag and try_lock implements PumpPromise.
KeepsPromise == Promise!Spec
=============================================================================
