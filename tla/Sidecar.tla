------------------------------- MODULE Sidecar -------------------------------
(* SidecarDriver (drivers/sidecar/mod.rs): one child process, spawned when a *)
(* job needs it, serves the jobs of all callers.  It may crash, go silent,   *)
(* close its input or ignore a cancellation; callers come, are cancelled and *)
(* are dropped in the middle, and dispose races with all of it.  The length  *)
(* of the backoff and the progress of a job are left out.                    *)
EXTENDS Naturals, FiniteSets

CONSTANTS Caller, NoCaller

ASSUME CallerAssumption == IsFiniteSet(Caller) /\ NoCaller \notin Caller

VARIABLES
    place,       \* where `run` of each caller is
    starter,     \* holder of `starting`
    child,       \* State.child: the generation of the process, or 0
    spawned,     \* State.generation
    up,          \* processes that live
    killed,      \* ... whose token was cancelled
    broken,      \* ... whose input can no longer be written
    jobs,        \* State.jobs
    answer,      \* what was sent to the oneshot of each job
    sentTo,      \* the process whose input got `job.start`
    lines,       \* jobs whose result is in the output, not yet read
    cancels,     \* jobs whose token is cancelled
    noticed,     \* ... and whose caller has seen it
    armed,       \* jobs whose grace period runs
    disposal,    \* where `dispose` is
    victim       \* the process it waits for

process == <<child, spawned, up, killed, broken>>
slots == <<jobs, answer, lines>>
cancelling == <<cancels, noticed, armed>>
ending == <<disposal, victim>>
sidecarVars == <<place, starter, process, slots, sentTo, cancelling, ending>>

Generation == 1 .. Cardinality(Caller)
Waypoint == {"idle", "looking", "locking", "rechecking", "resting", "spawning",
             "registering", "sending", "waiting", "done"}
DriverClosed == disposal # "none"

SidecarTypeOK ==
    /\ place \in [Caller -> Waypoint]
    /\ starter \in Caller \cup {NoCaller}
    /\ {child, victim, spawned} \subseteq {0} \cup Generation
    /\ {up, killed, broken} \subseteq SUBSET Generation
    /\ {jobs, lines, cancels, noticed, armed} \subseteq SUBSET Caller
    /\ answer \in [Caller -> {"none", "result", "unavailable"}]
    /\ sentTo \in [Caller -> {0} \cup Generation]
    /\ disposal \in {"none", "closed", "waiting", "done"}

SidecarInit ==
    /\ place = [c \in Caller |-> "idle"] /\ starter = NoCaller
    /\ child = 0 /\ spawned = 0 /\ up = {} /\ killed = {} /\ broken = {}
    /\ jobs = {} /\ answer = [c \in Caller |-> "none"] /\ lines = {}
    /\ sentTo = [c \in Caller |-> 0]
    /\ cancels = {} /\ noticed = {} /\ armed = {}
    /\ disposal = "none" /\ victim = 0

-----------------------------------------------------------------------------
(* run: the child is there, or is spawned under the lock.                    *)

Steps(c, from, to) == place[c] = from /\ place' = [place EXCEPT ![c] = to]

RunJob(c) ==
    /\ Steps(c, "idle", IF DriverClosed \/ c \in cancels THEN "done" ELSE "looking")
    /\ UNCHANGED <<starter, process, slots, sentTo, cancelling, ending>>

LookForChild(c) ==
    /\ Steps(c, "looking", IF child # 0 THEN "registering" ELSE "locking")
    /\ UNCHANGED <<starter, process, slots, sentTo, cancelling, ending>>

LockStarting(c) ==
    /\ starter = NoCaller /\ starter' = c
    /\ Steps(c, "locking", "rechecking")
    /\ UNCHANGED <<process, slots, sentTo, cancelling, ending>>

\* Mutant: whoever was waiting for the lock spawns another child.
StillNone == TRUE

NoChild == child = 0

LookAgain(c) ==
    /\ Steps(c, "rechecking", IF NoChild THEN "resting" ELSE "registering")
    /\ starter' = IF NoChild THEN starter ELSE NoCaller
    /\ UNCHANGED <<process, slots, sentTo, cancelling, ending>>

(* The backoff is over.                                                      *)
Rested(c) ==
    /\ Steps(c, "resting", IF DriverClosed THEN "done" ELSE "spawning")
    /\ starter' = IF DriverClosed THEN NoCaller ELSE starter
    /\ UNCHANGED <<process, slots, sentTo, cancelling, ending>>

SpawnChild(c) ==
    /\ Steps(c, "spawning", "registering") /\ starter' = NoCaller
    /\ spawned' = spawned + 1 /\ child' = spawned' /\ up' = up \cup {spawned'}
    /\ UNCHANGED <<killed, broken, slots, sentTo, cancelling, ending>>

SpawnFails(c) ==
    /\ Steps(c, "spawning", "done") /\ starter' = NoCaller
    /\ UNCHANGED <<process, slots, sentTo, cancelling, ending>>

(* The slot comes first; the child may be another one by the time of `send`. *)
AddSlot(c) ==
    /\ Steps(c, "registering", "sending") /\ jobs' = jobs \cup {c}
    /\ UNCHANGED <<starter, process, answer, lines, sentTo, cancelling, ending>>

Reachable == child # 0 /\ child \notin broken

SendStart(c) ==
    /\ IF Reachable
         THEN Steps(c, "sending", "waiting") /\ sentTo' = [sentTo EXCEPT ![c] = child]
              /\ UNCHANGED jobs
         ELSE Steps(c, "sending", "done") /\ jobs' = jobs \ {c} /\ UNCHANGED sentTo
    /\ UNCHANGED <<starter, process, answer, lines, cancelling, ending>>

-----------------------------------------------------------------------------
(* The select of run *)

(* The slot goes with the future, and so does what only `run` knew.          *)
Leaves(c) ==
    /\ jobs' = jobs \ {c} /\ sentTo' = [sentTo EXCEPT ![c] = 0]
    /\ cancels' = cancels \ {c} /\ noticed' = noticed \ {c} /\ armed' = armed \ {c}

HearAnswer(c) ==
    /\ answer[c] # "none" /\ Steps(c, "waiting", "done") /\ Leaves(c)
    /\ UNCHANGED <<starter, process, answer, lines, ending>>

(* A cancellation that reaches the child starts the grace period.            *)
PassOnCancel(c) ==
    /\ place[c] = "waiting" /\ c \in cancels \ noticed
    /\ noticed' = noticed \cup {c}
    /\ armed' = IF Reachable THEN armed \cup {c} ELSE armed
    /\ UNCHANGED <<place, starter, process, slots, sentTo, cancels, ending>>

\* Mutant: the grace period ends without a kill.
SparesChild(c) == {}

(* The job was ignored: the current child is killed, with every job in it.   *)
Condemned(c) == IF c \in jobs THEN {child} \ {0} ELSE {}

GraceEnds(c) ==
    /\ place[c] = "waiting" /\ c \in armed /\ armed' = armed \ {c}
    /\ killed' = killed \cup Condemned(c)
    /\ UNCHANGED <<place, starter, child, spawned, up, broken, slots, sentTo,
                   cancels, noticed, ending>>

(* The future is dropped at an await; the child is not told.                 *)
DropRun(c) ==
    /\ place[c] \in {"locking", "resting", "waiting"}
    /\ place' = [place EXCEPT ![c] = "done"] /\ Leaves(c)
    /\ starter' = IF starter = c THEN NoCaller ELSE starter
    /\ UNCHANGED <<process, answer, lines, ending>>

CancelJob(c) ==
    /\ c \notin cancels /\ place[c] # "done" /\ cancels' = cancels \cup {c}
    /\ UNCHANGED <<place, starter, process, slots, sentTo, noticed, armed, ending>>

-----------------------------------------------------------------------------
(* The child, its reader, writer and health check *)

Finishes(c) ==
    /\ sentTo[c] \in up /\ c \in jobs \ lines
    /\ lines' = lines \cup {c}
    /\ UNCHANGED <<place, starter, process, jobs, answer, sentTo, cancelling, ending>>

(* read_output, route, settle: the reader may be behind the exit.            *)
Route(c) ==
    /\ c \in lines /\ lines' = lines \ {c} /\ jobs' = jobs \ {c}
    /\ answer' = IF c \in jobs THEN [answer EXCEPT ![c] = "result"] ELSE answer
    /\ UNCHANGED <<place, starter, process, sentTo, cancelling, ending>>

InputBreaks(g) ==
    /\ g = child /\ g \notin broken /\ broken' = broken \cup {g}
    /\ UNCHANGED <<place, starter, child, spawned, up, killed, slots, sentTo,
                   cancelling, ending>>

(* A ping cannot be sent or is not answered in time.                         *)
HealthKills(g) ==
    /\ g = child /\ g \notin killed /\ ~DriverClosed /\ killed' = killed \cup {g}
    /\ UNCHANGED <<place, starter, child, spawned, up, broken, slots, sentTo,
                   cancelling, ending>>

Exits(g) ==
    /\ g \in up /\ up' = up \ {g}
    /\ UNCHANGED <<place, starter, child, spawned, killed, broken, slots, sentTo,
                   cancelling, ending>>

(* The child is forgotten and every pending job fails.                       *)
Retire ==
    /\ child # 0 /\ child \notin up /\ child' = 0
    /\ killed' = killed \ {child} /\ broken' = broken \ {child}
    /\ jobs' = {}
    /\ answer' = [c \in Caller |-> IF c \in jobs THEN "unavailable" ELSE answer[c]]
    /\ UNCHANGED <<place, starter, spawned, up, lines, sentTo, cancelling, ending>>

-----------------------------------------------------------------------------
(* dispose *)

CloseDriver ==
    /\ disposal = "none" /\ disposal' = "closed"
    /\ UNCHANGED <<place, starter, process, slots, sentTo, cancelling, victim>>

KillChild ==
    /\ disposal = "closed" /\ disposal' = "waiting"
    /\ victim' = child /\ killed' = killed \cup ({child} \ {0})
    /\ UNCHANGED <<place, starter, child, spawned, up, broken, slots, sentTo, cancelling>>

ChildGone ==
    /\ disposal = "waiting" /\ (victim = 0 \/ child # victim) /\ disposal' = "done"
    /\ UNCHANGED <<place, starter, process, slots, sentTo, cancelling, victim>>

(* Every caller has its answer and the driver is shut.                       *)
SidecarOver ==
    /\ disposal = "done" /\ \A c \in Caller : place[c] = "done"
    /\ UNCHANGED sidecarVars

-----------------------------------------------------------------------------
CallerStep(c) ==
    \/ LookForChild(c) \/ LockStarting(c) \/ LookAgain(c) \/ Rested(c)
    \/ SpawnChild(c) \/ SpawnFails(c) \/ AddSlot(c) \/ SendStart(c)
    \/ HearAnswer(c) \/ PassOnCancel(c) \/ GraceEnds(c)

SidecarNext ==
    \/ \E c \in Caller : \/ RunJob(c) \/ CallerStep(c) \/ DropRun(c) \/ CancelJob(c)
                         \/ Finishes(c) \/ Route(c)
    \/ \E g \in Generation : InputBreaks(g) \/ HealthKills(g) \/ Exits(g)
    \/ Retire \/ CloseDriver \/ KillChild \/ ChildGone \/ SidecarOver

(* A killed process dies, a dead one is waited for, and a ping that cannot   *)
(* be written fails.                                                         *)
Reaped == Retire \/ \E g \in Generation : g \in killed /\ Exits(g)
Diagnosed == \E g \in broken : HealthKills(g)

SidecarSpec ==
    /\ SidecarInit /\ [][SidecarNext]_sidecarVars
    /\ \A c \in Caller : WF_sidecarVars(CallerStep(c))
    /\ WF_sidecarVars(Reaped) /\ WF_sidecarVars(Diagnosed)

-----------------------------------------------------------------------------
(* Nobody waits in vain: a job that has no answer yet has its slot and is in *)
(* the process that the driver watches, so whatever becomes of the process   *)
(* answers it, over every order of spawns, exits, sends and late lines       *)
(* (ensure, run, retire, settle).                                            *)
WaitersServed ==
    \A c \in Caller :
        place[c] = "waiting" /\ answer[c] = "none" =>
            c \in jobs /\ child # 0 /\ sentTo[c] = child

(* "kills the process if the job is still running after the 2 s grace"       *)
(* (crates/zvs-host/README.md, "Core and sidecar"): a cancelled job ends,    *)
(* though the sidecar may ignore it, be silent or not hear it.               *)
CancelledJobsEnd ==
    \A c \in Caller :
        (c \in cancels /\ place[c] = "waiting") ~> (place[c] = "done" \/ DriverClosed)

=============================================================================
