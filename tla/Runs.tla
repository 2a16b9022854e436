-------------------------------- MODULE Runs --------------------------------
(* RunService (services/runs.rs) over several runs: start_with, the table of *)
(* active runs, cancel, dispose and recover, the bus that opens the stream   *)
(* of a run once, and the delegate call of services/chat/subagent.rs, by     *)
(* which a run starts a child run.  Scheduler says what one run does; here a *)
(* run only works, ends by itself, or ends because its token was cancelled.  *)
EXTENDS Naturals, FiniteSets

CONSTANTS
    Run,
    Child,        \* runs that are started by a delegate call of their parent
    Parent,       \* the parent of each of them
    Resumable,    \* runs whose graph has no node with side effects
    MaxReboots,   \* bound
    MaxUnlaunched \* bound on the starts that fail after their transaction

ASSUME FamilyAssumption ==
    /\ Child \subseteq Run
    /\ Parent \in [Child -> Run \ Child]
    /\ Resumable \subseteq Run \ (Child \cup {Parent[c] : c \in Child})
ASSUME RunsBoundAssumption == MaxReboots \in Nat /\ MaxUnlaunched \in Nat

VARIABLES
    status,      \* run.status
    stage,       \* where start_with of each run is
    exec,        \* where the task of each instance of a run is
    token,       \* instances whose token is cancelled
    stopping,    \* instances that were suspended
    entry,       \* RunServiceInner.active: the instance that cancel finds
    streams,     \* BusInner.live
    watching,    \* children their delegate call waits for
    signals,     \* runs that a client's cancel is about to cancel
    phase,       \* of the host: recovery at boot, dispose at shutdown
    todo,        \* runs recover has read as unfinished
    taken,       \* the run recover found not active
    draining,    \* instances dispose waits for
    launches,    \* instances launched since the host booted (history)
    late,        \* those launched after dispose looked (history)
    reboots, unlaunched

start == <<stage, watching>>
history == <<launches, late>>
tasks == <<exec, token, stopping, entry, streams, history>>
boot == <<phase, todo, taken, draining>>
counts == <<reboots, unlaunched>>
runVars == <<status, start, tasks, signals, boot, counts>>

(* A run is executed for its start, and possibly once more for recovery.     *)
Instance == Run \X {"start", "recovery"}
Unended == {"queued", "running"}
Endings == {"succeeded", "failed", "cancelled", "interrupted"}

Closed == phase \in {"closed", "draining", "drained"}
Live(i) == exec[i] \in {"ready", "working"}
Entered(r) == {i \in {<<r, entry[r]>>} : entry[r] # "none"}

RunsInit ==
    /\ status = [r \in Run |-> "none"] /\ stage = [r \in Run |-> "none"]
    /\ exec = [i \in Instance |-> "none"]
    /\ token = {} /\ stopping = {} /\ entry = [r \in Run |-> "none"]
    /\ streams = {} /\ watching = {} /\ signals = {}
    /\ phase = "boot" /\ todo = {} /\ taken = {} /\ draining = {}
    /\ launches = {} /\ late = {}
    /\ reboots = 0 /\ unlaunched = 0

RunsTypeOK ==
    /\ status \in [Run -> {"none"} \cup Unended \cup Endings]
    /\ stage \in [Run -> {"none", "checked", "refused", "inserted", "launched",
                          "stranded", "before"}]
    /\ exec \in [Instance -> {"none", "ready", "working", "settled"}]
    /\ {token, stopping, draining, launches, late} \subseteq SUBSET Instance
    /\ late \subseteq launches
    /\ entry \in [Run -> {"none", "start", "recovery"}]
    /\ {streams, todo, taken, signals} \subseteq SUBSET Run
    /\ watching \subseteq Child
    /\ phase \in {"boot", "recovering", "up", "closed", "draining", "drained"}
    /\ reboots \in 0 .. MaxReboots /\ unlaunched \in 0 .. MaxUnlaunched

-----------------------------------------------------------------------------
(* start_with *)

Reaches(r, to) == stage' = [stage EXCEPT ![r] = to]

(* A child is started by a node of its parent; that node has looked at the   *)
(* token, if at all, before.  Clients may start runs while the host boots.   *)
MayStart(r) == r \in Child => exec[<<Parent[r], "start">>] = "working"

CheckClosed(r) ==
    /\ stage[r] = "none" /\ MayStart(r)
    /\ Reaches(r, IF Closed THEN "refused" ELSE "checked")
    /\ UNCHANGED <<status, watching, tasks, signals, boot, counts>>

InsertRow(r) ==
    /\ stage[r] = "checked"
    /\ Reaches(r, "inserted")
    /\ status' = [status EXCEPT ![r] = "queued"]
    /\ UNCHANGED <<watching, tasks, signals, boot, counts>>

(* launch: the scheduler, its entry and its task.                            *)
Launched(r, as) ==
    /\ streams' = streams \cup {r}
    /\ entry' = [entry EXCEPT ![r] = as]
    /\ exec' = [exec EXCEPT ![<<r, as>>] = "ready"]
    /\ launches' = launches \cup {<<r, as>>}
    /\ late' = IF phase \in {"draining", "drained"} THEN late \cup {<<r, as>>} ELSE late
    /\ UNCHANGED <<token, stopping>>

(* open_stream and launch; the bus refuses a stream that recovery has open.  *)
LaunchRun(r) ==
    /\ stage[r] = "inserted"
    /\ \/ r \notin streams /\ Launched(r, "start") /\ Reaches(r, "launched")
          /\ watching' = watching \cup ({r} \cap Child)
       \/ r \in streams /\ Reaches(r, "refused") /\ UNCHANGED <<watching, tasks>>
    /\ UNCHANGED <<status, signals, boot, counts>>

(* Something fails after the transaction: the row stays.                     *)
LaunchFails(r) ==
    /\ stage[r] = "inserted" /\ unlaunched < MaxUnlaunched
    /\ Reaches(r, "stranded")
    /\ unlaunched' = unlaunched + 1
    /\ UNCHANGED <<status, watching, tasks, signals, boot, reboots>>

-----------------------------------------------------------------------------
(* The task of a run *)

Moves(i, from, to) == exec[i] = from /\ exec' = [exec EXCEPT ![i] = to]
Ends(i, as) == status' = [status EXCEPT ![i[1]] = as]

(* drive sets the status before it looks at the token.                       *)
BeginRun(i) ==
    /\ Moves(i, "ready", "working") /\ Ends(i, "running")
    /\ UNCHANGED <<start, token, stopping, entry, streams, history, signals, boot, counts>>

(* A node fails for good: its siblings are cancelled.                        *)
NodeFails(i) ==
    /\ exec[i] = "working" /\ i \notin token
    /\ token' = token \cup {i}
    /\ UNCHANGED <<status, start, exec, stopping, entry, streams, history, signals, boot, counts>>

Delegating(i) ==
    {c \in Child : i = <<Parent[c], "start">>
                   /\ (c \in watching \/ stage[c] \in {"checked", "inserted"})}

(* The run ends when its nodes have; a cancelled one leaves them behind when *)
(* the grace period is over.  `end` releases the stream.                     *)
FinishRun(i, as) ==
    /\ Moves(i, "working", "settled")
    /\ i \notin stopping
    /\ IF as = "succeeded" THEN i \notin token /\ Delegating(i) = {} ELSE i \in token
    /\ Ends(i, as)
    /\ streams' = streams \ {i[1]}
    /\ UNCHANGED <<start, token, stopping, entry, history, signals, boot, counts>>

(* A suspended run leaves its row as it is.                                  *)
Suspended(i) ==
    /\ Moves(i, "working", "settled") /\ i \in stopping
    /\ UNCHANGED <<status, start, token, stopping, entry, streams, history, signals, boot, counts>>

(* The entry of the run goes, whichever instance it is for.                  *)
LeaveTable(i) ==
    /\ Moves(i, "settled", "none")
    /\ entry' = [entry EXCEPT ![i[1]] = "none"]
    /\ UNCHANGED <<status, start, token, stopping, streams, history, signals, boot, counts>>

-----------------------------------------------------------------------------
(* The select of a delegate call: the child is done, or the token of the     *)
(* call is cancelled.                                                        *)

HearDone(c) ==
    /\ c \in watching /\ exec[<<c, "start">>] = "none"
    /\ watching' = watching \ {c}
    /\ UNCHANGED <<status, stage, tasks, signals, boot, counts>>

\* Mutant: the call only stops waiting.
SignalsNobody(c) == {}

(* signal_cancel *)
Signalled(c) == Entered(c)

HearCancel(c) ==
    /\ c \in watching /\ <<Parent[c], "start">> \in token
    /\ watching' = watching \ {c}
    /\ token' = token \cup Signalled(c)
    /\ UNCHANGED <<status, stage, exec, stopping, entry, streams, history, signals, boot, counts>>

(* cancel: the children with unfinished rows, then the run itself, each      *)
(* looked up in the table when its turn comes.                               *)
CancelReads(r) ==
    /\ signals = {} /\ status[r] # "none"
    /\ signals' = {r} \cup {c \in Child : Parent[c] = r /\ status[c] \in Unended}
    /\ UNCHANGED <<status, start, tasks, boot, counts>>

CancelSignals(r) ==
    /\ r \in signals /\ (r \in Child \/ signals \cap Child = {})
    /\ signals' = signals \ {r}
    /\ token' = token \cup Entered(r)
    /\ UNCHANGED <<status, start, exec, stopping, entry, streams, history, boot, counts>>

-----------------------------------------------------------------------------
(* dispose *)

CloseRuns ==
    /\ phase = "up" /\ phase' = "closed"
    /\ UNCHANGED <<status, start, tasks, signals, todo, taken, draining, counts>>

(* The table is read and every run in it suspended.                          *)
SuspendAll ==
    /\ phase = "closed" /\ phase' = "draining"
    /\ draining' = UNION {Entered(r) : r \in Run}
    /\ stopping' = stopping \cup draining' /\ token' = token \cup draining'
    /\ UNCHANGED <<status, start, exec, entry, streams, history, signals, todo, taken, counts>>

\* Mutant: dispose waits for nobody.
DrainedAtOnce == TRUE

Drained == \A i \in draining : exec[i] = "none"

Disposed ==
    /\ phase = "draining" /\ Drained /\ phase' = "drained"
    /\ UNCHANGED <<status, start, tasks, signals, todo, taken, draining, counts>>

(* The process ends, after a shutdown or in the middle of anything, and is   *)
(* started again.                                                            *)
Reboot ==
    /\ phase # "boot" /\ reboots < MaxReboots
    /\ reboots' = reboots + 1
    /\ stage' = [r \in Run |-> IF status[r] = "none" THEN "none" ELSE "before"]
    /\ exec' = [i \in Instance |-> "none"]
    /\ token' = {} /\ stopping' = {} /\ entry' = [r \in Run |-> "none"]
    /\ streams' = {} /\ watching' = {} /\ signals' = {}
    /\ phase' = "boot" /\ todo' = {} /\ taken' = {} /\ draining' = {}
    /\ launches' = {} /\ late' = {}
    /\ UNCHANGED <<status, unlaunched>>

(* The host stays off.                                                       *)
Off == phase = "drained" /\ UNCHANGED runVars

-----------------------------------------------------------------------------
(* recover *)

\* Mutant: a run that has not begun is left out.
UnfinishedBegun == {r \in Run : status[r] = "running"}

UnfinishedRuns == {r \in Run : status[r] \in Unended}

RecoverReads ==
    /\ phase = "boot" /\ phase' = "recovering"
    /\ todo' = UnfinishedRuns
    /\ UNCHANGED <<status, start, tasks, signals, taken, draining, counts>>

RecoverLooks(r) ==
    /\ r \in todo /\ taken = {}
    /\ todo' = todo \ {r}
    /\ taken' = IF entry[r] = "none" THEN {r} ELSE {}
    /\ UNCHANGED <<status, start, tasks, signals, phase, draining, counts>>

(* recover_run: nothing if a start has the stream; otherwise the run is      *)
(* denied what it waited for, resumed, or given up.                          *)
RecoverRun(r) ==
    /\ r \in taken /\ taken' = {}
    /\ \/ r \in streams /\ UNCHANGED <<status, tasks>>
       \/ /\ r \notin streams /\ status[r] # "queued"
          /\ status' = [status EXCEPT ![r] = "failed"] /\ UNCHANGED tasks
       \/ /\ r \notin streams /\ r \in Resumable
          /\ Launched(r, "recovery") /\ UNCHANGED status
       \/ /\ r \notin streams /\ r \notin Resumable
          /\ status' = [status EXCEPT ![r] = "interrupted"] /\ UNCHANGED tasks
    /\ UNCHANGED <<start, signals, phase, todo, draining, counts>>

Recovered ==
    /\ phase = "recovering" /\ todo \cup taken = {} /\ phase' = "up"
    /\ UNCHANGED <<status, start, tasks, signals, todo, taken, draining, counts>>

-----------------------------------------------------------------------------
StartStep(r) == InsertRow(r) \/ LaunchRun(r)
Delegate(c) == HearDone(c) \/ HearCancel(c)
EndStep(i) == BeginRun(i) \/ Suspended(i) \/ LeaveTable(i)
              \/ \E as \in {"failed", "cancelled"} : FinishRun(i, as)

RunsNext ==
    \/ \E r \in Run :
         \/ CheckClosed(r) \/ StartStep(r) \/ LaunchFails(r)
         \/ CancelReads(r) \/ CancelSignals(r)
         \/ RecoverLooks(r) \/ RecoverRun(r)
    \/ \E i \in Instance : EndStep(i) \/ NodeFails(i) \/ FinishRun(i, "succeeded")
    \/ \E c \in Child : Delegate(c)
    \/ CloseRuns \/ SuspendAll \/ Disposed \/ Reboot \/ Off \/ RecoverReads \/ Recovered

RunsSpec == RunsInit /\ [][RunsNext]_runVars

(* Code that is under way goes on, and a cancelled run ends (Scheduler's     *)
(* CancelEnds).  Nothing says that a run which is not cancelled ends, or     *)
(* that anybody cancels.                                                     *)
RunsFairSpec ==
    /\ RunsSpec
    /\ \A r \in Run : WF_runVars(StartStep(r)) /\ WF_runVars(CancelSignals(r))
    /\ \A i \in Instance : WF_runVars(EndStep(i))
    /\ \A c \in Child : WF_runVars(Delegate(c))

-----------------------------------------------------------------------------
(* No run is forgotten: an unfinished one is being executed, started or      *)
(* recovered, however starts, ends, recovery and cancels interleave.  What   *)
(* is left is a start that failed after its transaction, and what dispose    *)
(* suspended (start_with, launch, recover).                                  *)
RunsAttended ==
    \A r \in Run : status[r] \in Unended =>
        \/ \E as \in {"start", "recovery"} : Live(<<r, as>>)
        \/ stage[r] \in {"inserted", "stranded"}
        \/ r \in todo \cup taken \/ phase = "boot" \/ Closed

(* "Cancelling the parent cancels every child" (PASSPORT, section 11): when  *)
(* a run is cancelled, or fails, a child ends too, even if it was started    *)
(* after cancel had read the children (delegate, signal_cancel).             *)
ChildrenFollow ==
    \A c \in Child :
        (status[c] \in Unended /\ <<Parent[c], "start">> \in token)
            ~> (status[c] \notin Unended \/ stage[c] = "stranded" \/ Closed \/ phase = "boot")

(* When dispose has returned, no run is at work, however cancels, ends and   *)
(* starts race with it, but one whose start had passed the check of `closed` *)
(* before, or one that was started and recovered in the same boot: the end   *)
(* of the first instance takes the entry of the second (dispose, start_with, *)
(* launch).                                                                  *)
DisposeDrains ==
    phase = "drained" =>
        \A i \in Instance : exec[i] # "none" =>
            i \in late \/ {<<i[1], "start">>, <<i[1], "recovery">>} \subseteq launches

=============================================================================
