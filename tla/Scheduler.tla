------------------------------ MODULE Scheduler ------------------------------
(***************************************************************************)
(* One run of the execution kernel, crates/zvs-host/src/kernel/scheduler.rs, *)
(* with its recovery, services/runs.rs.  The driver task (`drive`) scans the *)
(* graph and settles finished nodes; each node's work is a task of its own   *)
(* that may open approval and question gates; the user cancels, the host     *)
(* shuts down or dies and comes back with nothing but the database.          *)
(***************************************************************************)
EXTENDS Naturals, Sequences, FiniteSets

CONSTANTS
    Node,          \* the nodes of the run's graph
    Rank,          \* the order of their ids, which is the order of a scan
    Deps,          \* dependencies of a node
    When,          \* the node whose input decides a conditional node, or NoNode
    Fits,          \* the conditional nodes whose condition their input meets
    NoNode,
    MaxAttempts,   \* RetryPolicy.max_attempts of a node
    Continues,     \* nodes with continue_on_error
    Timed,         \* nodes with timeout_ms
    GatePoints,    \* <<node, stage, kind>>: the gates the nodes may open
    Concurrency,   \* the run's concurrency
    Resumable,     \* NodeRegistry::can_resume of the graph
    LateWrites,    \* TRUE: a task may stall longer than the grace period
                   \* between its liveness check and its status write
    MaxCrashes,    \* bound on restarts of the host
    MaxFaults      \* bound on failed commits

Stage == {"admit", "exec"}
GateKind == {"approval", "question"}

ASSUME NodeAssumption == IsFiniteSet(Node) /\ Node # {} /\ NoNode \notin Node
ASSUME RankAssumption == /\ Rank \in [Node -> Nat]
                         /\ \A m, n \in Node : Rank[m] = Rank[n] => m = n
ASSUME GraphAssumption == /\ Deps \in [Node -> SUBSET Node]
                          /\ When \in [Node -> Node \cup {NoNode}]
                          /\ Fits \subseteq Node
ASSUME PolicyAssumption == /\ MaxAttempts \in [Node -> Nat \ {0}]
                           /\ Continues \subseteq Node
                           /\ Timed \subseteq Node
                           /\ GatePoints \subseteq Node \X Stage \X GateKind
                           /\ Concurrency \in Nat \ {0}
                           /\ Resumable \in BOOLEAN
                           /\ LateWrites \in BOOLEAN
ASSUME BoundAssumption == MaxCrashes \in Nat /\ MaxFaults \in Nat

VARIABLES
    \* rows of SQLite, which survive a crash
    status,      \* run.status
    code,        \* the outcome the run was finished with
    ends,        \* number of `end` events recorded for the run
    steps,       \* step rows of a node, indexed by attempt
    ledger,      \* decision of the node's latest pending_approval row
    \* Scheduler::state and its flags
    completed, skipped, attempts, latest, resting, failure, gates,
    cancelled, stopping,
    \* locals of `drive`
    driver, todo, sleeping, progressed, running,
    \* the spawned task of each node
    pc, stage, gate, live,
    \* the host process
    host, crashes, faults

rows == <<status, code, ends, steps, ledger>>
state == <<completed, skipped, attempts, latest, resting, failure>>
signals == <<cancelled, stopping>>
pass == <<todo, sleeping, progressed>>
tasks == <<pc, stage, gate, live>>
process == <<host, crashes, faults>>
vars == <<rows, state, gates, signals, driver, pass, running, tasks, process>>

-----------------------------------------------------------------------------
Unfinished == {"queued", "running", "blocked"}
Finished == {"succeeded", "failed", "cancelled", "interrupted"}
RunStatus == Unfinished \cup Finished
Code == {"none", "ok", "cancelled", "error", "denied", "interrupted"}
StepStatus == {"running", "succeeded", "failed", "cancelled", "abandoned"}
StepError == {"none", "error", "denied", "cancelled", "abandoned"}
Step == [status : StepStatus, error : StepError]
Driver == {"load", "loop", "scan", "await", "pause", "drain", "fail",
           "denying", "interrupting", "gone"}
InGate == {"opening", "waiting", "closing"}
Writing == {"opening", "resuming", "refusing"}
Result == {"ok", "error", "denied"}
Task == {"idle", "working"} \cup InGate \cup Writing \cup Result

TypeOK ==
    /\ status \in RunStatus
    /\ code \in Code
    /\ ends \in Nat
    /\ steps \in [Node -> Seq(Step)]
    /\ ledger \in [Node -> {"none", "undecided", "decided"}]
    /\ completed \subseteq Node
    /\ skipped \subseteq Node
    /\ attempts \in [Node -> Nat]
    /\ latest \in [Node -> StepStatus \cup {"none"}]
    /\ resting \subseteq Node
    /\ failure \in {"none", "error", "denied"}
    /\ gates \in Nat
    /\ cancelled \in BOOLEAN
    /\ stopping \in BOOLEAN
    /\ driver \in Driver
    /\ todo \subseteq Node
    /\ sleeping \subseteq Node
    /\ progressed \in BOOLEAN
    /\ running \subseteq Node
    /\ pc \in [Node -> Task]
    /\ stage \in [Node -> Stage]
    /\ gate \in [Node -> GateKind \cup {"none"}]
    /\ live \subseteq Node
    /\ host \in {"up", "down"}
    /\ crashes \in Nat
    /\ faults \in Nat

-----------------------------------------------------------------------------
\* What the step rows say about a node.
HasRow(n, s) == \E i \in DOMAIN steps[n] : steps[n][i].status = s

\* Its last permitted attempt failed and the graph carries on past it.
PassedOver(n) ==
    /\ n \in Continues
    /\ \E i \in DOMAIN steps[n] :
           steps[n][i].status = "failed" /\ i >= MaxAttempts[n]

\* Mutant: the bound on the attempt is asked of succeeded rows as well.
CheckpointedLate(n) ==
    \/ \E i \in DOMAIN steps[n] :
           steps[n][i].status = "succeeded" /\ i >= MaxAttempts[n]
    \/ PassedOver(n)

Checkpointed(n) == HasRow(n, "succeeded") \/ PassedOver(n)

\* Mutant: the error column is read for the status.
NewestError(n) == IF steps[n] = << >> THEN "none"
                  ELSE steps[n][Len(steps[n])].error

\* The status of a node's newest row.
Newest(n) == IF steps[n] = << >> THEN "none"
             ELSE steps[n][Len(steps[n])].status

Denied(n) == \E i \in DOMAIN steps[n] : steps[n][i].error = "denied"

Up == host = "up"

\* Mutant: a gate's task is listened to whatever became of its run.
HeardAlways(n) == TRUE

\* The run still listens to the task of n: live, and not cancelled.
Heard(n) == n \in live /\ ~cancelled
Active == driver \notin {"denying", "interrupting", "gone"}

\* A commit either succeeds or, as often as MaxFaults allows, fails.
Commits(ok) == \/ ok = TRUE /\ faults' = faults
               \/ ok = FALSE /\ faults < MaxFaults /\ faults' = faults + 1

\* The verdict of `skips`.
Skips(n) ==
    \/ /\ When[n] # NoNode
       /\ When[n] \in skipped \/ n \notin Fits \/ When[n] \notin completed
    \/ Deps[n] # {} /\ Deps[n] \subseteq skipped

-----------------------------------------------------------------------------
\* What a launch starts from.  start_with has created the queued row.
Idle == [n \in Node |-> "idle"]
NoAttempt == [n \in Node |-> 0]
NoStep == [n \in Node |-> "none"]
NoGate == [n \in Node |-> "none"]
AtAdmission == [n \in Node |-> "admit"]

Init ==
    /\ status = "queued" /\ code = "none" /\ ends = 0
    /\ steps = [n \in Node |-> << >>]
    /\ ledger = [n \in Node |-> "none"]
    /\ completed = {} /\ skipped = {} /\ resting = {}
    /\ attempts = NoAttempt /\ latest = NoStep
    /\ failure = "none" /\ gates = 0
    /\ cancelled = FALSE /\ stopping = FALSE
    /\ driver = "load"
    /\ todo = {} /\ sleeping = {} /\ progressed = FALSE /\ running = {}
    /\ pc = Idle /\ stage = AtAdmission /\ gate = NoGate /\ live = {}
    /\ host = "up" /\ crashes = 0 /\ faults = 0

\* Scheduler::new in a new process: an empty State and no tasks.
Forget ==
    /\ completed' = {} /\ skipped' = {} /\ resting' = {}
    /\ attempts' = NoAttempt /\ latest' = NoStep
    /\ failure' = "none" /\ gates' = 0
    /\ cancelled' = FALSE /\ stopping' = FALSE
    /\ todo' = {} /\ sleeping' = {} /\ progressed' = FALSE /\ running' = {}
    /\ pc' = Idle /\ stage' = AtAdmission /\ gate' = NoGate /\ live' = {}

-----------------------------------------------------------------------------
(* The driver. *)

\* load_checkpoints and the move to `running`.
Load ==
    /\ Up /\ driver = "load"
    /\ completed' = {n \in Node : Checkpointed(n)}
    /\ attempts' = [n \in Node |-> Len(steps[n])]
    /\ latest' = [n \in Node |-> Newest(n)]
    /\ resting' = {n \in Node : HasRow(n, "failed") /\ ~PassedOver(n)}
    /\ \E ok \in BOOLEAN :
           /\ Commits(ok)
           /\ IF ok THEN /\ status' = "running" /\ driver' = "loop"
                         /\ UNCHANGED cancelled
                    ELSE /\ driver' = "fail" /\ cancelled' = TRUE
                         /\ UNCHANGED status
    /\ UNCHANGED <<code, ends, steps, ledger, skipped, failure, gates,
                   stopping, pass, running, tasks, host, crashes>>

\* The condition that ends the `while` loop.
Over == cancelled \/ completed = Node

Loop ==
    /\ Up /\ driver = "loop"
    /\ IF Over
         THEN driver' = "drain" /\ UNCHANGED pass
         ELSE /\ driver' = "scan"
              /\ todo' = Node /\ sleeping' = {} /\ progressed' = FALSE
    /\ UNCHANGED <<rows, state, gates, signals, running, tasks, process>>

\* n is the next node of the pass in the order of the ids.
Turn(n) == /\ Up /\ driver = "scan" /\ n \in todo
           /\ \A m \in todo : Rank[n] <= Rank[m]

Full == gates > 0 \/ Cardinality(running) >= Concurrency

\* Mutant: a completed node is looked at again.
ConsideredAgain(n) == n \notin running /\ Deps[n] \subseteq completed

Considered(n) == n \notin completed \cup running /\ Deps[n] \subseteq completed

\* Mutant: one attempt too many.
ExhaustedLate(n) == latest[n] = "failed" /\ attempts[n] > MaxAttempts[n]

Exhausted(n) == latest[n] = "failed" /\ attempts[n] >= MaxAttempts[n]

\* A gate is open or every slot is taken: the pass stops.
ScanFull(n) ==
    /\ Turn(n) /\ Full
    /\ todo' = {}
    /\ UNCHANGED <<rows, state, gates, signals, driver, sleeping, progressed,
                   running, tasks, process>>

\* Nothing to do for n in this pass.
ScanPast(n) ==
    /\ Turn(n) /\ ~Full /\ ~Considered(n)
    /\ todo' = todo \ {n}
    /\ UNCHANGED <<rows, state, gates, signals, driver, sleeping, progressed,
                   running, tasks, process>>

\* A row of an earlier process already used up the attempts.
ScanExhausted(n) ==
    /\ Turn(n) /\ ~Full /\ Considered(n) /\ Exhausted(n)
    /\ failure' = "error"
    /\ cancelled' = TRUE
    /\ todo' = {}
    /\ UNCHANGED <<rows, completed, skipped, attempts, latest, resting, gates,
                   stopping, driver, sleeping, progressed, running, tasks,
                   process>>

ScanSkip(n) ==
    /\ Turn(n) /\ ~Full /\ Considered(n) /\ ~Exhausted(n) /\ Skips(n)
    /\ skipped' = skipped \cup {n}
    /\ completed' = completed \cup {n}
    /\ progressed' = TRUE
    /\ todo' = todo \ {n}
    /\ UNCHANGED <<rows, attempts, latest, resting, failure, gates, signals,
                   driver, sleeping, running, tasks, process>>

\* Its backoff has not elapsed: remembered as the time to wake at.
ScanResting(n) ==
    /\ Turn(n) /\ ~Full /\ Considered(n) /\ ~Exhausted(n) /\ ~Skips(n)
    /\ n \in resting
    /\ sleeping' = sleeping \cup {n}
    /\ todo' = todo \ {n}
    /\ UNCHANGED <<rows, state, gates, signals, driver, progressed, running,
                   tasks, process>>

ScanStart(n) ==
    /\ Turn(n) /\ ~Full /\ Considered(n) /\ ~Exhausted(n) /\ ~Skips(n)
    /\ n \notin resting
    /\ running' = running \cup {n}
    /\ todo' = todo \ {n}
    /\ UNCHANGED <<rows, state, gates, signals, driver, sleeping, progressed,
                   tasks, process>>

\* The end of a pass: what the driver waits for, or that it cannot go on.
EndPass ==
    /\ Up /\ driver = "scan" /\ todo = {}
    /\ IF cancelled THEN driver' = "drain" /\ UNCHANGED cancelled
       ELSE IF running # {} THEN driver' = "await" /\ UNCHANGED cancelled
       ELSE IF sleeping # {} THEN driver' = "pause" /\ UNCHANGED cancelled
       ELSE IF progressed \/ completed = Node
            THEN driver' = "loop" /\ UNCHANGED cancelled
       ELSE driver' = "fail" /\ cancelled' = TRUE      \* NO_READY_NODES
    /\ UNCHANGED <<rows, state, gates, stopping, pass, running, tasks, process>>

\* Mutant: backoff is only waited for beside active nodes.
DueBeside == running # {} /\ sleeping \ resting # {}

\* A backoff seen in the pass has elapsed.
Due == sleeping \ resting # {}

\* `pause` returns: a backoff elapsed, or the run was cancelled while nothing
\* was active.
Wake ==
    /\ Up
    /\ \/ driver \in {"await", "pause"} /\ Due
       \/ driver = "pause" /\ cancelled
    /\ driver' = "loop"
    /\ UNCHANGED <<rows, state, gates, signals, pass, running, tasks, process>>

\* Mutant: nodes that are active when the loop ends are not waited for.
PollingInLoop == Up /\ driver \in {"await", "fail"}

\* The driver polls its active nodes.
Polling == Up /\ driver \in {"await", "drain", "fail"}

\* The first poll of run_node: a row for the attempt, then the spawned task.
Begin(n) ==
    /\ Polling /\ n \in running /\ pc[n] = "idle"
    /\ attempts' = [attempts EXCEPT ![n] = @ + 1]
    /\ \E ok \in BOOLEAN :
         /\ Commits(ok)
         /\ IF ok
              THEN /\ steps' = [steps EXCEPT ![n] =
                           Append(@, [status |-> "running", error |-> "none"])]
                   /\ pc' = [pc EXCEPT ![n] = "working"]
                   /\ stage' = [stage EXCEPT ![n] = "admit"]
                   /\ live' = live \cup {n}
                   /\ UNCHANGED <<driver, running, cancelled>>
              ELSE /\ driver' = "fail" /\ cancelled' = TRUE
                   /\ running' = running \ {n}
                   /\ UNCHANGED <<steps, pc, stage, live>>
    /\ UNCHANGED <<status, code, ends, ledger, completed, skipped, latest,
                   resting, failure, gates, stopping, pass, gate, host, crashes>>

\* The attempt's row is rewritten with its verdict.
Verdict(n, s, e) ==
    [steps EXCEPT ![n][Len(steps[n])] = [status |-> s, error |-> e]]

\* The tail of run_node: commit the verdict and hand the slot back.
Retire(n, s, e) ==
    /\ running' = running \ {n}
    /\ live' = live \ {n}
    /\ latest' = [latest EXCEPT ![n] = s]
    /\ \E ok \in BOOLEAN :
         /\ Commits(ok)
         /\ steps' = IF ok THEN Verdict(n, s, e) ELSE steps
         /\ driver' = IF ~ok THEN "fail"
                      ELSE IF driver = "await" THEN "loop" ELSE driver
         /\ cancelled' = (cancelled \/ ~ok \/ failure' # failure)
    /\ UNCHANGED <<status, code, ends, ledger, skipped, attempts, gates,
                   stopping, pass, stage, gate, host, crashes>>

Settling(n) == Polling /\ n \in running /\ pc[n] \in Result

\* The outcome of a cancelled run's node is discarded, whatever it was.
SettleCancelled(n) ==
    /\ Settling(n) /\ cancelled
    /\ pc' = [pc EXCEPT ![n] = "idle"]
    /\ UNCHANGED <<completed, resting, failure>>
    /\ Retire(n, "cancelled", "cancelled")

SettleSucceeded(n) ==
    /\ Settling(n) /\ ~cancelled /\ pc[n] = "ok"
    /\ pc' = [pc EXCEPT ![n] = "idle"]
    /\ completed' = completed \cup {n}
    /\ UNCHANGED <<resting, failure>>
    /\ Retire(n, "succeeded", "none")

\* Mutant: every failure is carried past, whatever continue_on_error says.
CarriedPastAny(n) == pc[n] = "error" /\ attempts[n] >= MaxAttempts[n]

\* The last attempt failed and the graph may go on without n.
CarriedPast(n) ==
    pc[n] = "error" /\ attempts[n] >= MaxAttempts[n] /\ n \in Continues

SettleFailed(n) ==
    /\ Settling(n) /\ ~cancelled /\ pc[n] \in {"error", "denied"}
    /\ pc' = [pc EXCEPT ![n] = "idle"]
    /\ resting' = resting \cup {n}
    /\ IF CarriedPast(n)
         THEN completed' = completed \cup {n} /\ UNCHANGED failure
         ELSE /\ failure' = IF pc[n] = "denied" \/ attempts[n] >= MaxAttempts[n]
                              THEN pc[n] ELSE failure
              /\ UNCHANGED completed
    /\ Retire(n, "failed", pc[n])

\* Mutant: only a gate is given up.
StuckAtGate(n) == pc[n] = "waiting"

\* The task of n has not returned.
Stuck(n) == pc[n] \notin Result \cup {"idle"}

\* The grace period ran out: the driver goes on, the task is left behind.
Abandon(n) ==
    /\ Polling /\ n \in running /\ cancelled
    /\ Stuck(n)
    /\ LateWrites \/ pc[n] \notin Writing
    /\ UNCHANGED <<pc, completed, resting, failure>>
    /\ Retire(n, "abandoned", "abandoned")

\* Scheduler::finish: status, outcome and `end` in one transaction.
Finish(s, c) == status' = s /\ code' = c /\ ends' = ends + 1

\* Mutant: the code of a denial is lost.
FailureCodeLost == "error"

FailureCode == IF failure = "denied" THEN "denied" ELSE "error"

\* Mutant: the driver does not wait for its nodes.
DrainedAlways == TRUE

\* Every active node has settled.
Drained == running = {}

\* The end of `drive`.
Conclude ==
    /\ Up /\ driver = "drain" /\ Drained
    /\ IF stopping
         THEN driver' = "gone" /\ UNCHANGED <<status, code, ends, cancelled, faults>>
         ELSE \E ok \in BOOLEAN :
                /\ Commits(ok)
                /\ IF ~ok THEN /\ driver' = "fail" /\ cancelled' = TRUE
                               /\ UNCHANGED <<status, code, ends>>
                   ELSE /\ driver' = "gone" /\ UNCHANGED cancelled
                        /\ \/ failure # "none" /\ Finish("failed", FailureCode)
                           \/ failure = "none" /\ cancelled
                              /\ Finish("cancelled", "cancelled")
                           \/ failure = "none" /\ ~cancelled
                              /\ Finish("succeeded", "ok")
    /\ UNCHANGED <<steps, ledger, state, gates, stopping, pass, running, tasks,
                   host, crashes>>

\* The error path of `execute`.
ConcludeFailed ==
    /\ Up /\ driver = "fail" /\ Drained
    /\ driver' = "gone"
    /\ IF stopping
         THEN UNCHANGED <<status, code, ends, faults>>
         ELSE \E ok \in BOOLEAN :
                /\ Commits(ok)
                /\ IF ok THEN Finish("failed", FailureCode)
                         ELSE UNCHANGED <<status, code, ends>>
    /\ UNCHANGED <<steps, ledger, state, gates, signals, pass, running, tasks,
                   host, crashes>>

-----------------------------------------------------------------------------
(* The task of a node. *)

Goes(n, p) == pc' = [pc EXCEPT ![n] = p]

\* Admission is over: check_cancelled, then execute.
Execute(n) ==
    /\ Up /\ pc[n] = "working" /\ stage[n] = "admit"
    /\ IF cancelled THEN Goes(n, "error") /\ UNCHANGED stage
                    ELSE stage' = [stage EXCEPT ![n] = "exec"] /\ UNCHANGED pc
    /\ UNCHANGED <<rows, state, gates, signals, driver, pass, running, gate,
                   live, process>>

\* The work returns.  Admission can only end it with an error.
Return(n, r) ==
    /\ Up /\ pc[n] = "working"
    /\ r # "ok" \/ stage[n] = "exec"
    /\ Goes(n, r)
    /\ UNCHANGED <<rows, state, gates, signals, driver, pass, running, stage,
                   gate, live, process>>

\* An approval has its row before the link is asked; the link refuses a task
\* that is cancelled or no longer live, and counts every other gate.
OpenGate(n, k) ==
    /\ Up /\ pc[n] = "working" /\ <<n, stage[n], k>> \in GatePoints
    /\ ledger' = IF k = "approval" THEN [ledger EXCEPT ![n] = "undecided"]
                                   ELSE ledger
    /\ IF Heard(n)
         THEN /\ Goes(n, "opening")
              /\ gates' = gates + 1
              /\ gate' = [gate EXCEPT ![n] = k]
         ELSE Goes(n, "error") /\ UNCHANGED <<gates, gate>>
    /\ UNCHANGED <<status, code, ends, steps, state, signals, driver, pass,
                   running, stage, live, process>>

\* set_status(Blocked), the event, and the hook starts to wait.
BlockRun(n) ==
    /\ Up /\ pc[n] = "opening"
    /\ status' = "blocked"
    /\ Goes(n, "waiting")
    /\ UNCHANGED <<code, ends, steps, ledger, state, gates, signals, driver,
                   pass, running, stage, gate, live, process>>

\* Blocking the run, recording the event or the hook itself fails.
BreakGate(n) ==
    /\ Up /\ pc[n] \in {"opening", "waiting"}
    /\ faults < MaxFaults /\ faults' = faults + 1
    /\ Goes(n, "closing")
    /\ gate' = [gate EXCEPT ![n] = "none"]
    /\ UNCHANGED <<rows, state, gates, signals, driver, pass, running, stage,
                   live, host, crashes>>

\* A refused approval is a denial; anything else that goes wrong is an error.
Refusal(n) == IF gate[n] = "approval" THEN "denied" ELSE "error"

\* Mutants: one gate closing clears every gate; the last one is never counted
\* down.
NoGatesLeft == 0
OneGateKept == IF gates > 1 THEN gates - 1 ELSE gates

OneGateLess == IF gates > 0 THEN gates - 1 ELSE 0

\* The hook resolves and gate_finished counts the gate down; the status goes
\* back to `running` in a step of its own, decided here.
CloseGate(n, granted) ==
    /\ Up
    /\ \/ pc[n] = "waiting" /\ (granted \/ gate[n] = "approval" \/ cancelled)
       \/ pc[n] = "closing" /\ ~granted
    /\ ledger' = IF gate[n] = "approval" THEN [ledger EXCEPT ![n] = "decided"]
                                         ELSE ledger
    /\ gates' = OneGateLess
    /\ IF Heard(n) /\ gates' = 0
         THEN Goes(n, IF granted THEN "resuming" ELSE "refusing")
              /\ UNCHANGED gate
         ELSE /\ Goes(n, IF granted THEN "working" ELSE Refusal(n))
              /\ gate' = [gate EXCEPT ![n] = "none"]
    /\ UNCHANGED <<status, code, ends, steps, state, signals, driver, pass,
                   running, stage, live, process>>

\* set_status(Running).
ResumeRun(n) ==
    /\ Up /\ pc[n] \in {"resuming", "refusing"}
    /\ \E ok \in BOOLEAN :
         /\ Commits(ok)
         /\ IF ok THEN /\ status' = "running"
                       /\ Goes(n, IF pc[n] = "resuming" THEN "working"
                                  ELSE Refusal(n))
                  ELSE Goes(n, "error") /\ UNCHANGED status
    /\ gate' = [gate EXCEPT ![n] = "none"]
    /\ UNCHANGED <<code, ends, steps, ledger, state, gates, signals, driver,
                   pass, running, stage, live, host, crashes>>

\* timeout_ms elapses: the execute future is dropped where it awaits, and
\* with it a gate that was still waiting.
TimeOut(n) ==
    /\ Up /\ n \in Timed /\ stage[n] = "exec" /\ pc[n] \in {"working", "waiting"}
    /\ Goes(n, "error")
    /\ gate' = [gate EXCEPT ![n] = "none"]
    /\ UNCHANGED <<rows, state, gates, signals, driver, pass, running, stage,
                   live, process>>

-----------------------------------------------------------------------------
(* The user, the clock and the host. *)

BackoffElapsed(n) ==
    /\ Up /\ n \in resting
    /\ resting' = resting \ {n}
    /\ UNCHANGED <<rows, completed, skipped, attempts, latest, failure, gates,
                   signals, driver, pass, running, tasks, process>>

\* runs.cancel, for a run that is in the active table.
Cancel ==
    /\ Up /\ Active /\ ~cancelled
    /\ cancelled' = TRUE
    /\ UNCHANGED <<rows, state, gates, stopping, driver, pass, running, tasks,
                   process>>

\* RunService::dispose.
Suspend ==
    /\ Up /\ Active /\ ~stopping
    /\ stopping' = TRUE /\ cancelled' = TRUE
    /\ UNCHANGED <<rows, state, gates, driver, pass, running, tasks, process>>

\* The process is gone; what it held in memory is of no use to the next one.
Crash ==
    /\ Up /\ crashes < MaxCrashes
    /\ host' = "down" /\ crashes' = crashes + 1
    /\ UNCHANGED <<rows, state, gates, signals, driver, pass, running, tasks,
                   faults>>

\* recover_run up to its branch: rows left running are abandoned, and rows of
\* approvals nobody decided are denied.
InterruptedApproval ==
    \/ \E n \in Node : ledger[n] = "undecided"
    \/ status = "blocked" /\ \E n \in Node : ledger[n] # "none"

\* Mutant: rows of the last process stay as they are.
KeepRunning == steps

AbandonRunning ==
    [n \in Node |-> [i \in DOMAIN steps[n] |->
        IF steps[n][i].status = "running"
          THEN [status |-> "abandoned", error |-> "abandoned"]
          ELSE steps[n][i]]]

Reboot ==
    /\ host = "down"
    /\ host' = "up"
    /\ Forget
    /\ IF status \in Unfinished
         THEN /\ steps' = AbandonRunning
              /\ ledger' = [n \in Node |-> IF ledger[n] = "undecided"
                                           THEN "decided" ELSE ledger[n]]
              /\ driver' = IF InterruptedApproval THEN "denying"
                           ELSE IF Resumable THEN "load" ELSE "interrupting"
         ELSE driver' = "gone" /\ UNCHANGED <<steps, ledger>>
    /\ UNCHANGED <<status, code, ends, crashes, faults>>

\* The rest of recover_run for a run that is not resumed.
CloseRecovered ==
    /\ Up /\ driver \in {"denying", "interrupting"}
    /\ driver' = "gone"
    /\ \E ok \in BOOLEAN :
         /\ Commits(ok)
         /\ IF ~ok THEN UNCHANGED <<status, code, ends>>
            ELSE \/ driver = "denying" /\ Finish("failed", "denied")
                 \/ driver = "interrupting" /\ Finish("interrupted", "interrupted")
    /\ UNCHANGED <<steps, ledger, state, gates, signals, pass, running, tasks,
                   host, crashes>>

\* The host runs on after the run has left its active table.
Rest == Up /\ driver = "gone" /\ UNCHANGED vars

-----------------------------------------------------------------------------
DriverStep ==
    \/ Load \/ Loop \/ EndPass \/ Wake \/ Conclude \/ ConcludeFailed
    \/ \E n \in Node :
          \/ ScanFull(n) \/ ScanPast(n) \/ ScanExhausted(n) \/ ScanSkip(n)
          \/ ScanResting(n) \/ ScanStart(n) \/ Begin(n)
          \/ SettleCancelled(n) \/ SettleSucceeded(n) \/ SettleFailed(n)
          \/ Abandon(n)

TaskStep(n) ==
    \/ Execute(n) \/ BlockRun(n) \/ BreakGate(n) \/ ResumeRun(n) \/ TimeOut(n)
    \/ \E r \in Result : Return(n, r)
    \/ \E k \in GateKind : OpenGate(n, k)
    \/ \E granted \in BOOLEAN : CloseGate(n, granted)

Next ==
    \/ DriverStep
    \/ \E n \in Node : TaskStep(n) \/ BackoffElapsed(n)
    \/ Cancel \/ Suspend \/ Crash \/ Reboot \/ CloseRecovered \/ Rest

Spec == Init /\ [][Next]_vars

\* The driver task is polled for as long as the process lives (its timers
\* include the grace period), and a task that passed its check performs the
\* synchronous status write that follows.
Fairness == /\ WF_vars(DriverStep) /\ WF_vars(Reboot) /\ WF_vars(CloseRecovered)
            /\ \A n \in Node :
                  /\ WF_vars(BlockRun(n)) /\ WF_vars(ResumeRun(n))
                  /\ WF_vars(pc[n] = "closing" /\ CloseGate(n, FALSE))

FairSpec == Spec /\ Fairness

\* Nodes that return in the end, gates somebody resolves and clocks that tick.
Cooperation ==
    \A n \in Node :
        /\ SF_vars(Execute(n)) /\ WF_vars(BackoffElapsed(n))
        /\ SF_vars(stage[n] = "exec" /\ \E r \in Result : Return(n, r))
        /\ WF_vars(\E granted \in BOOLEAN : CloseGate(n, granted))

CooperativeSpec == FairSpec /\ Cooperation

-----------------------------------------------------------------------------
(* What the kernel promises of a run. *)

\* A step that succeeded is a checkpoint: neither a retry nor a recovery ever
\* runs the node again or rewrites its rows (load_checkpoints, kernel README,
\* "Recovery and shutdown").
CheckpointsFinal ==
    [][\A n \in Node : HasRow(n, "succeeded") => steps'[n] = steps[n]]_vars

\* Attempts of one node never overlap, not even across a restart: only the
\* newest row of a node can still be running (run_node, recover_run).
OneAttemptAtATime ==
    \A n \in Node : \A i \in DOMAIN steps[n] :
        steps[n][i].status = "running" => i = Len(steps[n])

\* A restart does not refill the retry budget: no node fails more often than
\* max_attempts allows, however its failures are spread over processes.
RetryBudget ==
    \A n \in Node :
        Cardinality({i \in DOMAIN steps[n] : steps[n][i].status = "failed"})
            <= MaxAttempts[n]

\* A run is called succeeded only when every node of its graph is
\* checkpointed or skipped (the end of `drive`).
SuccessIsComplete ==
    [][status' = "succeeded" /\ status # "succeeded"
         => \A n \in Node : Checkpointed(n) \/ n \in skipped]_vars

\* A run fails because a node failed for good, a commit failed or an approval
\* was interrupted, and never because the scan finds nothing to do
\* (NO_READY_NODES): a valid graph cannot run dry.
FailsForCause ==
    [][status' = "failed" /\ status # "failed"
         => failure # "none" \/ faults' > 0 \/ driver = "denying"]_vars

\* pending_gates counts exactly the gates that are open, so the scan is held
\* back as long as somebody is asked and no longer (request_approval,
\* ask_user, gate_finished).
GatesCounted ==
    Up /\ Active => gates = Cardinality({n \in Node : pc[n] \in InGate})

\* The run row says finished exactly when its one `end` is recorded, whatever
\* late tasks, restarts and failed commits do (finish).
EndMatchesStatus ==
    ends = IF status \in Finished THEN 1 ELSE 0

\* Each completed run has one terminal `end` (kernel README, "Events").
OneEnd == ends <= 1

\* A finished run leaves no step row running, so no page shows a node of a
\* finished run as active.
FinishedRowsSettled ==
    status \in Finished => \A n \in Node : ~HasRow(n, "running")

\* A run that a denied step ended says so, whatever its other nodes were doing
\* at the time (run_node, finish).
DenialReported ==
    status = "failed" /\ crashes = 0 /\ (\E n \in Node : Denied(n))
      => code = "denied"

\* Recovery answers APPROVAL_DENIED only for a run interrupted at an
\* approval: a run whose only open gate was a question is not denied.
QuestionNotDenied ==
    [][Reboot /\ (\E n \in Node : gate[n] = "question")
              /\ (\A n \in Node : gate[n] # "approval" /\ ledger[n] # "undecided")
         => driver' # "denying"]_vars

\* Cancellation is bounded: a cancelled or suspended run leaves the active
\* table even if its nodes never look at the token.
CancelEnds == (Up /\ Active /\ cancelled) ~> (driver = "gone" \/ host = "down")

\* With nodes that return, every run ends, over retries, backoff, skips, gates
\* and restarts, unless the host is shutting down.
RunEnds == []<>(status \in Finished \/ stopping)

\* The rows of the run keep the contract of RunContract: the database alone,
\* read at any moment, tells a history without replays or second endings.
Contract == INSTANCE RunContract WITH
    phase <- IF status \in Unfinished THEN "open" ELSE status,
    tries <- [n \in Node |-> Len(steps[n])],
    done  <- {n \in Node : Checkpointed(n)},
    ends  <- ends

KeepsContract == Contract!Spec

=============================================================================
