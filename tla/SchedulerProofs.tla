--------------------------- MODULE SchedulerProofs ---------------------------
(* What holds of a run for every graph, retry policy, set of gates and number *)
(* of restarts.                                                               *)
EXTENDS Scheduler, FiniteSetTheorems, TLAPS

-----------------------------------------------------------------------------
(* Rows. *)

\* Rewriting an entry of a sequence of rows, wherever the index points, keeps
\* it one.
LEMMA RewriteRow ==
    ASSUME NEW s \in Seq(Step), NEW i \in Nat, NEW e \in Step
    PROVE  [s EXCEPT ![i] = e] \in Seq(Step)
<1>1. CASE i \in 1 .. Len(s)
  BY <1>1
<1>2. CASE i \notin 1 .. Len(s)
  <2>1. [s EXCEPT ![i] = e] = s
    BY <1>2
  <2> QED BY <2>1
<1> QED BY <1>1, <1>2

\* A recovery's rewriting of the rows left running.
LEMMA AbandonedRows ==
    ASSUME steps \in [Node -> Seq(Step)]
    PROVE  AbandonRunning \in [Node -> Seq(Step)]
<1> DEFINE row(n, i) == IF steps[n][i].status = "running"
                          THEN [status |-> "abandoned", error |-> "abandoned"]
                          ELSE steps[n][i]
           rewritten(n) == [i \in DOMAIN steps[n] |-> row(n, i)]
<1>1. ASSUME NEW n \in Node
      PROVE  rewritten(n) \in Seq(Step)
  <2>1. steps[n] \in Seq(Step)
    BY <1>1
  <2>2. \A i \in 1 .. Len(steps[n]) : row(n, i) \in Step
    <3> TAKE i \in 1 .. Len(steps[n])
    <3>1. steps[n][i] \in Step
      BY <2>1
    <3>2. [status |-> "abandoned", error |-> "abandoned"] \in Step
      BY DEF Step, StepStatus, StepError
    <3> QED BY <3>1, <3>2
  <2>3. DOMAIN steps[n] = 1 .. Len(steps[n]) /\ Len(steps[n]) \in Nat
    BY <2>1
  <2> HIDE DEF row
  <2> QED BY <2>2, <2>3
<1> QED BY <1>1 DEF AbandonRunning

\* The verdict of an attempt is a row again.
LEMMA VerdictRows ==
    ASSUME steps \in [Node -> Seq(Step)],
           NEW n \in Node, NEW s \in StepStatus, NEW e \in StepError
    PROVE  Verdict(n, s, e) \in [Node -> Seq(Step)]
<1>1. [status |-> s, error |-> e] \in Step
  BY DEF Step
<1>2. steps[n] \in Seq(Step) /\ Len(steps[n]) \in Nat
  OBVIOUS
<1>3. [steps[n] EXCEPT ![Len(steps[n])] = [status |-> s,
       error |-> e]] \in Seq(Step)
  BY <1>1, <1>2, RewriteRow
<1> QED BY <1>3 DEF Verdict

\* A verdict touches the newest row of its node and nothing else.
LEMMA VerdictAt ==
    ASSUME steps \in [Node -> Seq(Step)], NEW n \in Node, NEW s, NEW e
    PROVE  /\ \A m \in Node \ {n} : Verdict(n, s, e)[m] = steps[m]
           /\ DOMAIN Verdict(n, s, e)[n] = DOMAIN steps[n]
           /\ \A i \in DOMAIN steps[n] :
                Verdict(n, s, e)[n][i] = IF i = Len(steps[n])
                                         THEN [status |-> s, error |-> e]
                                         ELSE steps[n][i]
<1> DEFINE row == [status |-> s, error |-> e]
           rewritten == [steps[n] EXCEPT ![Len(steps[n])] = row]
<1>1. Verdict(n, s, e) = [steps EXCEPT ![n] = rewritten]
  BY DEF Verdict
<1>2. Verdict(n, s, e)[n] = rewritten
      /\ \A m \in Node \ {n} : Verdict(n, s, e)[m] = steps[m]
  BY <1>1
<1> QED BY <1>2

-----------------------------------------------------------------------------
(* Types. *)

\* A launch is typed.
LEMMA InitTyped == Init => TypeOK
<1> SUFFICES ASSUME Init PROVE TypeOK
  OBVIOUS
<1>1. steps \in [Node -> Seq(Step)]
  BY DEF Init
<1>2. /\ status \in RunStatus /\ code \in Code /\ ends \in Nat
      /\ driver \in Driver /\ failure \in {"none", "error", "denied"}
  BY DEF Init, RunStatus, Unfinished, Code, Driver
<1>3. /\ ledger \in [Node -> {"none", "undecided", "decided"}]
      /\ attempts \in [Node -> Nat]
      /\ latest \in [Node -> StepStatus \cup {"none"}]
      /\ pc \in [Node -> Task]
      /\ stage \in [Node -> Stage]
      /\ gate \in [Node -> GateKind \cup {"none"}]
  BY DEF Init, NoAttempt, NoStep, Idle, AtAdmission, NoGate, Task, Stage
<1> QED BY <1>1, <1>2, <1>3 DEF Init, TypeOK

\* What the tail of run_node leaves behind is typed.
LEMMA RetireTyped ==
    ASSUME TypeOK, NEW n \in Node, NEW s \in StepStatus, NEW e \in StepError,
           Retire(n, s, e)
    PROVE  /\ steps' \in [Node -> Seq(Step)]
           /\ latest' \in [Node -> StepStatus \cup {"none"}]
           /\ running' \subseteq Node /\ live' \subseteq Node
           /\ driver' \in Driver /\ cancelled' \in BOOLEAN
           /\ faults' \in Nat
<1>1. Verdict(n, s, e) \in [Node -> Seq(Step)]
  BY VerdictRows DEF TypeOK
<1>2. steps' \in [Node -> Seq(Step)]
  BY <1>1 DEF TypeOK, Retire
<1>3. latest' \in [Node -> StepStatus \cup {"none"}]
  BY DEF TypeOK, Retire
<1>4. PICK ok \in BOOLEAN :
        /\ Commits(ok)
        /\ driver' = IF ~ok THEN "fail"
                     ELSE IF driver = "await" THEN "loop" ELSE driver
        /\ cancelled' = (cancelled \/ ~ok \/ failure' # failure)
  BY DEF Retire
<1>5. driver' \in Driver /\ cancelled' \in BOOLEAN
  BY <1>4 DEF TypeOK, Driver
<1>6. faults' \in Nat
  BY <1>4 DEF TypeOK, Commits
<1> QED BY <1>2, <1>3, <1>5, <1>6 DEF TypeOK, Retire

\* Every step keeps the types.
LEMMA NextTyped == TypeOK /\ [Next]_vars => TypeOK'
<1> SUFFICES ASSUME TypeOK, [Next]_vars PROVE TypeOK'
  OBVIOUS
<1> USE DEF vars, rows, state, signals, pass, tasks, process
<1>1. CASE Load
  <2>1. /\ latest' \in [Node -> StepStatus \cup {"none"}]
        /\ attempts' \in [Node -> Nat]
    <3>1. \A n \in Node : Len(steps[n]) \in Nat
      BY DEF TypeOK
    <3>2. ASSUME NEW n \in Node PROVE Newest(n) \in StepStatus \cup {"none"}
      <4>1. steps[n] \in Seq(Step)
        BY <3>2 DEF TypeOK
      <4>2. steps[n] # << >> => steps[n][Len(steps[n])] \in Step
        BY <4>1
      <4> QED BY <4>2 DEF Newest, Step
    <3> QED BY <1>1, <3>1, <3>2 DEF Load
  <2>2. completed' \subseteq Node /\ resting' \subseteq Node
    BY <1>1 DEF Load
  <2>3. PICK ok \in BOOLEAN :
          /\ Commits(ok)
          /\ IF ok THEN status' = "running" /\ driver' = "loop"
                        /\ UNCHANGED cancelled
                   ELSE driver' = "fail" /\ cancelled' = TRUE /\ UNCHANGED status
    BY <1>1 DEF Load
  <2>4. faults' \in Nat
    BY <2>3 DEF TypeOK, Commits
  <2>5. status' \in RunStatus /\ driver' \in Driver /\ cancelled' \in BOOLEAN
    BY <2>3 DEF TypeOK, RunStatus, Unfinished, Driver
  <2> QED BY <1>1, <2>1, <2>2, <2>4, <2>5 DEF TypeOK, Load
<1>2. CASE Loop
  BY <1>2 DEF TypeOK, Loop, Driver
<1>3. CASE EndPass
  BY <1>3 DEF TypeOK, EndPass, Driver
<1>4. CASE Wake
  BY <1>4 DEF TypeOK, Wake, Driver
<1>5. CASE Conclude
  <2>1. CASE stopping
    BY <1>5, <2>1 DEF TypeOK, Conclude, Driver
  <2>2. CASE ~stopping
    <3>1. PICK ok \in BOOLEAN :
            /\ Commits(ok)
            /\ IF ~ok THEN /\ driver' = "fail" /\ cancelled' = TRUE
                           /\ UNCHANGED <<status, code, ends>>
               ELSE /\ driver' = "gone" /\ UNCHANGED cancelled
                    /\ \/ Finish("failed", FailureCode)
                       \/ Finish("cancelled", "cancelled")
                       \/ Finish("succeeded", "ok")
      BY <1>5, <2>2 DEF Conclude
    <3>2. faults' \in Nat
      BY <3>1 DEF TypeOK, Commits
    <3>3. status' \in RunStatus /\ code' \in Code /\ ends' \in Nat
      BY <3>1 DEF TypeOK, Finish, FailureCode, RunStatus, Finished, Code
    <3>4. driver' \in Driver /\ cancelled' \in BOOLEAN
      BY <3>1 DEF TypeOK, Driver
    <3> QED BY <1>5, <3>2, <3>3, <3>4 DEF TypeOK, Conclude
  <2> QED BY <2>1, <2>2
<1>6. CASE ConcludeFailed
  <2>1. /\ status' \in RunStatus /\ code' \in Code /\ ends' \in Nat
        /\ faults' \in Nat
    BY <1>6 DEF TypeOK, ConcludeFailed, Finish, FailureCode, Commits, RunStatus,
             Finished, Code
  <2> QED BY <1>6, <2>1 DEF TypeOK, ConcludeFailed, Driver
<1>7. ASSUME NEW n \in Node, ScanFull(n) PROVE TypeOK'
  BY <1>7 DEF TypeOK, ScanFull, Turn
<1>8. ASSUME NEW n \in Node, ScanPast(n) PROVE TypeOK'
  BY <1>8 DEF TypeOK, ScanPast, Turn
<1>9. ASSUME NEW n \in Node, ScanExhausted(n) PROVE TypeOK'
  BY <1>9 DEF TypeOK, ScanExhausted, Turn
<1>10. ASSUME NEW n \in Node, ScanSkip(n) PROVE TypeOK'
  BY <1>10 DEF TypeOK, ScanSkip, Turn
<1>11. ASSUME NEW n \in Node, ScanResting(n) PROVE TypeOK'
  BY <1>11 DEF TypeOK, ScanResting, Turn
<1>12. ASSUME NEW n \in Node, ScanStart(n) PROVE TypeOK'
  BY <1>12 DEF TypeOK, ScanStart, Turn
<1>13. ASSUME NEW n \in Node, Begin(n) PROVE TypeOK'
  <2>1. attempts' \in [Node -> Nat] /\ faults' \in Nat
    BY <1>13 DEF TypeOK, Begin, Commits
  <2>2. steps' \in [Node -> Seq(Step)]
    <3>1. [status |-> "running", error |-> "none"] \in Step
      BY DEF Step, StepStatus, StepError
    <3>2. Append(steps[n], [status |-> "running",
           error |-> "none"]) \in Seq(Step)
      BY <3>1 DEF TypeOK
    <3>3. CASE steps' = steps BY <3>3 DEF TypeOK
    <3>4. CASE steps' = [steps EXCEPT ![n] =
                 Append(@, [status |-> "running", error |-> "none"])]
      BY <3>2, <3>4 DEF TypeOK
    <3> QED BY <1>13, <3>3, <3>4 DEF Begin
  <2>3. /\ pc' \in [Node -> Task] /\ stage' \in [Node -> Stage]
        /\ live' \subseteq Node /\ running' \subseteq Node
    <3>1. PICK ok \in BOOLEAN :
            IF ok THEN /\ pc' = [pc EXCEPT ![n] = "working"]
                       /\ stage' = [stage EXCEPT ![n] = "admit"]
                       /\ live' = live \cup {n} /\ running' = running
                  ELSE /\ running' = running \ {n}
                       /\ UNCHANGED <<pc, stage, live>>
      BY <1>13 DEF Begin
    <3>2. "working" \in Task /\ "admit" \in Stage
      BY DEF Task, Stage
    <3>3. /\ pc \in [Node -> Task] /\ stage \in [Node -> Stage]
          /\ live \subseteq Node /\ running \subseteq Node
      BY DEF TypeOK
    <3>4. CASE ok
      BY <3>1, <3>2, <3>3, <3>4
    <3>5. CASE ~ok
      BY <3>1, <3>3, <3>5
    <3> QED BY <3>4, <3>5
  <2>4. driver' \in Driver /\ cancelled' \in BOOLEAN
    BY <1>13 DEF TypeOK, Begin, Driver
  <2> QED BY <1>13, <2>1, <2>2, <2>3, <2>4 DEF TypeOK, Begin
<1>14. ASSUME NEW n \in Node, SettleCancelled(n) PROVE TypeOK'
  BY <1>14, RetireTyped DEF TypeOK, SettleCancelled, Retire, StepStatus,
       StepError, Task
<1>15. ASSUME NEW n \in Node, SettleSucceeded(n) PROVE TypeOK'
  BY <1>15, RetireTyped DEF TypeOK, SettleSucceeded, Retire, StepStatus,
       StepError, Task
<1>16. ASSUME NEW n \in Node, SettleFailed(n) PROVE TypeOK'
  <2>1. pc[n] \in StepError /\ "failed" \in StepStatus
    BY <1>16 DEF SettleFailed, StepError, StepStatus
  <2>2. Retire(n, "failed", pc[n])
    BY <1>16 DEF SettleFailed
  <2>3. /\ pc' \in [Node -> Task] /\ resting' \subseteq Node
        /\ completed' \subseteq Node
    BY <1>16 DEF TypeOK, SettleFailed, Task
  <2>4. failure' \in {"none", "error", "denied"}
    BY <1>16 DEF TypeOK, SettleFailed
  <2> QED BY <2>1, <2>2, <2>3, <2>4, RetireTyped DEF TypeOK, Retire
<1>17. ASSUME NEW n \in Node, Abandon(n) PROVE TypeOK'
  BY <1>17, RetireTyped DEF TypeOK, Abandon, Retire, StepStatus, StepError, Task
<1>18. ASSUME NEW n \in Node, Execute(n) PROVE TypeOK'
  BY <1>18 DEF TypeOK, Execute, Goes, Task, Writing, Result, Stage, RunStatus,
       Unfinished
<1>19. ASSUME NEW n \in Node, BlockRun(n) PROVE TypeOK'
  BY <1>19 DEF TypeOK, BlockRun, Goes, Task, InGate, Writing, Result, Stage,
       RunStatus, Unfinished
<1>20. ASSUME NEW n \in Node, ResumeRun(n) PROVE TypeOK'
  <2>1. PICK ok \in BOOLEAN :
          /\ Commits(ok)
          /\ IF ok THEN /\ status' = "running"
                        /\ Goes(n, IF pc[n] = "resuming" THEN "working"
                                   ELSE Refusal(n))
                   ELSE Goes(n, "error") /\ UNCHANGED status
    BY <1>20 DEF ResumeRun
  <2>2. faults' \in Nat /\ status' \in RunStatus
    BY <2>1 DEF TypeOK, Commits, RunStatus, Unfinished
  <2>3. pc' \in [Node -> Task]
    BY <2>1 DEF TypeOK, Goes, Refusal, Task, Result
  <2>4. gate' \in [Node -> GateKind \cup {"none"}]
    BY <1>20 DEF TypeOK, ResumeRun
  <2> QED BY <1>20, <2>2, <2>3, <2>4 DEF TypeOK, ResumeRun
<1>32. ASSUME NEW n \in Node, BreakGate(n) PROVE TypeOK'
  <2>1. pc' \in [Node -> Task] /\ faults' \in Nat
    BY <1>32 DEF TypeOK, BreakGate, Goes, Task, InGate
  <2>2. gate' \in [Node -> GateKind \cup {"none"}]
    BY <1>32 DEF TypeOK, BreakGate
  <2> QED BY <1>32, <2>1, <2>2 DEF TypeOK, BreakGate
<1>21. ASSUME NEW n \in Node, TimeOut(n) PROVE TypeOK'
  BY <1>21 DEF TypeOK, TimeOut, Goes, Task, Writing, Result, Stage, RunStatus,
       Unfinished
<1>22. ASSUME NEW n \in Node, NEW r \in Result, Return(n, r) PROVE TypeOK'
  BY <1>22 DEF TypeOK, Return, Goes, Task, Result
<1>23. ASSUME NEW n \in Node, NEW k \in GateKind, OpenGate(n, k) PROVE TypeOK'
  <2>1. /\ ledger' \in [Node -> {"none", "undecided", "decided"}]
        /\ gates' \in Nat
    BY <1>23 DEF TypeOK, OpenGate, OneGateLess
  <2>2. pc' \in [Node -> Task]
    <3>1. \E p \in Task : Goes(n, p) BY <1>23 DEF OpenGate, Task, InGate, Result
    <3> QED BY <3>1 DEF TypeOK, Goes
  <2>3. gate' \in [Node -> GateKind \cup {"none"}]
    BY <1>23 DEF TypeOK, OpenGate
  <2> QED BY <1>23, <2>1, <2>2, <2>3 DEF TypeOK, OpenGate
<1>24. ASSUME NEW n \in Node, NEW granted \in BOOLEAN, CloseGate(n,
       granted) PROVE TypeOK'
  <2>1. ledger' \in [Node -> {"none", "undecided", "decided"}]
    BY <1>24 DEF TypeOK, CloseGate
  <2>4. gates' \in Nat
    BY <1>24 DEF TypeOK, CloseGate, OneGateLess
  <2>2. pc' \in [Node -> Task]
    <3>1. \E p \in Task : Goes(n, p)
      BY <1>24 DEF CloseGate, Refusal, Task, Writing, Result
    <3> QED BY <3>1 DEF TypeOK, Goes
  <2>3. gate' \in [Node -> GateKind \cup {"none"}]
    BY <1>24 DEF TypeOK, CloseGate
  <2> QED BY <1>24, <2>1, <2>2, <2>3, <2>4 DEF TypeOK, CloseGate
<1>25. ASSUME NEW n \in Node, BackoffElapsed(n) PROVE TypeOK'
  BY <1>25 DEF TypeOK, BackoffElapsed
<1>26. CASE Cancel
  BY <1>26 DEF TypeOK, Cancel
<1>27. CASE Suspend
  BY <1>27 DEF TypeOK, Suspend
<1>28. CASE Crash
  BY <1>28 DEF TypeOK, Crash
<1>29. CASE Reboot
  BY <1>29, AbandonedRows DEF TypeOK, Reboot, Forget, Idle, NoAttempt, NoStep,
       NoGate, AtAdmission, Driver, Task, Stage
<1>30. CASE CloseRecovered
  BY <1>30 DEF TypeOK, CloseRecovered, Finish, Commits, RunStatus, Finished,
       Code, Driver
<1>31. CASE UNCHANGED vars
  BY <1>31 DEF TypeOK
<1> QED BY <1>1, <1>2, <1>3, <1>4, <1>5, <1>6, <1>7, <1>8, <1>9, <1>10, <1>11,
             <1>12, <1>13, <1>14, <1>15, <1>16, <1>17, <1>18, <1>19, <1>20,
                    <1>21, <1>22, <1>23, <1>24, <1>25, <1>26, <1>27, <1>28,
                           <1>29, <1>30, <1>31, <1>32 DEF Next, DriverStep,
                                  TaskStep, Rest

\* Every variable keeps its type, whatever the graph and the bounds.
THEOREM Typed == Spec => []TypeOK
<1>1. Init => TypeOK
  BY InitTyped
<1>2. TypeOK /\ [Next]_vars => TypeOK'
  BY NextTyped
<1> QED BY <1>1, <1>2, PTL DEF Spec

-----------------------------------------------------------------------------
(* One end per run. *)

\* A run in the driver's hands, or in recovery's, is unfinished.
Driven == driver # "gone" => status \in Unfinished

\* Nodes are active only between the first pass and the driver's last step.
ActiveOnlyDriven ==
    driver \in {"load", "denying", "interrupting", "gone"} => running = {}

\* A task the kernel listens to has a slot and has been spawned.
LiveHasSlot == \A n \in live : n \in running /\ pc[n] # "idle"

\* A task about to write a status has a slot as well: the driver is waiting
\* for it.  This is what a task that outlives the grace period breaks.
WriterHasSlot == \A n \in Node : pc[n] \in Writing => n \in running

EndInv == /\ TypeOK /\ EndMatchesStatus
          /\ Driven /\ ActiveOnlyDriven /\ LiveHasSlot /\ WriterHasSlot

\* A launch has no end and no tasks.
LEMMA InitEnd == Init => EndInv
<1> SUFFICES ASSUME Init PROVE EndInv
  OBVIOUS
<1>1. TypeOK
  BY InitTyped
<1>2. Driven /\ ActiveOnlyDriven /\ LiveHasSlot /\ EndMatchesStatus
  BY DEF Init, Driven, ActiveOnlyDriven, LiveHasSlot, EndMatchesStatus,
         Unfinished, Finished
<1>3. WriterHasSlot
  BY DEF Init, WriterHasSlot, Idle, Writing
<1> QED BY <1>1, <1>2, <1>3 DEF EndInv

\* The one ending: an unfinished run has none, and a finish adds it.
LEMMA FinishEnds ==
    ASSUME EndInv, status \in Unfinished, NEW s \in Finished, NEW c, Finish(s,
    c)
    PROVE  EndMatchesStatus'
  BY DEF EndInv, TypeOK, EndMatchesStatus, Finish, Unfinished, Finished

\* A status written over an unfinished one.
LEMMA WriteKeepsEnds ==
    ASSUME EndMatchesStatus, status \in Unfinished, status' \in Unfinished,
           ends' = ends
    PROVE  EndMatchesStatus'
  BY DEF EndMatchesStatus, Unfinished, Finished

\* What the end of an attempt does to the slots.
LEMMA RetireEnds ==
    ASSUME EndInv, NEW n \in Node, NEW s \in StepStatus, NEW e \in StepError,
           Polling, Retire(n, s, e),
           pc' = pc \/ pc' = [pc EXCEPT ![n] = "idle"],
           pc'[n] \notin Writing
    PROVE  EndMatchesStatus' /\ Driven' /\ ActiveOnlyDriven' /\ LiveHasSlot'
           /\ WriterHasSlot'
<1>1. EndMatchesStatus'
  BY DEF EndInv, EndMatchesStatus, Retire
<1>2. driver' \in {"loop", "await", "drain", "fail"}
  BY DEF Retire, Polling
<1>3. Driven' /\ ActiveOnlyDriven'
  BY <1>2 DEF EndInv, Driven, ActiveOnlyDriven, Retire, Polling
<1>4. LiveHasSlot'
  <2> SUFFICES ASSUME NEW m \in live' PROVE m \in running' /\ pc'[m] # "idle"
    BY DEF LiveHasSlot
  <2>1. m \in live /\ m # n
    BY DEF Retire
  <2>2. m \in Node /\ pc'[m] = pc[m]
    BY <2>1 DEF EndInv, TypeOK
  <2> QED BY <2>1, <2>2 DEF EndInv, LiveHasSlot, Retire
<1>5. WriterHasSlot'
  <2> SUFFICES ASSUME NEW m \in Node, pc'[m] \in Writing PROVE m \in running'
    BY DEF WriterHasSlot
  <2>1. m # n
    OBVIOUS
  <2>2. pc'[m] = pc[m]
    BY <2>1 DEF EndInv, TypeOK
  <2> QED BY <2>1, <2>2 DEF EndInv, WriterHasSlot, Retire
<1> QED BY <1>1, <1>3, <1>4, <1>5

\* What the move of a task does to the slots.
LEMMA TaskEnds ==
    ASSUME EndInv, NEW n \in Node, NEW p \in Task \ {"idle"}, Goes(n, p),
           p \in Writing => n \in running,
           UNCHANGED <<driver, running, live>>
    PROVE  ActiveOnlyDriven' /\ LiveHasSlot' /\ WriterHasSlot'
<1>1. pc'[n] = p /\ \A m \in Node \ {n} : pc'[m] = pc[m]
  BY DEF Goes, EndInv, TypeOK
<1>2. ActiveOnlyDriven'
  BY DEF EndInv, ActiveOnlyDriven
<1>3. LiveHasSlot'
  BY <1>1 DEF EndInv, TypeOK, LiveHasSlot
<1>4. WriterHasSlot'
  BY <1>1 DEF EndInv, WriterHasSlot
<1> QED BY <1>2, <1>3, <1>4

\* Every step keeps the ends, given that no task outlives the grace period
\* between its check and its write.
LEMMA NextEnd ==
    ASSUME LateWrites = FALSE
    PROVE  EndInv /\ [Next]_vars => EndInv'
<1> SUFFICES ASSUME EndInv, [Next]_vars PROVE EndInv'
  OBVIOUS
<1> DEFINE Goal == /\ EndMatchesStatus' /\ Driven' /\ ActiveOnlyDriven'
                   /\ LiveHasSlot' /\ WriterHasSlot'
<1>0. TypeOK'
  BY NextTyped DEF EndInv
<1> USE DEF vars, rows, state, signals, pass, tasks, process
<1>1. ASSUME Load PROVE Goal
  <2>1. status' \in Unfinished /\ ends' = ends /\ running' = running
        /\ driver' \in {"loop", "fail"}
    BY <1>1 DEF Load, EndInv, Driven, Unfinished
  <2>2. EndMatchesStatus'
    BY <1>1, <2>1, WriteKeepsEnds DEF Load, EndInv, Driven
  <2> QED BY <1>1, <2>1, <2>2 DEF Load, EndInv, Driven, ActiveOnlyDriven,
               LiveHasSlot, WriterHasSlot
<1>2. ASSUME Loop PROVE Goal
  BY <1>2 DEF Loop, EndInv, EndMatchesStatus, Driven, ActiveOnlyDriven,
       LiveHasSlot, WriterHasSlot
<1>3. ASSUME EndPass PROVE Goal
  BY <1>3 DEF EndPass, EndInv, EndMatchesStatus, Driven, ActiveOnlyDriven,
       LiveHasSlot, WriterHasSlot
<1>4. ASSUME Wake PROVE Goal
  BY <1>4 DEF Wake, EndInv, EndMatchesStatus, Driven, ActiveOnlyDriven,
       LiveHasSlot, WriterHasSlot
<1>5. ASSUME Conclude PROVE Goal
  <2>1. running = {} /\ running' = {} /\ status \in Unfinished
    BY <1>5 DEF Conclude, Drained, EndInv, Driven
  <2>2. EndMatchesStatus' /\ (driver' # "gone" => status' \in Unfinished)
    <3>1. CASE UNCHANGED <<status, ends>>
      BY <2>1, <3>1 DEF EndInv, EndMatchesStatus
    <3>2. CASE driver' = "gone" /\ \E s \in Finished, c \in Code : Finish(s, c)
      BY <2>1, <3>2, FinishEnds
    <3> QED BY <1>5, <3>1, <3>2 DEF Conclude, FailureCode, Finished, Code
  <2>3. driver' \in {"gone", "fail"}
    BY <1>5 DEF Conclude
  <2> QED BY <1>5, <2>1, <2>2, <2>3 DEF Conclude, EndInv, Driven,
               ActiveOnlyDriven, LiveHasSlot, WriterHasSlot
<1>6. ASSUME ConcludeFailed PROVE Goal
  <2>1. running = {} /\ running' = {} /\ status \in Unfinished /\ driver' = "gone"
    BY <1>6 DEF ConcludeFailed, Drained, EndInv, Driven
  <2>2. EndMatchesStatus'
    <3>1. CASE UNCHANGED <<status, ends>>
      BY <2>1, <3>1 DEF EndInv, EndMatchesStatus
    <3>2. CASE \E s \in Finished, c \in Code : Finish(s, c)
      BY <2>1, <3>2, FinishEnds
    <3> QED BY <1>6, <3>1, <3>2 DEF ConcludeFailed, FailureCode, Finished, Code
  <2> QED BY <1>6, <2>1, <2>2 DEF ConcludeFailed, EndInv, Driven,
               ActiveOnlyDriven, LiveHasSlot, WriterHasSlot
<1>7. ASSUME NEW n \in Node, ScanFull(n) PROVE Goal
  BY <1>7 DEF ScanFull, Turn, EndInv, EndMatchesStatus, Driven,
       ActiveOnlyDriven, LiveHasSlot, WriterHasSlot
<1>8. ASSUME NEW n \in Node, ScanPast(n) PROVE Goal
  BY <1>8 DEF ScanPast, Turn, EndInv, EndMatchesStatus, Driven,
       ActiveOnlyDriven, LiveHasSlot, WriterHasSlot
<1>9. ASSUME NEW n \in Node, ScanExhausted(n) PROVE Goal
  BY <1>9 DEF ScanExhausted, Turn, EndInv, EndMatchesStatus, Driven,
       ActiveOnlyDriven, LiveHasSlot, WriterHasSlot
<1>10. ASSUME NEW n \in Node, ScanSkip(n) PROVE Goal
  BY <1>10 DEF ScanSkip, Turn, EndInv, EndMatchesStatus, Driven,
       ActiveOnlyDriven, LiveHasSlot, WriterHasSlot
<1>11. ASSUME NEW n \in Node, ScanResting(n) PROVE Goal
  BY <1>11 DEF ScanResting, Turn, EndInv, EndMatchesStatus, Driven,
       ActiveOnlyDriven, LiveHasSlot, WriterHasSlot
<1>12. ASSUME NEW n \in Node, ScanStart(n) PROVE Goal
  BY <1>12 DEF ScanStart, Turn, EndInv, EndMatchesStatus, Driven,
       ActiveOnlyDriven, LiveHasSlot, WriterHasSlot
<1>13. ASSUME NEW n \in Node, Begin(n) PROVE Goal
  <2>1. PICK ok \in BOOLEAN :
          IF ok THEN /\ pc' = [pc EXCEPT ![n] = "working"]
                     /\ live' = live \cup {n}
                     /\ running' = running /\ driver' = driver
                ELSE /\ driver' = "fail" /\ running' = running \ {n}
                     /\ UNCHANGED <<pc, live>>
    BY <1>13 DEF Begin
  <2>2. n \in running /\ pc[n] = "idle" /\ UNCHANGED <<status, ends>>
        /\ driver \in {"await", "drain", "fail"}
    BY <1>13 DEF Begin, Polling
  <2>3. EndMatchesStatus' /\ Driven' /\ ActiveOnlyDriven'
    BY <2>1, <2>2 DEF EndInv, EndMatchesStatus, Driven, ActiveOnlyDriven
  <2>4. CASE ok
    BY <2>1, <2>2, <2>3, <2>4 DEF EndInv, TypeOK, LiveHasSlot, WriterHasSlot,
         Writing
  <2>5. CASE ~ok
    <3>1. n \notin live
      BY <2>2 DEF EndInv, LiveHasSlot
    <3> QED BY <2>1, <2>2, <2>3, <2>5, <3>1 DEF EndInv, LiveHasSlot,
                 WriterHasSlot, Writing
  <2> QED BY <2>4, <2>5
<1>14. ASSUME NEW n \in Node, SettleCancelled(n) PROVE Goal
  <2>1. Polling /\ Retire(n, "cancelled", "cancelled")
    BY <1>14 DEF SettleCancelled, Settling
  <2>2. pc' = pc \/ pc' = [pc EXCEPT ![n] = "idle"]
    BY <1>14 DEF SettleCancelled
  <2>3. pc'[n] \notin Writing
    BY <1>14 DEF SettleCancelled, EndInv, TypeOK, Writing
  <2> QED BY <1>14, <2>1, <2>2, <2>3, RetireEnds DEF SettleCancelled, Settling,
               StepStatus, StepError
<1>15. ASSUME NEW n \in Node, SettleSucceeded(n) PROVE Goal
  <2>1. Polling /\ Retire(n, "succeeded", "none")
    BY <1>15 DEF SettleSucceeded, Settling
  <2>2. pc' = pc \/ pc' = [pc EXCEPT ![n] = "idle"]
    BY <1>15 DEF SettleSucceeded
  <2>3. pc'[n] \notin Writing
    BY <1>15 DEF SettleSucceeded, EndInv, TypeOK, Writing
  <2> QED BY <1>15, <2>1, <2>2, <2>3, RetireEnds DEF SettleSucceeded, Settling,
               StepStatus, StepError
<1>16. ASSUME NEW n \in Node, SettleFailed(n) PROVE Goal
  <2>1. Polling /\ Retire(n, "failed", pc[n])
    BY <1>16 DEF SettleFailed, Settling
  <2>2. pc' = pc \/ pc' = [pc EXCEPT ![n] = "idle"]
    BY <1>16 DEF SettleFailed
  <2>3. pc'[n] \notin Writing
    BY <1>16 DEF SettleFailed, EndInv, TypeOK, Writing
  <2> QED BY <1>16, <2>1, <2>2, <2>3, RetireEnds DEF SettleFailed, Settling,
               StepStatus, StepError
<1>17. ASSUME NEW n \in Node, Abandon(n) PROVE Goal
  <2>1. Polling /\ Retire(n, "abandoned", "abandoned")
    BY <1>17 DEF Abandon, Settling
  <2>2. pc' = pc \/ pc' = [pc EXCEPT ![n] = "idle"]
    BY <1>17 DEF Abandon
  <2>3. pc'[n] \notin Writing
    BY <1>17 DEF Abandon, EndInv, TypeOK, Writing
  <2> QED BY <1>17, <2>1, <2>2, <2>3, RetireEnds DEF Abandon, Settling,
               StepStatus, StepError
<1>18. ASSUME NEW n \in Node, Execute(n) PROVE Goal
  BY <1>18 DEF Execute, Goes, TypeOK, Writing, EndInv, EndMatchesStatus,
       Driven, ActiveOnlyDriven, LiveHasSlot, WriterHasSlot
<1>19. ASSUME NEW n \in Node, TimeOut(n) PROVE Goal
  BY <1>19 DEF TimeOut, Goes, TypeOK, Writing, EndInv, EndMatchesStatus,
       Driven, ActiveOnlyDriven, LiveHasSlot, WriterHasSlot
<1>20. ASSUME NEW n \in Node, NEW r \in Result, Return(n, r) PROVE Goal
  BY <1>20 DEF Return, Goes, TypeOK, Writing, Result, EndInv, EndMatchesStatus,
       Driven, ActiveOnlyDriven, LiveHasSlot, WriterHasSlot
<1>21. ASSUME NEW n \in Node, BlockRun(n) PROVE Goal
  <2>1. n \in running /\ driver # "gone" /\ status \in Unfinished
    BY <1>21 DEF BlockRun, EndInv, WriterHasSlot, Writing, ActiveOnlyDriven,
         Driven
  <2>2. status' \in Unfinished /\ UNCHANGED <<ends, driver, running, live>>
    BY <1>21 DEF BlockRun, Unfinished
  <2>3. EndMatchesStatus' /\ Driven'
    BY <2>1, <2>2, WriteKeepsEnds DEF EndInv, Driven
  <2>4. PICK p \in Task \ {"idle"} : Goes(n, p)
    BY <1>21 DEF BlockRun, Task, InGate
  <2> QED BY <2>1, <2>2, <2>3, <2>4, TaskEnds
<1>22. ASSUME NEW n \in Node, ResumeRun(n) PROVE Goal
  <2>1. n \in running /\ driver # "gone" /\ status \in Unfinished
    BY <1>22 DEF ResumeRun, EndInv, WriterHasSlot, Writing, ActiveOnlyDriven,
         Driven
  <2>2. status' \in Unfinished /\ UNCHANGED <<ends, driver, running, live>>
    BY <1>22, <2>1 DEF ResumeRun, Unfinished
  <2>3. EndMatchesStatus' /\ Driven'
    BY <2>1, <2>2, WriteKeepsEnds DEF EndInv, Driven
  <2>4. PICK p \in Task \ {"idle"} : Goes(n, p)
    <3>1. \/ Goes(n, IF pc[n] = "resuming" THEN "working" ELSE Refusal(n))
          \/ Goes(n, "error")
      BY <1>22 DEF ResumeRun
    <3> QED BY <3>1 DEF Refusal, Task, Result
  <2> QED BY <2>1, <2>2, <2>3, <2>4, TaskEnds
<1>23. ASSUME NEW n \in Node, NEW k \in GateKind, OpenGate(n, k) PROVE Goal
  <2>1. UNCHANGED <<status, ends, driver, running, live>>
    BY <1>23 DEF OpenGate
  <2>2. EndMatchesStatus' /\ Driven'
    BY <2>1 DEF EndInv, EndMatchesStatus, Driven
  <2>3. PICK p \in Task \ {"idle"} : Goes(n, p) /\ (p \in Writing => Heard(n))
    BY <1>23 DEF OpenGate, Task, InGate, Writing, Result
  <2>4. Heard(n) => n \in running
    BY DEF Heard, EndInv, LiveHasSlot
  <2> QED BY <2>1, <2>2, <2>3, <2>4, TaskEnds
<1>24. ASSUME NEW n \in Node, NEW granted \in BOOLEAN, CloseGate(n,
       granted) PROVE Goal
  <2>1. UNCHANGED <<status, ends, driver, running, live>>
    BY <1>24 DEF CloseGate
  <2>2. EndMatchesStatus' /\ Driven'
    BY <2>1 DEF EndInv, EndMatchesStatus, Driven
  <2>3. PICK p \in Task \ {"idle"} : Goes(n, p) /\ (p \in Writing => Heard(n))
    <3>1. CASE Heard(n) /\ gates' = 0
      <4>1. Goes(n, IF granted THEN "resuming" ELSE "refusing")
        BY <1>24, <3>1 DEF CloseGate
      <4> QED BY <3>1, <4>1 DEF Task, Writing
    <3>2. CASE ~(Heard(n) /\ gates' = 0)
      <4>1. Goes(n, IF granted THEN "working" ELSE Refusal(n))
        BY <1>24, <3>2 DEF CloseGate
      <4> QED BY <4>1 DEF Refusal, Task, Writing, Result
    <3> QED BY <3>1, <3>2
  <2>4. Heard(n) => n \in running
    BY DEF Heard, EndInv, LiveHasSlot
  <2> QED BY <2>1, <2>2, <2>3, <2>4, TaskEnds
<1>33. ASSUME NEW n \in Node, BreakGate(n) PROVE Goal
  <2>1. UNCHANGED <<status, ends, driver, running, live>> /\ Goes(n, "closing")
    BY <1>33 DEF BreakGate
  <2>2. EndMatchesStatus' /\ Driven'
    BY <2>1 DEF EndInv, EndMatchesStatus, Driven
  <2>3. "closing" \in Task \ {"idle"} /\ "closing" \notin Writing
    BY DEF Task, InGate, Writing
  <2> QED BY <2>1, <2>2, <2>3, TaskEnds
<1>25. ASSUME NEW n \in Node, BackoffElapsed(n) PROVE Goal
  BY <1>25 DEF BackoffElapsed, EndInv, EndMatchesStatus, Driven,
       ActiveOnlyDriven, LiveHasSlot, WriterHasSlot
<1>26. ASSUME Cancel PROVE Goal
  BY <1>26 DEF Cancel, EndInv, EndMatchesStatus, Driven, ActiveOnlyDriven,
       LiveHasSlot, WriterHasSlot
<1>27. ASSUME Suspend PROVE Goal
  BY <1>27 DEF Suspend, EndInv, EndMatchesStatus, Driven, ActiveOnlyDriven,
       LiveHasSlot, WriterHasSlot
<1>28. ASSUME Crash PROVE Goal
  BY <1>28 DEF Crash, EndInv, EndMatchesStatus, Driven, ActiveOnlyDriven,
       LiveHasSlot, WriterHasSlot
<1>29. ASSUME Reboot PROVE Goal
  <2>1. running' = {} /\ live' = {} /\ UNCHANGED <<status, ends>>
    BY <1>29 DEF Reboot, Forget
  <2>2. driver' # "gone" => status \in Unfinished
    BY <1>29 DEF Reboot
  <2>3. \A n \in Node : pc'[n] \notin Writing
    BY <1>29 DEF Reboot, Forget, Idle, Writing
  <2> QED BY <2>1, <2>2, <2>3 DEF EndInv, EndMatchesStatus, Driven,
               ActiveOnlyDriven, LiveHasSlot, WriterHasSlot
<1>30. ASSUME CloseRecovered PROVE Goal
  <2>1. running = {} /\ running' = {} /\ status \in Unfinished /\ driver' = "gone"
    BY <1>30 DEF CloseRecovered, EndInv, Driven, ActiveOnlyDriven
  <2>2. EndMatchesStatus'
    <3>1. CASE UNCHANGED <<status, ends>>
      BY <2>1, <3>1 DEF EndInv, EndMatchesStatus
    <3>2. CASE \E s \in Finished, c \in Code : Finish(s, c)
      BY <2>1, <3>2, FinishEnds
    <3> QED BY <1>30, <3>1, <3>2 DEF CloseRecovered, Finished, Code
  <2> QED BY <1>30, <2>1, <2>2 DEF CloseRecovered, EndInv, Driven,
               ActiveOnlyDriven, LiveHasSlot, WriterHasSlot
<1>31. ASSUME UNCHANGED vars PROVE Goal
  BY <1>31 DEF EndInv, EndMatchesStatus, Driven, ActiveOnlyDriven, LiveHasSlot,
       WriterHasSlot
<1>32. Goal
  BY <1>1, <1>2, <1>3, <1>4, <1>5, <1>6, <1>7, <1>8, <1>9, <1>10, <1>11, <1>12,
       <1>13, <1>14, <1>15, <1>16, <1>17, <1>18, <1>19, <1>20, <1>21, <1>22,
              <1>23, <1>24, <1>25, <1>26, <1>27, <1>28, <1>29, <1>30, <1>31,
                     <1>33 DEF Next, DriverStep, TaskStep, Rest
<1> QED BY <1>0, <1>32 DEF EndInv

\* A run is finished exactly when its one `end` is recorded, through every
\* retry, gate, cancellation, failed commit and restart, as long as no task
\* stalls past the grace period between its check and its status write
\* (Scheduler::finish, set_status).
THEOREM EndsOnce ==
    ASSUME LateWrites = FALSE
    PROVE  Spec => []EndMatchesStatus
<1>1. Init => EndInv
  BY InitEnd
<1>2. EndInv /\ [Next]_vars => EndInv'
  BY NextEnd
<1>3. EndInv => EndMatchesStatus
  BY DEF EndInv
<1> QED BY <1>1, <1>2, <1>3, PTL DEF Spec

\* What the kernel README says of every completed run holds as long as no task
\* stalls that long (the run `late_write` shows one that does): it ends once.
THEOREM EndsAtMostOnce ==
    ASSUME LateWrites = FALSE
    PROVE  Spec => []OneEnd
<1>1. EndMatchesStatus => OneEnd
  BY DEF EndMatchesStatus, OneEnd
<1> QED BY <1>1, EndsOnce, PTL

-----------------------------------------------------------------------------
(* Kinds of steps. *)

\* Where the driver goes between the steps that touch rows or slots.
Drives ==
    \/ driver' = driver
    \/ driver = "loop" /\ driver' = "scan" /\ ~Over /\ cancelled' = cancelled
    \/ driver = "loop" /\ driver' = "drain" /\ Over /\ cancelled' = cancelled
    \/ driver = "scan" /\ driver' = "drain" /\ cancelled
    \/ driver = "scan" /\ driver' \in {"await", "pause", "loop"} /\ ~cancelled /\ ~cancelled'
    \/ driver = "scan" /\ driver' = "fail" /\ cancelled'
    \/ driver \in {"await", "pause"} /\ driver' = "loop"
    \/ driver = "drain" /\ driver' \in {"gone", "fail"} /\ running = {}
    \/ driver = "fail" /\ driver' = "gone" /\ running = {}
    \/ driver \in {"denying", "interrupting"} /\ driver' = "gone"

\* A step that leaves rows and slots alone.
Quiet ==
    /\ UNCHANGED <<steps, running, attempts, latest, completed, skipped>>
    /\ \A n \in Node : pc'[n] = "idle" <=> pc[n] = "idle"
    /\ cancelled => cancelled'
    /\ \/ failure' = failure
       \/ failure' = "error" /\ cancelled' /\ driver = "scan" /\ driver' = "scan"
    /\ Drives
    /\ faults' >= faults
    /\ status' = status \/ status' \in Unfinished \/ driver' = "gone"

\* The ends of an attempt.
Settle(n) == SettleCancelled(n) \/ SettleSucceeded(n) \/ SettleFailed(n) \/ Abandon(n)

\* Steps of the driver between rows, of the user and of the host's end are quiet.
LEMMA DriverKinds ==
    ASSUME TypeOK, Loop \/ EndPass \/ Wake \/ Conclude \/ ConcludeFailed \/ CloseRecovered
                   \/ Cancel \/ Suspend \/ Crash \/ Rest \/ UNCHANGED vars
    PROVE  Quiet
<1> USE DEF Quiet, Drives, vars, rows, state, signals, pass, tasks, process
<1>1. CASE Loop BY <1>1 DEF Loop, TypeOK
<1>2. CASE EndPass BY <1>2 DEF EndPass, TypeOK
<1>3. CASE Wake BY <1>3 DEF Wake, TypeOK
<1>4. CASE Conclude BY <1>4 DEF Conclude, Commits, Drained, TypeOK
<1>5. CASE ConcludeFailed BY <1>5 DEF ConcludeFailed, Commits, Drained, TypeOK
<1>6. CASE CloseRecovered BY <1>6 DEF CloseRecovered, Commits, TypeOK
<1>7. CASE Cancel \/ Suspend \/ Crash \/ Rest \/ UNCHANGED vars
  BY <1>7 DEF Cancel, Suspend, Crash, Rest, TypeOK
<1> QED BY <1>1, <1>2, <1>3, <1>4, <1>5, <1>6, <1>7

\* So are a node that a pass looks at and leaves alone, and every step of a task.
LEMMA NodeKinds ==
    ASSUME TypeOK, NEW n \in Node,
           ScanFull(n) \/ ScanPast(n) \/ ScanExhausted(n) \/ ScanResting(n)
             \/ TaskStep(n) \/ BackoffElapsed(n)
    PROVE  Quiet
<1> USE DEF Quiet, Drives, rows, state, signals, pass, tasks, process
<1>1. CASE ScanFull(n) \/ ScanPast(n) \/ ScanResting(n) \/ BackoffElapsed(n)
  BY <1>1 DEF ScanFull, ScanPast, ScanResting, BackoffElapsed, TypeOK
<1>2. CASE ScanExhausted(n) BY <1>2 DEF ScanExhausted, Turn, TypeOK
<1>3. ASSUME NEW p \in Task \ {"idle"}, Goes(n, p), pc[n] # "idle",
             UNCHANGED <<steps, running, attempts, latest, completed, skipped, cancelled,
                         failure, driver>>,
             faults' >= faults, status' = status \/ status' \in Unfinished
      PROVE  Quiet
  BY <1>3 DEF Goes, TypeOK
<1>4. CASE Execute(n)
  <2>1. CASE cancelled BY <1>3, <1>4, <2>1 DEF Execute, Task, Result, TypeOK
  <2>2. CASE ~cancelled BY <1>4, <2>2 DEF Execute, TypeOK
  <2> QED BY <2>1, <2>2
<1>5. CASE BlockRun(n) \/ BreakGate(n) \/ TimeOut(n)
  BY <1>3, <1>5 DEF BlockRun, BreakGate, TimeOut, Task, InGate, Result, Unfinished, TypeOK
<1>6. CASE ResumeRun(n)
  <2>1. PICK ok \in BOOLEAN :
          /\ Commits(ok)
          /\ IF ok THEN /\ status' = "running"
                        /\ Goes(n, IF pc[n] = "resuming" THEN "working" ELSE Refusal(n))
                   ELSE Goes(n, "error") /\ UNCHANGED status
    BY <1>6 DEF ResumeRun
  <2>2. faults' >= faults BY <2>1 DEF Commits, TypeOK
  <2>3. PICK p \in Task \ {"idle"} : Goes(n, p)
    BY <2>1 DEF Refusal, Task, Result
  <2>4. status' = status \/ status' \in Unfinished BY <2>1 DEF Unfinished
  <2> QED BY <1>3, <1>6, <2>2, <2>3, <2>4 DEF ResumeRun
<1>7. ASSUME NEW r \in Result, Return(n, r) PROVE Quiet
  BY <1>3, <1>7 DEF Return, Task, Result, TypeOK
<1>8. ASSUME NEW k \in GateKind, OpenGate(n, k) PROVE Quiet
  BY <1>3, <1>8 DEF OpenGate, Task, InGate, Result, TypeOK
<1>9. ASSUME NEW granted \in BOOLEAN, CloseGate(n, granted) PROVE Quiet
  <2>1. PICK p \in Task \ {"idle"} : Goes(n, p)
    BY <1>9 DEF CloseGate, Refusal, Task, Writing, Result
  <2> QED BY <1>3, <1>9, <2>1 DEF CloseGate, TypeOK
<1> QED BY <1>1, <1>2, <1>4, <1>5, <1>6, <1>7, <1>8, <1>9 DEF TaskStep

\* Rows and slots are touched by the loading of checkpoints, a start, a skip,
\* an attempt that begins or ends, and a restart, and by nothing else.
LEMMA Kinds ==
    ASSUME TypeOK, [Next]_vars
    PROVE  \/ Quiet \/ Load \/ Reboot
           \/ \E n \in Node : ScanSkip(n) \/ ScanStart(n) \/ Begin(n) \/ Settle(n)
BY DriverKinds, NodeKinds DEF Next, DriverStep, Settle

-----------------------------------------------------------------------------
(* What the steps on one node change. *)

\* The task of n has been spawned and has not been taken back.
Spawned(n) == pc[n] # "idle"

\* The end of an attempt of n with the verdict <<s, e>>, committed or not.
Settled(n, s, e, ok) ==
    /\ driver \in {"await", "drain", "fail"} /\ n \in running /\ Spawned(n)
    /\ s \in {"succeeded", "failed", "cancelled", "abandoned"}
    /\ running' = running \ {n}
    /\ latest' = [latest EXCEPT ![n] = s]
    /\ UNCHANGED <<status, attempts, skipped>>
    /\ steps' = IF ok THEN Verdict(n, s, e) ELSE steps
    /\ driver' = IF ~ok THEN "fail" ELSE IF driver = "await" THEN "loop" ELSE driver
    /\ cancelled' = (cancelled \/ ~ok \/ failure' # failure)
    /\ IF ok THEN faults' = faults ELSE faults' = faults + 1
    /\ pc' = [pc EXCEPT ![n] = "idle"] \/ (pc' = pc /\ cancelled)

\* What the verdict means for the graph.
Means(n, s, e) ==
    \/ s \in {"cancelled", "abandoned"} /\ e = s
       /\ UNCHANGED <<completed, failure>> /\ cancelled
    \/ s = "succeeded" /\ e = "none"
       /\ completed' = completed \cup {n} /\ UNCHANGED failure /\ ~cancelled
    \/ /\ s = "failed" /\ e = pc[n] /\ pc[n] \in {"error", "denied"} /\ ~cancelled
       /\ \/ CarriedPast(n) /\ completed' = completed \cup {n} /\ UNCHANGED failure
          \/ ~CarriedPast(n) /\ completed' = completed
             /\ failure' = IF pc[n] = "denied" \/ attempts[n] >= MaxAttempts[n]
                             THEN pc[n] ELSE failure

\* The four ways an attempt ends are one: a verdict, what it means, a commit.
LEMMA Settles ==
    ASSUME TypeOK, NEW n \in Node, Settle(n)
    PROVE  \E s \in StepStatus, e \in StepError, ok \in BOOLEAN :
               Settled(n, s, e, ok) /\ Means(n, s, e)
<1>1. \E s \in StepStatus, e \in StepError :
        /\ driver \in {"await", "drain", "fail"} /\ n \in running /\ Spawned(n)
        /\ s \in {"succeeded", "failed", "cancelled", "abandoned"}
        /\ Retire(n, s, e)
        /\ pc' = [pc EXCEPT ![n] = "idle"] \/ (pc' = pc /\ cancelled)
        /\ Means(n, s, e)
  <2>1. CASE SettleCancelled(n)
    BY <2>1 DEF SettleCancelled, Settling, Polling, Result, StepStatus, StepError,
                Means, Spawned
  <2>2. CASE SettleSucceeded(n)
    BY <2>2 DEF SettleSucceeded, Settling, Polling, Result, StepStatus, StepError,
                Means, Spawned
  <2>3. CASE SettleFailed(n)
    <3>1. pc[n] \in {"error", "denied"} /\ ~cancelled /\ pc[n] \in StepError
          /\ Retire(n, "failed", pc[n])
      BY <2>3 DEF SettleFailed, StepError
    <3>2. Means(n, "failed", pc[n])
      BY <2>3, <3>1 DEF SettleFailed, Means
    <3> QED BY <2>3, <3>1, <3>2 DEF SettleFailed, Settling, Polling, StepStatus,
                                    Spawned
  <2>4. CASE Abandon(n)
    BY <2>4 DEF Abandon, Stuck, Polling, StepStatus, StepError, Means, Spawned
  <2> QED BY <2>1, <2>2, <2>3, <2>4 DEF Settle
<1>2. PICK s \in StepStatus, e \in StepError :
        /\ driver \in {"await", "drain", "fail"} /\ n \in running /\ Spawned(n)
        /\ s \in {"succeeded", "failed", "cancelled", "abandoned"}
        /\ Retire(n, s, e)
        /\ pc' = [pc EXCEPT ![n] = "idle"] \/ (pc' = pc /\ cancelled)
        /\ Means(n, s, e)
  BY <1>1
<1>3. PICK ok \in BOOLEAN :
        /\ Commits(ok)
        /\ steps' = IF ok THEN Verdict(n, s, e) ELSE steps
        /\ driver' = IF ~ok THEN "fail"
                     ELSE IF driver = "await" THEN "loop" ELSE driver
        /\ cancelled' = (cancelled \/ ~ok \/ failure' # failure)
  BY <1>2 DEF Retire
<1>4. IF ok THEN faults' = faults ELSE faults' = faults + 1
  BY <1>3 DEF Commits
<1>5. /\ running' = running \ {n} /\ latest' = [latest EXCEPT ![n] = s]
      /\ UNCHANGED <<status, attempts, skipped>>
  BY <1>2 DEF Retire
<1>6. Settled(n, s, e, ok)
  BY <1>2, <1>3, <1>4, <1>5 DEF Settled
<1> QED BY <1>2, <1>6

\* The rows of the node, seen from the outside.
LEMMA SettledRows ==
    ASSUME TypeOK, NEW n \in Node, NEW s, NEW e, NEW ok, Settled(n, s, e, ok)
    PROVE  /\ \A m \in Node \ {n} : steps'[m] = steps[m] /\ pc'[m] = pc[m]
                                    /\ latest'[m] = latest[m]
           /\ Len(steps'[n]) = Len(steps[n])
           /\ DOMAIN steps'[n] = DOMAIN steps[n]
           /\ \A i \in DOMAIN steps[n] :
                steps'[n][i] = IF ok /\ i = Len(steps[n])
                               THEN [status |-> s, error |-> e] ELSE steps[n][i]
           /\ latest'[n] = s
           /\ pc'[n] = "idle" \/ (pc'[n] = pc[n] /\ cancelled)
<1>1. steps \in [Node -> Seq(Step)] /\ latest \in [Node -> StepStatus \cup {"none"}]
      /\ pc \in [Node -> Task]
  BY DEF TypeOK
<1>2. /\ \A m \in Node \ {n} : Verdict(n, s, e)[m] = steps[m]
      /\ DOMAIN Verdict(n, s, e)[n] = DOMAIN steps[n]
      /\ \A i \in DOMAIN steps[n] :
           Verdict(n, s, e)[n][i] = IF i = Len(steps[n])
                                    THEN [status |-> s, error |-> e]
                                    ELSE steps[n][i]
  BY <1>1, VerdictAt
<1>3. Len(Verdict(n, s, e)[n]) = Len(steps[n])
  <2>1. Verdict(n, s, e)[n] = [steps[n] EXCEPT ![Len(steps[n])] =
                                 [status |-> s, error |-> e]]
    BY <1>1 DEF Verdict
  <2>2. steps[n] \in Seq(Step) BY <1>1
  <2> QED BY <2>1, <2>2
<1>4. \A m \in Node \ {n} : steps'[m] = steps[m]
  BY <1>2 DEF Settled
<1>5. /\ Len(steps'[n]) = Len(steps[n]) /\ DOMAIN steps'[n] = DOMAIN steps[n]
      /\ \A i \in DOMAIN steps[n] :
           steps'[n][i] = IF ok /\ i = Len(steps[n])
                          THEN [status |-> s, error |-> e] ELSE steps[n][i]
  <2>1. CASE ok BY <1>2, <1>3, <2>1 DEF Settled
  <2>2. CASE ~ok BY <2>2 DEF Settled
  <2> QED BY <2>1, <2>2
<1>6. latest'[n] = s /\ \A m \in Node \ {n} : latest'[m] = latest[m]
  BY <1>1 DEF Settled
<1>7. /\ pc'[n] = "idle" \/ (pc'[n] = pc[n] /\ cancelled)
      /\ \A m \in Node \ {n} : pc'[m] = pc[m]
  BY <1>1 DEF Settled
<1> QED BY <1>4, <1>5, <1>6, <1>7

\* The first poll of run_node, row written or not.
Begun(n, ok) ==
    /\ driver \in {"await", "drain", "fail"} /\ n \in running /\ ~Spawned(n)
    /\ UNCHANGED <<status, completed, skipped, latest, failure>>
    /\ attempts' = [attempts EXCEPT ![n] = attempts[n] + 1]
    /\ \A m \in Node \ {n} : steps'[m] = steps[m] /\ pc'[m] = pc[m]
    /\ IF ok THEN /\ steps'[n] = Append(steps[n], [status |-> "running", error |-> "none"])
                  /\ pc'[n] = "working" /\ UNCHANGED <<driver, running, cancelled, faults>>
             ELSE /\ driver' = "fail" /\ cancelled' /\ running' = running \ {n}
                  /\ steps' = steps /\ pc' = pc /\ faults' = faults + 1

\* The first poll of run_node, committed or not.
LEMMA Begins ==
    ASSUME TypeOK, NEW n \in Node, Begin(n)
    PROVE  \E ok \in BOOLEAN : Begun(n, ok)
<1>1. /\ driver \in {"await", "drain", "fail"} /\ n \in running /\ ~Spawned(n)
      /\ UNCHANGED <<status, completed, skipped, latest, failure>>
      /\ attempts' = [attempts EXCEPT ![n] = attempts[n] + 1]
  BY DEF Begin, Polling, Spawned, TypeOK
<1>2. PICK ok \in BOOLEAN :
        /\ Commits(ok)
        /\ IF ok
             THEN /\ steps' = [steps EXCEPT ![n] =
                        Append(@, [status |-> "running", error |-> "none"])]
                  /\ pc' = [pc EXCEPT ![n] = "working"]
                  /\ UNCHANGED <<driver, running, cancelled>>
             ELSE /\ driver' = "fail" /\ cancelled' = TRUE
                  /\ running' = running \ {n}
                  /\ UNCHANGED <<steps, pc>>
  BY DEF Begin
<1>3. steps \in [Node -> Seq(Step)] /\ pc \in [Node -> Task]
  BY DEF TypeOK
<1>4. CASE ok
  <2>1. /\ \A m \in Node \ {n} : steps'[m] = steps[m] /\ pc'[m] = pc[m]
        /\ steps'[n] = Append(steps[n], [status |-> "running", error |-> "none"])
        /\ pc'[n] = "working" /\ UNCHANGED <<driver, running, cancelled>>
    BY <1>2, <1>3, <1>4
  <2>2. faults' = faults BY <1>2, <1>4 DEF Commits
  <2> QED BY <1>1, <1>4, <2>1, <2>2 DEF Begun
<1>5. CASE ~ok
  BY <1>1, <1>2, <1>5 DEF Begun, Commits
<1> QED BY <1>4, <1>5

\* The row an attempt starts with is the node's newest, and the only one added.
LEMMA BegunRows ==
    ASSUME TypeOK, NEW n \in Node, Begun(n, TRUE)
    PROVE  /\ Len(steps'[n]) = Len(steps[n]) + 1
           /\ DOMAIN steps'[n] = DOMAIN steps[n] \cup {Len(steps[n]) + 1}
           /\ \A i \in DOMAIN steps[n] : steps'[n][i] = steps[n][i]
           /\ steps'[n][Len(steps[n]) + 1] = [status |-> "running", error |-> "none"]
<1> DEFINE row == [status |-> "running", error |-> "none"]
<1>1. steps[n] \in Seq(Step) BY DEF TypeOK
<1>2. row \in Step BY DEF Step, StepStatus, StepError
<1>3. steps'[n] = Append(steps[n], row) BY DEF Begun
<1> HIDE DEF row
<1>4. /\ Len(steps'[n]) = Len(steps[n]) + 1
      /\ DOMAIN steps'[n] = DOMAIN steps[n] \cup {Len(steps[n]) + 1}
      /\ \A i \in DOMAIN steps[n] : steps'[n][i] = steps[n][i]
      /\ steps'[n][Len(steps[n]) + 1] = row
  BY <1>1, <1>2, <1>3
<1> QED BY <1>4 DEF row

-----------------------------------------------------------------------------
(* Who holds a slot. *)

\* A task without a slot is one the driver gave up on: it starts nothing more.
LeftBehind ==
    \A n \in Node : Spawned(n) =>
        n \in running \/ (cancelled /\ driver \in {"loop", "drain", "fail", "gone"})

\* A run that has a failure stops.
FailureCancels == failure # "none" => cancelled

SlotInv == Driven /\ ActiveOnlyDriven /\ LeftBehind /\ FailureCancels

\* A launch starts with no slots taken.
LEMMA InitSlots == Init => SlotInv
BY DEF Init, Idle, SlotInv, Driven, ActiveOnlyDriven, LeftBehind, FailureCancels,
       Spawned, Unfinished

\* Every step keeps the slots in order, late writes included.
LEMMA NextSlots == TypeOK /\ SlotInv /\ [Next]_vars => SlotInv'
<1> SUFFICES ASSUME TypeOK, SlotInv, [Next]_vars PROVE SlotInv' OBVIOUS
<1> USE DEF SlotInv
<1>1. CASE Quiet
  <2>1. driver' # "gone" => driver # "gone" BY <1>1 DEF Quiet, Drives
  <2>2. Driven' BY <1>1, <2>1 DEF Quiet, Driven
  <2>3. ActiveOnlyDriven' BY <1>1 DEF Quiet, Drives, ActiveOnlyDriven
  <2>4. FailureCancels' BY <1>1 DEF Quiet, FailureCancels
  <2>5. LeftBehind'
    <3> SUFFICES ASSUME NEW n \in Node, Spawned(n)', n \notin running'
                 PROVE  cancelled' /\ driver' \in {"loop", "drain", "fail", "gone"}
      BY DEF LeftBehind
    <3>1. cancelled /\ driver \in {"loop", "drain", "fail", "gone"}
      BY <1>1 DEF Quiet, Spawned, LeftBehind
    <3>2. cancelled' BY <1>1, <3>1 DEF Quiet
    <3>3. driver' \in {"loop", "drain", "fail", "gone"}
      BY <1>1, <3>1 DEF Quiet, Drives, Over
    <3> QED BY <3>2, <3>3
  <2> QED BY <2>2, <2>3, <2>4, <2>5
<1>2. CASE Load
  <2>1. /\ driver = "load" /\ driver' \in {"loop", "fail"}
        /\ UNCHANGED <<running, pc, failure>> /\ (cancelled => cancelled')
        /\ status' = status \/ status' = "running"
    BY <1>2 DEF Load, tasks
  <2>2. Driven' /\ ActiveOnlyDriven' /\ FailureCancels'
    BY <2>1 DEF Driven, ActiveOnlyDriven, FailureCancels, Unfinished
  <2>3. LeftBehind' BY <2>1 DEF LeftBehind, ActiveOnlyDriven, Spawned
  <2> QED BY <2>2, <2>3
<1>3. CASE Reboot
  BY <1>3 DEF Reboot, Forget, Idle, Driven, ActiveOnlyDriven, LeftBehind,
              FailureCancels, Spawned
<1>4. ASSUME NEW n \in Node, ScanSkip(n) \/ ScanStart(n) PROVE SlotInv'
  <2>1. /\ driver = "scan" /\ driver' = driver /\ running \subseteq running'
        /\ UNCHANGED <<status, pc, failure, cancelled>>
    BY <1>4 DEF ScanSkip, ScanStart, Turn, rows, signals, tasks, state
  <2> QED BY <2>1 DEF Driven, ActiveOnlyDriven, LeftBehind, FailureCancels, Spawned
<1>5. ASSUME NEW n \in Node, Begin(n) PROVE SlotInv'
  <2>1. PICK ok \in BOOLEAN : Begun(n, ok) BY <1>5, Begins
  <2>2. driver' \in {"await", "drain", "fail"} /\ UNCHANGED <<status, failure>>
        /\ (cancelled => cancelled') /\ driver \in {"await", "drain", "fail"}
    BY <2>1 DEF Begun
  <2>3. Driven' /\ ActiveOnlyDriven' /\ FailureCancels'
    BY <2>2 DEF Driven, ActiveOnlyDriven, FailureCancels
  <2>4. LeftBehind'
    <3> SUFFICES ASSUME NEW m \in Node, Spawned(m)', m \notin running'
                 PROVE  cancelled' /\ driver' \in {"loop", "drain", "fail", "gone"}
      BY DEF LeftBehind
    <3>1. CASE ok BY <2>1, <3>1 DEF Begun, Spawned, LeftBehind
    <3>2. CASE ~ok BY <2>1, <3>2 DEF Begun
    <3> QED BY <3>1, <3>2
  <2> QED BY <2>3, <2>4
<1>6. ASSUME NEW n \in Node, Settle(n) PROVE SlotInv'
  <2>1. PICK s \in StepStatus, e \in StepError, ok \in BOOLEAN :
          Settled(n, s, e, ok) /\ Means(n, s, e)
    BY <1>6, Settles
  <2>2. driver' \in {"loop", "await", "drain", "fail"} /\ UNCHANGED status
        /\ driver \in {"await", "drain", "fail"} /\ running' = running \ {n}
        /\ (cancelled => cancelled') /\ (failure' # failure => cancelled')
        /\ (driver' = "await" => FALSE)
    BY <2>1 DEF Settled
  <2>3. Driven' /\ ActiveOnlyDriven' /\ FailureCancels'
    BY <2>2 DEF Driven, ActiveOnlyDriven, FailureCancels
  <2>4. LeftBehind'
    <3> SUFFICES ASSUME NEW m \in Node, Spawned(m)', m \notin running'
                 PROVE  cancelled' /\ driver' \in {"loop", "drain", "fail", "gone"}
      BY DEF LeftBehind
    <3>1. CASE m = n
      BY <2>1, <2>2, <3>1, SettledRows DEF Spawned
    <3>2. CASE m # n
      <4>1. Spawned(m) /\ m \notin running
        BY <2>1, <2>2, <3>2, SettledRows DEF Spawned
      <4> QED BY <2>2, <4>1 DEF LeftBehind
    <3> QED BY <3>1, <3>2
  <2> QED BY <2>3, <2>4
<1> QED BY <1>1, <1>2, <1>3, <1>4, <1>5, <1>6, Kinds

-----------------------------------------------------------------------------
(* How a run is finished. *)

\* What the task of a node never touches.
LEMMA TaskLeaves ==
    ASSUME NEW n \in Node, TaskStep(n)
    PROVE  UNCHANGED <<code, ends, steps, completed, skipped, attempts, latest, resting,
                       failure, cancelled, stopping, driver, todo, sleeping, progressed,
                       running, live, host, crashes>>
<1> USE DEF rows, state, signals, pass, process
<1>1. CASE Execute(n) \/ BlockRun(n) \/ BreakGate(n) \/ ResumeRun(n) \/ TimeOut(n)
  BY <1>1 DEF Execute, BlockRun, BreakGate, ResumeRun, TimeOut
<1>2. ASSUME NEW r \in Result, Return(n, r)
      PROVE  UNCHANGED <<code, ends, steps, completed, skipped, attempts, latest, resting,
                         failure, cancelled, stopping, driver, todo, sleeping, progressed,
                         running, live, host, crashes>>
  BY <1>2 DEF Return
<1>3. ASSUME NEW k \in GateKind, OpenGate(n, k)
      PROVE  UNCHANGED <<code, ends, steps, completed, skipped, attempts, latest, resting,
                         failure, cancelled, stopping, driver, todo, sleeping, progressed,
                         running, live, host, crashes>>
  BY <1>3 DEF OpenGate
<1>4. ASSUME NEW granted \in BOOLEAN, CloseGate(n, granted)
      PROVE  UNCHANGED <<code, ends, steps, completed, skipped, attempts, latest, resting,
                         failure, cancelled, stopping, driver, todo, sleeping, progressed,
                         running, live, host, crashes>>
  BY <1>4 DEF CloseGate
<1> QED BY <1>1, <1>2, <1>3, <1>4 DEF TaskStep

\* Where a run is finished: at the end of `drive`, on its error path, or by a
\* recovery; nothing else writes a finished status or an `end`.
Closing(s, c) ==
    /\ Finish(s, c) /\ driver' = "gone"
    /\ UNCHANGED <<steps, ledger, completed, skipped, failure, running, crashes>>
    /\ \/ driver \in {"drain", "fail"} /\ s = "failed" /\ c = FailureCode
          /\ (failure # "none" \/ driver = "fail")
       \/ driver = "drain" /\ s \in {"succeeded", "cancelled"} /\ failure = "none"
          /\ (s = "succeeded" => ~cancelled)
       \/ driver \in {"denying", "interrupting"} /\ s \in {"failed", "interrupted"}
          /\ (driver = "denying" <=> s = "failed")

\* Every step either leaves the endings alone or is one of them.
LEMMA Ends ==
    ASSUME TypeOK, [Next]_vars
    PROVE  \/ UNCHANGED <<ends, code>> /\ (status' = status \/ status' \in Unfinished)
           \/ \E s \in Finished, c \in Code : Closing(s, c)
<1> USE DEF vars, rows, state, signals, pass, tasks, process
<1>1. CASE Conclude
  <2>1. CASE UNCHANGED <<status, code, ends>> BY <2>1
  <2>2. CASE ~UNCHANGED <<status, code, ends>>
    <3>1. /\ driver = "drain" /\ driver' = "gone"
          /\ UNCHANGED <<steps, ledger, completed, skipped, failure, running, crashes>>
          /\ \/ failure # "none" /\ Finish("failed", FailureCode)
             \/ failure = "none" /\ cancelled /\ Finish("cancelled", "cancelled")
             \/ failure = "none" /\ ~cancelled /\ Finish("succeeded", "ok")
      BY <1>1, <2>2 DEF Conclude
    <3>2. CASE failure # "none" /\ Finish("failed", FailureCode)
      BY <3>1, <3>2 DEF Closing, Finished, Code, FailureCode
    <3>3. CASE failure = "none" /\ cancelled /\ Finish("cancelled", "cancelled")
      BY <3>1, <3>3 DEF Closing, Finished, Code
    <3>4. CASE failure = "none" /\ ~cancelled /\ Finish("succeeded", "ok")
      BY <3>1, <3>4 DEF Closing, Finished, Code
    <3> QED BY <3>1, <3>2, <3>3, <3>4
  <2> QED BY <2>1, <2>2
<1>2. CASE ConcludeFailed
  <2>1. \/ UNCHANGED <<status, code, ends>>
        \/ Finish("failed", FailureCode)
    BY <1>2 DEF ConcludeFailed
  <2>2. /\ driver = "fail" /\ driver' = "gone"
        /\ UNCHANGED <<steps, ledger, completed, skipped, failure, running, crashes>>
    BY <1>2 DEF ConcludeFailed
  <2> QED BY <2>1, <2>2 DEF Closing, Finished, Code, FailureCode
<1>3. CASE CloseRecovered
  <2>1. \/ UNCHANGED <<status, code, ends>>
        \/ driver = "denying" /\ Finish("failed", "denied")
        \/ driver = "interrupting" /\ Finish("interrupted", "interrupted")
    BY <1>3 DEF CloseRecovered
  <2>2. /\ driver \in {"denying", "interrupting"} /\ driver' = "gone"
        /\ UNCHANGED <<steps, ledger, completed, skipped, failure, running, crashes>>
    BY <1>3 DEF CloseRecovered
  <2> QED BY <2>1, <2>2 DEF Closing, Finished, Code
<1>4. CASE Load BY <1>4 DEF Load, Unfinished
<1>5. CASE \E n \in Node : Begin(n) \/ Settle(n)
  <2>1. UNCHANGED <<status, code, ends>>
    BY <1>5 DEF Begin, Settle, SettleCancelled, SettleSucceeded, SettleFailed,
                Abandon, Retire
  <2> QED BY <2>1
<1>6. CASE \E n \in Node :
             ScanFull(n) \/ ScanPast(n) \/ ScanExhausted(n) \/ ScanSkip(n)
               \/ ScanResting(n) \/ ScanStart(n) \/ BackoffElapsed(n)
  BY <1>6 DEF ScanFull, ScanPast, ScanExhausted, ScanSkip, ScanResting, ScanStart,
              BackoffElapsed
<1>7. CASE \E n \in Node : TaskStep(n)
  <2>1. UNCHANGED <<ends, code>> BY <1>7, TaskLeaves
  <2>2. PICK n \in Node : TaskStep(n) BY <1>7
  <2>3. CASE BlockRun(n) \/ ResumeRun(n)
    BY <2>1, <2>3 DEF BlockRun, ResumeRun, Unfinished
  <2>4. CASE Execute(n) \/ BreakGate(n) \/ TimeOut(n)
    BY <2>1, <2>4 DEF Execute, BreakGate, TimeOut
  <2>5. ASSUME NEW r \in Result, Return(n, r) PROVE status' = status
    BY <2>5 DEF Return
  <2>6. ASSUME NEW k \in GateKind, OpenGate(n, k) PROVE status' = status
    BY <2>6 DEF OpenGate
  <2>7. ASSUME NEW granted \in BOOLEAN, CloseGate(n, granted) PROVE status' = status
    BY <2>7 DEF CloseGate
  <2> QED BY <2>1, <2>2, <2>3, <2>4, <2>5, <2>6, <2>7 DEF TaskStep
<1>8. CASE Loop \/ EndPass \/ Wake \/ Cancel \/ Suspend \/ Crash \/ Reboot \/ Rest
           \/ UNCHANGED vars
  BY <1>8 DEF Loop, EndPass, Wake, Cancel, Suspend, Crash, Reboot, Rest
<1> QED BY <1>1, <1>2, <1>3, <1>4, <1>5, <1>6, <1>7, <1>8 DEF Next, DriverStep, Settle


-----------------------------------------------------------------------------
(* Gates. *)

\* No node opens a gate where timeout_ms may drop its work.
GatesUntimed == \A n \in Timed, k \in GateKind : <<n, "exec", k>> \notin GatePoints

\* The nodes that have somebody asked.
Asking == {n \in Node : pc[n] \in InGate}
GatesKept == gates = Cardinality(Asking)

\* A gate is open where the node may open one.
AskedAt == \A n \in Asking : \E k \in GateKind : <<n, stage[n], k>> \in GatePoints

GateInv == GatesKept /\ AskedAt

\* A step that opens no gate and closes none.
GateQuiet ==
    /\ gates' = gates
    /\ \A n \in Node : pc'[n] \in InGate <=> pc[n] \in InGate
    /\ \A n \in Node : pc[n] \in InGate => stage'[n] = stage[n]

\* A task's move, read back.
LEMMA GoesTo ==
    ASSUME TypeOK, NEW n \in Node, NEW p, Goes(n, p)
    PROVE  pc'[n] = p /\ \A m \in Node \ {n} : pc'[m] = pc[m]
BY DEF Goes, TypeOK

\* A task's step opens one gate, closes one, or touches none: an elapsed timeout
\* would be the exception, were a gate open where it applies.
LEMMA TaskGates ==
    ASSUME TypeOK, GatesUntimed, AskedAt, NEW n \in Node, TaskStep(n)
    PROVE  \/ GateQuiet
           \/ \E k \in GateKind : /\ pc[n] = "working" /\ <<n, stage[n], k>> \in GatePoints
                                  /\ Goes(n, "opening") /\ gates' = gates + 1
                                  /\ stage' = stage
           \/ \E p \in Task \ InGate : /\ pc[n] \in InGate /\ Goes(n, p)
                                       /\ gates' = OneGateLess /\ stage' = stage
<1> USE DEF GateQuiet, state, signals, pass, tasks, process
<1>0. "working" \notin InGate /\ "idle" \notin InGate /\ InGate \cap Result = {}
      /\ InGate \cap Writing = {"opening"}
  BY DEF InGate, Result, Writing
<1>1. ASSUME NEW p, Goes(n, p), p \in InGate <=> pc[n] \in InGate, gates' = gates,
             pc[n] \in InGate => stage' = stage, \A m \in Node \ {n} : stage'[m] = stage[m]
      PROVE  GateQuiet
  BY <1>1, GoesTo
<1>2. CASE Execute(n)
  <2>1. pc[n] = "working" BY <1>2 DEF Execute
  <2>2. CASE cancelled
    BY <1>0, <1>1, <1>2, <2>1, <2>2 DEF Execute, Result
  <2>3. CASE ~cancelled
    BY <1>0, <1>2, <2>1, <2>3 DEF Execute, TypeOK
  <2> QED BY <2>2, <2>3
<1>3. CASE BlockRun(n)
  BY <1>1, <1>3 DEF BlockRun, InGate
<1>4. CASE BreakGate(n)
  BY <1>1, <1>4 DEF BreakGate, InGate
<1>5. CASE ResumeRun(n)
  <2>1. /\ pc[n] \in {"resuming", "refusing"} /\ gates' = gates /\ stage' = stage
        /\ \E p \in {"working", "denied", "error"} : Goes(n, p)
    BY <1>5 DEF ResumeRun, Refusal
  <2> QED BY <1>1, <2>1 DEF InGate
<1>6. CASE TimeOut(n)
  <2>1. /\ n \in Timed /\ stage[n] = "exec" /\ pc[n] \in {"working", "waiting"}
        /\ Goes(n, "error") /\ gates' = gates /\ stage' = stage
    BY <1>6 DEF TimeOut
  <2>2. pc[n] \notin InGate BY <2>1 DEF AskedAt, Asking, GatesUntimed
  <2> QED BY <1>1, <2>1, <2>2 DEF InGate
<1>7. ASSUME NEW r \in Result, Return(n, r) PROVE GateQuiet
  BY <1>0, <1>1, <1>7 DEF Return
<1>8. ASSUME NEW k \in GateKind, OpenGate(n, k)
      PROVE  \/ GateQuiet
             \/ /\ pc[n] = "working" /\ <<n, stage[n], k>> \in GatePoints
                /\ Goes(n, "opening") /\ gates' = gates + 1 /\ stage' = stage
  <2>1. CASE Heard(n) BY <1>8, <2>1 DEF OpenGate
  <2>2. CASE ~Heard(n)
    BY <1>0, <1>1, <1>8, <2>2 DEF OpenGate, Result
  <2> QED BY <2>1, <2>2
<1>9. ASSUME NEW granted \in BOOLEAN, CloseGate(n, granted)
      PROVE  \E p \in Task \ InGate : /\ pc[n] \in InGate /\ Goes(n, p)
                                      /\ gates' = OneGateLess /\ stage' = stage
  <2>1. pc[n] \in InGate /\ gates' = OneGateLess /\ stage' = stage
    BY <1>9 DEF CloseGate, InGate
  <2>2. \E p \in Task \ InGate : Goes(n, p)
    BY <1>9 DEF CloseGate, Refusal, Task, InGate, Writing, Result
  <2> QED BY <2>1, <2>2
<1> QED BY <1>2, <1>3, <1>4, <1>5, <1>6, <1>7, <1>8, <1>9 DEF TaskStep

\* The count of gates is kept by every step.
LEMMA NextGates ==
    ASSUME GatesUntimed
    PROVE  TypeOK /\ GateInv /\ [Next]_vars => GateInv'
<1> SUFFICES ASSUME TypeOK, GateInv, [Next]_vars PROVE GateInv' OBVIOUS
<1> USE DEF GateInv
<1>0. TypeOK' BY NextTyped
<1>1. ASSUME GateQuiet PROVE GateInv'
  <2>1. Asking' = Asking BY <1>1 DEF GateQuiet, Asking
  <2>2. GatesKept' BY <1>1, <2>1 DEF GateQuiet, GatesKept
  <2>3. AskedAt' BY <1>1, <2>1 DEF GateQuiet, AskedAt, Asking
  <2> QED BY <2>2, <2>3
<1>2. CASE Reboot
  <2>1. Asking' = {} /\ gates' = 0
    BY <1>2 DEF Reboot, Forget, Asking, Idle, InGate
  <2> QED BY <2>1, FS_EmptySet DEF GatesKept, AskedAt
<1>3. ASSUME NEW n \in Node, TaskStep(n) PROVE GateInv'
  <2>1. IsFiniteSet(Asking) BY NodeAssumption, FS_Subset DEF Asking
  <2>2. Cardinality(Asking) \in Nat BY <2>1, FS_CardinalityType
  <2>3. CASE \E k \in GateKind : /\ pc[n] = "working" /\ <<n, stage[n], k>> \in GatePoints
                                 /\ Goes(n, "opening") /\ gates' = gates + 1
                                 /\ stage' = stage
    <3>1. pc'[n] = "opening" /\ \A m \in Node \ {n} : pc'[m] = pc[m]
      BY <2>3, GoesTo
    <3>2. Asking' = Asking \cup {n} /\ n \notin Asking
      BY <2>3, <3>1 DEF Asking, InGate
    <3>3. Cardinality(Asking \cup {n}) = Cardinality(Asking) + 1
      BY <2>1, <3>2, FS_AddElement
    <3>4. GatesKept' BY <2>3, <3>2, <3>3 DEF GatesKept
    <3>5. AskedAt' BY <2>3, <3>2 DEF AskedAt
    <3> QED BY <3>4, <3>5
  <2>4. CASE \E p \in Task \ InGate : /\ pc[n] \in InGate /\ Goes(n, p)
                                      /\ gates' = OneGateLess /\ stage' = stage
    <3>1. pc'[n] \notin InGate /\ \A m \in Node \ {n} : pc'[m] = pc[m]
      BY <2>4, GoesTo
    <3>2. Asking' = Asking \ {n} /\ n \in Asking
      BY <2>4, <3>1 DEF Asking
    <3>3. Cardinality(Asking \ {n}) = Cardinality(Asking) - 1
      BY <2>1, <3>2, FS_RemoveElement
    <3>4. Cardinality(Asking) # 0 BY <2>1, <3>2, FS_EmptySet
    <3>5. gates > 0 /\ gates' = gates - 1
      BY <2>2, <2>4, <3>4 DEF OneGateLess, GatesKept
    <3>6. GatesKept' BY <3>2, <3>3, <3>5 DEF GatesKept
    <3>7. AskedAt' BY <2>4, <3>2 DEF AskedAt
    <3> QED BY <3>6, <3>7
  <2> QED BY <1>1, <1>3, <2>3, <2>4, TaskGates
<1>4. ASSUME NEW n \in Node, Begin(n) PROVE GateQuiet
  <2>1. PICK ok \in BOOLEAN :
          IF ok THEN pc' = [pc EXCEPT ![n] = "working"]
                     /\ stage' = [stage EXCEPT ![n] = "admit"]
                ELSE UNCHANGED <<pc, stage>>
    BY <1>4 DEF Begin
  <2>2. pc[n] = "idle" /\ gates' = gates BY <1>4 DEF Begin
  <2>3. CASE ok BY <2>1, <2>2, <2>3 DEF GateQuiet, InGate, TypeOK
  <2>4. CASE ~ok BY <2>1, <2>2, <2>4 DEF GateQuiet
  <2> QED BY <2>3, <2>4
<1>5. ASSUME NEW n \in Node, Settle(n) PROVE GateQuiet
  <2>1. /\ gates' = gates /\ stage' = stage
        /\ pc' = pc \/ (pc' = [pc EXCEPT ![n] = "idle"] /\ pc[n] \in Result)
    BY <1>5 DEF Settle, SettleCancelled, SettleSucceeded, SettleFailed, Abandon,
                Settling, Retire
  <2> QED BY <2>1 DEF GateQuiet, InGate, Result, TypeOK
<1>6. CASE \/ Load \/ Loop \/ EndPass \/ Wake \/ Conclude \/ ConcludeFailed \/ Cancel
           \/ Suspend \/ Crash \/ CloseRecovered \/ Rest \/ UNCHANGED vars
           \/ \E n \in Node :
                ScanFull(n) \/ ScanPast(n) \/ ScanExhausted(n) \/ ScanSkip(n)
                  \/ ScanResting(n) \/ ScanStart(n) \/ BackoffElapsed(n)
  <2>1. UNCHANGED <<gates, pc, stage>>
    BY <1>6 DEF Load, Loop, EndPass, Wake, Conclude, ConcludeFailed, Cancel, Suspend,
                Crash, CloseRecovered, Rest, vars, tasks, ScanFull, ScanPast,
                ScanExhausted, ScanSkip, ScanResting, ScanStart, BackoffElapsed
  <2> QED BY <1>1, <2>1 DEF GateQuiet
<1> QED BY <1>1, <1>2, <1>3, <1>4, <1>5, <1>6 DEF Next, DriverStep, Settle

\* pending_gates counts exactly the gates that are open.
THEOREM GatesExact ==
    ASSUME GatesUntimed
    PROVE  Spec => []GatesCounted
<1>1. Init => TypeOK /\ GateInv
  <2> SUFFICES ASSUME Init PROVE GateInv BY InitTyped
  <2>1. Asking = {} /\ gates = 0 BY DEF Init, Asking, Idle, InGate
  <2> QED BY <2>1, FS_EmptySet DEF GateInv, GatesKept, AskedAt
<1>2. TypeOK /\ GateInv /\ [Next]_vars => TypeOK' /\ GateInv'
  BY NextTyped, NextGates
<1>3. GateInv => GatesCounted BY DEF GateInv, GatesKept, GatesCounted, Asking
<1> QED BY <1>1, <1>2, <1>3, PTL DEF Spec

-----------------------------------------------------------------------------
(* A run fails for a cause. *)

\* The graph has no cycle: whatever nodes are left, one of them waits for none of
\* the others.
Acyclic == \A S \in SUBSET Node : S # {} => \E n \in S : Deps[n] \cap S = {}

\* The error path is taken after a failed commit only.
FaultsFail == driver = "fail" => faults > 0

\* A pass that has started nothing, skipped nothing and put nothing off has found
\* every node it has looked at completed or waiting for another.
QuietPass == ~progressed /\ running = {} /\ sleeping = {}
Passed ==
    driver = "scan" /\ ~cancelled /\ QuietPass
      => \A n \in Node \ todo : n \in completed \/ ~(Deps[n] \subseteq completed)

CauseInv == TypeOK /\ SlotInv /\ GateInv /\ FaultsFail /\ Passed

\* What a step of a pass is.
LEMMA ScanKinds ==
    ASSUME TypeOK, [Next]_vars, driver' = "scan"
    PROVE  \/ Loop
           \/ \E n \in Node : ScanFull(n) \/ ScanPast(n) \/ ScanExhausted(n) \/ ScanSkip(n)
                                \/ ScanResting(n) \/ ScanStart(n)
           \/ driver = "scan" /\ UNCHANGED <<todo, sleeping, progressed, completed, running>>
              /\ (cancelled => cancelled')
<1> USE DEF vars, rows, state, signals, pass, tasks, process
<1>1. ~Load /\ ~EndPass /\ ~Wake /\ ~Conclude /\ ~ConcludeFailed /\ ~CloseRecovered
      /\ ~Reboot
  <2>1. ~Load /\ ~Conclude /\ ~ConcludeFailed /\ ~CloseRecovered /\ ~Reboot /\ ~Wake
    BY DEF Load, Conclude, ConcludeFailed, CloseRecovered, Reboot, Wake
  <2>2. ~EndPass BY DEF EndPass
  <2> QED BY <2>1, <2>2
<1>2. ASSUME NEW n \in Node PROVE ~Begin(n) /\ ~Settle(n)
  <2>1. ~Begin(n) BY Begins DEF Begun
  <2>2. ~Settle(n) BY Settles DEF Settled
  <2> QED BY <2>1, <2>2
<1>3. CASE \E n \in Node : TaskStep(n) \/ BackoffElapsed(n)
  <2>1. UNCHANGED <<driver, todo, sleeping, progressed, completed, running, cancelled>>
    BY <1>3, TaskLeaves DEF BackoffElapsed
  <2> QED BY <2>1
<1>4. CASE Cancel \/ Suspend \/ Crash \/ Rest \/ UNCHANGED vars
  BY <1>4 DEF Cancel, Suspend, Crash, Rest
<1> QED BY <1>1, <1>2, <1>3, <1>4 DEF Next, DriverStep, Settle

\* How the error path is reached.
LEMMA FailKinds ==
    ASSUME TypeOK, [Next]_vars
    PROVE  /\ faults' >= faults
           /\ driver' = "fail" => driver = "fail" \/ faults' > 0
                \/ (EndPass /\ ~cancelled /\ QuietPass /\ completed # Node)
<1> USE DEF vars, rows, state, signals, pass, tasks, process
<1>0. \A ok \in BOOLEAN : Commits(ok) => faults' >= faults /\ (~ok => faults' > 0)
  BY DEF Commits, TypeOK
<1>1. CASE Load BY <1>0, <1>1 DEF Load
<1>2. CASE EndPass BY <1>2 DEF EndPass, QuietPass, TypeOK
<1>3. CASE Conclude BY <1>0, <1>3 DEF Conclude, TypeOK
<1>4. CASE ConcludeFailed BY <1>0, <1>4 DEF ConcludeFailed, TypeOK
<1>5. CASE CloseRecovered BY <1>0, <1>5 DEF CloseRecovered
<1>6. CASE Loop \/ Wake \/ Reboot \/ Cancel \/ Suspend \/ Crash \/ Rest \/ UNCHANGED vars
  BY <1>6 DEF Loop, Wake, Reboot, Cancel, Suspend, Crash, Rest, TypeOK
<1>7. ASSUME NEW n \in Node, Begin(n)
      PROVE faults' >= faults /\ (driver' = "fail" => driver = "fail" \/ faults' > 0)
  <2>1. PICK ok \in BOOLEAN : Begun(n, ok) BY <1>7, Begins
  <2> QED BY <2>1 DEF Begun, TypeOK
<1>8. ASSUME NEW n \in Node, Settle(n)
      PROVE faults' >= faults /\ (driver' = "fail" => driver = "fail" \/ faults' > 0)
  <2>1. PICK s \in StepStatus, e \in StepError, ok \in BOOLEAN : Settled(n, s, e, ok)
    BY <1>8, Settles
  <2> QED BY <2>1 DEF Settled, TypeOK
<1>9. CASE \E n \in Node :
             ScanFull(n) \/ ScanPast(n) \/ ScanExhausted(n) \/ ScanSkip(n)
               \/ ScanResting(n) \/ ScanStart(n) \/ BackoffElapsed(n)
  BY <1>9 DEF ScanFull, ScanPast, ScanExhausted, ScanSkip, ScanResting, ScanStart,
              BackoffElapsed, TypeOK
<1>10. CASE \E n \in Node : TaskStep(n)
  <2>1. PICK n \in Node : TaskStep(n) BY <1>10
  <2>2. CASE ResumeRun(n) BY <1>0, <2>2 DEF ResumeRun
  <2>3. CASE BreakGate(n) BY <2>3 DEF BreakGate, TypeOK
  <2>4. CASE ~ResumeRun(n) /\ ~BreakGate(n)
    <3>1. faults' = faults
      BY <2>1, <2>4 DEF TaskStep, Execute, BlockRun, TimeOut, Return, OpenGate, CloseGate
    <3>2. driver' = driver BY <2>1, TaskLeaves
    <3> QED BY <3>1, <3>2 DEF TypeOK
  <2> QED BY <2>2, <2>3, <2>4
<1> QED BY <1>1, <1>2, <1>3, <1>4, <1>5, <1>6, <1>7, <1>8, <1>9, <1>10
        DEF Next, DriverStep, Settle

\* A pass that nothing holds back is not full.
LEMMA NotFull ==
    ASSUME TypeOK, SlotInv, GateInv, driver = "scan", running = {}
    PROVE  ~Full
<1>1. Asking = {}
  BY DEF SlotInv, LeftBehind, Spawned, Asking, InGate
<1>2. gates = 0 BY <1>1, FS_EmptySet DEF GateInv, GatesKept
<1>3. Cardinality(running) = 0 BY FS_EmptySet
<1>4. Concurrency \in Nat \ {0} BY PolicyAssumption
<1> QED BY <1>2, <1>3, <1>4 DEF Full

\* The scan of a graph without cycles never runs dry.
LEMMA NextCause ==
    ASSUME GatesUntimed, Acyclic
    PROVE  CauseInv /\ [Next]_vars => CauseInv'
<1> SUFFICES ASSUME CauseInv, [Next]_vars PROVE CauseInv' OBVIOUS
<1>1. TypeOK' /\ SlotInv' /\ GateInv'
  BY NextTyped, NextSlots, NextGates DEF CauseInv
<1>2. FaultsFail'
  <2> SUFFICES ASSUME driver' = "fail" PROVE faults' > 0 BY DEF FaultsFail
  <2>1. CASE driver = "fail"
    BY <1>1, <2>1, FailKinds DEF CauseInv, FaultsFail, TypeOK
  <2>2. CASE EndPass /\ ~cancelled /\ QuietPass /\ completed # Node
    <3>1. driver = "scan" /\ todo = {} BY <2>2 DEF EndPass
    <3>2. \A n \in Node : n \in completed \/ ~(Deps[n] \subseteq completed)
      BY <2>2, <3>1 DEF CauseInv, Passed
    <3>3. Node \ completed # {} BY <2>2 DEF CauseInv, TypeOK
    <3>4. PICK n \in Node \ completed : Deps[n] \cap (Node \ completed) = {}
      BY <3>3 DEF Acyclic
    <3>5. Deps[n] \subseteq Node BY GraphAssumption
    <3> QED BY <3>2, <3>4, <3>5
  <2> QED BY <2>1, <2>2, FailKinds DEF CauseInv
<1>3. Passed'
  <2> SUFFICES ASSUME driver' = "scan", ~cancelled', QuietPass', NEW n \in Node, n \notin todo'
               PROVE  n \in completed' \/ ~(Deps[n] \subseteq completed')
    BY DEF Passed
  <2>1. CASE Loop
    BY <2>1 DEF Loop
  <2>2. CASE driver = "scan" /\ (cancelled => cancelled')
             /\ UNCHANGED <<todo, sleeping, progressed, completed, running>>
    BY <2>2 DEF CauseInv, Passed, QuietPass
  <2>3. ASSUME NEW m \in Node, ScanFull(m) PROVE FALSE
    <3>1. Full /\ driver = "scan" /\ running = {}
      BY <2>3 DEF ScanFull, Turn, QuietPass
    <3> QED BY <3>1, NotFull DEF CauseInv
  <2>4. ASSUME NEW m \in Node, ScanPast(m)
        PROVE  n \in completed' \/ ~(Deps[n] \subseteq completed')
    <3>1. /\ ~Considered(m) /\ todo' = todo \ {m} /\ driver = "scan"
          /\ UNCHANGED <<sleeping, progressed, completed, running, cancelled>>
      BY <2>4 DEF ScanPast, Turn, state, signals
    <3>2. CASE n = m BY <3>1, <3>2 DEF Considered, QuietPass
    <3>3. CASE n # m BY <3>1, <3>3 DEF CauseInv, Passed, QuietPass
    <3> QED BY <3>2, <3>3
  <2>5. ASSUME NEW m \in Node, ScanExhausted(m) \/ ScanSkip(m) \/ ScanResting(m) \/ ScanStart(m)
        PROVE  FALSE
    BY <2>5 DEF ScanExhausted, ScanSkip, ScanResting, ScanStart, QuietPass
  <2> QED BY <2>1, <2>2, <2>3, <2>4, <2>5, ScanKinds DEF CauseInv
<1> QED BY <1>1, <1>2, <1>3 DEF CauseInv

\* A run fails because a node failed for good, a commit failed or an approval was
\* interrupted, and never because the scan finds nothing to do.
THEOREM NeverRunsDry ==
    ASSUME GatesUntimed, Acyclic
    PROVE  Spec => FailsForCause
<1>1. Init => CauseInv
  <2> SUFFICES ASSUME Init PROVE GateInv /\ FaultsFail /\ Passed
    BY InitTyped, InitSlots DEF CauseInv
  <2>1. Asking = {} /\ gates = 0 BY DEF Init, Asking, Idle, InGate
  <2>2. GateInv BY <2>1, FS_EmptySet DEF GateInv, GatesKept, AskedAt
  <2> QED BY <2>2 DEF Init, FaultsFail, Passed
<1>2. CauseInv /\ [Next]_vars => CauseInv' BY NextCause
<1>3. CauseInv /\ [Next]_vars
        => [status' = "failed" /\ status # "failed"
              => failure # "none" \/ faults' > 0 \/ driver = "denying"]_vars
  <2> SUFFICES ASSUME CauseInv, [Next]_vars, status' = "failed", status # "failed"
               PROVE  failure # "none" \/ faults' > 0 \/ driver = "denying"
    OBVIOUS
  <2>1. "failed" \notin Unfinished BY DEF Unfinished
  <2>2. PICK s \in Finished, c \in Code : Closing(s, c)
    BY <2>1, Ends DEF CauseInv
  <2>3. s = "failed" BY <2>2 DEF Closing, Finish
  <2>4. failure # "none" \/ driver = "fail" \/ driver = "denying"
    BY <2>2, <2>3 DEF Closing
  <2>5. faults' >= faults BY FailKinds DEF CauseInv
  <2>6. faults' \in Nat BY NextTyped DEF CauseInv, TypeOK
  <2> QED BY <2>4, <2>5, <2>6 DEF CauseInv, FaultsFail, TypeOK
<1> QED BY <1>1, <1>2, <1>3, PTL DEF Spec, FailsForCause

-----------------------------------------------------------------------------
(* A denial is reported. *)

\* Recovery runs in a process that is not the first.
Young == /\ host = "down" => crashes > 0
         /\ driver \in {"denying", "interrupting"} => crashes > 0

\* In one process the row of a denied step and the failure it causes go together.
DeniedFails == crashes = 0 /\ (\E n \in Node : Denied(n)) => failure = "denied"

\* The driver never scans again after a denial, so no later failure covers it.
DeniedStops == failure = "denied" => cancelled /\ driver \in {"loop", "drain", "fail", "gone"}

\* The run fails with the code of what the scheduler remembers.
CodeTells == crashes = 0 /\ status = "failed" => driver = "gone" /\ code = FailureCode

DenialInv == TypeOK /\ SlotInv /\ Young /\ DeniedFails /\ DeniedStops /\ CodeTells

\* Only a restart forgets, and only a crash makes one.
LEMMA HostKinds ==
    ASSUME TypeOK, Young, [Next]_vars
    PROVE  /\ crashes' >= crashes
           /\ host' = "down" => host = "down" \/ crashes' > 0
           /\ Reboot => crashes' > 0
           /\ driver' \in {"denying", "interrupting"} =>
                crashes' > 0 \/ driver \in {"denying", "interrupting"}
<1> USE DEF vars, rows, state, signals, pass, tasks, process
<1>1. CASE Crash BY <1>1 DEF Crash, TypeOK
<1>2. CASE Reboot BY <1>2 DEF Reboot, Young, TypeOK
<1>3. CASE \E n \in Node : TaskStep(n) BY <1>3, TaskLeaves DEF Reboot, TypeOK
<1>4. CASE Load \/ Loop \/ EndPass \/ Wake \/ Conclude \/ ConcludeFailed \/ CloseRecovered
  <2>1. host' = host /\ crashes' = crashes /\ host = "up"
    BY <1>4 DEF Load, Loop, EndPass, Wake, Conclude, ConcludeFailed, CloseRecovered, Up
  <2>2. driver' \notin {"denying", "interrupting"}
    BY <1>4 DEF Load, Loop, EndPass, Wake, Conclude, ConcludeFailed, CloseRecovered
  <2> QED BY <2>1, <2>2 DEF Reboot, TypeOK
<1>5. CASE \E n \in Node :
             ScanFull(n) \/ ScanPast(n) \/ ScanExhausted(n) \/ ScanSkip(n)
               \/ ScanResting(n) \/ ScanStart(n) \/ BackoffElapsed(n)
  <2>1. host' = host /\ crashes' = crashes /\ driver' = driver /\ host = "up"
    BY <1>5 DEF ScanFull, ScanPast, ScanExhausted, ScanSkip, ScanResting, ScanStart,
                BackoffElapsed, Turn, Up
  <2> QED BY <2>1 DEF Reboot, TypeOK
<1>6. CASE \E n \in Node : Begin(n) \/ Settle(n)
  <2>1. host' = host /\ crashes' = crashes /\ host = "up"
    BY <1>6 DEF Begin, Settle, SettleCancelled, SettleSucceeded, SettleFailed, Abandon,
                Settling, Polling, Retire, Up
  <2>2. driver' \notin {"denying", "interrupting"}
    BY <1>6, Begins, Settles DEF Begun, Settled
  <2> QED BY <2>1, <2>2 DEF Reboot, TypeOK
<1>7. CASE Cancel \/ Suspend \/ Rest \/ UNCHANGED vars
  BY <1>7 DEF Cancel, Suspend, Rest, Reboot, Young, TypeOK
<1> QED BY <1>1, <1>2, <1>3, <1>4, <1>5, <1>6, <1>7 DEF Next, DriverStep, Settle

\* What an attempt's end does to the failure the scheduler remembers.
LEMMA SettleDenied ==
    ASSUME TypeOK, SlotInv, DeniedStops, NEW n \in Node, NEW s \in StepStatus,
           NEW e \in StepError, NEW ok \in BOOLEAN, Settled(n, s, e, ok), Means(n, s, e)
    PROVE  /\ failure = "denied" => failure' = "denied"
           /\ failure' = "denied" =>
                cancelled' /\ driver' \in {"loop", "drain", "fail", "gone"}
           /\ (\E m \in Node : Denied(m)') =>
                failure' = "denied" \/ \E m \in Node : Denied(m)
<1>1. failure = "denied" => failure' = "denied"
  BY DEF Means, SlotInv, FailureCancels
<1>2. failure' = "denied" => cancelled' /\ driver' \in {"loop", "drain", "fail", "gone"}
  BY DEF Means, Settled, DeniedStops
<1>3. ASSUME NEW m \in Node, Denied(m)'
      PROVE  failure' = "denied" \/ Denied(m)
  <2>1. CASE m # n
    <3>1. steps'[m] = steps[m] BY <2>1, SettledRows
    <3> QED BY <1>3, <3>1 DEF Denied
  <2>2. CASE m = n
    <3>1. /\ DOMAIN steps'[n] = DOMAIN steps[n]
          /\ \A i \in DOMAIN steps[n] :
               steps'[n][i] = IF ok /\ i = Len(steps[n])
                              THEN [status |-> s, error |-> e] ELSE steps[n][i]
      BY SettledRows
    <3>2. Denied(n) \/ e = "denied" BY <1>3, <2>2, <3>1 DEF Denied
    <3>3. e = "denied" => failure' = "denied" BY DEF Means, CarriedPast
    <3> QED BY <2>2, <3>2, <3>3
  <2> QED BY <2>1, <2>2
<1> QED BY <1>1, <1>2, <1>3

\* Every step keeps the failure, its rows and its code together.
LEMMA NextDenial == DenialInv /\ [Next]_vars => DenialInv'
<1> SUFFICES ASSUME DenialInv, [Next]_vars PROVE DenialInv' OBVIOUS
<1>0. TypeOK /\ SlotInv /\ Young /\ DeniedFails /\ DeniedStops /\ CodeTells
  BY DEF DenialInv
<1>1. TypeOK' /\ SlotInv'
  BY <1>0, NextTyped, NextSlots
<1>2. /\ crashes' >= crashes /\ host' = "down" => host = "down" \/ crashes' > 0
  BY <1>0, HostKinds
<1>3. /\ crashes \in Nat /\ crashes' \in Nat /\ crashes' >= crashes
      /\ Reboot => crashes' > 0
      /\ driver' \in {"denying", "interrupting"} =>
           crashes' > 0 \/ driver \in {"denying", "interrupting"}
  BY <1>0, <1>1, HostKinds DEF TypeOK
<1>4. Young' BY <1>0, <1>3, HostKinds DEF Young
<1>5. DeniedFails' /\ DeniedStops' /\ (driver = "gone" /\ crashes' = 0 =>
                                         driver' = "gone" /\ failure' = failure)
  <2>1. CASE Quiet
    <3>1. \A n \in Node : Denied(n)' <=> Denied(n) BY <2>1 DEF Quiet, Denied
    <3>2. failure = "denied" => failure' = failure
      BY <1>0, <2>1 DEF Quiet, DeniedStops
    <3>3. DeniedFails' BY <1>0, <1>3, <3>1, <3>2 DEF DeniedFails
    <3>4. failure' = "denied" => failure = "denied" BY <2>1 DEF Quiet
    <3>5. DeniedStops'
      BY <1>0, <2>1, <3>4 DEF Quiet, Drives, Over, DeniedStops
    <3>6. driver = "gone" => driver' = "gone" /\ failure' = failure
      BY <2>1 DEF Quiet, Drives
    <3> QED BY <3>3, <3>5, <3>6
  <2>2. CASE Load
    <3>1. driver = "load" /\ UNCHANGED <<steps, failure>> BY <2>2 DEF Load
    <3> QED BY <1>0, <1>3, <3>1 DEF DeniedFails, DeniedStops, Denied
  <2>3. CASE Reboot
    BY <1>3, <2>3 DEF Reboot, Forget, DeniedFails, DeniedStops
  <2>4. ASSUME NEW n \in Node, ScanSkip(n) \/ ScanStart(n)
        PROVE  /\ DeniedFails' /\ DeniedStops' /\ driver # "gone"
    <3>1. driver = "scan" /\ driver' = driver /\ UNCHANGED <<steps, failure>>
      BY <2>4 DEF ScanSkip, ScanStart, Turn, rows, state
    <3> QED BY <1>0, <1>3, <3>1 DEF DeniedFails, DeniedStops, Denied
  <2>5. ASSUME NEW n \in Node, Begin(n)
        PROVE  /\ DeniedFails' /\ DeniedStops' /\ driver # "gone"
    <3>1. PICK ok \in BOOLEAN : Begun(n, ok) BY <1>0, <2>5, Begins
    <3>2. failure' = failure /\ (cancelled => cancelled') /\ driver # "gone"
          /\ driver' \in {driver, "fail"}
      BY <3>1 DEF Begun
    <3>3. \A m \in Node : Denied(m)' => Denied(m)
      <4> SUFFICES ASSUME NEW m \in Node, Denied(m)' PROVE Denied(m) OBVIOUS
      <4>1. CASE m # n \/ ~ok BY <3>1, <4>1 DEF Begun, Denied
      <4>2. CASE m = n /\ ok
        <5>1. /\ DOMAIN steps'[n] = DOMAIN steps[n] \cup {Len(steps[n]) + 1}
              /\ \A i \in DOMAIN steps[n] : steps'[n][i] = steps[n][i]
              /\ steps'[n][Len(steps[n]) + 1] = [status |-> "running", error |-> "none"]
          BY <1>0, <3>1, <4>2, BegunRows
        <5> QED BY <4>2, <5>1 DEF Denied
      <4> QED BY <4>1, <4>2
    <3> QED BY <1>0, <1>3, <3>2, <3>3 DEF DeniedFails, DeniedStops
  <2>6. ASSUME NEW n \in Node, Settle(n)
        PROVE  /\ DeniedFails' /\ DeniedStops' /\ driver # "gone"
    <3>1. PICK s \in StepStatus, e \in StepError, ok \in BOOLEAN :
            Settled(n, s, e, ok) /\ Means(n, s, e)
      BY <1>0, <2>6, Settles
    <3>2. /\ failure = "denied" => failure' = "denied"
          /\ failure' = "denied" =>
               cancelled' /\ driver' \in {"loop", "drain", "fail", "gone"}
          /\ (\E m \in Node : Denied(m)') =>
               failure' = "denied" \/ \E m \in Node : Denied(m)
      BY <1>0, <3>1, SettleDenied
    <3>3. driver # "gone" BY <3>1 DEF Settled
    <3>4. DeniedFails' BY <1>0, <1>3, <3>2 DEF DeniedFails
    <3>5. DeniedStops' BY <3>2 DEF DeniedStops
    <3> QED BY <3>3, <3>4, <3>5
  <2> QED BY <1>0, <2>1, <2>2, <2>3, <2>4, <2>5, <2>6, Kinds
<1>6. CodeTells'
  <2> SUFFICES ASSUME crashes' = 0, status' = "failed"
               PROVE  driver' = "gone" /\ code' = FailureCode'
    BY DEF CodeTells
  <2>1. CASE code' = code /\ (status' = status \/ status' \in Unfinished)
    <3>1. status = "failed" /\ crashes = 0 BY <1>3, <2>1 DEF Unfinished
    <3>2. driver = "gone" /\ code = FailureCode BY <1>0, <3>1 DEF CodeTells
    <3> QED BY <1>5, <2>1, <3>2 DEF FailureCode
  <2>2. ASSUME NEW s \in Finished, NEW c \in Code, Closing(s, c)
        PROVE  driver' = "gone" /\ code' = FailureCode'
    <3>1. driver' = "gone" /\ code' = c /\ failure' = failure /\ s = "failed"
          /\ crashes = 0
      BY <2>2 DEF Closing, Finish
    <3>2. driver \notin {"denying", "interrupting"} BY <1>0, <3>1 DEF Young
    <3>3. c = FailureCode BY <2>2, <3>1, <3>2 DEF Closing
    <3> QED BY <3>1, <3>3 DEF FailureCode
  <2> QED BY <1>0, <2>1, <2>2, Ends
<1> QED BY <1>1, <1>4, <1>5, <1>6 DEF DenialInv

\* A run that a denied step ended says so, whatever its other nodes were doing.
THEOREM DenialTold == Spec => []DenialReported
<1>1. Init => DenialInv
  <2> SUFFICES ASSUME Init PROVE DenialInv OBVIOUS
  <2>1. Young /\ DeniedFails /\ DeniedStops /\ CodeTells
    BY DEF Init, Young, DeniedFails, DeniedStops, CodeTells, Denied
  <2> QED BY <2>1, InitTyped, InitSlots DEF DenialInv
<1>2. DenialInv /\ [Next]_vars => DenialInv' BY NextDenial
<1>3. DenialInv => DenialReported
  BY DEF DenialInv, DeniedFails, CodeTells, FailureCode, DenialReported
<1> QED BY <1>1, <1>2, <1>3, PTL DEF Spec
-----------------------------------------------------------------------------
(* A run that never asks for an approval is never denied one. *)

\* No gate of the graph is an approval.
NoApprovals == \A g \in GatePoints : g[3] # "approval"

\* No approval has a row, no node waits for one, and recovery denies nothing.
Unasked ==
    /\ \A n \in Node : ledger[n] = "none" /\ gate[n] # "approval"
    /\ driver # "denying"

\* The driver opens no gate.
LEMMA DriverUnasked ==
    ASSUME TypeOK, Unasked, DriverStep
    PROVE  UNCHANGED <<ledger, gate>> /\ driver' # "denying"
<1> USE DEF Unasked, rows, tasks
<1>1. CASE Load \/ Loop \/ EndPass \/ Wake
  BY <1>1 DEF Load, Loop, EndPass, Wake
<1>2. CASE Conclude \/ ConcludeFailed
  BY <1>2 DEF Conclude, ConcludeFailed
<1>3. ASSUME NEW n \in Node,
             \/ ScanFull(n) \/ ScanPast(n) \/ ScanExhausted(n) \/ ScanSkip(n)
             \/ ScanResting(n) \/ ScanStart(n)
      PROVE  UNCHANGED <<ledger, gate>> /\ driver' # "denying"
  BY <1>3 DEF ScanFull, ScanPast, ScanExhausted, ScanSkip, ScanResting, ScanStart, Turn
<1>4. ASSUME NEW n \in Node, Begin(n)
      PROVE  UNCHANGED <<ledger, gate>> /\ driver' # "denying"
  BY <1>4 DEF Begin
<1>5. ASSUME NEW n \in Node,
             SettleCancelled(n) \/ SettleSucceeded(n) \/ SettleFailed(n) \/ Abandon(n)
      PROVE  UNCHANGED <<ledger, gate>> /\ driver' # "denying"
  BY <1>5 DEF SettleCancelled, SettleSucceeded, SettleFailed, Abandon, Retire
<1> QED BY <1>1, <1>2, <1>3, <1>4, <1>5 DEF DriverStep

\* Every step keeps it: a row of an approval needs a gate that is one.
LEMMA NextUnasked ==
    ASSUME NoApprovals, TypeOK, Unasked, [Next]_vars
    PROVE  Unasked'
<1> USE DEF Unasked, TypeOK
<1>1. CASE UNCHANGED <<ledger, gate>> /\ driver' # "denying"
  BY <1>1
<1>2. ASSUME NEW n \in Node, NEW k \in GateKind, OpenGate(n, k) PROVE Unasked'
  <2>1. k # "approval" BY <1>2 DEF OpenGate, NoApprovals
  <2> QED BY <1>2, <2>1 DEF OpenGate, pass
<1>3. ASSUME NEW n \in Node, NEW granted \in BOOLEAN, CloseGate(n, granted)
      PROVE  Unasked'
  BY <1>3 DEF CloseGate
<1>4. ASSUME NEW n \in Node, BlockRun(n) \/ BreakGate(n) \/ ResumeRun(n) \/ TimeOut(n)
      PROVE  Unasked'
  BY <1>4 DEF BlockRun, BreakGate, ResumeRun, TimeOut, rows
<1>5. CASE Reboot
  BY <1>5 DEF Reboot, Forget, NoGate, InterruptedApproval
<1>6. ASSUME NEW n \in Node, Execute(n) \/ BackoffElapsed(n) \/ \E r \in Result : Return(n, r)
      PROVE  UNCHANGED <<ledger, gate>> /\ driver' # "denying"
  BY <1>6 DEF Execute, BackoffElapsed, Return, rows, tasks
<1>7. CASE Cancel \/ Suspend \/ Crash \/ CloseRecovered \/ Rest \/ UNCHANGED vars
  BY <1>7 DEF Cancel, Suspend, Crash, CloseRecovered, Rest, rows, tasks, vars
<1>8. CASE DriverStep
  BY <1>1, <1>8, DriverUnasked
<1> QED BY <1>1, <1>2, <1>3, <1>4, <1>5, <1>6, <1>7, <1>8 DEF Next, TaskStep

\* A run is never failed with APPROVAL_DENIED by a recovery unless its graph may
\* ask for one: the run `question` needs an approval that was decided long ago
\* (recover_run, find_for_run).
THEOREM QuestionsSpared ==
    ASSUME NoApprovals
    PROVE  Spec => QuestionNotDenied
<1>1. Init => TypeOK /\ Unasked
  BY InitTyped DEF Init, Unasked, NoGate
<1>2. TypeOK /\ Unasked /\ [Next]_vars => TypeOK' /\ Unasked'
  BY NextTyped, NextUnasked
<1>3. Unasked' => driver' # "denying"
  BY DEF Unasked
<1> QED BY <1>1, <1>2, <1>3, PTL DEF Spec, QuestionNotDenied
=============================================================================
