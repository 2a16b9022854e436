-------------------------- MODULE CheckpointProofs --------------------------
(***************************************************************************)
(* Checkpoints of a run: attempts of a node never overlap, and a step that  *)
(* succeeded is never run again, for every graph, retry policy, number of   *)
(* failed commits and number of restarts.                                   *)
(***************************************************************************)
EXTENDS SchedulerProofs

\* The driver may still look for nodes to start.
Looking == {"loop", "scan", "await", "pause"}

\* A row left running belongs to a task that was spawned for it, and as long as
\* nodes are started that task has its slot.
RowsOwned ==
    \A n \in Node : HasRow(n, "running") =>
        /\ n \in running => pc[n] # "idle"
        /\ driver \in Looking \cup {"load"} => n \in running

\* A node that succeeded is out of the slots and, as long as nodes are started,
\* known to be completed.
DoneKept ==
    \A n \in Node : HasRow(n, "succeeded") =>
        /\ n \notin running /\ ~HasRow(n, "running")
        /\ driver \in Looking => n \in completed

RowInv == OneAttemptAtATime /\ RowsOwned /\ DoneKept

-----------------------------------------------------------------------------
\* A launch has no rows.
LEMMA InitRows == Init => RowInv
BY DEF Init, RowInv, OneAttemptAtATime, RowsOwned, DoneKept, HasRow

\* A step that leaves rows and slots alone and only moves forward.
LEMMA QuietRows ==
    ASSUME RowInv, UNCHANGED <<steps, running>>, completed \subseteq completed',
           driver' \in Looking => driver \in Looking,
           driver' # "load" \/ driver = "load",
           \A n \in running : pc'[n] = "idle" => pc[n] = "idle"
    PROVE  RowInv'
<1>1. OneAttemptAtATime'
  BY DEF RowInv, OneAttemptAtATime
<1>2. \A n \in Node, s \in StepStatus : HasRow(n, s)' <=> HasRow(n, s)
  BY DEF HasRow
<1>3. "running" \in StepStatus /\ "succeeded" \in StepStatus
  BY DEF StepStatus
<1>4. RowsOwned'
  BY <1>2, <1>3 DEF RowInv, RowsOwned
<1>5. DoneKept'
  BY <1>2, <1>3 DEF RowInv, DoneKept
<1> QED BY <1>1, <1>4, <1>5 DEF RowInv

\* The end of an attempt: the slot is handed back together with the row.
LEMMA RetireRows ==
    ASSUME TypeOK, RowInv, NEW n \in running, NEW s \in StepStatus \ {"running"},
           NEW e, Retire(n, s, e), completed \subseteq completed',
           s = "succeeded" => n \in completed',
           pc' = pc \/ pc' = [pc EXCEPT ![n] = "idle"],
           driver \in {"await", "drain", "fail"}
    PROVE  RowInv'
<1> USE DEF HasRow
<1>1. n \in Node /\ running' = running \ {n} /\ n \notin running'
  BY DEF TypeOK, Retire
<1>2. PICK ok \in BOOLEAN :
        /\ steps' = IF ok THEN Verdict(n, s, e) ELSE steps
        /\ driver' = IF ~ok THEN "fail"
                     ELSE IF driver = "await" THEN "loop" ELSE driver
  BY DEF Retire
<1>3. driver' # "load" /\ (driver' \in Looking => ok /\ driver \in Looking)
  BY <1>2 DEF Looking
<1>4. ~HasRow(n, "succeeded")
  BY <1>1 DEF RowInv, DoneKept
<1>8. steps \in [Node -> Seq(Step)]
  BY DEF TypeOK
<1>9. /\ \A m \in Node \ {n} : Verdict(n, s, e)[m] = steps[m]
      /\ DOMAIN Verdict(n, s, e)[n] = DOMAIN steps[n]
      /\ \A i \in DOMAIN steps[n] :
           Verdict(n, s, e)[n][i] = IF i = Len(steps[n])
                                    THEN [status |-> s, error |-> e]
                                    ELSE steps[n][i]
  BY <1>1, <1>8, VerdictAt
<1>5. ASSUME NEW m \in Node \ {n}
      PROVE  steps'[m] = steps[m] /\ (m \in running' <=> m \in running)
             /\ (pc'[m] = "idle" <=> pc[m] = "idle")
  <2>1. steps'[m] = steps[m]
    BY <1>2, <1>9
  <2> QED BY <1>1, <2>1 DEF TypeOK
<1>6. CASE ok
  <2>1. /\ DOMAIN steps'[n] = DOMAIN steps[n]
        /\ \A i \in DOMAIN steps[n] :
             steps'[n][i].status = IF i = Len(steps[n]) THEN s
                                   ELSE steps[n][i].status
    BY <1>2, <1>6, <1>9
  <2>2. ~HasRow(n, "running")'
    BY <1>1, <2>1 DEF RowInv, OneAttemptAtATime
  <2>3. HasRow(n, "succeeded")' => n \in completed'
    BY <1>4, <2>1
  <2>4. OneAttemptAtATime'
    BY <1>5, <2>2 DEF RowInv, OneAttemptAtATime
  <2>5. RowsOwned'
    BY <1>3, <1>5, <2>2 DEF RowInv, RowsOwned
  <2>6. DoneKept'
    BY <1>1, <1>3, <1>5, <2>2, <2>3 DEF RowInv, DoneKept
  <2> QED BY <2>4, <2>5, <2>6 DEF RowInv
<1>7. CASE ~ok
  <2>1. steps' = steps /\ driver' = "fail"
    BY <1>2, <1>7
  <2>2. OneAttemptAtATime'
    BY <2>1 DEF RowInv, OneAttemptAtATime
  <2>3. RowsOwned'
    BY <1>1, <1>5, <2>1 DEF RowInv, RowsOwned, Looking
  <2>4. DoneKept'
    BY <1>1, <1>5, <2>1 DEF RowInv, DoneKept, Looking
  <2> QED BY <2>2, <2>3, <2>4 DEF RowInv
<1> QED BY <1>6, <1>7

\* Every step of the kernel keeps its rows in order.
LEMMA NextRows == TypeOK /\ RowInv /\ [Next]_vars => RowInv'
<1> SUFFICES ASSUME TypeOK, RowInv, [Next]_vars PROVE RowInv'
  OBVIOUS
<1> USE DEF vars, rows, state, signals, pass, tasks, process
<1>1. CASE Load
  <2>1. UNCHANGED <<steps, running, pc>>
        /\ driver = "load" /\ driver' \in {"loop", "fail"}
    BY <1>1 DEF Load
  <2>2. \A n \in Node : HasRow(n, "succeeded") => n \in completed'
    BY <1>1 DEF Load, Checkpointed
  <2>3. \A n \in Node, s \in StepStatus : HasRow(n, s)' <=> HasRow(n, s)
    BY <2>1 DEF HasRow
  <2>4. "running" \in StepStatus /\ "succeeded" \in StepStatus
    BY DEF StepStatus
  <2>5. OneAttemptAtATime'
    BY <2>1 DEF RowInv, OneAttemptAtATime
  <2>6. RowsOwned'
    BY <2>1, <2>3, <2>4 DEF RowInv, RowsOwned
  <2>7. DoneKept'
    BY <2>1, <2>2, <2>3, <2>4 DEF RowInv, DoneKept
  <2> QED BY <2>5, <2>6, <2>7 DEF RowInv
<1>2. CASE Loop
  BY <1>2, QuietRows DEF Loop, Looking
<1>3. CASE EndPass
  BY <1>3, QuietRows DEF EndPass, Looking
<1>4. CASE Wake
  BY <1>4, QuietRows DEF Wake, Looking
<1>5. CASE Conclude
  <2>1. driver' \in {"gone", "fail"}
    BY <1>5 DEF Conclude
  <2> QED BY <1>5, <2>1, QuietRows DEF Conclude, Looking
<1>6. CASE ConcludeFailed
  BY <1>6, QuietRows DEF ConcludeFailed, Looking
<1>7. ASSUME NEW n \in Node,
             ScanFull(n) \/ ScanPast(n) \/ ScanExhausted(n) \/ ScanSkip(n)
               \/ ScanResting(n)
      PROVE  RowInv'
  <2>1. UNCHANGED <<steps, running, pc, driver>> /\ completed \subseteq completed'
    BY <1>7 DEF ScanFull, ScanPast, ScanExhausted, ScanSkip, ScanResting
  <2> QED BY <2>1, QuietRows
<1>8. ASSUME NEW n \in Node, ScanStart(n) PROVE RowInv'
  <2>1. /\ UNCHANGED <<steps, completed, pc, driver>> /\ driver = "scan"
        /\ running' = running \cup {n} /\ n \notin running
        /\ n \notin completed
    BY <1>8 DEF ScanStart, Turn, Considered
  <2>2. \A m \in Node, s \in StepStatus : HasRow(m, s)' <=> HasRow(m, s)
    BY <2>1 DEF HasRow
  <2>3. "running" \in StepStatus /\ "succeeded" \in StepStatus
    BY DEF StepStatus
  <2>4. ~HasRow(n, "succeeded") /\ ~HasRow(n, "running")
    BY <2>1 DEF RowInv, RowsOwned, DoneKept, Looking
  <2>5. OneAttemptAtATime'
    BY <2>1 DEF RowInv, OneAttemptAtATime
  <2>6. RowsOwned'
    BY <2>1, <2>2, <2>3, <2>4 DEF RowInv, RowsOwned
  <2>7. DoneKept'
    BY <2>1, <2>2, <2>3, <2>4 DEF RowInv, DoneKept
  <2> QED BY <2>5, <2>6, <2>7 DEF RowInv
<1>9. ASSUME NEW n \in Node, Begin(n) PROVE RowInv'
  <2>1. n \in running /\ pc[n] = "idle" /\ driver \in {"await", "drain", "fail"}
        /\ completed' = completed
    BY <1>9 DEF Begin, Polling
  <2>2. ~HasRow(n, "running") /\ ~HasRow(n, "succeeded")
    BY <2>1 DEF RowInv, RowsOwned, DoneKept
  <2>3. PICK ok \in BOOLEAN :
          IF ok
            THEN /\ steps' = [steps EXCEPT ![n] =
                       Append(@, [status |-> "running", error |-> "none"])]
                 /\ pc' = [pc EXCEPT ![n] = "working"]
                 /\ UNCHANGED <<driver, running>>
            ELSE /\ driver' = "fail" /\ running' = running \ {n}
                 /\ UNCHANGED <<steps, pc>>
    BY <1>9 DEF Begin
  <2>4. CASE ok
    <3>1. \A m \in Node \ {n} : steps'[m] = steps[m] /\ pc'[m] = pc[m]
      BY <2>3, <2>4 DEF TypeOK
    <3>2. pc'[n] = "working" /\ UNCHANGED <<driver, running>>
      BY <2>3, <2>4 DEF TypeOK
    <3>3. /\ DOMAIN steps'[n] = DOMAIN steps[n] \cup {Len(steps'[n])}
          /\ steps'[n][Len(steps'[n])].status = "running"
          /\ \A i \in DOMAIN steps[n] : steps'[n][i] = steps[n][i]
      <4>1. steps[n] \in Seq(Step)
        BY DEF TypeOK
      <4>2. [status |-> "running", error |-> "none"] \in Step
        BY DEF Step, StepStatus, StepError
      <4>3. steps'[n] = Append(steps[n], [status |-> "running", error |-> "none"])
        BY <2>3, <2>4 DEF TypeOK
      <4> QED BY <4>1, <4>2, <4>3
    <3>4. OneAttemptAtATime'
      BY <2>2, <3>1, <3>3 DEF RowInv, OneAttemptAtATime, HasRow
    <3>5. RowsOwned'
      BY <2>1, <3>1, <3>2 DEF RowInv, RowsOwned, HasRow
    <3>6. ~HasRow(n, "succeeded")'
      BY <2>2, <3>3 DEF HasRow
    <3>7. DoneKept'
      BY <2>1, <3>1, <3>2, <3>6 DEF RowInv, DoneKept, HasRow
    <3> QED BY <3>4, <3>5, <3>7 DEF RowInv
  <2>5. CASE ~ok
    <3>1. steps' = steps /\ pc' = pc /\ driver' = "fail" /\ running' = running \ {n}
      BY <2>3, <2>5
    <3>2. OneAttemptAtATime'
      BY <3>1 DEF RowInv, OneAttemptAtATime
    <3>3. RowsOwned' /\ DoneKept'
      BY <3>1 DEF RowInv, RowsOwned, DoneKept, HasRow, Looking
    <3> QED BY <3>2, <3>3 DEF RowInv
  <2> QED BY <2>4, <2>5
<1>10. ASSUME NEW n \in Node, SettleCancelled(n) PROVE RowInv'
  BY <1>10, RetireRows DEF SettleCancelled, Settling, Polling, StepStatus
<1>11. ASSUME NEW n \in Node, SettleSucceeded(n) PROVE RowInv'
  BY <1>11, RetireRows DEF SettleSucceeded, Settling, Polling, StepStatus
<1>12. ASSUME NEW n \in Node, SettleFailed(n) PROVE RowInv'
  <2>1. Retire(n, "failed", pc[n]) /\ completed \subseteq completed'
        /\ n \in running /\ driver \in {"await", "drain", "fail"}
        /\ pc' = [pc EXCEPT ![n] = "idle"]
    BY <1>12 DEF SettleFailed, Settling, Polling
  <2> QED BY <2>1, RetireRows DEF StepStatus
<1>13. ASSUME NEW n \in Node, Abandon(n) PROVE RowInv'
  BY <1>13, RetireRows DEF Abandon, Polling, StepStatus
<1>14. ASSUME NEW n \in Node, TaskStep(n) PROVE RowInv'
  <2>1. UNCHANGED <<steps, running, completed, driver>>
    BY <1>14 DEF TaskStep, Execute, BlockRun, BreakGate, ResumeRun, TimeOut,
                 Return, OpenGate, CloseGate
  <2>2. pc' = pc \/ \E p \in Task \ {"idle"} : Goes(n, p)
    <3>1. CASE Execute(n) \/ BlockRun(n) \/ BreakGate(n) \/ TimeOut(n)
      BY <3>1 DEF Execute, BlockRun, BreakGate, TimeOut, Task, InGate, Result
    <3>2. CASE ResumeRun(n)
      <4>1. \/ Goes(n, IF pc[n] = "resuming" THEN "working" ELSE Refusal(n))
            \/ Goes(n, "error")
        BY <3>2 DEF ResumeRun
      <4> QED BY <4>1 DEF Refusal, Task, Result
    <3>3. ASSUME NEW r \in Result, Return(n, r)
          PROVE  \E p \in Task \ {"idle"} : Goes(n, p)
      BY <3>3 DEF Return, Task, Result
    <3>4. ASSUME NEW k \in GateKind, OpenGate(n, k)
          PROVE  \E p \in Task \ {"idle"} : Goes(n, p)
      BY <3>4 DEF OpenGate, Task, InGate, Result
    <3>5. ASSUME NEW granted \in BOOLEAN, CloseGate(n, granted)
          PROVE  \E p \in Task \ {"idle"} : Goes(n, p)
      BY <3>5 DEF CloseGate, Refusal, Task, Writing, Result
    <3> QED BY <1>14, <3>1, <3>2, <3>3, <3>4, <3>5 DEF TaskStep
  <2>3. \A m \in running : pc'[m] = "idle" => pc[m] = "idle"
    BY <2>2 DEF Goes, TypeOK
  <2> QED BY <2>1, <2>3, QuietRows
<1>15. CASE \/ \E n \in Node : BackoffElapsed(n)
            \/ Cancel \/ Suspend \/ Crash \/ Rest \/ UNCHANGED vars
  <2>1. UNCHANGED <<steps, running, completed, pc, driver>>
    BY <1>15 DEF BackoffElapsed, Cancel, Suspend, Crash, Rest
  <2> QED BY <2>1, QuietRows
<1>16. CASE Reboot
  <2>1. running' = {} /\ driver' \in {"denying", "load", "interrupting", "gone"}
    BY <1>16 DEF Reboot, Forget
  <2>2. CASE steps' = steps /\ driver' = "gone"
    <3>1. OneAttemptAtATime'
      BY <2>2 DEF RowInv, OneAttemptAtATime
    <3> QED BY <2>1, <2>2, <3>1 DEF RowInv, RowsOwned, DoneKept, HasRow, Looking
  <2>3. CASE steps' = AbandonRunning
    <3>1. \A n \in Node :
            /\ DOMAIN steps'[n] = DOMAIN steps[n]
            /\ \A i \in DOMAIN steps[n] :
                 steps'[n][i] = IF steps[n][i].status = "running"
                                THEN [status |-> "abandoned", error |-> "abandoned"]
                                ELSE steps[n][i]
      BY <2>3 DEF AbandonRunning
    <3>2. \A n \in Node : ~HasRow(n, "running")'
      BY <3>1 DEF HasRow
    <3>3. OneAttemptAtATime'
      BY <3>2 DEF OneAttemptAtATime, HasRow
    <3> QED BY <2>1, <3>2, <3>3 DEF RowInv, RowsOwned, DoneKept, Looking
  <2> QED BY <1>16, <2>2, <2>3 DEF Reboot
<1>17. CASE CloseRecovered
  BY <1>17, QuietRows DEF CloseRecovered, Looking
<1> QED
  BY <1>1, <1>2, <1>3, <1>4, <1>5, <1>6, <1>7, <1>8, <1>9, <1>10, <1>11, <1>12,
     <1>13, <1>14, <1>15, <1>16, <1>17 DEF Next, DriverStep

\* Only an attempt in a slot, or a recovery of rows left running, rewrites rows.
LEMMA RowsRewritten ==
    ASSUME TypeOK, [Next]_vars, NEW n \in Node, steps'[n] # steps[n]
    PROVE  n \in running \/ HasRow(n, "running")
<1> USE DEF vars, rows, state, signals, pass, tasks, process
<1>1. CASE DriverStep
  <2>1. ASSUME NEW m \in Node, Begin(m), n # m PROVE FALSE
    BY <2>1 DEF Begin, TypeOK
  <2>2. ASSUME NEW m \in Node, NEW s, NEW e, Retire(m, s, e), n # m PROVE FALSE
    <3>1. Verdict(m, s, e)[n] = steps[n]
      BY <2>2 DEF Verdict, TypeOK
    <3> QED BY <2>2, <3>1 DEF Retire
  <2>3. PICK m \in Node :
          \/ Begin(m)
          \/ m \in running /\ \E s, e : Retire(m, s, e)
    BY <1>1 DEF DriverStep, Load, Loop, EndPass, Wake, Conclude, ConcludeFailed,
                ScanFull, ScanPast, ScanExhausted, ScanSkip, ScanResting,
                ScanStart, SettleCancelled, SettleSucceeded, SettleFailed,
                Abandon, Settling
  <2>4. n = m
    BY <2>1, <2>2, <2>3
  <2> QED BY <2>3, <2>4 DEF Begin
<1>2. CASE Reboot
  <2>1. CASE HasRow(n, "running")
    BY <2>1
  <2>2. CASE ~HasRow(n, "running")
    <3>1. steps[n] \in Seq(Step)
      BY DEF TypeOK
    <3>2. AbandonRunning[n] = [i \in DOMAIN steps[n] |-> steps[n][i]]
      BY <2>2 DEF AbandonRunning, HasRow
    <3>3. AbandonRunning[n] = steps[n]
      BY <3>1, <3>2
    <3> QED BY <1>2, <3>3 DEF Reboot
  <2> QED BY <2>1, <2>2
<1>3. CASE \E m \in Node : TaskStep(m) \/ BackoffElapsed(m)
  BY <1>3 DEF TaskStep, Execute, BlockRun, BreakGate, ResumeRun, TimeOut, Return,
              OpenGate, CloseGate, BackoffElapsed
<1>4. CASE Cancel \/ Suspend \/ Crash \/ CloseRecovered \/ Rest \/ UNCHANGED vars
  BY <1>4 DEF Cancel, Suspend, Crash, CloseRecovered, Rest
<1> QED BY <1>1, <1>2, <1>3, <1>4 DEF Next

-----------------------------------------------------------------------------
\* The invariant behind both theorems.
LEMMA RowsInvariant == Spec => [](TypeOK /\ RowInv)
<1>1. Init => TypeOK /\ RowInv
  BY InitTyped, InitRows
<1>2. TypeOK /\ RowInv /\ [Next]_vars => TypeOK' /\ RowInv'
  BY NextTyped, NextRows
<1> QED BY <1>1, <1>2, PTL DEF Spec

\* Attempts of a node never overlap: over retries, abandoned tasks, failed
\* commits and restarts only the newest row of a node can be running (run_node,
\* recover_run).
THEOREM NoOverlap == Spec => []OneAttemptAtATime
<1>1. TypeOK /\ RowInv => OneAttemptAtATime
  BY DEF RowInv
<1> QED BY <1>1, RowsInvariant, PTL

\* A step that succeeded stays as it is for ever: no retry, no recovery and no
\* late task runs its node again or rewrites its rows (load_checkpoints,
\* run_node, recover_run).
THEOREM CheckpointsStay == Spec => CheckpointsFinal
<1>1. TypeOK /\ RowInv /\ [Next]_vars
        => [\A n \in Node : HasRow(n, "succeeded") => steps'[n] = steps[n]]_vars
  <2> SUFFICES ASSUME TypeOK, RowInv, [Next]_vars,
                      NEW n \in Node, HasRow(n, "succeeded"),
                      steps'[n] # steps[n]
               PROVE  FALSE
    OBVIOUS
  <2>1. n \in running \/ HasRow(n, "running")
    BY RowsRewritten
  <2> QED BY <2>1 DEF RowInv, DoneKept
<1> QED BY <1>1, RowsInvariant, PTL DEF Spec, CheckpointsFinal

\* What a recovery makes of the rows of a node.
LEMMA RecoveredRows ==
    ASSUME TypeOK, NEW n \in Node, steps' = AbandonRunning
    PROVE  /\ DOMAIN steps'[n] = DOMAIN steps[n] /\ Len(steps'[n]) = Len(steps[n])
           /\ \A i \in DOMAIN steps[n] :
                steps'[n][i] = IF steps[n][i].status = "running"
                               THEN [status |-> "abandoned", error |-> "abandoned"]
                               ELSE steps[n][i]
<1>1. /\ DOMAIN steps'[n] = DOMAIN steps[n]
      /\ \A i \in DOMAIN steps[n] :
           steps'[n][i] = IF steps[n][i].status = "running"
                          THEN [status |-> "abandoned", error |-> "abandoned"]
                          ELSE steps[n][i]
  BY DEF AbandonRunning
<1>2. steps'[n] \in Seq(Step) BY AbandonedRows DEF TypeOK
<1>3. steps[n] \in Seq(Step) BY DEF TypeOK
<1>4. Len(steps'[n]) = Len(steps[n]) BY <1>1, <1>2, <1>3
<1> QED BY <1>1, <1>4


-----------------------------------------------------------------------------
(* The retry budget. *)

\* The i-th attempt of n failed and was the last that max_attempts allows.
Spent(n, i) == steps[n][i].status = "failed" /\ i >= MaxAttempts[n]

\* A task with a slot has the newest row, and that row is running.
NewestRuns == \A n \in running : Spawned(n) => Newest(n) = "running"

\* The scheduler's counters say what the rows say.
Counted ==
    driver \in Looking \cup {"drain"} =>
        \A n \in Node : /\ attempts[n] = Len(steps[n])
                        /\ n \notin running => latest[n] = Newest(n)

\* Nothing is tried after the last permitted failure...
LastFailure ==
    \A n \in Node : \A i \in DOMAIN steps[n] : Spent(n, i) => i = Len(steps[n])

\* ...because a slot without a task is only given to a node with attempts left.
Room == \A n \in running : ~Spawned(n) => \A i \in DOMAIN steps[n] : ~Spent(n, i)

\* As long as every commit succeeds, a running row is that of a slot.
RowsActive == faults = 0 => \A n \in Node : HasRow(n, "running") => n \in running

CountInv == NewestRuns /\ Counted /\ LastFailure /\ Room /\ RowsActive
BudgetInv == TypeOK /\ SlotInv /\ RowInv /\ CountInv

\* A launch starts with no rows and no counts.
LEMMA InitCounts == Init => CountInv
BY DEF Init, NoAttempt, NoStep, CountInv, NewestRuns, Counted, LastFailure, Room,
       RowsActive, HasRow, Looking

\* Rows of a node, as functions of the sequence alone.
LEMMA RowsAre ==
    ASSUME TypeOK, NEW n \in Node
    PROVE  /\ Len(steps[n]) \in Nat /\ DOMAIN steps[n] = 1 .. Len(steps[n])
           /\ steps[n] = << >> <=> Len(steps[n]) = 0
           /\ \A i \in DOMAIN steps[n] : steps[n][i] \in Step
BY DEF TypeOK

\* A step that leaves rows, slots, counters and tasks alone.
LEMMA QuietCounts ==
    ASSUME BudgetInv, UNCHANGED <<steps, running, attempts, latest>>,
           \A n \in Node : Spawned(n)' <=> Spawned(n),
           driver' \in Looking \cup {"drain"} => driver \in Looking \cup {"drain"},
           faults' = 0 => faults = 0
    PROVE  CountInv'
<1> USE DEF BudgetInv, CountInv
<1>1. NewestRuns' BY DEF NewestRuns, Newest, TypeOK
<1>2. Counted' BY DEF Counted, Newest
<1>3. LastFailure' BY DEF LastFailure, Spent
<1>4. Room' BY DEF Room, Spent, TypeOK
<1>5. RowsActive' BY DEF RowsActive, HasRow
<1> QED BY <1>1, <1>2, <1>3, <1>4, <1>5

\* The end of an attempt.
LEMMA SettleCounts ==
    ASSUME BudgetInv, TypeOK', NEW n \in Node, NEW s \in StepStatus,
           NEW e \in StepError, NEW ok \in BOOLEAN, Settled(n, s, e, ok)
    PROVE  CountInv'
<1> USE DEF BudgetInv, CountInv
<1>1. /\ \A m \in Node \ {n} : steps'[m] = steps[m] /\ pc'[m] = pc[m]
                               /\ latest'[m] = latest[m]
      /\ Len(steps'[n]) = Len(steps[n]) /\ DOMAIN steps'[n] = DOMAIN steps[n]
      /\ \A i \in DOMAIN steps[n] :
           steps'[n][i] = IF ok /\ i = Len(steps[n])
                          THEN [status |-> s, error |-> e] ELSE steps[n][i]
      /\ latest'[n] = s
  BY SettledRows
<1>2. running' = running \ {n} /\ n \in running /\ Spawned(n) /\ s # "running"
  BY DEF Settled
<1>3. Newest(n) = "running" BY <1>2 DEF NewestRuns
<1>4. /\ Len(steps[n]) \in Nat /\ DOMAIN steps[n] = 1 .. Len(steps[n])
      /\ steps[n] # << >> /\ Len(steps[n]) # 0 /\ Len(steps[n]) \in DOMAIN steps[n]
  BY <1>3, RowsAre DEF Newest
<1>5. steps[n][Len(steps[n])].status = "running" BY <1>3, <1>4 DEF Newest
<1>6. NewestRuns'
  BY <1>1, <1>2 DEF NewestRuns, Newest, Spawned, TypeOK
<1>7. Counted'
  <2> SUFFICES ASSUME driver' \in Looking \cup {"drain"}, NEW m \in Node
               PROVE  attempts'[m] = Len(steps'[m])
                      /\ (m \notin running' => latest'[m] = Newest(m)')
    BY DEF Counted
  <2>1. ok /\ driver \in Looking \cup {"drain"} /\ attempts' = attempts
    BY DEF Settled, Looking
  <2>2. CASE m = n
    <3>1. steps'[n] # << >>
      BY <1>1, <1>4, RowsAre DEF TypeOK
    <3>2. Newest(n)' = s
      BY <1>1, <1>4, <2>1, <3>1 DEF Newest
    <3> QED BY <1>1, <2>1, <2>2, <3>2 DEF Counted
  <2>3. CASE m # n
    BY <1>1, <1>2, <2>1, <2>3 DEF Counted, Newest
  <2> QED BY <2>2, <2>3
<1>8. LastFailure'
  <2> SUFFICES ASSUME NEW m \in Node, NEW i \in DOMAIN steps'[m], Spent(m, i)'
               PROVE  i = Len(steps'[m])
    BY DEF LastFailure
  <2>1. CASE m = n
    <3>1. i \in DOMAIN steps[n] BY <1>1, <2>1
    <3>2. CASE i = Len(steps[n]) BY <1>1, <2>1, <3>2
    <3>3. CASE i # Len(steps[n])
      BY <1>1, <2>1, <3>1, <3>3 DEF Spent, LastFailure
    <3> QED BY <3>2, <3>3
  <2>2. CASE m # n BY <1>1, <2>2 DEF Spent, LastFailure
  <2> QED BY <2>1, <2>2
<1>9. Room'
  BY <1>1, <1>2 DEF Room, Spent, Spawned, TypeOK
<1>10. RowsActive'
  <2> SUFFICES ASSUME faults' = 0, NEW m \in Node, HasRow(m, "running")'
               PROVE  m \in running'
    BY DEF RowsActive
  <2>1. ok /\ faults = 0 BY DEF Settled, TypeOK
  <2>2. CASE m = n
    <3>1. \A i \in DOMAIN steps[n] : steps'[n][i].status # "running"
      BY <1>1, <1>2, <2>1 DEF RowInv, OneAttemptAtATime
    <3> QED BY <1>1, <2>2, <3>1 DEF HasRow
  <2>3. CASE m # n BY <1>1, <1>2, <2>1, <2>3 DEF RowsActive, HasRow
  <2> QED BY <2>2, <2>3
<1> QED BY <1>6, <1>7, <1>8, <1>9, <1>10

\* The start of an attempt.
LEMMA BeginCounts ==
    ASSUME BudgetInv, TypeOK', NEW n \in Node, NEW ok \in BOOLEAN, Begun(n, ok)
    PROVE  CountInv'
<1> USE DEF BudgetInv, CountInv
<1>1. /\ driver \in {"await", "drain", "fail"} /\ n \in running /\ ~Spawned(n)
      /\ \A m \in Node \ {n} : steps'[m] = steps[m] /\ pc'[m] = pc[m]
                               /\ attempts'[m] = attempts[m]
      /\ attempts'[n] = attempts[n] + 1 /\ latest' = latest
  BY DEF Begun, TypeOK
<1>2. CASE ok
  <2>1. /\ Len(steps'[n]) = Len(steps[n]) + 1
        /\ DOMAIN steps'[n] = DOMAIN steps[n] \cup {Len(steps[n]) + 1}
        /\ \A i \in DOMAIN steps[n] : steps'[n][i] = steps[n][i]
        /\ steps'[n][Len(steps[n]) + 1] = [status |-> "running", error |-> "none"]
    BY <1>2, BegunRows
  <2>2. UNCHANGED <<driver, running, faults>> /\ pc'[n] = "working"
    BY <1>2 DEF Begun
  <2>3. NewestRuns'
    <3> SUFFICES ASSUME NEW m \in running', Spawned(m)' PROVE Newest(m)' = "running"
      BY DEF NewestRuns
    <3>1. CASE m = n
      <4>1. steps'[n] # << >> BY <2>1, RowsAre DEF TypeOK
      <4> QED BY <2>1, <3>1, <4>1 DEF Newest
    <3>2. CASE m # n
      BY <1>1, <2>2, <3>2 DEF NewestRuns, Newest, Spawned, TypeOK
    <3> QED BY <3>1, <3>2
  <2>4. Counted'
    BY <1>1, <2>1, <2>2 DEF Counted, Newest
  <2>5. LastFailure'
    <3> SUFFICES ASSUME NEW m \in Node, NEW i \in DOMAIN steps'[m], Spent(m, i)'
                 PROVE  i = Len(steps'[m])
      BY DEF LastFailure
    <3>1. CASE m = n
      <4>1. i = Len(steps[n]) + 1 \/ (i \in DOMAIN steps[n] /\ Spent(n, i))
        BY <2>1, <3>1 DEF Spent
      <4> QED BY <1>1, <2>1, <3>1, <4>1 DEF Room
    <3>2. CASE m # n BY <1>1, <3>2 DEF Spent, LastFailure
    <3> QED BY <3>1, <3>2
  <2>6. Room'
    <3> SUFFICES ASSUME NEW m \in running', ~Spawned(m)', NEW i \in DOMAIN steps'[m]
                 PROVE  ~Spent(m, i)'
      BY DEF Room
    <3>1. m # n /\ m \in running /\ m \in Node BY <2>2 DEF Spawned, TypeOK
    <3>2. steps'[m] = steps[m] /\ ~Spawned(m) BY <1>1, <3>1 DEF Spawned
    <3> QED BY <3>1, <3>2 DEF Room, Spent
  <2>7. RowsActive'
    BY <1>1, <2>2 DEF RowsActive, HasRow
  <2> QED BY <2>3, <2>4, <2>5, <2>6, <2>7
<1>3. CASE ~ok
  <2>1. /\ driver' = "fail" /\ running' = running \ {n}
        /\ steps' = steps /\ pc' = pc /\ faults' # 0
    BY <1>3 DEF Begun, TypeOK
  <2>2. NewestRuns' BY <2>1 DEF NewestRuns, Newest, Spawned
  <2>3. LastFailure' BY <2>1 DEF LastFailure, Spent
  <2>4. Room' BY <2>1 DEF Room, Spent, Spawned
  <2>5. Counted' /\ RowsActive' BY <2>1 DEF Counted, RowsActive, Looking
  <2> QED BY <2>2, <2>3, <2>4, <2>5
<1> QED BY <1>2, <1>3

\* A node gets a slot.
LEMMA StartCounts ==
    ASSUME BudgetInv, NEW n \in Node, ScanStart(n)
    PROVE  CountInv'
<1> USE DEF BudgetInv, CountInv
<1>1. /\ driver = "scan" /\ driver' = driver /\ running' = running \cup {n}
      /\ n \notin running /\ ~Exhausted(n)
      /\ UNCHANGED <<steps, pc, attempts, latest, faults>>
  BY DEF ScanStart, Turn, Considered, rows, state, tasks, process
<1>2. ~Spawned(n)
  BY <1>1 DEF SlotInv, LeftBehind
<1>3. \A i \in DOMAIN steps[n] : ~Spent(n, i)
  <2> SUFFICES ASSUME NEW i \in DOMAIN steps[n], Spent(n, i) PROVE FALSE
    OBVIOUS
  <2>1. i = Len(steps[n]) /\ steps[n] # << >>
    BY RowsAre DEF LastFailure
  <2>2. latest[n] = "failed" /\ attempts[n] = i
    BY <1>1, <2>1 DEF Counted, Looking, Newest, Spent
  <2> QED BY <1>1, <2>2 DEF Exhausted, Spent
<1>4. NewestRuns' BY <1>1, <1>2 DEF NewestRuns, Newest, Spawned
<1>5. Counted' BY <1>1 DEF Counted, Newest
<1>6. LastFailure' BY <1>1 DEF LastFailure, Spent
<1>7. Room' BY <1>1, <1>3 DEF Room, Spent, Spawned
<1>8. RowsActive' BY <1>1 DEF RowsActive, HasRow
<1> QED BY <1>4, <1>5, <1>6, <1>7, <1>8

\* A new process counts from the rows.
LEMMA RebootCounts ==
    ASSUME BudgetInv, Reboot
    PROVE  CountInv'
<1> USE DEF BudgetInv, CountInv
<1>1. /\ running' = {} /\ driver' \in {"denying", "load", "interrupting", "gone"}
      /\ faults' = faults /\ host = "down"
  BY DEF Reboot, Forget
<1>2. NewestRuns' /\ Counted' /\ Room'
  BY <1>1 DEF NewestRuns, Counted, Room, Looking
<1>3. CASE status \in Unfinished
  <2>1. steps' = AbandonRunning BY <1>3 DEF Reboot
  <2>2. \A n \in Node :
          /\ DOMAIN steps'[n] = DOMAIN steps[n] /\ Len(steps'[n]) = Len(steps[n])
          /\ \A i \in DOMAIN steps[n] :
               steps'[n][i] = IF steps[n][i].status = "running"
                              THEN [status |-> "abandoned", error |-> "abandoned"]
                              ELSE steps[n][i]
    BY <2>1, RecoveredRows
  <2>3. LastFailure'
    BY <2>2 DEF LastFailure, Spent
  <2>4. RowsActive'
    BY <2>2 DEF RowsActive, HasRow
  <2> QED BY <1>2, <2>3, <2>4
<1>4. CASE status \notin Unfinished
  <2>1. steps' = steps BY <1>4 DEF Reboot
  <2>2. running = {} BY <1>4 DEF SlotInv, Driven, ActiveOnlyDriven
  <2>3. LastFailure' BY <2>1 DEF LastFailure, Spent
  <2>4. RowsActive' BY <1>1, <2>1, <2>2 DEF RowsActive, HasRow
  <2> QED BY <1>2, <2>3, <2>4
<1> QED BY <1>3, <1>4

\* load_checkpoints counts from the rows.
LEMMA LoadCounts ==
    ASSUME BudgetInv, Load
    PROVE  CountInv'
<1> USE DEF BudgetInv, CountInv
<1>1. /\ driver = "load" /\ UNCHANGED <<steps, running, pc>> /\ running = {}
      /\ attempts' = [n \in Node |-> Len(steps[n])]
      /\ latest' = [n \in Node |-> Newest(n)]
  BY DEF Load, tasks, SlotInv, ActiveOnlyDriven
<1>2. faults' = 0 => faults = 0 BY DEF Load, Commits, TypeOK
<1>3. NewestRuns' /\ Room' BY <1>1 DEF NewestRuns, Room
<1>4. Counted' BY <1>1 DEF Counted, Newest
<1>5. LastFailure' BY <1>1 DEF LastFailure, Spent
<1>6. RowsActive' BY <1>1, <1>2 DEF RowsActive, HasRow
<1> QED BY <1>3, <1>4, <1>5, <1>6

\* Every step keeps counters, slots and rows together.
LEMMA NextCounts ==
    ASSUME BudgetInv, [Next]_vars
    PROVE  BudgetInv'
<1>1. TypeOK' BY NextTyped DEF BudgetInv
<1>2. SlotInv' BY NextSlots DEF BudgetInv
<1>3. RowInv' BY NextRows DEF BudgetInv
<1>4. ASSUME Quiet PROVE CountInv'
  <2>1. \A n \in Node : Spawned(n)' <=> Spawned(n) BY <1>4 DEF Quiet, Spawned
  <2>2. driver' \in Looking \cup {"drain"} => driver \in Looking \cup {"drain"}
    BY <1>4 DEF Quiet, Drives, Looking
  <2>3. faults' = 0 => faults = 0 BY <1>1, <1>4 DEF Quiet, TypeOK, BudgetInv
  <2>4. UNCHANGED <<steps, running, attempts, latest>> BY <1>4 DEF Quiet
  <2> QED BY <2>1, <2>2, <2>3, <2>4, QuietCounts
<1>5. ASSUME NEW n \in Node, ScanSkip(n) PROVE CountInv'
  <2>1. UNCHANGED <<steps, running, attempts, latest, pc, driver, faults>>
    BY <1>5 DEF ScanSkip, rows, tasks, process
  <2> QED BY <2>1, QuietCounts DEF Spawned
<1>6. ASSUME NEW n \in Node, Begin(n) PROVE CountInv'
  <2>1. PICK ok \in BOOLEAN : Begun(n, ok) BY <1>6, Begins DEF BudgetInv
  <2> QED BY <1>1, <2>1, BeginCounts
<1>7. ASSUME NEW n \in Node, Settle(n) PROVE CountInv'
  <2>1. PICK s \in StepStatus, e \in StepError, ok \in BOOLEAN : Settled(n, s, e, ok)
    BY <1>7, Settles DEF BudgetInv
  <2> QED BY <1>1, <2>1, SettleCounts
<1>8. CountInv'
  BY <1>4, <1>5, <1>6, <1>7, StartCounts, RebootCounts, LoadCounts, Kinds
     DEF BudgetInv
<1> QED BY <1>1, <1>2, <1>3, <1>8 DEF BudgetInv

\* The invariant behind the retry budget.
LEMMA BudgetInvariant == Spec => []BudgetInv
<1>1. Init => BudgetInv
  BY InitTyped, InitSlots, InitRows, InitCounts DEF BudgetInv
<1>2. BudgetInv /\ [Next]_vars => BudgetInv' BY NextCounts
<1> QED BY <1>1, <1>2, PTL DEF Spec

\* A restart does not refill the retry budget.
THEOREM BudgetHolds == Spec => []RetryBudget
<1>1. BudgetInv => RetryBudget
  <2> SUFFICES ASSUME BudgetInv, NEW n \in Node
               PROVE  Cardinality({i \in DOMAIN steps[n] :
                                     steps[n][i].status = "failed"}) <= MaxAttempts[n]
    BY DEF RetryBudget
  <2> DEFINE failed == {i \in DOMAIN steps[n] : steps[n][i].status = "failed"}
             early == 1 .. MaxAttempts[n] - 1
             last == Len(steps[n])
  <2>0. TypeOK BY DEF BudgetInv
  <2>1. /\ last \in Nat /\ DOMAIN steps[n] = 1 .. last
    BY <2>0, RowsAre
  <2>2. MaxAttempts[n] \in Nat \ {0} BY PolicyAssumption
  <2>3. \A i \in DOMAIN steps[n] : Spent(n, i) => i = last
    BY DEF BudgetInv, CountInv, LastFailure
  <2>4. failed \subseteq early \cup {last}
    BY <2>1, <2>2, <2>3 DEF Spent
  <2>5. IsFiniteSet(early) /\ Cardinality(early) = MaxAttempts[n] - 1
    <3>1. 1 \in Int /\ MaxAttempts[n] - 1 \in Int BY <2>2
    <3>2. IsFiniteSet(early)
          /\ Cardinality(early) = IF 1 > MaxAttempts[n] - 1 THEN 0
                                  ELSE MaxAttempts[n] - 1 - 1 + 1
      BY <3>1, FS_Interval
    <3> QED BY <2>2, <3>2
  <2>6. IsFiniteSet(early \cup {last})
        /\ Cardinality(early \cup {last}) <= MaxAttempts[n]
    <3>1. IsFiniteSet(early \cup {last})
          /\ (Cardinality(early \cup {last}) = Cardinality(early)
               \/ Cardinality(early \cup {last}) = Cardinality(early) + 1)
      BY <2>5, FS_AddElement
    <3> QED BY <2>2, <2>5, <3>1
  <2>7. Cardinality(failed) \in Nat
        /\ Cardinality(failed) <= Cardinality(early \cup {last})
        /\ Cardinality(early \cup {last}) \in Nat
    BY <2>4, <2>6, FS_Subset, FS_CardinalityType
  <2> HIDE DEF failed, early
  <2>8. Cardinality(failed) <= MaxAttempts[n] BY <2>2, <2>6, <2>7
  <2> QED BY <2>8 DEF failed
<1> QED BY <1>1, BudgetInvariant, PTL

\* As long as every commit succeeds, a finished run leaves no step row running.
THEOREM RowsSettled == Spec => [](faults = 0 => FinishedRowsSettled)
<1>1. BudgetInv => (faults = 0 => FinishedRowsSettled)
  <2> SUFFICES ASSUME BudgetInv, faults = 0, status \in Finished, NEW n \in Node,
                      HasRow(n, "running")
               PROVE  FALSE
    BY DEF FinishedRowsSettled
  <2>1. driver = "gone"
    BY DEF BudgetInv, SlotInv, Driven, Finished, Unfinished
  <2>2. running = {} BY <2>1 DEF BudgetInv, SlotInv, ActiveOnlyDriven
  <2> QED BY <2>2 DEF BudgetInv, CountInv, RowsActive
<1> QED BY <1>1, BudgetInvariant, PTL

-----------------------------------------------------------------------------
(* What a run is over for. *)

\* A completed node has no slot.
Disjoint == completed \cap running = {}

\* As long as the driver may call the run a success, a completed node is one the
\* rows call done, or one that was skipped.
CompletedIsDone ==
    driver \in Looking \cup {"drain"} => \A n \in completed : Checkpointed(n) \/ n \in skipped

\* The driver leaves the loop with every node completed, or cancelled.
DrainedComplete == driver = "drain" /\ ~cancelled => completed = Node

DoneInv == Disjoint /\ CompletedIsDone /\ DrainedComplete
CompleteInv == BudgetInv /\ DoneInv

\* The rows of n are those of an attempt that just ended and was the last.
LEMMA SettledDone ==
    ASSUME BudgetInv, NEW n \in Node, NEW s \in StepStatus, NEW e \in StepError,
           NEW ok \in BOOLEAN, Settled(n, s, e, ok), Means(n, s, e),
           driver' # "fail",
           completed' # completed \/ (s = "succeeded")
    PROVE  Checkpointed(n)'
<1> USE DEF BudgetInv, CountInv
<1>1. n \in running /\ Spawned(n) /\ driver \in Looking \cup {"drain"}
  BY DEF Settled, Looking
<1>8. ok BY DEF Settled
<1>2. Newest(n) = "running" BY <1>1 DEF NewestRuns
<1>3. /\ Len(steps[n]) \in DOMAIN steps[n] /\ DOMAIN steps[n] = 1 .. Len(steps[n])
  <2>1. steps[n] # << >> BY <1>2 DEF Newest
  <2> QED BY <2>1, RowsAre
<1>4. /\ DOMAIN steps'[n] = DOMAIN steps[n]
      /\ steps'[n][Len(steps[n])] = [status |-> s, error |-> e]
  <2>1. /\ \A m \in Node \ {n} : steps'[m] = steps[m] /\ pc'[m] = pc[m]
                                 /\ latest'[m] = latest[m]
        /\ Len(steps'[n]) = Len(steps[n])
        /\ DOMAIN steps'[n] = DOMAIN steps[n]
        /\ \A i \in DOMAIN steps[n] :
             steps'[n][i] = IF ok /\ i = Len(steps[n])
                            THEN [status |-> s, error |-> e] ELSE steps[n][i]
    BY SettledRows
  <2> QED BY <1>3, <1>8, <2>1
<1>5. HasRow(n, s)' BY <1>3, <1>4 DEF HasRow
<1>6. CASE s = "succeeded" BY <1>5, <1>6 DEF Checkpointed
<1>7. CASE s # "succeeded"
  <2>1. s = "failed" /\ CarriedPast(n) BY <1>7 DEF Means
  <2>2. attempts[n] = Len(steps[n]) BY <1>1 DEF Counted
  <2>3. n \in Continues /\ Len(steps[n]) >= MaxAttempts[n]
    BY <2>1, <2>2 DEF CarriedPast
  <2> QED BY <1>3, <1>4, <2>1, <2>3 DEF PassedOver, Checkpointed
<1> QED BY <1>6, <1>7

\* Every step keeps what is completed together with what the rows say.
LEMMA NextDone == CompleteInv /\ [Next]_vars => CompleteInv'
<1> SUFFICES ASSUME CompleteInv, [Next]_vars PROVE DoneInv'
  BY NextCounts DEF CompleteInv
<1> USE DEF CompleteInv, DoneInv
<1>0. TypeOK /\ TypeOK' /\ SlotInv BY NextTyped DEF BudgetInv
<1>1. ASSUME Quiet PROVE DoneInv'
  <2>1. Disjoint' BY <1>1 DEF Quiet, Disjoint
  <2>2. CompletedIsDone'
    <3>1. driver' \in Looking \cup {"drain"} => driver \in Looking \cup {"drain"}
      BY <1>1 DEF Quiet, Drives, Looking
    <3>2. UNCHANGED <<steps, completed, skipped>> BY <1>1 DEF Quiet
    <3> QED BY <3>1, <3>2 DEF CompletedIsDone, Checkpointed, HasRow, PassedOver
  <2>3. DrainedComplete'
    BY <1>1 DEF Quiet, Drives, Over, DrainedComplete
  <2> QED BY <2>1, <2>2, <2>3
<1>2. ASSUME Load PROVE DoneInv'
  <2>1. /\ running' = {} /\ UNCHANGED <<steps, skipped>>
        /\ completed' = {n \in Node : Checkpointed(n)} /\ driver' # "drain"
    BY <1>0, <1>2 DEF Load, SlotInv, ActiveOnlyDriven
  <2> QED BY <2>1 DEF Disjoint, CompletedIsDone, DrainedComplete, Checkpointed,
                      HasRow, PassedOver
<1>3. ASSUME Reboot PROVE DoneInv'
  BY <1>3 DEF Reboot, Forget, Disjoint, CompletedIsDone, DrainedComplete, Looking
<1>4. ASSUME NEW n \in Node, ScanSkip(n) PROVE DoneInv'
  <2>1. /\ n \notin running /\ UNCHANGED <<steps, running, driver>>
        /\ completed' = completed \cup {n} /\ skipped' = skipped \cup {n}
        /\ driver = "scan"
    BY <1>4 DEF ScanSkip, Turn, Considered, rows
  <2>2. Disjoint' /\ DrainedComplete' BY <2>1 DEF Disjoint, DrainedComplete
  <2>3. CompletedIsDone'
    BY <2>1 DEF CompletedIsDone, Checkpointed, HasRow, PassedOver
  <2> QED BY <2>2, <2>3
<1>5. ASSUME NEW n \in Node, ScanStart(n) PROVE DoneInv'
  <2>1. /\ n \notin completed /\ UNCHANGED <<steps, completed, skipped, driver>>
        /\ running' = running \cup {n} /\ driver = "scan"
    BY <1>5 DEF ScanStart, Turn, Considered, rows, state
  <2>2. Disjoint' /\ DrainedComplete' BY <2>1 DEF Disjoint, DrainedComplete
  <2>3. CompletedIsDone'
    BY <2>1 DEF CompletedIsDone, Checkpointed, HasRow, PassedOver
  <2> QED BY <2>2, <2>3
<1>6. ASSUME NEW n \in Node, Begin(n) PROVE DoneInv'
  <2>1. PICK ok \in BOOLEAN : Begun(n, ok) BY <1>0, <1>6, Begins
  <2>2. UNCHANGED <<completed, skipped>> /\ running' \subseteq running
        /\ n \in running /\ (cancelled => cancelled')
    BY <2>1 DEF Begun
  <2>3. Disjoint' BY <2>2 DEF Disjoint
  <2>4. DrainedComplete' BY <2>1, <2>2 DEF Begun, DrainedComplete
  <2>5. CompletedIsDone'
    <3> SUFFICES ASSUME driver' \in Looking \cup {"drain"}, NEW m \in completed
                 PROVE  Checkpointed(m)' \/ m \in skipped
      BY <2>2 DEF CompletedIsDone
    <3>1. m # n BY <2>2 DEF Disjoint
    <3>2. driver' = driver BY <2>1 DEF Begun, Looking
    <3>3. m \in Node /\ steps'[m] = steps[m] BY <1>0, <2>1, <3>1 DEF Begun, TypeOK
    <3>4. Checkpointed(m) \/ m \in skipped BY <3>2 DEF CompletedIsDone
    <3> QED BY <3>3, <3>4 DEF Checkpointed, HasRow, PassedOver
  <2> QED BY <2>3, <2>4, <2>5
<1>7. ASSUME NEW n \in Node, Settle(n) PROVE DoneInv'
  <2>1. PICK s \in StepStatus, e \in StepError, ok \in BOOLEAN :
          Settled(n, s, e, ok) /\ Means(n, s, e)
    BY <1>0, <1>7, Settles
  <2>2. /\ running' = running \ {n} /\ n \in running
        /\ (completed' = completed \/ completed' = completed \cup {n})
        /\ skipped' = skipped /\ (cancelled => cancelled')
    BY <2>1 DEF Settled, Means
  <2>3. Disjoint' BY <2>2 DEF Disjoint
  <2>4. DrainedComplete'
    <3> SUFFICES ASSUME driver' = "drain", ~cancelled' PROVE completed' = Node
      BY DEF DrainedComplete
    <3>1. driver = "drain" /\ ~cancelled BY <2>1, <2>2 DEF Settled
    <3>2. completed = Node BY <3>1 DEF DrainedComplete
    <3> QED BY <1>0, <2>2, <3>2 DEF TypeOK
  <2>5. CompletedIsDone'
    <3> SUFFICES ASSUME driver' \in Looking \cup {"drain"}, NEW m \in completed'
                 PROVE  Checkpointed(m)' \/ m \in skipped
      BY <2>2 DEF CompletedIsDone
    <3>1. ok /\ driver' # "fail" /\ driver \in Looking \cup {"drain"} /\ driver # "fail"
      BY <2>1 DEF Settled, Looking
    <3>2. CASE m = n
      <4>1. completed' # completed BY <2>2, <3>2 DEF Disjoint
      <4> QED BY <2>1, <3>1, <3>2, <4>1, SettledDone
    <3>3. CASE m # n
      <4>1. m \in completed /\ m \in Node BY <1>0, <2>2, <3>3 DEF TypeOK
      <4>2. steps'[m] = steps[m] BY <1>0, <2>1, <3>3, <4>1, SettledRows
      <4>3. Checkpointed(m) \/ m \in skipped BY <3>1, <4>1 DEF CompletedIsDone
      <4> QED BY <4>2, <4>3 DEF Checkpointed, HasRow, PassedOver
    <3> QED BY <3>2, <3>3
  <2> QED BY <2>3, <2>4, <2>5
<1> QED BY <1>0, <1>1, <1>2, <1>3, <1>4, <1>5, <1>6, <1>7, Kinds

\* The invariant behind success.
LEMMA CompleteInvariant == Spec => []CompleteInv
<1>1. Init => CompleteInv
  BY InitTyped, InitSlots, InitRows, InitCounts
     DEF CompleteInv, BudgetInv, DoneInv, Init, Disjoint, CompletedIsDone,
         DrainedComplete, Looking
<1>2. CompleteInv /\ [Next]_vars => CompleteInv' BY NextDone
<1> QED BY <1>1, <1>2, PTL DEF Spec

\* A run is called succeeded only when every node of its graph is checkpointed or
\* skipped (the end of `drive`).
THEOREM SuccessComplete == Spec => SuccessIsComplete
<1>1. CompleteInv /\ [Next]_vars
        => [status' = "succeeded" /\ status # "succeeded"
              => \A n \in Node : Checkpointed(n) \/ n \in skipped]_vars
  <2> SUFFICES ASSUME CompleteInv, [Next]_vars,
                      status' = "succeeded", status # "succeeded", NEW n \in Node
               PROVE  Checkpointed(n) \/ n \in skipped
    OBVIOUS
  <2>1. "succeeded" \notin Unfinished BY DEF Unfinished
  <2>2. PICK s \in Finished, c \in Code : Closing(s, c)
    BY <2>1, Ends DEF CompleteInv, BudgetInv
  <2>3. driver = "drain" /\ ~cancelled BY <2>2 DEF Closing, Finish
  <2>4. n \in completed BY <2>3 DEF CompleteInv, DoneInv, DrainedComplete
  <2> QED BY <2>3, <2>4 DEF CompleteInv, DoneInv, CompletedIsDone
<1> QED BY <1>1, CompleteInvariant, PTL DEF Spec, SuccessIsComplete

-----------------------------------------------------------------------------
(* The rows keep the contract. *)

Tried(n) == steps[n] # << >>

\* What the graph asked for before n could be started.
Wanted(n) ==
    /\ When[n] # NoNode => n \in Fits /\ Checkpointed(When[n])
    /\ Deps[n] # {} => \E m \in Deps[n] : Checkpointed(m)

\* A node that has a row or a slot was wanted, in this process or an earlier one.
TriedWanted == \A n \in Node : Tried(n) \/ n \in running => Wanted(n)

\* A skipped node has no row, from whichever process.
SkippedUntried ==
    /\ driver = "load" => skipped = {}
    /\ skipped \subseteq completed
    /\ \A n \in skipped : ~Tried(n)

\* As long as nodes are started, what the rows call done is completed.
DoneIsCompleted ==
    driver \in {"scan", "await", "pause"} \/ (driver = "loop" /\ ~cancelled)
       => \A n \in Node : Checkpointed(n) => n \in completed

SkipInv == TriedWanted /\ SkippedUntried /\ DoneIsCompleted
GraphInv == CompleteInv /\ SkipInv

\* A checkpoint is never taken back.
LEMMA CheckpointKept ==
    ASSUME BudgetInv, TypeOK', [Next]_vars, NEW n \in Node, Checkpointed(n)
    PROVE  Checkpointed(n)'
<1> USE DEF BudgetInv, CountInv
<1>1. CASE HasRow(n, "succeeded")
  <2>1. ~(n \in running \/ HasRow(n, "running")) BY <1>1 DEF RowInv, DoneKept
  <2>2. steps'[n] = steps[n] BY <2>1, RowsRewritten
  <2> QED BY <1>1, <2>2 DEF Checkpointed, HasRow
<1>2. CASE PassedOver(n)
  <2>0. PICK i \in DOMAIN steps[n] :
          n \in Continues /\ steps[n][i].status = "failed" /\ i >= MaxAttempts[n]
    BY <1>2 DEF PassedOver
  <2> SUFFICES i \in DOMAIN steps'[n] /\ steps'[n][i] = steps[n][i]
    BY <2>0 DEF Checkpointed, PassedOver
  <2>1. i = Len(steps[n]) /\ Spent(n, i) BY <2>0 DEF LastFailure, Spent
  <2>2. CASE Quiet \/ Load \/ \E m \in Node : ScanSkip(m) \/ ScanStart(m)
    BY <2>2 DEF Quiet, Load, ScanSkip, ScanStart, rows
  <2>3. CASE Reboot
    <3>1. CASE steps' = steps BY <3>1
    <3>2. CASE steps' = AbandonRunning BY <2>0, <3>2, RecoveredRows
    <3> QED BY <2>3, <3>1, <3>2 DEF Reboot
  <2>4. ASSUME NEW m \in Node, Begin(m)
        PROVE  i \in DOMAIN steps'[n] /\ steps'[n][i] = steps[n][i]
    <3>1. PICK ok \in BOOLEAN : Begun(m, ok) BY <2>4, Begins
    <3>2. m # n BY <2>1, <3>1 DEF Begun, Room
    <3> QED BY <3>1, <3>2 DEF Begun
  <2>5. ASSUME NEW m \in Node, Settle(m)
        PROVE  i \in DOMAIN steps'[n] /\ steps'[n][i] = steps[n][i]
    <3>1. PICK s \in StepStatus, e \in StepError, ok \in BOOLEAN : Settled(m, s, e, ok)
      BY <2>5, Settles
    <3>2. m \in running /\ Spawned(m) BY <3>1 DEF Settled
    <3>3. Newest(m) = "running" BY <3>2 DEF NewestRuns
    <3>4. m # n BY <2>0, <2>1, <3>3 DEF Newest
    <3>5. steps'[n] = steps[n] BY <3>1, <3>4, SettledRows
    <3> QED BY <3>5
  <2> QED BY <2>2, <2>3, <2>4, <2>5, Kinds
<1> QED BY <1>1, <1>2 DEF Checkpointed

\* A row is only started in a slot.
LEMMA TriedInSlot ==
    ASSUME TypeOK, TypeOK', [Next]_vars, NEW n \in Node, Tried(n)'
    PROVE  Tried(n) \/ n \in running
<1>1. CASE Quiet \/ Load \/ \E m \in Node : ScanSkip(m) \/ ScanStart(m)
  BY <1>1 DEF Quiet, Load, ScanSkip, ScanStart, rows, Tried
<1>2. CASE Reboot
  <2>1. CASE steps' = steps BY <2>1 DEF Tried
  <2>2. CASE steps' = AbandonRunning
    <3>1. Len(steps'[n]) = Len(steps[n]) BY <2>2, RecoveredRows
    <3>2. steps'[n] = << >> <=> Len(steps'[n]) = 0 BY DEF TypeOK
    <3> QED BY <3>1, <3>2, RowsAre DEF Tried
  <2> QED BY <1>2, <2>1, <2>2 DEF Reboot
<1>3. ASSUME NEW m \in Node, Begin(m) PROVE Tried(n) \/ n \in running
  <2>1. PICK ok \in BOOLEAN : Begun(m, ok) BY <1>3, Begins
  <2>2. CASE m = n BY <2>1, <2>2 DEF Begun
  <2>3. CASE m # n BY <2>1, <2>3 DEF Begun, Tried
  <2> QED BY <2>2, <2>3
<1>4. ASSUME NEW m \in Node, Settle(m) PROVE Tried(n) \/ n \in running
  <2>1. PICK s \in StepStatus, e \in StepError, ok \in BOOLEAN : Settled(m, s, e, ok)
    BY <1>4, Settles
  <2>2. CASE m = n BY <2>1, <2>2 DEF Settled
  <2>3. CASE m # n
    <3>1. \A k \in Node \ {m} : steps'[k] = steps[k] /\ pc'[k] = pc[k]
                                /\ latest'[k] = latest[k]
      BY <2>1, SettledRows
    <3> QED BY <2>3, <3>1 DEF Tried
  <2> QED BY <2>2, <2>3
<1> QED BY <1>1, <1>2, <1>3, <1>4, Kinds

\* A checkpointed node has a row.
LEMMA CheckpointTried ==
    ASSUME TypeOK, NEW n \in Node, Checkpointed(n)
    PROVE  Tried(n)
BY RowsAre DEF Checkpointed, HasRow, PassedOver, Tried

\* A node that was tried is never skipped.
LEMMA WantedNotSkipped ==
    ASSUME GraphInv, NEW n \in Node, ScanSkip(n)
    PROVE  ~Tried(n)
<1> SUFFICES ASSUME Tried(n) PROVE FALSE OBVIOUS
<1>0. TypeOK BY DEF GraphInv, CompleteInv, BudgetInv
<1>1. Skips(n) /\ driver = "scan" BY DEF ScanSkip, Turn
<1>2. Wanted(n) BY DEF GraphInv, SkipInv, TriedWanted
<1>3. \A m \in Node : Checkpointed(m) => m \in completed /\ m \notin skipped
  BY <1>0, <1>1, CheckpointTried DEF GraphInv, SkipInv, DoneIsCompleted, SkippedUntried
<1>4. CASE When[n] # NoNode
           /\ (When[n] \in skipped \/ n \notin Fits \/ When[n] \notin completed)
  <2>1. When[n] \in Node BY <1>4, GraphAssumption
  <2> QED BY <1>2, <1>3, <1>4, <2>1 DEF Wanted
<1>5. CASE Deps[n] # {} /\ Deps[n] \subseteq skipped
  <2>1. Deps[n] \subseteq Node BY GraphAssumption
  <2> QED BY <1>2, <1>3, <1>5, <2>1 DEF Wanted
<1> QED BY <1>1, <1>4, <1>5 DEF Skips

\* A node that is started is wanted.
LEMMA StartWanted ==
    ASSUME GraphInv, NEW n \in Node, ScanStart(n)
    PROVE  Wanted(n)
<1>1. ~Skips(n) /\ driver = "scan" /\ Deps[n] \subseteq completed
  BY DEF ScanStart, Turn, Considered
<1>2. \A m \in completed : Checkpointed(m) \/ m \in skipped
  BY <1>1 DEF GraphInv, CompleteInv, DoneInv, CompletedIsDone, Looking
<1> QED BY <1>1, <1>2 DEF Skips, Wanted

\* Every step keeps skips and attempts apart.
LEMMA NextGraph == GraphInv /\ [Next]_vars => GraphInv'
<1> SUFFICES ASSUME GraphInv, [Next]_vars PROVE SkipInv'
  BY NextDone DEF GraphInv
<1>0. /\ TypeOK /\ TypeOK' /\ BudgetInv /\ BudgetInv' /\ SlotInv /\ Disjoint
      /\ TriedWanted /\ SkippedUntried /\ DoneIsCompleted
  BY NextDone DEF GraphInv, SkipInv, CompleteInv, BudgetInv, DoneInv
<1>1. TriedWanted'
  <2> SUFFICES ASSUME NEW n \in Node, Tried(n)' \/ n \in running' PROVE Wanted(n)'
    BY DEF TriedWanted
  <2>1. Wanted(n)
    <3>1. CASE Tried(n)'
      BY <1>0, <3>1, TriedInSlot DEF TriedWanted
    <3>2. CASE n \in running'
      <4>1. n \in running \/ ScanStart(n)
        <5>1. CASE Quiet \/ Load \/ Reboot \/ \E m \in Node : ScanSkip(m)
          BY <3>2, <5>1 DEF Quiet, Load, Reboot, Forget, ScanSkip
        <5>2. ASSUME NEW m \in Node, Begin(m) PROVE n \in running
          BY <3>2, <5>2 DEF Begin
        <5>3. ASSUME NEW m \in Node, Settle(m) PROVE n \in running
          <6>1. \E s \in StepStatus, e \in StepError, ok \in BOOLEAN : Settled(m, s, e, ok)
            BY <1>0, <5>3, Settles
          <6> QED BY <3>2, <6>1 DEF Settled
        <5>4. ASSUME NEW m \in Node, ScanStart(m) PROVE n \in running \/ ScanStart(n)
          BY <3>2, <5>4 DEF ScanStart
        <5> QED BY <1>0, <5>1, <5>2, <5>3, <5>4, Kinds
      <4> QED BY <1>0, <4>1, StartWanted DEF TriedWanted
    <3> QED BY <3>1, <3>2
  <2>2. \A m \in Node : Checkpointed(m) => Checkpointed(m)'
    BY <1>0, CheckpointKept
  <2>3. (When[n] # NoNode => When[n] \in Node) /\ Deps[n] \subseteq Node
    BY GraphAssumption
  <2> QED BY <2>1, <2>2, <2>3 DEF Wanted
<1>2. SkippedUntried'
  <2>1. CASE Load
    BY <1>0, <2>1 DEF Load, SkippedUntried
  <2>2. CASE Reboot
    BY <2>2 DEF Reboot, Forget, SkippedUntried
  <2>3. CASE ~Load /\ ~Reboot
    <3>1. (driver' = "load" => driver = "load" /\ skipped' = skipped)
          /\ completed \subseteq completed'
      <4>1. CASE Quiet BY <4>1 DEF Quiet, Drives
      <4>2. CASE \E n \in Node : ScanSkip(n) \/ ScanStart(n)
        BY <4>2 DEF ScanSkip, ScanStart, Turn, state
      <4>3. ASSUME NEW n \in Node, Begin(n)
            PROVE driver' # "load" /\ completed \subseteq completed'
        BY <1>0, <4>3, Begins DEF Begun
      <4>4. ASSUME NEW n \in Node, Settle(n)
            PROVE driver' # "load" /\ completed \subseteq completed'
        BY <1>0, <4>4, Settles DEF Settled, Means
      <4> QED BY <1>0, <2>3, <4>1, <4>2, <4>3, <4>4, Kinds
    <3>2. skipped' = skipped \/ \E n \in Node :
            ScanSkip(n) /\ skipped' = skipped \cup {n} /\ n \in completed'
            /\ steps' = steps
      <4>1. CASE Quiet BY <4>1 DEF Quiet
      <4>2. ASSUME NEW n \in Node, Settle(n) PROVE skipped' = skipped
        BY <1>0, <4>2, Settles DEF Settled
      <4> QED BY <1>0, <2>3, <4>1, <4>2, Kinds
              DEF ScanSkip, ScanStart, Begin, rows, state
    <3>3. ASSUME NEW n \in skipped' PROVE n \in completed' /\ ~Tried(n)'
      <4>1. CASE n \in skipped
        <5>1. n \in completed /\ ~Tried(n) /\ n \in Node
          BY <1>0, <4>1 DEF SkippedUntried, TypeOK
        <5>2. n \notin running BY <1>0, <5>1 DEF Disjoint
        <5> QED BY <1>0, <3>1, <5>1, <5>2, TriedInSlot
      <4>2. CASE n \notin skipped
        <5>1. PICK m \in Node : ScanSkip(m) /\ skipped' = skipped \cup {m}
                                /\ m \in completed' /\ steps' = steps
          BY <3>2, <3>3, <4>2
        <5>2. ~Tried(m) BY <5>1, WantedNotSkipped
        <5> QED BY <3>3, <4>2, <5>1, <5>2 DEF Tried
      <4> QED BY <4>1, <4>2
    <3> QED BY <1>0, <3>1, <3>3 DEF SkippedUntried
  <2> QED BY <2>1, <2>2, <2>3
<1>3. DoneIsCompleted'
  <2> SUFFICES ASSUME driver' \in {"scan", "await", "pause"}
                        \/ (driver' = "loop" /\ ~cancelled'),
                      NEW n \in Node, Checkpointed(n)'
               PROVE  n \in completed'
    BY DEF DoneIsCompleted
  <2>1. CASE Load
    BY <2>1 DEF Load, Checkpointed, HasRow, PassedOver
  <2>2. CASE Reboot
    BY <2>2 DEF Reboot
  <2>3. CASE Quiet
    <3>1. /\ driver \in {"scan", "await", "pause"} \/ (driver = "loop" /\ ~cancelled)
          /\ steps' = steps /\ completed' = completed
      BY <1>0, <2>3 DEF Quiet, Drives, Over, TypeOK
    <3> QED BY <1>0, <3>1 DEF DoneIsCompleted, Checkpointed, HasRow, PassedOver
  <2>4. CASE \E m \in Node : ScanSkip(m) \/ ScanStart(m)
    <3>1. driver = "scan" /\ steps' = steps /\ completed \subseteq completed'
      BY <2>4 DEF ScanSkip, ScanStart, Turn, rows, state
    <3> QED BY <1>0, <3>1 DEF DoneIsCompleted, Checkpointed, HasRow, PassedOver
  <2>5. ASSUME NEW m \in Node, Begin(m) PROVE n \in completed'
    <3>1. PICK ok \in BOOLEAN : Begun(m, ok) BY <1>0, <2>5, Begins
    <3>2. ok /\ driver = "await" /\ completed' = completed BY <3>1 DEF Begun
    <3>3. Checkpointed(n)
      <4>1. CASE m # n
        BY <3>1, <4>1 DEF Begun, Checkpointed, HasRow, PassedOver
      <4>2. CASE m = n
        <5>1. /\ DOMAIN steps'[n] = DOMAIN steps[n] \cup {Len(steps[n]) + 1}
              /\ \A i \in DOMAIN steps[n] : steps'[n][i] = steps[n][i]
              /\ steps'[n][Len(steps[n]) + 1] = [status |-> "running", error |-> "none"]
          BY <1>0, <3>1, <3>2, <4>2, BegunRows
        <5> QED BY <5>1 DEF Checkpointed, HasRow, PassedOver
      <4> QED BY <4>1, <4>2
    <3> QED BY <1>0, <3>2, <3>3 DEF DoneIsCompleted
  <2>6. ASSUME NEW m \in Node, Settle(m) PROVE n \in completed'
    <3>1. PICK s \in StepStatus, e \in StepError, ok \in BOOLEAN :
            Settled(m, s, e, ok) /\ Means(m, s, e)
      BY <1>0, <2>6, Settles
    <3>2. ok /\ driver = "await" /\ ~cancelled' /\ completed \subseteq completed'
          /\ failure' = failure /\ ~cancelled /\ m \in running /\ Spawned(m)
      BY <3>1 DEF Settled, Means
    <3>3. CASE m # n \/ ~(Checkpointed(n)' /\ ~Checkpointed(n))
      <4>1. Checkpointed(n)
        <5>1. CASE m # n
          <6>1. steps'[n] = steps[n] BY <1>0, <3>1, <5>1, SettledRows
          <6> QED BY <6>1 DEF Checkpointed, HasRow, PassedOver
        <5>2. CASE m = n BY <3>3, <5>2
        <5> QED BY <5>1, <5>2
      <4> QED BY <1>0, <3>2, <4>1 DEF DoneIsCompleted
    <3>4. CASE m = n /\ ~Checkpointed(n)
      <4>1. /\ DOMAIN steps'[n] = DOMAIN steps[n]
            /\ \A i \in DOMAIN steps[n] :
                 steps'[n][i] = IF ok /\ i = Len(steps[n])
                                THEN [status |-> s, error |-> e] ELSE steps[n][i]
        BY <1>0, <3>1, <3>4, SettledRows
      <4>2. attempts[n] = Len(steps[n])
        BY <1>0, <3>2 DEF BudgetInv, CountInv, Counted, Looking
      <4>3. s = "succeeded" \/ (s = "failed" /\ n \in Continues
                                /\ Len(steps[n]) >= MaxAttempts[n])
        BY <3>4, <4>1 DEF Checkpointed, HasRow, PassedOver
      <4>4. CASE s = "succeeded" BY <3>1, <3>4, <4>4 DEF Means
      <4>5. CASE s = "failed"
        <5>1. failure = "none"
          BY <1>0, <3>2 DEF SlotInv, FailureCancels
        <5>2. CarriedPast(n)
          BY <3>1, <3>2, <3>4, <4>2, <4>3, <4>5, <5>1 DEF Means
        <5> QED BY <3>1, <3>4, <4>5, <5>2 DEF Means
      <4> QED BY <4>3, <4>4, <4>5
    <3> QED BY <3>3, <3>4
  <2> QED BY <1>0, <2>1, <2>2, <2>3, <2>4, <2>5, <2>6, Kinds
<1> QED BY <1>1, <1>2, <1>3 DEF SkipInv

\* The invariant behind the contract.
LEMMA GraphInvariant == Spec => []GraphInv
<1>1. Init => GraphInv
  <2> SUFFICES ASSUME Init PROVE GraphInv OBVIOUS
  <2>1. CompleteInv
    BY InitTyped, InitSlots, InitRows, InitCounts
       DEF CompleteInv, BudgetInv, DoneInv, Init, Disjoint, CompletedIsDone,
           DrainedComplete, Looking
  <2>2. SkipInv
    BY DEF Init, SkipInv, TriedWanted, SkippedUntried, DoneIsCompleted, Tried
  <2> QED BY <2>1, <2>2 DEF GraphInv
<1>2. GraphInv /\ [Next]_vars => GraphInv' BY NextGraph
<1> QED BY <1>1, <1>2, PTL DEF Spec

-----------------------------------------------------------------------------
\* What a watcher of the rows sees.
Phase == IF status \in Unfinished THEN "open" ELSE status
Tries == [n \in Node |-> Len(steps[n])]
Done == {n \in Node : Checkpointed(n)}
Seen == <<Phase, Tries, Done, ends>>

\* A step of the watcher's.
Watched ==
    \/ \E n \in Node :
          /\ Phase = "open" /\ n \notin Done
          /\ \/ Tries' = [Tries EXCEPT ![n] = Tries[n] + 1] /\ UNCHANGED <<Phase, Done, ends>>
             \/ Tries[n] > 0 /\ Done' = Done \cup {n} /\ UNCHANGED <<Phase, Tries, ends>>
    \/ \E s \in Finished :
          /\ Phase = "open" /\ (s = "succeeded" => \A n \in Node : Tries[n] > 0 => n \in Done)
          /\ Phase' = s /\ ends' = ends + 1 /\ UNCHANGED <<Tries, Done>>

\* Between two endings the phase stands still.
LEMMA SamePhase ==
    ASSUME EndInv, EndInv', ends' = ends, status' = status \/ status' \in Unfinished
    PROVE  Phase' = Phase
<1>1. status \in Finished <=> status' \in Finished
  BY DEF EndInv, EndMatchesStatus
<1>2. status \in Unfinished \cup Finished /\ Unfinished \cap Finished = {}
  BY DEF EndInv, TypeOK, RunStatus, Unfinished, Finished
<1> QED BY <1>1, <1>2 DEF Phase

\* The rows of one node decide what is seen of it.
LEMMA SameRows ==
    ASSUME TypeOK, TypeOK',
           \A n \in Node : Len(steps'[n]) = Len(steps[n]) /\ (Checkpointed(n)' <=> Checkpointed(n))
    PROVE  Tries' = Tries /\ Done' = Done
BY DEF Tries, Done

\* An ending is the contract's: a success leaves nothing that was tried undone.
LEMMA EndSeen ==
    ASSUME EndInv, GraphInv, TypeOK', NEW s \in Finished, NEW c \in Code, Closing(s, c)
    PROVE  Watched
<1>0. TypeOK BY DEF EndInv
<1>1. Phase = "open"
  BY DEF EndInv, Driven, Closing, Phase
<1>2. Phase' = s /\ ends' = ends + 1
  BY DEF Closing, Finish, Phase, Unfinished, Finished
<1>3. Tries' = Tries /\ Done' = Done
  BY DEF Closing, Tries, Done, Checkpointed, HasRow, PassedOver
<1>4. ASSUME s = "succeeded", NEW n \in Node, Tries[n] > 0 PROVE n \in Done
  <2>1. driver = "drain" /\ ~cancelled BY <1>4 DEF Closing
  <2>2. n \in completed
    BY <2>1 DEF GraphInv, CompleteInv, DoneInv, DrainedComplete
  <2>3. Checkpointed(n) \/ n \in skipped
    BY <2>1, <2>2 DEF GraphInv, CompleteInv, DoneInv, CompletedIsDone
  <2>4. Tried(n) BY <1>0, <1>4, RowsAre DEF Tries, Tried
  <2>5. n \notin skipped BY <2>4 DEF GraphInv, SkipInv, SkippedUntried
  <2> QED BY <2>3, <2>5 DEF Done
<1> QED BY <1>1, <1>2, <1>3, <1>4 DEF Watched

\* A new row is an attempt of a node that is not done.
LEMMA BeginSeen ==
    ASSUME EndInv, GraphInv, TypeOK', NEW n \in Node, NEW ok \in BOOLEAN, Begun(n, ok),
           Phase' = Phase, ends' = ends
    PROVE  Watched \/ UNCHANGED Seen
<1>0. TypeOK /\ BudgetInv BY DEF EndInv, GraphInv, CompleteInv
<1>1. CASE ~ok
  BY <1>1 DEF Begun, Seen, Tries, Done, Checkpointed, HasRow, PassedOver
<1>2. CASE ok
  <2>1. n \in running /\ ~Spawned(n) /\ driver # "gone"
        /\ \A m \in Node \ {n} : steps'[m] = steps[m]
    BY DEF Begun
  <2>2. Phase = "open" BY <2>1 DEF EndInv, Driven, Phase
  <2>3. ~Checkpointed(n)
    BY <1>0, <2>1 DEF BudgetInv, CountInv, RowInv, DoneKept, Room, Spent, Checkpointed,
                      PassedOver
  <2>4. /\ Len(steps'[n]) = Len(steps[n]) + 1
        /\ DOMAIN steps'[n] = DOMAIN steps[n] \cup {Len(steps[n]) + 1}
        /\ \A i \in DOMAIN steps[n] : steps'[n][i] = steps[n][i]
        /\ steps'[n][Len(steps[n]) + 1] = [status |-> "running", error |-> "none"]
    BY <1>0, <1>2, BegunRows
  <2>5. ~Checkpointed(n)'
    BY <2>3, <2>4 DEF Checkpointed, HasRow, PassedOver
  <2>6. Done' = Done
    <3>1. \A m \in Node \ {n} : Checkpointed(m)' <=> Checkpointed(m)
      BY <2>1 DEF Checkpointed, HasRow, PassedOver
    <3> QED BY <2>3, <2>5, <3>1 DEF Done
  <2>7. Tries' = [Tries EXCEPT ![n] = Tries[n] + 1]
    BY <2>1, <2>4 DEF Tries
  <2>8. n \notin Done BY <2>3 DEF Done
  <2> QED BY <2>2, <2>6, <2>7, <2>8 DEF Watched
<1> QED BY <1>1, <1>2

\* A verdict checks its node, or shows nothing to the watcher.
LEMMA SettleSeen ==
    ASSUME EndInv, GraphInv, TypeOK', [Next]_vars, NEW n \in Node, NEW s \in StepStatus,
           NEW e \in StepError, NEW ok \in BOOLEAN, Settled(n, s, e, ok),
           Phase' = Phase, ends' = ends
    PROVE  Watched \/ UNCHANGED Seen
<1>0. TypeOK /\ BudgetInv BY DEF EndInv, GraphInv, CompleteInv
<1>1. /\ Len(steps'[n]) = Len(steps[n])
      /\ \A m \in Node \ {n} : steps'[m] = steps[m]
  BY <1>0, SettledRows
<1>2. Tries' = Tries BY <1>1 DEF Tries
<1>3. \A m \in Node \ {n} : Checkpointed(m)' <=> Checkpointed(m)
  BY <1>1 DEF Checkpointed, HasRow, PassedOver
<1>4. Checkpointed(n) => Checkpointed(n)' BY <1>0, CheckpointKept
<1>5. CASE Checkpointed(n) \/ ~Checkpointed(n)'
  <2>1. Done' = Done BY <1>3, <1>4, <1>5 DEF Done
  <2> QED BY <1>2, <2>1 DEF Seen
<1>6. CASE ~Checkpointed(n) /\ Checkpointed(n)'
  <2>1. Done' = Done \cup {n} /\ n \notin Done BY <1>3, <1>6 DEF Done
  <2>2. Phase = "open" BY DEF Settled, EndInv, Driven, Phase
  <2>3. Newest(n) = "running"
    BY <1>0 DEF Settled, BudgetInv, CountInv, NewestRuns
  <2>4. Tries[n] > 0
    <3>1. steps[n] # << >> BY <2>3 DEF Newest
    <3> QED BY <1>0, <3>1, RowsAre DEF Tries
  <2> QED BY <1>2, <2>1, <2>2, <2>4 DEF Watched
<1> QED BY <1>5, <1>6

\* Every step is one the watcher may see, or one he does not.
LEMMA NextSeen ==
    ASSUME EndInv, EndInv', GraphInv, [Next]_vars
    PROVE  Watched \/ UNCHANGED Seen
<1>0. TypeOK /\ TypeOK' BY DEF EndInv
<1>1. CASE \E s \in Finished, c \in Code : Closing(s, c)
  BY <1>0, <1>1, EndSeen
<1>2. CASE ends' = ends /\ (status' = status \/ status' \in Unfinished)
  <2>1. Phase' = Phase BY <1>2, SamePhase
  <2>2. CASE Quiet \/ Load \/ \E n \in Node : ScanSkip(n) \/ ScanStart(n)
    <3>1. steps' = steps BY <2>2 DEF Quiet, Load, ScanSkip, ScanStart, rows
    <3> QED BY <1>2, <2>1, <3>1 DEF Seen, Tries, Done, Checkpointed, HasRow, PassedOver
  <2>3. CASE Reboot
    <3>1. CASE steps' = steps
      BY <1>2, <2>1, <3>1 DEF Seen, Tries, Done, Checkpointed, HasRow, PassedOver
    <3>2. CASE steps' = AbandonRunning
      <4>1. \A n \in Node :
              /\ DOMAIN steps'[n] = DOMAIN steps[n] /\ Len(steps'[n]) = Len(steps[n])
              /\ \A i \in DOMAIN steps[n] :
                   steps'[n][i] = IF steps[n][i].status = "running"
                                  THEN [status |-> "abandoned", error |-> "abandoned"]
                                  ELSE steps[n][i]
        BY <1>0, <3>2, RecoveredRows
      <4>2. \A n \in Node : Checkpointed(n)' <=> Checkpointed(n)
        BY <4>1 DEF Checkpointed, HasRow, PassedOver
      <4>3. Tries' = Tries /\ Done' = Done BY <4>1, <4>2 DEF Tries, Done
      <4> QED BY <1>2, <2>1, <4>3 DEF Seen
    <3> QED BY <2>3, <3>1, <3>2 DEF Reboot
  <2>4. ASSUME NEW n \in Node, Begin(n) PROVE Watched \/ UNCHANGED Seen
    <3>1. PICK ok \in BOOLEAN : Begun(n, ok) BY <1>0, <2>4, Begins
    <3> QED BY <1>0, <1>2, <2>1, <3>1, BeginSeen
  <2>5. ASSUME NEW n \in Node, Settle(n) PROVE Watched \/ UNCHANGED Seen
    <3>1. PICK s \in StepStatus, e \in StepError, ok \in BOOLEAN : Settled(n, s, e, ok)
      BY <1>0, <2>5, Settles
    <3> QED BY <1>0, <1>2, <2>1, <3>1, SettleSeen
  <2> QED BY <1>0, <2>2, <2>3, <2>4, <2>5, Kinds
<1> QED BY <1>0, <1>1, <1>2, Ends

\* The watcher's steps are the contract's.
LEMMA WatchedContract == Watched \/ UNCHANGED Seen => [Contract!Next]_(Contract!contract)
<1> USE DEF Phase, Tries, Done, Seen, Contract!contract
<1>1. ASSUME NEW n \in Node, Phase = "open", n \notin Done,
             Tries' = [Tries EXCEPT ![n] = Tries[n] + 1], UNCHANGED <<Phase, Done, ends>>
      PROVE  Contract!Next
  BY <1>1 DEF Contract!Next, Contract!Try
<1>2. ASSUME NEW n \in Node, Phase = "open", n \notin Done, Tries[n] > 0,
             Done' = Done \cup {n}, UNCHANGED <<Phase, Tries, ends>>
      PROVE  Contract!Next
  BY <1>2 DEF Contract!Next, Contract!Check
<1>3. ASSUME NEW s \in Finished, Phase = "open",
             s = "succeeded" => \A n \in Node : Tries[n] > 0 => n \in Done,
             Phase' = s, ends' = ends + 1, UNCHANGED <<Tries, Done>>
      PROVE  Contract!Next
  BY <1>3 DEF Contract!Next, Contract!End, Contract!Outcome, Finished
<1> QED BY <1>1, <1>2, <1>3 DEF Watched

\* The database alone tells a history without replays or second endings.
THEOREM Contracted ==
    ASSUME LateWrites = FALSE
    PROVE  Spec => KeepsContract
<1>1. Init => EndInv /\ Contract!Init
  <2> SUFFICES ASSUME Init PROVE Contract!Init BY InitEnd
  <2> QED BY DEF Init, Contract!Init, Unfinished, Checkpointed, HasRow, PassedOver
<1>2. EndInv /\ [Next]_vars => EndInv' BY NextEnd
<1>3. EndInv /\ EndInv' /\ GraphInv /\ [Next]_vars => [Contract!Next]_(Contract!contract)
  BY NextSeen, WatchedContract
<1> QED BY <1>1, <1>2, <1>3, GraphInvariant, PTL DEF Spec, KeepsContract, Contract!Spec

-----------------------------------------------------------------------------
(* What the contract of its rows comes to. *)

\* A run that has ended has ended once, and if it was called succeeded, whatever
\* has a row in it is done.
EndedWell ==
    /\ ends = IF Phase = "open" THEN 0 ELSE 1
    /\ Phase = "succeeded" => \A n \in Node : Tries[n] > 0 => n \in Done
\* Nothing happens to a run that has ended.
Final == [][Phase # "open" => UNCHANGED Seen]_Seen
\* A node that is done stays done and is not tried again.
NotAgain == [][\A n \in Done : n \in Done' /\ Tries'[n] = Tries[n]]_Seen

\* What the contract allows is what a watcher may see, read the other way round.
LEMMA ContractWatched == [Contract!Next]_(Contract!contract) => Watched \/ UNCHANGED Seen
<1> SUFFICES ASSUME [Contract!Next]_(Contract!contract) PROVE Watched \/ UNCHANGED Seen
  OBVIOUS
<1> USE DEF Phase, Tries, Done, Seen, Contract!contract
<1>1. ASSUME NEW n \in Node, Contract!Try(n) PROVE Watched
  BY <1>1 DEF Contract!Try, Watched
<1>2. ASSUME NEW n \in Node, Contract!Check(n) PROVE Watched
  BY <1>2 DEF Contract!Check, Watched
<1>3. ASSUME NEW o \in Contract!Outcome, Contract!End(o) PROVE Watched
  BY <1>3 DEF Contract!End, Contract!Outcome, Finished, Watched
<1> QED BY <1>1, <1>2, <1>3 DEF Contract!Next

\* A watcher sees nothing that goes against the three.
LEMMA WatchedKeeps ==
    Watched \/ UNCHANGED Seen =>
        /\ EndedWell => EndedWell'
        /\ [Phase # "open" => UNCHANGED Seen]_Seen
        /\ [\A n \in Done : n \in Done' /\ Tries'[n] = Tries[n]]_Seen
<1> SUFFICES ASSUME Watched \/ UNCHANGED Seen
             PROVE  /\ EndedWell => EndedWell'
                    /\ Phase # "open" => UNCHANGED Seen
                    /\ \A n \in Done : n \in Done' /\ Tries'[n] = Tries[n]
  OBVIOUS
<1>1. CASE UNCHANGED Seen
  BY <1>1 DEF Seen, EndedWell
<1>2. ASSUME NEW n \in Node, Phase = "open", n \notin Done,
             Tries' = [Tries EXCEPT ![n] = Tries[n] + 1], UNCHANGED <<Phase, Done, ends>>
      PROVE  /\ EndedWell => EndedWell'
             /\ \A m \in Done : m \in Done' /\ Tries'[m] = Tries[m]
  BY <1>2 DEF EndedWell, Tries, Done
<1>3. ASSUME NEW n \in Node, Phase = "open", Done' = Done \cup {n},
             UNCHANGED <<Phase, Tries, ends>>
      PROVE  /\ EndedWell => EndedWell'
             /\ \A m \in Done : m \in Done' /\ Tries'[m] = Tries[m]
  BY <1>3 DEF EndedWell
<1>4. ASSUME NEW s \in Finished, Phase = "open",
             s = "succeeded" => \A n \in Node : Tries[n] > 0 => n \in Done,
             Phase' = s, ends' = ends + 1, UNCHANGED <<Tries, Done>>
      PROVE  /\ EndedWell => EndedWell'
             /\ \A m \in Done : m \in Done' /\ Tries'[m] = Tries[m]
  <2>1. Phase' # "open" BY <1>4 DEF Finished
  <2> QED BY <1>4, <2>1 DEF EndedWell
<1> QED BY <1>1, <1>2, <1>3, <1>4 DEF Watched

\* What the watchers of RunContract may rely on.
LEMMA Relied == KeepsContract => []EndedWell /\ Final /\ NotAgain
<1>1. Contract!Init => EndedWell
  BY DEF Contract!Init, EndedWell, Phase, Tries, Done
<1>2. [Contract!Next]_(Contract!contract) => Watched \/ UNCHANGED Seen
  BY ContractWatched
<1>3. Watched \/ UNCHANGED Seen =>
        /\ EndedWell => EndedWell'
        /\ [Phase # "open" => UNCHANGED Seen]_Seen
        /\ [\A n \in Done : n \in Done' /\ Tries'[n] = Tries[n]]_Seen
  BY WatchedKeeps
<1> QED BY <1>1, <1>2, <1>3, PTL DEF KeepsContract, Contract!Spec, Final, NotAgain

\* What a page that follows a run may rely on, over retries, gates, cancellation,
\* failed commits and restarts, as long as no status write comes late: a run ends
\* once, what ended stays as it is, and a node that is done is never tried again
\* (Scheduler::finish, load_checkpoints).
THEOREM WatchersRely ==
    ASSUME LateWrites = FALSE
    PROVE  Spec => []EndedWell /\ Final /\ NotAgain
BY Contracted, Relied, PTL
=============================================================================
