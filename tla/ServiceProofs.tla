---------------------------- MODULE ServiceProofs ----------------------------
(* What holds of the run service, the stream of a run and the drivers of the  *)
(* sidecar in every state they can reach, for any runs, kinds of token and    *)
(* callers: the theorems about Runs, RunStream and Sidecar.                   *)
EXTENDS MCServices, PumpProofs, ToolProofs, FiniteSetTheorems, SequenceTheorems, TLAPS

-----------------------------------------------------------------------------
(* Runs: no run is forgotten, and dispose waits for all of them             *)

(* A run is executed by one instance at a time, and has a stream then.       *)
Executed(r) == Live(<<r, "start">>) \/ Live(<<r, "recovery">>)

OneInstance == \A r \in Run : ~(Live(<<r, "start">>) /\ Live(<<r, "recovery">>))
LiveHasStream == \A r \in Run : Executed(r) => r \in streams

(* Unless it was suspended, a run with a stream is executed.                 *)
StreamIsLive == ~Closed => /\ \A r \in streams : Executed(r)
                           /\ stopping = {}

(* A run that is found in the table is executed, or has ended.               *)
EntryIsLive ==
    ~Closed => \A r \in Run : entry[r] # "none" /\ status[r] \in Unended => Executed(r)

(* Before its transaction there is nothing of a run.                         *)
RowFirst ==
    \A r \in Run : stage[r] \in {"none", "checked"} =>
        status[r] = "none" /\ entry[r] = "none" /\ r \notin streams \cup todo \cup taken

OneTaken == \A a, b \in taken : a = b
(* The instance of a run that is not in the table is gone, or shares the run *)
(* with another one.                                                         *)
Both(r) == {<<r, "start">>, <<r, "recovery">>} \subseteq launches

Origin == {"start", "recovery"}

EntryFinds ==
    \A r \in Run, as \in Origin :
        exec[<<r, as>>] # "none" => <<r, as>> \in launches /\ (entry[r] = as \/ Both(r))

(* Dispose waits for everything it suspended.                                *)
DrainFinds ==
    /\ phase = "draining" =>
         \A r \in Run, as \in Origin :
             exec[<<r, as>>] # "none" => <<r, as>> \in draining \cup late \/ Both(r)
    /\ phase = "drained" =>
         \A r \in Run, as \in Origin :
             exec[<<r, as>>] # "none" => <<r, as>> \in late \/ Both(r)

OneAtATime ==
    /\ OneInstance /\ LiveHasStream /\ StreamIsLive /\ OneTaken
    /\ phase # "recovering" => todo = {} /\ taken = {}

Facts == OneAtATime /\ EntryIsLive /\ RowFirst /\ EntryFinds /\ DrainFinds /\ RunsAttended
AttendInv == RunsTypeOK /\ Facts

(* Nothing has run at boot.                                                 *)
LEMMA AttendInit == RunsInit => AttendInv
<1> SUFFICES ASSUME RunsInit PROVE AttendInv OBVIOUS
<1> USE FamilyAssumption, RunsBoundAssumption DEF RunsInit
<1>1. RunsTypeOK BY DEF RunsTypeOK, Unended, Endings
<1>2. OneAtATime
  BY DEF OneAtATime, OneInstance, LiveHasStream, Executed, Live, StreamIsLive, OneTaken, Instance
<1>3. EntryIsLive /\ RowFirst /\ EntryFinds /\ DrainFinds /\ RunsAttended
  BY DEF EntryIsLive, RowFirst, EntryFinds, DrainFinds, Origin, Instance, RunsAttended, Unended
<1> QED BY <1>1, <1>2, <1>3 DEF AttendInv, Facts

(* What launch leaves in the tables has the types.                           *)
LEMMA Launching ==
    ASSUME RunsTypeOK, NEW r \in Run, NEW as \in Origin, Launched(r, as) \/ UNCHANGED tasks
    PROVE  /\ exec' \in [Instance -> {"none", "ready", "working", "settled"}]
           /\ {token', stopping', launches', late'} \subseteq SUBSET Instance
           /\ late' \subseteq launches' /\ streams' \subseteq Run
           /\ entry' \in [Run -> {"none", "start", "recovery"}]
<1>1. CASE Launched(r, as)
  <2>1. late' \in {late, late \cup {<<r, as>>}} BY <1>1 DEF Launched
  <2>2. <<r, as>> \in Instance /\ as \in {"none", "start", "recovery"} BY DEF Instance, Origin
  <2>3. late' \subseteq launches' BY <1>1, <2>1 DEF RunsTypeOK, Launched
  <2> QED BY <1>1, <2>1, <2>2, <2>3 DEF RunsTypeOK, Launched
<1>2. CASE UNCHANGED tasks BY <1>2 DEF RunsTypeOK, tasks, history
<1> QED BY <1>1, <1>2

(* The variables of Runs keep their types.                                  *)
LEMMA StartTypes ==
    ASSUME RunsTypeOK, NEW r \in Run,
           CheckClosed(r) \/ StartStep(r) \/ LaunchFails(r)
    PROVE  RunsTypeOK'
<1> USE FamilyAssumption, RunsBoundAssumption
    DEF RunsTypeOK, Reaches, Instance, Unended, Endings, start, history, tasks, boot, counts
<1>1. CASE CheckClosed(r) BY <1>1 DEF CheckClosed
<1>2. CASE InsertRow(r) BY <1>2 DEF InsertRow
<1>3. CASE LaunchRun(r)
  <2>1. Launched(r, "start") \/ UNCHANGED tasks BY <1>3 DEF LaunchRun
  <2>2. /\ stage' \in [Run -> {"none", "checked", "refused", "inserted", "launched",
                                "stranded", "before"}]
        /\ watching' \subseteq Child
        /\ UNCHANGED <<status, signals, phase, todo, taken, draining, reboots, unlaunched>>
    BY <1>3 DEF LaunchRun
  <2>3. "start" \in Origin BY DEF Origin
  <2> QED BY <2>1, <2>2, <2>3, Launching
<1>4. CASE LaunchFails(r) BY <1>4 DEF LaunchFails
<1> QED BY <1>1, <1>2, <1>3, <1>4 DEF StartStep

(* A cancel, a delegating parent, a task and the host: the types again.      *)
LEMMA CancelTypes ==
    ASSUME RunsTypeOK, NEW r \in Run, CancelReads(r) \/ CancelSignals(r)
    PROVE  RunsTypeOK'
<1> USE FamilyAssumption
    DEF RunsTypeOK, Entered, Instance, start, history, tasks, boot, counts
<1>1. CASE CancelReads(r) BY <1>1 DEF CancelReads
<1>2. CASE CancelSignals(r) BY <1>2 DEF CancelSignals
<1> QED BY <1>1, <1>2

LEMMA DelegateTypes ==
    ASSUME RunsTypeOK, NEW c \in Child, Delegate(c)
    PROVE  RunsTypeOK'
BY FamilyAssumption DEF Delegate, HearDone, HearCancel, Signalled, RunsTypeOK, Entered, Instance,
   start, history, tasks, boot, counts

LEMMA TaskTypes ==
    ASSUME RunsTypeOK, NEW i \in Instance,
           EndStep(i) \/ NodeFails(i) \/ FinishRun(i, "succeeded")
    PROVE  RunsTypeOK'
<1> USE DEF RunsTypeOK, Moves, Ends, Instance, Unended, Endings, start, history, tasks, boot, counts
<1>1. CASE BeginRun(i) BY <1>1 DEF BeginRun
<1>2. CASE Suspended(i) \/ LeaveTable(i) \/ NodeFails(i)
  BY <1>2 DEF Suspended, LeaveTable, NodeFails
<1>3. ASSUME NEW as \in Endings, FinishRun(i, as) PROVE RunsTypeOK'
  <2>1. i[1] \in Run BY Zenon
  <2>2. /\ status' = [status EXCEPT ![i[1]] = as] /\ streams' = streams \ {i[1]}
        /\ exec' = [exec EXCEPT ![i] = "settled"]
    BY <1>3 DEF FinishRun
  <2>3. UNCHANGED <<stage, watching, token, stopping, entry, launches, late, signals, phase,
                    todo, taken, draining, reboots, unlaunched>>
    BY <1>3 DEF FinishRun
  <2>4. /\ status' \in [Run -> {"none"} \cup Unended \cup Endings] /\ streams' \subseteq Run
        /\ exec' \in [Instance -> {"none", "ready", "working", "settled"}]
    BY <2>1, <2>2
  <2> QED BY <2>3, <2>4
<1>4. {"failed", "cancelled", "succeeded"} \subseteq Endings BY DEF Endings
<1> QED BY <1>1, <1>2, <1>3, <1>4 DEF EndStep

LEMMA HostTypes ==
    ASSUME RunsTypeOK,
           \/ \E r \in Run : RecoverLooks(r) \/ RecoverRun(r)
           \/ CloseRuns \/ SuspendAll \/ Disposed \/ Reboot \/ RecoverReads \/ Recovered
           \/ UNCHANGED runVars
    PROVE  RunsTypeOK'
<1> USE RunsBoundAssumption
    DEF RunsTypeOK, Entered, Instance, Unended, Endings, start, history, tasks, boot, counts
<1>1. CASE \E r \in Run : RecoverLooks(r) BY <1>1 DEF RecoverLooks
<1>2. CASE \E r \in Run : RecoverRun(r) BY <1>2 DEF RecoverRun, Launched
<1>3. CASE SuspendAll BY <1>3 DEF SuspendAll
<1>4. CASE Reboot BY <1>4 DEF Reboot
<1>5. CASE CloseRuns \/ Disposed \/ RecoverReads \/ Recovered \/ UNCHANGED runVars
  BY <1>5 DEF CloseRuns, Disposed, RecoverReads, UnfinishedRuns, Recovered, runVars
<1> QED BY <1>1, <1>2, <1>3, <1>4, <1>5

(* Cancelling changes tokens, of which the invariant says nothing.           *)
LEMMA Untouched ==
    ASSUME Facts, UNCHANGED <<status, stage, exec, stopping, entry, streams, history, boot>>
    PROVE  Facts'
BY DEF Facts, OneAtATime, OneInstance, LiveHasStream, Executed, Live, StreamIsLive, OneTaken, Closed,
   EntryIsLive, RowFirst, EntryFinds, Both, DrainFinds, Origin, RunsAttended,
   history, boot

(* start_with up to the launch, and a start that fails.                      *)
LEMMA Starting ==
    ASSUME AttendInv, NEW r \in Run, CheckClosed(r) \/ InsertRow(r) \/ LaunchFails(r)
    PROVE  Facts'
<1> USE DEF AttendInv, Facts, Closed
<1>1. /\ UNCHANGED <<exec, stopping, entry, streams, history, boot>>
      /\ \A q \in Run \ {r} : stage'[q] = stage[q] /\ status'[q] = status[q]
      /\ stage[r] \in {"none", "checked"} => entry[r] = "none" /\ r \notin todo \cup taken \cup streams
  BY DEF CheckClosed, InsertRow, LaunchFails, Reaches, tasks, RunsTypeOK, RowFirst
<1>2. \/ status' = status /\ stage[r] = "none"
      \/ status' = status /\ stage[r] = "inserted" /\ stage'[r] = "stranded"
      \/ stage[r] = "checked" /\ stage'[r] = "inserted"
  BY DEF CheckClosed, InsertRow, LaunchFails, Reaches, RunsTypeOK
<1>3. OneAtATime' /\ EntryFinds' /\ DrainFinds'
  BY <1>1 DEF OneAtATime, OneInstance, LiveHasStream, Executed, Live, StreamIsLive, OneTaken,
     EntryFinds, DrainFinds, Both, history, boot
<1>4. EntryIsLive' /\ RowFirst' /\ RunsAttended'
  BY <1>1, <1>2 DEF EntryIsLive, RowFirst, RunsAttended, Executed, Live, Unended, boot
<1> QED BY <1>3, <1>4

(* launch, for a run without a stream: it has no other instance at work.     *)
LEMMA LaunchKeeps ==
    ASSUME AttendInv, NEW r \in Run, NEW as \in Origin, Launched(r, as), r \notin streams,
           stage[r] \notin {"none", "checked"}, taken' = {} \/ taken' = taken,
           stage'[r] \notin {"none", "checked"}, UNCHANGED <<status, phase, todo, draining>>,
           \A q \in Run \ {r} : stage'[q] = stage[q] /\ (q \in taken => q \in taken')
    PROVE  Facts'
<1> USE DEF AttendInv, Facts, Closed
<1>1. /\ \A q \in Run \ {r} : Executed(q)' <=> Executed(q)
      /\ \A q \in Run \ {r} : entry'[q] = entry[q]
      /\ Executed(r)' /\ streams' = streams \cup {r} /\ stopping' = stopping
  BY DEF Launched, Executed, Live, RunsTypeOK, Origin, Instance
<1>2. OneAtATime'
  <2>1. ~Executed(r) BY DEF OneAtATime, LiveHasStream
  <2>2. OneInstance'
    BY <2>1 DEF OneAtATime, OneInstance, Launched, Executed, Live, RunsTypeOK, Origin, Instance
  <2> QED BY <1>1, <2>2 DEF OneAtATime, LiveHasStream, StreamIsLive, OneTaken, RunsTypeOK
<1>3. EntryIsLive' /\ RowFirst' /\ RunsAttended'
  BY <1>1 DEF EntryIsLive, RowFirst, RunsAttended, Executed
<1>4. EntryFinds' /\ DrainFinds'
  <2>1. /\ exec' = [exec EXCEPT ![<<r, as>>] = "ready"] /\ entry' = [entry EXCEPT ![r] = as]
        /\ launches' = launches \cup {<<r, as>>}
        /\ late' = IF phase \in {"draining", "drained"} THEN late \cup {<<r, as>>} ELSE late
    BY DEF Launched
  <2>2. ASSUME NEW q \in Run, NEW a \in Origin, exec'[<<q, a>>] # "none"
        PROVE  \/ q = r /\ a = as
               \/ q = r /\ a # as /\ exec[<<q, a>>] # "none" /\ <<q, a>> \in launches
               \/ q # r /\ exec[<<q, a>>] # "none"
    BY <2>1, <2>2 DEF RunsTypeOK, Instance, Origin, EntryFinds
  <2>3. ASSUME NEW q \in Run, NEW a \in Origin, exec'[<<q, a>>] # "none"
        PROVE  <<q, a>> \in launches' /\ (entry'[q] = a \/ Both(q)')
    <3>1. CASE q = r /\ a = as BY <2>1, <3>1 DEF RunsTypeOK
    <3>2. CASE q = r /\ a # as
      <4>1. <<q, a>> \in launches BY <2>2, <2>3, <3>2
      <4>2. {<<r, as>>, <<r, a>>} \subseteq launches' BY <2>1, <3>2, <4>1
      <4> QED BY <3>2, <4>2 DEF Both, Origin
    <3>3. CASE q # r BY <1>1, <2>1, <2>2, <2>3, <3>3 DEF EntryFinds, Both
    <3> QED BY <3>1, <3>2, <3>3
  <2>4. ASSUME NEW q \in Run, NEW a \in Origin, exec'[<<q, a>>] # "none",
               phase \in {"draining", "drained"}
        PROVE  \/ <<q, a>> \in late' \/ Both(q)'
               \/ phase = "draining" /\ <<q, a>> \in draining
    <3>1. CASE q = r /\ a = as BY <2>1, <2>4, <3>1
    <3>2. CASE q = r /\ a # as BY <2>1, <2>2, <2>4, <3>2 DEF Both, Origin
    <3>3. CASE q # r BY <2>1, <2>2, <2>4, <3>3 DEF DrainFinds, Both
    <3> QED BY <3>1, <3>2, <3>3
  <2> QED BY <2>3, <2>4 DEF EntryFinds, DrainFinds
<1> QED BY <1>2, <1>3, <1>4

(* open_stream and launch; a refused stream has an instance at work.        *)
LEMMA LaunchingRun == ASSUME AttendInv, NEW r \in Run, LaunchRun(r) PROVE Facts'
<1>1. CASE r \notin streams
  <2>1. /\ Launched(r, "start") /\ stage[r] = "inserted"
        /\ stage' = [stage EXCEPT ![r] = "launched"]
        /\ UNCHANGED <<status, phase, todo, taken, draining>>
    BY <1>1 DEF LaunchRun, Reaches, boot
  <2>2. "start" \in Origin BY DEF Origin
  <2> QED BY <1>1, <2>1, <2>2, LaunchKeeps DEF AttendInv, RunsTypeOK
<1>2. CASE r \in streams
  <2> USE DEF AttendInv, Facts, Closed
  <2>1. /\ UNCHANGED <<status, exec, stopping, entry, streams, history, boot>>
        /\ stage' = [stage EXCEPT ![r] = "refused"] /\ stage[r] = "inserted"
    BY <1>2 DEF LaunchRun, Reaches, tasks
  <2>2. OneAtATime' /\ EntryFinds' /\ DrainFinds' /\ EntryIsLive'
    BY <2>1 DEF OneAtATime, OneInstance, LiveHasStream, Executed, Live, StreamIsLive, OneTaken,
       EntryFinds, DrainFinds, Both, EntryIsLive, history, boot
  <2>3. RowFirst' BY <2>1 DEF RowFirst, RunsTypeOK, boot
  <2>4. RunsAttended'
    BY <1>2, <2>1 DEF RunsAttended, RunsTypeOK, OneAtATime, StreamIsLive, Executed, Live, boot
  <2> QED BY <2>2, <2>3, <2>4
<1> QED BY <1>1, <1>2

(* An instance at work has the stream, and has no other beside it.          *)
LEMMA Located ==
    ASSUME AttendInv, NEW r \in Run, NEW as \in Origin, Live(<<r, as>>)
    PROVE  /\ r \in streams /\ stage[r] \notin {"none", "checked"}
           /\ \A k \in Origin : Live(<<r, k>>) => k = as
BY DEF AttendInv, Facts, OneAtATime, OneInstance, LiveHasStream, Executed, Origin, RowFirst

(* The task of a run: it begins, ends, and leaves the table.                *)
LEMMA Executing ==
    ASSUME AttendInv, NEW r \in Run, NEW k \in Origin, NEW as \in Endings,
           \/ BeginRun(<<r, k>>) \/ FinishRun(<<r, k>>, as)
           \/ Suspended(<<r, k>>) \/ LeaveTable(<<r, k>>)
    PROVE  Facts'
<1> USE FamilyAssumption
    DEF AttendInv, RunsTypeOK, Facts, start, history, tasks, boot, counts, Instance, Origin
<1>1. CASE BeginRun(<<r, k>>)
  <2>1. /\ r \in streams /\ stage[r] \notin {"none", "checked"}
        /\ \A q \in Run : Executed(q)' <=> Executed(q)
    BY <1>1, Located DEF BeginRun, Moves, Live, Executed
  <2>2. Executed(r) BY <1>1 DEF BeginRun, Moves, Live, Executed
  <2>3. /\ UNCHANGED <<stage, stopping, entry, streams, history, boot>>
        /\ \A q \in Run \ {r} : status'[q] = status[q]
        /\ \A i \in Instance : exec'[i] # "none" => exec[i] # "none"
    BY <1>1 DEF BeginRun, Moves, Ends
  <2>4. OneAtATime'
    <3>1. OneInstance' BY <1>1 DEF BeginRun, Moves, OneInstance, OneAtATime, Live
    <3> QED BY <2>1, <2>3, <3>1 DEF OneAtATime, LiveHasStream, StreamIsLive, OneTaken, Closed
  <2>5. EntryIsLive' /\ RowFirst'
    BY <2>1, <2>2, <2>3 DEF EntryIsLive, RowFirst, Closed
  <2>6. EntryFinds' /\ DrainFinds'
    BY <2>3 DEF EntryFinds, DrainFinds, Both
  <2>7. RunsAttended'
    BY <2>1, <2>2, <2>3 DEF RunsAttended, Closed, Executed
  <2> QED BY <2>4, <2>5, <2>6, <2>7
<1>2. CASE FinishRun(<<r, k>>, as)
  <2>1. /\ stage[r] \notin {"none", "checked"} /\ ~Executed(r)' /\ status'[r] \notin Unended
        /\ \A q \in Run \ {r} : Executed(q)' <=> Executed(q)
    BY <1>2, Located DEF FinishRun, Moves, Ends, Live, Executed, Endings, Unended
  <2>2. /\ UNCHANGED <<stage, stopping, entry, history, boot>> /\ streams' = streams \ {r}
        /\ \A q \in Run \ {r} : status'[q] = status[q]
        /\ \A i \in Instance : exec'[i] # "none" => exec[i] # "none"
    BY <1>2 DEF FinishRun, Moves, Ends
  <2>3. OneAtATime'
    <3>1. OneInstance' BY <1>2 DEF FinishRun, Moves, OneInstance, OneAtATime, Live
    <3> QED BY <2>1, <2>2, <3>1 DEF OneAtATime, LiveHasStream, StreamIsLive, OneTaken, Closed
  <2>4. EntryIsLive' /\ RowFirst'
    BY <2>1, <2>2 DEF EntryIsLive, RowFirst, Closed
  <2>5. EntryFinds' /\ DrainFinds'
    BY <2>2 DEF EntryFinds, DrainFinds, Both
  <2>6. RunsAttended'
    BY <2>1, <2>2 DEF RunsAttended, Closed, Executed
  <2> QED BY <2>3, <2>4, <2>5, <2>6
<1>3. CASE Suspended(<<r, k>>)
  <2>1. Closed
    BY <1>3 DEF Suspended, OneAtATime, StreamIsLive
  <2>2. /\ UNCHANGED <<status, stage, stopping, entry, streams, history, boot>>
        /\ \A q \in Run : Executed(q)' => Executed(q)
        /\ \A i \in Instance : exec'[i] # "none" => exec[i] # "none"
    BY <1>3 DEF Suspended, Moves, Executed, Live
  <2>3. OneAtATime'
    <3>1. OneInstance' BY <1>3 DEF Suspended, Moves, OneInstance, OneAtATime, Live
    <3> QED BY <2>1, <2>2, <3>1 DEF OneAtATime, LiveHasStream, StreamIsLive, OneTaken, Closed
  <2> QED BY <2>1, <2>2, <2>3
          DEF EntryIsLive, RowFirst, EntryFinds, DrainFinds, Both, RunsAttended, Closed
<1>4. CASE LeaveTable(<<r, k>>)
  <2>1. /\ UNCHANGED <<status, stage, stopping, streams, history, boot>>
        /\ \A q \in Run : Executed(q)' <=> Executed(q)
        /\ entry' = [entry EXCEPT ![r] = "none"]
    BY <1>4 DEF LeaveTable, Moves, Executed, Live
  <2>2. OneAtATime'
    <3>1. OneInstance' BY <1>4 DEF LeaveTable, Moves, OneInstance, OneAtATime, Live
    <3> QED BY <2>1, <3>1 DEF OneAtATime, LiveHasStream, StreamIsLive, OneTaken, Closed
  <2>3. EntryIsLive' /\ RowFirst' /\ RunsAttended'
    BY <2>1 DEF EntryIsLive, RowFirst, RunsAttended, Closed, Executed
  <2>4. EntryFinds' /\ DrainFinds'
    <3>1. /\ \A i \in Instance : exec'[i] # "none" => exec[i] # "none" /\ i # <<r, k>>
          /\ exec[<<r, k>>] # "none"
      BY <1>4 DEF LeaveTable, Moves
    <3>2. ASSUME NEW a \in Origin, exec'[<<r, a>>] # "none" PROVE Both(r)'
      <4>1. a # k /\ <<r, a>> \in launches /\ <<r, k>> \in launches
        BY <3>1, <3>2 DEF EntryFinds
      <4> QED BY <2>1, <4>1 DEF Both, history
    <3> QED BY <2>1, <3>1, <3>2 DEF EntryFinds, DrainFinds, Both
  <2> QED BY <2>2, <2>3, <2>4
<1> QED BY <1>1, <1>2, <1>3, <1>4

(* dispose, and the end of the process.                                      *)
LEMMA Disposing == ASSUME AttendInv, CloseRuns \/ SuspendAll \/ Disposed \/ Reboot PROVE Facts'
<1> USE DEF AttendInv, Facts, Closed
<1>1. CASE CloseRuns \/ Disposed
  <2>1. /\ UNCHANGED <<status, stage, exec, stopping, entry, streams, history, todo, taken, draining>>
        /\ \/ phase = "up" /\ phase' = "closed"
           \/ phase = "draining" /\ phase' = "drained" /\ \A i \in draining : exec[i] = "none"
    BY <1>1 DEF CloseRuns, Disposed, Drained, start, tasks
  <2>2. OneAtATime' /\ EntryIsLive' /\ RowFirst' /\ EntryFinds' /\ RunsAttended'
    BY <2>1 DEF OneAtATime, OneInstance, LiveHasStream, Executed, Live, StreamIsLive, OneTaken,
       EntryIsLive, RowFirst, EntryFinds, Both, RunsAttended, history
  <2>3. DrainFinds' BY <2>1 DEF DrainFinds, Both, history
  <2> QED BY <2>2, <2>3
<1>2. CASE SuspendAll
  <2>1. /\ UNCHANGED <<status, stage, exec, entry, streams, history, todo, taken>>
        /\ phase = "closed" /\ phase' = "draining" /\ draining' = UNION {Entered(r) : r \in Run}
    BY <1>2 DEF SuspendAll, start
  <2>2. OneAtATime' /\ EntryIsLive' /\ RowFirst' /\ EntryFinds' /\ RunsAttended'
    BY <2>1 DEF OneAtATime, OneInstance, LiveHasStream, Executed, Live, StreamIsLive, OneTaken,
       EntryIsLive, RowFirst, EntryFinds, Both, RunsAttended, history
  <2>3. ASSUME NEW r \in Run, NEW as \in Origin, exec[<<r, as>>] # "none"
        PROVE  <<r, as>> \in draining' \/ Both(r)
    <3>1. entry[r] = as => <<r, as>> \in Entered(r) BY DEF Entered, Origin
    <3> QED BY <2>1, <2>3, <3>1 DEF EntryFinds
  <2>4. DrainFinds' BY <2>1, <2>3 DEF DrainFinds, Both, history
  <2> QED BY <2>2, <2>4
<1>3. CASE Reboot
  <2>1. /\ phase' = "boot" /\ todo' = {} /\ taken' = {} /\ stopping' = {} /\ streams' = {}
        /\ exec' = [i \in Instance |-> "none"] /\ entry' = [r \in Run |-> "none"]
        /\ status' = status
        /\ stage' = [r \in Run |-> IF status[r] = "none" THEN "none" ELSE "before"]
    BY <1>3 DEF Reboot
  <2>2. \A r \in Run : <<r, "start">> \in Instance /\ <<r, "recovery">> \in Instance
    BY DEF Instance
  <2>3. OneAtATime' /\ EntryIsLive' /\ RowFirst' /\ RunsAttended'
    BY <2>1, <2>2 DEF OneAtATime, OneInstance, LiveHasStream, Executed, Live, StreamIsLive,
       OneTaken, EntryIsLive, RowFirst, RunsAttended
  <2>4. EntryFinds' /\ DrainFinds'
    BY <2>1, <2>2 DEF EntryFinds, DrainFinds, Origin
  <2> QED BY <2>3, <2>4
<1> QED BY <1>1, <1>2, <1>3

(* recover reads the table, and is done with it.                             *)
LEMMA Booting == ASSUME AttendInv, RecoverReads \/ Recovered PROVE Facts'
<1> USE DEF AttendInv, Facts, Closed
<1>1. /\ UNCHANGED <<status, stage, exec, stopping, entry, streams, history, taken, draining>>
      /\ \/ phase = "boot" /\ phase' = "recovering" /\ todo' = UnfinishedRuns
         \/ phase = "recovering" /\ phase' = "up" /\ todo = {} /\ taken = {} /\ todo' = todo
  BY DEF RecoverReads, Recovered, start, tasks
<1>2. OneAtATime' /\ EntryIsLive' /\ EntryFinds' /\ DrainFinds'
  BY <1>1 DEF OneAtATime, OneInstance, LiveHasStream, Executed, Live, StreamIsLive, OneTaken,
     EntryIsLive, EntryFinds, DrainFinds, Both, history
<1>3. RowFirst' /\ RunsAttended'
  BY <1>1 DEF RowFirst, RunsAttended, UnfinishedRuns, Unended, Live
<1> QED BY <1>2, <1>3

(* recover takes a run that is not in the table and deals with it.           *)
LEMMA Recovering ==
    ASSUME AttendInv, NEW r \in Run, RecoverLooks(r) \/ RecoverRun(r)
    PROVE  Facts'
<1> USE DEF AttendInv, Facts, Closed
<1>1. phase = "recovering" /\ stage[r] \notin {"none", "checked"}
  BY DEF RecoverLooks, RecoverRun, OneAtATime, RowFirst
<1>2. CASE RecoverLooks(r)
  <2>1. /\ UNCHANGED <<status, stage, exec, stopping, entry, streams, history, phase, draining>>
        /\ todo' = todo \ {r} /\ taken = {} /\ taken' = IF entry[r] = "none" THEN {r} ELSE {}
    BY <1>2 DEF RecoverLooks, start, tasks
  <2>2. OneAtATime' /\ EntryIsLive' /\ EntryFinds' /\ DrainFinds'
    BY <1>1, <2>1 DEF OneAtATime, OneInstance, LiveHasStream, Executed, Live, StreamIsLive,
       OneTaken, EntryIsLive, EntryFinds, DrainFinds, Both, history
  <2>3. RowFirst' BY <1>1, <2>1 DEF RowFirst
  <2>4. RunsAttended'
    BY <1>1, <2>1 DEF RunsAttended, EntryIsLive, Executed, Live
  <2> QED BY <2>2, <2>3, <2>4
<1>3. CASE RecoverRun(r) /\ Launched(r, "recovery") /\ status' = status /\ r \notin streams
  <2>1. /\ UNCHANGED <<status, stage, phase, todo, draining>> /\ taken' = {} /\ taken = {r}
    BY <1>3 DEF RecoverRun, start, OneAtATime, OneTaken
  <2>2. "recovery" \in Origin BY DEF Origin
  <2> QED BY <1>1, <1>3, <2>1, <2>2, LaunchKeeps
<1>4. CASE /\ RecoverRun(r)
           /\ \/ r \in streams /\ status' = status
              \/ \E as \in {"failed", "interrupted"} : status' = [status EXCEPT ![r] = as]
           /\ UNCHANGED tasks
  <2>1. /\ UNCHANGED <<stage, exec, stopping, entry, streams, history, phase, todo, draining>>
        /\ taken' = {} /\ taken = {r}
        /\ \A q \in Run \ {r} : status'[q] = status[q]
        /\ (status'[r] = status[r] /\ Executed(r)) \/ status'[r] \notin Unended
    BY <1>1, <1>4 DEF RecoverRun, start, tasks, OneAtATime, OneTaken, StreamIsLive, RunsTypeOK, Unended
  <2>2. OneAtATime' /\ EntryFinds' /\ DrainFinds'
    BY <1>1, <2>1 DEF OneAtATime, OneInstance, LiveHasStream, Executed, Live, StreamIsLive,
       OneTaken, EntryFinds, DrainFinds, Both, history
  <2>3. EntryIsLive' /\ RowFirst' /\ RunsAttended'
    BY <1>1, <2>1 DEF EntryIsLive, RowFirst, RunsAttended, Executed, Live
  <2> QED BY <2>2, <2>3
<1> QED BY <1>2, <1>3, <1>4 DEF RecoverRun

(* Every step of Runs keeps the types.                                      *)
LEMMA TypesKept == RunsTypeOK /\ [RunsNext]_runVars => RunsTypeOK'
<1> SUFFICES ASSUME RunsTypeOK, [RunsNext]_runVars PROVE RunsTypeOK' OBVIOUS
<1>1. ASSUME NEW r \in Run, CheckClosed(r) \/ StartStep(r) \/ LaunchFails(r) PROVE RunsTypeOK'
  BY <1>1, StartTypes
<1>2. ASSUME NEW r \in Run, CancelReads(r) \/ CancelSignals(r) PROVE RunsTypeOK'
  BY <1>2, CancelTypes
<1>3. ASSUME NEW c \in Child, Delegate(c) PROVE RunsTypeOK'
  BY <1>3, DelegateTypes
<1>4. ASSUME NEW i \in Instance, EndStep(i) \/ NodeFails(i) \/ FinishRun(i, "succeeded")
      PROVE  RunsTypeOK'
  BY <1>4, TaskTypes
<1> QED BY <1>1, <1>2, <1>3, <1>4, HostTypes DEF RunsNext, Off

(* ... and the invariant.                                                   *)
LEMMA AttendStep == AttendInv /\ [RunsNext]_runVars => AttendInv'
<1> SUFFICES ASSUME AttendInv, [RunsNext]_runVars PROVE Facts'
  BY TypesKept DEF AttendInv
<1>1. ASSUME NEW r \in Run, CheckClosed(r) \/ StartStep(r) \/ LaunchFails(r) PROVE Facts'
  BY <1>1, Starting, LaunchingRun DEF StartStep
<1>2. ASSUME NEW i \in Instance, EndStep(i) \/ FinishRun(i, "succeeded") PROVE Facts'
  <2>1. PICK r \in Run, k \in Origin : i = <<r, k>> BY DEF Instance, Origin
  <2>2. BeginRun(i) \/ Suspended(i) \/ LeaveTable(i) \/ \E as \in Endings : FinishRun(i, as)
    BY <1>2 DEF EndStep, Endings
  <2>3. "failed" \in Endings BY DEF Endings
  <2> QED BY <2>1, <2>2, <2>3, Executing
<1>3. CASE CloseRuns \/ SuspendAll \/ Disposed \/ Reboot BY <1>3, Disposing
<1>4. ASSUME NEW r \in Run, RecoverLooks(r) \/ RecoverRun(r) PROVE Facts' BY <1>4, Recovering
<1>5. CASE RecoverReads \/ Recovered BY <1>5, Booting
<1>6. CASE \/ \E r \in Run : CancelReads(r) \/ CancelSignals(r)
           \/ \E i \in Instance : NodeFails(i)
           \/ \E c \in Child : Delegate(c)
           \/ UNCHANGED runVars
  <2>1. UNCHANGED <<status, stage, exec, stopping, entry, streams, history, boot>>
    BY <1>6 DEF CancelReads, CancelSignals, NodeFails, Delegate, HearDone, HearCancel,
       runVars, start, tasks
  <2> QED BY <2>1, Untouched DEF AttendInv
<1> QED BY <1>1, <1>2, <1>3, <1>4, <1>5, <1>6 DEF RunsNext, Off

(* The tables of runs keep their types (start_with, launch, recover).        *)
THEOREM RunsTyped == RunsSpec => []RunsTypeOK
<1>1. AttendInv => RunsTypeOK BY DEF AttendInv
<1> QED BY AttendInit, AttendStep, <1>1, PTL DEF RunsSpec

(* No unfinished run is forgotten.                                           *)
THEOREM Attended == RunsSpec => []RunsAttended
<1>1. AttendInv => RunsAttended BY DEF AttendInv, Facts
<1> QED BY AttendInit, AttendStep, <1>1, PTL DEF RunsSpec

(* dispose returns when nothing is at work but what it could not see.       *)
THEOREM Drains == RunsSpec => []DisposeDrains
<1>1. AttendInv => DisposeDrains
  BY DEF AttendInv, Facts, DrainFinds, DisposeDrains, Both, Instance, Origin
<1> QED BY AttendInit, AttendStep, <1>1, PTL DEF RunsSpec

-----------------------------------------------------------------------------
(* RunStream: the record is the stream, across flushes, faults and crashes  *)

EndOf(rows) == IF rows = << >> THEN 0 ELSE rows[Len(rows)].seq + 1

(* The rows are the events s, in order, with nothing but tokens merged.      *)
Records(rows, s) ==
    \A i \in 1 .. Len(rows) :
        /\ rows[i].first = IF i = 1 THEN 0 ELSE rows[i - 1].seq + 1
        /\ rows[i].first <= rows[i].seq
        /\ \A j \in 1 .. Len(rows) : i < j => rows[i].seq < rows[j].first
        /\ rows[i].kind \notin TokenKind => rows[i].seq = rows[i].first
        /\ \A n \in rows[i].first .. rows[i].seq : s[n + 1] = rows[i].kind

HasEnd(rows) == \E i \in DOMAIN rows : rows[i].kind = "end"

OpenInv ==
    /\ Records(table \o buffer, sent) /\ next = EndOf(table \o buffer)
    /\ \A i \in DOMAIN buffer : buffer[i].kind \in TokenKind

(* What is not stored is a tail of tokens of one kind.                       *)
TailLost(rows, s) ==
    \E kind \in TokenKind : \A i \in DOMAIN s : i > EndOf(rows) => s[i] = kind

ClosedInv ==
    /\ buffer = << >> /\ Records(table, sent) /\ EndOf(table) <= next
    /\ TailLost(table, sent)

EndInv ==
    (\E i \in DOMAIN sent : sent[i] = "end") => HasEnd(table) /\ (alive => streamClosed)

StreamInv ==
    /\ StreamTypeOK /\ Len(sent) = next
    /\ IF alive THEN OpenInv ELSE ClosedInv
    /\ EndInv

-----------------------------------------------------------------------------
(* Rows *)

(* What the rows of a record are made of.                                   *)
LEMMA RowTypes ==
    ASSUME NEW rows \in Seq(Row), NEW i \in 1 .. Len(rows)
    PROVE  rows[i].first \in Nat /\ rows[i].seq \in Nat /\ rows[i].kind \in Kind
<1>1. rows[i] \in Row BY ElementOfSeq
<1> QED BY <1>1 DEF Row

(* The offset at which the stored rows end is a number.                     *)
LEMMA EndInNat == ASSUME NEW rows \in Seq(Row) PROVE EndOf(rows) \in Nat
<1>1. rows # << >> => Len(rows) \in 1 .. Len(rows) OBVIOUS
<1> QED BY <1>1, RowTypes DEF EndOf

(* No row goes beyond the end of the record.                                *)
LEMMA Bounded ==
    ASSUME NEW rows \in Seq(Row), NEW s, Records(rows, s), NEW i \in 1 .. Len(rows)
    PROVE  rows[i].seq < EndOf(rows)
<1>1. rows # << >> /\ Len(rows) \in 1 .. Len(rows) OBVIOUS
<1>2. /\ rows[i].seq \in Nat /\ rows[Len(rows)].seq \in Nat /\ rows[Len(rows)].first \in Nat
  BY <1>1, RowTypes
<1> QED BY <1>1, <1>2 DEF EndOf, Records

(* A record of s is a record of all that continues s.                       *)
LEMMA Extending ==
    ASSUME NEW rows \in Seq(Row), NEW s, NEW t, Records(rows, s),
           \A n \in 1 .. EndOf(rows) : t[n] = s[n]
    PROVE  Records(rows, t)
<1>1. ASSUME NEW i \in 1 .. Len(rows), NEW n \in rows[i].first .. rows[i].seq
      PROVE  t[n + 1] = rows[i].kind
  <2>1. rows[i].seq < EndOf(rows) BY Bounded
  <2>2. rows[i].first \in Nat /\ rows[i].seq \in Nat BY RowTypes
  <2>3. n + 1 \in 1 .. EndOf(rows) BY <2>1, <2>2, EndInNat
  <2> QED BY <2>3 DEF Records
<1> QED BY <1>1 DEF Records

(* Events that s has from number m on, one row each.                         *)
Follow(events, m, s) ==
    \A i \in 1 .. Len(events) :
        /\ events[i].first = m + i - 1 /\ events[i].seq = m + i - 1
        /\ s[m + i] = events[i].kind

(* Events that follow a record extend it.                                   *)
LEMMA Appending ==
    ASSUME NEW rows \in Seq(Row), NEW s, Records(rows, s), NEW events \in Seq(Row),
           Follow(events, EndOf(rows), s)
    PROVE  /\ rows \o events \in Seq(Row) /\ Records(rows \o events, s)
           /\ EndOf(rows \o events) = EndOf(rows) + Len(events)
<1> PICK m \in Nat : m = EndOf(rows) BY EndInNat
<1> DEFINE all == rows \o events
<1>1. /\ all \in Seq(Row) /\ Len(all) = Len(rows) + Len(events)
      /\ \A i \in 1 .. Len(all) : all[i] = IF i <= Len(rows) THEN rows[i] ELSE events[i - Len(rows)]
  BY ConcatProperties
<1> HIDE DEF all
<1>2. Len(rows) \in Nat /\ Len(events) \in Nat OBVIOUS
<1>3. \A i \in 1 .. Len(rows) : all[i] = rows[i] /\ rows[i].seq < m
  BY <1>1, <1>2, Bounded
<1>4. ASSUME NEW i \in 1 .. Len(all), i > Len(rows)
      PROVE  /\ i - Len(rows) \in 1 .. Len(events) /\ all[i] = events[i - Len(rows)]
             /\ all[i].first = m + (i - Len(rows)) - 1 /\ all[i].seq = m + (i - Len(rows)) - 1
             /\ s[all[i].seq + 1] = all[i].kind
  <2>1. i - Len(rows) \in 1 .. Len(events) /\ all[i] = events[i - Len(rows)] BY <1>1, <1>2, <1>4
  <2> QED BY <2>1, <1>2 DEF Follow
<1>5. rows # << >> => Len(rows) \in 1 .. Len(rows) /\ m = rows[Len(rows)].seq + 1
  BY DEF EndOf
<1>6. rows = << >> => m = 0 /\ Len(rows) = 0 BY DEF EndOf
<1>7. \A i \in 1 .. Len(all) : all[i].first \in Nat /\ all[i].seq \in Nat
  BY <1>1, RowTypes
<1>8. Records(all, s)
  <2> SUFFICES ASSUME NEW i \in 1 .. Len(all)
      PROVE /\ all[i].first = IF i = 1 THEN 0 ELSE all[i - 1].seq + 1
            /\ all[i].first <= all[i].seq
            /\ \A j \in 1 .. Len(all) : i < j => all[i].seq < all[j].first
            /\ all[i].kind \notin TokenKind => all[i].seq = all[i].first
            /\ \A n \in all[i].first .. all[i].seq : s[n + 1] = all[i].kind
    BY DEF Records
  <2>1. CASE i <= Len(rows)
    <3>1. all[i] = rows[i] /\ (i # 1 => all[i - 1] = rows[i - 1]) /\ i \in 1 .. Len(rows)
      BY <1>2, <1>3, <2>1
    <3>2. ASSUME NEW j \in 1 .. Len(all), i < j PROVE all[i].seq < all[j].first
      <4>1. CASE j <= Len(rows) BY <1>2, <1>3, <3>1, <3>2, <4>1 DEF Records
      <4>2. CASE j > Len(rows)
        <5>1. all[j].first = m + (j - Len(rows)) - 1 /\ j - Len(rows) \in 1 .. Len(events)
          BY <1>4, <4>2
        <5>2. all[i].seq < m BY <1>3, <3>1
        <5> QED BY <1>2, <1>7, <5>1, <5>2
      <4> QED BY <1>2, <4>1, <4>2
    <3> QED BY <3>1, <3>2 DEF Records
  <2>2. CASE i > Len(rows)
    <3>1. all[i].first = IF i = 1 THEN 0 ELSE all[i - 1].seq + 1
      <4>1. CASE i = Len(rows) + 1 /\ rows = << >>
        <5>1. all[i].first = m + (i - Len(rows)) - 1 /\ m = 0 /\ Len(rows) = 0 /\ i = 1
          BY <1>4, <1>6, <2>2, <4>1
        <5> QED BY <5>1
      <4>2. CASE i = Len(rows) + 1 /\ rows # << >>
        <5>1. all[i - 1] = rows[Len(rows)] /\ i # 1 BY <1>2, <1>3, <1>5, <4>2
        <5> QED BY <1>4, <1>5, <2>2, <4>2, <5>1
      <4>3. CASE i > Len(rows) + 1
        <5>1. i - 1 \in 1 .. Len(all) /\ i - 1 > Len(rows) BY <1>1, <1>2, <4>3
        <5>2. all[i].first = m + (i - Len(rows)) - 1 BY <1>4, <2>2
        <5>3. all[i - 1].seq = m + (i - 1 - Len(rows)) - 1 BY <1>4, <5>1
        <5> QED BY <1>2, <4>3, <5>2, <5>3
      <4> QED BY <1>2, <2>2, <4>1, <4>2, <4>3
    <3>2. ASSUME NEW j \in 1 .. Len(all), i < j PROVE all[i].seq < all[j].first
      <4>1. j > Len(rows) BY <1>2, <2>2, <3>2
      <4>2. all[j].first = m + (j - Len(rows)) - 1 BY <1>4, <4>1
      <4>3. all[i].seq = m + (i - Len(rows)) - 1 BY <1>4, <2>2
      <4>4. i \in Nat /\ j \in Nat OBVIOUS
      <4> QED BY <1>2, <3>2, <4>2, <4>3, <4>4
    <3>3. /\ all[i].first = all[i].seq /\ all[i].seq \in Nat
          /\ s[all[i].seq + 1] = all[i].kind
      BY <1>4, <1>7, <2>2
    <3>4. \A n \in all[i].first .. all[i].seq : n = all[i].seq
      BY <3>3
    <3> QED BY <3>1, <3>2, <3>3, <3>4
  <2> QED BY <1>2, <2>1, <2>2
<1>9. EndOf(all) = m + Len(events)
  <2>1. CASE events = << >> BY <1>1, <1>5, <1>6, <2>1, ConcatEmptySeq DEF all, EndOf
  <2>2. CASE events # << >>
    <3>1. Len(events) \in Nat \ {0} BY <2>2, EmptySeq
    <3>2. Len(all) \in 1 .. Len(all) /\ Len(all) > Len(rows) /\ all # << >>
      BY <1>1, <1>2, <3>1
    <3> QED BY <1>1, <1>2, <1>4, <3>2 DEF EndOf
  <2> QED BY <2>1, <2>2
<1> QED BY <1>1, <1>8, <1>9 DEF all

(* The last row of a record is taken away.                                   *)
LEMMA Cutting ==
    ASSUME NEW rows \in Seq(Row), NEW item \in Row, NEW s, Records(rows \o <<item>>, s)
    PROVE  /\ Records(rows, s) /\ item.first = EndOf(rows) /\ item.first <= item.seq
           /\ EndOf(rows \o <<item>>) = item.seq + 1
           /\ \A n \in item.first .. item.seq : s[n + 1] = item.kind
           /\ \A i \in 1 .. Len(rows) : rows[i].seq < item.first
<1> DEFINE all == rows \o <<item>>
<1>1. /\ all \in Seq(Row) /\ Len(all) = Len(rows) + 1 /\ Len(rows) \in Nat
      /\ \A i \in 1 .. Len(rows) : all[i] = rows[i]
      /\ all[Len(rows) + 1] = item
  OBVIOUS
<1> HIDE DEF all
<1>2. Records(all, s) BY DEF all
<1>3. Records(rows, s) BY <1>1, <1>2 DEF Records
<1>4. EndOf(all) = item.seq + 1
  <2>1. all # << >> BY <1>1
  <2> QED BY <1>1, <2>1 DEF EndOf
<1>5. item.first = EndOf(rows)
  <2>1. CASE rows = << >> BY <1>1, <1>2, <2>1 DEF Records, EndOf
  <2>2. CASE rows # << >>
    <3>1. Len(rows) \in 1 .. Len(rows) BY <2>2, EmptySeq
    <3>2. all[Len(rows) + 1 - 1] = rows[Len(rows)] BY <1>1, <3>1
    <3> QED BY <1>1, <1>2, <2>2, <3>1, <3>2 DEF Records, EndOf
  <2> QED BY <2>1, <2>2
<1>6. /\ item.first <= item.seq /\ \A n \in item.first .. item.seq : s[n + 1] = item.kind
      /\ \A i \in 1 .. Len(rows) : rows[i].seq < item.first
  BY <1>1, <1>2 DEF Records
<1> QED BY <1>3, <1>4, <1>5, <1>6 DEF all

(* A token is merged into the last row.                                      *)
Merges(more, item, s) ==
    /\ more.first = item.first /\ more.kind = item.kind /\ more.kind \in TokenKind
    /\ more.seq = item.seq + 1 /\ s[more.seq + 1] = more.kind

(* Merging a token into the last row of a record extends the record by one. *)
LEMMA Merging ==
    ASSUME NEW rows \in Seq(Row), NEW item \in Row, NEW s, Records(rows \o <<item>>, s),
           NEW more \in Row, Merges(more, item, s)
    PROVE  /\ rows \o <<more>> \in Seq(Row) /\ Records(rows \o <<more>>, s)
           /\ EndOf(rows \o <<more>>) = more.seq + 1
<1> USE DEF Merges
<1> DEFINE all == rows \o <<more>>
<1>1. /\ all \in Seq(Row) /\ Len(all) = Len(rows) + 1 /\ Len(rows) \in Nat
      /\ \A i \in 1 .. Len(rows) : all[i] = rows[i]
      /\ all[Len(rows) + 1] = more
  OBVIOUS
<1> HIDE DEF all
<1>2. /\ Records(rows, s) /\ item.first = EndOf(rows) /\ item.first <= item.seq
      /\ \A n \in item.first .. item.seq : s[n + 1] = item.kind
      /\ \A i \in 1 .. Len(rows) : rows[i].seq < item.first
  BY Cutting
<1>3. item.first \in Nat /\ item.seq \in Nat BY DEF Row
<1>4. \A n \in more.first .. more.seq : s[n + 1] = more.kind
  <2> SUFFICES ASSUME NEW n \in more.first .. more.seq PROVE s[n + 1] = more.kind OBVIOUS
  <2>1. n \in item.first .. item.seq \/ n = more.seq BY <1>3
  <2> QED BY <1>2, <2>1
<1>5. more.first = IF Len(rows) + 1 = 1 THEN 0 ELSE all[Len(rows) + 1 - 1].seq + 1
  <2>1. CASE rows = << >> BY <1>2, <2>1 DEF EndOf
  <2>2. CASE rows # << >>
    <3>1. Len(rows) \in 1 .. Len(rows) BY <2>2, EmptySeq
    <3> QED BY <1>1, <1>2, <2>2, <3>1 DEF EndOf
  <2> QED BY <2>1, <2>2
<1>6. Records(all, s)
  <2> SUFFICES ASSUME NEW i \in 1 .. Len(all)
      PROVE /\ all[i].first = IF i = 1 THEN 0 ELSE all[i - 1].seq + 1
            /\ all[i].first <= all[i].seq
            /\ \A j \in 1 .. Len(all) : i < j => all[i].seq < all[j].first
            /\ all[i].kind \notin TokenKind => all[i].seq = all[i].first
            /\ \A n \in all[i].first .. all[i].seq : s[n + 1] = all[i].kind
    BY DEF Records
  <2>1. CASE i \in 1 .. Len(rows)
    <3>1. all[i] = rows[i] /\ (i # 1 => all[i - 1] = rows[i - 1])
      BY <1>1, <2>1
    <3>2. ASSUME NEW j \in 1 .. Len(all), i < j PROVE all[i].seq < all[j].first
      <4>1. CASE j \in 1 .. Len(rows)
        <5>1. all[j] = rows[j] BY <1>1, <4>1
        <5> QED BY <1>2, <2>1, <3>1, <3>2, <4>1, <5>1 DEF Records
      <4>2. CASE j = Len(rows) + 1
        <5>1. all[j] = more /\ more.first = item.first BY <1>1, <4>2
        <5> QED BY <1>2, <2>1, <3>1, <5>1
      <4> QED BY <1>1, <4>1, <4>2
    <3> QED BY <1>2, <2>1, <3>1, <3>2 DEF Records
  <2>2. CASE i = Len(rows) + 1
    BY <1>1, <1>2, <1>3, <1>4, <1>5, <2>2
  <2> QED BY <1>1, <2>1, <2>2
<1>7. EndOf(all) = more.seq + 1
  <2>1. all # << >> BY <1>1
  <2> QED BY <1>1, <2>1 DEF EndOf
<1> QED BY <1>1, <1>6, <1>7 DEF all

(* The sequence of one element.                                             *)
LEMMA Single ==
    ASSUME NEW S, NEW e \in S
    PROVE  <<e>> \in Seq(S) /\ Len(<<e>>) = 1 /\ <<e>>[1] = e /\ DOMAIN <<e>> = {1}
OBVIOUS

(* The sequence of one element that is left.                                 *)
LEMMA AtMostOne ==
    ASSUME NEW S, NEW q \in Seq(S), Len(q) <= 1, q # << >>
    PROVE  q = <<q[1]>> /\ q[1] \in S /\ 1 \in DOMAIN q
<1>1. Len(q) = 1
  <2>1. Len(q) \in Nat \ {0} BY EmptySeq
  <2> QED BY <2>1
<1>2. q[1] \in S BY <1>1, ElementOfSeq
<1> QED BY <1>1, <1>2, SeqEqual

(* `end` stays in the table.                                                *)
LEMMA EndedGrows ==
    ASSUME NEW rows \in Seq(Row), NEW more \in Seq(Row), HasEnd(rows) \/ HasEnd(more)
    PROVE  HasEnd(rows \o more)
<1> DEFINE all == rows \o more
<1>1. /\ Len(all) = Len(rows) + Len(more) /\ DOMAIN all = 1 .. Len(all)
      /\ \A i \in 1 .. Len(rows) : all[i] = rows[i]
      /\ \A i \in 1 .. Len(more) : all[Len(rows) + i] = more[i]
  OBVIOUS
<1> HIDE DEF all
<1>2. Len(rows) \in Nat /\ Len(more) \in Nat OBVIOUS
<1>3. ASSUME HasEnd(rows) PROVE HasEnd(all)
  <2>1. PICK i \in 1 .. Len(rows) : rows[i].kind = "end" BY <1>3 DEF HasEnd
  <2>2. i \in DOMAIN all /\ all[i].kind = "end" BY <1>1, <1>2, <2>1
  <2> QED BY <2>2 DEF HasEnd
<1>4. ASSUME HasEnd(more) PROVE HasEnd(all)
  <2>1. PICK i \in 1 .. Len(more) : more[i].kind = "end" BY <1>4 DEF HasEnd
  <2>2. Len(rows) + i \in DOMAIN all BY <1>1, <1>2
  <2>3. all[Len(rows) + i].kind = "end" BY <1>1, <2>1
  <2> QED BY <2>2, <2>3 DEF HasEnd
<1> QED BY <1>3, <1>4 DEF all

-----------------------------------------------------------------------------
(* Steps *)

(* An empty record is the record of an empty stream.                        *)
LEMMA StreamStarts == StreamInit => StreamInv
<1> SUFFICES ASSUME StreamInit PROVE StreamInv OBVIOUS
<1> PICK none : none = << >> OBVIOUS
<1>1. none \in Seq(Row) /\ none \in Seq(Kind) /\ Len(none) = 0 BY EmptySeq
<1>2. buffer \in Seq(Row) /\ Len(buffer) <= 1 /\ table \in Seq(Row) BY <1>1 DEF StreamInit
<1>3. sent \in Seq(Kind) /\ Len(sent) = next BY <1>1 DEF StreamInit
<1>4. StreamTypeOK
  <2>1. next \in Nat /\ crashes \in Nat /\ faults \in Nat BY DEF StreamInit
  <2>2. streamClosed \in BOOLEAN /\ alive \in BOOLEAN BY DEF StreamInit
  <2> QED BY <1>2, <1>3, <2>1, <2>2 DEF StreamTypeOK
<1>5. OpenInv BY DEF StreamInit, OpenInv, Records, EndOf
<1>6. EndInv BY DEF StreamInit, EndInv
<1> QED BY <1>3, <1>4, <1>5, <1>6 DEF StreamInit, StreamInv

(* What Publish delivers.                                                    *)
LEMMA Delivered ==
    ASSUME StreamInv, NEW events \in Seq(Row), Publish(events)
    PROVE  /\ sent' \in Seq(Kind) /\ next' \in Nat /\ next' = next + Len(events)
           /\ Len(sent') = next' /\ streamClosed' \in BOOLEAN
           /\ \A n \in 1 .. next : sent'[n] = sent[n]
           /\ \A n \in 1 .. Len(events) : sent'[next + n] = events[n].kind
<1> DEFINE kinds == [i \in DOMAIN events |-> events[i].kind]
<1>1. /\ sent \in Seq(Kind) /\ Len(sent) = next /\ next \in Nat
      /\ sent' = sent \o kinds /\ next' = next + Len(events)
      /\ streamClosed \in BOOLEAN
      /\ streamClosed' = (streamClosed \/ \E i \in DOMAIN events : events[i].kind = "end")
  BY DEF StreamInv, StreamTypeOK, Publish
<1>2. Len(events) \in Nat /\ DOMAIN events = 1 .. Len(events) OBVIOUS
<1>3. kinds \in Seq(Kind) /\ Len(kinds) = Len(events) /\ \A i \in 1 .. Len(events) : kinds[i] = events[i].kind
  <2>1. kinds \in [1 .. Len(events) -> Kind] BY <1>2, RowTypes
  <2> QED BY <1>2, <2>1
<1> HIDE DEF kinds
<1>4. sent \o kinds \in Seq(Kind) /\ Len(sent \o kinds) = Len(sent) + Len(kinds)
      /\ \A i \in 1 .. Len(sent) + Len(kinds) : (sent \o kinds)[i] =
             IF i <= Len(sent) THEN sent[i] ELSE kinds[i - Len(sent)]
  BY <1>1, <1>3, ConcatProperties
<1>5. ASSUME NEW n \in 1 .. Len(events) PROVE sent'[next + n] = events[n].kind
  <2>1. next + n \in 1 .. Len(sent) + Len(kinds) /\ ~(next + n <= Len(sent)) /\ next + n - Len(sent) = n
    BY <1>1, <1>2, <1>3
  <2> QED BY <1>1, <1>3, <1>4, <2>1
<1>6. ASSUME NEW n \in 1 .. next PROVE sent'[n] = sent[n]
  BY <1>1, <1>2, <1>3, <1>4
<1>7. streamClosed' \in BOOLEAN BY <1>1
<1> QED BY <1>1, <1>2, <1>3, <1>4, <1>5, <1>6, <1>7

(* A transaction that failed, or stored nothing, changed nothing else.        *)
LEMMA StoreFails ==
    ASSUME StreamInv, NEW rows, Stores(rows, FALSE),
           UNCHANGED <<next, streamClosed, buffer, sent, alive, crashes>>
    PROVE  StreamInv'
<1>1. UNCHANGED <<next, streamClosed, buffer, table, sent, alive, crashes>> /\ faults' \in Nat
  BY DEF Stores, StreamInv, StreamTypeOK
<1>2. (StreamTypeOK /\ Len(sent) = next)' BY <1>1 DEF StreamInv, StreamTypeOK
<1>3. OpenInv' = OpenInv /\ ClosedInv' = ClosedInv /\ EndInv' = EndInv
  BY <1>1 DEF OpenInv, ClosedInv, TailLost, EndInv, HasEnd, Records
<1> QED BY <1>1, <1>2, <1>3 DEF StreamInv

(* A token starts a row, or continues the buffered one; either may be stored. *)
LEMMA TokenKeeps ==
    ASSUME StreamInv, NEW kind \in TokenKind, NEW due \in BOOLEAN, Token(kind, due)
    PROVE  StreamInv'
<1> PICK event : event = Event(kind, next)
  OBVIOUS
<1>0. PICK ok \in BOOLEAN :
        /\ Stores(Flushed(event, due), ok)
        /\ IF ok THEN buffer' = Kept(event, due) /\ Publish(<<event>>)
                 ELSE UNCHANGED <<next, streamClosed, buffer, sent>>
  BY DEF Token
<1>1. alive /\ alive' = alive /\ streamClosed = FALSE /\ crashes' = crashes
  BY DEF Token, StreamInv, StreamTypeOK
<1>2. CASE ok = FALSE BY <1>0, <1>1, <1>2, StoreFails
<1>3. CASE ok = TRUE
  <2> PICK record : record = table \o buffer OBVIOUS
  <2> PICK last : last = next OBVIOUS
  <2> PICK s : s = sent' OBVIOUS
  <2> PICK rows : rows = table OBVIOUS
  <2>1. /\ last \in Nat /\ sent \in Seq(Kind) /\ rows \in Seq(Row) /\ buffer \in Seq(Row)
        /\ Len(buffer) <= 1 /\ Len(sent) = last /\ record \in Seq(Row)
        /\ Records(record, sent) /\ last = EndOf(record)
        /\ \A i \in DOMAIN buffer : buffer[i].kind \in TokenKind
    BY <1>1 DEF StreamInv, StreamTypeOK, OpenInv
  <2>2. event \in Row /\ event.first = last /\ event.seq = last /\ event.kind = kind
    BY <2>1 DEF Event, Row, Kind
  <2>3. /\ s \in Seq(Kind) /\ Len(s) = last + 1 /\ next' = last + 1 /\ s[last + 1] = kind
        /\ \A n \in 1 .. last : s[n] = sent[n]
        /\ streamClosed' \in BOOLEAN
    <3>0. PICK one : one = <<event>> OBVIOUS
    <3>1. one \in Seq(Row) /\ Len(one) = 1 /\ one[1] = event BY <2>2, <3>0, Single
    <3>2. Publish(one) BY <1>0, <1>3, <3>0
    <3>3. /\ sent' \in Seq(Kind) /\ next' \in Nat /\ next' = next + Len(one)
          /\ Len(sent') = next' /\ streamClosed' \in BOOLEAN
          /\ \A n \in 1 .. next : sent'[n] = sent[n]
          /\ \A n \in 1 .. Len(one) : sent'[next + n] = one[n].kind
      BY <3>1, <3>2, Delivered
    <3>4. 1 \in 1 .. Len(one) BY <3>1
    <3> QED BY <2>1, <2>2, <3>1, <3>3, <3>4
  <2>4. Records(record, s) BY <2>1, <2>3, Extending
  <2>5. table' = table \o Flushed(event, due) /\ buffer' = Kept(event, due) /\ faults' = faults
    BY <1>0, <1>3 DEF Stores
  <2>6. /\ table' \in Seq(Row) /\ buffer' \in Seq(Row) /\ Len(buffer') <= 1
        /\ Records(table' \o buffer', s) /\ EndOf(table' \o buffer') = last + 1
        /\ \A i \in DOMAIN buffer' : buffer'[i].kind \in TokenKind
    <3>1. CASE ~Continued(event)
      <4>0. PICK one : one = <<event>> OBVIOUS
      <4>1. one \in Seq(Row) /\ Len(one) = 1 /\ one[1] = event /\ DOMAIN one = {1}
        BY <2>2, <4>0, Single
      <4>2. table' = record /\ buffer' = one BY <2>5, <3>1, <4>0 DEF Flushed, Kept
      <4>3. Follow(one, EndOf(record), s)
        <5>1. \A i \in 1 .. Len(one) : i = 1 BY <4>1
        <5>2. /\ one[1].first = last + 1 - 1 /\ one[1].seq = last + 1 - 1
              /\ s[last + 1] = one[1].kind
          <6>1. last \in Nat BY <2>1
          <6>2. one[1].first = last /\ one[1].seq = last /\ one[1].kind = kind BY <2>2, <4>1
          <6>3. s[last + 1] = kind BY <2>3
          <6> QED BY <6>1, <6>2, <6>3
        <5> QED BY <2>1, <5>1, <5>2 DEF Follow
      <4>4. /\ record \o one \in Seq(Row) /\ Records(record \o one, s)
            /\ EndOf(record \o one) = last + 1
        <5>1. record \in Seq(Row) /\ one \in Seq(Row) BY <2>1, <4>1
        <5>2. /\ record \o one \in Seq(Row) /\ Records(record \o one, s)
              /\ EndOf(record \o one) = EndOf(record) + Len(one)
          BY <2>4, <4>3, <5>1, Appending
        <5> QED BY <2>1, <4>1, <5>2
      <4>5. table' \o buffer' = record \o one BY <4>2
      <4>6. \A i \in DOMAIN buffer' : buffer'[i].kind \in TokenKind BY <2>2, <4>1, <4>2
      <4>7. buffer' \in Seq(Row) /\ Len(buffer') <= 1 /\ table' \in Seq(Row)
        <5>1. record \in Seq(Row) BY <2>1
        <5>2. one \in Seq(Row) /\ Len(one) <= 1 BY <4>1
        <5> QED BY <4>2, <5>1, <5>2
      <4> QED BY <4>4, <4>5, <4>6, <4>7
    <3>2. CASE Continued(event)
      <4> PICK item : item = buffer[1] OBVIOUS
      <4> PICK more : more = Merged(event) OBVIOUS
      <4>1. buffer = <<item>> /\ item \in Row /\ item.kind = kind
        BY <2>1, <2>2, <3>2, AtMostOne DEF Continued
      <4>2. more = [item EXCEPT !.seq = event.seq] BY DEF Merged
      <4>3. record = rows \o <<item>> BY <4>1
      <4>4. item.seq + 1 = last
        BY <2>1, <2>4, <4>1, <4>3, Cutting
      <4>5. /\ more \in Row /\ more.first = item.first /\ more.kind = kind /\ more.seq = last
            /\ more.seq = item.seq + 1
        BY <2>1, <2>2, <4>1, <4>2, <4>4 DEF Row
      <4>6. /\ rows \o <<more>> \in Seq(Row) /\ Records(rows \o <<more>>, s)
            /\ EndOf(rows \o <<more>>) = last + 1
        <5>1. Records(rows \o <<item>>, s) BY <2>4, <4>3
        <5>2. Merges(more, item, s) BY <2>3, <4>1, <4>5 DEF Merges
        <5>3. /\ rows \o <<more>> \in Seq(Row) /\ Records(rows \o <<more>>, s)
              /\ EndOf(rows \o <<more>>) = more.seq + 1
          BY <2>1, <4>1, <4>5, <5>1, <5>2, Merging
        <5> QED BY <4>5, <5>3
      <4> PICK one : one = <<more>> OBVIOUS
      <4> PICK none : none = << >> OBVIOUS
      <4>7. /\ one \in Seq(Row) /\ Len(one) = 1 /\ one[1] = more /\ DOMAIN one = {1}
            /\ none \in Seq(Row) /\ DOMAIN none = {} /\ Len(none) = 0
        BY <4>5, Single
      <4>8. rows \o none = rows /\ (rows \o one) \o none = rows \o one /\ rows \o one \in Seq(Row)
        BY <2>1, <4>6, ConcatEmptySeq
      <4>9. CASE due
        <5>1. table' = rows \o one /\ buffer' = none BY <2>5, <3>2, <4>9 DEF Flushed, Kept
        <5>2. table' \o buffer' = rows \o one BY <4>8, <5>1
        <5> QED BY <4>6, <4>7, <4>8, <5>1, <5>2
      <4>10. CASE ~due
        <5>1. table' = rows /\ buffer' = one BY <2>5, <3>2, <4>8, <4>10 DEF Flushed, Kept
        <5>2. table' \o buffer' = rows \o one BY <5>1
        <5>3. \A i \in DOMAIN buffer' : buffer'[i] = more BY <4>7, <5>1
        <5>4. \A i \in DOMAIN buffer' : buffer'[i].kind \in TokenKind BY <4>5, <5>3
        <5>5. table' \in Seq(Row) /\ buffer' \in Seq(Row) /\ Len(buffer') <= 1
          <6>1. rows \in Seq(Row) BY <2>1
          <6>2. one \in Seq(Row) /\ Len(one) <= 1 BY <4>7
          <6> QED BY <5>1, <6>1, <6>2
        <5> QED BY <4>6, <5>2, <5>4, <5>5
      <4> QED BY <4>9, <4>10
    <3> QED BY <3>1, <3>2
  <2>7. EndInv'
    <3>1. \A n \in DOMAIN sent : sent[n] # "end" BY <1>1 DEF StreamInv, EndInv
    <3>2. kind # "end" BY KindAssumption
    <3>3. ASSUME NEW n \in DOMAIN s PROVE s[n] # "end"
      <4>1. n \in 1 .. last \/ n = last + 1 BY <2>1, <2>3
      <4> QED BY <2>1, <2>3, <3>1, <3>2, <4>1
    <3> QED BY <3>3 DEF EndInv
  <2> QED BY <1>1, <2>1, <2>3, <2>5, <2>6, <2>7 DEF StreamInv, StreamTypeOK, OpenInv
<1> QED BY <1>2, <1>3

(* The events of a unit of work.                                             *)
LEMMA Numbers ==
    ASSUME StreamTypeOK, NEW drafts \in Seq(Kind)
    PROVE  /\ Numbered(drafts) \in Seq(Row)
           /\ \A i \in 1 .. Len(Numbered(drafts)) :
                 /\ Numbered(drafts)[i].first = next + i - 1
                 /\ Numbered(drafts)[i].seq = next + i - 1
           /\ streamClosed => Len(Numbered(drafts)) = 0
<1>1. CASE streamClosed BY <1>1 DEF Numbered
<1>2. CASE ~streamClosed
  <2> DEFINE e == [i \in DOMAIN drafts |-> Event(drafts[i], next + i - 1)]
  <2>1. Len(drafts) \in Nat /\ DOMAIN drafts = 1 .. Len(drafts) OBVIOUS
  <2>2. \A i \in 1 .. Len(drafts) :
           /\ Event(drafts[i], next + i - 1) \in Row
           /\ Event(drafts[i], next + i - 1).first = next + i - 1
           /\ Event(drafts[i], next + i - 1).seq = next + i - 1
    BY ElementOfSeq DEF Event, Row, StreamTypeOK
  <2>3. e \in [1 .. Len(drafts) -> Row] BY <2>1, <2>2
  <2>4. e \in Seq(Row) /\ Len(e) = Len(drafts) BY <2>1, <2>3
  <2>5. Numbered(drafts) = e BY <1>2 DEF Numbered
  <2> QED BY <1>2, <2>1, <2>2, <2>4, <2>5
<1> QED BY <1>1, <1>2

(* A unit of work stores the buffer and its events, and numbers them on.    *)
LEMMA CommitKeeps ==
    ASSUME StreamInv, NEW drafts \in Seq(Kind), CommitUnit(drafts)
    PROVE  StreamInv'
<1> PICK events : events = Numbered(drafts) OBVIOUS
<1> PICK ok \in BOOLEAN :
        /\ Stores(Unit(events), ok)
        /\ IF ok THEN buffer' = << >> /\ Publish(events)
                 ELSE UNCHANGED <<next, streamClosed, buffer, sent>>
  BY DEF CommitUnit
<1>1. alive /\ alive' = alive /\ crashes' = crashes BY DEF CommitUnit
<1>2. CASE ok = FALSE BY <1>1, <1>2, StoreFails
<1>3. CASE ok = TRUE
  <2> PICK record : record = table \o buffer OBVIOUS
  <2> PICK last : last = next OBVIOUS
  <2> PICK s : s = sent' OBVIOUS
  <2>1. /\ last \in Nat /\ sent \in Seq(Kind) /\ table \in Seq(Row) /\ buffer \in Seq(Row)
        /\ Len(sent) = last /\ record \in Seq(Row)
        /\ Records(record, sent) /\ last = EndOf(record)
    BY <1>1 DEF StreamInv, StreamTypeOK, OpenInv
  <2>2. /\ events \in Seq(Row) /\ (streamClosed => Len(events) = 0)
        /\ \A i \in 1 .. Len(events) : events[i].first = last + i - 1 /\ events[i].seq = last + i - 1
    BY Numbers DEF StreamInv
  <2>3. Publish(events) /\ buffer' = << >> BY <1>3
  <2>4. /\ s \in Seq(Kind) /\ next' = last + Len(events) /\ Len(s) = next' /\ next' \in Nat
        /\ \A n \in 1 .. last : s[n] = sent[n]
        /\ \A n \in 1 .. Len(events) : s[last + n] = events[n].kind
        /\ streamClosed' \in BOOLEAN
    <3>1. /\ sent' \in Seq(Kind) /\ next' \in Nat /\ next' = next + Len(events)
          /\ Len(sent') = next' /\ streamClosed' \in BOOLEAN
          /\ \A n \in 1 .. next : sent'[n] = sent[n]
          /\ \A n \in 1 .. Len(events) : sent'[next + n] = events[n].kind
      BY <2>2, <2>3, Delivered
    <3>2. \A n \in 1 .. last : s[n] = sent[n] BY <3>1
    <3>3. \A n \in 1 .. Len(events) : s[last + n] = events[n].kind BY <3>1
    <3> QED BY <3>1, <3>2, <3>3
  <2>5. Records(record, s) BY <2>1, <2>4, Extending
  <2>6. table' = record \o events /\ faults' = faults
    <3>1. table' = table \o (buffer \o events) /\ faults' = faults BY <1>3 DEF Stores, Unit
    <3>2. PICK rows : rows = table OBVIOUS
    <3>3. PICK more : more = buffer OBVIOUS
    <3>4. rows \in Seq(Row) /\ more \in Seq(Row) /\ events \in Seq(Row) BY <2>1, <2>2, <3>2, <3>3
    <3>5. (rows \o more) \o events = rows \o (more \o events) BY <3>4, ConcatAssociative, SMTT(30)
    <3> QED BY <3>1, <3>2, <3>3, <3>5
  <2>7. /\ table' \in Seq(Row) /\ Records(table', s) /\ EndOf(table') = last + Len(events)
    <3>1. Follow(events, EndOf(record), s) BY <2>1, <2>2, <2>4 DEF Follow
    <3> QED BY <2>1, <2>2, <2>5, <2>6, <3>1, Appending
  <2>8. table' \o buffer' = table' /\ buffer' \in Seq(Row) /\ DOMAIN buffer' = {} /\ Len(buffer') = 0
    BY <2>3, <2>7, ConcatEmptySeq
  <2>9. EndInv'
    <3> SUFFICES ASSUME NEW n \in DOMAIN s, s[n] = "end" PROVE HasEnd(table') /\ streamClosed'
      BY DEF EndInv
    <3>0. Len(events) \in Nat BY <2>2
    <3>1. CASE n \in 1 .. last
      <4>1. HasEnd(table) /\ streamClosed BY <1>1, <2>1, <2>4, <3>1 DEF StreamInv, EndInv
      <4>2. HasEnd(record) BY <2>1, <4>1, EndedGrows
      <4>3. HasEnd(table') BY <2>1, <2>2, <2>6, <4>2, EndedGrows
      <4> QED BY <2>3, <4>1, <4>3 DEF Publish
    <3>2. CASE n \notin 1 .. last
      <4>1. n - last \in 1 .. Len(events) /\ n = last + (n - last) BY <2>1, <2>4, <3>0, <3>2
      <4>2. events[n - last].kind = "end" BY <2>4, <4>1
      <4>3. n - last \in DOMAIN events BY <2>2, <4>1
      <4>4. HasEnd(events) BY <4>2, <4>3 DEF HasEnd
      <4>5. HasEnd(table') BY <2>1, <2>2, <2>6, <4>4, EndedGrows
      <4> QED BY <2>3, <4>2, <4>3, <4>5 DEF Publish
    <3> QED BY <3>1, <3>2
  <2> QED BY <1>1, <2>1, <2>4, <2>6, <2>7, <2>8, <2>9 DEF StreamInv, StreamTypeOK, OpenInv
<1> QED BY <1>2, <1>3

(* The stream closes with the buffer stored or lost.                         *)
LEMMA Closing ==
    ASSUME StreamInv, alive, NEW rows, rows = table \/ rows = table \o buffer
    PROVE  /\ rows \in Seq(Row) /\ Records(rows, sent) /\ EndOf(rows) <= next
           /\ TailLost(rows, sent) /\ (HasEnd(table) => HasEnd(rows))
<1> PICK record : record = table \o buffer OBVIOUS
<1> PICK old : old = table OBVIOUS
<1>1. /\ next \in Nat /\ sent \in Seq(Kind) /\ old \in Seq(Row) /\ buffer \in Seq(Row)
      /\ Len(buffer) <= 1 /\ Len(sent) = next /\ record \in Seq(Row)
      /\ Records(record, sent) /\ next = EndOf(record)
      /\ \A i \in DOMAIN buffer : buffer[i].kind \in TokenKind
  BY DEF StreamInv, StreamTypeOK, OpenInv
<1>2. CASE rows = record
  <2>1. \A i \in DOMAIN sent : ~(i > EndOf(rows)) BY <1>1, <1>2
  <2>2. TailLost(rows, sent) BY <2>1, KindAssumption DEF TailLost
  <2> QED BY <1>1, <1>2, <2>2, EndedGrows
<1>3. CASE rows = old /\ buffer # << >>
  <2> PICK item : item = buffer[1] OBVIOUS
  <2>1. buffer = <<item>> /\ item \in Row /\ item.kind \in TokenKind
    BY <1>1, <1>3, AtMostOne
  <2>2. record = old \o <<item>> BY <2>1
  <2>3. /\ Records(old, sent) /\ item.first = EndOf(old) /\ item.first <= item.seq
        /\ next = item.seq + 1
        /\ \A n \in item.first .. item.seq : sent[n + 1] = item.kind
    BY <1>1, <2>1, <2>2, Cutting
  <2>4. item.first \in Nat /\ item.seq \in Nat BY <2>1 DEF Row
  <2>5. ASSUME NEW i \in DOMAIN sent, i > EndOf(old) PROVE sent[i] = item.kind
    <3>1. i \in Nat /\ i <= item.seq + 1 /\ i > item.first BY <1>1, <2>3, <2>5
    <3>2. i - 1 \in item.first .. item.seq /\ (i - 1) + 1 = i BY <2>4, <3>1
    <3> QED BY <2>3, <3>2
  <2>6. TailLost(rows, sent) BY <1>3, <2>1, <2>5 DEF TailLost
  <2> QED BY <1>1, <1>3, <2>3, <2>4, <2>6
<1>4. CASE rows = old /\ buffer = << >>
  <2>1. rows = record BY <1>1, <1>4, ConcatEmptySeq
  <2> QED BY <1>2, <2>1
<1> QED BY <1>2, <1>3, <1>4

(* A dropped or crashed stream.                                             *)
LEMMA ClosingKeeps ==
    ASSUME StreamInv, Drop \/ Crash
    PROVE  StreamInv'
<1> PICK rows : rows = table' OBVIOUS
<1>1. /\ alive /\ alive' = FALSE /\ buffer' = << >> /\ UNCHANGED <<next, streamClosed, sent>>
      /\ faults' \in Nat /\ crashes' \in Nat
      /\ rows = table \/ rows = table \o buffer
  BY DEF Drop, Crash, Stores, StreamInv, StreamTypeOK
<1>2. /\ rows \in Seq(Row) /\ Records(rows, sent) /\ EndOf(rows) <= next
      /\ TailLost(rows, sent) /\ (HasEnd(table) => HasEnd(rows))
  BY <1>1, Closing
<1>3. ClosedInv' BY <1>1, <1>2 DEF ClosedInv, TailLost, Records
<1>4. EndInv' BY <1>1, <1>2 DEF StreamInv, EndInv
<1>5. buffer' \in Seq(Row) /\ Len(buffer') <= 1 BY <1>1
<1> QED BY <1>1, <1>2, <1>3, <1>4, <1>5 DEF StreamInv, StreamTypeOK

(* Recovery goes on where the table ends.                                   *)
LEMMA ReopenKeeps == ASSUME StreamInv, Reopen PROVE StreamInv'
<1> PICK rows : rows = table OBVIOUS
<1> PICK last : last = EndOf(rows) OBVIOUS
<1>1. /\ ~alive /\ alive' = TRUE /\ streamClosed' = FALSE /\ buffer' = << >>
      /\ next' = last /\ sent' = SubSeq(sent, 1, last) /\ UNCHANGED <<table, crashes, faults>>
  BY DEF Reopen, NextSequence, Last, EndOf
<1>2. /\ rows \in Seq(Row) /\ sent \in Seq(Kind) /\ next \in Nat /\ Len(sent) = next
      /\ Records(rows, sent) /\ last <= next /\ last \in Nat
  BY <1>1, EndInNat DEF StreamInv, StreamTypeOK, ClosedInv
<1>3. /\ SubSeq(sent, 1, last) \in Seq(Kind) /\ Len(SubSeq(sent, 1, last)) = last
      /\ \A i \in 1 .. last : SubSeq(sent, 1, last)[i] = sent[i]
  <2>1. \A i \in 1 .. last : sent[i] \in Kind BY <1>2, ElementOfSeq
  <2>2. last - 1 + 1 = last /\ \A i \in 1 .. last : 1 + i - 1 = i BY <1>2
  <2> QED BY <1>2, <2>1, <2>2, SubSeqProperties
<1> PICK s : s = SubSeq(sent, 1, last) OBVIOUS
<1>4. Records(rows, s) BY <1>2, <1>3, Extending
<1>5. /\ table' \o buffer' = rows /\ buffer' \in Seq(Row) /\ Len(buffer') <= 1 /\ DOMAIN buffer' = {}
  BY <1>1, <1>2, ConcatEmptySeq
<1>6. OpenInv' BY <1>1, <1>4, <1>5 DEF OpenInv
<1>7. EndInv'
  <2>1. ~HasEnd(table) BY DEF Reopen, Unfinished, HasEnd
  <2>2. \A i \in DOMAIN sent : sent[i] # "end" BY <2>1 DEF StreamInv, EndInv
  <2>3. \A i \in DOMAIN s : i \in DOMAIN sent /\ s[i] = sent[i] BY <1>2, <1>3
  <2> QED BY <1>1, <2>2, <2>3 DEF EndInv
<1> QED BY <1>1, <1>2, <1>3, <1>5, <1>6, <1>7 DEF StreamInv, StreamTypeOK

(* Every step of the stream keeps the invariant.                            *)
LEMMA StreamStep == StreamInv /\ [StreamNext]_streamVars => StreamInv'
<1> SUFFICES ASSUME StreamInv, [StreamNext]_streamVars PROVE StreamInv' OBVIOUS
<1>1. ASSUME NEW drafts \in Drafts, CommitUnit(drafts) PROVE StreamInv'
  <2>1. "step" \in Kind /\ "end" \in Kind BY DEF Kind
  <2>2. << >> \in Seq(Kind) /\ <<"step">> \in Seq(Kind) /\ <<"step", "end">> \in Seq(Kind)
    BY <2>1
  <2>3. drafts \in Seq(Kind) BY <2>2 DEF Drafts
  <2> QED BY <1>1, <2>3, CommitKeeps
<1>2. CASE UNCHANGED streamVars
  BY <1>2 DEF streamVars, StreamInv, StreamTypeOK, OpenInv, ClosedInv, TailLost, EndInv, HasEnd, Records
<1> QED BY <1>1, <1>2, TokenKeeps, ClosingKeeps, ReopenKeeps DEF StreamNext, Gone

(* So the invariant of the stream always holds.                             *)
LEMMA StreamAlways == StreamSpec => []StreamInv
BY StreamStarts, StreamStep, PTL DEF StreamSpec

(* Events, buffer and table keep their types (push, commit, record).         *)
THEOREM StreamTyped == StreamSpec => []StreamTypeOK
<1>1. StreamInv => StreamTypeOK BY DEF StreamInv
<1> QED BY StreamAlways, <1>1, PTL

(* record() is the stream that the windows got.                             *)
THEOREM RecordExact == StreamSpec => []RecordIsStream
<1>1. StreamInv => RecordIsStream
  <2> SUFFICES ASSUME StreamInv, alive PROVE RecordIsStream BY DEF RecordIsStream
  <2> PICK record : record = table \o buffer OBVIOUS
  <2>1. /\ record \in Seq(Row) /\ Records(record, sent) /\ next = EndOf(record)
        /\ Len(sent) = next
    BY DEF StreamInv, StreamTypeOK, OpenInv
  <2>2. \A i \in DOMAIN record : i \in 1 .. Len(record) /\ record[i].seq \in Nat /\ record[i].first \in Nat
    BY <2>1, RowTypes, SMTT(30)
  <2> QED BY <2>1, <2>2 DEF RecordIsStream, Records, EndOf, Last
<1> QED BY StreamAlways, <1>1, PTL

(* Recovery takes back a tail of tokens of one kind, and nothing else.      *)
THEOREM TokensLost == StreamSpec => CrashLosesTokensOnly
<1>1. StreamInv /\ [StreamNext]_streamVars =>
        [~alive /\ alive' => \E kind \in TokenKind :
            \A i \in DOMAIN sent : i > Len(sent') => sent[i] = kind]_streamVars
  <2> SUFFICES ASSUME StreamInv, StreamNext, ~alive, alive'
               PROVE  \E kind \in TokenKind : \A i \in DOMAIN sent : i > Len(sent') => sent[i] = kind
    OBVIOUS
  <2>1. Reopen BY DEF StreamNext, Token, CommitUnit, Drop, Crash, Gone, streamVars
  <2>2. Len(sent') = EndOf(table)
    BY <2>1, ReopenKeeps DEF Reopen, NextSequence, Last, EndOf, StreamInv
  <2> QED BY <2>2 DEF StreamInv, ClosedInv, TailLost
<1> QED BY StreamAlways, <1>1, PTL DEF StreamSpec, CrashLosesTokensOnly

(* Nothing is delivered after `end`.                                        *)
THEOREM NothingAfterEnd == StreamSpec => EndIsLast
<1>1. StreamInv /\ [StreamNext]_streamVars =>
        [(\E i \in DOMAIN sent : sent[i] = "end") => sent' = sent]_streamVars
  <2> SUFFICES ASSUME StreamInv, StreamNext, NEW i \in DOMAIN sent, sent[i] = "end"
               PROVE  sent' = sent
    OBVIOUS
  <2>1. HasEnd(table) /\ (alive => streamClosed) BY DEF StreamInv, EndInv
  <2>2. ~Reopen /\ \A kind, due : ~Token(kind, due)
    BY <2>1 DEF Reopen, Unfinished, HasEnd, Token
  <2>3. ASSUME NEW drafts, CommitUnit(drafts) PROVE sent' = sent
    <3>1. Numbered(drafts) = << >> BY <2>1, <2>3 DEF CommitUnit, Numbered
    <3>2. sent' = sent \/ Publish(<< >>) BY <2>3, <3>1 DEF CommitUnit
    <3>3. [j \in DOMAIN << >> |-> << >>[j].kind] = << >> OBVIOUS
    <3> QED BY <3>2, <3>3, ConcatEmptySeq DEF Publish, StreamInv, StreamTypeOK
  <2> QED BY <2>2, <2>3 DEF StreamNext, Drop, Crash, Gone, streamVars
<1> QED BY StreamAlways, <1>1, PTL DEF StreamSpec, EndIsLast

-----------------------------------------------------------------------------
(* Sidecar: whoever waits is in the process that the driver watches         *)

(* Whoever looks at the child under the lock, or spawns one, holds the lock,  *)
(* and whoever has found no child keeps others from spawning one.            *)
LockKept ==
    \A c \in Caller :
        /\ place[c] \in {"rechecking", "resting", "spawning"} => starter = c
        /\ place[c] \in {"resting", "spawning"} => child = 0

(* A job about to be sent has its slot, or was answered already.             *)
SlotKept ==
    \A c \in Caller : place[c] = "sending" => c \in jobs \/ answer[c] # "none"

(* As much of the types as is needed.                                        *)
SidecarShape ==
    /\ DOMAIN place = Caller /\ DOMAIN sentTo = Caller /\ DOMAIN answer = Caller
    /\ spawned \in Nat

ServingInv == SidecarShape /\ LockKept /\ SlotKept /\ WaitersServed

(* Nobody waits at first.                                                   *)
LEMMA ServingInit == SidecarInit => ServingInv
BY DEF SidecarInit, ServingInv, SidecarShape, LockKept, SlotKept, WaitersServed

(* On the way to the child.                                                  *)
LEMMA Approaching ==
    ASSUME ServingInv, NEW c \in Caller,
           \/ RunJob(c) \/ LookForChild(c) \/ LockStarting(c) \/ LookAgain(c) \/ Rested(c)
           \/ SpawnChild(c) \/ SpawnFails(c) \/ AddSlot(c) \/ SendStart(c)
    PROVE  ServingInv'
<1> USE CallerAssumption
    DEF ServingInv, SidecarShape, LockKept, SlotKept, WaitersServed, Steps, process, slots,
        cancelling, ending
<1>1. CASE RunJob(c) BY <1>1 DEF RunJob
<1>2. CASE LookForChild(c) BY <1>2 DEF LookForChild
<1>3. CASE LockStarting(c) BY <1>3 DEF LockStarting
<1>4. CASE LookAgain(c) BY <1>4 DEF LookAgain, NoChild
<1>5. CASE Rested(c) BY <1>5 DEF Rested
<1>6. CASE SpawnChild(c) BY <1>6 DEF SpawnChild
<1>7. CASE SpawnFails(c) BY <1>7 DEF SpawnFails
<1>8. CASE AddSlot(c) BY <1>8 DEF AddSlot
<1>9. CASE SendStart(c) BY <1>9 DEF SendStart, Reachable
<1> QED BY <1>1, <1>2, <1>3, <1>4, <1>5, <1>6, <1>7, <1>8, <1>9

(* Waiting, leaving, and the lines of the child.                             *)
LEMMA Selecting ==
    ASSUME ServingInv, NEW c \in Caller,
           \/ HearAnswer(c) \/ PassOnCancel(c) \/ GraceEnds(c) \/ DropRun(c) \/ CancelJob(c)
           \/ Finishes(c) \/ Route(c)
    PROVE  ServingInv'
<1> USE CallerAssumption
    DEF ServingInv, SidecarShape, LockKept, SlotKept, WaitersServed, Steps, Leaves, process,
        slots, cancelling, ending
<1>1. CASE HearAnswer(c) BY <1>1 DEF HearAnswer
<1>2. CASE PassOnCancel(c) BY <1>2 DEF PassOnCancel
<1>3. CASE GraceEnds(c) BY <1>3 DEF GraceEnds
<1>4. CASE DropRun(c) BY <1>4 DEF DropRun
<1>5. CASE CancelJob(c) BY <1>5 DEF CancelJob
<1>6. CASE Finishes(c) BY <1>6 DEF Finishes
<1>7. CASE Route(c) BY <1>7 DEF Route
<1> QED BY <1>1, <1>2, <1>3, <1>4, <1>5, <1>6, <1>7

(* The process, its watcher and dispose.                                     *)
LEMMA Watching ==
    ASSUME ServingInv,
           \/ \E g \in Generation : InputBreaks(g) \/ HealthKills(g) \/ Exits(g)
           \/ Retire \/ CloseDriver \/ KillChild \/ ChildGone \/ UNCHANGED sidecarVars
    PROVE  ServingInv'
<1> USE DEF ServingInv, SidecarShape, LockKept, SlotKept, WaitersServed, process, slots,
            cancelling, ending
<1>1. CASE Retire BY <1>1 DEF Retire
<1>2. CASE \E g \in Generation : InputBreaks(g) \/ HealthKills(g) \/ Exits(g)
  BY <1>2 DEF InputBreaks, HealthKills, Exits
<1>3. CASE CloseDriver \/ KillChild \/ ChildGone \/ UNCHANGED sidecarVars
  BY <1>3 DEF CloseDriver, KillChild, ChildGone, sidecarVars
<1> QED BY <1>1, <1>2, <1>3

(* Every step of the sidecar keeps the invariant.                           *)
LEMMA ServingStep == ServingInv /\ [SidecarNext]_sidecarVars => ServingInv'
BY Approaching, Selecting, Watching DEF SidecarNext, CallerStep, SidecarOver

(* A job that waits for an answer is in the process that the driver watches. *)
THEOREM Served == SidecarSpec => []WaitersServed
<1>1. ServingInv => WaitersServed BY DEF ServingInv
<1> QED BY ServingInit, ServingStep, <1>1, PTL DEF SidecarSpec

(* A caller spawns at most one process, so there are no more than callers.   *)
Past == {c \in Caller : place[c] \in {"registering", "sending", "waiting", "done"}}
SpawnInv == SidecarTypeOK /\ spawned <= Cardinality(Past)

(* Finite sets of callers.                                                   *)
LEMMA CallersCounted ==
    ASSUME NEW S \in SUBSET Caller, NEW R \in SUBSET Caller, S \subseteq R
    PROVE  /\ Cardinality(S) \in Nat /\ Cardinality(R) \in Nat
           /\ Cardinality(S) <= Cardinality(R) /\ Cardinality(R) <= Cardinality(Caller)
           /\ Cardinality(Caller) \in Nat
           /\ \A c \in R \ S : Cardinality(S) + 1 <= Cardinality(R)
<1>0. IsFiniteSet(Caller) BY CallerAssumption
<1>1. IsFiniteSet(S) /\ IsFiniteSet(R) BY <1>0, FS_Subset
<1>2. /\ Cardinality(S) \in Nat /\ Cardinality(R) \in Nat
      /\ Cardinality(Caller) \in Nat
  BY <1>0, <1>1, FS_CardinalityType
<1>3. Cardinality(S) <= Cardinality(R) /\ Cardinality(R) <= Cardinality(Caller)
  BY <1>0, <1>1, FS_Subset
<1>4. ASSUME NEW c \in R \ S PROVE Cardinality(S) + 1 <= Cardinality(R)
  <2>1. Cardinality(S \cup {c}) = Cardinality(S) + 1
    BY <1>1, <1>4, FS_AddElement
  <2>2. Cardinality(S \cup {c}) <= Cardinality(R)
    BY <1>1, <1>4, FS_Subset
  <2> QED BY <2>1, <2>2
<1> QED BY <1>2, <1>3, <1>4

(* Nothing is spawned at first.                                              *)
LEMMA SpawnInit == SidecarInit => SpawnInv
<1> SUFFICES ASSUME SidecarInit PROVE SpawnInv OBVIOUS
<1>1. Past \in SUBSET Caller BY DEF Past
<1>2. Cardinality(Past) \in Nat BY <1>1, CallersCounted
<1>3. SidecarTypeOK BY DEF SidecarInit, SidecarTypeOK, Waypoint
<1> QED BY <1>2, <1>3 DEF SidecarInit, SpawnInv

(* Nobody returns to where processes are spawned.                            *)
LEMMA SpawnStep == SpawnInv /\ [SidecarNext]_sidecarVars => SpawnInv'
<1> SUFFICES ASSUME SpawnInv, [SidecarNext]_sidecarVars PROVE SpawnInv' OBVIOUS
<1> USE DEF process, slots, cancelling, ending
<1>0. SidecarTypeOK /\ spawned \in Nat /\ Past \in SUBSET Caller /\ Past' \in SUBSET Caller
  BY CallersCounted DEF SpawnInv, SidecarTypeOK, Generation, Past
<1>1. CASE UNCHANGED sidecarVars
  BY <1>1 DEF SpawnInv, SidecarTypeOK, Past, sidecarVars
<1>2. ASSUME NEW c \in Caller, SpawnChild(c) PROVE SpawnInv'
  <2>1. /\ place' = [place EXCEPT ![c] = "registering"] /\ place[c] = "spawning"
        /\ spawned' = spawned + 1
    BY <1>2 DEF SpawnChild, Steps
  <2>2. Past \subseteq Past' /\ c \in Past' \ Past
    BY <1>0, <2>1 DEF Past, SidecarTypeOK
  <2>3. spawned' <= Cardinality(Past') /\ spawned' \in Generation
    BY <1>0, <2>1, <2>2, CallersCounted DEF SpawnInv, Generation
  <2>4. SidecarTypeOK'
    BY <1>0, <1>2, <2>3 DEF SpawnChild, Steps, SidecarTypeOK, Waypoint
  <2> QED BY <2>3, <2>4 DEF SpawnInv
<1>3. ASSUME SidecarTypeOK', spawned' = spawned, Past \subseteq Past' PROVE SpawnInv'
  BY <1>0, <1>3, CallersCounted DEF SpawnInv
<1>4. ASSUME NEW c \in Caller,
             \/ RunJob(c) \/ LookForChild(c) \/ LockStarting(c) \/ LookAgain(c)
             \/ Rested(c) \/ SpawnFails(c) \/ AddSlot(c) \/ SendStart(c)
      PROVE  SpawnInv'
  <2>1. SidecarTypeOK'
    BY <1>0, <1>4 DEF RunJob, LookForChild, LockStarting, LookAgain, Rested, SpawnFails,
       AddSlot, SendStart, Steps, SidecarTypeOK, Waypoint
  <2>2. spawned' = spawned /\ Past \subseteq Past'
    BY <1>0, <1>4 DEF RunJob, LookForChild, LockStarting, LookAgain, Rested, SpawnFails,
       AddSlot, SendStart, Steps, SidecarTypeOK, Past
  <2> QED BY <1>3, <2>1, <2>2
<1>5. ASSUME NEW c \in Caller,
             \/ HearAnswer(c) \/ PassOnCancel(c) \/ GraceEnds(c) \/ DropRun(c)
             \/ CancelJob(c) \/ Finishes(c) \/ Route(c)
      PROVE  SpawnInv'
  <2>1. SidecarTypeOK'
    BY <1>0, <1>5 DEF HearAnswer, PassOnCancel, GraceEnds, Condemned, DropRun, Leaves,
       CancelJob, Finishes, Route, Steps, SidecarTypeOK, Waypoint
  <2>2. spawned' = spawned /\ Past \subseteq Past'
    BY <1>0, <1>5 DEF HearAnswer, PassOnCancel, GraceEnds, DropRun,
       CancelJob, Finishes, Route, Steps, SidecarTypeOK, Past
  <2> QED BY <1>3, <2>1, <2>2
<1>6. CASE \/ \E g \in Generation : InputBreaks(g) \/ HealthKills(g) \/ Exits(g)
           \/ Retire \/ CloseDriver \/ KillChild \/ ChildGone \/ SidecarOver
  <2>1. SidecarTypeOK'
    BY <1>0, <1>6 DEF InputBreaks, HealthKills, Exits, Retire, CloseDriver, KillChild,
       ChildGone, SidecarOver, sidecarVars, SidecarTypeOK
  <2>2. spawned' = spawned /\ Past \subseteq Past'
    BY <1>6 DEF InputBreaks, HealthKills, Exits, Retire, CloseDriver, KillChild,
       ChildGone, SidecarOver, sidecarVars, Past
  <2> QED BY <1>3, <2>1, <2>2
<1> QED BY <1>1, <1>2, <1>4, <1>5, <1>6 DEF SidecarNext, CallerStep

(* The driver keeps its types, and spawns no more processes than it has      *)
(* callers (ensure, spawn).                                                  *)
THEOREM SidecarTyped == SidecarSpec => []SidecarTypeOK
<1>1. SpawnInv => SidecarTypeOK BY DEF SpawnInv
<1> QED BY SpawnInit, SpawnStep, <1>1, PTL DEF SidecarSpec

-----------------------------------------------------------------------------
(* The services together: a behaviour of MCServices is one of each service   *)

LEMMA AllStart ==
    ServicesInit =>
        Init /\ StreamInit /\ PumpInit /\ RunsInit /\ SidecarInit /\ McpInit
BY DEF ServicesInit

(* A step is one of a single service, and the others do not notice.          *)
LEMMA OneMoves ==
    [ServicesNext]_servicesVars =>
        /\ [Next]_vars /\ [StreamNext]_streamVars /\ [PumpNext]_pumpVars
        /\ [RunsNext]_runVars /\ [SidecarNext]_sidecarVars /\ [McpNext]_mcpVars
<1> SUFFICES ASSUME [ServicesNext]_servicesVars
             PROVE  /\ [Next]_vars /\ [StreamNext]_streamVars /\ [PumpNext]_pumpVars
                    /\ [RunsNext]_runVars /\ [SidecarNext]_sidecarVars /\ [McpNext]_mcpVars
  OBVIOUS
<1>1. CASE UNCHANGED servicesVars BY <1>1 DEF servicesVars
<1>2. CASE OfApprovals(Next) BY <1>2 DEF OfApprovals
<1>3. CASE OfStream(StreamNext) BY <1>3 DEF OfStream
<1>4. CASE OfPump(PumpNext) BY <1>4 DEF OfPump
<1>5. CASE OfFamily(RunsNext) BY <1>5 DEF OfFamily
<1>6. CASE OfResumable(RunsNext) BY <1>6 DEF OfResumable
<1>7. CASE OfSidecar(SidecarNext) BY <1>7 DEF OfSidecar
<1>8. CASE OfMcp(McpNext) BY <1>8 DEF OfMcp
<1> QED BY <1>1, <1>2, <1>3, <1>4, <1>5, <1>6, <1>7, <1>8 DEF ServicesNext

(* What the instance of all of them that is model-checked does is what each  *)
(* of them does, so the theorems about each hold of it.                      *)
THEOREM Composed ==
    ServicesSpec =>
        /\ Spec /\ StreamSpec /\ PumpSpec /\ RunsSpec /\ McpSpec
        /\ SidecarInit /\ [][SidecarNext]_sidecarVars
BY AllStart, OneMoves, PTL
   DEF ServicesSpec, Spec, StreamSpec, PumpSpec, RunsSpec, McpSpec

(* All the services keep their types.                                        *)
THEOREM ServicesTyped == ServicesSpec => []TypesOK
<1>1. SpawnInv => SidecarTypeOK BY DEF SpawnInv
<1>2. SidecarInit /\ [][SidecarNext]_sidecarVars => []SidecarTypeOK
  BY SpawnInit, SpawnStep, <1>1, PTL
<1>3. /\ TypeOK /\ StreamTypeOK /\ PumpTypeOK /\ RunsTypeOK /\ SidecarTypeOK /\ McpTypeOK
      => TypesOK
  BY DEF TypesOK
<1> QED
  BY Composed, ApprovalsTyped, StreamTyped, PumpTyped, RunsTyped, McpTyped, <1>2, <1>3, PTL

(* What the services promise holds of all of them together: an approval for  *)
(* each admission, no waiter, request, run or process without an owner, and  *)
(* a record that is the stream (approvals.rs, runs.rs, scheduler.rs,         *)
(* events.rs, sidecar.rs, mcp.rs).                                           *)
THEOREM ServicesSafe ==
    ServicesSpec =>
        /\ [](/\ AdmissionNeedsApproval /\ WaitersAreWaiting /\ RecordIsStream
              /\ OnePass /\ NoLostRequest /\ RunsAttended /\ DisposeDrains
              /\ WaitersServed /\ ServersAccounted)
        /\ DisabledNeverAdmitted /\ CrashLosesTokensOnly /\ EndIsLast /\ Promise!Safe
<1>1. ServingInv => WaitersServed BY DEF ServingInv
<1>2. SidecarInit /\ [][SidecarNext]_sidecarVars => []WaitersServed
  BY ServingInit, ServingStep, <1>1, PTL
<1> QED
  BY Composed, Admission, Waiters, RecordExact, Exclusive, NothingLost, Attended, Drains,
     Accounted, Disabled, TokensLost, NothingAfterEnd, Implements, <1>2, PTL
=============================================================================
