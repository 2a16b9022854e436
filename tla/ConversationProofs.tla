------------------------- MODULE ConversationProofs -------------------------
(* Proofs about Conversation, for any number of threads, messages, processes *)
(* and turns: the types, the three promises of the queue, the goal and the   *)
(* wake-ups, and that every step is a step of Mailbox.                       *)
EXTENDS MCConversation, FilesProofs, SequenceTheorems, TLAPS

-----------------------------------------------------------------------------
(* Types *)

TurnRows == [at : {"new", "working", "closing", "ended", "recorded", "over"},
             goal : BOOLEAN, outcome : Outcomes]
Commands == [at : Places, kind : {"user", "queue", "event"},
             batch : Seq(Messages), yield : BOOLEAN,
             command : BOOLEAN, activates : BOOLEAN]

(* A batch is held only on the way to its turn, or back.                     *)
Carries(command) ==
    command.at \notin {"check", "insert", "restore"} => command.batch = <<>>

ThreadsOK == op \in [Threads -> Commands] /\ \A t \in Threads : Carries(op[t])
QueueOK == /\ queue \in Seq(Messages) /\ urgent \in BOOLEAN
           /\ yielded \in BOOLEAN /\ held \in BOOLEAN
           /\ withdrawn \subseteq Messages
TurnsOK == /\ turns \in Seq(TurnRows)
           /\ goal \in {"none", "active", "paused", "stopped", "done", "failed"}
           /\ sent \in Seq(Messages) /\ streak \in Nat
HostOK == /\ waking \in BOOLEAN /\ spawned \in Nat
          /\ shell \in [Shells -> {"none", "running", "exited", "ended",
                                   "reported", "passive"}]
          /\ load \in Loads /\ refused \in Nat /\ restarts \in Nat

(* The type invariant in the parts the steps touch.                          *)
LEMMA TypeParts == TypeOK <=> ThreadsOK /\ QueueOK /\ TurnsOK /\ HostOK
<1>1. queue \in Seq(Messages) => Len(queue) \in Nat
  BY LenProperties
<1>2. {urgent, yielded, held, waking} \subseteq BOOLEAN
        <=> /\ urgent \in BOOLEAN /\ yielded \in BOOLEAN
            /\ held \in BOOLEAN /\ waking \in BOOLEAN
  OBVIOUS
<1> QED
  BY <1>1, <1>2 DEF TypeOK, ThreadsOK, QueueOK, TurnsOK, HostOK, Commands,
                    Carries, TurnRows

(* What the commands start from.                                             *)
LEMMA CommandsMade ==
    /\ Off \in Commands /\ Off.at = "off" /\ Off.batch = <<>> /\ Off.kind = "user"
    /\ \A p \in Places : /\ At(p) \in Commands /\ At(p).at = p
                         /\ At(p).batch = <<>> /\ At(p).kind = "user"
<1>1. <<>> \in Seq(Messages)
  BY EmptySeq
<1> QED
  BY <1>1 DEF Off, At, Commands, Places

(* A command moves one thread.                                               *)
LEMMA Becoming ==
    ASSUME ThreadsOK, NEW t \in Threads, NEW next \in Commands, Carries(next),
           Become(t, next)
    PROVE  /\ ThreadsOK'
           /\ op'[t] = next /\ \A u \in Threads \ {t} : op'[u] = op[u]
BY DEF ThreadsOK, Become

(* A start that goes on changes only its place; one that is undone keeps its *)
(* batch if it came from the queue.                                          *)
LEMMA Onward ==
    ASSUME ThreadsOK, NEW t \in Threads, NEW p \in Places
    PROVE  LET next == [op[t] EXCEPT !.at = p]
           IN /\ next \in Commands /\ next.at = p
              /\ next.batch = op[t].batch /\ next.kind = op[t].kind
              /\ (op[t].batch = <<>> \/ p \in {"check", "insert", "restore"})
                   => Carries(next)
BY DEF ThreadsOK, Commands, Carries

(* At first no thread does anything.                                         *)
LEMMA ThreadsInit == Init => ThreadsOK
BY CommandsMade DEF Init, ThreadsOK, Carries

(* Every command leaves its thread with a command, and a batch where one is  *)
(* due.                                                                      *)
LEMMA ThreadsStep == TypeOK /\ [Next]_vars => ThreadsOK'
<1> SUFFICES ASSUME TypeOK, [Next]_vars PROVE ThreadsOK'
  OBVIOUS
<1>t. ThreadsOK /\ QueueOK /\ TurnsOK /\ HostOK
  BY TypeParts
<1>1. ASSUME NEW t \in Threads, Leave(t) PROVE ThreadsOK'
  BY <1>t, <1>1, Becoming, CommandsMade DEF Leave, Carries
<1>2. ASSUME NEW t \in Threads, NEW p \in Places \ {"check"}, Become(t, At(p))
      PROVE  ThreadsOK'
  BY <1>t, <1>2, Becoming, CommandsMade DEF Carries
<1>3. ASSUME NEW t \in Threads, NEW b \in BOOLEAN,
             Become(t, [At("check") EXCEPT !.command = b, !.activates = b])
      PROVE  ThreadsOK'
  <2>1. [At("check") EXCEPT !.command = b, !.activates = b] \in Commands
    BY CommandsMade DEF Places, Commands
  <2>2. Carries([At("check") EXCEPT !.command = b, !.activates = b])
    BY CommandsMade DEF Places, Commands, Carries
  <2> QED
    BY <1>t, <1>3, <2>1, <2>2, Becoming
<1>4. ASSUME NEW t \in Threads, Undo(t) PROVE ThreadsOK'
  <2>1. CASE op[t].kind = "queue"
    <3>1. Become(t, [op[t] EXCEPT !.at = "restore"])
      BY <1>4, <2>1 DEF Undo
    <3>2. "restore" \in Places
      BY DEF Places
    <3>3. /\ [op[t] EXCEPT !.at = "restore"] \in Commands
          /\ Carries([op[t] EXCEPT !.at = "restore"])
      BY <1>t, <3>2, Onward
    <3> QED
      BY <1>t, <3>1, <3>3, Becoming
  <2>2. CASE op[t].kind # "queue"
    BY <1>1, <1>4, <2>2 DEF Undo, Leave
  <2> QED
    BY <2>1, <2>2
<1>5. /\ Take \in Commands /\ Carries(Take)
  <2>1. "take" \in Places
    BY DEF Places
  <2>2. At("take") \in Commands /\ At("take").at = "take" /\ At("take").batch = <<>>
    BY <2>1, CommandsMade
  <2> QED
    BY <2>2, <1>t DEF Take, Commands, Carries, QueueOK
<1>6. ASSUME NEW t \in Threads, CheckIdle(t) PROVE ThreadsOK'
  <2>1. CASE Become(t, [op[t] EXCEPT !.at = "insert"])
    <3>1. "insert" \in Places
      BY DEF Places
    <3>2. /\ [op[t] EXCEPT !.at = "insert"] \in Commands
          /\ Carries([op[t] EXCEPT !.at = "insert"])
      BY <1>t, <3>1, Onward
    <3> QED
      BY <1>t, <2>1, <3>2, Becoming
  <2> QED
    BY <1>1, <1>4, <1>6, <2>1 DEF CheckIdle
<1>7. ASSUME NEW t \in Threads, TakeQueue(t) PROVE ThreadsOK'
  <2>1. CASE queue = <<>>
    BY <1>1, <1>7, <2>1 DEF TakeQueue, Leave
  <2>2. CASE queue # <<>>
    <3> DEFINE next == [op[t] EXCEPT !.at = "check", !.batch = queue, !.yield = yielded]
    <3>1. Become(t, next)
      BY <1>7, <2>2 DEF TakeQueue
    <3>2. next \in Commands /\ Carries(next)
      BY <1>t DEF ThreadsOK, Commands, QueueOK, Carries, Places
    <3> QED
      BY <1>t, <3>1, <3>2, Becoming
  <2> QED
    BY <2>1, <2>2
<1>8. ASSUME NEW t \in Threads, WakeBegins(t) PROVE ThreadsOK'
  <2>1. "wake" \in Places
    BY DEF Places
  <2>2. At("wake") \in Commands /\ At("wake").batch = <<>>
    BY <2>1, CommandsMade
  <2>3. /\ [At("wake") EXCEPT !.kind = "event"] \in Commands
        /\ Carries([At("wake") EXCEPT !.kind = "event"])
    BY <2>2 DEF Commands, Carries
  <2> QED
    BY <1>t, <1>8, <2>3, Becoming DEF WakeBegins
<1>9. ASSUME NEW t \in Threads, Wake(t) PROVE ThreadsOK'
  <2>1. CASE Become(t, [op[t] EXCEPT !.at = "check"])
    <3>1. "check" \in Places
      BY DEF Places
    <3>2. /\ [op[t] EXCEPT !.at = "check"] \in Commands
          /\ Carries([op[t] EXCEPT !.at = "check"])
      BY <1>t, <3>1, Onward
    <3> QED
      BY <1>t, <2>1, <3>2, Becoming
  <2> QED
    BY <1>1, <1>9, <2>1 DEF Wake
<1>10. CASE \E t \in Threads :
              \/ \E command \in BOOLEAN : Send(t, command)
              \/ ContinueGoal(t) \/ StopGoal(t) \/ WriteStopped(t)
  <2>1. {"stop", "check"} \subseteq Places
    BY DEF Places
  <2> QED
    BY <1>1, <1>2, <1>3, <1>10, <2>1 DEF Send, ContinueGoal, StopGoal, WriteStopped
<1>11. CASE \E t \in Threads :
              CheckIdle(t) \/ CommitStart(t) \/ RefuseStart(t)
  BY <1>1, <1>4, <1>6, <1>11 DEF CommitStart, RefuseStart
<1>12. CASE \E t \in Threads :
              \/ \E m \in Messages : QueueAdd(t, m)
              \/ QueueFlush(t) \/ Look(t) \/ TakeQueue(t) \/ RestoreQueue(t)
              \/ PollSends(t)
  <2>1. "look" \in Places \ {"check"}
    BY DEF Places
  <2>2. ASSUME NEW t \in Threads, Become(t, Take) PROVE ThreadsOK'
    BY <1>t, <1>5, <2>2, Becoming
  <2>3. ASSUME NEW t \in Threads, Look(t) PROVE ThreadsOK'
    BY <1>1, <2>2, <2>3 DEF Look, Leave
  <2> QED
    BY <1>1, <1>2, <1>7, <1>12, <2>1, <2>2, <2>3
    DEF QueueAdd, QueueFlush, RestoreQueue, PollSends
<1>13. CASE \E t \in Threads : WakeBegins(t) \/ Wake(t)
  BY <1>8, <1>9, <1>13
<1>14. CASE UNCHANGED op
  BY <1>t, <1>14 DEF ThreadsOK
<1>15. CASE Restart
  BY <1>15, CommandsMade DEF Restart, ThreadsOK, Carries
<1> QED
  BY <1>10, <1>11, <1>12, <1>13, <1>14, <1>15
  DEF Next, vars, PollGivesUp, QueueRemove, Prepare, Safepoint, Record, TurnEnded,
      LastRound, EndTurn, StartShell, ShellExits, ShellHeard

-----------------------------------------------------------------------------
(* A turn that moves on leaves the others where they are.                    *)
LEMMA TurnMoves ==
    ASSUME TurnsOK, NEW i \in DOMAIN turns, NEW next \in TurnRows,
           turns' = [turns EXCEPT ![i] = next]
    PROVE  /\ turns' \in Seq(TurnRows) /\ DOMAIN turns' = DOMAIN turns
           /\ turns'[i] = next
           /\ \A j \in DOMAIN turns \ {i} : turns'[j] = turns[j]
<1>1. turns \in Seq(TurnRows) /\ DOMAIN turns = 1 .. Len(turns)
  BY LenProperties DEF TurnsOK
<1>2. turns' \in Seq(TurnRows) /\ Len(turns') = Len(turns)
  BY <1>1, ExceptSeq
<1>3. DOMAIN turns' = 1 .. Len(turns')
  BY <1>2, LenProperties
<1> QED
  BY <1>1, <1>2, <1>3

(* The places a turn goes through.                                           *)
LEMMA TurnPlaces ==
    ASSUME TurnsOK, NEW i \in DOMAIN turns
    PROVE  /\ turns[i] \in TurnRows /\ Over \in TurnRows /\ Over.at = "over"
           /\ \A a \in {"new", "working", "closing", "ended", "recorded", "over"} :
                     /\ [turns[i] EXCEPT !.at = a] \in TurnRows
                     /\ [turns[i] EXCEPT !.at = a].at = a
                     /\ [turns[i] EXCEPT !.at = a].goal = turns[i].goal
                     /\ [turns[i] EXCEPT !.at = a].outcome = turns[i].outcome
<1>1. turns \in Seq(TurnRows) /\ DOMAIN turns = 1 .. Len(turns)
  BY LenProperties DEF TurnsOK
<1>2. turns[i] \in TurnRows
  BY <1>1, ElementOfSeq
<1> QED
  BY <1>2 DEF TurnRows, Over, Outcomes

(* What each step of a turn does to the turns.                               *)
LEMMA TurnSteps ==
    ASSUME TypeOK, NEW i \in DOMAIN turns
    PROVE  /\ Prepare(i) => \E r \in TurnRows :
                turns' = [turns EXCEPT ![i] = r] /\ r.at = "working"
           /\ Safepoint(i) => \E r \in TurnRows :
                turns' = [turns EXCEPT ![i] = r] /\ r.at = "closing"
           /\ \A status : LastRound(i, status) => \E r \in TurnRows :
                turns' = [turns EXCEPT ![i] = r] /\ r.at = "closing"
           /\ \A outcome \in Outcomes : EndTurn(i, outcome) => \E r \in TurnRows :
                turns' = [turns EXCEPT ![i] = r] /\ r.at = "ended"
           /\ Record(i) => \E r \in TurnRows :
                turns' = [turns EXCEPT ![i] = r] /\ r.at = "recorded"
           /\ TurnEnded(i) => turns' = [turns EXCEPT ![i] = Over]
<1>t. TurnsOK /\ turns[i] \in TurnRows
  BY TypeParts, TurnPlaces
<1>1. ASSUME NEW a \in {"new", "working", "closing", "ended", "recorded", "over"},
             turns' = [turns EXCEPT ![i].at = a]
      PROVE  \E r \in TurnRows : turns' = [turns EXCEPT ![i] = r] /\ r.at = a
  <2>1. turns' = [turns EXCEPT ![i] = [turns[i] EXCEPT !.at = a]]
    BY <1>1
  <2> QED
    BY <1>t, <2>1, TurnPlaces
<1>2. ASSUME Prepare(i)
      PROVE  \E r \in TurnRows : turns' = [turns EXCEPT ![i] = r] /\ r.at = "working"
  <2> DEFINE r == [turns[i] EXCEPT !.at = "working", !.goal = (goal = "active")]
  <2>1. turns' = [turns EXCEPT ![i] = r]
    BY <1>2 DEF Prepare
  <2>2. r \in TurnRows /\ r.at = "working"
    BY <1>t DEF TurnRows
  <2> QED
    BY <2>1, <2>2
<1>3. ASSUME NEW outcome \in Outcomes, EndTurn(i, outcome)
      PROVE  \E r \in TurnRows : turns' = [turns EXCEPT ![i] = r] /\ r.at = "ended"
  <2> DEFINE r == [turns[i] EXCEPT !.at = "ended", !.outcome = outcome]
  <2>1. turns' = [turns EXCEPT ![i] = r]
    BY <1>3 DEF EndTurn
  <2>2. r \in TurnRows /\ r.at = "ended"
    BY <1>t DEF TurnRows
  <2> QED
    BY <2>1, <2>2
<1> QED
  BY <1>1, <1>2, <1>3 DEF Safepoint, LastRound, Record, TurnEnded, Move

(* A start appends its turn, which is new or at work.                        *)
LEMMA InsertTurn ==
    ASSUME TypeOK, NEW t \in Threads, Insert(op[t])
    PROVE  /\ turns' \in Seq(TurnRows)
           /\ \A i \in DOMAIN turns : i \in DOMAIN turns' /\ turns'[i] = turns[i]
           /\ \E i \in DOMAIN turns' : turns'[i].at \in {"new", "working"}
<1>1. Turn(op[t].command) \in TurnRows
  BY TypeParts DEF ThreadsOK, Commands, Turn, TurnRows, Outcomes
<1>2. turns \in Seq(TurnRows) /\ turns' = Append(turns, Turn(op[t].command))
  BY TypeParts DEF TurnsOK, Insert
<1>3. /\ turns' \in Seq(TurnRows) /\ Len(turns') = Len(turns) + 1
      /\ \A i \in 1 .. Len(turns) : turns'[i] = turns[i]
      /\ turns'[Len(turns) + 1] = Turn(op[t].command)
  BY <1>1, <1>2, AppendProperties
<1>4. /\ DOMAIN turns = 1 .. Len(turns) /\ DOMAIN turns' = 1 .. Len(turns')
      /\ Len(turns) \in Nat
  BY <1>2, <1>3, LenProperties
<1>5. Turn(op[t].command).at \in {"new", "working"}
  BY DEF Turn
<1>6. Len(turns) + 1 \in DOMAIN turns'
  BY <1>3, <1>4
<1> QED
  BY <1>3, <1>4, <1>5, <1>6

(* The rest of the types hold at first.                                      *)
LEMMA TurnsStart == Init => TurnsOK /\ QueueOK /\ HostOK
<1>1. <<>> \in Seq(TurnRows) /\ <<>> \in Seq(Messages)
  BY EmptySeq
<1>2. Init => TurnsOK
  BY <1>1 DEF Init, TurnsOK
<1>3. Init => QueueOK
  BY <1>1 DEF Init, QueueOK
<1>4. ASSUME Init PROVE HostOK
  <2>1. /\ waking = FALSE /\ spawned = 0 /\ shell = [s \in Shells |-> "none"]
        /\ load \in Loads /\ refused = 0 /\ restarts = 0
    BY <1>4 DEF Init
  <2> QED
    BY <2>1 DEF HostOK
<1> QED
  BY <1>2, <1>3, <1>4

(* Only a start, a turn, stop_goal and a restart touch the conversation's    *)
(* row.                                                                      *)
LEMMA TurnsStep == TypeOK /\ [Next]_vars => TurnsOK'
<1> SUFFICES ASSUME TypeOK, [Next]_vars PROVE TurnsOK'
  OBVIOUS
<1>t. ThreadsOK /\ QueueOK /\ TurnsOK /\ HostOK
  BY TypeParts
<1>1. CASE UNCHANGED row
  BY <1>t, <1>1 DEF row, TurnsOK
<1>2. ASSUME NEW t \in Threads, Insert(op[t]) PROVE TurnsOK'
  <2>1. op[t].batch \in Seq(Messages)
    BY <1>t DEF ThreadsOK, Commands
  <2>2. sent' \in Seq(Messages)
    BY <1>t, <1>2, <2>1, ConcatHolds DEF Insert, TurnsOK
  <2>3. turns' \in Seq(TurnRows)
    BY <1>2, InsertTurn
  <2> QED
    BY <1>t, <1>2, <2>2, <2>3 DEF Insert, TurnsOK
<1>3. ASSUME NEW i \in DOMAIN turns,
             NEW r \in TurnRows, turns' = [turns EXCEPT ![i] = r]
      PROVE  turns' \in Seq(TurnRows)
  BY <1>t, <1>3, TurnMoves
<1>4. ASSUME NEW i \in DOMAIN turns,
             \/ Prepare(i) \/ Safepoint(i) \/ Record(i) \/ TurnEnded(i)
             \/ \E status \in {"done", "stopped", "paused"} : LastRound(i, status)
             \/ \E outcome \in Outcomes : EndTurn(i, outcome)
      PROVE  TurnsOK'
  <2>1. \E r \in TurnRows : turns' = [turns EXCEPT ![i] = r]
    <3>1. Over \in TurnRows
      BY <1>t, TurnPlaces
    <3> QED
      BY <1>4, <3>1, TurnSteps
  <2>2. turns' \in Seq(TurnRows)
    BY <1>3, <2>1
  <2>3. \A outcome \in Outcomes : Settled(outcome)
           \in {"none", "active", "paused", "stopped", "done", "failed"}
    BY <1>t DEF Settled, TurnsOK, Outcomes
  <2>4. turns[i].outcome \in Outcomes
    BY <1>t, TurnPlaces DEF TurnRows
  <2>5. goal' \in {"none", "active", "paused", "stopped", "done", "failed"}
    BY <1>t, <1>4, <2>3, <2>4
    DEF Prepare, Safepoint, Record, TurnEnded, LastRound, EndTurn, TurnsOK
  <2>6. UNCHANGED <<sent, streak>>
    BY <1>4 DEF Prepare, Safepoint, Record, TurnEnded, LastRound, EndTurn
  <2> QED
    BY <1>t, <2>2, <2>5, <2>6 DEF TurnsOK
<1>5. CASE Restart
  <2>1. Over \in TurnRows
    BY DEF Over, TurnRows, Outcomes
  <2>2. turns \in Seq(TurnRows) /\ DOMAIN turns = 1 .. Len(turns) /\ Len(turns) \in Nat
    BY <1>t, LenProperties DEF TurnsOK
  <2>3. turns' = [i \in 1 .. Len(turns) |-> Over]
    BY <1>5, <2>2 DEF Restart
  <2>4. turns' \in Seq(TurnRows)
    BY <2>1, <2>2, <2>3
  <2> QED
    BY <1>t, <1>5, <2>4 DEF Restart, TurnsOK
<1>6. CASE \E t \in Threads : CheckIdle(t) \/ CommitStart(t)
  BY <1>1, <1>2, <1>6 DEF CheckIdle, CommitStart
<1>7. CASE \E t \in Threads : WriteStopped(t)
  BY <1>t, <1>7 DEF WriteStopped, TurnsOK
<1> QED
  BY <1>1, <1>4, <1>5, <1>6, <1>7
  DEF Next, vars, row, Send, ContinueGoal, StopGoal, RefuseStart, QueueAdd, QueueFlush,
      Look, TakeQueue, RestoreQueue, PollSends, WakeBegins, Wake, PollGivesUp,
      QueueRemove, StartShell, ShellExits, ShellHeard
(* Messages come into the queue by queue_add and by a batch put back.        *)
LEMMA QueueStep == TypeOK /\ [Next]_vars => QueueOK'
<1> SUFFICES ASSUME TypeOK, [Next]_vars PROVE QueueOK'
  OBVIOUS
<1>t. ThreadsOK /\ QueueOK /\ TurnsOK /\ HostOK
  BY TypeParts
<1>1. CASE UNCHANGED <<inbox, withdrawn>>
  BY <1>t, <1>1 DEF inbox, QueueOK
<1>2. ASSUME NEW q \in Seq(Messages), NEW r \in BOOLEAN, NEW y \in BOOLEAN,
             SetQueue(q, r, y), held' \in BOOLEAN, withdrawn' \subseteq Messages
      PROVE  QueueOK'
  BY <1>2 DEF SetQueue, QueueOK
<1>3. ASSUME NEW t \in Threads, NEW m \in Messages, QueueAdd(t, m)
      PROVE  QueueOK'
  <2>1. Append(queue, m) \in Seq(Messages)
    BY <1>t, AppendHolds DEF QueueOK
  <2> QED
    BY <1>t, <1>2, <1>3, <2>1 DEF QueueAdd, QueueOK
<1>4. ASSUME NEW t \in Threads, QueueFlush(t) PROVE QueueOK'
  BY <1>t, <1>2, <1>4 DEF QueueFlush, QueueOK
<1>5. ASSUME NEW t \in Threads, TakeQueue(t) PROVE QueueOK'
  <2>1. <<>> \in Seq(Messages)
    BY EmptySeq
  <2> QED
    BY <1>t, <1>2, <1>5, <2>1 DEF TakeQueue, QueueOK
<1>6. ASSUME NEW t \in Threads, RestoreQueue(t) PROVE QueueOK'
  <2>1. op[t].batch \in Seq(Messages) /\ op[t].yield \in BOOLEAN
    BY <1>t DEF ThreadsOK, Commands
  <2>2. Restored(t) \in Seq(Messages)
    BY <1>t, <2>1, ConcatHolds DEF Restored, QueueOK
  <2> QED
    BY <1>t, <1>2, <1>6, <2>1, <2>2 DEF RestoreQueue, QueueOK
<1>7. ASSUME NEW m \in Messages, QueueRemove(m) PROVE QueueOK'
  <2>1. PICK i \in DOMAIN queue :
          LET rest == RemoveAt(queue, i)
          IN SetQueue(rest, urgent /\ rest # <<>>, yielded)
    BY <1>7 DEF QueueRemove
  <2>2. RemoveAt(queue, i) \in Seq(Messages)
    <3>1. queue \in Seq(Messages) /\ DOMAIN queue = 1 .. Len(queue) /\ Len(queue) \in Nat
      BY <1>t, LenProperties DEF QueueOK
    <3>2. \A j \in 1 .. Len(queue) : queue[j] \in Messages
      BY <3>1, ElementOfSeq
    <3>3. /\ SubSeq(queue, 1, i - 1) \in Seq(Messages)
          /\ SubSeq(queue, i + 1, Len(queue)) \in Seq(Messages)
      BY <3>1, <3>2, SubSeqProperties
    <3> QED
      BY <3>3, ConcatHolds DEF RemoveAt
  <2>3. (urgent /\ RemoveAt(queue, i) # <<>>) \in BOOLEAN
    OBVIOUS
  <2>4. withdrawn' \subseteq Messages /\ held' \in BOOLEAN
    BY <1>t, <1>7 DEF QueueRemove, QueueOK
  <2> QED
    BY <1>t, <1>2, <2>1, <2>2, <2>3, <2>4 DEF QueueOK
<1>8. ASSUME NEW i \in DOMAIN turns, Safepoint(i) \/ TurnEnded(i) PROVE QueueOK'
  <2>1. CASE Safepoint(i)
    BY <1>t, <2>1 DEF Safepoint, QueueOK
  <2>2. CASE TurnEnded(i)
    <3> DEFINE ok == turns[i].outcome = "ok"
    <3>1. SetQueue(queue, ok /\ urgent, ok /\ yielded)
      BY <2>2 DEF TurnEnded
    <3>2. held' \in BOOLEAN /\ withdrawn' \subseteq Messages
      BY <1>t, <2>2 DEF TurnEnded, QueueOK
    <3>3. (ok /\ urgent) \in BOOLEAN /\ (ok /\ yielded) \in BOOLEAN
      OBVIOUS
    <3> HIDE DEF ok
    <3> QED
      BY <1>t, <1>2, <3>1, <3>2, <3>3 DEF QueueOK
  <2> QED
    BY <1>8, <2>1, <2>2
<1>9. CASE Restart
  <2>1. Waiting \subseteq Messages
    <3>1. \A s \in Seq(Messages) : ToSet(s) \subseteq Messages
      BY LenProperties, ElementOfSeq DEF ToSet
    <3>2. \A t \in Threads : op[t].batch \in Seq(Messages)
      BY <1>t DEF ThreadsOK, Commands
    <3> QED
      BY <1>t, <3>1, <3>2 DEF Waiting, Taken, QueueOK
  <2>2. <<>> \in Seq(Messages)
    BY EmptySeq
  <2> QED
    BY <1>t, <1>9, <2>1, <2>2 DEF Restart, QueueOK
<1> QED
  BY <1>1, <1>3, <1>4, <1>5, <1>6, <1>7, <1>8, <1>9
  DEF Next, vars, Send, ContinueGoal, StopGoal, WriteStopped, CheckIdle, CommitStart,
      RefuseStart, Look, PollSends, WakeBegins, Wake, PollGivesUp, Prepare, Record,
      LastRound, EndTurn, StartShell, ShellExits, ShellHeard

(* The marks of the host and the states of the processes.                    *)
LEMMA HostStep == TypeOK /\ [Next]_vars => HostOK'
<1> SUFFICES ASSUME TypeOK, [Next]_vars PROVE HostOK'
  OBVIOUS
<1>t. ThreadsOK /\ QueueOK /\ TurnsOK /\ HostOK
  BY TypeParts
<1>1. CASE UNCHANGED <<spawned, watch, used>>
  BY <1>t, <1>1 DEF watch, used, HostOK
<1>2. CASE \E t \in Threads : RefuseStart(t) \/ PollSends(t) \/ WakeBegins(t)
  <2>1. CASE \E t \in Threads : RefuseStart(t)
    BY <1>t, <2>1 DEF RefuseStart, HostOK, watch
  <2>2. CASE \E t \in Threads : PollSends(t)
    BY <1>t, <2>2 DEF PollSends, HostOK, watch, used
  <2>3. CASE \E t \in Threads : WakeBegins(t)
    BY <1>t, <2>3 DEF WakeBegins, HostOK, used
  <2> QED
    BY <1>2, <2>1, <2>2, <2>3
<1>3. CASE PollGivesUp \/ Restart
  <2>1. CASE PollGivesUp
    BY <1>t, <2>1 DEF PollGivesUp, HostOK, watch, used
  <2>2. CASE Restart
    <3>1. /\ waking' = FALSE /\ spawned' = 0 /\ load' = load /\ refused' = refused
          /\ restarts' = restarts + 1
          /\ shell' = [s \in Shells |-> IF shell[s] = "none" THEN "none" ELSE "passive"]
      BY <2>2 DEF Restart
    <3>2. shell' \in [Shells -> {"none", "running", "exited", "ended",
                                 "reported", "passive"}]
      BY <3>1
    <3>3. waking' \in BOOLEAN
      BY <3>1
    <3>4. spawned' \in Nat /\ load' \in Loads /\ refused' \in Nat /\ restarts' \in Nat
      BY <1>t, <3>1 DEF HostOK
    <3> QED
      BY <3>2, <3>3, <3>4 DEF HostOK
  <2> QED
    BY <1>3, <2>1, <2>2
<1>4. CASE \E t \in Threads : Wake(t)
  BY <1>t, <1>4 DEF Wake, Tell, HostOK, used
<1>5. ASSUME NEW i \in DOMAIN turns, TurnEnded(i) PROVE HostOK'
  <2>1. WakesAgain \in BOOLEAN
    BY DEF WakesAgain
  <2>2. spawned' \in Nat
    BY <1>t, <1>5 DEF TurnEnded, HostOK
  <2>3. waking' \in BOOLEAN
    BY <1>t, <1>5, <2>1 DEF TurnEnded, HostOK
  <2> QED
    BY <1>t, <1>5, <2>2, <2>3 DEF TurnEnded, HostOK, used
<1>6. ASSUME NEW s \in Shells,
             ShellExits(s) \/ ShellHeard(s)
               \/ \E i \in DOMAIN turns : StartShell(i, s)
      PROVE  HostOK'
  BY <1>t, <1>6 DEF ShellExits, ShellHeard, StartShell, HostOK, used
<1> QED
  BY <1>1, <1>2, <1>3, <1>4, <1>5, <1>6
  DEF Next, vars, Send, ContinueGoal, StopGoal, WriteStopped, CheckIdle, CommitStart,
      QueueAdd, QueueFlush, Look, TakeQueue, RestoreQueue, QueueRemove, Prepare,
      Safepoint, Record, LastRound, EndTurn

(* Together: the type invariant, at first and after every step.             *)
LEMMA TypeInit == Init => TypeOK
BY ThreadsInit, TurnsStart, TypeParts

LEMMA TypeStep == TypeOK /\ [Next]_vars => TypeOK'
<1> SUFFICES ASSUME TypeOK, [Next]_vars PROVE TypeOK'
  OBVIOUS
<1>1. ThreadsOK' /\ TurnsOK' /\ QueueOK' /\ HostOK'
  BY ThreadsStep, TurnsStep, QueueStep, HostStep
<1>2. (TypeOK <=> ThreadsOK /\ QueueOK /\ TurnsOK /\ HostOK)'
  BY TypeParts, PTL
<1> QED
  BY <1>1, <1>2

(* Type correctness for every load, and every thread holds a batch only on   *)
(* its way to a turn or back (chat.rs, queue.rs, wake.rs).                   *)
THEOREM Typed == Spec => []TypeOK
BY TypeInit, TypeStep, PTL DEF Spec

-----------------------------------------------------------------------------
(* What is queued, the goal and the processes that ended are looked after    *)

(* The queue is marked, held back or asked to yield, only while something is *)
(* in it, unless the person took that out; only what came from the queue     *)
(* goes back to it, and it is never empty; a wake-up is an event.            *)
Marks ==
    /\ held \/ yielded => queue # <<>> \/ withdrawn # {}
    /\ \A t \in Threads :
         /\ op[t].at \in {"take", "restore"} => op[t].kind = "queue"
         /\ op[t].at = "wake" => op[t].kind = "event"
         /\ op[t].kind = "queue" /\ op[t].at \in {"check", "insert", "restore"}
              => op[t].batch # <<>>

(* Somebody who has yet to look at the queue, or whose end will.             *)
Looking(t) == op[t].at \in {"look", "take"}
Running(i) == turns[i].at # "over"
Sending ==
    \/ spawned > 0
    \/ \E t \in Threads : Looking(t)
    \/ \E i \in DOMAIN turns : Running(i)

QueueKept == queue # <<>> => held \/ Sending

(* Somebody who works on the goal, or whose end is still to be recorded; or a*)
(* start that is under way with the messages the goal gave way to.           *)
Unrecorded(i) == turns[i].at \in {"new", "working", "closing", "ended"}
Starting(t) == op[t].kind = "queue" /\ op[t].at \in {"check", "insert", "restore"}
Pursued ==
    \/ withdrawn # {} \/ queue # <<>>
    \/ \E i \in DOMAIN turns : Unrecorded(i)
    \/ \E t \in Threads : Starting(t)

GoalKept == goal = "active" => Pursued

Served == Marks /\ QueueKept /\ GoalKept /\ WakeServed

(* At first there is nothing to look after.                                  *)
LEMMA ServedInit == Init => Served
BY CommandsMade DEF Init, Served, Marks, QueueKept, GoalKept, WakeServed

(* One thread moves and nothing else is touched: it must not have been       *)
(* looking at the queue, starting a turn from it or waking.                  *)
LEMMA MovesAside ==
    ASSUME TypeOK, Served, NEW t \in Threads, NEW next \in Commands, Carries(next),
           Become(t, next), UNCHANGED <<inbox, withdrawn, spawned, watch, turns>>,
           goal' = goal \/ goal' # "active",
           op[t].at \notin {"look", "take", "wake"}, ~Starting(t),
           next.at \notin {"take", "restore", "wake"}, next.kind # "queue"
    PROVE  Served'
<1>1. op'[t] = next /\ \A u \in Threads \ {t} : op'[u] = op[u]
  BY Becoming, TypeParts
<1> USE <1>1 DEF inbox, watch
<1>2. Marks'
  BY DEF Served, Marks
<1>3. QueueKept'
  BY DEF Served, QueueKept, Sending, Looking, Running
<1>4. GoalKept'
  BY DEF Served, GoalKept, Pursued, Unrecorded, Starting
<1>5. WakeServed'
  BY DEF Served, WakeServed
<1> QED
  BY <1>2, <1>3, <1>4, <1>5 DEF Served

(* A new turn works on whatever goal is active, and its end will look at the *)
(* queue and at the processes.                                               *)
LEMMA InsertServes ==
    ASSUME TypeOK, Served, NEW t \in Threads, Insert(op[t]), Leave(t),
           op[t].at \in {"check", "insert"},
           UNCHANGED <<inbox, withdrawn, spawned, watch>>
    PROVE  Served'
<1>1. op'[t] = Off /\ \A u \in Threads \ {t} : op'[u] = op[u]
  BY Becoming, TypeParts, CommandsMade DEF Leave, Carries
<1>2. /\ \A i \in DOMAIN turns : i \in DOMAIN turns' /\ turns'[i] = turns[i]
      /\ \E i \in DOMAIN turns' : turns'[i].at \in {"new", "working"}
  BY InsertTurn
<1>3. Marks'
  BY <1>1, CommandsMade DEF Served, Marks, inbox
<1>4. QueueKept' /\ GoalKept' /\ WakeServed'
  BY <1>2 DEF QueueKept, Sending, Running, GoalKept, Pursued, Unrecorded, WakeServed
<1> QED
  BY <1>3, <1>4 DEF Served

(* A start from the queue that was refused is on its way to put the batch    *)
(* back; another one is over.                                                *)
LEMMA UndoServes ==
    ASSUME TypeOK, Served, NEW t \in Threads, Undo(t),
           op[t].at \in {"check", "insert"},
           UNCHANGED <<turns, goal, inbox, withdrawn, spawned, watch>>
    PROVE  Served'
<1>1. CASE op[t].kind = "queue"
  <2> DEFINE next == [op[t] EXCEPT !.at = "restore"]
  <2>1. /\ next \in Commands /\ next.at = "restore" /\ Carries(next)
        /\ next.batch = op[t].batch /\ next.kind = op[t].kind
    BY Onward, TypeParts DEF Places
  <2>2. Become(t, next)
    BY <1>1 DEF Undo
  <2> HIDE DEF next
  <2>3. op'[t] = next /\ \A u \in Threads \ {t} : op'[u] = op[u]
    BY <2>1, <2>2, Becoming, TypeParts
  <2> USE <1>1, <2>1, <2>3 DEF inbox, watch
  <2>4. Marks'
    BY DEF Served, Marks
  <2>5. QueueKept'
    BY DEF Served, QueueKept, Sending, Looking, Running
  <2>6. GoalKept'
    BY DEF Served, GoalKept, Pursued, Unrecorded, Starting
  <2>7. WakeServed'
    BY DEF Served, WakeServed
  <2> QED
    BY <2>4, <2>5, <2>6, <2>7 DEF Served
<1>2. CASE op[t].kind # "queue"
  <2>1. Become(t, Off)
    BY <1>2 DEF Undo
  <2> QED
    BY <1>2, <2>1, MovesAside, CommandsMade DEF Carries, Starting
<1> QED
  BY <1>1, <1>2

(* Starts and stops.                                                         *)
LEMMA StartsServe ==
    ASSUME TypeOK, Served, NEW t \in Threads,
           \/ \E command \in BOOLEAN : Send(t, command)
           \/ ContinueGoal(t) \/ StopGoal(t) \/ WriteStopped(t)
           \/ CheckIdle(t) \/ CommitStart(t) \/ RefuseStart(t)
    PROVE  Served'
<1> DEFINE Check(b) == [At("check") EXCEPT !.command = b, !.activates = b]
<1>1. ASSUME NEW b \in BOOLEAN, Become(t, Check(b)), Free(t),
             UNCHANGED <<row, inbox, withdrawn, spawned, watch>>
      PROVE  Served'
  <2>1. "check" \in Places
    BY DEF Places
  <2>2. /\ Check(b) \in Commands /\ Carries(Check(b))
        /\ Check(b).at = "check" /\ Check(b).kind = "user"
    <3>1. /\ At("check") \in Commands /\ At("check").at = "check"
          /\ At("check").kind = "user"
      BY <2>1, CommandsMade
    <3> QED
      BY <3>1 DEF Commands, Carries
  <2> HIDE DEF Check
  <2> QED
    BY <1>1, <2>2, MovesAside DEF Free, Starting, row
<1>2. ASSUME StopGoal(t) PROVE Served'
  <2>1. "stop" \in Places
    BY DEF Places
  <2>2. At("stop") \in Commands /\ Carries(At("stop"))
        /\ At("stop").at = "stop" /\ At("stop").kind = "user"
    BY <2>1, CommandsMade DEF Carries
  <2> QED
    BY <1>2, <2>2, MovesAside DEF StopGoal, Free, Starting, row
<1>3. ASSUME WriteStopped(t) PROVE Served'
  BY <1>3, MovesAside, CommandsMade DEF WriteStopped, Leave, Carries, Starting
<1>4. ASSUME CheckIdle(t) PROVE Served'
  <2>1. CASE Undo(t) /\ UNCHANGED row
    BY <1>4, <2>1, UndoServes DEF CheckIdle, row
  <2>2. CASE Insert(op[t]) /\ Leave(t)
    BY <1>4, <2>2, InsertServes DEF CheckIdle
  <2>3. CASE Become(t, [op[t] EXCEPT !.at = "insert"]) /\ UNCHANGED row
    <3> DEFINE next == [op[t] EXCEPT !.at = "insert"]
    <3>1. /\ next \in Commands /\ next.at = "insert" /\ Carries(next)
          /\ next.batch = op[t].batch /\ next.kind = op[t].kind
      BY Onward, TypeParts DEF Places
    <3> HIDE DEF next
    <3>2. op'[t] = next /\ \A u \in Threads \ {t} : op'[u] = op[u]
      BY <2>3, <3>1, Becoming, TypeParts DEF next
    <3>3. /\ op[t].at = "check"
          /\ UNCHANGED <<turns, goal, inbox, withdrawn, spawned, watch>>
      BY <1>4, <2>3 DEF CheckIdle, row
    <3> USE <3>1, <3>2, <3>3 DEF inbox, watch
    <3>4. Marks'
      BY DEF Served, Marks
    <3>5. QueueKept'
      BY DEF Served, QueueKept, Sending, Looking, Running
    <3>6. GoalKept'
      BY DEF Served, GoalKept, Pursued, Unrecorded, Starting
    <3>7. WakeServed'
      BY DEF Served, WakeServed
    <3> QED
      BY <3>4, <3>5, <3>6, <3>7 DEF Served
  <2> QED
    BY <1>4, <2>1, <2>2, <2>3 DEF CheckIdle
<1>5. ASSUME CommitStart(t) PROVE Served'
  BY <1>5, InsertServes DEF CommitStart
<1>6. ASSUME RefuseStart(t) PROVE Served'
  BY <1>6, UndoServes DEF RefuseStart, row
<1> QED
  BY <1>1, <1>2, <1>3, <1>4, <1>5, <1>6 DEF Send, ContinueGoal
(* Whoever adds to the queue or hurries it looks at the turn next.           *)
LEMMA AddServes ==
    ASSUME TypeOK, Served, NEW t \in Threads,
           QueueFlush(t) \/ \E m \in Messages : QueueAdd(t, m)
    PROVE  Served'
<1>1. "look" \in Places
  BY DEF Places
<1>2. /\ At("look") \in Commands /\ Carries(At("look"))
      /\ At("look").at = "look" /\ At("look").kind = "user"
  BY <1>1, CommandsMade DEF Carries
<1>3. op'[t] = At("look") /\ \A u \in Threads \ {t} : op'[u] = op[u]
  BY <1>2, Becoming, TypeParts DEF QueueFlush, QueueAdd
<1>4. /\ op[t].at = "off" /\ queue' # <<>> /\ yielded' = yielded
      /\ UNCHANGED <<turns, goal, held, withdrawn, spawned, waking, shell>>
  <2>1. \A m \in Messages : Append(queue, m) # <<>>
    BY AppendHolds, TypeParts DEF QueueOK
  <2> QED
    BY <2>1 DEF QueueFlush, QueueAdd, Free, SetQueue, row, watch
<1>5. Marks'
  BY <1>2, <1>3, <1>4 DEF Served, Marks
<1>6. QueueKept' /\ GoalKept'
  BY <1>2, <1>3, <1>4 DEF QueueKept, Sending, Looking, GoalKept, Pursued
<1>7. WakeServed'
  BY <1>3, <1>4 DEF Served, WakeServed
<1> QED
  BY <1>5, <1>6, <1>7 DEF Served

(* A look at an idle conversation takes the queue; one at a running turn     *)
(* leaves it to the end of that turn.  So does a task that polls.            *)
LEMMA LookServes ==
    ASSUME TypeOK, Served, NEW t \in Threads, Look(t) \/ PollSends(t)
    PROVE  Served'
<1>1. /\ Take \in Commands /\ Take.at = "take" /\ Take.batch = <<>>
      /\ Take.kind = "queue"
  <2>1. "take" \in Places
    BY DEF Places
  <2>2. At("take") \in Commands /\ At("take").at = "take" /\ At("take").batch = <<>>
    BY <2>1, CommandsMade
  <2>3. (yielded /\ goal = "active") \in BOOLEAN
    OBVIOUS
  <2> QED
    BY <2>2, <2>3 DEF Take, Commands
<1>2. /\ op[t].at \in {"off", "look"}
      /\ UNCHANGED <<turns, goal, inbox, withdrawn, waking, shell>>
  BY DEF Look, PollSends, Free, row, watch
<1>3. CASE Become(t, Take)
  <2>1. op'[t] = Take /\ \A u \in Threads \ {t} : op'[u] = op[u]
    BY <1>1, <1>3, Becoming, TypeParts DEF Carries
  <2> USE <1>1, <1>2, <2>1 DEF inbox
  <2>2. Marks'
    BY DEF Served, Marks
  <2>3. QueueKept' /\ GoalKept'
    BY DEF Served, QueueKept, Sending, Looking, GoalKept, Pursued, Unrecorded, Starting
  <2>4. WakeServed'
    BY DEF Served, WakeServed
  <2> QED
    BY <2>2, <2>3, <2>4 DEF Served
<1>4. CASE Become(t, Off) /\ ~Idle
  <2>1. op'[t] = Off /\ \A u \in Threads \ {t} : op'[u] = op[u]
    BY <1>4, CommandsMade, Becoming, TypeParts DEF Carries
  <2>2. \E i \in DOMAIN turns : Running(i)
    BY <1>4 DEF Idle, Unfinished, Running
  <2> USE <1>2, <2>1, CommandsMade DEF inbox
  <2>3. Marks'
    BY DEF Served, Marks
  <2>4. QueueKept'
    BY <2>2 DEF QueueKept, Sending, Running
  <2>5. GoalKept'
    BY DEF Served, GoalKept, Pursued, Unrecorded, Starting
  <2>6. WakeServed'
    BY DEF Served, WakeServed
  <2> QED
    BY <2>3, <2>4, <2>5, <2>6 DEF Served
<1> QED
  BY <1>3, <1>4 DEF Look, PollSends

(* What is taken is on its way to a turn; a restored batch is held back.     *)
LEMMA TakeServes ==
    ASSUME TypeOK, Served, NEW t \in Threads, TakeQueue(t)
    PROVE  Served'
<1>1. /\ op[t].at = "take" /\ op[t].kind = "queue"
      /\ queue' = <<>> /\ yielded' = FALSE /\ held' = FALSE
      /\ UNCHANGED <<turns, goal, withdrawn, spawned, waking, shell>>
  BY DEF TakeQueue, SetQueue, Served, Marks, row, watch
<1>2. CASE queue = <<>>
  <2>1. op'[t] = Off /\ \A u \in Threads \ {t} : op'[u] = op[u]
    BY <1>2, Becoming, TypeParts, CommandsMade DEF TakeQueue, Carries
  <2> USE <1>1, <1>2, <2>1, CommandsMade
  <2>2. Marks'
    BY DEF Served, Marks
  <2>3. QueueKept' /\ GoalKept'
    BY DEF Served, QueueKept, GoalKept, Pursued, Unrecorded, Starting
  <2>4. WakeServed'
    BY DEF Served, WakeServed
  <2> QED
    BY <2>2, <2>3, <2>4 DEF Served
<1>3. CASE queue # <<>>
  <2> DEFINE next == [op[t] EXCEPT !.at = "check", !.batch = queue, !.yield = yielded]
  <2>1. Become(t, next)
    BY <1>3 DEF TakeQueue
  <2>2. /\ next \in Commands /\ next.at = "check" /\ next.batch = queue
        /\ next.kind = op[t].kind /\ Carries(next)
    BY TypeParts DEF ThreadsOK, Commands, QueueOK, Carries, Places
  <2> HIDE DEF next
  <2>3. op'[t] = next /\ \A u \in Threads \ {t} : op'[u] = op[u]
    BY <2>1, <2>2, Becoming, TypeParts
  <2> USE <1>1, <1>3, <2>2, <2>3
  <2>4. Marks'
    BY DEF Served, Marks
  <2>5. QueueKept' /\ GoalKept'
    BY DEF QueueKept, GoalKept, Pursued, Starting
  <2>6. WakeServed'
    BY DEF Served, WakeServed
  <2> QED
    BY <2>4, <2>5, <2>6 DEF Served
<1> QED
  BY <1>2, <1>3

(* A batch that is put back is not empty, and the queue is held.             *)
LEMMA RestoreServes ==
    ASSUME TypeOK, Served, NEW t \in Threads, RestoreQueue(t)
    PROVE  Served'
<1>1. op[t].batch \in Seq(Messages) /\ queue \in Seq(Messages)
  BY TypeParts DEF ThreadsOK, Commands, QueueOK
<1>2. op[t].at = "restore" /\ op[t].batch # <<>>
  BY DEF RestoreQueue, Served, Marks
<1>3. /\ queue' # <<>> /\ held' = TRUE
      /\ UNCHANGED <<turns, goal, withdrawn, spawned, waking, shell>>
  BY <1>1, <1>2, ConcatHolds DEF RestoreQueue, SetQueue, Restored, row, watch
<1>4. op'[t] = Off /\ \A u \in Threads \ {t} : op'[u] = op[u]
  BY Becoming, TypeParts, CommandsMade DEF RestoreQueue, Leave, Carries
<1> USE <1>2, <1>3, <1>4, CommandsMade
<1>5. Marks'
  BY DEF Served, Marks
<1>6. QueueKept' /\ GoalKept'
  BY DEF QueueKept, GoalKept, Pursued
<1>7. WakeServed'
  BY DEF Served, WakeServed
<1> QED
  BY <1>5, <1>6, <1>7 DEF Served

(* A wake-up that finds a turn running leaves the processes to its end; else *)
(* it tells of all of them.                                                  *)
LEMMA WakesServe ==
    ASSUME TypeOK, Served, NEW t \in Threads, WakeBegins(t) \/ Wake(t)
    PROVE  Served'
<1>1. CASE WakeBegins(t)
  <2> DEFINE next == [At("wake") EXCEPT !.kind = "event"]
  <2>1. /\ next \in Commands /\ next.at = "wake" /\ next.kind = "event"
        /\ Carries(next)
    <3>1. "wake" \in Places
      BY DEF Places
    <3>2. At("wake") \in Commands /\ At("wake").at = "wake" /\ At("wake").batch = <<>>
      BY <3>1, CommandsMade
    <3> QED
      BY <3>2 DEF Commands, Carries
  <2> HIDE DEF next
  <2>2. op'[t] = next /\ \A u \in Threads \ {t} : op'[u] = op[u]
    BY <1>1, <2>1, Becoming, TypeParts DEF WakeBegins, next
  <2>3. /\ op[t].at = "off"
        /\ UNCHANGED <<turns, goal, inbox, withdrawn, spawned>>
    BY <1>1 DEF WakeBegins, Free, row
  <2> USE <2>1, <2>2, <2>3 DEF inbox
  <2>4. Marks'
    BY DEF Served, Marks
  <2>5. QueueKept' /\ GoalKept'
    BY DEF Served, QueueKept, Sending, Looking, Running, GoalKept, Pursued,
           Unrecorded, Starting
  <2>6. WakeServed'
    BY DEF WakeServed
  <2> QED
    BY <2>4, <2>5, <2>6 DEF Served
<1>2. CASE Wake(t)
  <2>1. /\ op[t].at = "wake"
        /\ UNCHANGED <<turns, goal, inbox, withdrawn, spawned, waking>>
    BY <1>2 DEF Wake, row
  <2>2. op[t].kind = "event"
    BY <2>1 DEF Served, Marks
  <2>3. PICK next \in Commands : /\ Become(t, next) /\ Carries(next)
                                 /\ next.at \in {"off", "check"}
                                 /\ next.kind \in {"user", "event"}
    <3>1. CASE Leave(t)
      BY <3>1, CommandsMade DEF Leave, Carries
    <3>2. CASE Become(t, [op[t] EXCEPT !.at = "check"])
      <4>1. "check" \in Places
        BY DEF Places
      <4>2. LET next == [op[t] EXCEPT !.at = "check"]
            IN /\ next \in Commands /\ next.at = "check"
               /\ next.kind = op[t].kind /\ Carries(next)
        BY <4>1, Onward, TypeParts
      <4> QED
        BY <2>2, <3>2, <4>2
    <3> QED
      BY <1>2, <3>1, <3>2 DEF Wake
  <2>4. op'[t] = next /\ \A u \in Threads \ {t} : op'[u] = op[u]
    BY <2>3, Becoming, TypeParts
  <2>5. Marks'
    BY <2>1, <2>3, <2>4 DEF Served, Marks, inbox
  <2>6. QueueKept' /\ GoalKept'
    BY <2>1, <2>2, <2>3, <2>4
    DEF Served, QueueKept, Sending, Looking, Running, GoalKept, Pursued,
        Unrecorded, Starting, inbox
  <2>7. WakeServed'
    <3>1. CASE ~Idle /\ UNCHANGED shell
      <4>1. \E i \in DOMAIN turns : turns[i].at # "over"
        BY <3>1 DEF Idle, Unfinished
      <4> QED
        BY <2>1, <4>1 DEF WakeServed
    <3>2. CASE Unreported = {} /\ UNCHANGED shell
      BY <3>2 DEF WakeServed, Unreported
    <3>3. ASSUME NEW how \in {"passive", "reported"}, Tell(how) PROVE WakeServed'
      BY <3>3 DEF WakeServed, Tell, Unreported
    <3> QED
      BY <1>2, <3>1, <3>2, <3>3 DEF Wake
  <2> QED
    BY <2>5, <2>6, <2>7 DEF Served
<1> QED
  BY <1>1, <1>2
(* A turn that moves on without an end of its own is still running and still *)
(* to be recorded.                                                           *)
LEMMA MovingServes ==
    ASSUME TypeOK, Served, NEW i \in DOMAIN turns,
           \/ Prepare(i) \/ Safepoint(i)
           \/ \E status \in {"done", "stopped", "paused"} : LastRound(i, status)
           \/ \E outcome \in Outcomes : EndTurn(i, outcome)
    PROVE  Served'
<1>1. PICK r \in TurnRows : /\ turns' = [turns EXCEPT ![i] = r]
                            /\ r.at \in {"working", "closing", "ended"}
  BY TurnSteps
<1>2. /\ DOMAIN turns' = DOMAIN turns /\ turns'[i] = r
      /\ \A j \in DOMAIN turns \ {i} : turns'[j] = turns[j]
  BY <1>1, TurnMoves, TypeParts
<1>3. /\ UNCHANGED <<queue, held, withdrawn, op, spawned, waking, shell>>
      /\ goal' = goal \/ goal' # "active"
      /\ yielded' = yielded \/ queue # <<>>
  <2>1. CASE Safepoint(i)
    BY <2>1 DEF Safepoint, watch
  <2>2. CASE ~Safepoint(i)
    BY <2>2 DEF Prepare, LastRound, EndTurn, inbox, watch
  <2> QED
    BY <2>1, <2>2
<1>4. Marks'
  BY <1>3 DEF Served, Marks
<1>5. QueueKept' /\ GoalKept' /\ WakeServed'
  BY <1>1, <1>2, <1>3
  DEF QueueKept, Sending, Running, GoalKept, Pursued, Unrecorded, WakeServed
<1> QED
  BY <1>4, <1>5 DEF Served

(* The end of a turn keeps a goal only if the turn gave way to the queue.    *)
LEMMA RecordServes ==
    ASSUME TypeOK, Served, NEW i \in DOMAIN turns, Record(i)
    PROVE  Served'
<1>1. PICK r \in TurnRows : turns' = [turns EXCEPT ![i] = r] /\ r.at = "recorded"
  BY TurnSteps
<1>2. /\ DOMAIN turns' = DOMAIN turns /\ turns'[i] = r
      /\ \A j \in DOMAIN turns \ {i} : turns'[j] = turns[j]
  BY <1>1, TurnMoves, TypeParts
<1>3. UNCHANGED <<inbox, withdrawn, op, spawned, waking, shell>>
  BY DEF Record, watch
<1>4. goal' = "active" => yielded
  BY DEF Record, Settled
<1>5. Marks'
  BY <1>3 DEF Served, Marks, inbox
<1>6. GoalKept'
  BY <1>3, <1>4 DEF Served, Marks, GoalKept, Pursued, inbox
<1>7. QueueKept' /\ WakeServed'
  BY <1>1, <1>2 DEF QueueKept, Sending, Running, WakeServed
<1> QED
  BY <1>5, <1>6, <1>7 DEF Served

(* The observers of an end send what is queued, or hold it back, and wake    *)
(* for the processes that have ended.                                        *)
LEMMA EndedServes ==
    ASSUME TypeOK, Served, NEW i \in DOMAIN turns, TurnEnded(i)
    PROVE  Served'
<1>1. turns' = [turns EXCEPT ![i] = Over] /\ turns[i].at = "recorded"
  BY DEF TurnEnded
<1>2. /\ DOMAIN turns' = DOMAIN turns
      /\ \A j \in DOMAIN turns \ {i} : turns'[j] = turns[j]
  BY <1>1, TurnMoves, TurnPlaces, TypeParts
<1>3. /\ queue' = queue /\ UNCHANGED <<goal, withdrawn, op, shell>>
      /\ yielded' => yielded
      /\ held => held'
      /\ held' => held \/ queue # <<>>
  BY DEF TurnEnded, SetQueue
<1>4. queue # <<>> => held' \/ spawned' > 0
  <2>1. spawned \in Nat
    BY TypeParts DEF HostOK
  <2>2. CASE turns[i].outcome = "ok"
    <3>1. spawned' = IF queue # <<>> THEN spawned + 1 ELSE spawned
      BY <2>2 DEF TurnEnded, Sends
    <3> QED
      BY <2>1, <3>1
  <2>3. CASE turns[i].outcome # "ok"
    <3>1. held' = (held \/ queue # <<>>)
      BY <2>3 DEF TurnEnded
    <3> QED
      BY <3>1
  <2> QED
    BY <2>2, <2>3
<1>5. waking' <=> waking \/ Unreported # {}
  BY DEF TurnEnded, WakesAgain
<1>6. Marks'
  BY <1>3 DEF Served, Marks
<1>7. QueueKept'
  BY <1>3, <1>4 DEF QueueKept, Sending
<1>8. GoalKept'
  BY <1>1, <1>2, <1>3 DEF Served, GoalKept, Pursued, Unrecorded, Starting
<1>9. WakeServed'
  BY <1>3, <1>5 DEF WakeServed, Unreported
<1> QED
  BY <1>6, <1>7, <1>8, <1>9 DEF Served

(* The processes, the person and the host.                                   *)
LEMMA OthersServe ==
    ASSUME TypeOK, Served,
           \/ PollGivesUp \/ Restart
           \/ \E m \in Messages : QueueRemove(m)
           \/ \E s \in Shells : \/ ShellExits(s) \/ ShellHeard(s)
                                \/ \E i \in DOMAIN turns : StartShell(i, s)
    PROVE  Served'
<1>1. CASE PollGivesUp
  <2>1. UNCHANGED <<turns, goal, inbox, withdrawn, op, waking, shell>>
    BY <1>1 DEF PollGivesUp, row, watch
  <2>2. \E i \in DOMAIN turns : Running(i)
    BY <1>1 DEF PollGivesUp, Idle, Unfinished, Running
  <2>3. Marks'
    BY <2>1 DEF Served, Marks, inbox
  <2>4. QueueKept'
    BY <2>1, <2>2 DEF QueueKept, Sending, Running
  <2>5. GoalKept' /\ WakeServed'
    BY <2>1 DEF Served, GoalKept, Pursued, Unrecorded, Starting, WakeServed, inbox
  <2> QED
    BY <2>3, <2>4, <2>5 DEF Served
<1>2. CASE Restart
  <2>1. /\ queue' = <<>> /\ yielded' = FALSE /\ held' = FALSE
        /\ op' = [t \in Threads |-> Off]
        /\ goal' # "active"
        /\ \A s \in Shells : shell'[s] # "ended"
    BY <1>2 DEF Restart
  <2>2. Marks'
    BY <2>1, CommandsMade DEF Marks
  <2> QED
    BY <2>1, <2>2 DEF Served, QueueKept, GoalKept, WakeServed
<1>3. CASE \E m \in Messages : QueueRemove(m)
  <2>1. /\ UNCHANGED <<turns, goal, held, op, spawned, waking, shell>>
        /\ withdrawn' # {}
        /\ yielded' = yielded
    BY <1>3 DEF QueueRemove, SetQueue, row, watch
  <2>2. queue' # <<>> => queue # <<>>
    <3>1. DOMAIN <<>> = {}
      BY EmptySeq, LenProperties
    <3> QED
      BY <1>3, <3>1 DEF QueueRemove
  <2>3. Marks'
    BY <2>1 DEF Served, Marks
  <2>4. QueueKept' /\ GoalKept'
    BY <2>1, <2>2 DEF Served, QueueKept, Sending, Looking, Running, GoalKept, Pursued
  <2>5. WakeServed'
    BY <2>1 DEF Served, WakeServed
  <2> QED
    BY <2>3, <2>4, <2>5 DEF Served
<1>4. CASE \E s \in Shells : \/ ShellExits(s) \/ ShellHeard(s)
                             \/ \E i \in DOMAIN turns : StartShell(i, s)
  <2>1. UNCHANGED <<turns, goal, inbox, withdrawn, op, spawned>>
    BY <1>4 DEF ShellExits, ShellHeard, StartShell, row
  <2>2. Marks'
    BY <2>1 DEF Served, Marks, inbox
  <2>3. QueueKept' /\ GoalKept'
    BY <2>1 DEF Served, QueueKept, Sending, Looking, Running, GoalKept, Pursued,
                Unrecorded, Starting, inbox
  <2>4. \A s \in Shells : shell'[s] = "ended" => shell[s] = "ended" \/ waking'
    BY <1>4, TypeParts DEF ShellExits, ShellHeard, StartShell, HostOK
  <2>5. waking => waking'
    BY <1>4 DEF ShellExits, ShellHeard, StartShell
  <2>6. WakeServed'
    BY <2>1, <2>4, <2>5 DEF Served, WakeServed
  <2> QED
    BY <2>2, <2>3, <2>6 DEF Served
<1> QED
  BY <1>1, <1>2, <1>3, <1>4

(* Every step leaves somebody to look after what is left.                    *)
LEMMA ServedStep == TypeOK /\ Served /\ [Next]_vars => Served'
<1> SUFFICES ASSUME TypeOK, Served, [Next]_vars PROVE Served'
  OBVIOUS
<1>1. CASE UNCHANGED vars
  BY <1>1 DEF vars, row, inbox, watch, Served, Marks, QueueKept, Sending, Looking,
              Running, GoalKept, Pursued, Unrecorded, Starting, WakeServed
<1> QED
  BY <1>1, StartsServe, AddServes, LookServes, TakeServes, RestoreServes, WakesServe,
     MovingServes, RecordServes, EndedServes, OthersServe DEF Next

LEMMA AlwaysServed == Spec => [](TypeOK /\ Served)
<1>1. Init => TypeOK /\ Served
  BY TypeInit, ServedInit
<1>2. TypeOK /\ Served /\ [Next]_vars => TypeOK' /\ Served'
  BY TypeStep, ServedStep
<1> QED
  BY <1>1, <1>2, PTL DEF Spec

(* However adds, hurries, ends, polls and refused starts fall together, what *)
(* is queued is not left behind (queue_add, send_queued, queue_turn_ended).  *)
THEOREM QueueSent == Spec => []QueueServed
<1>1. Served => QueueServed
  BY DEF Served, QueueKept, Sending, Looking, Running, QueueServed, AtRest, Free
<1> QED
  BY <1>1, AlwaysServed, PTL

(* A goal is not left active with nobody at work on it, whatever turns,      *)
(* stops, yields and restarts do (record, chat_goal::settled,                *)
(* recover_goals).                                                           *)
THEOREM GoalPursued == Spec => []GoalServed
<1>1. Served => GoalServed
  BY DEF Served, QueueKept, Sending, Looking, Running, GoalKept, Pursued, Unrecorded,
         Starting, GoalServed, AtRest, Free
<1> QED
  BY <1>1, AlwaysServed, PTL

(* A process that ended is waited for by a wake-up, or by the end of a turn  *)
(* (schedule_wake, wake, Waker::turn_ended).                                 *)
THEOREM WakesFollow == Spec => []WakeServed
<1>1. Served => WakeServed
  BY DEF Served
<1> QED
  BY <1>1, AlwaysServed, PTL

-----------------------------------------------------------------------------
(* The queue keeps the promise of a mailbox                                  *)

(* Only what came from the queue carries a batch.                            *)
Plain == \A t \in Threads : op[t].kind # "queue" => op[t].batch = <<>>

(* No message is in two places, or twice in one.                             *)
Apart ==
    /\ IsInjective(queue) /\ IsInjective(sent)
    /\ ToSet(queue) \cap ToSet(sent) = {}
    /\ \A t \in Threads :
         /\ IsInjective(op[t].batch)
         /\ ToSet(op[t].batch) \cap ToSet(queue) = {}
         /\ ToSet(op[t].batch) \cap ToSet(sent) = {}
         /\ \A u \in Threads \ {t} : ToSet(op[t].batch) \cap ToSet(op[u].batch) = {}
    /\ Waiting \cap withdrawn = {}

MailInv == Plain /\ Apart

(* At first there are no messages.                                           *)
LEMMA MailInit == Init => MailInv
<1> SUFFICES ASSUME Init PROVE MailInv
  OBVIOUS
<1>1. ToSet(<<>>) = {} /\ IsInjective(<<>>)
  BY DEF ToSet, IsInjective
<1>2. /\ queue = <<>> /\ sent = <<>> /\ withdrawn = {}
      /\ \A t \in Threads : op[t].batch = <<>>
  BY CommandsMade DEF Init
<1> QED
  BY <1>1, <1>2 DEF MailInv, Plain, Apart

(* What the steps do to the messages.                                        *)
Holds(t, b) ==
    op'[t].batch = b /\ \A u \in Threads \ {t} : op'[u].batch = op[u].batch
SameBatches == \A t \in Threads : op'[t].batch = op[t].batch

MailStays == SameBatches /\ UNCHANGED <<queue, sent, withdrawn>>
Adds(m) ==
    /\ m \in Messages \ (Waiting \cup ToSet(sent) \cup withdrawn)
    /\ queue' = Append(queue, m)
    /\ SameBatches /\ UNCHANGED <<sent, withdrawn>>
Takes(t) ==
    /\ op[t].batch = <<>> /\ Holds(t, queue) /\ queue' = <<>>
    /\ UNCHANGED <<sent, withdrawn>>
PutsBack(t) ==
    /\ Holds(t, <<>>) /\ queue' = op[t].batch \o queue
    /\ UNCHANGED <<sent, withdrawn>>
Stores(t) ==
    /\ Holds(t, <<>>) /\ sent' = sent \o op[t].batch
    /\ UNCHANGED <<queue, withdrawn>>
Removes(i) ==
    /\ queue' = RemoveAt(queue, i) /\ withdrawn' = withdrawn \cup {queue[i]}
    /\ SameBatches /\ UNCHANGED sent
Forgets ==
    /\ queue' = <<>> /\ withdrawn' = withdrawn \cup Waiting
    /\ \A t \in Threads : op'[t].batch = <<>>
    /\ UNCHANGED sent

Effect ==
    \/ MailStays \/ Forgets
    \/ \E m \in Messages : Adds(m)
    \/ \E t \in Threads : Takes(t) \/ PutsBack(t) \/ Stores(t)
    \/ \E i \in DOMAIN queue : Removes(i)

(* A thread with an empty batch that goes on with an empty one.              *)
LEMMA Lightly ==
    ASSUME TypeOK, Plain, NEW t \in Threads, NEW next \in Commands,
           Become(t, next), op[t].batch = next.batch,
           next.kind = "queue" \/ next.batch = <<>>,
           UNCHANGED <<queue, sent, withdrawn>>
    PROVE  Plain' /\ MailStays
<1>1. op \in [Threads -> Commands]
  BY TypeParts DEF ThreadsOK
<1>2. op'[t] = next /\ \A u \in Threads \ {t} : op'[u] = op[u]
  BY <1>1 DEF Become
<1> QED
  BY <1>2 DEF Plain, MailStays, SameBatches

(* A start: its messages are stored with its turn, or go back.               *)
LEMMA StartEffects ==
    ASSUME TypeOK, Plain, NEW t \in Threads,
           \/ \E command \in BOOLEAN : Send(t, command)
           \/ ContinueGoal(t) \/ StopGoal(t) \/ WriteStopped(t)
           \/ CheckIdle(t) \/ CommitStart(t) \/ RefuseStart(t)
    PROVE  Plain' /\ Effect
<1>t. ThreadsOK
  BY TypeParts
<1>1. ASSUME Leave(t), op[t].batch = <<>>, UNCHANGED <<queue, sent, withdrawn>>
      PROVE  Plain' /\ MailStays
  BY <1>1, Lightly, CommandsMade DEF Leave
<1>2. CASE (\E command \in BOOLEAN : Send(t, command)) \/ ContinueGoal(t)
  <2>1. PICK b \in BOOLEAN :
          Become(t, [At("check") EXCEPT !.command = b, !.activates = b])
    BY <1>2 DEF Send, ContinueGoal
  <2>2. "check" \in Places
    BY DEF Places
  <2>3. LET next == [At("check") EXCEPT !.command = b, !.activates = b]
        IN next \in Commands /\ next.batch = <<>>
    <3>1. At("check") \in Commands /\ At("check").batch = <<>>
      BY <2>2, CommandsMade
    <3> QED
      BY <3>1 DEF Commands
  <2>4. op[t].batch = <<>> /\ UNCHANGED <<queue, sent, withdrawn>>
    BY <1>t, <1>2 DEF Send, ContinueGoal, Free, ThreadsOK, Carries, row, inbox
  <2> QED
    BY <2>1, <2>3, <2>4, Lightly DEF Effect
<1>3. CASE StopGoal(t)
  <2>1. "stop" \in Places
    BY DEF Places
  <2>2. At("stop") \in Commands /\ At("stop").batch = <<>>
    BY <2>1, CommandsMade
  <2>3. op[t].batch = <<>> /\ UNCHANGED <<queue, sent, withdrawn>>
    BY <1>t, <1>3 DEF StopGoal, Free, ThreadsOK, Carries, row, inbox
  <2> QED
    BY <1>3, <2>2, <2>3, Lightly DEF StopGoal, Effect
<1>4. CASE WriteStopped(t)
  <2>1. op[t].batch = <<>> /\ UNCHANGED <<queue, sent, withdrawn>>
    BY <1>t, <1>4 DEF WriteStopped, ThreadsOK, Carries, inbox
  <2> QED
    BY <1>1, <1>4, <2>1 DEF WriteStopped, Effect
<1>5. ASSUME Insert(op[t]), Leave(t), UNCHANGED <<queue, withdrawn>>
      PROVE  Plain' /\ Effect
  <2>1. op'[t] = Off /\ \A u \in Threads \ {t} : op'[u] = op[u]
    BY <1>t, <1>5, Becoming, CommandsMade DEF Leave, Carries
  <2>2. Plain' /\ Stores(t)
    BY <1>5, <2>1, CommandsMade DEF Plain, Stores, Holds, Insert
  <2> QED
    BY <2>2 DEF Effect
<1>6. ASSUME Undo(t), UNCHANGED <<queue, sent, withdrawn>>
      PROVE  Plain' /\ Effect
  <2>1. CASE op[t].kind = "queue"
    <3>1. "restore" \in Places
      BY DEF Places
    <3>2. LET next == [op[t] EXCEPT !.at = "restore"]
          IN next \in Commands /\ next.batch = op[t].batch /\ next.kind = "queue"
      BY <1>t, <2>1, <3>1, Onward
    <3> QED
      BY <1>6, <2>1, <3>2, Lightly DEF Undo, Effect
  <2>2. CASE op[t].kind # "queue"
    BY <1>1, <1>6, <2>2 DEF Undo, Leave, Plain, Effect
  <2> QED
    BY <2>1, <2>2
<1>7. CASE CheckIdle(t)
  <2>1. CASE Become(t, [op[t] EXCEPT !.at = "insert"]) /\ UNCHANGED row
    <3>1. "insert" \in Places
      BY DEF Places
    <3>2. LET next == [op[t] EXCEPT !.at = "insert"]
          IN next \in Commands /\ next.batch = op[t].batch /\ next.kind = op[t].kind
      BY <1>t, <3>1, Onward
    <3>3. UNCHANGED <<queue, sent, withdrawn>>
      BY <1>7, <2>1 DEF CheckIdle, row, inbox
    <3> QED
      BY <2>1, <3>2, <3>3, Lightly DEF Effect, Plain
  <2> QED
    BY <1>5, <1>6, <1>7, <2>1 DEF CheckIdle, row, inbox
<1>8. CASE CommitStart(t)
  BY <1>5, <1>8 DEF CommitStart, inbox
<1>9. CASE RefuseStart(t)
  BY <1>6, <1>9 DEF RefuseStart, row, inbox
<1> QED
  BY <1>2, <1>3, <1>4, <1>7, <1>8, <1>9

(* The queue's own steps, and a wake-up, which carries no messages.          *)
LEMMA QueueEffects ==
    ASSUME TypeOK, Marks, Plain, NEW t \in Threads,
           \/ \E m \in Messages : QueueAdd(t, m)
           \/ QueueFlush(t) \/ Look(t) \/ TakeQueue(t) \/ RestoreQueue(t)
           \/ PollSends(t) \/ WakeBegins(t) \/ Wake(t)
    PROVE  Plain' /\ Effect
<1>t. ThreadsOK
  BY TypeParts
<1>1. ASSUME NEW next \in Commands, Become(t, next), next.batch = <<>>,
             op[t].at \notin {"check", "insert", "restore"},
             UNCHANGED <<queue, sent, withdrawn>>
      PROVE  Plain' /\ Effect
  BY <1>t, <1>1, Lightly DEF ThreadsOK, Carries, Effect
<1>2. \A p \in Places : At(p) \in Commands /\ At(p).batch = <<>>
  BY CommandsMade
<1>3. Take \in Commands /\ Take.batch = <<>>
  <2>1. "take" \in Places
    BY DEF Places
  <2>2. At("take") \in Commands /\ At("take").batch = <<>>
    BY <2>1, CommandsMade
  <2>3. (yielded /\ goal = "active") \in BOOLEAN
    OBVIOUS
  <2> QED
    BY <2>2, <2>3 DEF Take, Commands
<1>4. {"look", "wake"} \subseteq Places
  BY DEF Places
<1>5. ASSUME NEW m \in Messages, QueueAdd(t, m) PROVE Plain' /\ Effect
  <2>1. op'[t] = At("look") /\ \A u \in Threads \ {t} : op'[u] = op[u]
    BY <1>t, <1>2, <1>4, <1>5, Becoming DEF QueueAdd, Carries
  <2>2. op[t].batch = <<>>
    BY <1>t, <1>5 DEF QueueAdd, Free, ThreadsOK, Carries
  <2>3. Plain' /\ Adds(m)
    BY <1>2, <1>4, <1>5, <2>1, <2>2 DEF QueueAdd, SetQueue, Plain, Adds, SameBatches, row
  <2> QED
    BY <2>3 DEF Effect
<1>6. CASE QueueFlush(t)
  BY <1>1, <1>2, <1>4, <1>6 DEF QueueFlush, SetQueue, Free, row
<1>7. CASE Look(t) \/ PollSends(t)
  BY <1>1, <1>3, <1>7, CommandsMade DEF Look, PollSends, Free, row, inbox
<1>8. CASE TakeQueue(t)
  <2>1. op[t].batch = <<>> /\ UNCHANGED <<sent, withdrawn>> /\ queue' = <<>>
    BY <1>t, <1>8 DEF TakeQueue, SetQueue, ThreadsOK, Carries, row
  <2>2. CASE queue = <<>>
    BY <1>1, <1>8, <2>1, <2>2, CommandsMade DEF TakeQueue
  <2>3. CASE queue # <<>>
    <3>1. op'[t] = [op[t] EXCEPT !.at = "check", !.batch = queue, !.yield = yielded]
          /\ \A u \in Threads \ {t} : op'[u] = op[u]
      BY <1>t, <1>8, <2>3 DEF TakeQueue, Become, ThreadsOK
    <3>2. op'[t].batch = queue /\ op'[t].kind = op[t].kind
      BY <1>t, <3>1 DEF ThreadsOK, Commands
    <3>3. Takes(t)
      BY <2>1, <3>1, <3>2 DEF Takes, Holds
    <3>4. Plain'
      BY <1>8, <3>1, <3>2 DEF TakeQueue, Marks, Plain
    <3> QED
      BY <3>3, <3>4 DEF Effect
  <2> QED
    BY <2>2, <2>3
<1>9. CASE RestoreQueue(t)
  <2>1. op'[t] = Off /\ \A u \in Threads \ {t} : op'[u] = op[u]
    BY <1>t, <1>9, Becoming, CommandsMade DEF RestoreQueue, Leave, Carries
  <2>2. Plain' /\ PutsBack(t)
    BY <1>9, <2>1, CommandsMade
    DEF RestoreQueue, SetQueue, Restored, Plain, PutsBack, Holds, row
  <2> QED
    BY <2>2 DEF Effect
<1>10. CASE WakeBegins(t)
  <2>1. LET next == [At("wake") EXCEPT !.kind = "event"]
        IN next \in Commands /\ next.batch = <<>>
    BY <1>2, <1>4 DEF Commands
  <2> QED
    BY <1>1, <1>10, <2>1 DEF WakeBegins, Free, row, inbox
<1>11. CASE Wake(t)
  <2>1. "check" \in Places
    BY DEF Places
  <2>2. op[t].batch = <<>> /\ op[t].at = "wake" /\ UNCHANGED <<queue, sent, withdrawn>>
    BY <1>t, <1>11 DEF Wake, ThreadsOK, Carries, row, inbox
  <2>3. LET next == [op[t] EXCEPT !.at = "check"]
        IN next \in Commands /\ next.batch = <<>>
    BY <1>t, <2>1, <2>2, Onward
  <2>4. Leave(t) \/ Become(t, [op[t] EXCEPT !.at = "check"])
    BY <1>11 DEF Wake
  <2> QED
    BY <1>1, <2>2, <2>3, <2>4, CommandsMade DEF Leave
<1> QED
  BY <1>5, <1>6, <1>7, <1>8, <1>9, <1>10, <1>11
(* What everybody else does.                                                 *)
LEMMA OtherEffects ==
    ASSUME TypeOK, Plain,
           \/ PollGivesUp \/ Restart \/ UNCHANGED vars
           \/ \E m \in Messages : QueueRemove(m)
           \/ \E i \in DOMAIN turns :
                \/ Prepare(i) \/ Safepoint(i) \/ Record(i) \/ TurnEnded(i)
                \/ \E status \in {"done", "stopped", "paused"} : LastRound(i, status)
                \/ \E outcome \in Outcomes : EndTurn(i, outcome)
                \/ \E s \in Shells : StartShell(i, s)
           \/ \E s \in Shells : ShellExits(s) \/ ShellHeard(s)
    PROVE  Plain' /\ Effect
<1>1. CASE UNCHANGED <<queue, sent, withdrawn, op>>
  BY <1>1 DEF Plain, Effect, MailStays, SameBatches
<1>2. CASE Restart
  <2>1. \A t \in Threads : op'[t].batch = <<>>
    BY <1>2, CommandsMade DEF Restart
  <2> QED
    BY <1>2, <2>1 DEF Restart, Plain, Effect, Forgets
<1>3. CASE \E m \in Messages : QueueRemove(m)
  BY <1>3 DEF QueueRemove, SetQueue, Plain, Effect, Removes, SameBatches, row
<1>4. CASE \E i \in DOMAIN turns : TurnEnded(i)
  BY <1>1, <1>4 DEF TurnEnded, SetQueue
<1> QED
  BY <1>1, <1>2, <1>3, <1>4
  DEF PollGivesUp, Prepare, Safepoint, Record, LastRound, EndTurn, StartShell,
      ShellExits, ShellHeard, vars, row, inbox

(* Every step has one of the effects.                                        *)
LEMMA Effects == TypeOK /\ Marks /\ Plain /\ [Next]_vars => Plain' /\ Effect
BY StartEffects, QueueEffects, OtherEffects DEF Next

(* The messages that wait, after a step.                                     *)
LEMMA Kept ==
    ASSUME TypeOK, MailInv, Effect
    PROVE  /\ Apart'
           /\ \/ MailStays /\ Waiting' = Waiting
              \/ Forgets /\ Waiting' = {}
              \/ \E m \in Messages : Adds(m) /\ Waiting' = Waiting \cup {m}
              \/ \E t \in Threads :
                   \/ Takes(t) /\ Waiting' = Waiting
                   \/ PutsBack(t) /\ Waiting' = Waiting
                   \/ /\ Stores(t) /\ IsInjective(sent')
                      /\ ToSet(sent') = ToSet(sent) \cup ToSet(op[t].batch)
                      /\ ToSet(op[t].batch) \subseteq Waiting
                      /\ Waiting' = Waiting \ ToSet(sent')
              \/ \E i \in DOMAIN queue :
                   /\ Removes(i) /\ queue[i] \in Waiting
                   /\ Waiting' = Waiting \ withdrawn'
<1> USE DEF MailInv, Apart, Waiting, Taken
<1>t. /\ queue \in Seq(Messages) /\ sent \in Seq(Messages)
      /\ \A t \in Threads : op[t].batch \in Seq(Messages)
  BY TypeParts DEF QueueOK, TurnsOK, ThreadsOK, Commands
<1>a. ToSet(<<>>) = {} /\ IsInjective(<<>>)
  BY DEF ToSet, IsInjective
<1>1. CASE MailStays
  <2>1. /\ UNCHANGED <<queue, sent, withdrawn>>
        /\ \A t \in Threads : op'[t].batch = op[t].batch
    BY <1>1 DEF MailStays, SameBatches
  <2>2. Waiting' = Waiting
    BY <2>1
  <2>3. Apart'
    BY <2>1, <2>2
  <2> QED
    BY <1>1, <2>2, <2>3
<1>2. CASE Forgets
  <2>1. /\ queue' = <<>> /\ sent' = sent
        /\ \A t \in Threads : op'[t].batch = <<>>
    BY <1>2 DEF Forgets
  <2>2. Waiting' = {}
    BY <1>a, <2>1
  <2>3. Apart'
    BY <1>a, <2>1, <2>2
  <2> QED
    BY <1>2, <2>2, <2>3
<1>3. ASSUME NEW m \in Messages, Adds(m)
      PROVE  Apart' /\ Waiting' = Waiting \cup {m}
  <2>1. /\ queue' = Append(queue, m) /\ UNCHANGED <<sent, withdrawn>>
        /\ \A t \in Threads : op'[t].batch = op[t].batch
        /\ m \notin Waiting /\ m \notin ToSet(sent) /\ m \notin withdrawn
    BY <1>3 DEF Adds, SameBatches
  <2>2. ToSet(queue') = ToSet(queue) \cup {m} /\ IsInjective(queue')
    BY <1>t, <2>1, AppendHolds
  <2>3. Waiting' = Waiting \cup {m}
    BY <2>1, <2>2
  <2>4. Apart'
    BY <2>1, <2>2, <2>3
  <2> QED
    BY <2>3, <2>4
<1>4. ASSUME NEW t \in Threads, Takes(t)
      PROVE  Apart' /\ Waiting' = Waiting
  <2>1. /\ op[t].batch = <<>> /\ queue' = <<>> /\ UNCHANGED <<sent, withdrawn>>
        /\ op'[t].batch = queue
        /\ \A u \in Threads \ {t} : op'[u].batch = op[u].batch
    BY <1>4 DEF Takes, Holds
  <2>2. Waiting' = Waiting
    BY <1>a, <2>1
  <2>3. Apart'
    BY <1>a, <2>1, <2>2
  <2> QED
    BY <2>2, <2>3
<1>5. ASSUME NEW t \in Threads, PutsBack(t)
      PROVE  Apart' /\ Waiting' = Waiting
  <2>1. /\ queue' = op[t].batch \o queue /\ UNCHANGED <<sent, withdrawn>>
        /\ op'[t].batch = <<>>
        /\ \A u \in Threads \ {t} : op'[u].batch = op[u].batch
    BY <1>5 DEF PutsBack, Holds
  <2>2. ToSet(queue') = ToSet(op[t].batch) \cup ToSet(queue) /\ IsInjective(queue')
    BY <1>t, <2>1, ConcatHolds, ConcatInjective
  <2>3. Waiting' = Waiting
    BY <1>a, <2>1, <2>2
  <2>4. Apart'
    BY <1>a, <2>1, <2>2, <2>3
  <2> QED
    BY <2>3, <2>4
<1>6. ASSUME NEW t \in Threads, Stores(t)
      PROVE  /\ Apart' /\ IsInjective(sent')
             /\ ToSet(sent') = ToSet(sent) \cup ToSet(op[t].batch)
             /\ ToSet(op[t].batch) \subseteq Waiting
             /\ Waiting' = Waiting \ ToSet(sent')
  <2>1. /\ sent' = sent \o op[t].batch /\ UNCHANGED <<queue, withdrawn>>
        /\ op'[t].batch = <<>>
        /\ \A u \in Threads \ {t} : op'[u].batch = op[u].batch
    BY <1>6 DEF Stores, Holds
  <2>2. ToSet(sent') = ToSet(sent) \cup ToSet(op[t].batch) /\ IsInjective(sent')
    BY <1>t, <2>1, ConcatHolds, ConcatInjective
  <2>3. Waiting \cap ToSet(sent) = {}
    OBVIOUS
  <2>4. Waiting' = Waiting \ ToSet(op[t].batch)
    <3>1. ASSUME NEW x \in Waiting' PROVE x \in Waiting \ ToSet(op[t].batch)
      <4>1. CASE x \in ToSet(queue)
        BY <4>1
      <4>2. CASE \E u \in Threads \ {t} : x \in ToSet(op[u].batch)
        BY <4>2
      <4> QED
        BY <1>a, <2>1, <3>1, <4>1, <4>2
    <3>2. Waiting \ ToSet(op[t].batch) \subseteq Waiting'
      BY <2>1
    <3> QED
      BY <3>1, <3>2
  <2>5. Apart'
    <3>1. ToSet(queue') \cap ToSet(sent') = {}
      BY <2>1, <2>2
    <3>2. ASSUME NEW u \in Threads
          PROVE  /\ IsInjective(op'[u].batch)
                 /\ ToSet(op'[u].batch) \cap ToSet(queue') = {}
                 /\ ToSet(op'[u].batch) \cap ToSet(sent') = {}
      <4>1. CASE u = t
        BY <1>a, <2>1, <4>1
      <4>2. CASE u # t
        BY <2>1, <2>2, <4>2
      <4> QED
        BY <4>1, <4>2
    <3>3. \A u \in Threads : \A v \in Threads \ {u} :
            ToSet(op'[u].batch) \cap ToSet(op'[v].batch) = {}
      BY <1>a, <2>1
    <3>4. Waiting' \cap withdrawn' = {}
      BY <2>1, <2>4
    <3> QED
      BY <2>1, <2>2, <3>1, <3>2, <3>3, <3>4
  <2>6. ToSet(op[t].batch) \subseteq Waiting
    OBVIOUS
  <2>7. Waiting' = Waiting \ ToSet(sent')
    BY <2>2, <2>3, <2>4
  <2> QED
    BY <2>2, <2>5, <2>6, <2>7
<1>7. ASSUME NEW i \in DOMAIN queue, Removes(i)
      PROVE  Apart' /\ queue[i] \in Waiting /\ Waiting' = Waiting \ withdrawn'
  <2>1. /\ queue' = RemoveAt(queue, i) /\ withdrawn' = withdrawn \cup {queue[i]}
        /\ sent' = sent /\ \A t \in Threads : op'[t].batch = op[t].batch
    BY <1>7 DEF Removes, SameBatches
  <2>2. ToSet(queue') = ToSet(queue) \ {queue[i]} /\ IsInjective(queue')
    BY <1>t, <2>1, RemoveHolds
  <2>3. queue[i] \in ToSet(queue)
    BY DEF ToSet
  <2>4. Waiting' = Waiting \ {queue[i]}
    BY <2>1, <2>2, <2>3
  <2>5. Apart'
    BY <2>1, <2>2, <2>4
  <2> QED
    BY <2>1, <2>3, <2>4, <2>5
<1> QED
  BY <1>1, <1>2, <1>3, <1>4, <1>5, <1>6, <1>7 DEF Effect

(* So no message is ever in two places.                                      *)
LEMMA MailStep == TypeOK /\ Marks /\ MailInv /\ [Next]_vars => MailInv'
BY Effects, Kept DEF MailInv

(* Every step is a step of the mailbox.                                      *)
LEMMA StepPromise ==
    TypeOK /\ Marks /\ MailInv /\ [Next]_vars => [Promise!Next]_(Promise!box)
<1> SUFFICES ASSUME TypeOK, Marks, MailInv, [Next]_vars
             PROVE  [Promise!Next]_(Promise!box)
  OBVIOUS
<1> USE DEF ToSet, Promise!ToSet, IsInjective, Promise!IsInjective
<1>1. Effect
  BY Effects DEF MailInv
<1>2. CASE Waiting' = Waiting /\ UNCHANGED <<sent, withdrawn>>
  BY <1>2 DEF Promise!box
<1>3. CASE Forgets /\ Waiting' = {}
  BY <1>3 DEF Forgets, Promise!Next, Promise!Withdraw
<1>4. CASE \E m \in Messages : Adds(m) /\ Waiting' = Waiting \cup {m}
  BY <1>4 DEF Adds, Promise!Next, Promise!Write
<1>5. ASSUME NEW t \in Threads,
             Stores(t), IsInjective(sent'),
             ToSet(sent') = ToSet(sent) \cup ToSet(op[t].batch),
             ToSet(op[t].batch) \subseteq Waiting,
             Waiting' = Waiting \ ToSet(sent')
      PROVE  Promise!Next
  <2>1. sent \in Seq(Messages) /\ op[t].batch \in Seq(Messages)
    BY TypeParts DEF TurnsOK, ThreadsOK, Commands
  <2>2. sent' = sent \o SubSeq(sent', Len(sent) + 1, Len(sent'))
    BY <1>5, <2>1, ConcatSplits DEF Stores
  <2>3. Promise!Store
    BY <1>5, <2>2 DEF Stores, Promise!Store
  <2> QED
    BY <2>3 DEF Promise!Next
<1>6. ASSUME NEW i \in DOMAIN queue, Removes(i), queue[i] \in Waiting,
             Waiting' = Waiting \ withdrawn'
      PROVE  Promise!Next
  BY <1>6 DEF Removes, Promise!Next, Promise!Withdraw
<1>7. \/ MailStays /\ Waiting' = Waiting
      \/ Forgets /\ Waiting' = {}
      \/ \E m \in Messages : Adds(m) /\ Waiting' = Waiting \cup {m}
      \/ \E t \in Threads :
           \/ Takes(t) /\ Waiting' = Waiting
           \/ PutsBack(t) /\ Waiting' = Waiting
           \/ /\ Stores(t) /\ IsInjective(sent')
              /\ ToSet(sent') = ToSet(sent) \cup ToSet(op[t].batch)
              /\ ToSet(op[t].batch) \subseteq Waiting
              /\ Waiting' = Waiting \ ToSet(sent')
      \/ \E i \in DOMAIN queue :
           /\ Removes(i) /\ queue[i] \in Waiting
           /\ Waiting' = Waiting \ withdrawn'
  BY <1>1, Kept
<1> QED
  BY <1>2, <1>3, <1>4, <1>5, <1>6, <1>7 DEF MailStays, Takes, PutsBack

(* Nothing written while a turn runs is lost or stored twice, however many   *)
(* threads take, put back, remove and send: every step of the conversation   *)
(* is a step of Mailbox or leaves it alone (queue.rs, start_turn_with).      *)
THEOREM Delivers == Spec => KeepsMailbox
<1>1. Init => MailInv
  BY MailInit
<1>2. Init => Promise!Init
  <2> SUFFICES ASSUME Init PROVE Promise!Init
    OBVIOUS
  <2>1. ToSet(<<>>) = {}
    BY DEF ToSet
  <2>2. queue = <<>> /\ \A t \in Threads : op[t].batch = <<>>
    BY CommandsMade DEF Init
  <2>3. Waiting = {}
    BY <2>1, <2>2 DEF Waiting, Taken
  <2> QED
    BY <2>3 DEF Init, Promise!Init
<1>3. TypeOK /\ Served => Marks
  BY DEF Served
<1>4. Spec => []MailInv
  BY <1>1, <1>3, MailStep, AlwaysServed, PTL DEF Spec
<1> QED
  BY <1>2, <1>3, <1>4, StepPromise, AlwaysServed, PTL
  DEF Spec, KeepsMailbox, Promise!Spec

-----------------------------------------------------------------------------
(* What that promise comes to for whoever writes.                            *)

(* A message is in one place: waiting, stored once, or withdrawn.            *)
InOnePlace ==
    /\ Waiting \cap ToSet(sent) = {} /\ Waiting \cap withdrawn = {}
    /\ ToSet(sent) \cap withdrawn = {} /\ IsInjective(sent)

(* Nothing that was written disappears, and what is stored keeps its place.  *)
Written == Waiting \cup ToSet(sent) \cup withdrawn
SentStays == \A i \in DOMAIN sent : i \in DOMAIN sent' /\ sent'[i] = sent[i]
NoneDropped == [][Written \subseteq Written' /\ SentStays]_<<Waiting, sent, withdrawn>>

(* A batch is stored behind what is there.                                   *)
LEMMA StoredBehind ==
    ASSUME TypeOK, TypeOK', Promise!Store
    PROVE  SentStays /\ ToSet(sent) \subseteq ToSet(sent')
<1> DEFINE n == Len(sent)
           r == SubSeq(sent', n + 1, Len(sent'))
<1>1. sent \in Seq(Messages) /\ sent' \in Seq(Messages)
  BY DEF TypeOK
<1>2. /\ n \in Nat /\ DOMAIN sent = 1 .. n
      /\ Len(sent') \in Nat /\ DOMAIN sent' = 1 .. Len(sent')
  BY <1>1, LenProperties
<1>3. r \in Seq(Messages)
  <2>1. \A i \in n + 1 .. Len(sent') : sent'[i] \in Messages
    BY <1>1, <1>2
  <2> QED
    BY <1>1, <1>2, <2>1, SubSeqProperties
<1>4. sent' = sent \o r
  BY DEF Promise!Store
<1>5. Len(r) \in Nat
  BY <1>3, LenProperties
<1>6. /\ DOMAIN (sent \o r) = 1 .. n + Len(r)
      /\ \A i \in 1 .. n : (sent \o r)[i] = sent[i]
  BY <1>1, <1>2, <1>3, <1>5, ConcatProperties
<1>7. \A i \in DOMAIN sent : i \in DOMAIN (sent \o r) /\ (sent \o r)[i] = sent[i]
  <2> HIDE DEF r
  <2> QED
    BY <1>2, <1>5, <1>6
<1>8. SentStays
  BY <1>4, <1>7 DEF SentStays
<1> QED
  BY <1>8 DEF SentStays, ToSet

(* Every step of Mailbox keeps a message in one place and drops none.        *)
LEMMA PromiseKeeps ==
    ASSUME TypeOK, TypeOK', [Promise!Next]_(Promise!box), InOnePlace
    PROVE  InOnePlace' /\ Written \subseteq Written' /\ SentStays
<1> USE DEF InOnePlace, Written
<1>1. CASE UNCHANGED (Promise!box)
  BY <1>1 DEF Promise!box, SentStays, ToSet, IsInjective
<1>2. ASSUME NEW m \in Messages, Promise!Write(m)
      PROVE  InOnePlace' /\ Written \subseteq Written' /\ SentStays
  BY <1>2 DEF Promise!Write, SentStays, ToSet, Promise!ToSet, IsInjective
<1>3. CASE Promise!Store
  <2>1. /\ IsInjective(sent') /\ ToSet(sent') \ ToSet(sent) \subseteq Waiting
        /\ Waiting' = Waiting \ ToSet(sent') /\ withdrawn' = withdrawn
    BY <1>3 DEF Promise!Store, ToSet, Promise!ToSet, IsInjective, Promise!IsInjective
  <2>2. SentStays /\ ToSet(sent) \subseteq ToSet(sent')
    BY <1>3, StoredBehind
  <2> QED
    BY <2>1, <2>2 DEF IsInjective, ToSet
<1>4. CASE Promise!Withdraw
  BY <1>4 DEF Promise!Withdraw, SentStays, ToSet, IsInjective
<1> QED
  BY <1>1, <1>2, <1>3, <1>4 DEF Promise!Next

(* What is written while a turn runs is in one place ever after: it waits,   *)
(* was stored once and keeps its place, or the person took it back or the    *)
(* process lost it (queue.rs, start_turn_with, restore).                     *)
THEOREM MessagesKept == Spec => []InOnePlace /\ NoneDropped
<1>1. Promise!Init => InOnePlace
  BY DEF Promise!Init, InOnePlace, ToSet, IsInjective
<1>2. TypeOK /\ TypeOK' /\ InOnePlace /\ [Promise!Next]_(Promise!box) =>
        /\ InOnePlace'
        /\ [Written \subseteq Written' /\ SentStays]_<<Waiting, sent, withdrawn>>
  BY PromiseKeeps
<1> QED
  BY <1>1, <1>2, Delivers, Typed, PTL DEF KeepsMailbox, Promise!Spec, NoneDropped

-----------------------------------------------------------------------------
(* The conversation and the file tools together: a behaviour of              *)
(* MCConversation is one of each.                                            *)

LEMMA BothStart == TurnsInit => Init /\ FilesInit
BY DEF TurnsInit

(* A step is one of either, and the other does not notice.                   *)
LEMMA OneMoves == [TurnsNext]_<<vars, filesVars, who>> => [Next]_vars /\ [FilesNext]_filesVars
<1> SUFFICES ASSUME [TurnsNext]_<<vars, filesVars, who>>
             PROVE  [Next]_vars /\ [FilesNext]_filesVars
  OBVIOUS
<1>1. CASE UNCHANGED <<vars, filesVars, who>>
  BY <1>1
<1>2. CASE OfConversation(Next)
  BY <1>2 DEF OfConversation
<1>3. CASE OfFiles(FilesNext)
  BY <1>3 DEF OfFiles
<1> QED
  BY <1>1, <1>2, <1>3 DEF TurnsNext

(* What the instance of both that is model-checked does is what each does.   *)
LEMMA Composed == TurnsSpec => Spec /\ FilesSpec
BY BothStart, OneMoves, PTL DEF TurnsSpec, Spec, FilesSpec

(* Both keep their types.                                                    *)
THEOREM TurnsTyped == TurnsSpec => []TypesOK
<1>1. TypeOK /\ FilesTypeOK => TypesOK
  BY DEF TypesOK
<1> QED
  BY Composed, Typed, FilesTyped, <1>1, PTL

(* What they promise holds of them together: nothing that was written waits  *)
(* with nobody to send it, and batches of changes lose nothing (chat.rs,     *)
(* queue.rs, wake.rs, chat_goal.rs, files/commit.rs, ledger.rs).             *)
THEOREM TurnsSafe ==
    TurnsSpec =>
        /\ [](QueueServed /\ GoalServed /\ WakeServed /\ OriginalsKept /\ LedgerCurrent)
        /\ KeepsMailbox /\ AllOrNothing
BY Composed, QueueSent, GoalPursued, WakesFollow, NothingLost, KnowledgeHolds, Delivers,
   BatchesWhole, PTL
=============================================================================
