---------------------------- MODULE Conversation ----------------------------
(* One conversation of ChatService: its turns, the queue of messages written *)
(* while a turn runs, its goal, and the turns the host starts by itself when *)
(* a background process it was asked to watch has ended.  Sources:           *)
(* services/chat.rs, services/chat/queue.rs, services/chat/wake.rs,          *)
(* services/chat_goal.rs, services/tool_loop.rs, background/service.rs.      *)
(*                                                                           *)
(* Commands, tasks and turns run on several threads.  op[t] is the place     *)
(* where thread t stands in a command, with what it has read or taken; what  *)
(* follows in the code without looking at shared state is one step with it.  *)
EXTENDS Naturals, Sequences, SequencesExt

CONSTANTS
    Threads,      \* threads that carry commands, pollers and wake-ups
    Messages,     \* messages that may be queued, numbered as they are written
    Shells,       \* background processes started with notify: true
    QueueMax,     \* CHAT_QUEUE_MAX
    StreakMax,    \* WAKE_STREAK_MAX
    Loads         \* bounds: what may happen in a behaviour, one load for each

(* A load bounds the messages, the processes, the turns, the starts refused  *)
(* for a reason outside the conversation, and the restarts; it says whether  *)
(* goals are set, and whether two starts may interleave between the idle     *)
(* check of one and its insert (`overlap`).                                  *)
ASSUME BoundsAreNatural ==
    /\ Messages \subseteq Nat
    /\ QueueMax \in Nat \ {0} /\ StreakMax \in Nat
    /\ Loads \subseteq [messages : SUBSET Messages, shells : SUBSET Shells,
                        goals : BOOLEAN, overlap : BOOLEAN,
                        turns : Nat, refusals : Nat, restarts : Nat]

VARIABLES
    turns,       \* the runs of the conversation, oldest first
    goal,        \* status of the goal in the row of the conversation
    sent,        \* queued messages stored as user messages, in order
    streak,      \* event messages since the last message of the person
    queue,       \* QueueState.messages
    urgent,      \* QueueState.urgent
    yielded,     \* QueueState.yielded
    held,        \* the queue was left unsent on purpose (history)
    withdrawn,   \* messages removed by the person, or lost (history)
    op,          \* what each thread is doing
    spawned,     \* tasks of queue_turn_ended that poll for an idle conversation
    waking,      \* the conversation is in Inner::waking
    shell,       \* state of each background process
    load, refused, restarts  \* the bounds, and how much of them is used up

row == <<turns, goal, sent, streak>>
inbox == <<queue, urgent, yielded, held>>
watch == <<waking, shell>>
used == <<load, refused, restarts>>
vars == <<row, inbox, withdrawn, op, spawned, watch, used>>

Outcomes == {"ok", "failed", "cancelled"}

(* A turn whose last message has the goal command starts with `prepare`; for *)
(* the others it changes nothing that matters here.                          *)
Turn(command) ==
    [at |-> IF command THEN "new" ELSE "working", goal |-> command, outcome |-> "ok"]
Over == [at |-> "over", goal |-> FALSE, outcome |-> "ok"]

(* The row of a turn is unfinished until its end is committed; the observers *)
(* of the end run afterwards.                                                *)
Unfinished(i) == turns[i].at \in {"new", "working", "closing"}
Idle == \A i \in DOMAIN turns : ~Unfinished(i)

(* A start holds what it will store: the kind of message it opens with, the  *)
(* batch it took from the queue and the yield it took with it, whether the   *)
(* last message carries the goal command, and whether it activates the goal. *)
Off == [at |-> "off", kind |-> "user", batch |-> <<>>, yield |-> FALSE,
        command |-> FALSE, activates |-> FALSE]
At(place) == [Off EXCEPT !.at = place]

Free(t) == op[t].at = "off"
Become(t, next) == op' = [op EXCEPT ![t] = next]

\* Mutant: a batch that was put back is kept as well.
LeaveWithBatch(t) == Become(t, [op[t] EXCEPT !.at = "off"])

Leave(t) == Become(t, Off)

(* BackgroundShells::unreported: ended, and nobody was told yet.             *)
Unreported == {s \in Shells : shell[s] \in {"exited", "ended"}}

Init ==
    /\ turns = <<>> /\ goal = "none" /\ sent = <<>> /\ streak = 0
    /\ queue = <<>> /\ urgent = FALSE /\ yielded = FALSE /\ held = FALSE
    /\ withdrawn = {}
    /\ op = [t \in Threads |-> Off] /\ spawned = 0
    /\ waking = FALSE /\ shell = [s \in Shells |-> "none"]
    /\ load \in Loads /\ refused = 0 /\ restarts = 0

-----------------------------------------------------------------------------
(* Starting a turn *)

(* `send`: refused while a goal is active; the goal command brings a new one.*)
Send(t, command) ==
    /\ Free(t) /\ Len(turns) < load.turns
    /\ goal # "active" /\ (command => load.goals)
    /\ Become(t, [At("check") EXCEPT !.command = command, !.activates = command])
    /\ UNCHANGED <<row, inbox, withdrawn, spawned, watch, used>>

ContinueGoal(t) ==
    /\ Free(t) /\ Len(turns) < load.turns
    /\ goal = "paused"
    /\ Become(t, [At("check") EXCEPT !.command = TRUE, !.activates = TRUE])
    /\ UNCHANGED <<row, inbox, withdrawn, spawned, watch, used>>

(* The transaction of start_turn_with: run row, messages and goal.           *)
Insert(start) ==
    /\ Len(turns) < load.turns
    /\ turns' = Append(turns, Turn(start.command))
    /\ goal' = IF start.activates THEN "active" ELSE goal
    /\ sent' = sent \o start.batch
    /\ streak' = IF start.kind = "event" THEN streak + 1 ELSE 0

(* Only a start that came from the queue has something to undo.              *)
Undo(t) ==
    Become(t, IF op[t].kind = "queue" THEN [op[t] EXCEPT !.at = "restore"] ELSE Off)

(* require_idle of start_turn_with, and the insert.                          *)
CheckIdle(t) ==
    /\ op[t].at = "check"
    /\ \/ ~Idle /\ Undo(t) /\ UNCHANGED row
       \/ Idle /\ load.overlap /\ Become(t, [op[t] EXCEPT !.at = "insert"]) /\ UNCHANGED row
       \/ Idle /\ ~load.overlap /\ Insert(op[t]) /\ Leave(t)
    /\ UNCHANGED <<inbox, withdrawn, spawned, watch, used>>

CommitStart(t) ==
    /\ op[t].at = "insert"
    /\ Insert(op[t]) /\ Leave(t)
    /\ UNCHANGED <<inbox, withdrawn, spawned, watch, used>>

(* The provider or the model is gone, or the run service is closed.          *)
RefuseStart(t) ==
    /\ op[t].at \in {"check", "insert"} /\ refused < load.refusals
    /\ refused' = refused + 1
    /\ Undo(t)
    /\ UNCHANGED <<row, inbox, withdrawn, spawned, watch, load, restarts>>

-----------------------------------------------------------------------------
(* The queue.  with_queue drops an entry that holds neither messages nor a   *)
(* yield, and the urgent mark goes with it.                                  *)
SetQueue(messages, rush, yield) ==
    /\ queue' = messages
    /\ yielded' = yield
    /\ urgent' = (rush /\ (messages # <<>> \/ yield))

Taken == UNION {ToSet(op[t].batch) : t \in Threads}
Waiting == ToSet(queue) \cup Taken

(* queue_add: the message is in the queue before the turn is looked at.      *)
QueueAdd(t, m) ==
    /\ Free(t)
    /\ m \in load.messages \ (Waiting \cup ToSet(sent) \cup withdrawn)
    /\ \A n \in load.messages : n < m => n \in Waiting \cup ToSet(sent) \cup withdrawn
    /\ Len(queue) < QueueMax
    /\ SetQueue(Append(queue, m), urgent, yielded)
    /\ Become(t, At("look"))
    /\ UNCHANGED <<row, held, withdrawn, spawned, watch, used>>

QueueFlush(t) ==
    /\ Free(t) /\ queue # <<>>
    /\ SetQueue(queue, TRUE, yielded)
    /\ Become(t, At("look"))
    /\ UNCHANGED <<row, held, withdrawn, spawned, watch, used>>

(* The ids in the queue differ: it is one message that goes.                 *)
QueueRemove(m) ==
    /\ \E i \in DOMAIN queue :
         /\ queue[i] = m
         /\ LET rest == RemoveAt(queue, i)
            IN SetQueue(rest, urgent /\ rest # <<>>, yielded)
    /\ withdrawn' = withdrawn \cup {m}
    /\ UNCHANGED <<row, held, op, spawned, watch, used>>

(* send_queued reads the row first: does the batch continue a goal?          *)
Take == [At("take") EXCEPT !.kind = "queue", !.command = yielded /\ goal = "active"]

(* The idle check of queue_add and queue_flush.                              *)
Look(t) ==
    /\ op[t].at = "look"
    /\ Become(t, IF Idle THEN Take ELSE Off)
    /\ UNCHANGED <<row, inbox, withdrawn, spawned, watch, used>>

(* The take under the lock; the start follows (above).                       *)
TakeQueue(t) ==
    /\ op[t].at = "take"
    /\ SetQueue(<<>>, FALSE, FALSE)
    /\ Become(t, IF queue = <<>> THEN Off
                 ELSE [op[t] EXCEPT !.at = "check", !.batch = queue, !.yield = yielded])
    /\ held' = FALSE
    /\ UNCHANGED <<row, withdrawn, spawned, watch, used>>

\* Mutant: the batch of a refused start is dropped.
RestoredNot(t) == queue

Restored(t) == op[t].batch \o queue

(* The start was refused: the batch goes back to the front.                  *)
RestoreQueue(t) ==
    /\ op[t].at = "restore"
    /\ SetQueue(Restored(t), urgent, op[t].yield)
    /\ held' = TRUE
    /\ Leave(t)
    /\ UNCHANGED <<row, withdrawn, spawned, watch, used>>

(* A task of queue_turn_ended polls for an idle conversation; it gives up    *)
(* only while a turn is running.                                             *)
PollSends(t) ==
    /\ Free(t) /\ spawned > 0 /\ Idle
    /\ spawned' = spawned - 1
    /\ Become(t, Take)
    /\ UNCHANGED <<row, inbox, withdrawn, watch, used>>

PollGivesUp ==
    /\ spawned > 0 /\ ~Idle
    /\ spawned' = spawned - 1
    /\ UNCHANGED <<row, inbox, withdrawn, op, watch, used>>

-----------------------------------------------------------------------------
(* A turn: prepare, the rounds of the tool loop, the end and its observers   *)

Move(i, next) == turns' = [turns EXCEPT ![i].at = next]

(* prepare: the turn works on the goal when its message has the command and  *)
(* the goal is active.                                                       *)
Prepare(i) ==
    /\ turns[i].at = "new"
    /\ turns' = [turns EXCEPT ![i].at = "working", ![i].goal = (goal = "active")]
    /\ UNCHANGED <<goal, sent, streak, inbox, withdrawn, op, spawned, watch, used>>

(* GoalHook::after_round ends the work on a goal: reached, given up for      *)
(* repetition, or out of budget.  It saves only while the goal in the row is *)
(* active and stops when it is not.  Such a round has no safepoint.          *)
LastRound(i, status) ==
    /\ turns[i].at = "working" /\ turns[i].goal
    /\ Move(i, "closing")
    /\ goal' = IF goal = "active" THEN status ELSE goal
    /\ UNCHANGED <<sent, streak, inbox, withdrawn, op, spawned, watch, used>>

(* A round that goes on looks at the queue: LoopHost::yields.                *)
Safepoint(i) ==
    /\ turns[i].at = "working" /\ (turns[i].goal => goal = "active")
    /\ urgent /\ queue # <<>>
    /\ yielded' = TRUE
    /\ Move(i, "closing")
    /\ UNCHANGED <<goal, sent, streak, queue, urgent, held, withdrawn, op, spawned, watch, used>>

StartShell(i, s) ==
    /\ turns[i].at = "working" /\ shell[s] = "none" /\ s \in load.shells
    /\ shell' = [shell EXCEPT ![s] = "running"]
    /\ UNCHANGED <<row, inbox, withdrawn, op, spawned, waking, used>>

(* The scheduler commits the end of the run.  A turn may fail, or be         *)
(* cancelled by the person or by stop_goal, at any time.                     *)
EndTurn(i, outcome) ==
    /\ Unfinished(i)
    /\ outcome = "ok" => turns[i].at = "closing" \/ (turns[i].at = "working" /\ ~turns[i].goal)
    /\ turns' = [turns EXCEPT ![i].at = "ended", ![i].outcome = outcome]
    /\ UNCHANGED <<goal, sent, streak, inbox, withdrawn, op, spawned, watch, used>>

\* Mutant: a goal whose turn failed is left to the next turn.
SettledIfCancelled(outcome) ==
    IF goal = "active" /\ outcome = "cancelled" THEN "stopped" ELSE goal

(* chat_goal::settled *)
Settled(outcome) ==
    CASE goal # "active" -> goal
      [] goal = "active" /\ outcome = "cancelled" -> "stopped"
      [] goal = "active" /\ outcome # "cancelled" -> "failed"

(* Inner::record on the `end` event: a turn that gave way keeps the goal.    *)
Record(i) ==
    /\ turns[i].at = "ended"
    /\ Move(i, "recorded")
    /\ goal' = IF turns[i].outcome = "ok" /\ yielded THEN goal ELSE Settled(turns[i].outcome)
    /\ UNCHANGED <<sent, streak, inbox, withdrawn, op, spawned, watch, used>>

\* Mutant: only a turn that yielded sends what is queued.
SendsAfterYield(ok) == ok /\ yielded

Sends(ok) == ok /\ queue # <<>>

\* Mutant: the processes that ended during the turn are left to the next one.
WakesAgainNot == FALSE

WakesAgain == Unreported # {}

(* Waker::turn_ended: queue_turn_ended, then the processes that ended        *)
(* meanwhile.                                                                *)
TurnEnded(i) ==
    /\ turns[i].at = "recorded"
    /\ turns' = [turns EXCEPT ![i] = Over]
    /\ LET ok == turns[i].outcome = "ok"
       IN /\ SetQueue(queue, ok /\ urgent, ok /\ yielded)
          /\ spawned' = IF Sends(ok) THEN spawned + 1 ELSE spawned
          /\ held' = (held \/ (~ok /\ queue # <<>>))
    /\ waking' = (waking \/ WakesAgain)
    /\ UNCHANGED <<goal, sent, streak, withdrawn, op, shell, used>>

-----------------------------------------------------------------------------
(* stop_goal reads the goal, then writes over whatever is there.  It then    *)
(* cancels the turn (EndTurn).                                               *)
StopGoal(t) ==
    /\ Free(t) /\ goal \in {"active", "paused"}
    /\ Become(t, At("stop"))
    /\ UNCHANGED <<row, inbox, withdrawn, spawned, watch, used>>

WriteStopped(t) ==
    /\ op[t].at = "stop"
    /\ goal' = "stopped"
    /\ Leave(t)
    /\ UNCHANGED <<turns, sent, streak, inbox, withdrawn, spawned, watch, used>>

-----------------------------------------------------------------------------
(* Waking *)

(* supervise settles the process first and tells the listeners after.        *)
ShellExits(s) ==
    /\ shell[s] = "running"
    /\ shell' = [shell EXCEPT ![s] = "exited"]
    /\ UNCHANGED <<row, inbox, withdrawn, op, spawned, waking, used>>

ShellHeard(s) ==
    /\ shell[s] = "exited"
    /\ shell' = [shell EXCEPT ![s] = "ended"]
    /\ waking' = TRUE
    /\ UNCHANGED <<row, inbox, withdrawn, op, spawned, used>>

(* schedule_wake: the delayed task leaves the set first, then looks.  Two of *)
(* them are WAKE_DELAY apart, so they overlap only when starts may.          *)
WakeBegins(t) ==
    /\ Free(t) /\ waking
    /\ load.overlap \/ \A u \in Threads : op[u].kind # "event"
    /\ waking' = FALSE
    /\ Become(t, [At("wake") EXCEPT !.kind = "event"])
    /\ UNCHANGED <<row, inbox, withdrawn, spawned, shell, used>>

StreakFull == streak >= StreakMax

Tell(next) == shell' = [s \in Shells |-> IF s \in Unreported THEN next ELSE shell[s]]

(* wake: nothing to report, or a turn is running (its end schedules again);  *)
(* too many in a row; or the processes are taken, marked as reported, for a  *)
(* turn that is still to be started.                                         *)
Wake(t) ==
    /\ op[t].at = "wake"
    /\ \/ (Unreported = {} \/ ~Idle) /\ Leave(t) /\ UNCHANGED shell
       \/ Unreported # {} /\ Idle /\ StreakFull /\ Leave(t) /\ Tell("passive")
       \/ /\ Unreported # {} /\ Idle /\ ~StreakFull
          /\ Become(t, [op[t] EXCEPT !.at = "check"])
          /\ Tell("reported")
    /\ UNCHANGED <<row, inbox, withdrawn, spawned, waking, used>>

-----------------------------------------------------------------------------
(* The host restarts: what is in memory is lost, recovery ends the runs that *)
(* were active and recover_goals pauses their goals.                         *)
Restart ==
    /\ restarts < load.restarts
    /\ restarts' = restarts + 1
    /\ turns' = [i \in DOMAIN turns |-> Over]
    /\ goal' = IF goal = "active" THEN "paused" ELSE goal
    /\ withdrawn' = withdrawn \cup Waiting
    /\ queue' = <<>> /\ urgent' = FALSE /\ yielded' = FALSE /\ held' = FALSE
    /\ op' = [t \in Threads |-> Off] /\ spawned' = 0
    /\ waking' = FALSE
    /\ shell' = [s \in Shells |-> IF shell[s] = "none" THEN "none" ELSE "passive"]
    /\ UNCHANGED <<sent, streak, load, refused>>

-----------------------------------------------------------------------------
Next ==
    \/ \E t \in Threads :
         \/ \E command \in BOOLEAN : Send(t, command)
         \/ ContinueGoal(t) \/ StopGoal(t) \/ WriteStopped(t)
         \/ CheckIdle(t) \/ CommitStart(t) \/ RefuseStart(t)
         \/ \E m \in Messages : QueueAdd(t, m)
         \/ QueueFlush(t) \/ Look(t) \/ TakeQueue(t) \/ RestoreQueue(t) \/ PollSends(t)
         \/ WakeBegins(t) \/ Wake(t)
    \/ PollGivesUp
    \/ \E m \in Messages : QueueRemove(m)
    \/ \E i \in DOMAIN turns :
         \/ Prepare(i) \/ Safepoint(i) \/ Record(i) \/ TurnEnded(i)
         \/ \E status \in {"done", "stopped", "paused"} : LastRound(i, status)
         \/ \E outcome \in Outcomes : EndTurn(i, outcome)
         \/ \E s \in Shells : StartShell(i, s)
    \/ \E s \in Shells : ShellExits(s) \/ ShellHeard(s)
    \/ Restart

Spec == Init /\ [][Next]_vars

-----------------------------------------------------------------------------
(* Properties *)

Places == {"off", "check", "insert", "look", "take", "restore", "stop", "wake"}

(* The variables have their types and a thread holds a batch only while it   *)
(* starts a turn with it, or puts it back.                                   *)
TypeOK ==
    /\ turns \in Seq([at : {"new", "working", "closing", "ended", "recorded", "over"},
                      goal : BOOLEAN, outcome : Outcomes])
    /\ goal \in {"none", "active", "paused", "stopped", "done", "failed"}
    /\ sent \in Seq(Messages) /\ streak \in Nat
    /\ queue \in Seq(Messages) /\ Len(queue) \in Nat
    /\ {urgent, yielded, held, waking} \subseteq BOOLEAN
    /\ withdrawn \subseteq Messages
    /\ op \in [Threads -> [at : Places, kind : {"user", "queue", "event"},
                           batch : Seq(Messages), yield : BOOLEAN,
                           command : BOOLEAN, activates : BOOLEAN]]
    /\ \A t \in Threads : op[t].at \notin {"check", "insert", "restore"} => op[t].batch = <<>>
    /\ spawned \in Nat
    /\ shell \in [Shells -> {"none", "running", "exited", "ended", "reported", "passive"}]
    /\ load \in Loads /\ refused \in Nat /\ restarts \in Nat

(* Nothing is under way: every turn is over, with its observers, no command  *)
(* is half done and no task is about to send.                                *)
AtRest ==
    /\ \A t \in Threads : Free(t)
    /\ \A i \in DOMAIN turns : turns[i].at = "over"
    /\ spawned = 0

(* "When the turn ends ok, everything queued starts one turn" (PASSPORT      *)
(* section 11): the add that sees a running turn and the end that sees an    *)
(* empty queue cannot miss each other.  A queue may only stay behind after a *)
(* turn that did not end ok, or a start that was refused.                    *)
QueueServed == AtRest /\ queue # <<>> => held

(* A goal is left active with nobody working on it only when a message was   *)
(* taken out of the queue it gave way to, or when the continuation could not *)
(* be started; no other order of ends, stops, wake-ups, restarts and         *)
(* continuations does that.                                                  *)
GoalServed == AtRest /\ goal = "active" => held \/ withdrawn # {}

(* A process that ended is never forgotten: somebody is about to look, or a  *)
(* turn is running whose end will.                                           *)
WakeServed ==
    \A s \in Shells : shell[s] = "ended" =>
        \/ waking
        \/ \E t \in Threads : op[t].at = "wake"
        \/ \E i \in DOMAIN turns : turns[i].at # "over"

(* The queue keeps what it promises: nothing is lost or stored twice,        *)
(* whichever thread takes, restores, removes or sends.                       *)
Promise == INSTANCE Mailbox WITH waiting <- Waiting, stored <- sent, gone <- withdrawn
KeepsMailbox == Promise!Spec
=============================================================================
