------------------------------ MODULE Downloads ------------------------------
(***************************************************************************)
(* The download queue, crates/zvs-host/src/downloads/service.rs: rows of the *)
(* `download` table, the pass of the pump that launches a kernel run for     *)
(* each queued row, the runs, and the users' commands.  Commands, the pump   *)
(* and the runs are threads of one process: each step below is one           *)
(* transaction, one message or one look at the shared maps.  That passes do  *)
(* not overlap and that no call of `pump` is lost is shown in Pump.          *)
(***************************************************************************)
EXTENDS Naturals, FiniteSets

CONSTANTS
    Download,     \* the ids of rows that may be created
    Item, ItemOf, \* what a row downloads
    Run,          \* the runs that may be started: bounds the launches
    Call,         \* commands that may be in flight together
    Concurrency,  \* the setting downloads.concurrency
    NoDownload, NoRun

ASSUME PoolAssumption == /\ IsFiniteSet(Download) /\ NoDownload \notin Download
                         /\ ItemOf \in [Download -> Item]
                         /\ NoRun \notin Run
ASSUME CapAssumption == Concurrency \in Nat \ {0}

VARIABLES
    row,       \* status of a row, "none" before and "gone" after its life
    bound,     \* its run_id
    intent,    \* the service's map of intents
    phase,     \* how far each run is
    of,        \* the row a run was started for
    stopped,   \* runs whose token is cancelled and still looked at
    watched,   \* runs the service has subscribed to
    pump, wanted, slots, batch, current, fresh,   \* pump_once and launch
    at, target, seen,                             \* the commands in flight
    host

rows == <<row, bound>>
runs == <<phase, of, stopped, watched>>
pass == <<pump, wanted, slots, batch, current, fresh>>
calls == <<at, target, seen>>
vars == <<rows, intent, runs, pass, calls, host>>

Active == {"queued", "running", "paused"}
Terminal == {"succeeded", "failed", "cancelled"}
Over == {"none", "ended"}
Launching == {"start", "bind", "watch", "check", "fail"}

TypeOK ==
    /\ row \in [Download -> Active \cup Terminal \cup {"none", "gone"}]
    /\ bound \in [Download -> Run \cup {NoRun}]
    /\ intent \in [Download -> {"none", "pause", "cancel"}]
    /\ phase \in [Run -> {"none", "active", "fetching", "settled", "finished",
                        "marking", "ended"}]
    /\ of \in [Run -> Download \cup {NoDownload}]
    /\ stopped \subseteq Run /\ watched \subseteq Run
    /\ pump \in {"rest", "pick", "next"} \cup Launching
    /\ wanted \in BOOLEAN
    /\ slots \in Nat
    /\ batch \subseteq Download
    /\ current \in Download \cup {NoDownload}
    /\ fresh \in Run \cup {NoRun}
    /\ at \in [Call -> {"idle", "creating", "settling", "discarding",
                        "resuming", "removing", "pausing", "cancelling",
                        "unbound", "aborting", "awaiting"}]
    /\ target \in [Call -> Download \cup {NoDownload}]
    /\ seen \in [Call -> Run \cup {NoRun}]
    /\ host \in {"up", "closing", "suspended", "down", "attaching", "starting"}

-----------------------------------------------------------------------------
With(s) == {d \in Download : row[d] = s}
Alive == host # "down"

\* dispose has not been called: pump does its work.
Open == host \in {"up", "attaching", "starting"}

\* DownloadRepository::update: nothing happens to a row that is gone.
Write(d, s) == row' = IF row[d] = "gone" THEN row ELSE [row EXCEPT ![d] = s]

NobodyCalls == /\ at = [c \in Call |-> "idle"]
               /\ target = [c \in Call |-> NoDownload]
               /\ seen = [c \in Call |-> NoRun]

Init ==
    /\ row = [d \in Download |-> "none"]
    /\ bound = [d \in Download |-> NoRun]
    /\ intent = [d \in Download |-> "none"]
    /\ phase = [r \in Run |-> "none"]
    /\ of = [r \in Run |-> NoDownload]
    /\ stopped = {} /\ watched = {}
    /\ pump = "rest" /\ wanted = FALSE /\ slots = 0 /\ batch = {}
    /\ current = NoDownload /\ fresh = NoRun
    /\ NobodyCalls
    /\ host = "up"

-----------------------------------------------------------------------------
(* pump_once and launch. *)

\* Mutant: a full queue is not counted.
FreeOfAll == Concurrency

\* concurrency.saturating_sub(running)
FreeSlots == IF Cardinality(With("running")) >= Concurrency THEN 0
             ELSE Concurrency - Cardinality(With("running"))

Pass ==
    /\ Open /\ pump = "rest" /\ wanted
    /\ wanted' = FALSE
    /\ slots' = FreeSlots
    /\ pump' = IF slots' = 0 THEN "rest" ELSE "pick"
    /\ UNCHANGED <<rows, intent, runs, batch, current, fresh, calls, host>>

\* next_queued(free).  Priority and size decide which rows; any will do here.
Pick ==
    /\ Alive /\ pump = "pick"
    /\ \E picked \in SUBSET With("queued") :
         /\ Cardinality(picked) <= slots
         /\ Cardinality(picked) = slots \/ picked = With("queued")
         /\ batch' = picked
    /\ slots' = 0
    /\ pump' = "next"
    /\ UNCHANGED <<rows, intent, runs, wanted, current, fresh, calls, host>>

\* On to the next row of the batch.
Launched == pump' = "next" /\ current' = NoDownload /\ fresh' = NoRun

\* launch marks the row it was handed, whatever has become of it since.
Mark ==
    /\ Alive /\ pump = "next"
    /\ IF batch = {}
         THEN pump' = "rest" /\ UNCHANGED <<row, batch, current>>
         ELSE \E d \in batch :
                /\ batch' = batch \ {d}
                /\ current' = d
                /\ Write(d, "running")
                /\ pump' = "start"
    /\ UNCHANGED <<bound, intent, runs, wanted, slots, fresh, calls, host>>

\* RunService::start, refused once the run service is shut down.
Start ==
    /\ Alive /\ pump = "start"
    /\ \/ /\ host = "suspended"
          /\ Write(current, "failed")
          /\ Launched
          /\ UNCHANGED runs
       \/ \E r \in Run :
            /\ host # "suspended" /\ phase[r] = "none"
            /\ phase' = [phase EXCEPT ![r] = "active"]
            /\ of' = [of EXCEPT ![r] = current]
            /\ UNCHANGED <<stopped, watched>>
            /\ fresh' = r
            /\ pump' = "bind"
            /\ UNCHANGED <<row, current>>
    /\ UNCHANGED <<bound, intent, wanted, slots, batch, calls, host>>

Bind ==
    /\ Alive /\ pump = "bind"
    /\ bound' = IF row[current] = "gone" THEN bound
                ELSE [bound EXCEPT ![current] = fresh]
    /\ pump' = "watch"
    /\ UNCHANGED <<row, intent, runs, wanted, slots, batch, current, fresh,
                   calls, host>>

Watch ==
    /\ Alive /\ pump = "watch"
    /\ watched' = IF phase[fresh] = "ended" THEN watched ELSE watched \cup {fresh}
    /\ pump' = "check"
    /\ UNCHANGED <<rows, intent, phase, of, stopped, wanted, slots, batch,
                   current, fresh, calls, host>>

\* Mutant: subscribing is taken to be enough.
NeverFinished == FALSE

\* runner.finished of the run just started.
Finished == phase[fresh] \in {"finished", "marking", "ended"}

Check ==
    /\ Alive /\ pump = "check"
    /\ IF Finished /\ row[current] = "running"
         THEN pump' = "fail" /\ UNCHANGED <<current, fresh>>
         ELSE Launched
    /\ UNCHANGED <<rows, intent, runs, wanted, slots, batch, calls, host>>

\* mark_ended on behalf of launch, which does not pump.
FailLaunched ==
    /\ Alive /\ pump = "fail"
    /\ Write(current, "failed")
    /\ Launched
    /\ UNCHANGED <<bound, intent, runs, wanted, slots, batch, calls, host>>

-----------------------------------------------------------------------------
(* A run of kind `download`. *)

\* The runs whose token somebody still looks at.
Heeding == {r \in Run : phase[r] \in {"active", "fetching"}}

Moves(r, from, to) ==
    /\ Alive /\ phase[r] = from
    /\ phase' = [phase EXCEPT ![r] = to]
    /\ IF to = "ended"
         THEN of' = [of EXCEPT ![r] = NoDownload] /\ watched' = watched \ {r}
         ELSE UNCHANGED <<of, watched>>
    /\ stopped' = IF to = "fetching" THEN stopped ELSE stopped \ {r}
    /\ UNCHANGED <<calls, host>>

\* The node reaches `execute`, whose row may be gone.
Fetch(r) ==
    /\ r \notin stopped
    /\ Moves(r, "active", IF row[of[r]] = "gone" THEN "settled" ELSE "fetching")
    /\ UNCHANGED <<rows, intent, pass>>

\* It ends before its node runs: cancelled, refused or broken.
Break(r) == Moves(r, "active", "settled") /\ UNCHANGED <<rows, intent, pass>>

\* The end of `execute`: the verdict, forget, pump.
Leave(r, s) ==
    /\ Moves(r, "fetching", "settled")
    /\ Write(of[r], s)
    /\ intent' = [intent EXCEPT ![of[r]] = "none"]
    /\ wanted' = (wanted \/ Open)
    /\ UNCHANGED <<bound, pump, slots, batch, current, fresh>>

Land(r) == Leave(r, "succeeded")

TransferFails(r) == Leave(r, "failed")

\* The job reports RUN_CANCELLED.
Interrupted(r) ==
    /\ r \in stopped
    /\ Leave(r, IF intent[of[r]] = "cancel" THEN "cancelled" ELSE "paused")

\* The run is finished in the database, unless it was only suspended.
End(r) ==
    /\ Moves(r, "settled", IF host = "suspended" THEN "ended" ELSE "finished")
    /\ UNCHANGED <<rows, intent, pass>>

\* Mutant: the observer is not told.
DeafTo(r) == FALSE

\* run_ended finds the row `running`.
Accused(r) == r \in watched /\ row[of[r]] = "running"

\* The `end` event reaches the observer, which looks at the row ...
Publish(r) ==
    /\ Moves(r, "finished", IF Accused(r) THEN "marking" ELSE "ended")
    /\ UNCHANGED <<rows, intent, pass>>

\* ... and fails it.
MarkEnded(r) ==
    /\ Moves(r, "marking", "ended")
    /\ Write(of[r], "failed")
    /\ wanted' = (wanted \/ Open)
    /\ UNCHANGED <<bound, intent, pump, slots, batch, current, fresh>>

\* Stop on the tasks page: runs.cancel, which knows nothing of downloads.
StopRun(r) ==
    /\ host = "up" /\ r \in Heeding \ stopped
    /\ stopped' = stopped \cup {r}
    /\ UNCHANGED <<rows, intent, phase, of, watched, pass, calls, host>>

-----------------------------------------------------------------------------
(* Commands.  Each reads its row first and acts on what it read. *)

Turns(c, p) == at' = [at EXCEPT ![c] = p]

Asks(c, d, p) ==
    /\ host = "up" /\ at[c] = "idle"
    /\ Turns(c, p)
    /\ target' = [target EXCEPT ![c] = d]
    /\ UNCHANGED <<rows, intent, runs, pass, host>>

\* start up to its await: no active row of the item.
AskStart(c, d) ==
    /\ row[d] = "none" /\ \A b \in Call : target[b] # d
    /\ \A e \in Download : ItemOf[e] = ItemOf[d] => row[e] \notin Active
    /\ Asks(c, d, "creating")
    /\ UNCHANGED seen

\* The run id of the row as the command read it.
Sees(c, d) == seen' = [seen EXCEPT ![c] = bound[d]]

AskPause(c, d) ==
    \/ row[d] = "queued" /\ Asks(c, d, "settling") /\ UNCHANGED seen
    \/ row[d] = "running" /\ Asks(c, d, "pausing") /\ Sees(c, d)

AskCancel(c, d) ==
    \/ row[d] \in {"queued", "paused"} /\ Asks(c, d, "discarding") /\ UNCHANGED seen
    \/ row[d] = "running" /\ Asks(c, d, "cancelling") /\ Sees(c, d)

AskResume(c, d) ==
    /\ row[d] \in {"paused", "failed"} /\ Asks(c, d, "resuming")
    /\ UNCHANGED seen

AskRemove(c, d) ==
    /\ row[d] \in Terminal \cup {"paused"} /\ Asks(c, d, "removing")
    /\ UNCHANGED seen

\* The command is over; its last write may be followed by a pump.
Returns(c, pumps) ==
    /\ Turns(c, "idle")
    /\ target' = [target EXCEPT ![c] = NoDownload]
    /\ seen' = [seen EXCEPT ![c] = NoRun]
    /\ wanted' = (wanted \/ (pumps /\ Open))
    /\ UNCHANGED <<runs, pump, slots, batch, current, fresh, host>>

Create(c) ==
    /\ Alive /\ at[c] = "creating"
    /\ row' = [row EXCEPT ![target[c]] = "queued"]
    /\ UNCHANGED <<bound, intent>>
    /\ Returns(c, TRUE)

Settle(c) ==
    /\ Alive /\ at[c] = "settling"
    /\ Write(target[c], "paused")
    /\ UNCHANGED <<bound, intent>>
    /\ Returns(c, FALSE)

Discard(c) ==
    /\ Alive /\ at[c] = "discarding"
    /\ Write(target[c], "cancelled")
    /\ UNCHANGED <<bound, intent>>
    /\ Returns(c, row[target[c]] # "gone")

Resume(c) ==
    /\ Alive /\ at[c] = "resuming"
    /\ Write(target[c], "queued")
    /\ UNCHANGED <<bound, intent>>
    /\ Returns(c, row[target[c]] # "gone")

Remove(c) ==
    /\ Alive /\ at[c] = "removing"
    /\ row' = [row EXCEPT ![target[c]] = "gone"]
    /\ bound' = [bound EXCEPT ![target[c]] = NoRun]
    /\ intent' = [intent EXCEPT ![target[c]] = "none"]
    /\ Returns(c, TRUE)

\* set_intent; then abort goes by the run id of the row read at first.
Intend(c) ==
    /\ Alive /\ at[c] \in {"pausing", "cancelling"}
    /\ intent' = [intent EXCEPT ![target[c]] =
                     IF at[c] = "pausing" THEN "pause" ELSE "cancel"]
    /\ Turns(c, IF seen[c] = NoRun THEN "unbound" ELSE "aborting")
    /\ UNCHANGED <<rows, runs, pass, target, seen, host>>

\* No run is known: settle by the intent, leaving it in the map.
SettleUnbound(c) ==
    /\ Alive /\ at[c] = "unbound"
    /\ Write(target[c],
             IF intent[target[c]] = "cancel" THEN "cancelled" ELSE "paused")
    /\ UNCHANGED <<bound, intent>>
    /\ Returns(c, FALSE)

\* RunService::cancel: nothing to do for a run that is no longer active.
Abort(c) ==
    /\ Alive /\ at[c] = "aborting"
    /\ stopped' = stopped \cup ({seen[c]} \cap Heeding)
    /\ Turns(c, "awaiting")
    /\ UNCHANGED <<rows, intent, phase, of, watched, pass, target, seen, host>>

Await(c) ==
    /\ Alive /\ at[c] = "awaiting" /\ phase[seen[c]] = "ended"
    /\ UNCHANGED <<rows, intent>>
    /\ Returns(c, FALSE)

-----------------------------------------------------------------------------
(* The host. *)

\* dispose, which is followed by RunService::dispose.
Dispose ==
    /\ host = "up"
    /\ host' = "closing"
    /\ intent' = [d \in Download |-> "none"]
    /\ UNCHANGED <<rows, runs, pass, calls>>

Suspend ==
    /\ host = "closing"
    /\ host' = "suspended"
    /\ stopped' = Heeding
    /\ UNCHANGED <<rows, intent, phase, of, watched, pass, calls>>

\* The process ends, after a shutdown or without one.
Exit ==
    /\ Alive
    /\ host' = "down"
    /\ intent' = [d \in Download |-> "none"]
    /\ phase' = [r \in Run |-> IF phase[r] = "none" THEN "none" ELSE "ended"]
    /\ of' = [r \in Run |-> NoDownload]
    /\ stopped' = {} /\ watched' = {}
    /\ pump' = "rest" /\ wanted' = FALSE /\ slots' = 0 /\ batch' = {}
    /\ current' = NoDownload /\ fresh' = NoRun
    /\ at' = [c \in Call |-> "idle"]
    /\ target' = [c \in Call |-> NoDownload]
    /\ seen' = [c \in Call |-> NoRun]
    /\ UNCHANGED rows

\* attach gives the new process a runner, and pumps.
Attach ==
    /\ host = "down"
    /\ host' = "attaching" /\ wanted' = TRUE
    /\ UNCHANGED <<rows, intent, runs, pump, slots, batch, current, fresh,
                   calls>>

\* That pump, on the thread of the start, is over; the start goes on.
Attached ==
    /\ host = "attaching" /\ pump = "rest" /\ ~wanted
    /\ host' = "starting"
    /\ UNCHANGED <<rows, intent, runs, pass, calls>>

\* Mutant: rows of the last process are left alone.
NotRequeued == row

\* Whatever is `running` goes back to the queue.
Requeued == [d \in Download |-> IF row[d] = "running" THEN "queued" ELSE row[d]]

\* recover, at the end of the host's start.
Recover ==
    /\ host = "starting"
    /\ host' = "up"
    /\ row' = Requeued
    /\ bound' = [d \in Download |-> IF row[d] = "running" THEN NoRun
                                    ELSE bound[d]]
    /\ wanted' = TRUE
    /\ UNCHANGED <<intent, runs, pump, slots, batch, current, fresh, calls>>

-----------------------------------------------------------------------------
PumpStep == Pass \/ Pick \/ Mark \/ Start \/ Bind \/ Watch \/ Check \/ FailLaunched

RunStep(r) == \/ Fetch(r) \/ Break(r) \/ Land(r) \/ TransferFails(r)
              \/ Interrupted(r) \/ End(r) \/ Publish(r) \/ MarkEnded(r)
              \/ StopRun(r)

CallStep(c) ==
    \/ \E d \in Download : \/ AskStart(c, d) \/ AskPause(c, d) \/ AskCancel(c, d)
                           \/ AskResume(c, d) \/ AskRemove(c, d)
    \/ Create(c) \/ Settle(c) \/ Discard(c) \/ Resume(c) \/ Remove(c)
    \/ Intend(c) \/ SettleUnbound(c) \/ Abort(c) \/ Await(c)

HostStep == Dispose \/ Suspend \/ Exit \/ Attach \/ Attached \/ Recover

Next == \/ PumpStep \/ HostStep
        \/ \E r \in Run : RunStep(r)
        \/ \E c \in Call : CallStep(c)

Spec == Init /\ [][Next]_vars

-----------------------------------------------------------------------------
(* What the queue promises. *)

\* No more rows are `running` than the setting allows, whatever commands, late
\* ends and restarts do between the count and the launch (pump_once).
CapRespected == Cardinality(With("running")) <= Concurrency

\* Some run will still answer for d: the service hears its end, or launch is
\* about to subscribe and look.
Backed(d) ==
    \/ \E r \in Run : of[r] = d /\ phase[r] \notin Over /\ r \in watched
    \/ pump \in Launching /\ current = d

\* No row stays `running` with nothing behind it, which would hold its slot
\* for ever (launch, mark_ended, recover).
NoneStranded == host = "up" => \A d \in With("running") : Backed(d)

Fetching == {r \in Run : phase[r] = "fetching"}

\* The queue respects the concurrency cap: no more transfers at a time than the
\* setting allows (downloads/tests.rs).
TransfersCapped == Cardinality(Fetching) <= Concurrency
=============================================================================
