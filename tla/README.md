# A TLA+ model of AI Studio's execution core

AI Studio is a desktop application: a Tauri shell and a React renderer in front
of a Rust host, `src/crates/zvs-host`, that owns the database and does the work.
Everything the user starts (a chat turn, a scenario, an indexing job, a
download, an agentic session) becomes a *run*: a graph of nodes that the kernel
executes, whose rows live in SQLite and whose events reach the windows through
an event stream. This directory models that core: what a run does while nodes
finish, fail, wait for the user, are cancelled, time out, and while the host
stops or dies and starts again.

Paths below are relative to `src/crates/zvs-host/src/` unless they start with
`src/`.

## 1. Inventory

### 1.1 The core

**Scheduler** (`kernel/scheduler.rs`). One `Scheduler` object per running run.
*State*: in SQLite the run row (status, outcome) and a step row per attempt; in
memory `State` (completed, skipped, attempts, latest, ready_at, failure,
pending_gates), the cancel token, `stopping`, `terminal`; on the stack of
`drive` the set of running nodes and the futures it polls. *Operations*:
`execute`/`drive` (load checkpoints, scan, wait, conclude), `run_node` (one
attempt), `set_status`, `finish`, and the link that a node's own task uses
(`emit`, `request_approval`, `ask_user`, `invoke_tool`). *Hard*: the driver is
one task, every node's work another; a task can outlive its attempt when it
ignores cancellation; the state is changed under a lock and the rows after it;
a commit can fail; a crash leaves only the rows. *Right when*: attempts of a
node do not overlap, the retry budget is kept over restarts, checkpoints are
final, dependencies come first, exactly one `end` goes with a finished status,
nothing keeps a cancelled run alive, and every run ends if its nodes do.

**Run service** (`services/runs.rs`). *State*: the active table (run id to
scheduler and a `done` signal), `closed`. *Operations*: start, cancel (with
child runs), retry, clear, dispose, recover, the admission gate, subscription.
*Hard*: recovery decides what an unfinished run was doing from rows alone, while
clients are already served; starting races disposing; cancelling a parent races
the start of its children. *Right when*: recovery never repeats a finished step
or an operation that was waiting for permission, no run is forgotten, children
end with their parents, and dispose waits for what it suspends.

**Approvals** (`services/approvals.rs`, admission in `services/runs.rs`).
*State*: a `pending_approval` row per request, a map of waiting senders.
*Operations*: create, wait, settle, decide, is_pending. *Hard*: two windows and
the console answer the same request, the timer and the cancel token end the
wait, permissions change meanwhile, and the row and the map are updated
separately. *Right when*: nothing runs without an approval that was given and
is still allowed, and every request ends.

**Run stream** (`kernel/stream.rs` on `platform/events.rs`). *State*: the next
sequence number and the closed flag, a buffer of one merged token, the
`run_event` table. *Operations*: emit, commit (the caller's rows together with
their events), flush, record, drop, reopen. *Hard*: tokens are delivered before
they are stored, everything else after; a failed transaction must leave no
trace; a crash loses the buffer and the numbers are used again. *Right when*:
the stored record is the stream that the windows saw, up to a tail of tokens.

**Permissions** (`services/permissions.rs`). *State*: a tier per subject and
scope, ceilings per tool. *Operations*: admit, grant, revoke. *Right when*: the
strictest tier wins and a scoped `auto` never widens a global `ask` or `off`.

**Questions** (`services/questions.rs`). *State*: a map of waiters in memory, no
timeout. *Operations*: wait, answer, skip. *Hard*: the second kind of gate, and
one that a restart forgets.

**Event bus** (`platform/events.rs`). *State*: open streams, subscribers.
*Operations*: open, publish, subscribe, dispose.

**Download queue** (`downloads/service.rs`). *State*: a `download` row with
status and run id, maps of intents and live transfers, `closed`, the `pumping`
lock and the `pump_requested` flag. *Operations*: start, pause, resume, cancel,
remove, `pump` (any thread, at any time), `launch`, `execute` (called by the
node of the run), `run_ended` (called back by the stream), dispose, attach,
recover. *Hard*: commands act on a row they read before; the run is launched
after its row is marked and bound to it later still, may end before anybody
subscribed, and knows its row by id only; calls of `pump` fall together; a new
process pumps before it recovers. *Right when*: a call of `pump` is never lost,
no more rows are `running` and no more transfers take place than the setting
allows, and no row holds a slot with no run behind it.

**Conversation** (`services/chat.rs`, `services/chat/queue.rs`,
`services/chat/wake.rs`, `services/chat_goal.rs`). *State*: in the database the
messages and the goal of a conversation, in memory the queue of messages written
while a turn runs and the set of conversations about to be woken. *Operations*:
send, the queue's add, edit, remove, flush and the send at the end of a turn, a
goal's start, rounds, continuation, stop and settling, waking after a background
process, recovery of goals. *Hard*: a turn ends in a callback of its stream, while
people add, remove and flush from two front ends; each of "the turn has ended"
and "a message was added" must not rely on the other; a goal may give way to a
message and is settled by what the callback finds in the queue. *Right when*:
every queued message is stored once or taken back, a goal is not active with
nobody at work on it, a process that ended is reported, and the host does not
talk to itself without end.

**Sidecar** (`drivers/sidecar/mod.rs`). *State*: one child process with its
generation, the pending jobs, a lock for starting. *Operations*: run a job (with
cancellation and its grace period), ping, dispose; in the background a writer, a
reader, a health check and a watcher that retires the process. *Hard*: callers
share the process, leave at any await, and the process may be another one at each
of them. *Right when*: nobody waits for a process that is not watched, and a
cancelled job ends.

**MCP supervisor** (`services/mcp.rs`, `drivers/mcp/`). *State*: per server a row
with its status and a `Supervisor` (client, launch under way, generation,
failures, pending restart). *Operations*: start, stop, restart, update, call (a
start), the launch task, `died` (called by the transport). *Hard*: each operation
awaits between two looks at the supervisor, and a death is reported by a thread
of its own, late. *Right when*: no server process is left that nobody will stop,
and restarts are bounded.

**Files** (`files/`). *State*: the files of the user's folders, the copies of
originals under `snapshots/`, and in memory the ledger of what each run has read,
for the last 64 runs. *Operations*: read, and apply a batch of changes: plan it
over the disk, check that the run has read what it changes, let it be reviewed,
compare the disk with the plan, copy the originals, write file by file, roll back
when a write fails, and record what was written. *Hard*: the review takes as long
as a person does, other runs and other programs write the same files all the time,
and the batch is many writes of which any may fail. *Right when*: nothing is
replaced unseen or without a copy, a batch is applied whole or not at all, and the
ledger says what the disk holds.

How they meet: a service builds a graph and calls `RunService::start_with`,
which inserts the queued row, opens a `RunStream` and launches a `Scheduler` in
a task; the scheduler spawns a task per node, whose `StepContext` leads to the
`Gate` of the run service (admission), from there to permissions and approvals,
and back into the scheduler (`request_approval` counts a gate and blocks the
run). Rows and events are committed by the stream in one transaction. A client
decides an approval by a request that reaches `ApprovalService::decide`. A chat
turn is such a run, its service observes the run's stream, and a delegate call in
it starts a child run and waits for it. After a start of the host,
`RunService::recover` walks over the unfinished rows and `recover_goals` over the
conversations.

### 1.2 The rest of the system

| Part | State it keeps | Operations and hard behaviour | Right when |
|---|---|---|---|
| Chat, the rest (`services/chat*.rs`) | branches, drafts, memory | edit, regenerate, attach to a running turn; results of a run are absorbed by a callback | an attached window misses and repeats nothing |
| Tool loop, subagents (`services/tool_loop.rs`, `subagents.rs`) | rounds of a reply | tool calls of one reply, child runs, limits | bounded rounds, a child never outlives its parent |
| Agentic (`agentic/`) | session row, iterations | start, pause, resume, stop; checks after each iteration | limits hold over restarts |
| Scenarios (`scenarios/`) | drafts, versions, triggers | compile into graphs, schedule | a compiled graph is valid |
| Background shells (`background/`, `src/crates/zvs-jobd`) | jobs owned by a daemon | start, attach, stop over host restarts | one owner per process |
| Workers and runtimes (`workers/`, `runtimes/`) | one process per job | start, kill, install | a killed job answers once |
| Indexing and vector stores (`indexing/`, `services/vector_*.rs`) | generations of an index | stage, swap, rollback | readers see one generation |
| Providers, accounts, secrets | rows | edit, probe | — |
| Settings, storage, retention | rows | edit, prune | an active run is never pruned |
| Policy (`policy/`) | rules | match | first matching rule by its order |
| Console (`cli/`, `src/crates/zvs-cli`, `zvs-pipe`) | sessions on a pipe | commands, prompts | same protocol as a window |
| Renderer (`src/apps/studio/src`) | stores per feature | `EventRouter`, `ChatStore` rebuild a run from its record and live events | a page shows what the rows say |
| Shell (`src/apps/studio/src-tauri`) | windows, browser views | start of the host, automation | — |
| Browser, computer, integrations, skills, commands, terminal, workspace, documents, artifacts, voice, notifications, dashboards | files, external systems | mostly input and output | — |

`PROJECT.json` lists every part with its status, and every hazard we know of at
the line where it bites.

## 2. Modules

| Module | What it is |
|---|---|
| `Scheduler` | one run: driver, node tasks, gates, cancellation, shutdown, crash, recovery |
| `RunContract` | what a run promises to a reader of its rows, with no scheduler in sight |
| `Approvals` | one approval request between operation, clients, clock and settings |
| `RunStream` | the event stream of one run and its table |
| `Pump` | `DownloadService::pump`: a lock, a flag and any number of threads |
| `PumpPromise` | what a caller of `pump` relies on |
| `Downloads` | the download queue: rows, the pass of the pump, runs, commands, restarts |
| `Runs` | `RunService` over a parent, its child and a run that recovery resumes |
| `Conversation` | a conversation: turns, queue, goal, wake-ups |
| `Mailbox` | what the queue promises for each message |
| `Sidecar` | the driver of the sidecar process |
| `Mcp` | the supervisor of one MCP server |
| `Files` | the file tools: reading, batches of changes and their rollback, the ledger |
| `MCServices` | the small services (`Approvals`, `RunStream`, `Pump`, `Runs`, `Sidecar`, `Mcp`), one in each behaviour |
| `MCConversation` | `Conversation` and `Files`, one in each behaviour |
| `MCScheduler`, `MCApprovals`, `MCDownloads`, `MCMcp` | small instances for TLC |
| `SchedulerProofs` | types, status and `end` are one fact, the gate counter is exact, runs fail for a cause, denials are told, no approval, no denial by a recovery |
| `CheckpointProofs` | attempts do not overlap, checkpoints are final, the budget holds, success is complete, `Scheduler` implements `RunContract` and what that means to a watcher |
| `ToolProofs` | `Approvals`: types, no admission without an approval, a disabled tool stays refused, no leaked waiter, the first of two answers wins unless they overlap; `Mcp`: every server process has somebody who will stop it |
| `ServiceProofs` | `Runs`: no run is forgotten, dispose drains; `RunStream`: the record is the stream, what a restart takes back, nothing after `end`; `Sidecar`: nobody waits in vain; all of it for the composition `MCServices` |
| `ConversationProofs` | types, what is queued is sent, goals are pursued, processes are reported, `Conversation` implements `Mailbox` and what that means to a writer; all of it, with `Files`, for the composition `MCConversation` |
| `PumpProofs` | passes exclude each other, no request is lost, `Pump` implements the safety of `PumpPromise` |
| `DownloadsProofs` | no more rows are `running` than the setting allows, none without somebody to settle it, transfers stay within the cap while nobody settles a row that is worked at |
| `FilesProofs` | types, batches are whole, originals are kept, the ledger is current |

A definition whose comment says "Mutant" is not part of the model: it is a form
of the definition below it that a plausible mistake in the code would give, kept
to show that the properties notice it.

### 2.1 `Scheduler`

State, in the order of the code's owners:

* **rows** — `status`, `code` and `ends` of the run, `steps[n]` (the step rows of
  a node, by attempt: `attempt` is the position), `ledger[n]` (the newest
  approval row of the node). These survive a crash.
* **`State`** — `completed`, `skipped`, `attempts`, `latest`, `failure`, `gates`
  (`pending_gates`), and `resting` for `ready_at` of a node whose backoff has
  not elapsed; `BackoffElapsed` is the clock.
* **flags** — `cancelled`, `stopping`. `terminal` and `finishing` need no
  variable: `finish` is called once per driver, and what they guard afterwards
  is the *events* of late tasks.
* **`drive`** — `driver` is the program counter, `todo` the nodes the pass has
  not looked at, `sleeping` those it found resting, `progressed` and `running`
  are its locals.
* **tasks** — `pc`, `stage` (admission or execution), `gate` (the kind of the
  open gate) and `live` (the flag the link checks).
* **host** — `host`, `crashes`, `faults`.

Actions. `Load` is `load_checkpoints` and the first status; `Loop`, `Scan*`,
`EndPass`, `Wake` are the loop of `drive`, one node of a pass at a time because
tasks run between two looks at the state; `Begin` is the first poll of
`run_node` (attempt number, row, spawn); `Settle*` and `Abandon` are its tail
(state, then the commit of the row, then `settle`), with the commit failing or
not; `Conclude` and `ConcludeFailed` are the end of `drive` and the error path
of `execute`, both with `finish`. A task moves by `Execute` (the second
`check_cancelled`), `Return`, `OpenGate`, `BlockRun`, `BreakGate`, `CloseGate`,
`ResumeRun` and `TimeOut`. `CloseGate` and `ResumeRun` are apart, and so are
`OpenGate` and `BlockRun`, because `gate_finished` and `request_approval` release
the lock between the counter and the status write. `Cancel` and `Suspend` are
`RunService::cancel` and `dispose`; `Crash` may happen anywhere, `Reboot` is the
start of the next process up to the branch of `recover_run`, and
`CloseRecovered` its rest.

What is abstracted: values (inputs, outputs, bindings), except whether a
condition is met (`Fits`); messages and codes to what the outcome tells apart;
time to "elapsed or not". Nested tool steps of a node (`invoke_tool`) are not
modelled; they own rows of their own and no scheduling state.

### 2.2 `RunContract`

Four variables: is the run open, how often was each node tried, which nodes are
done, how many ends. `Try`, `Check`, `End`. `Scheduler` implements it
(`KeepsContract`) under the mapping `phase` from `status`, `tries` from the
number of rows, `done` from `Checkpointed`. A replay of a checkpoint, a second
end, a step after the end, or a success with an unfinished node is a step that
the contract does not have.

### 2.3 `Approvals`

`row`, `waiter` and `channel` are the three places a decision can be; `op` is the
operation (`Gate::admit_tool` around `ApprovalService::wait`), `at[c]` each
client's call of `decide`. `Ask` reads the row, `Register` inserts the sender,
`Resolve` is the biased select, `Settle` drops the sender and overwrites the
row, `Decide` asks the permissions again. `decide` is `Read`, `Check`, `Commit`
(one transaction) and `Tell`, apart because nothing holds a lock across them.
The clock (`Expire`), `Cancel`, `Disable` and `SwitchOff` happen at any time.
The tool's global tier is `ask`, the case in which a request exists at all.

### 2.4 `RunStream`

`next` and `closed` are the bus's state of the stream, `buffer` the merged
token (a sequence of at most one row), `table` the stored rows. A row stands for
`first..seq`; the code stores only `seq`, `first` is what the merge covered.
`sent` is what windows received, by number. `Token` and `Commit` each take the
stream's lock for their whole body, so they are atomic; what happens between
them is `Drop`, `Crash` and `Reopen`. Reopening cuts `sent` back to what is
stored: the next events use those numbers again.

### 2.5 `Pump` and `PumpPromise`

`pc[t]` is where a thread is in `pump`: `enter` (the test of `closed`), `store`
(the flag is set), `try` (`try_lock`), then inside the lock `swap` (the condition
of the inner loop) and `pass` (`pump_once`), `unlock`, and `recheck` (the flag is
read again). Each atomic operation and each operation on the lock is one step.
`PumpPromise` has none of this: a call asks, a pass begins and answers every call
before it, a pass finishes; unless the service is closed a pass begins after
every call. `Pump` implements it (`KeepsPromise`) with the flag as `wanted` and
"some thread is in `pass`" as `passing`.

### 2.6 `Downloads`

`row` and `bound` are the table, `intent` the map. `wanted` is a pending call of
`pump`, by what `Pump` shows; `Pass`, `Pick` and `Mark` are `pump_once` (count,
`next_queued`, and row by row), `Start`, `Bind`, `Watch`, `Check` and
`FailLaunched` are `launch`, with `slots`, `batch`, `current` and `fresh` for the
locals. A run goes `active`, `fetching` (inside `execute`), `settled`,
`finished` (its end is committed), `marking` (the observer has found its row
`running`) and `ended` (it has left the active table); `Break` ends it before its
node runs. A command is a first step that reads its row (`Ask*`) and later ones
that write (`Settle`, `Discard`, `Resume`, `Remove`, `Create`, or `Intend` and
then `Abort` and `Await`, or `SettleUnbound` if the row it read had no run).
`Dispose` and `Suspend` are the two stages of the shutdown, `Exit` the end of the
process at any time, `Attach`, `Attached` and `Recover` the start of the next
(`src/apps/studio/src-tauri/src/lib.rs:1120`, `:1361`).

Left out: priority and size (any queued rows may be picked), `prioritise`,
`forget_by_ref`, the preconditions of `start`, progress, the file, failed writes,
and changes of the setting, which is a constant. A token is recorded as cancelled
(`stopped`) only for a run that still looks at it (`Heeding`). `remove` deletes a row and ids
are not used again (`gone`).

### 2.7 `Runs`

`status` is the table of runs; `stage[r]` is where `start_with` of run `r` stands
(the check of `closed`, the transaction, the launch), `exec` where the task of
each of its instances is (one launched by its start, one by recovery), `token`
and `stopping` what `cancel` and `suspend` did to the instance, `entry` the table
of active runs, `streams` the streams the bus has open. What one run does between
its first status and its end is `Scheduler`'s; here it only begins, may fail, ends
or stays. `watching` are the delegate calls that wait for a child, `signals` the
runs a `cancel` has read and not yet looked up. The host is `phase`: `boot` and
`recovering` (`RecoverReads`, `RecoverLooks`, `RecoverRun`), while which clients
are served already (`src/apps/studio/src-tauri/src/lib.rs:1348`, `:1359`), `up`,
and `dispose` in three steps. `Reboot` ends the process anywhere. A row whose
start failed after the transaction (`LaunchFails`) waits for the next start.

### 2.8 `Conversation` and `Mailbox`

`row` is what the database holds, `inbox` the `QueueState`, `turns` the runs of the
conversation with the stages of their end: `ended` (the row is finished), `recorded`
(`Inner::record` has settled the goal) and `over` (`Waker::turn_ended` has run).
Commands, the poller of `queue_turn_ended` and wake-ups are threads; `op[t]` holds
what a thread has read or taken, so a batch that was taken and not yet stored is
in no other place. `held` and `withdrawn` are history: that the queue was left
unsent on purpose, and the messages that were taken back. What a behaviour may
contain is its `load`, since the whole is too large to explore at once; one of the
loads (`overlap`) lets two starts interleave between the idle check and the insert,
as the code does. `Mailbox` knows three sets: waiting, stored (in order) and gone.
`Conversation` implements it with `Waiting`, the queue and the batches taken from
it, as `waiting` (`KeepsMailbox`). `queue_remove` retains every message with another
id; ids are unique, so `QueueRemove` takes out the one message that has it.

### 2.9 `Sidecar`

`place[c]` is where a caller is in `run` and `ensure`; `child` is the generation in
`State.child`, `up` the processes that live, `killed` those whose token is
cancelled, `broken` those that do not read any more. `jobs` and `answer` are the
map of pending jobs and what was sent to each, `lines` the results written and not
yet read. A caller leaves at any await (`DropRun`), and `JobSlot::drop` with it.

### 2.10 `Mcp`

`serverRow` is the row and the registered tools, `supervisor` the fields of
`Supervisor`; `launching` is the launch task, `doing[a]` an actor in `start`, `stop`
or `update`, and the restart after a death is an actor too. `running` are the
processes, `fired` the servers whose closed hook has been called and `dying[g]` the
thread in `died`. Every lock section and every write of the row is a step.

### 2.11 `Files`

`disk` is what the files hold, a number per content and 0 for no file; whatever is
written for the first time is a new number. `copies` are the originals under
`snapshots/`, `knows` and `recent` the `ReadLedger`, `job[w]` where run `w` is in
`FsApplyNode::run`, and `plan[w]` first the `Overlay` and then the `Plan` it becomes.
`PlanChange` is one change of the batch over the overlay; it reads the disk when it
meets a file for the first time, so two files of one batch may be read at different
moments. `CheckFresh` is `check_fresh` with the early return of a batch that changes
nothing, `ReviewPasses` and `ReviewEnds` the review and `confirm`. A `Plan` is not a
list of its own: it is what the overlay holds of the files whose content differs from
what was stored (`Changed`), in the order in which the batch met them (`Met`, the place
in `order`). The index of a batch is the place of the last file behind it; `Behind` and
`Ahead` are the files on either side of it, `AtFile` and `BackAt` the next one and the
last one. `BatchAssumption` says that a batch is a sequence of changes, a move with a
target, as the parameters of the tool are parsed. On the blocking
thread `Compare` is one file of `unchanged_since_plan`, `TakeSnapshot` the copies,
`CommitFile` and `CommitFails` one file of `commit`, `RestoreFile` and `RestoreFails`
one of `restore`, from the file that failed back to the first. `FinishApply` is the
loop over the ledger as one step. `UserWrites` is any other program, `HostDies` the
end of the process anywhere.

Two variables are history. `foreign[w]` are files that `w` knows and somebody else
wrote afterwards, or that its own rollback could not put back; `late[w]` those that
somebody wrote after the batch of `w` had compared them. The properties are about the
other files.

A run uses its tools one at a time: a chat turn runs calls together only when they
are read-only (`services/tool_loop.rs:456-471`) or belong to child runs, which are
workers of their own. A scenario whose graph has two file nodes side by side in one
run, and a step timeout that drops the node while its blocking thread goes on, are
not modelled. Left out as well: files of the app's own folders (which need not have
been read), their quota, binary files, created folders, `fs.list` and `fs.search`.

### 2.12 `MCServices` and `MCConversation`

The six small services share no state, and each alone is a small state space. One
specification holds all of their variables, and `who` says whose behaviour it is;
the others keep an initial state. This is their disjoint sum, not their product:
every property is about one service and is checked over all its behaviours. That a
behaviour of the sum is one of each service is the theorem `Composed` (4.2).
`family` and `resumable` are two instances of `Runs`. `MCConversation` holds
`Conversation` and `Files` in the same way.

## 3. Runs

| Run | Instance | Shows |
|---|---|---|
| `graph` | a branch, its other side and a join, ids against the dependency order, `continue_on_error` and an approval on the first node, two attempts of the join, one restart | attempts do not overlap, the retry budget survives a restart, no row left running in a finished run, checkpoints are final, success is complete, the contract is kept, and every run ends |
| `gates` | two concurrent nodes, approval at admission, question and approval in execution, two attempts, one restart | the gate counter is exact, a denial is reported as one, a run fails only for a cause |
| `faults` | a chain with an approval and a step timeout, two failed commits, one restart, not resumable | status and `end` stay one fact, and cancellation is bounded |
| `services`: approvals | two clients, expiry, cancellation, changing settings | no admission without approval, a disabled tool stays refused, no leaked waiter, every request ends |
| `services`: stream | two kinds of token, five events per process, two failed transactions, two restarts | the record is the stream, a crash takes back tokens only, nothing follows `end` |
| `services`: pump | three threads, closing at any time | passes do not overlap, no call is lost, the promise is implemented |
| `services`: runs | a parent with its child, or a resumable run; one restart, one failed launch | no unfinished run is forgotten, children follow their parents, dispose drains what it suspends |
| `services`: sidecar | two callers, as many processes, every way to fail | nobody waits in vain, a cancelled job ends |
| `services`: mcp | two users, two commands, three launches, one restart allowed | every process has somebody to stop it |
| `conversation`: turns | two threads and, by load: two messages with a refused start, a message and a goal, two processes over three turns, a message and a process, a goal and a process with a restart, overlapping starts | queued messages are sent, goals served or excused, processes reported, `Mailbox` is implemented |
| `conversation`: files | two runs, two batches, two files of which one exists, a change by somebody else, two failing writes, one death | originals are kept, a batch is whole, the ledger is current |
| `queue` | two downloads, one slot, one command in flight, two launches, any number of restarts | the cap on `running` rows, no row is stranded |
| `timeout_leak`, `late_write`, `question`, `first_answer`, `restart`, `restart_limit` | the smallest instance | see 5 |

**Bounds.** Two concurrent nodes are enough for every race between two tasks and
the driver, because a task touches only its own row and the shared counter and
status; the four nodes of `graph` give a branch taken, a branch skipped and a
join of both. Two attempts make first, retried and exhausted different. One
restart separates "this process" from "an earlier one"; recovery reads rows and
has no memory of how many restarts there were. Two faults let one commit fail
and another while the first is being handled. In `RunStream` five events allow
two merged runs of different kinds with a unit of work between them. The runs of the scheduler
that need no failing commit set `MaxFaults = 0`: with a failed commit a finished
run may keep a running row (hazard at `kernel/scheduler.rs:721`). In `Pump`, three
threads are one that works, one that is turned away and one that comes late. In
`queue` one slot makes two rows compete, and a second run is what a late end or a
second launch needs; one command in flight still races the pump, the runs and the
host. `Download`, `Run` and `Call` are symmetric: no definition tells their
members apart (`ItemOf` is injective and only compared).

In `Runs` one child is enough: `cancel` and the delegate call treat children one
by one, and grandchildren do not exist (a subagent has no delegate tool). In
`Conversation` two threads give every pair of commands that may race; a third
would only wait. Two messages make order, batches and a put-back queue visible, and
two turns one that is running and one that the queue starts; two processes that end
close together are what a missed wake-up needs, and a third turn what comes after
the wake-up; the streak is capped at one instead of three. What the loads leave apart
(a goal beside two messages, more turns) is covered by the proofs alone. The two
clients of an approval are alike, so `MCServices` leaves out the choices of the one
that mirror those of the other. In `Sidecar` two callers make two generations,
the smallest number with a stale one. In `Mcp` three launches give a death that
arrives two generations late, and two commands any pair of start, stop, restart,
enable and disable; the limit of restarts is one (`restart_limit`: two) instead of
five. In `Files` two runs over two files, one of them missing at first, overwrite each
other's work; the batches are a creation or overwriting, an edit with a second file,
a move whose target is edited, and a deletion, so that one write may succeed and the
next fail; two failing writes let the rollback fail too; the ledger holds one run
instead of 64, so that each read pushes the other run out; a change by somebody else
may fall between any two steps. The second batch is what a stale ledger would mislead.

**Fairness.** `Fairness` is what the runtime gives: the driver task is polled
(its timers, the grace period among them, elapse), a new process recovers, and a
task that has passed its check does the synchronous write that follows. It does
not make any node return or any user answer; `CancelEnds` holds under it alone.
`Cooperation` adds, for `RunEnds`, that nodes return, gates are resolved (an
approval has a timer, `RequestEnds` in `Approvals`; a question needs a user) and
backoffs elapse. `Execute` and `Return` need *strong* fairness because a gate may
take a task away from them again and again. Nothing makes a host stop crashing;
`MaxCrashes` does. In `Approvals` only the operation's task and the clock are
fair; clients may never come. In `Pump` a thread inside `pump`, which is
synchronous code, goes on; nobody has to call it. In `Runs` code under way goes on
and a run whose token is cancelled ends (`CancelEnds` in `Scheduler`); nobody has
to cancel and no run has to succeed. In `Sidecar` a caller goes on, its grace
period among that, a killed process dies and a ping that cannot be written fails;
no job has to finish and no process has to exit by itself. `Conversation`,
`Mcp` and `Files` have safety properties only.

**Deadlock** is checked in all runs but `conversation`, where a behaviour stops when
its load, or its batches, are used up. `Rest`, `Over`, `Gone`, `Off`, `SidecarOver` and `McpOver` are
the states in which nothing is left to do, and only those.

## 4. Proofs

All theorems are checked by TLAPS for every value of the constants under the
assumptions the modules name (finite non-empty set of nodes, distinct ranks,
positive attempts and concurrency; finitely many downloads; kinds of token are
not kinds of event; the mark for "no owner" is not a thread). What a theorem
assumes beyond that it says as a hypothesis. The inductive invariants were checked
by TLC on the instances of the runs before they were proved.

### 4.1 One run

* `SchedulerProofs!Typed`: the type invariant.
* `EndsOnce`: `EndMatchesStatus`, for any number of crashes and failed commits,
  under `LateWrites = FALSE`: a task does not stall longer than the grace period
  (500 ms) between the check that it is live and the status write that follows it
  without an await. `EndMatchesStatus` is not inductive. A finished row is
  overwritten only by `Load`, `BlockRun`, `ResumeRun` or a second `finish`, so the
  invariant `EndInv` adds that an unfinished driver means an unfinished row
  (`Driven`), that only driven runs have live tasks (`ActiveOnlyDriven`), and that a
  live task and a task about to write still hold their slot in `running`
  (`LiveHasSlot`, `WriterHasSlot`): the driver concludes with no slot taken, hence
  with no writer left.
* `EndsAtMostOnce`: `OneEnd` under the same hypothesis, so that the late write of the
  run `late_write` is the only way a run ends twice.
* `GatesExact`: `GatesCounted` for graphs where a node with a step timeout opens no
  gate while it executes (`GatesUntimed`). The run `timeout_leak` shows that the
  hypothesis is needed. While a process lives the counter is the number of nodes
  that have somebody asked, running or left behind (`GatesKept`), which is stronger than what the
  run checks.
* `NeverRunsDry`: `FailsForCause`, for `GatesUntimed` and acyclic graphs
  (`Acyclic`: of any set of nodes one waits for none of the others; `validate` in
  `kernel/registry.rs:275-320` rejects every other graph). A pass that ends in `NO_READY_NODES` started, skipped
  and put off nothing, so every node it looked at is completed or waits for
  another (`Passed`); the node that acyclicity names would have been ready, and a
  gate that held the scan back would be open in a node, which then has a slot.
* `DenialTold`: `DenialReported`, with no hypothesis. Within one process the row of a
  denied step and `failure` change together (`DeniedFails`), the driver scans no more after
  it (`DeniedStops`), and the code is made from `failure` (`CodeTells`). The claim
  ends with the process; what a restart makes of a denial is a hazard.
* `QuestionsSpared`: `QuestionNotDenied` for graphs none of whose gates is an approval
  (`NoApprovals`): then no approval ever has a row, over restarts, and recovery has
  nothing to deny (`Unasked`). The run `question` shows the rest.
* `CheckpointProofs!NoOverlap` and `CheckpointsStay`: an attempt starts in
  `Begin`, for a node without a task. The invariant `RowInv` says that a running
  row belongs to the newest attempt of a node in `running` (`RowsOwned`) and
  that the driver believes every checkpoint completed (`DoneKept`), so a node
  with a succeeded row is never started again; recovery rewrites running rows
  only.
* `BudgetHolds`: `RetryBudget`. `CountInv` ties the attempt count in memory to the
  rows (`Counted`), says that a node in the loop has room for an attempt (`Room`)
  and that only the last allowed row may be a failure that ends the node
  (`LastFailure`), so the failures are among `1 .. MaxAttempts`. `RowsSettled`:
  `FinishedRowsSettled`, for behaviours with no failed commit; the run `faults` and
  the hazard at `kernel/scheduler.rs:721` are the others.
* `SuccessComplete`: `SuccessIsComplete`. What the driver counts as completed is
  checkpointed or skipped (`CompletedIsDone`), and it leaves the loop uncancelled only
  with every node completed (`DrainedComplete`).
* `Contracted`: `KeepsContract`, under `LateWrites = FALSE`. Every step of the
  scheduler is a `Try`, a `Check`, an `End` or a stutter of `RunContract`
  (`NextSeen`). It needs `EndInv` for the end and, for `Check`, that a node which
  the contract has done was tried: `SkipInv` says that a skipped node has no row
  from whichever process, since the condition that skips it is decided by checkpoints, and
  checkpoints stay.
* `WatchersRely`: what that contract comes to. From `RunContract` alone (`Relied`): a
  run that has ended has one `end` and, if it succeeded, nothing tried and not done
  (`EndedWell`), nothing happens to it afterwards (`Final`), and what is done is never
  tried again (`NotAgain`). `Contracted` carries this over to the scheduler.

### 4.2 The services of a run

* `ToolProofs!ApprovalsTyped`: the type invariant of `Approvals`; it carries that a verdict
  exists wherever one is settled. `Admission`: by the invariant `Sourced`, every
  `approved` in the row, the channel or the verdict comes from a client that
  committed it. `Waiters`: a sender is registered by an operation that waits and
  removed before it decides. `Disabled`: `DisabledNeverAdmitted`, a property of
  steps that needs no invariant, since `Decide` asks the settings again.
* `FirstAnswerWins`: `OneAnswerAccepted`, for behaviours in which no two clients are
  between the check and the transaction of `decide` at once (`InTurn`). A committed
  answer is in the row, where whoever looks afterwards finds it (`Settled`); the overlap
  of the run `first_answer` is all that breaks it.
* `ServiceProofs!Attended` and `Drains`: `RunsAttended` and `DisposeDrains`, for any
  runs and families of them. `RunsAttended` alone is not inductive: a recovered run
  is launched only if the bus has no stream for it, and its place in the list of
  recovery is taken by whatever holds the stream. `AttendInv` therefore says that a
  stream belongs to an instance at work (`LiveHasStream`, `StreamIsLive`), of which
  a run has one (`OneInstance`), that a run found in the table is executed or over
  (`EntryIsLive`), and that nothing is there before the row (`RowFirst`). For
  `dispose` it says that an instance can be found in the table unless the run had
  two (`EntryFinds`), and that what is at work when it drains is what it
  took from the table, or late (`DrainFinds`).
* `RecordExact`, `TokensLost`, `NothingAfterEnd`: `RecordIsStream`,
  `CrashLosesTokensOnly` and `EndIsLast`, for any kinds of token, any number of
  restarts and failed transactions. `StreamInv` says of the stored rows and the
  buffer together that they cover what was sent, contiguously (`Records`); of a
  process that is gone, that the stored rows cover it up to a tail of tokens of one
  kind, which is what the buffer held; and that an `end` that was sent is stored,
  with the stream closed while the process lives.
* `Served`: `WaitersServed` of `Sidecar`, for any number of callers and generations.
  Whoever has found no child under the lock holds the lock (`LockKept`), so a child
  is never replaced under a caller that waits for it, and a job that is about
  to be sent has its slot or its answer (`SlotKept`), so that a process which exits
  in between answers it.
* `RunsTyped`, `StreamTyped`, `SidecarTyped`, `McpTyped`: the types, of which the
  first two and the last are part of the invariants named here. That generations of
  the sidecar stay within the number of callers is a count: `spawned` is at most the
  number of callers past the spawn (`SpawnInv`), and nobody goes back.
* `Accounted`: `ServersAccounted` of `Mcp`, for any number of users, commands and
  launches. The invariant `AccountInv` adds what the launch is doing: a process
  that runs has a generation that was launched and whose hook has not fired, a
  launch that is connecting has nothing running for its generation (`Counted`), and
  where a launch is about to set or drop the client, the client it finds is not
  running or its own (`Replaceable`). The critical steps are `TakeClient`
  (the process goes from the supervisor to the stop that closes it) and
  `DeathChecked`, where the test of the generation keeps a late death from taking
  the client of another server.
* `Composed`, `ServicesTyped`, `ServicesSafe`: for every value of the constants a
  behaviour of `MCServices` is a behaviour of each of the six services, since a step is
  one service's and leaves the variables of the others alone. So the types of all
  (`TypesOK`) and every safety property the run `services` checks hold of the composition.

### 4.3 Downloads

* `PumpProofs!PumpTyped`, `Exclusive`, `NothingLost`, `Implements`: by the invariant that the
  owner of the lock is the one thread between `try_lock` and the release
  (`Owned`) and that while a request is pending and the service open some thread
  is inside `pump` (`Awake`). A thread leaves with the flag set only when another
  owns the lock, and that one will look at the flag again.
* `DownloadsProofs!Cap`: `CapRespected` is not inductive, since a pass marks rows
  long after it has counted. `CapInv` charges the slots that were counted and
  then the rows of the batch to the cap (`Taken`): only `Mark` makes a row
  `running` and it pays with a row of its batch; every other write makes
  `running` rows fewer.
* `Answered`: `NoneStranded`, for any number of downloads, runs and commands. It is
  not inductive, since a run may end anywhere in its launch, before anybody is told.
  `FreshInv` says what the pump knows of the run it has just started, and that after
  the subscription the service will hear its end unless it has come already;
  `Standing` extends the claim to the shutdown, until the runs are suspended. The
  critical step is `Check`, which looks for the end that came before the
  subscription.
* `TransfersWithin`: `TransfersCapped`, for behaviours in which nobody settles a row at
  which a run is at work (`Undisturbed`): no command that acts on an older reading of
  the row, no late end of an earlier run, no `recover` that finds what the pump of the
  same start has launched. Then a busy run has a `running` row to itself (`Sole`), so
  that the transfers inject into the rows and `Cap` bounds them. TLC checked `Sole` and
  `LaunchKept` on the instance of `restart`, with two commands in flight, before the
  proof. The run `restart` is one of the three ways out of the hypothesis; the hazards
  name the others.

### 4.4 Conversations

All for any number of threads, messages, processes, turns and restarts.

* `ConversationProofs!Typed`: the type invariant.
* `QueueSent`, `GoalPursued`, `WakesFollow`: `QueueServed`, `GoalServed` and
  `WakeServed`. The first two speak of states at rest; the inductive forms name
  who has yet to act. `QueueKept`: a queue that is not held back has a poller, a
  thread that is about to look at it, or a turn whose end will. `GoalKept`: an
  active goal has a turn whose end is still to be recorded, a start under way with
  the messages it gave way to, or those messages in the queue or withdrawn. `Marks`
  keeps the marks honest: the queue is held or yielding only while something is in it
  or was taken out by the person, and what goes back to it is never empty.
* `Delivers`: `KeepsMailbox`. Every step adds one message, stores a batch, withdraws a
  message or leaves the three sets of `Mailbox` alone (`Effect`). The invariant
  `MailInv` says that no message is in two places, or twice in one, over the queue,
  the stored messages, the batches in the hands of threads and what was withdrawn
  (`Apart`), and that only starts from the queue carry a batch (`Plain`). The module
  begins with the parts of the type invariant; the lemmas about sequences without repetition that
  this needs open `FilesProofs`, which it extends.
* `MessagesKept`: what `Mailbox` comes to. A message is waiting, stored once or
  withdrawn, and never in two of these places (`InOnePlace`); none disappears, and what
  is stored keeps its place (`NoneDropped`).
* `TurnsTyped`, `TurnsSafe`: as for the services, a behaviour of `MCConversation` is one
  of `Conversation` and one of `Files` (`Composed`), so the types of both (`TypesOK`) and
  every property of the run `conversation` hold of them together.

### 4.5 Files

* `FilesProofs!KnowledgeHolds`, `NothingLost`, `BatchesWhole`: `LedgerCurrent`,
  `OriginalsKept` and `AllOrNothing`, for any number of runs, files, batches, failing
  writes and deaths. None is inductive: what holds of the disk when a batch ends
  depends on every write since it was compared. `FilesInv` says it phase by phase.
  While a batch compares, the files behind it are as before (`Comparing`); while it
  writes, those behind it are as planned and the rest as before, with copies of them
  (`Committing`); while it rolls back, those behind it may be anything and those
  restored are as before, unless a restore failed (`Restoring`); each but for the
  files in `late`. `LateIsForeign` ties the two histories together, so that what a run
  knows when its batch ends is what the disk holds, and `Informed` says that outside
  of its own writes a run knows the disk but for `foreign`. A write by one run is late
  for another only if that one had compared the file: this is where the proof uses
  that every write goes through `WritesDisk`. The invariant
  speaks of the set of files behind an index (`Upto`), as the model does.
* `FilesTyped`: `FilesTypeOK`, that is, a plan knows what each file it changes held, its
  order has each of these files, and the ledger keeps no more runs than it may. It needs
  that the batch in progress is a sequence of changes and that the order has no
  repetition (`PlanTyped`), and what `RemoveAt`, `Tail` and `Append` do to such a sequence.

### 4.6 Only model-checked

* Liveness, which the prover cannot do: `RunEnds`, `CancelEnds`, `RequestEnds`,
  `ChildrenFollow`, `CancelledJobsEnd`, and the fairness of `PumpPromise` that
  `KeepsPromise` also states. With it everything about ENABLED.
* Without their hypotheses, `EndsOnce`, `EndsAtMostOnce`, `Contracted`, `WatchersRely`,
  `GatesExact`, `RowsSettled`, `QuestionsSpared`, `FirstAnswerWins` and `TransfersWithin`
  are false, as section 5 and the hazards say; `NeverRunsDry` is
  false for a graph with a cycle.

## 5. Where code and documentation disagree

Six runs end in a violation, each of a sentence of the repository.

* `timeout_leak` — a step timeout drops the node's future inside
  `request_approval`; `gate_finished` never runs, the scan is held back for good
  and the run fails with `NO_READY_NODES`, retries unused.
* `late_write` — `set_status` writes the row of a run that has ended; after a
  restart it ends a second time. This is what `LateWrites = FALSE` excludes.
* `question` — a run interrupted at a question is failed with `APPROVAL_DENIED`
  if it ever had an approval.
* `first_answer` — `decide` checks outside its transaction; two clients are both
  told that they decided.
* `restart` — `attach` pumps as soon as the runner is known, so a row that the
  last process left `queued` is already `running` with a live run when `recover`,
  at the end of the same start, requeues every `running` row as a leftover and
  pumps: the download is launched twice, two runs transfer it to one file, above
  the cap. It needs no crash: three downloads over two slots and an ordinary quit
  leave two paused and one queued.
* `restart_limit` — the count of failures that bounds the restarts of an MCP server
  and doubles their pause is set to zero by every launch that succeeds, and a launch
  that fails is never retried, so a server that comes up and dies is restarted for
  ever with the first pause.

The same models contain further behaviours a maintainer should know. They are
hazards in `PROJECT.json` and not runs: a denial that a restart retries
(`kernel/scheduler.rs:388`), a recovery interrupted between denying and
finishing (`services/runs.rs:925`), a gate that opens while the last one closes
and waits in a run marked `running` (`kernel/scheduler.rs:847`), an accepted answer
overwritten by the timer or heard by nobody (`services/approvals.rs:136`, `:118`), a pause that reads
`queued` and settles a row whose run has just been launched
(`downloads/service.rs:652`), and the late end of an earlier run that fails a
resumed download (`downloads/service.rs:1013`), a tool row that an abandoned node
commits after its run has ended (`kernel/scheduler.rs:832`).

From `Files`: between `unchanged_since_plan` and the rename of a file another
program's change is lost, and only the older original has a copy (`files/nodes.rs:1245`,
`files/commit.rs:65`; these are the files in `late`), though docs/PASSPORT.md says
that a file that changed refuses the batch; a move needs no reading (`files/plan.rs:210-224`
calls no `touch`), so a file the run has never read can be moved, where
docs/PASSPORT.md:985-986 refuses the batch on any file the run did not read; a rollback puts the original back over
such a change, also over files it had not written itself yet (`files/commit.rs:122`
includes the one that failed); a batch that is cut off by a death stays half
applied, with its copies and manifest on disk and nobody who reads them.

From `Conversation`: a goal that gave way to a message which is then removed stays
active with nobody working on it, and `send` is refused until it is stopped
(`services/chat/queue.rs:147-165`, `services/chat.rs:3249`; the exception in
`GoalServed`); two starts that overlap give a conversation two turns at once
(`services/chat.rs:3354`, the load `overlap`); processes are marked as reported
before the turn that reports them is started, and stay so when it is refused
(`services/chat/wake.rs:180`). From `Runs`: a run that was read by `recover` and has
been started and ended since is finished a second time, and `LeaveTable` removes
the entry of another instance of the run (the exception in `DisposeDrains`). From
`Sidecar`: dispose that comes between the check of `closed` and the spawn leaves a
process behind (`drivers/sidecar/mod.rs:404`); a caller that is dropped sends no
cancellation (`:154`); a job that ignores its cancellation takes every other job
with it (`:299-313`); a result that is written and not yet read is lost when the
process exits (`:586`). From `Mcp`: a death between discovery and the end of the
launch is ignored and the row stays `connected` (`services/mcp.rs:1665`); a restart
that is armed after a stop brings the server up again (`:1738`); `died` and `stop`
write the row and withdraw tools after a newer launch has written it (`:1674`,
`:702`).

## 6. Not modelled

The contents of prompts, replies, files and messages; provider protocols; SQLite
itself (a transaction is an atomic step that commits or fails); the operating
system's processes; the user interface's layout. Parts with protocols of their
own that are still to come are in the plan.

## 7. Plan

In order of what the rest of the system depends on:

1. **Downloads**, the rest: `forget_by_ref`, failed writes, the file beside its
   row, honoured intents, and the stall when a slot is freed without a pump.
2. **RunService**, the rest: retry (at most one live successor), `clear_finished`
   beside active runs.
3. **ChatView**: the renderer's router and chat store over `RunStream`: attach,
   restore from the record, live events, restart. Property: what the page shows
   equals the record, once and in order.
4. **Permissions**: tiers over scopes as functions, checked against a reference
   definition, composed with `Approvals`.
5. **Questions** with its map of waiters; **background shells** with their daemon;
   **agentic sessions** (iterations and their checks; `extend` saves the whole row it
   has read, `agentic/service.rs:350-391`).
6. **Files**, the rest: two nodes of one run side by side, the step that is dropped
   while its batch goes on, the app's own folders with their quota.

Proofs to add: the invariants of what this plan adds.
