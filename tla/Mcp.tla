--------------------------------- MODULE Mcp ---------------------------------
(* The supervisor of one MCP server (services/mcp.rs): start, stop, restart  *)
(* and update by several users, the launch they share, and the death of the  *)
(* server, which is restarted after a while.  A tool call is a start.  The   *)
(* length of the backoff, sign-in, the log, remove and dispose are left out. *)
EXTENDS Naturals

CONSTANTS
    User,
    MaxRestarts,
    MaxCommands,   \* bound on what all users ask for
    MaxLaunches    \* bound

ASSUME McpAssumption == MaxRestarts \in Nat /\ MaxCommands \in Nat /\ MaxLaunches \in Nat

VARIABLES
    rowEnabled, rowStatus,
    offered,                   \* the tools are registered
    client,                    \* Supervisor.client: its generation, or 0
    generation, failures, intentional,
    launching,                 \* where the task `starting` is, or "no"
    retry,                     \* the sleeper that `retry` can abort, or 0
    sleepers,                  \* deaths whose restart sleeps
    running,                   \* servers whose process lives
    fired,                     \* servers whose closed hook has fired
    dying,                     \* where `died` of each server is
    doing, does,               \* where each actor is, in which command
    handle,                    \* what an actor in stop waits for
    commands,
    inRow                      \* restarts since a user last asked for something (history)

serverRow == <<rowEnabled, rowStatus, offered>>
server == <<running, fired, dying>>
timers == <<retry, sleepers, inRow>>
actors == <<doing, does, handle, commands>>
memory == <<failures, intentional>>
supervisor == <<client, generation, memory, launching>>
mcpVars == <<serverRow, supervisor, timers, server, actors>>

Server == 1 .. MaxLaunches
Actor == User \cup Server         \* the restart after a death calls start as users do
Command == {"start", "stop", "restart", "enable", "disable"}

McpTypeOK ==
    /\ rowEnabled \in BOOLEAN /\ offered \in BOOLEAN /\ intentional \in BOOLEAN
    /\ rowStatus \in {"stopped", "starting", "connected", "failed", "disabled"}
    /\ {client, generation, retry} \subseteq {0} \cup Server
    /\ failures \in Nat /\ inRow \in Nat
    /\ launching \in {"no", "connecting", "discovering", "closing", "failing",
                      "announcing", "leaving"}
    /\ {sleepers, running, fired} \subseteq SUBSET Server
    /\ dying \in [Server -> {"no", "checking", "marking", "arming"}]
    /\ doing \in [Actor -> {"idle", "reading", "entering", "waiting", "closing",
                           "settling", "patching"}]
    /\ does \in [Actor -> Command] /\ handle \in [Actor -> {0} \cup Server]

McpInit ==
    /\ rowEnabled = TRUE /\ rowStatus = "stopped" /\ offered = FALSE
    /\ client = 0 /\ generation = 0 /\ failures = 0 /\ intentional = FALSE
    /\ launching = "no" /\ retry = 0 /\ sleepers = {} /\ inRow = 0
    /\ running = {} /\ fired = {} /\ dying = [g \in Server |-> "no"]
    /\ doing = [a \in Actor |-> "idle"] /\ does = [a \in Actor |-> "start"]
    /\ handle = [a \in Actor |-> 0] /\ commands = 0

Walks(a, from, to) == doing[a] = from /\ doing' = [doing EXCEPT ![a] = to]

(* A command of a user starts a new count of restarts.                       *)
Asked(u, c) ==
    /\ commands < MaxCommands /\ commands' = commands + 1
    /\ does' = [does EXCEPT ![u] = c] /\ inRow' = 0

-----------------------------------------------------------------------------
(* start *)

AskStart(u) ==
    /\ Asked(u, "start") /\ Walks(u, "idle", "reading")
    /\ UNCHANGED <<serverRow, supervisor, retry, sleepers, server, handle>>

ReadEnabled(a) ==
    /\ Walks(a, "reading", IF rowEnabled THEN "entering" ELSE "idle")
    /\ UNCHANGED <<serverRow, supervisor, timers, server, does, handle, commands>>

Connected == client # 0 /\ client \notin fired

(* Whoever starts takes back the intention to stop and the pending restart;  *)
(* a server that is up, or coming up, is shared.                             *)
EnterStart(a) ==
    /\ Walks(a, "entering", "idle")
    /\ intentional' = FALSE /\ retry' = 0 /\ sleepers' = sleepers \ {retry}
    /\ IF Connected \/ launching # "no"
         THEN UNCHANGED <<launching, generation, rowStatus>>
         ELSE generation < MaxLaunches /\ launching' = "connecting"
              /\ generation' = generation + 1 /\ rowStatus' = "starting"
    /\ UNCHANGED <<rowEnabled, offered, client, failures, inRow, server, does, handle,
                   commands>>

-----------------------------------------------------------------------------
(* launch, the task all callers of start wait for *)

Launches(from, to) == launching = from /\ launching' = to

Connects ==
    /\ Launches("connecting", "discovering")
    /\ client' = generation /\ running' = running \cup {generation}
    /\ UNCHANGED <<serverRow, generation, memory, timers, fired, dying, actors>>

(* The process cannot be spawned, or does not shake hands: then its hook has *)
(* fired, though `died` may still be on its way.                             *)
ConnectFails ==
    /\ Launches("connecting", "failing") /\ fired' = fired \cup {generation}
    /\ \E next \in {"no", "checking"} : dying' = [dying EXCEPT ![generation] = next]
    /\ UNCHANGED <<serverRow, client, generation, memory, timers, running, actors>>

Discovers ==
    /\ Launches("discovering", "announcing")
    /\ UNCHANGED <<serverRow, client, generation, memory, timers, server, actors>>

DiscoverFails ==
    /\ Launches("discovering", "closing")
    /\ UNCHANGED <<serverRow, client, generation, memory, timers, server, actors>>

LaunchCloses ==
    /\ Launches("closing", "failing") /\ generation \in fired
    /\ UNCHANGED <<serverRow, client, generation, memory, timers, server, actors>>

LaunchGivesUp ==
    /\ Launches("failing", "leaving")
    /\ client' = 0 /\ failures' = failures + 1
    /\ rowStatus' = "failed" /\ offered' = FALSE
    /\ UNCHANGED <<rowEnabled, generation, intentional, timers, server, actors>>

Announces ==
    /\ Launches("announcing", "leaving")
    /\ client' = generation /\ failures' = 0
    /\ rowStatus' = "connected" /\ offered' = TRUE
    /\ UNCHANGED <<rowEnabled, generation, intentional, timers, server, actors>>

LaunchEnds ==
    /\ Launches("leaving", "no")
    /\ UNCHANGED <<serverRow, client, generation, memory, timers, server, actors>>

-----------------------------------------------------------------------------
(* stop, and what it is the first half of *)

AskStop(u) ==
    /\ \E c \in Command \ {"start"} : Asked(u, c)
    /\ Walks(u, "idle", "waiting")
    /\ intentional' = TRUE /\ retry' = 0 /\ sleepers' = sleepers \ {retry}
    /\ handle' = [handle EXCEPT ![u] = IF launching = "no" THEN 0 ELSE generation]
    /\ UNCHANGED <<serverRow, client, generation, failures, launching, server>>

(* The launch it saw is over; there may be another by now.                   *)
TakeClient(u) ==
    /\ Walks(u, "waiting", "closing")
    /\ launching = "no" \/ generation # handle[u]
    /\ handle' = [handle EXCEPT ![u] = client] /\ client' = 0
    /\ UNCHANGED <<serverRow, generation, memory, launching, timers, server, does, commands>>

(* close ends or kills the process; it returns when the hook has fired.      *)
CloseReturns(u) ==
    /\ Walks(u, "closing", "settling") /\ handle[u] \in fired \cup {0}
    /\ UNCHANGED <<serverRow, supervisor, timers, server, does, handle, commands>>

StatusOff(on) == IF on THEN "stopped" ELSE "disabled"

SettleStop(u) ==
    /\ Walks(u, "settling", CASE does[u] = "stop" -> "idle"
                              [] does[u] = "restart" -> "reading"
                              [] OTHER -> "patching")
    /\ rowStatus' = StatusOff(rowEnabled) /\ handle' = [handle EXCEPT ![u] = 0]
    /\ UNCHANGED <<rowEnabled, offered, supervisor, timers, server, does, commands>>

(* update: the new row, and the tools of a disabled server go.               *)
PatchRow(u) ==
    /\ Walks(u, "patching", "idle")
    /\ rowEnabled' = (does[u] = "enable") /\ rowStatus' = StatusOff(rowEnabled')
    /\ offered' = (offered /\ rowEnabled')
    /\ UNCHANGED <<supervisor, timers, server, does, handle, commands>>

-----------------------------------------------------------------------------
(* The server, and died *)

ServerExits(g) ==
    /\ g \in running /\ running' = running \ {g}
    /\ UNCHANGED <<serverRow, supervisor, timers, fired, dying, actors>>

HookFires(g) ==
    /\ g \in 1 .. generation /\ g \notin running \cup fired
    /\ g = generation => launching # "connecting"
    /\ fired' = fired \cup {g} /\ dying' = [dying EXCEPT ![g] = "checking"]
    /\ UNCHANGED <<serverRow, supervisor, timers, running, actors>>

\* Mutant: the death of an older server is taken for the current one's.
OthersToo(g) == launching = "no"

IsCurrent(g) == generation = g /\ launching = "no"

DeathChecked(g) ==
    /\ dying[g] = "checking"
    /\ dying' = [dying EXCEPT ![g] = IF IsCurrent(g) /\ ~intentional THEN "marking" ELSE "no"]
    /\ client' = IF IsCurrent(g) THEN 0 ELSE client
    /\ UNCHANGED <<serverRow, generation, memory, launching, timers, running, fired, actors>>

DeathMarked(g) ==
    /\ dying[g] = "marking"
    /\ IF rowEnabled THEN /\ dying' = [dying EXCEPT ![g] = "arming"]
                       /\ rowStatus' = "failed" /\ offered' = FALSE
                  ELSE /\ dying' = [dying EXCEPT ![g] = "no"] /\ UNCHANGED <<rowStatus, offered>>
    /\ UNCHANGED <<rowEnabled, supervisor, timers, running, fired, actors>>

GivesUp == failures' > MaxRestarts

(* The restart sleeps, and `retry` is its abort handle.                      *)
DeathCounted(g) ==
    /\ dying[g] = "arming" /\ dying' = [dying EXCEPT ![g] = "no"]
    /\ failures' = failures + 1
    /\ IF GivesUp THEN UNCHANGED timers
       ELSE retry' = g /\ sleepers' = sleepers \cup {g} /\ inRow' = inRow + 1
    /\ UNCHANGED <<serverRow, client, generation, intentional, launching, running, fired, actors>>

SleepEnds(g) ==
    /\ g \in sleepers /\ sleepers' = sleepers \ {g} /\ retry' = 0
    /\ Walks(g, "idle", "reading")
    /\ UNCHANGED <<serverRow, supervisor, inRow, server, does, handle, commands>>

(* Nobody asks for anything more.                                            *)
McpOver == commands = MaxCommands /\ UNCHANGED mcpVars

-----------------------------------------------------------------------------
McpNext ==
    \/ \E a \in Actor : ReadEnabled(a) \/ EnterStart(a)
    \/ Connects \/ ConnectFails \/ Discovers \/ DiscoverFails \/ LaunchCloses
    \/ LaunchGivesUp \/ Announces \/ LaunchEnds
    \/ \E u \in User : \/ AskStart(u) \/ AskStop(u) \/ TakeClient(u) \/ CloseReturns(u)
                       \/ SettleStop(u) \/ PatchRow(u)
    \/ \E g \in Server : \/ ServerExits(g) \/ HookFires(g) \/ DeathChecked(g) \/ DeathMarked(g)
                         \/ DeathCounted(g) \/ SleepEnds(g)
    \/ McpOver

McpSpec == McpInit /\ [][McpNext]_mcpVars

-----------------------------------------------------------------------------
(* No server is left running on its own, and none is running beside the      *)
(* client: each process is the client of the supervisor, or is one that a    *)
(* stop is closing, however starts, stops and late deaths interleave (start, *)
(* stop, launch, died).                                                      *)
ServersAccounted ==
    \A g \in running : client = g \/ \E u \in User : doing[u] = "closing" /\ handle[u] = g

(* "restarted with backoff (1 s doubling to 60 s, five attempts)"            *)
(* (crates/zvs-host/README.md, "MCP"): the restarts that nobody asked for    *)
(* are limited, whether or not the server comes up in between.               *)
RestartsCapped == inRow <= MaxRestarts

=============================================================================
