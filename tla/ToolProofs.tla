----------------------------- MODULE ToolProofs -----------------------------
(***************************************************************************)
(* Proofs about what a tool call meets on its way: the approval it waits    *)
(* for (Approvals), for any number of clients, and the server that answers  *)
(* it (Mcp), for any number of users, commands and launches.                *)
(***************************************************************************)
EXTENDS Approvals, Mcp, FiniteSetTheorems, TLAPS

-----------------------------------------------------------------------------
(* Approvals *)

\* Some client answered yes, and its answer is in the database.
Approval ==
    \E c \in Client :
        choice[c] = "approved" /\ at[c] \in {"committed", "accepted"}

\* Wherever "approved" stands, an approval put it there.
Sourced ==
    /\ row = "approved" \/ channel = "approved" \/ verdict = "approved"
         => Approval
    /\ op = "admitted" => verdict = "approved"

-----------------------------------------------------------------------------
\* The variables keep their types.
LEMMA InitTyped == Init => TypeOK
BY DEF Init, TypeOK, Op, Ended, Decision, Answering

\* The types, step by step: the operation, a client, and the rest.
LEMMA OperationTyped == TypeOK /\ OperationStep => TypeOK'
<1> SUFFICES ASSUME TypeOK, OperationStep PROVE TypeOK'
  OBVIOUS
<1> USE DEF TypeOK, Op, Ended, Decision, request, clients, settings
<1>1. CASE Create BY <1>1 DEF Create
<1>2. CASE Ask BY <1>2 DEF Ask
<1>3. CASE Register BY <1>3 DEF Register
<1>4. CASE Resolve BY <1>4 DEF Resolve, Outcome
<1>5. CASE Settle BY <1>5 DEF Settle, Unregister
<1>6. CASE Decide BY <1>6 DEF Decide
<1> QED BY <1>1, <1>2, <1>3, <1>4, <1>5, <1>6 DEF OperationStep

LEMMA ClientTyped ==
    ASSUME NEW c \in Client, TypeOK, ClientStep(c) PROVE TypeOK'
<1> USE DEF TypeOK, Decision, Answering, Move, request, operation, settings
<1>1. CASE Read(c) BY <1>1 DEF Read
<1>2. CASE Check(c) BY <1>2 DEF Check
<1>3. CASE Commit(c) BY <1>3 DEF Commit
<1>4. CASE Tell(c) BY <1>4 DEF Tell, Answer
<1> QED BY <1>1, <1>2, <1>3, <1>4 DEF ClientStep

LEMMA NextTyped == TypeOK /\ [Next]_vars => TypeOK'
<1> SUFFICES ASSUME TypeOK, [Next]_vars PROVE TypeOK'
  OBVIOUS
<1> USE DEF request, operation, clients, settings
<1>1. CASE OperationStep BY <1>1, OperationTyped
<1>2. CASE \E c \in Client : ClientStep(c) BY <1>2, ClientTyped
<1>3. CASE Cancel BY <1>3 DEF TypeOK, Cancel
<1>4. CASE Expire BY <1>4 DEF TypeOK, Expire
<1>5. CASE Disable BY <1>5 DEF TypeOK, Disable
<1>6. CASE SwitchOff BY <1>6 DEF TypeOK, SwitchOff
<1>7. CASE Over \/ UNCHANGED vars BY <1>7 DEF TypeOK, Over, vars
<1> QED BY <1>1, <1>2, <1>3, <1>4, <1>5, <1>6, <1>7 DEF Next

-----------------------------------------------------------------------------
\* An approval is never taken back: no step moves a client out of the places
\* that count, and a client's choice is fixed.
LEMMA ApprovalLasts == TypeOK /\ Approval /\ [Next]_vars => Approval'
<1> SUFFICES ASSUME TypeOK, Approval, [Next]_vars PROVE Approval'
  OBVIOUS
<1>1. PICK d \in Client :
          choice[d] = "approved" /\ at[d] \in {"committed", "accepted"}
  BY DEF Approval
<1>2. CASE UNCHANGED clients
  BY <1>1, <1>2 DEF Approval, clients
<1>3. ASSUME NEW c \in Client, ClientStep(c) PROVE Approval'
  <2>1. choice' = choice
    BY <1>3 DEF ClientStep, Read, Check, Commit, Tell
  <2>2. at'[d] \in {"committed", "accepted"}
    BY <1>1, <1>3 DEF ClientStep, Read, Check, Commit, Tell, Move, TypeOK
  <2> QED BY <1>1, <2>1, <2>2 DEF Approval
<1> QED
  BY <1>2, <1>3 DEF Next, vars, OperationStep, Create, Ask, Register, Resolve,
                    Settle, Decide, Cancel, Expire, Disable, SwitchOff, Over

\* Nothing says "approved" at first.
LEMMA InitSourced == Init => Sourced
BY DEF Init, Sourced

\* The operation only moves what is there: from the row or the channel to the
\* verdict, and from the verdict to the row.
LEMMA OperationSourced ==
    TypeOK /\ Sourced /\ OperationStep => Sourced'
<1> SUFFICES ASSUME TypeOK, Sourced, OperationStep PROVE Sourced'
  OBVIOUS
<1>1. Approval => Approval'
  BY ApprovalLasts DEF Next
<1> USE <1>1 DEF Sourced, request, clients, settings
<1>2. CASE Create BY <1>2 DEF Create
<1>3. CASE Ask BY <1>3 DEF Ask
<1>4. CASE Register BY <1>4 DEF Register
<1>5. CASE Resolve BY <1>5 DEF Resolve, Outcome
<1>6. CASE Settle BY <1>6 DEF Settle, Unregister
<1>7. CASE Decide BY <1>7 DEF Decide
<1> QED BY <1>2, <1>3, <1>4, <1>5, <1>6, <1>7 DEF OperationStep

\* A client brings "approved" into the row and the channel only together with
\* the approval itself.
LEMMA ClientSourced ==
    ASSUME NEW c \in Client, TypeOK, Sourced, ClientStep(c) PROVE Sourced'
<1>1. Approval => Approval'
  BY ApprovalLasts DEF Next
<1> USE <1>1 DEF Sourced, request, operation, settings
<1>2. CASE Read(c) BY <1>2 DEF Read
<1>3. CASE Check(c) BY <1>3 DEF Check
<1>4. CASE Commit(c)
  <2>1. choice' = choice /\ at'[c] = "committed"
    BY <1>4 DEF Commit, Move, TypeOK
  <2>2. row' = "approved" => Approval'
    BY <1>4, <2>1 DEF Commit, Approval
  <2> QED BY <1>4, <2>2 DEF Commit
<1>5. CASE Tell(c)
  <2>1. channel' = "approved" => Approval
    BY <1>5 DEF Tell, Answer, Approval
  <2> QED BY <1>5, <2>1 DEF Tell
<1> QED BY <1>2, <1>3, <1>4, <1>5 DEF ClientStep

\* So wherever "approved" stands, it has its source.
LEMMA NextSourced == TypeOK /\ Sourced /\ [Next]_vars => Sourced'
<1> SUFFICES ASSUME TypeOK, Sourced, [Next]_vars PROVE Sourced'
  OBVIOUS
<1>1. Approval => Approval'
  BY ApprovalLasts
<1>2. CASE OperationStep BY <1>2, OperationSourced
<1>3. CASE \E c \in Client : ClientStep(c) BY <1>3, ClientSourced
<1>4. CASE UNCHANGED <<request, operation>>
  BY <1>1, <1>4 DEF Sourced, request, operation
<1> QED
  BY <1>2, <1>3, <1>4 DEF Next, vars, Cancel, Expire, Disable, SwitchOff, Over

-----------------------------------------------------------------------------
\* Type correctness for every set of clients (approvals.rs, runs.rs
\* admit_tool).
THEOREM ApprovalsTyped == Spec => []TypeOK
<1>1. TypeOK /\ [Next]_vars => TypeOK' BY NextTyped
<1> QED BY InitTyped, <1>1, PTL DEF Spec

\* However many windows answer, in whatever order with expiry, cancellation
\* and registration, no operation passes `wait` without a committed approval.
THEOREM Admission == Spec => []AdmissionNeedsApproval
<1>1. Init => TypeOK /\ Sourced BY InitTyped, InitSourced
<1>2. TypeOK /\ Sourced /\ [Next]_vars => TypeOK' /\ Sourced'
  BY NextTyped, NextSourced
<1>3. Sourced => AdmissionNeedsApproval
  BY DEF Sourced, AdmissionNeedsApproval, Approval
<1> QED BY <1>1, <1>2, <1>3, PTL DEF Spec

\* The map of waiters never outlives the operation that waits (wait, settle).
THEOREM Waiters == Spec => []WaitersAreWaiting
<1>1. Init => WaitersAreWaiting BY DEF Init, WaitersAreWaiting
<1>2. WaitersAreWaiting /\ [Next]_vars => WaitersAreWaiting'
  <2> SUFFICES ASSUME WaitersAreWaiting, [Next]_vars PROVE WaitersAreWaiting'
    OBVIOUS
  <2> USE DEF WaitersAreWaiting, request, operation
  <2>1. CASE OperationStep
    BY <2>1 DEF OperationStep, Create, Ask, Register, Resolve, Settle, Decide,
                Unregister
  <2>2. ASSUME NEW c \in Client, ClientStep(c) PROVE WaitersAreWaiting'
    BY <2>2 DEF ClientStep, Read, Check, Commit, Tell
  <2>3. CASE UNCHANGED <<request, operation>>
    BY <2>3
  <2> QED
    BY <2>1, <2>2, <2>3 DEF Next, vars, Cancel, Expire, Disable, SwitchOff, Over
<1> QED BY <1>1, <1>2, PTL DEF Spec


\* The settings are asked again after the answer: whatever was approved in the
\* meantime, an operation whose tool is disabled is not admitted (admit_tool).
THEOREM Disabled == Spec => DisabledNeverAdmitted
<1>1. ASSUME ~enabled, op # "admitted", [Next]_vars PROVE op' # "admitted"
  <2>1. CASE OperationStep
    BY <1>1, <2>1 DEF OperationStep, Create, Ask, Register, Resolve, Settle,
                      Decide, Deny
  <2>2. CASE UNCHANGED op
    BY <1>1, <2>2
  <2> QED
    BY <1>1, <2>1, <2>2 DEF Next, vars, operation, ClientStep, Read, Check,
                            Commit, Tell, Cancel, Expire, Disable, SwitchOff, Over
<1> QED
  BY <1>1, PTL DEF Spec, DisabledNeverAdmitted

-----------------------------------------------------------------------------
(* Clients that answer one after another *)

\* No two are between their look at the row and the transaction that decides it.
Between == {"read", "checked"}
Committed == {"committed", "accepted"}
InTurn == \A c, d \in Client : at[c] \in Between /\ at[d] \in Between => c = d

\* A committed answer is in the row, which nobody else has found undecided.
Settled ==
    /\ op = "start" => row = "none"
    /\ row = "none" => \A c \in Client : at[c] = "idle"
    /\ \A c \in Client : at[c] \in Committed =>
         /\ row \in Decision
         /\ \A d \in Client : at[d] \in Between \cup Committed => c = d

\* A client that looks finds the row decided; one that commits is alone.
LEMMA NextSettled ==
    TypeOK /\ InTurn /\ Settled /\ [Next]_vars => Settled'
<1> SUFFICES ASSUME TypeOK, InTurn, Settled, [Next]_vars PROVE Settled'
  OBVIOUS
<1> USE DEF Settled, TypeOK, Decision, Between, Committed, request, operation, clients, settings
<1>1. CASE Create BY <1>1 DEF Create
<1>2. CASE Settle BY <1>2 DEF Settle
<1>3. CASE UNCHANGED <<row, at>> /\ (op' = op \/ op' # "start") BY <1>3
<1>4. ASSUME NEW c \in Client, ClientStep(c) PROVE Settled'
  <2>1. CASE Read(c) BY <1>4, <2>1 DEF Read, Move
  <2>2. CASE Check(c) BY <1>4, <2>2 DEF Check, Move
  <2>3. CASE Commit(c)
    <3>1. /\ at[c] = "checked" /\ at' = [at EXCEPT ![c] = "committed"]
          /\ row' = choice[c] /\ op' = op
      BY <2>3 DEF Commit, Move
    <3>2. \A d \in Client : at[d] \in Between \cup Committed => d = c
      BY <3>1 DEF InTurn
    <3>3. row # "none" /\ op # "start" BY <3>1
    <3> QED BY <3>1, <3>2, <3>3
  <2>4. CASE Tell(c) BY <1>4, <2>4 DEF Tell, Move
  <2> QED BY <1>4, <2>1, <2>2, <2>3, <2>4 DEF ClientStep
<1> QED
  BY <1>1, <1>2, <1>3, <1>4 DEF Next, vars, OperationStep, Ask, Register, Resolve,
                                Decide, Cancel, Expire, Disable, SwitchOff, Over

\* "Duplicate decisions fail" holds as long as no two clients are between the
\* check and the transaction of `decide` at once: the overlap that the run
\* `first_answer` shows is the only way two are told that they decided.
THEOREM FirstAnswerWins == Spec /\ []InTurn => []OneAnswerAccepted
<1>1. Init => TypeOK /\ Settled
  BY InitTyped DEF Init, Settled, Committed
<1>2. TypeOK /\ InTurn /\ Settled /\ [Next]_vars => TypeOK' /\ Settled'
  BY NextTyped, NextSettled
<1>3. Settled => OneAnswerAccepted
  <2> SUFFICES ASSUME Settled
               PROVE  Cardinality({c \in Client : at[c] = "accepted"}) <= 1
    BY DEF OneAnswerAccepted
  <2>1. CASE {c \in Client : at[c] = "accepted"} = {}
    BY <2>1, FS_EmptySet
  <2>2. ASSUME NEW c \in Client, at[c] = "accepted"
        PROVE  Cardinality({d \in Client : at[d] = "accepted"}) <= 1
    <3>1. {d \in Client : at[d] = "accepted"} = {c}
      BY <2>2 DEF Settled, Committed
    <3>2. Cardinality({c}) = 1
      BY FS_Singleton
    <3>3. Cardinality({d \in Client : at[d] = "accepted"}) = 1
      BY <3>1, <3>2, Zenon
    <3> QED BY <3>3
  <2> QED BY <2>1, <2>2
<1> QED BY <1>1, <1>2, <1>3, PTL DEF Spec

-----------------------------------------------------------------------------
(* Servers *)

(* What the supervisor knows of the servers it has launched: numbers grow, a *)
(* hook fires for a process that is gone, and only then does `died` run.     *)
Counted ==
    /\ running \subseteq 1 .. generation /\ fired \subseteq 1 .. generation
    /\ running \cap fired = {}
    /\ \A g \in Server : dying[g] # "no" => g \in fired
    /\ launching = "connecting" => generation \notin running \cup fired
    /\ launching # "no" => generation \in Server

(* A new client never takes the place of one that runs.                      *)
Replaceable ==
    IF launching \in {"connecting", "failing"} THEN client \notin running
                                               ELSE client \in {0, generation}

AccountInv == McpTypeOK /\ Counted /\ Replaceable /\ ServersAccounted

-----------------------------------------------------------------------------
(* The initial state has no server. *)
LEMMA AccountInit == McpInit => AccountInv
<1> SUFFICES ASSUME McpInit PROVE AccountInv
    OBVIOUS
<1> USE McpAssumption DEF McpInit, Server, Actor, Command
<1>1. {client, generation, retry} \subseteq {0} \cup Server
    /\ {sleepers, running, fired} \subseteq SUBSET Server
  OBVIOUS
<1>2. dying \in [Server -> {"no", "checking", "marking", "arming"}]
    /\ doing \in [Actor -> {"idle", "reading", "entering", "waiting", "closing",
                           "settling", "patching"}]
    /\ does \in [Actor -> Command] /\ handle \in [Actor -> {0} \cup Server]
  OBVIOUS
<1>3. McpTypeOK BY <1>1, <1>2 DEF McpTypeOK
<1>4. QED BY <1>3 DEF AccountInv, Counted, Replaceable, ServersAccounted

(* Steps of the users and of their starts and stops. *)
LEMMA UserSteps ==
    ASSUME AccountInv, NEW u \in User,
           AskStart(u) \/ AskStop(u) \/ TakeClient(u) \/ CloseReturns(u) \/ SettleStop(u)
               \/ PatchRow(u)
    PROVE  AccountInv'
<1> USE McpAssumption DEF Server, Actor, Command, serverRow, server, timers, memory, supervisor,
                          Walks, Asked
<1>1. CASE AskStart(u)
  <2>1. McpTypeOK' BY <1>1 DEF AskStart, AccountInv, McpTypeOK
  <2>2. QED BY <1>1, <2>1 DEF AskStart, AccountInv, McpTypeOK, Counted, Replaceable, ServersAccounted
<1>2. CASE AskStop(u)
  <2>1. McpTypeOK' BY <1>2 DEF AskStop, AccountInv, McpTypeOK
  <2>2. QED BY <1>2, <2>1 DEF AskStop, AccountInv, McpTypeOK, Counted, Replaceable, ServersAccounted
<1>3. CASE TakeClient(u)
  <2>1. McpTypeOK' BY <1>3 DEF TakeClient, AccountInv, McpTypeOK
  <2>2. Counted' /\ Replaceable' 
    BY <1>3 DEF TakeClient, AccountInv, McpTypeOK, Counted, Replaceable
  <2>3. ServersAccounted'
    BY <1>3 DEF TakeClient, AccountInv, McpTypeOK, ServersAccounted
  <2>4. QED BY <2>1, <2>2, <2>3 DEF AccountInv
<1>4. CASE CloseReturns(u)
  <2>1. McpTypeOK' BY <1>4 DEF CloseReturns, AccountInv, McpTypeOK
  <2>2. Counted' /\ Replaceable' 
    BY <1>4 DEF CloseReturns, AccountInv, McpTypeOK, Counted, Replaceable
  <2>3. ServersAccounted'
    BY <1>4 DEF CloseReturns, AccountInv, McpTypeOK, Counted, ServersAccounted
  <2>4. QED BY <2>1, <2>2, <2>3 DEF AccountInv
<1>5. CASE SettleStop(u)
  <2>1. McpTypeOK' BY <1>5 DEF SettleStop, StatusOff, AccountInv, McpTypeOK
  <2>2. QED BY <1>5, <2>1 DEF SettleStop, AccountInv, McpTypeOK, Counted, Replaceable, ServersAccounted
<1>6. CASE PatchRow(u)
  <2>1. McpTypeOK' BY <1>6 DEF PatchRow, StatusOff, AccountInv, McpTypeOK
  <2>2. QED BY <1>6, <2>1 DEF PatchRow, AccountInv, McpTypeOK, Counted, Replaceable, ServersAccounted
<1>7. QED BY <1>1, <1>2, <1>3, <1>4, <1>5, <1>6

(* Steps of a start, by a user or by the restart after a death. *)
LEMMA StartSteps ==
    ASSUME AccountInv, NEW a \in Actor, ReadEnabled(a) \/ EnterStart(a)
    PROVE  AccountInv'
<1> USE McpAssumption DEF Server, Actor, Command, serverRow, server, timers, memory, supervisor,
                          Walks
<1>1. CASE ReadEnabled(a)
  <2>1. McpTypeOK' BY <1>1 DEF ReadEnabled, AccountInv, McpTypeOK
  <2>2. QED BY <1>1, <2>1 DEF ReadEnabled, AccountInv, McpTypeOK, Counted, Replaceable, ServersAccounted
<1>2. CASE EnterStart(a)
  <2>0. /\ {client, generation, retry}' \subseteq {0} \cup Server
        /\ {sleepers, running, fired}' \subseteq SUBSET Server
    BY <1>2 DEF EnterStart, AccountInv, McpTypeOK
  <2>1. McpTypeOK' BY <1>2, <2>0 DEF EnterStart, AccountInv, McpTypeOK
  <2>2. Counted' BY <1>2 DEF EnterStart, AccountInv, McpTypeOK, Counted
  <2>3. Replaceable'
    BY <1>2 DEF EnterStart, Connected, AccountInv, McpTypeOK, Counted, Replaceable
  <2>4. ServersAccounted' BY <1>2 DEF EnterStart, AccountInv, McpTypeOK, ServersAccounted
  <2>5. QED BY <2>1, <2>2, <2>3, <2>4 DEF AccountInv
<1>3. QED BY <1>1, <1>2

(* Steps of the launch. *)
LEMMA LaunchSteps ==
    ASSUME AccountInv,
           Connects \/ ConnectFails \/ Discovers \/ DiscoverFails \/ LaunchCloses
               \/ LaunchGivesUp \/ Announces \/ LaunchEnds
    PROVE  AccountInv'
<1> USE McpAssumption DEF Server, Actor, Command, serverRow, server, timers, memory, supervisor,
                          actors, Launches
<1>1. CASE Connects
  <2>0. generation \in Server /\ running' \subseteq Server
    BY <1>1 DEF Connects, AccountInv, McpTypeOK, Counted
  <2>1. McpTypeOK' BY <1>1, <2>0 DEF Connects, AccountInv, McpTypeOK
  <2>2. Counted'
    <3>1. generation \in 1 .. generation /\ generation' = generation
      BY <1>1 DEF Connects, AccountInv, McpTypeOK, Counted
    <3>2. running' \subseteq 1 .. generation' /\ fired' \subseteq 1 .. generation'
      BY <1>1, <3>1 DEF Connects, AccountInv, Counted
    <3>3. running' \cap fired' = {}
      BY <1>1 DEF Connects, AccountInv, Counted
    <3>4. QED BY <1>1, <3>2, <3>3 DEF Connects, AccountInv, Counted
  <2>3. Replaceable' BY <1>1 DEF Connects, AccountInv, McpTypeOK, Replaceable
  <2>4. ServersAccounted'
    BY <1>1 DEF Connects, AccountInv, McpTypeOK, Replaceable, ServersAccounted
  <2>5. QED BY <2>1, <2>2, <2>3, <2>4 DEF AccountInv
<1>2. CASE ConnectFails
  <2>0. /\ generation \in Server /\ generation \in 1 .. generation
        /\ generation \notin running
    BY <1>2 DEF ConnectFails, AccountInv, McpTypeOK, Counted
  <2>0a. /\ {sleepers, running, fired}' \subseteq SUBSET Server
         /\ dying' \in [Server -> {"no", "checking", "marking", "arming"}]
    BY <1>2, <2>0 DEF ConnectFails, AccountInv, McpTypeOK
  <2>1. McpTypeOK' BY <1>2, <2>0a DEF ConnectFails, AccountInv, McpTypeOK
  <2>2. Counted'
    <3>1. fired' \subseteq 1 .. generation' /\ running' \cap fired' = {}
      BY <1>2, <2>0 DEF ConnectFails, AccountInv, Counted
    <3>2. \A g \in Server : dying'[g] # "no" => g \in fired'
      BY <1>2, <2>0 DEF ConnectFails, AccountInv, McpTypeOK, Counted
    <3>3. QED BY <1>2, <3>1, <3>2 DEF ConnectFails, AccountInv, Counted
  <2>3. QED BY <1>2, <2>1, <2>2 DEF ConnectFails, AccountInv, Replaceable, ServersAccounted
<1>3. CASE Discovers
  <2>1. McpTypeOK' BY <1>3 DEF Discovers, AccountInv, McpTypeOK
  <2>2. QED BY <1>3, <2>1 DEF Discovers, AccountInv, McpTypeOK, Counted, Replaceable, ServersAccounted
<1>4. CASE DiscoverFails
  <2>1. McpTypeOK' BY <1>4 DEF DiscoverFails, AccountInv, McpTypeOK
  <2>2. QED BY <1>4, <2>1 DEF DiscoverFails, AccountInv, McpTypeOK, Counted, Replaceable, ServersAccounted
<1>5. CASE LaunchCloses
  <2>1. McpTypeOK' BY <1>5 DEF LaunchCloses, AccountInv, McpTypeOK
  <2>2. Replaceable' BY <1>5 DEF LaunchCloses, AccountInv, McpTypeOK, Counted, Replaceable
  <2>3. QED BY <1>5, <2>1, <2>2 DEF LaunchCloses, AccountInv, Counted, ServersAccounted
<1>6. CASE LaunchGivesUp
  <2>0. failures' \in Nat /\ {client, generation, retry}' \subseteq {0} \cup Server
    BY <1>6 DEF LaunchGivesUp, AccountInv, McpTypeOK
  <2>1. McpTypeOK' BY <1>6, <2>0 DEF LaunchGivesUp, AccountInv, McpTypeOK
  <2>2. QED BY <1>6, <2>1 DEF LaunchGivesUp, AccountInv, McpTypeOK, Counted, Replaceable, ServersAccounted
<1>7. CASE Announces
  <2>1. McpTypeOK' BY <1>7 DEF Announces, AccountInv, McpTypeOK
  <2>2. Counted' /\ Replaceable'
    BY <1>7 DEF Announces, AccountInv, McpTypeOK, Counted, Replaceable
  <2>3. ServersAccounted'
    BY <1>7 DEF Announces, AccountInv, McpTypeOK, Counted, Replaceable, ServersAccounted
  <2>4. QED BY <2>1, <2>2, <2>3 DEF AccountInv
<1>8. CASE LaunchEnds
  <2>1. McpTypeOK' BY <1>8 DEF LaunchEnds, AccountInv, McpTypeOK
  <2>2. QED BY <1>8, <2>1 DEF LaunchEnds, AccountInv, McpTypeOK, Counted, Replaceable, ServersAccounted
<1>9. QED BY <1>1, <1>2, <1>3, <1>4, <1>5, <1>6, <1>7, <1>8

(* Steps of a server, of `died` and of the sleeping restart. *)
LEMMA ServerSteps ==
    ASSUME AccountInv, NEW g \in Server,
           ServerExits(g) \/ HookFires(g) \/ DeathChecked(g) \/ DeathMarked(g)
               \/ DeathCounted(g) \/ SleepEnds(g)
    PROVE  AccountInv'
<1> USE McpAssumption DEF Server, Actor, Command, serverRow, server, timers, memory, supervisor,
                          actors, Walks
<1>1. CASE ServerExits(g)
  <2>1. McpTypeOK' BY <1>1 DEF ServerExits, AccountInv, McpTypeOK
  <2>2. QED BY <1>1, <2>1 DEF ServerExits, AccountInv, McpTypeOK, Counted, Replaceable, ServersAccounted
<1>2. CASE HookFires(g)
  <2>1. McpTypeOK' BY <1>2 DEF HookFires, AccountInv, McpTypeOK
  <2>2. Counted' BY <1>2 DEF HookFires, AccountInv, McpTypeOK, Counted
  <2>3. QED BY <1>2, <2>1, <2>2 DEF HookFires, AccountInv, Replaceable, ServersAccounted
<1>3. CASE DeathChecked(g)
  <2>1. McpTypeOK' BY <1>3 DEF DeathChecked, AccountInv, McpTypeOK
  <2>2. Counted' BY <1>3 DEF DeathChecked, AccountInv, McpTypeOK, Counted
  <2>3. Replaceable' BY <1>3 DEF DeathChecked, IsCurrent, AccountInv, McpTypeOK, Replaceable
  <2>4. ServersAccounted'
    BY <1>3 DEF DeathChecked, IsCurrent, AccountInv, McpTypeOK, Counted, Replaceable,
                ServersAccounted
  <2>5. QED BY <2>1, <2>2, <2>3, <2>4 DEF AccountInv
<1>4. CASE DeathMarked(g)
  <2>1. McpTypeOK' BY <1>4 DEF DeathMarked, AccountInv, McpTypeOK
  <2>2. Counted' BY <1>4 DEF DeathMarked, AccountInv, McpTypeOK, Counted
  <2>3. QED BY <1>4, <2>1, <2>2 DEF DeathMarked, AccountInv, Replaceable, ServersAccounted
<1>5. CASE DeathCounted(g)
  <2>1. McpTypeOK' BY <1>5 DEF DeathCounted, GivesUp, AccountInv, McpTypeOK
  <2>2. Counted' BY <1>5 DEF DeathCounted, AccountInv, McpTypeOK, Counted
  <2>3. QED BY <1>5, <2>1, <2>2 DEF DeathCounted, AccountInv, Replaceable, ServersAccounted
<1>6. CASE SleepEnds(g)
  <2>1. McpTypeOK' BY <1>6 DEF SleepEnds, AccountInv, McpTypeOK
  <2>2. QED BY <1>6, <2>1 DEF SleepEnds, AccountInv, McpTypeOK, Counted, Replaceable, ServersAccounted
<1>7. QED BY <1>1, <1>2, <1>3, <1>4, <1>5, <1>6

(* Every step of the users, the launch and the supervisor keeps the account. *)
LEMMA AccountStep == AccountInv /\ [McpNext]_mcpVars => AccountInv'
<1> SUFFICES ASSUME AccountInv, [McpNext]_mcpVars PROVE AccountInv'
    OBVIOUS
<1>1. CASE UNCHANGED mcpVars
  BY <1>1 DEF mcpVars, serverRow, supervisor, memory, timers, server, actors, AccountInv,
              McpTypeOK, Counted, Replaceable, ServersAccounted
<1>2. CASE McpNext
  <2>1. CASE McpOver BY <2>1, <1>1 DEF McpOver
  <2>2. QED BY <1>2, <2>1, UserSteps, StartSteps, LaunchSteps, ServerSteps DEF McpNext
<1>3. QED BY <1>1, <1>2

\* The row of a server, its supervisor and the tasks around it keep their types
\* (start, stop, launch, died).
THEOREM McpTyped == McpSpec => []McpTypeOK
<1>1. AccountInv => McpTypeOK BY DEF AccountInv
<1>2. QED BY <1>1, AccountInit, AccountStep, PTL DEF McpSpec

(* No MCP server process is left without an owner, for any number of users,  *)
(* commands and launches (start, stop, launch, died of services/mcp.rs).     *)
THEOREM Accounted == McpSpec => []ServersAccounted
<1>1. AccountInv => ServersAccounted BY DEF AccountInv
<1>2. QED BY <1>1, AccountInit, AccountStep, PTL DEF McpSpec
=============================================================================
