------------------------------ MODULE Approvals ------------------------------
(***************************************************************************)
(* One approval of a running node, between the operation that asks           *)
(* (services/runs.rs, Gate::admit_tool; services/approvals.rs, wait), the     *)
(* clients that answer (decide) and the clock, the cancel token and the       *)
(* permission settings.  A request is a row and, while its operation waits,   *)
(* a sender in the `waiting` map; nothing holds the two together.            *)
(***************************************************************************)
EXTENDS Naturals, FiniteSets

CONSTANTS
    Client,        \* windows, consoles and hooks that may answer
    MayCancel,     \* whether the run may be cancelled
    MayRevoke      \* whether the settings may change meanwhile

ASSUME ClientAssumption == IsFiniteSet(Client)
ASSUME EnvironmentAssumption == MayCancel \in BOOLEAN /\ MayRevoke \in BOOLEAN

VARIABLES
    row,         \* pending_approval.decision
    waiter,      \* the request has a sender in `waiting`
    channel,     \* what was sent to the receiver
    op,          \* where the operation is
    verdict,     \* local of `wait`
    at,          \* where a client's `decide` is
    choice,      \* what the client answers
    always,      \* ... and whether it asks for a grant
    cancelled,   \* the run's token
    expired,     \* the clock has passed expires_at
    enabled,     \* the tool's ceiling admits it
    grant        \* tier of the permission row at the request's scope

request == <<row, waiter, channel>>
operation == <<op, verdict>>
clients == <<at, choice, always>>
settings == <<enabled, grant>>
vars == <<request, operation, clients, cancelled, expired, settings>>

Decision == {"approved", "denied"}
Ended == {"admitted", "refused"}
Op == {"start", "asking", "registering", "waiting", "settling", "deciding"}
          \cup Ended
Answering == {"idle", "read", "checked", "committed", "accepted", "conflict",
              "revoked"}

TypeOK ==
    /\ row \in {"none", "pending"} \cup Decision
    /\ waiter \in BOOLEAN
    /\ channel \in {"none"} \cup Decision
    /\ op \in Op
    /\ verdict \in {"none"} \cup Decision
    /\ row = "none" => op \in {"start", "refused"}
    /\ op \in {"settling", "deciding"} => verdict # "none"
    /\ at \in [Client -> Answering]
    /\ choice \in [Client -> Decision]
    /\ always \in [Client -> BOOLEAN]
    /\ cancelled \in BOOLEAN
    /\ expired \in BOOLEAN
    /\ enabled \in BOOLEAN
    /\ grant \in {"none", "auto", "off"}

Init ==
    /\ row = "none" /\ waiter = FALSE /\ channel = "none"
    /\ op = "start" /\ verdict = "none"
    /\ at = [c \in Client |-> "idle"]
    /\ choice \in [Client -> Decision]
    /\ always \in [Client -> BOOLEAN]
    /\ cancelled = FALSE /\ expired = FALSE
    /\ enabled = TRUE /\ grant \in {"none", "auto"}

-----------------------------------------------------------------------------
(* The operation. *)

\* Mutant: the settings are not asked again.
DenyNever == FALSE

\* admit_subject and check_enabled for a tool whose global tier is `ask`: an
\* `auto` at a scope does not widen it.
Deny == ~enabled \/ grant = "off"

\* The first look at the settings, and the row.
Create ==
    /\ op = "start"
    /\ IF Deny THEN op' = "refused" /\ UNCHANGED row
               ELSE op' = "asking" /\ row' = "pending"
    /\ UNCHANGED <<waiter, channel, verdict, clients, cancelled, expired, settings>>

\* The link refuses a cancelled run; `wait` reads the row.
Ask ==
    /\ op = "asking"
    /\ IF cancelled THEN op' = "refused" /\ UNCHANGED verdict
       ELSE IF row = "pending" THEN op' = "registering" /\ UNCHANGED verdict
       ELSE op' = "deciding" /\ verdict' = row
    /\ UNCHANGED <<request, clients, cancelled, expired, settings>>

Register ==
    /\ op = "registering"
    /\ op' = "waiting" /\ waiter' = TRUE /\ channel' = "none"
    /\ UNCHANGED <<row, verdict, clients, cancelled, expired, settings>>

\* Mutant: the wait has no timer.
OverdueNever == FALSE

Overdue == expired

\* Mutant: what is in the channel is taken, even if nothing is.
OutcomeTaken == channel

\* The biased select: an answer first, then the token, then the timer.
Outcome == IF channel # "none" THEN channel ELSE "denied"

Resolve ==
    /\ op = "waiting"
    /\ channel # "none" \/ cancelled \/ Overdue
    /\ verdict' = Outcome
    /\ op' = "settling"
    /\ UNCHANGED <<request, clients, cancelled, expired, settings>>

\* Mutant: the sender stays in the map.
Unregister_Kept == waiter

Unregister == FALSE

\* settle: the sender is dropped and the row gets the verdict.
Settle ==
    /\ op = "settling"
    /\ op' = "deciding" /\ waiter' = Unregister /\ row' = verdict
    /\ UNCHANGED <<channel, verdict, clients, cancelled, expired, settings>>

\* The operation goes on only if approved and, asked again, still allowed.
Decide ==
    /\ op = "deciding"
    /\ op' = IF verdict = "approved" /\ ~Deny THEN "admitted" ELSE "refused"
    /\ UNCHANGED <<request, verdict, clients, cancelled, expired, settings>>

OperationStep == Create \/ Ask \/ Register \/ Resolve \/ Settle \/ Decide

-----------------------------------------------------------------------------
(* A client's `decide`. *)

Move(c, where) == at' = [at EXCEPT ![c] = where]

\* The row must exist, be undecided and not have expired.
Read(c) ==
    /\ at[c] = "idle" /\ row # "none"
    /\ Move(c, IF row = "pending" /\ ~expired THEN "read" ELSE "conflict")
    /\ UNCHANGED <<request, operation, choice, always, cancelled, expired, settings>>

\* An approval must still be allowed.
Check(c) ==
    /\ at[c] = "read"
    /\ Move(c, IF choice[c] = "approved" /\ Deny THEN "revoked" ELSE "checked")
    /\ UNCHANGED <<request, operation, choice, always, cancelled, expired, settings>>

\* The transaction: the grant of an `always` and the decision, whatever the
\* row says by now.
Commit(c) ==
    /\ at[c] = "checked"
    /\ row' = choice[c]
    /\ grant' = IF always[c] /\ choice[c] = "approved" THEN "auto" ELSE grant
    /\ Move(c, "committed")
    /\ UNCHANGED <<waiter, channel, operation, choice, always, cancelled,
                   expired, enabled>>

\* Mutant: the waiter hears an approval.
AnswerApproved(c) == "approved"

Answer(c) == choice[c]

\* The waiter, if there is one, is told.
Tell(c) ==
    /\ at[c] = "committed"
    /\ waiter' = FALSE
    /\ channel' = IF waiter THEN Answer(c) ELSE channel
    /\ Move(c, "accepted")
    /\ UNCHANGED <<row, operation, choice, always, cancelled, expired, settings>>

ClientStep(c) == Read(c) \/ Check(c) \/ Commit(c) \/ Tell(c)

-----------------------------------------------------------------------------
(* The user, the clock and the settings. *)

Cancel ==
    /\ MayCancel /\ ~cancelled /\ cancelled' = TRUE
    /\ UNCHANGED <<request, operation, clients, expired, settings>>

Expire ==
    /\ row # "none" /\ ~expired /\ expired' = TRUE
    /\ UNCHANGED <<request, operation, clients, cancelled, settings>>

\* The tool is disabled, or its permission at the scope is switched off.
Disable ==
    /\ MayRevoke /\ enabled /\ enabled' = FALSE
    /\ UNCHANGED <<request, operation, clients, cancelled, expired, grant>>

SwitchOff ==
    /\ MayRevoke /\ grant # "off" /\ grant' = "off"
    /\ UNCHANGED <<request, operation, clients, cancelled, expired, enabled>>

\* Nothing is left to do for the request.
Over ==
    /\ op \in Ended
    /\ UNCHANGED vars

Next ==
    \/ OperationStep
    \/ \E c \in Client : ClientStep(c)
    \/ Cancel \/ Expire \/ Disable \/ SwitchOff \/ Over

Spec == Init /\ [][Next]_vars

\* The task of the operation is polled and the clock goes on; nobody has to
\* answer.
FairSpec == Spec /\ WF_vars(OperationStep) /\ WF_vars(Expire)

-----------------------------------------------------------------------------
\* No operation goes on without an approval some client committed, over every
\* order of answers, expiry, cancellation and registration (wait, decide).
AdmissionNeedsApproval ==
    op = "admitted"
      => \E c \in Client :
             choice[c] = "approved" /\ at[c] \in {"committed", "accepted"}

\* A tool that was disabled while its request was open stays refused, although
\* the approval itself was accepted ("the current ceiling is checked again",
\* kernel README, "Permissions and approvals").
DisabledNeverAdmitted ==
    [][~enabled /\ op # "admitted" => op' # "admitted"]_vars

\* The map of waiters does not outlive the operations that wait (wait, settle,
\* decide).
WaitersAreWaiting == waiter => op \in {"waiting", "settling"}

\* Every request ends, answered or not (wait: the timer of expires_at).
RequestEnds == op = "asking" ~> op \in Ended

\* Expired and duplicate decisions fail (kernel README, "Permissions and
\* approvals"): only one client is told that its answer was accepted.
OneAnswerAccepted == Cardinality({c \in Client : at[c] = "accepted"}) <= 1

=============================================================================
