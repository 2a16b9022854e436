----------------------------- MODULE MCServices -----------------------------
(* Small instances of the services of the host that do not meet: a behaviour *)
(* is one of Approvals, RunStream, Pump, Runs, Sidecar or Mcp, and the       *)
(* variables of the others keep one initial state.                           *)
EXTENDS Approvals, RunStream, Pump, Runs, Sidecar, Mcp

CONSTANTS user1, user2, words, thoughts, t1, t2, t3, parent1, child1, run1

MCParent == [r \in {child1} |-> parent1]

VARIABLE who    \* the service the behaviour is of

Quiet == choice = [k \in Client |-> "denied"] /\ always = [k \in Client |-> FALSE]
         /\ grant = "none"

ServicesInit ==
    /\ Init /\ StreamInit /\ PumpInit /\ RunsInit /\ SidecarInit /\ McpInit
    /\ who \in {"approvals", "stream", "pump", "family", "resumable", "sidecar", "mcp"}
    /\ who = "approvals" \/ Quiet
    /\ choice[user2] = "approved" => choice[user1] = "approved"    \* they are alike

OfApprovals(step) ==
    /\ who = "approvals" /\ step
    /\ UNCHANGED <<streamVars, pumpVars, runVars, sidecarVars, mcpVars, who>>

OfStream(step) ==
    /\ who = "stream" /\ step
    /\ UNCHANGED <<vars, pumpVars, runVars, sidecarVars, mcpVars, who>>

OfPump(step) ==
    /\ who = "pump" /\ step
    /\ UNCHANGED <<vars, streamVars, runVars, sidecarVars, mcpVars, who>>

(* A parent with its child, or a run that can be resumed.                    *)
OfFamily(step) ==
    /\ who = "family" /\ step /\ stage'[run1] = "none"
    /\ UNCHANGED <<vars, streamVars, pumpVars, sidecarVars, mcpVars, who>>

OfResumable(step) ==
    /\ who = "resumable" /\ step /\ stage'[parent1] = "none"
    /\ UNCHANGED <<vars, streamVars, pumpVars, sidecarVars, mcpVars, who>>

OfSidecar(step) ==
    /\ who = "sidecar" /\ step
    /\ UNCHANGED <<vars, streamVars, pumpVars, runVars, mcpVars, who>>

OfMcp(step) ==
    /\ who = "mcp" /\ step
    /\ UNCHANGED <<vars, streamVars, pumpVars, runVars, sidecarVars, who>>

ServicesNext ==
    \/ OfApprovals(Next) \/ OfStream(StreamNext) \/ OfPump(PumpNext)
    \/ OfFamily(RunsNext) \/ OfResumable(RunsNext)
    \/ OfSidecar(SidecarNext) \/ OfMcp(McpNext)

servicesVars == <<vars, streamVars, pumpVars, runVars, sidecarVars, mcpVars, who>>

(* The fairness of each service, as its own module states it, as far as its   *)
(* liveness property needs it.                                                *)
ServicesSpec ==
    /\ ServicesInit /\ [][ServicesNext]_servicesVars
    /\ WF_vars(who = "approvals" /\ OperationStep)
    /\ WF_vars(who = "approvals" /\ Expire)
    /\ \A t \in Thread : WF_pumpVars(who = "pump" /\ Work(t))
    /\ \A r \in {parent1, child1} :
         /\ WF_runVars(who = "family" /\ StartStep(r))
         /\ WF_runVars(who = "family" /\ CancelSignals(r))
         /\ WF_runVars(who = "family" /\ EndStep(<<r, "start">>))
    /\ WF_runVars(who = "family" /\ Delegate(child1))
    /\ \A k \in Caller : WF_sidecarVars(who = "sidecar" /\ CallerStep(k))
    /\ WF_sidecarVars(who = "sidecar" /\ Reaped) /\ WF_sidecarVars(who = "sidecar" /\ Diagnosed)

(* The types of all of them.                                                 *)
TypesOK == TypeOK /\ StreamTypeOK /\ PumpTypeOK /\ RunsTypeOK /\ SidecarTypeOK /\ McpTypeOK
=============================================================================
