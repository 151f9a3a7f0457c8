------------------------------ MODULE MCOperator ------------------------------
(***************************************************************************)
(* Instances of what an operator sees and decides: the panel, the access   *)
(* policy and the agents, configuration deployments, and the reports on    *)
(* the host.  These components do not touch each other's state, so a       *)
(* behaviour has one of them at work, its scope, and their state spaces    *)
(* add up.                                                                 *)
(***************************************************************************)
EXTENDS Panel, AccessControl, ConfigDeploy, HostReports, TLC

CONSTANTS h1, h2, x1, x2, s1, s2, d1, d2, t1

VARIABLE scope

-----------------------------------------------------------------------------
(* Values of constants                                                     *)

Www == <<"www">>
Site == <<"www", "a">>
Opt == <<"opt">>
Lists == {AnyRoot, {Www}, {Site, Opt}}
Saved == {[enabled |-> TRUE, cap |-> "controlled", tools |-> Tools, roots |-> {Site, Opt}],
          [enabled |-> TRUE, cap |-> "unrestricted", tools |-> Tools, roots |-> {Www}],
          [enabled |-> FALSE, cap |-> "unrestricted", tools |-> Tools, roots |-> AnyRoot]}

AllRequests ==
    {"get_access_policy", "save_access_policy", "list_operator_projects", "list_agents",
     "create_agent", "list_mission_reviews", "get_mission_review", "apply_mission_review",
     "import_mission_task_review", "return_mission_task"}

-----------------------------------------------------------------------------

InitOperator ==
    /\ scope \in {"panel", "policy", "gateway", "deploy", "snapshots", "report", "updates"}
    /\ InitPanel
    /\ InitAccess
    /\ own[x2] = None /\ (scope # "gateway" => own[x1] = None)
    /\ scope # "policy" => store = [policy |-> None, limits |-> None]
    /\ InitDeploy
    /\ live # "new" /\ (scope # "deploy" => live = Missing /\ controlled)
    /\ InitReports

PanelStep ==
    /\ scope = "panel"
    /\ NextPanel
    /\ UNCHANGED <<accessVars, deployVars, reportVars>>

\* Operators save policy and limits, beside one session ...
PolicyStep ==
    /\ scope = "policy"
    /\ NextAccess
    /\ enroller' = Nobody /\ clock' = clock /\ session'[s2].step = "closed"
    /\ UNCHANGED <<panelVars, deployVars, reportVars>>

\* ... or enroll and revoke agents, beside two.
GatewayStep ==
    /\ scope = "gateway"
    /\ NextAccess
    /\ UNCHANGED <<store, holder>>
    /\ \A h \in Helpers : helper'[h].step # "save"
    /\ UNCHANGED <<panelVars, deployVars, reportVars>>

\* The first plan first; edits and reloads by others while a plan is deployed.
DeployStep ==
    /\ scope = "deploy"
    /\ NextDeploy
    /\ plan'[d2] # Unborn => plan[d1] # Unborn
    /\ \A m \in Deployers : deployer'[m].step = "plan" => DeployerAt(h2, "idle")
    /\ \A m \in Deployers : deployer'[m].step = "check" => (deployer'[m].bearing => controlled)
    /\ edits' # edits => live' # live /\ deployer[h1].step \notin {"idle", "plan"} /\ DeployerAt(h2, "idle")
    /\ hour' # hour => deployer[h2].step \in {"idle", "check"}
    /\ deployer'[h2] # deployer[h2] /\ DeployerAt(h2, "idle") => ~DeployerAt(h1, "idle")
    /\ UNCHANGED <<panelVars, accessVars, reportVars>>

\* Two snapshots, one after the other; the first one has hashes, the second is
\* written without trouble.
SnapshotsStep ==
    /\ scope = "snapshots"
    /\ NextReports
    /\ UNCHANGED <<report, cache, time>>
    /\ \A x \in HostAreas \ Areas : host'[x] = host[x]
    /\ snapshot'[2] # NotTaken => snapshot[1] # NotTaken /\ snapshot[1].stage = Len(Order) + 2
    /\ snapshot'[1] # NotTaken => snapshot'[1].hashes
    /\ stored'["configured"][2] \in {"none", "whole"} /\ stored'["fallback"][2] = "none"
    /\ UNCHANGED <<panelVars, accessVars, deployVars>>

ReportStep ==
    /\ scope = "report"
    /\ NextReports
    /\ UNCHANGED <<snapshot, time>>
    /\ cache' # cache => report' # report
    /\ UNCHANGED <<panelVars, accessVars, deployVars>>

UpdatesStep ==
    /\ scope = "updates"
    /\ NextReports
    /\ UNCHANGED <<snapshot, report>>
    /\ \A x \in HostAreas \ Checks : host'[x] = host[x]
    /\ UNCHANGED <<panelVars, accessVars, deployVars>>

NextOperator ==
    /\ UNCHANGED scope
    /\ \/ PanelStep \/ PolicyStep \/ GatewayStep \/ DeployStep \/ SnapshotsStep \/ ReportStep
       \/ UpdatesStep

operatorVars == <<scope, panelVars, accessVars, deployVars, reportVars>>

SpecOperator == InitOperator /\ [][NextOperator]_operatorVars /\ WF_panelVars(scope = "panel" /\ Worker)
=============================================================================
