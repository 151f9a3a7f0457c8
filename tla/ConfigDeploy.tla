---------------------------- MODULE ConfigDeploy ----------------------------
(***************************************************************************)
(* src/deploy.py: a web-server configuration is planned (validated next to *)
(* the live file) and later deployed: written, reloaded, checked, and      *)
(* rolled back when the server does not take it.                           *)
(*                                                                         *)
(* The calls are those of one server process and share its plans; other    *)
(* programs and other server processes edit the same file.  The file is    *)
(* replaced in one step (module AtomicFiles), a token is spent in one step *)
(* (module SafetyGate), and a content is valid, and starts, or not.        *)
(***************************************************************************)
EXTENDS Naturals, FiniteSets

CONSTANTS
    Deployers,      \* calls of plan_config_deployment and deploy_config_change
    Plans,          \* deployment ids; none is drawn twice
    Configs,        \* contents of the file
    Valid,          \* those the validator accepts
    MaxPlans,       \* MAX_PLANS
    PlanTtl,        \* PLAN_TTL_SECONDS, in ticks
    MaxHour,        \* bound on the clock
    MaxEdits        \* bound on the edits by others

ASSUME DeployAssumption ==
    /\ Valid \subseteq Configs
    /\ MaxPlans \in Nat \ {0}
    /\ {PlanTtl, MaxHour, MaxEdits} \subseteq Nat

VARIABLES
    live,       \* the content of the file, or Missing
    running,    \* the content the web server runs with
    plan,       \* plan[d]: plan d, kept by the calls that found it
    listed,     \* the plans of _plans
    deployer,   \* deployer[c]: what call c is doing
    controlled, \* whether the safety mode asks for a token
    token,      \* token[d]: whether a token for plan d is "issued", and one was "spent"
    hour,       \* the wall clock
    edits,      \* edits made by others so far
    touched,    \* history: the calls since whose look another one changed or reloaded
    written     \* history: how often each plan was written

deployVars == <<live, running, plan, listed, deployer, controlled, token, hour, edits, touched, written>>

Missing == "missing"
Unborn == [state |-> "unborn"]
Ready(base, content) == [state |-> "ready", base |-> base, content |-> content, ends |-> hour + PlanTtl]

InitDeploy ==
    /\ live \in Configs \cup {Missing}
    /\ running = live
    /\ plan = [d \in Plans |-> Unborn]
    /\ listed = {}
    /\ deployer = [c \in Deployers |-> [step |-> "idle"]]
    /\ controlled \in BOOLEAN
    /\ token = [d \in Plans |-> {}]
    /\ hour = 0
    /\ edits = 0
    /\ touched = {}
    /\ written = [d \in Plans |-> 0]

DeployerAt(c, step) == deployer[c].step = step
DeployerTo(c, step) == deployer' = [deployer EXCEPT ![c].step = step]
DeployerEnds(c) == deployer' = [deployer EXCEPT ![c] = [step |-> "idle"]]

\* A call that worked out its result: ok, failed, and after a rollback rolled_back
\* or stuck, as the reply's flag `rolled_back` says (its status says so of both).
Result(c, how) == deployer' = [deployer EXCEPT ![c].step = "finish", ![c].result = how]

Touch(c) == touched' = touched \cup (Deployers \ {c})

-----------------------------------------------------------------------------
(* plan_config_deployment                                                  *)

\* The live file is read and the candidate validated in a temporary file; the
\* validator may also be missing, time out or reject.
PlanConfig(c, content) ==
    /\ DeployerAt(c, "idle")
    /\ content \in Valid
    /\ deployer' = [deployer EXCEPT ![c] = [step |-> "plan", base |-> live, content |-> content]]
    /\ UNCHANGED <<live, running, plan, listed, controlled, token, hour, edits, touched, written>>

\* _cleanup_plans: expired plans go, then the oldest until there is room.
Cleaned ==
    LET fresh == {d \in listed : plan[d].ends > hour} IN
    {s \in SUBSET fresh :
        /\ Cardinality(s) < MaxPlans
        /\ s # fresh => Cardinality(s) = MaxPlans - 1
        /\ \A d \in fresh \ s, e \in s : plan[d].ends <= plan[e].ends}

\* The plan is stored; in a controlled mode its token is issued with it.
StorePlan(c, d) ==
    /\ DeployerAt(c, "plan")
    /\ plan[d] = Unborn
    /\ plan' = [plan EXCEPT ![d] = Ready(deployer[c].base, deployer[c].content)]
    /\ \E s \in Cleaned : listed' = s \cup {d}
    /\ token' = [token EXCEPT ![d] = IF controlled THEN {"issued"} ELSE {}]
    /\ DeployerEnds(c)
    /\ UNCHANGED <<live, running, controlled, hour, edits, touched, written>>

-----------------------------------------------------------------------------
(* deploy_config_change                                                    *)

\* Under the lock: the plan must be listed, fresh and not in use.
Lookup(c, d, bearing) ==
    /\ DeployerAt(c, "idle")
    /\ d \in listed
    /\ IF plan[d].ends <= hour
       THEN listed' = listed \ {d} /\ UNCHANGED deployer
       ELSE /\ plan[d].state = "ready"
            /\ deployer' = [deployer EXCEPT ![c] = [step |-> "check", plan |-> d, bearing |-> bearing,
                                                    found |-> Missing, result |-> "none"]]
            /\ UNCHANGED listed
    /\ UNCHANGED <<live, running, plan, controlled, token, hour, edits, touched, written>>

\* The file is read again; another content than the plan's baseline refuses.
Check(c) ==
    /\ DeployerAt(c, "check")
    /\ IF live = plan[deployer[c].plan].base
       THEN deployer' = [deployer EXCEPT ![c].step = "authorize", ![c].found = live]
       ELSE DeployerEnds(c)
    /\ touched' = touched \ {c}
    /\ UNCHANGED <<live, running, plan, listed, controlled, token, hour, edits, written>>

\* request_authorization: without the token of the plan a new one is issued.
Authorize(c) ==
    LET d == deployer[c].plan IN
    /\ DeployerAt(c, "authorize")
    /\ IF ~controlled THEN DeployerTo(c, "claim") /\ UNCHANGED token
       ELSE IF deployer[c].bearing /\ "issued" \in token[d]
            THEN token' = [token EXCEPT ![d] = {"spent"}] /\ DeployerTo(c, "claim")
            ELSE /\ token' = [token EXCEPT ![d] = IF deployer[c].bearing THEN @ ELSE @ \cup {"issued"}]
                 /\ DeployerEnds(c)
    /\ UNCHANGED <<live, running, plan, listed, controlled, hour, edits, touched, written>>

\* Mutant: the second look at the state of the plan is missing.
ClaimAgain(c) ==
    /\ DeployerAt(c, "claim")
    /\ plan' = [plan EXCEPT ![deployer[c].plan].state = "executing"]
    /\ DeployerTo(c, "write")
    /\ UNCHANGED <<live, running, listed, controlled, token, hour, edits, touched, written>>

\* Under the lock again: only one call takes a ready plan.
Claim(c) ==
    LET d == deployer[c].plan IN
    /\ DeployerAt(c, "claim")
    /\ IF plan[d].state = "ready"
       THEN plan' = [plan EXCEPT ![d].state = "executing"] /\ DeployerTo(c, "write")
       ELSE DeployerEnds(c) /\ UNCHANGED plan
    /\ UNCHANGED <<live, running, listed, controlled, token, hour, edits, touched, written>>

\* atomic_write_file may also fail after the file was replaced.
Write(c) ==
    LET d == deployer[c].plan IN
    /\ DeployerAt(c, "write")
    /\ \/ /\ live' = plan[d].content
          /\ written' = [written EXCEPT ![d] = @ + 1]
          /\ Touch(c)
          /\ DeployerTo(c, "reload") \/ Result(c, "failed")
       \/ Result(c, "failed") /\ UNCHANGED <<live, written, touched>>
    /\ UNCHANGED <<running, plan, listed, controlled, token, hour, edits>>

\* systemctl reload: the server takes the file, or keeps what it runs with; the
\* command may also time out after it took effect, but succeeds only if it did.
Reload(c) ==
    /\ DeployerAt(c, "reload")
    /\ \/ running' = live /\ Touch(c) /\ (DeployerTo(c, "active") \/ DeployerTo(c, "undo"))
       \/ DeployerTo(c, "undo") /\ UNCHANGED <<running, touched>>
    /\ UNCHANGED <<live, plan, listed, controlled, token, hour, edits, written>>

IsActive(c) ==
    /\ DeployerAt(c, "active")
    /\ Result(c, "ok") \/ DeployerTo(c, "undo")
    /\ UNCHANGED <<live, running, plan, listed, controlled, token, hour, edits, touched, written>>

\* Mutant: a plan for a file that did not exist leaves its file behind.
UndoKeepsNew(c) ==
    LET found == deployer[c].found IN
    /\ DeployerAt(c, "undo")
    /\ live' = IF found = Missing THEN live ELSE found
    /\ Touch(c)
    /\ deployer' = [deployer EXCEPT ![c].step = "again", ![c].result = "rolled_back"]
    /\ UNCHANGED <<running, plan, listed, controlled, token, hour, edits, written>>

\* What the check found is written back; a file that did not exist is removed.
\* Bytes that are not UTF-8 cannot be written back, and the write may fail.
Undo(c) ==
    LET found == deployer[c].found IN
    /\ DeployerAt(c, "undo")
    /\ \/ /\ live' = found
          /\ Touch(c)
          /\ deployer' = [deployer EXCEPT ![c].step = "again", ![c].result = "rolled_back"]
       \/ /\ deployer' = [deployer EXCEPT ![c].step = "again", ![c].result = "stuck"]
          /\ UNCHANGED <<live, touched>>
    /\ UNCHANGED <<running, plan, listed, controlled, token, hour, edits, written>>

\* The result of this reload is reported beside the others.
ReloadAgain(c) ==
    /\ DeployerAt(c, "again")
    /\ \/ running' = live /\ Touch(c)
       \/ UNCHANGED <<running, touched>>
    /\ DeployerTo(c, "finish")
    /\ UNCHANGED <<live, plan, listed, controlled, token, hour, edits, written>>

Finish(c) ==
    /\ DeployerAt(c, "finish")
    /\ listed' = listed \ {deployer[c].plan}
    /\ DeployerEnds(c)
    /\ UNCHANGED <<live, running, plan, controlled, token, hour, edits, touched, written>>

-----------------------------------------------------------------------------

\* Another program edits the file, or reloads the web server.
Edit(content) ==
    /\ edits < MaxEdits
    /\ edits' = edits + 1
    /\ live' = content
    /\ running' \in {running, content}
    /\ touched' = Deployers
    /\ UNCHANGED <<plan, listed, deployer, controlled, token, hour, written>>

HourPasses ==
    /\ hour < MaxHour
    /\ hour' = hour + 1
    /\ UNCHANGED <<live, running, plan, listed, deployer, controlled, token, edits, touched, written>>

NextDeploy ==
    \/ HourPasses
    \/ \E content \in Configs : Edit(content)
    \/ \E c \in Deployers :
        \/ Check(c) \/ Authorize(c) \/ Claim(c) \/ Write(c) \/ Reload(c) \/ IsActive(c)
        \/ Undo(c) \/ ReloadAgain(c) \/ Finish(c)
        \/ \E content \in Configs : PlanConfig(c, content)
        \/ \E d \in Plans : StorePlan(c, d) \/ \E bearing \in BOOLEAN : Lookup(c, d, bearing)

SpecDeploy == InitDeploy /\ [][NextDeploy]_deployVars

-----------------------------------------------------------------------------
(* Properties                                                              *)

\* A write replaces the content the plan was reviewed against, unless another
\* changed the file after the check of the same call.
ReplacesTheReviewed ==
    [][\A c \in Deployers : DeployerAt(c, "write") /\ ~DeployerAt(c, "write")' /\ live' # live =>
          live = plan[deployer[c].plan].base \/ c \in touched]_deployVars

\* However many calls deploy one plan, and whether it is evicted meanwhile, it
\* is written at most once, only after its token was spent, and over what was
\* reviewed.
DeployedOnce ==
    /\ [](\A d \in Plans : written[d] <= 1 /\ (written[d] = 1 /\ controlled => "spent" \in token[d]))
    /\ ReplacesTheReviewed

\* The result of a call nobody interfered with is true: "ok" is a configuration
\* that is live and running, a rollback left the file as it was found.
ResultIsTrue ==
    \A c \in Deployers : DeployerAt(c, "finish") /\ c \notin touched =>
        CASE deployer[c].result = "ok" ->
                live = plan[deployer[c].plan].content /\ running = live
          [] deployer[c].result = "rolled_back" -> live = deployer[c].found
          [] OTHER -> TRUE
=============================================================================
