-------------------------------- MODULE Panel --------------------------------
(***************************************************************************)
(* The operator's panel (src/local_panel.py): PanelController, the threads *)
(* of its HTTP server and the one thread that holds the connection.        *)
(*                                                                         *)
(* Each HTTP request works on the controller under its lock and is one     *)
(* step.  The connection thread reads `stop` and `policy_job` between      *)
(* steps of its own; an operator request starts a helper on the server and *)
(* takes effect there before its reply is stored, and the reply may get    *)
(* lost.  Error texts, the metrics and the check of each field of a        *)
(* request are left out: a request stands for one that passed it.          *)
(***************************************************************************)
EXTENDS Naturals

CONSTANTS
    Requests,       \* the operator tools in use
    MaxConnects,    \* bound on the connections
    MaxChanges      \* bound on the changes made on a server

Access == {"get_access_policy", "save_access_policy"}
AgentRequests == {"list_agents", "create_agent", "revoke_agent"}
MissionReview == {"list_mission_reviews", "get_mission_review", "import_mission_review",
                  "decide_mission_review", "apply_mission_review"}
MissionTask == {"list_mission_tasks", "inspect_mission_task", "import_mission_task_review",
                "run_mission_task_check", "return_mission_task"}

ASSUME PanelAssumption ==
    /\ Requests \subseteq Access \cup AgentRequests \cup MissionReview \cup MissionTask
                             \cup {"list_operator_projects"}
    /\ {MaxConnects, MaxChanges} \subseteq Nat

VARIABLES
    conn,       \* state["connection"]
    link,       \* the connection: how often the panel connected, each time to any server
    stop,       \* the stop event
    job,        \* policy_job: a request and the link it was made for
    busy,       \* policy_busy
    supported,  \* what the server is known to support: "access" and the rest
    shown,      \* what the operator sees of each field: link and version, or Blank
    thread,     \* the connection thread and the operator request it runs
    remote,     \* remote[f]: the version of f on the server
    changed     \* history: changed[f]: the last version of f that requests about f made

panelVars == <<conn, link, stop, job, busy, supported, shown, thread, remote, changed>>

NoJob == [name |-> "none"]
Blank == [link |-> 0]
Aspects == {"access", "review", "task"}
Fields == Aspects \cup {"projects", "agents"}
Cleared == [f \in Fields |-> Blank]

InitPanel ==
    /\ conn = "disconnected"
    /\ link = 0
    /\ stop = FALSE
    /\ job = NoJob
    /\ busy = FALSE
    /\ supported = {}
    /\ shown = Cleared
    /\ thread = [at |-> "none"]
    /\ remote = [f \in Aspects |-> 0]
    /\ changed = [f \in Aspects |-> 0]

At(place) == thread.at = place
To(place) == thread' = [at |-> place]

-----------------------------------------------------------------------------
(* Requests of the browser                                                 *)

Connect ==
    /\ At("none")
    /\ link < MaxConnects
    /\ stop' = FALSE
    /\ job' = NoJob
    /\ link' = link + 1
    /\ conn' = "connecting"
    /\ busy' = FALSE
    /\ supported' = {}
    /\ shown' = Cleared
    /\ changed' = [f \in Aspects |-> 0]
    /\ To("greet")
    /\ UNCHANGED remote

Disconnect ==
    /\ stop' = TRUE
    /\ job' = NoJob
    /\ conn' = IF At("none") THEN "disconnected" ELSE "disconnecting"
    /\ busy' = FALSE
    /\ shown' = Cleared
    /\ supported' = supported \ {"rest"}
    /\ UNCHANGED <<link, thread, remote, changed>>

\* One request at a time is queued, of a kind the server supports.
Queue(kinds, support) ==
    /\ conn = "connected"
    /\ support \in supported
    /\ ~busy
    /\ \E name \in Requests \cap kinds : job' = [name |-> name, link |-> link]
    /\ busy' = TRUE
    /\ UNCHANGED <<conn, link, stop, supported, shown, thread, remote, changed>>

PolicyRequest == Queue(Access, "access")
WorkspaceRequest == Queue({"list_operator_projects"}, "rest")
GatewayRequest == Queue(AgentRequests, "rest")
MissionRequest == Queue(MissionReview, "rest")
TasksRequest == Queue(MissionTask, "rest")

-----------------------------------------------------------------------------
(* One operator request, run by the connection thread                      *)

\* The part of the server a request changes, and the field its reply goes to.
Changes(name) ==
    CASE name = "save_access_policy" -> {"access"}
      [] name \in {"import_mission_review", "decide_mission_review", "apply_mission_review"} -> {"review"}
      [] name \in {"import_mission_task_review", "return_mission_task"} -> {"task", "review"}
      [] name = "run_mission_task_check" -> {"task"}
      [] OTHER -> {}

\* A list reads the selected item again, if there is one.
Stores(name) ==
    CASE name \in Access -> {"access"}
      [] name = "list_agents" -> {"agents"}
      [] name = "list_operator_projects" -> {"projects"}
      [] name = "list_mission_reviews" -> {"review"} \cap {f \in Fields : shown[f] # Blank}
      [] name = "list_mission_tasks" -> {"task"} \cap {f \in Fields : shown[f] # Blank}
      [] name \in MissionReview -> {"review"}
      [] name = "import_mission_task_review" -> {"task", "review"}
      [] name \in MissionTask -> {"task"}
      [] OTHER -> {}

\* A reply about the access policy discards the projects listed under another
\* one; an agent that was added or revoked discards the list of agents.
Discards(name) ==
    CASE name \in Access -> {"projects"}
      [] name \in {"create_agent", "revoke_agent"} -> {"agents"}
      [] OTHER -> {}

\* A request that fails leaves no stale controls behind.
Withdraws(name) ==
    CASE name \in MissionReview -> {"review"}
      [] name \in MissionTask -> {"task"}
      [] OTHER -> {}

Blanked(fields) == [f \in Fields |-> IF f \in fields THEN Blank ELSE shown[f]]

\* The version a field shows; projects belong to the policy they were listed under.
VersionOf(r, f) == CASE f = "projects" -> r["access"] [] f = "agents" -> 0 [] OTHER -> r[f]

\* The helper starts and the request takes effect, or does not.
Perform ==
    LET name == thread.name
        parts == {f \in Changes(name) : remote[f] < MaxChanges}
    IN
    /\ At("operator")
    /\ \E done \in {{}, parts} : \E outcome \in IF done = parts THEN {"ok", "refused", "lost"}
                                                ELSE {"refused", "lost"} :
        /\ remote' = [f \in Aspects |-> IF f \in done THEN remote[f] + 1 ELSE remote[f]]
        /\ changed' = [f \in Aspects |-> IF f \in done /\ f \in Withdraws(name)
                                        THEN remote'[f] ELSE changed[f]]
        /\ thread' = [at |-> "reply", name |-> name, outcome |-> outcome, seen |-> remote']
    /\ UNCHANGED <<conn, link, stop, job, busy, supported, shown>>

\* Mutant: a reply is stored whenever it arrives.
StoreLate ==
    LET name == thread.name IN
    /\ At("reply")
    /\ IF thread.outcome = "ok"
       THEN /\ shown' = [f \in Fields |->
                   IF f \in Stores(name) THEN [link |-> link, version |-> VersionOf(thread.seen, f)]
                   ELSE Blanked(Discards(name))[f]]
            /\ UNCHANGED supported
       ELSE shown' = Blanked(Withdraws(name)) /\ UNCHANGED supported
    /\ To("settle")
    /\ UNCHANGED <<conn, link, stop, job, busy, remote, changed>>

\* A reply that arrives after the disconnect is dropped.
Store ==
    LET name == thread.name IN
    /\ At("reply")
    /\ IF thread.outcome = "ok"
       THEN IF stop THEN UNCHANGED <<shown, supported>>
            ELSE /\ shown' = [f \in Fields |->
                        IF f \in Stores(name) THEN [link |-> link, version |-> VersionOf(thread.seen, f)]
                        ELSE Blanked(Discards(name))[f]]
                 /\ supported' = IF "access" \in Stores(name) THEN {"access", "rest"} ELSE supported
       ELSE shown' = Blanked(Withdraws(name)) /\ UNCHANGED supported
    /\ To("settle")
    /\ UNCHANGED <<conn, link, stop, job, busy, remote, changed>>

\* Mutant: the flag is left as it is.
SettleBusy ==
    /\ At("settle")
    /\ To("loop")
    /\ UNCHANGED <<conn, link, stop, job, busy, supported, shown, remote, changed>>

\* The finally clause of _operator.
Settle ==
    /\ At("settle")
    /\ busy' = FALSE
    /\ To("loop")
    /\ UNCHANGED <<conn, link, stop, job, supported, shown, remote, changed>>

-----------------------------------------------------------------------------
(* The connection thread                                                   *)

\* The server must say it is read-only; the access policy is fetched if it has one.
Greet ==
    /\ At("greet")
    /\ \/ /\ busy' = TRUE
          /\ supported' = {"access"}
          /\ thread' = [at |-> "operator", name |-> "get_access_policy", link |-> link]
          /\ UNCHANGED conn
       \/ To("loop") /\ UNCHANGED <<conn, busy, supported>>
       \/ conn' = "error" /\ To("exit") /\ UNCHANGED <<busy, supported>>
       \/ To("raised") /\ UNCHANGED <<conn, busy, supported>>
    /\ UNCHANGED <<link, stop, job, shown, remote, changed>>

\* One turn of the loop: a queued request, or a look at the metrics.
Turn ==
    /\ At("loop")
    /\ IF stop THEN To("exit") /\ UNCHANGED job
       ELSE IF job # NoJob
            THEN /\ thread' = [at |-> "operator", name |-> job.name, link |-> job.link]
                 /\ job' = NoJob
            ELSE To("poll") /\ UNCHANGED job
    /\ UNCHANGED <<conn, link, stop, busy, supported, shown, remote, changed>>

Poll ==
    /\ At("poll")
    /\ \/ conn' = (IF stop THEN conn ELSE "connected") /\ To("loop")
       \/ To("raised") /\ UNCHANGED conn
    /\ UNCHANGED <<link, stop, job, busy, supported, shown, remote, changed>>

\* An exception is shown unless the operator disconnected meanwhile.
Raised ==
    /\ At("raised")
    /\ IF stop THEN To("exit") ELSE To("complain")
    /\ UNCHANGED <<conn, link, stop, job, busy, supported, shown, remote, changed>>

Complain ==
    /\ At("complain")
    /\ conn' = "error"
    /\ To("exit")
    /\ UNCHANGED <<link, stop, job, busy, supported, shown, remote, changed>>

\* The finally clause of _worker; the thread is alive until it has left it.
Exit ==
    /\ At("exit")
    /\ conn' = IF stop THEN "disconnected" ELSE conn
    /\ To("leaving")
    /\ UNCHANGED <<link, stop, job, busy, supported, shown, remote, changed>>

Die ==
    /\ At("leaving")
    /\ To("none")
    /\ UNCHANGED <<conn, link, stop, job, busy, supported, shown, remote, changed>>

\* Another operator changes something on the server.
ChangeElsewhere(f) ==
    /\ remote[f] < MaxChanges
    /\ remote' = [remote EXCEPT ![f] = @ + 1]
    /\ UNCHANGED <<conn, link, stop, job, busy, supported, shown, thread, changed>>

Worker == Greet \/ Perform \/ Store \/ Settle \/ Turn \/ Poll \/ Raised \/ Complain \/ Exit \/ Die

NextPanel ==
    \/ Worker \/ Connect \/ Disconnect
    \/ PolicyRequest \/ WorkspaceRequest \/ GatewayRequest \/ MissionRequest \/ TasksRequest
    \/ \E f \in Aspects : ChangeElsewhere(f)

SpecPanel == InitPanel /\ [][NextPanel]_panelVars

\* Every wait of the connection thread has a timeout, so it keeps moving.
FairPanel == SpecPanel /\ WF_panelVars(Worker)
-----------------------------------------------------------------------------
(* Properties                                                              *)

\* "Do not leave stale Apply/Approve controls enabled": once a request about a
\* review or a task has ended, even without a reply, no older version is shown;
\* and no projects are shown that were listed under an older policy.
NoStaleControls ==
    /\ \A f \in Aspects : shown[f] # Blank /\ ~At("reply") => shown[f].version >= changed[f]
    /\ shown["projects"] # Blank /\ shown["access"] # Blank =>
           shown["projects"].version >= shown["access"].version

\* A request runs on the connection it was made for: one that was queued when
\* the connection broke is not sent to the server connected next.  What the
\* operator sees came over this connection, and a disconnect leaves nothing on
\* display although a request may still be running.  Nor is it out of date.
ShownIsCurrent ==
    /\ NoStaleControls
    /\ At("operator") => thread.link = link
    /\ \A f \in Fields : shown[f] # Blank => ~stop /\ shown[f].link = link

\* A request ends, or the connection it was made for does.
RequestEnds == busy ~> ~busy \/ conn = "error"
=============================================================================
