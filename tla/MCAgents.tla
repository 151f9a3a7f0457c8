------------------------------- MODULE MCAgents -------------------------------
(***************************************************************************)
(* Instances of what agents share on one host: notes, tasks, the timeline, *)
(* one-shot changes and backups.  These components do not touch each       *)
(* other's state, except that tasks consult the sessions, so a behaviour   *)
(* has one of them at work, its scope, and their state spaces add up.      *)
(***************************************************************************)
EXTENDS AgentTasks, EventFeed, HostActions, Backups, TLC

CONSTANTS p1, p2, k1, k2, t1, q1, q2, q3

VARIABLE scope

Notes == {"sessions", "locks", "watches", "windows", "alerts", "runbooks", "checkpoints"}

-----------------------------------------------------------------------------
(* Values of constants                                                     *)

ClockSkews == {-1, 0, 1}
AllKinds == Staged \cup {"kill_process"}

\* Two directories of one name.
Sites == [shop |-> "html", blog |-> "html"]

Symmetry == Permutations(Procs) \cup Permutations(Keys) \cup Permutations(TaskIds)

-----------------------------------------------------------------------------
(* Where the scopes begin                                                  *)

\* Workload locks and tasks find two sessions open.
InitAgents ==
    /\ scope \in Notes \cup {"queue", "feed", "actions", "backups"}
    /\ now = 1
    /\ file = [f \in Files |->
                  IF f = "sessions" /\ scope \in {"locks", "queue"}
                  THEN [k \in Keys |-> [NewSession EXCEPT !.ends = MaxTime]] ELSE Nothing]
    /\ used = IF scope \in {"locks", "queue"} THEN Keys ELSE {}
    /\ call = [p \in Procs |-> Idle]
    /\ told = [t \in Targets |-> [s \in Keys |-> 0]]
    /\ stale = {}
    /\ faults = {}
    /\ InitTasks
    /\ InitFeed /\ (scope # "feed" => skew = 0)
    /\ InitActions /\ (scope # "actions" => process = [i \in Pids |-> NoProcess])
    /\ InitBackups

-----------------------------------------------------------------------------
(* Steps                                                                   *)

\* One kind of notes at a time.
NotesOnly == \A p \in Procs : call'[p].step = "save" => call'[p].file = scope

NotesStep ==
    /\ scope \in Notes
    /\ NextSessions
    /\ NotesOnly
    /\ now' < MaxTime
    /\ scope = "sessions" => now' >= now
    /\ UNCHANGED <<taskVars, feedVars, actionVars, backupVars>>

\* The sessions of the queue are closed and expire.
Settling ==
    /\ faults' = {}
    /\ Cardinality({p \in Procs : call'[p].step # "idle"}) <= 1
    /\ \A p \in Procs : call'[p].step # "idle" =>
          /\ call'[p].step = "save" /\ call'[p].file = "sessions"
          /\ \A k \in DOMAIN call'[p].next : call'[p].next[k].findings = 0

QueueStep ==
    /\ scope = "queue"
    /\ NextTasks
    /\ Settling
    /\ UNCHANGED <<feedVars, actionVars, backupVars>>

FeedStep ==
    /\ scope = "feed"
    /\ NextFeed
    /\ UNCHANGED <<sessionVars, taskVars, actionVars, backupVars>>

\* Any action first, restarts of containers beside and after it.
Plain(w) == IF w.step = "idle" THEN TRUE ELSE w.kind = "docker_container_action"
ActionsStep ==
    /\ scope = "actions"
    /\ NextActions
    /\ calls > 0 /\ calls' # calls =>
          /\ \A m \in Actors : Plain(actor'[m])
          /\ \A e \in Events : e.kind = "docker_container_action"
    /\ process' # process => \E m \in Actors : ~ActorAt(m, "idle") /\ actor[m].kind = "kill_process"
    /\ UNCHANGED <<sessionVars, taskVars, feedVars, backupVars>>

BackupsStep ==
    /\ scope = "backups"
    /\ NextBackups
    /\ UNCHANGED <<sessionVars, taskVars, feedVars, actionVars>>

NextAgents ==
    /\ UNCHANGED scope
    /\ NotesStep \/ QueueStep \/ FeedStep \/ ActionsStep \/ BackupsStep

SpecAgents ==
    InitAgents /\ [][NextAgents]_<<scope, sessionVars, taskVars, feedVars, actionVars, backupVars>>
=============================================================================
