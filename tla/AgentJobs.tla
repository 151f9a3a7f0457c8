----------------------------- MODULE AgentJobs ------------------------------
(***************************************************************************)
(* src/agent_jobs.py: durable jobs made of a few read-only checks and at   *)
(* most one service restart, advanced by tool calls of any process.        *)
(*                                                                         *)
(* Every `with _transaction()` block is one BEGIN IMMEDIATE transaction    *)
(* and one atomic action here.  A check, a restart and a verification run  *)
(* outside it, under a lease of 120 seconds, and commit in a second        *)
(* transaction that may find the job changed.  Nobody watches the leases:  *)
(* whoever reads a job next refreshes it.                                  *)
(*                                                                         *)
(* Abstractions.  A lease ID is the revision of the claim, unique in its   *)
(* job.  `expires <= now` is a flag the environment may raise at any time, *)
(* one for the lease, one for the job.  A result is identified by the      *)
(* revision stored with it.  Which finished job an overfull store evicts   *)
(* (the oldest) is left open.                                              *)
(***************************************************************************)
EXTENDS Naturals, Sequences, FiniteSets

CONSTANTS
    Jobs,           \* job IDs, never drawn twice
    Calls,          \* slots for calls in flight, detached workers included
    PlanOf,         \* [Jobs -> Seq(Kinds)]: the checks of each job
    Budgets,        \* runtime budgets the host may be in
    MaxJobs,        \* 100 in the code
    MaxAttempts,    \* 3 in the code
    MaxRevision,    \* bound: no call claims a job beyond this revision
    NoJob

\* A light check (runtime_budget, system_health) runs in any profile; a
\* "status" check is the service_status a recovery proposal requires.
Kinds == {"light", "status", "heavy"}
Profiles == {"critical", "constrained", "standard"}
Budget == [profile : Profiles, concurrency : Nat]

ASSUME JobsAssumption ==
    /\ PlanOf \in [Jobs -> Seq(Kinds)]
    /\ Budgets \subseteq Budget
    /\ MaxJobs \in Nat
    /\ MaxAttempts \in Nat
    /\ MaxRevision \in Nat
    /\ NoJob \notin Jobs

VARIABLES
    job,        \* job[j]: the stored record of j
    call,       \* call[c]: what the call in slot c is doing
    budget,     \* get_runtime_budget()
    view,       \* view[j]: what a client has read of j by get_agent_job
    restarts    \* history: how often a call of j really restarted the service

vars == <<job, call, budget, view, restarts>>

FinalStates == {"completed", "cancelled", "expired"}
Leased == {"running", "action_running", "verifying"}
Gone == {"absent", "evicted"}
Statuses == FinalStates \cup Leased \cup Gone \cup
            {"pending", "needs_attention", "awaiting_agent", "awaiting_confirmation",
             "verification_pending", "action_uncertain"}

\* ran: the position of the check whose run produced the stored result.
Check == [status : {"pending", "running", "completed", "failed"},
          attempts : Nat, revision : Nat, ran : Nat]

Job == [status : Statuses, revision : Nat, next : Nat, checks : Seq(Check),
        lease : Nat, leaseDue : BOOLEAN, due : BOOLEAN,
        action : {"none", "proposed", "executed", "failed", "uncertain"},
        healthy : BOOLEAN]

\* step: the check being run; outcome: what run_recovery_action answered.
Call == [kind : {"idle", "check", "action", "verify"}, stage : {"claimed", "run", "ran"},
         detached : BOOLEAN, job : Jobs \cup {NoJob}, lease : Nat, step : Nat,
         outcome : {"blocked", "ok", "error", "raised"}]

View == [revision : Nat, results : Seq(Nat)]

NoLease == 0

NewJob(j) ==
    [status |-> "pending", revision |-> 1, next |-> 0,
     checks |-> [i \in 1..Len(PlanOf[j]) |->
                    [status |-> "pending", attempts |-> 0, revision |-> 0, ran |-> 0]],
     lease |-> NoLease, leaseDue |-> FALSE, due |-> FALSE,
     action |-> "none", healthy |-> FALSE]

Unborn(j) == [NewJob(j) EXCEPT !.status = "absent", !.revision = 0]

Idle == [kind |-> "idle", stage |-> "claimed", detached |-> FALSE, job |-> NoJob,
         lease |-> NoLease, step |-> 0, outcome |-> "blocked"]

TypeOK ==
    /\ job \in [Jobs -> Job]
    /\ call \in [Calls -> Call]
    /\ budget \in Budget
    /\ view \in [Jobs -> View]
    /\ restarts \in [Jobs -> Nat]

Init ==
    /\ job = [j \in Jobs |-> Unborn(j)]
    /\ call = [c \in Calls |-> Idle]
    /\ budget \in Budgets
    /\ view = [j \in Jobs |-> [revision |-> 0, results |-> [i \in 1..Len(PlanOf[j]) |-> 0]]]
    /\ restarts = [j \in Jobs |-> 0]

-----------------------------------------------------------------------------
(* Helpers                                                                 *)

Present(j) == job[j].status \notin Gone

\* _bump
Bump(r) == [r EXCEPT !.revision = @ + 1]

Released(r) == [r EXCEPT !.lease = NoLease, !.leaseDue = FALSE]

\* Mutant: an interrupted restart is offered for confirmation again.
AfterLeaseRetries(status) == CASE status = "running" -> "pending"
                               [] status = "action_running" -> "awaiting_confirmation"
                               [] status = "verifying" -> "verification_pending"

AfterLease(status) == CASE status = "running" -> "pending"
                        [] status = "action_running" -> "action_uncertain"
                        [] status = "verifying" -> "verification_pending"

\* Mutant: only checks are taken back.
RefreshChecks(r) ==
    IF r.status \notin FinalStates \cup Gone /\ r.due
    THEN Bump([r EXCEPT !.status = "expired"])
    ELSE IF r.status = "running" /\ r.leaseDue
         THEN Bump(Released([r EXCEPT !.status = "pending"]))
         ELSE r

\* _refresh: an expired job is closed as it stands, lease and all; otherwise a
\* lapsed lease is taken back, and a restart it covered becomes uncertain.
Refresh(r) ==
    IF r.status \notin FinalStates \cup Gone /\ r.due
    THEN Bump([r EXCEPT !.status = "expired"])
    ELSE IF r.status \in Leased /\ r.leaseDue
         THEN Bump(Released([r EXCEPT !.status = AfterLease(r.status)]))
         ELSE r

Fresh(j) == Refresh(job[j])

Put(j, r) == job' = [job EXCEPT ![j] = r]

\* Jobs whose checks or verifications hold a lease that has not lapsed.
ActiveChecks == {k \in Jobs : job[k].status \in {"running", "verifying"} /\ ~job[k].leaseDue}

RecoveryBusy(j) ==
    \E k \in Jobs \ {j} : job[k].status = "action_running" /\ ~job[k].leaseDue

Lease(r, status) == [Bump(r) EXCEPT !.status = status, !.lease = r.revision + 1,
                                    !.leaseDue = FALSE]

Busy(kind, stage, bg, j, r) ==
    [Idle EXCEPT !.kind = kind, !.stage = stage, !.detached = bg, !.job = j,
                 !.lease = r.revision + 1]

\* Mutant: the lease is not compared.
OwnsStatus(c, status) == job[call[c].job].status = status

\* The second transaction of call c still finds the lease it was given.
Owns(c, status) ==
    LET r == job[call[c].job] IN r.status = status /\ r.lease = call[c].lease

Hang(c) == call' = [call EXCEPT ![c] = Idle]

-----------------------------------------------------------------------------
(* Creating and reading                                                    *)

\* Mutant: any job may be deleted to make room.
CreateEvicting(j) ==
    LET present == {k \in Jobs : Present(k)} IN
    /\ job[j].status = "absent"
    /\ IF Cardinality(present) < MaxJobs
       THEN Put(j, NewJob(j))
       ELSE \E v \in present :
                job' = [k \in Jobs |-> CASE k = j -> NewJob(j)
                                         [] k = v -> [Fresh(v) EXCEPT !.status = "evicted"]
                                         [] OTHER -> Fresh(k)]
    /\ UNCHANGED <<call, budget, view, restarts>>

\* create_agent_job: a full store refreshes every job and makes room by
\* deleting a finished one; without one the new job is refused (see List).
Create(j) ==
    LET present == {k \in Jobs : Present(k)} IN
    /\ job[j].status = "absent"
    /\ IF Cardinality(present) < MaxJobs
       THEN Put(j, NewJob(j))
       ELSE \E v \in {k \in present : Fresh(k).status \in FinalStates} :
                job' = [k \in Jobs |-> CASE k = j -> NewJob(j)
                                         [] k = v -> [Fresh(v) EXCEPT !.status = "evicted"]
                                         [] OTHER -> Fresh(k)]
    /\ UNCHANGED <<call, budget, view, restarts>>

\* list_agent_jobs, and a create that finds the store full of active jobs.
List ==
    /\ job' = [j \in Jobs |-> Fresh(j)]
    /\ UNCHANGED <<call, budget, view, restarts>>

\* get_agent_job(after_revision): only the checks with a later revision.  Any
\* other call that finds the job in the wrong state refreshes it just so.
Get(j) ==
    LET r == Fresh(j)  after == view[j].revision IN
    /\ Present(j)
    /\ Put(j, r)
    /\ view' = IF after >= r.revision THEN view
               ELSE [view EXCEPT ![j] =
                        [revision |-> r.revision,
                         results |-> [i \in 1..Len(PlanOf[j]) |->
                            IF r.checks[i].revision > after THEN r.checks[i].revision
                            ELSE view[j].results[i]]]]
    /\ UNCHANGED <<call, budget, restarts>>

-----------------------------------------------------------------------------
(* Checks                                                                  *)

\* advance_agent_job: claim the next check, in this call or for a detached worker.
Advance(c, j, bg) ==
    LET r == Fresh(j)  i == r.next + 1 IN
    /\ call[c].kind = "idle"
    /\ r.status \in {"pending", "needs_attention"}
    /\ r.revision < MaxRevision
    /\ i <= Len(PlanOf[j])
    /\ r.checks[i].attempts < MaxAttempts
    /\ budget.profile = "critical" => PlanOf[j][i] = "light"
    /\ bg => budget.profile = "standard"
    /\ Cardinality(ActiveChecks \ {j}) < budget.concurrency
    /\ Put(j, [Lease(r, "running") EXCEPT !.checks[i].status = "running",
                                          !.checks[i].attempts = @ + 1])
    /\ call' = [call EXCEPT ![c] = Busy("check", "claimed", bg, j, r)]
    /\ UNCHANGED <<budget, view, restarts>>

\* The detached worker could not be started: give the claim back.
SpawnFails(c) ==
    LET j == call[c].job  r == job[j]  i == r.next + 1 IN
    /\ call[c].kind = "check" /\ call[c].stage = "claimed" /\ call[c].detached
    /\ IF Owns(c, "running")
       THEN Put(j, [Bump(Released(r)) EXCEPT !.status = "pending",
                                             !.checks[i].status = "pending"])
       ELSE UNCHANGED job
    /\ Hang(c)
    /\ UNCHANGED <<budget, view, restarts>>

\* First transaction of _complete_claimed_check; the check runs after it.
CheckStart(c) ==
    /\ call[c].kind = "check" /\ call[c].stage = "claimed"
    /\ IF Owns(c, "running")
       THEN call' = [call EXCEPT ![c].stage = "run", ![c].step = job[call[c].job].next + 1]
       ELSE Hang(c)
    /\ UNCHANGED <<job, budget, view, restarts>>

\* Second transaction: the result counts only for the claim it was made under.
CheckCommit(c, ok) ==
    LET j == call[c].job  r == job[j]  i == r.next + 1
        done == IF ok THEN r.next + 1 ELSE r.next
        status == CASE ~ok -> "needs_attention"
                    [] ok /\ done = Len(PlanOf[j]) -> "awaiting_agent"
                    [] OTHER -> "pending"
    IN  /\ call[c].kind = "check" /\ call[c].stage = "run"
        /\ IF Owns(c, "running")
           THEN Put(j, [Bump(Released(r)) EXCEPT
                            !.status = status,
                            !.next = done,
                            !.checks[i].status = IF ok THEN "completed" ELSE "failed",
                            !.checks[i].revision = r.revision + 1,
                            !.checks[i].ran = call[c].step])
           ELSE UNCHANGED job
        /\ Hang(c)
        /\ UNCHANGED <<budget, view, restarts>>

-----------------------------------------------------------------------------
(* Closing                                                                 *)

Cancel(j) ==
    LET r == Fresh(j) IN
    /\ r.status \notin FinalStates \cup Gone \cup {"action_running", "action_uncertain"}
    /\ Put(j, Bump(Released([r EXCEPT !.status = "cancelled"])))
    /\ UNCHANGED <<call, budget, view, restarts>>

Finish(j) ==
    LET r == Fresh(j) IN
    /\ r.status = "awaiting_agent"
    /\ Put(j, Bump([r EXCEPT !.status = "completed"]))
    /\ UNCHANGED <<call, budget, view, restarts>>

-----------------------------------------------------------------------------
(* Recovery                                                                *)

Propose(j) ==
    LET r == Fresh(j) IN
    /\ r.status \in {"awaiting_agent", "needs_attention"}
    /\ r.revision < MaxRevision
    /\ \E i \in 1..Len(PlanOf[j]) : PlanOf[j][i] = "status" /\ r.checks[i].status = "completed"
    /\ r.action = "none"
    /\ Put(j, Bump([r EXCEPT !.action = "proposed", !.status = "awaiting_confirmation"]))
    /\ UNCHANGED <<call, budget, view, restarts>>

Execute(c, j) ==
    LET r == Fresh(j) IN
    /\ call[c].kind = "idle"
    /\ r.status = "awaiting_confirmation"
    /\ r.revision < MaxRevision
    /\ ~RecoveryBusy(j)
    /\ Put(j, Lease(r, "action_running"))
    /\ call' = [call EXCEPT ![c] = Busy("action", "run", FALSE, j, r)]
    /\ UNCHANGED <<budget, view, restarts>>

\* run_recovery_action: the safety gate blocks it, or the service manager is
\* called.  A failed, timed-out or raising restart may still have happened.
RunRecovery(c, outcome, restarted) ==
    /\ call[c].kind = "action" /\ call[c].stage = "run"
    /\ outcome = "blocked" => ~restarted
    /\ outcome = "ok" => restarted
    /\ call' = [call EXCEPT ![c].stage = "ran", ![c].outcome = outcome]
    /\ restarts' = IF restarted THEN [restarts EXCEPT ![call[c].job] = @ + 1] ELSE restarts
    /\ UNCHANGED <<job, budget, view>>

AfterRecovery(r, outcome) ==
    CASE outcome = "blocked" -> [r EXCEPT !.status = "awaiting_confirmation"]
      [] outcome = "ok" -> [r EXCEPT !.status = "verification_pending", !.action = "executed"]
      [] outcome = "error" -> [r EXCEPT !.status = "needs_attention", !.action = "failed"]
      [] outcome = "raised" -> [r EXCEPT !.status = "action_uncertain", !.action = "uncertain"]

RecoveryCommit(c) ==
    LET j == call[c].job IN
    /\ call[c].kind = "action" /\ call[c].stage = "ran"
    /\ IF Owns(c, "action_running")
       THEN Put(j, Bump(AfterRecovery(Released(job[j]), call[c].outcome)))
       ELSE UNCHANGED job
    /\ Hang(c)
    /\ UNCHANGED <<budget, view, restarts>>

Verify(c, j) ==
    LET r == Fresh(j) IN
    /\ call[c].kind = "idle"
    /\ r.status = "verification_pending"
    /\ r.revision < MaxRevision
    /\ Cardinality(ActiveChecks \ {j}) < budget.concurrency
    /\ Put(j, Lease(r, "verifying"))
    /\ call' = [call EXCEPT ![c] = Busy("verify", "run", FALSE, j, r)]
    /\ UNCHANGED <<budget, view, restarts>>

VerifyCommit(c, healthy) ==
    LET j == call[c].job  r == job[j]
        status == IF healthy THEN "awaiting_agent" ELSE "needs_attention"
    IN  /\ call[c].kind = "verify"
        /\ IF Owns(c, "verifying")
           THEN Put(j, Bump([Released(r) EXCEPT !.status = status, !.healthy = healthy]))
           ELSE UNCHANGED job
        /\ Hang(c)
        /\ UNCHANGED <<budget, view, restarts>>

-----------------------------------------------------------------------------
(* The world around the jobs                                               *)

\* The process or the worker dies, or its last transaction cannot be stored.
Vanish(c) ==
    /\ call[c].kind # "idle"
    /\ Hang(c)
    /\ UNCHANGED <<job, budget, view, restarts>>

LeaseLapses(j) ==
    /\ job[j].status \in Leased /\ ~job[j].leaseDue
    /\ Put(j, [job[j] EXCEPT !.leaseDue = TRUE])
    /\ UNCHANGED <<call, budget, view, restarts>>

JobLapses(j) ==
    /\ job[j].status \notin FinalStates \cup Gone /\ ~job[j].due
    /\ Put(j, [job[j] EXCEPT !.due = TRUE])
    /\ UNCHANGED <<call, budget, view, restarts>>

HostChanges(b) ==
    /\ budget' = b
    /\ UNCHANGED <<job, call, view, restarts>>

Next ==
    \/ List
    \/ \E j \in Jobs :
          \/ Create(j) \/ Get(j)
          \/ Cancel(j) \/ Finish(j) \/ Propose(j)
          \/ LeaseLapses(j) \/ JobLapses(j)
          \/ \E c \in Calls :
                \/ \E bg \in BOOLEAN : Advance(c, j, bg)
                \/ Execute(c, j)
                \/ Verify(c, j)
    \/ \E c \in Calls :
          \/ SpawnFails(c) \/ CheckStart(c) \/ RecoveryCommit(c) \/ Vanish(c)
          \/ \E ok \in BOOLEAN : CheckCommit(c, ok) \/ VerifyCommit(c, ok)
          \/ \E outcome \in {"blocked", "ok", "error", "raised"}, restarted \in BOOLEAN :
                RunRecovery(c, outcome, restarted)
    \/ \E b \in Budgets : HostChanges(b)

Spec == Init /\ [][Next]_vars

\* Time passes, and clients keep looking at the list of jobs.
FairSpec == Spec /\ WF_vars(List) /\ \A j \in Jobs : WF_vars(LeaseLapses(j))

-----------------------------------------------------------------------------
(* Properties                                                              *)

\* A job restarts its service at most once, whatever is lost, interrupted,
\* retried or confirmed again; and two restarts run at the same time only when
\* one of them has outlived its lease.
RestartsOnceAlone ==
    /\ \A j \in Jobs : restarts[j] <= 1
    /\ \A c, e \in Calls :
        /\ c # e
        /\ call[c].kind = "action" /\ call[c].stage = "run"
        /\ call[e].kind = "action" /\ call[e].stage = "run"
        => \E d \in {c, e} : ~Owns(d, "action_running") \/ job[call[d].job].leaseDue

\* A job is ready to be closed, or closed as completed, only when all of its
\* checks have completed or a restart it executed was verified as healthy.
FinishedProperly ==
    \A j \in Jobs : job[j].status \in {"awaiting_agent", "completed"} =>
        \/ job[j].next = Len(PlanOf[j])
        \/ job[j].healthy /\ job[j].action = "executed" /\ restarts[j] = 1

\* A client that reads only the changes since its last revision has seen every
\* result once it is up to date.
DeltaComplete ==
    \A j \in Jobs : view[j].revision = job[j].revision =>
        \A i \in 1..Len(PlanOf[j]) : view[j].results[i] = job[j].checks[i].revision

\* The checks complete in order, each with the result of its own run, and are
\* reported and concluded so: a late, repeated or abandoned run never marks,
\* skips or undoes one.  (All state is typed.)
StepsInOrder ==
    /\ TypeOK
    /\ \A j \in Jobs : \A i \in 1..Len(PlanOf[j]) :
           /\ job[j].checks[i].status = "completed" <=> i <= job[j].next
           /\ i > job[j].next + 1 => job[j].checks[i].status = "pending"
           /\ job[j].checks[i].ran \in {0, i}
    /\ FinishedProperly
    /\ DeltaComplete

\* A closed job is never revived: it keeps its status until it is evicted, and
\* only closed jobs are.  Once a restart may have run without a stored outcome
\* nothing but the expiry of the job moves it: no call claims, retries or closes it.
ClosedForGood ==
    [][\A j \in Jobs :
          /\ job[j].status \in FinalStates => job'[j].status \in {job[j].status, "evicted"}
          /\ job[j].status \notin Gone /\ job'[j].status = "evicted" =>
                job[j].status \in FinalStates \/ job[j].due
          /\ job[j].status = "action_uncertain" =>
                job'[j].status \in {"action_uncertain", "expired", "evicted"}]_vars

\* No lease is held for ever: its call commits, or it lapses and the next
\* reader takes it back.
LeaseResolves ==
    \A j \in Jobs : job[j].status \in Leased ~> job[j].status \notin Leased
=============================================================================
