----------------------------- MODULE AgentTasks -----------------------------
(***************************************************************************)
(* The queue of tasks agents share (src/agent_runtime.py).  In contrast to *)
(* the notes of AgentSessions every operation of the queue runs under a    *)
(* thread lock and a file lock, so an operation is one step; the sessions  *)
(* it consults are read from their own, unlocked file.  No worker runs in  *)
(* the background: a lease that ended is taken back by the next operation  *)
(* that saves.                                                             *)
(***************************************************************************)
EXTENDS AgentSessions

CONSTANTS
    TaskIds,        \* random identifiers; none is drawn twice
    MaxTasks,       \* MAX_AGENT_TASKS
    Leases          \* lengths a lease may have, in ticks

ASSUME TasksAssumption == MaxTasks \in Nat \ {0} /\ Leases \subseteq Nat \ {0}

VARIABLES
    task,       \* the queue, by identifier
    born,       \* identifiers drawn so far
    worker,     \* history: worker[t][s]: until when session s was told it leases t
    unread      \* history: a read of the queue failed, and an empty queue was changed

taskVars == <<task, born, worker, unread>>

Final == {"completed", "failed"}
Free == "nobody"

InitTasks ==
    /\ task = Nothing
    /\ born = {}
    /\ worker = [t \in TaskIds |-> [s \in Keys |-> 0]]
    /\ unread = FALSE

-----------------------------------------------------------------------------

Released(r) == [r EXCEPT !.status = "pending", !.holder = Free, !.until = 0]

\* Leases that ended are taken back.
Refreshed ==
    [t \in DOMAIN task |->
        IF task[t].status = "running" /\ task[t].until <= now THEN Released(task[t]) ELSE task[t]]

\* The queue q with room for one more: at the limit the oldest finished task
\* that is not protected goes, and without one there is no room.
Roomy(q, protected) ==
    IF Cardinality(DOMAIN q) < MaxTasks THEN {q}
    ELSE LET finished == {t \in DOMAIN q \ protected : q[t].status \in Final} IN
         {Without(q, {t}) : t \in {x \in finished :
             \A y \in finished : q[x].finished <= q[y].finished}}

Blockers(q, t) == {d \in q[t].deps : d \notin DOMAIN q \/ q[d].status # "completed"}

\* Mutant: any session has the lease.
LeasedByAny(t, s) == t \in DOMAIN task /\ Refreshed[t].status = "running"

\* The task in the refreshed queue, leased by session s.
Leased(t, s) ==
    /\ t \in DOMAIN task
    /\ Refreshed[t].status = "running"
    /\ Refreshed[t].holder = s

Store(t, r) == task' = [Refreshed EXCEPT ![t] = r]

\* A queue that cannot be read counts as empty; only a creation then saves it.
CreateTask(t, deps) ==
    /\ t \notin born
    /\ \E q \in {task} \cup IF unread THEN {} ELSE {Nothing} :
          /\ deps \subseteq DOMAIN q
          /\ unread' = (unread \/ q # task)
          /\ \E roomy \in Roomy(q, deps) :
                task' = With(roomy, t, [status |-> "pending", deps |-> deps, holder |-> Free,
                                        until |-> 0, finished |-> 0])
    /\ born' = born \cup {t}
    /\ UNCHANGED worker

ClaimTask(t, s, n) ==
    /\ SessionActive(s)
    /\ t \in DOMAIN task
    /\ Refreshed[t].status \notin Final \cup {"running"}
    /\ IF Blockers(Refreshed, t) # {}
       THEN /\ Store(t, [Refreshed[t] EXCEPT !.status = "blocked"])
            /\ UNCHANGED worker
       ELSE /\ Store(t, [Refreshed[t] EXCEPT !.status = "running", !.holder = s,
                                             !.until = now + n])
            /\ worker' = [worker EXCEPT ![t][s] = now + n]
    /\ UNCHANGED <<born, unread>>

HeartbeatTask(t, s, n) ==
    /\ SessionActive(s)
    /\ Leased(t, s)
    /\ Store(t, [Refreshed[t] EXCEPT !.until = now + n])
    /\ worker' = [worker EXCEPT ![t][s] = now + n]
    /\ UNCHANGED <<born, unread>>

\* A release does not ask whether the session is still active.
ReleaseTask(t, s) ==
    /\ Leased(t, s)
    /\ Store(t, Released(Refreshed[t]))
    /\ worker' = [worker EXCEPT ![t][s] = 0]
    /\ UNCHANGED <<born, unread>>

FinishTask(t, s, outcome) ==
    /\ SessionActive(s)
    /\ Leased(t, s)
    /\ Store(t, [Refreshed[t] EXCEPT !.status = outcome, !.until = 0, !.finished = now])
    /\ worker' = [worker EXCEPT ![t][s] = 0]
    /\ UNCHANGED <<born, unread>>

\* A heartbeat, a release or a finish without the lease only saves the refresh.
RefusedTask(t, s) ==
    /\ ~Leased(t, s)
    /\ task' = Refreshed
    /\ UNCHANGED <<born, worker, unread>>

\* Listing also unblocks the tasks whose dependencies have completed.
ListTasks ==
    /\ task' = [t \in DOMAIN task |->
                   IF Refreshed[t].status = "blocked" /\ Blockers(Refreshed, t) = {}
                   THEN [Refreshed[t] EXCEPT !.status = "pending"] ELSE Refreshed[t]]
    /\ UNCHANGED <<born, worker, unread>>

TaskStep ==
    \/ ListTasks
    \/ \E t \in TaskIds :
        \/ \E deps \in SUBSET (TaskIds \ {t}) : CreateTask(t, deps)
        \/ \E s \in Keys :
            \/ \E n \in Leases : ClaimTask(t, s, n) \/ HeartbeatTask(t, s, n)
            \/ ReleaseTask(t, s)
            \/ RefusedTask(t, s)
            \/ \E outcome \in Final : FinishTask(t, s, outcome)

NextTasks ==
    \/ TaskStep /\ UNCHANGED sessionVars
    \/ NextSessions /\ UNCHANGED taskVars

SpecTasks == InitSessions /\ InitTasks /\ [][NextTasks]_<<sessionVars, taskVars>>

-----------------------------------------------------------------------------
(* Properties                                                              *)

\* claim_agent_task: work on a task starts after all it depends on completed,
\* and a task some other depends on never leaves that state.
DependenciesFirst ==
    \A t \in DOMAIN task : task[t].status \in Final \cup {"running"} =>
        \A d \in task[t].deps \cap DOMAIN task : task[d].status = "completed"

\* _serialized_task_operation and _refresh_task_leases: two sessions never
\* both believe they lease one task, and who believes it appears in the queue,
\* unless the clock was set back over the end of a lease or the queue could not
\* be read; the task's turn has come; and no two hold one workload.
OneWorker ==
    /\ \/ "clock" \in faults \/ unread
       \/ \A t \in TaskIds : \A s \in Keys :
             worker[t][s] > now =>
                 t \in DOMAIN task /\ task[t].status = "running" /\ task[t].holder = s
    /\ DependenciesFirst
    /\ OneHolderWithoutRace

\* "Every dependency must reference an existing task": nothing an open task
\* waits for leaves the queue, as it could not be claimed any more.
OpenTasksCanStart ==
    unread \/ \A t \in DOMAIN task :
        task[t].status \notin Final => task[t].deps \subseteq DOMAIN task
=============================================================================
