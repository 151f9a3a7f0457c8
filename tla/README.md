# A TLA+ model of VPS Guardian MCP

VPS Guardian MCP is a Python server that gives coding agents a set of tools on a
Linux host: they read the system, draft and apply patches, run checks in
containers, restart services.  Several server processes (stdio sessions, a
gateway, detached workers, the operator's panel) run at the same time and meet
in three kinds of state: memory of one process behind a lock, a SQLite store
under `BEGIN IMMEDIATE` transactions, and JSON files replaced atomically under
`flock`.  What the program promises is mostly about what happens *between* two
steps of such a process: a token is redeemed once, a patch is never replayed, an
interrupted restart is never offered again, a lease that lapses is never
committed.  This directory states those promises and checks them.

Paths below are relative to the repository's implementation directory (`src/`
of the repository; `PROJECT.json` names each file by its full path).

## 1. Inventory

| Component | Code | State it keeps | Operations | What is hard | What makes it correct |
|---|---|---|---|---|---|
| Confirmation gate | `safety.py` | `_pending_confirmations` (memory, per process, at most 1024 tokens), audit log | `request_authorization`, `get_safety_mode`, `confirmation_error` | mode, fingerprint and clock are read before the lock; eviction runs before the look-up; tokens die with the process | one token, one call, exactly the operation and parameters it was issued for |
| Access policy | `access_policy.py` | `policy.json` (roots, mode cap, disabled tools), `flock` | load, `save_access_policy` (compare-and-swap by content hash), `mode_cap`, root checks | may change between any two steps of another process; a hash that comes back | a save never overwrites a policy its author did not see; every operation rechecks roots and limits |
| Resource policy | `resource_policy.py` | `limits.json`, sampled host load | `get_runtime_budget`, save (compare-and-swap) | the budget changes while a job is claimed | a job obeys the budget at the moment it is claimed |
| Project patches | `project_workspace.py`, `files.py` | drafts of kind `patch` in the shared store; project files | begin, stage file, stage line edit, preview, apply | files are written after the transaction that compared their baselines; late outcomes; crashes | reviewed = applied; tested = current; never replayed; outcome truthful |
| Change sets | `changeset.py` | drafts of kind `changeset` | begin, stage, preview, apply with rollback | the rollback covers all files, also those never written | all or nothing, as far as nobody else writes |
| Shared draft store | `operation_store.py` | SQLite table of drafts and finished operations | transaction enter/exit, cleanup, get/set/iterate, history | lease of 120 s, sweep on access only, capacity, retention, failed commits | never evicts a draft, never reopens a claim |
| Test capsules | `test_capsules.py` | one check lock per process, one `flock` per machine, scratch snapshot | `test_project_patch`, named checks, promotion | verdict arrives after the lease lapsed or the draft changed | a verdict vouches only for the files it ran on |
| Agent jobs | `agent_jobs.py` | SQLite table of jobs (at most 100) | create, list, get, advance, cancel, finish, propose/execute/verify recovery | check, restart and verification run outside the transaction under a lease; detached workers | one restart at most, checks in order, closed jobs stay closed, revisions cover every change |
| Recovery actions | `recover.py`, with `record_audit_event` of `safety.py` | backup archives; the audit log and its fallback | restart a service, kill a process, clean caches, logs and packages, update the program, create, list and verify a backup | a timed-out command may have had its effect; a pid is given to another process between two looks; an archive is named by the second; the audit file is full or locked | gated; reported as uncertain when unknown; success means all that was promised; a protected process is spared; a reported archive stays |
| Agent gateway | `gateway.py` | one policy file per agent under `POLICY_BASE`; `.admin.lock` | create, list, revoke an agent; active policy of a session | the operator operations of gateway, mission control and mission tasks share one lock that refuses instead of waiting; identities expire or are replaced during a call | no operation acts for an identity that is revoked, expired or replaced |
| Mission control | `mission_control.py` | private workspaces per agent (`flock`), review records owned by root | create, read, stage, submit a workspace; import, decide, apply, list a review | an apply writes file by file beside other programs; interrupted applies; agents alter what they submitted | applied = approved, once; uncertain when unknown; pruned only when nobody needs it |
| Mission tasks | `mission_tasks.py` | ledger of missions, a copy of each for its agent, reports of the agents, links to reviews, check results | create, refresh, report, reassign, import, check, test, verify, finish, cancel, return | three files change one after the other; exports fail; reports are late, old or wrong | one assignee; one mission per review; no apply without its checks or after a withdrawal |
| Mission capsules | `mission_capsules.py` | evidence of a test: inputs, image, recipe | isolated test of a review | the tree changes during the test, or after it | a pass counts only for the inputs it was made on |
| Agent sessions | `agent_runtime.py`, `agent_efficiency.py`, `operations.py` | sessions, watches, workload locks, windows, runbooks, checkpoints and tasks in JSON files; a cursor into the timeline of events | start, note, hand off, close; lock, watch; create, claim, heartbeat, release, finish, list a task; read on from a cursor | tasks are serialized by a thread lock and `flock`, everything else is loaded and saved without a lock; leases lapse; the clock is set back; two sources of events print different clocks | one owner per task, dependencies first; nothing is lost but to a save from an old copy; the cursor skips nothing unnoticed |
| Operations and deployment | `deploy.py`, `compose.py`, `operator_projects.py` | deployment plans in memory behind `_plans_lock`, the live configuration | plan, deploy with rollback; compose actions | a plan is looked up, authorized and taken in separate critical sections; write, reload, check and rollback fail separately | a plan is written once, over what was reviewed; the result is true |
| Safe file I/O | `safe_io.py` | temporary files | atomic replace, bounded read, no-follow open | an error after the rename | old or new content, never a mixture |
| Operator panel | `local_panel.py`, `panel_assets/`, `bin/` | controller state behind a lock; one connection thread; a queued operator request | connect, disconnect; policy, agents, projects, reviews and tasks of a server | replies arrive after a disconnect or get lost after their effect; a queue of one; the connection breaks under a request | what is shown is of this connection and not out of date; every request ends |
| Snapshots, schedules, incidents | `snapshot.py`, `scheduler.py`, `incident.py`, `crash.py`, `updates.py` | snapshot files in two directories, cached answers of update checks | take and compare snapshots; incident report; update checks | areas are read one after another while the host changes; a collector fails and its reply is a part, nothing, or an error; a stale cache | a comparison reports only what was so; "healthy" hides nothing a collector admitted |
| Tool server | `server.py` | registry of tools | dispatch in a thread pool | concurrent calls | each tool goes through its component |
| Diagnostics | `monitor.py`, `docker_manager.py`, `web.py`, `proc_deep.py`, `network.py`, `net_diag.py`, `database.py`, `security.py`, `storage.py`, `topology.py`, `environment_doctor.py`, `platform.py`, `code_navigator.py` | none | read the host; docker actions | a command, a file or a library is missing, fails or answers in part | a failure is admitted, not taken for an empty host |

How they interact:

* Every state-changing tool calls `safety.request_authorization` before it acts;
  the gate asks `access_policy.mode_cap` for the operator's limit.
* Patches and change sets live in the draft store, which sweeps every due draft
  on each access of *any* tool, so a call about one draft moves others.
* Promotion of a tested patch combines three components: the capsule's verdict,
  the fingerprint of the draft and the gate.
* Agent jobs call the resource policy before a claim, the diagnostics for a check
  and `recover.run_recovery_action`, which passes the gate, for a restart.
* Mission tasks drive mission control: a task links one review, which cannot then
  be approved or applied but through the task's conditions; agents see their task
  by a copy of the ledger and answer by reports that the operator reads.
* The operator's panel writes the policies the servers read; before each tool call the
  server asks the gateway and the access policy, and a running call asks them again for
  its cap and its roots.
* Tasks consult the sessions, which live in another file under no lock.
* Snapshots and incident reports call the diagnostics one after the other and keep what
  each of them leaves of its area.

The hazards of this code, each at its line, with the properties that cover it,
are listed in `PROJECT.json` under `hazards`.

## 2. Modules

| Module | Models | Kind |
|---|---|---|
| `Grants` | the contract of the confirmation gate: a token is issued once, for one demand, redeemed at most once, and may be lost at any time | abstract specification |
| `SafetyGate` | `safety.request_authorization` as it is: unlocked reads, then expiry, eviction, look-up and answer under the lock | component; implements `Grants` |
| `SafetyGateProofs` | theorems about `SafetyGate` | proofs |
| `DraftLifecycle` | the contract of the draft store: claimed at most once, honest history | abstract specification |
| `ProjectPatches` | patches: begin, stage, preview, apply, capsule check, promotion, over the shared store and the gate's contract | composition; implements `DraftLifecycle`, instantiates `Grants` |
| `ProjectPatchesProofs` | theorems about `ProjectPatches` | proofs |
| `AgentJobs` | agent jobs: checks, detached workers, recovery, leases, eviction, delta reads | component |
| `AgentJobsProofs` | theorems about `AgentJobs` | proofs |
| `ChangeSets` | change sets of configuration files: stage, preview, claim, writes, validation, reload, health check, rollback, over the store and the gate's contract | composition; implements `DraftLifecycle`, instantiates `Grants` |
| `ChangeSetsProofs` | theorems about `ChangeSets` | proofs |
| `OperationStore` | the store itself over all kinds of drafts: limits, sweep, retention, paging | component |
| `AtomicFiles` | `atomic_replace`, `atomic_create`, `backed_up_delete` down to system calls, beside other programs and power losses | component |
| `FilesProofs` | theorems about `AtomicFiles` and `OperationStore` | proofs |
| `Missions` | missions, workspaces, reviews, tests: `mission_tasks.py` with `mission_control.py` | composition |
| `MissionsProofs` | theorems about `Missions` | proofs |
| `AgentSessions` | sessions, workload locks, event watches, windows, alerts, runbooks and checkpoints: load, change, save without a lock | component |
| `AgentTasks` | the locked queue of tasks, beside the unlocked sessions it consults | composition (extends `AgentSessions`) |
| `EventFeed` | the timeline of two sources with different clocks and the cursor into it | component |
| `HostActions` | one-shot changes of the host stage by stage, `kill_process`, and the audit log they end in | component |
| `Backups` | archives: create, list, verify | component |
| `AgentsProofs` | theorems about `AgentSessions`, `AgentTasks`, `EventFeed`, `Backups` and `HostActions` | proofs |
| `AccessControl` | access policy and limits, enrolled agents, the check before each call | composition |
| `ConfigDeploy` | plan and deployment of a web-server configuration | component |
| `Panel` | the operator's panel: controller, connection thread, operator requests | component |
| `HostReports` | collectors, snapshots, comparison, incident report, update checks | composition |
| `OperatorProofs` | theorems about `ConfigDeploy`, `Panel`, `HostReports` and `AccessControl` | proofs |
| `MCFiles`, `MCAgents`, `MCOperator` | instances of several components in turn, see below | model checking |
| other `MC*` | constants, symmetry and settings of the TLC instances | model checking |

A *scope* is a variable of `MCFiles`, `MCAgents` and `MCOperator` that never changes:
it names the component a behaviour has at work while the others rest.  The
components of such a module share no state (tasks and sessions do, and form one
scope), so nothing is lost, and their state spaces add up instead of multiplying.
In the same way `MCAgentJobs` and `MCProjectPatches` begin in one of two settings.

### SafetyGate

A tool call is a slot `call[c]`.  `Enter` is the code before the lock: it fixes
the mode, the fingerprint (`demand`), the presented token and `now` (`at`).
`Confirm`, `Reject` and `Plan` are the three ways through the critical section
(`safety.py` lines 133-190); each begins with `Survivors`, the deletion of
expired tokens and the eviction of the oldest one from a full map, *before* the
presented token is looked up.  `pending[s]` are the keys of process `s`'s map,
`grant` and `expires` the values stored with a token; a token value is drawn
once.  `OperatorSetsCap` changes the mode cap at any moment, `Restart` loses the
map and the calls of a process, `Tick` advances the clock.

### ProjectPatches

`rows[p]` is the row of patch `p` in the store, `work[p]` the call that claimed it
and still runs, `disk` the project files.  Each `with _patch_lock` block is one
action: `Cleaned` is the sweep at its start, `Commit` its commit or, where a
failure to commit leaves other state behind, its rollback.  Between the claim
(`ApplyClaim`) and the outcome (`ApplyFinish`) every file is a `Write`, which may
fail before or after the replacement; somebody else may `Edit` the files, the
process may `Crash`, the lease may `Lapse`.  The capsule check is claimed
(`TestClaim`), waits for the machine-wide lock (`CapsuleStart`), runs
(`CapsuleRun`, `CapsuleError`) and reports (`TestFinish`).  The gate is used by
its contract, `Grants`: how `safety.py` comes to an answer is `SafetyGate`'s
concern.  `claim`, `touched`, `moved` and `passed` are history variables: no guard
reads them.

A *content* is a model value and stands for its SHA-256; `expires <= now` is the
flag `due` of a row.  Sizes, diffs, path syntax and messages are abstracted.

### AgentJobs

`job[j]` is the stored record; `call[c]` a tool call or detached worker between
its two transactions.  `Refresh` is `_refresh`, part of every action that reads a
job.  A check is `Advance`, `CheckStart`, `CheckCommit` (or `SpawnFails`), a restart
`Execute`, `RunRecovery`, `RecoveryCommit`, a verification `Verify`,
`VerifyCommit`; the lease (`LeaseLapses`), the life of the job (`JobLapses`), the
host's budget (`HostChanges`) and the death of a caller (`Vanish`) interleave
freely.  `view` is a client that polls with `after_revision`; `restarts` counts what
really happened to the service.

### ChangeSets

As `ProjectPatches`, with what a change set has more of: a file is read before the
lock (`reading`) and looked at again under it; after the writes come the
validation, the reload and the health check of the service, and on any failure the
rollback of *every* file of the set, which puts back the stored original by
decoding it (`Decoded`).  `loaded` records what the service was made to load.

### OperationStore

A row has a kind, a state, a size, an expiry and two stamps.  `Modify` is a `with`
block of a store of one kind: `Cleaned` is the sweep at its start, `Flush` its
commit with the limits of count and payload and the trim of finished records, which
are shared by all kinds.  The clock may be set back (`SetClock`).  `cursor` is a
client that pages through `list_operations` while rows change.

### AtomicFiles

A call goes from `Inspect` to `Settle` one system call at a time: read, private
backup, temporary file, write, sync, last look, rename (or link, or unlink), sync
of the directory.  `disk` is what is durable, the other state what a power loss may
drop; other programs edit, replace and delete the target at every step.

### Missions

`ledger[m]` is the authoritative record of mission `m`, `feed[a][m]` the copy agent
`a` may read, `mail[a][m]` its last report, `review[w]` the operator's snapshot of
workspace `w`.  All operations of the operator hold one lock, so an operation is
one action; since it writes several files in turn, an action chooses how far it
gets (`Import`, `Return`, `Reassign`, `Commit`).  Agents and other programs hold no
lock: `StartReport`/`SendReport`, `Alter`, `Edit`.  A test (`TestStart`, `TestEnd`) and an
apply (`Claim`, `Write`, `WriteFails`, `Complete`) are several steps under the lock, kept
in `busy`; `Crash` ends them, and the next reader finds an apply `uncertain`
(`Settled`).  `Refreshing` is `_refresh`: the review's state or the agent's report enters
the ledger under a new revision.  `history` holds what was shown, claimed,
withdrawn, tested and acknowledged; no guard reads it.

### AgentSessions

`file[f]` is the content of one JSON file.  An operation is a load (`Rewrite`, which
works out the changed copy, an empty one when the read fails) and a `Save` or an
`Abandon`; between the two any other process may save, because `_load` and `_save`
take no lock.  `Marked` and `Trim` are the expiry and the limits applied on the
way.  A handoff loads twice.  `stale` and `faults` are history: which files were saved
from an old copy, whether a read failed or the clock went back.

### AgentTasks

Here an operation runs under a thread lock and a file lock and is one step.
`Refreshed` takes back the leases that ended, `Roomy` makes room at the limit,
`Store` saves both; a refused call saves the refresh too (`RefusedTask`).  The
sessions are read from their own file at that moment.

### EventFeed

`Timeline` is what `get_recent_server_events` returns: the newest `Limit` events of the
window, by the stamps the two sources print (`skew` apart), where `journalctl` may
give only some lines or none.  `EventDelta` is a read from the cursor.

### HostActions

`Stages` gives for each kind of action its stages in order, and for each what becomes
of a failure and of an exception (the call stops, notes it, makes it the verdict, or
ignores it).  `DoStage` performs one, with or without its effect.  `kill_process` is
`Find`, `Terminate`, `Wait`, `KillHard`, with pids that are reused (`Replaced`) at any
moment.  `Audit` and `AppendLine` are `record_audit_event`: a file that is full or
locked is passed over for the fallback, or for none.

### Backups

`archive[p]` is the file at a path of directory, base name and second.  Two processes
may write one path, and the one that fails removes it.  The model follows the archive
from its opening to the report, the listing and the verification.

### AccessControl

`store` holds policy and limits; contents stand for the revisions the code computes
from them by hashing.  A save is `SaveLocks`, `SaveCompares`, `SaveReplaces` under one
lock that refuses.  Enrollment is `CreateAgent`, `MakeAccount`, `MakeHome`, `MakeKey`,
`MakePolicy`, and any step may be the last (`HelperFails`); revocation is `RevokeAgent`,
`RevokeKey`.  A call is `Enter` (gateway), `Admit` (policy), `Resolve` (cap and roots) and
`Return`.  A path is a sequence of names; `Intersection` is the code's combination of two
lists of roots, and `AnyRoot`, the root of everything, its `None`.

### ConfigDeploy

A call goes `Lookup`, `Check`, `Authorize`, `Claim`, `Write`, `Reload`, `IsActive` and, when
the server does not take the file, `Undo`, `ReloadAgain`; each may fail, also after its
effect.  Plans expire and are evicted from `listed` while calls still hold them.

### Panel

Every HTTP request is one step on the controller under its lock.  The connection
thread is in one place (`thread.at`): `Greet`, `Turn`, `Poll`, and for an operator request
`Perform` (on the server), `Store` (the reply), `Settle`; `Raised`, `Complain`, `Exit` and
`Die` are its ways out.  `shown` holds for each field the connection and the version its
content came from.

### HostReports

`host[a]` is the truth about an area, which changes at any moment.  A collector is the
set of replies its area may lead to (`OpenPorts`, `CronJobs`, ...): all, a part or
nothing, with or without an error.  `CollectArea`, `WriteSnapshot`, `Drift` are the
snapshots, `CollectSection` and `AddSection` the incident report, `Answers` the
cached update checks.

## 3. Runs

| Run | Instance | Question |
|---|---|---|
| `safety_gate` | 1 process, 2 calls, 3 tokens, map of 2, clock 0..2, TTL 2 | stale clocks, eviction at capacity and races never approve a call wrongly or forget a token without reason; the gate implements `Grants` |
| `patches` | 2 patches of 1 file in 2 unrestricted processes; or 1 patch, a controlled and an unrestricted process, 1 token, a changing policy | reviewed = applied, tested = current, nothing evicted or overwritten outside the window, honest outcomes; the lifecycle |
| `jobs` | 1 job of 2 checks, 4 budgets; or 2 jobs beside a closed one in a store of 2; 2 calls, 2 attempts, fairness | one restart, alone; steps in order; closed jobs stay closed; leases resolve |
| `changes_whole` | 1 change set of 2 files, controlled, a content the service rejects, foreign edits, fairness | rollback, no half change set behind a report, applied = confirmed; lifecycle and resolution of the claim |
| `changes_binary` (violation) | a file that is not UTF-8 | the rollback does not restore it, see Findings |
| `files_store` | 2 calls on 1 file beside other programs, errors, power losses; or 3 rows of two kinds, small limits, a clock that goes back, a paging client | whole contents, no blind loss, durability; limits hold, nothing is forgotten but for age or excess, pages are complete |
| `mission_life` | 1 mission with checks and a test, 2 files, 9 revisions, a mishap | applied as reviewed, once, not after a withdrawal, on the tested tree; done means approved, tested, applied |
| `mission_share` | 2 missions, 2 agents, 1 workspace, 3 revisions, a mishap | one mission per review, kept; one assignee and honest copies |
| `mission_bypass` (violation) | 1 mission with a test, an interrupted import | a task's workspace is applied without its test, see Findings |
| `agents` | in turn: 7 kinds of notes, the queue, the timeline, actions, backups; 2 processes, 3 tasks in a queue of 2 | one worker per task, dependencies first; notes lost only to an old copy; the cursor; the truth of the audit log; protected processes; backups that stay |
| `operator` | in turn: panel, policy, gateway, deployment, snapshots, report, update checks; 2 helpers, 2 agents, 2 sessions, 2 plans | what is shown is current and requests end; revoked agents stay out, roots are capped, saves replace what was seen; deployed once, true results; comparisons and reports hide nothing |
| `tasks_start` (violation) | the queue of `agents` | an open task loses its dependency, see Findings |

Several properties are conjunctions whose parts are named and commented where they are
defined; the type invariant of a component is part of one of them where no theorem
states it alone (`StepsInOrder`, `NeverTorn`, `ServedWhole`, `DoneWasApplied`,
`ForgetsOnlyExcess`).

Deadlock is checked except in `agents`, `tasks_start`, `operator` and `files_store`: there
the clocks, calls, backups, edits and connections are bounded, and when all are used up
nothing is left to do.

**Findings.**  `changes_binary`: the rollback decodes the stored original with
`errors="replace"`, so a file that is not UTF-8 does not come back as it was.
`mission_bypass`: `import_mission_task_review` writes the review without its mission
and links it by a second write; when the process ends in between, the review stands
alone and is approved and applied without the task's checks, although
`README.md` line 103 of the repository excludes that.  Both are quoted in
`PROJECT.json`.

`tasks_start`: a full queue makes room by removing the oldest completed task that is not
a dependency of the task *being created*; a task already queued may depend on it and can
then never be claimed, although "Every dependency must reference an existing task"
(`agent_runtime.py` line 329).

**Why the bounds are enough.**  The guards compare *pairs*: a token with a call, a
call with the lease, a draft with its capacity.  Two calls, two processes, two
patches or two jobs give every pair; a third token is needed to fill a map of two
and still draw one.  A TTL of 2 in three instants distinguishes expired,
expiring and fresh; the code compares times and never adds them up.  Two files give a
partly written plan; one file shared by two patches gives the conflict.
`MaxAttempts = 2` gives a retry and an exhausted check, `MaxRevision` bounds how
often a job can be claimed (it is a guard of the claiming actions only, so every
started step can still finish): a restart is proposed at revision 6 and claimed as 7,
and 9 leaves room for a second one after the lease of the first has lapsed.  The
budget changes, to any value, until the restart is proposed.  `Capacity`, `MaxPending`
and `MaxJobs` are 24, 1024 and 100 in the code; a limit of one or two is reached and competed for in the runs.
In `Missions`, `MaxMishaps` bounds the failed exports, interrupted operations, foreign
edits and identity changes of a behaviour, and `MaxRevision` the revisions.  A mission
with checks and a test needs eight commits or refreshes from its creation (revision 1)
to its end (revision 9, `mission_life`); three are enough to create two missions, have
them reported and imported (`mission_share`), where the interesting steps are the early
ones.  Every property there is about one mishap between two steps.  The expiry of
workspaces and of one mission (`MaxDue`) is not a mishap and may come at any time.  The passing runs let agents
report `needs_review`; a report of `working` is taken without a look at its workspace
and occurs in `mission_bypass` only, to keep them small.

In `agents` two processes and two keys give every race of a load with a save;
`MaxRecords = 1` lets the limits bite, three tasks in a queue of two force an eviction,
leases of one and two ticks in three instants lapse before, with and after a session.
Four events of the two sources in any order, a timeline of three and a page of one are enough for an event to arrive
sorted before, at and after the cursor.  Among actions any kind may be the first call,
and container restarts run beside it, since what calls share is the audit log: it holds
one event a file, so that the third call finds neither.  One pid passes from
a worker to `sshd` and back.  In `operator` one agent may be enrolled and two compete for
the place; nested roots (`www` and `www/a`) are in either list and a disjoint one
(`opt`) in one only; one plan is listed and two are drawn, so one is evicted under a
call; the areas of the snapshots are one whose collector admits failures
(`failed_units`), one compared by value (`docker_containers`) and one that may be
partial (`config_files`); the cache lives two of four ticks.

**What is taken for granted.**  A reload by `systemctl` that reports success made the
service take its files, where those of a change set are valid.  An edit in place changes the modification stamp of a file and a
new file has another inode, so `atomic_replace` notices either.  `psutil` signals the
process it looked up or none.  A scan for updates ends in the tick in which it began: the
cache dates an answer from the end of its scan, whose commands may take longer than that
but have timeouts.  What a change set or a deployment *reports* of a rollback is the flag
`rolled_back` of its reply, and for a change set the stored state; the `status` of the reply is
`rolled_back` also where the rollback failed, and no property is about it.

**Fairness.**  `changes_whole` assumes that some tool keeps opening the store, that a
running thread goes on unless its process dies, and that time passes; then a claim is
resolved.  `jobs` assumes `WF(List)` and `WF(LeaseLapses)` only: no call is assumed ever to
come back.  The code has no background sweeper, so without clients the claims do
stay open: "Retention is enforced on requests, not by a background cleanup daemon"
(`README.md` line 175 of the repository).  `operator` assumes `WF(Worker)` for the
connection thread of the panel alone: each of its waits has a timeout, after which it
raises.  Runs with liveness use no symmetry.

## 4. Proofs

TLAPS proves, for every value of the constants, all the safety properties of the
passing runs but one, named at the end of this section.  Each module states one
inductive invariant per component; what it adds to the properties is
what a call may still rely on between two of its steps.

* `SafetyGateProofs`: `GateTypeOK`, `GateApprovalIsExact`, `GateNoSharedApproval`,
  `GatePendingBounded`, `GateImplementsContract` and `GateTokenKept`.  The inductive invariant
  `GateInv` adds to the properties what makes them stable: a pending token was
  granted, is pending in one process only and was never redeemed; a token that
  confirmed a call is redeemed and pending nowhere.  `PendingBounded` has its own
  invariant over finite maps, on which `TokenKept` rests as well.  The refinement maps `Confirm` to `Redeem`, `Plan` to
  `Issue`, `Reject` and `Restart` to `Lose`, and everything else to a stutter.
* `ProjectPatchesProofs`: `PatchesTypeOK`, `PatchesOutcomeTruthful`,
  `PatchesAppliedAsReviewed`, `PatchesTestedIsCurrent`, `PatchesNeverReplayed`,
  `PatchesImplementLifecycle`, `PatchesNothingLost`.  The inductive invariant
  `PatchesInv` is `TypeOK` and three parts: `RowsSound` ties the state of a row to the
  history of its claim, its verdict to its files and its running call to the plan it was
  claimed with and the files it has written, `TokensSound` the tokens to what they were
  granted and used for, `ClaimsSound` each claim to the token that let it through.  None of the properties is inductive
  alone: a late `ApplyFinish`, for instance, keeps the outcome truthful only because
  the running call's `ok` and `next` say which writes have landed.  The refinement is
  proved patch by patch: `LifeStep(p)` lists what a step may do to patch `p` in the terms
  of `DraftLifecycle`, and each action is shown to be such a step for every patch, the
  ones it merely sweeps included.  `NothingLost` needs `WindowInv` besides: a draft names
  no file twice (`OncePerFile`, which staging keeps because it first drops the entry of
  the same path), and whatever an apply has still to write is as it was reviewed or
  was changed by somebody else since the claim (`Ahead`).
* `AgentJobsProofs`: `JobsRestartsOnceAlone`, `JobsStepsInOrder`, `JobsClosedForGood`.
  `JobsInv` says of each record that its checks and its status agree with its plan and
  with the restart it has had (`Sound`, `RestartSound`), of a running call that its lease is
  no newer than the record and, while it owns the record, its run is of the check that is
  due (`CallSound`); that a job in which a restart is under way has no other one, now or
  later, unless that one was blocked (`ActionSound`); and of a client that it has every
  result up to the revision it was sent (`ViewSound`).
* `ChangeSetsProofs`: `ChangesClaimedAsConfirmed`, `ChangesTextRestored`,
  `ChangesRollbackRestores`, `ChangesServedWhole`, `ChangesOverwriteOnlyInWindow`,
  `ChangesLiveAsPromised`.  `ChangesInv` ties for each set the stage of the apply to what
  has been written, loaded and put back (`ProgressSound`, `ApplySound`), the stored row
  to both (`RecordSound`), and the claim to the token (`ClaimSound`, `TokensSound`).
  `ChangesTextRestored` is the general result: every file whose original is text comes
  back.  `ChangesRollbackRestores` and `ChangesServedWhole` need that no content is binary
  (`Binary = {}`), as they must: the run `changes_binary` refutes the first without it.
  The other theorems of the module do not.  `DraftLifecycle` is refined as by the patches.
* `FilesProofs`: `FilesNeverTorn`, `FilesNoBlindLoss`, `FilesAckDurable` of `AtomicFiles`,
  `StorePagingComplete` of `OperationStore`.  `FilesInv` says what a name may lead to, live
  and on disk (`FileSound`), what a call knows of it at each of its stages (`CallSound`), and
  what its removal took away (`DeedSound`).  `StoreInv` says that
  a reader has been given, up to its cursor, exactly the rows that have stayed as they were
  since it began (`ReaderSound`); the lemmas `PageTakesFirst` and `CursorIsLast` are the facts
  about pages it needs.
* `AgentsProofs`: `NotesLostOnlyToOldCopy` and `NotesOneHolder` of `AgentSessions`,
  `TasksOneWorker` of `AgentTasks`, `FeedCursorSkipsNothing` of `EventFeed`, `BackupsKept` of
  `Backups`.  `SessionsInv` says what a file may hold and what a call that loaded it may save;
  `TasksInv` adds that dependencies were drawn before the tasks that need them and work
  starts after them (`Ordered`), and that who was told it leases a task is the one the queue
  names, for at least as long (`Leading`).  `FeedInv` adds to the property that any set of
  events of the log has a first and a last one (`HaveEnds`, kept event by event, in the place
  of an induction over finite sets);
  `BackupsInv` ties an archive to the processes that write it and a report to its archive.
  `ActionsProtectedSpared` of `HostActions` (`SpareInv`: what is about to be signalled was
  looked at and is not protected, and the signal goes to that process or to none) and
  `ActionsAuditIsTruthful` (`AuditInv`: the verdict a call carries agrees with the stages
  it has been through, and the event it will be told of is in the file that took it).
* `MissionsProofs`: `MissionsLinkAgrees`, `MissionsBriefHonest`, `MissionsDoneWasApplied`,
  `MissionsAppliedOnce`, `MissionsChecksCover`.  `MissionsInv` says of a review that it is of
  its workspace and, once its apply has begun, that this is on record with the test its
  mission needs (`ReviewSound`); that what was claimed or withdrawn cannot be claimed, since
  it is gone for good or its state or its mission's forbids it (`SpaceSound`); of a mission
  that its review is its own and its assignee's, and gone only when the mission is over or
  due, and that no report took effect at the present revision (`LinkSound`, `acked < rev`);
  of a copy that it is never ahead (`CopySound`); and what a test or an apply under way
  relies on (`BusySound`).  `AppliedOnce`, for instance, is not to be had without `SpaceSound`:
  a pruned review could be imported again if its workspace were not stale by then.  An
  operation of `Missions` is made of a refresh, a change of one mission and writes of
  several files of which the last may be missing; so the proof goes by contracts of such
  parts (`Onward`, `TaskMoves`, `CopyMoves`), the lemma `Stays` that a step which keeps to
  them keeps the invariant, and a lemma per action that it does.
* `OperatorProofs`:
  `DeployDeployedOnce` and `DeployResultIsTrue` of `ConfigDeploy`.  A plan is looked up, its
  token spent and the plan taken in three critical sections; `CallsSound` says what a call
  may rely on between them, `ResultsSound` what each stage of a deployment has found.
  `PanelShownIsCurrent` of `Panel`: `PanelInv` says that what is shown, queued or on its way
  is of this connection and no newer than the server, and nothing is on its way that is
  older than what is shown.
  `ReportsDriftIsTrue` and `ReportsHealthyIsHonest` of `HostReports`: `ReportsInv` says that
  snapshots, caches and reports hold replies a collector gives to the state the area was
  in then.
  `AccessSavesWhatWasSeen`, `AccessRevokedStaysOut` and `AccessRootsAreCapped` of
  `AccessControl`: `EnrollmentSound` says that a helper in the middle of an enrollment has
  the lock, the parts it made, and room for one more policy, so that the count survives
  a failure at any step; `GrantsSound` that a revoked agent is disabled and its calls got
  nothing.  `AccessRootsAreCapped` rests on the lemma `IntersectionCovers` about prefixes
  of paths, which holds for lists of any length and paths of any depth.

The assumptions are those the modules name (`GateAssumption`, `PatchesAssumption`,
`JobsAssumption`, `ChangesAssumption`, `FilesAssumption`, `StoreAssumption`,
`SessionsAssumption`, `TasksAssumption`, `FeedAssumption`, `BackupsAssumption`,
`ActionsAssumption`, `DeployAssumption`, `PanelAssumption`, `ReportsAssumption`,
`AccessAssumption`, `MissionsAssumption`): the constants are sets and numbers of the right kind, and the values
that stand for nobody or nothing are not members.  None bounds a set or a limit.

`Grants` does not say which demand a token was redeemed *for*; that it is the one it
was issued for is `ApprovalIsExact`, proved separately.

Only proved, and in no run: the type invariants of `SafetyGate` and `ProjectPatches`,
`NoSharedApproval`, `PendingBounded`, `NeverReplayed`, `OneHolderWithoutRace`,
`ClaimedAsConfirmed`, `TextRestored`, and `OverwriteOnlyInWindow` of `ChangeSets`.

Only model-checked: liveness under fairness, which is out of the prover's reach
(`LeaseResolves`, `RequestEnds`, and the second half of `LifecycleResolves`, whose first half
is `ChangesLiveAsPromised`); and `ForgetsOnlyExcess` of
`OperationStore`: what its commit trims is a fold over the rows, and a statement about a
fold over any set needs induction over data.

## 5. What comes next

1. An abstract `ReviewLifecycle` (pending, approved, applying, completed or uncertain;
   applied at most once) that `Missions` implements; `MissionsInv` has what the refinement
   needs.
2. The composition of `AccessControl` with `Missions`, which so far takes the identity
   of an agent and its replacement as an environment.

## 6. Not modelled, and why

* Diagnostics no report reads (`code_navigator.py`, `proc_deep.py`, `net_diag.py`,
  `web.py`, `storage.py`, `topology.py`, `environment_doctor.py` and others): they run a
  command or walk a tree, format what they find and keep nothing, so there is no second
  step to disagree with.  The registrations of the tool server pass arguments on; its
  check before each call is in `AccessControl`.
* Previews, briefs, summaries and metrics, which only read.
* The HTTP layer of the panel (nonces, fields, assets) and its browser code.
* How limits are derived from the load (`resource_policy.py`): arithmetic without state.
  The budget is an environment of `AgentJobs`.
* Key material, directory ownership and the texts of forced commands of the gateway.
* Path rules, redaction, diffs, digests, sizes and messages are data: a digest is
  the value it binds, a path a model value, a size a class where a limit depends on it.
* Containers, `systemctl`, `nginx` and the file system's own errors are
  nondeterministic results.
* Draft workspaces before submission belong to one agent under one lock and are
  visible to no one else; `Submit` stands for their whole life.
