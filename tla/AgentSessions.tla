---------------------------- MODULE AgentSessions ----------------------------
(***************************************************************************)
(* The notes agents share: sessions, workload locks and event watches      *)
(* (src/agent_runtime.py), maintenance windows, resource watches, runbooks *)
(* and checkpoints (src/operations.py).  Each kind is one JSON file that   *)
(* every process loads, changes and saves as a whole.  No lock is taken,   *)
(* so another process may save between the load and the save of a call,    *)
(* and what it saved is then replaced.                                     *)
(*                                                                         *)
(* A save is one step (atomic_replace, module AtomicFiles).  A call that   *)
(* refuses its arguments or finds nothing changes nothing and is left out. *)
(***************************************************************************)
EXTENDS Naturals, FiniteSets

CONSTANTS
    Procs,          \* processes, each with one call under way
    Keys,           \* random identifiers; none is drawn twice
    Targets,        \* workloads a lock can name
    RunSteps,       \* the steps of a runbook template
    MaxRecords,     \* MAX_WINDOWS, MAX_WATCHES, MAX_RUNBOOKS, MAX_CHECKPOINTS
    MaxFindings,    \* findings a session keeps
    Ttl,            \* life of a record in ticks
    MaxTime         \* bound on the clock

ASSUME SessionsAssumption ==
    {MaxRecords, MaxFindings, Ttl, MaxTime} \subseteq Nat \ {0}

VARIABLES
    file,       \* file[f]: the records of file f by key
    call,       \* call[p]: the copy process p works on
    now,        \* the wall clock
    used,       \* the identifiers drawn so far
    told,       \* history: told[t][s]: until when session s was told it holds t
    stale,      \* history: the files saved from a copy that was not their content
    faults      \* history: "read" after a read that failed, "clock" after a step back

sessionVars == <<file, call, now, used, told, stale, faults>>

Trimmed == {"windows", "alerts", "runbooks", "checkpoints"}
Files == Trimmed \cup {"sessions", "locks", "watches"}

Nothing == [k \in {} |-> k]
Idle == [step |-> "idle"]

InitSessions ==
    /\ file = [f \in Files |-> Nothing]
    /\ call = [p \in Procs |-> Idle]
    /\ now = 1
    /\ used = {}
    /\ told = [t \in Targets |-> [s \in Keys |-> 0]]
    /\ stale = {}
    /\ faults = {}

-----------------------------------------------------------------------------
(* Records                                                                 *)

New == [status |-> "active", made |-> now, ends |-> now + Ttl]
NewSession == [status |-> "active", made |-> now, ends |-> now + Ttl,
               findings |-> 0, handoff |-> FALSE]
NewRunbook == [status |-> "active", made |-> now, open |-> RunSteps]

Active(r) == r.ends > now

With(c, k, r) == [i \in DOMAIN c \cup {k} |-> IF i = k THEN r ELSE c[i]]
Without(c, gone) == [i \in DOMAIN c \ gone |-> c[i]]

\* The copies that keep the newest records; records of one instant are alike.
Trim(c) ==
    IF Cardinality(DOMAIN c) <= MaxRecords THEN {c}
    ELSE {Without(c, {k}) : k \in {i \in DOMAIN c : \A j \in DOMAIN c : c[i].made <= c[j].made}}

\* Mutant: closed records are marked as well.
ExpiredClosed(c) == {k \in DOMAIN c : ~Active(c[k])}

\* Active records past their end are marked, whenever the file is listed.
Expired(c) == {k \in DOMAIN c : c[k].status = "active" /\ ~Active(c[k])}
Marked(c) == [k \in DOMAIN c |-> IF k \in Expired(c) THEN [c[k] EXCEPT !.status = "expired"]
                                 ELSE c[k]]

SessionActive(s) ==
    /\ s \in DOMAIN file["sessions"]
    /\ file["sessions"][s].status = "active"
    /\ Active(file["sessions"][s])

-----------------------------------------------------------------------------
(* Load, change, save                                                      *)

At(p, step) == call[p].step = step

\* What a load returns: the content, or nothing at all when the read fails.
Reads(f) == {file[f]} \cup IF "read" \in faults THEN {} ELSE {Nothing}

\* Process p loads f and works out one of the contents results[copy].
Rewrite(p, f, results, then) ==
    \E copy \in Reads(f) : \E next \in results[copy] :
        /\ call' = [call EXCEPT ![p] = [step |-> "save", file |-> f, copy |-> copy,
                                        next |-> next, then |-> then]]
        /\ faults' = IF copy = file[f] THEN faults ELSE faults \cup {"read"}
        /\ UNCHANGED <<file, now, told, stale>>

\* Record k, as the loads of f find it, and the copies in which it becomes
\* to[record]; other records than those in the domain of `to` refuse the call.
Found(f, k) == {c[k] : c \in {d \in Reads(f) : k \in DOMAIN d}}
Edited(f, k, to) ==
    [c \in Reads(f) |-> IF k \in DOMAIN c /\ c[k] \in DOMAIN to THEN {With(c, k, to[c[k]])} ELSE {}]

Change(p, f, k, to) == At(p, "idle") /\ Rewrite(p, f, Edited(f, k, to), Idle) /\ UNCHANGED used

Create(p, f, k, r) ==
    /\ At(p, "idle")
    /\ k \notin used
    /\ used' = used \cup {k}
    /\ Rewrite(p, f, [c \in Reads(f) |-> IF f \in Trimmed THEN Trim(With(c, k, r)) ELSE {With(c, k, r)}],
               Idle)

List(p, f) ==
    /\ At(p, "idle")
    /\ Rewrite(p, f, [c \in Reads(f) |-> IF Expired(c) = {} THEN {} ELSE {Marked(c)}], Idle)
    /\ UNCHANGED used

\* The session that saved a lock is told it holds the workload until its end.
Save(p) ==
    LET c == call[p] IN
    /\ At(p, "save")
    /\ file' = [file EXCEPT ![c.file] = c.next]
    /\ stale' = IF c.copy = file[c.file] THEN stale ELSE stale \cup {c.file}
    /\ call' = [call EXCEPT ![p] = IF c.then.step = "handoff" THEN c.then ELSE Idle]
    /\ told' = IF c.then.step = "lock"
               THEN [told EXCEPT ![c.then.target][c.then.session] = c.next[c.then.target].ends]
               ELSE told
    /\ UNCHANGED <<now, used, faults>>

\* The file would exceed the 2 MiB atomic_replace accepts, the disk fails or
\* the process dies.
Abandon(p) ==
    /\ ~At(p, "idle")
    /\ call' = [call EXCEPT ![p] = Idle]
    /\ UNCHANGED <<file, now, used, told, stale, faults>>

-----------------------------------------------------------------------------
(* Sessions                                                                *)

Writable(r) == r.status = "active" /\ Active(r)
Noted(r) == [r EXCEPT !.findings = IF @ < MaxFindings THEN @ + 1 ELSE @]
Closed(r) == [r EXCEPT !.status = "closed"]

StartSession(p, k) == Create(p, "sessions", k, NewSession)
ListSessions(p) == List(p, "sessions")
Noting(k) == [r \in {x \in Found("sessions", k) : Writable(x)} |-> Noted(r)]
Closing(f, k) == [r \in Found(f, k) |-> Closed(r)]

RecordFinding(p, k) == Change(p, "sessions", k, Noting(k))
CloseSession(p, k) == Change(p, "sessions", k, Closing("sessions", k))

\* A handoff records its summary as a finding first ...
Handoff(p, k) ==
    /\ At(p, "idle")
    /\ Rewrite(p, "sessions", Edited("sessions", k, Noting(k)), [step |-> "handoff", session |-> k])
    /\ UNCHANGED used

\* ... then loads the file again and names the next agent, whatever the status.
HandoffNames(p) ==
    /\ At(p, "handoff")
    /\ LET k == call[p].session
           naming == [r \in Found("sessions", k) |-> [r EXCEPT !.handoff = TRUE]]
       IN Rewrite(p, "sessions", Edited("sessions", k, naming), Idle)
    /\ UNCHANGED used

-----------------------------------------------------------------------------
(* Workload locks and event watches                                        *)

LockWorkload(p, s, t) ==
    /\ At(p, "idle")
    /\ SessionActive(s)
    /\ call' = [call EXCEPT ![p] = [step |-> "lock", session |-> s, target |-> t]]
    /\ UNCHANGED <<file, now, used, told, stale, faults>>

\* Expired locks are dropped; a lock of another session refuses the call.
LockLoad(p) ==
    /\ At(p, "lock")
    /\ LET s == call[p].session
           t == call[p].target
           Granted(c) ==
               LET live == Without(c, {k \in DOMAIN c : ~Active(c[k])}) IN
               IF t \in DOMAIN live /\ live[t].session # s THEN {}
               ELSE {With(live, t, [session |-> s, status |-> "active", made |-> now,
                                    ends |-> now + Ttl])}
       IN Rewrite(p, "locks", [c \in Reads("locks") |-> Granted(c)], call[p])
    /\ UNCHANGED used

\* A session may be named and must then exist; a watch without one is alike.
OpenEventWatch(p, k) == Create(p, "watches", k, New)

-----------------------------------------------------------------------------
(* Maintenance windows, resource watches, runbooks, checkpoints            *)

CreateWindow(p, k) == Create(p, "windows", k, New)
ListWindows(p) == List(p, "windows")
CloseWindow(p, k) == Change(p, "windows", k, Closing("windows", k))

WatchThreshold(p, k) == Create(p, "alerts", k, New)
GetAlerts(p) == List(p, "alerts")

StartRunbook(p, k) == Create(p, "runbooks", k, NewRunbook)

Open(r) == r.status = "active"

\* A blocked step is open again; the last closed step completes the runbook.
Stepped(r, i, status) ==
    LET open == IF status = "blocked" THEN r.open \cup {i} ELSE r.open \ {i} IN
    [r EXCEPT !.open = open, !.status = IF open = {} THEN "completed" ELSE @]

UpdateRunbookStep(p, k, i, status) ==
    Change(p, "runbooks", k,
           [r \in {x \in Found("runbooks", k) : Open(x)} |-> Stepped(r, i, status)])

CreateCheckpoint(p, k) == Create(p, "checkpoints", k, New)
CloseCheckpoint(p, k) == Change(p, "checkpoints", k, Closing("checkpoints", k))

-----------------------------------------------------------------------------

Tick ==
    /\ now < MaxTime
    /\ now' = now + 1
    /\ UNCHANGED <<file, call, used, told, stale, faults>>

\* The wall clock is corrected, once.
SetBack ==
    /\ "clock" \notin faults
    /\ now' \in 0..(now - 1)
    /\ faults' = faults \cup {"clock"}
    /\ UNCHANGED <<file, call, used, told, stale>>

Step(p) ==
    \/ Save(p) \/ Abandon(p) \/ HandoffNames(p) \/ LockLoad(p)
    \/ ListSessions(p) \/ ListWindows(p) \/ GetAlerts(p)
    \/ \E k \in Keys :
        \/ StartSession(p, k) \/ RecordFinding(p, k) \/ Handoff(p, k) \/ CloseSession(p, k)
        \/ OpenEventWatch(p, k) \/ CreateWindow(p, k) \/ CloseWindow(p, k)
        \/ WatchThreshold(p, k) \/ StartRunbook(p, k)
        \/ CreateCheckpoint(p, k) \/ CloseCheckpoint(p, k)
        \/ \E t \in Targets : LockWorkload(p, k, t)
        \/ \E i \in RunSteps : \E x \in {"completed", "skipped", "blocked"} :
               UpdateRunbookStep(p, k, i, x)

NextSessions == Tick \/ SetBack \/ \E p \in Procs : Step(p)

SpecSessions == InitSessions /\ [][NextSessions]_sessionVars

-----------------------------------------------------------------------------
(* Properties                                                              *)

\* The end of r has passed, by this clock or by one that was set back since.
Past(r) == ~Active(r) \/ "clock" \in faults

\* What a save may do to record r, which becomes q.
Grows(r, q) ==
    /\ r.status # "active" => q.status \in {r.status, "closed"}
    /\ "findings" \in DOMAIN r => q.findings >= r.findings /\ (r.handoff => q.handoff)
    /\ "session" \in DOMAIN r => q.session = r.session \/ Past(r)

\* A record may go to make room for a newer one, or as a lock past its end.
Droppable(f, k) ==
    \/ f \in Trimmed /\ \A i \in DOMAIN file'[f] : file[f][k].made <= file'[f][i].made
    \/ f = "locks" /\ Past(file[f][k])

OldSave(f) ==
    \E p \in Procs : At(p, "save") /\ call[p].file = f /\ call[p].copy # file[f]

\* A finding, a handoff, a closing or a record, once saved, is only undone by
\* a call that saved a copy it had loaded before, or by one whose load failed:
\* each handler by itself keeps what it found (_load and _save of both files).
LostOnlyToOldCopy ==
    [][\A f \in Files : file'[f] = file[f] \/ OldSave(f) \/
          \A k \in DOMAIN file[f] :
             IF k \in DOMAIN file'[f] THEN Grows(file[f][k], file'[f][k]) ELSE Droppable(f, k)]_sessionVars

Holders(t) == {s \in Keys : told[t][s] > now}

\* lock_workload reserves "so concurrent agents do not make conflicting
\* changes": two sessions never believe they hold one workload, unless the
\* locks were saved from an old copy or the clock was set back.
OneHolderWithoutRace ==
    "locks" \in stale \/ "clock" \in faults \/ \A t \in Targets : Cardinality(Holders(t)) <= 1
=============================================================================
