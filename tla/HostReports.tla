------------------------------ MODULE HostReports ------------------------------
(***************************************************************************)
(* What agents are told about the host: the collectors (src/network.py,    *)
(* scheduler.py, monitor.py, docker_manager.py, crash.py, database.py,     *)
(* security.py), snapshots and their comparison (src/snapshot.py), the     *)
(* incident report (src/incident.py) and the cached update checks          *)
(* (src/updates.py).                                                       *)
(*                                                                         *)
(* The host keeps items in areas; a collector reads one area while others  *)
(* change, and a snapshot or report calls one collector after another.     *)
(* The point of a collector is what is left of its area when a command, a  *)
(* file or a library fails: everything, a part, or nothing, and whether    *)
(* its reply says so.                                                      *)
(***************************************************************************)
EXTENDS Naturals, Sequences, FiniteSets

CONSTANTS
    Areas,          \* the areas a snapshot holds, of those in use
    Sections,       \* the sections of an incident report, of those in use
    Items,          \* keys of items
    SnapshotIds,    \* random; none is drawn twice
    MaxHostChanges, \* bound on the changes of the host
    CacheTtl,       \* CACHE_TTL_SECONDS, in ticks
    LastTime        \* bound on the clock

AllAreas == <<"failed_units", "open_ports", "cron_jobs", "systemd_timers", "docker_containers",
              "config_files">>
AllSections == <<"system_health", "failed_units", "docker_containers", "oom_events",
                 "kernel_errors", "databases", "system_updates", "ssh_security">>

ASSUME ReportsAssumption ==
    /\ Areas \subseteq {AllAreas[i] : i \in DOMAIN AllAreas}
    /\ Sections \subseteq {AllSections[i] : i \in DOMAIN AllSections}
    /\ {MaxHostChanges, CacheTtl, LastTime} \subseteq Nat

VARIABLES
    host,       \* host[a][k]: item k of area a: absent, as usual, or odd
    changes,     \* changes of the host so far
    snapshot,   \* snapshot[n]: what snapshot n holds and how far it is
    stored,     \* stored[d][n]: the file of snapshot n in directory d
    report,     \* the incident report under way or last made
    cache,      \* cache[c]: the last answer of update check c, and when
    time,       \* the wall clock
    back        \* history: the clock was set back

reportVars == <<host, changes, snapshot, stored, report, cache, time, back>>

NotThere == 0
Usual == 1
Odd == 2            \* unhealthy, at 80% or more, a storage error, a weak setting

Checks == {"system_updates", "guardian_updates"}
HostAreas == Areas \cup Sections \cup Checks
Empty == [k \in Items |-> NotThere]

Order == SelectSeq(AllAreas, LAMBDA a : a \in Areas)
Agenda == SelectSeq(AllSections, LAMBDA a : a \in Sections)

NotTaken == [stage |-> 0]
NoAnswer == [items |-> Empty, truth |-> Empty, at |-> 0, lost |-> FALSE]
NoCache == [at |-> 0, answer |-> NoAnswer]

InitReports ==
    /\ host = [a \in HostAreas |-> Empty]
    /\ changes = 0
    /\ snapshot = [n \in SnapshotIds |-> NotTaken]
    /\ stored = [d \in {"configured", "fallback"} |-> [n \in SnapshotIds |-> "none"]]
    /\ report = NotTaken
    /\ cache = [c \in Checks |-> NoCache]
    /\ time = 1
    /\ back = FALSE

-----------------------------------------------------------------------------
(* Collectors: the replies to an area with items h                         *)

Says(items) == [items |-> items, error |-> FALSE]
\* Mutant: a collector that fails does not say so.
FailsQuietly == [items |-> Empty, error |-> FALSE]

Fails == [items |-> Empty, error |-> TRUE]

Parts(h) == {Says([k \in Items |-> IF k \in K THEN h[k] ELSE NotThere]) : K \in SUBSET Items}

\* psutil may raise in the middle of its list, and `ss` stands in for an empty
\* one only; either failure is logged and the reply is ok.
OpenPorts(h) == Parts(h)

\* A crontab that cannot be read is logged and passed over.
CronJobs(h) == Parts(h)

\* Without the expected header, as in another language, the reply has the raw
\* lines instead of timers.
SystemdTimers(h) == {Says(h), Says(Empty), Fails}

FailedUnits(h) == {Says(h), Fails}

DockerContainers(h) == {Says(h), Fails}

\* Links are left out, big and unreadable files skipped, and the walk ends at
\* MAX_CONFIG_FILES; the manifest says so, the comparison does not look.
ConfigManifest(h, hashes) == IF hashes THEN Parts(h) ELSE {Says(Empty)}

\* A metric that cannot be read has a status of its own; the reply is ok.
SystemHealth(h) == Parts(h)

\* journalctl, or else dmesg; without either nothing happened.
OomEvents(h) == {Says(h), Says(Empty)}

\* The newest lines only.
KernelErrors(h) == Parts(h)

\* An engine whose probe raises, or with neither process, socket nor port, is
\* not there.
DatabaseHealth(h) == Parts(h)

SshConfig(h) == {Says(h), Fails}

Replies(a, h, hashes) ==
    CASE a = "open_ports" -> OpenPorts(h)
      [] a = "cron_jobs" -> CronJobs(h)
      [] a = "systemd_timers" -> SystemdTimers(h)
      [] a = "failed_units" -> FailedUnits(h)
      [] a = "docker_containers" -> DockerContainers(h)
      [] a = "config_files" -> ConfigManifest(h, hashes)
      [] a = "system_health" -> SystemHealth(h)
      [] a = "oom_events" -> OomEvents(h)
      [] a = "kernel_errors" -> KernelErrors(h)
      [] a = "databases" -> DatabaseHealth(h)
      [] OTHER -> SshConfig(h)

\* The areas and sections whose reply never hides a failure.
Frank == {"failed_units", "docker_containers", "ssh_security"}

-----------------------------------------------------------------------------
(* Snapshots                                                               *)

CreateSnapshot(n, hashes) ==
    /\ snapshot[n] = NotTaken
    /\ snapshot' = [snapshot EXCEPT ![n] =
           [stage |-> 1, hashes |-> hashes, seen |-> [a \in Areas |-> Empty], errors |-> {},
            was |-> [a \in Areas |-> Empty], saved |-> FALSE]]
    /\ UNCHANGED <<host, changes, stored, report, cache, time, back>>

CollectArea(n) ==
    LET s == snapshot[n]
        a == Order[s.stage]
    IN
    /\ s # NotTaken
    /\ s.stage \in DOMAIN Order
    /\ \E r \in Replies(a, host[a], s.hashes) :
          snapshot' = [snapshot EXCEPT ![n].stage = @ + 1, ![n].seen[a] = r.items,
                          ![n].errors = IF r.error THEN @ \cup {a} ELSE @,
                          ![n].was[a] = host[a]]
    /\ UNCHANGED <<host, changes, stored, report, cache, time, back>>

\* A new file in the configured directory, or else in the fallback; a write
\* that fails leaves the file it opened.
WriteSnapshot(n) ==
    /\ snapshot[n] # NotTaken
    /\ snapshot[n].stage = Len(Order) + 1
    /\ \E first, second \in {"none", "partial", "whole"} :
        /\ first = "whole" => second = "none"
        /\ stored' = [stored EXCEPT !["configured"][n] = first, !["fallback"][n] = second]
        /\ snapshot' = [snapshot EXCEPT ![n].stage = @ + 1, ![n].saved = "whole" \in {first, second}]
    /\ UNCHANGED <<host, changes, report, cache, time, back>>

\* _load_snapshot reads the first file of that name.
Loads(n) ==
    \/ stored["configured"][n] = "whole"
    \/ stored["configured"][n] = "none" /\ stored["fallback"][n] = "whole"

\* The areas whose items are compared by more than their keys.
Valued == {"cron_jobs", "docker_containers", "config_files"}

\* compare_system_snapshots: items of c that b lacks, the reverse, and changes.
Drift(b, c) ==
    LET old == snapshot[b].seen  new == snapshot[c].seen IN
    {d \in [area : Areas, item : Items, change : {"added", "removed", "changed"}] :
        LET before == old[d.area][d.item]  after == new[d.area][d.item] IN
        \/ d.change = "added" /\ before = NotThere /\ after # NotThere
        \/ d.change = "removed" /\ before # NotThere /\ after = NotThere
        \/ /\ d.change = "changed" /\ d.area \in Valued
           /\ NotThere \notin {before, after}
           /\ before # after}

-----------------------------------------------------------------------------
(* Update checks                                                           *)

\* The command, or GitHub, may not answer: then no update is known, and this
\* is cached like any other answer.  A scan ends in the tick it began in: the
\* code dates an answer from the end of its scan.
Scans(c) ==
    {[items |-> host[c], truth |-> host[c], at |-> time, lost |-> FALSE],
     [items |-> Empty, truth |-> host[c], at |-> time, lost |-> TRUE]}

\* An answer is repeated while it is younger than CACHE_TTL_SECONDS.
Fresh(c) == cache[c] # NoCache /\ time < cache[c].at + CacheTtl

\* Check c answers s; the two checks differ in the commands they run.
Answers(c, force, s) ==
    IF Fresh(c) /\ ~force
    THEN s = cache[c].answer /\ UNCHANGED cache
    ELSE s \in Scans(c) /\ cache' = [cache EXCEPT ![c] = [at |-> time, answer |-> s]]

AnyAnswer(c) == Scans(c) \cup {cache[c].answer}

CheckSystemUpdates(force) ==
    /\ \E s \in AnyAnswer("system_updates") : Answers("system_updates", force, s)
    /\ UNCHANGED <<host, changes, snapshot, stored, report, time, back>>

CheckGuardianUpdates(force) ==
    /\ \E s \in AnyAnswer("guardian_updates") : Answers("guardian_updates", force, s)
    /\ UNCHANGED <<host, changes, snapshot, stored, report, time, back>>

-----------------------------------------------------------------------------
(* The incident report                                                     *)

\* Replies with items that are findings, of whatever severity but "info".
Troubled(section, items) ==
    \E k \in Items :
        IF section \in {"failed_units", "oom_events", "system_updates"}
        THEN items[k] # NotThere ELSE items[k] = Odd

StartReport ==
    /\ report = NotTaken
    /\ report' = [stage |-> 1, troubled |-> {}, unavailable |-> {}, was |-> {}]
    /\ UNCHANGED <<host, changes, snapshot, stored, cache, time, back>>

\* Mutant: the sections that failed are not listed.
AddSectionGood(a, reply) ==
    report' = [report EXCEPT !.stage = @ + 1,
                  !.troubled = IF Troubled(a, reply.items) THEN @ \cup {a} ELSE @,
                  !.was = IF Troubled(a, host[a]) THEN @ \cup {a} ELSE @]

\* A section adds its findings, or is listed as unavailable.
AddSection(a, reply) ==
    report' = [report EXCEPT !.stage = @ + 1,
                  !.troubled = IF Troubled(a, reply.items) THEN @ \cup {a} ELSE @,
                  !.unavailable = IF reply.error THEN @ \cup {a} ELSE @,
                  !.was = IF Troubled(a, host[a]) THEN @ \cup {a} ELSE @]

\* The section on updates asks the cached check.
CollectSection ==
    /\ report # NotTaken
    /\ report.stage \in DOMAIN Agenda
    /\ LET a == Agenda[report.stage] IN
       IF a = "system_updates"
       THEN \E s \in AnyAnswer(a) : Answers(a, FALSE, s) /\ AddSection(a, Says(s.items))
       ELSE \E r \in Replies(a, host[a], FALSE) : AddSection(a, r) /\ UNCHANGED cache
    /\ UNCHANGED <<host, changes, snapshot, stored, time, back>>

Reported == report.stage = Len(Agenda) + 1

Severity == IF report.troubled # {} THEN "trouble" ELSE "healthy"

-----------------------------------------------------------------------------

HostChanges(a, k, state) ==
    /\ changes < MaxHostChanges
    /\ host[a][k] # state
    /\ changes' = changes + 1
    /\ host' = [host EXCEPT ![a][k] = state]
    /\ UNCHANGED <<snapshot, stored, report, cache, time, back>>

TimePasses ==
    /\ time < LastTime
    /\ time' = time + 1
    /\ UNCHANGED <<host, changes, snapshot, stored, report, cache, back>>

TimeSetBack ==
    /\ ~back /\ time > 1
    /\ time' \in 1..(time - 1)
    /\ back' = TRUE
    /\ UNCHANGED <<host, changes, snapshot, stored, report, cache>>

NextReports ==
    \/ TimePasses \/ TimeSetBack \/ StartReport \/ CollectSection
    \/ \E force \in BOOLEAN : CheckSystemUpdates(force) \/ CheckGuardianUpdates(force)
    \/ \E a \in HostAreas, k \in Items, state \in {NotThere, Usual, Odd} : HostChanges(a, k, state)
    \/ \E n \in SnapshotIds :
        \/ CollectArea(n) \/ WriteSnapshot(n)
        \/ \E hashes \in BOOLEAN : CreateSnapshot(n, hashes)

SpecReports == InitReports /\ [][NextReports]_reportVars

-----------------------------------------------------------------------------
(* Properties                                                              *)

\* What a comparison says of the host was so when the snapshots were taken: an
\* item is never there that was not, and for areas whose collector admits its
\* failures and that are not listed under collection errors nothing is missing
\* and nothing that differs is left out, keys only where keys are compared.
DriftIsTrue ==
    \A b, c \in SnapshotIds : snapshot[b] # NotTaken /\ snapshot[c] # NotTaken /\ Loads(b) /\ Loads(c) =>
        LET old == snapshot[b].was  new == snapshot[c].was
            failed == snapshot[b].errors \cup snapshot[c].errors
        IN
        /\ \A d \in Drift(b, c) :
              /\ d.change # "added" => old[d.area][d.item] # NotThere
              /\ d.change # "removed" => new[d.area][d.item] # NotThere
              /\ d.area \in Frank \ failed => old[d.area][d.item] # new[d.area][d.item]
        /\ \A a \in (Areas \cap Frank) \ failed, k \in Items :
              \/ old[a][k] = new[a][k]
              \/ a \notin Valued /\ NotThere \notin {old[a][k], new[a][k]}
              \/ \E d \in Drift(b, c) : d.area = a /\ d.item = k

\* An answer an update check would repeat now comes from a scan that ended less
\* than CACHE_TTL_SECONDS ago, and it was so unless a command had failed; only a
\* clock that was set back keeps it longer.
AnswersAreRecent ==
    \A c \in Checks : Fresh(c) =>
        LET s == cache[c].answer IN
        /\ s.items = s.truth \/ s.lost
        /\ back \/ time < s.at + CacheTtl

\* "healthy" is said only if every section that admits its failures was without
\* trouble when it was looked at, or is listed as unavailable; and the updates
\* it counts come from a recent answer.
HealthyIsHonest ==
    /\ AnswersAreRecent
    /\ report # NotTaken /\ Reported /\ Severity = "healthy" =>
        report.was \cap Frank \subseteq report.unavailable
=============================================================================
