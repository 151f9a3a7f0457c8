----------------------------- MODULE HostActions -----------------------------
(***************************************************************************)
(* The one-shot changes of the host and their audit record: the actions of *)
(* src/recover.py (a restart is modelled in AgentJobs), docker and compose *)
(* actions (src/docker_manager.py, src/compose.py), file writes and modes  *)
(* (src/files.py), and record_audit_event of src/safety.py.                *)
(*                                                                         *)
(* A call that passed the gate (module SafetyGate) goes through the stages *)
(* of its kind.  Each is a command or an API call that may fail, or raise  *)
(* - time out - with or without its effect; then the result is appended to *)
(* the audit log, which several processes share.                           *)
(***************************************************************************)
EXTENDS Naturals, Sequences, FiniteSets

CONSTANTS
    Actors,         \* processes, each with one call under way
    Kinds,          \* the kinds of action in use
    Pids,
    Processes,      \* processes that ever run; a pid is reused
    Protected,      \* those named in PROTECTED_PROCESS_NAMES
    LogSize,        \* events an audit file holds before MAX_AUDIT_BYTES
    MaxCalls        \* bound on the calls

NoWriter == "nobody"
NoProcess == "none"
NotWritten == "unrecorded"
Logs == {"primary", "fallback"}

ASSUME ActionsAssumption ==
    /\ Protected \subseteq Processes
    /\ {LogSize, MaxCalls} \subseteq Nat
    /\ NoWriter \notin Actors

VARIABLES
    actor,      \* actor[c]: the call of process c
    done,       \* history: done[n]: what call n has done to the host
    process,    \* process[i]: the process with pid i, or NoProcess
    killed,     \* history: the processes that were sent a signal
    audit,        \* audit[f]: the events of each audit file
    writer,     \* writer[f]: the process that holds the lock of the file
    calls       \* calls begun so far; the last one's number

actionVars == <<actor, done, process, killed, audit, writer, calls>>

\* A stage: what it does, and what becomes of a failure and of an exception.
\* "stop": the call returns an error; "note": the result is partial; "verdict":
\* the result says so; "skip": nobody is told.
StageThat(does, fails, raises) == [does |-> does, fails |-> fails, raises |-> raises]
Must(does) == StageThat(does, "stop", "stop")
Collected(does) == StageThat(does, "note", "note")
Ignored(does) == StageThat(does, "skip", "skip")

CleanDockerCache ==
    <<Must("containers"), Must("networks"), Must("images"), Must("volumes"), Ignored("build cache")>>
CleanDockerGarbage ==
    <<Collected("containers"), Collected("images"), Collected("volumes"), Collected("networks")>>
DockerContainerAction == <<Must("container"), Must("reload")>>
ComposeProjectAction == <<Must("compose")>>
CleanSystemLogs == <<Ignored("journal"), Ignored("rotated")>>
VacuumSystemdJournal == <<StageThat("journal", "verdict", "stop")>>
CleanPackageCache ==
    <<StageThat("archives", "skip", "stop"), StageThat("autoremove", "skip", "stop")>>
ApplySecurityUpdates ==
    <<StageThat("index", "skip", "stop"), StageThat("upgrade", "verdict", "stop")>>
WriteFileContent == <<Must("recheck"), Must("content")>>
SetWebFileMode == <<Must("recheck"), Must("mode")>>
UpdateGuardian ==
    <<Must("origin"), StageThat("before", "skip", "stop"), Must("fetch"), Must("merge"),
      StageThat("after", "skip", "stop"), Must("package")>>

Stages ==
    [clean_docker_cache |-> CleanDockerCache, clean_docker_garbage |-> CleanDockerGarbage,
     docker_container_action |-> DockerContainerAction,
     compose_project_action |-> ComposeProjectAction,
     clean_system_logs |-> CleanSystemLogs, vacuum_systemd_journal |-> VacuumSystemdJournal,
     clean_package_cache |-> CleanPackageCache, apply_security_updates |-> ApplySecurityUpdates,
     write_file_content |-> WriteFileContent, set_web_file_mode |-> SetWebFileMode,
     update_guardian |-> UpdateGuardian]

Staged == DOMAIN Stages

InitActions ==
    /\ actor = [c \in Actors |-> [step |-> "idle"]]
    /\ done = [n \in 1..MaxCalls |-> {}]
    /\ process \in {f \in [Pids -> Processes \cup {NoProcess}] :
                       \A i, j \in Pids : f[i] = f[j] /\ f[i] # NoProcess => i = j}
    /\ killed = {}
    /\ audit = [f \in Logs |-> <<>>]
    /\ writer = [f \in Logs |-> NoWriter]
    /\ calls = 0

ActorAt(c, step) == actor[c].step = step
ActorTo(c, step) == actor' = [actor EXCEPT ![c].step = step]

\* The handler returns; its result is audited next.
Reports(c, success) == actor' = [actor EXCEPT ![c].step = "audit", ![c].success = success]

Effect(c, what) == done' = [done EXCEPT ![actor[c].number] = @ \cup {what}]

Begin(c, step, kind, wanted, pid) ==
    /\ ActorAt(c, "idle")
    /\ kind \in Kinds
    /\ calls < MaxCalls
    /\ calls' = calls + 1
    /\ actor' = [actor EXCEPT ![c] = [step |-> step, kind |-> kind, wanted |-> wanted, pid |-> pid,
               number |-> calls + 1, stage |-> 1, success |-> TRUE, seen |-> NoProcess, audit |-> NotWritten]]
    /\ UNCHANGED <<done, process, killed, audit, writer>>

-----------------------------------------------------------------------------
(* Actions in stages                                                       *)

\* clean_docker_garbage prunes one category, or all; update_guardian needs a pip.
Wanted(kind) ==
    LET all == {Stages[kind][i].does : i \in DOMAIN Stages[kind]} IN
    {all} \cup CASE kind = "clean_docker_garbage" -> {{x} : x \in all}
                 [] kind = "update_guardian" -> {all \ {"package"}}
                 [] OTHER -> {}

Act(c, kind) == \E wanted \in Wanted(kind) : Begin(c, "stage", kind, wanted, 0)

Unneeded(c) == Stages[actor[c].kind][actor[c].stage].does \notin actor[c].wanted

\* The next stage, or the end of the last one with the verdict reached so far.
Onward(c, success) ==
    LET w == actor[c] IN
    IF w.stage < Len(Stages[w.kind])
    THEN actor' = [actor EXCEPT ![c].stage = @ + 1, ![c].success = success]
    ELSE Reports(c, success)

DoStage(c) ==
    LET w == actor[c]
        stage == Stages[w.kind][w.stage]
    IN
    /\ ActorAt(c, "stage")
    /\ IF Unneeded(c) THEN Onward(c, w.success) /\ UNCHANGED done
       ELSE \/ Effect(c, stage.does) /\ Onward(c, w.success)
            \/ \E how \in {"fails", "raises"} :
                /\ Effect(c, stage.does) \/ UNCHANGED done
                /\ CASE stage[how] = "skip" -> Onward(c, w.success)
                     [] stage[how] = "stop" -> Reports(c, FALSE)
                     [] OTHER -> Onward(c, FALSE)
    /\ UNCHANGED <<process, killed, audit, writer, calls>>

-----------------------------------------------------------------------------
(* kill_process                                                            *)

KillProcess(c, i) == Begin(c, "find", "kill_process", {"signal"}, i)

\* The process is looked up by pid; a protected one is refused.
Find(c) ==
    LET i == actor[c].pid IN
    /\ ActorAt(c, "find")
    /\ IF process[i] \in Protected \cup {NoProcess}
       THEN Reports(c, FALSE)
       ELSE actor' = [actor EXCEPT ![c].step = "terminate", ![c].seen = process[i]]
    /\ UNCHANGED <<done, process, killed, audit, writer, calls>>

\* psutil signals the process it found, not another one with its pid.
Same(c) == process[actor[c].pid] = actor[c].seen

Signal(c) ==
    /\ Effect(c, "signal")
    /\ killed' = killed \cup {process[actor[c].pid]}

\* Mutant: the pid is signalled, whoever has it now.
TerminatePid(c) ==
    /\ ActorAt(c, "terminate")
    /\ IF process[actor[c].pid] # NoProcess
       THEN Signal(c) /\ ActorTo(c, "wait")
       ELSE Reports(c, FALSE) /\ UNCHANGED <<done, killed>>
    /\ UNCHANGED <<process, audit, writer, calls>>

Terminate(c) ==
    /\ ActorAt(c, "terminate")
    /\ IF Same(c)
       THEN Signal(c) /\ ActorTo(c, "wait")
       ELSE Reports(c, FALSE) /\ UNCHANGED <<done, killed>>
    /\ UNCHANGED <<process, audit, writer, calls>>

\* A process that ends within three seconds is a success; another one is sent
\* SIGKILL, and one that ended just now is reported as not found.
Wait(c) ==
    /\ ActorAt(c, "wait")
    /\ IF Same(c) THEN ActorTo(c, "kill") ELSE Reports(c, TRUE)
    /\ UNCHANGED <<done, process, killed, audit, writer, calls>>

KillHard(c) ==
    /\ ActorAt(c, "kill")
    /\ IF Same(c)
       THEN process' = [process EXCEPT ![actor[c].pid] = NoProcess] /\ Reports(c, TRUE)
       ELSE Reports(c, FALSE) /\ UNCHANGED process
    /\ UNCHANGED <<done, killed, audit, writer, calls>>

\* Processes end, and a pid is given to another one.
Replaced(i, next) ==
    /\ process[i] # next
    /\ next # NoProcess => \A j \in Pids : process[j] # next
    /\ next \notin killed
    /\ process' = [process EXCEPT ![i] = next]
    /\ UNCHANGED <<actor, done, killed, audit, writer, calls>>

-----------------------------------------------------------------------------
(* record_audit_event                                                      *)

\* Mutant: the size is checked, the lock is not.
UsableUnlocked(f) == Len(audit[f]) < LogSize

\* A file that is full, or locked by another process, is passed over: nobody
\* waits for the lock.
Usable(f) == writer[f] = NoWriter /\ Len(audit[f]) < LogSize

Into(c, f) ==
    /\ actor' = [actor EXCEPT ![c].step = "append", ![c].audit = f]
    /\ writer' = [writer EXCEPT ![f] = c]

Audit(c) ==
    /\ ActorAt(c, "audit")
    /\ \/ Usable("primary") /\ Into(c, "primary")
       \/ ~Usable("primary") /\ Usable("fallback") /\ Into(c, "fallback")
       \/ /\ ~Usable("primary") /\ ~Usable("fallback")
          /\ ActorTo(c, "return")
          /\ UNCHANGED writer
    /\ UNCHANGED <<done, process, killed, audit, calls>>

EventOf(c) == [number |-> actor[c].number, kind |-> actor[c].kind, wanted |-> actor[c].wanted,
               success |-> actor[c].success]

AppendLine(c) ==
    LET f == actor[c].audit IN
    /\ ActorAt(c, "append")
    /\ audit' = [audit EXCEPT ![f] = Append(@, EventOf(c))]
    /\ writer' = [writer EXCEPT ![f] = NoWriter]
    /\ ActorTo(c, "return")
    /\ UNCHANGED <<done, process, killed, calls>>

Answer(c) ==
    /\ ActorAt(c, "return")
    /\ actor' = [actor EXCEPT ![c] = [step |-> "idle"]]
    /\ UNCHANGED <<done, process, killed, audit, writer, calls>>

NextActions ==
    \/ \E i \in Pids, next \in Processes \cup {NoProcess} : Replaced(i, next)
    \/ \E c \in Actors :
        \/ DoStage(c) \/ Find(c) \/ Terminate(c) \/ Wait(c) \/ KillHard(c)
        \/ Audit(c) \/ AppendLine(c) \/ Answer(c)
        \/ \E kind \in Kinds \cap Staged : Act(c, kind)
        \/ \E i \in Pids : KillProcess(c, i)

SpecActions == InitActions /\ [][NextActions]_actionVars

-----------------------------------------------------------------------------
(* Properties                                                              *)

Events == UNION {{audit[f][i] : i \in DOMAIN audit[f]} : f \in Logs}

\* What a success stands for, as the messages of the handlers put it; package
\* and log cleaning promise nothing.
Promised(e) ==
    CASE e.kind = "kill_process" -> {"signal"}
      [] e.kind = "clean_docker_cache" -> {"containers", "networks", "images", "volumes"}
      [] e.kind = "vacuum_systemd_journal" -> {"journal"}
      [] e.kind = "apply_security_updates" -> {"upgrade"}
      [] e.kind \in {"clean_system_logs", "clean_package_cache"} -> {}
      [] e.kind = "update_guardian" -> e.wanted \ {"before", "after"}
      [] OTHER -> e.wanted

\* The audit log tells the truth: an event that says success stands for all its
\* action promised, a call that has been told where its event is finds it there,
\* once, and no two processes race each other past the size of the file.
AuditIsTruthful ==
    /\ \A e \in Events : e.success => Promised(e) \subseteq done[e.number]
    /\ \A c \in Actors : ActorAt(c, "return") /\ actor[c].audit # NotWritten =>
           \E i \in DOMAIN audit[actor[c].audit] : audit[actor[c].audit][i] = EventOf(c)
    /\ \A f \in Logs : Len(audit[f]) <= LogSize
    /\ Cardinality(Events) = Len(audit["primary"]) + Len(audit["fallback"])

\* A protected process is never sent a signal, although pids are reused while
\* kill_process waits.
ProtectedSpared == killed \cap Protected = {}
=============================================================================
