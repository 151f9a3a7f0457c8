\* As Agents.cfg; the one property the queue of tasks does not have.
SPECIFICATION SpecAgents
CONSTANTS
    p1 = p1  p2 = p2  k1 = k1  k2 = k2  t1 = t1  q1 = q1  q2 = q2  q3 = q3
    Procs = {p1, p2}
    Keys = {k1, k2}
    Targets = {t1}
    RunSteps = {1}
    MaxRecords = 1
    MaxFindings = 1
    Ttl = 1
    MaxTime = 3
    TaskIds = {q1, q2, q3}
    MaxTasks = 2
    Leases = {1, 2}
    Skews <- ClockSkews
    Window = 1
    Limit = 3
    Page = 1
    MaxEvents = 4
    LastTick = 2
    Actors = {p1, p2}
    Kinds <- AllKinds
    Pids = {2}
    Processes = {"sshd", "worker"}
    Protected = {"sshd"}
    LogSize = 1
    MaxCalls = 3
    Makers = {p1, p2}
    BaseName <- Sites
    MaxSecond = 1
    MaxBackups = 2
CHECK_DEADLOCK FALSE
INVARIANTS OpenTasksCanStart
