\* The panel, two helpers, sessions, deployments and snapshots in turn.
SPECIFICATION SpecOperator
CONSTANTS
    h1 = h1  h2 = h2  x1 = x1  x2 = x2  s1 = s1  s2 = s2  d1 = d1  d2 = d2  t1 = t1
    Requests <- AllRequests
    MaxConnects = 2
    MaxChanges = 1
    Helpers = {h1, h2}
    Agents = {x1, x2}
    Sessions = {s1, s2}
    Tools = {t1}
    ProfileTools = {t1}
    Policies <- Saved
    RootLists <- Lists
    MaxAgents = 1
    MaxClock = 1
    Deployers = {h1, h2}
    Plans = {d1, d2}
    Configs = {"old", "new"}
    Valid = {"new"}
    MaxPlans = 1
    PlanTtl = 1
    MaxHour = 1
    MaxEdits = 1
    Areas = {"failed_units", "docker_containers", "config_files"}
    Sections = {"system_health", "failed_units", "system_updates"}
    Items = {1}
    SnapshotIds = {1, 2}
    MaxHostChanges = 2
    CacheTtl = 2
    LastTime = 4
CHECK_DEADLOCK FALSE
INVARIANTS ShownIsCurrent RevokedStaysOut RootsAreCapped ResultIsTrue DriftIsTrue HealthyIsHonest
PROPERTIES SavesWhatWasSeen DeployedOnce RequestEnds
