\* One change set of two files, a content nginx rejects: validation, reload,
\* health check and rollback, each of which may fail.
SPECIFICATION FairSpec
CONSTANTS
    s1 = s1  s2 = s2  p1 = p1  p2 = p2  f1 = f1  f2 = f2
    e0 = e0  a = a  b = b  x = x  t1 = t1
    Servers = {s1}
    Sets = {p1}
    Files = {f1, f2}
    Contents = {e0, b}
    Tokens = {t1}
    Absent = Absent
    Empty = e0
    Bad = {b}
    Binary = {}
    Decoded <- Replaced
    Capacity = 1
    Budgets = {0, 2}
    Mode <- AllControlled
    NoToken = NoToken
    NoServer = NoServer
INVARIANTS RollbackRestores ServedWhole
PROPERTIES LifecycleResolves
