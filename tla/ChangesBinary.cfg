\* One file that is not UTF-8: the rollback does not bring it back.
SPECIFICATION Spec
CONSTANTS
    s1 = s1  s2 = s2  p1 = p1  p2 = p2  f1 = f1  f2 = f2
    e0 = e0  a = a  b = b  x = x  t1 = t1
    Servers = {s1}
    Sets = {p1}
    Files = {f1}
    Contents = {e0, a, x}
    Tokens = {}
    Absent = Absent
    Empty = e0
    Bad = {}
    Binary = {x}
    Decoded <- Replaced
    Capacity = 1
    Budgets = {1}
    Mode <- AllUnrestricted
    NoToken = NoToken
    NoServer = NoServer
INVARIANTS RollbackRestores
