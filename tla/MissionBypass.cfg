\* A mission that needs a test and whose import is cut short.
SPECIFICATION Spec
CONSTANTS
    a1 = a1  a2 = a2  m1 = m1  m2 = m2  w1 = w1  w2 = w2  f1 = f1  f2 = f2  x = x  y = y
    Agents = {a1}
    Missions = {m1}
    Spaces = {w1}
    Files = {f1}
    Contents = {x, y}
    Needs <- TestNeed
    Phases = {"working", "needs_review"}
    MaxActive = 1
    MaxRevision = 5
    MaxMishaps = 1
    MaxDue = 1
    None = None
SYMMETRY Symmetry
PROPERTIES TaskNeverBypassed
