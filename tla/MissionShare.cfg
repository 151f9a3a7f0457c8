\* Two missions, two agents, one workspace and a mishap.
SPECIFICATION Spec
CONSTANTS
    a1 = a1  a2 = a2  m1 = m1  m2 = m2  w1 = w1  w2 = w2  f1 = f1  f2 = f2  x = x  y = y
    Agents = {a1, a2}
    Missions = {m1, m2}
    Spaces = {w1}
    Files = {f1}
    Contents = {x, y}
    Needs <- NoNeed
    Phases = {"needs_review"}
    MaxActive = 2
    MaxRevision = 3
    MaxMishaps = 1
    MaxDue = 1
    None = None
SYMMETRY Symmetry
INVARIANTS LinkAgrees BriefHonest
