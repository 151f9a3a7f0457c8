\* One mission of two files that needs checks and a test, from its assignment to its end, with a mishap.
SPECIFICATION Spec
CONSTANTS
    a1 = a1  a2 = a2  m1 = m1  m2 = m2  w1 = w1  w2 = w2  f1 = f1  f2 = f2  x = x  y = y
    Agents = {a1}
    Missions = {m1}
    Spaces = {w1}
    Files = {f1, f2}
    Contents = {x, y}
    Needs <- BothNeeds
    Phases = {"needs_review"}
    MaxActive = 1
    MaxRevision = 9
    MaxMishaps = 1
    MaxDue = 1
    None = None
SYMMETRY Symmetry
INVARIANTS DoneWasApplied
PROPERTIES AppliedOnce ChecksCover
