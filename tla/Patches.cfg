\* Two patches and two unrestricted processes, or one patch, two processes of
\* which one is controlled, and an operator who changes the settings.
SPECIFICATION SpecEither
CONSTANTS
    s1 = s1  s2 = s2  s3 = s3  p1 = p1  p2 = p2  f1 = f1  a = a  b = b  t1 = t1
    Servers = {s1, s2, s3}
    Patches = {p1, p2}
    Files = {f1}
    Contents = {a, b}
    Tokens = {t1}
    Absent = Absent
    Capacity = 2
    Policies <- EitherPolicy
    EnvMode <- OneControlled
    NoToken = NoToken
    NoServer = NoServer
SYMMETRY Symmetry
INVARIANTS OutcomeTruthful AppliedAsReviewed TestedIsCurrent
PROPERTIES NothingLost ImplementsLifecycle
