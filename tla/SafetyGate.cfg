\* One process, two concurrent calls, a pending map of two tokens: expiry,
\* eviction at capacity and two calls racing for one token.
SPECIFICATION Spec
CONSTANTS
    s1 = s1  s2 = s2  c1 = c1  c2 = c2
    t1 = t1  t2 = t2  t3 = t3  d1 = d1  d2 = d2
    Servers = {s1}
    Calls = {c1, c2}
    Tokens = {t1, t2, t3}
    Demands = {d1, d2}
    EnvMode <- AllControlled
    TTL = 2
    MaxPending = 2
    MaxTime = 2
    NoServer = NoServer
    NoDemand = NoDemand
    NoToken = NoToken
SYMMETRY Symmetry
INVARIANTS ApprovalIsExact
PROPERTIES TokenKept ImplementsContract
