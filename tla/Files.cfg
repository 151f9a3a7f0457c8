\* Two calls of any of the three functions, other programs, errors, kills and
\* power losses; or three records of two kinds and a client that reads them one
\* by one.
SPECIFICATION SpecFiles
CONSTANTS
    Calls = {c1, c2}
    Contents = {a, b}
    Torn = Torn
    MaxStamp = 3
    Ids = {1, 2, 3}
    Kind <- KindOfId
    Capacity <- OneOfEach
    Sizes = {1, 2, 3}
    MaxPayload = 2
    MaxActive = 3
    MaxHistory = 1
    HistoryTime = 1
    Lifetimes = {1}
    Readers = {r1}
    Limit = 1
    MaxClock = 2
SYMMETRY CallSymmetry
CHECK_DEADLOCK FALSE
INVARIANTS NeverTorn NoBlindLoss PagingComplete
PROPERTIES AckDurable ForgetsOnlyExcess
