SPECIFICATION HandlerSpec
CONSTANTS
    q1 = q1  q2 = q2  q3 = q3  any = any  one = one  ok = ok  opaque = opaque
    Requests = {q1, q2}
    Requirements = {any, one}
    Matches <- MCMatches
    BodyMethodInvalid = {}
    Malformed = Malformed
    Responses = {ok, NotFound}
    Opaque = {}
    HistoryLimit = 2
    StaticMocks <- OneStaticMock
    Files = {}
    Callers = {c1}
    MaxMocks = 2
    MaxRules = 0
    MaxRecordings = 1
    MaxCalls = 2
    MaxArrivals = 2
    MaxRecorded = 2
    Tasks = {t1, t2}
    Unreadable = {}
    Delayed = {any}
    ResponseOf <- MCResponseOf
    Unbuildable = Unbuildable
    NotFound = NotFound
    Upstream = {ok}
    Nothing = Nothing
    Failed = Failed
SYMMETRY TaskSymmetry
INVARIANTS
    CountedOnce
    RecordingComplete
    ResetForgetsFinished
