SPECIFICATION FairHandlerSpec
CONSTANTS
    q1 = q1  q2 = q2  q3 = q3  any = any  one = one  ok = ok  opaque = opaque
    Requests = {q1, q2, q3}
    Requirements = {any, one}
    Matches <- MCMatches
    BodyMethodInvalid = {}
    Malformed = Malformed
    Responses = {ok, opaque, NotFound}
    Opaque = {opaque}
    HistoryLimit = 0
    StaticMocks <- NoStaticMocks
    Files = {}
    Callers = {}
    MaxMocks = 2
    MaxRules = 1
    MaxRecordings = 1
    MaxCalls = 1
    MaxArrivals = 1
    MaxRecorded = 1
    Tasks = {t1}
    Unreadable = {q3}
    Delayed = {any}
    ResponseOf <- MCResponseOf
    Unbuildable = Unbuildable
    NotFound = NotFound
    Upstream = {ok, opaque}
    Nothing = Nothing
    Failed = Failed
INVARIANTS
    PriorityRespected
PROPERTIES
    EveryRequestEnds
