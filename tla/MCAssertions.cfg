SPECIFICATION AssertSpec
CONSTANTS
    q1 = q1  q2 = q2  q3 = q3  two = two  any = any  one = one
    Requests = {q1, q2, q3}
    Requirements = {any, one, two}
    Matches <- MCMatches
    BodyMethodInvalid = {}
    Malformed = Malformed
    Responses = {}
    Opaque = {}
    HistoryLimit = 1
    StaticMocks <- MCStaticMocks
    Files <- MCFiles
    Callers = {c1}
    MaxMocks = 3
    MaxRules = 0
    MaxRecordings = 0
    MaxCalls = 1
    MaxArrivals = 3
    MaxRecorded = 0
    Testers = {t1}
    Distance <- MCDistance
    MaxExpected = 1
    Unasked = Unasked
INVARIANTS
    HistoryIsSuffix
    ShadowedNeverCounted
    ShownIsNearest
PROPERTIES
    StaticMocksStay
