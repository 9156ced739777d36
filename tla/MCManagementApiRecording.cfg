SPECIFICATION ApiSpec
CONSTANTS
    near = near  far = far  plain = plain   lie = lie  truth = truth  bad = bad
    Requests = {}
    Requirements = {plain}
    Matches <- MCMatches
    BodyMethodInvalid = {}
    Malformed = Malformed
    Responses = {}
    Opaque = {}
    HistoryLimit = 0
    StaticMocks <- NoStaticMocks
    Files = {}
    Callers = {near, far}
    MaxMocks = 6
    MaxRules = 4
    MaxRecordings = 4
    MaxCalls = 0
    MaxArrivals = 0
    MaxRecorded = 0
    Remote = {far}
    Uses <- FarRecords
    LocalOnly = {}
    WireForm <- MCWireForm
    MaxInvocations = 3
INVARIANTS
    DeletedIsGone
