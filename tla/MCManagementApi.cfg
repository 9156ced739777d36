SPECIFICATION ApiSpec
CONSTANTS
    near = near  far = far  plain = plain   lie = lie  truth = truth  bad = bad
    Requests = {}
    Requirements = {plain, lie, truth, bad}
    Matches <- MCMatches
    BodyMethodInvalid = {bad}
    Malformed = Malformed
    Responses = {}
    Opaque = {}
    HistoryLimit = 0
    StaticMocks <- NoStaticMocks
    Files <- MCFiles
    Callers = {near, far}
    MaxMocks = 6
    MaxRules = 4
    MaxRecordings = 4
    MaxCalls = 0
    MaxArrivals = 0
    MaxRecorded = 0
    Remote = {far}
    Uses <- MCUses
    LocalOnly = {truth}
    WireForm <- MCWireForm
    MaxInvocations = 2
INVARIANTS
    ApiTypeOK
    HandlesNameTheirThing
    OnlyFailuresOrphan
    DeletedIsGone
    ResetSweeps
    LoadInFileOrder
PROPERTIES
    OnlyOwnDeletes
    HandlesStable
