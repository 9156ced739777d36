SPECIFICATION Spec

CONSTANTS
    Texts = {"x", "y", "ax", "ay", "bx", "GET", "POST", "LINK", "empty", "ok", "http", "https", "local",
             "Localhost", "localhost", "127.0.0.1", "literal", "get", "null", "/", "80", "443", "fast", "[", "a", "b"}
    Words = {"ax", "ay"}
    Binaries = {"b0"}
    Functions = {"f1", "f2"}
    Null = "null"
    KnownMethods = {"GET", "POST"}
    Upper <- MCUpper
    MaxCalls = 2
    Requests <- MCRequests
    NameOf <- MCNameOf
    RecordHeaders <- MCRecordHeaders
    RecordDelays = TRUE
    Durations = {"fast"}
    Bodyless = {"GET"}
    Literals = {"literal"}
    Respond <- MCRespond
    Ok = "ok"
    Empty = "empty"
    Default <- MCDefault
    Bracket = "["
    Lower <- MCLower
    Loopback = {"localhost", "127.0.0.1"}
    MaxExchanges = 2

INVARIANTS
    ReadsWhatWasCalled
    FileKeepsDefinition
    PlayedBack
    RefusedForCause
