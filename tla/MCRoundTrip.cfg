SPECIFICATION RoundTripSpec
CONSTANTS
    l1 = l1  l2 = l2  l3 = l3  l4 = l4  c1 = c1  c2 = c2  c3 = c3  u1 = u1  u2 = u2  t1 = t1  d = d  here = here  there = there  zero = zero
    Handshakes = {l1, l2, c1, c2, c3, u1, u2}
    Domains = {d}
    Addresses = {here, there, zero}
    Unspecified = zero
    NoName = NoName
    LocalNames = {here}
    Breakable = {c3, u1}
    Workers = 2
    NoCertificate = NoCertificate
    Failure = Failure
    Tunnels = {u1, u2}
    Parts <- MCParts
    LocalAddress = here
    Targets = {there, d}
    ServerNames <- MCServerNames
    Speaks <- MCSpeaks
    Forms <- MCForms
    None = None
    MaxRequests = 1
    Threads = {t1}
    Retries = 1
    MaxJoins = 1
    Lines <- MCLines
    Casts <- MCCasts
CHECK_DEADLOCK FALSE
INVARIANTS
    ConnTypeOK
    DetectedUnlessSplit
    HandlerSeesScheme
    CertificateFits
    ReachedHostCertified
    FailuresAreIndividual
    NoLostWakeup
    LastAttemptCounts
PROPERTIES
    OneCertificatePerHost
    EveryHandshakeEnds
    EveryTunnelOpens
