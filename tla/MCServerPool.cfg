SPECIFICATION FairSpec
CONSTANTS
    t1 = t1  t2 = t2
    Tests = {t1, t2}
    Servers = {s1, s2, r1}
    Remotes = {r1}
    Plan <- Mixed
    Faulty = {t1}
    Retries = 1
    None = None
    MaxRequests = 2
INVARIANTS
    LeaseExclusive
    LeftoversWereInFlight
PROPERTIES
    EveryTestEnds
