SPECIFICATION Spec
CONSTANTS
    t1 = t1  t2 = t2
    Tests = {t1, t2}
    Servers = {s1}
    Remotes = {}
    Plan <- StartOne
    Faulty = {t1}
    Retries = 0
    None = None
    MaxRequests = 1
INVARIANTS
    NextTestCanStart
