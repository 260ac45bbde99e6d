CONSTANTS
    s1 = s1
    o1 = o1
    o2 = o2
    c1 = c1
    c2 = c2
    l1 = l1
    Ids = {s1}
    NoSession = NoSession
    Gens <- MCGens
    MaxSessions = 2
    Sid = s1
    Objs = {o1, o2}
    NoStream = NoStream
    Callers = {c1, c2}
    Listeners = {l1}
    Nobody = Nobody
    MaxClients = 1
    MaxOps = 3
SPECIFICATION StreamsSpec
SYMMETRY Symmetry
INVARIANTS
    StreamsTypeOK
    RunTracking
    TimeoutSparesListeners
    NoStrandedClients
