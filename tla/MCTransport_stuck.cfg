CONSTANTS
    s1 = s1
    s2 = s2
    songA = songA
    songB = songB
    songX = songX
    Ids = {s1, s2}
    NoSession = NoSession
    Gens = {}
    MaxSessions = 3
    Sources = {songA, songB, songX}
    NoSource = NoSource
    Foreign = {}
    Outcomes = {"ok"}
    MaxExternal = 0
    Slots = {h1, h2}
    Monitors = {m1, m2}
    Nobody = Nobody
    Kinds = {"SetURI", "Play", "Stop"}
    MaxRequests = 3
    SourceOf <- OwnSource
SPECIFICATION Spec
INVARIANTS
    NotLeftTransitioning
