CONSTANTS
    s1 = s1
    s2 = s2
    songA = songA
    songB = songB
    songX = songX
    Ids = {s1, s2}
    NoSession = NoSession
    Gens = {}
    MaxSessions = 3
    Sources = {songA, songB, songX}
    NoSource = NoSource
    Foreign = {}
    Outcomes = {"ok"}
    MaxExternal = 0
    Slots = {h1}
    Monitors = {m1, m2}
    Nobody = Nobody
    Kinds = {"SetURI", "Play"}
    MaxRequests = 4
    SourceOf <- OwnSource
SPECIFICATION Spec
PROPERTIES
    EventOnlyForCurrent
