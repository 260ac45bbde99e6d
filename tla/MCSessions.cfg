CONSTANTS
    Ids = {s1, s2, s3, s4, s5}
    NoSession = NoSession
    Gens = {1, 2}
    MaxSessions = 3
SPECIFICATION SessionsSpec
SYMMETRY Symmetry
INVARIANTS
    SessionsTypeOK
    SessionsBounded
PROPERTIES
    CurrentSpared
    NoSilentRevival
