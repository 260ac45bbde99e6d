CONSTANTS
    c1 = c1
    c2 = c2
    Sids = {c1, c2}
    Services = {"AVTransport", "RenderingControl"}
    ServiceOf <- Paths
    Bodies = {"news"}
    Period = 2
    MaxSeq = 1
    MaxLate = 2
SPECIFICATION EventingFairSpec
INVARIANTS
    EventingTypeOK
    SeqInOrder
    NothingBeforeAnswer
    ExpiryWatched
PROPERTIES
    RenewalWins
    ImplementsEventChannel
    AbandonedExpire
    WorkersEnd
