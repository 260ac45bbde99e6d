CONSTANTS
    monitor = monitor
    handler = handler
    own = own
    group = group
    Nobody = Nobody
    NoQueue = NoQueue
    Callers <- MCCallers
    Queues <- MCQueues
    Target = own
    Token = TRUE
    MaxOps = 2
    MaxSwitches = 1
    MaxChatter = 1

SPECIFICATION Spec

INVARIANTS
    ClientTypeOK
    KeptConnectionIsClean
    LoginComesFirst
    QueueWasActive

PROPERTIES
    NilMeansDone
    OperationsReturn
    ImplementsMACalls
