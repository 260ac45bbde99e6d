CONSTANTS
    FreshMin = 1
    FreshMax = 5
    FreshHold = 5
    ZeroLimit = 2
    Guard = 5
    ZeroFor = 3
    Slack = 1
    Tolerance = 4
    MaxPos = 7
SPECIFICATION Spec
INVARIANTS
    PositionTypeOK
    AnswersNearPlayer
    ResumesInPlace
