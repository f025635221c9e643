CONSTANTS
    m1 = m1
    m2 = m2
    Null = Null
    Member = {m1, m2}
    Name = {m1, m2}
    NodeOf <- MCNodeOf
    InitialNames <- BothNames
    cmMovingWindowSize = 2
    MaxAlerts = 3
    cmBlindspotInterval = 2
    ThresholdNum = 1
    ThresholdDen = 2
SPECIFICATION FairSpec
CHECK_DEADLOCK FALSE
INVARIANTS TypeOK OneWatched RepeatsOnlyUnwatched
PROPERTIES AlertsDrained ImplementsInvestigation
