CONSTANTS
    n1 = n1
    n2 = n2
    t1 = t1
    rosout = rosout
    Member = {n1, n2, t1, rosout}
    Nodes <- TwoNodes
    Topics <- TwoTopics
    Ignored = {rosout}
    MaxRelations = 2
    Null = Null
SPECIFICATION FairSpec
INVARIANTS TypeOK ViewWellFormed ReportedOnce ReportsSinksAndLoops CoveredBySpots
PROPERTY Terminates
