CONSTANTS
    n = n
    t = t
    Node = {n}
    Topic = {t}
    Link <- PublisherAndSubscriber
SPECIFICATION FairSpec
INVARIANT TypeOK
PROPERTIES OnlySuspectsDrawn DrawnUnlessInGap NeighboursProposed
