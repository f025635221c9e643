CONSTANTS
    NodeKey = {n}
    TopicKey = {t}
    Other = {o1, o2}
    Null = Null
    MaxSent = 2
    MaxRequests = 2
SPECIFICATION FairSpec
INVARIANTS TypeOK NotesReturnedOnce
PROPERTIES DropsOnlyBeforeStored UpdatesReceived
