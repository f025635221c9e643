CONSTANTS
    Nobody = Nobody
    MaxAttempts = 3
    MaxFailures = 3
SPECIFICATION FairSpec
INVARIANTS TypeOK NoCircularWait GivesUpOneShort
PROPERTY StopsOnceRunning
