\* The configured window of ten values, and one push beyond it; two blocks are
\* one to stay in and one to move to.
CONSTANTS
    Value = {0, 1, 7}
    mMaxSize = 10
    Block = {b1, b2}
    NoBlock = NoBlock
    MaxPushes = 11
SPECIFICATION BufferSpec
CHECK_DEADLOCK FALSE
INVARIANTS BufferTypeOK CurrentIsNewest SumsAgree OutlierNeedsEleven
