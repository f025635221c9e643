\* mTopics: three addresses and three keys, so that an element between two
\* others is erased before an end is, and its address is allocated again.
CONSTANTS
    Element = {e1, e2, e3}
    Key = {k1, k2, k3}
    Slot = {s1, s2}
    Caller = {main, fd}
    Null = Null
    Run = Run
    Kind = "topic"
    AssignOver = FALSE
    MaxCount = 2
    MaxLookups = 4
SPECIFICATION Spec
SYMMETRY Symmetry
INVARIANTS TypeOK NoDangling CountCoversHolders StaysUnused ListExclusive OneElementPerKey RequestIdMatches
