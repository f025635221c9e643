\* A key is looked up again while its element is in the list.
CONSTANTS
    Element = {e1}
    Key = {k1}
    Slot = {s1, s2}
    Caller = {main, fd}
    Null = Null
    Run = Run
    Kind = "node"
    AssignOver = FALSE
    MaxCount = 3
    MaxLookups = 3
SPECIFICATION Spec
INVARIANT MembersLive
