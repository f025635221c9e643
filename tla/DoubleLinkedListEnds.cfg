\* Any element may be erased, as DataStore::run does.
CONSTANTS
    Element = {e1, e2, e3}
    Null = Null
SPECIFICATION ListSpec
INVARIANT DestructorAsserts
