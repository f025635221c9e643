\* Four addresses: a list with two interior elements, erased in any order and
\* allocated again, beside a search.
CONSTANTS
    Element = {e1, e2, e3, e4}
    Null = Null
SPECIFICATION WalkSpec
SYMMETRY Symmetry
INVARIANTS WalkTypeOK Represents PassVisitsAll FindComplete
PROPERTY ImplementsMemberList
