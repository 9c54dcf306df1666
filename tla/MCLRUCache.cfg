SPECIFICATION Spec
CONSTANTS
    Keys = {k1, k2, k3, k4}
    Values = {v1, v2}
    Entries = {e1, e2, e3}
    Head = Head
    Tail = Tail
    NULL = NULL
    Absent = Absent
    Wild = Wild
    None = None
    MaxUses = 7
    MaxMisses = 2
CONSTRAINT Bounded
SYMMETRY Symmetry
INVARIANT ListInOrderOfUse
PROPERTY ImplementsLRU
