\* At most five elements; the same pointer may be in the list twice.
CONSTANTS
    d1 = d1
    d2 = d2
    d3 = d3
    Data = {d1, d2, d3}
    Key <- ListKey
    NoData = noData
    Elems = {e1, e2, e3, e4, e5}
    Null = null
SYMMETRY ListSymmetry
SPECIFICATION Spec
INVARIANTS
    IsChain
PROPERTIES
    ImplementsList
