SPECIFICATION RowSpec
CONSTANTS
    w1 = w1
    w2 = w2
    w3 = w3
    Worker = {w1, w2, w3}
    NoOwner = NoOwner
    Ttl = 2
    MaxTime = 4
    MaxVersion = 3
SYMMETRY Symmetry
INVARIANTS OneUnexpiredRecord
PROPERTIES ImplementsRunLease
