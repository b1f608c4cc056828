\* One request at a time; every statement whose error the code checks may fail.
CONSTANTS
    Devices = {d1, d2}
    Coords = {p1, p2}
    Workers = {w1}
    MaxTime = 3
    Expiry = 1
    MaxInserts = 3
    Faults = {"purge", "insert", "gc"}
    None = None
SPECIFICATION Spec
SYMMETRY Symmetry
INVARIANT TypeOK
INVARIANT AtMostOnePosition
INVARIANT NoStalePosition
PROPERTY PositionSpecRefined
