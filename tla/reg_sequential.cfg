\* One request at a time; every statement may fail.
CONSTANTS
    Users = {u1, u2}
    Devices = {d1}
    Secrets = {s1, s2}
    Workers = {w1}
    MaxTime = 2
    MaxRows = 3
    Faults = {"select", "update", "insert", "delete", "info"}
    None = None
SPECIFICATION Spec
SYMMETRY Symmetry
INVARIANT TypeOK
INVARIANT MappedHasInfo
