\* Two requests at once, no statement fails: StoreCommand against GetPending.
CONSTANTS
    Devices = {d1}
    Types = {t1, t2}
    Cmds = {c1, c2}
    MaxTime = 2
    MaxInserts = 3
    None = None
SPECIFICATION Spec
CONSTANTS
    Workers = {w1, w2}
    Faults = {}
INVARIANT NoLostCommand
