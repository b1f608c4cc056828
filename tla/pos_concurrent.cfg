\* Two requests at once, no statement fails: two SetDeviceLocations.
CONSTANTS
    Devices = {d1}
    Coords = {p1, p2}
    MaxTime = 3
    Expiry = 1
    MaxInserts = 3
    None = None
SPECIFICATION Spec
CONSTANTS
    Workers = {w1, w2}
    Faults = {}
INVARIANT NoStalePosition
