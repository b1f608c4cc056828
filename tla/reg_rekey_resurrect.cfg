\* Two requests at once, no statement fails: a RegisterDevice under user u1
\* interleaved with a GetDevicesForUser that re-keys u1 to u2.
CONSTANTS
    Users = {u1, u2}
    Devices = {d1}
    Secrets = {s1}
    MaxTime = 0
    MaxRows = 2
    None = None
SPECIFICATION Spec
CONSTANTS
    Workers = {w1, w2}
    Faults = {}
PROPERTY NoResurrectedMapping
