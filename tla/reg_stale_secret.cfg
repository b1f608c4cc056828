\* One request at a time, no statement fails: a device registered under a second user.
CONSTANTS
    Users = {u1, u2}
    Devices = {d1}
    Secrets = {s1, s2}
    MaxTime = 2
    MaxRows = 3
    None = None
SPECIFICATION Spec
CONSTANTS
    Workers = {w1}
    Faults = {}
INVARIANT RegistrationCurrent
