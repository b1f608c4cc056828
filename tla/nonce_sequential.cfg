\* One request at a time; the select of CheckNonce may fail.
CONSTANTS
    Keys = {k1, k2}
    Vals = {v1, v2}
    Workers = {w1}
    Window = 1
    MaxTime = 3
    Faults = {"select"}
    Malformed = Malformed
    None = None
SPECIFICATION Spec
INVARIANT TypeOK
PROPERTY NonceSpecRefined
PROPERTY NoExpiredAccept
