\* Two requests at once, no statement fails: two checks of one nonce.
CONSTANTS
    Keys = {k1, k2}
    Vals = {v1, v2}
    Window = 1
    MaxTime = 3
    Malformed = Malformed
    None = None
SPECIFICATION Spec
CONSTANTS
    Workers = {w1, w2}
    Faults = {}
INVARIANT SingleUse
