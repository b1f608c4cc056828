\* One request at a time; every statement whose error the code checks may fail.
\* The store process runs Init first, may stop at any step and start again;
\* the meta table may hold the expected version v1, an older v0, no row, or
\* be missing.
CONSTANTS
    Devices = {d1}
    Types = {t1, t2}
    Cmds = {c1, c2}
    Workers = {w1}
    MaxTime = 2
    MaxInserts = 3
    Faults = {"update", "insert", "select", "purge"}
    Versions = {v0, v1}
    DB_VERSION = v1
    None = None
SPECIFICATION StoreSpec
INVARIANT StoreTypeOK
INVARIANT AtMostOnePending
INVARIANT NoLostCommand
INVARIANT SetMetaReadBack
PROPERTY CommandSpecRefined
