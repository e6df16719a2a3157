CONSTANTS
    o1 = o1
    o2 = o2
    o3 = o3
    k1 = k1
    k2 = k2
    Calls = {o1, o2, o3}
    CacheKeys = {k1, k2}
    Free = Free
    Null = Null
    Absent = Absent
    MaxEvictions = 1
    MaxFailures = 1
    Txs = {o1, o2, o3}
    TxKeys = {k1, k2}
    Nobody = Nobody
    Unset = Unset
    MaxCommitRetries = 2
    MaxKeys = 4
    MaxDeletes = 1
    MaxTxSets = 1
    MaxSets = 2
    Saves = {o1, o2, o3}
    NoFile = NoFile
    Torn = Torn
    MaxMillis = 1
    MaxCrashes = 1
SPECIFICATION Spec
INVARIANTS AllOrNothing FilesSound
PROPERTIES GetsSeeLastSet StoreGoesOn
CHECK_DEADLOCK FALSE
