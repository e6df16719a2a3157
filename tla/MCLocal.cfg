CONSTANTS
    j1 = j1
    j2 = j2
    j3 = j3
    j4 = j4
    j5 = j5
    alice = alice
    bob = bob
    t1 = t1
    t2 = t2
    t3 = t3
    t4 = t4
    t5 = t5
    k1 = k1
    k2 = k2
    i1 = i1
    i2 = i2
    Jobs = {j1, j2, j3, j4, j5}
    Buckets = {alice, bob}
    BucketOf <- MCBucketOf
    GcLimit = 2
    Tasks = {t1, t2, t3, t4, t5}
    Keys = {alice, bob}
    KeyOf <- MCKeyOf
    ClosedMax = 2
    MaxSessions = 5
    Times = {1, 2, 3}
    Messages = {k1, k2}
    Ids = {i1, i2}
    IdOf <- TwoIds
    MaxRecent = 1
    MessageTTL = 1
    CounterTTL = 3
    RetryLimit = 2
    MaxTime = 5
    NoMessage = NoMessage
    o1 = o1
    o2 = o2
    o3 = o3
    pa = pa
    pb = pb
    la = la
    lb = lb
    MapCalls = {o1, o2, o3}
    Pns = {pa, pb}
    Lids = {la, lb}
    NoUser = NoUser
    Pairs <- MCPairs
    MaxPairs = 2
SPECIFICATION Spec
INVARIANTS NoJobLost NeverCorrupt NewestKept ResendsBounded MappingsFollow
PROPERTIES QueueSerialises MutexSerialises
CHECK_DEADLOCK FALSE
