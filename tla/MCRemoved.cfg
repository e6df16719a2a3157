CONSTANTS
    s1 = s1
    s2 = s2
    i1 = i1
    i2 = i2
    Syncs = {s1, s2}
    Indices = {i1, i2}
    OwnChanges = {"set", "remove"}
    MaxVersion = 4
    MaxAttempts = 2
    MaxFailures = 3
    Nothing = Nothing
SPECIFICATION MCSpec
INVARIANT PatchesVerify
CHECK_DEADLOCK FALSE
