CONSTANTS
    s1 = s1
    s2 = s2
    i1 = i1
    i2 = i2
    Syncs = {s1, s2}
    Indices = {i1, i2}
    OwnChanges = {"set"}
    MaxVersion = 5
    MaxAttempts = 1
    MaxFailures = 2
    Nothing = Nothing
SPECIFICATION MCSpec
INVARIANTS PatchesVerify ViewFollows
PROPERTIES RoundsEnd
CHECK_DEADLOCK FALSE
