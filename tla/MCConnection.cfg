CONSTANTS
    q1 = q1
    Login = Login
    Link = Link
    Asked = {q1}
    MaxRefs = 2
    u1 = u1
    u2 = u2
    u3 = u3
    Uploads = {u1, u2, u3}
    NoKey = NoKey
    Batch = 1
    MaxId = 3
    MaxRotations = 3
    MaxRequests = 3
    MaxSeals = 3
SPECIFICATION Spec
INVARIANTS NothingLeft PublicKeysKnown ChannelSound
PROPERTIES SilenceEnds LoginEnds
CHECK_DEADLOCK FALSE
