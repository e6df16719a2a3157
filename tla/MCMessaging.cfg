CONSTANTS
    ua = ua
    ub = ub
    uc = uc
    r1 = r1
    r2 = r2
    r3 = r3
    r4 = r4
    r5 = r5
    alice = alice
    club = club
    status = status
    da = da
    db = db
    MaxStates = 2
    MaxForward = 6
    MaxGroupSends = 3
    MaxChains = 2
    MaxDeliveries = 4
    MaxFrames = 7
    FrameBytes = 2
    Inflated = {2, 4}
    Broken = {6}
    Undecodable = {4}
    Users = {ua, ub}
    Lists <- TwoLists
    MaxCalls = 4
    MaxClock = 7
    DevicesTTL = 2
    QueryTicks = 1
    Relays = {r1, r2, r3, r4, r5}
    ChatOf <- MCChatOf
    BytesOf <- MCBytesOf
    DevicesOf <- MCDevicesOf
    Groups = {club}
    Authors = {ua, ub}
    MaxStanzas = 3
    SingleTokens <- MCSingles
    DoubleTokens <- MCDoubles
    Byte = 4
    Wide = 8
    PackedMax = 5
    Inherited <- MCInherited
    Levels <- MCLevels
    Block = 2
    MacBytes = 1
    FileBytes = {0, 3, 4, 7}
    LastByte = 9
    Uploads = {1, 2}
    Hosts = 2
    Pieces = 2
    MaxFetches = 3
    Missed = {1}
    MaxRequests = 3
    MaxTicks = 6
    Attachers = {ua, ub}
    Options = {1, 2}
    Texts = {"", "x"}
    MaxAttached = 3
    Entries <- MCEntries
    People = {ua, ub, uc}
    PairOf = {ua, ub}
    MyDevices <- MCMyDevices
SPECIFICATION Spec
INVARIANTS GroupReadOnce FramesHandedOver ListsSound RelaysApart UnreadOnlyIfOvertaken VotesCounted WrittenComesBack RangeExact UploadsRenewed ResolvedHasCome NewestOfEach KeysMatch
PROPERTIES GroupReadable
CHECK_DEADLOCK FALSE
