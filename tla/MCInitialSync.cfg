CONSTANTS
    c1 = c1
    m1 = m1
    p1 = p1
    g1 = g1
    Chats = {c1}
    Messages = {}
    Contacts = {p1}
    Groups = {g1}
    Kinds <- AllKinds
    Scenarios = {"sync", "directory"}
    CacheLimit = 0
    MaxEvents = 5
    MaxCalls = 2
SPECIFICATION ScenarioSpec
CHECK_DEADLOCK FALSE
INVARIANTS InitialSyncShows
