CONSTANTS
    c1 = c1
    m1 = m1
    p1 = p1
    g1 = g1
    Chats = {c1}
    Messages = {m1}
    Contacts = {}
    Groups = {}
    Kinds <- AllKinds
    Scenarios = {"live"}
    CacheLimit = 2
    MaxEvents = 4
    MaxCalls = 2
SPECIFICATION ScenarioSpec
CHECK_DEADLOCK FALSE
INVARIANTS EverythingShows
PROPERTY BufferingEnds
