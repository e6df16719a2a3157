CONSTANTS
    c1 = c1
    m1 = m1
    p1 = p1
    g1 = g1
    Scenarios = {"status"}
    Chats = {}
    Messages = {m1}
    Contacts = {}
    Groups = {}
    Kinds <- AllKinds
    CacheLimit = 2
    MaxEvents = 4
    MaxCalls = 2
SPECIFICATION ScenarioSpec
CHECK_DEADLOCK FALSE
INVARIANT StatusShows
