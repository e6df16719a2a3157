CONSTANTS
    alice = alice
    bob = bob
    Peers = {alice, bob}
    PreKeys <- OnePreKey
    ClosedMax = 2
    MaxJump = 4
    Word = 16
    MaxSessions = 2
    MaxInits <- AliceOnly
    MaxSends <- ThreeAndTwo
    MaxCrashes <- BothOnce
    Times = {0, 1, 2, 3, 4, 5, 6, 7, 8, 9}
SPECIFICATION Spec
INVARIANTS KeysUsedOnce EveryMessageReadable PreKeyOrSession
CHECK_DEADLOCK FALSE
