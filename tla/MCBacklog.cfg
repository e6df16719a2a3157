CONSTANTS
    alice = alice
    bob = bob
    Peers = {alice, bob}
    PreKeys <- OnePreKey
    ClosedMax = 2
    MaxJump = 4
    Word = 16
    MaxSessions = 2
    MaxInits <- BothOnce
    MaxSends <- OneAndThree
    MaxCrashes <- Never
    Times = {0, 1, 2, 3, 4, 5, 6, 7, 8, 9}
SPECIFICATION Spec
PROPERTIES ReadingKeepsOthersReadable
CHECK_DEADLOCK FALSE
