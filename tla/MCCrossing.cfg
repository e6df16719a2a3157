CONSTANTS
    alice = alice
    bob = bob
    Peers = {alice, bob}
    PreKeys <- TwoForBob
    ClosedMax = 1
    MaxJump = 4
    Word = 16
    MaxSessions = 3
    MaxInits <- AliceTwice
    MaxSends <- ThreeAndTwo
    MaxCrashes <- Never
    Times = {0, 1, 2, 3, 4, 5, 6, 7, 8, 9}
SPECIFICATION Spec
INVARIANT EncryptReady
PROPERTIES KeepsRecords
CHECK_DEADLOCK FALSE
