------------------------ MODULE MCSignalConversation ------------------------
\* Model checking of SignalConversation: alice and bob, one one-time pre-key
\* each.  Each configuration says who sets up sessions and who sends.
EXTENDS SignalConversation

CONSTANTS alice, bob

Each(a, b) == [p \in Peers |-> IF p = alice THEN a ELSE b]

OnePreKey == Each({1}, {1})
AliceOnly == Each(1, 0)
BothOnce == Each(1, 1)
ThreeAndTwo == Each(3, 2)
FourAndThree == Each(4, 3)
OneAndThree == Each(1, 3)
Never == Each(0, 0)
AliceTwice == Each(2, 1)
TwoForBob == Each({1}, {1, 2})
TwoEach == Each(2, 2)
=============================================================================
