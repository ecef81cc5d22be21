\* XboxTlsClient with every way out of every method.
SPECIFICATION Spec
CONSTANTS
    pin1 = pin1
    pin2 = pin2
    Pins = {pin1, pin2}
    rootsA = rootsA
    rootsB = rootsB
    Stores = {rootsA, rootsB}
    Options <- MCOptions
    Failures = {"VERIFY", "CLOSED"}
    MaxAttempts = 3
SYMMETRY StoreSymmetry
INVARIANTS SocketFollowsTls NetworkBalanced StoreOwnsAnchors PolicyInForce CountersAddUp
PROPERTIES FailedConnectLeavesNothing ConnectReachesNetwork
