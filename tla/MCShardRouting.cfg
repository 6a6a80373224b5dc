CONSTANTS
    dA = dA
    dB = dB
    dC = dC
    Nil = Nil
    Digests <- MCDigests
    KeyOf <- MCKeyOf
    HashInit <- MCHashInit
    Drained <- MCDrained
    NumSlots = 3
    KeyBytes <- MCKeyBytes
    MaxKeyLen = 2
SPECIFICATION RoutingSpec
INVARIANT TypeOK
INVARIANT JoinReportsFailure
INVARIANT FindMissingExact
INVARIANT HashMatchesReference
PROPERTY FindMissingReturns
