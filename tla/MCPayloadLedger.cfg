CONSTANTS
    k1 = k1
    k2 = k2
    k3 = k3
    x = x
    y = y
    None = None
    Keys <- MCKeys
    Bytes <- MCBytes
    BatchLimit = 2
    MaxBlob = 1
    MaxEvents = 2
    MaxStops = 1
SPECIFICATION Spec
SYMMETRY Symmetry
INVARIANTS
    CommittedPayloadIntact
    WorkingPayloadIntact
PROPERTY StopCostsOneBatch
