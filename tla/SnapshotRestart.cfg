SPECIFICATION Spec
CONSTANTS
    Value = {v1, v2}
    NoValue = zero
    MaxSequence = 2
    MaxEpoch = 2
    MaxRestart = 1
PROPERTIES
    ImplementsRemnants
    TakesOnlyNewer
