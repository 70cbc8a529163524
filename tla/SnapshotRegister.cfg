SPECIFICATION FairSpec
CONSTANTS
    Value = {v1, v2}
    NoValue = zero
    MaxSequence = 3
    MaxEpoch = 2
    MaxRestart = 0
PROPERTIES
    ImplementsRegister
    LastRecordArrives
    EventuallyAttached
