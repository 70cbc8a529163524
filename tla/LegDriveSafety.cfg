SPECIFICATION Spec
CONSTANTS
    Reach = 1
    MaxLevel = 1
    NoRequest = none
INVARIANTS
    LockedOutsideMaintenance
    RaceKeepsZero
    FaultHoldStops
PROPERTIES
    SoftFaultNeedsLH
    RampObeysPolicy
    RampNeedsStaleDiag
    SlowEndsRecenter
