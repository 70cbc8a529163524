SPECIFICATION FairSpec
CONSTANTS
    ImuTimeout = 3
    ImuMaxAge = 1
    WheelTimeout = 3
    WheelMaxAge = 1
    MaxGap = 2
    Word = 64
INVARIANTS
    FaultStopsMotors
    StaleImuFaults
PROPERTIES
    SilentWheelsStop
    SilentImuStops
