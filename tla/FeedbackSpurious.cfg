SPECIFICATION Spec
CONSTANTS
    ImuTimeout = 3
    ImuMaxAge = 1
    WheelTimeout = 3
    WheelMaxAge = 1
    MaxGap = 2
    Word = 64
PROPERTIES
    FreshImuIsHealthy
