SPECIFICATION FairSpec
CONSTANTS
    Servo = {"left", "right"}
    MaxAngle = 3
    Pose <- ThreePoses
    MaxStep <- StepOfMode
    SettleError = 0
    SettleTicks = 3
    SettleUpdates = 2
    Hold = 2
    MaxShort = 0
INVARIANTS
    FramesAreWhole
    DarkAfterFault
    StableMeansArrived
PROPERTIES
    KeptPoseSettles
