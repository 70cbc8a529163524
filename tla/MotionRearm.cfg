SPECIFICATION Spec
CONSTANTS
    Source = {"vision"}
    RemoteValid = {1}
    UartValid = 1
    MaxGap = 1
    MaxSequence = 2
INVARIANTS
    ArmIsRequiredAgain
