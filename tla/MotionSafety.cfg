SPECIFICATION FairSpec
CONSTANTS
    Source = {"wireless", "vision"}
    RemoteValid = {1, 2}
    UartValid = 1
    MaxGap = 2
    MaxSequence = 1
INVARIANTS
    HaltedNeverMoves
    MotionIsAuthorised
    NoRequestResumes
    EnabledIsKnown
PROPERTIES
    SilenceStops
