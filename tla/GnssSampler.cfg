SPECIFICATION FairSpec
CONSTANTS
    Day = 12
    FirstUtc = 10
    FixCount = 2
    MaxAge = 0
    MaxCycle = 3
INVARIANTS
    NoPairIsMissed
    FixIsEarned
PROPERTIES
    SampleIsOnePair
    SilenceIsNoticed
