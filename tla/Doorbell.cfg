SPECIFICATION FairSpec
CONSTANTS
    Bit = {heartbeat, camera}
    MaxRestart = 2
INVARIANTS
    ChannelIsServed
PROPERTIES
    ImplementsPromise
    EveryRingIsTaken
