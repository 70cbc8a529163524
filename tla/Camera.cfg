SPECIFICATION FairSpec
CONSTANTS
    Word = {w1, w2}
    MaxFrame = 3
    MaxEpoch = 2
    MaxRestart = 1
INVARIANTS
    FramesAreOwned
    FrameIsWhole
    ReconnectHoldsNoSlot
PROPERTIES
    ImplementsMailbox
    ReadyIsServed
    SlotsCirculate
