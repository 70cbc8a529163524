SPECIFICATION FairSpec
CONSTANTS
    Reach = 1
    MaxLevel = 1
    NoRequest = none
PROPERTIES
    CommandsDrive
