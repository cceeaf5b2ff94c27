SPECIFICATION FairSpec
CONSTANTS
    DebounceLimit = 0
    IdleLimit = 1
PROPERTIES
    PowerFollowsHand
