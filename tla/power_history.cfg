SPECIFICATION HistorySpec
CONSTANTS
    DebounceLimit = 1
    IdleLimit = 1
INVARIANT
    VisualFollowsPower
