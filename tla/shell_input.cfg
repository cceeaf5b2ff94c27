SPECIFICATION FairSpec
CONSTANTS
    Typists = {a, b}
    Chars = {x, y, z}
    MaxBurst = 2
INVARIANT
    NoStrandedInput
PROPERTY
    AllRead
