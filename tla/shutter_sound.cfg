SPECIFICATION Spec
CONSTANTS
    N = 3
    MaxWrites = 2
INVARIANTS
    RingNotOverrun
    SoundGoesOn
PROPERTY
    StaysLoud
