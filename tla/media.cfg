SPECIFICATION FairMediaSpec
INVARIANT
    ArmedWhileBusy
PROPERTIES
    BoxSpec
    RecordingEndsCleanly
    TriggerWearsOff
