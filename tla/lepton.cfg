SPECIFICATION FairSpec
CONSTANTS
    AsyncLimit = 3
    ResetLimit = 2
INVARIANTS
    SelectedToResynchronise
    CameraFollowsPower
    AwakeWhileOn
PROPERTIES
    BoxSpec
    PowerOffObeyed
    PictureRefreshed
